-------------------------------- MODULE Batch --------------------------------
(***************************************************************************)
(* mmctl batch (src/backend/mmctl/__main__.py): the questions of a file    *)
(* asked one after the other, their results appended to a second file, and *)
(* a batch that was killed or stopped resumed from it.  How a question     *)
(* goes is AskModes; a question asked by itself, by the server or by mmctl *)
(* ask, is the other way to begin.                                         *)
(***************************************************************************)
EXTENDS AskModes

CONSTANTS
    Count,      \* the jobs of the input file, numbered in its order
    Query,      \* what each of them asks
    NoQuery,    \* nothing
    Named,      \* the jobs with an id
    MaxCrashes, \* bound: kills of the batch
    MaxResumes  \* bound: resumes of it

Jobs == 1 .. Count
NoJob == 0

ASSUME CountAssumption == Count \in Nat \ {0}
ASSUME QueryAssumption ==
    Query \in [Jobs -> [mode : Modes, streamed : {FALSE}, checked : BOOLEAN,
                        tools : BOOLEAN] \cup {NoQuery}]
ASSUME NamedAssumption == Named \subseteq Jobs
ASSUME BoundsAssumption == MaxCrashes \in Nat /\ MaxResumes \in Nat

VARIABLES
    batch,      \* "lone": no batch; "running", "over" or "dead"
    todo,       \* the jobs not yet begun
    at,         \* the job being asked, or NoJob
    entered,    \* the jobs of todo are past the look at stop_on_budget, and wait
    stopped,    \* stop_on_budget is set
    skipped,    \* the jobs skipped for it
    rows,       \* rows[j]: the statuses the output file has of job j
    torn,       \* its last line is cut off
    answered,   \* history: how often each job got its answer
    crashes,    \* kills so far
    resumes     \* resumes so far

pass     == <<todo, at, entered, stopped, skipped>>
output   == <<rows, torn>>
history  == <<answered, crashes, resumes>>
all      == <<vars, batch, pass, output, history>>

-----------------------------------------------------------------------------
\* A new question, with the budget as the one before left it.
Asked(q) ==
    /\ ask' = q /\ source' = "none"
    /\ stage' = "asked" /\ turn' = 1 /\ asking' = 1
    /\ draft' = "empty" /\ text' = "empty"
    /\ left' = Enabled /\ blank' = FALSE /\ alone' = FALSE /\ fellBack' = FALSE
    /\ calls' = 0 /\ spent' = 0 /\ total' = 0
    /\ outcome' = "none"

\* ask returned an answer, whatever it is worth.
Answered == stage = "ended" /\ outcome \notin {"refused", "error", "abandoned"}

\* It raised BudgetExceededError: the check before a single call.
OverBudget == stage = "ended" /\ outcome = "error" /\ ~Fits /\ left > 0

\* The jobs without a question.
Void == {j \in Jobs : Query[j] = NoQuery}

First(js) == CHOOSE j \in js : \A k \in js : j <= k

\* Mutant of Unfinished: every job of the input is asked again.
UnfinishedAll == Jobs

\* What a resume asks: the jobs whose id has no "ok" row.  One without an id
\* got a random one in its row, and is asked again each time.
Unfinished == {j \in Jobs : ~(j \in Named /\ "ok" \in rows[j])}

\* The stages that look for documents.
Sources == (SourceKinds \ {"none"}) \cup {"pages", "search"}

-----------------------------------------------------------------------------
(* A pass over the jobs, one at a time as --parallel has it by default *)

\* The others are started as soon as the job in hand waits for something, and
\* those that ask nothing get their row.
Enters ==
    /\ entered' = TRUE
    /\ todo' = todo \ Void
    /\ rows' = [j \in Jobs |-> IF j \in todo \cap Void THEN rows[j] \cup {"failed"} ELSE rows[j]]

\* Waiting happens in a call, in the rate limiter before it, and in a search,
\* not where a question is taken or the budget refuses.
MayWait == stage # "asked" /\ (Fits \/ calls' # calls \/ stage \in Sources)

\* The job in hand goes on, and the others may enter; when it calls they do.
Goes ==
    /\ batch \in {"lone", "running"}
    /\ batch = "running" => at # NoJob
    /\ Next
    /\ \/ (batch = "lone" \/ calls' = calls) /\ UNCHANGED <<entered, todo, rows>>
       \/ batch = "running" /\ MayWait /\ Enters
    /\ answered' = IF batch = "running" /\ Answered'
                     THEN [answered EXCEPT ![at] = @ + 1] ELSE answered
    /\ UNCHANGED <<batch, at, stopped, skipped, torn, crashes, resumes>>

\* The next job, in the order of the file, gets the semaphore.
Begins ==
    /\ batch = "running" /\ at = NoJob
    /\ todo # {} /\ (entered \/ ~stopped)
    /\ LET j == First(todo)
       IN /\ todo' = todo \ {j}
          /\ IF j \in Void
               THEN /\ rows' = [rows EXCEPT ![j] = @ \cup {"failed"}]
                    /\ UNCHANGED <<vars, at>>
               ELSE /\ at' = j
                    /\ Asked(Query[j])
                    /\ UNCHANGED <<used, rows>>
    /\ UNCHANGED <<batch, entered, stopped, skipped, torn, history>>

\* A job that is started after the budget was exceeded.
Skips ==
    /\ batch = "running" /\ at = NoJob
    /\ todo # {} /\ ~entered /\ stopped
    /\ skipped' = skipped \cup todo
    /\ todo' = {}
    /\ UNCHANGED <<vars, batch, at, entered, stopped, output, history>>

\* The result or the error becomes a row.
Ends ==
    /\ batch = "running" /\ at # NoJob
    /\ stage = "ended"
    /\ rows' = [rows EXCEPT ![at] = @ \cup {IF Answered THEN "ok" ELSE "failed"}]
    /\ stopped' = (stopped \/ OverBudget)
    /\ at' = NoJob
    /\ UNCHANGED <<vars, batch, todo, entered, skipped, torn, history>>

Over ==
    /\ batch = "running" /\ at = NoJob /\ todo = {}
    /\ batch' = "over"
    /\ UNCHANGED <<vars, pass, output, history>>

\* The command is killed; if it was writing a row, half of it may be there.
\* What was recorded with the budget is on file.
Crash ==
    /\ batch = "running"
    /\ crashes < MaxCrashes
    /\ crashes' = crashes + 1
    /\ batch' = "dead"
    /\ torn' \in IF (at # NoJob /\ stage = "ended") \/ todo \cap Void # {}
                   THEN BOOLEAN ELSE {FALSE}
    /\ Asked(ask)
    /\ UNCHANGED <<used, pass, rows, answered, resumes>>

\* mmctl batch resume reads both files, and refuses one with a torn line.
\* Other questions, and other days, leave the budget at another amount.
Resume ==
    /\ batch \in {"over", "dead"}
    /\ resumes < MaxResumes
    /\ ~torn
    /\ Unfinished # {}
    /\ resumes' = resumes + 1
    /\ batch' = "running"
    /\ todo' = Unfinished /\ at' = NoJob
    /\ entered' = FALSE /\ stopped' = FALSE /\ skipped' = {}
    /\ Asked(ask) /\ used' \in Before
    /\ UNCHANGED <<output, answered, crashes>>

\* mmctl batch run empties the output file.
BatchInit ==
    /\ Init
    /\ \/ batch = "lone" /\ todo = {}
       \/ batch = "running" /\ todo = Jobs
          /\ ask = [mode |-> "single", streamed |-> FALSE, checked |-> FALSE, tools |-> FALSE]
    /\ at = NoJob
    /\ entered = FALSE /\ stopped = FALSE /\ skipped = {}
    /\ rows = [j \in Jobs |-> {}] /\ torn = FALSE
    /\ answered = [j \in Jobs |-> 0]
    /\ crashes = 0 /\ resumes = 0

BatchStep == Goes \/ Begins \/ Skips \/ Ends \/ Over

BatchNext == BatchStep \/ Crash \/ Resume

BatchSpec == BatchInit /\ [][BatchNext]_all

\* An answer is being streamed.
Streaming ==
    ask.streamed /\ (stage = "refineStream" \/ (stage = "single" /\ ask.mode = "single"))

\* Every other call has a timeout and every wait for the rate limiter a limit,
\* so a question that can go on does, and so does a batch.  A stream of Google's
\* client has none (google_adapter.py:28, 90).
FairBatchSpec == BatchSpec /\ WF_all(BatchStep /\ ~Streaming)

-----------------------------------------------------------------------------
(* Properties *)

BatchTypeOK ==
    /\ batch \in {"lone", "running", "over", "dead"}
    /\ todo \subseteq Jobs /\ skipped \subseteq Jobs
    /\ at \in Jobs \cup {NoJob}
    /\ entered \in BOOLEAN /\ stopped \in BOOLEAN /\ torn \in BOOLEAN
    /\ rows \in [Jobs -> SUBSET {"ok", "failed"}]
    /\ answered \in [Jobs -> 0 .. 1 + MaxResumes]
    /\ crashes \in 0 .. MaxCrashes /\ resumes \in 0 .. MaxResumes

\* A job with an id is answered, and paid for, once, whatever was killed and
\* resumed: once more only if the kill fell between its answer and its row.
NamedJobsAreAnsweredOnce ==
    \A j \in Named :
        /\ answered[j] <= 1 + crashes
        /\ ("ok" \in rows[j] /\ at = NoJob) => answered[j] > 0

\* When a batch is over, every job has a row of its fate or was skipped, which
\* happens only before the first call of a pass.
JobsAreAccounted ==
    batch = "over" =>
        \A j \in Jobs : rows[j] # {} \/ (j \in skipped /\ stopped /\ ~entered)

BatchOK == BatchTypeOK /\ NamedJobsAreAnsweredOnce /\ JobsAreAccounted

\* What is recorded never passes the cap, except by the answers of a consensus
\* poll, which are all let in before the first is billed.
Polls ==
    \/ ask.mode = "consensus"
    \/ batch # "lone" /\ \E j \in Jobs \ Void : Query[j].mode = "consensus"

BudgetHolds == used <= Cap + (IF Polls THEN Enabled - 1 ELSE 0)

\* Retries, repairs and fallbacks neither multiply the calls of a question nor
\* take a question or a batch of them past the cap.
SpendingIsBounded == CallsAreBounded /\ BudgetHolds

\* Every question ends or comes to stream its answer, and every batch comes to
\* its last job, unless it is killed.
Asking == batch = "running" \/ (batch = "lone" /\ stage # "ended")
AskedIsEnded == Asking ~> (~Asking \/ Streaming)
=============================================================================
