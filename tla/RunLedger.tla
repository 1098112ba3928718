----------------------------- MODULE RunLedger -----------------------------
(***************************************************************************)
(* The run ledger of the orchestrator's HTTP server                        *)
(* (src/backend/orchestrator/server.py, the closures of create_app over    *)
(* the dictionary "runs" and its file runs.json).                          *)
(*                                                                         *)
(* The server is one asyncio thread: the code of a handler between two     *)
(* awaits is atomic.  The only awaits of the ledger's handlers are the     *)
(* calls of the orchestrator, so a request is one action up to that call,  *)
(* a slot of "exec" while the call is pending, and one action (Answer,     *)
(* Retry, Fail) when the call comes back.                                  *)
(***************************************************************************)
EXTENDS Naturals, FiniteSets

CONSTANTS
    RunIds,       \* run identifiers
    Slots,        \* bound: orchestrator calls in flight at once
    DepChoices,   \* bound: dependency sets a request may carry
    Requests,     \* the kinds of request the clients of this instance send
    StaleAfter,   \* MMO_RUN_STALE_SECONDS, in ticks
    MaxOps,       \* bound: client requests served
    MaxRestarts,  \* bound: crashes of the server
    Idle          \* a slot without a call

AllRequests == {"submit", "resubmit", "stream", "heartbeat", "dependencies",
                "resume", "delete", "clear", "hold", "override"}

ASSUME ConstantsAssumption ==
    /\ DepChoices \subseteq SUBSET RunIds
    /\ Requests \subseteq AllRequests
    /\ StaleAfter \in Nat \ {0}
    /\ MaxOps \in Nat
    /\ MaxRestarts \in Nat

VARIABLES
    runs,      \* runs[r]: the row of r in memory, Absent if there is none
    disk,      \* what a restart would load from runs.json
    exec,      \* exec[s]: the orchestrator call in flight in slot s, or Idle
    used,      \* run ids ever handed out
    everDone,  \* history: runs whose row has once been "completed"
    orphaned,  \* history: runs whose row was removed under a call in flight
    late,      \* history: some call has been in flight for StaleAfter ticks
    ops,       \* client requests served so far
    restarts   \* crashes so far

vars == <<runs, disk, exec, used, everDone, orphaned, late, ops, restarts>>

-----------------------------------------------------------------------------
(* Rows.  A dependency list is the set it denotes; of the explicit          *)
(* blockers only whether one is open ("held") matters.  "beaten" says that  *)
(* last_heartbeat_at is set, "quiet" is the age of last_heartbeat_at if it  *)
(* is, of updated_at otherwise, and stops counting at StaleAfter.           *)

ActiveStatuses == {"running", "resuming", "waiting", "paused"}
Statuses       == ActiveStatuses \cup {"blocked", "completed", "failed"}

Row == [status  : Statuses \cup {"absent"},
        endpoint: {"ask", "chat", "none"},
        deps    : SUBSET RunIds,
        held    : BOOLEAN,
        reqDeps : SUBSET RunIds,     \* request["depends_on"]
        reqHeld : BOOLEAN,           \* an open blocker in request["blockers"]
        beaten  : BOOLEAN,
        quiet   : 0..StaleAfter]

Absent == [status |-> "absent", endpoint |-> "none", deps |-> {}, held |-> FALSE,
           reqDeps |-> {}, reqHeld |-> FALSE, beaten |-> FALSE, quiet |-> 0]

Present(r) == runs[r].status # "absent"

\* A call in flight: the run it belongs to, the handler that awaits it,
\* whether it is the strict-profile retry, the dependencies of the request,
\* and how long ago the request began.
Calls == [run  : RunIds,
          kind : {"ask", "chat", "stream"},
          retry: BOOLEAN,
          deps : SUBSET RunIds,
          age  : 0..StaleAfter]

ASSUME IdleAssumption == Idle \notin Calls

Busy(s)     == exec[s] # Idle
InFlight(r) == {s \in Slots : Busy(s) /\ exec[s].run = r}

\* (mutant) a dependency that is not in the ledger is skipped.
DependencyBlockersIgnoringMissing(rs, D) == {d \in D : rs[d].status \notin {"completed", "absent"}}

\* _dependency_blockers: a missing dependency and one in any status other
\* than "completed" are both open blockers.
DependencyBlockers(rs, D) == {d \in D : rs[d].status # "completed"}

\* _collect_open_blockers is non-empty.
RunIsBlocked(rs, D, h) == h \/ DependencyBlockers(rs, D) # {}

\* (mutant) "resuming" is forgotten among the statuses that can go stale.
RunIsStaleUnlessResuming(row) ==
    row.status \in ActiveStatuses \ {"resuming"} /\ row.quiet >= StaleAfter

\* _run_stale_info
RunIsStale(row) == row.status \in ActiveStatuses /\ row.quiet >= StaleAfter

\* updated_at := now, which is the row's age only while no heartbeat is known.
Touch(row) == [row EXCEPT !.quiet = IF row.beaten THEN @ ELSE 0]

\* _update_run: a row that is no longer there is created again, bare.
Updated(row, status) == [Touch(row) EXCEPT !.status = status]

\* (mutant) updated_at is not refreshed by a start.
StartedKeepingAge(row, ep, D, h) ==
    [row EXCEPT !.status = "running", !.endpoint = ep,
                !.deps = D, !.held = h, !.reqDeps = D, !.reqHeld = h]

\* (mutant) the endpoint is not stored with the request.
StartedWithoutEndpoint(row, ep, D, h) ==
    [Touch(row) EXCEPT !.status = "running",
                       !.deps = D, !.held = h, !.reqDeps = D, !.reqHeld = h]

\* _start_run, before its own check for blockers.  The heartbeat fields of an
\* older row survive, its dependencies and blockers do not.
Started(row, ep, D, h) ==
    [Touch(row) EXCEPT !.status = "running", !.endpoint = ep,
                       !.deps = D, !.held = h, !.reqDeps = D, !.reqHeld = h]

\* _save_runs_to_disk after every change, and the history of completions.
Commit(rs) ==
    /\ runs' = rs
    /\ disk' = rs
    /\ everDone' = everDone \cup {r \in RunIds : rs[r].status = "completed"}

\* One more client request of a kind this instance sends.
Serve(kind) == kind \in Requests /\ ops < MaxOps /\ ops' = ops + 1

\* Payloads carry open explicit blockers only where "hold" is enabled, and a
\* final status only where "override" is.
MayHold(h) == h => "hold" \in Requests
MayOverride(status) == status \in {"completed", "failed"} => "override" \in Requests

-----------------------------------------------------------------------------
(* Starting.  Begin is _start_run, _require_run_ready and the code up to    *)
(* the orchestrator call, common to /v1/ask, /v1/chat and a resume.         *)

BeginBlocked(r, ep, D, h) ==
    LET rs == [runs EXCEPT ![r] = Started(runs[r], ep, D, h)]
    IN  /\ RunIsBlocked(rs, D, h)
        /\ Commit([rs EXCEPT ![r].status = "blocked"])
        /\ UNCHANGED exec

BeginCall(r, kind, D, h) ==
    LET rs == [runs EXCEPT ![r] = Started(runs[r], IF kind = "chat" THEN "chat" ELSE "ask", D, h)]
    IN  /\ ~RunIsBlocked(rs, D, h)
        /\ Commit(rs)
        /\ \E s \in Slots :
              /\ ~Busy(s)
              /\ exec' = [exec EXCEPT ![s] = [run |-> r, kind |-> kind, retry |-> FALSE,
                                              deps |-> D, age |-> 0]]

\* chat only: _ensure_session_project raises 409 after the run was started,
\* and nothing takes the row out of "running".
BeginConflict(r, D, h) ==
    LET rs == [runs EXCEPT ![r] = Started(runs[r], "chat", D, h)]
    IN  /\ ~RunIsBlocked(rs, D, h)
        /\ Commit(rs)
        /\ UNCHANGED exec

Begin(r, kind, D, h) ==
    \/ BeginBlocked(r, IF kind = "chat" THEN "chat" ELSE "ask", D, h)
    \/ BeginCall(r, kind, D, h)
    \/ kind = "chat" /\ BeginConflict(r, D, h)

\* POST /v1/ask and /v1/chat.  Without a run_id the server draws a new one;
\* a client may also name a run that exists, and no handler objects.
Submit(r, kind, D, h) ==
    /\ \/ r \notin used /\ Serve("submit")
       \/ r \in used /\ Serve("resubmit")
    /\ kind = "stream" => "stream" \in Requests
    /\ MayHold(h)
    /\ used' = used \cup {r}
    /\ Begin(r, kind, D, h)
    /\ UNCHANGED <<orphaned, late, restarts>>

\* (mutant) any row with a request may be resumed, an active one too.
MayResumeActive(row) == row.status # "absent" /\ row.endpoint # "none"

\* resume_run: refused while the row is active and not stale, or without a
\* checkpointed request; otherwise the request is replayed, not as a stream.
MayResume(row) ==
    /\ row.status # "absent"
    /\ ~(row.status \in ActiveStatuses /\ ~RunIsStale(row))
    /\ row.endpoint # "none"

Resume(r) ==
    /\ Serve("resume")
    /\ MayResume(runs[r])
    /\ Begin(r, runs[r].endpoint, runs[r].reqDeps, runs[r].reqHeld)
    /\ UNCHANGED <<used, orphaned, late, restarts>>

-----------------------------------------------------------------------------
(* The orchestrator's answers.                                              *)

Finish(s, status) ==
    LET r == exec[s].run
    IN  /\ Commit([runs EXCEPT ![r] = Updated(runs[r], status)])
        /\ exec' = [exec EXCEPT ![s] = Idle]
        /\ UNCHANGED <<used, orphaned, late, ops, restarts>>

Answer(s) == Busy(s) /\ Finish(s, "completed")

Fail(s) == Busy(s) /\ Finish(s, "failed")

\* strict_profile and an answer that does not comply: one second call, from
\* the non-streaming handlers only.
Retry(s) ==
    /\ Busy(s)
    /\ exec[s].kind # "stream"
    /\ ~exec[s].retry
    /\ exec' = [exec EXCEPT ![s].retry = TRUE]
    /\ UNCHANGED <<runs, disk, used, everDone, orphaned, late, ops, restarts>>

\* The client of a stream goes away: the generator is cancelled, which
\* "except Exception" does not see, and the row stays as it is.
StreamDropped(s) ==
    /\ Busy(s)
    /\ exec[s].kind = "stream"
    /\ exec' = [exec EXCEPT ![s] = Idle]
    /\ UNCHANGED <<runs, disk, used, everDone, orphaned, late, ops, restarts>>

-----------------------------------------------------------------------------
(* The other handlers.                                                      *)

\* heartbeat_run.  Dependencies and blockers may come along; a run with open
\* blockers becomes "blocked" whatever the payload says.
Heartbeat(r, status, D, h) ==
    /\ Serve("heartbeat")
    /\ Present(r)
    /\ status \in ActiveStatuses \cup {"blocked"}
    /\ MayHold(h)
    /\ LET new == IF RunIsBlocked(runs, D, h) THEN "blocked" ELSE status
       IN  Commit([runs EXCEPT ![r] = [@ EXCEPT !.status = new, !.deps = D, !.held = h,
                                                !.beaten = TRUE, !.quiet = 0]])
    /\ UNCHANGED <<exec, used, orphaned, late, restarts>>

\* update_run_dependencies.  "keep" is a payload without a (known) status.
PatchedStatus(row, status, blocked) ==
    IF blocked /\ status \in {"keep", "running", "waiting"} THEN "blocked"
    ELSE IF ~blocked /\ status = "blocked" THEN "running"
    ELSE IF status = "keep" THEN row.status
    ELSE status

UpdateDependencies(r, status, D, h) ==
    /\ Serve("dependencies")
    /\ Present(r)
    /\ MayHold(h)
    /\ MayOverride(status)
    /\ LET new == PatchedStatus(runs[r], status, RunIsBlocked(runs, D, h))
       IN  Commit([runs EXCEPT ![r] = [Updated(@, new) EXCEPT !.deps = D, !.held = h]])
    /\ UNCHANGED <<exec, used, orphaned, late, restarts>>

\* Rows disappear; a call in flight for one of them goes on.
Remove(gone) ==
    /\ Commit([r \in RunIds |-> IF r \in gone THEN Absent ELSE runs[r]])
    /\ orphaned' = orphaned \cup {r \in gone : InFlight(r) # {}}
    /\ UNCHANGED <<exec, used, late, restarts>>

DeleteRun(r) == Serve("delete") /\ Present(r) /\ Remove({r})

ClearRuns(status) ==
    /\ Serve("clear")
    /\ Remove({r \in RunIds : Present(r) /\ status \in {"all", runs[r].status}})

-----------------------------------------------------------------------------
(* Time and crashes.                                                        *)

Older(n) == IF n < StaleAfter THEN n + 1 ELSE n

Tick ==
    /\ runs' = [r \in RunIds |-> IF Present(r) THEN [runs[r] EXCEPT !.quiet = Older(@)]
                                              ELSE runs[r]]
    /\ disk' = [r \in RunIds |-> IF disk[r].status # "absent"
                                 THEN [disk[r] EXCEPT !.quiet = Older(@)]
                                 ELSE disk[r]]
    /\ exec' = [s \in Slots |-> IF Busy(s) THEN [exec[s] EXCEPT !.age = Older(@)] ELSE Idle]
    /\ late' = (late \/ \E s \in Slots : Busy(s) /\ Older(exec[s].age) = StaleAfter)
    /\ UNCHANGED <<used, everDone, orphaned, ops, restarts>>

\* The process dies: calls in flight are gone, the file is loaded again.
RestartWith(rs) ==
    /\ restarts < MaxRestarts
    /\ restarts' = restarts + 1
    /\ runs' = rs
    /\ disk' = rs
    /\ exec' = [s \in Slots |-> Idle]
    /\ UNCHANGED <<used, everDone, orphaned, late, ops>>

Crash == RestartWith(disk)

\* _save_runs_to_disk truncates and rewrites the file in place; a crash in
\* between leaves text that _load_runs_from_disk answers with {}.
CrashTornFile == RestartWith([r \in RunIds |-> Absent])

\* resume_run saves "resuming" before it replays the request.
CrashInResume(r) ==
    /\ "resume" \in Requests
    /\ MayResume(runs[r])
    /\ RestartWith([disk EXCEPT ![r] = Updated(@, "resuming")])

-----------------------------------------------------------------------------
Init ==
    /\ runs = [r \in RunIds |-> Absent]
    /\ disk = runs
    /\ exec = [s \in Slots |-> Idle]
    /\ used = {}
    /\ everDone = {}
    /\ orphaned = {}
    /\ late = FALSE
    /\ ops = 0
    /\ restarts = 0

Next ==
    \/ \E r \in RunIds, kind \in {"ask", "chat", "stream"}, D \in DepChoices, h \in BOOLEAN :
          Submit(r, kind, D, h)
    \/ \E r \in RunIds : Resume(r)
    \/ \E s \in Slots : Answer(s) \/ Fail(s) \/ Retry(s) \/ StreamDropped(s)
    \/ \E r \in RunIds, status \in Statuses, D \in DepChoices, h \in BOOLEAN :
          Heartbeat(r, status, D, h)
    \/ \E r \in RunIds, status \in Statuses \cup {"keep"}, D \in DepChoices, h \in BOOLEAN :
          UpdateDependencies(r, status, D, h)
    \/ \E r \in RunIds : DeleteRun(r)
    \/ \E status \in Statuses \cup {"all"} : ClearRuns(status)
    \/ Tick
    \/ Crash
    \/ CrashTornFile
    \/ \E r \in RunIds : CrashInResume(r)

Spec == Init /\ [][Next]_vars

\* Time passes, and a call of the orchestrator comes back: its providers'
\* clients carry timeouts (all but Google's: RateLimits.Hanging).
Fairness ==
    /\ WF_vars(Tick)
    /\ \A s \in Slots : WF_vars(Answer(s) \/ Fail(s))

FairSpec == Spec /\ Fairness

-----------------------------------------------------------------------------
(* Properties.                                                              *)

TypeOK ==
    /\ runs \in [RunIds -> Row]
    /\ disk \in [RunIds -> Row]
    /\ exec \in [Slots -> Calls \cup {Idle}]
    /\ used \subseteq RunIds
    /\ everDone \subseteq RunIds
    /\ orphaned \subseteq RunIds
    /\ late \in BOOLEAN
    /\ ops \in 0..MaxOps
    /\ restarts \in 0..MaxRestarts

\* The orchestrator is only ever called for a run all of whose requested
\* dependencies have completed, whatever is resumed, removed, restarted or
\* re-submitted meanwhile (_require_run_ready, server.py:514-526).
DependenciesDone == \A s \in Slots : Busy(s) => exec[s].deps \subseteq everDone

\* A row without a checkpointed request, which no resume can ever replay
\* (server.py:2435-2436), exists only where a run was deleted or cleared while
\* its call was in flight.
BareOnlyAfterRemoval ==
    \A r \in RunIds : Present(r) /\ runs[r].endpoint = "none" => r \in orphaned

\* While every orchestrator call answers within the stale threshold, no run
\* has two calls in flight: a resume waits for completion (server.py:2430-2431).
SingleCallWhilePrompt == ~late => \A r \in RunIds : Cardinality(InFlight(r)) <= 1

\* list_runs and resume_run call a run stalled that has a call in flight begun
\* less than the threshold ago only if a client once sent a heartbeat for it,
\* whichever run was resumed, started again, patched, removed and brought back
\* by a late answer (_run_stale_info, server.py:370-381).  For a run with a
\* heartbeat the code promises no such thing: last_heartbeat_at goes before
\* updated_at (374) and no start clears it, so a resumed run is shown as stalled
\* at once and may be resumed again, next to its own call.
StalledMeansSilent ==
    \A r \in RunIds : RunIsStale(runs[r]) /\ ~runs[r].beaten =>
        \A s \in InFlight(r) : exec[s].age >= StaleAfter

\* A run that is running, resuming, waiting or paused does not stay so for
\* ever without being offered for a resume: it ends, is blocked or removed, or
\* it stalls, even if the server crashed under it.
ActiveRunEndsOrStalls ==
    \A r \in RunIds : runs[r].status \in ActiveStatuses ~>
        (runs[r].status \notin ActiveStatuses \/ RunIsStale(runs[r]))
=============================================================================
