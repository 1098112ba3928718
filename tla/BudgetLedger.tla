---------------------------- MODULE BudgetLedger ----------------------------
(***************************************************************************)
(* Spend caps (src/backend/orchestrator/budgets.py and its callers).       *)
(*                                                                         *)
(* Every process that builds an Orchestrator, the server and each mmctl    *)
(* command, has a BudgetTracker of its own over one usage file.  A tracker *)
(* operation holds the file lock from load to save and is one action,      *)
(* except the constructor, which loads and saves without the lock.  A call *)
(* of a provider is checked against the caps, awaited, and recorded; the   *)
(* requests of a process interleave at the await.                          *)
(***************************************************************************)
EXTENDS Naturals, FiniteSets

CONSTANTS
    Procs,       \* processes: the server, mmctl commands
    Tasks,       \* bound: provider calls pending at once
    MaxAmount,   \* the most one call is estimated at or charged for
    SessionCap, DailyCap, MonthlyCap,
    MaxDay,      \* bound: days
    MonthOf,     \* the month of each day
    MaxCalls,    \* bound: calls that are checked
    MaxStarts,   \* bound: processes started
    Idle         \* a task without a pending call

Days    == 0..MaxDay
Amounts == 0..MaxAmount

ASSUME TasksAssumption == IsFiniteSet(Tasks)

ASSUME NumbersAssumption ==
    /\ MaxAmount \in Nat
    /\ SessionCap \in Nat /\ DailyCap \in Nat /\ MonthlyCap \in Nat
    /\ MaxDay \in Nat
    /\ MaxCalls \in Nat
    /\ MaxStarts \in Nat

ASSUME CalendarAssumption ==
    /\ MonthOf \in [Days -> Nat]
    /\ \A d, e \in Days : d <= e => MonthOf[d] <= MonthOf[e]

VARIABLES
    today,     \* the date
    usage,     \* the usage file
    phase,     \* phase[p]: "down", "starting" (loaded, not yet saved) or "up"
    loaded,    \* loaded[p]: what the constructor of p has loaded
    session,   \* session[p]: _session_spend
    task,      \* task[t]: the provider call pending in t, or Idle
    calls,     \* calls checked so far
    starts,    \* processes started so far
    billed,    \* history: charges of this month's answers
    clobbered, \* history: a constructor has saved figures the file had outgrown
    dropped,   \* history: an answer was not recorded
    parallel,  \* history: two calls have been pending at once
    dearer     \* history: a call was charged more than its estimate

history == <<billed, clobbered, dropped, parallel, dearer>>
vars    == <<today, usage, phase, loaded, session, task, calls, starts, history>>

-----------------------------------------------------------------------------
\* last_reset_date (which fixes last_reset_month) and the costs of the daily
\* and monthly totals.
Usage == [day: Days, daily: Nat, monthly: Nat]

\* A checked call: its process, its estimate, how it is made, and how often a
\* structured one has been asked again.
PendingCalls == [proc : Procs,
                 est  : Amounts,
                 kind : {"complete", "stream", "structured"},
                 tries: 0..2]

ASSUME IdleAssumption == Idle \notin PendingCalls

Pending(t)   == task[t] # Idle
PendingTasks == {t \in Tasks : Pending(t)}
PendingOf(p) == {t \in Tasks : Pending(t) /\ task[t].proc = p}

\* (mutant) both totals start afresh with each day.
RolledTogether(u) == [day     |-> today,
                      daily   |-> IF u.day = today THEN u.daily ELSE 0,
                      monthly |-> IF u.day = today THEN u.monthly ELSE 0]

\* _rollover_if_needed
Rolled(u) == [day     |-> today,
              daily   |-> IF u.day = today THEN u.daily ELSE 0,
              monthly |-> IF MonthOf[u.day] = MonthOf[today] THEN u.monthly ELSE 0]

\* _increment_bucket on both totals
Incremented(u, cost) ==
    [day |-> u.day, daily |-> u.daily + cost, monthly |-> u.monthly + cost]

\* (mutant) what has been spent is compared with the cap, without the estimate.
FitsSoFar(p, e) ==
    /\ session[p] <= SessionCap
    /\ Rolled(usage).daily <= DailyCap
    /\ Rolled(usage).monthly <= MonthlyCap

\* (mutant) the session cap is not looked at.
FitsSharedCaps(p, e) ==
    /\ Rolled(usage).daily + e <= DailyCap
    /\ Rolled(usage).monthly + e <= MonthlyCap

\* check_would_fit of process p does not raise.
Fits(p, e) ==
    /\ session[p] + e <= SessionCap
    /\ Rolled(usage).daily + e <= DailyCap
    /\ Rolled(usage).monthly + e <= MonthlyCap

\* _sync_and_get_usage: whatever else an operation does, the file is rolled over.
Sync == usage' = Rolled(usage)

-----------------------------------------------------------------------------
(* Processes.  The constructor of BudgetTracker loads, rolls over and saves *)
(* without the lock, so other processes get in between.                     *)

StartLoads(p) ==
    /\ phase[p] = "down"
    /\ starts < MaxStarts
    /\ starts' = starts + 1
    /\ phase' = [phase EXCEPT ![p] = "starting"]
    /\ loaded' = [loaded EXCEPT ![p] = Rolled(usage)]
    /\ UNCHANGED <<today, usage, session, task, calls, history>>

StartSaves(p) ==
    /\ phase[p] = "starting"
    /\ phase' = [phase EXCEPT ![p] = "up"]
    /\ usage' = loaded[p]
    /\ clobbered' = (clobbered \/ Rolled(loaded[p]) # Rolled(usage))
    /\ UNCHANGED <<today, loaded, session, task, calls, starts, billed, dropped, parallel, dearer>>

\* The process ends or is killed.  Its calls and its session are gone; the
\* file is replaced atomically and the lock dies with its holder.
Stop(p) ==
    /\ phase[p] # "down"
    /\ phase' = [phase EXCEPT ![p] = "down"]
    /\ session' = [session EXCEPT ![p] = 0]
    /\ task' = [t \in Tasks |-> IF t \in PendingOf(p) THEN Idle ELSE task[t]]
    /\ UNCHANGED <<today, usage, loaded, calls, starts, history>>

\* state, remaining and usage_totals save the file too.
Read(p) ==
    /\ phase[p] = "up"
    /\ Sync
    /\ UNCHANGED <<today, phase, loaded, session, task, calls, starts, history>>

-----------------------------------------------------------------------------
(* Provider calls: budgets.check_would_fit(...); await adapter.complete(...)*)
(* (or _structured, or _stream); budgets.record_cost(...).                  *)

Call(t, p, kind, e) ==
    /\ ~Pending(t)
    /\ phase[p] = "up"
    /\ calls < MaxCalls
    /\ calls' = calls + 1
    /\ Fits(p, e)
    /\ Sync
    /\ task' = [task EXCEPT ![t] = [proc |-> p, est |-> e, kind |-> kind, tries |-> 0]]
    /\ parallel' = (parallel \/ PendingTasks # {})
    /\ UNCHANGED <<today, phase, loaded, session, starts, billed, clobbered, dropped, dearer>>

\* (mutant) a cost goes into the file as it is, without a rollover.
UsageWithStale(u, cost) == [Incremented(u, cost) EXCEPT !.day = today]

\* The file after record_cost: loaded again under the lock and rolled over.
UsageWith(u, cost) == Incremented(Rolled(u), cost)

\* record_cost
Record(p, cost) ==
    /\ session' = [session EXCEPT ![p] = @ + cost]
    /\ usage' = UsageWith(usage, cost)

Answer(t, cost) ==
    /\ Pending(t)
    /\ Record(task[t].proc, cost)
    /\ task' = [task EXCEPT ![t] = Idle]
    /\ billed' = billed + cost
    /\ dearer' = (dearer \/ cost > task[t].est)
    /\ UNCHANGED <<today, phase, loaded, calls, starts, clobbered, dropped, parallel>>

\* _call_structured_with_retry asks again twice at most.
MayAskAgain(t) == task[t].kind = "structured" /\ task[t].tries < 2

AskedAgain(call, e) == [call EXCEPT !.est = e, !.tries = call.tries + 1]

\* An answer that does not parse is asked again, after a check of its own; only
\* the last answer is returned and recorded.  A check that fails ends the call.
AskAgain(t, cost, e) ==
    /\ Pending(t)
    /\ MayAskAgain(t)
    /\ task' = [task EXCEPT ![t] = IF Fits(task[t].proc, e)
                                   THEN AskedAgain(task[t], e)
                                   ELSE Idle]
    /\ Sync
    /\ billed' = billed + cost
    /\ dropped' = (dropped \/ cost > 0)
    /\ UNCHANGED <<today, phase, loaded, session, calls, starts, clobbered, parallel, dearer>>

\* The reader of a stream goes away: the generator is closed at its yield,
\* ahead of record_cost.
Abandon(t, cost) ==
    /\ Pending(t)
    /\ task[t].kind = "stream"
    /\ task' = [task EXCEPT ![t] = Idle]
    /\ billed' = billed + cost
    /\ dropped' = (dropped \/ cost > 0)
    /\ UNCHANGED <<today, usage, phase, loaded, session, calls, starts, clobbered, parallel, dearer>>

\* The provider raises: nothing is charged or recorded.
Error(t) ==
    /\ Pending(t)
    /\ task' = [task EXCEPT ![t] = Idle]
    /\ UNCHANGED <<today, usage, phase, loaded, session, calls, starts, history>>

-----------------------------------------------------------------------------
NextDay ==
    /\ today < MaxDay
    /\ today' = today + 1
    /\ billed' = IF MonthOf[today + 1] = MonthOf[today] THEN billed ELSE 0
    /\ UNCHANGED <<usage, phase, loaded, session, task, calls, starts, clobbered, dropped,
                   parallel, dearer>>

\* No process runs and nothing has been spent.
Init ==
    /\ today = 0
    /\ usage = [day |-> 0, daily |-> 0, monthly |-> 0]
    /\ phase = [p \in Procs |-> "down"]
    /\ loaded = [p \in Procs |-> usage]
    /\ session = [p \in Procs |-> 0]
    /\ task = [t \in Tasks |-> Idle]
    /\ calls = 0
    /\ starts = 0
    /\ billed = 0
    /\ clobbered = FALSE
    /\ dropped = FALSE
    /\ parallel = FALSE
    /\ dearer = FALSE

Next ==
    \/ \E p \in Procs : StartLoads(p)
    \/ \E p \in Procs : StartSaves(p)
    \/ \E p \in Procs : Stop(p)
    \/ \E p \in Procs : Read(p)
    \/ \E t \in Tasks, p \in Procs, kind \in {"complete", "stream", "structured"}, e \in Amounts :
          Call(t, p, kind, e)
    \/ \E t \in Tasks, cost \in Amounts : Answer(t, cost)
    \/ \E t \in Tasks, cost, e \in Amounts : AskAgain(t, cost, e)
    \/ \E t \in Tasks, cost \in Amounts : Abandon(t, cost)
    \/ \E t \in Tasks : Error(t)
    \/ NextDay

Spec == Init /\ [][Next]_vars

-----------------------------------------------------------------------------
(* Properties.                                                              *)

TypeOK ==
    /\ today \in Days
    /\ usage \in Usage
    /\ phase \in [Procs -> {"down", "starting", "up"}]
    /\ loaded \in [Procs -> Usage]
    /\ session \in [Procs -> Nat]
    /\ task \in [Tasks -> PendingCalls \cup {Idle}]
    /\ calls \in 0..MaxCalls
    /\ starts \in 0..MaxStarts
    /\ billed \in Nat
    /\ clobbered \in BOOLEAN
    /\ dropped \in BOOLEAN
    /\ parallel \in BOOLEAN
    /\ dearer \in BOOLEAN

\* However many calls overlap, the spend that check_would_fit compares with a
\* cap passes it by at most one charge per call that can be pending; for the
\* session of a process even when constructors overwrite the file
\* (check_would_fit and record_cost, budgets.py:194-220).
OverrunBounded ==
    LET slack == MaxAmount * Cardinality(Tasks)
    IN  /\ \A p \in Procs : session[p] <= SessionCap + slack
        /\ ~clobbered => /\ Rolled(usage).daily <= DailyCap + slack
                         /\ Rolled(usage).monthly <= MonthlyCap + slack

\* One call at a time, each charged no more than its estimate, stays within
\* all three caps, over rollovers, restarts and repeated asking.
CapsHoldInOrder ==
    ~parallel /\ ~dearer =>
        /\ \A p \in Procs : session[p] <= SessionCap
        /\ ~clobbered => /\ Rolled(usage).daily <= DailyCap
                         /\ Rolled(usage).monthly <= MonthlyCap

\* The month's total is the sum of the month's charges: no rollover, restart or
\* interleaving of processes loses one or counts it twice, unless an answer was
\* dropped or a constructor overwrote the file.
LedgerMatchesBill ==
    ~clobbered /\ ~dropped => Rolled(usage).monthly = billed

\* The day is part of the month, whatever the order of rollovers and writes
\* (_rollover_if_needed, budgets.py:137-157).
DayWithinMonth == Rolled(usage).daily <= Rolled(usage).monthly

\* To a reader of the figures the whole ledger, its file, constructors, locks,
\* rollovers and processes, is a meter: an answer is charged at most once and
\* to both totals, and whatever overwrites them leaves no more than was charged.
Promise == INSTANCE Meter WITH
    MaxCharge <- MaxAmount,
    daily     <- Rolled(usage).daily,
    monthly   <- Rolled(usage).monthly,
    bill      <- billed,
    exact     <- ~clobbered /\ ~dropped

IsAMeter == Promise!Spec
=============================================================================
