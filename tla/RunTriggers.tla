---------------------------- MODULE RunTriggers ----------------------------
(***************************************************************************)
(* Interval and webhook triggers (src/backend/orchestrator/server.py, the  *)
(* rows of ui_settings["runTriggers"]).                                    *)
(*                                                                         *)
(* A sweep and a webhook request normalise the table into rows of their    *)
(* own, await one chat run per row, note the run in those rows, and put    *)
(* the rows back in place of the table.  Between the copy and the          *)
(* write-back the administrator, other sweeps and other webhooks go on.    *)
(* A dashboard does the same at a human's pace: it loads the table, alone  *)
(* or with the other settings, and sends all of it back.                   *)
(***************************************************************************)
EXTENDS Naturals, FiniteSets

CONSTANTS
    TriggerIds,   \* identifiers of triggers
    Scheduler,    \* the sweeper of _scheduler_loop
    ManualSweeps, \* bound: POST .../sweep requests served at once
    Hooks,        \* bound: webhook requests served at once
    NoTrigger,    \* the row in hand of a worker that rests
    Kinds,        \* bound: the kinds of trigger an administrator makes
    FirstTables,  \* bound: the triggers there are to begin with
    MaxClock,     \* bound: time, in trigger intervals
    MaxEdits,     \* bound: changes by the administrator
    MaxSaves,     \* bound: saves of all the settings
    MaxRuns,      \* bound: chat runs completed
    MaxCrashes    \* bound: crashes of the server

Sweepers == {Scheduler} \cup ManualSweeps
Workers  == Sweepers \cup Hooks

ASSUME ConstantsAssumption ==
    /\ Sweepers \cap Hooks = {}
    /\ Kinds \subseteq [periodic : BOOLEAN, single : BOOLEAN, due : BOOLEAN]
    /\ FirstTables \subseteq [TriggerIds -> Kinds \cup {NoTrigger}]
    /\ MaxClock \in Nat \ {0}
    /\ MaxEdits \in Nat
    /\ MaxSaves \in Nat
    /\ MaxRuns \in Nat
    /\ MaxCrashes \in Nat

VARIABLES
    table,      \* ui_settings["runTriggers"], in memory and on disk, as a copy
    view,       \* the copy that a dashboard has loaded
    proc,       \* proc[w]: the sweep or webhook request w is in, or Resting
    clock,      \* the time, in trigger intervals
    edits,      \* changes by the administrator so far
    saves,      \* saves of all the settings so far
    runs,       \* chat runs completed so far, which numbers them
    crashes,    \* crashes so far
    wanted,     \* history: the administrator's part of each row as the administrator last left it
    lastRun,    \* history: the last completed run of each trigger, 0 for none
    firedAt     \* history: when it ended

history == <<wanted, lastRun, firedAt>>
vars    == <<table, view, proc, clock, edits, saves, runs, crashes, history>>

-----------------------------------------------------------------------------
(* A row of the table.  Of the modes only "single" is told apart, a         *)
(* periodic trigger has interval_minutes = one tick, next is next_run_at (0 *)
(* when it is empty), last is last_run_id (0 when it is empty), and a       *)
(* secret is the number of the edit that drew it.                           *)

Row == [present : BOOLEAN,
        enabled : BOOLEAN,
        periodic: BOOLEAN,
        single  : BOOLEAN,
        tools   : BOOLEAN,
        next    : 0..(MaxClock + 1),
        secret  : 0..MaxEdits,
        last    : 0..MaxRuns]

Gone == [present |-> FALSE, enabled |-> FALSE, periodic |-> FALSE, single |-> TRUE,
         tools |-> FALSE, next |-> 0, secret |-> 0, last |-> 0]

Rows == [TriggerIds -> Row]

\* A copy of the table: its rows and, as history, whether they were read before
\* the administrator's last change, and the triggers that completed a run that
\* they do not have.
Copies == [rows : Rows, undone : BOOLEAN, behind : SUBSET TriggerIds]

\* The fields of a row that only the administrator writes.
AdminParts == [present: BOOLEAN, enabled: BOOLEAN, secret: 0..MaxEdits,
               periodic: BOOLEAN, single: BOOLEAN, tools: BOOLEAN]
AdminPart(row) == [present |-> row.present, enabled |-> row.enabled, secret |-> row.secret,
                   periodic |-> row.periodic, single |-> row.single, tools |-> row.tools]

\* _normalize_run_triggers: a periodic row without a time gets one an interval
\* from now; a client may also send a time, here one that has passed.
Fresh(kind, secret, now) ==
    [present |-> TRUE, enabled |-> TRUE, periodic |-> kind.periodic, single |-> kind.single,
     tools |-> FALSE,
     next |-> IF ~kind.periodic THEN 0 ELSE IF kind.due THEN 1 ELSE now + 1,
     secret |-> secret, last |-> 0]

\* _trigger_due
TriggerDue(row, now) == row.present /\ row.enabled /\ row.periodic /\ row.next <= now

\* What the chat handler makes of the row's tools flag: str(tools), because
\* False is not None.
ToolsDirective(tools) == IF tools THEN "True" ELSE "False"

\* Orchestrator.ask: "if tools and selected_mode != 'single': raise ValueError".
RefusedForTools(row) == ToolsDirective(row.tools) # "" /\ ~row.single

NoRows == [t \in TriggerIds |-> Gone]

Resting == [kind |-> "none", copy |-> [rows |-> NoRows, undone |-> FALSE, behind |-> {}],
            todo |-> {}, at |-> NoTrigger, since |-> 0]

Flights == [kind : {"sweep", "hook", "hookBody"},
            copy : Copies,                 \* the rows made when it began
            todo : SUBSET TriggerIds,      \* due rows not yet run
            at   : TriggerIds,             \* the row whose run is awaited
            since: 1..MaxClock]            \* when it began

InFlight(w) == proc[w].kind # "none"

\* (mutant) a run leaves next_run_at as it was.
FiredStayingDue(row) == [row EXCEPT !.last = runs + 1]

\* (mutant) the run is not noted.
FiredUnnoted(row) == [row EXCEPT !.next = IF row.periodic THEN clock + 1 ELSE 0]

\* _execute_run_trigger after its chat run completed: last_run_id is the new
\* run and next_run_at an interval from now.
Fired(row) == [row EXCEPT !.last = runs + 1, !.next = IF row.periodic THEN clock + 1 ELSE 0]

\* The copy of the worker that ran t, and any other copy.
Noted(copy, t)  == [copy EXCEPT !.rows[t] = Fired(@), !.behind = @ \ {t}]
Behind(copy, t) == [copy EXCEPT !.behind = @ \cup {t}]

\* A copy after a change by the administrator that it does not have.
Outdated(copy) == [copy EXCEPT !.undone = TRUE]

-----------------------------------------------------------------------------
(* Workers.                                                                 *)

Launch(w, kind, todo, t) ==
    /\ ~InFlight(w)
    /\ proc' = [proc EXCEPT ![w] = [kind |-> kind, copy |-> table, todo |-> todo, at |-> t,
                                    since |-> clock]]
    /\ UNCHANGED <<table, view, clock, edits, saves, runs, crashes, history>>

Due == {t \in TriggerIds : TriggerDue(table.rows[t], clock)}

\* _sweep_due_run_triggers up to the first await: a copy of the table, the due
\* rows of the copy, the run of the first of them.  Without a due row nothing
\* happens and nothing is written.
SweepBegin(w) ==
    /\ w \in Sweepers
    /\ \E t \in Due : Launch(w, "sweep", Due \ {t}, t)

\* fire_run_trigger up to the await of the request's body: 404 and 403 leave
\* no trace, so only a request with the right secret is a step.
HookBegin(w, t, secret) ==
    /\ w \in Hooks
    /\ table.rows[t].present /\ table.rows[t].enabled
    /\ table.rows[t].secret = secret
    /\ Launch(w, "hookBody", {}, t)

\* The body has arrived; the chat run begins, for the row of the copy.
HookBody(w) ==
    /\ proc[w].kind = "hookBody"
    /\ proc' = [proc EXCEPT ![w].kind = "hook"]
    /\ UNCHANGED <<table, view, clock, edits, saves, runs, crashes, history>>

\* The client of the webhook goes away before its body is there.
HookDropped(w) ==
    /\ proc[w].kind = "hookBody"
    /\ proc' = [proc EXCEPT ![w] = Resting]
    /\ UNCHANGED <<table, view, clock, edits, saves, runs, crashes, history>>

\* (mutant) only the rows that were due are put back.
WriteBackDue(copy, w) ==
    [copy EXCEPT !.rows = [t \in TriggerIds |-> IF t \in proc[w].todo \cup {proc[w].at}
                                                THEN copy.rows[t] ELSE Gone]]

\* What replaces ui_settings["runTriggers"]: all the rows of the copy.
WriteBack(copy, w) == copy

\* The flight with that copy and row t in hand.
Onward(flight, copy, t) == [flight EXCEPT !.copy = copy, !.todo = @ \ {t}, !.at = t]

\* Worker w has its copy as it is after the run in hand, and the table and the
\* flights are tbl and procs: the sweep goes on to its next due row ...
NextDue(w, copy, tbl, procs) ==
    /\ proc[w].todo # {}
    /\ \E t \in proc[w].todo :
          proc' = [procs EXCEPT ![w] = Onward(@, copy, t)]
    /\ table' = tbl

\* (mutant) a sweep may end before its last due row.
PutBackEarly(w, copy, procs) ==
    /\ table' = WriteBack(copy, w)
    /\ proc' = [procs EXCEPT ![w] = Resting]

\* ... or the worker puts its rows back in place of the table.
PutBack(w, copy, procs) ==
    /\ proc[w].todo = {}
    /\ table' = WriteBack(copy, w)
    /\ proc' = [procs EXCEPT ![w] = Resting]

\* The chat run of the row in hand completed.
RunCompleted(w) ==
    /\ proc[w].kind \in {"sweep", "hook"}
    /\ runs < MaxRuns
    /\ LET t     == proc[w].at
           copy  == Noted(proc[w].copy, t)
           procs == [u \in Workers |-> IF InFlight(u) THEN [proc[u] EXCEPT !.copy = Behind(@, t)]
                                                      ELSE proc[u]]
       IN  /\ ~RefusedForTools(proc[w].copy.rows[t])
           /\ NextDue(w, copy, Behind(table, t), procs) \/ PutBack(w, copy, procs)
           /\ view' = Behind(view, t)
           /\ lastRun' = [lastRun EXCEPT ![t] = runs + 1]
           /\ firedAt' = [firedAt EXCEPT ![t] = clock]
    /\ runs' = runs + 1
    /\ UNCHANGED <<clock, edits, saves, crashes, wanted>>

\* It failed, or was refused at once: a sweep logs and goes on, the webhook
\* handler lets the exception through and never writes back.
RunFailed(w) ==
    /\ \/ /\ proc[w].kind = "sweep"
          /\ NextDue(w, proc[w].copy, table, proc) \/ PutBack(w, proc[w].copy, proc)
       \/ /\ proc[w].kind = "hook"
          /\ proc' = [proc EXCEPT ![w] = Resting]
          /\ UNCHANGED table
    /\ UNCHANGED <<view, clock, edits, saves, runs, crashes, history>>

-----------------------------------------------------------------------------
(* Clients.  A dashboard loads the table, and may save it much later.       *)

\* GET /v1/server/run-triggers and /v1/server/ui-settings, of use only to a client
\* that can still save.
LoadTriggers ==
    /\ edits < MaxEdits \/ saves < MaxSaves
    /\ view' = table
    /\ UNCHANGED <<table, proc, clock, edits, saves, runs, crashes, history>>

\* A save of the administrator: the table is tbl, and no other copy has what is
\* new in it.
Edit(tbl) ==
    /\ edits < MaxEdits
    /\ edits' = edits + 1
    /\ table' = tbl
    /\ view' = Outdated(view)
    /\ proc' = [w \in Workers |-> IF InFlight(w) THEN [proc[w] EXCEPT !.copy = Outdated(@)]
                                                  ELSE proc[w]]
    /\ UNCHANGED <<clock, saves, runs, crashes, lastRun, firedAt>>

\* put_run_triggers: all the rows that the client sends replace the table, their
\* next_run_at and last_run_id included.
PutRows(rows, behind) ==
    /\ Edit([rows |-> rows, undone |-> FALSE, behind |-> behind])
    /\ wanted' = [t \in TriggerIds |-> AdminPart(rows[t])]

\* The client read the table just now, or sends an older view.
Bases == {table, view}

\* A trigger is switched on or off, or nothing is changed.
PutTriggers(base, t) ==
    /\ base.rows[t].present
    /\ PutRows(base.rows, base.behind)
       \/ PutRows([base.rows EXCEPT ![t].enabled = ~@], base.behind)

\* A time that has passed is put in a row.
PutTime(base, t) ==
    /\ base.rows[t].periodic
    /\ PutRows([base.rows EXCEPT ![t].next = 1], base.behind \cup {t})

\* A row without a run of its own.
PutNewTrigger(base, t, kind) ==
    /\ ~base.rows[t].present
    /\ PutRows([base.rows EXCEPT ![t] = Fresh(kind, edits + 1, clock)], base.behind \cup {t})

PutWithout(base, t) ==
    /\ base.rows[t].present
    /\ PutRows([base.rows EXCEPT ![t] = Gone], base.behind)

\* rotate_run_trigger_secret, in a copy of the table as it is.
RotateSecret(t) ==
    /\ table.rows[t].present
    /\ Edit([table EXCEPT !.rows[t].secret = edits + 1])
    /\ wanted' = [wanted EXCEPT ![t].secret = edits + 1]

\* put_ui_settings with the settings a dashboard has loaded, triggers included:
\* they replace the table, and no password is asked for.
PutUiSettings ==
    /\ saves < MaxSaves
    /\ saves' = saves + 1
    /\ table' = view
    /\ UNCHANGED <<view, proc, clock, edits, runs, crashes, history>>

-----------------------------------------------------------------------------
Tick ==
    /\ clock < MaxClock
    /\ clock' = clock + 1
    /\ UNCHANGED <<table, view, proc, edits, saves, runs, crashes, history>>

Restart(tbl) ==
    /\ crashes < MaxCrashes
    /\ crashes' = crashes + 1
    /\ proc' = [w \in Workers |-> Resting]
    /\ table' = tbl
    /\ UNCHANGED <<view, clock, edits, saves, runs, history>>

\* Every write-back and edit is saved, so a restart finds the table as it is;
\* sweeps and webhook requests in flight are gone.
Crash == Restart(table)

\* _save_ui_settings_to_disk rewrites the file in place; cut in the middle, for
\* these or any other settings, it loads as no settings at all.
CrashTornFile == Restart([rows |-> NoRows, undone |-> TRUE, behind |-> {}])

Init ==
    /\ clock = 1
    /\ \E first \in FirstTables :
          table = [rows |-> [t \in TriggerIds |-> IF first[t] = NoTrigger THEN Gone
                                                 ELSE Fresh(first[t], 0, clock)],
                   undone |-> FALSE, behind |-> {}]
    /\ view = table
    /\ wanted = [t \in TriggerIds |-> AdminPart(table.rows[t])]
    /\ proc = [w \in Workers |-> Resting]
    /\ edits = 0 /\ saves = 0 /\ runs = 0 /\ crashes = 0
    /\ lastRun = [t \in TriggerIds |-> 0]
    /\ firedAt = [t \in TriggerIds |-> 0]

Next ==
    \/ \E w \in Workers : SweepBegin(w)
    \/ \E w \in Workers, t \in TriggerIds, secret \in 0..MaxEdits : HookBegin(w, t, secret)
    \/ \E w \in Workers : HookBody(w)
    \/ \E w \in Workers : HookDropped(w)
    \/ \E w \in Workers : RunCompleted(w)
    \/ \E w \in Workers : RunFailed(w)
    \/ LoadTriggers
    \/ \E base \in Bases, t \in TriggerIds : PutTriggers(base, t)
    \/ \E base \in Bases, t \in TriggerIds : PutTime(base, t)
    \/ \E base \in Bases, t \in TriggerIds, kind \in Kinds : PutNewTrigger(base, t, kind)
    \/ \E base \in Bases, t \in TriggerIds : PutWithout(base, t)
    \/ \E t \in TriggerIds : RotateSecret(t)
    \/ PutUiSettings
    \/ Tick
    \/ Crash
    \/ CrashTornFile

Spec == Init /\ [][Next]_vars

\* The scheduler sweeps every 30 seconds for as long as the server is up, time
\* passes, and a chat run ends.
Fairness ==
    /\ WF_vars(Tick)
    /\ WF_vars(SweepBegin(Scheduler))
    /\ \A w \in Workers : WF_vars(RunCompleted(w) \/ RunFailed(w))

FairSpec == Spec /\ Fairness

-----------------------------------------------------------------------------
(* Properties.                                                              *)

TypeOK ==
    /\ table \in Copies /\ view \in Copies
    /\ proc \in [Workers -> Flights \cup {Resting}]
    /\ clock \in 1..MaxClock
    /\ edits \in 0..MaxEdits /\ saves \in 0..MaxSaves /\ runs \in 0..MaxRuns /\ crashes \in 0..MaxCrashes
    /\ wanted \in [TriggerIds -> AdminParts]
    /\ lastRun \in [TriggerIds -> 0..MaxRuns]
    /\ firedAt \in [TriggerIds -> 0..MaxClock]

\* A trigger that the administrator switched off, removed or gave a new secret
\* stays so, also when the change is made under sweeps and webhooks, until rows
\* that were read before the change are put in place of the table or the file is
\* cut (server.py:2467-2496, 357-359, 2520-2523).
EditsStick == ~table.undone => \A t \in TriggerIds : AdminPart(table.rows[t]) = wanted[t]

TriggersOK == TypeOK /\ EditsStick

\* A row names the last completed run of its trigger, and is due an interval
\* after it, however many workers run it at once, until rows that do not have
\* that run are put in place of the table (server.py:322-327, 357-359).
RunsAreRecorded ==
    \A t \in TriggerIds \ table.behind :
        table.rows[t].present =>
            /\ table.rows[t].last = lastRun[t]
            /\ table.rows[t].periodic /\ lastRun[t] # 0 => table.rows[t].next = firedAt[t] + 1

\* A sweep runs a trigger a second time in an interval only from rows that do not
\* have the first run: those it read before another worker put that run back, or
\* those that older rows have replaced (server.py:344-346, 3696-3712).
OncePerInterval ==
    [][\A w \in Sweepers :
          RunCompleted(w) /\ proc[w].at \notin proc[w].copy.behind
          => proc[w].since > firedAt[proc[w].at]]_vars

\* A trigger that is due is run, or stops being due.
DueIsAttempted ==
    \A t \in TriggerIds :
        TriggerDue(table.rows[t], clock) ~>
            (~TriggerDue(table.rows[t], clock) \/ \E w \in Workers : InFlight(w) /\ proc[w].at = t)
=============================================================================
