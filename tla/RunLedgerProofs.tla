-------------------------- MODULE RunLedgerProofs --------------------------
(***************************************************************************)
(* What RunLedger promises for every set of runs, every bound and every    *)
(* mix of clients: typing, that no call begins before its dependencies are *)
(* done, that a row without a request is the trace of a removal under a    *)
(* call in flight, and that a run shown as stalled is silent unless it was *)
(* ever sent a heartbeat.  And for clients that leave some requests out:   *)
(* that a run has one call at a time.                                      *)
(***************************************************************************)
EXTENDS RunLedger, FiniteSetTheorems, TLAPS

\* Between two actions the file and the memory agree.
OnFile == disk = runs

\* The file holds only typed rows whose completions are recorded, and so does
\* the memory; a call in flight was begun after its dependencies were done.
DependencyInv ==
    /\ TypeOK
    /\ OnFile
    /\ DependenciesDone
    /\ \A r \in RunIds : runs[r].status = "completed" => r \in everDone

\* A run has a row with a request, or lost one under a call in flight, or has
\* neither a row nor a call.
Accounted(q) ==
    \/ runs[q].endpoint # "none"
    \/ q \in orphaned
    \/ runs[q].status = "absent" /\ \A s \in Slots : Busy(s) => exec[s].run # q

BareInv ==
    /\ TypeOK
    /\ OnFile
    /\ \A q \in RunIds : Accounted(q)

-----------------------------------------------------------------------------
(* Rows.                                                                    *)

LEMMA AbsentIsRow == Absent \in Row
  BY ConstantsAssumption DEF Absent, Row

LEMMA TouchIsRow ==
  ASSUME NEW row \in Row
  PROVE  /\ Touch(row) \in Row
         /\ Touch(row).endpoint = row.endpoint
  <1> DEFINE q == IF row.beaten THEN row.quiet ELSE 0
  <1>1. q \in 0..StaleAfter
    BY ConstantsAssumption DEF Row
  <1>2. Touch(row) = [row EXCEPT !.quiet = q]
    BY DEF Touch, Row
  <1> QED
    BY <1>1, <1>2 DEF Row

LEMMA UpdatedIsRow ==
  ASSUME NEW row \in Row, NEW st \in Statuses
  PROVE  /\ Updated(row, st) \in Row
         /\ Updated(row, st).status = st
         /\ Updated(row, st).endpoint = row.endpoint
  <1> DEFINE t == Touch(row)
  <1>1. t \in Row /\ t.endpoint = row.endpoint
    BY TouchIsRow
  <1>2. Updated(row, st) = [t EXCEPT !.status = st]
    BY DEF Updated
  <1> HIDE DEF t
  <1> QED
    BY <1>1, <1>2 DEF Row

LEMMA StartedIsRow ==
  ASSUME NEW row \in Row, NEW ep \in {"ask", "chat"}, NEW D \in SUBSET RunIds, NEW h \in BOOLEAN
  PROVE  /\ Started(row, ep, D, h) \in Row
         /\ Started(row, ep, D, h).status = "running"
         /\ Started(row, ep, D, h).endpoint = ep
  <1> DEFINE t == Touch(row)
  <1>1. t \in Row
    BY TouchIsRow
  <1>2. Started(row, ep, D, h) =
          [t EXCEPT !.status = "running", !.endpoint = ep, !.deps = D, !.held = h,
                    !.reqDeps = D, !.reqHeld = h]
    BY DEF Started
  <1> HIDE DEF t
  <1> QED
    BY <1>1, <1>2 DEF Row, Statuses, ActiveStatuses

LEMMA OlderIsAge ==
  ASSUME NEW n \in 0..StaleAfter
  PROVE  Older(n) \in 0..StaleAfter
  BY ConstantsAssumption DEF Older

-----------------------------------------------------------------------------
(* Typing.                                                                  *)

LEMMA CommitTypes ==
  ASSUME TypeOK, NEW rs \in [RunIds -> Row], Commit(rs)
  PROVE  /\ runs' \in [RunIds -> Row]
         /\ disk' \in [RunIds -> Row]
         /\ everDone' \subseteq RunIds
  BY DEF TypeOK, Commit

LEMMA BeginTypes ==
  ASSUME TypeOK, NEW r \in RunIds, NEW kind \in {"ask", "chat", "stream"},
         NEW D \in SUBSET RunIds, NEW h \in BOOLEAN, Begin(r, kind, D, h)
  PROVE  /\ runs' \in [RunIds -> Row]
         /\ disk' \in [RunIds -> Row]
         /\ everDone' \subseteq RunIds
         /\ exec' \in [Slots -> Calls \cup {Idle}]
  <1> DEFINE ep == IF kind = "chat" THEN "chat" ELSE "ask"
             row == Started(runs[r], ep, D, h)
             rs == [runs EXCEPT ![r] = row]
  <1>1. row \in Row
    <2>1. runs[r] \in Row /\ ep \in {"ask", "chat"}
      BY DEF TypeOK
    <2> QED
      BY <2>1, StartedIsRow
  <1>2. rs \in [RunIds -> Row]
    BY <1>1 DEF TypeOK
  <1>3. CASE BeginBlocked(r, ep, D, h)
    <2> DEFINE rb == [rs EXCEPT ![r].status = "blocked"]
    <2>1. rb \in [RunIds -> Row]
      <3> HIDE DEF rs
      <3>1. [rs[r] EXCEPT !.status = "blocked"] \in Row
        BY <1>2 DEF Row, Statuses
      <3> QED
        BY <1>2, <3>1
    <2>2. Commit(rb) /\ exec' = exec
      BY <1>3 DEF BeginBlocked
    <2> QED
      <3> HIDE DEF rb
      <3> QED
        BY <2>1, <2>2, CommitTypes DEF TypeOK
  <1>4. CASE BeginCall(r, kind, D, h)
    <2>1. Commit(rs)
      BY <1>4 DEF BeginCall
    <2>2. PICK s \in Slots :
             exec' = [exec EXCEPT ![s] = [run |-> r, kind |-> kind, retry |-> FALSE,
                                          deps |-> D, age |-> 0]]
      BY <1>4 DEF BeginCall
    <2>3. [run |-> r, kind |-> kind, retry |-> FALSE, deps |-> D, age |-> 0] \in Calls
      BY ConstantsAssumption DEF Calls
    <2>4. exec' \in [Slots -> Calls \cup {Idle}]
      BY <2>2, <2>3 DEF TypeOK
    <2> QED
      <3> HIDE DEF rs
      <3> QED
        BY <1>2, <2>1, <2>4, CommitTypes
  <1>5. CASE kind = "chat" /\ BeginConflict(r, D, h)
    <2>1. Commit(rs) /\ exec' = exec
      BY <1>5 DEF BeginConflict
    <2> QED
      <3> HIDE DEF rs
      <3> QED
        BY <1>2, <2>1, CommitTypes DEF TypeOK
  <1> QED
    BY <1>3, <1>4, <1>5 DEF Begin

LEMMA FinishTypes ==
  ASSUME TypeOK, NEW s \in Slots, Busy(s), NEW st \in Statuses, Finish(s, st)
  PROVE  TypeOK'
  <1> DEFINE r == exec[s].run
             rs == [runs EXCEPT ![r] = Updated(runs[r], st)]
  <1>1. r \in RunIds
    BY DEF TypeOK, Busy, Calls
  <1>2. Updated(runs[r], st) \in Row
    BY <1>1, UpdatedIsRow DEF TypeOK
  <1>3. rs \in [RunIds -> Row]
    BY <1>2 DEF TypeOK
  <1>4. Commit(rs) /\ exec' = [exec EXCEPT ![s] = Idle]
        /\ UNCHANGED <<used, orphaned, late, ops, restarts>>
    BY DEF Finish
  <1> HIDE DEF rs
  <1>5. runs' \in [RunIds -> Row] /\ disk' \in [RunIds -> Row] /\ everDone' \subseteq RunIds
    BY <1>3, <1>4, CommitTypes
  <1> QED
    BY <1>4, <1>5 DEF TypeOK

LEMMA RemoveTypes ==
  ASSUME TypeOK, NEW gone \in SUBSET RunIds, Remove(gone), ops' \in 0..MaxOps
  PROVE  TypeOK'
  <1> DEFINE rs == [r \in RunIds |-> IF r \in gone THEN Absent ELSE runs[r]]
  <1>1. rs \in [RunIds -> Row]
    BY AbsentIsRow DEF TypeOK
  <1>2. Commit(rs)
    BY DEF Remove
  <1> HIDE DEF rs
  <1>3. runs' \in [RunIds -> Row] /\ disk' \in [RunIds -> Row] /\ everDone' \subseteq RunIds
    BY <1>1, <1>2, CommitTypes
  <1> QED
    BY <1>3 DEF Remove, TypeOK

LEMMA RestartTypes ==
  ASSUME TypeOK, NEW rs \in [RunIds -> Row], RestartWith(rs)
  PROVE  TypeOK'
  BY ConstantsAssumption DEF RestartWith, TypeOK

LEMMA ServeCounts ==
  ASSUME TypeOK, NEW kind, Serve(kind)
  PROVE  ops' \in 0..MaxOps
  BY ConstantsAssumption DEF Serve, TypeOK

LEMMA TypeStep == TypeOK /\ [Next]_vars => TypeOK'
  <1> SUFFICES ASSUME TypeOK, [Next]_vars PROVE TypeOK'
    OBVIOUS
  <1>1. ASSUME NEW r \in RunIds, NEW kind \in {"ask", "chat", "stream"},
               NEW D \in DepChoices, NEW h \in BOOLEAN, Submit(r, kind, D, h)
        PROVE  TypeOK'
    <2>1. Begin(r, kind, D, h) /\ used' \subseteq RunIds /\ UNCHANGED <<orphaned, late, restarts>>
      BY <1>1 DEF Submit, TypeOK
    <2>2. ops' \in 0..MaxOps
      BY <1>1, ServeCounts DEF Submit
    <2>3. /\ runs' \in [RunIds -> Row] /\ disk' \in [RunIds -> Row]
          /\ everDone' \subseteq RunIds /\ exec' \in [Slots -> Calls \cup {Idle}]
      <3>1. D \in SUBSET RunIds
        BY ConstantsAssumption
      <3> QED
        BY <2>1, <3>1, BeginTypes
    <2> QED
      BY <2>1, <2>2, <2>3 DEF TypeOK
  <1>2. ASSUME NEW r \in RunIds, Resume(r)
        PROVE  TypeOK'
    <2>1. /\ runs[r].endpoint \in {"ask", "chat"}
          /\ runs[r].reqDeps \in SUBSET RunIds
          /\ runs[r].reqHeld \in BOOLEAN
      BY <1>2 DEF Resume, MayResume, TypeOK, Row
    <2>2. Begin(r, runs[r].endpoint, runs[r].reqDeps, runs[r].reqHeld)
          /\ UNCHANGED <<used, orphaned, late, restarts>>
      BY <1>2 DEF Resume
    <2>3. ops' \in 0..MaxOps
      BY <1>2, ServeCounts DEF Resume
    <2>4. /\ runs' \in [RunIds -> Row] /\ disk' \in [RunIds -> Row]
          /\ everDone' \subseteq RunIds /\ exec' \in [Slots -> Calls \cup {Idle}]
      <3>1. runs[r].endpoint \in {"ask", "chat", "stream"}
        BY <2>1
      <3> QED
        BY <2>1, <2>2, <3>1, BeginTypes
    <2> QED
      BY <2>2, <2>3, <2>4 DEF TypeOK
  <1>3. ASSUME NEW s \in Slots, Answer(s) PROVE TypeOK'
    BY <1>3, FinishTypes DEF Answer, Statuses
  <1>4. ASSUME NEW s \in Slots, Fail(s) PROVE TypeOK'
    BY <1>4, FinishTypes DEF Fail, Statuses
  <1>5. ASSUME NEW s \in Slots, Retry(s) PROVE TypeOK'
    <2>1. exec[s] \in Calls
      BY <1>5 DEF Retry, Busy, TypeOK
    <2>2. [exec[s] EXCEPT !.retry = TRUE] \in Calls
      BY <2>1 DEF Calls
    <2>3. exec' = [exec EXCEPT ![s] = [exec[s] EXCEPT !.retry = TRUE]]
      BY <1>5 DEF Retry
    <2>4. exec' \in [Slots -> Calls \cup {Idle}]
      BY <2>2, <2>3 DEF TypeOK
    <2> QED
      BY <1>5, <2>4 DEF Retry, TypeOK
  <1>6. ASSUME NEW s \in Slots, StreamDropped(s) PROVE TypeOK'
    BY <1>6 DEF StreamDropped, TypeOK
  <1>7. ASSUME NEW r \in RunIds, NEW st \in Statuses, NEW D \in DepChoices,
               NEW h \in BOOLEAN, Heartbeat(r, st, D, h)
        PROVE  TypeOK'
    <2> DEFINE new == IF RunIsBlocked(runs, D, h) THEN "blocked" ELSE st
               row == [runs[r] EXCEPT !.status = new, !.deps = D, !.held = h,
                                      !.beaten = TRUE, !.quiet = 0]
               rs == [runs EXCEPT ![r] = row]
    <2>1. new \in Statuses
      BY DEF Statuses
    <2>2. row \in Row
      <3>1. runs[r] \in Row /\ D \in SUBSET RunIds /\ 0 \in 0..StaleAfter
        BY ConstantsAssumption DEF TypeOK
      <3> HIDE DEF new
      <3> QED
        BY <2>1, <3>1 DEF Row
    <2>3. rs \in [RunIds -> Row]
      BY <2>2 DEF TypeOK
    <2>4. Commit(rs)
      BY <1>7 DEF Heartbeat
    <2>5. ops' \in 0..MaxOps
      BY <1>7, ServeCounts DEF Heartbeat
    <2> HIDE DEF rs
    <2> QED
      BY <1>7, <2>3, <2>4, <2>5, CommitTypes DEF Heartbeat, TypeOK
  <1>8. ASSUME NEW r \in RunIds, NEW st \in Statuses \cup {"keep"}, NEW D \in DepChoices,
               NEW h \in BOOLEAN, UpdateDependencies(r, st, D, h)
        PROVE  TypeOK'
    <2> DEFINE new == PatchedStatus(runs[r], st, RunIsBlocked(runs, D, h))
               row == [Updated(runs[r], new) EXCEPT !.deps = D, !.held = h]
               rs == [runs EXCEPT ![r] = row]
    <2>1. new \in Statuses
      <3>1. runs[r].status \in Statuses
        BY <1>8 DEF UpdateDependencies, Present, TypeOK, Row
      <3> DEFINE blocked == RunIsBlocked(runs, D, h)
      <3> HIDE DEF blocked
      <3>2. PatchedStatus(runs[r], st, blocked) \in Statuses
        BY <3>1 DEF PatchedStatus, Statuses, ActiveStatuses
      <3> QED
        BY <3>2 DEF blocked
    <2>2. Updated(runs[r], new) \in Row
      <3> HIDE DEF new
      <3> QED
        BY <2>1, UpdatedIsRow DEF TypeOK
    <2>3. row \in Row
      <3> DEFINE u == Updated(runs[r], new)
      <3>1. u \in Row /\ D \in SUBSET RunIds
        BY <2>2, ConstantsAssumption
      <3>2. row = [u EXCEPT !.deps = D, !.held = h]
        OBVIOUS
      <3> HIDE DEF u
      <3> QED
        BY <3>1, <3>2 DEF Row
    <2>4. rs \in [RunIds -> Row]
      BY <2>3 DEF TypeOK
    <2>5. Commit(rs)
      BY <1>8 DEF UpdateDependencies
    <2>6. ops' \in 0..MaxOps
      BY <1>8, ServeCounts DEF UpdateDependencies
    <2> HIDE DEF rs
    <2> QED
      BY <1>8, <2>4, <2>5, <2>6, CommitTypes DEF UpdateDependencies, TypeOK
  <1>9. ASSUME NEW r \in RunIds, DeleteRun(r) PROVE TypeOK'
    BY <1>9, ServeCounts, RemoveTypes DEF DeleteRun
  <1>10. ASSUME NEW st \in Statuses \cup {"all"}, ClearRuns(st) PROVE TypeOK'
    <2> DEFINE gone == {r \in RunIds : Present(r) /\ st \in {"all", runs[r].status}}
    <2>1. gone \in SUBSET RunIds /\ Remove(gone)
      BY <1>10 DEF ClearRuns
    <2>2. ops' \in 0..MaxOps
      BY <1>10, ServeCounts DEF ClearRuns
    <2> HIDE DEF gone
    <2> QED
      BY <2>1, <2>2, RemoveTypes
  <1>11. CASE Tick
    <2>1. ASSUME NEW row \in Row
          PROVE  [row EXCEPT !.quiet = Older(@)] \in Row
      <3>1. Older(row.quiet) \in 0..StaleAfter
        BY OlderIsAge DEF Row
      <3> QED
        BY <3>1 DEF Row
    <2>2. ASSUME NEW s \in Slots, Busy(s)
          PROVE  [exec[s] EXCEPT !.age = Older(@)] \in Calls
      <3>1. exec[s] \in Calls
        BY <2>2 DEF Busy, TypeOK
      <3>2. Older(exec[s].age) \in 0..StaleAfter
        BY <3>1, OlderIsAge DEF Calls
      <3> QED
        BY <3>1, <3>2 DEF Calls
    <2>3. runs' \in [RunIds -> Row] /\ disk' \in [RunIds -> Row]
      BY <1>11, <2>1 DEF Tick, TypeOK
    <2>4. exec' \in [Slots -> Calls \cup {Idle}]
      BY <1>11, <2>2 DEF Tick
    <2>5. late' \in BOOLEAN
      BY <1>11, Zenon DEF Tick, TypeOK
    <2> QED
      BY <1>11, <2>3, <2>4, <2>5 DEF Tick, TypeOK
  <1>12. CASE Crash
    BY <1>12, RestartTypes DEF Crash, TypeOK
  <1>13. CASE CrashTornFile
    BY <1>13, RestartTypes, AbsentIsRow DEF CrashTornFile
  <1>14. ASSUME NEW r \in RunIds, CrashInResume(r) PROVE TypeOK'
    <2>1. Updated(disk[r], "resuming") \in Row
      BY UpdatedIsRow DEF TypeOK, Statuses, ActiveStatuses
    <2> QED
      BY <1>14, <2>1, RestartTypes DEF CrashInResume, TypeOK
  <1>15. CASE UNCHANGED vars
    BY <1>15 DEF vars, TypeOK
  <1> QED
    BY <1>1, <1>2, <1>3, <1>4, <1>5, <1>6, <1>7, <1>8, <1>9, <1>10, <1>11, <1>12, <1>13,
       <1>14, <1>15 DEF Next

LEMMA TypeInit == Init => TypeOK
  <1> SUFFICES ASSUME Init PROVE TypeOK
    OBVIOUS
  <1>1. runs \in [RunIds -> Row] /\ disk \in [RunIds -> Row]
    BY AbsentIsRow DEF Init
  <1>2. ops \in 0..MaxOps /\ restarts \in 0..MaxRestarts
    BY ConstantsAssumption DEF Init
  <1>3. exec \in [Slots -> Calls \cup {Idle}] /\ late \in BOOLEAN
    BY DEF Init
  <1> QED
    BY <1>1, <1>2, <1>3 DEF Init, TypeOK

\* Every variable of the ledger keeps its type in every behaviour.
THEOREM TypeCorrect == Spec => []TypeOK
  BY TypeInit, TypeStep, PTL DEF Spec

-----------------------------------------------------------------------------
(* Dependencies first.                                                      *)

\* What a slot may do in a step that commits rows: keep its call (or the
\* dependencies of its call), lose it, or take one whose dependencies are done.
SlotKeepsDone(s) ==
    \/ exec'[s] = Idle
    \/ Busy(s) /\ exec'[s].deps = exec[s].deps
    \/ exec'[s].deps \subseteq everDone'

LEMMA CommitKeepsDone ==
  ASSUME DependencyInv, NEW rs \in [RunIds -> Row], Commit(rs),
         \A s \in Slots : SlotKeepsDone(s)
  PROVE  /\ OnFile'
         /\ DependenciesDone'
         /\ \A r \in RunIds : runs'[r].status = "completed" => r \in everDone'
  <1>1. everDone \subseteq everDone' /\ runs' = rs /\ disk' = rs
        /\ \A r \in RunIds : rs[r].status = "completed" => r \in everDone'
    BY DEF Commit
  <1>2. ASSUME NEW s \in Slots, Busy(s)'
        PROVE  exec'[s].deps \subseteq everDone'
    <2>1. exec'[s] # Idle
      BY <1>2 DEF Busy
    <2>2. CASE Busy(s) /\ exec'[s].deps = exec[s].deps
      BY <2>2, <1>1 DEF DependencyInv, DependenciesDone
    <2> QED
      BY <2>1, <2>2 DEF SlotKeepsDone
  <1> QED
    BY <1>1, <1>2 DEF OnFile, DependenciesDone

LEMMA BeginKeepsDone ==
  ASSUME DependencyInv, NEW r \in RunIds, NEW kind \in {"ask", "chat", "stream"},
         NEW D \in SUBSET RunIds, NEW h \in BOOLEAN, Begin(r, kind, D, h)
  PROVE  /\ OnFile'
         /\ DependenciesDone'
         /\ \A q \in RunIds : runs'[q].status = "completed" => q \in everDone'
  <1> DEFINE ep == IF kind = "chat" THEN "chat" ELSE "ask"
             rs == [runs EXCEPT ![r] = Started(runs[r], ep, D, h)]
             rb == [rs EXCEPT ![r].status = "blocked"]
  <1>1. /\ runs' \in [RunIds -> Row]
        /\ exec' \in [Slots -> Calls \cup {Idle}]
    BY BeginTypes DEF DependencyInv
  <1>2. CASE BeginBlocked(r, ep, D, h)
    <2>1. Commit(rb) /\ exec' = exec
      BY <1>2 DEF BeginBlocked
    <2>2. rb \in [RunIds -> Row]
      BY <2>1, <1>1 DEF Commit
    <2>3. \A s \in Slots : SlotKeepsDone(s)
      BY <2>1 DEF SlotKeepsDone, Busy
    <2> HIDE DEF rb
    <2> QED
      BY <2>1, <2>2, <2>3, CommitKeepsDone
  <1>3. CASE BeginCall(r, kind, D, h)
    <2>1. Commit(rs) /\ ~RunIsBlocked(rs, D, h)
      BY <1>3 DEF BeginCall
    <2>2. PICK t \in Slots :
             exec' = [exec EXCEPT ![t] = [run |-> r, kind |-> kind, retry |-> FALSE,
                                          deps |-> D, age |-> 0]]
      BY <1>3 DEF BeginCall
    <2>3. D \subseteq everDone'
      <3> HIDE DEF rs
      <3> QED
        BY <2>1 DEF Commit, RunIsBlocked, DependencyBlockers
    <2>4. ASSUME NEW s \in Slots
          PROVE  SlotKeepsDone(s)
      <3>1. CASE s = t
        BY <2>2, <2>3, <3>1 DEF SlotKeepsDone, DependencyInv, TypeOK
      <3>2. CASE s # t
        BY <2>2, <3>2 DEF SlotKeepsDone, Busy, DependencyInv, TypeOK
      <3> QED
        BY <3>1, <3>2
    <2>5. rs \in [RunIds -> Row]
      BY <2>1, <1>1 DEF Commit
    <2> HIDE DEF rs
    <2> QED
      BY <2>1, <2>4, <2>5, CommitKeepsDone
  <1>4. CASE kind = "chat" /\ BeginConflict(r, D, h)
    <2>1. Commit(rs) /\ exec' = exec
      BY <1>4 DEF BeginConflict
    <2>2. rs \in [RunIds -> Row]
      BY <2>1, <1>1 DEF Commit
    <2>3. \A s \in Slots : SlotKeepsDone(s)
      BY <2>1 DEF SlotKeepsDone, Busy
    <2> HIDE DEF rs
    <2> QED
      BY <2>1, <2>2, <2>3, CommitKeepsDone
  <1> QED
    BY <1>2, <1>3, <1>4 DEF Begin

LEMMA DependencyStep == DependencyInv /\ [Next]_vars => DependencyInv'
  <1> SUFFICES ASSUME DependencyInv, [Next]_vars PROVE DependencyInv'
    OBVIOUS
  <1> DEFINE Rest == /\ OnFile
                     /\ DependenciesDone
                     /\ \A q \in RunIds : runs[q].status = "completed" => q \in everDone
  <1>0. TypeOK'
    BY TypeStep DEF DependencyInv
  <1>1. ASSUME NEW r \in RunIds, NEW kind \in {"ask", "chat", "stream"},
               NEW D \in DepChoices, NEW h \in BOOLEAN, Submit(r, kind, D, h)
        PROVE  Rest'
    <2>1. Begin(r, kind, D, h) /\ D \in SUBSET RunIds
      BY <1>1, ConstantsAssumption DEF Submit
    <2> QED
      BY <2>1, BeginKeepsDone
  <1>2. ASSUME NEW r \in RunIds, Resume(r)
        PROVE  Rest'
    <2>1. /\ runs[r].endpoint \in {"ask", "chat", "stream"}
          /\ runs[r].reqDeps \in SUBSET RunIds
          /\ runs[r].reqHeld \in BOOLEAN
      BY <1>2 DEF Resume, MayResume, DependencyInv, TypeOK, Row
    <2>2. Begin(r, runs[r].endpoint, runs[r].reqDeps, runs[r].reqHeld)
      BY <1>2 DEF Resume
    <2> QED
      BY <2>1, <2>2, BeginKeepsDone
  <1>3. ASSUME NEW rs, Commit(rs), exec' = exec
        PROVE  Rest'
    <2>1. rs \in [RunIds -> Row]
      BY <1>0, <1>3 DEF Commit, TypeOK
    <2>2. \A s \in Slots : SlotKeepsDone(s)
      BY <1>3 DEF SlotKeepsDone, Busy
    <2> QED
      BY <1>3, <2>1, <2>2, CommitKeepsDone
  <1>4. ASSUME NEW s \in Slots, NEW st, Finish(s, st)
        PROVE  Rest'
    <2>1. PICK rs : Commit(rs)
      BY <1>4 DEF Finish
    <2>2. rs \in [RunIds -> Row]
      BY <1>0, <2>1 DEF Commit, TypeOK
    <2>3. \A t \in Slots : SlotKeepsDone(t)
      BY <1>4 DEF Finish, SlotKeepsDone, Busy, DependencyInv, TypeOK
    <2> QED
      BY <2>1, <2>2, <2>3, CommitKeepsDone
  <1>5. ASSUME UNCHANGED <<runs, disk, everDone>>,
               \A s \in Slots : exec'[s] # Idle => Busy(s) /\ exec'[s].deps = exec[s].deps
        PROVE  Rest'
    BY <1>5 DEF DependencyInv, OnFile, DependenciesDone, Busy
  <1>6. ASSUME NEW s \in Slots, Retry(s) PROVE Rest'
    BY <1>6, <1>5 DEF Retry, Busy, DependencyInv, TypeOK, Calls
  <1>7. ASSUME NEW s \in Slots, StreamDropped(s) PROVE Rest'
    BY <1>7, <1>5 DEF StreamDropped, Busy, DependencyInv, TypeOK
  <1>8. ASSUME NEW r \in RunIds, NEW st \in Statuses, NEW D \in DepChoices,
               NEW h \in BOOLEAN, Heartbeat(r, st, D, h)
        PROVE  Rest'
    BY <1>8, <1>3 DEF Heartbeat
  <1>9. ASSUME NEW r \in RunIds, NEW st \in Statuses \cup {"keep"}, NEW D \in DepChoices,
               NEW h \in BOOLEAN, UpdateDependencies(r, st, D, h)
        PROVE  Rest'
    BY <1>9, <1>3 DEF UpdateDependencies
  <1>10. ASSUME NEW r \in RunIds, DeleteRun(r) PROVE Rest'
    BY <1>10, <1>3 DEF DeleteRun, Remove
  <1>11. ASSUME NEW st \in Statuses \cup {"all"}, ClearRuns(st) PROVE Rest'
    BY <1>11, <1>3 DEF ClearRuns, Remove
  <1>12. ASSUME Tick PROVE Rest'
    <2>1. /\ disk' = runs' /\ everDone' = everDone
          /\ \A q \in RunIds : runs'[q].status = runs[q].status
      BY <1>12 DEF Tick, DependencyInv, OnFile, TypeOK, Row, Present
    <2>2. \A s \in Slots : exec'[s] # Idle => Busy(s) /\ exec'[s].deps = exec[s].deps
      BY <1>12 DEF Tick, Busy, DependencyInv, TypeOK, Calls
    <2> QED
      BY <2>1, <2>2 DEF DependencyInv, OnFile, DependenciesDone, Busy
  <1>13. ASSUME NEW rs, RestartWith(rs),
                \A q \in RunIds : rs[q].status = "completed" => q \in everDone
         PROVE  Rest'
    BY <1>13 DEF RestartWith, OnFile, DependenciesDone, Busy
  <1>14. ASSUME Crash PROVE Rest'
    BY <1>14, <1>13 DEF Crash, DependencyInv, OnFile
  <1>15. ASSUME CrashTornFile PROVE Rest'
    BY <1>15, <1>13 DEF CrashTornFile, Absent
  <1>16. ASSUME NEW r \in RunIds, CrashInResume(r) PROVE Rest'
    <2> DEFINE rs == [disk EXCEPT ![r] = Updated(@, "resuming")]
    <2>1. RestartWith(rs)
      BY <1>16 DEF CrashInResume
    <2>2. Updated(disk[r], "resuming").status = "resuming"
      BY UpdatedIsRow DEF DependencyInv, TypeOK, Statuses, ActiveStatuses
    <2>3. \A q \in RunIds : rs[q].status = "completed" => q \in everDone
      BY <2>2 DEF DependencyInv, OnFile, TypeOK
    <2> HIDE DEF rs
    <2> QED
      BY <2>1, <2>3, <1>13
  <1>17. ASSUME UNCHANGED vars PROVE Rest'
    BY <1>17 DEF vars, DependencyInv, OnFile, DependenciesDone, Busy
  <1>18. Rest'
    BY <1>1, <1>2, <1>4, <1>6, <1>7, <1>8, <1>9, <1>10, <1>11, <1>12, <1>14, <1>15, <1>16,
       <1>17 DEF Next, Answer, Fail
  <1> QED
    BY <1>0, <1>18 DEF DependencyInv

LEMMA DependencyInit == Init => DependencyInv
  BY TypeInit DEF Init, DependencyInv, OnFile, DependenciesDone, Busy, Absent

\* No orchestrator call ever begins before the dependencies of its request
\* have completed, for any set of runs and any mix of clients and crashes.
THEOREM DependenciesFirst == Spec => []DependenciesDone
  <1>1. DependencyInv => DependenciesDone
    BY DEF DependencyInv
  <1> QED
    BY <1>1, DependencyInit, DependencyStep, PTL DEF Spec

-----------------------------------------------------------------------------
(* Rows without a request.                                                  *)

\* Slots gain no call of q.
NoNewCall(q) ==
    \A s \in Slots : exec'[s] # Idle => (Busy(s) /\ exec'[s].run = exec[s].run) \/ exec'[s].run # q

LEMMA AccountedKept ==
  ASSUME NEW q \in RunIds, Accounted(q), NoNewCall(q),
         orphaned \subseteq orphaned',
         runs'[q].endpoint # "none" \/ runs'[q].endpoint = runs[q].endpoint,
         runs'[q].status = "absent" \/ runs[q].status # "absent" \/ runs'[q].endpoint # "none"
  PROVE  Accounted(q)'
  BY DEF Accounted, NoNewCall, Busy

LEMMA BeginAccounts ==
  ASSUME BareInv, NEW r \in RunIds, NEW kind \in {"ask", "chat", "stream"},
         NEW D \in SUBSET RunIds, NEW h \in BOOLEAN, Begin(r, kind, D, h),
         UNCHANGED orphaned
  PROVE  \A q \in RunIds : Accounted(q)'
  <1> DEFINE ep == IF kind = "chat" THEN "chat" ELSE "ask"
             row == Started(runs[r], ep, D, h)
             rs == [runs EXCEPT ![r] = row]
             rb == [rs EXCEPT ![r].status = "blocked"]
  <1>1. row \in Row /\ row.status = "running" /\ row.endpoint = ep /\ ep \in {"ask", "chat"}
    BY StartedIsRow DEF BareInv, TypeOK
  <1>2. /\ rs[r].endpoint # "none"
        /\ \A q \in RunIds : q # r => rs[q] = runs[q]
    BY <1>1 DEF BareInv, TypeOK
  <1>3. /\ rb[r].endpoint # "none"
        /\ \A q \in RunIds : q # r => rb[q] = runs[q]
    <2>1. rs \in [RunIds -> Row]
      BY <1>1 DEF BareInv, TypeOK
    <2>2. rb = [rs EXCEPT ![r] = [rs[r] EXCEPT !.status = "blocked"]]
      OBVIOUS
    <2>3. [rs[r] EXCEPT !.status = "blocked"].endpoint = rs[r].endpoint
      BY <2>1 DEF Row
    <2> HIDE DEF rs
    <2> QED
      BY <1>2, <2>1, <2>2, <2>3
  <1>4. /\ runs'[r].endpoint # "none"
        /\ \A q \in RunIds : q # r => runs'[q] = runs[q]
    <2> HIDE DEF rs, rb
    <2> QED
      BY <1>2, <1>3 DEF Begin, BeginBlocked, BeginCall, BeginConflict, Commit, rs, rb
  <1>5. ASSUME NEW q \in RunIds, q # r
        PROVE  NoNewCall(q)
    <2>1. CASE exec' = exec
      BY <2>1 DEF NoNewCall, Busy
    <2>2. ASSUME NEW t \in Slots,
                 exec' = [exec EXCEPT ![t] = [run |-> r, kind |-> kind, retry |-> FALSE,
                                              deps |-> D, age |-> 0]]
          PROVE  NoNewCall(q)
      BY <2>2, <1>5 DEF NoNewCall, Busy, BareInv, TypeOK
    <2> QED
      BY <2>1, <2>2 DEF Begin, BeginBlocked, BeginCall, BeginConflict
  <1>6. Accounted(r)'
    BY <1>4 DEF Accounted
  <1>7. ASSUME NEW q \in RunIds, q # r
        PROVE  Accounted(q)'
    BY <1>4, <1>5, <1>7, AccountedKept DEF BareInv
  <1> QED
    BY <1>6, <1>7

LEMMA FinishAccounts ==
  ASSUME BareInv, NEW s \in Slots, Busy(s), NEW st \in Statuses, Finish(s, st)
  PROVE  \A q \in RunIds : Accounted(q)'
  <1>1. PICK r \in RunIds : r = exec[s].run
    BY DEF BareInv, TypeOK, Busy, Calls
  <1>2. /\ runs'[r].endpoint = runs[r].endpoint
        /\ \A q \in RunIds : q # r => runs'[q] = runs[q]
    BY <1>1, UpdatedIsRow DEF Finish, Commit, BareInv, TypeOK
  <1>3. \A q \in RunIds : NoNewCall(q)
    BY DEF Finish, NoNewCall, Busy, BareInv, TypeOK
  <1>4. Accounted(r)'
    <2>1. runs[r].endpoint # "none" \/ r \in orphaned
      <3>1. Accounted(r)
        BY <1>1 DEF BareInv
      <3> QED
        BY <1>1, <3>1 DEF Accounted
    <2>2. orphaned' = orphaned
      BY DEF Finish
    <2> QED
      BY <1>2, <2>1, <2>2 DEF Accounted
  <1>5. ASSUME NEW q \in RunIds, q # r
        PROVE  Accounted(q)'
    BY <1>2, <1>3, <1>5, AccountedKept DEF BareInv, Finish
  <1> QED
    BY <1>4, <1>5

LEMMA RemoveAccounts ==
  ASSUME BareInv, NEW gone \in SUBSET RunIds, Remove(gone)
  PROVE  \A q \in RunIds : Accounted(q)'
  <1> TAKE q \in RunIds
  <1>1. exec' = exec /\ orphaned' = orphaned \cup {r \in gone : InFlight(r) # {}}
        /\ runs'[q] = IF q \in gone THEN Absent ELSE runs[q]
    BY DEF Remove, Commit
  <1>2. CASE q \in gone
    BY <1>1, <1>2 DEF Accounted, Absent, InFlight, Busy
  <1>3. CASE q \notin gone
    BY <1>1, <1>3 DEF Accounted, Busy, BareInv
  <1> QED
    BY <1>2, <1>3

LEMMA BareStep == DependencyInv /\ BareInv /\ [Next]_vars => BareInv'
  <1> SUFFICES ASSUME DependencyInv, BareInv, [Next]_vars PROVE BareInv'
    OBVIOUS
  <1> DEFINE All == \A q \in RunIds : Accounted(q)
  <1>0. TypeOK'
    BY TypeStep DEF BareInv
  <1>1. ASSUME NEW r \in RunIds, NEW kind \in {"ask", "chat", "stream"},
               NEW D \in DepChoices, NEW h \in BOOLEAN, Submit(r, kind, D, h)
        PROVE  All'
    <2>1. Begin(r, kind, D, h) /\ D \in SUBSET RunIds /\ UNCHANGED orphaned
      BY <1>1, ConstantsAssumption DEF Submit
    <2> QED
      BY <2>1, BeginAccounts
  <1>2. ASSUME NEW r \in RunIds, Resume(r)
        PROVE  All'
    <2>1. /\ runs[r].endpoint \in {"ask", "chat", "stream"}
          /\ runs[r].reqDeps \in SUBSET RunIds
          /\ runs[r].reqHeld \in BOOLEAN
      BY <1>2 DEF Resume, MayResume, BareInv, TypeOK, Row
    <2>2. Begin(r, runs[r].endpoint, runs[r].reqDeps, runs[r].reqHeld) /\ UNCHANGED orphaned
      BY <1>2 DEF Resume
    <2> QED
      BY <2>1, <2>2, BeginAccounts
  <1>3. ASSUME NEW s \in Slots, Answer(s) \/ Fail(s)
        PROVE  All'
    BY <1>3, FinishAccounts DEF Answer, Fail, Statuses
  <1>4. ASSUME NEW s \in Slots, Retry(s) \/ StreamDropped(s)
        PROVE  All'
    <2>1. UNCHANGED <<runs, orphaned>>
      BY <1>4 DEF Retry, StreamDropped
    <2>2. \A q \in RunIds : NoNewCall(q)
      BY <1>4 DEF Retry, StreamDropped, NoNewCall, Busy, BareInv, TypeOK, Calls
    <2> QED
      BY <2>1, <2>2, AccountedKept DEF BareInv
  <1>5. ASSUME NEW r \in RunIds, NEW st \in Statuses, NEW D \in DepChoices,
               NEW h \in BOOLEAN, Heartbeat(r, st, D, h)
        PROVE  All'
    <2>1. /\ \A q \in RunIds : q # r => runs'[q] = runs[q]
          /\ runs'[r].endpoint = runs[r].endpoint
          /\ runs[r].status # "absent"
          /\ exec' = exec /\ orphaned' = orphaned
      BY <1>5 DEF Heartbeat, Commit, Present, BareInv, TypeOK, Row
    <2> QED
      BY <2>1, AccountedKept DEF BareInv, NoNewCall, Busy
  <1>6. ASSUME NEW r \in RunIds, NEW st \in Statuses \cup {"keep"}, NEW D \in DepChoices,
               NEW h \in BOOLEAN, UpdateDependencies(r, st, D, h)
        PROVE  All'
    <2> DEFINE new == PatchedStatus(runs[r], st, RunIsBlocked(runs, D, h))
               u == Updated(runs[r], new)
    <2>1. u.endpoint = runs[r].endpoint /\ [u EXCEPT !.deps = D, !.held = h].endpoint = u.endpoint
      <3>1. runs[r] \in Row
        BY DEF BareInv, TypeOK
      <3>2. Touch(runs[r]) \in Row /\ Touch(runs[r]).endpoint = runs[r].endpoint
        BY <3>1, TouchIsRow
      <3>3. u = [Touch(runs[r]) EXCEPT !.status = new]
        BY DEF Updated
      <3> HIDE DEF new, u
      <3> QED
        BY <3>2, <3>3 DEF Row
    <2>2. runs' = [runs EXCEPT ![r] = [u EXCEPT !.deps = D, !.held = h]]
      BY <1>6 DEF UpdateDependencies, Commit
    <2>3. runs[r].status # "absent" /\ exec' = exec /\ orphaned' = orphaned
      BY <1>6 DEF UpdateDependencies, Present
    <2>4. /\ \A q \in RunIds : q # r => runs'[q] = runs[q]
          /\ runs'[r].endpoint = runs[r].endpoint
      <3> HIDE DEF u
      <3> QED
        BY <2>1, <2>2 DEF BareInv, TypeOK
    <2> QED
      BY <2>3, <2>4, AccountedKept DEF BareInv, NoNewCall, Busy
  <1>7. ASSUME NEW r \in RunIds, DeleteRun(r) PROVE All'
    BY <1>7, RemoveAccounts DEF DeleteRun
  <1>8. ASSUME NEW st \in Statuses \cup {"all"}, ClearRuns(st) PROVE All'
    <2> DEFINE gone == {r \in RunIds : Present(r) /\ st \in {"all", runs[r].status}}
    <2>1. gone \in SUBSET RunIds /\ Remove(gone)
      BY <1>8 DEF ClearRuns
    <2> HIDE DEF gone
    <2> QED
      BY <2>1, RemoveAccounts
  <1>9. ASSUME Tick PROVE All'
    <2>1. /\ orphaned' = orphaned
          /\ \A q \in RunIds : /\ runs'[q].endpoint = runs[q].endpoint
                               /\ runs'[q].status = runs[q].status
      BY <1>9 DEF Tick, BareInv, TypeOK, Row, Present
    <2>2. \A q \in RunIds : NoNewCall(q)
      BY <1>9 DEF Tick, NoNewCall, Busy, BareInv, TypeOK, Calls
    <2> QED
      BY <2>1, <2>2, AccountedKept DEF BareInv
  <1>10. ASSUME NEW rs, RestartWith(rs),
                \A q \in RunIds : \/ rs[q].endpoint # "none"
                                  \/ rs[q].status = "absent"
                                  \/ rs[q].endpoint = runs[q].endpoint /\ runs[q].status # "absent"
         PROVE  All'
    BY <1>10 DEF RestartWith, Accounted, Busy, BareInv
  <1>11. ASSUME Crash PROVE All'
    BY <1>11, <1>10 DEF Crash, BareInv, OnFile
  <1>12. ASSUME CrashTornFile PROVE All'
    BY <1>12, <1>10 DEF CrashTornFile, Absent
  <1>13. ASSUME NEW r \in RunIds, CrashInResume(r) PROVE All'
    <2> DEFINE rs == [disk EXCEPT ![r] = Updated(@, "resuming")]
    <2>1. RestartWith(rs) /\ runs[r].endpoint # "none"
      BY <1>13 DEF CrashInResume, MayResume
    <2>2. Updated(disk[r], "resuming").endpoint = runs[r].endpoint
      BY UpdatedIsRow DEF BareInv, OnFile, TypeOK, Statuses, ActiveStatuses
    <2>3. \A q \in RunIds : (q # r => rs[q] = runs[q]) /\ rs[r].endpoint = runs[r].endpoint
      BY <2>2 DEF BareInv, OnFile, TypeOK
    <2> HIDE DEF rs
    <2> QED
      BY <2>1, <2>3, <1>10
  <1>14. ASSUME UNCHANGED vars PROVE All'
    BY <1>14 DEF vars, BareInv, Accounted, Busy
  <1>15. All'
    BY <1>1, <1>2, <1>3, <1>4, <1>5, <1>6, <1>7, <1>8, <1>9, <1>11, <1>12, <1>13, <1>14
       DEF Next
  <1>16. OnFile'
    BY DependencyStep DEF DependencyInv
  <1> QED
    BY <1>0, <1>15, <1>16 DEF BareInv

\* A row that no resume can replay is always the trace of a run deleted or
\* cleared while its call was in flight.
THEOREM BareRowsAreOrphans == Spec => []BareOnlyAfterRemoval
  <1>1. Init => DependencyInv /\ BareInv
    BY TypeInit, DependencyInit DEF Init, BareInv, OnFile, Accounted, Busy, Absent
  <1>2. BareInv => BareOnlyAfterRemoval
    BY DEF BareInv, BareOnlyAfterRemoval, Accounted, Present
  <1> QED
    BY <1>1, <1>2, DependencyStep, BareStep, PTL DEF Spec
-----------------------------------------------------------------------------
(* Ages.  A row that was never beaten is as young as its youngest call.     *)

SilentInv ==
    /\ TypeOK
    /\ OnFile
    /\ \A s \in Slots : Busy(s) /\ ~runs[exec[s].run].beaten =>
                           runs[exec[s].run].quiet <= exec[s].age

\* A row just written: only a heartbeat keeps it from being young.
Fresh(row, old) == row.beaten = old.beaten /\ (row.beaten \/ row.quiet = 0)

LEMMA YoungRows ==
  ASSUME NEW row \in Row
  PROVE  /\ Touch(row) \in Row /\ Fresh(Touch(row), row)
         /\ \A st : Fresh(Updated(row, st), row)
         /\ \A ep, D, h : Fresh(Started(row, ep, D, h), row)
  <1> DEFINE t == Touch(row)
  <1>1. t \in Row
    BY TouchIsRow
  <1>2. Fresh(t, row)
    BY DEF Touch, Row, Fresh
  <1>3. ASSUME NEW st
        PROVE  Fresh(Updated(row, st), row)
    <2>1. Updated(row, st) = [t EXCEPT !.status = st]
      BY DEF Updated
    <2> HIDE DEF t
    <2> QED
      BY <1>1, <1>2, <2>1 DEF Row, Fresh
  <1>4. ASSUME NEW ep, NEW D, NEW h
        PROVE  Fresh(Started(row, ep, D, h), row)
    <2>1. Started(row, ep, D, h) =
            [t EXCEPT !.status = "running", !.endpoint = ep, !.deps = D, !.held = h,
                      !.reqDeps = D, !.reqHeld = h]
      BY DEF Started
    <2> HIDE DEF t
    <2> QED
      BY <1>1, <1>2, <2>1 DEF Row, Fresh
  <1> QED
    BY <1>1, <1>2, <1>3, <1>4

NewCall(r, kind, D) == [run |-> r, kind |-> kind, retry |-> FALSE, deps |-> D, age |-> 0]

\* One more slot is taken, by a call of r.
OneMore(r, kind, D) ==
    \E s \in Slots : ~Busy(s) /\ exec' = [exec EXCEPT ![s] = NewCall(r, kind, D)]

\* What a start does to the rows and the slots.
LEMMA BeginsYoung ==
  ASSUME SilentInv, NEW r \in RunIds, NEW kind \in {"ask", "chat", "stream"},
         NEW D \in SUBSET RunIds, NEW h \in BOOLEAN, Begin(r, kind, D, h)
  PROVE  /\ Fresh(runs'[r], runs[r])
         /\ runs'[r].status \in {"running", "blocked"}
         /\ \A q \in RunIds : q # r => runs'[q] = runs[q]
         /\ exec' = exec \/ (runs'[r].status = "running" /\ OneMore(r, kind, D))
  <1> DEFINE ep == IF kind = "chat" THEN "chat" ELSE "ask"
             row == Started(runs[r], ep, D, h)
             rs == [runs EXCEPT ![r] = row]
             rb == [rs EXCEPT ![r].status = "blocked"]
  <1>1. row \in Row /\ row.status = "running" /\ Fresh(row, runs[r])
    BY StartedIsRow, YoungRows DEF SilentInv, TypeOK
  <1>2. rs \in [RunIds -> Row] /\ rs[r] = row /\ \A q \in RunIds : q # r => rs[q] = runs[q]
    BY <1>1 DEF SilentInv, TypeOK
  <1>3. /\ Fresh(rb[r], runs[r]) /\ rb[r].status = "blocked"
        /\ \A q \in RunIds : q # r => rb[q] = runs[q]
    <2>1. rb = [rs EXCEPT ![r] = [rs[r] EXCEPT !.status = "blocked"]]
      OBVIOUS
    <2> HIDE DEF rs, row
    <2> QED
      BY <1>1, <1>2, <2>1 DEF Row, Fresh
  <1>4. CASE BeginBlocked(r, ep, D, h)
    <2>1. runs' = rb /\ exec' = exec
      BY <1>4 DEF BeginBlocked, Commit
    <2> HIDE DEF rb
    <2> QED
      BY <1>3, <2>1
  <1>5. CASE BeginCall(r, kind, D, h)
    <2>1. runs' = rs
      BY <1>5 DEF BeginCall, Commit
    <2>2. OneMore(r, kind, D)
      BY <1>5 DEF BeginCall, OneMore, NewCall
    <2> HIDE DEF rs, row
    <2> QED
      BY <1>1, <1>2, <2>1, <2>2
  <1>6. CASE kind = "chat" /\ BeginConflict(r, D, h)
    <2>1. runs' = rs /\ exec' = exec
      BY <1>6 DEF BeginConflict, Commit
    <2> HIDE DEF rs, row
    <2> QED
      BY <1>1, <1>2, <2>1
  <1> QED
    BY <1>4, <1>5, <1>6 DEF Begin

\* What an answer does to them.
LEMMA FinishesYoung ==
  ASSUME SilentInv, NEW s \in Slots, Busy(s), NEW st \in Statuses, Finish(s, st)
  PROVE  /\ exec[s].run \in RunIds
         /\ Fresh(runs'[exec[s].run], runs[exec[s].run])
         /\ runs'[exec[s].run].status = st
         /\ runs'[exec[s].run].endpoint = runs[exec[s].run].endpoint
         /\ \A q \in RunIds : q # exec[s].run => runs'[q] = runs[q]
         /\ exec' = [exec EXCEPT ![s] = Idle]
  <1>1. PICK r \in RunIds : r = exec[s].run
    BY DEF SilentInv, TypeOK, Busy, Calls
  <1> DEFINE u == Updated(runs[r], st)
  <1>2. Fresh(u, runs[r]) /\ u.status = st /\ u.endpoint = runs[r].endpoint
    BY UpdatedIsRow, YoungRows DEF SilentInv, TypeOK
  <1>3. runs' = [runs EXCEPT ![r] = u] /\ exec' = [exec EXCEPT ![s] = Idle]
    BY <1>1 DEF Finish, Commit
  <1> HIDE DEF u
  <1> QED
    BY <1>1, <1>2, <1>3 DEF SilentInv, TypeOK

\* A start is of a run the clients may name, and leaves no new call but its own.
LEMMA StartsAreBegins ==
  ASSUME TypeOK
  PROVE  /\ \A r \in RunIds, kind \in {"ask", "chat", "stream"}, D \in DepChoices, h \in BOOLEAN :
               Submit(r, kind, D, h) => D \in SUBSET RunIds /\ Begin(r, kind, D, h)
         /\ \A r \in RunIds : Resume(r) =>
               /\ runs[r].endpoint \in {"ask", "chat", "stream"}
               /\ runs[r].reqDeps \in SUBSET RunIds /\ runs[r].reqHeld \in BOOLEAN
               /\ Begin(r, runs[r].endpoint, runs[r].reqDeps, runs[r].reqHeld)
  BY ConstantsAssumption DEF Submit, Resume, MayResume, TypeOK, Row

LEMMA SilentStep == DependencyInv /\ SilentInv /\ [Next]_vars => SilentInv'
  <1> SUFFICES ASSUME DependencyInv, SilentInv, [Next]_vars PROVE SilentInv'
    OBVIOUS
  <1> DEFINE Quiet == \A s \in Slots : Busy(s) /\ ~runs[exec[s].run].beaten =>
                                           runs[exec[s].run].quiet <= exec[s].age
  <1>0. TypeOK' /\ OnFile'
    BY DependencyStep DEF DependencyInv
  <1>1. ASSUME NEW r \in RunIds, NEW kind \in {"ask", "chat", "stream"},
               NEW D \in SUBSET RunIds, NEW h \in BOOLEAN, Begin(r, kind, D, h)
        PROVE  Quiet'
    <2>1. /\ Fresh(runs'[r], runs[r])
          /\ \A q \in RunIds : q # r => runs'[q] = runs[q]
          /\ exec' = exec \/ OneMore(r, kind, D)
      BY <1>1, BeginsYoung
    <2> SUFFICES ASSUME NEW s \in Slots, exec'[s] # Idle, ~runs'[exec'[s].run].beaten
                 PROVE  runs'[exec'[s].run].quiet <= exec'[s].age
      BY DEF Busy
    <2>2. exec'[s] \in Calls
      BY <1>0 DEF TypeOK
    <2>3. CASE exec'[s].run = r
      BY <2>1, <2>2, <2>3, ConstantsAssumption DEF Calls, Fresh
    <2>4. CASE exec'[s].run # r
      <3>1. exec'[s] = exec[s]
        BY <2>1, <2>4 DEF SilentInv, TypeOK, OneMore, NewCall
      <3> QED
        BY <2>1, <2>2, <2>4, <3>1 DEF SilentInv, Busy, Calls
    <2> QED
      BY <2>3, <2>4
  <1>2. ASSUME NEW s \in Slots, Answer(s) \/ Fail(s)
        PROVE  Quiet'
    <2>1. PICK st \in Statuses : Busy(s) /\ Finish(s, st)
      BY <1>2 DEF Answer, Fail, Statuses
    <2>2. /\ exec[s].run \in RunIds
          /\ Fresh(runs'[exec[s].run], runs[exec[s].run])
          /\ \A q \in RunIds : q # exec[s].run => runs'[q] = runs[q]
          /\ exec' = [exec EXCEPT ![s] = Idle]
      BY <2>1, FinishesYoung
    <2> SUFFICES ASSUME NEW t \in Slots, exec'[t] # Idle, ~runs'[exec'[t].run].beaten
                 PROVE  runs'[exec'[t].run].quiet <= exec'[t].age
      BY DEF Busy
    <2>3. exec'[t] = exec[t] /\ exec[t] # Idle /\ exec[t] \in Calls
      BY <2>2 DEF SilentInv, TypeOK
    <2> QED
      BY <2>2, <2>3, ConstantsAssumption DEF SilentInv, Busy, Calls, Fresh
  <1>3. ASSUME NEW s \in Slots, Retry(s) \/ StreamDropped(s)
        PROVE  Quiet'
    <2>1. runs' = runs
      BY <1>3 DEF Retry, StreamDropped
    <2>2. \A t \in Slots : exec'[t] # Idle =>
             exec[t] # Idle /\ exec'[t].run = exec[t].run /\ exec'[t].age = exec[t].age
      BY <1>3 DEF Retry, StreamDropped, Busy, SilentInv, TypeOK, Calls
    <2> QED
      BY <2>1, <2>2 DEF SilentInv, Busy
  <1>4. ASSUME NEW r \in RunIds, NEW st \in Statuses \cup {"keep"}, NEW D \in DepChoices,
               NEW h \in BOOLEAN, UpdateDependencies(r, st, D, h)
        PROVE  Quiet'
    <2> DEFINE new == PatchedStatus(runs[r], st, RunIsBlocked(runs, D, h))
               u == Updated(runs[r], new)
    <2>1. runs' = [runs EXCEPT ![r] = [u EXCEPT !.deps = D, !.held = h]] /\ exec' = exec
      BY <1>4 DEF UpdateDependencies, Commit
    <2>2. Fresh(u, runs[r])
      BY YoungRows DEF SilentInv, TypeOK
    <2>3. u = [Touch(runs[r]) EXCEPT !.status = new] /\ Touch(runs[r]) \in Row
      BY TouchIsRow DEF Updated, SilentInv, TypeOK
    <2>4. Fresh([u EXCEPT !.deps = D, !.held = h], runs[r])
      <3> HIDE DEF new, u
      <3> QED
        BY <2>2, <2>3 DEF Row, Fresh
    <2>5. /\ Fresh(runs'[r], runs[r])
          /\ \A q \in RunIds : q # r => runs'[q] = runs[q]
      <3> HIDE DEF u
      <3> QED
        BY <2>1, <2>4 DEF SilentInv, TypeOK
    <2> QED
      BY <2>1, <2>5, ConstantsAssumption DEF SilentInv, Busy, TypeOK, Calls, Fresh
  <1>5. ASSUME NEW gone \in SUBSET RunIds, Remove(gone)
        PROVE  Quiet'
    <2>1. /\ \A q \in RunIds : runs'[q] = runs[q] \/ runs'[q] = Absent
          /\ exec' = exec
      BY <1>5 DEF Remove, Commit
    <2> QED
      BY <2>1, ConstantsAssumption DEF SilentInv, Absent, Busy, TypeOK, Calls
  <1>6. ASSUME Tick PROVE Quiet'
    <2>1. \A r \in RunIds :
             /\ runs'[r].beaten = runs[r].beaten
             /\ runs'[r].quiet \in {runs[r].quiet, Older(runs[r].quiet)}
      BY <1>6 DEF Tick, SilentInv, TypeOK, Row
    <2>2. \A s \in Slots : exec'[s] # Idle =>
             exec[s] # Idle /\ exec'[s].run = exec[s].run /\ exec'[s].age = Older(exec[s].age)
      BY <1>6 DEF Tick, Busy, SilentInv, TypeOK, Calls
    <2>3. \A m, n \in 0..StaleAfter : m <= n => m <= Older(n) /\ Older(m) <= Older(n)
      BY ConstantsAssumption DEF Older
    <2> SUFFICES ASSUME NEW s \in Slots, exec'[s] # Idle, ~runs'[exec'[s].run].beaten
                 PROVE  runs'[exec'[s].run].quiet <= exec'[s].age
      BY DEF Busy
    <2>4. exec[s] \in Calls /\ exec[s].run \in RunIds /\ exec[s].age \in 0..StaleAfter
      BY <2>2 DEF SilentInv, TypeOK, Calls
    <2>5. runs[exec[s].run].quiet \in 0..StaleAfter
      BY <2>4 DEF SilentInv, TypeOK, Row
    <2>6. runs[exec[s].run].quiet <= exec[s].age
      BY <2>1, <2>2, <2>4 DEF SilentInv, Busy
    <2> QED
      BY <2>1, <2>2, <2>3, <2>4, <2>5, <2>6
  <1>7. ASSUME NEW rs, RestartWith(rs)
        PROVE  Quiet'
    BY <1>7 DEF RestartWith, Busy
  <1>8. ASSUME NEW r \in RunIds, CrashInResume(r)
        PROVE  Quiet'
    BY <1>7, <1>8 DEF CrashInResume
  <1>9. ASSUME NEW r \in RunIds, DeleteRun(r) PROVE Quiet'
    BY <1>9, <1>5 DEF DeleteRun
  <1>10. ASSUME NEW st \in Statuses \cup {"all"}, ClearRuns(st) PROVE Quiet'
    <2> DEFINE gone == {r \in RunIds : Present(r) /\ st \in {"all", runs[r].status}}
    <2>1. gone \in SUBSET RunIds /\ Remove(gone)
      BY <1>10 DEF ClearRuns
    <2> HIDE DEF gone
    <2> QED
      BY <2>1, <1>5
  <1>11. ASSUME Crash PROVE Quiet'
    BY <1>11, <1>7 DEF Crash
  <1>12. ASSUME CrashTornFile PROVE Quiet'
    BY <1>12, <1>7 DEF CrashTornFile
  <1>13. ASSUME UNCHANGED vars PROVE Quiet'
    BY <1>13 DEF vars, SilentInv, Busy
  <1>14. ASSUME NEW r \in RunIds, NEW kind \in {"ask", "chat", "stream"},
                NEW D \in DepChoices, NEW h \in BOOLEAN, Submit(r, kind, D, h)
         PROVE  Quiet'
    BY <1>14, <1>1, StartsAreBegins DEF SilentInv
  <1>15. ASSUME NEW r \in RunIds, Resume(r) PROVE Quiet'
    <2>1. /\ runs[r].endpoint \in {"ask", "chat", "stream"}
          /\ runs[r].reqDeps \in SUBSET RunIds /\ runs[r].reqHeld \in BOOLEAN
          /\ Begin(r, runs[r].endpoint, runs[r].reqDeps, runs[r].reqHeld)
      BY <1>15, StartsAreBegins DEF SilentInv
    <2> QED
      BY <2>1, <1>1
  <1>16. ASSUME NEW r \in RunIds, NEW st \in Statuses, NEW D \in DepChoices,
                NEW h \in BOOLEAN, Heartbeat(r, st, D, h)
         PROVE  Quiet'
    <2> DEFINE new == IF RunIsBlocked(runs, D, h) THEN "blocked" ELSE st
               row == [runs[r] EXCEPT !.status = new, !.deps = D, !.held = h,
                                      !.beaten = TRUE, !.quiet = 0]
    <2>1. runs' = [runs EXCEPT ![r] = row] /\ exec' = exec
      BY <1>16 DEF Heartbeat, Commit
    <2>2. row.beaten
      <3>1. runs[r] \in Row
        BY DEF SilentInv, TypeOK
      <3> HIDE DEF new
      <3> QED
        BY <3>1 DEF Row
    <2> HIDE DEF row
    <2>3. runs'[r].beaten /\ \A q \in RunIds : q # r => runs'[q] = runs[q]
      BY <2>1, <2>2 DEF SilentInv, TypeOK
    <2> QED
      BY <2>1, <2>3 DEF SilentInv, Busy, TypeOK, Calls
  <1>17. Quiet'
    BY <1>2, <1>3, <1>4, <1>6, <1>8, <1>9, <1>10, <1>11, <1>12, <1>13, <1>14, <1>15, <1>16
       DEF Next
  <1> QED
    BY <1>0, <1>17 DEF SilentInv

LEMMA SilentInit == Init => SilentInv
  BY TypeInit DEF Init, SilentInv, OnFile, Busy, Absent

\* A run that never got a heartbeat and is shown as stalled has no call that is
\* younger than the threshold, whatever any client does: however often runs are
\* resumed, started anew, removed, patched or brought back by a late answer.
THEOREM StalledRunsAreSilent == Spec => []StalledMeansSilent
  <1>1. SilentInv => StalledMeansSilent
    BY ConstantsAssumption
       DEF SilentInv, StalledMeansSilent, RunIsStale, InFlight, Busy, TypeOK, Row, Calls
  <1> QED
    BY <1>1, DependencyInit, DependencyStep, SilentInit, SilentStep, PTL DEF Spec
-----------------------------------------------------------------------------
(* One call a run.                                                          *)

\* The only call of its run, young, and seen as active by whoever would resume.
Prompt(s) ==
    /\ exec[s].age < StaleAfter
    /\ runs[exec[s].run].endpoint = "none" \/ runs[exec[s].run].status \in ActiveStatuses
    /\ \A t \in Slots : Busy(t) /\ exec[t].run = exec[s].run => t = s

PromptInv ==
    /\ \A r \in RunIds : ~runs[r].beaten
    /\ \A r \in RunIds : ~Present(r) => runs[r].endpoint = "none"
    /\ \A r \in RunIds : Present(r) => r \in used
    /\ \A s \in Slots : Busy(s) => exec[s].run \in used
    /\ ~late => \A s \in Slots : Busy(s) => Prompt(s)

\* Nothing young is in flight for a run that may be resumed.
LEMMA ResumableIsIdle ==
  ASSUME SilentInv, PromptInv, ~late, NEW r \in RunIds, MayResume(runs[r])
  PROVE  \A s \in Slots : Busy(s) => exec[s].run # r
  <1> SUFFICES ASSUME NEW s \in Slots, Busy(s), exec[s].run = r PROVE FALSE
    OBVIOUS
  <1>1. /\ exec[s].age < StaleAfter /\ runs[r].quiet <= exec[s].age
        /\ runs[r].endpoint = "none" \/ runs[r].status \in ActiveStatuses
    BY DEF SilentInv, PromptInv, Prompt
  <1>2. runs[r].quiet \in Nat /\ exec[s].age \in Nat
    BY DEF SilentInv, TypeOK, Row, Calls, Busy
  <1>3. runs[r].endpoint # "none" /\ runs[r].quiet >= StaleAfter
    BY <1>1 DEF MayResume, RunIsStale
  <1> QED
    BY <1>1, <1>2, <1>3, ConstantsAssumption

LEMMA BeginPrompt ==
  ASSUME SilentInv, PromptInv, NEW r \in RunIds, NEW kind \in {"ask", "chat", "stream"},
         NEW D \in SUBSET RunIds, NEW h \in BOOLEAN, Begin(r, kind, D, h),
         late' = late, used' = used \cup {r},
         ~late => \A s \in Slots : Busy(s) => exec[s].run # r
  PROVE  PromptInv'
  <1>1. /\ runs'[r].status \in {"running", "blocked"}
        /\ Fresh(runs'[r], runs[r])
        /\ \A q \in RunIds : q # r => runs'[q] = runs[q]
        /\ exec' = exec \/ (runs'[r].status = "running" /\ OneMore(r, kind, D))
    BY BeginsYoung
  <1>2. /\ \A q \in RunIds : ~Present(q)' => runs'[q].endpoint = "none"
        /\ \A q \in RunIds : Present(q)' => q \in used'
    BY <1>1 DEF Present, PromptInv
  <1>7. \A q \in RunIds : ~runs'[q].beaten
    BY <1>1 DEF PromptInv, Fresh
  <1>3. \A s \in Slots : exec'[s] # Idle =>
           \/ exec'[s] = exec[s]
           \/ exec'[s] = NewCall(r, kind, D) /\ runs'[r].status = "running" /\ exec[s] = Idle
    BY <1>1 DEF OneMore, Busy, SilentInv, TypeOK
  <1>4. \A s, t \in Slots : exec'[s] # exec[s] /\ exec'[t] # exec[t] => s = t
    BY <1>1 DEF OneMore, SilentInv, TypeOK
  <1>5. \A s \in Slots : exec'[s] # Idle => exec'[s].run \in used'
    BY <1>3 DEF PromptInv, Busy, NewCall
  <1>6. ASSUME ~late, NEW s \in Slots, exec'[s] # Idle
        PROVE  Prompt(s)'
    <2>1. CASE exec'[s] = exec[s]
      <3>1. Prompt(s) /\ exec[s].run # r /\ exec[s].run \in RunIds
        BY <1>6, <2>1 DEF PromptInv, Busy, SilentInv, TypeOK, Calls
      <3>2. runs'[exec'[s].run] = runs[exec[s].run]
        BY <1>1, <2>1, <3>1
      <3>3. \A t \in Slots : exec'[t] # Idle /\ exec'[t].run = exec'[s].run => t = s
        BY <1>3, <2>1, <3>1 DEF Prompt, Busy, NewCall
      <3> QED
        BY <2>1, <3>1, <3>2, <3>3 DEF Prompt, Busy
    <2>2. CASE exec'[s] # exec[s]
      <3>1. exec'[s] = NewCall(r, kind, D) /\ runs'[r].status = "running"
        BY <1>3, <1>6, <2>2
      <3>2. exec'[s].age = 0 /\ exec'[s].run = r
        BY <3>1 DEF NewCall
      <3>3. \A t \in Slots : exec'[t] # Idle /\ exec'[t].run = r => t = s
        BY <1>3, <1>4, <1>6, <2>2 DEF Busy
      <3> QED
        BY <3>1, <3>2, <3>3, ConstantsAssumption DEF Prompt, Busy, ActiveStatuses
    <2> QED
      BY <2>1, <2>2
  <1> QED
    BY <1>2, <1>5, <1>6, <1>7 DEF PromptInv, Busy

\* No client of these kinds writes to a row that is not its own to start.
PlainClients == Requests \cap {"resubmit", "heartbeat", "dependencies"} = {}

LEMMA PromptStep ==
  ASSUME PlainClients
  PROVE  DependencyInv /\ SilentInv /\ PromptInv /\ [Next]_vars => PromptInv'
  <1> SUFFICES ASSUME DependencyInv, SilentInv, PromptInv, [Next]_vars PROVE PromptInv'
    OBVIOUS
  <1>0. "heartbeat" \notin Requests /\ "resubmit" \notin Requests /\ "dependencies" \notin Requests
    BY DEF PlainClients
  <1>1. ASSUME NEW r \in RunIds, NEW kind \in {"ask", "chat", "stream"},
               NEW D \in DepChoices, NEW h \in BOOLEAN, Submit(r, kind, D, h)
        PROVE  PromptInv'
    <2>1. r \notin used /\ used' = used \cup {r} /\ late' = late
      BY <1>0, <1>1 DEF Submit, Serve
    <2>2. D \in SUBSET RunIds /\ Begin(r, kind, D, h)
      BY <1>1, StartsAreBegins DEF SilentInv
    <2>3. \A s \in Slots : Busy(s) => exec[s].run # r
      BY <2>1 DEF PromptInv
    <2> QED
      BY <2>1, <2>2, <2>3, BeginPrompt
  <1>2. ASSUME NEW r \in RunIds, Resume(r)
        PROVE  PromptInv'
    <2>1. /\ runs[r].endpoint \in {"ask", "chat", "stream"}
          /\ runs[r].reqDeps \in SUBSET RunIds /\ runs[r].reqHeld \in BOOLEAN
          /\ Begin(r, runs[r].endpoint, runs[r].reqDeps, runs[r].reqHeld)
      BY <1>2, StartsAreBegins DEF SilentInv
    <2>2. MayResume(runs[r]) /\ late' = late /\ used' = used
      BY <1>2 DEF Resume
    <2>3. used' = used \cup {r}
      BY <2>2 DEF MayResume, PromptInv, Present
    <2>4. ~late => \A s \in Slots : Busy(s) => exec[s].run # r
      BY <2>2, ResumableIsIdle
    <2> QED
      BY <2>1, <2>2, <2>3, <2>4, BeginPrompt
  <1>3. ASSUME NEW s \in Slots, Answer(s) \/ Fail(s)
        PROVE  PromptInv'
    <2>1. PICK st \in Statuses : Busy(s) /\ Finish(s, st)
      BY <1>3 DEF Answer, Fail, Statuses
    <2>2. /\ exec[s].run \in RunIds
          /\ runs'[exec[s].run].status = st
          /\ runs'[exec[s].run].endpoint = runs[exec[s].run].endpoint
          /\ \A q \in RunIds : q # exec[s].run => runs'[q] = runs[q]
          /\ exec' = [exec EXCEPT ![s] = Idle]
          /\ Fresh(runs'[exec[s].run], runs[exec[s].run])
          /\ used' = used /\ late' = late
      BY <2>1, FinishesYoung DEF Finish
    <2>3. /\ \A q \in RunIds : ~Present(q)' => runs'[q].endpoint = "none"
          /\ \A q \in RunIds : Present(q)' => q \in used'
      BY <2>1, <2>2 DEF Present, PromptInv, Statuses, ActiveStatuses
    <2>4. \A t \in Slots : exec'[t] # Idle => exec'[t] = exec[t] /\ t # s
      BY <2>2 DEF SilentInv, TypeOK
    <2>5. ASSUME ~late, NEW t \in Slots, exec'[t] # Idle
          PROVE  Prompt(t)'
      <3>1. Prompt(t) /\ exec'[t] = exec[t] /\ t # s /\ exec[t].run \in RunIds
        BY <2>4, <2>5 DEF PromptInv, Busy, SilentInv, TypeOK, Calls
      <3>2. exec[t].run # exec[s].run
        BY <2>1, <3>1 DEF Prompt
      <3>3. runs'[exec'[t].run] = runs[exec[t].run]
        BY <2>2, <3>1, <3>2
      <3> QED
        BY <2>4, <3>1, <3>3 DEF Prompt, Busy
    <2>6. \A q \in RunIds : ~runs'[q].beaten
      BY <2>2 DEF PromptInv, Fresh
    <2> QED
      BY <2>2, <2>3, <2>4, <2>5, <2>6 DEF PromptInv, Busy
  <1>4. ASSUME NEW s \in Slots, Retry(s) \/ StreamDropped(s)
        PROVE  PromptInv'
    <2>1. runs' = runs /\ used' = used /\ late' = late
      BY <1>4 DEF Retry, StreamDropped
    <2>2. \A t \in Slots : exec'[t] # Idle =>
             exec[t] # Idle /\ exec'[t].run = exec[t].run /\ exec'[t].age = exec[t].age
      BY <1>4 DEF Retry, StreamDropped, Busy, SilentInv, TypeOK, Calls
    <2> QED
      BY <2>1, <2>2 DEF PromptInv, Prompt, Busy, Present
  <1>5. ASSUME NEW gone \in SUBSET RunIds, Remove(gone)
        PROVE  PromptInv'
    <2>1. /\ \A q \in RunIds : runs'[q] = runs[q] \/ runs'[q] = Absent
          /\ exec' = exec /\ used' = used /\ late' = late
      BY <1>5 DEF Remove, Commit
    <2>2. Absent.status = "absent" /\ Absent.endpoint = "none" /\ ~Absent.beaten
      BY DEF Absent
    <2>3. \A s \in Slots : Busy(s) => exec[s].run \in RunIds
      BY DEF SilentInv, TypeOK, Busy, Calls
    <2> QED
      BY <2>1, <2>2, <2>3 DEF PromptInv, Prompt, Busy, Present
  <1>6. ASSUME Tick PROVE PromptInv'
    <2>1. \A r \in RunIds : /\ runs'[r].status = runs[r].status
                            /\ runs'[r].endpoint = runs[r].endpoint
                            /\ runs'[r].beaten = runs[r].beaten
      BY <1>6 DEF Tick, SilentInv, TypeOK, Row
    <2>2. \A s \in Slots : exec'[s] # Idle =>
             /\ exec[s] # Idle /\ exec'[s].run = exec[s].run
             /\ exec'[s].age = Older(exec[s].age) /\ exec[s].run \in RunIds
      BY <1>6 DEF Tick, Busy, SilentInv, TypeOK, Calls
    <2>3. used' = used
      BY <1>6 DEF Tick
    <2>4. ~late' => ~late /\ \A s \in Slots : exec'[s] # Idle => exec'[s].age # StaleAfter
      BY <1>6, <2>2 DEF Tick, Busy
    <2>5. \A n \in 0..StaleAfter : Older(n) # StaleAfter => Older(n) < StaleAfter
      BY ConstantsAssumption DEF Older
    <2>6. ASSUME ~late', NEW s \in Slots, exec'[s] # Idle
          PROVE  Prompt(s)'
      <3>1. Prompt(s)
        BY <2>2, <2>4, <2>6 DEF PromptInv, Busy
      <3>2. exec'[s].age < StaleAfter
        <4>1. exec[s].age \in 0..StaleAfter
          BY <2>2, <2>6 DEF SilentInv, TypeOK, Calls
        <4> QED
          BY <2>2, <2>4, <2>5, <2>6, <4>1
      <3> QED
        BY <2>1, <2>2, <2>6, <3>1, <3>2 DEF Prompt, Busy
    <2> QED
      BY <2>1, <2>2, <2>3, <2>6 DEF PromptInv, Busy, Present
  <1>7. ASSUME NEW rs, RestartWith(rs),
               \A q \in RunIds : \/ rs[q] = Absent
                                 \/ /\ rs[q].status = "absent" <=> runs[q].status = "absent"
                                    /\ rs[q].endpoint = runs[q].endpoint
                                    /\ rs[q].beaten = runs[q].beaten
        PROVE  PromptInv'
    BY <1>7 DEF RestartWith, PromptInv, Busy, Present, Absent
  <1>8. ASSUME NEW r \in RunIds, CrashInResume(r)
        PROVE  PromptInv'
    <2> DEFINE rs == [disk EXCEPT ![r] = Updated(@, "resuming")]
    <2>1. RestartWith(rs) /\ runs[r].status # "absent"
      BY <1>8 DEF CrashInResume, MayResume
    <2>2. /\ Updated(disk[r], "resuming").status = "resuming"
          /\ Updated(disk[r], "resuming").endpoint = runs[r].endpoint
      BY UpdatedIsRow DEF SilentInv, OnFile, TypeOK, Statuses, ActiveStatuses
    <2>4. Updated(disk[r], "resuming").beaten = runs[r].beaten
      BY YoungRows DEF SilentInv, OnFile, TypeOK, Fresh
    <2>3. \A q \in RunIds : /\ rs[q].status = "absent" <=> runs[q].status = "absent"
                            /\ rs[q].endpoint = runs[q].endpoint
                            /\ rs[q].beaten = runs[q].beaten
      BY <2>1, <2>2, <2>4 DEF SilentInv, OnFile, TypeOK
    <2> HIDE DEF rs
    <2> QED
      BY <1>7, <2>1, <2>3
  <1>9. ASSUME NEW r \in RunIds, DeleteRun(r) PROVE PromptInv'
    BY <1>9, <1>5 DEF DeleteRun
  <1>10. ASSUME NEW st \in Statuses \cup {"all"}, ClearRuns(st) PROVE PromptInv'
    <2> DEFINE gone == {r \in RunIds : Present(r) /\ st \in {"all", runs[r].status}}
    <2>1. gone \in SUBSET RunIds /\ Remove(gone)
      BY <1>10 DEF ClearRuns
    <2> HIDE DEF gone
    <2> QED
      BY <2>1, <1>5
  <1>11. CASE Crash
    BY <1>11, <1>7 DEF Crash, SilentInv, OnFile
  <1>12. CASE CrashTornFile
    BY <1>12, <1>7 DEF CrashTornFile
  <1>13. CASE UNCHANGED vars
    BY <1>13 DEF vars, PromptInv, Prompt, Present, Busy
  <1>14. ASSUME NEW r \in RunIds, NEW st, NEW D \in DepChoices, NEW h \in BOOLEAN,
                Heartbeat(r, st, D, h) \/ UpdateDependencies(r, st, D, h)
         PROVE  FALSE
    BY <1>0, <1>14 DEF Heartbeat, UpdateDependencies, Serve
  <1> QED
    BY <1>1, <1>2, <1>3, <1>4, <1>6, <1>8, <1>9, <1>10, <1>11, <1>12, <1>13, <1>14 DEF Next

LEMMA PromptInit == Init => PromptInv
  BY DEF Init, PromptInv, Busy, Present, Absent

\* While calls answer within the threshold, clients that do not name a run anew,
\* send heartbeats or set dependencies never get a second call for a run: not by
\* resuming, deleting, clearing, dropping streams or crashing the server.
THEOREM PlainClientsHaveOneCall ==
  ASSUME PlainClients
  PROVE  Spec => []SingleCallWhilePrompt
  <1>1. PromptInv => SingleCallWhilePrompt
    <2> SUFFICES ASSUME PromptInv, ~late, NEW r \in RunIds
                 PROVE  Cardinality(InFlight(r)) <= 1
      BY DEF SingleCallWhilePrompt
    <2>1. CASE InFlight(r) = {}
      <3>1. Cardinality(InFlight(r)) = 0
        BY <2>1, FS_EmptySet
      <3> QED
        BY <3>1
    <2>2. ASSUME NEW s \in InFlight(r)
          PROVE  Cardinality(InFlight(r)) <= 1
      <3>1. InFlight(r) = {s}
        BY DEF PromptInv, Prompt, InFlight
      <3>2. Cardinality({s}) = 1
        BY FS_Singleton
      <3>3. Cardinality(InFlight(r)) = 1
        BY <3>1, <3>2
      <3> QED
        BY <3>3
    <2> QED
      BY <2>1, <2>2
  <1> QED
    BY <1>1, DependencyInit, DependencyStep, SilentInit, SilentStep, PromptInit,
       PromptStep, PTL DEF Spec
=============================================================================
