------------------------- MODULE RunTriggersProofs -------------------------
(***************************************************************************)
(* Theorems about RunTriggers, for any triggers, any number of sweeps and  *)
(* webhook requests at once, any edits and any crashes.                    *)
(*                                                                         *)
(* The table, the view of a dashboard and the rows of every worker are     *)
(* copies, and the invariant says the same of each: what it may lack is    *)
(* what its history says it lacks.  A step either makes one copy of        *)
(* another, or changes one and marks the rest.                             *)
(***************************************************************************)
EXTENDS RunTriggers, TLAPS

-----------------------------------------------------------------------------
(* Copies.                                                                  *)

\* The histories, as one value, so that a step's new ones can be spoken of beside
\* its old state.
Hist == [wanted |-> wanted, ran |-> lastRun, at |-> firedAt]

Intact(rows, h) == \A t \in TriggerIds : AdminPart(rows[t]) = h.wanted[t]

Recorded(row, t, h) ==
    row.present =>
        /\ row.last = h.ran[t]
        /\ row.periodic /\ h.ran[t] # 0 => row.next = h.at[t] + 1

CopyOK(c, h) ==
    /\ c \in Copies
    /\ ~c.undone => Intact(c.rows, h)
    /\ \A t \in TriggerIds \ c.behind : Recorded(c.rows[t], t, h)

HistoryOK ==
    /\ wanted \in [TriggerIds -> AdminParts]
    /\ lastRun \in [TriggerIds -> 0..MaxRuns]
    /\ firedAt \in [TriggerIds -> 0..MaxClock]
    /\ \A t \in TriggerIds : lastRun[t] = 0 => firedAt[t] = 0

CountersOK ==
    /\ clock \in 1..MaxClock
    /\ edits \in 0..MaxEdits /\ saves \in 0..MaxSaves
    /\ runs \in 0..MaxRuns /\ crashes \in 0..MaxCrashes

\* A sweep has yet to run rows that were due when it began; a webhook has one.
FlightOK(w, f, h) ==
    /\ f \in Flights /\ CopyOK(f.copy, h)
    /\ w \in Sweepers => f.kind = "sweep"
    /\ f.kind # "sweep" => f.todo = {}
    /\ f.kind = "sweep" =>
           /\ f.at \notin f.todo
           /\ \A t \in f.todo \cup {f.at} :
                 /\ f.copy.rows[t].present /\ f.copy.rows[t].periodic
                 /\ f.copy.rows[t].next <= f.since

ProcsOK(procs, h) ==
    /\ procs \in [Workers -> Flights \cup {Resting}]
    /\ \A w \in Workers : procs[w].kind # "none" => FlightOK(w, procs[w], h)

TriggersInv ==
    HistoryOK /\ CountersOK /\ CopyOK(table, Hist) /\ CopyOK(view, Hist) /\ ProcsOK(proc, Hist)

LEMMA RestingRests == Resting.kind = "none"
BY DEF Resting

LEMMA FlightsFly == \A f \in Flights : f.kind # "none"
BY DEF Flights

LEMMA InvImplies == TriggersInv => TriggersOK /\ RunsAreRecorded
<1> SUFFICES ASSUME TriggersInv PROVE TriggersOK /\ RunsAreRecorded
    OBVIOUS
<1>1. TypeOK
    BY DEF TriggersInv, HistoryOK, CountersOK, CopyOK, ProcsOK, TypeOK
<1>2. EditsStick
    BY DEF TriggersInv, CopyOK, Intact, EditsStick, Hist
<1>3. RunsAreRecorded
    BY DEF TriggersInv, CopyOK, Recorded, RunsAreRecorded, Hist
<1> QED BY <1>1, <1>2, <1>3 DEF TriggersOK

LEMMA HistKept ==
    ASSUME UNCHANGED history
    PROVE  Hist' = Hist /\ (HistoryOK => HistoryOK')
BY DEF Hist, HistoryOK, history

\* After an edit any other copy is one that may lack it.
LEMMA CopyOutdated ==
    ASSUME NEW c, CopyOK(c, Hist), UNCHANGED <<lastRun, firedAt>>
    PROVE  CopyOK(Outdated(c), Hist')
<1>1. /\ Outdated(c) \in Copies /\ Outdated(c).rows = c.rows
      /\ Outdated(c).behind = c.behind /\ Outdated(c).undone
    BY DEF CopyOK, Outdated, Copies
<1> QED BY <1>1 DEF CopyOK, Recorded, Hist

\* Run number runs + 1, of t, is the last one now.
RunNoted(t) ==
    /\ lastRun' = [lastRun EXCEPT ![t] = runs + 1]
    /\ firedAt' = [firedAt EXCEPT ![t] = clock]
    /\ wanted' = wanted

LEMMA HistoryNoted ==
    ASSUME HistoryOK, CountersOK, runs < MaxRuns, NEW t \in TriggerIds, RunNoted(t)
    PROVE  HistoryOK'
<1>1. runs + 1 \in 0..MaxRuns /\ runs + 1 # 0 /\ clock \in 0..MaxClock
    BY ConstantsAssumption DEF CountersOK
<1> QED BY <1>1 DEF HistoryOK, RunNoted

LEMMA CopyBehind ==
    ASSUME HistoryOK, NEW c, CopyOK(c, Hist), NEW t \in TriggerIds, RunNoted(t)
    PROVE  CopyOK(Behind(c, t), Hist')
<1>1. /\ Behind(c, t) \in Copies /\ Behind(c, t).rows = c.rows
      /\ Behind(c, t).behind = c.behind \cup {t} /\ Behind(c, t).undone = c.undone
    BY DEF CopyOK, Behind, Copies
<1>2. ASSUME NEW u \in TriggerIds \ (c.behind \cup {t}) PROVE Recorded(c.rows[u], u, Hist')
    <2>1. lastRun'[u] = lastRun[u] /\ firedAt'[u] = firedAt[u]
        BY <1>2 DEF HistoryOK, RunNoted
    <2>2. Recorded(c.rows[u], u, Hist)
        BY <1>2 DEF CopyOK
    <2> QED BY <2>1, <2>2 DEF Recorded, Hist
<1>3. ~c.undone => Intact(c.rows, Hist')
    BY DEF CopyOK, Intact, RunNoted, Hist
<1> QED BY <1>1, <1>2, <1>3 DEF CopyOK

LEMMA FiredRow ==
    ASSUME CountersOK, runs < MaxRuns, NEW row \in Row
    PROVE  /\ Fired(row) \in Row
           /\ AdminPart(Fired(row)) = AdminPart(row)
           /\ Fired(row).last = runs + 1
           /\ Fired(row).periodic => Fired(row).next = clock + 1
<1> DEFINE next == IF row.periodic THEN clock + 1 ELSE 0
<1>1. next \in 0..(MaxClock + 1) /\ runs + 1 \in 0..MaxRuns
    BY ConstantsAssumption DEF CountersOK
<1>2. row.periodic => next = clock + 1
    OBVIOUS
<1>3. Fired(row) = [row EXCEPT !.last = runs + 1, !.next = next]
    BY DEF Fired
<1> HIDE DEF next
<1>4. [row EXCEPT !.last = runs + 1, !.next = next] \in Row
    BY <1>1 DEF Row
<1>5. AdminPart([row EXCEPT !.last = runs + 1, !.next = next]) = AdminPart(row)
    BY DEF AdminPart, Row
<1>6. /\ [row EXCEPT !.last = runs + 1, !.next = next].last = runs + 1
      /\ [row EXCEPT !.last = runs + 1, !.next = next].next = next
      /\ [row EXCEPT !.last = runs + 1, !.next = next].periodic = row.periodic
    BY DEF Row
<1> QED BY <1>2, <1>3, <1>4, <1>5, <1>6

LEMMA CopyNoted ==
    ASSUME HistoryOK, CountersOK, runs < MaxRuns, NEW c, CopyOK(c, Hist),
           NEW t \in TriggerIds, RunNoted(t)
    PROVE  /\ CopyOK(Noted(c, t), Hist')
           /\ \A u \in TriggerIds \ {t} : Noted(c, t).rows[u] = c.rows[u]
<1> DEFINE rows == [c.rows EXCEPT ![t] = Fired(c.rows[t])]
<1>1. c \in Copies /\ c.rows \in [TriggerIds -> Row] /\ c.rows[t] \in Row
    BY DEF CopyOK, Copies, Rows
<1>2. rows \in Rows /\ rows[t] = Fired(c.rows[t]) /\ \A u \in TriggerIds \ {t} : rows[u] = c.rows[u]
    BY <1>1, FiredRow DEF Rows
<1>3. Noted(c, t) = [c EXCEPT !.rows = rows, !.behind = c.behind \ {t}]
    BY <1>1 DEF Noted, Copies
<1> HIDE DEF rows
<1>4. /\ Noted(c, t) \in Copies /\ Noted(c, t).rows = rows
      /\ Noted(c, t).behind = c.behind \ {t} /\ Noted(c, t).undone = c.undone
    BY <1>1, <1>2, <1>3 DEF Copies
<1>5. ASSUME ~c.undone PROVE Intact(rows, Hist')
    <2>1. \A u \in TriggerIds : AdminPart(c.rows[u]) = wanted[u]
        BY <1>5 DEF CopyOK, Intact, Hist
    <2>2. AdminPart(rows[t]) = wanted[t]
        BY <1>1, <1>2, <2>1, FiredRow
    <2>3. \A u \in TriggerIds : AdminPart(rows[u]) = wanted[u]
        BY <1>2, <2>1, <2>2
    <2> QED BY <2>3 DEF Intact, RunNoted, Hist
<1>6. ASSUME NEW u \in TriggerIds \ (c.behind \ {t}) PROVE Recorded(rows[u], u, Hist')
    <2>1. CASE u = t
        <3>1. rows[t].last = runs + 1 /\ (rows[t].periodic => rows[t].next = clock + 1)
            BY <1>1, <1>2, FiredRow
        <3>2. lastRun'[t] = runs + 1 /\ firedAt'[t] = clock
            BY DEF HistoryOK, RunNoted
        <3> QED BY <2>1, <3>1, <3>2 DEF Recorded, Hist
    <2>2. CASE u # t
        <3>1. lastRun'[u] = lastRun[u] /\ firedAt'[u] = firedAt[u]
            BY <2>2 DEF HistoryOK, RunNoted
        <3>2. Recorded(c.rows[u], u, Hist)
            BY <1>6, <2>2 DEF CopyOK
        <3> QED BY <1>2, <2>2, <3>1, <3>2 DEF Recorded, Hist
    <2> QED BY <2>1, <2>2
<1> QED BY <1>2, <1>4, <1>5, <1>6 DEF CopyOK

-----------------------------------------------------------------------------
(* Workers.                                                                 *)

LEMMA FlightIs ==
    ASSUME ProcsOK(proc, Hist), NEW w \in Workers, InFlight(w)
    PROVE  /\ FlightOK(w, proc[w], Hist) /\ proc[w] \in Flights /\ CopyOK(proc[w].copy, Hist)
           /\ proc[w].at \in TriggerIds /\ proc[w].todo \subseteq TriggerIds
           /\ proc[w].since \in 1..MaxClock
BY DEF ProcsOK, InFlight, FlightOK, Flights

\* The run in hand ended, its worker's copy is copy and the rest is tbl and procs.
LEMMA RunEndsOK ==
    ASSUME NEW w \in Workers, NEW copy, NEW tbl, NEW procs,
           ProcsOK(procs, Hist'), CopyOK(tbl, Hist'), CopyOK(copy, Hist'), FlightOK(w, proc[w], Hist),
           \A t \in proc[w].todo : copy.rows[t] = proc[w].copy.rows[t],
           procs[w].kind = proc[w].kind, procs[w].todo = proc[w].todo,
           procs[w].since = proc[w].since, procs[w] \in Flights,
           NextDue(w, copy, tbl, procs) \/ PutBack(w, copy, procs)
    PROVE  CopyOK(table', Hist') /\ ProcsOK(proc', Hist')
<1>1. CASE PutBack(w, copy, procs)
    <2>1. table' = copy /\ proc' = [procs EXCEPT ![w] = Resting]
        BY <1>1 DEF PutBack, WriteBack
    <2>2. procs \in [Workers -> Flights \cup {Resting}]
        BY DEF ProcsOK
    <2>3. \A u \in Workers : proc'[u].kind # "none" => proc'[u] = procs[u]
        BY <2>1, <2>2, RestingRests
    <2>4. proc' \in [Workers -> Flights \cup {Resting}]
        BY <2>1, <2>2
    <2>5. \A u \in Workers : proc'[u].kind # "none" => FlightOK(u, proc'[u], Hist')
        BY <2>3 DEF ProcsOK, FlightOK, CopyOK, Intact, Recorded
    <2> QED BY <2>1, <2>4, <2>5 DEF ProcsOK
<1>2. CASE NextDue(w, copy, tbl, procs)
    <2>1. PICK t \in proc[w].todo : proc' = [procs EXCEPT ![w] = Onward(procs[w], copy, t)]
        BY <1>2 DEF NextDue
    <2>2. table' = tbl
        BY <1>2 DEF NextDue
    <2> DEFINE f == Onward(procs[w], copy, t)
    <2>3. copy \in Copies /\ t \in TriggerIds /\ proc[w].todo \subseteq TriggerIds
        BY DEF CopyOK, FlightOK, Flights
    <2>4. /\ f \in Flights /\ f.copy = copy /\ f.at = t /\ f.todo = proc[w].todo \ {t}
          /\ f.kind = proc[w].kind /\ f.since = proc[w].since
        BY <2>3 DEF Onward, Flights
    <2> HIDE DEF f
    <2>5. FlightOK(w, f, Hist')
        BY <2>1, <2>4 DEF FlightOK
    <2>6. procs \in [Workers -> Flights \cup {Resting}]
        BY DEF ProcsOK
    <2>7. proc' = [procs EXCEPT ![w] = f]
        BY <2>1 DEF f
    <2>8. proc' \in [Workers -> Flights \cup {Resting}]
        BY <2>4, <2>6, <2>7
    <2>9. ASSUME NEW u \in Workers, proc'[u].kind # "none" PROVE FlightOK(u, proc'[u], Hist')
        <3>1. CASE u = w
            <4>1. proc'[w] = f
                BY <2>6, <2>7
            <4> QED BY <2>5, <3>1, <4>1
        <3>2. CASE u # w
            <4>1. proc'[u] = procs[u]
                BY <2>6, <2>7, <3>2
            <4>2. FlightOK(u, procs[u], Hist')
                BY <2>9, <4>1 DEF ProcsOK
            <4> QED BY <4>1, <4>2
        <3> QED BY <3>1, <3>2
    <2> QED BY <2>2, <2>8, <2>9 DEF ProcsOK
<1> QED BY <1>1, <1>2

LEMMA CompletedOK ==
    ASSUME TriggersInv, NEW w \in Workers, RunCompleted(w)
    PROVE  TriggersInv'
<1> DEFINE t     == proc[w].at
           copy  == Noted(proc[w].copy, t)
           procs == [u \in Workers |-> IF InFlight(u) THEN [proc[u] EXCEPT !.copy = Behind(@, t)]
                                                      ELSE proc[u]]
<1>1. /\ InFlight(w) /\ runs < MaxRuns /\ RunNoted(t)
      /\ NextDue(w, copy, Behind(table, t), procs) \/ PutBack(w, copy, procs)
      /\ view' = Behind(view, t) /\ runs' = runs + 1
      /\ UNCHANGED <<clock, edits, saves, crashes>>
    BY DEF RunCompleted, RunNoted, InFlight
<1>2. HistoryOK /\ CountersOK /\ CopyOK(table, Hist) /\ CopyOK(view, Hist) /\ ProcsOK(proc, Hist)
    BY DEF TriggersInv
<1>3. FlightOK(w, proc[w], Hist) /\ CopyOK(proc[w].copy, Hist) /\ t \in TriggerIds
    BY <1>1, <1>2, FlightIs
<1>4. HistoryOK' /\ CopyOK(Behind(table, t), Hist') /\ CopyOK(view', Hist')
    BY <1>1, <1>2, <1>3, HistoryNoted, CopyBehind
<1>5. CopyOK(copy, Hist') /\ \A u \in TriggerIds \ {t} : copy.rows[u] = proc[w].copy.rows[u]
    BY <1>1, <1>2, <1>3, CopyNoted
<1>6. CountersOK'
    BY <1>1, <1>2, ConstantsAssumption DEF CountersOK
<1>7. ASSUME NEW u \in Workers, InFlight(u)
      PROVE  /\ procs[u] \in Flights /\ FlightOK(u, procs[u], Hist')
             /\ procs[u].kind = proc[u].kind /\ procs[u].todo = proc[u].todo
             /\ procs[u].since = proc[u].since
    <2>1. FlightOK(u, proc[u], Hist) /\ proc[u] \in Flights /\ CopyOK(proc[u].copy, Hist)
        BY <1>2, <1>7, FlightIs
    <2> DEFINE b == Behind(proc[u].copy, t)
    <2>2. CopyOK(b, Hist') /\ b \in Copies /\ b.rows = proc[u].copy.rows
        BY <1>1, <1>2, <1>3, <2>1, CopyBehind DEF CopyOK, Behind, Copies
    <2>3. procs[u] = [proc[u] EXCEPT !.copy = b]
        BY <1>7
    <2> HIDE DEF b, procs
    <2>4. /\ procs[u] \in Flights /\ procs[u].copy = b
          /\ procs[u].kind = proc[u].kind /\ procs[u].todo = proc[u].todo
          /\ procs[u].since = proc[u].since /\ procs[u].at = proc[u].at
        BY <2>1, <2>2, <2>3 DEF Flights
    <2> QED BY <2>1, <2>2, <2>4 DEF FlightOK
<1>8. \A u \in Workers : ~InFlight(u) => procs[u] = proc[u] /\ procs[u].kind = "none"
    BY DEF InFlight
<1>9. procs \in [Workers -> Flights \cup {Resting}]
    <2>1. \A u \in Workers : procs[u] \in Flights \cup {Resting}
        BY <1>2, <1>7, <1>8 DEF ProcsOK
    <2> QED BY <2>1
<1> HIDE DEF procs, copy
<1>10. ProcsOK(procs, Hist')
    BY <1>7, <1>8, <1>9 DEF ProcsOK
<1>11. \A u \in proc[w].todo : copy.rows[u] = proc[w].copy.rows[u]
    <2>1. CASE proc[w].todo = {}
        BY <2>1
    <2>2. CASE proc[w].kind = "sweep"
        BY <1>3, <1>5, <2>2 DEF FlightOK, Flights
    <2>3. CASE proc[w].kind # "sweep" /\ proc[w].todo # {}
        BY <1>3, <2>3 DEF FlightOK
    <2> QED BY <2>1, <2>2, <2>3
<1>12. CopyOK(table', Hist') /\ ProcsOK(proc', Hist')
    BY <1>1, <1>3, <1>4, <1>5, <1>7, <1>10, <1>11, RunEndsOK
<1> QED BY <1>4, <1>6, <1>12 DEF TriggersInv

LEMMA LaunchOK ==
    ASSUME TriggersInv, NEW w \in Workers, NEW kind, NEW todo, NEW t,
           Launch(w, kind, todo, t),
           kind \in {"sweep", "hookBody"}, todo \subseteq TriggerIds, t \in TriggerIds \ todo,
           w \in Sweepers => kind = "sweep", kind # "sweep" => todo = {},
           kind = "sweep" => \A u \in todo \cup {t} : TriggerDue(table.rows[u], clock)
    PROVE  TriggersInv'
<1> DEFINE f == [kind |-> kind, copy |-> table, todo |-> todo, at |-> t, since |-> clock]
<1>1. /\ proc' = [proc EXCEPT ![w] = f]
      /\ UNCHANGED <<table, view, clock, edits, saves, runs, crashes, history>>
    BY DEF Launch
<1>2. FlightOK(w, f, Hist)
    BY DEF TriggersInv, CopyOK, CountersOK, FlightOK, Flights, TriggerDue
<1> HIDE DEF f
<1>3. ProcsOK(proc', Hist)
    BY <1>1, <1>2 DEF TriggersInv, ProcsOK, FlightOK
<1>4. Hist' = Hist /\ HistoryOK'
    BY <1>1, HistKept DEF TriggersInv
<1>5. CountersOK'
    BY <1>1 DEF TriggersInv, CountersOK
<1> QED BY <1>1, <1>3, <1>4, <1>5 DEF TriggersInv

LEMMA SweepBeginOK ==
    ASSUME TriggersInv, NEW w \in Workers, SweepBegin(w)
    PROVE  TriggersInv'
<1>1. PICK t \in Due : Launch(w, "sweep", Due \ {t}, t)
    BY DEF SweepBegin
<1>2. /\ Due \ {t} \subseteq TriggerIds /\ t \in TriggerIds \ (Due \ {t})
      /\ \A u \in (Due \ {t}) \cup {t} : TriggerDue(table.rows[u], clock)
    BY DEF Due
<1> QED BY <1>1, <1>2, LaunchOK

LEMMA HookBeginOK ==
    ASSUME TriggersInv, NEW w \in Workers, NEW t \in TriggerIds, NEW secret, HookBegin(w, t, secret)
    PROVE  TriggersInv'
<1>1. Launch(w, "hookBody", {}, t) /\ w \notin Sweepers
    BY ConstantsAssumption DEF HookBegin
<1> QED BY <1>1, LaunchOK

\* Only the flight of w changes, to one that is as good or to none.
LEMMA FlightStepOK ==
    ASSUME TriggersInv, NEW w \in Workers, NEW f,
           f = Resting \/ FlightOK(w, f, Hist),
           proc' = [proc EXCEPT ![w] = f],
           UNCHANGED <<table, view, clock, edits, saves, runs, crashes, history>>
    PROVE  TriggersInv'
<1>1. f \in Flights \cup {Resting} /\ (f.kind # "none" => FlightOK(w, f, Hist))
    BY RestingRests DEF FlightOK
<1>2. ProcsOK(proc', Hist)
    BY <1>1 DEF TriggersInv, ProcsOK
<1>3. Hist' = Hist /\ HistoryOK'
    BY HistKept DEF TriggersInv
<1>4. CountersOK'
    BY DEF TriggersInv, CountersOK
<1> QED BY <1>2, <1>3, <1>4 DEF TriggersInv

LEMMA HookBodyOK ==
    ASSUME TriggersInv, NEW w \in Workers, HookBody(w)
    PROVE  TriggersInv'
<1> DEFINE f == [proc[w] EXCEPT !.kind = "hook"]
<1>1. proc[w].kind = "hookBody" /\ InFlight(w)
    BY DEF HookBody, InFlight
<1>2. FlightOK(w, proc[w], Hist)
    BY <1>1, FlightIs DEF TriggersInv
<1>3. /\ f \in Flights /\ f.kind = "hook" /\ f.copy = proc[w].copy
      /\ f.todo = proc[w].todo
    BY <1>2 DEF FlightOK, Flights
<1>4. proc' = [proc EXCEPT ![w] = f]
    BY DEF HookBody
<1> HIDE DEF f
<1>5. FlightOK(w, f, Hist)
    BY <1>1, <1>2, <1>3 DEF FlightOK
<1> QED BY <1>4, <1>5, FlightStepOK DEF HookBody

LEMMA HookDroppedOK ==
    ASSUME TriggersInv, NEW w \in Workers, HookDropped(w)
    PROVE  TriggersInv'
BY FlightStepOK DEF HookDropped

LEMMA RunFailedOK ==
    ASSUME TriggersInv, NEW w \in Workers, RunFailed(w)
    PROVE  TriggersInv'
<1>1. CASE proc[w].kind = "hook" /\ proc' = [proc EXCEPT ![w] = Resting] /\ table' = table
    BY <1>1, FlightStepOK DEF RunFailed
<1>2. CASE /\ proc[w].kind = "sweep"
           /\ NextDue(w, proc[w].copy, table, proc) \/ PutBack(w, proc[w].copy, proc)
    <2>1. /\ UNCHANGED <<view, clock, edits, saves, runs, crashes, history>>
          /\ InFlight(w)
        BY <1>2 DEF RunFailed, InFlight
    <2>2. Hist' = Hist /\ HistoryOK'
        BY <2>1, HistKept DEF TriggersInv
    <2>3. FlightOK(w, proc[w], Hist) /\ proc[w] \in Flights /\ CopyOK(proc[w].copy, Hist)
        BY <2>1, FlightIs DEF TriggersInv
    <2>4. CopyOK(table', Hist') /\ ProcsOK(proc', Hist')
        BY <1>2, <2>2, <2>3, RunEndsOK DEF TriggersInv
    <2>5. CountersOK' /\ CopyOK(view', Hist')
        BY <2>1, <2>2 DEF TriggersInv, CountersOK
    <2> QED BY <2>2, <2>4, <2>5 DEF TriggersInv
<1> QED BY <1>1, <1>2 DEF RunFailed

-----------------------------------------------------------------------------
(* Clients, time and crashes.                                               *)

\* The table or the view becomes another copy that is as good.
LEMMA CopyStepOK ==
    ASSUME TriggersInv, CopyOK(table', Hist), CopyOK(view', Hist), CountersOK',
           UNCHANGED <<proc, history>>
    PROVE  TriggersInv'
<1>1. Hist' = Hist /\ HistoryOK'
    BY HistKept DEF TriggersInv
<1> QED BY <1>1 DEF TriggersInv

LEMMA LoadTriggersOK ==
    ASSUME TriggersInv, LoadTriggers
    PROVE  TriggersInv'
BY CopyStepOK DEF LoadTriggers, TriggersInv, CountersOK

LEMMA PutUiSettingsOK ==
    ASSUME TriggersInv, PutUiSettings
    PROVE  TriggersInv'
BY CopyStepOK, ConstantsAssumption DEF PutUiSettings, TriggersInv, CountersOK

LEMMA TickOK ==
    ASSUME TriggersInv, Tick
    PROVE  TriggersInv'
BY CopyStepOK, ConstantsAssumption DEF Tick, TriggersInv, CountersOK

LEMMA RestartOK ==
    ASSUME TriggersInv, NEW tbl, CopyOK(tbl, Hist), Restart(tbl)
    PROVE  TriggersInv'
<1>1. /\ table' = tbl /\ proc' = [w \in Workers |-> Resting]
      /\ UNCHANGED <<view, clock, edits, saves, runs, history>> /\ crashes' = crashes + 1
      /\ crashes < MaxCrashes
    BY DEF Restart
<1>2. Hist' = Hist /\ HistoryOK'
    BY <1>1, HistKept DEF TriggersInv
<1>3. CountersOK'
    BY <1>1, ConstantsAssumption DEF TriggersInv, CountersOK
<1>4. ProcsOK(proc', Hist)
    BY <1>1, RestingRests DEF ProcsOK
<1> QED BY <1>1, <1>2, <1>3, <1>4 DEF TriggersInv

LEMMA NoRowsOK == CopyOK([rows |-> NoRows, undone |-> TRUE, behind |-> {}], Hist)
<1>1. Gone \in Row /\ ~Gone.present
    BY ConstantsAssumption DEF Gone, Row
<1>2. NoRows \in Rows
    BY <1>1 DEF NoRows, Rows
<1> QED BY <1>1, <1>2 DEF CopyOK, Copies, NoRows, Recorded

LEMMA CrashOK ==
    ASSUME TriggersInv, Crash \/ CrashTornFile
    PROVE  TriggersInv'
BY RestartOK, NoRowsOK DEF Crash, CrashTornFile, TriggersInv

\* The other copies after an edit.
LEMMA EditOK ==
    ASSUME TriggersInv, NEW tbl, Edit(tbl), CopyOK(tbl, Hist'),
           wanted' \in [TriggerIds -> AdminParts]
    PROVE  TriggersInv'
<1>1. /\ table' = tbl /\ view' = Outdated(view) /\ edits < MaxEdits /\ edits' = edits + 1
      /\ proc' = [w \in Workers |-> IF InFlight(w) THEN [proc[w] EXCEPT !.copy = Outdated(@)]
                                                   ELSE proc[w]]
      /\ UNCHANGED <<clock, saves, runs, crashes, lastRun, firedAt>>
    BY DEF Edit
<1>2. HistoryOK' /\ CopyOK(view', Hist')
    BY <1>1, CopyOutdated DEF TriggersInv, HistoryOK
<1>3. CountersOK'
    BY <1>1, ConstantsAssumption DEF TriggersInv, CountersOK
<1>4. ASSUME NEW w \in Workers, InFlight(w)
      PROVE  proc'[w] \in Flights /\ FlightOK(w, proc'[w], Hist')
    <2>1. FlightOK(w, proc[w], Hist) /\ proc[w] \in Flights /\ CopyOK(proc[w].copy, Hist)
        BY <1>4, FlightIs DEF TriggersInv
    <2> DEFINE b == Outdated(proc[w].copy)
    <2>2. CopyOK(b, Hist')
        BY <1>1, <2>1, CopyOutdated
    <2>3. b \in Copies /\ b.rows = proc[w].copy.rows
        BY <2>1 DEF CopyOK, Outdated, Copies
    <2>4. proc'[w] = [proc[w] EXCEPT !.copy = b]
        BY <1>1, <1>4
    <2> HIDE DEF b
    <2>5. /\ proc'[w] \in Flights /\ proc'[w].copy = b
          /\ proc'[w].kind = proc[w].kind /\ proc'[w].todo = proc[w].todo
          /\ proc'[w].since = proc[w].since /\ proc'[w].at = proc[w].at
        BY <2>1, <2>3, <2>4 DEF Flights
    <2> QED BY <2>1, <2>2, <2>3, <2>5 DEF FlightOK
<1>5. \A w \in Workers : ~InFlight(w) => proc'[w] = proc[w] /\ proc'[w].kind = "none"
    BY <1>1 DEF InFlight
<1>6. ProcsOK(proc', Hist')
    <2>1. \A w \in Workers : proc'[w] \in Flights \cup {Resting}
        BY <1>4, <1>5 DEF TriggersInv, ProcsOK
    <2> QED BY <1>1, <1>4, <1>5, <2>1 DEF ProcsOK
<1> QED BY <1>1, <1>2, <1>3, <1>6 DEF TriggersInv

LEMMA AdminPartIs == \A row \in Row : AdminPart(row) \in AdminParts
BY DEF AdminPart, AdminParts, Row

LEMMA PutRowsOK ==
    ASSUME TriggersInv, NEW rows \in Rows, NEW behind \in SUBSET TriggerIds, PutRows(rows, behind),
           \A t \in TriggerIds \ behind : Recorded(rows[t], t, Hist)
    PROVE  TriggersInv'
<1> DEFINE c == [rows |-> rows, undone |-> FALSE, behind |-> behind]
<1>1. Edit(c) /\ wanted' = [t \in TriggerIds |-> AdminPart(rows[t])]
    BY DEF PutRows
<1>2. wanted' \in [TriggerIds -> AdminParts]
    BY <1>1, AdminPartIs DEF Rows
<1>3. lastRun' = lastRun /\ firedAt' = firedAt
    BY <1>1 DEF Edit
<1>4. CopyOK(c, Hist')
    BY <1>1, <1>3 DEF CopyOK, Copies, Intact, Recorded, Hist
<1> HIDE DEF c
<1> QED BY <1>1, <1>2, <1>4, EditOK

\* The rows of one of the bases, with one row changed.
LEMMA BaseIs ==
    ASSUME TriggersInv, NEW base \in Bases
    PROVE  /\ base.rows \in Rows /\ base.behind \in SUBSET TriggerIds
           /\ \A t \in TriggerIds \ base.behind : Recorded(base.rows[t], t, Hist)
           /\ \A t \in TriggerIds : base.rows[t] \in Row
BY DEF TriggersInv, Bases, CopyOK, Copies, Rows

LEMMA PutTriggersOK ==
    ASSUME TriggersInv, NEW base \in Bases, NEW t \in TriggerIds, PutTriggers(base, t)
    PROVE  TriggersInv'
<1> DEFINE rows == [base.rows EXCEPT ![t].enabled = ~@]
<1>1. CASE PutRows(base.rows, base.behind)
    BY <1>1, BaseIs, PutRowsOK
<1>2. CASE PutRows(rows, base.behind)
    <2>1. [base.rows[t] EXCEPT !.enabled = ~@] \in Row
        BY BaseIs DEF Row
    <2>2. rows \in Rows
        BY <2>1, BaseIs DEF Rows
    <2>3. ASSUME NEW u \in TriggerIds \ base.behind PROVE Recorded(rows[u], u, Hist)
        <3>1. Recorded(base.rows[u], u, Hist) /\ base.rows[u] \in Row /\ base.rows \in Rows
            BY BaseIs
        <3>2. /\ rows[u].present = base.rows[u].present /\ rows[u].last = base.rows[u].last
              /\ rows[u].next = base.rows[u].next /\ rows[u].periodic = base.rows[u].periodic
            BY <3>1 DEF Row, Rows
        <3> HIDE DEF rows
        <3> QED BY <3>1, <3>2 DEF Recorded
    <2> HIDE DEF rows
    <2> QED BY <1>2, <2>2, <2>3, BaseIs, PutRowsOK
<1> QED BY <1>1, <1>2 DEF PutTriggers

LEMMA PutTimeOK ==
    ASSUME TriggersInv, NEW base \in Bases, NEW t \in TriggerIds, PutTime(base, t)
    PROVE  TriggersInv'
<1> DEFINE rows == [base.rows EXCEPT ![t].next = 1]
<1>1. PutRows(rows, base.behind \cup {t})
    BY DEF PutTime
<1>2. [base.rows[t] EXCEPT !.next = 1] \in Row
    BY BaseIs, ConstantsAssumption DEF Row
<1>3. rows \in Rows /\ \A u \in TriggerIds \ {t} : rows[u] = base.rows[u]
    BY <1>2, BaseIs DEF Rows
<1> HIDE DEF rows
<1>4. \A u \in TriggerIds \ (base.behind \cup {t}) : Recorded(rows[u], u, Hist)
    BY <1>3, BaseIs
<1> QED BY <1>1, <1>3, <1>4, BaseIs, PutRowsOK

LEMMA PutNewTriggerOK ==
    ASSUME TriggersInv, NEW base \in Bases, NEW t \in TriggerIds, NEW kind \in Kinds,
           PutNewTrigger(base, t, kind)
    PROVE  TriggersInv'
<1> DEFINE fresh == Fresh(kind, edits + 1, clock)
           rows  == [base.rows EXCEPT ![t] = fresh]
<1>1. PutRows(rows, base.behind \cup {t}) /\ edits < MaxEdits
    BY DEF PutNewTrigger, PutRows, Edit
<1>2. fresh \in Row
    <2>1. edits + 1 \in 0..MaxEdits /\ clock + 1 \in 0..(MaxClock + 1) /\ {0, 1} \subseteq 0..(MaxClock + 1)
        BY <1>1, ConstantsAssumption DEF TriggersInv, CountersOK
    <2>2. kind.periodic \in BOOLEAN /\ kind.single \in BOOLEAN /\ 0 \in 0..MaxRuns
        BY ConstantsAssumption
    <2>3. (IF ~kind.periodic THEN 0 ELSE IF kind.due THEN 1 ELSE clock + 1) \in 0..(MaxClock + 1)
        BY <2>1, <2>2
    <2> QED BY <2>1, <2>2, <2>3 DEF Fresh, Row
<1> HIDE DEF fresh
<1>3. rows \in Rows /\ \A u \in TriggerIds \ {t} : rows[u] = base.rows[u]
    BY <1>2, BaseIs DEF Rows
<1> HIDE DEF rows
<1>4. \A u \in TriggerIds \ (base.behind \cup {t}) : Recorded(rows[u], u, Hist)
    BY <1>3, BaseIs
<1> QED BY <1>1, <1>3, <1>4, BaseIs, PutRowsOK

LEMMA PutWithoutOK ==
    ASSUME TriggersInv, NEW base \in Bases, NEW t \in TriggerIds, PutWithout(base, t)
    PROVE  TriggersInv'
<1> DEFINE rows == [base.rows EXCEPT ![t] = Gone]
<1>1. PutRows(rows, base.behind)
    BY DEF PutWithout
<1>2. Gone \in Row /\ ~Gone.present
    BY ConstantsAssumption DEF Gone, Row
<1>3. rows \in Rows /\ rows[t] = Gone /\ \A u \in TriggerIds \ {t} : rows[u] = base.rows[u]
    BY <1>2, BaseIs DEF Rows
<1> HIDE DEF rows
<1>4. Recorded(Gone, t, Hist)
    BY <1>2 DEF Recorded
<1>5. \A u \in TriggerIds \ base.behind : Recorded(rows[u], u, Hist)
    BY <1>3, <1>4, BaseIs
<1> QED BY <1>1, <1>3, <1>5, BaseIs, PutRowsOK

LEMMA RotateSecretOK ==
    ASSUME TriggersInv, NEW t \in TriggerIds, RotateSecret(t)
    PROVE  TriggersInv'
<1> DEFINE n == edits + 1
           row == [table.rows[t] EXCEPT !.secret = n]
           rows == [table.rows EXCEPT ![t] = row]
           c == [table EXCEPT !.rows = rows]
<1>1. /\ Edit([table EXCEPT !.rows[t].secret = edits + 1])
      /\ wanted' = [wanted EXCEPT ![t].secret = n] /\ edits < MaxEdits
    BY DEF RotateSecret, Edit
<1>2. CopyOK(table, Hist) /\ HistoryOK
    BY DEF TriggersInv
<1>3. table \in Copies /\ table.rows \in Rows /\ table.rows[t] \in Row
    BY <1>2 DEF CopyOK, Copies, Rows
<1>4. Edit(c)
    BY <1>1, <1>3 DEF Copies, Rows
<1>5. n \in 0..MaxEdits
    BY <1>1, ConstantsAssumption DEF TriggersInv, CountersOK
<1> HIDE DEF n
<1>6. /\ row \in Row /\ row.present = table.rows[t].present /\ row.last = table.rows[t].last
      /\ row.next = table.rows[t].next /\ row.periodic = table.rows[t].periodic
      /\ AdminPart(row) = [AdminPart(table.rows[t]) EXCEPT !.secret = n]
    BY <1>3, <1>5 DEF Row, AdminPart
<1> HIDE DEF row
<1>7. rows \in Rows /\ rows[t] = row /\ \A u \in TriggerIds \ {t} : rows[u] = table.rows[u]
    BY <1>3, <1>6 DEF Rows
<1> HIDE DEF rows
<1>8. /\ c \in Copies /\ c.rows = rows /\ c.behind = table.behind
      /\ c.undone = table.undone
    BY <1>3, <1>7 DEF Copies
<1> HIDE DEF c
<1>9. wanted' \in [TriggerIds -> AdminParts]
    <2>1. [wanted[t] EXCEPT !.secret = n] \in AdminParts
        BY <1>2, <1>5 DEF HistoryOK, AdminParts
    <2> QED BY <1>1, <1>2, <2>1 DEF HistoryOK
<1>10. ASSUME ~c.undone PROVE Intact(c.rows, Hist')
    <2>1. \A u \in TriggerIds : AdminPart(table.rows[u]) = wanted[u]
        BY <1>2, <1>8, <1>10 DEF CopyOK, Intact, Hist
    <2>2. wanted'[t] = [wanted[t] EXCEPT !.secret = n] /\ \A u \in TriggerIds \ {t} : wanted'[u] = wanted[u]
        BY <1>1, <1>2 DEF HistoryOK
    <2>3. \A u \in TriggerIds : AdminPart(rows[u]) = wanted'[u]
        BY <1>6, <1>7, <2>1, <2>2
    <2> QED BY <1>8, <2>3 DEF Intact, Hist
<1>11. \A u \in TriggerIds \ c.behind : Recorded(c.rows[u], u, Hist')
    <2>1. lastRun' = lastRun /\ firedAt' = firedAt
        BY <1>1 DEF Edit
    <2>2. \A u \in TriggerIds \ c.behind : Recorded(table.rows[u], u, Hist)
        BY <1>2, <1>8 DEF CopyOK
    <2> QED BY <1>6, <1>7, <1>8, <2>1, <2>2 DEF Recorded, Hist
<1>12. CopyOK(c, Hist')
    BY <1>8, <1>10, <1>11 DEF CopyOK
<1> QED BY <1>4, <1>9, <1>12, EditOK

-----------------------------------------------------------------------------
(* The theorems.                                                            *)

LEMMA InitOK == Init => TriggersInv
<1> SUFFICES ASSUME Init PROVE TriggersInv
    OBVIOUS
<1>1. PICK first \in FirstTables :
          table = [rows |-> [t \in TriggerIds |-> IF first[t] = NoTrigger THEN Gone
                                                 ELSE Fresh(first[t], 0, clock)],
                   undone |-> FALSE, behind |-> {}]
    BY DEF Init
<1>2. /\ clock = 1 /\ view = table /\ proc = [w \in Workers |-> Resting]
      /\ wanted = [t \in TriggerIds |-> AdminPart(table.rows[t])]
      /\ edits = 0 /\ saves = 0 /\ runs = 0 /\ crashes = 0
      /\ lastRun = [t \in TriggerIds |-> 0] /\ firedAt = [t \in TriggerIds |-> 0]
    BY DEF Init
<1>3. ASSUME NEW t \in TriggerIds
      PROVE  table.rows[t] \in Row /\ table.rows[t].last = 0
    <2>1. table.rows[t] = IF first[t] = NoTrigger THEN Gone ELSE Fresh(first[t], 0, clock)
        BY <1>1
    <2>2. Gone \in Row /\ Gone.last = 0
        BY ConstantsAssumption DEF Gone, Row
    <2>3. ASSUME first[t] # NoTrigger
          PROVE  Fresh(first[t], 0, clock) \in Row /\ Fresh(first[t], 0, clock).last = 0
        <3> DEFINE k == first[t]
        <3>1. k.periodic \in BOOLEAN /\ k.single \in BOOLEAN
            BY <2>3, ConstantsAssumption
        <3>2. (IF ~k.periodic THEN 0 ELSE IF k.due THEN 1 ELSE clock + 1) \in 0..(MaxClock + 1)
            BY <1>2, ConstantsAssumption
        <3> HIDE DEF k
        <3>3. Fresh(k, 0, clock) \in Row /\ Fresh(k, 0, clock).last = 0
            BY <3>1, <3>2, ConstantsAssumption DEF Fresh, Row
        <3> QED BY <3>3 DEF k
    <2> QED BY <2>1, <2>2, <2>3
<1>4. table \in Copies /\ ~table.undone /\ table.behind = {}
    BY <1>1, <1>3 DEF Copies, Rows
<1>5. CopyOK(table, Hist)
    BY <1>2, <1>3, <1>4 DEF CopyOK, Intact, Recorded, Hist
<1>6. HistoryOK
    BY <1>2, <1>3, AdminPartIs, ConstantsAssumption DEF HistoryOK
<1>7. CountersOK
    BY <1>2, ConstantsAssumption DEF CountersOK
<1>8. ProcsOK(proc, Hist)
    BY <1>2, RestingRests DEF ProcsOK
<1> QED BY <1>2, <1>5, <1>6, <1>7, <1>8 DEF TriggersInv

LEMMA InvInductive == TriggersInv /\ [Next]_vars => TriggersInv'
<1> SUFFICES ASSUME TriggersInv, [Next]_vars PROVE TriggersInv'
    OBVIOUS
<1>1. CASE UNCHANGED vars
    BY <1>1, HistKept DEF vars, history, TriggersInv, CountersOK
<1>2. CASE \E w \in Workers : SweepBegin(w)
    BY <1>2, SweepBeginOK
<1>3. CASE \E w \in Workers, t \in TriggerIds, secret \in 0..MaxEdits : HookBegin(w, t, secret)
    BY <1>3, HookBeginOK
<1>4. CASE \E w \in Workers : HookBody(w) \/ HookDropped(w)
    BY <1>4, HookBodyOK, HookDroppedOK
<1>5. CASE \E w \in Workers : RunCompleted(w) \/ RunFailed(w)
    BY <1>5, CompletedOK, RunFailedOK
<1>6. CASE LoadTriggers \/ PutUiSettings \/ Tick
    BY <1>6, LoadTriggersOK, PutUiSettingsOK, TickOK
<1>7. CASE \E base \in Bases, t \in TriggerIds :
              PutTriggers(base, t) \/ PutTime(base, t) \/ PutWithout(base, t)
    BY <1>7, PutTriggersOK, PutTimeOK, PutWithoutOK
<1>8. CASE \E base \in Bases, t \in TriggerIds, kind \in Kinds : PutNewTrigger(base, t, kind)
    BY <1>8, PutNewTriggerOK
<1>9. CASE \E t \in TriggerIds : RotateSecret(t)
    BY <1>9, RotateSecretOK
<1>10. CASE Crash \/ CrashTornFile
    BY <1>10, CrashOK
<1> QED BY <1>1, <1>2, <1>3, <1>4, <1>5, <1>6, <1>7, <1>8, <1>9, <1>10 DEF Next

LEMMA InvAlways == Spec => []TriggersInv
BY InitOK, InvInductive, PTL DEF Spec

\* The table stays as the administrator left it, under sweeps and webhooks that
\* began before the change too, unless rows read before it are put in place of the
\* table or the file is cut (server.py:2467-2496, 357-359, 2520-2523).
THEOREM TriggersAreKept == Spec => []TriggersOK
BY InvAlways, InvImplies, PTL

\* A row names the last run of its trigger and the time of the next, however many
\* workers run it, unless rows without that run replaced it (server.py:322-327).
THEOREM RunsStayRecorded == Spec => []RunsAreRecorded
BY InvAlways, InvImplies, PTL

\* A sweep whose rows have the last run of a trigger does not run it again in the
\* same interval.
LEMMA RunNotTwice ==
    ASSUME TriggersInv, NEW w \in Sweepers, RunCompleted(w), proc[w].at \notin proc[w].copy.behind
    PROVE  proc[w].since > firedAt[proc[w].at]
<1> DEFINE t == proc[w].at
           row == proc[w].copy.rows[t]
<1>1. w \in Workers /\ InFlight(w)
    BY DEF RunCompleted, InFlight, Workers
<1>2. /\ FlightOK(w, proc[w], Hist) /\ CopyOK(proc[w].copy, Hist) /\ t \in TriggerIds
      /\ proc[w].since \in 1..MaxClock
    BY <1>1, FlightIs DEF TriggersInv
<1>3. row.present /\ row.periodic /\ row.next <= proc[w].since
    BY <1>2 DEF FlightOK
<1>4. Recorded(row, t, Hist)
    BY <1>2 DEF CopyOK
<1>5. /\ firedAt[t] \in 0..MaxClock /\ (lastRun[t] = 0 => firedAt[t] = 0)
      /\ (lastRun[t] # 0 => row.next = firedAt[t] + 1)
    BY <1>2, <1>3, <1>4 DEF TriggersInv, HistoryOK, Recorded, Hist
<1> HIDE DEF row
<1> QED BY <1>2, <1>3, <1>5, ConstantsAssumption

\* A trigger is not run twice in an interval by sweeps that know of the first run
\* (server.py:344-346, 3696-3712).
THEOREM SweepsKeepIntervals == Spec => OncePerInterval
<1>1. TriggersInv /\ [Next]_vars
      => [\A w \in Sweepers :
             RunCompleted(w) /\ proc[w].at \notin proc[w].copy.behind
             => proc[w].since > firedAt[proc[w].at]]_vars
    BY RunNotTwice
<1> QED BY <1>1, InvAlways, PTL DEF Spec, OncePerInterval
=============================================================================
