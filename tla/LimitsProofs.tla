---------------------------- MODULE LimitsProofs ----------------------------
(***************************************************************************)
(* Theorems about the two modules that limit what calls may use:           *)
(* BudgetLedger, for any sets of processes and tasks, any caps, any amount *)
(* of a call and any calendar, and RateLimits, for any limits, sizes,      *)
(* window and wait.  The two share no variable; the initial states, the    *)
(* steps and the types of RateLimits are LimiterInit, LimiterNext and      *)
(* LimiterTypeOK.                                                          *)
(***************************************************************************)
EXTENDS BudgetLedger, RateLimits, FiniteSetTheorems, SequenceTheorems,
        WellFoundedInduction, TLAPS

-----------------------------------------------------------------------------
(* Rollovers.                                                               *)

LEMMA RolledType ==
    ASSUME today \in Days, NEW u \in Usage
    PROVE  Rolled(u) \in Usage /\ Rolled(u).day = today
BY DEF Rolled, Usage

\* A rollover of figures of today changes nothing.
LEMMA RolledTwice ==
    ASSUME today \in Days, NEW u \in Usage
    PROVE  Rolled(Rolled(u)) = Rolled(u)
BY DEF Rolled, Usage

LEMMA UsageWithType ==
    ASSUME today \in Days, NEW u \in Usage, NEW cost \in Amounts
    PROVE  /\ UsageWith(u, cost) \in Usage
           /\ UsageWith(u, cost).day = today
           /\ UsageWith(u, cost).daily = Rolled(u).daily + cost
           /\ UsageWith(u, cost).monthly = Rolled(u).monthly + cost
           /\ Rolled(UsageWith(u, cost)) = UsageWith(u, cost)
<1>1. cost \in Nat /\ Rolled(u) \in Usage /\ Rolled(u).day = today
    BY RolledType, NumbersAssumption DEF Amounts
<1>2. /\ UsageWith(u, cost) = [day |-> today, daily |-> Rolled(u).daily + cost,
                               monthly |-> Rolled(u).monthly + cost]
      /\ UsageWith(u, cost) \in Usage
    BY <1>1 DEF UsageWith, Incremented, Usage
<1> QED BY <1>1, <1>2 DEF Rolled, Usage

-----------------------------------------------------------------------------
(* Type correctness.                                                        *)

LEMMA InitTypeOK == Init => TypeOK
<1> SUFFICES ASSUME Init PROVE TypeOK
    OBVIOUS
<1>1. today \in Days /\ usage \in Usage /\ calls \in 0..MaxCalls /\ starts \in 0..MaxStarts
    BY NumbersAssumption DEF Init, Days, Usage
<1> QED BY <1>1 DEF Init, TypeOK

LEMMA NextTypeOK == TypeOK /\ [Next]_vars => TypeOK'
<1> SUFFICES ASSUME TypeOK, [Next]_vars PROVE TypeOK'
    OBVIOUS
<1> USE NumbersAssumption
<1>0. today \in Days /\ usage \in Usage /\ Rolled(usage) \in Usage
    BY RolledType DEF TypeOK
<1>1. ASSUME NEW p \in Procs, StartLoads(p) PROVE TypeOK'
    BY <1>0, <1>1 DEF TypeOK, StartLoads, history
<1>2. ASSUME NEW p \in Procs, StartSaves(p) PROVE TypeOK'
    BY <1>2 DEF TypeOK, StartSaves
<1>3. ASSUME NEW p \in Procs, Stop(p) PROVE TypeOK'
    BY <1>3 DEF TypeOK, Stop, history
<1>4. ASSUME NEW p \in Procs, Read(p) PROVE TypeOK'
    BY <1>0, <1>4 DEF TypeOK, Read, Sync, history
<1>5. ASSUME NEW t \in Tasks, NEW p \in Procs, NEW kind \in {"complete", "stream", "structured"},
             NEW e \in Amounts, Call(t, p, kind, e)
      PROVE  TypeOK'
    <2>1. [proc |-> p, est |-> e, kind |-> kind, tries |-> 0] \in PendingCalls
        BY DEF PendingCalls
    <2> QED BY <1>0, <1>5, <2>1 DEF TypeOK, Call, Sync
<1>6. ASSUME NEW t \in Tasks, NEW cost \in Amounts, Answer(t, cost) PROVE TypeOK'
    <2>1. UsageWith(usage, cost) \in Usage
        BY <1>0, UsageWithType
    <2>2. task[t] \in PendingCalls /\ task[t].proc \in Procs /\ cost \in Nat
        BY <1>6 DEF TypeOK, Answer, Pending, PendingCalls, Amounts
    <2>3. session' \in [Procs -> Nat]
        BY <1>6, <2>2 DEF TypeOK, Answer, Record
    <2> QED BY <1>6, <2>1, <2>2, <2>3 DEF TypeOK, Answer, Record
<1>7. ASSUME NEW t \in Tasks, NEW cost \in Amounts, NEW e \in Amounts, AskAgain(t, cost, e)
      PROVE  TypeOK'
    <2>1. task[t] \in PendingCalls /\ cost \in Nat
        BY <1>7 DEF TypeOK, AskAgain, Pending, Amounts
    <2>2. AskedAgain(task[t], e) \in PendingCalls
        <3>1. task[t].tries \in 0..2 /\ task[t].tries < 2
            BY <1>7, <2>1 DEF PendingCalls, AskAgain, MayAskAgain
        <3>2. task[t].tries + 1 \in 0..2
            BY <3>1
        <3> QED BY <2>1, <3>2 DEF PendingCalls, AskedAgain
    <2>3. task' \in [Tasks -> PendingCalls \cup {Idle}]
        BY <1>7, <2>2 DEF TypeOK, AskAgain
    <2> QED BY <1>0, <1>7, <2>1, <2>3 DEF TypeOK, AskAgain, Sync
<1>8. ASSUME NEW t \in Tasks, NEW cost \in Amounts, Abandon(t, cost) PROVE TypeOK'
    BY <1>8 DEF TypeOK, Abandon, Amounts
<1>9. ASSUME NEW t \in Tasks, Error(t) PROVE TypeOK'
    BY <1>9 DEF TypeOK, Error, history
<1>10. CASE NextDay
    BY <1>10 DEF TypeOK, NextDay, Days
<1>11. CASE UNCHANGED vars
    BY <1>11 DEF TypeOK, vars, history
<1> QED BY <1>1, <1>2, <1>3, <1>4, <1>5, <1>6, <1>7, <1>8, <1>9, <1>10, <1>11 DEF Next

\* Every variable of the budget keeps its type, for every number of processes,
\* calls and days.
THEOREM BudgetTypes == Spec => []TypeOK
BY InitTypeOK, NextTypeOK, PTL DEF Spec

-----------------------------------------------------------------------------
(* The file.  What a step makes of the figures of today.                    *)

LEMMA SyncKeepsFigures ==
    ASSUME TypeOK, today' = today, usage' = usage \/ usage' = Rolled(usage)
    PROVE  Rolled(usage)' = Rolled(usage)
<1>1. today \in Days /\ usage \in Usage
    BY DEF TypeOK
<1>2. Rolled(Rolled(usage)) = Rolled(usage)
    BY <1>1, RolledTwice
<1> QED BY <1>1, <1>2 DEF Rolled, Usage

LEMMA RecordAddsCost ==
    ASSUME TypeOK, today' = today, NEW cost \in Amounts, usage' = UsageWith(usage, cost)
    PROVE  /\ cost \in Nat
           /\ Rolled(usage) \in Usage
           /\ Rolled(usage)'.daily = Rolled(usage).daily + cost
           /\ Rolled(usage)'.monthly = Rolled(usage).monthly + cost
<1>1. today \in Days /\ usage \in Usage
    BY DEF TypeOK
<1>2. /\ Rolled(UsageWith(usage, cost)) = UsageWith(usage, cost)
      /\ UsageWith(usage, cost).daily = Rolled(usage).daily + cost
      /\ UsageWith(usage, cost).monthly = Rolled(usage).monthly + cost
    BY <1>1, UsageWithType
<1>3. Rolled(usage)' = Rolled(UsageWith(usage, cost))
    BY DEF Rolled
<1> QED BY <1>1, <1>2, <1>3, RolledType, NumbersAssumption DEF Amounts

\* The figures of the file and of every constructor are of a day that has come,
\* and count the day in the month.
SaneFigures(u) == u.day <= today /\ u.daily <= u.monthly

FilesInv == SaneFigures(usage) /\ \A p \in Procs : SaneFigures(loaded[p])

LEMMA RolledSane ==
    ASSUME TypeOK, NEW u \in Usage, SaneFigures(u)
    PROVE  Rolled(u) \in Usage /\ SaneFigures(Rolled(u))
<1>1. today \in Days /\ today \in Nat
    BY NumbersAssumption DEF TypeOK, Days
<1> QED BY <1>1, RolledType DEF Rolled, Usage, SaneFigures

LEMMA NextFilesInv == TypeOK /\ FilesInv /\ [Next]_vars => FilesInv'
<1> SUFFICES ASSUME TypeOK, FilesInv, [Next]_vars PROVE FilesInv'
    OBVIOUS
<1>0. /\ usage \in Usage /\ today \in Nat
      /\ Rolled(usage) \in Usage /\ SaneFigures(Rolled(usage))
    BY RolledSane, NumbersAssumption DEF TypeOK, FilesInv, Days
<1>1. ASSUME today' = today, loaded' = loaded, usage' = usage \/ usage' = Rolled(usage)
      PROVE  FilesInv'
    BY <1>0, <1>1 DEF FilesInv, SaneFigures
<1>2. ASSUME NEW p \in Procs, StartLoads(p) PROVE FilesInv'
    BY <1>0, <1>2 DEF StartLoads, FilesInv, SaneFigures, TypeOK
<1>3. ASSUME NEW p \in Procs, StartSaves(p) PROVE FilesInv'
    BY <1>3 DEF StartSaves, FilesInv, SaneFigures
<1>4. ASSUME NEW p \in Procs, Stop(p) PROVE FilesInv'
    BY <1>1, <1>4 DEF Stop
<1>5. ASSUME NEW p \in Procs, Read(p) PROVE FilesInv'
    BY <1>1, <1>5 DEF Read, Sync
<1>6. ASSUME NEW t \in Tasks, NEW p \in Procs, NEW kind, NEW e \in Amounts, Call(t, p, kind, e)
      PROVE  FilesInv'
    BY <1>1, <1>6 DEF Call, Sync
<1>7. ASSUME NEW t \in Tasks, NEW cost \in Amounts, Answer(t, cost) PROVE FilesInv'
    <2>1. usage' = UsageWith(usage, cost) /\ today' = today /\ loaded' = loaded
        BY <1>7 DEF Answer, Record
    <2>2. SaneFigures(UsageWith(usage, cost))
        <3>1. cost \in Nat
            BY NumbersAssumption DEF Amounts
        <3>2. /\ UsageWith(usage, cost).day = today
              /\ UsageWith(usage, cost).daily = Rolled(usage).daily + cost
              /\ UsageWith(usage, cost).monthly = Rolled(usage).monthly + cost
            BY <1>0, UsageWithType DEF TypeOK
        <3> QED BY <1>0, <3>1, <3>2 DEF SaneFigures, Usage
    <2> QED BY <2>1, <2>2 DEF FilesInv, SaneFigures
<1>8. ASSUME NEW t \in Tasks, NEW cost \in Amounts, NEW e \in Amounts, AskAgain(t, cost, e)
      PROVE  FilesInv'
    BY <1>1, <1>8 DEF AskAgain, Sync
<1>9. ASSUME NEW t \in Tasks, NEW cost \in Amounts, Abandon(t, cost) PROVE FilesInv'
    BY <1>1, <1>9 DEF Abandon
<1>10. ASSUME NEW t \in Tasks, Error(t) PROVE FilesInv'
    BY <1>1, <1>10 DEF Error
<1>11. CASE NextDay
    <2>1. /\ usage' = usage /\ loaded' = loaded /\ today' = today + 1
          /\ usage.day \in Nat /\ \A p \in Procs : loaded[p].day \in Nat
        BY <1>11, NumbersAssumption DEF NextDay, TypeOK, Usage, Days
    <2> QED BY <1>0, <2>1 DEF FilesInv, SaneFigures
<1>12. CASE UNCHANGED vars
    BY <1>1, <1>12 DEF vars
<1> QED BY <1>2, <1>3, <1>4, <1>5, <1>6, <1>7, <1>8, <1>9, <1>10, <1>11, <1>12 DEF Next

LEMMA FilesInvariant == Spec => []FilesInv
<1>1. Init => FilesInv
    BY DEF Init, FilesInv, SaneFigures
<1> QED BY <1>1, NextFilesInv, BudgetTypes, PTL DEF Spec

\* The daily figure never passes the monthly one, even with constructors that
\* overwrite the file.
THEOREM DayIsPartOfMonth == Spec => []DayWithinMonth
<1>1. TypeOK /\ FilesInv => DayWithinMonth
    <2> SUFFICES ASSUME TypeOK, FilesInv PROVE DayWithinMonth
        OBVIOUS
    <2>1. SaneFigures(Rolled(usage))
        BY RolledSane DEF TypeOK, FilesInv
    <2> QED BY <2>1 DEF SaneFigures, DayWithinMonth
<1> QED BY <1>1, BudgetTypes, FilesInvariant, PTL

-----------------------------------------------------------------------------
(* The ledger and the bill.                                                 *)

LEMMA NextLedgerMatchesBill ==
    TypeOK /\ FilesInv /\ LedgerMatchesBill /\ [Next]_vars => LedgerMatchesBill'
<1> SUFFICES ASSUME TypeOK, FilesInv, LedgerMatchesBill, [Next]_vars,
                    ~clobbered', ~dropped'
             PROVE  Rolled(usage)'.monthly = billed'
    BY DEF LedgerMatchesBill
<1>1. ASSUME today' = today, usage' = usage \/ usage' = Rolled(usage),
             ~clobbered, ~dropped, billed' = billed
      PROVE  Rolled(usage)'.monthly = billed'
    BY <1>1, SyncKeepsFigures DEF LedgerMatchesBill
<1>2. ASSUME NEW p \in Procs, StartLoads(p) PROVE Rolled(usage)'.monthly = billed'
    BY <1>1, <1>2 DEF StartLoads, history
<1>3. ASSUME NEW p \in Procs, StartSaves(p) PROVE Rolled(usage)'.monthly = billed'
    <2>1. Rolled(usage)' = Rolled(loaded[p]) /\ Rolled(loaded[p]) = Rolled(usage)
        BY <1>3 DEF StartSaves, Rolled
    <2> QED BY <1>3, <2>1 DEF StartSaves, LedgerMatchesBill
<1>4. ASSUME NEW p \in Procs, Stop(p) PROVE Rolled(usage)'.monthly = billed'
    BY <1>1, <1>4 DEF Stop, history
<1>5. ASSUME NEW p \in Procs, Read(p) PROVE Rolled(usage)'.monthly = billed'
    BY <1>1, <1>5 DEF Read, Sync, history
<1>6. ASSUME NEW t \in Tasks, NEW p \in Procs, NEW kind, NEW e \in Amounts, Call(t, p, kind, e)
      PROVE  Rolled(usage)'.monthly = billed'
    BY <1>1, <1>6 DEF Call, Sync
<1>7. ASSUME NEW t \in Tasks, NEW cost \in Amounts, Answer(t, cost)
      PROVE  Rolled(usage)'.monthly = billed'
    BY <1>7, RecordAddsCost DEF Answer, Record, LedgerMatchesBill
<1>8. ASSUME NEW t \in Tasks, NEW cost \in Amounts, NEW e \in Amounts, AskAgain(t, cost, e)
      PROVE  Rolled(usage)'.monthly = billed'
    <2>1. ~(cost > 0) /\ ~dropped /\ ~clobbered
        BY <1>8 DEF AskAgain
    <2>2. cost \in Nat /\ billed' = billed + cost /\ billed \in Nat
        BY <1>8, NumbersAssumption DEF AskAgain, Amounts, TypeOK
    <2>3. billed' = billed
        BY <2>1, <2>2
    <2> QED BY <1>1, <1>8, <2>1, <2>3 DEF AskAgain, Sync
<1>9. ASSUME NEW t \in Tasks, NEW cost \in Amounts, Abandon(t, cost)
      PROVE  Rolled(usage)'.monthly = billed'
    <2>1. ~(cost > 0) /\ ~dropped /\ ~clobbered
        BY <1>9 DEF Abandon
    <2>2. cost \in Nat /\ billed' = billed + cost /\ billed \in Nat
        BY <1>9, NumbersAssumption DEF Abandon, Amounts, TypeOK
    <2>3. billed' = billed
        BY <2>1, <2>2
    <2> QED BY <1>1, <1>9, <2>1, <2>3 DEF Abandon
<1>10. ASSUME NEW t \in Tasks, Error(t) PROVE Rolled(usage)'.monthly = billed'
    BY <1>1, <1>10 DEF Error, history
<1>11. CASE NextDay
    \* Months only grow: figures of an earlier month stay of an earlier month.
    <2>1. /\ today \in Days /\ today + 1 \in Days /\ today' = today + 1
          /\ usage' = usage /\ usage.day \in Days /\ usage.day <= today
          /\ Rolled(usage).monthly = billed
          /\ billed' = IF MonthOf[today + 1] = MonthOf[today] THEN billed ELSE 0
        BY <1>11, NumbersAssumption
        DEF NextDay, TypeOK, FilesInv, SaneFigures, Usage, Days, LedgerMatchesBill
    <2>2. /\ MonthOf[usage.day] <= MonthOf[today]
          /\ MonthOf[today] <= MonthOf[today + 1]
          /\ MonthOf[usage.day] \in Nat /\ MonthOf[today] \in Nat /\ MonthOf[today + 1] \in Nat
        <3>1. today <= today + 1
            BY <2>1, NumbersAssumption DEF Days
        <3> QED BY <2>1, <3>1, CalendarAssumption
    <2>3. Rolled(usage)'.monthly
              = IF MonthOf[usage.day] = MonthOf[today + 1] THEN usage.monthly ELSE 0
        BY <2>1 DEF Rolled
    <2>4. Rolled(usage).monthly = IF MonthOf[usage.day] = MonthOf[today] THEN usage.monthly ELSE 0
        BY DEF Rolled
    <2> QED BY <2>1, <2>2, <2>3, <2>4
<1>12. CASE UNCHANGED vars
    BY <1>1, <1>12 DEF vars, history
<1> QED BY <1>2, <1>3, <1>4, <1>5, <1>6, <1>7, <1>8, <1>9, <1>10, <1>11, <1>12 DEF Next

\* Unless an answer was dropped or a constructor overwrote the file, the month's
\* total is exactly what the month's answers were charged, for any number of
\* processes that roll over, start, stop and record.
THEOREM LedgerIsExact == Spec => []LedgerMatchesBill
<1>1. Init => LedgerMatchesBill
    BY DEF Init, LedgerMatchesBill, Rolled
<1> QED BY <1>1, NextLedgerMatchesBill, BudgetTypes, FilesInvariant, PTL DEF Spec

-----------------------------------------------------------------------------
(* The bound on the overrun.  A pending call may still add a charge to the  *)
(* figures it was checked against, so the figures and the pending calls are *)
(* bounded together.                                                        *)

Slack(S) == MaxAmount * Cardinality(S)

LEMMA SlackGrows ==
    ASSUME NEW S, NEW T, S \subseteq T, T \subseteq Tasks
    PROVE  Slack(S) \in Nat /\ Slack(T) \in Nat /\ Slack(S) <= Slack(T)
<1>1. IsFiniteSet(T) /\ IsFiniteSet(S)
    BY TasksAssumption, FS_Subset
<1>2. Cardinality(S) \in Nat /\ Cardinality(T) \in Nat /\ Cardinality(S) <= Cardinality(T)
    BY <1>1, FS_CardinalityType, FS_Subset
<1>3. ASSUME NEW a \in Nat, NEW m \in Nat, NEW n \in Nat, m <= n
      PROVE  a * m \in Nat /\ a * n \in Nat /\ a * m <= a * n
    BY <1>3
<1> QED BY <1>2, <1>3, NumbersAssumption DEF Slack

LEMMA SlackOfOne ==
    ASSUME NEW S, S \subseteq Tasks, NEW t \in S
    PROVE  Slack(S) = Slack(S \ {t}) + MaxAmount
<1>1. IsFiniteSet(S)
    BY TasksAssumption, FS_Subset
<1>2. /\ Cardinality(S) \in Nat /\ Cardinality(S \ {t}) \in Nat
      /\ Cardinality(S \ {t}) = Cardinality(S) - 1
    BY <1>1, FS_RemoveElement, FS_CardinalityType
<1>3. ASSUME NEW a \in Nat, NEW m \in Nat, NEW n \in Nat, m = n - 1
      PROVE  a * n = a * m + a
    BY <1>3
<1> QED BY <1>2, <1>3, NumbersAssumption DEF Slack

SessionInv == \A p \in Procs : session[p] + Slack(PendingOf(p)) <= SessionCap + Slack(Tasks)

SharedCapsInv ==
    ~clobbered => /\ Rolled(usage).daily + Slack(PendingTasks) <= DailyCap + Slack(Tasks)
                  /\ Rolled(usage).monthly + Slack(PendingTasks) <= MonthlyCap + Slack(Tasks)

\* What was below a bound stays there while figures and pending calls go down.
LEMMA LessOfBoth ==
    ASSUME NEW x \in Nat, NEW y \in Nat, y <= x, NEW b \in Nat,
           NEW S, NEW T, S \subseteq T, T \subseteq Tasks, x + Slack(T) <= b + Slack(Tasks)
    PROVE  y + Slack(S) <= b + Slack(Tasks)
BY SlackGrows

\* An answer turns one pending call into at most MaxAmount of spend.
LEMMA CallBecomesSpend ==
    ASSUME NEW x \in Nat, NEW cost \in Amounts, NEW b \in Nat,
           NEW T, T \subseteq Tasks, NEW t \in T, x + Slack(T) <= b + Slack(Tasks)
    PROVE  x + cost + Slack(T \ {t}) <= b + Slack(Tasks)
<1>1. Slack(T) = Slack(T \ {t}) + MaxAmount /\ Slack(T \ {t}) \in Nat /\ Slack(Tasks) \in Nat
    BY SlackOfOne, SlackGrows
<1>2. cost \in Nat /\ cost <= MaxAmount /\ MaxAmount \in Nat
    BY NumbersAssumption DEF Amounts
<1> QED BY <1>1, <1>2

\* What a check accepts is below the cap, so that all the calls that can be
\* pending may follow.
LEMMA CheckedFits ==
    ASSUME NEW x \in Nat, NEW e \in Amounts, NEW b \in Nat, x + e <= b,
           NEW T, T \subseteq Tasks
    PROVE  x + Slack(T) <= b + Slack(Tasks)
<1>1. Slack(T) \in Nat /\ Slack(Tasks) \in Nat /\ Slack(T) <= Slack(Tasks)
    BY SlackGrows
<1>2. e \in Nat
    BY NumbersAssumption DEF Amounts
<1> QED BY <1>1, <1>2

LEMMA NextSessionInv == TypeOK /\ SessionInv /\ [Next]_vars => SessionInv'
<1> SUFFICES ASSUME TypeOK, SessionInv, [Next]_vars, NEW q \in Procs
             PROVE  session'[q] + Slack(PendingOf(q)') <= SessionCap + Slack(Tasks)
    BY DEF SessionInv, Slack
<1>0. /\ session[q] \in Nat /\ SessionCap \in Nat /\ PendingOf(q) \subseteq Tasks
      /\ session[q] + Slack(PendingOf(q)) <= SessionCap + Slack(Tasks)
    BY NumbersAssumption DEF TypeOK, SessionInv, PendingOf
<1>1. ASSUME session'[q] \in Nat, session'[q] <= session[q], PendingOf(q)' \subseteq PendingOf(q)
      PROVE  session'[q] + Slack(PendingOf(q)') <= SessionCap + Slack(Tasks)
    BY <1>0, <1>1, LessOfBoth
<1>2. ASSUME session' = session, task' = task
      PROVE  session'[q] + Slack(PendingOf(q)') <= SessionCap + Slack(Tasks)
    BY <1>0, <1>1, <1>2 DEF PendingOf, Pending
<1>3. ASSUME NEW p \in Procs, StartLoads(p) \/ StartSaves(p) \/ Read(p)
      PROVE  session'[q] + Slack(PendingOf(q)') <= SessionCap + Slack(Tasks)
    BY <1>2, <1>3 DEF StartLoads, StartSaves, Read
<1>4. ASSUME NEW p \in Procs, Stop(p)
      PROVE  session'[q] + Slack(PendingOf(q)') <= SessionCap + Slack(Tasks)
    <2>1. session'[q] \in Nat /\ session'[q] <= session[q]
        BY <1>0, <1>4 DEF Stop, TypeOK
    <2>2. PendingOf(q)' \subseteq PendingOf(q)
        BY <1>4 DEF Stop, PendingOf, Pending
    <2> QED BY <1>1, <2>1, <2>2
<1>5. ASSUME NEW t \in Tasks, NEW p \in Procs, NEW kind, NEW e \in Amounts, Call(t, p, kind, e)
      PROVE  session'[q] + Slack(PendingOf(q)') <= SessionCap + Slack(Tasks)
    <2>1. CASE p = q
        BY <1>0, <1>5, <2>1, CheckedFits DEF Call, Fits, PendingOf
    <2>2. CASE p # q
        <3>1. PendingOf(q)' \subseteq PendingOf(q)
            BY <1>5, <2>2 DEF Call, PendingOf, Pending, TypeOK
        <3> QED BY <1>0, <1>1, <1>5, <3>1 DEF Call
    <2> QED BY <2>1, <2>2
<1>6. ASSUME NEW t \in Tasks, NEW cost \in Amounts, Answer(t, cost)
      PROVE  session'[q] + Slack(PendingOf(q)') <= SessionCap + Slack(Tasks)
    <2>1. PendingOf(q)' = PendingOf(q) \ {t}
        BY <1>6 DEF Answer, PendingOf, Pending, TypeOK
    <2>2. CASE task[t].proc = q
        <3>1. t \in PendingOf(q) /\ session'[q] = session[q] + cost
            BY <1>6, <2>2 DEF Answer, Record, PendingOf, TypeOK
        <3> QED BY <1>0, <2>1, <3>1, CallBecomesSpend
    <2>3. CASE task[t].proc # q
        <3>1. session'[q] = session[q]
            BY <1>6, <2>3 DEF Answer, Record, TypeOK
        <3> QED BY <1>0, <1>1, <2>1, <3>1
    <2> QED BY <2>2, <2>3
<1>7. ASSUME NEW t \in Tasks, NEW cost \in Amounts, NEW e \in Amounts, AskAgain(t, cost, e)
      PROVE  session'[q] + Slack(PendingOf(q)') <= SessionCap + Slack(Tasks)
    <2>1. PendingOf(q)' \subseteq PendingOf(q)
        <3>1. AskedAgain(task[t], e).proc = task[t].proc
            BY <1>7 DEF AskAgain, Pending, AskedAgain, TypeOK, PendingCalls
        <3> QED BY <1>7, <3>1 DEF AskAgain, PendingOf, Pending, TypeOK
    <2> QED BY <1>0, <1>1, <1>7, <2>1 DEF AskAgain
<1>8. ASSUME NEW t \in Tasks, NEW cost \in Amounts, Abandon(t, cost) \/ Error(t)
      PROVE  session'[q] + Slack(PendingOf(q)') <= SessionCap + Slack(Tasks)
    <2>1. session' = session /\ task' = [task EXCEPT ![t] = Idle]
        BY <1>8 DEF Abandon, Error
    <2>2. PendingOf(q)' \subseteq PendingOf(q)
        BY <2>1 DEF PendingOf, Pending, TypeOK
    <2> QED BY <1>0, <1>1, <2>1, <2>2
<1>9. ASSUME NEW t \in Tasks, Error(t)
      PROVE  session'[q] + Slack(PendingOf(q)') <= SessionCap + Slack(Tasks)
    BY <1>8, <1>9, NumbersAssumption DEF Amounts
<1>10. CASE NextDay \/ UNCHANGED vars
    BY <1>2, <1>10 DEF NextDay, vars
<1> QED BY <1>3, <1>4, <1>5, <1>6, <1>7, <1>8, <1>9, <1>10 DEF Next

\* With the next day the daily figure starts afresh; months only grow, so the
\* monthly one stays or starts afresh.
LEMMA NextDayRolls ==
    ASSUME TypeOK, FilesInv, NextDay
    PROVE  /\ Rolled(usage)' \in Usage
           /\ Rolled(usage)'.daily = 0
           /\ Rolled(usage)'.monthly <= Rolled(usage).monthly
<1>1. /\ usage' = usage /\ today' = today + 1 /\ today \in Nat /\ today' \in Days
      /\ usage \in Usage /\ usage.day <= today /\ usage.day \in Days /\ today \in Days
    BY NumbersAssumption DEF NextDay, TypeOK, FilesInv, SaneFigures, Days, Usage
<1>2. Rolled(usage)'.daily = 0
    <2>1. usage.day # today'
        BY <1>1, NumbersAssumption DEF Days
    <2> QED BY <1>1, <2>1 DEF Rolled
<1>3. Rolled(usage)'.monthly <= Rolled(usage).monthly /\ Rolled(usage)'.monthly \in Nat
    <2>1. /\ MonthOf[usage.day] <= MonthOf[today] /\ MonthOf[today] <= MonthOf[today']
          /\ MonthOf[usage.day] \in Nat /\ MonthOf[today] \in Nat /\ MonthOf[today'] \in Nat
        <3>1. today <= today'
            BY <1>1
        <3> QED BY <1>1, <3>1, CalendarAssumption
    <2>2. /\ Rolled(usage)'.monthly = IF MonthOf[usage.day] = MonthOf[today'] THEN usage.monthly ELSE 0
          /\ Rolled(usage).monthly = IF MonthOf[usage.day] = MonthOf[today] THEN usage.monthly ELSE 0
          /\ usage.monthly \in Nat
        BY <1>1 DEF Rolled, Usage
    <2> QED BY <2>1, <2>2
<1>4. Rolled(usage)' = [day |-> today', daily |-> 0, monthly |-> Rolled(usage)'.monthly]
    BY <1>2 DEF Rolled
<1> QED BY <1>1, <1>2, <1>3, <1>4 DEF Usage

\* The bound that SharedCapsInv sets, for figures f and a set S of pending calls.
Bounded(f, S) ==
    /\ f.daily + Slack(S) <= DailyCap + Slack(Tasks)
    /\ f.monthly + Slack(S) <= MonthlyCap + Slack(Tasks)

LEMMA NextSharedCapsInv == TypeOK /\ FilesInv /\ SharedCapsInv /\ [Next]_vars => SharedCapsInv'
<1> SUFFICES ASSUME TypeOK, FilesInv, SharedCapsInv, [Next]_vars, ~clobbered'
             PROVE  Bounded(Rolled(usage)', PendingTasks')
    BY DEF SharedCapsInv, Bounded, Slack
<1>0. /\ usage \in Usage /\ today \in Days /\ Rolled(usage) \in Usage
      /\ DailyCap \in Nat /\ MonthlyCap \in Nat /\ PendingTasks \subseteq Tasks
    BY RolledType, NumbersAssumption DEF TypeOK, PendingTasks
<1>1. ASSUME ~clobbered, Rolled(usage)' \in Usage,
             Rolled(usage)'.daily <= Rolled(usage).daily,
             Rolled(usage)'.monthly <= Rolled(usage).monthly,
             PendingTasks' \subseteq PendingTasks
      PROVE  Bounded(Rolled(usage)', PendingTasks')
    <2>1. /\ Rolled(usage)'.daily \in Nat /\ Rolled(usage)'.monthly \in Nat
          /\ Rolled(usage).daily \in Nat /\ Rolled(usage).monthly \in Nat
        BY <1>0, <1>1 DEF Usage
    <2>2. /\ Rolled(usage).daily + Slack(PendingTasks) <= DailyCap + Slack(Tasks)
          /\ Rolled(usage).monthly + Slack(PendingTasks) <= MonthlyCap + Slack(Tasks)
        BY <1>1 DEF SharedCapsInv
    <2>3. Rolled(usage)'.daily + Slack(PendingTasks') <= DailyCap + Slack(Tasks)
        BY <1>0, <1>1, <2>1, <2>2, LessOfBoth
    <2>4. Rolled(usage)'.monthly + Slack(PendingTasks') <= MonthlyCap + Slack(Tasks)
        BY <1>0, <1>1, <2>1, <2>2, LessOfBoth
    <2> QED BY <2>3, <2>4 DEF Bounded
<1>2. ASSUME ~clobbered, Rolled(usage)' = Rolled(usage), PendingTasks' \subseteq PendingTasks
      PROVE  Bounded(Rolled(usage)', PendingTasks')
    <2>1. Rolled(usage).daily \in Nat /\ Rolled(usage).monthly \in Nat
        BY <1>0 DEF Usage
    <2> QED BY <1>0, <1>1, <1>2, <2>1
<1>3. ASSUME ~clobbered, today' = today, usage' = usage \/ usage' = Rolled(usage), task' = task
      PROVE  Bounded(Rolled(usage)', PendingTasks')
    BY <1>2, <1>3, SyncKeepsFigures DEF PendingTasks, Pending
<1>4. ASSUME NEW p \in Procs, StartLoads(p) \/ Read(p)
      PROVE  Bounded(Rolled(usage)', PendingTasks')
    BY <1>3, <1>4 DEF StartLoads, Read, Sync, history
<1>5. ASSUME NEW p \in Procs, StartSaves(p)
      PROVE  Bounded(Rolled(usage)', PendingTasks')
    <2>1. Rolled(usage)' = Rolled(usage) /\ ~clobbered
        <3>1. Rolled(usage)' = Rolled(loaded[p])
            BY <1>5 DEF StartSaves, Rolled
        <3>2. Rolled(loaded[p]) = Rolled(usage) /\ ~clobbered
            BY <1>5 DEF StartSaves
        <3> QED BY <3>1, <3>2
    <2> QED BY <1>2, <1>5, <2>1 DEF StartSaves, PendingTasks, Pending
<1>6. ASSUME NEW p \in Procs, Stop(p)
      PROVE  Bounded(Rolled(usage)', PendingTasks')
    <2>1. PendingTasks' \subseteq PendingTasks
        BY <1>6 DEF Stop, PendingTasks, PendingOf, Pending
    <2> QED BY <1>2, <1>6, <2>1, SyncKeepsFigures DEF Stop, history
<1>7. ASSUME NEW t \in Tasks, NEW p \in Procs, NEW kind, NEW e \in Amounts, Call(t, p, kind, e)
      PROVE  Bounded(Rolled(usage)', PendingTasks')
    <2>1. Rolled(usage)' = Rolled(usage) /\ PendingTasks' \subseteq Tasks
        BY <1>7, SyncKeepsFigures DEF Call, Sync, PendingTasks
    <2>2. Rolled(usage).daily + e <= DailyCap /\ Rolled(usage).monthly + e <= MonthlyCap
        BY <1>7 DEF Call, Fits
    <2>3. Rolled(usage).daily \in Nat /\ Rolled(usage).monthly \in Nat
        BY <1>0 DEF Usage
    <2>4. Rolled(usage).daily + Slack(PendingTasks') <= DailyCap + Slack(Tasks)
        BY <1>0, <2>1, <2>2, <2>3, CheckedFits
    <2>5. Rolled(usage).monthly + Slack(PendingTasks') <= MonthlyCap + Slack(Tasks)
        BY <1>0, <2>1, <2>2, <2>3, CheckedFits
    <2> QED BY <2>1, <2>4, <2>5 DEF Bounded
<1>8. ASSUME NEW t \in Tasks, NEW cost \in Amounts, Answer(t, cost)
      PROVE  Bounded(Rolled(usage)', PendingTasks')
    <2>1. /\ Rolled(usage)'.daily = Rolled(usage).daily + cost
          /\ Rolled(usage)'.monthly = Rolled(usage).monthly + cost
        BY <1>8, RecordAddsCost DEF Answer, Record
    <2>2. PendingTasks' = PendingTasks \ {t} /\ t \in PendingTasks
        BY <1>8 DEF Answer, PendingTasks, Pending, TypeOK
    <2>3. Rolled(usage).daily \in Nat /\ Rolled(usage).monthly \in Nat
        BY <1>0 DEF Usage
    <2>4. /\ Rolled(usage).daily + Slack(PendingTasks) <= DailyCap + Slack(Tasks)
          /\ Rolled(usage).monthly + Slack(PendingTasks) <= MonthlyCap + Slack(Tasks)
        BY <1>8 DEF SharedCapsInv, Answer
    <2>5. Rolled(usage).daily + cost + Slack(PendingTasks') <= DailyCap + Slack(Tasks)
        BY <1>0, <2>2, <2>3, <2>4, CallBecomesSpend
    <2>6. Rolled(usage).monthly + cost + Slack(PendingTasks') <= MonthlyCap + Slack(Tasks)
        BY <1>0, <2>2, <2>3, <2>4, CallBecomesSpend
    <2> QED BY <2>1, <2>5, <2>6 DEF Bounded
<1>9. ASSUME NEW t \in Tasks, NEW cost \in Amounts, NEW e \in Amounts, AskAgain(t, cost, e)
      PROVE  Bounded(Rolled(usage)', PendingTasks')
    <2>1. PendingTasks' \subseteq PendingTasks
        BY <1>9 DEF AskAgain, PendingTasks, Pending, TypeOK
    <2> QED BY <1>2, <1>9, <2>1, SyncKeepsFigures DEF AskAgain, Sync
<1>10. ASSUME NEW t \in Tasks, (\E cost \in Amounts : Abandon(t, cost)) \/ Error(t)
      PROVE  Bounded(Rolled(usage)', PendingTasks')
    <2>1. /\ usage' = usage /\ today' = today /\ clobbered' = clobbered
          /\ task' = [task EXCEPT ![t] = Idle]
        BY <1>10 DEF Abandon, Error, history
    <2>2. PendingTasks' \subseteq PendingTasks
        BY <2>1 DEF PendingTasks, Pending, TypeOK
    <2> QED BY <1>2, <2>1, <2>2, SyncKeepsFigures
<1>11. CASE NextDay
    <2>1. clobbered' = clobbered /\ PendingTasks' = PendingTasks
        BY <1>11 DEF NextDay, PendingTasks, Pending
    <2>2. 0 <= Rolled(usage).daily
        BY <1>0 DEF Usage
    <2> QED BY <1>1, <1>11, <2>1, <2>2, NextDayRolls
<1>12. CASE UNCHANGED vars
    BY <1>3, <1>12 DEF vars, history
<1> QED BY <1>4, <1>5, <1>6, <1>7, <1>8, <1>9, <1>10, <1>11, <1>12 DEF Next

\* However many calls overlap in however many processes, a session passes its
\* cap by at most one charge per call that can be pending, and so do the day
\* and the month unless a constructor overwrote the file.
THEOREM OverrunIsBounded == Spec => []OverrunBounded
<1>1. Init => SessionInv /\ SharedCapsInv
    <2> SUFFICES ASSUME Init PROVE SessionInv /\ SharedCapsInv
        OBVIOUS
    <2>1. PendingTasks = {} /\ \A p \in Procs : PendingOf(p) = {}
        BY DEF Init, PendingTasks, PendingOf, Pending
    <2>2. Slack({}) = 0 /\ Slack(Tasks) \in Nat
        BY FS_EmptySet, SlackGrows, NumbersAssumption DEF Slack
    <2>3. Rolled(usage).daily = 0 /\ Rolled(usage).monthly = 0
        BY DEF Init, Rolled
    <2>4. SessionInv
        <3>1. \A p \in Procs : session[p] + Slack(PendingOf(p)) = 0
            BY <2>1, <2>2 DEF Init
        <3> QED BY <2>2, <3>1, NumbersAssumption DEF SessionInv
    <2>5. SharedCapsInv
        BY <2>1, <2>2, <2>3, NumbersAssumption DEF SharedCapsInv
    <2> QED BY <2>4, <2>5
<1>2. TypeOK /\ SessionInv /\ SharedCapsInv => OverrunBounded
    <2> SUFFICES ASSUME TypeOK, SessionInv, SharedCapsInv PROVE OverrunBounded
        OBVIOUS
    <2>1. ASSUME NEW x \in Nat, NEW b \in Nat, NEW S, S \subseteq Tasks,
                 x + Slack(S) <= b + Slack(Tasks)
          PROVE  x <= b + Slack(Tasks)
        BY <2>1, SlackGrows
    <2>2. ASSUME NEW p \in Procs PROVE session[p] <= SessionCap + Slack(Tasks)
        <3>1. session[p] \in Nat /\ PendingOf(p) \subseteq Tasks
            BY DEF TypeOK, PendingOf
        <3>2. session[p] + Slack(PendingOf(p)) <= SessionCap + Slack(Tasks)
            BY DEF SessionInv
        <3> QED BY <2>1, <3>1, <3>2, NumbersAssumption
    <2>3. Rolled(usage).daily \in Nat /\ Rolled(usage).monthly \in Nat
        BY RolledType DEF TypeOK, Usage
    <2>4. ~clobbered => /\ Rolled(usage).daily <= DailyCap + Slack(Tasks)
                        /\ Rolled(usage).monthly <= MonthlyCap + Slack(Tasks)
        BY <2>1, <2>3, NumbersAssumption DEF SharedCapsInv, PendingTasks
    <2> QED BY <2>2, <2>4 DEF OverrunBounded, Slack
<1> QED BY <1>1, <1>2, NextSessionInv, NextSharedCapsInv, BudgetTypes, FilesInvariant, PTL DEF Spec

-----------------------------------------------------------------------------
(* One call at a time.  What a pending call was checked against is still    *)
(* there when it is charged, so its estimate still has room.                *)

InOrder == ~parallel /\ ~dearer

Alone == ~parallel => \A s, t \in Tasks : Pending(s) /\ Pending(t) => s = t

SessionHasRoom ==
    InOrder => /\ \A p \in Procs : session[p] <= SessionCap
               /\ \A t \in Tasks : Pending(t) => session[task[t].proc] + task[t].est <= SessionCap

\* Figures f are within the caps.
Within(f) == f.daily <= DailyCap /\ f.monthly <= MonthlyCap

\* Figures f are within the caps, with the estimate of task t as well.
RoomFor(f, t) == f.daily + task[t].est <= DailyCap /\ f.monthly + task[t].est <= MonthlyCap

FiguresHaveRoom ==
    InOrder /\ ~clobbered => /\ Within(Rolled(usage))
                             /\ \A t \in Tasks : Pending(t) => RoomFor(Rolled(usage), t)

LEMMA EstimatesAreNat ==
    ASSUME TypeOK, NEW t \in Tasks, Pending(t)
    PROVE  task[t] \in PendingCalls /\ task[t].proc \in Procs /\ task[t].est \in Nat
BY NumbersAssumption DEF TypeOK, Pending, PendingCalls, Amounts

LEMMA NextAlone == TypeOK /\ Alone /\ [Next]_vars => Alone'
<1> SUFFICES ASSUME TypeOK, Alone, [Next]_vars PROVE Alone'
    OBVIOUS
<1>1. ASSUME parallel' = parallel, \A t \in Tasks : Pending(t)' => Pending(t)
      PROVE  Alone'
    BY <1>1 DEF Alone
<1>2. ASSUME NEW p \in Procs, StartLoads(p) \/ StartSaves(p) \/ Read(p) PROVE Alone'
    BY <1>1, <1>2 DEF StartLoads, StartSaves, Read, history, Pending
<1>3. ASSUME NEW p \in Procs, Stop(p) PROVE Alone'
    BY <1>1, <1>3 DEF Stop, history, Pending
<1>4. ASSUME NEW t \in Tasks, NEW p \in Procs, NEW kind, NEW e \in Amounts, Call(t, p, kind, e)
      PROVE  Alone'
    <2>1. ~parallel' => \A s \in Tasks : ~Pending(s)
        BY <1>4 DEF Call, PendingTasks
    <2>2. \A s \in Tasks : Pending(s)' => s = t \/ Pending(s)
        BY <1>4 DEF Call, Pending, TypeOK
    <2> QED BY <2>1, <2>2 DEF Alone
<1>5. ASSUME NEW t \in Tasks, NEW cost \in Amounts, Answer(t, cost) \/ Abandon(t, cost)
      PROVE  Alone'
    BY <1>1, <1>5 DEF Answer, Abandon, Pending, TypeOK
<1>6. ASSUME NEW t \in Tasks, NEW cost \in Amounts, NEW e \in Amounts, AskAgain(t, cost, e)
      PROVE  Alone'
    BY <1>1, <1>6 DEF AskAgain, Pending, TypeOK
<1>7. ASSUME NEW t \in Tasks, Error(t) PROVE Alone'
    BY <1>1, <1>7 DEF Error, history, Pending, TypeOK
<1>8. CASE NextDay \/ UNCHANGED vars
    BY <1>1, <1>8 DEF NextDay, vars, history, Pending
<1> QED BY <1>2, <1>3, <1>4, <1>5, <1>6, <1>7, <1>8 DEF Next

LEMMA NextSessionHasRoom ==
    TypeOK /\ Alone /\ SessionHasRoom /\ [Next]_vars => SessionHasRoom'
<1> SUFFICES ASSUME TypeOK, Alone, SessionHasRoom, [Next]_vars, InOrder'
             PROVE  SessionHasRoom'
    BY DEF SessionHasRoom
<1>0. SessionCap \in Nat /\ \A p \in Procs : session[p] \in Nat
    BY NumbersAssumption DEF TypeOK
<1>1. ASSUME InOrder, session' = session, \A t \in Tasks : Pending(t)' => Pending(t) /\ task'[t] = task[t]
      PROVE  SessionHasRoom'
    BY <1>1 DEF SessionHasRoom
<1>2. ASSUME NEW p \in Procs, StartLoads(p) \/ StartSaves(p) \/ Read(p) PROVE SessionHasRoom'
    BY <1>1, <1>2 DEF StartLoads, StartSaves, Read, history, Pending, InOrder
<1>3. ASSUME NEW p \in Procs, Stop(p) PROVE SessionHasRoom'
    <2>1. InOrder /\ session' = [session EXCEPT ![p] = 0]
        BY <1>3 DEF Stop, history, InOrder
    <2>2. ASSUME NEW t \in Tasks, Pending(t)'
          PROVE  session'[task'[t].proc] + task'[t].est <= SessionCap
        <3>1. Pending(t) /\ task'[t] = task[t] /\ task[t].proc # p
            BY <1>3, <2>2 DEF Stop, Pending, PendingOf
        <3>2. session'[task[t].proc] = session[task[t].proc]
            BY <2>1, <3>1, EstimatesAreNat DEF TypeOK
        <3> QED BY <2>1, <3>1, <3>2 DEF SessionHasRoom
    <2>3. \A q \in Procs : session'[q] <= SessionCap
        BY <1>0, <2>1 DEF SessionHasRoom, TypeOK
    <2> QED BY <2>2, <2>3 DEF SessionHasRoom
<1>4. ASSUME NEW t \in Tasks, NEW p \in Procs, NEW kind, NEW e \in Amounts, Call(t, p, kind, e)
      PROVE  SessionHasRoom'
    <2>1. InOrder /\ session' = session /\ session[p] + e <= SessionCap
        BY <1>4 DEF Call, InOrder, Fits
    <2>2. task'[t].proc = p /\ task'[t].est = e /\ \A s \in Tasks : s # t => task'[s] = task[s]
        BY <1>4 DEF Call, TypeOK
    <2>3. ASSUME NEW s \in Tasks, Pending(s)'
          PROVE  session'[task'[s].proc] + task'[s].est <= SessionCap
        BY <2>1, <2>2, <2>3 DEF SessionHasRoom, Pending
    <2> QED BY <2>1, <2>3 DEF SessionHasRoom
<1>5. ASSUME NEW t \in Tasks, NEW cost \in Amounts, Answer(t, cost) PROVE SessionHasRoom'
    <2>1. /\ InOrder /\ Pending(t) /\ ~(cost > task[t].est)
          /\ session' = [session EXCEPT ![task[t].proc] = @ + cost]
          /\ task' = [task EXCEPT ![t] = Idle]
        BY <1>5 DEF Answer, InOrder, Record
    <2>2. task[t].proc \in Procs /\ task[t].est \in Nat /\ cost \in Nat /\ cost <= task[t].est
        BY <2>1, EstimatesAreNat, NumbersAssumption DEF Amounts
    <2>3. \A s \in Tasks : ~Pending(s)'
        BY <2>1 DEF Pending, Alone, InOrder, TypeOK
    <2>4. session[task[t].proc] + cost <= SessionCap
        BY <1>0, <2>1, <2>2 DEF SessionHasRoom
    <2>5. \A q \in Procs : session'[q] <= SessionCap
        BY <2>1, <2>2, <2>4 DEF SessionHasRoom, TypeOK
    <2> QED BY <2>3, <2>5 DEF SessionHasRoom
<1>6. ASSUME NEW t \in Tasks, NEW cost \in Amounts, NEW e \in Amounts, AskAgain(t, cost, e)
      PROVE  SessionHasRoom'
    <2>1. /\ InOrder /\ Pending(t) /\ session' = session
          /\ \A s \in Tasks : s # t => task'[s] = task[s]
          /\ task'[t] = IF Fits(task[t].proc, e) THEN AskedAgain(task[t], e) ELSE Idle
        BY <1>6 DEF AskAgain, InOrder, TypeOK
    <2>2. AskedAgain(task[t], e).proc = task[t].proc /\ AskedAgain(task[t], e).est = e
        BY <2>1, EstimatesAreNat DEF AskedAgain, PendingCalls
    <2>3. ASSUME NEW s \in Tasks, Pending(s)'
          PROVE  session'[task'[s].proc] + task'[s].est <= SessionCap
        <3>1. CASE s = t
            BY <2>1, <2>2, <2>3, <3>1 DEF Pending, Fits
        <3>2. CASE s # t
            BY <2>1, <2>3, <3>2 DEF Pending, SessionHasRoom
        <3> QED BY <3>1, <3>2
    <2> QED BY <2>1, <2>3 DEF SessionHasRoom
<1>7. ASSUME NEW t \in Tasks, (\E cost \in Amounts : Abandon(t, cost)) \/ Error(t)
      PROVE  SessionHasRoom'
    <2>1. InOrder /\ session' = session /\ task' = [task EXCEPT ![t] = Idle]
        BY <1>7 DEF Abandon, Error, history, InOrder
    <2>2. \A s \in Tasks : Pending(s)' => Pending(s) /\ task'[s] = task[s]
        BY <2>1 DEF Pending, TypeOK
    <2> QED BY <1>1, <2>1, <2>2
<1>8. CASE NextDay \/ UNCHANGED vars
    BY <1>1, <1>8 DEF NextDay, vars, history, Pending, InOrder
<1> QED BY <1>2, <1>3, <1>4, <1>5, <1>6, <1>7, <1>8 DEF Next

LEMMA NextFiguresHaveRoom ==
    TypeOK /\ FilesInv /\ Alone /\ FiguresHaveRoom /\ [Next]_vars => FiguresHaveRoom'
<1> SUFFICES ASSUME TypeOK, FilesInv, Alone, FiguresHaveRoom, [Next]_vars, InOrder', ~clobbered'
             PROVE  FiguresHaveRoom'
    BY DEF FiguresHaveRoom
<1> DEFINE f == Rolled(usage)
<1> HIDE DEF f
<1>0. f \in Usage /\ f.daily \in Nat /\ f.monthly \in Nat /\ DailyCap \in Nat /\ MonthlyCap \in Nat
    BY RolledType, NumbersAssumption DEF TypeOK, Usage, f
<1>1. ASSUME InOrder, ~clobbered, f' \in Usage, f'.daily <= f.daily, f'.monthly <= f.monthly,
             \A t \in Tasks : Pending(t)' => Pending(t) /\ task'[t] = task[t]
      PROVE  FiguresHaveRoom'
    <2>1. Within(f')
        BY <1>0, <1>1 DEF FiguresHaveRoom, Within, Usage, f
    <2>2. ASSUME NEW t \in Tasks, Pending(t)' PROVE RoomFor(f, t)'
        BY <1>0, <1>1, <2>2, EstimatesAreNat DEF FiguresHaveRoom, RoomFor, Usage, f
    <2> QED BY <2>1, <2>2 DEF FiguresHaveRoom, Within, f
<1>2. ASSUME InOrder, ~clobbered, f' = f,
             \A t \in Tasks : Pending(t)' => Pending(t) /\ task'[t] = task[t]
      PROVE  FiguresHaveRoom'
    BY <1>0, <1>1, <1>2
<1>3. ASSUME today' = today, usage' = usage \/ usage' = Rolled(usage) PROVE f' = f
    BY <1>3, SyncKeepsFigures DEF f
<1>4. ASSUME NEW p \in Procs, StartLoads(p) \/ Read(p) PROVE FiguresHaveRoom'
    BY <1>2, <1>3, <1>4 DEF StartLoads, Read, Sync, history, InOrder, Pending
<1>5. ASSUME NEW p \in Procs, StartSaves(p) PROVE FiguresHaveRoom'
    <2>1. f' = f
        BY <1>5 DEF StartSaves, Rolled, f
    <2> QED BY <1>2, <1>5, <2>1 DEF StartSaves, InOrder, Pending
<1>6. ASSUME NEW p \in Procs, Stop(p) PROVE FiguresHaveRoom'
    <2>1. \A t \in Tasks : Pending(t)' => Pending(t) /\ task'[t] = task[t]
        BY <1>6 DEF Stop, Pending
    <2> QED BY <1>2, <1>3, <1>6, <2>1 DEF Stop, history, InOrder
<1>7. ASSUME NEW t \in Tasks, NEW p \in Procs, NEW kind, NEW e \in Amounts, Call(t, p, kind, e)
      PROVE  FiguresHaveRoom'
    <2>1. InOrder /\ ~clobbered /\ f.daily + e <= DailyCap /\ f.monthly + e <= MonthlyCap
        BY <1>7 DEF Call, InOrder, Fits, f
    <2>2. f' = f /\ task'[t].est = e /\ \A s \in Tasks : s # t => task'[s] = task[s]
        BY <1>3, <1>7 DEF Call, Sync, TypeOK
    <2>3. ASSUME NEW s \in Tasks, Pending(s)' PROVE RoomFor(f, s)'
        BY <2>1, <2>2, <2>3 DEF FiguresHaveRoom, RoomFor, Pending, f
    <2>4. Within(f)
        BY <2>1 DEF FiguresHaveRoom, f
    <2> QED BY <2>2, <2>3, <2>4 DEF FiguresHaveRoom, Within, f
<1>8. ASSUME NEW t \in Tasks, NEW cost \in Amounts, Answer(t, cost) PROVE FiguresHaveRoom'
    <2>1. /\ InOrder /\ ~clobbered /\ Pending(t) /\ ~(cost > task[t].est)
          /\ task' = [task EXCEPT ![t] = Idle]
        BY <1>8 DEF Answer, InOrder
    <2>2. task[t].est \in Nat /\ cost \in Nat /\ cost <= task[t].est
        BY <2>1, EstimatesAreNat, NumbersAssumption DEF Amounts
    <2>3. \A s \in Tasks : ~Pending(s)'
        BY <2>1 DEF Pending, Alone, InOrder, TypeOK
    <2>4. f'.daily = f.daily + cost /\ f'.monthly = f.monthly + cost
        BY <1>8, RecordAddsCost DEF Answer, Record, f
    <2>5. Within(f')
        BY <1>0, <2>1, <2>2, <2>4 DEF FiguresHaveRoom, RoomFor, Within, f
    <2> QED BY <2>3, <2>5 DEF FiguresHaveRoom, Within, f
<1>9. ASSUME NEW t \in Tasks, NEW cost \in Amounts, NEW e \in Amounts, AskAgain(t, cost, e)
      PROVE  FiguresHaveRoom'
    <2>1. /\ InOrder /\ ~clobbered /\ Pending(t) /\ f' = f
          /\ \A s \in Tasks : s # t => task'[s] = task[s]
          /\ task'[t] = IF Fits(task[t].proc, e) THEN AskedAgain(task[t], e) ELSE Idle
        BY <1>3, <1>9 DEF AskAgain, InOrder, Sync, TypeOK
    <2>2. AskedAgain(task[t], e).est = e
        BY <2>1, EstimatesAreNat DEF AskedAgain, PendingCalls
    <2>3. ASSUME NEW s \in Tasks, Pending(s)' PROVE RoomFor(f, s)'
        <3>1. CASE s = t
            BY <2>1, <2>2, <2>3, <3>1 DEF Pending, Fits, RoomFor, f
        <3>2. CASE s # t
            BY <2>1, <2>3, <3>2 DEF Pending, FiguresHaveRoom, RoomFor, f
        <3> QED BY <3>1, <3>2
    <2>4. Within(f)
        BY <2>1 DEF FiguresHaveRoom, f
    <2> QED BY <2>1, <2>3, <2>4 DEF FiguresHaveRoom, Within, f
<1>10. ASSUME NEW t \in Tasks, (\E cost \in Amounts : Abandon(t, cost)) \/ Error(t)
       PROVE  FiguresHaveRoom'
    <2>1. /\ InOrder /\ ~clobbered /\ usage' = usage /\ today' = today
          /\ task' = [task EXCEPT ![t] = Idle]
        BY <1>10 DEF Abandon, Error, history, InOrder
    <2>2. \A s \in Tasks : Pending(s)' => Pending(s) /\ task'[s] = task[s]
        BY <2>1 DEF Pending, TypeOK
    <2> QED BY <1>2, <1>3, <2>1, <2>2
<1>11. CASE NextDay
    <2>1. /\ InOrder /\ ~clobbered
          /\ \A t \in Tasks : Pending(t)' => Pending(t) /\ task'[t] = task[t]
        BY <1>11 DEF NextDay, InOrder, Pending
    <2>2. f' \in Usage /\ f'.daily <= f.daily /\ f'.monthly <= f.monthly
        BY <1>0, <1>11, NextDayRolls DEF f
    <2> QED BY <1>1, <2>1, <2>2
<1>12. CASE UNCHANGED vars
    BY <1>2, <1>3, <1>12 DEF vars, history, InOrder, Pending
<1> QED BY <1>4, <1>5, <1>6, <1>7, <1>8, <1>9, <1>10, <1>11, <1>12 DEF Next

\* As long as one call is pending at a time and none is charged more than its
\* estimate, check_would_fit keeps every session within its cap, and the day
\* and the month as well unless a constructor overwrote the file.
THEOREM CapsHoldOneAtATime == Spec => []CapsHoldInOrder
<1>1. Init => Alone /\ SessionHasRoom /\ FiguresHaveRoom
    <2> SUFFICES ASSUME Init PROVE Alone /\ SessionHasRoom /\ FiguresHaveRoom
        OBVIOUS
    <2>1. \A t \in Tasks : ~Pending(t)
        BY DEF Init, Pending
    <2>2. Rolled(usage).daily = 0 /\ Rolled(usage).monthly = 0
        BY DEF Init, Rolled
    <2>3. SessionHasRoom
        BY <2>1, NumbersAssumption DEF Init, SessionHasRoom
    <2> QED BY <2>1, <2>2, <2>3, NumbersAssumption DEF Alone, FiguresHaveRoom, Within
<1>2. SessionHasRoom /\ FiguresHaveRoom => CapsHoldInOrder
    BY DEF SessionHasRoom, FiguresHaveRoom, CapsHoldInOrder, InOrder, Within
<1> QED BY <1>1, <1>2, NextAlone, NextSessionHasRoom, NextFiguresHaveRoom, BudgetTypes,
           FilesInvariant, PTL DEF Spec
-----------------------------------------------------------------------------
(* The ledger is a meter.  Beyond what is shown above it takes that no       *)
(* figure, of the file or of a constructor, passes the bill: a constructor  *)
(* may then overwrite the file with any of them.                            *)

\* Figures u count no more than was charged in the month.
Covered(u) == Rolled(u).monthly <= billed

BillInv == Covered(usage) /\ \A p \in Procs : Covered(loaded[p])

\* What figures u are rolled over to on the next day.
LEMMA CoveredNextDay ==
    ASSUME TypeOK, NextDay, NEW u \in Usage, SaneFigures(u), Covered(u)
    PROVE  (IF MonthOf[u.day] = MonthOf[today'] THEN u.monthly ELSE 0) <= billed'
<1>1. /\ today \in Days /\ today' \in Days /\ today' = today + 1 /\ billed \in Nat
      /\ u.day \in Days /\ u.monthly \in Nat /\ u.day <= today
      /\ billed' = IF MonthOf[today'] = MonthOf[today] THEN billed ELSE 0
    BY NumbersAssumption DEF NextDay, TypeOK, SaneFigures, Usage, Days
<1>2. /\ MonthOf[u.day] <= MonthOf[today] /\ MonthOf[today] <= MonthOf[today']
      /\ MonthOf[u.day] \in Nat /\ MonthOf[today] \in Nat /\ MonthOf[today'] \in Nat
    <2>1. today <= today'
        BY <1>1, NumbersAssumption DEF Days
    <2> QED BY <1>1, <2>1, CalendarAssumption
<1>3. (IF MonthOf[u.day] = MonthOf[today] THEN u.monthly ELSE 0) <= billed
    BY DEF Covered, Rolled
<1> QED BY <1>1, <1>2, <1>3

LEMMA NextBillInv == TypeOK /\ FilesInv /\ BillInv /\ [Next]_vars => BillInv'
<1> SUFFICES ASSUME TypeOK, FilesInv, BillInv, [Next]_vars PROVE BillInv'
    OBVIOUS
<1>0. /\ today \in Days /\ usage \in Usage /\ Rolled(usage) \in Usage /\ billed \in Nat
      /\ \A p \in Procs : loaded[p] \in Usage /\ Rolled(loaded[p]) \in Usage
    BY RolledType DEF TypeOK
<1>1. ASSUME today' = today, loaded' = loaded, usage' = usage \/ usage' = Rolled(usage),
             billed' \in Nat, billed' >= billed
      PROVE  BillInv'
    <2>1. Rolled(usage)' = Rolled(usage)
        BY <1>1, SyncKeepsFigures
    <2>2. ASSUME NEW p \in Procs PROVE Rolled(loaded[p])'.monthly <= billed'
        <3>1. Rolled(loaded[p])' = Rolled(loaded[p])
            BY <1>1 DEF Rolled
        <3>2. Rolled(loaded[p]).monthly <= billed /\ Rolled(loaded[p]).monthly \in Nat
            BY <1>0 DEF BillInv, Covered, Usage
        <3> QED BY <1>0, <1>1, <3>1, <3>2
    <2>3. Rolled(usage).monthly <= billed /\ Rolled(usage).monthly \in Nat
        BY <1>0 DEF BillInv, Covered, Usage
    <2> QED BY <1>0, <1>1, <2>1, <2>2, <2>3 DEF BillInv, Covered
<1>2. ASSUME NEW p \in Procs, StartLoads(p) PROVE BillInv'
    <2>1. /\ today' = today /\ usage' = usage /\ billed' = billed
          /\ loaded' = [loaded EXCEPT ![p] = Rolled(usage)]
        BY <1>2 DEF StartLoads, history
    <2>2. Rolled(usage)' = Rolled(usage)
        BY <2>1, SyncKeepsFigures
    <2>3. ASSUME NEW q \in Procs PROVE Rolled(loaded[q])'.monthly <= billed
        <3>1. CASE q = p
            <4>1. loaded'[q] = Rolled(usage)
                BY <2>1, <3>1 DEF TypeOK
            <4>2. Rolled(loaded[q])' = Rolled(Rolled(usage))
                BY <2>1, <4>1 DEF Rolled
            <4> QED BY <1>0, <4>2, RolledTwice DEF BillInv, Covered
        <3>2. CASE q # p
            <4>1. loaded'[q] = loaded[q]
                BY <2>1, <3>2 DEF TypeOK
            <4>2. Rolled(loaded[q])' = Rolled(loaded[q])
                BY <2>1, <4>1 DEF Rolled
            <4> QED BY <4>2 DEF BillInv, Covered
        <3> QED BY <3>1, <3>2
    <2> QED BY <2>1, <2>2, <2>3 DEF BillInv, Covered
<1>3. ASSUME NEW p \in Procs, StartSaves(p) PROVE BillInv'
    <2>1. today' = today /\ usage' = loaded[p] /\ loaded' = loaded /\ billed' = billed
        BY <1>3 DEF StartSaves
    <2>2. Rolled(usage)' = Rolled(loaded[p])
        BY <2>1 DEF Rolled
    <2>3. \A q \in Procs : Rolled(loaded[q])' = Rolled(loaded[q])
        BY <2>1 DEF Rolled
    <2> QED BY <2>1, <2>2, <2>3 DEF BillInv, Covered
<1>4. ASSUME NEW p \in Procs, Stop(p) PROVE BillInv'
    BY <1>0, <1>1, <1>4 DEF Stop, history
<1>5. ASSUME NEW p \in Procs, Read(p) PROVE BillInv'
    BY <1>0, <1>1, <1>5 DEF Read, Sync, history
<1>6. ASSUME NEW t \in Tasks, NEW p \in Procs, NEW kind, NEW e \in Amounts, Call(t, p, kind, e)
      PROVE  BillInv'
    BY <1>0, <1>1, <1>6 DEF Call, Sync
<1>7. ASSUME NEW t \in Tasks, NEW cost \in Amounts, Answer(t, cost) PROVE BillInv'
    <2>1. /\ today' = today /\ loaded' = loaded /\ usage' = UsageWith(usage, cost)
          /\ billed' = billed + cost
        BY <1>7 DEF Answer, Record
    <2>2. cost \in Nat /\ Rolled(usage)'.monthly = Rolled(usage).monthly + cost
        BY <2>1, RecordAddsCost
    <2>3. Rolled(usage).monthly <= billed /\ Rolled(usage).monthly \in Nat
        BY <1>0 DEF BillInv, Covered, Usage
    <2>4. ASSUME NEW p \in Procs PROVE Rolled(loaded[p])'.monthly <= billed'
        <3>1. Rolled(loaded[p])' = Rolled(loaded[p])
            BY <2>1 DEF Rolled
        <3>2. Rolled(loaded[p]).monthly <= billed /\ Rolled(loaded[p]).monthly \in Nat
            BY <1>0 DEF BillInv, Covered, Usage
        <3> QED BY <1>0, <2>1, <2>2, <3>1, <3>2
    <2> QED BY <1>0, <2>1, <2>2, <2>3, <2>4 DEF BillInv, Covered
<1>8. ASSUME NEW t \in Tasks, NEW cost \in Amounts,
             (\E e \in Amounts : AskAgain(t, cost, e)) \/ Abandon(t, cost)
      PROVE  BillInv'
    <2>1. cost \in Nat /\ billed' = billed + cost
        BY <1>8, NumbersAssumption DEF AskAgain, Abandon, Amounts
    <2>2. billed' \in Nat /\ billed' >= billed
        BY <1>0, <2>1
    <2> QED BY <1>1, <1>8, <2>2 DEF AskAgain, Abandon, Sync
<1>9. ASSUME NEW t \in Tasks, Error(t) PROVE BillInv'
    BY <1>0, <1>1, <1>9 DEF Error, history
<1>10. CASE NextDay
    <2>1. usage' = usage /\ loaded' = loaded
        BY <1>10 DEF NextDay
    <2>2. Rolled(usage)'.monthly <= billed'
        <3>1. Rolled(usage)'.monthly
                = IF MonthOf[usage.day] = MonthOf[today'] THEN usage.monthly ELSE 0
            BY <2>1 DEF Rolled
        <3> QED BY <1>0, <1>10, <3>1, CoveredNextDay DEF FilesInv, BillInv
    <2>3. ASSUME NEW p \in Procs PROVE Rolled(loaded[p])'.monthly <= billed'
        <3>1. Rolled(loaded[p])'.monthly
                = IF MonthOf[loaded[p].day] = MonthOf[today'] THEN loaded[p].monthly ELSE 0
            BY <2>1 DEF Rolled
        <3> QED BY <1>0, <1>10, <3>1, CoveredNextDay DEF FilesInv, BillInv
    <2> QED BY <2>2, <2>3 DEF BillInv, Covered
<1>11. CASE UNCHANGED vars
    BY <1>0, <1>1, <1>11 DEF vars, history
<1> QED BY <1>2, <1>3, <1>4, <1>5, <1>6, <1>7, <1>8, <1>9, <1>10, <1>11 DEF Next

LEMMA BillInvariant == Spec => []BillInv
<1>1. Init => BillInv
    BY DEF Init, BillInv, Covered, Rolled
<1> QED BY <1>1, NextBillInv, BudgetTypes, FilesInvariant, PTL DEF Spec

LEMMA MeterStep ==
    TypeOK /\ FilesInv /\ BillInv /\ [Next]_vars => [Promise!Next]_(Promise!meter)
<1> SUFFICES ASSUME TypeOK, FilesInv, BillInv, [Next]_vars
             PROVE  Promise!Next \/ UNCHANGED Promise!meter
    OBVIOUS
<1>0. /\ today \in Days /\ usage \in Usage /\ billed \in Nat
      /\ clobbered \in BOOLEAN /\ dropped \in BOOLEAN
    BY DEF TypeOK
<1>1. ASSUME today' = today, usage' = usage \/ usage' = Rolled(usage), billed' = billed,
             clobbered' = clobbered, dropped' = dropped
      PROVE  UNCHANGED Promise!meter
    BY <1>1, SyncKeepsFigures DEF Promise!meter
<1>2. ASSUME NEW p \in Procs, StartLoads(p) \/ Stop(p) \/ Read(p) PROVE UNCHANGED Promise!meter
    BY <1>1, <1>2 DEF StartLoads, Stop, Read, Sync, history
<1>3. ASSUME NEW p \in Procs, StartSaves(p) PROVE Promise!Next \/ UNCHANGED Promise!meter
    <2>1. /\ today' = today /\ usage' = loaded[p] /\ billed' = billed /\ dropped' = dropped
          /\ clobbered' = (clobbered \/ Rolled(loaded[p]) # Rolled(usage))
        BY <1>3 DEF StartSaves
    <2>2. Rolled(usage)' = Rolled(loaded[p])
        BY <2>1 DEF Rolled
    <2>3. CASE Rolled(loaded[p]) = Rolled(usage)
        BY <1>0, <2>1, <2>2, <2>3 DEF Promise!meter
    <2>4. CASE Rolled(loaded[p]) # Rolled(usage)
        <3>1. /\ loaded[p] \in Usage /\ Rolled(loaded[p]) \in Usage
              /\ SaneFigures(Rolled(loaded[p])) /\ Rolled(loaded[p]).monthly <= billed
            BY RolledSane DEF TypeOK, FilesInv, BillInv, Covered
        <3>2. /\ Rolled(loaded[p]).monthly \in 0..billed
              /\ Rolled(loaded[p]).daily \in 0..Rolled(loaded[p]).monthly
            BY <1>0, <3>1 DEF Usage, SaneFigures
        <3>3. clobbered' = TRUE
            BY <1>0, <2>1, <2>4
        <3> QED BY <2>1, <2>2, <3>2, <3>3 DEF Promise!Next, Promise!Overwrite
    <2> QED BY <2>3, <2>4
<1>4. ASSUME NEW t \in Tasks, NEW p \in Procs, NEW kind, NEW e \in Amounts, Call(t, p, kind, e)
      PROVE  UNCHANGED Promise!meter
    BY <1>1, <1>4 DEF Call, Sync
<1>5. ASSUME NEW t \in Tasks, NEW cost \in Amounts, Answer(t, cost) PROVE Promise!Next
    <2>1. /\ Rolled(usage)'.daily = Rolled(usage).daily + cost
          /\ Rolled(usage)'.monthly = Rolled(usage).monthly + cost
          /\ billed' = billed + cost /\ clobbered' = clobbered /\ dropped' = dropped
        BY <1>5, RecordAddsCost DEF Answer, Record
    <2>2. cost \in 0..MaxAmount
        BY DEF Amounts
    <2> QED BY <2>1, <2>2 DEF Promise!Next, Promise!Charge
<1>6. ASSUME NEW t \in Tasks, NEW cost \in Amounts,
             (\E e \in Amounts : AskAgain(t, cost, e)) \/ Abandon(t, cost)
      PROVE  Promise!Next \/ UNCHANGED Promise!meter
    <2>1. /\ today' = today /\ (usage' = usage \/ usage' = Rolled(usage))
          /\ billed' = billed + cost /\ clobbered' = clobbered
          /\ dropped' = (dropped \/ cost > 0)
        BY <1>6 DEF AskAgain, Abandon, Sync
    <2>2. cost \in Nat /\ cost <= MaxAmount
        BY NumbersAssumption DEF Amounts
    <2>3. CASE cost = 0
        <3>1. billed' = billed /\ dropped' = dropped
            BY <1>0, <2>1, <2>3
        <3> QED BY <1>1, <2>1, <3>1
    <2>4. CASE cost # 0
        <3>0. cost > 0 /\ cost \in 1..MaxAmount
            BY <2>2, <2>4, NumbersAssumption
        <3>1. cost \in 1..MaxAmount /\ dropped' = TRUE
            BY <2>1, <3>0, Zenon
        <3>2. Rolled(usage)' = Rolled(usage)
            BY <2>1, SyncKeepsFigures
        <3> QED BY <2>1, <3>1, <3>2 DEF Promise!Next, Promise!Miss
    <2> QED BY <2>3, <2>4
<1>7. ASSUME NEW t \in Tasks, Error(t) PROVE UNCHANGED Promise!meter
    BY <1>1, <1>7 DEF Error, history
<1>8. CASE NextDay
    <2>1. /\ usage' = usage /\ clobbered' = clobbered /\ dropped' = dropped /\ today' = today + 1
          /\ today \in Nat /\ today' \in Days /\ usage.day \in Days /\ usage.day <= today
          /\ billed' = IF MonthOf[today'] = MonthOf[today] THEN billed ELSE 0
        BY <1>8, NumbersAssumption
        DEF NextDay, history, TypeOK, FilesInv, SaneFigures, Days, Usage
    <2>2. Rolled(usage)'.daily = 0
        BY <1>8, NextDayRolls
    <2>3. Rolled(usage)'.monthly
              = IF MonthOf[usage.day] = MonthOf[today'] THEN usage.monthly ELSE 0
        BY <2>1 DEF Rolled
    <2>4. CASE MonthOf[today'] = MonthOf[today]
        <3>1. Rolled(usage)'.monthly = Rolled(usage).monthly /\ billed' = billed
            BY <2>1, <2>3, <2>4 DEF Rolled
        <3> QED BY <2>1, <2>2, <3>1 DEF Promise!Next, Promise!NewDay
    <2>5. CASE MonthOf[today'] # MonthOf[today]
        <3>1. MonthOf[usage.day] # MonthOf[today']
            <4>1. /\ MonthOf[usage.day] <= MonthOf[today] /\ MonthOf[today] <= MonthOf[today']
                  /\ MonthOf[usage.day] \in Nat /\ MonthOf[today] \in Nat
                  /\ MonthOf[today'] \in Nat
                <5>1. today <= today'
                    BY <2>1
                <5> QED BY <1>0, <2>1, <5>1, CalendarAssumption
            <4> QED BY <2>5, <4>1
        <3> QED BY <2>1, <2>2, <2>3, <2>5, <3>1 DEF Promise!Next, Promise!NewMonth
    <2> QED BY <2>4, <2>5
<1>9. CASE UNCHANGED vars
    BY <1>1, <1>9 DEF vars, history
<1> QED BY <1>2, <1>3, <1>4, <1>5, <1>6, <1>7, <1>8, <1>9 DEF Next

\* For every number of processes, calls, days and every calendar, the ledger
\* implements the meter: an answer is charged at most once, to both totals,
\* and an overwritten file never shows more than was charged.
THEOREM LedgerIsAMeter == Spec => IsAMeter
<1>1. Init => Promise!Init
    BY DEF Init, Promise!Init, Rolled
<1> QED BY <1>1, MeterStep, BudgetTypes, FilesInvariant, BillInvariant, PTL
        DEF Spec, IsAMeter, Promise!Spec

-----------------------------------------------------------------------------
(* The rate limiter: how many tokens a queue of admissions holds.           *)

LEMMA UpTo ==
    ASSUME NEW n \in Nat
    PROVE  IsFiniteSet(1 .. n) /\ Cardinality(1 .. n) = n
BY FS_Interval

LEMMA UnitsMeaning ==
    ASSUME NEW s \in Seq(Admissions)
    PROVE  /\ \A x \in Units(s) :
                 \E i \in DOMAIN s : \E k \in 1 .. s[i].tokens : x = <<i, k>>
           /\ \A i \in DOMAIN s : \A k \in 1 .. s[i].tokens : <<i, k>> \in Units(s)
<1>1. ASSUME NEW x \in Units(s)
      PROVE  \E i \in DOMAIN s : \E k \in 1 .. s[i].tokens : x = <<i, k>>
    <2>1. PICK i \in DOMAIN s : x \in {i} \X (1 .. s[i].tokens)
        BY DEF Units
    <2> QED BY <2>1
<1>2. ASSUME NEW i \in DOMAIN s, NEW k \in 1 .. s[i].tokens
      PROVE  <<i, k>> \in Units(s)
    <2>1. <<i, k>> \in {i} \X (1 .. s[i].tokens)
        OBVIOUS
    <2> QED BY <2>1 DEF Units
<1> QED BY <1>1, <1>2

LEMMA UnitsAreFinite ==
    ASSUME NEW s \in Seq(Admissions)
    PROVE  IsFiniteSet(Units(s)) /\ Tokens(s) \in Nat
<1> DEFINE D == DOMAIN s
           Of(i) == {i} \X (1 .. s[i].tokens)
           R == {Of(i) : i \in D}
           f == [i \in D |-> Of(i)]
<1>1. IsFiniteSet(D)
    <2>1. D = 1 .. Len(s) /\ Len(s) \in Nat
        OBVIOUS
    <2> QED BY <2>1, FS_Interval
<1>2. ASSUME NEW i \in D PROVE IsFiniteSet(Of(i))
    <2>1. s[i] \in Admissions
        OBVIOUS
    <2>2. IsFiniteSet(1 .. s[i].tokens)
        BY <2>1, UpTo, SizesAssumption DEF Admissions
    <2>3. IsFiniteSet({i})
        BY FS_Singleton
    <2> QED BY <2>2, <2>3, FS_Product
<1>3. f \in Surjection(D, R)
    <2> HIDE DEF Of, D
    <2> QED BY DEF Surjection
<1>4. IsFiniteSet(R)
    <2> HIDE DEF D, R, f
    <2> QED BY <1>1, <1>3, FS_Surjection
<1>5. \A T \in R : IsFiniteSet(T)
    <2> HIDE DEF Of, D
    <2> QED BY <1>2
<1>6. IsFiniteSet(UNION R)
    <2> HIDE DEF R
    <2> QED BY <1>4, <1>5, FS_UNION
<1>7. Units(s) = UNION R
    BY DEF Units
<1> HIDE DEF R
<1> QED BY <1>6, <1>7, FS_CardinalityType DEF Tokens

\* A queue whose places are places of another holds no more tokens.
LEMMA FewerTokens ==
    ASSUME NEW s \in Seq(Admissions), NEW t \in Seq(Admissions), NEW d \in Nat,
           \A i \in DOMAIN t : i + d \in DOMAIN s /\ t[i].tokens = s[i + d].tokens
    PROVE  Tokens(t) <= Tokens(s)
<1> DEFINE f == [x \in Units(t) |-> <<x[1] + d, x[2]>>]
<1>1. ASSUME NEW x \in Units(t)
      PROVE  /\ f[x] \in Units(s)
             /\ x = <<x[1], x[2]>> /\ x[1] \in Nat
    <2>1. PICK i \in DOMAIN t : \E k \in 1 .. t[i].tokens : x = <<i, k>>
        BY UnitsMeaning
    <2>2. PICK k \in 1 .. t[i].tokens : x = <<i, k>>
        BY <2>1
    <2>3. f[x] = <<i + d, k>> /\ i + d \in DOMAIN s /\ k \in 1 .. s[i + d].tokens
        BY <2>2
    <2>4. f[x] \in Units(s)
        BY <2>3, UnitsMeaning
    <2>5. i \in Nat
        OBVIOUS
    <2> HIDE DEF f
    <2> QED BY <2>2, <2>4, <2>5
<1>2. ASSUME NEW x \in Units(t), NEW y \in Units(t), f[x] = f[y]
      PROVE  x = y
    <2>1. x[1] + d = y[1] + d /\ x[2] = y[2]
        BY <1>2
    <2>0. x[1] \in Nat /\ y[1] \in Nat
        BY <1>1
    <2>2. x[1] = y[1]
        BY <2>0, <2>1
    <2> HIDE DEF f
    <2> QED BY <1>1, <2>1, <2>2
<1>3. f \in Injection(Units(t), Units(s))
    <2>1. f \in [Units(t) -> Units(s)]
        BY <1>1
    <2> HIDE DEF f
    <2> QED BY <1>2, <2>1 DEF Injection, IsInjective
<1> HIDE DEF f
<1> QED BY <1>3, UnitsAreFinite, FS_Injection DEF Tokens

LEMMA EmptyWindow == Tokens(<<>>) = 0
<1>1. Units(<<>>) = {}
    BY DEF Units
<1> QED BY <1>1, FS_EmptySet DEF Tokens

\* One admission adds its tokens.
LEMMA OneAdmission ==
    ASSUME NEW s \in Seq(Admissions), NEW e \in Admissions
    PROVE  /\ Append(s, e) \in Seq(Admissions)
           /\ Len(Append(s, e)) = Len(s) + 1
           /\ Tokens(Append(s, e)) <= Tokens(s) + e.tokens
<1> DEFINE t == Append(s, e)
           n == Len(s) + 1
           New == {n} \X (1 .. e.tokens)
<1>1. /\ t \in Seq(Admissions) /\ Len(t) = n /\ n \in Nat /\ t[n] = e
      /\ \A i \in DOMAIN s : t[i] = s[i]
      /\ DOMAIN t = DOMAIN s \cup {n}
    BY AppendProperties
<1>2. e.tokens \in Nat
    BY SizesAssumption DEF Admissions
<1> HIDE DEF t, n
<1>3. Units(t) \subseteq Units(s) \cup New
    <2> SUFFICES ASSUME NEW x \in Units(t), x \notin New PROVE x \in Units(s)
        OBVIOUS
    <2>1. PICK i \in DOMAIN t : \E k \in 1 .. t[i].tokens : x = <<i, k>>
        BY <1>1, UnitsMeaning
    <2>2. PICK k \in 1 .. t[i].tokens : x = <<i, k>>
        BY <2>1
    <2>3. i # n
        BY <1>1, <2>2
    <2>4. i \in DOMAIN s /\ t[i] = s[i]
        BY <1>1, <2>3
    <2> QED BY <2>2, <2>4, UnitsMeaning
<1>4. IsFiniteSet(New) /\ Cardinality(New) = e.tokens
    <2>1. IsFiniteSet({n}) /\ Cardinality({n}) = 1
        BY FS_Singleton
    <2>2. IsFiniteSet(1 .. e.tokens) /\ Cardinality(1 .. e.tokens) = e.tokens
        BY <1>2, UpTo
    <2>3. IsFiniteSet(New) /\ Cardinality(New) = 1 * e.tokens
        BY <2>1, <2>2, FS_Product
    <2> QED BY <1>2, <2>3
<1> HIDE DEF New
<1>5. /\ IsFiniteSet(Units(s) \cup New)
      /\ Cardinality(Units(s) \cup New)
             = Cardinality(Units(s)) + Cardinality(New) - Cardinality(Units(s) \cap New)
    BY <1>4, UnitsAreFinite, FS_Union
<1>6. Cardinality(Units(s) \cap New) \in Nat
    BY UnitsAreFinite, FS_Intersection, FS_CardinalityType
<1>7. Cardinality(Units(t)) <= Cardinality(Units(s) \cup New)
    BY <1>3, <1>5, FS_Subset
<1>8. Tokens(t) \in Nat /\ Tokens(s) \in Nat
    BY <1>1, UnitsAreFinite
<1>9. Tokens(t) <= Tokens(s) + e.tokens
    BY <1>2, <1>4, <1>5, <1>6, <1>7, <1>8 DEF Tokens
<1> QED BY <1>1, <1>9 DEF t, n

-----------------------------------------------------------------------------
(* The rate limiter: what leaves the window.                                *)

\* t is s without its first d places.
ShortBy(t, s, d) ==
    /\ t \in Seq(Admissions)
    /\ Len(t) = Len(s) - d
    /\ \A i \in 1 .. Len(t) : t[i] = s[i + d]

\* A nonempty set of places has a first one.
LEMMA FirstPlace ==
    ASSUME NEW S \in SUBSET Nat, S # {}
    PROVE  \E n \in S : \A k \in S : n <= k
<1> DEFINE Below == {pair \in Nat \X Nat : pair[1] < pair[2]}
<1>1. PICK x \in S : \A y \in S : <<y, x>> \notin Below
    <2>1. IsWellFoundedOn(Below, Nat)
        BY NatLessThanWellFounded DEF OpToRel
    <2> HIDE DEF Below
    <2> QED BY <2>1, WFMin
<1>2. ASSUME NEW y \in S PROVE x <= y
    <2>1. x \in Nat /\ y \in Nat /\ ~(y < x)
        BY <1>1
    <2> QED BY <2>1
<1> QED BY <1>2

\* The queue from the first kept place on: the places before it go.
LEMMA FromFacts ==
    ASSUME NEW s \in Seq(Admissions), NEW kept \in SUBSET DOMAIN s
    PROVE  /\ kept = DOMAIN s => From(s, kept) = s
           /\ \E d \in 0 .. Len(s) :
                 /\ ShortBy(From(s, kept), s, d)
                 /\ d < Len(s) => d + 1 \in kept
<1>0. Len(s) \in Nat /\ DOMAIN s = 1 .. Len(s)
    OBVIOUS
<1>1. CASE kept = {}
    <2>1. From(s, kept) = <<>>
        BY <1>1 DEF From
    <2>2. ASSUME kept = DOMAIN s PROVE s = <<>>
        <3>1. 1 \notin 1 .. Len(s)
            BY <1>0, <1>1, <2>2
        <3>2. Len(s) = 0
            BY <1>0, <3>1
        <3> QED BY <3>2, EmptySeq
    <2>3. Len(s) \in 0 .. Len(s) /\ ~(Len(s) < Len(s)) /\ Len(s) - Len(s) = 0
        BY <1>0
    <2>4. ShortBy(<<>>, s, Len(s))
        BY <2>3 DEF ShortBy
    <2> QED BY <2>1, <2>2, <2>3, <2>4
<1>2. CASE kept # {} /\ 1 \in kept
    <2>1. From(s, kept) = s
        BY <1>2 DEF From
    <2>2. ShortBy(s, s, 0)
        BY <1>0 DEF ShortBy
    <2>3. 0 \in 0 .. Len(s) /\ 0 + 1 \in kept
        BY <1>0, <1>2
    <2> QED BY <2>1, <2>2, <2>3
<1>3. CASE kept # {} /\ 1 \notin kept
    <2> DEFINE first == CHOOSE n \in kept : \A k \in kept : n <= k
    <2>1. kept \in SUBSET Nat
        BY <1>0
    <2>2. first \in kept
        BY <1>3, <2>1, FirstPlace
    <2>3. From(s, kept) = SubSeq(s, first, Len(s))
        BY <1>3 DEF From
    <2> HIDE DEF first
    <2>4. first \in 1 .. Len(s)
        BY <1>0, <2>2
    <2>5. kept # DOMAIN s
        BY <1>0, <1>3, <2>4
    <2> DEFINE t == SubSeq(s, first, Len(s))
               d == first - 1
    <2>6. /\ t \in Seq(Admissions)
          /\ Len(t) = IF first <= Len(s) THEN Len(s) - first + 1 ELSE 0
          /\ \A i \in 1 .. Len(s) - first + 1 : t[i] = s[first + i - 1]
        BY <1>0, <2>4, SubSeqProperties
    <2> HIDE DEF t
    <2>7. /\ Len(t) = Len(s) - d /\ Len(s) - first + 1 = Len(s) - d
          /\ d \in 0 .. Len(s) /\ d + 1 = first
        BY <1>0, <2>4, <2>6
    <2>8. ASSUME NEW i \in 1 .. Len(t) PROVE t[i] = s[i + d]
        <3>1. first + i - 1 = i + d
            BY <1>0, <2>4, <2>7
        <3> QED BY <2>6, <2>7, <3>1
    <2>9. ShortBy(t, s, d)
        BY <2>6, <2>7, <2>8 DEF ShortBy
    <2> QED BY <2>2, <2>3, <2>5, <2>7, <2>9 DEF t
<1> QED BY <1>1, <1>2, <1>3

\* The oldest come first.
Ordered(s) == \A i, j \in DOMAIN s : i <= j => s[j].age <= s[i].age

\* Nothing in the window is forgotten by a pass.
LEMMA PruneKeeps ==
    ASSUME NEW s \in Seq(Admissions)
    PROVE  Prune(s) = s
<1>1. ASSUME NEW i \in DOMAIN s PROVE InWindow(s[i])
    <2>1. s[i] \in Admissions
        OBVIOUS
    <2> QED BY <2>1, WindowAssumption DEF Admissions, InWindow
<1>2. {i \in DOMAIN s : InWindow(s[i])} = DOMAIN s
    BY <1>1
<1> QED BY <1>2, FromFacts DEF Prune

LEMMA AgedFacts ==
    ASSUME NEW s \in Seq(Admissions), Ordered(s), \A i \in DOMAIN s : s[i].age < Window
    PROVE  /\ Aged(s) \in Seq(Admissions) /\ Ordered(Aged(s))
           /\ Len(Aged(s)) = Len(s) /\ Tokens(Aged(s)) <= Tokens(s)
<1>0. Len(s) \in Nat /\ DOMAIN s = 1 .. Len(s)
    OBVIOUS
<1>1. ASSUME NEW i \in DOMAIN s
      PROVE  /\ Aged(s)[i] = [age |-> s[i].age + 1, tokens |-> s[i].tokens]
             /\ Aged(s)[i] \in Admissions /\ s[i].age \in Nat
             /\ Aged(s)[i].age = s[i].age + 1
    <2>1. s[i] \in Admissions
        OBVIOUS
    <2>2. Aged(s)[i] = [s[i] EXCEPT !.age = @ + 1]
        BY DEF Aged
    <2> QED BY <2>1, <2>2, WindowAssumption DEF Admissions
<1>2. Aged(s) \in [1 .. Len(s) -> Admissions]
    BY <1>0, <1>1 DEF Aged
<1>3. Aged(s) \in Seq(Admissions) /\ Len(Aged(s)) = Len(s) /\ DOMAIN Aged(s) = DOMAIN s
    BY <1>0, <1>2
<1>4. ASSUME NEW i \in DOMAIN s, NEW j \in DOMAIN s, i <= j
      PROVE  Aged(s)[j].age <= Aged(s)[i].age
    <2>1. s[j].age <= s[i].age /\ s[i].age \in Nat /\ s[j].age \in Nat
        BY <1>1, <1>4 DEF Ordered
    <2>2. Aged(s)[j].age = s[j].age + 1 /\ Aged(s)[i].age = s[i].age + 1
        BY <1>1
    <2> QED BY <2>1, <2>2
<1>5. Ordered(Aged(s))
    BY <1>3, <1>4 DEF Ordered
<1>6. ASSUME NEW i \in DOMAIN Aged(s)
      PROVE  i + 0 \in DOMAIN s /\ Aged(s)[i].tokens = s[i + 0].tokens
    BY <1>0, <1>1, <1>3
<1>7. Tokens(Aged(s)) <= Tokens(s)
    BY <1>3, <1>6, FewerTokens
<1> QED BY <1>3, <1>5, <1>7

\* A tick takes admissions out of the window and adds none.
LEMMA OlderFacts ==
    ASSUME NEW s \in Seq(Admissions), Ordered(s)
    PROVE  /\ Older(s) \in Seq(Admissions) /\ Ordered(Older(s))
           /\ Len(Older(s)) <= Len(s) /\ Tokens(Older(s)) <= Tokens(s)
<1> DEFINE kept == {i \in DOMAIN s : s[i].age < Window}
           t == From(s, kept)
<1>0. Len(s) \in Nat /\ DOMAIN s = 1 .. Len(s)
    OBVIOUS
<1>1. PICK d \in 0 .. Len(s) : ShortBy(t, s, d) /\ (d < Len(s) => d + 1 \in kept)
    <2>1. kept \in SUBSET DOMAIN s
        OBVIOUS
    <2> HIDE DEF kept
    <2> QED BY <2>1, FromFacts
<1>2. Older(s) = Aged(t)
    BY DEF Older
<1> HIDE DEF t
<1>3. /\ t \in Seq(Admissions) /\ Len(t) = Len(s) - d /\ DOMAIN t = 1 .. Len(t)
      /\ \A i \in DOMAIN t : i + d \in DOMAIN s /\ t[i] = s[i + d]
    <2>1. /\ t \in Seq(Admissions) /\ Len(t) = Len(s) - d
          /\ \A i \in 1 .. Len(t) : t[i] = s[i + d]
        BY <1>1 DEF ShortBy
    <2>2. DOMAIN t = 1 .. Len(t)
        BY <2>1
    <2>3. \A i \in 1 .. Len(t) : i + d \in DOMAIN s
        BY <1>0, <2>1
    <2> QED BY <2>1, <2>2, <2>3
<1>4. ASSUME NEW i \in DOMAIN t PROVE t[i].age < Window
    <2>1. d + 1 \in DOMAIN s /\ s[d + 1].age < Window
        BY <1>0, <1>1, <1>3
    <2>2. i + d \in DOMAIN s /\ d + 1 <= i + d
        BY <1>0, <1>3
    <2>3. s[i + d].age <= s[d + 1].age
        BY <2>1, <2>2 DEF Ordered
    <2>4. s[i + d] \in Admissions /\ s[d + 1] \in Admissions
        BY <2>1, <2>2
    <2>5. s[i + d].age \in Nat /\ s[d + 1].age \in Nat /\ Window \in Nat
        BY <2>4, WindowAssumption DEF Admissions
    <2> QED BY <1>3, <2>1, <2>3, <2>5
<1>5. Ordered(t)
    <2> SUFFICES ASSUME NEW i \in DOMAIN t, NEW j \in DOMAIN t, i <= j
                 PROVE  t[j].age <= t[i].age
        BY DEF Ordered
    <2>1. i + d \in DOMAIN s /\ j + d \in DOMAIN s /\ i + d <= j + d
        BY <1>0, <1>3
    <2>2. s[j + d].age <= s[i + d].age
        BY <2>1 DEF Ordered
    <2> QED BY <1>3, <2>2
<1>6. Tokens(t) <= Tokens(s) /\ Len(t) <= Len(s)
    <2>1. d \in Nat
        BY <1>0
    <2>2. Tokens(t) <= Tokens(s)
        BY <1>3, <2>1, FewerTokens
    <2> QED BY <1>0, <1>3, <2>2
<1>7. /\ Aged(t) \in Seq(Admissions) /\ Ordered(Aged(t))
      /\ Len(Aged(t)) = Len(t) /\ Tokens(Aged(t)) <= Tokens(t)
    BY <1>3, <1>4, <1>5, AgedFacts
<1>8. Tokens(Aged(t)) \in Nat /\ Tokens(t) \in Nat /\ Tokens(s) \in Nat
    BY <1>3, <1>7, UnitsAreFinite
<1> QED BY <1>0, <1>2, <1>3, <1>6, <1>7, <1>8

-----------------------------------------------------------------------------
(* Its invariant: what the limiter remembers is the last window, oldest      *)
(* first, and within the limits; a call that waits has asked for something. *)

CallType ==
    [at : {"away", "waiting"} \cup Sent, size : Sizes \cup {0}, waited : 0 .. MaxWait + 1,
     nap : 0 .. Window, via : Limiters, tries : 0 .. adapter.attempts, plain : BOOLEAN]

\* A queue of admissions that keeps the limits.
WithinLimits(s) == s \in Seq(Admissions) /\ Ordered(s) /\ Len(s) <= Rpm /\ Tokens(s) <= Tpm

WindowInv ==
    /\ limiter \in Limiters /\ adapter \in Adapters /\ learned \subseteq Limiters
    /\ events \in [Limiters -> Seq(Admissions)]
    /\ recent = events
    /\ \A g \in Limiters : WithinLimits(events[g])

\* What is so of a call in flight.
CallOK(k) ==
    /\ k \in CallType
    /\ k.at = "waiting" => k.size \in Sizes
    /\ (k.at = "waiting" /\ k.nap > 0) => k.waited + k.nap <= MaxWait + 1
    /\ k.plain => k.via \in learned

CallInv == call \in [Calls -> CallType] /\ \A c \in Calls : CallOK(call[c])

LimiterInv == WindowInv /\ CallInv

LEMMA LimiterInvMeaning == LimiterInv => LimiterOK
<1> SUFFICES ASSUME LimiterInv PROVE LimiterOK
    OBVIOUS
<1>1. LimiterTypeOK
    BY DEF LimiterInv, WindowInv, CallInv, CallType, LimiterTypeOK
<1>2. RateHolds
    BY DEF LimiterInv, WindowInv, WithinLimits, RateHolds
<1>3. NobodyOversleeps /\ RejectionsAreLearned
    BY DEF LimiterInv, CallInv, CallOK, NobodyOversleeps, RejectionsAreLearned
<1> QED BY <1>1, <1>2, <1>3 DEF LimiterOK

LEMMA NumbersAreNatural ==
    /\ Window \in Nat /\ Window > 0 /\ MaxWait \in Nat /\ MaxBuilds \in Nat /\ MaxBuilds > 0
    /\ Rpm \in Nat /\ Rpm > 0 /\ Tpm \in Nat
    /\ Limiters \subseteq Nat /\ 1 \in Limiters
BY WindowAssumption, MaxBuildsAssumption, RpmAssumption, TpmAssumption DEF Limiters

LEMMA AttemptsAreNatural ==
    ASSUME adapter \in Adapters
    PROVE  adapter.attempts \in Nat /\ adapter.attempts > 0
BY DEF Adapters, OpenAI, Anthropic, Google, Xai, Local

\* A call that is away, or has just been sent.
LEMMA FreshCalls ==
    ASSUME adapter \in Adapters
    PROVE  /\ CallOK(Away)
           /\ \A how \in Sent, g \in Limiters :
                 CallOK([Away EXCEPT !.at = how, !.via = g, !.tries = 1, !.plain = g \in learned])
<1>1. Away \in CallType
    BY NumbersAreNatural, AttemptsAreNatural DEF Away, CallType
<1>2. CallOK(Away)
    BY <1>1 DEF CallOK, Away
<1>3. ASSUME NEW how \in Sent, NEW g \in Limiters
      PROVE  CallOK([Away EXCEPT !.at = how, !.via = g, !.tries = 1, !.plain = g \in learned])
    <2> DEFINE k == [Away EXCEPT !.at = how, !.via = g, !.tries = 1, !.plain = g \in learned]
    <2>1. 1 \in 0 .. adapter.attempts
        BY AttemptsAreNatural
    <2>2. (g \in learned) \in BOOLEAN
        OBVIOUS
    <2>3. k \in CallType
        BY <1>1, <2>1, <2>2 DEF CallType
    <2>4. k.plain = (g \in learned)
        BY DEF Away
    <2>7. k.at = how /\ k.via = g
        BY DEF Away
    <2>5. how # "waiting"
        BY DEF Sent
    <2> HIDE DEF k
    <2>6. k.plain => g \in learned
        <3>1. CASE g \in learned
            BY <3>1
        <3>2. CASE g \notin learned
            BY <2>4, <3>2
        <3> QED BY <3>1, <3>2
    <2>8. k.plain => k.via \in learned
        BY <2>6, <2>7
    <2>9. k.at # "waiting"
        BY <2>5, <2>7
    <2>10. CallOK(k)
        BY <2>3, <2>8, <2>9 DEF CallOK
    <2> QED BY <2>10 DEF k
<1> QED BY <1>2, <1>3

LEMMA WaitFacts ==
    ASSUME NEW s \in Seq(Admissions)
    PROVE  /\ NextWait(s) \in 0 .. Window /\ Nap(s) \in 1 .. Window
           /\ Nap(s) = NextWait(s) \/ (NextWait(s) = 0 /\ Nap(s) = 1)
<1>1. s # <<>> => Head(s) \in Admissions
    OBVIOUS
<1>2. NextWait(s) \in 0 .. Window
    BY <1>1, NumbersAreNatural DEF NextWait, Admissions
<1> QED BY <1>2, NumbersAreNatural DEF Nap

\* What changes one call only.
LEMMA OneCall ==
    ASSUME CallInv, NEW c \in Calls, NEW k, CallOK(k), call' = [call EXCEPT ![c] = k],
           adapter' = adapter, learned \subseteq learned'
    PROVE  CallInv'
<1>1. k \in CallType /\ CallType' = CallType
    BY DEF CallOK, CallType
<1>2. call' \in [Calls -> CallType]
    BY <1>1 DEF CallInv
<1>3. ASSUME NEW d \in Calls PROVE CallOK(call[d])'
    <2> DEFINE x == call'[d]
    <2>1. x = IF d = c THEN k ELSE call[d]
        BY DEF CallInv
    <2>2. CallOK(x)
        BY <2>1 DEF CallInv
    <2> HIDE DEF x
    <2>3. /\ x \in CallType' /\ (x.at = "waiting" => x.size \in Sizes)
          /\ (x.at = "waiting" /\ x.nap > 0) => x.waited + x.nap <= MaxWait + 1
          /\ x.plain => x.via \in learned'
        BY <1>1, <2>2 DEF CallOK
    <2> QED BY <2>3 DEF CallOK, x
<1> QED BY <1>1, <1>2, <1>3 DEF CallInv

-----------------------------------------------------------------------------
(* One pass through the limiter. *)

LEMMA PassStep ==
    ASSUME LimiterInv, NEW c \in Calls, NEW asked, CallOK(asked), asked.size \in Sizes,
           Pass(c, asked), UNCHANGED <<adapter, learned, limiter>>
    PROVE  LimiterInv'
<1> DEFINE g == asked.via
           kept == Prune(events[g])
<1>1. asked \in CallType /\ g \in Limiters /\ asked.waited \in 0 .. MaxWait + 1
    BY DEF CallOK, CallType
<1>2. /\ events \in [Limiters -> Seq(Admissions)] /\ recent = events /\ WithinLimits(events[g])
      /\ events[g] \in Seq(Admissions)
    BY <1>1 DEF LimiterInv, WindowInv
<1>3. kept = events[g]
    BY <1>2, PruneKeeps
<1>4. CASE HasRoom(kept, asked.size)
    <2> DEFINE event == [age |-> 0, tokens |-> asked.size]
               q == Append(events[g], event)
    <2>1. Admit(c, asked, g)
        BY <1>4 DEF Pass
    <2>2. event \in Admissions /\ event.age = 0 /\ event.tokens = asked.size
        BY NumbersAreNatural DEF Admissions
    <2>3. events' = [events EXCEPT ![g] = q] /\ recent' = [recent EXCEPT ![g] = q]
        BY <1>1, <1>2, <1>3, <2>1 DEF Admit
    <2>4. PICK how \in Sent : call' = [call EXCEPT ![c] =
              [Away EXCEPT !.at = how, !.via = g, !.tries = 1, !.plain = g \in learned]]
        BY <2>1 DEF Admit
    <2> HIDE DEF event
    <2>5. /\ q \in Seq(Admissions) /\ Len(q) = Len(events[g]) + 1
          /\ Tokens(q) <= Tokens(events[g]) + event.tokens
        BY <1>2, <2>2, OneAdmission
    <2>6. Len(q) <= Rpm
        BY <1>3, <1>4, <2>5, NumbersAreNatural DEF HasRoom
    <2>7. Tokens(q) <= Tpm
        <3>1. Tokens(events[g]) + asked.size <= Tpm
            BY <1>3, <1>4 DEF HasRoom
        <3>2. Tokens(q) \in Nat /\ Tokens(events[g]) \in Nat /\ asked.size \in Nat
            BY <1>2, <2>5, UnitsAreFinite, SizesAssumption
        <3> QED BY <2>2, <2>5, <3>1, <3>2, NumbersAreNatural
    <2>8. Ordered(q)
        <3> SUFFICES ASSUME NEW i \in DOMAIN q, NEW j \in DOMAIN q, i <= j
                     PROVE  q[j].age <= q[i].age
            BY DEF Ordered
        <3> DEFINE n == Len(events[g])
        <3>1. /\ n \in Nat /\ DOMAIN q = 1 .. n + 1 /\ q[n + 1] = event
              /\ \A x \in 1 .. n : q[x] = events[g][x] /\ x \in DOMAIN events[g]
            BY <1>2, <2>2, AppendProperties
        <3>2. q[i] \in Admissions /\ q[j] \in Admissions
            BY <2>5
        <3>3. q[i].age \in Nat /\ q[j].age \in Nat
            BY <3>2, NumbersAreNatural DEF Admissions
        <3>4. CASE j = n + 1
            BY <2>2, <3>1, <3>3, <3>4
        <3>5. CASE j # n + 1
            <4>1. i \in 1 .. n /\ j \in 1 .. n
                BY <3>1, <3>5
            <4> QED BY <1>2, <3>1, <4>1 DEF WithinLimits, Ordered
        <3> QED BY <3>4, <3>5
    <2> HIDE DEF q
    <2>9. WithinLimits(q)
        BY <2>5, <2>6, <2>7, <2>8 DEF WithinLimits
    <2>10. WindowInv'
        <3>1. events' \in [Limiters -> Seq(Admissions)] /\ recent' = events'
            BY <1>1, <1>2, <2>3, <2>5
        <3>2. ASSUME NEW h \in Limiters PROVE WithinLimits(events'[h])
            BY <1>1, <1>2, <2>3, <2>9 DEF LimiterInv, WindowInv
        <3> QED BY <3>1, <3>2 DEF LimiterInv, WindowInv, WithinLimits
    <2>11. CallOK([Away EXCEPT !.at = how, !.via = g, !.tries = 1, !.plain = g \in learned])
        BY <1>1, FreshCalls DEF LimiterInv, WindowInv
    <2>12. CallInv'
        BY <2>4, <2>11, OneCall DEF LimiterInv
    <2> QED BY <2>10, <2>12 DEF LimiterInv
<1>5. CASE ~HasRoom(kept, asked.size)
    <2> DEFINE k == IF Patient(asked.waited, kept)
                    THEN [asked EXCEPT !.at = "waiting", !.nap = Nap(kept)]
                    ELSE Away
    <2>1. /\ events' = [events EXCEPT ![g] = kept] /\ recent' = recent
          /\ call' = [call EXCEPT ![c] = k]
        BY <1>5 DEF Pass
    <2>2. events' = events
        BY <1>1, <1>2, <1>3, <2>1
    <2>3. WindowInv'
        BY <2>1, <2>2 DEF LimiterInv, WindowInv, WithinLimits
    <2>4. CASE ~Patient(asked.waited, kept)
        <3>1. call' = [call EXCEPT ![c] = Away]
            BY <2>1, <2>4
        <3>2. CallOK(Away)
            BY FreshCalls DEF LimiterInv, WindowInv
        <3>3. CallInv'
            BY <3>1, <3>2, OneCall DEF LimiterInv
        <3> QED BY <2>3, <3>3 DEF LimiterInv
    <2>5. CASE Patient(asked.waited, kept)
        <3> DEFINE w == [asked EXCEPT !.at = "waiting", !.nap = Nap(kept)]
        <3>1. /\ NextWait(kept) \in 0 .. Window /\ Nap(kept) \in 1 .. Window
              /\ Nap(kept) = NextWait(kept) \/ (NextWait(kept) = 0 /\ Nap(kept) = 1)
            BY <1>2, <1>3, WaitFacts
        <3>2. w \in CallType /\ w.size = asked.size /\ w.waited = asked.waited
              /\ w.nap = Nap(kept) /\ w.plain = asked.plain /\ w.via = asked.via
            <4>1. Nap(kept) \in 0 .. Window
                BY <3>1
            <4> HIDE DEF kept
            <4> QED BY <1>1, <4>1 DEF CallType
        <3>3. asked.waited + Nap(kept) <= MaxWait + 1
            <4>1. asked.waited + NextWait(kept) <= MaxWait
                BY <2>5 DEF Patient
            <4> HIDE DEF kept
            <4> QED BY <1>1, <3>1, <4>1, NumbersAreNatural
        <3> HIDE DEF kept, w
        <3>4. CallOK(w)
            BY <3>2, <3>3 DEF CallOK
        <3>5. call' = [call EXCEPT ![c] = w]
            BY <2>1, <2>5 DEF w
        <3>6. CallInv'
            BY <3>4, <3>5, OneCall DEF LimiterInv
        <3> QED BY <2>3, <3>6 DEF LimiterInv
    <2> QED BY <2>4, <2>5
<1> QED BY <1>4, <1>5

-----------------------------------------------------------------------------
(* The other steps. *)

LEMMA StartStep ==
    ASSUME LimiterInv, NEW c \in Calls, Start(c)
    PROVE  LimiterInv'
<1>1. PICK size \in Sizes : Pass(c, [Away EXCEPT !.size = size, !.via = limiter])
    BY DEF Start
<1> DEFINE asked == [Away EXCEPT !.size = size, !.via = limiter]
<1>2. asked.size = size /\ asked.at = "away" /\ asked.plain = FALSE
    BY DEF Away
<1>3. asked \in CallType
    <2>1. Away \in CallType /\ limiter \in Limiters
        BY FreshCalls DEF CallOK, LimiterInv, WindowInv
    <2> QED BY <2>1 DEF CallType
<1>4. UNCHANGED <<adapter, learned, limiter>>
    BY DEF Start
<1> HIDE DEF asked
<1>5. CallOK(asked)
    BY <1>2, <1>3 DEF CallOK
<1>6. Pass(c, asked)
    BY <1>1 DEF asked
<1> QED BY <1>2, <1>4, <1>5, <1>6, PassStep

LEMMA WakeStep ==
    ASSUME LimiterInv, NEW c \in Calls, Wake(c)
    PROVE  LimiterInv'
<1>1. CallOK(call[c]) /\ call[c].size \in Sizes
    BY DEF LimiterInv, CallInv, CallOK, Wake
<1> QED BY <1>1, PassStep DEF Wake

LEMMA RetriedOK ==
    ASSUME adapter \in Adapters, NEW k, CallOK(k), k.at # "waiting"
    PROVE  CallOK(Retried(k))
<1>1. CASE k.tries < adapter.attempts
    <2> DEFINE r == [k EXCEPT !.tries = @ + 1]
    <2>1. Retried(k) = r
        BY <1>1 DEF Retried
    <2>2. k.tries + 1 \in 0 .. adapter.attempts
        BY <1>1, AttemptsAreNatural DEF CallOK, CallType
    <2>3. r \in CallType /\ r.at = k.at /\ r.plain = k.plain /\ r.via = k.via
        BY <2>2 DEF CallOK, CallType
    <2> HIDE DEF r
    <2> QED BY <2>1, <2>3 DEF CallOK
<1>2. CASE ~(k.tries < adapter.attempts)
    BY <1>2, FreshCalls DEF Retried
<1> QED BY <1>1, <1>2

LEMMA AttemptStep ==
    ASSUME LimiterInv, NEW c \in Calls, AttemptEnds(c)
    PROVE  LimiterInv'
<1> DEFINE k == call[c]
<1>0. adapter \in Adapters /\ CallOK(k) /\ k.at # "waiting" /\ k \in CallType
    BY DEF LimiterInv, WindowInv, CallInv, CallOK, AttemptEnds, Answered, Fails, Rejected, Sent
<1>1. CASE Answered(c)
    <2>1. CallInv'
        BY <1>0, <1>1, FreshCalls, OneCall DEF Answered, LimiterInv
    <2> QED BY <1>1, <2>1 DEF Answered, LimiterInv, WindowInv, WithinLimits
<1>2. CASE Fails(c)
    <2>1. PICK f \in Failures : call' = [call EXCEPT ![c] =
              IF f \in adapter.retries /\ @.at = "complete" THEN Retried(@) ELSE Away]
        BY <1>2 DEF Fails
    <2> DEFINE r == IF f \in adapter.retries /\ k.at = "complete" THEN Retried(k) ELSE Away
    <2>2. call' = [call EXCEPT ![c] = r]
        BY <2>1 DEF LimiterInv, CallInv
    <2>3. CallOK(r)
        BY <1>0, RetriedOK, FreshCalls
    <2> HIDE DEF r
    <2>4. CallInv'
        BY <1>2, <2>2, <2>3, OneCall DEF Fails, LimiterInv
    <2> QED BY <1>2, <2>4 DEF Fails, LimiterInv, WindowInv, WithinLimits
<1>3. CASE Rejected(c)
    <2> DEFINE without == [k EXCEPT !.plain = TRUE]
               r == IF k.at = "stream" THEN without ELSE Retried(without)
    <2>1. /\ learned' = learned \cup {k.via} /\ adapter' = adapter
          /\ limiter' = limiter /\ events' = events /\ recent' = recent
        BY <1>3 DEF Rejected
    <2>2. call' = [call EXCEPT ![c] = r]
        BY <1>3 DEF Rejected, LimiterInv, CallInv
    <2>3. without \in CallType /\ without.via = k.via /\ without.at = k.at
        BY <1>0 DEF CallType
    <2>4. r \in CallType /\ r.at # "waiting" /\ (r = Away \/ r.via = k.via)
        <3> HIDE DEF without
        <3>1. CASE k.at = "stream"
            BY <1>0, <2>3, <3>1
        <3>2. CASE k.at # "stream" /\ without.tries < adapter.attempts
            <4>1. without.tries + 1 \in 0 .. adapter.attempts
                BY <1>0, <2>3, <3>2, AttemptsAreNatural DEF CallType
            <4>2. r = [without EXCEPT !.tries = @ + 1]
                BY <3>2 DEF Retried
            <4> QED BY <1>0, <2>3, <4>1, <4>2 DEF CallType
        <3>3. CASE k.at # "stream" /\ ~(without.tries < adapter.attempts)
            <4>1. r = Away /\ Away.at = "away" /\ CallOK(Away)
                BY <1>0, <3>3, FreshCalls DEF Retried, Away
            <4> QED BY <4>1 DEF CallOK
        <3> QED BY <3>1, <3>2, <3>3
    <2> HIDE DEF r, without
    <2>5. WindowInv'
        <3>1. k.via \in Limiters
            BY <1>0 DEF CallType
        <3> QED BY <2>1, <3>1 DEF LimiterInv, WindowInv, WithinLimits
    <2>6. ASSUME NEW d \in Calls PROVE CallOK(call[d])'
        <3>0. CallType' = CallType
            BY <2>1 DEF CallType
        <3> DEFINE x == call'[d]
        <3>1. x = IF d = c THEN r ELSE call[d]
            BY <2>2 DEF LimiterInv, CallInv
        <3> HIDE DEF x
        <3>2. /\ x \in CallType /\ (x.at = "waiting" => x.size \in Sizes)
              /\ (x.at = "waiting" /\ x.nap > 0) => x.waited + x.nap <= MaxWait + 1
            BY <2>4, <3>1 DEF LimiterInv, CallInv, CallOK
        <3>3. x.plain => x.via \in learned'
            <4>1. CASE d = c
                BY <2>1, <2>4, <3>1, <4>1 DEF Away
            <4>2. CASE d # c
                BY <2>1, <3>1, <4>2 DEF LimiterInv, CallInv, CallOK
            <4> QED BY <4>1, <4>2
        <3> QED BY <3>0, <3>2, <3>3 DEF CallOK, x
    <2>7. call' \in [Calls -> CallType']
        <3>1. CallType' = CallType
            BY <2>1 DEF CallType
        <3> QED BY <2>2, <2>4, <3>1 DEF LimiterInv, CallInv
    <2> QED BY <2>5, <2>6, <2>7 DEF LimiterInv, CallInv
<1> QED BY <1>1, <1>2, <1>3 DEF AttemptEnds

LEMMA TickStep ==
    ASSUME LimiterInv, Tick
    PROVE  LimiterInv'
<1>1. /\ events' = [g \in Limiters |-> Older(events[g])]
      /\ recent' = [g \in Limiters |-> Older(recent[g])]
      /\ call' = [c \in Calls |->
            IF call[c].at = "waiting"
              THEN [call[c] EXCEPT !.nap = IF @ = 0 THEN 0 ELSE @ - 1,
                                   !.waited = IF @ > MaxWait THEN @ ELSE @ + 1]
              ELSE call[c]]
      /\ adapter' = adapter /\ learned' = learned /\ limiter' = limiter
    BY DEF Tick
<1>2. ASSUME NEW g \in Limiters PROVE WithinLimits(events'[g])
    <2> DEFINE s == events[g]
    <2>1. s \in Seq(Admissions) /\ Ordered(s) /\ Len(s) <= Rpm /\ Tokens(s) <= Tpm
        BY DEF LimiterInv, WindowInv, WithinLimits
    <2>2. events'[g] = Older(s)
        BY <1>1
    <2> HIDE DEF s
    <2>3. /\ Older(s) \in Seq(Admissions) /\ Ordered(Older(s))
          /\ Len(Older(s)) <= Len(s) /\ Tokens(Older(s)) <= Tokens(s)
        BY <2>1, OlderFacts
    <2>4. /\ Tokens(s) \in Nat /\ Tokens(Older(s)) \in Nat
          /\ Len(s) \in Nat /\ Len(Older(s)) \in Nat
        BY <2>1, <2>3, UnitsAreFinite
    <2> QED BY <2>1, <2>2, <2>3, <2>4, NumbersAreNatural DEF WithinLimits
<1>3. WindowInv'
    <2>1. recent' = events'
        BY <1>1 DEF LimiterInv, WindowInv
    <2>2. events' \in [Limiters -> Seq(Admissions)]
        BY <1>1, <1>2 DEF WithinLimits
    <2> QED BY <1>1, <1>2, <2>1, <2>2 DEF LimiterInv, WindowInv, WithinLimits
<1>4. ASSUME NEW c \in Calls PROVE CallOK(call[c])' /\ call'[c] \in CallType
    <2>0. CallType' = CallType
        BY <1>1 DEF CallType
    <2> DEFINE k == call[c]
               x == call'[c]
    <2>1. CallOK(k) /\ k \in CallType
        BY DEF LimiterInv, CallInv
    <2>2. CASE k.at # "waiting"
        <3>1. x = k
            BY <1>1, <2>2
        <3> HIDE DEF x, k
        <3> QED BY <1>1, <2>0, <2>1, <3>1 DEF CallOK, x
    <2>3. CASE k.at = "waiting"
        <3> DEFINE nap == IF k.nap = 0 THEN 0 ELSE k.nap - 1
                   waited == IF k.waited > MaxWait THEN k.waited ELSE k.waited + 1
        <3>1. x = [k EXCEPT !.nap = nap, !.waited = waited]
            BY <1>1, <2>3
        <3> HIDE DEF x, k
        <3>2. k.nap \in 0 .. Window /\ k.waited \in 0 .. MaxWait + 1
            BY <2>1 DEF CallType
        <3>3. /\ nap \in 0 .. Window /\ waited \in 0 .. MaxWait + 1
              /\ nap > 0 => k.nap > 0 /\ nap = k.nap - 1
              /\ waited <= k.waited + 1
            BY <3>2, NumbersAreNatural
        <3> HIDE DEF nap, waited
        <3>4. /\ x \in CallType /\ x.nap = nap /\ x.waited = waited
              /\ x.size = k.size /\ x.via = k.via /\ x.plain = k.plain
            BY <2>1, <3>1, <3>3 DEF CallType
        <3>5. k.nap > 0 => k.waited + k.nap <= MaxWait + 1
            BY <2>1, <2>3 DEF CallOK
        <3>6. nap > 0 => waited + nap <= MaxWait + 1
            BY <3>2, <3>3, <3>5, NumbersAreNatural
        <3>7. k.size \in Sizes /\ (k.plain => k.via \in learned)
            BY <2>1, <2>3 DEF CallOK
        <3>8. x.plain => x.via \in learned'
            BY <1>1, <3>4, <3>7
        <3>9. CallOK(call[c])'
            BY <2>0, <3>4, <3>6, <3>7, <3>8 DEF CallOK, x
        <3>10. call'[c] \in CallType
            BY <3>4 DEF x
        <3> QED BY <3>9, <3>10
    <2> QED BY <2>2, <2>3
<1>5. CallInv'
    <2>1. CallType' = CallType
        BY <1>1 DEF CallType
    <2>2. call' \in [Calls -> CallType]
        BY <1>1, <1>4
    <2> QED BY <1>4, <2>1, <2>2 DEF CallInv
<1> QED BY <1>3, <1>5 DEF LimiterInv

LEMMA LimiterInitInv == LimiterInit => LimiterInv
<1> SUFFICES ASSUME LimiterInit PROVE LimiterInv
    OBVIOUS
<1>1. WithinLimits(<<>>)
    <2>1. <<>> \in Seq(Admissions) /\ Len(<<>>) = 0 /\ DOMAIN <<>> = {}
        BY EmptySeq
    <2> QED BY <2>1, EmptyWindow, NumbersAreNatural DEF WithinLimits, Ordered
<1>2. WindowInv
    <2>1. events \in [Limiters -> Seq(Admissions)]
        BY <1>1 DEF LimiterInit, WithinLimits
    <2> QED BY <1>1, <2>1, NumbersAreNatural DEF LimiterInit, WindowInv
<1>3. CallOK(Away) /\ Away \in CallType
    BY <1>2, FreshCalls DEF WindowInv, CallOK
<1>4. CallInv
    BY <1>3 DEF LimiterInit, CallInv
<1> QED BY <1>2, <1>4 DEF LimiterInv

LEMMA LimiterNextInv == LimiterInv /\ [LimiterNext]_limiterVars => LimiterInv'
<1> SUFFICES ASSUME LimiterInv, [LimiterNext]_limiterVars PROVE LimiterInv'
    OBVIOUS
<1>1. CASE Tick
    BY <1>1, TickStep
<1>2. CASE NewLimiter
    BY <1>2 DEF NewLimiter, LimiterInv, WindowInv, CallInv, CallOK, CallType, WithinLimits
<1>3. ASSUME NEW c \in Calls, CallStep(c) PROVE LimiterInv'
    BY <1>3, StartStep, WakeStep, AttemptStep DEF CallStep
<1>4. CASE UNCHANGED limiterVars
    BY <1>4 DEF limiterVars, LimiterInv, WindowInv, CallInv, CallOK, CallType, WithinLimits
<1> QED BY <1>1, <1>2, <1>3, <1>4 DEF LimiterNext

\* However calls wait, overtake each other and are retried, and however often the
\* runtime is built again, no limiter admits more in a window than its limits of
\* requests and of tokens, no call sleeps more than a tick past its limit, and no
\* call meets a rejection that its adapter knew of (rate_limiter.py:31-55).
THEOREM LimitsHold == LimiterSpec => []LimiterOK
BY LimiterInitInv, LimiterNextInv, LimiterInvMeaning, PTL DEF LimiterSpec
=============================================================================
