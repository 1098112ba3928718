------------------------ MODULE ToolApprovalsProofs ------------------------
(***************************************************************************)
(* Theorems about ToolApprovals, for every number of requests, approvals,  *)
(* calls and providers.                                                    *)
(***************************************************************************)
EXTENDS ToolApprovals, TLAPS

-----------------------------------------------------------------------------
(* Type correctness.  That a request runs no more tools than its type says  *)
(* needs the count of the providers it has been through.                    *)

RoundsOf(r) == (IF r.retried THEN Providers ELSE 0) + (Providers - r.left)
               + (IF r.phase = "answering" THEN 1 ELSE 0)

RoundsInv == \A q \in Requests : req[q] # Idle => req[q].ran <= RoundsOf(req[q])

TypeInv == TypeOK /\ RoundsInv

\* A request as it is between two steps.
Sound(r) == r \in InFlight /\ r.ran <= RoundsOf(r)

LEMMA BegunSound ==
    ASSUME NEW token \in ApprovalIds \cup {NoToken}
    PROVE  Sound(Begun(token))
BY ConstantsAssumption DEF Sound, Begun, InFlight, RoundsOf

LEMMA AnswerDueSound ==
    ASSUME NEW r, Sound(r), r.phase = "proposing", NEW n \in 0..1
    PROVE  Sound(AnswerDue(r, n))
<1>1. /\ r.left \in 1..Providers /\ r.retried \in BOOLEAN /\ r.ran \in Nat
      /\ Providers \in Nat
      /\ r.ran <= (IF r.retried THEN Providers ELSE 0) + (Providers - r.left)
    BY ConstantsAssumption DEF Sound, InFlight, RoundsOf
<1>2. r.ran + n \in 0..(2 * Providers)
    BY <1>1
<1>3. /\ AnswerDue(r, n) \in InFlight
      /\ AnswerDue(r, n).left = r.left /\ AnswerDue(r, n).retried = r.retried
      /\ AnswerDue(r, n).ran = r.ran + n /\ AnswerDue(r, n).phase = "answering"
    BY <1>2 DEF AnswerDue, Sound, InFlight
<1> QED BY <1>1, <1>3 DEF Sound, RoundsOf

LEMMA NextProviderSound ==
    ASSUME NEW r, Sound(r), r.phase = "answering", r.left > 1
    PROVE  Sound(NextProvider(r))
<1>1. /\ r.left \in 1..Providers /\ r.retried \in BOOLEAN /\ r.ran \in Nat
      /\ Providers \in Nat
      /\ r.ran <= (IF r.retried THEN Providers ELSE 0) + (Providers - r.left) + 1
    BY ConstantsAssumption DEF Sound, InFlight, RoundsOf
<1>2. r.left - 1 \in 1..Providers
    BY <1>1
<1>3. /\ NextProvider(r) \in InFlight
      /\ NextProvider(r).left = r.left - 1 /\ NextProvider(r).retried = r.retried
      /\ NextProvider(r).ran = r.ran /\ NextProvider(r).phase = "proposing"
    BY <1>2 DEF NextProvider, Sound, InFlight
<1> QED BY <1>1, <1>3 DEF Sound, RoundsOf

LEMMA AskedOnceMoreSound ==
    ASSUME NEW r, Sound(r), r.phase = "answering", ~r.retried
    PROVE  Sound(AskedOnceMore(r))
<1>1. r.left \in 1..Providers /\ r.ran \in Nat /\ Providers \in Nat /\ Providers > 0
    BY ConstantsAssumption DEF Sound, InFlight
<1>2. r.ran <= Providers
    BY <1>1 DEF Sound, RoundsOf
<1> Providers \in 1..Providers
    BY <1>1
<1>3. /\ AskedOnceMore(r) \in InFlight
      /\ AskedOnceMore(r).left = Providers /\ AskedOnceMore(r).retried = TRUE
      /\ AskedOnceMore(r).ran = r.ran /\ AskedOnceMore(r).phase = "proposing"
    BY <1>1 DEF AskedOnceMore, Sound, InFlight
<1> QED BY <1>1, <1>2, <1>3 DEF Sound, RoundsOf

LEMMA InitTypeInv == Init => TypeInv
BY ConstantsAssumption DEF Init, TypeInv, TypeOK, RoundsInv, Statuses

LEMMA NextTypeInv == TypeInv /\ [Next]_vars => TypeInv'
<1> SUFFICES ASSUME TypeInv, [Next]_vars PROVE TypeInv'
    OBVIOUS
<1>0. /\ TypeOK /\ RoundsInv
      /\ \A q \in Requests : req[q] # Idle => Sound(req[q])
    BY DEF TypeInv, TypeOK, RoundsInv, Sound
\* All that a step has to show of the requests.
<1>1. ASSUME NEW q \in Requests, NEW r, Sound(r) \/ r = Idle, req' = [req EXCEPT ![q] = r]
      PROVE  req' \in [Requests -> InFlight \cup {Idle}] /\ RoundsInv'
    <2>1. req' \in [Requests -> InFlight \cup {Idle}]
        BY <1>0, <1>1 DEF TypeOK, Sound
    <2>2. \A p \in Requests : req'[p] = IF p = q THEN r ELSE req[p]
        BY <1>0, <1>1 DEF TypeOK
    <2>3. ASSUME NEW p \in Requests, req'[p] # Idle PROVE req'[p].ran <= RoundsOf(req'[p])
        BY <1>0, <1>1, <2>2, <2>3 DEF Sound
    <2> QED BY <2>1, <2>3 DEF RoundsInv, RoundsOf
<1>2. ASSUME NEW q \in Requests, Proposing(q), NEW n \in 0..1, Answers(q, n)
      PROVE  req' \in [Requests -> InFlight \cup {Idle}] /\ RoundsInv'
    BY <1>0, <1>1, <1>2, AnswerDueSound DEF Proposing, Answers
<1>3. ASSUME NEW q \in Requests, NEW token \in ApprovalIds \cup {NoToken}, Ask(q, token)
      PROVE  TypeInv'
    <2>1. req' \in [Requests -> InFlight \cup {Idle}] /\ RoundsInv'
        BY <1>1, <1>3, BegunSound DEF Ask
    <2> QED BY <1>0, <1>3, <2>1, ConstantsAssumption DEF Ask, TypeInv, TypeOK, history
<1>4. ASSUME NEW q \in Requests, ProposeNothing(q) PROVE TypeInv'
    <2>1. req' \in [Requests -> InFlight \cup {Idle}] /\ RoundsInv'
        BY <1>2, <1>4 DEF ProposeNothing
    <2> QED BY <1>0, <1>4, <2>1 DEF ProposeNothing, TypeInv, TypeOK, history
<1>5. ASSUME NEW q \in Requests, NEW call \in Calls, ProposeSafe(q, call) PROVE TypeInv'
    <2>1. req' \in [Requests -> InFlight \cup {Idle}] /\ RoundsInv'
        BY <1>2, <1>5 DEF ProposeSafe
    <2> QED BY <1>0, <1>5, <2>1 DEF ProposeSafe, TypeInv, TypeOK, history
<1>6. ASSUME NEW q \in Requests, NEW call \in Calls, NEW a \in ApprovalIds,
             ProposeForApproval(q, call, a)
      PROVE  TypeInv'
    <2>1. req' \in [Requests -> InFlight \cup {Idle}] /\ RoundsInv'
        BY <1>2, <1>6 DEF ProposeForApproval
    <2> QED BY <1>0, <1>6, <2>1 DEF ProposeForApproval, TypeInv, TypeOK, history, Statuses
<1>7. ASSUME NEW q \in Requests, NEW call \in Calls, ProposeUnapproved(q, call) PROVE TypeInv'
    <2>1. req' \in [Requests -> InFlight \cup {Idle}] /\ RoundsInv'
        BY <1>2, <1>7 DEF ProposeUnapproved
    <2> QED BY <1>0, <1>7, <2>1 DEF ProposeUnapproved, TypeInv, TypeOK, history
<1>8. ASSUME NEW q \in Requests, NEW call \in Calls, ProposeApproved(q, call) PROVE TypeInv'
    <2>1. req' \in [Requests -> InFlight \cup {Idle}] /\ RoundsInv'
        BY <1>2, <1>8 DEF ProposeApproved
    <2>2. req[q].token \in ApprovalIds /\ call \in Risky
        BY <1>0, <1>8 DEF ProposeApproved, Proposing, Sound, InFlight
    <2>3. status' \in [ApprovalIds -> Statuses]
        BY <1>0, <1>8 DEF ProposeApproved, Consumed, TypeOK, Statuses
    <2>4. uses' \in [ApprovalIds -> Nat]
        BY <1>0, <1>8 DEF ProposeApproved, TypeOK
    <2>5. executed' \subseteq [by: ApprovalIds, call: Risky]
        BY <1>0, <1>8, <2>2 DEF ProposeApproved, TypeOK
    <2> QED BY <1>0, <1>8, <2>1, <2>3, <2>4, <2>5 DEF ProposeApproved, TypeInv, TypeOK
<1>9. ASSUME NEW q \in Requests, FallBack(q) PROVE TypeInv'
    <2>1. req' \in [Requests -> InFlight \cup {Idle}] /\ RoundsInv'
        BY <1>0, <1>1, <1>9, NextProviderSound DEF FallBack, MayFallBack, Answering
    <2> QED BY <1>0, <1>9, <2>1 DEF FallBack, TypeInv, TypeOK, history
<1>10. ASSUME NEW q \in Requests, StrictRetry(q) PROVE TypeInv'
    <2>1. req' \in [Requests -> InFlight \cup {Idle}] /\ RoundsInv'
        BY <1>0, <1>1, <1>10, AskedOnceMoreSound DEF StrictRetry, Answering
    <2> QED BY <1>0, <1>10, <2>1 DEF StrictRetry, TypeInv, TypeOK, history
<1>11. ASSUME NEW q \in Requests, End(q) PROVE TypeInv'
    <2>1. req' \in [Requests -> InFlight \cup {Idle}] /\ RoundsInv'
        BY <1>1, <1>11 DEF End
    <2> QED BY <1>0, <1>11, <2>1 DEF End, TypeInv, TypeOK, history
<1>12. ASSUME NEW a \in ApprovalIds, Approve(a) PROVE TypeInv'
    BY <1>0, <1>12, ConstantsAssumption DEF Approve, Decide, TypeInv, TypeOK, RoundsInv, Statuses
<1>13. ASSUME NEW a \in ApprovalIds, Deny(a) PROVE TypeInv'
    BY <1>0, <1>13, ConstantsAssumption
    DEF Deny, Denied, Decide, TypeInv, TypeOK, RoundsInv, Statuses
<1>14. CASE Crash
    BY <1>0, <1>14, ConstantsAssumption DEF Crash, TypeInv, TypeOK, RoundsInv, Statuses, history
<1>15. CASE UNCHANGED vars
    BY <1>0, <1>15 DEF vars, TypeInv, TypeOK, RoundsInv, history
<1> QED
    BY <1>3, <1>4, <1>5, <1>6, <1>7, <1>8, <1>9, <1>10, <1>11, <1>12, <1>13, <1>14, <1>15
    DEF Next

\* Every variable keeps its type; in particular a request runs at most one tool
\* per provider and round, which is the only bound there is on them.
THEOREM ApprovalTypes == Spec => []TypeOK
<1>1. TypeInv => TypeOK
    BY DEF TypeInv
<1> QED BY <1>1, InitTypeInv, NextTypeInv, PTL DEF Spec

-----------------------------------------------------------------------------
(* Approvals.  What a record still allows, an approved one once, counts     *)
(* together with what it has already allowed.                               *)

Allows(a) == IF status[a] = "approved" THEN 1 ELSE 0

RecordInv == \A a \in ApprovalIds :
    /\ uses[a] + Allows(a) <= grants[a]
    /\ status[a] = "approved" => latest[a] = "approve"

LEMMA InitRecordInv == Init => RecordInv
BY DEF Init, RecordInv, Allows

LEMMA NextRecordInv == TypeOK /\ RecordInv /\ [Next]_vars => RecordInv'
<1> SUFFICES ASSUME TypeOK, RecordInv, [Next]_vars, NEW a \in ApprovalIds
             PROVE  /\ uses'[a] + Allows(a)' <= grants'[a]
                    /\ status'[a] = "approved" => latest'[a] = "approve"
    BY DEF RecordInv
<1> DEFINE Goal == /\ uses'[a] + Allows(a)' <= grants'[a]
                   /\ status'[a] = "approved" => latest'[a] = "approve"
<1>0. /\ uses[a] \in Nat /\ grants[a] \in Nat /\ uses[a] + Allows(a) <= grants[a]
      /\ status[a] = "approved" => latest[a] = "approve"
    BY DEF TypeOK, RecordInv
<1>1. ASSUME status'[a] = status[a] \/ status'[a] # "approved",
             uses'[a] = uses[a], grants'[a] = grants[a], latest'[a] = latest[a]
      PROVE  Goal
    BY <1>0, <1>1 DEF Allows
<1>2. ASSUME status' = status, UNCHANGED history PROVE Goal
    BY <1>1, <1>2 DEF history
<1>3. ASSUME NEW q \in Requests, NEW token, Ask(q, token) PROVE Goal
    BY <1>2, <1>3 DEF Ask
<1>4. ASSUME NEW q \in Requests, ProposeNothing(q) \/ FallBack(q) \/ StrictRetry(q) \/ End(q)
      PROVE  Goal
    BY <1>2, <1>4 DEF ProposeNothing, FallBack, StrictRetry, End
<1>5. ASSUME NEW q \in Requests, NEW call, ProposeSafe(q, call) \/ ProposeUnapproved(q, call)
      PROVE  Goal
    BY <1>2, <1>5 DEF ProposeSafe, ProposeUnapproved
<1>6. ASSUME NEW q \in Requests, NEW call, NEW b \in ApprovalIds, ProposeForApproval(q, call, b)
      PROVE  Goal
    BY <1>1, <1>6 DEF ProposeForApproval, history, TypeOK
<1>7. ASSUME NEW q \in Requests, NEW call, ProposeApproved(q, call) PROVE Goal
    <2>1. latest'[a] = latest[a] /\ grants'[a] = grants[a]
        BY <1>7 DEF ProposeApproved
    <2>2. CASE req[q].token = a
        <3>1. status[a] = "approved" /\ status'[a] = "consumed"
            BY <1>7, <2>2 DEF ProposeApproved, MayConsume, Consumed, TypeOK
        <3>2. uses'[a] = uses[a] + 1 \/ uses'[a] = uses[a]
            BY <1>7, <2>2 DEF ProposeApproved, TypeOK
        <3> QED BY <1>0, <2>1, <3>1, <3>2 DEF Allows
    <2>3. CASE req[q].token # a
        <3>1. status'[a] = status[a] /\ uses'[a] = uses[a]
            BY <1>7, <2>3 DEF ProposeApproved, Consumed, TypeOK
        <3> QED BY <1>1, <2>1, <3>1
    <2> QED BY <2>2, <2>3
<1>8. ASSUME NEW b \in ApprovalIds, Approve(b) PROVE Goal
    <2>1. uses'[a] = uses[a]
        BY <1>8 DEF Approve, Decide
    <2>2. CASE b = a
        <3>1. status'[a] = "approved" /\ latest'[a] = "approve" /\ grants'[a] = grants[a] + 1
            BY <1>8, <2>2 DEF Approve, TypeOK
        <3> QED BY <1>0, <2>1, <3>1 DEF Allows
    <2>3. CASE b # a
        BY <1>1, <1>8, <2>1, <2>3 DEF Approve, TypeOK
    <2> QED BY <2>2, <2>3
<1>9. ASSUME NEW b \in ApprovalIds, Deny(b) PROVE Goal
    <2>1. uses'[a] = uses[a] /\ grants'[a] = grants[a]
        BY <1>9 DEF Deny, Decide
    <2>2. CASE b = a
        <3>1. status'[a] = "denied"
            BY <1>9, <2>2 DEF Deny, Denied, TypeOK
        <3> QED BY <1>0, <2>1, <3>1 DEF Allows
    <2>3. CASE b # a
        BY <1>1, <1>9, <2>1, <2>3 DEF Deny, Denied, TypeOK
    <2> QED BY <2>2, <2>3
<1>10. CASE Crash
    BY <1>1, <1>10 DEF Crash, history
<1>11. CASE UNCHANGED vars
    BY <1>2, <1>11 DEF vars
<1> QED
    BY <1>3, <1>4, <1>5, <1>6, <1>7, <1>8, <1>9, <1>10, <1>11 DEF Next

LEMMA RecordInvariant == Spec => []RecordInv
BY InitRecordInv, NextRecordInv, ApprovalTypes, PTL DEF Spec

\* A tool never runs on the strength of an approval more often than the human
\* approved it, however many requests carry its id.
THEOREM ApprovalsAreSpent == Spec => []UsesWithinGrants
<1>1. TypeOK /\ RecordInv => UsesWithinGrants
    <2> SUFFICES ASSUME TypeOK, RecordInv, NEW a \in ApprovalIds PROVE uses[a] <= grants[a]
        BY DEF UsesWithinGrants
    <2>1. uses[a] \in Nat /\ grants[a] \in Nat /\ Allows(a) \in Nat
        BY DEF TypeOK, Allows
    <2> QED BY <2>1 DEF RecordInv
<1> QED BY <1>1, ApprovalTypes, RecordInvariant, PTL

\* The step that runs a tool on an approval follows an approve that no denial
\* came after.
THEOREM DenialsStand == Spec => DenialStands
<1> DEFINE A == \A a \in ApprovalIds : uses'[a] > uses[a] => latest[a] = "approve"
<1>1. TypeOK /\ RecordInv /\ [Next]_vars => [A]_vars
    <2> SUFFICES ASSUME TypeOK, RecordInv, Next, NEW a \in ApprovalIds, uses'[a] > uses[a]
                 PROVE  latest[a] = "approve"
        BY DEF Next
    <2>0. uses[a] \in Nat
        BY DEF TypeOK
    <2>1. CASE \E q \in Requests, call \in Calls : ProposeApproved(q, call)
        <3>1. PICK q \in Requests, call \in Calls : ProposeApproved(q, call)
            BY <2>1
        <3>2. req[q].token = a
            BY <2>0, <3>1 DEF ProposeApproved, TypeOK
        <3>3. status[a] = "approved"
            BY <3>1, <3>2 DEF ProposeApproved, MayConsume
        <3> QED BY <3>3 DEF RecordInv
    <2>2. CASE uses' = uses
        BY <2>0, <2>2
    <2> QED
        BY <2>1, <2>2
        DEF Next, Ask, ProposeNothing, FallBack, StrictRetry, End, ProposeSafe,
            ProposeForApproval, ProposeUnapproved, Approve, Deny, Decide, Crash, history
<1> QED BY <1>1, ApprovalTypes, RecordInvariant, PTL DEF Spec, DenialStands

-----------------------------------------------------------------------------
\* What ran is what the record showed: a record is written once.
THEOREM RunsAreAsShown == Spec => []ExecutedAsShown
<1>1. Init => ExecutedAsShown
    BY DEF Init, ExecutedAsShown
<1>2. TypeOK /\ ExecutedAsShown /\ [Next]_vars => ExecutedAsShown'
    <2> SUFFICES ASSUME TypeOK, ExecutedAsShown, [Next]_vars PROVE ExecutedAsShown'
        OBVIOUS
    <2>1. ASSUME NEW q \in Requests, NEW call \in Calls, ProposeApproved(q, call)
          PROVE  ExecutedAsShown'
        BY <2>1 DEF ProposeApproved, MayConsume, ExecutedAsShown
    <2>2. ASSUME NEW q \in Requests, NEW call \in Calls, NEW a \in ApprovalIds,
                 ProposeForApproval(q, call, a)
          PROVE  ExecutedAsShown'
        <3> SUFFICES ASSUME NEW e \in executed PROVE shown'[e.by] = e.call
            BY <2>2 DEF ProposeForApproval, history, ExecutedAsShown
        <3>1. e.by \in ApprovalIds /\ e.call \in Calls /\ shown[e.by] = e.call
            BY ConstantsAssumption DEF TypeOK, ExecutedAsShown
        <3>2. e.by # a
            BY <2>2, <3>1, ConstantsAssumption DEF ProposeForApproval
        <3> QED BY <2>2, <3>1, <3>2 DEF ProposeForApproval, TypeOK
    <2>3. CASE UNCHANGED <<shown, executed>>
        BY <2>3 DEF ExecutedAsShown
    <2> QED
        BY <2>1, <2>2, <2>3
        DEF Next, Ask, ProposeNothing, FallBack, StrictRetry, End, ProposeSafe,
            ProposeUnapproved, Approve, Deny, Decide, Crash, history, vars
<1> QED BY <1>1, <1>2, ApprovalTypes, PTL DEF Spec
=============================================================================
