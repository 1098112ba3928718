--------------------------- MODULE ToolApprovals ---------------------------
(***************************************************************************)
(* Human approval of tool calls: ToolApprovalStore and its endpoints       *)
(* (src/backend/orchestrator/server.py) and the tool step of a single-mode *)
(* request (_maybe_run_tools and its callers in router.py).                *)
(*                                                                         *)
(* A request tries its providers in turn.  For each it awaits a proposal   *)
(* of the model, runs the tool in one piece with the check of its approval *)
(* (nothing in between is awaited), and awaits the answer.  Requests,      *)
(* approvals and denials interleave at the awaits.                         *)
(***************************************************************************)
EXTENDS Naturals, FiniteSets

CONSTANTS
    ApprovalIds,  \* approval ids, each drawn once
    Requests,     \* bound: requests in flight at once
    Calls,        \* what a model can propose: a tool with its arguments
    Risky,        \* the calls whose tool needs a human's approval
    Providers,    \* number of providers a request may fall back on
    MaxAsks,      \* bound: requests sent
    MaxDecisions, \* bound: decisions of the human
    MaxCrashes,   \* bound: crashes of the server
    NoToken,      \* a request without tool_approval_id
    NoCall,       \* the call of an approval that was never asked for
    Idle          \* a request slot at rest

ASSUME ConstantsAssumption ==
    /\ Risky \subseteq Calls
    /\ NoCall \notin Calls
    /\ NoToken \notin ApprovalIds
    /\ Providers \in Nat \ {0}
    /\ MaxAsks \in Nat
    /\ MaxDecisions \in Nat
    /\ MaxCrashes \in Nat

VARIABLES
    status,     \* status[a] of the record of a in the store
    req,        \* req[q]: the request in flight in q, or Idle
    asks,       \* requests sent so far
    decisions,  \* decisions so far
    crashes,    \* crashes so far
    shown,      \* the call that approval a was asked for: what the human sees
    latest,     \* history: the human's latest decision on a
    grants,     \* history: how often a was approved
    uses,       \* history: how often a tool ran on the strength of a
    executed    \* history: the risky calls that ran, with their approvals

history == <<latest, grants, uses, executed>>
vars    == <<status, req, asks, decisions, crashes, shown, history>>

-----------------------------------------------------------------------------
Statuses == {"absent", "pending", "approved", "denied", "consumed"}

InFlight == [token  : ApprovalIds \cup {NoToken},
             phase  : {"proposing", "answering"},
             left   : 1..Providers,   \* providers not yet given up on
             retried: BOOLEAN,        \* this is the strict-profile retry
             ran    : 0..(2 * Providers)]  \* history: tools it has run

ASSUME IdleAssumption == Idle \notin InFlight

Proposing(q) == req[q] # Idle /\ req[q].phase = "proposing"
Answering(q) == req[q] # Idle /\ req[q].phase = "answering"

Begun(token) == [token |-> token, phase |-> "proposing", left |-> Providers,
                 retried |-> FALSE, ran |-> 0]

\* The request r once it awaits its answer, having run n tools for its provider,
\* and when it starts over with the next provider or as the strict-profile retry.
AnswerDue(r, n)  == [r EXCEPT !.phase = "answering", !.ran = r.ran + n]
NextProvider(r)  == [r EXCEPT !.phase = "proposing", !.left = r.left - 1]
AskedOnceMore(r) == [r EXCEPT !.phase = "proposing", !.left = Providers, !.retried = TRUE]

Answers(q, n) == req' = [req EXCEPT ![q] = AnswerDue(req[q], n)]

\* (mutant) the arguments are not compared.
MayConsumeAny(a, call) == status[a] = "approved"

\* ToolApprovalStore.consume returns True.
MayConsume(a, call) == status[a] = "approved" /\ shown[a] = call

\* (mutant) consume leaves the record approved.
ConsumedStaysApproved(a) == status

\* The store after consume.
Consumed(a) == [status EXCEPT ![a] = "consumed"]

-----------------------------------------------------------------------------
(* Requests.                                                                *)

\* A client asks with tools.  The id it sends is any, also one that was used
\* before: a resumed run replays the id of its request.
Ask(q, token) ==
    /\ req[q] = Idle
    /\ asks < MaxAsks
    /\ asks' = asks + 1
    /\ req' = [req EXCEPT ![q] = Begun(token)]
    /\ UNCHANGED <<status, decisions, crashes, shown, history>>

\* No tool is proposed, or the proposal is rejected before any approval:
\* unknown tool, bad arguments, intent drift.
ProposeNothing(q) ==
    /\ Proposing(q)
    /\ Answers(q, 0)
    /\ UNCHANGED <<status, asks, decisions, crashes, shown, history>>

\* The broker (of this call alone, with a new request id) grants a call without
\* risk, and it runs; or the broker denies it.
ProposeSafe(q, call) ==
    /\ Proposing(q)
    /\ call \notin Risky
    /\ Answers(q, 1) \/ Answers(q, 0)
    /\ UNCHANGED <<status, asks, decisions, crashes, shown, history>>

\* A risky call without an approval id: an approval is asked for.
ProposeForApproval(q, call, a) ==
    /\ Proposing(q)
    /\ call \in Risky
    /\ req[q].token = NoToken
    /\ shown[a] = NoCall
    /\ shown' = [shown EXCEPT ![a] = call]
    /\ status' = [status EXCEPT ![a] = "pending"]
    /\ Answers(q, 0)
    /\ UNCHANGED <<asks, decisions, crashes, history>>

\* A risky call whose approval is unknown, undecided, denied, consumed or for
\* another call.
ProposeUnapproved(q, call) ==
    /\ Proposing(q)
    /\ call \in Risky
    /\ req[q].token # NoToken
    /\ ~MayConsume(req[q].token, call)
    /\ Answers(q, 0)
    /\ UNCHANGED <<status, asks, decisions, crashes, shown, history>>

\* A risky call whose approval is consumed; then the broker decides, and the
\* approval is spent even when the broker denies.
ProposeApproved(q, call) ==
    LET a == req[q].token
    IN  /\ Proposing(q)
        /\ call \in Risky
        /\ a # NoToken
        /\ MayConsume(a, call)
        /\ status' = Consumed(a)
        /\ \/ /\ Answers(q, 1)
              /\ uses' = [uses EXCEPT ![a] = @ + 1]
              /\ executed' = executed \cup {[by |-> a, call |-> call]}
           \/ /\ Answers(q, 0)
              /\ UNCHANGED <<uses, executed>>
        /\ UNCHANGED <<asks, decisions, crashes, shown, latest, grants>>

MayFallBack(q) == Answering(q) /\ req[q].left > 1

\* The provider is rate limited, or its answer is empty or a placeholder: the
\* next provider starts from the proposal again.
FallBack(q) ==
    /\ MayFallBack(q)
    /\ req' = [req EXCEPT ![q] = NextProvider(req[q])]
    /\ UNCHANGED <<status, asks, decisions, crashes, shown, history>>

\* The answer violates a strict profile: the handler asks the orchestrator once
\* more, with the same tools and the same approval id.
StrictRetry(q) ==
    /\ Answering(q)
    /\ ~req[q].retried
    /\ req' = [req EXCEPT ![q] = AskedOnceMore(req[q])]
    /\ UNCHANGED <<status, asks, decisions, crashes, shown, history>>

\* The request is answered, fails at an await, or runs out of providers.
End(q) ==
    /\ req[q] # Idle
    /\ req' = [req EXCEPT ![q] = Idle]
    /\ UNCHANGED <<status, asks, decisions, crashes, shown, history>>

-----------------------------------------------------------------------------
(* The human.  Neither endpoint looks at the status the record has.         *)

Decide(a) ==
    /\ status[a] # "absent"
    /\ decisions < MaxDecisions
    /\ decisions' = decisions + 1
    /\ UNCHANGED <<req, asks, crashes, shown, uses, executed>>

Approve(a) ==
    /\ Decide(a)
    /\ status' = [status EXCEPT ![a] = "approved"]
    /\ latest' = [latest EXCEPT ![a] = "approve"]
    /\ grants' = [grants EXCEPT ![a] = @ + 1]

\* (mutant) only a pending record is denied.
DeniedIfPending(a) == IF status[a] = "pending" THEN [status EXCEPT ![a] = "denied"] ELSE status

Denied(a) == [status EXCEPT ![a] = "denied"]

Deny(a) ==
    /\ Decide(a)
    /\ status' = Denied(a)
    /\ latest' = [latest EXCEPT ![a] = "deny"]
    /\ UNCHANGED grants

-----------------------------------------------------------------------------
\* The store lives in memory.
Crash ==
    /\ crashes < MaxCrashes
    /\ crashes' = crashes + 1
    /\ status' = [a \in ApprovalIds |-> "absent"]
    /\ req' = [q \in Requests |-> Idle]
    /\ UNCHANGED <<asks, decisions, shown, history>>

Init ==
    /\ status = [a \in ApprovalIds |-> "absent"]
    /\ req = [q \in Requests |-> Idle]
    /\ asks = 0
    /\ decisions = 0
    /\ crashes = 0
    /\ shown = [a \in ApprovalIds |-> NoCall]
    /\ latest = [a \in ApprovalIds |-> "none"]
    /\ grants = [a \in ApprovalIds |-> 0]
    /\ uses = [a \in ApprovalIds |-> 0]
    /\ executed = {}

Next ==
    \/ \E q \in Requests, token \in ApprovalIds \cup {NoToken} : Ask(q, token)
    \/ \E q \in Requests : ProposeNothing(q) \/ FallBack(q) \/ StrictRetry(q) \/ End(q)
    \/ \E q \in Requests, call \in Calls : ProposeSafe(q, call)
    \/ \E q \in Requests, call \in Calls, a \in ApprovalIds : ProposeForApproval(q, call, a)
    \/ \E q \in Requests, call \in Calls : ProposeUnapproved(q, call)
    \/ \E q \in Requests, call \in Calls : ProposeApproved(q, call)
    \/ \E a \in ApprovalIds : Approve(a) \/ Deny(a)
    \/ Crash

Spec == Init /\ [][Next]_vars

-----------------------------------------------------------------------------
(* Properties.                                                              *)

TypeOK ==
    /\ status \in [ApprovalIds -> Statuses]
    /\ req \in [Requests -> InFlight \cup {Idle}]
    /\ asks \in 0..MaxAsks
    /\ decisions \in 0..MaxDecisions
    /\ crashes \in 0..MaxCrashes
    /\ shown \in [ApprovalIds -> Calls \cup {NoCall}]
    /\ latest \in [ApprovalIds -> {"none", "approve", "deny"}]
    /\ grants \in [ApprovalIds -> Nat]
    /\ uses \in [ApprovalIds -> Nat]
    /\ executed \subseteq [by: ApprovalIds, call: Risky]

\* A tool runs on the strength of an approval at most as often as the human
\* approved it, whatever requests share its id, fall back or are retried
\* (ToolApprovalStore.consume, server.py:85-95).
UsesWithinGrants == \A a \in ApprovalIds : uses[a] <= grants[a]

\* A risky call only ever runs as the human was shown it: the tool and the
\* arguments of the record (server.py:89-92).
ExecutedAsShown == \A e \in executed : shown[e.by] = e.call

\* A denial stands until the same human approves: no tool runs on an approval
\* whose latest decision is a denial, also when the denial came after the
\* approval or while a request with its id was in flight.
DenialStands ==
    [][\A a \in ApprovalIds : uses'[a] > uses[a] => latest[a] = "approve"]_vars
=============================================================================
