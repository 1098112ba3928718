-------------------------- MODULE MCToolApprovals --------------------------
(* Small instances of ToolApprovals for TLC. *)
EXTENDS ToolApprovals, TLC

CONSTANTS a1, a2, q1, q2, echo, send, sendOther

MCApprovalIds == {a1, a2}
MCRequests    == {q1, q2}

\* A tool without risk, and a risky one with two argument sets.
MCCalls       == {echo, send, sendOther}
MCRisky       == {send, sendOther}

ApprovalSymmetry ==
    Permutations(MCApprovalIds) \cup Permutations(MCRequests) \cup Permutations(MCRisky)
=============================================================================
