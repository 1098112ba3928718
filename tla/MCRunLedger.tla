---------------------------- MODULE MCRunLedger ----------------------------
(* Small instances of RunLedger for TLC. *)
EXTENDS RunLedger, TLC

CONSTANTS r1, r2, s1, s2

MCRunIds == {r1, r2}
MCSlots  == {s1, s2}

\* No dependency, or the first run: the second waits for it, and the first
\* may name itself.
MCDepChoices == {{}, {r1}}

\* The clients of the runs below.
MCEveryRequest == AllRequests
MCPlainClients == {"submit", "stream", "resume", "delete", "clear"}

SlotSymmetry == Permutations(MCSlots)
=============================================================================
