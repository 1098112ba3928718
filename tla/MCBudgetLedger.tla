--------------------------- MODULE MCBudgetLedger ---------------------------
(* Small instances of BudgetLedger for TLC. *)
EXTENDS BudgetLedger, TLC

CONSTANTS server, mmctl, k1, k2

MCProcs   == {server, mmctl}
MCTasks   == {k1, k2}

\* Two days in the first month, one in the second.
MCMonthOf == [d \in 0..2 |-> d \div 2]

BudgetSymmetry == Permutations(MCProcs) \cup Permutations(MCTasks)
=============================================================================
