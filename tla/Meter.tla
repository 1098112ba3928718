------------------------------- MODULE Meter -------------------------------
(***************************************************************************)
(* What the budget's figures promise to those who read them, with no word  *)
(* of files, processes, locks or days: two totals that follow a bill.      *)
(***************************************************************************)
EXTENDS Naturals

CONSTANT MaxCharge      \* the most one answer is charged

VARIABLES
    daily,      \* the total of the day
    monthly,    \* the total of the month
    bill,       \* what the answers of the month were charged
    exact       \* no answer has been missed and no total overwritten

meter == <<daily, monthly, bill, exact>>

Init == daily = 0 /\ monthly = 0 /\ bill = 0 /\ exact = TRUE

\* An answer is charged once, to all totals.
Charge ==
    \E c \in 0 .. MaxCharge :
        /\ daily' = daily + c
        /\ monthly' = monthly + c
        /\ bill' = bill + c
        /\ exact' = exact

\* The charge of an answer is missed.
Miss ==
    /\ \E c \in 1 .. MaxCharge : bill' = bill + c
    /\ exact' = FALSE
    /\ UNCHANGED <<daily, monthly>>

\* The totals are overwritten, by less than what was charged.
Overwrite ==
    /\ monthly' \in 0 .. bill
    /\ daily' \in 0 .. monthly'
    /\ exact' = FALSE
    /\ bill' = bill

NewDay == daily' = 0 /\ UNCHANGED <<monthly, bill, exact>>

NewMonth == daily' = 0 /\ monthly' = 0 /\ bill' = 0 /\ exact' = exact

Next == Charge \/ Miss \/ Overwrite \/ NewDay \/ NewMonth

Spec == Init /\ [][Next]_meter
=============================================================================
