------------------------------ MODULE MCBatch --------------------------------
(* A small instance of Batch for TLC: any question by itself, and a batch of *)
(* three jobs, of which one asks nothing and one has no id.                  *)
EXTENDS Batch

MCQuery == <<[mode |-> "critique", streamed |-> FALSE, checked |-> TRUE, tools |-> FALSE],
             [mode |-> "single", streamed |-> FALSE, checked |-> FALSE, tools |-> TRUE],
             NoQuery>>
MCNamed == {1, 3}
=============================================================================
