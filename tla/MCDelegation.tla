---------------------------- MODULE MCDelegation ----------------------------
(* Small instances of Delegation for TLC. *)
EXTENDS Delegation

CONSTANTS j1, f1, d1

MCOneJob    == {j1}
MCFollowers == {f1}
MCDeleters  == {d1}
=============================================================================
