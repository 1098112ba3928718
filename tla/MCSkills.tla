------------------------------ MODULE MCSkills ------------------------------
(* Small instances of Skills for TLC. *)
EXTENDS Skills, TLC

CONSTANTS s1, s2, server, command, plain, capped, elevated

MCNames     == {s1, s2}
MCProcesses == {server, command}
MCContents  == {plain, capped, elevated}
MCPolicy    == [c \in MCContents |-> IF c = elevated THEN "approve_high_risk" ELSE "draft_only"]
MCDeclared  == {elevated}
MCHighImpact == {"python_exec"}
MCSigned    == {elevated}
MCFileCap   == [c \in MCContents |-> IF c = plain THEN 0 ELSE 1]
MCOptions   == {2}
MCCosts     == {0, 2}
MCSymmetry  == Permutations(MCNames) \cup Permutations(MCProcesses)
\* A test with its run and one adversarial case; a plain run is its first part.
MCSittings  == {<<"run", "case">>}
=============================================================================
