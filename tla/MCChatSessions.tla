--------------------------- MODULE MCChatSessions ---------------------------
(* Small instances of ChatSessions and RunEvents for TLC. *)
EXTENDS ChatSessions

CONSTANTS t1, t2, s1, s2, p1, p2, c1

MCTurns    == {t1, t2}
MCSessions == {s1, s2}
MCProjects == {p1, p2}
MCClients  == {c1}

\* The messages of t1 are twice as long as those of the other turn.
MCTokens(ms) == FoldSeq(LAMBDA m, n : n + (IF m.turn = t1 THEN 2 ELSE 1), 0, ms)

\* Sessions can be exchanged, and so can projects.
Symmetry == Permutations(MCSessions) \cup Permutations(MCProjects)
=============================================================================
