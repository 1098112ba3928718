--------------------------- MODULE MCRunTriggers ---------------------------
(* Small instances of RunTriggers for TLC. *)
EXTENDS RunTriggers

CONSTANTS t1, t2, h1

MCTriggerIds == {t1, t2}
MCHooks      == {h1}
MCNone       == {}

\* One that the scheduler runs, and one for the webhook only, whose mode the
\* tools flag of its requests forbids.
Interval == [periodic |-> TRUE, single |-> TRUE, due |-> TRUE]
Webhook  == [periodic |-> FALSE, single |-> FALSE, due |-> FALSE]
MCKinds  == {Interval, Webhook}

\* One that runs at intervals, by itself or beside a webhook; a second one is an
\* edit away.
MCFirstTables == {[t \in MCTriggerIds |-> IF t = t1 THEN Interval ELSE NoTrigger],
                  [t \in MCTriggerIds |-> IF t = t1 THEN Interval ELSE Webhook]}
=============================================================================
