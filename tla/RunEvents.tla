----------------------------- MODULE RunEvents -----------------------------
(***************************************************************************)
(* The event stream /v1/runs/events (src/backend/orchestrator/server.py    *)
(* _emit_run_event and stream_runs_events; src/dashboard/lib/api.ts        *)
(* streamRunEvents).                                                       *)
(*                                                                         *)
(* Each change of a row of the ledger is put on a bounded queue of every   *)
(* client, in the step that makes the change.  A full queue loses its      *)
(* oldest event.  A client that reconnects gets a new, empty queue.        *)
(***************************************************************************)
EXTENDS Naturals, Sequences

CONSTANTS
    Runs,    \* the runs
    Clients, \* subscribers of the stream
    Capacity \* maxsize of a queue, 256 in the code

ASSUME EventAssumption == Capacity \in Nat \ {0}

VARIABLES
    ledger,      \* ledger[r]: the status of the row of r, "none" without one
    subscribers, \* run_event_subscribers: the clients with a queue
    queue,       \* queue[c]: the events not yet sent to c
    view,        \* view[c][r]: what c has heard of r since it subscribed
    since        \* history: since[c][r]: events after the last one of r, up to
                 \* Capacity; Capacity if c has subscribed after it

eventVars == <<ledger, subscribers, queue, view, since>>

-----------------------------------------------------------------------------
Statuses == {"none", "running", "completed", "failed"}
Event    == [run : Runs, status : Statuses]

\* (mutant) a full queue does not take the event.
PutUnlessFull(q, e) == IF Len(q) < Capacity THEN Append(q, e) ELSE q

\* put_nowait, and on QueueFull get_nowait first.
Put(q, e) == Append(IF Len(q) < Capacity THEN q ELSE Tail(q), e)

\* n events more after an event, as far as anyone counts.
Later(k, n) == IF k + n < Capacity THEN k + n ELSE Capacity

\* A handler commits the same row up to three times, and puts it as often.
Puts(q, e, n) ==
    CASE n = 1 -> Put(q, e)
      [] n = 2 -> Put(Put(q, e), e)
      [] n = 3 -> Put(Put(Put(q, e), e), e)

Row(r, status) == [run |-> r, status |-> status]

\* The row of r takes a status, n times over, and each is put on every queue.
Emit(r, status, n) ==
    /\ ledger' = [ledger EXCEPT ![r] = status]
    /\ queue' = [c \in Clients |-> IF c \in subscribers THEN Puts(queue[c], Row(r, status), n)
                                   ELSE <<>>]
    /\ since' = [c \in Clients |-> [x \in Runs |->
                   IF c \notin subscribers THEN Capacity
                   ELSE IF x = r THEN 0 ELSE Later(since[c][x], n)]]
    /\ UNCHANGED <<subscribers, view>>

\* A client opens the stream: nothing of what has been is sent.
Subscribe(c) ==
    /\ c \notin subscribers
    /\ subscribers' = subscribers \cup {c}
    /\ queue' = [queue EXCEPT ![c] = <<>>]
    /\ UNCHANGED <<ledger, view, since>>

\* The generator of the stream sends the oldest event.
Send(c) ==
    /\ c \in subscribers /\ queue[c] # <<>>
    /\ view' = [view EXCEPT ![c][Head(queue[c]).run] = Head(queue[c]).status]
    /\ queue' = [queue EXCEPT ![c] = Tail(@)]
    /\ UNCHANGED <<ledger, subscribers, since>>

\* The client goes away: "finally" takes its queue out; what it showed is stale.
Unsubscribe(c) ==
    /\ c \in subscribers
    /\ subscribers' = subscribers \ {c}
    /\ queue' = [queue EXCEPT ![c] = <<>>]
    /\ view' = [view EXCEPT ![c] = [r \in Runs |-> "none"]]
    /\ since' = [since EXCEPT ![c] = [r \in Runs |-> Capacity]]
    /\ UNCHANGED ledger

\* The server restarts: every stream ends.
DropSubscribers ==
    /\ subscribers' = {}
    /\ queue' = [c \in Clients |-> <<>>]
    /\ view' = [c \in Clients |-> [r \in Runs |-> "none"]]
    /\ since' = [c \in Clients |-> [r \in Runs |-> Capacity]]
    /\ UNCHANGED ledger

InitEvents ==
    /\ ledger = [r \in Runs |-> "none"]
    /\ subscribers = {}
    /\ queue = [c \in Clients |-> <<>>]
    /\ view = [c \in Clients |-> [r \in Runs |-> "none"]]
    /\ since = [c \in Clients |-> [r \in Runs |-> Capacity]]

TypeOKEvents ==
    /\ ledger \in [Runs -> Statuses]
    /\ subscribers \subseteq Clients
    /\ queue \in [Clients -> Seq(Event)]
    /\ \A c \in Clients : Len(queue[c]) <= Capacity /\ (c \notin subscribers => queue[c] = <<>>)
    /\ view \in [Clients -> [Runs -> Statuses]]
    /\ since \in [Clients -> [Runs -> 0..Capacity]]

\* A client that has been sent all of its queue shows every run as it is in the
\* ledger, but for runs followed by as many events of others as a queue holds, and
\* those that have not changed since it subscribed (server.py:578-604).
DrainedViewIsRecent ==
    \A c \in subscribers, r \in Runs :
        queue[c] = <<>> /\ since[c][r] < Capacity => view[c][r] = ledger[r]
=============================================================================
