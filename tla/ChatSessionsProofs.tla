-------------------------- MODULE ChatSessionsProofs --------------------------
(***************************************************************************)
(* What ChatSessions and its event streams promise for every set of turns, *)
(* sessions, projects and subscribers, every queue length and every        *)
(* estimate of tokens: that a client which has read its queue is up to     *)
(* date, that sessions do not mix, that an answer is on file, and that a   *)
(* deleted session stays deleted.                                          *)
(***************************************************************************)
EXTENDS ChatSessions, SequenceTheorems, WellFoundedInduction, TLAPS

-----------------------------------------------------------------------------
(* The event streams.                                                       *)

\* A queue q, a view v and a count k of later events, against the row l of r:
\* the last event of r is k places before the end of the queue or, if the queue
\* is shorter, has been sent; k = Capacity says nothing of the row.
Follows(q, v, k, l, r) ==
    /\ k < Capacity /\ k >= Len(q) => v = l
    /\ k < Capacity /\ k < Len(q) => q[Len(q) - k] = Row(r, l)
    /\ \A i \in 1..Len(q) : q[i].run = r => Len(q) - i >= k

StreamInv ==
    /\ \A c \in Clients \ subscribers, r \in Runs : since[c][r] = Capacity
    /\ \A c \in subscribers, r \in Runs :
          Follows(queue[c], view[c][r], since[c][r], ledger[r], r)

EventInv == TypeOKEvents /\ StreamInv

LEMMA CapacityIsPositive == Capacity \in Nat /\ Capacity > 0
  BY EventAssumption

\* One event: a queue stays within its capacity.
LEMMA PutTyped ==
  ASSUME NEW q \in Seq(Event), Len(q) <= Capacity, NEW e \in Event
  PROVE  /\ Put(q, e) \in Seq(Event)
         /\ Len(Put(q, e)) = IF Len(q) < Capacity THEN Len(q) + 1 ELSE Capacity
         /\ Put(q, e)[Len(Put(q, e))] = e
         /\ \A i \in 1 .. Len(Put(q, e)) - 1 :
               Put(q, e)[i] = IF Len(q) < Capacity THEN q[i] ELSE q[i + 1]
  <1>0. Capacity \in Nat /\ Capacity > 0 /\ Len(q) \in Nat
    BY CapacityIsPositive
  <1>1. CASE Len(q) < Capacity
    BY <1>0, <1>1, AppendProperties DEF Put
  <1>2. CASE ~(Len(q) < Capacity)
    <2>1. Len(q) = Capacity /\ q # <<>>
      BY <1>0, <1>2
    <2>2. /\ Tail(q) \in Seq(Event) /\ Len(Tail(q)) = Capacity - 1
          /\ \A i \in 1 .. Len(Tail(q)) : Tail(q)[i] = q[i + 1]
      BY <2>1, HeadTailProperties
    <2>3. Put(q, e) = Append(Tail(q), e)
      BY <1>2 DEF Put
    <2>4. /\ Append(Tail(q), e) \in Seq(Event)
          /\ Len(Append(Tail(q), e)) = Len(Tail(q)) + 1
          /\ \A i \in 1 .. Len(Tail(q)) : Append(Tail(q), e)[i] = Tail(q)[i]
          /\ Append(Tail(q), e)[Len(Tail(q)) + 1] = e
      BY <2>2, AppendProperties
    <2> QED
      BY <1>0, <2>1, <2>2, <2>3, <2>4
  <1> QED
    BY <1>1, <1>2

\* The run's own event comes last; an event of another leaves one more after it.
LEMMA PutFollows ==
  ASSUME NEW q \in Seq(Event), Len(q) <= Capacity, NEW e \in Event,
         NEW k \in 0..Capacity, NEW r \in Runs, NEW v, NEW l, Follows(q, v, k, l, r)
  PROVE  /\ e.run = r => Follows(Put(q, e), v, 0, e.status, r)
         /\ e.run # r => Follows(Put(q, e), v, Later(k, 1), l, r)
  <1> DEFINE p == Put(q, e)
             n == Len(q)
             m == Len(p)
  <1>0. /\ Capacity \in Nat /\ Capacity > 0 /\ n \in Nat
        /\ n <= Capacity /\ k \in Nat /\ k <= Capacity
    BY CapacityIsPositive
  <1>1. /\ p \in Seq(Event) /\ m = (IF n < Capacity THEN n + 1 ELSE Capacity)
        /\ p[m] = e
        /\ \A i \in 1 .. m - 1 : p[i] = IF n < Capacity THEN q[i] ELSE q[i + 1]
    BY PutTyped
  <1>2. /\ k < Capacity /\ k >= n => v = l
        /\ k < Capacity /\ k < n => q[n - k] = Row(r, l)
        /\ \A i \in 1..n : q[i].run = r => n - i >= k
    BY DEF Follows
  <1>3. m \in Nat /\ m > 0
    BY <1>0, <1>1
  <1>4. ASSUME e.run = r
        PROVE  Follows(p, v, 0, e.status, r)
    <2>1. p[m - 0] = Row(r, e.status)
      BY <1>1, <1>3, <1>4 DEF Row, Event
    <2>2. \A i \in 1..m : m - i >= 0
      BY <1>3
    <2> HIDE DEF p
    <2> QED
      BY <1>3, <2>1, <2>2 DEF Follows
  <1>5. ASSUME e.run # r
        PROVE  Follows(p, v, Later(k, 1), l, r)
    <2>1. Later(k, 1) = IF k + 1 < Capacity THEN k + 1 ELSE Capacity
      BY DEF Later
    <2> DEFINE k1 == Later(k, 1)
    <2>2. k1 \in Nat /\ k1 <= k + 1 /\ (k1 < Capacity => k1 = k + 1 /\ k < Capacity)
      BY <1>0, <2>1
    <2> HIDE DEF k1, p
    <2>3. ASSUME k1 < Capacity, k1 >= m
          PROVE  v = l
      BY <1>0, <1>1, <1>2, <2>2, <2>3
    <2>4. ASSUME k1 < Capacity, k1 < m
          PROVE  p[m - k1] = Row(r, l)
      <3>1. k1 = k + 1 /\ k < n /\ m - k1 \in 1 .. m - 1
        BY <1>0, <1>1, <1>3, <2>2, <2>4
      <3>2. q[n - k] = Row(r, l)
        BY <1>2, <2>2, <2>4, <3>1
      <3>3. CASE n < Capacity
        <4>1. m - k1 = n - k
          BY <1>0, <1>1, <3>1, <3>3
        <4> QED
          BY <1>1, <3>1, <3>2, <3>3, <4>1
      <3>4. CASE ~(n < Capacity)
        <4>1. (m - k1) + 1 = n - k
          BY <1>0, <1>1, <3>1, <3>4
        <4> QED
          BY <1>1, <3>1, <3>2, <3>4, <4>1
      <3> QED
        BY <3>3, <3>4
    <2>5. ASSUME NEW i \in 1..m, p[i].run = r
          PROVE  m - i >= k1
      <3>1. i \in 1 .. m - 1
        BY <1>1, <1>3, <1>5, <2>5
      <3>2. CASE n < Capacity
        <4>1. i \in 1..n /\ q[i].run = r /\ m = n + 1
          BY <1>0, <1>1, <2>5, <3>1, <3>2
        <4>2. n - i >= k
          BY <1>2, <4>1
        <4> QED
          BY <1>0, <2>2, <4>1, <4>2
      <3>3. CASE ~(n < Capacity)
        <4>1. i + 1 \in 1..n /\ q[i + 1].run = r /\ m = n
          BY <1>0, <1>1, <2>5, <3>1, <3>3
        <4>2. n - (i + 1) >= k
          BY <1>2, <4>1
        <4> QED
          BY <1>0, <2>2, <4>1, <4>2
      <3> QED
        BY <3>2, <3>3
    <2>6. Follows(p, v, k1, l, r)
      BY <2>3, <2>4, <2>5 DEF Follows
    <2> QED
      BY <2>6 DEF k1
  <1> QED
    BY <1>4, <1>5 DEF p

LEMMA LaterAdds ==
  ASSUME NEW k \in 0..Capacity
  PROVE  /\ Later(k, 1) \in 0..Capacity /\ Later(k, 2) \in 0..Capacity
         /\ Later(k, 3) \in 0..Capacity
         /\ Later(Later(k, 1), 1) = Later(k, 2)
         /\ Later(Later(k, 2), 1) = Later(k, 3)
  BY CapacityIsPositive DEF Later

\* The events of one handler.
LEMMA PutsFollow ==
  ASSUME NEW q \in Seq(Event), Len(q) <= Capacity, NEW e \in Event, NEW n \in 1..3
  PROVE  /\ Puts(q, e, n) \in Seq(Event) /\ Len(Puts(q, e, n)) <= Capacity
         /\ \A k \in 0..Capacity, r \in Runs : \A v, l : Follows(q, v, k, l, r) =>
               /\ e.run = r => Follows(Puts(q, e, n), v, 0, e.status, r)
               /\ e.run # r => Follows(Puts(q, e, n), v, Later(k, n), l, r)
  <1> DEFINE q1 == Put(q, e)
             q2 == Put(q1, e)
             q3 == Put(q2, e)
  <1>0. Capacity \in Nat /\ Capacity > 0 /\ Len(q) \in Nat
    BY CapacityIsPositive
  <1>1. q1 \in Seq(Event) /\ Len(q1) <= Capacity
    BY <1>0, PutTyped
  <1> HIDE DEF q1
  <1>2. q2 \in Seq(Event) /\ Len(q2) <= Capacity
    BY <1>0, <1>1, PutTyped
  <1> HIDE DEF q2
  <1>3. q3 \in Seq(Event) /\ Len(q3) <= Capacity
    BY <1>0, <1>2, PutTyped
  <1>4. Puts(q, e, n) = CASE n = 1 -> q1 [] n = 2 -> q2 [] n = 3 -> q3
    BY DEF Puts, q1, q2
  <1> HIDE DEF q3
  <1>5. ASSUME NEW k \in 0..Capacity, NEW r \in Runs, NEW v, NEW l, Follows(q, v, k, l, r)
        PROVE  /\ e.run = r => Follows(Puts(q, e, n), v, 0, e.status, r)
               /\ e.run # r => Follows(Puts(q, e, n), v, Later(k, n), l, r)
    <2>9. 0 \in 0..Capacity
      BY <1>0
    <2>0. Later(k, 1) \in 0..Capacity /\ Later(k, 2) \in 0..Capacity
      BY LaterAdds
    <2>1. CASE e.run = r
      <3>1. Follows(q1, v, 0, e.status, r)
        BY <1>5, <2>1, PutFollows DEF q1
      <3>2. Follows(q2, v, 0, e.status, r)
        BY <1>1, <2>9, <2>1, <3>1, PutFollows DEF q2
      <3>3. Follows(q3, v, 0, e.status, r)
        BY <1>2, <2>9, <2>1, <3>2, PutFollows DEF q3
      <3> QED
        BY <1>4, <2>1, <3>1, <3>2, <3>3
    <2>2. CASE e.run # r
      <3>1. Follows(q1, v, Later(k, 1), l, r)
        BY <1>5, <2>2, PutFollows DEF q1
      <3>2. Follows(q2, v, Later(k, 2), l, r)
        BY <1>1, <2>0, <2>2, <3>1, PutFollows, LaterAdds DEF q2
      <3>3. Follows(q3, v, Later(k, 3), l, r)
        BY <1>2, <2>0, <2>2, <3>2, PutFollows, LaterAdds DEF q3
      <3> QED
        BY <1>4, <2>2, <3>1, <3>2, <3>3
    <2> QED
      BY <2>1, <2>2
  <1> QED
    BY <1>1, <1>2, <1>3, <1>4, <1>5

\* A handler changes the row of one run and tells every subscriber.
LEMMA EmitStep ==
  ASSUME EventInv, NEW t \in Runs, NEW status \in Statuses, NEW n \in 1..3, Emit(t, status, n)
  PROVE  EventInv'
  <1>0. Capacity \in Nat /\ Capacity > 0
    BY CapacityIsPositive
  <1> DEFINE e == Row(t, status)
  <1>1. e \in Event /\ e.run = t /\ e.status = status
    BY DEF Row, Event
  <1> HIDE DEF e
  <1>2. /\ ledger \in [Runs -> Statuses] /\ subscribers \subseteq Clients
        /\ queue \in [Clients -> Seq(Event)] /\ \A c \in Clients : Len(queue[c]) <= Capacity
        /\ view \in [Clients -> [Runs -> Statuses]]
        /\ since \in [Clients -> [Runs -> 0..Capacity]]
    BY DEF EventInv, TypeOKEvents
  <1>3. /\ ledger' = [ledger EXCEPT ![t] = status]
        /\ queue' = [c \in Clients |-> IF c \in subscribers THEN Puts(queue[c], e, n) ELSE <<>>]
        /\ since' = [c \in Clients |-> [x \in Runs |->
                       IF c \notin subscribers THEN Capacity
                       ELSE IF x = t THEN 0 ELSE Later(since[c][x], n)]]
        /\ subscribers' = subscribers /\ view' = view
    BY DEF Emit, e
  <1>4. ASSUME NEW c \in Clients
        PROVE  /\ queue'[c] \in Seq(Event) /\ Len(queue'[c]) <= Capacity
               /\ c \notin subscribers => queue'[c] = <<>>
    <2>1. CASE c \in subscribers
      <3>1. /\ queue'[c] = Puts(queue[c], e, n)
            /\ queue[c] \in Seq(Event) /\ Len(queue[c]) <= Capacity
        BY <1>2, <1>3, <2>1
      <3> QED
        BY <1>1, <2>1, <3>1, PutsFollow
    <2>2. CASE c \notin subscribers
      <3>1. queue'[c] = <<>>
        BY <1>3, <2>2
      <3> QED
        BY <1>0, <3>1
    <2> QED
      BY <2>1, <2>2
  <1>5. ASSUME NEW c \in Clients, NEW x \in Runs
        PROVE  /\ since'[c][x] \in 0..Capacity
               /\ c \notin subscribers => since'[c][x] = Capacity
    <2>1. Later(since[c][x], n) \in 0..Capacity
      <3>1. since[c][x] \in 0..Capacity /\ (n = 1 \/ n = 2 \/ n = 3)
        BY <1>2
      <3> QED
        BY <3>1, LaterAdds
    <2> QED
      BY <1>0, <1>3, <2>1
  <1>6. TypeOKEvents'
    <2>1. queue' \in [Clients -> Seq(Event)]
      BY <1>3, <1>4
    <2>2. since' \in [Clients -> [Runs -> 0..Capacity]]
      <3>1. since' = [c \in Clients |-> [x \in Runs |-> since'[c][x]]]
        BY <1>3
      <3> QED
        BY <1>5, <3>1
    <2>3. ledger' \in [Runs -> Statuses]
      BY <1>2, <1>3
    <2> QED
      BY <1>2, <1>3, <1>4, <2>1, <2>2, <2>3 DEF TypeOKEvents
  <1>7. ASSUME NEW c \in subscribers, NEW x \in Runs
        PROVE  Follows(queue'[c], view[c][x], since'[c][x], ledger'[x], x)
    <2>0. /\ c \in Clients /\ queue[c] \in Seq(Event) /\ Len(queue[c]) <= Capacity
          /\ since[c][x] \in 0..Capacity
      BY <1>2
    <2>1. Follows(queue[c], view[c][x], since[c][x], ledger[x], x)
      BY DEF EventInv, StreamInv
    <2>2. queue'[c] = Puts(queue[c], e, n)
      BY <1>3, <2>0
    <2>3. CASE x = t
      <3>1. since'[c][x] = 0 /\ ledger'[x] = status
        BY <1>2, <1>3, <2>0, <2>3
      <3>2. Follows(Puts(queue[c], e, n), view[c][x], 0, e.status, x)
        <4>1. e.run = x
          BY <1>1, <2>3
        <4> QED
          BY <1>1, <2>0, <2>1, <4>1, PutsFollow
      <3> QED
        BY <1>1, <2>2, <3>1, <3>2
    <2>4. CASE x # t
      <3>1. since'[c][x] = Later(since[c][x], n) /\ ledger'[x] = ledger[x]
        BY <1>2, <1>3, <2>0, <2>4
      <3>2. Follows(Puts(queue[c], e, n), view[c][x], Later(since[c][x], n), ledger[x], x)
        <4>1. e.run # x
          BY <1>1, <2>4
        <4> QED
          BY <1>1, <2>0, <2>1, <4>1, PutsFollow
      <3> QED
        BY <2>2, <3>1, <3>2
    <2> QED
      BY <2>3, <2>4
  <1> QED
    BY <1>3, <1>5, <1>6, <1>7 DEF EventInv, StreamInv

\* The oldest event is sent, and shown.
LEMMA SendFollows ==
  ASSUME NEW q \in Seq(Event), q # <<>>, NEW k \in 0..Capacity, NEW r \in Runs, NEW v, NEW l,
         Follows(q, v, k, l, r)
  PROVE  Follows(Tail(q), IF Head(q).run = r THEN Head(q).status ELSE v, k, l, r)
  <1> DEFINE n == Len(q)
             w == IF Head(q).run = r THEN Head(q).status ELSE v
  <1>0. Capacity \in Nat /\ n \in Nat /\ n > 0 /\ k \in Nat
    BY CapacityIsPositive
  <1>1. /\ Tail(q) \in Seq(Event) /\ Len(Tail(q)) = n - 1 /\ Head(q) = q[1]
        /\ \A i \in 1 .. n - 1 : Tail(q)[i] = q[i + 1]
    BY HeadTailProperties
  <1>2. /\ k < Capacity /\ k >= n => v = l
        /\ k < Capacity /\ k < n => q[n - k] = Row(r, l)
        /\ \A i \in 1..n : q[i].run = r => n - i >= k
    BY DEF Follows
  <1>3. ASSUME k < Capacity, k >= n - 1
        PROVE  w = l
    <2>1. CASE k = n - 1
      <3>1. q[1] = Row(r, l)
        <4>1. n - k = 1 /\ k < n
          BY <1>0, <2>1
        <4> QED
          BY <1>2, <1>3, <4>1
      <3> QED
        BY <1>1, <3>1 DEF Row
    <2>2. CASE k >= n
      <3>1. Head(q).run # r
        <4>1. 1 \in 1..n /\ ~(n - 1 >= k)
          BY <1>0, <2>2
        <4> QED
          BY <1>1, <1>2, <4>1
      <3> QED
        BY <1>2, <1>3, <2>2, <3>1
    <2> QED
      BY <1>0, <1>3, <2>1, <2>2
  <1>4. ASSUME k < Capacity, k < n - 1
        PROVE  Tail(q)[(n - 1) - k] = Row(r, l)
    <2>1. (n - 1) - k \in 1 .. n - 1 /\ ((n - 1) - k) + 1 = n - k /\ k < n
      BY <1>0, <1>4
    <2> QED
      BY <1>1, <1>2, <1>4, <2>1
  <1>5. ASSUME NEW i \in 1 .. n - 1, Tail(q)[i].run = r
        PROVE  (n - 1) - i >= k
    <2>1. i + 1 \in 1..n /\ q[i + 1].run = r
      BY <1>0, <1>1, <1>5
    <2>2. n - (i + 1) >= k
      BY <1>2, <2>1
    <2> QED
      BY <1>0, <2>2
  <1> HIDE DEF w
  <1>6. Follows(Tail(q), w, k, l, r)
    BY <1>1, <1>3, <1>4, <1>5 DEF Follows
  <1> QED
    BY <1>6 DEF w

LEMMA SendStep ==
  ASSUME EventInv, NEW c \in Clients, Send(c)
  PROVE  EventInv'
  <1>2. /\ ledger \in [Runs -> Statuses] /\ subscribers \subseteq Clients
        /\ queue \in [Clients -> Seq(Event)] /\ \A d \in Clients : Len(queue[d]) <= Capacity
        /\ view \in [Clients -> [Runs -> Statuses]]
        /\ since \in [Clients -> [Runs -> 0..Capacity]]
    BY DEF EventInv, TypeOKEvents
  <1>3. /\ c \in subscribers /\ queue[c] # <<>>
        /\ view' = [view EXCEPT ![c] = [@ EXCEPT ![Head(queue[c]).run] = Head(queue[c]).status]]
        /\ queue' = [queue EXCEPT ![c] = Tail(@)]
        /\ ledger' = ledger /\ subscribers' = subscribers /\ since' = since
    BY DEF Send
  <1>4. /\ Tail(queue[c]) \in Seq(Event) /\ Len(Tail(queue[c])) = Len(queue[c]) - 1
        /\ Head(queue[c]) \in Event
    BY <1>2, <1>3, HeadTailProperties
  <1>5. Head(queue[c]).run \in Runs /\ Head(queue[c]).status \in Statuses
    BY <1>4 DEF Event
  <1>6. TypeOKEvents'
    <2>1. queue' \in [Clients -> Seq(Event)]
      BY <1>2, <1>3, <1>4
    <2>2. view' \in [Clients -> [Runs -> Statuses]]
      BY <1>2, <1>3, <1>5
    <2>3. \A d \in Clients : Len(queue'[d]) <= Capacity
      BY <1>2, <1>3, <1>4, CapacityIsPositive
    <2>4. \A d \in Clients : d \notin subscribers => queue'[d] = <<>>
      BY <1>2, <1>3 DEF EventInv, TypeOKEvents
    <2> QED
      BY <1>2, <1>3, <2>1, <2>2, <2>3, <2>4 DEF TypeOKEvents
  <1>7. ASSUME NEW d \in subscribers, NEW x \in Runs
        PROVE  Follows(queue'[d], view'[d][x], since[d][x], ledger[x], x)
    <2>0. d \in Clients /\ Follows(queue[d], view[d][x], since[d][x], ledger[x], x)
      BY <1>2 DEF EventInv, StreamInv
    <2>1. CASE d = c
      <3>1. queue'[d] = Tail(queue[c])
        BY <1>2, <1>3, <2>1
      <3>2. view'[d][x] = IF Head(queue[c]).run = x THEN Head(queue[c]).status ELSE view[c][x]
        BY <1>2, <1>3, <1>5, <2>1
      <3>3. queue[c] \in Seq(Event) /\ since[c][x] \in 0..Capacity
        BY <1>2
      <3> QED
        BY <1>3, <2>0, <2>1, <3>1, <3>2, <3>3, SendFollows
    <2>2. CASE d # c
      BY <1>2, <1>3, <2>0, <2>2
    <2> QED
      BY <2>1, <2>2
  <1> QED
    BY <1>3, <1>6, <1>7 DEF EventInv, StreamInv

\* An empty queue says nothing of a run that has not changed since it was opened.
LEMMA NothingFollows ==
  ASSUME NEW v, NEW l, NEW r
  PROVE  Follows(<<>>, v, Capacity, l, r)
  BY CapacityIsPositive DEF Follows

LEMMA SubscribeStep ==
  ASSUME EventInv, NEW c \in Clients, Subscribe(c)
  PROVE  EventInv'
  <1>1. TypeOKEvents'
    BY CapacityIsPositive DEF EventInv, TypeOKEvents, Subscribe
  <1>2. \A r \in Runs : Follows(<<>>, view[c][r], since[c][r], ledger[r], r)
    BY NothingFollows DEF EventInv, StreamInv, Subscribe
  <1> QED
    BY <1>1, <1>2 DEF EventInv, StreamInv, Subscribe, TypeOKEvents

LEMMA UnsubscribeStep ==
  ASSUME EventInv, NEW c \in Clients, Unsubscribe(c)
  PROVE  EventInv'
  <1>1. TypeOKEvents'
    BY CapacityIsPositive DEF EventInv, TypeOKEvents, Unsubscribe, Statuses
  <1> QED
    BY <1>1 DEF EventInv, StreamInv, Unsubscribe, TypeOKEvents

LEMMA DropStep ==
  ASSUME EventInv, DropSubscribers
  PROVE  EventInv'
  BY CapacityIsPositive DEF EventInv, TypeOKEvents, StreamInv, DropSubscribers, Statuses

LEMMA EventsInit == InitEvents => EventInv
  BY CapacityIsPositive DEF EventInv, TypeOKEvents, StreamInv, InitEvents, Statuses

-----------------------------------------------------------------------------
(* The sessions.                                                            *)

\* The variables of the sessions have their types.
TurnType == [phase : {"new", "asking", "refused", "answered", "failed", "dead"},
             session : Sessions \cup {NoSession}, project : Projects \cup {NoSession},
             object : Objects \cup {NoSession}, context : Seq(Message)]
DiskType == [object : Objects \cup {NoSession}, messages : Seq(Message),
             project : Projects \cup {NoSession}]

ChatTyped ==
    /\ turn \in [Turns -> TurnType]
    /\ sessions \in [Sessions -> Objects \cup {NoSession}]
    /\ projects \in [Sessions -> Projects \cup {NoSession}]
    /\ messages \in [Objects -> Seq(Message)]
    /\ disk \in [Sessions -> DiskType]
    /\ crashes \in 0..MaxCrashes

InBudget == \A o \in Objects : Tokens(messages[o]) <= MaxTokens

LEMMA TypeParts == TypeOK <=> TypeOKEvents /\ ChatTyped /\ InBudget
  BY DEF TypeOK, ChatTyped, InBudget, TurnType, DiskType

\* The object o was made for this session and project.
Belongs(s, p, o) ==
    /\ turn[o].object = o
    /\ turn[o].session = s
    /\ turn[o].project = p

\* These messages are of turns that hold the object o.
From(ms, o) == \A i \in DOMAIN ms : turn[ms[i].turn].object = o

\* What a turn holds.
TurnClause(t) ==
    /\ turn[t].phase \in {"new", "refused"} => turn[t].object = NoSession
    /\ turn[t].phase = "asking" => turn[t].object # NoSession
    /\ turn[t].object = NoSession => turn[t].context = <<>>
    /\ turn[t].object # NoSession =>
          Belongs(turn[t].session, turn[t].project, turn[t].object)
    /\ From(turn[t].context, turn[t].object)

\* What the dictionary and the file hold of a session.
SessionClause(s) ==
    /\ sessions[s] # NoSession => Belongs(s, projects[s], sessions[s])
    /\ disk[s].object # NoSession =>
          Belongs(s, disk[s].project, disk[s].object) /\ From(disk[s].messages, disk[s].object)
    /\ disk[s].object = NoSession => disk[s] = Unsaved

ApartInv ==
    /\ \A t \in Turns : TurnClause(t)
    /\ \A s \in Sessions : SessionClause(s)
    /\ \A o \in Objects : From(messages[o], o)

\* What the answered turns left in an object is in the file of its session.
SavedClause(s, o) ==
    sessions[s] = o =>
        \A i \in DOMAIN messages[o] : turn[messages[o][i].turn].phase = "answered" =>
            /\ disk[s].object = o
            /\ \E j \in DOMAIN disk[s].messages : disk[s].messages[j] = messages[o][i]

SavedInv ==
    /\ \A s \in Sessions, o \in Objects : SavedClause(s, o)
    /\ \A s \in Sessions : Tokens(disk[s].messages) <= MaxTokens

ChatInv == ChatTyped /\ InBudget /\ ApartInv /\ SavedInv /\ DeletedStaysDeleted

\* ms is part of ns.
Within(ms, ns) == \A i \in DOMAIN ms : \E j \in DOMAIN ns : ms[i] = ns[j]

LEMMA MessagesHaveTurns ==
  ASSUME NEW ms \in Seq(Message)
  PROVE  \A i \in DOMAIN ms : ms[i].turn \in Turns
  <1>1. \A i \in DOMAIN ms : ms[i] \in Message
    BY LenProperties
  <1> QED
    BY <1>1 DEF Message

\* Trimming takes messages out, until the rest is within the limit.
LEMMA TrimmedFacts ==
  ASSUME NEW ms \in Seq(Message)
  PROVE  /\ Trimmed(ms) \in Seq(Message)
         /\ Tokens(Trimmed(ms)) <= MaxTokens
         /\ Within(Trimmed(ms), ms)
  <1> DEFINE fits == {n \in 1..(Len(ms) + 1) : Tokens(SubSeq(ms, n, Len(ms))) <= MaxTokens}
             Below == {pair \in Nat \X Nat : pair[1] < pair[2]}
             first == CHOOSE n \in fits : \A k \in fits : n <= k
  <1>0. Len(ms) \in Nat
    OBVIOUS
  <1>1. Len(ms) + 1 \in fits
    <2> DEFINE last == Len(ms) + 1
               rest == SubSeq(ms, last, Len(ms))
    <2>1. last \in 1..(Len(ms) + 1)
      BY <1>0
    <2>2. rest = <<>>
      BY <1>0, SubSeqEmpty
    <2>3. Tokens(<<>>) <= MaxTokens
      BY ChatAssumption
    <2> HIDE DEF rest
    <2>4. Tokens(rest) <= MaxTokens
      BY <2>2, <2>3
    <2> QED
      BY <2>1, <2>4 DEF rest
  <1>2. fits \subseteq Nat
    BY <1>0
  <1>3. PICK x \in fits : \A y \in fits : <<y, x>> \notin Below
    <2>1. IsWellFoundedOn(Below, Nat)
      BY NatLessThanWellFounded DEF OpToRel
    <2> HIDE DEF Below, fits
    <2> QED
      BY <1>1, <1>2, <2>1, WFMin
  <1>4. \A y \in fits : x <= y
    <2> SUFFICES ASSUME NEW y \in fits PROVE x <= y
      OBVIOUS
    <2>1. x \in Nat /\ y \in Nat /\ ~(y < x)
      BY <1>2, <1>3
    <2> QED
      BY <2>1
  <1>5. first \in fits
    <2> HIDE DEF fits
    <2> QED
      BY <1>4
  <1>6. first \in 1..(Len(ms) + 1) /\ Tokens(SubSeq(ms, first, Len(ms))) <= MaxTokens
    BY <1>5
  <1>7. Trimmed(ms) = SubSeq(ms, first, Len(ms))
    BY DEF Trimmed
  <1> HIDE DEF first
  <1>8. /\ SubSeq(ms, first, Len(ms)) \in Seq(Message)
        /\ Len(SubSeq(ms, first, Len(ms))) = IF first <= Len(ms) THEN Len(ms) - first + 1 ELSE 0
        /\ \A i \in 1 .. Len(ms) - first + 1 : SubSeq(ms, first, Len(ms))[i] = ms[first + i - 1]
    BY <1>0, <1>6, SubSeqProperties
  <1>9. Within(SubSeq(ms, first, Len(ms)), ms)
    <2> DEFINE q == SubSeq(ms, first, Len(ms))
    <2> SUFFICES ASSUME NEW i \in DOMAIN q PROVE \E j \in DOMAIN ms : q[i] = ms[j]
      BY DEF Within
    <2>1. i \in 1..Len(q) /\ DOMAIN ms = 1..Len(ms)
      BY <1>8
    <2>2. i \in 1 .. Len(ms) - first + 1
      BY <1>0, <1>6, <1>8, <2>1
    <2>3. q[i] = ms[first + i - 1] /\ first + i - 1 \in 1..Len(ms)
      BY <1>0, <1>6, <1>8, <2>2
    <2> QED
      BY <2>1, <2>3
  <1> QED
    BY <1>6, <1>7, <1>8, <1>9

\* Messages within the limit are all kept.
LEMMA TrimmedKeeps ==
  ASSUME NEW ms \in Seq(Message), Tokens(ms) <= MaxTokens
  PROVE  Trimmed(ms) = ms
  <1> DEFINE fits == {n \in 1..(Len(ms) + 1) : Tokens(SubSeq(ms, n, Len(ms))) <= MaxTokens}
             first == CHOOSE n \in fits : \A k \in fits : n <= k
  <1>0. Len(ms) \in Nat
    OBVIOUS
  <1>1. SubSeq(ms, 1, Len(ms)) = ms
    <2>1. /\ SubSeq(ms, 1, Len(ms)) \in Seq(Message)
          /\ Len(SubSeq(ms, 1, Len(ms))) = Len(ms)
          /\ \A i \in 1 .. Len(ms) : SubSeq(ms, 1, Len(ms))[i] = ms[i]
      BY <1>0, SubSeqProperties
    <2> QED
      BY <2>1, SeqEqual
  <1>2. 1 \in fits
    <2>1. 1 \in 1..(Len(ms) + 1)
      BY <1>0
    <2> QED
      BY <1>1, <2>1
  <1>3. \A k \in fits : 1 <= k /\ k \in Nat
    BY <1>0
  <1> HIDE DEF fits
  <1>4. first \in fits /\ \A k \in fits : first <= k
    BY <1>2, <1>3
  <1>5. first = 1
    <2>1. first <= 1 /\ 1 <= first /\ first \in Nat
      BY <1>2, <1>3, <1>4
    <2> HIDE DEF first
    <2> QED
      BY <2>1
  <1>6. Trimmed(ms) = SubSeq(ms, first, Len(ms))
    BY DEF Trimmed, first, fits
  <1> HIDE DEF first
  <1> QED
    BY <1>1, <1>5, <1>6

\* A message is added, and the rest trimmed.
LEMMA AddedFacts ==
  ASSUME NEW ms \in Seq(Message), NEW m \in Message
  PROVE  /\ Trimmed(Append(ms, m)) \in Seq(Message)
         /\ Tokens(Trimmed(Append(ms, m))) <= MaxTokens
         /\ \A i \in DOMAIN Trimmed(Append(ms, m)) :
               \/ Trimmed(Append(ms, m))[i] = m
               \/ \E j \in DOMAIN ms : Trimmed(Append(ms, m))[i] = ms[j]
  <1> DEFINE a == Append(ms, m)
  <1>1. /\ a \in Seq(Message) /\ Len(a) = Len(ms) + 1 /\ Len(ms) \in Nat
        /\ \A i \in 1..Len(ms) : a[i] = ms[i]
        /\ a[Len(ms) + 1] = m
    BY AppendProperties
  <1>2. \A j \in DOMAIN a : a[j] = m \/ \E k \in DOMAIN ms : a[j] = ms[k]
    <2> SUFFICES ASSUME NEW j \in DOMAIN a PROVE a[j] = m \/ \E k \in DOMAIN ms : a[j] = ms[k]
      OBVIOUS
    <2>1. j \in 1 .. Len(ms) + 1 /\ DOMAIN ms = 1..Len(ms)
      BY <1>1
    <2>2. j = Len(ms) + 1 \/ j \in 1..Len(ms)
      BY <1>1, <2>1
    <2> QED
      BY <1>1, <2>1, <2>2
  <1> HIDE DEF a
  <1>3. Trimmed(a) \in Seq(Message) /\ Tokens(Trimmed(a)) <= MaxTokens /\ Within(Trimmed(a), a)
    BY <1>1, TrimmedFacts
  <1>4. \A i \in DOMAIN Trimmed(a) :
           Trimmed(a)[i] = m \/ \E j \in DOMAIN ms : Trimmed(a)[i] = ms[j]
    BY <1>2, <1>3 DEF Within
  <1> QED
    BY <1>3, <1>4 DEF a

\* The context of a turn is what is before its question.
LEMMA FrontFacts ==
  ASSUME NEW ms \in Seq(Message), ms # <<>>
  PROVE  Front(ms) \in Seq(Message) /\ Within(Front(ms), ms)
  <1>0. Len(ms) \in Nat /\ Len(ms) > 0 /\ DOMAIN ms = 1..Len(ms)
    BY EmptySeq
  <1>1. /\ Front(ms) \in Seq(Message) /\ Len(Front(ms)) = Len(ms) - 1
        /\ \A i \in 1 .. Len(ms) - 1 : Front(ms)[i] = ms[i]
    <2>1. /\ SubSeq(ms, 1, Len(ms) - 1) \in Seq(Message)
          /\ Len(SubSeq(ms, 1, Len(ms) - 1)) =
                IF 1 <= Len(ms) - 1 THEN (Len(ms) - 1) - 1 + 1 ELSE 0
          /\ \A i \in 1 .. (Len(ms) - 1) - 1 + 1 :
                SubSeq(ms, 1, Len(ms) - 1)[i] = ms[1 + i - 1]
      BY <1>0, SubSeqProperties
    <2> QED
      BY <1>0, <2>1 DEF Front
  <1> QED
    BY <1>0, <1>1 DEF Within

-----------------------------------------------------------------------------
(* What the actions do to the sessions.                                     *)

LEMMA NoSessionIsNone == NoSession \notin Objects /\ Turns = Runs
  BY ChatAssumption DEF Objects

LEMMA Said ==
  ASSUME NEW t \in Turns
  PROVE  /\ User(t) \in Message /\ User(t).turn = t /\ User(t).role = "user"
         /\ Reply(t) \in Message /\ Reply(t).turn = t /\ Reply(t).role = "assistant"
  BY DEF User, Reply, Message

LEMMA EmptyIsShort == <<>> \in Seq(Message) /\ Tokens(<<>>) <= MaxTokens /\ DOMAIN <<>> = {}
  BY ChatAssumption

\* A turn begins on the object of its session, or makes one.
BeginsOn(t, s, p, o, ms, ctx) ==
    /\ o = IF sessions[s] = NoSession THEN t ELSE sessions[s]
    /\ Tokens(ms) <= MaxTokens
    /\ \A i \in DOMAIN ms :
         ms[i] = User(t) \/ \E j \in DOMAIN messages[o] : ms[i] = messages[o][j]
    /\ Within(ctx, ms)
    /\ turn' = [turn EXCEPT ![t] = [phase |-> "asking", session |-> s, project |-> p,
                                    object |-> o, context |-> ctx]]
    /\ sessions' = [sessions EXCEPT ![s] = o]
    /\ projects' = [projects EXCEPT ![s] = p]
    /\ messages' = [messages EXCEPT ![o] = ms]
    /\ disk' = disk /\ crashes' = crashes
    /\ turn[t].object = NoSession
    /\ sessions[s] = NoSession \/ projects[s] = p

LEMMA BeginFacts ==
  ASSUME ChatInv, NEW t \in Turns, NEW s \in Sessions, NEW p \in Projects, ChatBegin(t, s, p)
  PROVE  \E o \in Objects, ms \in Seq(Message), ctx \in Seq(Message) :
            BeginsOn(t, s, p, o, ms, ctx)
  <1> DEFINE o   == IF sessions[s] = NoSession THEN t ELSE sessions[s]
             ms  == Trimmed(Append(messages[o], User(t)))
             ctx == IF ms = <<>> THEN <<>> ELSE Front(ms)
  <1>1. o \in Objects
    BY DEF ChatInv, ChatTyped, Objects
  <1>2. messages[o] \in Seq(Message)
    BY <1>1 DEF ChatInv, ChatTyped
  <1>3. /\ turn' = [turn EXCEPT ![t] = [phase |-> "asking", session |-> s, project |-> p,
                                        object |-> o, context |-> ctx]]
        /\ sessions' = [sessions EXCEPT ![s] = o]
        /\ projects' = [projects EXCEPT ![s] = p]
        /\ messages' = [messages EXCEPT ![o] = ms]
        /\ disk' = disk /\ crashes' = crashes
        /\ turn[t].phase = "new" /\ ProjectFits(s, p)
    BY DEF ChatBegin
  <1>4. o = IF sessions[s] = NoSession THEN t ELSE sessions[s]
    OBVIOUS
  <1> HIDE DEF o
  <1>5. /\ ms \in Seq(Message) /\ Tokens(ms) <= MaxTokens
        /\ \A i \in DOMAIN ms :
             ms[i] = User(t) \/ \E j \in DOMAIN messages[o] : ms[i] = messages[o][j]
    BY <1>2, Said, AddedFacts
  <1> HIDE DEF ms
  <1>6. ctx \in Seq(Message) /\ Within(ctx, ms)
    <2>1. CASE ms = <<>>
      BY <2>1, EmptyIsShort DEF Within
    <2>2. CASE ms # <<>>
      BY <1>5, <2>2, FrontFacts
    <2> QED
      BY <2>1, <2>2
  <1> HIDE DEF ctx
  <1>7. turn[t].object = NoSession /\ (sessions[s] = NoSession \/ projects[s] = p)
    BY <1>3 DEF ProjectFits, ChatInv, ApartInv, TurnClause
  <1> QED
    BY <1>1, <1>3, <1>4, <1>5, <1>6, <1>7 DEF BeginsOn

\* A turn is answered, on the object it has held since it began.
AnswersOn(t, o, ms) ==
    /\ o = turn[t].object
    /\ Tokens(ms) <= MaxTokens
    /\ \A i \in DOMAIN ms :
         ms[i] = Reply(t) \/ \E j \in DOMAIN messages[o] : ms[i] = messages[o][j]
    /\ turn' = [turn EXCEPT ![t].phase = "answered", ![t].context = <<>>]
    /\ messages' = [messages EXCEPT ![o] = ms]
    /\ disk' = [s \in Sessions |->
                  IF sessions[s] = NoSession THEN Unsaved
                  ELSE [object |-> sessions[s], project |-> projects[s],
                        messages |-> messages'[sessions[s]]]]
    /\ sessions' = sessions /\ projects' = projects /\ crashes' = crashes

LEMMA AnswerFacts ==
  ASSUME ChatInv, NEW t \in Turns, ChatAnswer(t)
  PROVE  \E o \in Objects, ms \in Seq(Message) :
            AnswersOn(t, o, ms)
  <1> DEFINE o  == turn[t].object
             ms == Trimmed(Append(messages[o], Reply(t)))
  <1>1. o \in Objects
    BY DEF ChatInv, ChatTyped, TurnType, ApartInv, TurnClause, ChatAnswer
  <1>2. messages[o] \in Seq(Message)
    BY <1>1 DEF ChatInv, ChatTyped
  <1>3. /\ turn' = [turn EXCEPT ![t].phase = "answered", ![t].context = <<>>]
        /\ disk' = [s \in Sessions |->
                      IF sessions[s] = NoSession THEN Unsaved
                      ELSE [object |-> sessions[s], project |-> projects[s],
                            messages |-> messages'[sessions[s]]]]
        /\ sessions' = sessions /\ projects' = projects /\ crashes' = crashes
    BY DEF ChatAnswer, Saved
  <1>4. messages' = [messages EXCEPT ![o] = ms]
    BY DEF ChatAnswer, ObjectOf
  <1> HIDE DEF o
  <1>5. /\ ms \in Seq(Message) /\ Tokens(ms) <= MaxTokens
        /\ \A i \in DOMAIN ms :
             ms[i] = Reply(t) \/ \E j \in DOMAIN messages[o] : ms[i] = messages[o][j]
    BY <1>2, Said, AddedFacts
  <1> HIDE DEF ms
  <1> QED
    BY <1>1, <1>3, <1>4, <1>5 DEF o, AnswersOn

\* The file that a crash leaves is the last one or a cut one.
LEMMA LeftFacts ==
  ASSUME ChatInv, Crash
  PROVE  /\ \A s \in Sessions : disk'[s] = disk[s] \/ disk'[s] = Unsaved
         /\ disk' \in [Sessions -> DiskType]
         /\ \A s \in Sessions : Tokens(disk'[s].messages) <= MaxTokens
         /\ disk' = disk \/ disk' = NothingSaved
         /\ \A s \in Sessions, r \in Sessions :
               disk'[s].object # NoSession /\ disk'[r].object = disk'[s].object => r = s
  <1>1. disk' = disk \/ disk' = NothingSaved
    BY DEF Crash, FilesLeft
  <1>2. \A s \in Sessions : disk'[s] = disk[s] \/ disk'[s] = Unsaved
    BY <1>1 DEF NothingSaved
  <1>3. Unsaved \in DiskType /\ Unsaved.messages = <<>> /\ Unsaved.object = NoSession
    BY EmptyIsShort DEF Unsaved, DiskType
  <1>4. disk' \in [Sessions -> DiskType]
    BY <1>1, <1>3 DEF ChatInv, ChatTyped, NothingSaved
  <1>5. \A s \in Sessions : Tokens(disk'[s].messages) <= MaxTokens
    BY <1>2, <1>3, EmptyIsShort DEF ChatInv, SavedInv
  <1>6. ASSUME NEW s \in Sessions, NEW r \in Sessions,
               disk'[s].object # NoSession, disk'[r].object = disk'[s].object
        PROVE  r = s
    <2>1. disk'[s] = disk[s] /\ disk'[r] = disk[r]
      BY <1>2, <1>3, <1>6
    <2> QED
      BY <1>6, <2>1 DEF ChatInv, ApartInv, SessionClause, Belongs
  <1> QED
    BY <1>1, <1>2, <1>4, <1>5, <1>6

\* What a restart loads: of a session in the file, all that the file has of it.
LEMMA CrashFacts ==
  ASSUME ChatInv, Crash
  PROVE  /\ \A o \in Objects :
               /\ messages'[o] \in Seq(Message) /\ Tokens(messages'[o]) <= MaxTokens
               /\ messages'[o] # <<>> =>
                    \E s \in Sessions : disk'[s].object = o
               /\ \A s \in Sessions : disk'[s].object = o => messages'[o] = disk'[s].messages
         /\ messages' \in [Objects -> Seq(Message)]
         /\ sessions' = [s \in Sessions |-> disk'[s].object]
         /\ projects' = [s \in Sessions |-> disk'[s].project]
         /\ \A t \in Turns :
               turn'[t] = IF turn[t].phase = "asking"
                            THEN [turn[t] EXCEPT !.phase = "dead", !.context = <<>>] ELSE turn[t]
         /\ DOMAIN turn' = Turns /\ turn' = [t \in Turns |-> turn'[t]]
         /\ crashes' = crashes + 1 /\ crashes < MaxCrashes
  <1>0. /\ disk' \in [Sessions -> DiskType]
        /\ \A s \in Sessions : Tokens(disk'[s].messages) <= MaxTokens
        /\ \A s \in Sessions, r \in Sessions :
              disk'[s].object # NoSession /\ disk'[r].object = disk'[s].object => r = s
    BY LeftFacts
  <1>1. ASSUME NEW o \in Objects
        PROVE  /\ messages'[o] \in Seq(Message) /\ Tokens(messages'[o]) <= MaxTokens
               /\ messages'[o] # <<>> => \E s \in Sessions : disk'[s].object = o
               /\ \A s \in Sessions : disk'[s].object = o => messages'[o] = disk'[s].messages
    <2>1. CASE \E s \in Sessions : disk'[s].object = o
      <3> DEFINE s == CHOOSE s \in Sessions : disk'[s].object = o
      <3>1. s \in Sessions /\ disk'[s].object = o
        BY <2>1
      <3>2. messages'[o] = Trimmed(disk'[s].messages)
        BY <2>1 DEF Crash
      <3> HIDE DEF s
      <3>3. disk'[s].messages \in Seq(Message) /\ Tokens(disk'[s].messages) <= MaxTokens
        BY <1>0, <3>1 DEF DiskType
      <3>4. messages'[o] = disk'[s].messages
        BY <3>2, <3>3, TrimmedKeeps
      <3>5. o # NoSession
        BY NoSessionIsNone
      <3>6. \A r \in Sessions : disk'[r].object = o => r = s
        BY <1>0, <3>1, <3>5
      <3> QED
        BY <2>1, <3>3, <3>4, <3>6
    <2>2. CASE ~\E s \in Sessions : disk'[s].object = o
      <3>1. messages'[o] = <<>>
        BY <2>2 DEF Crash
      <3> QED
        BY <2>2, <3>1, EmptyIsShort
    <2> QED
      BY <2>1, <2>2
  <1>2. messages' \in [Objects -> Seq(Message)]
    <2>1. messages' = [o \in Objects |-> messages'[o]]
      BY DEF Crash
    <2> QED
      BY <1>1, <2>1
  <1> QED
    BY <1>1, <1>2 DEF Crash

\* The other steps of a turn leave its place, and end it or drop its context.
Kept ==
    \A u \in Turns :
        /\ turn'[u].object = turn[u].object
        /\ turn'[u].session = turn[u].session /\ turn'[u].project = turn[u].project
        /\ turn'[u].context = turn[u].context \/ turn'[u].context = <<>>
        /\ \/ turn'[u].phase = turn[u].phase
           \/ turn'[u].phase \in {"answered", "failed", "dead"}
           \/ turn'[u].phase = "refused" /\ turn[u].phase = "new"

LEMMA KeptTurns ==
  ASSUME ChatTyped, ApartInv, Kept
  PROVE  /\ \A t \in Turns : TurnClause(t)'
         /\ \A ms \in Seq(Message) : \A o : From(ms, o) =>
               \A i \in DOMAIN ms : turn'[ms[i].turn].object = o
         /\ \A s, p, o : o \in Objects /\ Belongs(s, p, o) =>
               turn'[o].object = o /\ turn'[o].session = s /\ turn'[o].project = p
  <1>1. ASSUME NEW ms \in Seq(Message), NEW o, From(ms, o)
        PROVE  \A i \in DOMAIN ms : turn'[ms[i].turn].object = o
    <2>1. \A i \in DOMAIN ms : ms[i].turn \in Turns
      BY MessagesHaveTurns
    <2> QED
      BY <1>1, <2>1 DEF From, Kept
  <1>2. ASSUME NEW s, NEW p, NEW o \in Objects, Belongs(s, p, o)
        PROVE  turn'[o].object = o /\ turn'[o].session = s /\ turn'[o].project = p
    BY <1>2 DEF Belongs, Kept, Objects
  <1>3. ASSUME NEW t \in Turns
        PROVE  TurnClause(t)'
    <2>0. /\ TurnClause(t) /\ turn[t].context \in Seq(Message)
          /\ turn[t].object \in Objects \cup {NoSession}
      BY DEF ApartInv, ChatTyped, TurnType
    <2>1. /\ turn'[t].phase \in {"new", "refused"} => turn'[t].object = NoSession
          /\ turn'[t].phase = "asking" => turn'[t].object # NoSession
          /\ turn'[t].object = NoSession => turn'[t].context = <<>>
      BY <2>0 DEF TurnClause, Kept
    <2>2. \A i \in DOMAIN turn'[t].context :
            turn'[turn'[t].context[i].turn].object = turn'[t].object
      <3>1. CASE turn'[t].context = <<>>
        BY <3>1, EmptyIsShort
      <3>2. CASE turn'[t].context = turn[t].context
        BY <1>1, <2>0, <3>2 DEF TurnClause, Kept
      <3> QED
        BY <3>1, <3>2 DEF Kept
    <2>3. ASSUME turn'[t].object # NoSession
          PROVE  Belongs(turn[t].session, turn[t].project, turn[t].object)'
      <3>1. /\ turn[t].object \in Objects
            /\ Belongs(turn[t].session, turn[t].project, turn[t].object)
        BY <2>0, <2>3 DEF TurnClause, Kept
      <3> QED
        BY <1>2, <3>1 DEF Belongs, Kept
    <2> QED
      BY <2>1, <2>2, <2>3 DEF TurnClause, From
  <1> QED
    BY <1>1, <1>2, <1>3

\* A step that leaves the sessions alone.
LEMMA ChatStays ==
  ASSUME ChatInv, UNCHANGED chatVars
  PROVE  ChatInv'
  <1>1. ChatTyped' /\ InBudget'
    BY DEF ChatInv, ChatTyped, InBudget, chatVars
  <1>2. ApartInv'
    BY DEF ChatInv, ApartInv, TurnClause, SessionClause, From, Belongs, chatVars
  <1>3. SavedInv' /\ DeletedStaysDeleted'
    BY DEF ChatInv, SavedInv, SavedClause, DeletedStaysDeleted, chatVars
  <1> QED
    BY <1>1, <1>2, <1>3 DEF ChatInv

\* Two sessions have two objects.
LEMMA OneSession ==
  ASSUME ChatInv, NEW s \in Sessions, NEW r \in Sessions, sessions[s] # NoSession,
         sessions[r] = sessions[s] \/ disk[r].object = sessions[s]
  PROVE  r = s
  BY DEF ChatInv, ApartInv, SessionClause, Belongs

LEMMA ChatBeginStep ==
  ASSUME ChatInv, NEW t \in Turns, NEW s \in Sessions, NEW p \in Projects, ChatBegin(t, s, p)
  PROVE  ChatInv'
  <1>0. PICK o \in Objects, ms \in Seq(Message), ctx \in Seq(Message) :
            BeginsOn(t, s, p, o, ms, ctx)
    BY BeginFacts
  <1> USE DEF BeginsOn
  <1>1. /\ ChatTyped /\ InBudget /\ ApartInv
        /\ SavedInv /\ DeletedStaysDeleted /\ NoSession \notin Objects
    BY NoSessionIsNone DEF ChatInv
  <1>2. ChatTyped'
    <2>1. turn' \in [Turns -> TurnType]
      <3>1. [phase |-> "asking", session |-> s, project |-> p,
             object |-> o, context |-> ctx] \in TurnType
        BY DEF TurnType
      <3> QED
        BY <1>0, <1>1, <3>1 DEF ChatTyped
    <2> QED
      BY <1>0, <1>1, <2>1 DEF ChatTyped
  <1>3. InBudget'
    BY <1>0, <1>1 DEF ChatTyped, InBudget
  <1>4. /\ \A u \in Turns \ {t} : turn'[u] = turn[u]
        /\ turn'[t].phase = "asking" /\ turn'[t].session = s /\ turn'[t].project = p
        /\ turn'[t].object = o /\ turn'[t].context = ctx
    BY <1>0, <1>1 DEF ChatTyped
  <1>5. ASSUME NEW ns \in Seq(Message), NEW x \in Objects, From(ns, x)
        PROVE  \A i \in DOMAIN ns : turn'[ns[i].turn].object = x
    <2>1. \A i \in DOMAIN ns : ns[i].turn \in Turns
      BY MessagesHaveTurns
    <2> QED
      BY <1>0, <1>1, <1>4, <1>5, <2>1 DEF From
  <1>6. ASSUME NEW r, NEW q, NEW x \in Objects, Belongs(r, q, x)
        PROVE  Belongs(r, q, x)'
    BY <1>0, <1>1, <1>4, <1>6 DEF Belongs, Objects
  <1>7. Belongs(s, p, o)'
    <2>1. CASE sessions[s] = NoSession
      BY <1>0, <1>4, <2>1 DEF Belongs
    <2>2. CASE sessions[s] # NoSession
      BY <1>0, <1>1, <1>6, <2>2 DEF ApartInv, SessionClause
    <2> QED
      BY <2>1, <2>2
  <1>8. \A i \in DOMAIN ms : turn'[ms[i].turn].object = o
    <2>1. From(messages[o], o) /\ messages[o] \in Seq(Message)
      BY <1>1 DEF ApartInv, ChatTyped
    <2>2. \A j \in DOMAIN messages[o] : turn'[messages[o][j].turn].object = o
      BY <1>5, <2>1
    <2> QED
      BY <1>0, <1>4, <2>2, Said
  <1>9. ApartInv'
    <2>1. ASSUME NEW u \in Turns
          PROVE  TurnClause(u)'
      <3>1. CASE u = t
        <4>1. \A i \in DOMAIN ctx : turn'[ctx[i].turn].object = o
          BY <1>0, <1>8 DEF Within
        <4> QED
          BY <1>1, <1>4, <1>7, <3>1, <4>1 DEF TurnClause, From, Belongs
      <3>2. CASE u # t
        <4>1. /\ TurnClause(u) /\ turn'[u] = turn[u] /\ turn[u].context \in Seq(Message)
              /\ turn[u].object \in Objects \cup {NoSession}
          BY <1>1, <1>4, <3>2 DEF ApartInv, ChatTyped, TurnType
        <4>2. CASE turn[u].object = NoSession
          BY <4>1, <4>2, EmptyIsShort DEF TurnClause, From
        <4>3. CASE turn[u].object # NoSession
          <5>1. turn[u].object \in Objects
            BY <4>1, <4>3
          <5>2. \A i \in DOMAIN turn[u].context :
                  turn'[turn[u].context[i].turn].object = turn[u].object
            BY <1>5, <4>1, <5>1 DEF TurnClause
          <5>3. Belongs(turn[u].session, turn[u].project, turn[u].object)'
            BY <1>6, <4>1, <4>3, <5>1 DEF TurnClause, Belongs
          <5> QED
            BY <4>1, <4>3, <5>2, <5>3 DEF TurnClause, From, Belongs
        <4> QED
          BY <4>2, <4>3
      <3> QED
        BY <3>1, <3>2
    <2>2. ASSUME NEW r \in Sessions
          PROVE  SessionClause(r)'
      <3>1. SessionClause(r)
        BY <1>1 DEF ApartInv
      <3>2. disk[r].object # NoSession => disk[r].object \in Objects
        BY <1>1 DEF ChatTyped, DiskType
      <3>3. disk[r].messages \in Seq(Message)
        BY <1>1 DEF ChatTyped, DiskType
      <3>4. disk[r].object # NoSession =>
               /\ Belongs(r, disk[r].project, disk[r].object)'
               /\ From(disk[r].messages, disk[r].object)'
        <4> SUFFICES ASSUME disk[r].object # NoSession
                     PROVE  /\ Belongs(r, disk[r].project, disk[r].object)'
                            /\ From(disk[r].messages, disk[r].object)'
          OBVIOUS
        <4>1. /\ Belongs(r, disk[r].project, disk[r].object)
              /\ From(disk[r].messages, disk[r].object)
          BY <3>1 DEF SessionClause
        <4>2. turn'[disk[r].object].object = disk[r].object
              /\ turn'[disk[r].object].session = r
              /\ turn'[disk[r].object].project = disk[r].project
          BY <1>6, <3>2, <4>1 DEF Belongs
        <4>3. \A i \in DOMAIN disk[r].messages :
                 turn'[disk[r].messages[i].turn].object = disk[r].object
          BY <1>5, <3>2, <3>3, <4>1
        <4> QED
          BY <1>0, <4>2, <4>3 DEF Belongs, From
      <3>5. sessions'[r] # NoSession => Belongs(r, projects[r], sessions[r])'
        <4>1. CASE r = s
          <5>1. sessions'[r] = o /\ projects'[r] = p
            BY <1>0, <1>1, <4>1 DEF ChatTyped
          <5> QED
            BY <1>7, <4>1, <5>1 DEF Belongs
        <4>2. CASE r # s
          <5>1. sessions'[r] = sessions[r] /\ projects'[r] = projects[r]
                /\ sessions[r] \in Objects \cup {NoSession}
            BY <1>0, <1>1, <4>2 DEF ChatTyped
          <5> QED
            BY <1>6, <3>1, <5>1 DEF SessionClause, Belongs
        <4> QED
          BY <4>1, <4>2
      <3> QED
        BY <1>0, <3>1, <3>4, <3>5 DEF SessionClause
    <2>3. ASSUME NEW x \in Objects
          PROVE  From(messages[x], x)'
      <3>1. CASE x = o
        <4>1. messages'[x] = ms
          BY <1>0, <1>1, <3>1 DEF ChatTyped
        <4> QED
          BY <1>8, <3>1, <4>1 DEF From
      <3>2. CASE x # o
        <4>1. messages'[x] = messages[x] /\ messages[x] \in Seq(Message) /\ From(messages[x], x)
          BY <1>0, <1>1, <3>2 DEF ChatTyped, ApartInv
        <4>2. \A i \in DOMAIN messages[x] : turn'[messages[x][i].turn].object = x
          BY <1>5, <4>1
        <4> QED
          BY <4>1, <4>2 DEF From
      <3> QED
        BY <3>1, <3>2
    <2> QED
      BY <2>1, <2>2, <2>3 DEF ApartInv
  <1>10. SavedInv'
    <2>9. \A r \in Sessions : Tokens(disk'[r].messages) <= MaxTokens
      BY <1>0, <1>1 DEF SavedInv
    <2> SUFFICES ASSUME NEW r \in Sessions, NEW x \in Objects, sessions'[r] = x,
                        NEW i \in DOMAIN messages'[x],
                        turn'[messages'[x][i].turn].phase = "answered"
                 PROVE  /\ disk'[r].object = x
                        /\ \E j \in DOMAIN disk'[r].messages :
                             disk'[r].messages[j] = messages'[x][i]
      BY <2>9 DEF SavedInv, SavedClause
    <2>0. disk' = disk
      BY <1>0
    <2>8. messages'[x][i].turn # t /\ turn[messages'[x][i].turn].phase = "answered"
      <3>1. messages'[x] \in Seq(Message)
        BY <1>2 DEF ChatTyped
      <3>2. messages'[x][i].turn \in Turns
        BY <3>1, MessagesHaveTurns
      <3> QED
        BY <1>4, <3>2
    <2>1. CASE x = o
      <3>1. messages'[x] = ms
        BY <1>0, <1>1, <2>1 DEF ChatTyped
      <3>2. PICK j \in DOMAIN messages[o] : ms[i] = messages[o][j]
        BY <1>0, <2>8, <3>1, Said
      <3>3. sessions[s] # NoSession
        <4>1. turn[messages[o][j].turn].object = o /\ messages[o][j].turn \in Turns
          BY <1>1, <3>2, MessagesHaveTurns DEF ApartInv, From, ChatTyped
        <4>2. turn[o].object = o
          BY <1>1, <4>1 DEF ApartInv, TurnClause, Belongs
        <4> QED
          BY <1>0, <1>1, <4>2
      <3>4. o = sessions[s]
        BY <1>0, <3>3
      <3>5. r = s
        BY <1>0, <1>1, <2>1, <3>3, <3>4, OneSession DEF ChatTyped
      <3> QED
        BY <1>1, <2>0, <2>1, <2>8, <3>1, <3>2, <3>4, <3>5 DEF SavedInv, SavedClause
    <2>2. CASE x # o
      <3>1. messages'[x] = messages[x] /\ sessions[r] = x
        BY <1>0, <1>1, <2>2 DEF ChatTyped
      <3> QED
        BY <1>1, <2>0, <2>8, <3>1 DEF SavedInv, SavedClause
    <2> QED
      BY <2>1, <2>2
  <1>11. DeletedStaysDeleted'
    BY <1>0, <1>1 DEF DeletedStaysDeleted, ChatTyped
  <1> QED
    BY <1>2, <1>3, <1>9, <1>10, <1>11 DEF ChatInv

\* What the dictionary and the file hold, after a step that leaves turns in place.
LEMMA KeptSessions ==
  ASSUME ChatInv, Kept,
         \A s \in Sessions : sessions'[s] # NoSession =>
            \/ sessions'[s] = sessions[s] /\ projects'[s] = projects[s]
            \/ sessions'[s] = disk[s].object /\ projects'[s] = disk[s].project,
         \A s \in Sessions :
            \/ disk'[s] = disk[s]
            \/ disk'[s] = Unsaved
            \/ /\ disk'[s].object = sessions[s] /\ disk'[s].project = projects[s]
               /\ sessions[s] # NoSession
               /\ disk'[s].messages = messages'[sessions[s]],
         \A o \in Objects : \A i \in DOMAIN messages'[o] :
            turn[messages'[o][i].turn].object = o /\ messages'[o][i].turn \in Turns
  PROVE  ApartInv'
  <1>0. /\ \A t \in Turns : TurnClause(t)'
        /\ \A ms \in Seq(Message) : \A o : From(ms, o) =>
              \A i \in DOMAIN ms : turn'[ms[i].turn].object = o
        /\ \A s, p, o : o \in Objects /\ Belongs(s, p, o) =>
              turn'[o].object = o /\ turn'[o].session = s /\ turn'[o].project = p
    BY KeptTurns DEF ChatInv
  <1>1. ASSUME NEW o \in Objects
        PROVE  From(messages[o], o)'
    BY DEF From, Kept
  <1>2. ASSUME NEW s \in Sessions
        PROVE  SessionClause(s)'
    <2>0. /\ SessionClause(s) /\ sessions[s] \in Objects \cup {NoSession}
          /\ disk[s].object \in Objects \cup {NoSession} /\ disk[s].messages \in Seq(Message)
      BY DEF ChatInv, ApartInv, ChatTyped, DiskType
    <2>1. ASSUME sessions'[s] # NoSession
          PROVE  Belongs(s, projects[s], sessions[s])'
      <3>1. CASE sessions'[s] = sessions[s] /\ projects'[s] = projects[s]
        BY <1>0, <2>0, <2>1, <3>1 DEF SessionClause, Belongs
      <3>2. CASE sessions'[s] = disk[s].object /\ projects'[s] = disk[s].project
        BY <1>0, <2>0, <2>1, <3>2 DEF SessionClause, Belongs
      <3> QED
        BY <2>1, <3>1, <3>2
    <2>2. /\ disk'[s].object # NoSession =>
               /\ Belongs(s, disk[s].project, disk[s].object)'
               /\ From(disk[s].messages, disk[s].object)'
          /\ disk'[s].object = NoSession => disk'[s] = Unsaved
      <3>1. CASE disk'[s] = disk[s]
        <4>1. ASSUME disk[s].object # NoSession
              PROVE  /\ Belongs(s, disk[s].project, disk[s].object)'
                     /\ From(disk[s].messages, disk[s].object)'
          <5>1. \A i \in DOMAIN disk[s].messages :
                   turn'[disk[s].messages[i].turn].object = disk[s].object
            BY <1>0, <2>0, <4>1 DEF SessionClause
          <5>2. /\ turn'[disk[s].object].object = disk[s].object
                /\ turn'[disk[s].object].session = s
                /\ turn'[disk[s].object].project = disk[s].project
            BY <1>0, <2>0, <4>1 DEF SessionClause
          <5> QED
            BY <3>1, <5>1, <5>2 DEF Belongs, From
        <4> QED
          BY <2>0, <3>1, <4>1 DEF SessionClause
      <3>2. CASE disk'[s] = Unsaved
        BY <3>2 DEF Unsaved
      <3>3. CASE /\ disk'[s].object = sessions[s] /\ disk'[s].project = projects[s]
                 /\ sessions[s] # NoSession
                 /\ disk'[s].messages = messages'[sessions[s]]
        <4>1. sessions[s] \in Objects
          BY <2>0, <3>3
        <4>2. \A i \in DOMAIN messages'[sessions[s]] :
                 turn'[messages'[sessions[s]][i].turn].object = sessions[s]
          BY <4>1 DEF Kept
        <4>3. /\ turn'[sessions[s]].object = sessions[s] /\ turn'[sessions[s]].session = s
              /\ turn'[sessions[s]].project = projects[s]
          BY <1>0, <2>0, <3>3, <4>1 DEF SessionClause
        <4> QED
          BY <3>3, <4>2, <4>3 DEF Belongs, From
      <3> QED
        BY <3>1, <3>2, <3>3
    <2> QED
      BY <2>1, <2>2 DEF SessionClause
  <1> QED
    BY <1>0, <1>1, <1>2 DEF ApartInv

LEMMA ChatAnswerStep ==
  ASSUME ChatInv, NEW t \in Turns, ChatAnswer(t)
  PROVE  ChatInv'
  <1>0. PICK o \in Objects, ms \in Seq(Message) : AnswersOn(t, o, ms)
    BY AnswerFacts
  <1> USE DEF AnswersOn
  <1>1. ChatTyped /\ InBudget /\ ApartInv /\ NoSession \notin Objects
    BY NoSessionIsNone DEF ChatInv
  <1>2. messages'[o] = ms /\ \A x \in Objects \ {o} : messages'[x] = messages[x]
    BY <1>0, <1>1 DEF ChatTyped
  <1>3. messages' \in [Objects -> Seq(Message)] /\ InBudget'
    BY <1>0, <1>1 DEF ChatTyped, InBudget
  <1>4. ASSUME NEW s \in Sessions, sessions[s] # NoSession
        PROVE  /\ disk'[s] = [object |-> sessions[s], project |-> projects[s],
                              messages |-> messages'[sessions[s]]]
               /\ sessions[s] \in Objects
    BY <1>0, <1>1, <1>4 DEF ChatTyped
  <1>5. ChatTyped'
    <2>1. turn' \in [Turns -> TurnType]
      <3>1. turn[t] \in TurnType /\ <<>> \in Seq(Message)
        BY <1>1, EmptyIsShort DEF ChatTyped
      <3>2. [turn[t] EXCEPT !.phase = "answered", !.context = <<>>] \in TurnType
        BY <3>1 DEF TurnType
      <3>3. turn' = [turn EXCEPT ![t] = [turn[t] EXCEPT !.phase = "answered", !.context = <<>>]]
        BY <1>0, <1>1 DEF ChatTyped, TurnType
      <3> QED
        BY <1>1, <3>2, <3>3 DEF ChatTyped
    <2>2. disk' \in [Sessions -> DiskType]
      <3>1. Unsaved \in DiskType
        BY EmptyIsShort DEF Unsaved, DiskType
      <3>2. ASSUME NEW s \in Sessions, sessions[s] # NoSession
            PROVE  [object |-> sessions[s], project |-> projects[s],
                    messages |-> messages'[sessions[s]]] \in DiskType
        BY <1>1, <1>3, <1>4, <3>2 DEF ChatTyped, DiskType
      <3> QED
        BY <1>0, <3>1, <3>2
    <2> QED
      BY <1>0, <1>1, <1>3, <2>1, <2>2 DEF ChatTyped
  <1>6. Kept
    BY <1>0, <1>1 DEF Kept, ChatTyped, TurnType
  <1>7. \A x \in Objects : \A i \in DOMAIN messages'[x] :
           turn[messages'[x][i].turn].object = x /\ messages'[x][i].turn \in Turns
    <2> SUFFICES ASSUME NEW x \in Objects, NEW i \in DOMAIN messages'[x]
                 PROVE  turn[messages'[x][i].turn].object = x /\ messages'[x][i].turn \in Turns
      OBVIOUS
    <2>1. \A j \in DOMAIN messages[x] :
             turn[messages[x][j].turn].object = x /\ messages[x][j].turn \in Turns
      BY <1>1, MessagesHaveTurns DEF ApartInv, From, ChatTyped
    <2>2. CASE x = o
      BY <1>0, <1>2, <2>1, <2>2, Said
    <2>3. CASE x # o
      BY <1>2, <2>1, <2>3
    <2> QED
      BY <2>2, <2>3
  <1>8. ApartInv'
    <2>1. \A s \in Sessions :
             \/ disk'[s] = Unsaved
             \/ /\ disk'[s].object = sessions[s] /\ disk'[s].project = projects[s]
                /\ sessions[s] # NoSession
                /\ disk'[s].messages = messages'[sessions[s]]
      BY <1>0, <1>4
    <2> QED
      BY <1>0, <1>6, <1>7, <2>1, KeptSessions
  <1>9. SavedInv'
    <2>1. ASSUME NEW s \in Sessions
          PROVE  Tokens(disk'[s].messages) <= MaxTokens
      <3>1. CASE sessions[s] = NoSession
        BY <1>0, <3>1, EmptyIsShort DEF Unsaved
      <3>2. CASE sessions[s] # NoSession
        <4>0. /\ disk'[s] = [object |-> sessions[s], project |-> projects[s],
                             messages |-> messages'[sessions[s]]]
              /\ sessions[s] \in Objects
          BY <1>4, <3>2
        <4>1. disk'[s].messages = messages'[sessions[s]] /\ sessions[s] \in Objects
          BY <4>0
        <4>2. Tokens(messages'[sessions[s]]) <= MaxTokens
          BY <1>3, <4>1 DEF InBudget
        <4> QED
          BY <4>1, <4>2
      <3> QED
        BY <3>1, <3>2
    <2> QED
      BY <1>0, <1>1, <1>4, <2>1 DEF SavedInv, SavedClause
  <1>10. DeletedStaysDeleted'
    BY <1>0 DEF DeletedStaysDeleted
  <1> QED
    BY <1>3, <1>5, <1>8, <1>9, <1>10 DEF ChatInv

\* A turn that is refused or fails leaves only its phase.
LEMMA TurnEndsStep ==
  ASSUME ChatInv, NEW t \in Turns,
         \/ \E s \in Sessions, p \in Projects : ChatConflict(t, s, p)
         \/ ChatFail(t)
  PROVE  ChatInv'
  <1>1. ChatTyped /\ InBudget /\ ApartInv
    BY DEF ChatInv
  <1>2. /\ sessions' = sessions /\ projects' = projects /\ messages' = messages
        /\ disk' = disk /\ crashes' = crashes
    BY DEF ChatConflict, ChatFail
  <1>3. /\ turn[t].phase = "new" /\ turn' = [turn EXCEPT ![t].phase = "refused"]
        \/ turn' = [turn EXCEPT ![t].phase = "failed", ![t].context = <<>>]
    BY DEF ChatConflict, ChatFail
  <1> DEFINE ended == IF turn'[t].phase = "refused" THEN [turn[t] EXCEPT !.phase = "refused"]
                      ELSE [turn[t] EXCEPT !.phase = "failed", !.context = <<>>]
  <1>9. /\ turn[t] \in TurnType /\ <<>> \in Seq(Message)
        /\ turn \in [Turns -> TurnType]
    BY <1>1, EmptyIsShort DEF ChatTyped
  <1>10. /\ ended \in TurnType /\ turn' = [turn EXCEPT ![t] = ended]
         /\ ended.phase = "refused" => turn[t].phase = "new"
    <2>1. CASE turn[t].phase = "new" /\ turn' = [turn EXCEPT ![t].phase = "refused"]
      <3>1. turn' = [turn EXCEPT ![t] = [turn[t] EXCEPT !.phase = "refused"]]
        BY <1>9, <2>1 DEF TurnType
      <3>2. turn'[t] = [turn[t] EXCEPT !.phase = "refused"]
        BY <1>9, <3>1
      <3> QED
        BY <1>9, <2>1, <3>1, <3>2 DEF TurnType
    <2>2. CASE turn' = [turn EXCEPT ![t].phase = "failed", ![t].context = <<>>]
      <3>1. turn' = [turn EXCEPT ![t] = [turn[t] EXCEPT !.phase = "failed", !.context = <<>>]]
        BY <1>9, <2>2 DEF TurnType
      <3>2. turn'[t] = [turn[t] EXCEPT !.phase = "failed", !.context = <<>>]
        BY <1>9, <3>1
      <3> QED
        BY <1>9, <3>1, <3>2 DEF TurnType
    <2> QED
      BY <1>3, <2>1, <2>2
  <1>11. /\ ended.object = turn[t].object /\ ended.session = turn[t].session
         /\ ended.project = turn[t].project
         /\ ended.context = turn[t].context \/ ended.context = <<>>
         /\ ended.phase \in {"refused", "failed"}
    BY <1>9 DEF TurnType
  <1> HIDE DEF ended
  <1>4. turn' \in [Turns -> TurnType]
    BY <1>9, <1>10
  <1>5. Kept
    BY <1>9, <1>10, <1>11 DEF Kept
  <1>6. \A o \in Objects : \A i \in DOMAIN messages'[o] :
           turn[messages'[o][i].turn].object = o /\ messages'[o][i].turn \in Turns
    BY <1>1, <1>2, MessagesHaveTurns DEF ApartInv, From, ChatTyped
  <1>7. ApartInv'
    BY <1>2, <1>5, <1>6, KeptSessions
  <1>12. SavedInv'
    <2>1. ASSUME NEW o \in Objects, NEW i \in DOMAIN messages[o],
                 turn'[messages[o][i].turn].phase = "answered"
          PROVE  turn[messages[o][i].turn].phase = "answered"
      <3>1. messages[o][i].turn \in Turns
        BY <1>1, MessagesHaveTurns DEF ChatTyped
      <3> QED
        BY <1>9, <1>10, <1>11, <2>1, <3>1
    <2> QED
      BY <1>2, <2>1 DEF ChatInv, SavedInv, SavedClause
  <1>8. ChatTyped' /\ InBudget' /\ DeletedStaysDeleted'
    BY <1>2, <1>4 DEF ChatInv, ChatTyped, InBudget, DeletedStaysDeleted
  <1> QED
    BY <1>7, <1>8, <1>12 DEF ChatInv

LEMMA DeleteSessionStep ==
  ASSUME ChatInv, NEW s \in Sessions, DeleteSession(s)
  PROVE  ChatInv'
  <1>1. ChatTyped /\ InBudget /\ ApartInv /\ NoSession \notin Objects
    BY NoSessionIsNone DEF ChatInv
  <1>2. /\ turn' = turn /\ messages' = messages /\ crashes' = crashes
        /\ sessions' = [sessions EXCEPT ![s] = NoSession]
        /\ projects' = [projects EXCEPT ![s] = NoSession]
        /\ disk' = [r \in Sessions |->
                      IF sessions'[r] = NoSession THEN Unsaved
                      ELSE [object |-> sessions'[r], project |-> projects'[r],
                            messages |-> messages[sessions'[r]]]]
    BY DEF DeleteSession, Saved
  <1>3. /\ sessions'[s] = NoSession /\ disk'[s] = Unsaved
        /\ \A r \in Sessions \ {s} : sessions'[r] = sessions[r] /\ projects'[r] = projects[r]
    BY <1>1, <1>2 DEF ChatTyped
  <1>4. ASSUME NEW r \in Sessions, sessions'[r] # NoSession
        PROVE  /\ sessions[r] # NoSession
               /\ sessions'[r] = sessions[r] /\ projects'[r] = projects[r]
               /\ disk'[r] = [object |-> sessions[r], project |-> projects[r],
                              messages |-> messages[sessions[r]]]
               /\ sessions[r] \in Objects
    BY <1>1, <1>2, <1>3, <1>4 DEF ChatTyped
  <1>5. ChatTyped'
    <2>1. disk' \in [Sessions -> DiskType]
      <3>1. Unsaved \in DiskType
        BY EmptyIsShort DEF Unsaved, DiskType
      <3>2. ASSUME NEW r \in Sessions, sessions'[r] # NoSession
            PROVE  [object |-> sessions'[r], project |-> projects'[r],
                    messages |-> messages[sessions'[r]]] \in DiskType
        BY <1>1, <1>4, <3>2 DEF ChatTyped, DiskType
      <3> QED
        BY <1>2, <3>1, <3>2
    <2> QED
      BY <1>1, <1>2, <2>1 DEF ChatTyped
  <1>6. Kept
    BY <1>2 DEF Kept
  <1>7. \A o \in Objects : \A i \in DOMAIN messages'[o] :
           turn[messages'[o][i].turn].object = o /\ messages'[o][i].turn \in Turns
    BY <1>1, <1>2, MessagesHaveTurns DEF ApartInv, From, ChatTyped
  <1>8. ApartInv'
    <2>1. \A r \in Sessions : sessions'[r] # NoSession =>
             sessions'[r] = sessions[r] /\ projects'[r] = projects[r]
      BY <1>4
    <2>2. \A r \in Sessions :
             \/ disk'[r] = Unsaved
             \/ /\ disk'[r].object = sessions[r] /\ disk'[r].project = projects[r]
                /\ sessions[r] # NoSession
                /\ disk'[r].messages = messages'[sessions[r]]
      BY <1>2, <1>4
    <2> QED
      BY <1>6, <1>7, <2>1, <2>2, KeptSessions
  <1>9. SavedInv'
    <2>1. ASSUME NEW r \in Sessions
          PROVE  Tokens(disk'[r].messages) <= MaxTokens
      <3>1. CASE sessions'[r] = NoSession
        BY <1>2, <3>1, EmptyIsShort DEF Unsaved
      <3>2. CASE sessions'[r] # NoSession
        <4>0. /\ disk'[r] = [object |-> sessions[r], project |-> projects[r],
                             messages |-> messages[sessions[r]]]
              /\ sessions[r] \in Objects
          BY <1>4, <3>2
        <4>1. disk'[r].messages = messages[sessions[r]] /\ sessions[r] \in Objects
          BY <4>0
        <4>2. Tokens(messages[sessions[r]]) <= MaxTokens
          BY <1>1, <4>1 DEF InBudget
        <4> QED
          BY <4>1, <4>2
      <3> QED
        BY <3>1, <3>2
    <2> QED
      BY <1>1, <1>2, <1>4, <2>1 DEF SavedInv, SavedClause
  <1>10. InBudget' /\ DeletedStaysDeleted'
    BY <1>1, <1>2 DEF InBudget, DeletedStaysDeleted
  <1> QED
    BY <1>5, <1>8, <1>9, <1>10 DEF ChatInv

LEMMA CrashStep ==
  ASSUME ChatInv, Crash
  PROVE  ChatInv'
  <1>0. ChatTyped /\ ApartInv /\ NoSession \notin Objects /\ MaxCrashes \in Nat
    BY NoSessionIsNone, ChatAssumption DEF ChatInv
  <1>1. /\ sessions' = [s \in Sessions |-> disk'[s].object]
        /\ projects' = [s \in Sessions |-> disk'[s].project]
        /\ crashes' = crashes + 1 /\ crashes < MaxCrashes
        /\ turn' = [t \in Turns |-> turn'[t]]
    BY CrashFacts
  <1>11. /\ \A s \in Sessions : disk'[s] = disk[s] \/ disk'[s] = Unsaved
         /\ disk' \in [Sessions -> DiskType]
         /\ \A s \in Sessions : Tokens(disk'[s].messages) <= MaxTokens
    BY LeftFacts
  <1>2. ASSUME NEW t \in Turns
        PROVE  turn'[t] = IF turn[t].phase = "asking"
                            THEN [turn[t] EXCEPT !.phase = "dead", !.context = <<>>] ELSE turn[t]
    BY CrashFacts
  <1>3. ASSUME NEW o \in Objects
        PROVE  /\ messages'[o] # <<>> => \E s \in Sessions : disk'[s].object = o
               /\ \A s \in Sessions : disk'[s].object = o => messages'[o] = disk'[s].messages
    BY CrashFacts
  <1>4. ChatTyped'
    <2>1. ASSUME NEW t \in Turns
          PROVE  turn'[t] \in TurnType
      <3>1. turn[t] \in TurnType /\ <<>> \in Seq(Message)
        BY <1>0, EmptyIsShort DEF ChatTyped
      <3> QED
        BY <1>2, <3>1 DEF TurnType
    <2>2. crashes' \in 0..MaxCrashes
      BY <1>0, <1>1 DEF ChatTyped
    <2>3. \A s \in Sessions : disk'[s] \in DiskType
      BY <1>11
    <2> QED
      BY <1>0, <1>1, <1>11, <2>1, <2>2, <2>3, CrashFacts DEF ChatTyped, DiskType
  <1>5. InBudget'
    BY CrashFacts DEF InBudget
  <1>6. Kept
    <2> SUFFICES ASSUME NEW u \in Turns
                 PROVE  /\ turn'[u].object = turn[u].object
                        /\ turn'[u].session = turn[u].session
                        /\ turn'[u].project = turn[u].project
                        /\ turn'[u].context = turn[u].context \/ turn'[u].context = <<>>
                        /\ turn'[u].phase = turn[u].phase \/ turn'[u].phase = "dead"
      BY DEF Kept
    <2>1. turn[u] \in TurnType
      BY <1>0 DEF ChatTyped
    <2> QED
      BY <1>2, <2>1 DEF TurnType
  <1>7. \A o \in Objects : \A i \in DOMAIN messages'[o] :
           turn[messages'[o][i].turn].object = o /\ messages'[o][i].turn \in Turns
    <2> SUFFICES ASSUME NEW o \in Objects, NEW i \in DOMAIN messages'[o]
                 PROVE  turn[messages'[o][i].turn].object = o /\ messages'[o][i].turn \in Turns
      OBVIOUS
    <2>1. messages'[o] # <<>>
      BY EmptyIsShort
    <2>2. PICK s \in Sessions : disk'[s].object = o
      BY <1>3, <2>1
    <2>3. messages'[o] = disk'[s].messages /\ disk'[s] = disk[s]
      BY <1>0, <1>3, <1>11, <2>2 DEF Unsaved
    <2>4. disk[s].messages \in Seq(Message) /\ From(disk[s].messages, o)
      BY <1>0, <2>2, <2>3 DEF ChatTyped, DiskType, ApartInv, SessionClause
    <2> QED
      BY <2>3, <2>4, MessagesHaveTurns DEF From
  <1>8. ApartInv'
    <2>1. ASSUME NEW s \in Sessions, sessions'[s] # NoSession
          PROVE  sessions'[s] = disk[s].object /\ projects'[s] = disk[s].project
      BY <1>1, <1>11, <2>1 DEF Unsaved
    <2> QED
      BY <1>6, <1>7, <1>11, <2>1, KeptSessions
  <1>9. SavedInv'
    <2> SUFFICES ASSUME NEW r \in Sessions, NEW x \in Objects, sessions'[r] = x
                 PROVE  disk'[r].object = x /\ messages'[x] = disk'[r].messages
      BY <1>11 DEF SavedInv, SavedClause
    <2> QED
      BY <1>1, <1>3
  <1>10. DeletedStaysDeleted'
    <2>1. ASSUME NEW s \in Sessions, sessions'[s] = NoSession
          PROVE  disk'[s] = Unsaved
      <3>1. CASE disk'[s] = disk[s]
        BY <1>0, <1>1, <2>1, <3>1 DEF ApartInv, SessionClause
      <3> QED
        BY <1>11, <3>1
    <2> QED
      BY <2>1 DEF DeletedStaysDeleted
  <1> QED
    BY <1>4, <1>5, <1>8, <1>9, <1>10 DEF ChatInv

LEMMA ChatInit == Init => ChatInv
  <1> SUFFICES ASSUME Init PROVE ChatInv
    OBVIOUS
  <1>1. /\ MaxCrashes \in Nat /\ <<>> \in Seq(Message) /\ Tokens(<<>>) <= MaxTokens
        /\ NoSession \notin Objects /\ DOMAIN <<>> = {}
    BY ChatAssumption, EmptyIsShort, NoSessionIsNone
  <1>2. ChatTyped
    BY <1>1 DEF Init, ChatTyped, NewTurn, Unsaved, NothingSaved, TurnType, DiskType
  <1>3. InBudget /\ SavedInv /\ DeletedStaysDeleted
    BY <1>1 DEF Init, InBudget, SavedInv, SavedClause, DeletedStaysDeleted, Unsaved, NothingSaved
  <1>4. ApartInv
    BY <1>1 DEF Init, ApartInv, TurnClause, SessionClause, From, Unsaved, NothingSaved, NewTurn
  <1> QED
    BY <1>2, <1>3, <1>4 DEF ChatInv

LEMMA ChatStep == ChatInv /\ [Next]_vars => ChatInv'
  <1> SUFFICES ASSUME ChatInv, [Next]_vars PROVE ChatInv'
    OBVIOUS
  <1>1. CASE \E t \in Turns, s \in Sessions, p \in Projects : ChatBegin(t, s, p)
    BY <1>1, ChatBeginStep
  <1>2. CASE \E t \in Turns, s \in Sessions, p \in Projects : ChatConflict(t, s, p)
    BY <1>2, TurnEndsStep
  <1>3. CASE \E t \in Turns : ChatAnswer(t)
    BY <1>3, ChatAnswerStep
  <1>4. CASE \E t \in Turns : ChatFail(t)
    BY <1>4, TurnEndsStep
  <1>5. CASE \E s \in Sessions : DeleteSession(s)
    BY <1>5, DeleteSessionStep
  <1>6. CASE \E t \in Turns : DeleteRun(t)
    BY <1>6, ChatStays DEF DeleteRun
  <1>7. CASE Crash
    BY <1>7, CrashStep
  <1>8. CASE Stream
    BY <1>8, ChatStays DEF Stream
  <1>9. CASE UNCHANGED vars
    BY <1>9, ChatStays DEF vars
  <1> QED
    BY <1>1, <1>2, <1>3, <1>4, <1>5, <1>6, <1>7, <1>8, <1>9 DEF Next

\* And the event streams.
LEMMA EventStep == EventInv /\ [Next]_vars => EventInv'
  <1> SUFFICES ASSUME EventInv, [Next]_vars PROVE EventInv'
    OBVIOUS
  <1>0. /\ Turns = Runs /\ \A n \in {1, 2, 3} : n \in 1..3
        /\ {"none", "running", "completed", "failed"} \subseteq Statuses
    BY NoSessionIsNone DEF Statuses
  <1>1. CASE \E t \in Turns, s \in Sessions, p \in Projects : ChatBegin(t, s, p)
    BY <1>0, <1>1, EmitStep DEF ChatBegin
  <1>2. CASE \E t \in Turns, s \in Sessions, p \in Projects : ChatConflict(t, s, p)
    BY <1>0, <1>2, EmitStep DEF ChatConflict
  <1>3. CASE \E t \in Turns : ChatAnswer(t)
    BY <1>0, <1>3, EmitStep DEF ChatAnswer
  <1>4. CASE \E t \in Turns : ChatFail(t)
    BY <1>0, <1>4, EmitStep DEF ChatFail
  <1>5. CASE \E t \in Turns : DeleteRun(t)
    BY <1>0, <1>5, EmitStep DEF DeleteRun
  <1>6. CASE Crash
    BY <1>6, DropStep DEF Crash
  <1>7. CASE Stream
    BY <1>7, SubscribeStep, SendStep, UnsubscribeStep DEF Stream
  <1>8. CASE (\E s \in Sessions : DeleteSession(s)) \/ UNCHANGED vars
    BY <1>8 DEF DeleteSession, vars, eventVars, EventInv, TypeOKEvents, StreamInv, Follows
  <1> QED
    BY <1>1, <1>2, <1>3, <1>4, <1>5, <1>6, <1>7, <1>8 DEF Next

-----------------------------------------------------------------------------
(* The theorems.                                                            *)

LEMMA SpecInv == Spec => [](ChatInv /\ EventInv)
  <1>1. Init => ChatInv /\ EventInv
    BY ChatInit, EventsInit DEF Init
  <1> QED
    BY <1>1, ChatStep, EventStep, PTL DEF Spec

\* A client of the event stream that has been sent all of its queue shows every run as
\* the ledger has it, but for runs that as many events of others have followed as a queue
\* holds, and those that have not changed since it subscribed (server.py:578-604).
THEOREM DrainedViewsAreRecent == Spec => []DrainedViewIsRecent
  <1>1. EventInv => DrainedViewIsRecent
    <2> SUFFICES ASSUME EventInv, NEW c \in subscribers, NEW r \in Runs,
                        queue[c] = <<>>, since[c][r] < Capacity
                 PROVE  view[c][r] = ledger[r]
      BY DEF DrainedViewIsRecent
    <2>1. Len(queue[c]) = 0 /\ since[c][r] >= 0
      BY DEF EventInv, TypeOKEvents
    <2> QED
      BY <2>1 DEF EventInv, StreamInv, Follows
  <1> QED
    BY <1>1, SpecInv, PTL

\* What a session holds, and what it gives a turn as context, was said in that session
\* and project, and not before the session was deleted and made anew, for any number of
\* turns and restarts (server.py:245-255, 1947-1950); no session is over its limit.
THEOREM SessionsAreApart == Spec => []SessionsOK
  <1>1. ASSUME ChatInv, EventInv
        PROVE  SessionsKeepApart
    <2>0. ChatTyped /\ ApartInv /\ NoSession \notin Objects
      BY <1>1, NoSessionIsNone DEF ChatInv
    <2>1. ASSUME NEW s \in Sessions, NEW i \in DOMAIN MessagesOf(s)
          PROVE  LET t == MessagesOf(s)[i].turn
                 IN  /\ turn[t].session = s /\ turn[t].project = projects[s]
                     /\ turn[t].object = sessions[s]
      <3> DEFINE o == sessions[s]
      <3>1. o # NoSession /\ MessagesOf(s) = messages[o]
        BY EmptyIsShort DEF MessagesOf
      <3>2. o \in Objects /\ messages[o] \in Seq(Message)
        BY <2>0, <3>1 DEF ChatTyped
      <3>3. PICK t \in Turns : t = MessagesOf(s)[i].turn
        BY <3>1, <3>2, MessagesHaveTurns
      <3>4. turn[t].object = o
        BY <2>0, <3>1, <3>2, <3>3 DEF ApartInv, From
      <3>5. Belongs(s, projects[s], o)
        BY <2>0, <3>1 DEF ApartInv, SessionClause
      <3>6. Belongs(turn[t].session, turn[t].project, o)
        BY <2>0, <3>1, <3>4 DEF ApartInv, TurnClause
      <3> QED
        BY <3>3, <3>4, <3>5, <3>6 DEF Belongs
    <2>2. ASSUME NEW t \in Turns, NEW i \in DOMAIN turn[t].context
          PROVE  LET u == turn[t].context[i].turn
                 IN  turn[u].session = turn[t].session /\ turn[u].project = turn[t].project
      <3>1. TurnClause(t) /\ turn[t].context \in Seq(Message)
        BY <2>0 DEF ApartInv, ChatTyped, TurnType
      <3>2. PICK u \in Turns : u = turn[t].context[i].turn
        BY <3>1, MessagesHaveTurns
      <3>3. turn[t].object # NoSession
        BY <3>1, EmptyIsShort DEF TurnClause
      <3>4. turn[u].object = turn[t].object
        BY <3>1, <3>2 DEF TurnClause, From
      <3>5. TurnClause(u)
        BY <2>0 DEF ApartInv
      <3> QED
        BY <3>1, <3>2, <3>3, <3>4, <3>5 DEF TurnClause, Belongs
    <2> QED
      BY <2>1, <2>2 DEF SessionsKeepApart
  <1>2. ChatInv /\ EventInv => SessionsOK
    BY <1>1, TypeParts DEF SessionsOK, ChatInv, EventInv
  <1> QED
    BY <1>2, SpecInv, PTL

\* A crash loses what an answered turn left in a session, its question and its answer,
\* only with the whole file, for any number of turns, sessions and crashes
\* (server.py:4145, 4074-4077, 2022-2024).
THEOREM AnswersSurvive == Spec => CrashesKeepAnswers
  <1>1. ASSUME ChatInv, [Next]_vars, crashes' # crashes, disk' # NothingSaved,
               NEW s \in Sessions, NEW i \in DOMAIN MessagesOf(s),
               turn[MessagesOf(s)[i].turn].phase = "answered"
        PROVE  \E j \in DOMAIN MessagesOf(s)' : MessagesOf(s)'[j] = MessagesOf(s)[i]
    <2>1. Crash
      BY <1>1 DEF Next, ChatBegin, ChatConflict, ChatAnswer, ChatFail, DeleteSession, DeleteRun,
                  Stream, chatVars, vars
    <2>2. disk' = disk
      BY <1>1, <2>1, LeftFacts
    <2>3. sessions[s] # NoSession /\ MessagesOf(s) = messages[sessions[s]]
      BY EmptyIsShort DEF MessagesOf
    <2>4. sessions[s] \in Objects
      BY <1>1, <2>3 DEF ChatInv, ChatTyped
    <2>5. /\ disk[s].object = sessions[s]
          /\ \E j \in DOMAIN disk[s].messages : disk[s].messages[j] = MessagesOf(s)[i]
      BY <1>1, <2>3, <2>4 DEF ChatInv, SavedInv, SavedClause
    <2>6. sessions'[s] = sessions[s]
      <3>1. sessions' = [r \in Sessions |-> disk'[r].object]
        BY <1>1, <2>1, CrashFacts
      <3>2. sessions'[s] = disk'[s].object
        BY <3>1
      <3> QED
        BY <2>2, <2>5, <3>2
    <2>7. messages'[sessions[s]] = disk[s].messages
      BY <1>1, <2>1, <2>2, <2>4, <2>5, CrashFacts
    <2>8. MessagesOf(s)' = disk[s].messages
      BY <2>3, <2>6, <2>7 DEF MessagesOf
    <2> QED
      BY <2>5, <2>8
  <1>2. ChatInv /\ [Next]_vars =>
          [crashes' # crashes /\ disk' # NothingSaved =>
             \A s \in Sessions : \A i \in DOMAIN MessagesOf(s) :
                turn[MessagesOf(s)[i].turn].phase = "answered" =>
                   \E j \in DOMAIN MessagesOf(s)' : MessagesOf(s)'[j] = MessagesOf(s)[i]]_vars
    BY <1>1
  <1> QED
    BY <1>2, SpecInv, PTL DEF Spec, CrashesKeepAnswers

\* A deleted session does not come back, neither by a turn that is answered after the
\* delete nor by a restart (server.py:2543-2554).
THEOREM DeletesStand == Spec => []DeletedStaysDeleted
  <1>1. ChatInv => DeletedStaysDeleted
    BY DEF ChatInv
  <1> QED
    BY <1>1, SpecInv, PTL
=============================================================================
