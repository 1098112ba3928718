----------------------------- MODULE RateLimits -----------------------------
(***************************************************************************)
(* Calls to one provider: the sliding-window rate limiter they pass        *)
(* (rate_limiter.py) and the attempts the adapter then makes               *)
(* (providers/*_adapter.py).  Time is counted in ticks and kept as ages, so *)
(* the model needs no clock.  A limiter belongs to one building of the     *)
(* provider runtime; a call keeps the one its adapter was built with.      *)
(***************************************************************************)
EXTENDS Naturals, Sequences, FiniteSets

CONSTANTS
    Calls,      \* the calls in flight at most
    Rpm,        \* requests a window admits
    Tpm,        \* tokens a window admits
    Sizes,      \* the tokens a call may ask for
    Window,     \* the length of the window (60 seconds)
    MaxWait,    \* max_wait_seconds
    MaxBuilds   \* bound on how often the provider runtime is built

ASSUME RpmAssumption == Rpm \in Nat \ {0}
ASSUME TpmAssumption == Tpm \in Nat
ASSUME SizesAssumption == \A n \in Sizes : n \in Nat \ {0}
ASSUME WindowAssumption == Window \in Nat \ {0} /\ MaxWait \in Nat
ASSUME MaxBuildsAssumption == MaxBuilds \in Nat \ {0}

\* The limiters, in the order they are built.
Limiters == 1 .. MaxBuilds

\* How an attempt fails: with a timeout, with an error that may pass (a
\* retryable status, a limit of the provider, a lost connection), or with
\* one that will not.
Failures == {"timeout", "passing", "lasting"}
Transient == {"timeout", "passing"}

\* The failures after which each adapter tries again, the attempts it makes,
\* whether it gives up a temperature that the model rejects, and whether its
\* client has a timeout, which ends a silent stream.
OpenAI    == [retries |-> Transient, attempts |-> 3, adapts |-> TRUE,  timed |-> TRUE]
Anthropic == [retries |-> Transient, attempts |-> 3, adapts |-> FALSE, timed |-> TRUE]
Google    == [retries |-> Transient, attempts |-> 3, adapts |-> FALSE, timed |-> FALSE]
Xai       == [retries |-> Transient, attempts |-> 3, adapts |-> FALSE, timed |-> TRUE]
Local     == [retries |-> Failures,  attempts |-> 2, adapts |-> FALSE, timed |-> TRUE]
Adapters  == {OpenAI, Anthropic, Google, Xai, Local}

VARIABLES
    adapter,    \* the provider's adapter
    learned,    \* the adapters built that know the model takes no temperature
    limiter,    \* the limiter of the runtime now in use
    events,     \* events[g]: the admissions limiter g remembers, oldest first
    recent,     \* recent[g]: those of the last window, whatever it remembers
    call        \* call[c]: a call in flight

limiterVars == <<adapter, learned, limiter, events, recent, call>>

\* Where a call is: waiting for the limiter, or sent, for an answer or a
\* stream of one, the pauses between its attempts included.
Away == [at |-> "away", size |-> 0, waited |-> 0, nap |-> 0, via |-> 1, tries |-> 0,
         plain |-> FALSE]
Sent == {"complete", "stream"}

LimiterInit ==
    /\ adapter \in Adapters /\ learned = {}
    /\ limiter = 1
    /\ events = [g \in Limiters |-> <<>>]
    /\ recent = [g \in Limiters |-> <<>>]
    /\ call = [c \in Calls |-> Away]

-----------------------------------------------------------------------------
(* The window *)

\* The tokens of the events, counted one by one.
Units(s)  == UNION {{i} \X (1 .. s[i].tokens) : i \in DOMAIN s}
Tokens(s) == Cardinality(Units(s))

\* Events strictly older than the window are forgotten.
\* Mutant of InWindow: those exactly as old as the window as well.
InWindowOpen(e) == e.age < Window
InWindow(e) == e.age <= Window

\* A queue from the first of the places kept on: popleft while the oldest is
\* out of the window.
From(s, kept) ==
    IF kept = {} THEN <<>>
    ELSE IF 1 \in kept THEN s
    ELSE SubSeq(s, CHOOSE n \in kept : \A k \in kept : n <= k, Len(s))

Prune(s) == From(s, {i \in DOMAIN s : InWindow(s[i])})

HasRoom(s, size) == Len(s) < Rpm /\ Tokens(s) + size <= Tpm

\* Until the oldest event leaves the window; a moment if nothing is in it.
NextWait(s) == IF s = <<>> THEN 1 ELSE Window - Head(s).age
\* asyncio.sleep: a tick at least.
Nap(s) == IF NextWait(s) = 0 THEN 1 ELSE NextWait(s)

-----------------------------------------------------------------------------
(* acquire: one pass through the lock *)

Admit(c, asked, g) ==
    LET event == [age |-> 0, tokens |-> asked.size]
    IN /\ events' = [events EXCEPT ![g] = Append(Prune(@), event)]
       /\ recent' = [recent EXCEPT ![g] = Append(@, event)]
       /\ \E how \in Sent :
             call' = [call EXCEPT ![c] =
                [Away EXCEPT !.at = how, !.via = g, !.tries = 1, !.plain = g \in learned]]

\* Mutant of Patient: the time already waited is left out.
PatientAnew(waited, s) == NextWait(s) <= MaxWait

\* A wait that would end after the call's limit is not begun.
Patient(waited, s) == waited + NextWait(s) <= MaxWait

Pass(c, asked) ==
    LET g == asked.via
        kept == Prune(events[g])
    IN IF HasRoom(kept, asked.size)
         THEN Admit(c, asked, g)
         ELSE /\ events' = [events EXCEPT ![g] = kept]
              /\ recent' = recent
              /\ call' = [call EXCEPT ![c] =
                    IF Patient(asked.waited, kept)
                      THEN [asked EXCEPT !.at = "waiting", !.nap = Nap(kept)]
                      ELSE Away]        \* RateLimitExceededError

\* A provider is called through the adapter now in use.
Start(c) ==
    /\ call[c].at = "away"
    /\ \E size \in Sizes : Pass(c, [Away EXCEPT !.size = size, !.via = limiter])
    /\ UNCHANGED <<adapter, learned, limiter>>

\* A waiting call wakes and looks again; it does not queue with the others.
Wake(c) ==
    /\ call[c].at = "waiting"
    /\ call[c].nap = 0
    /\ Pass(c, call[c])
    /\ UNCHANGED <<adapter, learned, limiter>>

-----------------------------------------------------------------------------
(* The adapter's attempts: all pass on one admission *)

Answered(c) ==
    /\ call[c].at \in Sent
    /\ call' = [call EXCEPT ![c] = Away]
    /\ UNCHANGED <<adapter, learned, limiter, events, recent>>

\* The call after one more attempt, if it has one left.
Retried(asked) ==
    IF asked.tries < adapter.attempts THEN [asked EXCEPT !.tries = @ + 1] ELSE Away

\* A stream that fails is not begun again.
Fails(c) ==
    /\ call[c].at \in Sent
    /\ \E f \in Failures :
          call' = [call EXCEPT ![c] =
             IF f \in adapter.retries /\ @.at = "complete" THEN Retried(@) ELSE Away]
    /\ UNCHANGED <<adapter, learned, limiter, events, recent>>

\* The model rejects the temperature it was sent: the adapter remembers, and
\* this call goes on without.  A stream does so at once, another answer only
\* if it has an attempt left.
Rejected(c) ==
    /\ call[c].at \in Sent
    /\ adapter.adapts /\ ~call[c].plain
    /\ learned' = learned \cup {call[c].via}
    /\ call' = [call EXCEPT ![c] =
          LET without == [@ EXCEPT !.plain = TRUE]
          IN IF @.at = "stream" THEN without ELSE Retried(without)]
    /\ UNCHANGED <<adapter, limiter, events, recent>>

-----------------------------------------------------------------------------
\* Time passes: everything in a window gets older, sleepers sleep on.  What is
\* older than the window is dropped here already: the next pass would forget it
\* before it counts.
Aged(s) == [i \in DOMAIN s |-> [s[i] EXCEPT !.age = @ + 1]]
Older(s) == Aged(From(s, {i \in DOMAIN s : s[i].age < Window}))

Tick ==
    /\ \E c \in Calls : call[c].at = "waiting" \/ \E g \in Limiters : recent[g] # <<>>
    /\ events' = [g \in Limiters |-> Older(events[g])]
    /\ recent' = [g \in Limiters |-> Older(recent[g])]
    /\ call' = [c \in Calls |->
          IF call[c].at = "waiting"
            THEN [call[c] EXCEPT !.nap = IF @ = 0 THEN 0 ELSE @ - 1,
                                 !.waited = IF @ > MaxWait THEN @ ELSE @ + 1]
            ELSE call[c]]
    /\ UNCHANGED <<adapter, learned, limiter>>

\* The runtime is built again: the adapters get a limiter that remembers
\* nothing, and the calls in flight keep theirs.
NewLimiter ==
    /\ limiter + 1 \in Limiters
    /\ limiter' = limiter + 1
    /\ UNCHANGED <<adapter, learned, events, recent, call>>

AttemptEnds(c) == Answered(c) \/ Fails(c) \/ Rejected(c)
CallStep(c) == Start(c) \/ Wake(c) \/ AttemptEnds(c)

LimiterNext == Tick \/ NewLimiter \/ \E c \in Calls : CallStep(c)

\* Google's client has no timeout, and its stream is read on the event loop:
\* while one is silent, nothing else of the process goes on.
Hanging == ~adapter.timed /\ \E c \in Calls : call[c].at = "stream"

\* Time goes on.  Unless a stream hangs, the event loop wakes what slept long
\* enough and an attempt ends, because it has a timeout (a stream has that of the
\* client, which the other adapters set).
LimiterFairness ==
    /\ WF_limiterVars(Tick)
    /\ \A c \in Calls : /\ WF_limiterVars(Wake(c) /\ ~Hanging)
                        /\ WF_limiterVars(AttemptEnds(c) /\ ~Hanging)

LimiterSpec == LimiterInit /\ [][LimiterNext]_limiterVars /\ LimiterFairness

-----------------------------------------------------------------------------
(* Properties *)

Admissions == [age : 0 .. Window, tokens : Sizes]

LimiterTypeOK ==
    /\ limiter \in Limiters /\ adapter \in Adapters /\ learned \subseteq Limiters
    /\ events \in [Limiters -> Seq(Admissions)]
    /\ recent \in [Limiters -> Seq(Admissions)]
    /\ call \in [Calls -> [at : {"away", "waiting"} \cup Sent, size : Sizes \cup {0},
                           waited : 0 .. MaxWait + 1, nap : 0 .. Window, via : Limiters,
                           tries : 0 .. adapter.attempts, plain : BOOLEAN]]

\* However the calls wait, wake late and overtake each other, no limiter lets
\* more through in any window, both ends included, than its limits.
RateHolds ==
    \A g \in Limiters : Len(recent[g]) <= Rpm /\ Tokens(recent[g]) <= Tpm

\* No sleep of a call ends more than a tick after its limit, counted from
\* the moment it first asked.
NobodyOversleeps ==
    \A c \in Calls : (call[c].at = "waiting" /\ call[c].nap > 0) =>
        call[c].waited + call[c].nap <= MaxWait + 1

\* Every call comes back, admitted and answered or failed, or refused, unless a
\* stream that has no timeout is begun while it waits.
CallsReturn ==
    \A c \in Calls : (call[c].at # "away") ~> (call[c].at = "away" \/ Hanging)

\* A call goes without the temperature it was given only after the adapter it
\* was let through by has learned that the model takes none, however calls and
\* rebuilds of the runtime interleave.
RejectionsAreLearned ==
    \A c \in Calls : call[c].plain => call[c].via \in learned

\* The queues are well formed, within their limits, nobody sleeps too long,
\* and what an adapter learns about its model stays learned.
LimiterOK == LimiterTypeOK /\ RateHolds /\ NobodyOversleeps /\ RejectionsAreLearned
=============================================================================
