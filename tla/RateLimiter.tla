----------------------------- MODULE RateLimiter -----------------------------
(***************************************************************************)
(* RateLimiter (src/src/communication/rate_limiter.py), the token bucket   *)
(* TransportLayer.send draws on.  Time is counted in steps in which Rate   *)
(* parts of a token come in; a frame costs Cost parts.                     *)
(***************************************************************************)
EXTENDS Naturals, FiniteSets

CONSTANTS
    Senders,        \* threads in TransportLayer.send
    Rate, Cost,     \* parts of a token: per step of time, and per frame
    Capacity,       \* burst
    Patience,       \* timeout of acquire()
    MaxTime         \* bound: steps of time

\* With a rate of 0 there is no limit.
ASSUME RateAssumption ==
    {Rate, Cost, Capacity, Patience, MaxTime} \subseteq Nat /\ Rate > 0

VARIABLES
    now,        \* time.perf_counter()
    bucket,     \* _tokens
    last,       \* _last
    deadline,   \* deadline[s] of the acquire() sender s is in, or None
    granted,    \* history: frames that had their tokens
    unpaid      \* history: frames sent although acquire() returned False

rateVars == <<now, bucket, last, deadline, granted, unpaid>>

None == MaxTime + Patience + 1
InAcquire(s) == deadline[s] # None

RateTypeOK ==
    /\ now \in 0 .. MaxTime /\ last \in 0 .. now
    /\ bucket \in 0 .. Capacity
    /\ deadline \in [Senders -> 0 .. None]
    /\ granted \in Nat /\ unpaid \in Nat

RateInit ==
    /\ now = 0 /\ last = 0 /\ bucket = Capacity
    /\ deadline = [s \in Senders |-> None]
    /\ granted = 0 /\ unpaid = 0

-----------------------------------------------------------------------------
Least(a, b) == IF a < b THEN a ELSE b

Refilled == Least(Capacity, bucket + Rate * (now - last))

\* Mutant: the time of the last refill is not moved on.
RefillAgain(spent) == bucket' = Refilled - spent /\ UNCHANGED last

\* _refill(), and the tokens of a frame taken.
Refill(spent) == bucket' = Refilled - spent /\ last' = now

\* The limiter is asked in send(), whose second frame waits for the first.
AskForTokens(s) ==
    /\ ~InAcquire(s) /\ now < MaxTime
    /\ deadline' = [deadline EXCEPT ![s] = now + Patience]
    /\ UNCHANGED <<now, bucket, last, granted, unpaid>>

Acquire(s) ==
    /\ InAcquire(s)
    /\ Refilled >= Cost
    /\ Refill(Cost)
    /\ deadline' = [deadline EXCEPT ![s] = None]
    /\ granted' = granted + 1
    /\ UNCHANGED <<now, unpaid>>

\* The tokens would come after the deadline.
Hopeless(s) == Cost - Refilled > Rate * (deadline[s] - now)

\* acquire() returns False, which send() does not look at: the frame goes out.
TurnAway(s) ==
    /\ InAcquire(s)
    /\ Refilled < Cost /\ Hopeless(s)
    /\ Refill(0)
    /\ deadline' = [deadline EXCEPT ![s] = None]
    /\ unpaid' = unpaid + 1
    /\ UNCHANGED <<now, granted>>

\* Not yet: the bucket is brought up to date and the sender sleeps.
Doze(s) ==
    /\ InAcquire(s)
    /\ Refilled < Cost /\ ~Hopeless(s)
    /\ last # now
    /\ Refill(0)
    /\ UNCHANGED <<now, deadline, granted, unpaid>>

\* A sleep ends in time: nobody sleeps past what it waits for.
TimePasses ==
    /\ now < MaxTime
    /\ \A s \in Senders : InAcquire(s) => Refilled < Cost /\ ~Hopeless(s)
    /\ now' = now + 1
    /\ UNCHANGED <<bucket, last, deadline, granted, unpaid>>

RateNext == \/ \E s \in Senders : AskForTokens(s) \/ Acquire(s) \/ TurnAway(s) \/ Doze(s)
            \/ TimePasses

RateSpec == RateInit /\ [][RateNext]_rateVars

-----------------------------------------------------------------------------
\* However the senders and their sleeps interleave, the frames that had their
\* tokens stay within one burst and the rate since then.
RateKept == granted * Cost + bucket <= Capacity + Rate * now
=============================================================================
