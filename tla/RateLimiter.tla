---------------------------- MODULE RateLimiter -----------------------------
(***************************************************************************)
(* The per-address token bucket of internal/delivery (ipLimiter.allow and  *)
(* Handler.rateLimit).                                                     *)
(*                                                                         *)
(* rateLimit reads the clock, then allow waits for the mutex: requests are *)
(* processed in another order than their times, and `now` may be older     *)
(* than the time of the bucket it refills.  MaxDelay bounds that wait.     *)
(*                                                                         *)
(* Time and tokens share one unit: a bucket earns one unit of credit per   *)
(* unit of time and a request costs Cost units, so a rate of 1/Cost        *)
(* requests per unit of time.  The code's float64 is taken as exact.       *)
(***************************************************************************)
EXTENDS Integers, FiniteSets

CONSTANTS
    Address,     \* client addresses
    Call,        \* requests in flight at a time
    Burst,       \* RateLimitBurst, in units of credit
    Cost,        \* credit one request takes
    IdleTime,    \* a visitor unseen for longer is swept (10 minutes)
    SweepEvery,  \* one request in so many sweeps (1024)
    MaxVisitors, \* visitors kept (10000)
    MaxDelay,    \* longest wait between reading the clock and the mutex
    MaxClock     \* bound of the model

\* loadConfig and NewHandler refuse a rate or burst that is not positive, and
\* accept every combination of the two.
ASSUME LimiterAssumption ==
    /\ Burst \in Nat \ {0} /\ Cost \in Nat \ {0}
    /\ IdleTime \in Nat /\ SweepEvery \in Nat \ {0}
    /\ MaxVisitors \in Nat /\ MaxDelay \in Nat /\ MaxClock \in Nat

None == [address |-> "none", now |-> 0]

VARIABLES
    clock,
    call,      \* call[c] : the request waiting for the mutex, or None
    visitors,  \* address -> [tokens, updated]; lastSeen always equals updated
    requests,  \* calls of allow, modulo SweepEvery
    spent,     \* ghost: credit spent by each address, ever
    early,     \* ghost: credit its new buckets may have brought it early, ever
    log,       \* ghost: its accepted requests, with spent and early after each
    swept,     \* ghost: time of the last sweep
    unswept    \* ghost: requests since the last sweep

vars == <<clock, call, visitors, requests, spent, early, log, swept, unswept>>

Init ==
    /\ clock = 0
    /\ call = [c \in Call |-> None]
    /\ visitors = [a \in {} |-> None]
    /\ requests = 0
    /\ spent = [a \in Address |-> 0]
    /\ early = [a \in Address |-> 0]
    /\ log = [a \in Address |-> {}]
    /\ swept = 0
    /\ unswept = 0

\* time.Now() is evaluated before allow is entered.
RateLimit(c, a) ==
    /\ call[c] = None
    /\ call' = [call EXCEPT ![c] = [address |-> a, now |-> clock]]
    /\ UNCHANGED <<clock, visitors, requests, spent, early, log, swept, unswept>>

\* Mutant: visitors are kept for as long as a token takes to be earned.
IdleForOne(a, now) == now - visitors[a].updated > Cost

\* Every SweepEvery-th request forgets the visitors idle at its time.
Sweeps == (requests + 1) % SweepEvery = 0
Idle(a, now) == now - visitors[a].updated > IdleTime

Kept(now) == {a \in DOMAIN visitors : ~(Sweeps /\ Idle(a, now))}

Full(c) == call[c].address \notin Kept(call[c].now)
           /\ Cardinality(Kept(call[c].now)) >= MaxVisitors

Lesser(x, y) == IF x <= y THEN x ELSE y

\* What a request finds in its bucket after the refill.
Refill(a, now) ==
    IF a \in Kept(now)
      THEN Lesser(Burst, visitors[a].tokens + (now - visitors[a].updated))
      ELSE Burst

\* What a burst takes to be earned beyond the time after which its bucket may
\* be swept: by so much a returning visitor's full bucket comes early.
Shortfall == IF Burst + 2 * MaxDelay > IdleTime THEN Burst + 2 * MaxDelay - IdleTime ELSE 0

CountRequest(now) ==
    /\ requests' = (requests + 1) % SweepEvery
    /\ swept' = IF Sweeps THEN clock ELSE swept
    /\ unswept' = IF Sweeps THEN 0 ELSE unswept + 1

\* Mutant: requests refused for want of room do not count.
AllowFullUncounted(c) ==
    /\ call[c] # None
    /\ Full(c)
    /\ unswept' = unswept + 1
    /\ call' = [call EXCEPT ![c] = None]
    /\ UNCHANGED <<clock, visitors, requests, swept, spent, early, log>>

\* No room for a new visitor: refused without an entry.
AllowFull(c) ==
    /\ call[c] # None
    /\ Full(c)
    /\ visitors' = [a \in Kept(call[c].now) |-> visitors[a]]
    /\ CountRequest(call[c].now)
    /\ call' = [call EXCEPT ![c] = None]
    /\ UNCHANGED <<clock, spent, early, log>>

\* The bucket is refilled to the time of the request and charged if it can.
Allow(c) ==
    LET a == call[c].address
        now == call[c].now
        tokens == Refill(a, now)
        allowed == tokens >= Cost
        left == IF allowed THEN tokens - Cost ELSE tokens
    IN  /\ call[c] # None
        /\ ~Full(c)
        /\ visitors' = [b \in Kept(now) \cup {a} |->
                          IF b = a THEN [tokens |-> left, updated |-> now] ELSE visitors[b]]
        /\ spent' = IF allowed THEN [spent EXCEPT ![a] = @ + Cost] ELSE spent
        /\ early' = IF a \in Kept(now) THEN early ELSE [early EXCEPT ![a] = @ + Shortfall]
        /\ log' = IF allowed
                    THEN [log EXCEPT ![a] = @ \cup {[now |-> now, total |-> spent[a] + Cost,
                                                    early |-> early'[a]]}]
                    ELSE log
        /\ CountRequest(now)
        /\ call' = [call EXCEPT ![c] = None]
        /\ UNCHANGED clock

\* Time passes, but no request waits longer than MaxDelay.
Tick ==
    /\ clock < MaxClock
    /\ \A c \in Call : call[c] # None => clock - call[c].now < MaxDelay
    /\ clock' = clock + 1
    /\ UNCHANGED <<call, visitors, requests, spent, early, log, swept, unswept>>

Next ==
    \/ \E c \in Call, a \in Address : RateLimit(c, a)
    \/ \E c \in Call : AllowFull(c)
    \/ \E c \in Call : Allow(c)
    \/ Tick

Spec == Init /\ [][Next]_vars

-----------------------------------------------------------------------------
(* Properties *)

\* Whatever the order in which requests get the mutex, and however often its
\* bucket is swept and created again, an address is allowed no more between
\* two accepted requests x and y than a full bucket, what is earned between
\* their times, and, where the burst takes longer to earn than the idle time,
\* the shortfall for each new bucket; and no bucket is renewed within the idle
\* time of an accepted request, give or take two waits.
RateBound ==
    \A a \in Address : \A x, y \in log[a] :
        x.total <= y.total =>
            /\ (y.total - x.total) + Cost <= Burst + (y.now - x.now) + (y.early - x.early)
            /\ x.early < y.early => y.now - x.now > IdleTime - 2 * MaxDelay

\* The map is reclaimed: no SweepEvery requests pass without a sweep, even
\* while newcomers are refused for want of room, and a visitor in the map was
\* seen within IdleTime of the last sweep, give or take the wait of the
\* request that swept.
SweepsKeepUp ==
    /\ unswept < SweepEvery
    /\ \A a \in DOMAIN visitors : swept - visitors[a].updated <= IdleTime + MaxDelay
=============================================================================
