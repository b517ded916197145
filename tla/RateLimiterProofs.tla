------------------------- MODULE RateLimiterProofs --------------------------
(***************************************************************************)
(* RateBound for any number of addresses and requests in flight, and any   *)
(* burst, cost, idle time and wait.                                        *)
(*                                                                         *)
(* The argument is a potential: tokens - updated of a bucket never grows   *)
(* by a refill and drops by Cost with every accepted request.  A sweep     *)
(* throws the bucket away: whoever is swept has earned back all but the    *)
(* Shortfall of what it spent (Forgotten), so a new bucket brings it at    *)
(* most that much early.                                                   *)
(***************************************************************************)
EXTENDS RateLimiter, TLAPS

Entry == [now : Int, total : Int, early : Int]
Bucket == [tokens : Int, updated : Int]

Times ==
    /\ clock \in Int
    /\ call \in [Call -> [address : Address, now : Int] \cup {None}]
    /\ \A c \in Call : call[c] # None =>
          /\ call[c] \in [address : Address, now : Int]
          /\ call[c].now <= clock
          /\ clock - call[c].now <= MaxDelay

Ledger ==
    /\ spent \in [Address -> Int]
    /\ early \in [Address -> Int]
    /\ log \in [Address -> SUBSET Entry]
    /\ \A a \in Address : \A x \in log[a] :
          x.total <= spent[a] /\ x.now <= clock /\ x.early <= early[a]

\* A bucket in the map: its credit is bounded on both sides, and accounts for
\* every accepted request of its address.
Held(a) ==
    /\ visitors[a] \in Bucket
    /\ visitors[a].tokens <= Burst
    /\ 0 - MaxDelay <= visitors[a].tokens
    /\ visitors[a].updated <= clock
    /\ visitors[a].updated - visitors[a].tokens <= clock
    /\ \A x \in log[a] :
          /\ (spent[a] - x.total) + Cost + (visitors[a].tokens - visitors[a].updated)
                <= Burst - x.now + (early[a] - x.early)
          /\ x.now - MaxDelay <= visitors[a].updated
          /\ x.early < early[a] => x.now + IdleTime - MaxDelay < clock

\* An address without a bucket has earned back all but the Shortfall of what it
\* spent by the time any request still to come was read, and was idle.
Forgotten(a) ==
    \A x \in log[a] :
       /\ (spent[a] - x.total) + Cost + x.now <= clock - MaxDelay + Shortfall + (early[a] - x.early)
       /\ x.now + IdleTime - MaxDelay < clock

Buckets ==
    /\ visitors = [a \in DOMAIN visitors |-> visitors[a]]
    /\ DOMAIN visitors \subseteq Address
    /\ \A a \in DOMAIN visitors : Held(a)
    /\ \A a \in Address \ DOMAIN visitors : Forgotten(a)

IInv == Times /\ Ledger /\ Buckets /\ RateBound

LEMMA ShortfallBounds == Shortfall \in Nat /\ Burst + 2 * MaxDelay - IdleTime <= Shortfall
BY LimiterAssumption DEF Shortfall

\* A swept bucket was full again but for the shortfall, however late its sweeper
\* was.
LEMMA SweptIsForgotten ==
    ASSUME IInv, NEW a \in DOMAIN visitors, NEW now \in Int, now <= clock, Idle(a, now)
    PROVE  Forgotten(a)
<1>1. Held(a) /\ a \in Address
  BY DEF IInv, Buckets
<1>2. visitors[a].tokens \in Int /\ visitors[a].updated \in Int
  BY <1>1 DEF Held, Bucket
<1>3. spent[a] \in Int /\ early[a] \in Int /\ clock \in Int
  BY <1>1 DEF IInv, Ledger, Times
<1>4. ASSUME NEW x \in log[a]
      PROVE  /\ (spent[a] - x.total) + Cost + x.now
                  <= clock - MaxDelay + Shortfall + (early[a] - x.early)
             /\ x.now + IdleTime - MaxDelay < clock
  <2>1. x.total \in Int /\ x.now \in Int /\ x.early \in Int
    BY <1>1 DEF IInv, Ledger, Entry
  <2>2. /\ (spent[a] - x.total) + Cost + (visitors[a].tokens - visitors[a].updated)
             <= Burst - x.now + (early[a] - x.early)
        /\ x.now - MaxDelay <= visitors[a].updated
    BY <1>1, <1>4 DEF Held
  <2>3. now - visitors[a].updated > IdleTime /\ 0 - MaxDelay <= visitors[a].tokens
    BY <1>1 DEF Idle, Held
  <2> QED
    BY <1>2, <1>3, <2>1, <2>2, <2>3, ShortfallBounds, LimiterAssumption
<1> QED
  BY <1>4 DEF Forgotten

LEMMA InitIInv == Init => IInv
<1> SUFFICES ASSUME Init PROVE IInv
  OBVIOUS
<1>1. Times
  BY DEF Init, Times, None
<1>2. Ledger
  BY DEF Init, Ledger
<1>3. Buckets
  BY DEF Init, Buckets, Forgotten
<1>4. RateBound
  BY DEF Init, RateBound
<1> QED
  BY <1>1, <1>2, <1>3, <1>4 DEF IInv

LEMMA RateLimitIInv ==
    ASSUME IInv, NEW c \in Call, NEW a \in Address, RateLimit(c, a)
    PROVE  IInv'
<1>1. Times'
  <2>1. call' \in [Call -> [address : Address, now : Int] \cup {None}] /\ clock' \in Int
    BY DEF IInv, Times, RateLimit
  <2>2. ASSUME NEW d \in Call, call'[d] # None
        PROVE  /\ call'[d] \in [address : Address, now : Int]
               /\ call'[d].now <= clock'
               /\ clock' - call'[d].now <= MaxDelay
    <3>1. CASE d = c
      BY <3>1, LimiterAssumption DEF IInv, Times, RateLimit
    <3>2. CASE d # c
      BY <2>2, <3>2 DEF IInv, Times, RateLimit
    <3> QED BY <3>1, <3>2
  <2> QED BY <2>1, <2>2 DEF Times
<1>2. Ledger' /\ Buckets' /\ RateBound'
  BY DEF IInv, Ledger, Buckets, Held, Forgotten, RateBound, RateLimit
<1> QED
  BY <1>1, <1>2 DEF IInv

LEMMA TickIInv == ASSUME IInv, Tick PROVE IInv'
<1>1. Times'
  BY LimiterAssumption DEF IInv, Times, Tick
<1>2. Ledger' /\ RateBound'
  BY DEF IInv, Times, Ledger, Entry, RateBound, Tick
<1>3. Buckets'
  <2>1. ASSUME NEW a \in DOMAIN visitors PROVE Held(a)'
    <3>1. a \in Address /\ clock \in Int /\ clock' = clock + 1 /\ Held(a)
      BY DEF IInv, Times, Buckets, Tick
    <3>2. \A x \in log[a] : x.now \in Int
      BY <3>1 DEF IInv, Ledger, Entry
    <3> QED BY <3>1, <3>2, LimiterAssumption DEF Held, Bucket, Tick
  <2>2. ASSUME NEW a \in Address \ DOMAIN visitors PROVE Forgotten(a)'
    <3>1. ASSUME NEW x \in log'[a]
          PROVE  /\ (spent'[a] - x.total) + Cost + x.now
                      <= clock' - MaxDelay + Shortfall + (early'[a] - x.early)
                 /\ x.now + IdleTime - MaxDelay < clock'
      <4>1. /\ (spent[a] - x.total) + Cost + x.now
                 <= clock - MaxDelay + Shortfall + (early[a] - x.early)
            /\ x.now + IdleTime - MaxDelay < clock
        BY DEF IInv, Buckets, Forgotten, Tick
      <4>2. /\ x.total \in Int /\ x.now \in Int /\ x.early \in Int
            /\ spent[a] \in Int /\ early[a] \in Int /\ clock \in Int
        BY DEF IInv, Ledger, Times, Entry, Tick
      <4> QED BY <4>1, <4>2, ShortfallBounds, LimiterAssumption DEF Tick
    <3> QED BY <3>1 DEF Forgotten
  <2> QED BY <2>1, <2>2 DEF IInv, Buckets, Tick
<1> QED
  BY <1>1, <1>2, <1>3 DEF IInv

\* What a request that leaves the mutex does to the waiting calls.
LEMMA CallDone ==
    ASSUME Times, NEW c \in Call, call' = [call EXCEPT ![c] = None], UNCHANGED clock
    PROVE  Times'
<1>1. call' \in [Call -> [address : Address, now : Int] \cup {None}]
  BY DEF Times
<1>2. \A d \in Call : call'[d] # None => d # c /\ call'[d] = call[d]
  BY DEF Times
<1> QED
  BY <1>1, <1>2 DEF Times

LEMMA AllowFullIInv ==
    ASSUME IInv, NEW c \in Call, AllowFull(c)
    PROVE  IInv'
<1> DEFINE now == call[c].now
<1>1. Times'
  BY CallDone DEF IInv, AllowFull
<1>2. Ledger' /\ RateBound'
  BY DEF IInv, Ledger, RateBound, AllowFull
<1>3. now \in Int /\ now <= clock
  BY DEF IInv, Times, AllowFull
<1>4. /\ visitors' = [a \in Kept(now) |-> visitors[a]]
      /\ Kept(now) \subseteq DOMAIN visitors
      /\ \A a \in DOMAIN visitors \ Kept(now) : Idle(a, now)
  BY DEF AllowFull, Kept
<1>5. ASSUME NEW a \in Kept(now) PROVE Held(a)'
  BY <1>4, <1>5 DEF IInv, Buckets, Held, AllowFull
<1>6. ASSUME NEW a \in Address \ Kept(now) PROVE Forgotten(a)'
  <2>1. Forgotten(a)
    BY <1>3, <1>4, SweptIsForgotten DEF IInv, Buckets
  <2> QED BY <2>1 DEF Forgotten, AllowFull
<1>7. Buckets'
  BY <1>4, <1>5, <1>6 DEF IInv, Buckets
<1> QED
  BY <1>1, <1>2, <1>7 DEF IInv

\* What the refill leaves, whether the bucket was kept, swept or is new.
Credited(a, now) == IF a \in Kept(now) THEN early[a] ELSE early[a] + Shortfall

LEMMA RefillBounds ==
    ASSUME IInv, NEW a \in Address, NEW now \in Int, now <= clock, clock - now <= MaxDelay
    PROVE  LET tokens == Refill(a, now) IN
           /\ tokens \in Int
           /\ tokens <= Burst
           /\ 0 - MaxDelay <= tokens
           /\ now - tokens <= clock
           /\ \A x \in log[a] :
                /\ (spent[a] - x.total) + Cost + (tokens - now)
                     <= Burst - x.now + (Credited(a, now) - x.early)
                /\ x.early < Credited(a, now) => x.now + IdleTime - MaxDelay < clock
<1> DEFINE tokens == Refill(a, now)
<1>0. clock \in Int /\ spent[a] \in Int /\ early[a] \in Int
  BY DEF IInv, Times, Ledger
<1>1. CASE a \in Kept(now)
  <2>1. Held(a)
    BY <1>1 DEF IInv, Buckets, Kept
  <2>2. visitors[a].tokens \in Int /\ visitors[a].updated \in Int
    BY <2>1 DEF Held, Bucket
  <2>3. tokens = Lesser(Burst, visitors[a].tokens + (now - visitors[a].updated))
    BY <1>1 DEF Refill
  <2>4. /\ tokens \in Int /\ tokens <= Burst
        /\ tokens <= visitors[a].tokens + (now - visitors[a].updated)
        /\ tokens = Burst \/ tokens = visitors[a].tokens + (now - visitors[a].updated)
    BY <2>2, <2>3, LimiterAssumption DEF Lesser
  <2>5. 0 - MaxDelay <= tokens /\ now - tokens <= clock
    BY <1>0, <2>1, <2>2, <2>4, LimiterAssumption DEF Held
  <2>6. ASSUME NEW x \in log[a]
        PROVE  /\ (spent[a] - x.total) + Cost + (tokens - now)
                    <= Burst - x.now + (Credited(a, now) - x.early)
               /\ x.early < Credited(a, now) => x.now + IdleTime - MaxDelay < clock
    <3>1. x.total \in Int /\ x.now \in Int /\ x.early \in Int /\ Credited(a, now) = early[a]
      BY <1>1 DEF IInv, Ledger, Entry, Credited
    <3>2. /\ (spent[a] - x.total) + Cost + (visitors[a].tokens - visitors[a].updated)
               <= Burst - x.now + (early[a] - x.early)
          /\ x.early < early[a] => x.now + IdleTime - MaxDelay < clock
      BY <2>1 DEF Held
    <3> QED BY <1>0, <2>2, <2>4, <3>1, <3>2, LimiterAssumption
  <2> QED BY <2>4, <2>5, <2>6
<1>2. CASE a \notin Kept(now)
  <2>1. tokens = Burst
    BY <1>2 DEF Refill
  <2>2. Forgotten(a)
    <3>1. CASE a \in DOMAIN visitors
      BY <1>2, <3>1, SweptIsForgotten DEF Kept
    <3>2. CASE a \notin DOMAIN visitors
      BY <3>2 DEF IInv, Buckets
    <3> QED BY <3>1, <3>2
  <2>3. ASSUME NEW x \in log[a]
        PROVE  /\ (spent[a] - x.total) + Cost + (Burst - now)
                    <= Burst - x.now + (Credited(a, now) - x.early)
               /\ x.now + IdleTime - MaxDelay < clock
    <3>1. /\ x.total \in Int /\ x.now \in Int /\ x.early \in Int
          /\ Credited(a, now) = early[a] + Shortfall
      BY <1>2 DEF IInv, Ledger, Entry, Credited
    <3>2. /\ (spent[a] - x.total) + Cost + x.now
               <= clock - MaxDelay + Shortfall + (early[a] - x.early)
          /\ x.now + IdleTime - MaxDelay < clock
      BY <2>2 DEF Forgotten
    <3> QED BY <1>0, <3>1, <3>2, ShortfallBounds, LimiterAssumption
  <2> QED BY <1>0, <2>1, <2>3, LimiterAssumption
<1> QED BY <1>1, <1>2

LEMMA AllowIInv ==
    ASSUME IInv, NEW c \in Call, Allow(c)
    PROVE  IInv'
<1>p. PICK a \in Address, now \in Int : a = call[c].address /\ now = call[c].now
  BY DEF IInv, Times, Allow
<1> DEFINE tokens == Refill(a, now)
           credit == Credited(a, now)
           allowed == tokens >= Cost
           left == IF allowed THEN tokens - Cost ELSE tokens
           entry == [now |-> now, total |-> spent[a] + Cost, early |-> credit]
<1>0. /\ a \in Address /\ now \in Int /\ now <= clock /\ clock - now <= MaxDelay
      /\ clock \in Int /\ clock' = clock /\ spent[a] \in Int /\ early[a] \in Int
      /\ credit \in Int /\ early[a] <= credit
  BY <1>p, ShortfallBounds DEF IInv, Times, Ledger, Allow, Credited
<1>1. Times'
  BY CallDone DEF IInv, Allow
<1>2. /\ tokens \in Int /\ tokens <= Burst /\ 0 - MaxDelay <= tokens /\ now - tokens <= clock
      /\ \A x \in log[a] :
            /\ (spent[a] - x.total) + Cost + (tokens - now) <= Burst - x.now + (credit - x.early)
            /\ x.early < credit => x.now + IdleTime - MaxDelay < clock
  BY <1>0, RefillBounds
<1>3. /\ visitors' = [b \in Kept(now) \cup {a} |->
                        IF b = a THEN [tokens |-> left, updated |-> now] ELSE visitors[b]]
      /\ spent' = IF allowed THEN [spent EXCEPT ![a] = @ + Cost] ELSE spent
      /\ early' = [early EXCEPT ![a] = credit]
      /\ log' = IF allowed THEN [log EXCEPT ![a] = @ \cup {entry}] ELSE log
  <2>1. early' = [early EXCEPT ![a] = credit] /\ early'[a] = credit
    BY <1>0, <1>p DEF Allow, Credited, IInv, Ledger
  <2> QED BY <1>p, <2>1 DEF Allow
<1>4. /\ Kept(now) \subseteq DOMAIN visitors
      /\ \A b \in DOMAIN visitors \ Kept(now) : Idle(b, now)
  BY DEF Kept
<1> HIDE DEF tokens, credit
<1>5. \A b \in Address : b # a =>
        spent'[b] = spent[b] /\ early'[b] = early[b] /\ log'[b] = log[b]
  BY <1>0, <1>3 DEF IInv, Ledger
<1>6. /\ early'[a] = credit
      /\ allowed => spent'[a] = spent[a] + Cost /\ log'[a] = log[a] \cup {entry}
      /\ ~allowed => spent'[a] = spent[a] /\ log'[a] = log[a]
  BY <1>0, <1>3 DEF IInv, Ledger
<1>7. \A x \in log[a] :
        /\ x \in Entry /\ x.total \in Int /\ x.now \in Int /\ x.early \in Int
        /\ x.total <= spent[a] /\ x.now <= clock /\ x.early <= early[a]
  BY <1>0 DEF IInv, Ledger, Entry
<1>8. /\ entry \in Entry /\ entry.now = now /\ entry.total = spent[a] + Cost
      /\ entry.early = credit
  BY <1>0, LimiterAssumption DEF Entry
<1> HIDE DEF entry
<1>9. Ledger'
  <2>1. spent' \in [Address -> Int] /\ early' \in [Address -> Int]
    BY <1>0, <1>3, LimiterAssumption DEF IInv, Ledger
  <2>2. log' \in [Address -> SUBSET Entry]
    BY <1>0, <1>3, <1>8 DEF IInv, Ledger
  <2>3. ASSUME NEW b \in Address, NEW x \in log'[b]
        PROVE  x.total <= spent'[b] /\ x.now <= clock' /\ x.early <= early'[b]
    <3>1. CASE b # a
      BY <1>0, <1>5, <2>3, <3>1 DEF IInv, Ledger
    <3>2. CASE b = a
      BY <1>0, <1>6, <1>7, <1>8, <2>3, <3>2, LimiterAssumption
    <3> QED BY <3>1, <3>2
  <2> QED BY <2>1, <2>2, <2>3 DEF Ledger
<1>10. RateBound'
  <2>1. ASSUME NEW b \in Address, NEW x \in log'[b], NEW y \in log'[b], x.total <= y.total
        PROVE  /\ (y.total - x.total) + Cost <= Burst + (y.now - x.now) + (y.early - x.early)
               /\ x.early < y.early => y.now - x.now > IdleTime - 2 * MaxDelay
    <3>1. CASE x \in log[b] /\ y \in log[b]
      BY <2>1, <3>1 DEF IInv, RateBound
    <3>2. CASE b = a /\ allowed /\ y = entry /\ x \in log[a]
      BY <1>0, <1>2, <1>7, <1>8, <3>2, LimiterAssumption
    <3>3. CASE b = a /\ allowed /\ y = entry /\ x = entry
      BY <1>0, <1>2, <1>8, <3>3, LimiterAssumption
    <3>4. CASE b = a /\ allowed /\ x = entry /\ y \in log[a]
      BY <1>0, <1>7, <1>8, <2>1, <3>4, LimiterAssumption
    <3> QED BY <1>5, <1>6, <2>1, <3>1, <3>2, <3>3, <3>4
  <2> QED BY <2>1 DEF RateBound
<1>11. DOMAIN visitors' = Kept(now) \cup {a}
  BY <1>3
<1>12. Held(a)'
  <2>1. visitors'[a].tokens = left /\ visitors'[a].updated = now /\ visitors'[a] \in Bucket
    BY <1>0, <1>2, <1>3, LimiterAssumption DEF Bucket
  <2>2. left \in Int /\ left <= Burst /\ 0 - MaxDelay <= left /\ now - left <= clock
    BY <1>0, <1>2, LimiterAssumption
  <2>3. ASSUME NEW x \in log'[a]
        PROVE  /\ (spent'[a] - x.total) + Cost + (left - now)
                    <= Burst - x.now + (early'[a] - x.early)
               /\ x.now - MaxDelay <= now
               /\ x.early < early'[a] => x.now + IdleTime - MaxDelay < clock
    <3>1. CASE ~allowed
      BY <1>0, <1>2, <1>6, <1>7, <2>3, <3>1, LimiterAssumption
    <3>2. CASE allowed /\ x \in log[a]
      BY <1>0, <1>2, <1>6, <1>7, <3>2, LimiterAssumption
    <3>3. CASE allowed /\ x = entry
      BY <1>0, <1>2, <1>6, <1>8, <3>3, LimiterAssumption
    <3> QED BY <1>6, <2>3, <3>1, <3>2, <3>3
  <2>4. /\ visitors'[a].tokens <= Burst
        /\ 0 - MaxDelay <= visitors'[a].tokens
        /\ visitors'[a].updated <= clock'
        /\ visitors'[a].updated - visitors'[a].tokens <= clock'
    BY <1>0, <2>1, <2>2
  <2>5. \A x \in log'[a] :
          /\ (spent'[a] - x.total) + Cost + (visitors'[a].tokens - visitors'[a].updated)
                <= Burst - x.now + (early'[a] - x.early)
          /\ x.now - MaxDelay <= visitors'[a].updated
          /\ x.early < early'[a] => x.now + IdleTime - MaxDelay < clock'
    <3> HIDE DEF left
    <3> QED BY <1>0, <2>1, <2>3
  <2> HIDE DEF left
  <2> QED BY <2>1, <2>4, <2>5, Zenon DEF Held
<1>13. ASSUME NEW b \in Kept(now), b # a PROVE Held(b)'
  <2>1. Held(b) /\ visitors'[b] = visitors[b] /\ b \in Address
    BY <1>3, <1>4, <1>13 DEF IInv, Buckets
  <2> QED BY <1>0, <1>5, <1>13, <2>1 DEF Held
<1>14. ASSUME NEW b \in Address \ (Kept(now) \cup {a}) PROVE Forgotten(b)'
  <2>1. Forgotten(b)
    BY <1>0, <1>4, <1>14, SweptIsForgotten DEF IInv, Buckets
  <2> QED BY <1>0, <1>5, <1>14, <2>1 DEF Forgotten
<1>15. Buckets'
  <2>1. visitors' = [b \in DOMAIN visitors' |-> visitors'[b]]
    BY <1>3
  <2>2. DOMAIN visitors' \subseteq Address
    BY <1>0, <1>4, <1>11 DEF IInv, Buckets
  <2>3. \A b \in DOMAIN visitors' : Held(b)'
    BY <1>11, <1>12, <1>13, Zenon
  <2>4. \A b \in Address \ DOMAIN visitors' : Forgotten(b)'
    BY <1>11, <1>14, Zenon
  <2> QED BY <2>1, <2>2, <2>3, <2>4, Zenon DEF Buckets
<1> QED
  BY <1>1, <1>9, <1>10, <1>15 DEF IInv

\* ipLimiter.allow keeps every address to its burst and its rate, and to one
\* shortfall more for each bucket a sweep let it have again, at most once per
\* idle time, in whatever order requests reach the mutex and whatever rate and
\* burst the server was configured with.
THEOREM RateIsBounded == Spec => []RateBound
<1>1. IInv /\ [Next]_vars => IInv'
  <2> SUFFICES ASSUME IInv, [Next]_vars PROVE IInv'
    OBVIOUS
  <2>1. CASE \E c \in Call, a \in Address : RateLimit(c, a)
    BY <2>1, RateLimitIInv
  <2>2. CASE \E c \in Call : AllowFull(c)
    BY <2>2, AllowFullIInv
  <2>3. CASE \E c \in Call : Allow(c)
    BY <2>3, AllowIInv
  <2>4. CASE Tick
    BY <2>4, TickIInv
  <2>5. CASE UNCHANGED vars
    BY <2>5 DEF vars, IInv, Times, Ledger, Buckets, Held, Forgotten, RateBound
  <2> QED BY <2>1, <2>2, <2>3, <2>4, <2>5 DEF Next
<1>2. IInv => RateBound
  BY DEF IInv
<1> QED
  BY InitIInv, <1>1, <1>2, PTL DEF Spec

-----------------------------------------------------------------------------
(* Sweeps *)

\* The counter of requests is what the ghost counts.
Counted ==
    /\ requests = unswept
    /\ unswept \in 0..(SweepEvery - 1)
    /\ swept \in Int /\ swept <= clock
    /\ DOMAIN visitors \subseteq Address
    /\ \A a \in DOMAIN visitors : visitors[a].updated \in Int

SInv == Times /\ Counted /\ SweepsKeepUp

LEMMA Modulo ==
    ASSUME NEW s \in Nat \ {0}, NEW r \in 0..(s - 1)
    PROVE  (r + 1) % s = IF r + 1 = s THEN 0 ELSE r + 1
<1>1. CASE r + 1 = s
  BY <1>1
<1>2. CASE r + 1 # s
  BY <1>2
<1> QED BY <1>1, <1>2

\* A request in the mutex, whatever becomes of it, leaves the visitors it
\* kept and possibly its own.
LEMMA SweepStep ==
    ASSUME SInv, NEW c \in Call, call[c] # None, CountRequest(call[c].now),
           UNCHANGED clock, call' = [call EXCEPT ![c] = None],
           DOMAIN visitors' \subseteq Kept(call[c].now) \cup {call[c].address},
           \A a \in DOMAIN visitors' :
              \/ a \in Kept(call[c].now) /\ visitors'[a] = visitors[a]
              \/ visitors'[a].updated = call[c].now
    PROVE  SInv'
<1> DEFINE now == call[c].now
<1>0. /\ now \in Int /\ now <= clock /\ clock - now <= MaxDelay
      /\ clock \in Int /\ call[c].address \in Address
  BY DEF SInv, Times
<1>1. Times'
  BY CallDone DEF SInv
<1>2. (requests + 1) % SweepEvery = IF requests + 1 = SweepEvery THEN 0 ELSE requests + 1
  BY Modulo, LimiterAssumption DEF SInv, Counted
<1>3. /\ requests' = unswept' /\ unswept' \in 0..(SweepEvery - 1)
      /\ swept' \in Int /\ swept' <= clock'
  BY <1>0, <1>2, LimiterAssumption DEF SInv, Counted, CountRequest, Sweeps
<1>4. ASSUME NEW a \in DOMAIN visitors'
      PROVE  visitors'[a].updated \in Int /\ swept' - visitors'[a].updated <= IdleTime + MaxDelay
  <2>1. CASE visitors'[a].updated = now
    BY <1>0, <1>3, <2>1, LimiterAssumption
  <2>2. CASE a \in Kept(now) /\ visitors'[a] = visitors[a]
    <3>1. a \in DOMAIN visitors /\ visitors[a].updated \in Int
      BY <2>2 DEF Kept, SInv, Counted
    <3>2. CASE Sweeps
      BY <1>0, <2>2, <3>1, <3>2, LimiterAssumption DEF Kept, Idle, CountRequest
    <3>3. CASE ~Sweeps
      BY <2>2, <3>1, <3>3 DEF CountRequest, SInv, SweepsKeepUp
    <3> QED BY <3>2, <3>3
  <2> QED BY <2>1, <2>2, <1>4
<1>5. DOMAIN visitors' \subseteq Address
  BY <1>0 DEF SInv, Counted, Kept
<1>6. unswept' < SweepEvery
  BY <1>3, LimiterAssumption
<1> QED
  BY <1>1, <1>3, <1>4, <1>5, <1>6 DEF SInv, Counted, SweepsKeepUp

\* The limiter's map is reclaimed at least once in SweepEvery requests, and
\* keeps nobody who was idle then, whoever is refused in the meantime.
THEOREM SweepsAreRegular == Spec => []SweepsKeepUp
<1>1. Init => SInv
  BY LimiterAssumption DEF Init, SInv, Times, Counted, SweepsKeepUp, None
<1>2. SInv /\ [Next]_vars => SInv'
  <2> SUFFICES ASSUME SInv, [Next]_vars PROVE SInv'
    OBVIOUS
  <2>1. ASSUME NEW c \in Call, NEW a \in Address, RateLimit(c, a) PROVE SInv'
    <3>1. \A d \in Call : call'[d] = IF d = c THEN [address |-> a, now |-> clock] ELSE call[d]
      BY <2>1 DEF RateLimit, SInv, Times
    <3>2. Times'
      BY <2>1, <3>1, LimiterAssumption DEF SInv, Times, RateLimit
    <3> QED BY <2>1, <3>2 DEF SInv, Counted, SweepsKeepUp, RateLimit
  <2>2. ASSUME NEW c \in Call, AllowFull(c) PROVE SInv'
    BY <2>2, SweepStep DEF AllowFull
  <2>3. ASSUME NEW c \in Call, Allow(c) PROVE SInv'
    <3>1. /\ DOMAIN visitors' \subseteq Kept(call[c].now) \cup {call[c].address}
          /\ \A a \in DOMAIN visitors' :
                \/ a \in Kept(call[c].now) /\ visitors'[a] = visitors[a]
                \/ visitors'[a].updated = call[c].now
      BY <2>3 DEF Allow
    <3> QED BY <2>3, <3>1, SweepStep DEF Allow
  <2>4. CASE Tick
    BY <2>4, LimiterAssumption DEF SInv, Times, Counted, SweepsKeepUp, Tick
  <2>5. CASE UNCHANGED vars
    BY <2>5 DEF vars, SInv, Times, Counted, SweepsKeepUp
  <2> QED BY <2>1, <2>2, <2>3, <2>4, <2>5 DEF Next
<1>3. SInv => SweepsKeepUp
  BY DEF SInv
<1> QED
  BY <1>1, <1>2, <1>3, PTL DEF Spec
=============================================================================
