------------------------- MODULE RevocationCacheProofs -------------------------
(***************************************************************************)
(* Proofs about RevocationCache: for every number of leases and requests,  *)
(* every mode and every offset between the clocks, a revoked lease is      *)
(* accepted no longer than the verifier's exposure, and the cache never    *)
(* forgets a revocation.                                                   *)
(*                                                                         *)
(* The bound is not inductive: it speaks of answers, and an answer is read *)
(* off a snapshot taken earlier.  CacheInv says what every snapshot knows: *)
(* the one in the cache lists each lease revoked before the fetch that     *)
(* brought it can have begun, the one on its way each lease revoked before *)
(* its request was sent (or the lease has expired at the control plane);   *)
(* and, because only the holder of revocationRefresh fetches, the cache a  *)
(* 304 confirms is the cache whose ETag was sent.                          *)
(***************************************************************************)
EXTENDS RevocationCache, TLAPS

Looking == [pc : {"lookup", "waiting"}, lease : Lease]

Requested == [pc : {"requested"}, lease : Lease, since : Nat,
              ifNoneMatch : (SUBSET Lease) \union {None}]

Responded == [pc : {"responded"}, lease : Lease, since : Nat, notModified : BOOLEAN,
              revoked : SUBSET Lease, generatedAt : Int]

Decision == [pc : {"decided"}, lease : Lease,
             verdict : {"accepted", "revoked", "unavailable"}, at : Nat]

CallState == {[pc |-> "idle"]} \union Looking \union Requested \union Responded \union Decision

CacheType ==
  /\ clock \in Nat /\ offset \in Int /\ mode \in Modes /\ clock <= MaxClock
  /\ revokedAt \in [Lease -> Nat \union {None}]
  /\ cache \in [revoked : SUBSET Lease, expire : Nat, fetched : Nat \union {None},
                etag : (SUBSET Lease) \union {None}]
  /\ call \in [Call -> CallState]

\* Every lease revoked before time t is in the set, unless the feed has dropped it.
Knows(set, t) ==
  \A l \in Lease : revokedAt[l] # None /\ revokedAt[l] < t =>
    l \in set \/ Expiration[l] <= ServerClock

\* A set holds revoked leases only.
Genuine(set) == \A l \in set : revokedAt[l] # None

SnapshotInv ==
  /\ Genuine(cache.revoked)
  /\ cache.fetched = None => cache.expire = 0 /\ cache.etag = None
  /\ cache.fetched # None =>
       /\ cache.fetched <= clock /\ cache.expire = cache.fetched + RevocationCacheTTL
       /\ cache.etag = cache.revoked
       /\ Knows(cache.revoked, cache.fetched - FetchTimeout)

\* What the fetch of a request in state s has seen.
FetchInv(s) ==
  /\ s.pc \in {"requested", "responded"} => s.since <= clock /\ clock <= s.since + FetchTimeout
  /\ s.pc = "requested" => s.ifNoneMatch = cache.etag
  /\ s.pc = "responded" =>
       /\ Knows(s.revoked, s.since) /\ Genuine(s.revoked)
       /\ s.notModified => s.revoked = cache.revoked /\ cache.etag = cache.revoked
       /\ \A l \in cache.revoked : l \in s.revoked \/ Expiration[l] <= ServerClock

\* Accepting lease l at time t is within the bound.
Bounded(l, t) ==
  \/ revokedAt[l] = None
  \/ t - revokedAt[l] <= Exposure
  \/ Expiration[l] <= t + offset

AnswerInv(s) ==
  s.pc = "decided" => s.at <= clock /\ (s.verdict = "accepted" => Bounded(s.lease, s.at))

OneFetch == \A p, q \in Call : Fetching(p) /\ Fetching(q) => p = q

CacheInv ==
  /\ CacheType /\ SnapshotInv /\ OneFetch
  /\ \A p \in Call : FetchInv(call[p]) /\ AnswerInv(call[p])

-------------------------------------------------------------------------------
\* The exposure of each mode covers what that mode does.
LEMMA ExposureCovers ==
  ASSUME CacheType
  PROVE  /\ Exposure \in Nat
         /\ mode = "EXPIRY_ONLY" => Exposure = MaxClock
         /\ mode # "EXPIRY_ONLY" => /\ FetchTimeout <= Exposure
                                    /\ RevocationCacheTTL + FetchTimeout - 1 <= Exposure
         /\ mode = "BOUNDED_STALE" => Exposure = MaxStaleness + FetchTimeout
<1> mode \in {"STRICT", "BOUNDED_STALE", "EXPIRY_ONLY"}
  BY RevocationCacheAssumption DEF CacheType
<1>1. CASE mode = "STRICT"
  BY <1>1, RevocationCacheAssumption DEF Exposure
<1>2. CASE mode = "BOUNDED_STALE"
  BY <1>2, RevocationCacheAssumption DEF Exposure
<1>3. CASE mode = "EXPIRY_ONLY"
  BY <1>3, RevocationCacheAssumption DEF Exposure
<1> QED BY <1>1, <1>2, <1>3

\* A lease that a snapshot fresh or recent enough does not list may be accepted.
LEMMA UnlistedIsBounded ==
  ASSUME CacheType, NEW set, NEW l \in Lease, l \notin set, NEW t \in Int,
         Knows(set, t), clock - t <= Exposure \/ mode = "EXPIRY_ONLY"
  PROVE  Bounded(l, clock)
<1>1. CASE revokedAt[l] # None /\ revokedAt[l] < t
  BY <1>1 DEF Knows, Bounded, ServerClock
<1>2. CASE revokedAt[l] # None /\ ~(revokedAt[l] < t)
  <2> revokedAt[l] \in Nat /\ clock \in Nat /\ clock <= MaxClock /\ MaxClock \in Nat
    BY <1>2, RevocationCacheAssumption DEF CacheType
  <2> clock - revokedAt[l] <= Exposure
    BY <1>2, ExposureCovers
  <2> QED BY DEF Bounded
<1> QED BY <1>1, <1>2 DEF Bounded

\* What isRevoked answers from the cache is within the bound.
LEMMA CacheAnswers ==
  ASSUME CacheInv, NEW l \in Lease,
         Fresh \/ (mode = "BOUNDED_STALE" /\ StaleUsable), l \notin cache.revoked
  PROVE  Bounded(l, clock)
<1> /\ CacheType /\ SnapshotInv /\ RevocationCacheTTL \in Nat /\ FetchTimeout \in Nat
    /\ MaxStaleness \in Nat
  BY RevocationCacheAssumption DEF CacheInv
<1> clock \in Nat /\ cache.expire \in Nat /\ cache.fetched \in Nat \union {None}
  BY DEF CacheType
<1>1. cache.fetched # None
  BY DEF Fresh, StaleUsable, SnapshotInv
<1>2. cache.fetched \in Nat /\ Knows(cache.revoked, cache.fetched - FetchTimeout)
  BY <1>1 DEF SnapshotInv
<1>3. clock - (cache.fetched - FetchTimeout) <= Exposure \/ mode = "EXPIRY_ONLY"
  BY <1>1, <1>2, ExposureCovers DEF Fresh, StaleUsable, SnapshotInv
<1> QED BY <1>2, <1>3, UnlistedIsBounded, cache.fetched - FetchTimeout \in Int

-------------------------------------------------------------------------------
\* A step that moves one request and changes nothing else keeps the invariant
\* when its new state does.
LEMMA Moved ==
  ASSUME CacheInv, NEW p \in Call, NEW s \in CallState, Goto(p, s),
         UNCHANGED <<clock, offset, mode, revokedAt, cache>>,
         FetchInv(s), AnswerInv(s),
         s.pc \in {"requested", "responded"} => Fetching(p) \/ RefreshFree(p)
  PROVE  CacheInv'
<1>1. CacheType'
  BY DEF CacheInv, CacheType, Goto
<1>2. call' = [call EXCEPT ![p] = s] /\ call \in [Call -> CallState]
  BY DEF CacheInv, CacheType, Goto
<1>3. OneFetch'
  BY <1>2 DEF CacheInv, OneFetch, Fetching, RefreshFree
<1>4. SnapshotInv'
  BY DEF CacheInv, SnapshotInv, Knows, Genuine, ServerClock
<1>5. ASSUME NEW q \in Call PROVE FetchInv(call[q])' /\ AnswerInv(call[q])'
  <2>1. FetchInv(call'[q]) /\ AnswerInv(call'[q])
    BY <1>2 DEF CacheInv
  <2> QED BY <2>1 DEF FetchInv, AnswerInv, Knows, Genuine, ServerClock, Bounded, Exposure
<1> QED BY <1>1, <1>3, <1>4, <1>5 DEF CacheInv

\* A decision is a state a request may be in, and owes only its bound.
LEMMA DecisionState ==
  ASSUME CacheInv, NEW l \in Lease, NEW verdict \in {"accepted", "revoked", "unavailable"},
         verdict = "accepted" => Bounded(l, clock)
  PROVE  /\ Decided(l, verdict) \in CallState
         /\ FetchInv(Decided(l, verdict)) /\ AnswerInv(Decided(l, verdict))
         /\ Decided(l, verdict).pc = "decided"
<1> clock \in Nat
  BY DEF CacheInv, CacheType
<1>1. Decided(l, verdict) \in Decision
  BY DEF Decided, Decision
<1> QED BY <1>1 DEF Decided, CallState, FetchInv, AnswerInv

LEMMA CacheDecision ==
  ASSUME CacheInv, NEW l \in Lease, Fresh \/ (mode = "BOUNDED_STALE" /\ StaleUsable)
  PROVE  /\ Answer(l, cache.revoked) \in CallState
         /\ FetchInv(Answer(l, cache.revoked)) /\ AnswerInv(Answer(l, cache.revoked))
         /\ Answer(l, cache.revoked).pc = "decided"
BY DecisionState, CacheAnswers DEF Answer

\* Initially nothing is revoked, cached or asked.
LEMMA InitCache == Init => CacheInv
<1> SUFFICES ASSUME Init PROVE CacheInv
  OBVIOUS
<1>1. CacheType
  <2>1. call \in [Call -> CallState]
    BY DEF Init, CallState
  <2>2. cache \in [revoked : SUBSET Lease, expire : Nat, fetched : Nat \union {None},
                   etag : (SUBSET Lease) \union {None}]
    BY DEF Init
  <2>3. revokedAt \in [Lease -> Nat \union {None}]
    BY DEF Init
  <2> QED BY <2>1, <2>2, <2>3, RevocationCacheAssumption DEF Init, CacheType
<1>2. SnapshotInv /\ OneFetch
  BY DEF Init, SnapshotInv, Genuine, OneFetch, Fetching
<1>3. \A p \in Call : call[p] = [pc |-> "idle"]
  BY DEF Init
<1> QED BY <1>1, <1>2, <1>3 DEF CacheInv, FetchInv, AnswerInv

\* A revocation is dated now: no snapshot taken before has to know it, and no
\* answer given before is late.
LEMMA RevokeLeaseKeeps ==
  ASSUME CacheInv, NEW l \in Lease, RevokeLease(l)
  PROVE  CacheInv'
<1> /\ CacheType /\ FetchTimeout \in Nat /\ None \notin Nat
    /\ UNCHANGED <<clock, offset, mode, cache, call>>
    /\ revokedAt[l] = None /\ revokedAt' = [revokedAt EXCEPT ![l] = clock]
  BY RevocationCacheAssumption DEF CacheInv, RevokeLease
<1>1. CacheType'
  BY DEF CacheType
<1>2. ASSUME NEW set, NEW t \in Int, t <= clock, Knows(set, t) PROVE Knows(set, t)'
  BY <1>2 DEF Knows, CacheType, ServerClock
<1>3. ASSUME NEW set \in SUBSET Lease, Genuine(set) PROVE Genuine(set)'
  BY <1>3 DEF Genuine, CacheType
<1>4. ASSUME NEW k \in Lease, NEW t \in Nat, t <= clock, Bounded(k, t) PROVE Bounded(k, t)'
  <2>1. Exposure \in Nat /\ Exposure' = Exposure
    BY ExposureCovers DEF Exposure
  <2>2. CASE k = l
    BY <1>4, <2>1, <2>2 DEF Bounded, CacheType
  <2>3. CASE k # l
    BY <1>4, <2>1, <2>3 DEF Bounded, CacheType
  <2> QED BY <2>2, <2>3
<1>5. SnapshotInv'
  <2>1. cache.revoked \in SUBSET Lease /\ cache.fetched \in Nat \union {None} /\ clock \in Nat
    BY DEF CacheType
  <2>2. CASE cache.fetched # None
    <3>1. cache.fetched - FetchTimeout \in Int /\ cache.fetched - FetchTimeout <= clock
      BY <2>1, <2>2 DEF CacheInv, SnapshotInv
    <3> QED BY <1>2, <1>3, <2>1, <2>2, <3>1 DEF CacheInv, SnapshotInv
  <2>3. CASE cache.fetched = None
    BY <1>3, <2>1, <2>3 DEF CacheInv, SnapshotInv
  <2> QED BY <2>2, <2>3
<1>6. OneFetch'
  BY DEF CacheInv, OneFetch, Fetching
<1>7. ASSUME NEW p \in Call PROVE FetchInv(call[p])' /\ AnswerInv(call[p])'
  <2> DEFINE s == call[p]
  <2>1. s \in CallState /\ FetchInv(s) /\ AnswerInv(s) /\ call'[p] = s
    BY DEF CacheInv, CacheType
  <2>2. FetchInv(s)'
    <3>1. CASE s.pc = "responded"
      <4>1. s.since \in Nat /\ s.revoked \in SUBSET Lease
        BY <2>1, <3>1 DEF CallState, Looking, Requested, Responded, Decision
      <4> QED BY <1>2, <1>3, <2>1, <3>1, <4>1 DEF FetchInv, ServerClock
    <3>2. CASE s.pc # "responded"
      BY <2>1, <3>2 DEF FetchInv
    <3> QED BY <3>1, <3>2
  <2>3. AnswerInv(s)'
    <3>1. CASE s.pc = "decided"
      <4>1. s.lease \in Lease /\ s.at \in Nat
        BY <2>1, <3>1 DEF CallState, Looking, Requested, Responded, Decision
      <4> QED BY <1>4, <2>1, <3>1, <4>1 DEF AnswerInv
    <3>2. CASE s.pc # "decided"
      BY <2>1, <3>2 DEF AnswerInv
    <3> QED BY <3>1, <3>2
  <2> QED BY <2>2, <2>3
<1> QED BY <1>1, <1>5, <1>6, <1>7 DEF CacheInv

\* Time makes a snapshot older and leases expire, and no fetch outlasts its timeout.
LEMMA TickKeeps ==
  ASSUME CacheInv, Tick
  PROVE  CacheInv'
<1> /\ CacheType /\ UNCHANGED <<offset, mode, revokedAt, cache, call>>
    /\ clock' = clock + 1 /\ clock < MaxClock /\ MaxClock \in Nat /\ FetchTimeout \in Nat
    /\ Expiration \in [Lease -> Nat]
  BY RevocationCacheAssumption DEF CacheInv, Tick
<1> clock \in Nat /\ offset \in Int
  BY DEF CacheType
<1>1. CacheType'
  BY DEF CacheType
<1>2. \A k \in Lease : Expiration[k] <= ServerClock => Expiration[k] <= ServerClock'
  BY DEF ServerClock
<1>3. ASSUME NEW set, NEW t, Knows(set, t) PROVE Knows(set, t)'
  BY <1>2, <1>3 DEF Knows
<1>4. SnapshotInv'
  <2>1. cache.fetched \in Nat \union {None}
    BY DEF CacheType
  <2> QED BY <1>3, <2>1 DEF CacheInv, SnapshotInv, Genuine
<1>5. OneFetch'
  BY DEF CacheInv, OneFetch, Fetching
<1>6. ASSUME NEW p \in Call PROVE FetchInv(call[p])' /\ AnswerInv(call[p])'
  <2> DEFINE s == call[p]
  <2>1. s \in CallState /\ FetchInv(s) /\ AnswerInv(s) /\ call'[p] = s
    BY DEF CacheInv, CacheType
  <2>2. s.pc \in {"requested", "responded"} => s.since \in Nat /\ clock < s.since + FetchTimeout
    BY <2>1 DEF CallState, Looking, Requested, Responded, Decision, Tick, Fetching
  <2>3. s.pc = "responded" => s.revoked \in SUBSET Lease /\ cache.revoked \in SUBSET Lease
    BY <2>1 DEF CallState, Looking, Requested, Responded, Decision, CacheType
  <2>4. FetchInv(s)'
    BY <1>2, <1>3, <2>1, <2>2, <2>3 DEF FetchInv, Genuine
  <2>5. s.pc = "decided" => s.at \in Nat
    BY <2>1 DEF CallState, Looking, Requested, Responded, Decision
  <2>6. AnswerInv(s)'
    BY <2>1, <2>5 DEF AnswerInv, Bounded, Exposure
  <2> QED BY <2>4, <2>6
<1> QED BY <1>1, <1>4, <1>5, <1>6 DEF CacheInv

\* Installing a snapshot: the request that brought it was sent at most a timeout
\* ago, and nobody else has asked in between.
LEMMA ReceiveKeeps ==
  ASSUME CacheInv, NEW p \in Call, Receive(p)
  PROVE  CacheInv'
<1> DEFINE s == call[p]
<1> /\ CacheType /\ SnapshotInv /\ UNCHANGED <<clock, offset, mode, revokedAt>>
    /\ s.pc = "responded" /\ FetchInv(s) /\ FetchTimeout \in Nat
    /\ RevocationCacheTTL \in Nat /\ clock \in Nat /\ None \notin Nat
  BY RevocationCacheAssumption DEF CacheInv, CacheType, Receive
<1>1. s \in Responded
  BY DEF CacheType, CallState, Looking, Requested, Responded, Decision
<1>2. /\ s.lease \in Lease /\ s.since \in Nat /\ s.revoked \in SUBSET Lease
      /\ clock - FetchTimeout <= s.since /\ s.since <= clock
      /\ Knows(s.revoked, s.since) /\ Genuine(s.revoked)
  BY <1>1 DEF Responded, FetchInv
<1>3. /\ cache'.revoked = s.revoked /\ cache'.etag \in (SUBSET Lease) \union {None}
      /\ cache'.expire = clock + RevocationCacheTTL /\ cache'.fetched = clock
      /\ cache' \in [revoked : SUBSET Lease, expire : Nat, fetched : Nat \union {None},
                     etag : (SUBSET Lease) \union {None}]
  BY <1>2 DEF Receive, FetchInv, CacheType
<1>4. cache'.etag = s.revoked
  BY DEF Receive, FetchInv
<1>5. SnapshotInv'
  <2>1. Knows(s.revoked, clock - FetchTimeout)
    BY <1>2 DEF Knows, CacheType
  <2> QED BY <1>2, <1>3, <1>4, <2>1 DEF SnapshotInv, Knows, Genuine, ServerClock
<1>6. ASSUME s.lease \notin s.revoked PROVE Bounded(s.lease, clock)
  <2>1. clock - s.since <= Exposure \/ mode = "EXPIRY_ONLY"
    BY <1>2, ExposureCovers
  <2> QED BY <1>2, <1>6, <2>1, UnlistedIsBounded
<1>7. PICK a \in CallState : /\ call' = [call EXCEPT ![p] = a] /\ a.pc = "decided"
                           /\ AnswerInv(a)
  <2> DEFINE v == IF s.lease \in s.revoked THEN "revoked" ELSE "accepted"
  <2>1. call' = [call EXCEPT ![p] = Decided(s.lease, v)]
    BY <1>3 DEF Receive, Goto, Answer
  <2> QED BY <1>2, <1>6, <2>1, DecisionState
<1>8. CacheType' /\ OneFetch'
  BY <1>3, <1>7 DEF CacheInv, CacheType, OneFetch, Fetching
<1>9. ASSUME NEW q \in Call PROVE FetchInv(call[q])' /\ AnswerInv(call[q])'
  <2>1. call \in [Call -> CallState] /\ Fetching(p)
    BY DEF CacheType, Fetching
  <2>2. AnswerInv(call'[q]) /\ call'[q].pc \notin {"requested", "responded"}
    BY <1>7, <2>1 DEF CacheInv, OneFetch, Fetching
  <2> QED BY <2>2 DEF FetchInv, AnswerInv, Bounded, Exposure
<1> QED BY <1>5, <1>8, <1>9 DEF CacheInv

\* Every step of a request or of the control plane keeps the invariant.
LEMMA CacheNext == CacheInv /\ [Next]_vars => CacheInv'
<1> SUFFICES ASSUME CacheInv, [Next]_vars PROVE CacheInv'
  OBVIOUS
<1> CacheType /\ SnapshotInv
  BY DEF CacheInv
<1>1. ASSUME NEW l \in Lease, RevokeLease(l) PROVE CacheInv'
  BY <1>1, RevokeLeaseKeeps
<1>2. ASSUME NEW p \in Call, NEW l \in Lease, Authorize(p, l) PROVE CacheInv'
  <2>1. CASE mode = "EXPIRY_ONLY"
    <3>1. clock <= Exposure /\ clock \in Nat
      BY <2>1, ExposureCovers DEF CacheType
    <3>2. Bounded(l, clock)
      BY <2>1, <3>1, ExposureCovers DEF Bounded, CacheType
    <3> QED BY <1>2, <2>1, <3>2, DecisionState, Moved DEF Authorize
  <2>2. CASE mode # "EXPIRY_ONLY"
    <3> DEFINE s == [pc |-> "lookup", lease |-> l]
    <3>1. s \in CallState /\ FetchInv(s) /\ AnswerInv(s)
      BY DEF CallState, Looking, FetchInv, AnswerInv
    <3> QED BY <1>2, <2>2, <3>1, Moved DEF Authorize
  <2> QED BY <2>1, <2>2
<1>3. ASSUME NEW p \in Call, LookUp(p) PROVE CacheInv'
  <2>1. call[p].lease \in Lease
    BY <1>3 DEF LookUp, CacheType, CallState, Looking, Requested, Responded, Decision
  <2>2. CASE Fresh
    BY <1>3, <2>1, <2>2, CacheDecision, Moved DEF LookUp
  <2>3. CASE ~Fresh
    <3> DEFINE s == [pc |-> "waiting", lease |-> call[p].lease]
    <3>1. s \in CallState /\ FetchInv(s) /\ AnswerInv(s)
      BY <2>1 DEF CallState, Looking, FetchInv, AnswerInv
    <3> QED BY <1>3, <2>3, <3>1, Moved DEF LookUp
  <2> QED BY <2>2, <2>3
<1>4. ASSUME NEW p \in Call, Refresh(p) PROVE CacheInv'
  <2>1. call[p].lease \in Lease
    BY <1>4 DEF Refresh, CacheType, CallState, Looking, Requested, Responded, Decision
  <2>2. CASE Fresh
    BY <1>4, <2>1, <2>2, CacheDecision, Moved DEF Refresh
  <2>3. CASE ~Fresh
    <3> DEFINE s == [pc |-> "requested", lease |-> call[p].lease, since |-> clock,
                     ifNoneMatch |-> cache.etag]
    <3>1. s \in Requested
      BY <2>1 DEF Requested, CacheType
    <3>2. s \in CallState /\ FetchInv(s) /\ AnswerInv(s)
      BY <3>1, RevocationCacheAssumption DEF CallState, FetchInv, AnswerInv, CacheType
    <3> QED BY <1>4, <2>3, <3>2, Moved DEF Refresh
  <2> QED BY <2>2, <2>3
<1>5. ASSUME NEW p \in Call, Revocations(p) PROVE CacheInv'
  <2> DEFINE r == call[p]
             s == [pc |-> "responded", lease |-> r.lease, since |-> r.since,
                   notModified |-> r.ifNoneMatch = ActiveRevocations,
                   revoked |-> ActiveRevocations, generatedAt |-> ServerClock]
  <2>1. r \in Requested /\ FetchInv(r)
    BY <1>5 DEF Revocations, CacheInv, CacheType, CallState, Looking, Requested, Responded, Decision
  <2>2. ActiveRevocations \in SUBSET Lease /\ ServerClock \in Int
    BY DEF ActiveRevocations, ServerClock, CacheType
  <2>3. s \in Responded
    BY <2>1, <2>2 DEF Requested, Responded
  <2>4. Knows(ActiveRevocations, r.since) /\ Genuine(ActiveRevocations)
    BY RevocationCacheAssumption, <2>2 DEF Knows, Genuine, ActiveRevocations
  <2>5. \A l \in cache.revoked : l \in ActiveRevocations \/ Expiration[l] <= ServerClock
    BY RevocationCacheAssumption, <2>2 DEF SnapshotInv, Genuine, ActiveRevocations, CacheType
  <2>6. r.ifNoneMatch = ActiveRevocations =>
          ActiveRevocations = cache.revoked /\ cache.etag = cache.revoked
    BY <1>5, <2>1, <2>2, RevocationCacheAssumption DEF Revocations, FetchInv, SnapshotInv
  <2>7. FetchInv(s) /\ AnswerInv(s)
    BY <1>5, <2>1, <2>4, <2>5, <2>6 DEF Revocations, FetchInv, AnswerInv
  <2>8. Fetching(p) /\ Goto(p, s)
    BY <1>5 DEF Revocations, Fetching
  <2> QED BY <1>5, <2>3, <2>7, <2>8, Moved DEF Revocations, CallState
<1>6. ASSUME NEW p \in Call, Receive(p) PROVE CacheInv'
  BY <1>6, ReceiveKeeps
<1>7. ASSUME NEW p \in Call, RejectSnapshot(p) PROVE CacheInv'
  <2>1. call[p].lease \in Lease
    BY <1>7 DEF RejectSnapshot, CacheType, CallState, Looking, Requested, Responded, Decision
  <2> QED BY <1>7, <2>1, DecisionState, Moved DEF RejectSnapshot
<1>8. ASSUME NEW p \in Call, FetchFails(p) PROVE CacheInv'
  <2>1. call[p].lease \in Lease
    BY <1>8 DEF FetchFails, Fetching, CacheType, CallState, Looking, Requested, Responded, Decision
  <2>2. CASE mode = "BOUNDED_STALE" /\ StaleUsable
    BY <1>8, <2>1, <2>2, CacheDecision, Moved DEF FetchFails
  <2>3. CASE ~(mode = "BOUNDED_STALE" /\ StaleUsable)
    BY <1>8, <2>1, <2>3, DecisionState, Moved DEF FetchFails
  <2> QED BY <2>2, <2>3
<1>9. ASSUME NEW p \in Call, Return(p) PROVE CacheInv'
  <2> DEFINE s == [pc |-> "idle"]
  <2>1. s \in CallState /\ FetchInv(s) /\ AnswerInv(s)
    BY DEF CallState, FetchInv, AnswerInv
  <2> QED BY <1>9, <2>1, Moved DEF Return
<1>10. CASE Tick
  BY <1>10, TickKeeps
<1>11. CASE UNCHANGED vars
  <2>1. CacheType' /\ SnapshotInv' /\ OneFetch'
    BY <1>11 DEF CacheInv, CacheType, SnapshotInv, OneFetch, Fetching, Knows, Genuine,
       ServerClock, vars
  <2>2. \A p \in Call : FetchInv(call[p])' /\ AnswerInv(call[p])'
    BY <1>11 DEF CacheInv, FetchInv, AnswerInv, Knows, Genuine, ServerClock, Bounded, Exposure, vars
  <2> QED BY <2>1, <2>2 DEF CacheInv
<1> QED
  BY <1>1, <1>2, <1>3, <1>4, <1>5, <1>6, <1>7, <1>8, <1>9, <1>10, <1>11 DEF Next

-------------------------------------------------------------------------------
\* Verifier.isRevoked: whatever snapshots, 304s, failures and waits came before it,
\* an acceptance of a revoked lease comes within the exposure of the verifier's
\* mode, or after the lease has expired at the control plane.
THEOREM RevocationIsBounded == Spec => []RevocationBound
<1>1. CacheInv => RevocationBound
  BY DEF CacheInv, AnswerInv, Bounded, RevocationBound
<1> QED BY <1>1, InitCache, CacheNext, PTL DEF Spec

\* refreshRevocations: the mutex keeps an older response from replacing a newer
\* snapshot, so a revocation the verifier has seen stays seen until the lease
\* expires at the control plane.
THEOREM CacheNeverForgets == Spec => RevokedStaysRevoked
<1> DEFINE Kept == \A l \in cache.revoked : l \in cache'.revoked \/ Expiration[l] <= ServerClock
<1>1. CacheInv /\ [Next]_vars => [Kept]_vars
  <2> SUFFICES ASSUME CacheInv, Next, NEW l \in cache.revoked, l \notin cache'.revoked
               PROVE  Expiration[l] <= ServerClock
    OBVIOUS
  <2>1. PICK p \in Call : Receive(p)
    BY DEF Next, RevokeLease, Authorize, LookUp, Refresh, Revocations, RejectSnapshot, FetchFails,
       Return, Tick
  <2>2. FetchInv(call[p]) /\ call[p].pc = "responded"
    BY <2>1 DEF CacheInv, Receive
  <2> QED BY <2>1, <2>2 DEF Receive, FetchInv
<1> QED BY <1>1, InitCache, CacheNext, PTL DEF Spec, RevokedStaysRevoked
===============================================================================
