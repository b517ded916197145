---------------------------- MODULE RevocationCache ----------------------------
(***************************************************************************)
(* Revocation in a protected service: the cached snapshot that             *)
(* Verifier.isRevoked consults and refreshes from the control plane's      *)
(* /.well-known/revocations.json, while several requests are being         *)
(* authorized at once.                                                     *)
(*                                                                         *)
(* Signature, proof of possession and the comparisons on action, resource  *)
(* and constraints are in other modules or stateless; what is left of      *)
(* Authorize here is the expiry test that precedes the revocation test.    *)
(* Times are whole seconds of the verifier's clock; the control plane's    *)
(* clock differs by offset.  The ETag is a digest of the list of ids, so   *)
(* it is the set of ids itself.                                            *)
(***************************************************************************)
EXTENDS Integers

CONSTANTS
  Lease, Call, None,
  Expiration,          \* exp of each lease, by the control plane's clock
  Modes,               \* RevocationMode values a verifier may be configured with
  Offsets,             \* differences between the two clocks
  RevocationCacheTTL, MaxStaleness, ClockSkew,
  FetchTimeout,        \* http.Client.Timeout: a fetch ends within it
  MaxClock             \* bound

ASSUME RevocationCacheAssumption ==
  /\ Expiration \in [Lease -> Nat] /\ Offsets \subseteq Int
  /\ None \notin Nat /\ \A S \in SUBSET Lease : S # None
  /\ Modes \subseteq {"STRICT", "BOUNDED_STALE", "EXPIRY_ONLY"}
  /\ RevocationCacheTTL \in Nat \ {0} /\ ClockSkew \in Nat /\ FetchTimeout \in Nat
  /\ MaxStaleness \in Nat /\ MaxStaleness >= RevocationCacheTTL
  /\ MaxClock \in Nat

VARIABLES
  clock, offset, mode,
  revokedAt,   \* when the control plane revoked each lease, or None
  cache,       \* revoked, revocationsExpire, revocationsFetched, revocationsETag
  call         \* where each goroutine is in Authorize

vars == <<clock, offset, mode, revokedAt, cache, call>>

ServerClock == clock + offset

\* ListActiveRevocations: a lease leaves the list when it expires.
ActiveRevocations == {l \in Lease : revokedAt[l] # None /\ Expiration[l] > ServerClock}

Init ==
  /\ clock = 0 /\ offset \in Offsets /\ mode \in Modes
  /\ revokedAt = [l \in Lease |-> None]
  /\ cache = [revoked |-> {}, expire |-> 0, fetched |-> None, etag |-> None]
  /\ call = [p \in Call |-> [pc |-> "idle"]]

\* A lineage revocation of the control plane commits (ControlPlane).
RevokeLease(l) ==
  /\ revokedAt[l] = None
  /\ revokedAt' = [revokedAt EXCEPT ![l] = clock]
  /\ UNCHANGED <<clock, offset, mode, cache, call>>

-------------------------------------------------------------------------------

Goto(p, state) == call' = [call EXCEPT ![p] = state]

\* isRevoked returned: what Authorize makes of it, and when.
Decided(l, verdict) == [pc |-> "decided", lease |-> l, verdict |-> verdict, at |-> clock]

Answer(l, revoked) == Decided(l, IF l \in revoked THEN "revoked" ELSE "accepted")

\* VerifyLeaseToken's test of exp, with leeway.
Unexpired(l) == clock < Expiration[l] + ClockSkew

Authorize(p, l) ==
  /\ call[p].pc = "idle"
  /\ Unexpired(l)
  /\ Goto(p, IF mode = "EXPIRY_ONLY" THEN Decided(l, "accepted") ELSE [pc |-> "lookup", lease |-> l])
  /\ UNCHANGED <<clock, offset, mode, revokedAt, cache>>

\* cachedRevocation's second result.
Fresh == clock < cache.expire

LookUp(p) ==
  /\ call[p].pc = "lookup"
  /\ Goto(p, IF Fresh THEN Answer(call[p].lease, cache.revoked)
                      ELSE [pc |-> "waiting", lease |-> call[p].lease])
  /\ UNCHANGED <<clock, offset, mode, revokedAt, cache>>

Fetching(p) == call[p].pc \in {"requested", "responded"}

\* Mutant: revocationRefresh is not locked.
RefreshUnlocked(p) == TRUE

\* revocationRefresh can be locked.
RefreshFree(p) == \A q \in Call \ {p} : ~Fetching(q)

\* Under the lock the cache is looked up once more, then the request is sent.
Refresh(p) ==
  /\ call[p].pc = "waiting"
  /\ RefreshFree(p)
  /\ Goto(p, IF Fresh THEN Answer(call[p].lease, cache.revoked)
                      ELSE [pc |-> "requested", lease |-> call[p].lease, since |-> clock,
                            ifNoneMatch |-> cache.etag])
  /\ UNCHANGED <<clock, offset, mode, revokedAt, cache>>

\* Handler.revocations, on the control plane: 304 when the digest matches.
Revocations(p) ==
  /\ call[p].pc = "requested"
  /\ Goto(p, [pc |-> "responded", lease |-> call[p].lease, since |-> call[p].since,
              notModified |-> call[p].ifNoneMatch = ActiveRevocations,
              revoked |-> ActiveRevocations, generatedAt |-> ServerClock])
  /\ UNCHANGED <<clock, offset, mode, revokedAt, cache>>

\* The snapshot, or the 304, is installed, and the caller answered from it.
Receive(p) ==
  LET response == call[p] IN
  /\ response.pc = "responded"
  /\ response.notModified \/ response.generatedAt <= clock + ClockSkew
  /\ cache' = [revoked |-> IF response.notModified THEN cache.revoked ELSE response.revoked,
               expire |-> clock + RevocationCacheTTL, fetched |-> clock,
               etag |-> IF response.notModified THEN cache.etag ELSE response.revoked]
  /\ Goto(p, Answer(response.lease, cache'.revoked))
  /\ UNCHANGED <<clock, offset, mode, revokedAt>>

\* A snapshot dated in the future is an error no mode tolerates.
RejectSnapshot(p) ==
  /\ call[p].pc = "responded"
  /\ ~call[p].notModified /\ call[p].generatedAt > clock + ClockSkew
  /\ Goto(p, Decided(call[p].lease, "unavailable"))
  /\ UNCHANGED <<clock, offset, mode, revokedAt, cache>>

\* Mutant: the age of the snapshot is not looked at.
StaleUsableAtAnyAge == cache.fetched # None

\* staleRevocation's second result.
StaleUsable == cache.fetched # None /\ clock - cache.fetched <= MaxStaleness

\* Mutant: a failed fetch is retried until it succeeds or the stale snapshot serves.
FetchFailsBoundedStale(p) ==
  /\ Fetching(p) /\ mode = "BOUNDED_STALE" /\ StaleUsable
  /\ Goto(p, Answer(call[p].lease, cache.revoked))
  /\ UNCHANGED <<clock, offset, mode, revokedAt, cache>>

\* No connection, the timeout, a status other than 200 and 304, a malformed body.
FetchFails(p) ==
  /\ Fetching(p)
  /\ Goto(p, IF mode = "BOUNDED_STALE" /\ StaleUsable THEN Answer(call[p].lease, cache.revoked)
                                                      ELSE Decided(call[p].lease, "unavailable"))
  /\ UNCHANGED <<clock, offset, mode, revokedAt, cache>>

Return(p) ==
  /\ call[p].pc = "decided"
  /\ Goto(p, [pc |-> "idle"])
  /\ UNCHANGED <<clock, offset, mode, revokedAt, cache>>

Tick ==
  /\ clock < MaxClock
  /\ \A p \in Call : Fetching(p) => clock < call[p].since + FetchTimeout
  /\ clock' = clock + 1
  /\ UNCHANGED <<offset, mode, revokedAt, cache, call>>

Next ==
  \/ \E l \in Lease : RevokeLease(l)
  \/ \E p \in Call, l \in Lease : Authorize(p, l)
  \/ \E p \in Call : \/ LookUp(p) \/ Refresh(p) \/ Revocations(p) \/ Receive(p)
                     \/ RejectSnapshot(p) \/ FetchFails(p) \/ Return(p)
  \/ Tick

\* A goroutine runs until it blocks; a fetch ends, if only by its timeout; and
\* sync.Mutex hands over to a goroutine that has waited (starvation mode).
Fairness ==
  \A p \in Call : /\ WF_vars(LookUp(p)) /\ SF_vars(Refresh(p)) /\ WF_vars(Return(p))
                  /\ WF_vars(Receive(p) \/ RejectSnapshot(p) \/ FetchFails(p))

Spec == Init /\ [][Next]_vars /\ Fairness

-------------------------------------------------------------------------------

\* How long after its revocation a lease may still be accepted.
Exposure == CASE mode = "STRICT" -> RevocationCacheTTL + FetchTimeout - 1
              [] mode = "BOUNDED_STALE" -> MaxStaleness + FetchTimeout
              [] OTHER -> MaxClock

\* A lease is accepted after its revocation only for the exposure of the
\* verifier's mode, the time a fetch takes included, or once the control plane
\* has dropped it from the feed as expired; whatever refreshes, 304s and
\* failures came between.
RevocationBound ==
  \A p \in Call : call[p].pc = "decided" /\ call[p].verdict = "accepted" =>
    LET l == call[p].lease IN
    \/ revokedAt[l] = None
    \/ call[p].at - revokedAt[l] <= Exposure
    \/ Expiration[l] <= call[p].at + offset

\* A lease the cache knows to be revoked is not forgotten before it expires at
\* the control plane: an older response never replaces a newer snapshot.
RevokedStaysRevoked ==
  [][\A l \in cache.revoked : l \in cache'.revoked \/ Expiration[l] <= ServerClock]_vars

\* Every request is answered, also when the control plane never is: no request
\* waits for ever for the refresh of another.
AuthorizeReturns == \A p \in Call : call[p].pc # "idle" ~> call[p].pc = "idle"
===============================================================================
