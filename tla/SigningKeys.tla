----------------------------- MODULE SigningKeys ------------------------------
(*****************************************************************************)
(* Token-signing keys: the configuration an operator deploys to the replicas *)
(* of the control plane (cmd/upsilonauth, internal/crypto), the JWKS each    *)
(* replica serves (internal/delivery), the shared HTTP caches that may keep  *)
(* it on the way (Cache-Control: public), and the key cache of a verifier    *)
(* (sdk/go/middleware, Verifier.key).                                        *)
(*                                                                           *)
(* A key is its own key id.  A token is the key that signed it; signatures   *)
(* are assumed unforgeable without the key.  The operator follows the        *)
(* procedures of docs/deployment.md (Signing-key rotation); a rollout        *)
(* restarts the replicas one by one.  Every replica signs leases of the      *)
(* longest lifetime all the time: fewer or shorter ones only shorten the     *)
(* time for which a key is needed.                                           *)
(*****************************************************************************)
EXTENDS Integers, FiniteSets

CONSTANTS
  Key, FirstKey,   \* signing keys, and the one in use at first
  Replica,         \* servers of the control plane
  HttpCache,       \* shared caches between the replicas and the verifier
  Call,            \* concurrent requests of the verifier
  None,            \* "never"
  MaxTTL, ClockSkew, CacheTTL,
  MaxAge,          \* max-age of the JWKS
  FetchTimeout,    \* http.Client.Timeout: a fetch ends within it
  MaxClock         \* bound

ASSUME SigningKeysAssumption ==
  /\ FirstKey \in Key /\ Replica # {} /\ None \notin Nat
  /\ MaxTTL \in Nat \ {0} /\ ClockSkew \in Nat /\ CacheTTL \in Nat \ {0}
  /\ MaxAge \in Nat \ {0} /\ FetchTimeout \in Nat /\ MaxClock \in Nat

VARIABLES
  clock,
  config,       \* what the operator deploys: SIGNING_PRIVATE_KEY, PREVIOUS_PUBLIC_KEYS
  replica,      \* the configuration each replica was started with
  signedAt,     \* when a lease was last signed with each key, or None
  compromised,  \* keys dropped by an emergency rotation
  droppedAt,    \* ghost: when each key left the last replica's JWKS, or None
  rolledOutAt,  \* ghost: when the last rollout was complete
  shared,       \* the copy of the JWKS in each shared cache: keys, expire
  cache,        \* verifier: keys, keysExpire
  call          \* where each goroutine of the verifier is in Verifier.key

ghosts == <<droppedAt, rolledOutAt>>
vars == <<clock, config, replica, signedAt, compromised, ghosts, shared, cache, call>>
operator == <<config, compromised>>
verifier == <<cache, call>>

NoCopy == [keys |-> {}, expire |-> 0]

Init ==
  /\ clock = 0
  /\ config = [signing |-> FirstKey, previous |-> {}]
  /\ replica = [r \in Replica |-> config]
  /\ signedAt = [k \in Key |-> IF k = FirstKey THEN 0 ELSE None]
  /\ compromised = {}
  /\ droppedAt = [k \in Key |-> None]
  /\ rolledOutAt = 0
  /\ shared = [h \in HttpCache |-> NoCopy]
  /\ cache = [keys |-> {}, expire |-> 0]
  /\ call = [c \in Call |-> [pc |-> "idle"]]

-------------------------------------------------------------------------------
(* The control plane *)

\* Mutant: previousPublicKeys is parsed but not published.
SigningKeyOnly(cfg) == {cfg.signing}

\* main: publicKeys, for tokens the replica verifies and for PublicKeysJWKS,
\* which leaves out repeated keys.
PublicKeys(cfg) == {cfg.signing} \cup cfg.previous

Published == UNION {PublicKeys(replica[r]) : r \in Replica}
RolledOut == \A r \in Replica : replica[r] = config

\* A key nobody has configured yet.
Unused(k) == k \notin PublicKeys(config) \cup Published \cup compromised /\ droppedAt[k] = None

\* SignLeaseClaims with the keys cfgs sign with, at time t.
SignLeases(cfgs, t) ==
  signedAt' = [k \in Key |-> IF \E r \in Replica : cfgs[r].signing = k THEN t ELSE signedAt[k]]

\* Some token that k signed has not expired (VerifyLeaseToken, with leeway).
Outstanding(k) == signedAt[k] # None /\ clock < signedAt[k] + MaxTTL + ClockSkew

\* Normal rotation, steps 1 and 2, once the last rollout is complete.
Rotate(k) ==
  /\ RolledOut /\ Unused(k)
  /\ config' = [signing |-> k, previous |-> PublicKeys(config)]
  /\ UNCHANGED <<clock, replica, signedAt, compromised, ghosts, shared, verifier>>

\* Steps 3 and 4: a key is removed after all tokens it signed are invalid.
Retire(k) ==
  /\ RolledOut /\ k \in config.previous
  /\ ~Outstanding(k)
  /\ config' = [config EXCEPT !.previous = @ \ {k}]
  /\ UNCHANGED <<clock, replica, signedAt, compromised, ghosts, shared, verifier>>

\* Emergency rotation: the signing key is replaced and not kept.
EmergencyRotate(k) ==
  /\ Unused(k)
  /\ config' = [signing |-> k, previous |-> config.previous]
  /\ compromised' = compromised \cup {config.signing}
  /\ UNCHANGED <<clock, replica, signedAt, ghosts, shared, verifier>>

\* A replica restarts with the deployed configuration (loadConfig, main).
Restart(r) ==
  /\ replica[r] # config
  /\ replica' = [replica EXCEPT ![r] = config]
  /\ droppedAt' = [k \in Key |-> IF k \in Published /\ k \notin Published' THEN clock
                                 ELSE droppedAt[k]]
  /\ UNCHANGED <<clock, shared, operator, verifier>>
  /\ rolledOutAt' = IF RolledOut' THEN clock ELSE rolledOutAt
  /\ SignLeases(replica', clock)

\* Handler.jwks answers a shared cache, which may keep the answer for MaxAge.
JwksToSharedCache(h, r) ==
  /\ shared' = [shared EXCEPT ![h] = [keys |-> PublicKeys(replica[r]), expire |-> clock + MaxAge]]
  /\ UNCHANGED <<clock, replica, signedAt, ghosts, operator, verifier>>

-------------------------------------------------------------------------------
(* The verifier *)

Goto(c, state) == call' = [call EXCEPT ![c] = state]

\* Mutant: a key that was cached once is served for ever.
CachedAtAnyAge(k) == k \in cache.keys

\* cachedKey's second result.
Cached(k) == clock < cache.expire /\ k \in cache.keys

\* Authorize: TokenKeyID, then the cache.  A cached key is returned at once,
\* which changes nothing.
LookUp(c, k) ==
  /\ call[c].pc = "idle" /\ signedAt[k] # None
  /\ ~Cached(k)
  /\ Goto(c, [pc |-> "waiting", key |-> k])
  /\ UNCHANGED <<clock, replica, signedAt, ghosts, shared, operator, cache>>

Fetching(c) == call[c].pc \in {"requested", "responded"}

\* Under verifier.refresh the cache is looked up once more, then the JWKS
\* requested.  Answered requests return to "idle".
Refresh(c) ==
  /\ call[c].pc = "waiting"
  /\ \A d \in Call \ {c} : ~Fetching(d)
  /\ Goto(c, IF Cached(call[c].key) THEN [pc |-> "idle"]
             ELSE [pc |-> "requested", key |-> call[c].key, since |-> clock])
  /\ UNCHANGED <<clock, replica, signedAt, ghosts, shared, operator, cache>>

Answer(c, keys) ==
  /\ call[c].pc = "requested"
  /\ Goto(c, [pc |-> "responded", key |-> call[c].key, since |-> call[c].since,
              keys |-> keys, current |-> keys = PublicKeys(config)])
  /\ UNCHANGED <<clock, replica, signedAt, ghosts, shared, operator, cache>>

\* Handler.jwks, on the replica the request reached.
Jwks(c, r) == Answer(c, PublicKeys(replica[r]))

\* A shared cache answers instead, while its copy is fresh; must-revalidate
\* forbids it to do so later.
JwksFromSharedCache(c, h) == clock < shared[h].expire /\ Answer(c, shared[h].keys)

\* The cache is replaced, also when the key asked for is not in the set; that
\* key is returned, or refused as unknown.
Receive(c) ==
  /\ call[c].pc = "responded"
  /\ cache' = [keys |-> call[c].keys, expire |-> clock + CacheTTL]
  /\ Goto(c, [pc |-> "idle"])
  /\ UNCHANGED <<clock, replica, signedAt, ghosts, shared, operator>>

\* No connection, the timeout, a status other than 200, a malformed set.
FetchFails(c) ==
  /\ Fetching(c)
  /\ Goto(c, [pc |-> "idle"])
  /\ UNCHANGED <<clock, replica, signedAt, ghosts, shared, operator, cache>>

Tick ==
  /\ clock < MaxClock
  /\ \A c \in Call : Fetching(c) => clock < call[c].since + FetchTimeout
  /\ clock' = clock + 1
  /\ SignLeases(replica, clock + 1)
  /\ shared' = [h \in HttpCache |-> IF clock + 1 < shared[h].expire THEN shared[h] ELSE NoCopy]
  /\ UNCHANGED <<replica, ghosts, operator, verifier>>

Next ==
  \/ \E k \in Key : Rotate(k) \/ Retire(k) \/ EmergencyRotate(k)
  \/ \E r \in Replica : Restart(r)
  \/ \E h \in HttpCache, r \in Replica : JwksToSharedCache(h, r)
  \/ \E c \in Call, k \in Key : LookUp(c, k)
  \/ \E c \in Call, r \in Replica : Jwks(c, r)
  \/ \E c \in Call, h \in HttpCache : JwksFromSharedCache(c, h)
  \/ \E c \in Call : Refresh(c) \/ Receive(c) \/ FetchFails(c)
  \/ Tick

Spec == Init /\ [][Next]_vars

-------------------------------------------------------------------------------
(* Properties *)

\* What Verifier.key answers a request for k now: from the cache, or from the
\* set it has just been sent.
Returned(k) ==
  \/ Cached(k)
  \/ \E c \in Call : call[c].pc = "responded" /\ call[c].key = k /\ k \in call[c].keys

RefusedAsUnknown(c) == call[c].pc = "responded" /\ call[c].key \notin call[c].keys

\* After an emergency rotation, or any removal of a key, a verifier accepts
\* tokens of that key, after the last replica was restarted, for at most the
\* rest of a shared copy's MaxAge, the time of one fetch and the rest of its own
\* CacheTTL, whatever sets slow replicas and caches served meanwhile.
DroppedKeyBound ==
  \A k \in Key : Returned(k) /\ droppedAt[k] # None =>
    clock <= droppedAt[k] + (MaxAge - 1) + FetchTimeout + (CacheTTL - 1)

\* A token of a key that is not compromised and that has not expired is
\* refused as unknown only if the JWKS was not the deployed one, which no longer
\* happens once a rollout has been complete for MaxAge and one fetch: normal
\* rotation loses no token, and a set fetched for one request does not make
\* another's key unknown.
GenuineTokenKnown ==
  \A c \in Call : RefusedAsUnknown(c) =>
    \/ call[c].key \in compromised
    \/ ~Outstanding(call[c].key)
    \/ /\ ~call[c].current
       /\ RolledOut => clock < rolledOutAt + MaxAge + FetchTimeout
===============================================================================
