--------------------------- MODULE SigningKeysProofs ---------------------------
(***************************************************************************)
(* Proofs about SigningKeys: for every number of keys, replicas and        *)
(* requests, a dropped key is accepted for a bounded time only, and a      *)
(* rotation by the book loses no token.                                    *)
(*                                                                         *)
(* Both properties are about one answer, given from a set of keys that was *)
(* fetched, or cached, a while ago.  KeysInv relates those sets to the     *)
(* deployment they came from: a key dropped since was still published less *)
(* than MaxAge before the request for the set was sent; a set that is not  *)
(* the deployed one was asked for less than MaxAge after the rollout; a    *)
(* key that signed and is neither deployed nor compromised has no token    *)
(* left; and a key is never deployed a second time, so what an up-to-date  *)
(* set lacked stays lacking.                                               *)
(***************************************************************************)
EXTENDS SigningKeys, TLAPS

Configuration == [signing : Key, previous : SUBSET Key]

CallState ==
  {[pc |-> "idle"]} \union [pc : {"waiting"}, key : Key]
    \union [pc : {"requested"}, key : Key, since : Nat]
    \union [pc : {"responded"}, key : Key, since : Nat, keys : SUBSET Key, current : BOOLEAN]

KeysType ==
  /\ clock \in Nat /\ config \in Configuration /\ replica \in [Replica -> Configuration]
  /\ signedAt \in [Key -> Nat \union {None}] /\ droppedAt \in [Key -> Nat \union {None}]
  /\ compromised \in SUBSET Key /\ rolledOutAt \in Nat
  /\ shared \in [HttpCache -> [keys : SUBSET Key, expire : Nat]]
  /\ cache \in [keys : SUBSET Key, expire : Nat]
  /\ call \in [Call -> CallState]

\* Normal rotation keeps every key that may have tokens.
DeploymentInv ==
  /\ config.signing \notin config.previous
  /\ \A r \in Replica : replica[r].signing \in PublicKeys(config) \union compromised
  /\ \A k \in Key : signedAt[k] # None =>
       k \in PublicKeys(config) \union compromised \/ ~Outstanding(k)

\* A key that was used once is never new again.
NeverReused ==
  \A k \in Key :
    /\ signedAt[k] # None => k \in Published \/ droppedAt[k] # None
    /\ droppedAt[k] # None => k \notin Published \union PublicKeys(config)

CachedInv ==
  /\ cache.expire <= clock + CacheTTL
  /\ \A k \in cache.keys : droppedAt[k] # None =>
       cache.expire < droppedAt[k] + MaxAge + FetchTimeout + CacheTTL

\* A copy is no older than its MaxAge: what it lacks or has too much changed
\* since.
CopyInv(copy) ==
  /\ copy.expire <= clock + MaxAge
  /\ \A k \in copy.keys : droppedAt[k] # None => copy.expire <= droppedAt[k] + MaxAge
  /\ RolledOut => copy.keys = PublicKeys(config) \/ copy.expire <= rolledOutAt + MaxAge

\* What a request in state s knows of the keys.
FetchedInv(s) ==
  /\ s.pc # "idle" => signedAt[s.key] # None
  /\ s.pc \in {"requested", "responded"} => s.since <= clock /\ clock <= s.since + FetchTimeout
  /\ s.pc = "responded" =>
       /\ \A k \in s.keys : droppedAt[k] # None => s.since < droppedAt[k] + MaxAge
       /\ RolledOut => s.keys = PublicKeys(config) \/ s.since < rolledOutAt + MaxAge
       /\ s.current /\ s.key \notin s.keys => s.key \notin PublicKeys(config)

KeysInv ==
  /\ KeysType /\ DeploymentInv /\ NeverReused /\ CachedInv
  /\ \A h \in HttpCache : CopyInv(shared[h])
  /\ \A c \in Call : FetchedInv(call[c])

-------------------------------------------------------------------------------
\* Initially every replica signs with the first key.
LEMMA InitKeys == Init => KeysInv
<1> SUFFICES ASSUME Init PROVE KeysInv
  OBVIOUS
<1> USE SigningKeysAssumption
<1>1. config \in Configuration /\ config.signing = FirstKey /\ config.previous = {}
  BY DEF Init, Configuration
<1>2. KeysType
  <2>1. call \in [Call -> CallState]
    BY DEF Init, CallState
  <2>2. replica \in [Replica -> Configuration]
    BY <1>1 DEF Init
  <2>3. cache \in [keys : SUBSET Key, expire : Nat]
    BY DEF Init
  <2>4. shared \in [HttpCache -> [keys : SUBSET Key, expire : Nat]]
    BY DEF Init, NoCopy
  <2> QED BY <1>1, <2>1, <2>2, <2>3, <2>4 DEF Init, KeysType
<1>3. DeploymentInv
  BY <1>1 DEF Init, DeploymentInv, PublicKeys
<1>4. NeverReused
  BY <1>1 DEF Init, NeverReused, PublicKeys, Published
<1>5. CachedInv
  BY DEF Init, CachedInv
<1>6. \A c \in Call : FetchedInv(call[c])
  <2>1. \A c \in Call : call[c] = [pc |-> "idle"]
    BY DEF Init
  <2> QED BY <2>1 DEF FetchedInv
<1>7. \A h \in HttpCache : CopyInv(shared[h])
  BY DEF Init, NoCopy, CopyInv
<1> QED BY <1>2, <1>3, <1>4, <1>5, <1>6, <1>7 DEF KeysInv

\* A key that has signed is not one that Rotate or EmergencyRotate may take.
LEMMA SignedIsUsed ==
  ASSUME KeysInv, NEW k \in Key, Unused(k)
  PROVE  signedAt[k] = None
BY DEF KeysInv, NeverReused, Unused

\* The operator changes the configuration, which no replica has yet: what was
\* lacking stays lacking.
LEMMA ConfigKeeps ==
  ASSUME KeysInv, UNCHANGED <<clock, replica, signedAt, ghosts, shared, verifier>>,
         config' \in Configuration, compromised' \in SUBSET Key, DeploymentInv',
         \A k \in PublicKeys(config') : k \in PublicKeys(config) \/ Unused(k),
         \E r \in Replica : replica[r] # config'
  PROVE  KeysInv'
<1>1. /\ KeysType /\ DeploymentInv /\ NeverReused /\ CachedInv
      /\ \A c \in Call : FetchedInv(call[c])
      /\ \A h \in HttpCache : CopyInv(shared[h])
      /\ UNCHANGED <<droppedAt, rolledOutAt>>
  BY DEF KeysInv, ghosts
<1>2. KeysType'
  BY <1>1 DEF KeysType, verifier
<1>3. NeverReused'
  <2>1. Published' = Published /\ PublicKeys(config)' = PublicKeys(config')
    BY DEF Published, PublicKeys
  <2>2. \A k \in Key : droppedAt[k] # None => k \notin PublicKeys(config')
    BY <1>1 DEF NeverReused, Unused
  <2> QED BY <1>1, <2>1, <2>2 DEF NeverReused
<1>4. CachedInv' /\ ~RolledOut'
  BY <1>1 DEF CachedInv, verifier, RolledOut
<1>5. ASSUME NEW c \in Call PROVE FetchedInv(call[c])'
  <2> DEFINE s == call[c]
  <2>1. s \in CallState /\ FetchedInv(s) /\ call'[c] = s
    BY <1>1 DEF KeysType, verifier
  <2>2. s.pc = "responded" => s.key \in Key /\ signedAt[s.key] # None
    BY <2>1 DEF CallState, FetchedInv
  <2>3. s.pc = "responded" /\ s.current /\ s.key \notin s.keys => s.key \notin PublicKeys(config')
    BY <2>1, <2>2, SignedIsUsed DEF FetchedInv
  <2>4. FetchedInv(s)'
    BY <1>1, <1>4, <2>1, <2>3 DEF FetchedInv, PublicKeys
  <2> QED BY <2>1, <2>4
<1>6. ASSUME NEW h \in HttpCache PROVE CopyInv(shared[h])'
  BY <1>1, <1>4 DEF CopyInv
<1> QED BY <1>2, <1>3, <1>4, <1>5, <1>6 DEF KeysInv

LEMMA NotYetDeployed ==
  ASSUME NEW k \in Key, Unused(k), config'.signing = k
  PROVE  \E r \in Replica : replica[r] # config'
<1>1. PICK r \in Replica : TRUE
  BY SigningKeysAssumption
<1>2. replica[r].signing \in Published
  BY DEF Published, PublicKeys
<1> QED BY <1>2 DEF Unused

LEMMA RotateKeeps ==
  ASSUME KeysInv, NEW k \in Key, Rotate(k)
  PROVE  KeysInv'
<1>1. /\ KeysType /\ DeploymentInv /\ config' = [signing |-> k, previous |-> PublicKeys(config)]
      /\ k \notin PublicKeys(config) /\ Unused(k)
      /\ UNCHANGED <<clock, replica, signedAt, compromised, ghosts, shared, verifier>>
  BY DEF KeysInv, Rotate, Unused
<1>2. config' \in Configuration /\ PublicKeys(config') = PublicKeys(config) \union {k}
  BY <1>1 DEF KeysType, Configuration, PublicKeys
<1>3. DeploymentInv'
  BY <1>1, <1>2 DEF DeploymentInv, PublicKeys, Outstanding
<1>4. \E r \in Replica : replica[r] # config'
  BY <1>1, <1>2, NotYetDeployed
<1> QED BY <1>1, <1>2, <1>3, <1>4, ConfigKeeps DEF KeysType

LEMMA RetireKeeps ==
  ASSUME KeysInv, NEW k \in Key, Retire(k)
  PROVE  KeysInv'
<1>1. /\ KeysType /\ DeploymentInv /\ config' = [config EXCEPT !.previous = @ \ {k}]
      /\ k \in config.previous /\ ~Outstanding(k) /\ RolledOut
      /\ UNCHANGED <<clock, replica, signedAt, compromised, ghosts, shared, verifier>>
  BY DEF KeysInv, Retire
<1>2. /\ config' \in Configuration /\ config'.signing = config.signing
      /\ config'.previous = config.previous \ {k}
  BY <1>1 DEF KeysType, Configuration
<1>3. PublicKeys(config') = PublicKeys(config) \ {k}
  BY <1>1, <1>2 DEF PublicKeys, DeploymentInv
<1>4. DeploymentInv'
  <2>1. \A r \in Replica : replica[r].signing = config.signing
    BY <1>1 DEF RolledOut
  <2> QED BY <1>1, <1>2, <1>3, <2>1 DEF DeploymentInv, PublicKeys, Outstanding
<1>5. \E r \in Replica : replica[r] # config'
  BY <1>1, <1>2, SigningKeysAssumption DEF RolledOut
<1> QED BY <1>1, <1>2, <1>3, <1>4, <1>5, ConfigKeeps DEF KeysType

LEMMA EmergencyRotateKeeps ==
  ASSUME KeysInv, NEW k \in Key, EmergencyRotate(k)
  PROVE  KeysInv'
<1>1. /\ KeysType /\ DeploymentInv /\ config' = [signing |-> k, previous |-> config.previous]
      /\ k \notin PublicKeys(config) /\ Unused(k)
      /\ compromised' = compromised \union {config.signing}
      /\ UNCHANGED <<clock, replica, signedAt, ghosts, shared, verifier>>
  BY DEF KeysInv, EmergencyRotate, Unused
<1>2. config' \in Configuration /\ compromised' \in SUBSET Key
  BY <1>1 DEF KeysType, Configuration
<1>3. /\ PublicKeys(config') \union compromised'
           = PublicKeys(config) \union compromised \union {k}
      /\ \A x \in PublicKeys(config') : x \in PublicKeys(config) \/ x = k
  BY <1>1 DEF PublicKeys
<1>4. DeploymentInv'
  BY <1>1, <1>3 DEF DeploymentInv, PublicKeys, Outstanding
<1>5. \E r \in Replica : replica[r] # config'
  BY <1>1, NotYetDeployed
<1> QED BY <1>1, <1>2, <1>3, <1>4, <1>5, ConfigKeeps

-------------------------------------------------------------------------------
\* The keys signed with now are deployed or compromised: whatever else the clock
\* does, a key that is neither gets no new token.
LEMMA SignedKeeps ==
  ASSUME KeysInv, NEW cfgs \in [Replica -> Configuration], NEW t \in Nat, SignLeases(cfgs, t),
         clock' \in Nat, clock <= clock',
         UNCHANGED operator,
         \A r \in Replica : cfgs[r].signing \in PublicKeys(config) \union compromised
  PROVE  /\ signedAt' \in [Key -> Nat \union {None}]
         /\ \A k \in Key : signedAt[k] # None => signedAt'[k] # None
         /\ \A k \in Key : signedAt'[k] # None =>
              signedAt[k] # None \/ \E r \in Replica : cfgs[r].signing = k
         /\ \A k \in Key : signedAt'[k] # None =>
              k \in PublicKeys(config) \union compromised \/ ~Outstanding(k)'
<1>1. KeysType /\ DeploymentInv /\ None \notin Nat
  BY SigningKeysAssumption DEF KeysInv
<1>2. signedAt' = [k \in Key |-> IF \E r \in Replica : cfgs[r].signing = k THEN t ELSE signedAt[k]]
  BY DEF SignLeases
<1>3. signedAt' \in [Key -> Nat \union {None}]
  BY <1>1, <1>2 DEF KeysType
<1>4. ASSUME NEW k \in Key, signedAt'[k] # None, k \notin PublicKeys(config) \union compromised
      PROVE  ~Outstanding(k)'
  <2>1. signedAt'[k] = signedAt[k] /\ signedAt[k] \in Nat
    BY <1>1, <1>2, <1>4 DEF KeysType
  <2>2. ~Outstanding(k)
    BY <1>1, <1>4, <2>1 DEF DeploymentInv
  <2> QED BY <1>1, <2>1, <2>2, SigningKeysAssumption DEF Outstanding, KeysType
<1> QED BY <1>1, <1>2, <1>3, <1>4

LEMMA RestartKeeps ==
  ASSUME KeysInv, NEW r \in Replica, Restart(r)
  PROVE  KeysInv'
<1>1. /\ KeysType /\ DeploymentInv /\ NeverReused /\ CachedInv
      /\ \A c \in Call : FetchedInv(call[c])
      /\ \A h \in HttpCache : CopyInv(shared[h])
      /\ replica' = [replica EXCEPT ![r] = config]
      /\ droppedAt' = [k \in Key |-> IF k \in Published /\ k \notin Published' THEN clock
                                     ELSE droppedAt[k]]
      /\ rolledOutAt' = IF RolledOut' THEN clock ELSE rolledOutAt
      /\ SignLeases(replica', clock) /\ UNCHANGED <<clock, shared, operator, verifier>>
  BY DEF KeysInv, Restart
<1>2. /\ UNCHANGED <<config, compromised, cache, call>> /\ clock \in Nat /\ None \notin Nat
      /\ MaxAge \in Nat /\ MaxAge > 0 /\ (RolledOut' => rolledOutAt' = clock)
  BY <1>1, SigningKeysAssumption DEF operator, verifier, KeysType
<1>3. /\ replica' \in [Replica -> Configuration]
      /\ \A q \in Replica : replica'[q].signing \in PublicKeys(config) \union compromised
  BY <1>1 DEF KeysType, DeploymentInv, PublicKeys
<1>4. /\ signedAt' \in [Key -> Nat \union {None}]
      /\ \A k \in Key : signedAt[k] # None => signedAt'[k] # None
      /\ \A k \in Key : signedAt'[k] # None =>
           signedAt[k] # None \/ \E q \in Replica : replica'[q].signing = k
      /\ \A k \in Key : signedAt'[k] # None =>
           k \in PublicKeys(config) \union compromised \/ ~Outstanding(k)'
  <2>1. clock' \in Nat /\ clock <= clock' /\ UNCHANGED operator
    BY <1>1, <1>2
  <2> QED BY <1>1, <1>2, <1>3, <2>1, SignedKeeps
<1>5. droppedAt' \in [Key -> Nat \union {None}] /\ rolledOutAt' \in Nat
  BY <1>1, <1>2 DEF KeysType
<1>6. KeysType'
  BY <1>1, <1>2, <1>3, <1>4, <1>5 DEF KeysType
<1>7. DeploymentInv'
  BY <1>1, <1>2, <1>3, <1>4 DEF DeploymentInv, PublicKeys
<1>8. NeverReused'
  <2>1. /\ PublicKeys(config) \subseteq Published'
        /\ \A k \in Published' : k \in Published \/ k \in PublicKeys(config)
    BY <1>1 DEF KeysType, Published
  <2>2. \A q \in Replica : replica'[q].signing \in Published'
    BY DEF Published, PublicKeys
  <2>3. ASSUME NEW k \in Key, signedAt'[k] # None PROVE k \in Published' \/ droppedAt'[k] # None
    BY <1>1, <1>2, <1>4, <2>2, <2>3 DEF NeverReused
  <2>4. ASSUME NEW k \in Key, droppedAt'[k] # None
        PROVE  k \notin Published' \union PublicKeys(config')
    BY <1>1, <1>2, <2>1, <2>4 DEF NeverReused
  <2> QED BY <2>3, <2>4 DEF NeverReused
<1>9. CachedInv'
  <2> cache.expire \in Nat /\ CacheTTL \in Nat /\ FetchTimeout \in Nat
    BY <1>1, SigningKeysAssumption DEF KeysType
  <2> QED BY <1>1, <1>2 DEF CachedInv, KeysType
<1>10. ASSUME NEW c \in Call PROVE FetchedInv(call[c])'
  <2> DEFINE s == call[c]
  <2>1. s \in CallState /\ FetchedInv(s) /\ call'[c] = s
    BY <1>1, <1>2 DEF KeysType
  <2>2. s.pc # "idle" => s.key \in Key
    BY <2>1 DEF CallState
  <2>3. s.pc = "responded" => s.keys \in SUBSET Key /\ s.since \in Nat
    BY <2>1 DEF CallState
  <2>4. FetchedInv(s)'
    BY <1>1, <1>2, <1>4, <2>1, <2>2, <2>3 DEF FetchedInv, PublicKeys
  <2> QED BY <2>1, <2>4
<1>11. ASSUME NEW h \in HttpCache PROVE CopyInv(shared[h])'
  <2>1. shared[h].keys \in SUBSET Key /\ shared[h].expire \in Nat /\ CopyInv(shared[h])
    BY <1>1 DEF KeysType
  <2> QED BY <1>1, <1>2, <2>1 DEF CopyInv
<1> QED BY <1>6, <1>7, <1>8, <1>9, <1>10, <1>11 DEF KeysInv

LEMMA TickKeeps ==
  ASSUME KeysInv, Tick
  PROVE  KeysInv'
<1>1. /\ KeysType /\ DeploymentInv /\ NeverReused /\ CachedInv
      /\ \A c \in Call : FetchedInv(call[c])
      /\ \A h \in HttpCache : CopyInv(shared[h])
      /\ clock' = clock + 1 /\ SignLeases(replica, clock + 1)
      /\ shared' = [h \in HttpCache |-> IF clock + 1 < shared[h].expire THEN shared[h] ELSE NoCopy]
      /\ UNCHANGED <<replica, ghosts, operator, verifier>>
  BY DEF KeysInv, Tick
<1>2. /\ UNCHANGED <<config, compromised, droppedAt, rolledOutAt, cache, call>>
      /\ clock \in Nat /\ clock + 1 \in Nat /\ UNCHANGED RolledOut
  BY <1>1 DEF operator, ghosts, verifier, KeysType, RolledOut
<1>3. /\ signedAt' \in [Key -> Nat \union {None}]
      /\ \A k \in Key : signedAt[k] # None => signedAt'[k] # None
      /\ \A k \in Key : signedAt'[k] # None =>
           signedAt[k] # None \/ \E q \in Replica : replica[q].signing = k
      /\ \A k \in Key : signedAt'[k] # None =>
           k \in PublicKeys(config) \union compromised \/ ~Outstanding(k)'
  <2>1. clock' \in Nat /\ clock <= clock' /\ UNCHANGED operator
    BY <1>1, <1>2
  <2> QED BY <1>1, <1>2, <2>1, SignedKeeps DEF KeysType, DeploymentInv
<1>4. KeysType'
  <2>1. shared' \in [HttpCache -> [keys : SUBSET Key, expire : Nat]]
    BY <1>1 DEF KeysType, NoCopy
  <2> QED BY <1>1, <1>2, <1>3, <2>1 DEF KeysType
<1>5. DeploymentInv'
  BY <1>1, <1>2, <1>3 DEF DeploymentInv, PublicKeys
<1>6. NeverReused'
  <2>1. Published' = Published /\ \A q \in Replica : replica[q].signing \in Published
    BY <1>1 DEF Published, PublicKeys
  <2> QED BY <1>1, <1>2, <1>3, <2>1 DEF NeverReused, PublicKeys
<1>7. CachedInv'
  <2> cache.expire \in Nat /\ CacheTTL \in Nat /\ FetchTimeout \in Nat
    BY <1>1, SigningKeysAssumption DEF KeysType
  <2> QED BY <1>1, <1>2 DEF CachedInv
<1>8. ASSUME NEW c \in Call PROVE FetchedInv(call[c])'
  <2> DEFINE s == call[c]
  <2>1. s \in CallState /\ FetchedInv(s) /\ call'[c] = s
    BY <1>1, <1>2 DEF KeysType
  <2>2. s.pc # "idle" => s.key \in Key
    BY <2>1 DEF CallState
  <2>3. s.pc \in {"requested", "responded"} => s.since \in Nat /\ clock < s.since + FetchTimeout
    BY <2>1 DEF CallState, Tick, Fetching
  <2>4. FetchedInv(s)'
    BY <1>1, <1>2, <1>3, <2>1, <2>2, <2>3, SigningKeysAssumption DEF FetchedInv, PublicKeys
  <2> QED BY <2>1, <2>4
<1>9. ASSUME NEW h \in HttpCache PROVE CopyInv(shared[h])'
  <2>1. shared[h].expire \in Nat /\ CopyInv(shared[h]) /\ MaxAge \in Nat /\ rolledOutAt \in Nat
    BY <1>1, SigningKeysAssumption DEF KeysType
  <2>2. CASE clock + 1 < shared[h].expire
    BY <1>1, <1>2, <2>1, <2>2 DEF CopyInv, PublicKeys
  <2>3. CASE ~(clock + 1 < shared[h].expire)
    <3>1. shared'[h].keys = {} /\ shared'[h].expire = 0
      BY <1>1, <2>3 DEF NoCopy
    <3> QED BY <1>1, <1>2, <2>1, <3>1 DEF CopyInv
  <2> QED BY <2>2, <2>3
<1> QED BY <1>4, <1>5, <1>6, <1>7, <1>8, <1>9 DEF KeysInv

-------------------------------------------------------------------------------
\* A step of the verifier keeps the invariant when the new state of the request,
\* and the cache, do.
LEMMA VerifierKeeps ==
  ASSUME KeysInv, NEW c \in Call, NEW s \in CallState, Goto(c, s), FetchedInv(s),
         UNCHANGED <<clock, replica, signedAt, ghosts, shared, operator>>,
         cache' \in [keys : SUBSET Key, expire : Nat], CachedInv'
  PROVE  KeysInv'
<1>1. /\ KeysType /\ DeploymentInv /\ NeverReused /\ \A d \in Call : FetchedInv(call[d])
      /\ \A h \in HttpCache : CopyInv(shared[h])
      /\ call' = [call EXCEPT ![c] = s]
      /\ UNCHANGED <<config, compromised, droppedAt, rolledOutAt, RolledOut>>
  BY DEF KeysInv, Goto, operator, ghosts, RolledOut
<1>2. KeysType'
  BY <1>1 DEF KeysType
<1>3. DeploymentInv' /\ NeverReused'
  BY <1>1 DEF DeploymentInv, NeverReused, PublicKeys, Published, Outstanding
<1>4. ASSUME NEW d \in Call PROVE FetchedInv(call[d])'
  <2>1. FetchedInv(call'[d])
    BY <1>1 DEF KeysType
  <2> QED BY <1>1, <2>1 DEF FetchedInv, PublicKeys
<1>5. ASSUME NEW h \in HttpCache PROVE CopyInv(shared[h])'
  BY <1>1 DEF CopyInv, PublicKeys
<1> QED BY <1>2, <1>3, <1>4, <1>5 DEF KeysInv

\* A set a replica serves holds no dropped key, and is the deployed one once the
\* rollout is complete.
LEMMA ServedKeys ==
  ASSUME KeysInv, NEW r \in Replica
  PROVE  /\ PublicKeys(replica[r]) \in SUBSET Key
         /\ \A k \in PublicKeys(replica[r]) : droppedAt[k] = None
         /\ RolledOut => PublicKeys(replica[r]) = PublicKeys(config)
<1>1. KeysType /\ NeverReused
  BY DEF KeysInv
<1>2. PublicKeys(replica[r]) \in SUBSET Key
  BY <1>1 DEF KeysType, Configuration, PublicKeys
<1>3. \A k \in PublicKeys(replica[r]) : k \in Published
  BY DEF Published
<1> QED BY <1>1, <1>2, <1>3 DEF NeverReused, RolledOut

LEMMA CopyKeeps ==
  ASSUME KeysInv, NEW h \in HttpCache, NEW r \in Replica, JwksToSharedCache(h, r)
  PROVE  KeysInv'
<1> DEFINE copy == [keys |-> PublicKeys(replica[r]), expire |-> clock + MaxAge]
<1>1. /\ KeysType /\ DeploymentInv /\ NeverReused /\ CachedInv
      /\ \A d \in Call : FetchedInv(call[d])
      /\ \A g \in HttpCache : CopyInv(shared[g])
      /\ shared' = [shared EXCEPT ![h] = copy]
      /\ UNCHANGED <<clock, replica, signedAt, droppedAt, rolledOutAt, config, compromised, cache,
                     call, RolledOut>>
  BY DEF KeysInv, JwksToSharedCache, ghosts, operator, verifier, RolledOut
<1>2. /\ copy \in [keys : SUBSET Key, expire : Nat]
      /\ \A k \in copy.keys : droppedAt[k] = None
      /\ RolledOut => copy.keys = PublicKeys(config)
      /\ copy.expire <= clock + MaxAge
  BY <1>1, ServedKeys, SigningKeysAssumption DEF KeysType
<1> HIDE DEF copy
<1>3. KeysType'
  BY <1>1, <1>2 DEF KeysType
<1>4. DeploymentInv' /\ NeverReused' /\ CachedInv'
  BY <1>1 DEF DeploymentInv, NeverReused, CachedInv, PublicKeys, Published, Outstanding
<1>5. ASSUME NEW d \in Call PROVE FetchedInv(call[d])'
  BY <1>1 DEF FetchedInv, PublicKeys
<1>6. ASSUME NEW g \in HttpCache PROVE CopyInv(shared[g])'
  <2>1. CopyInv(copy)
    BY <1>2 DEF CopyInv
  <2>2. CopyInv(shared'[g])
    BY <1>1, <2>1 DEF KeysType
  <2> QED BY <1>1, <2>2 DEF CopyInv, PublicKeys
<1> QED BY <1>3, <1>4, <1>5, <1>6 DEF KeysInv

\* The request is answered with a set that holds no key dropped long ago, and is
\* the deployed one once a rollout is long complete.
LEMMA AnswerKeeps ==
  ASSUME KeysInv, NEW c \in Call, NEW keys \in SUBSET Key, Answer(c, keys),
         \A k \in keys : droppedAt[k] # None => clock < droppedAt[k] + MaxAge,
         RolledOut => keys = PublicKeys(config) \/ clock < rolledOutAt + MaxAge
  PROVE  KeysInv'
<1> DEFINE q == call[c]
           s == [pc |-> "responded", key |-> q.key, since |-> q.since,
                 keys |-> keys, current |-> keys = PublicKeys(config)]
<1>1. KeysType /\ NeverReused /\ CachedInv /\ q \in CallState /\ FetchedInv(q) /\ q.pc = "requested"
  BY DEF KeysInv, KeysType, Answer
<1>2. /\ q.key \in Key /\ q.since \in Nat /\ clock \in Nat /\ rolledOutAt \in Nat /\ MaxAge \in Nat
      /\ droppedAt \in [Key -> Nat \union {None}]
  BY <1>1, SigningKeysAssumption DEF CallState, KeysType
<1>3. s \in CallState
  BY <1>2 DEF CallState
<1>4. /\ s.pc = "responded" /\ s.key = q.key /\ s.since = q.since /\ s.keys = keys
      /\ s.current => keys = PublicKeys(config)
      /\ Goto(c, s)
  BY DEF Answer
<1> HIDE DEF s
<1>5. signedAt[q.key] # None /\ q.since <= clock /\ clock <= q.since + FetchTimeout
  BY <1>1 DEF FetchedInv
<1>6. \A k \in keys : droppedAt[k] # None => q.since < droppedAt[k] + MaxAge
  BY <1>2, <1>5
<1>7. RolledOut => keys = PublicKeys(config) \/ q.since < rolledOutAt + MaxAge
  BY <1>2, <1>5
<1>8. FetchedInv(s)
  BY <1>4, <1>5, <1>6, <1>7 DEF FetchedInv
<1>9. CachedInv'
  BY <1>1 DEF Answer, CachedInv, ghosts
<1> QED BY <1>1, <1>3, <1>4, <1>8, <1>9, VerifierKeeps DEF Answer, KeysType

LEMMA JwksKeeps ==
  ASSUME KeysInv, NEW c \in Call, NEW r \in Replica, Jwks(c, r)
  PROVE  KeysInv'
BY ServedKeys, AnswerKeeps DEF Jwks

LEMMA SharedKeeps ==
  ASSUME KeysInv, NEW c \in Call, NEW h \in HttpCache, JwksFromSharedCache(c, h)
  PROVE  KeysInv'
<1>1. /\ shared[h] \in [keys : SUBSET Key, expire : Nat] /\ CopyInv(shared[h])
      /\ clock < shared[h].expire /\ Answer(c, shared[h].keys) /\ clock \in Nat
      /\ rolledOutAt \in Nat /\ droppedAt \in [Key -> Nat \union {None}] /\ MaxAge \in Nat
  BY SigningKeysAssumption DEF KeysInv, KeysType, JwksFromSharedCache
<1>2. \A k \in shared[h].keys : droppedAt[k] # None => clock < droppedAt[k] + MaxAge
  BY <1>1 DEF CopyInv
<1>3. RolledOut => shared[h].keys = PublicKeys(config) \/ clock < rolledOutAt + MaxAge
  BY <1>1 DEF CopyInv
<1> QED BY <1>1, <1>2, <1>3, AnswerKeeps

LEMMA ReceiveKeeps ==
  ASSUME KeysInv, NEW c \in Call, Receive(c)
  PROVE  KeysInv'
<1> DEFINE q == call[c]
           s == [pc |-> "idle"]
<1>1. /\ KeysType /\ q \in CallState /\ FetchedInv(q) /\ q.pc = "responded"
      /\ cache' = [keys |-> q.keys, expire |-> clock + CacheTTL] /\ Goto(c, s)
      /\ UNCHANGED <<clock, replica, signedAt, ghosts, shared, operator>>
  BY DEF KeysInv, KeysType, Receive
<1>2. /\ q.since \in Nat /\ q.keys \in SUBSET Key /\ UNCHANGED droppedAt
      /\ clock \in Nat /\ CacheTTL \in Nat /\ FetchTimeout \in Nat /\ MaxAge \in Nat
      /\ droppedAt \in [Key -> Nat \union {None}]
  BY <1>1, SigningKeysAssumption DEF CallState, KeysType, ghosts
<1>3. cache' \in [keys : SUBSET Key, expire : Nat]
  BY <1>1, <1>2
<1>4. CachedInv'
  BY <1>1, <1>2 DEF CachedInv, FetchedInv
<1>5. s \in CallState /\ FetchedInv(s)
  BY DEF CallState, FetchedInv
<1> QED BY <1>1, <1>3, <1>4, <1>5, VerifierKeeps

\* Every step of the operator, the replicas, the caches and the verifier keeps
\* the invariant.
LEMMA KeysNext == KeysInv /\ [Next]_vars => KeysInv'
<1> SUFFICES ASSUME KeysInv, [Next]_vars PROVE KeysInv'
  OBVIOUS
<1>0. KeysType /\ CachedInv /\ \A c \in Call : call[c] \in CallState /\ FetchedInv(call[c])
  BY DEF KeysInv, KeysType
<1>1. ASSUME NEW k \in Key, Rotate(k) \/ Retire(k) \/ EmergencyRotate(k) PROVE KeysInv'
  BY <1>1, RotateKeeps, RetireKeeps, EmergencyRotateKeeps
<1>2. ASSUME NEW r \in Replica, Restart(r) PROVE KeysInv'
  BY <1>2, RestartKeeps
<1>3. ASSUME NEW c \in Call, NEW k \in Key, LookUp(c, k) PROVE KeysInv'
  <2> DEFINE s == [pc |-> "waiting", key |-> k]
  <2>1. s \in CallState /\ FetchedInv(s)
    BY <1>3 DEF LookUp, CallState, FetchedInv
  <2> QED BY <1>0, <1>3, <2>1, VerifierKeeps DEF LookUp, KeysType, CachedInv, ghosts
<1>4. ASSUME NEW c \in Call, NEW r \in Replica, Jwks(c, r) PROVE KeysInv'
  BY <1>4, JwksKeeps
<1>5. ASSUME NEW c \in Call, Refresh(c) PROVE KeysInv'
  <2> DEFINE k == call[c].key
             s == IF Cached(k) THEN [pc |-> "idle"]
                  ELSE [pc |-> "requested", key |-> k, since |-> clock]
  <2>1. k \in Key /\ signedAt[k] # None /\ clock \in Nat /\ FetchTimeout \in Nat
    BY <1>0, <1>5, SigningKeysAssumption DEF Refresh, CallState, FetchedInv, KeysType
  <2>2. s \in CallState /\ FetchedInv(s)
    BY <2>1 DEF CallState, FetchedInv
  <2> QED BY <1>0, <1>5, <2>2, VerifierKeeps DEF Refresh, KeysType, CachedInv, ghosts
<1>6. ASSUME NEW c \in Call, Receive(c) PROVE KeysInv'
  BY <1>6, ReceiveKeeps
<1>7. ASSUME NEW c \in Call, FetchFails(c) PROVE KeysInv'
  <2> DEFINE s == [pc |-> "idle"]
  <2>1. s \in CallState /\ FetchedInv(s)
    BY DEF CallState, FetchedInv
  <2> QED BY <1>0, <1>7, <2>1, VerifierKeeps DEF FetchFails, KeysType, CachedInv, ghosts
<1>8. ASSUME NEW c \in Call, NEW h \in HttpCache, JwksFromSharedCache(c, h) PROVE KeysInv'
  BY <1>8, SharedKeeps
<1>9. ASSUME NEW h \in HttpCache, NEW r \in Replica, JwksToSharedCache(h, r) PROVE KeysInv'
  BY <1>9, CopyKeeps
<1>10. CASE Tick
  BY <1>10, TickKeeps
<1>11. CASE UNCHANGED vars
  <2>1. /\ UNCHANGED <<clock, config, replica, signedAt, compromised, droppedAt, rolledOutAt>>
        /\ UNCHANGED <<shared, cache, call, RolledOut>>
    BY <1>11 DEF vars, ghosts, RolledOut
  <2>2. KeysType' /\ DeploymentInv' /\ NeverReused' /\ CachedInv'
    BY <2>1 DEF KeysInv, KeysType, DeploymentInv, NeverReused, CachedInv, PublicKeys, Published,
       Outstanding
  <2>3. \A c \in Call : FetchedInv(call[c])'
    BY <2>1 DEF KeysInv, FetchedInv, PublicKeys
  <2>4. \A h \in HttpCache : CopyInv(shared[h])'
    BY <2>1 DEF KeysInv, CopyInv, PublicKeys
  <2> QED BY <2>2, <2>3, <2>4 DEF KeysInv
<1> QED
  BY <1>1, <1>2, <1>3, <1>4, <1>5, <1>6, <1>7, <1>8, <1>9, <1>10, <1>11 DEF Next

-------------------------------------------------------------------------------
\* Verifier.key: a key that left the last replica's JWKS, by retirement or by an
\* emergency rotation, is returned only while a shared copy, a fetch and the
\* verifier's own cache, one after the other, can have kept it.
THEOREM DroppedKeysExpire == Spec => []DroppedKeyBound
<1>1. KeysInv => DroppedKeyBound
  <2> SUFFICES ASSUME KeysInv, NEW k \in Key, Returned(k), droppedAt[k] # None
               PROVE  clock <= droppedAt[k] + (MaxAge - 1) + FetchTimeout + (CacheTTL - 1)
    BY DEF DroppedKeyBound
  <2>1. /\ CachedInv /\ \A c \in Call : call[c] \in CallState /\ FetchedInv(call[c])
        /\ clock \in Nat /\ cache.expire \in Nat /\ droppedAt[k] \in Nat
        /\ FetchTimeout \in Nat /\ MaxAge \in Nat /\ CacheTTL \in Nat /\ CacheTTL > 0
    BY SigningKeysAssumption DEF KeysInv, KeysType
  <2>2. CASE Cached(k)
    BY <2>1, <2>2 DEF Cached, CachedInv
  <2>3. ASSUME NEW c \in Call, call[c].pc = "responded", k \in call[c].keys
        PROVE  clock <= droppedAt[k] + (MaxAge - 1) + FetchTimeout + (CacheTTL - 1)
    <3>1. call[c].since \in Nat
      BY <2>1, <2>3 DEF CallState
    <3>2. call[c].since < droppedAt[k] + MaxAge /\ clock <= call[c].since + FetchTimeout
      BY <2>1, <2>3 DEF FetchedInv
    <3> QED BY <2>1, <3>1, <3>2
  <2> QED BY <2>2, <2>3 DEF Returned
<1> QED BY <1>1, InitKeys, KeysNext, PTL DEF Spec

\* Verifier.key: only a rollout in progress, or a copy of the set from before it
\* was complete, makes the key of a genuine token unknown; a set another request
\* fetched, a rotation or a retirement does not.
THEOREM GenuineTokensAreKnown == Spec => []GenuineTokenKnown
<1>1. KeysInv => GenuineTokenKnown
  <2> SUFFICES ASSUME KeysInv, NEW c \in Call, RefusedAsUnknown(c),
                      call[c].key \notin compromised, Outstanding(call[c].key)
               PROVE  /\ ~call[c].current
                      /\ RolledOut => clock < rolledOutAt + MaxAge + FetchTimeout
    BY DEF GenuineTokenKnown
  <2>1. /\ DeploymentInv /\ call[c] \in CallState /\ FetchedInv(call[c])
        /\ clock \in Nat /\ rolledOutAt \in Nat /\ MaxAge \in Nat /\ FetchTimeout \in Nat
    BY SigningKeysAssumption DEF KeysInv, KeysType
  <2>2. call[c].pc = "responded" /\ call[c].key \notin call[c].keys
    BY DEF RefusedAsUnknown
  <2>3. call[c].key \in Key /\ call[c].since \in Nat
    BY <2>1, <2>2 DEF CallState
  <2>4. call[c].key \in PublicKeys(config)
    BY <2>1, <2>2, <2>3 DEF FetchedInv, DeploymentInv
  <2> QED BY <2>1, <2>2, <2>3, <2>4 DEF FetchedInv
<1> QED BY <1>1, InitKeys, KeysNext, PTL DEF Spec
===============================================================================
