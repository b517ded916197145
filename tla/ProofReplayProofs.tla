--------------------------- MODULE ProofReplayProofs ---------------------------
(***************************************************************************)
(* ProofOnce for every set of proofs, every capacity of the map and every  *)
(* number of concurrent requests.                                          *)
(***************************************************************************)
EXTENDS ProofReplay, TLAPS

Request == [proof : Proof, now : Nat, verified : BOOLEAN]
Acceptance == [proof : Proof, now : Nat, at : Nat]

ReplayTypes ==
  /\ tick \in Nat
  /\ proofReplay \in [ProofId -> Nat \union {None}]
  /\ call \in [Call -> Request \union {None}]
  /\ accepted \in Seq(Acceptance)

\* A request's time is in the past, and one that was verified is in the window.
InWindow ==
  \A p \in Call : call[p] # None =>
    /\ call[p].now <= tick
    /\ call[p].verified => call[p].now <= call[p].proof.iat + ProofWindow

\* The marker of an accepted proof is still there, or its time has come.
Marked ==
  \A i \in DOMAIN accepted :
    LET m == accepted[i].proof IN
    \/ tick > ReplayExpiry(m)
    \/ proofReplay[m.id] # None /\ proofReplay[m.id] >= ReplayExpiry(m)

ReplayInv == ReplayTypes /\ InWindow /\ Marked /\ ProofOnce

\* Sweeping forgets only markers whose time has come (the loop of consumeProof).
LEMMA SweepSound ==
  ASSUME proofReplay \in [ProofId -> Nat \union {None}], NEW now \in Nat, NEW i \in ProofId
  PROVE  /\ Swept(now) \in [ProofId -> Nat \union {None}]
         /\ Swept(now)[i] = proofReplay[i] \/ (proofReplay[i] # None /\ now > proofReplay[i])
  BY ProofReplayAssumption DEF Swept, Sweep

\* What the history holds are proofs of the set Proof.
LEMMA AcceptedTypes ==
  ASSUME accepted \in Seq(Acceptance), NEW i \in DOMAIN accepted
  PROVE  /\ accepted[i].proof \in Proof /\ accepted[i].proof.id \in ProofId
         /\ ReplayExpiry(accepted[i].proof) \in Nat
  <1>1. accepted[i] \in Acceptance
    OBVIOUS
  <1>2. accepted[i].proof \in Proof
    BY <1>1 DEF Acceptance
  <1>. QED  BY <1>2, ProofReplayAssumption DEF ReplayExpiry

\* The initial state satisfies the invariant.
LEMMA ReplayInit == Init => ReplayInv
  BY ProofReplayAssumption DEF Init, ReplayInv, ReplayTypes, InWindow, Marked, ProofOnce

\* A verified request that is not refused as replayed leaves a marker, and is
\* itself a repetition only if it was held up (consumeProof, accepting).
LEMMA ConsumeProofStep ==
  ASSUME ReplayInv, NEW p \in Call, ConsumeProof(p)
  PROVE  ReplayInv'
  <1> DEFINE c == call[p]
             m == call[p].proof
             entry == [proof |-> m, now |-> c.now, at |-> tick]
  <1>1. /\ c \in Request /\ c.verified
        /\ m \in Proof /\ m.id \in ProofId /\ m.iat \in Nat /\ c.now \in Nat /\ tick \in Nat
        /\ c.now <= tick /\ c.now <= m.iat + ProofWindow
    BY ProofReplayAssumption DEF ReplayInv, ReplayTypes, InWindow, ConsumeProof, Request
  <1>2. ReplayExpiry(m) \in Nat /\ c.now + Second <= ReplayExpiry(m)
    BY <1>1, ProofReplayAssumption DEF ReplayExpiry
  <1>3. Swept(c.now) \in [ProofId -> Nat \union {None}]
    BY <1>1, SweepSound DEF ReplayInv, ReplayTypes
  <1>4. /\ proofReplay' = [Swept(c.now) EXCEPT ![m.id] = ReplayExpiry(m)]
        /\ accepted' = Append(accepted, entry) /\ tick' = tick
        /\ call' = [call EXCEPT ![p] = None]
    BY DEF ConsumeProof
  <1>5. entry \in Acceptance /\ accepted \in Seq(Acceptance)
    BY <1>1 DEF Acceptance, ReplayInv, ReplayTypes
  <1>6. ReplayTypes'
    <2>1. proofReplay' \in [ProofId -> Nat \union {None}]
      BY <1>2, <1>3, <1>4, <1>1
    <2>2. accepted' \in Seq(Acceptance)
      BY <1>4, <1>5
    <2>. QED  BY <2>1, <2>2, <1>4, <1>1 DEF ReplayInv, ReplayTypes
  <1>7. InWindow'
    BY <1>4 DEF ReplayInv, ReplayTypes, InWindow
  <1>8. /\ DOMAIN accepted' = 1 .. (Len(accepted) + 1) /\ DOMAIN accepted = 1 .. Len(accepted)
        /\ Len(accepted) \in Nat
        /\ \A i \in 1 .. Len(accepted) : accepted'[i] = accepted[i]
        /\ accepted'[Len(accepted) + 1] = entry
    BY <1>4, <1>5
  <1>9. \A i \in DOMAIN accepted : /\ accepted[i].proof \in Proof /\ accepted[i].proof.id \in ProofId
                                   /\ ReplayExpiry(accepted[i].proof) \in Nat
    BY <1>5, AcceptedTypes
  <1>10. ~Replayed(c)
    BY DEF ConsumeProof
  <1>11. Marked'
    <2> SUFFICES ASSUME NEW i \in DOMAIN accepted'
                 PROVE  \/ tick > ReplayExpiry(accepted'[i].proof)
                        \/ /\ proofReplay'[accepted'[i].proof.id] # None
                           /\ proofReplay'[accepted'[i].proof.id] >= ReplayExpiry(accepted'[i].proof)
      BY <1>4 DEF Marked, ReplayExpiry
    <2>1. CASE i = Len(accepted) + 1
      BY <2>1, <1>1, <1>2, <1>3, <1>4, <1>8, ProofReplayAssumption
    <2>2. CASE i \in DOMAIN accepted
      <3> DEFINE k == accepted[i].proof
      <3>1. accepted'[i].proof = k /\ k.id \in ProofId /\ ReplayExpiry(k) \in Nat
        BY <2>2, <1>8, <1>9
      <3>2. \/ tick > ReplayExpiry(k)
            \/ proofReplay[k.id] # None /\ proofReplay[k.id] >= ReplayExpiry(k)
        BY <2>2 DEF ReplayInv, Marked
      <3>3. CASE k.id = m.id
        BY <3>1, <3>2, <3>3, <1>1, <1>2, <1>3, <1>4, <1>10, ProofReplayAssumption
        DEF Replayed, ReplayInv, ReplayTypes
      <3>4. CASE k.id # m.id
        <4>1. proofReplay'[k.id] = Swept(c.now)[k.id]
          BY <3>1, <3>4, <1>3, <1>4
        <4>2. \/ Swept(c.now)[k.id] = proofReplay[k.id]
              \/ proofReplay[k.id] # None /\ c.now > proofReplay[k.id]
          BY <3>1, <1>1, SweepSound DEF ReplayInv, ReplayTypes
        <4>3. proofReplay[k.id] \in Nat \union {None}
          BY <3>1 DEF ReplayInv, ReplayTypes
        <4>. QED  BY <4>1, <4>2, <4>3, <3>1, <3>2, <1>1, ProofReplayAssumption
      <3>. QED  BY <3>3, <3>4
    <2>. QED  BY <2>1, <2>2, <1>8
  <1>12. ProofOnce'
    <2> SUFFICES ASSUME NEW i \in DOMAIN accepted', NEW j \in DOMAIN accepted', i < j,
                        accepted'[i].proof = accepted'[j].proof
                 PROVE  accepted'[j].now + Second < accepted'[j].at
      BY DEF ProofOnce
    <2>1. CASE j \in DOMAIN accepted
      BY <2>1, <1>8 DEF ReplayInv, ProofOnce
    <2>2. CASE j = Len(accepted) + 1
      <3>1. i \in DOMAIN accepted /\ accepted[i].proof = m
        BY <2>2, <1>8
      <3>2. \/ tick > ReplayExpiry(m)
            \/ proofReplay[m.id] # None /\ proofReplay[m.id] >= ReplayExpiry(m)
        BY <3>1 DEF ReplayInv, Marked
      <3>3. tick > ReplayExpiry(m)
        BY <3>2, <1>1, <1>2, <1>10, ProofReplayAssumption DEF Replayed, ReplayInv, ReplayTypes
      <3>. QED  BY <3>3, <2>2, <1>1, <1>2, <1>8, ProofReplayAssumption
    <2>. QED  BY <2>1, <2>2, <1>8
  <1>. QED  BY <1>6, <1>7, <1>11, <1>12 DEF ReplayInv

\* Refusing because the map is full only sweeps (consumeProof, refusing).
LEMMA ConsumeProofFullStep ==
  ASSUME ReplayInv, NEW p \in Call, ConsumeProofFull(p)
  PROVE  ReplayInv'
  <1> DEFINE now == call[p].now
  <1>1. now \in Nat /\ now <= tick /\ tick \in Nat
    BY DEF ReplayInv, ReplayTypes, InWindow, ConsumeProofFull, Request
  <1>2. /\ proofReplay' = Swept(now) /\ call' = [call EXCEPT ![p] = None]
        /\ tick' = tick /\ accepted' = accepted
    BY DEF ConsumeProofFull
  <1>3. ReplayTypes' /\ InWindow' /\ ProofOnce'
    BY <1>1, <1>2 DEF ReplayInv, ReplayTypes, InWindow, ProofOnce, Swept, Sweep
  <1>4. Marked'
    <2> SUFFICES ASSUME NEW i \in DOMAIN accepted
                 PROVE  \/ tick > ReplayExpiry(accepted[i].proof)
                        \/ /\ proofReplay'[accepted[i].proof.id] # None
                           /\ proofReplay'[accepted[i].proof.id] >= ReplayExpiry(accepted[i].proof)
      BY <1>2 DEF Marked, ReplayExpiry
    <2> DEFINE k == accepted[i].proof
    <2>1. k.id \in ProofId /\ ReplayExpiry(k) \in Nat
      BY AcceptedTypes DEF ReplayInv, ReplayTypes
    <2>2. \/ tick > ReplayExpiry(k)
          \/ proofReplay[k.id] # None /\ proofReplay[k.id] >= ReplayExpiry(k)
      BY DEF ReplayInv, Marked
    <2>3. \/ Swept(now)[k.id] = proofReplay[k.id]
          \/ proofReplay[k.id] # None /\ now > proofReplay[k.id]
      BY <2>1, <1>1, SweepSound DEF ReplayInv, ReplayTypes
    <2>4. proofReplay[k.id] \in Nat \union {None}
      BY <2>1 DEF ReplayInv, ReplayTypes
    <2>. QED  BY <2>1, <2>2, <2>3, <2>4, <1>1, <1>2, ProofReplayAssumption
  <1>. QED  BY <1>3, <1>4 DEF ReplayInv

\* Every step of the verifier preserves the invariant.
LEMMA ReplayNext == ReplayInv /\ [Next]_vars => ReplayInv'
  <1> SUFFICES ASSUME ReplayInv, [Next]_vars PROVE ReplayInv'
    OBVIOUS
  <1> USE ProofReplayAssumption
  <1>1. ASSUME NEW p \in Call, NEW m \in Proof, VerifyProof(p, m) PROVE ReplayInv'
    BY <1>1 DEF VerifyProof, ReplayInv, ReplayTypes, InWindow, Marked, ProofOnce, Request, ReplayExpiry
  <1>2. ASSUME NEW p \in Call, Verify(p) PROVE ReplayInv'
    <2>1. call[p] \in Request /\ call' = [call EXCEPT ![p].verified = TRUE]
          /\ UNCHANGED <<tick, proofReplay, accepted>>
      BY <1>2 DEF Verify, ReplayInv, ReplayTypes
    <2>2. call[p].now - call[p].proof.iat <= ProofWindow /\ call[p].now \in Nat /\ call[p].proof.iat \in Nat
      BY <1>2, <2>1 DEF Verify, Request
    <2>3. call' \in [Call -> Request \union {None}]
      BY <2>1 DEF ReplayInv, ReplayTypes, Request
    <2>4. InWindow'
      BY <2>1, <2>2 DEF ReplayInv, ReplayTypes, InWindow, Request
    <2>. QED  BY <2>1, <2>3, <2>4 DEF ReplayInv, ReplayTypes, Marked, ProofOnce, ReplayExpiry
  <1>3. ASSUME NEW p \in Call, Reject(p) PROVE ReplayInv'
    BY <1>3 DEF Reject, ReplayInv, ReplayTypes, InWindow, Marked, ProofOnce, ReplayExpiry
  <1>4. CASE Tick
    <2>1. ReplayTypes' /\ ProofOnce'
      BY <1>4 DEF Tick, ReplayInv, ReplayTypes, ProofOnce
    <2>2. InWindow'
      BY <1>4 DEF Tick, ReplayInv, ReplayTypes, InWindow, Request
    <2>3. Marked'
      <3>1. \A i \in DOMAIN accepted : ReplayExpiry(accepted[i].proof) \in Nat
        BY AcceptedTypes DEF ReplayInv, ReplayTypes
      <3>. QED  BY <3>1, <1>4 DEF Tick, ReplayInv, ReplayTypes, Marked, ReplayExpiry
    <2>. QED  BY <2>1, <2>2, <2>3 DEF ReplayInv
  <1>5. CASE UNCHANGED vars
    BY <1>5 DEF vars, ReplayInv, ReplayTypes, InWindow, Marked, ProofOnce, ReplayExpiry
  <1>. QED
    BY <1>1, <1>2, <1>3, <1>4, <1>5, ConsumeProofStep, ConsumeProofFullStep DEF Next

\* A verifier accepts a proof of possession a second time only in a request held
\* up for more than a second between time.Now() in verifyProof and proofMu.
THEOREM ProofAcceptedOnce == Spec => []ProofOnce
  <1>1. ReplayInv => ProofOnce
    BY DEF ReplayInv
  <1>. QED  BY <1>1, ReplayInit, ReplayNext, PTL DEF Spec
===============================================================================
