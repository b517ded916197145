------------------------------ MODULE ProofReplay ------------------------------
(***************************************************************************)
(* Replay protection of proofs of possession in a protected service:       *)
(* Verifier.verifyProof over pop.Verify and the proofReplay map, which     *)
(* consumeProof sweeps when it is full.  Requests run concurrently and the *)
(* time a request uses is read before the map is locked.  A proof is a     *)
(* record with an id (thumbprint and jti) and the iat it was signed with;  *)
(* signature, method, target and access-token hash are assumed to match.   *)
(* iat is a whole second; time is counted in ticks of a fraction of it.    *)
(***************************************************************************)
EXTENDS Integers, Sequences, FiniteSets

CONSTANTS
  ProofId, Proof, Call, None,
  Second,        \* ticks in a second
  ProofWindow,   \* in ticks
  Capacity,      \* entries the map may hold: 10000 in the code
  MaxTick, MaxAccepted   \* bounds

ASSUME ProofReplayAssumption ==
  /\ \A m \in Proof : m.id \in ProofId /\ m.iat \in Nat
  /\ None \notin Nat /\ None \notin [proof : Proof, now : Nat, verified : BOOLEAN]
  /\ Second \in Nat \ {0} /\ ProofWindow \in Nat \ {0} /\ Capacity \in Nat \ {0}
  /\ MaxTick \in Nat /\ MaxAccepted \in Nat

VARIABLES
  tick,
  proofReplay,   \* when each id is forgotten, or None
  call,          \* the proof each goroutine is verifying, or None
  accepted       \* proofs accepted so far, in order (history)

vars == <<tick, proofReplay, call, accepted>>

Init ==
  /\ tick = 0
  /\ proofReplay = [i \in ProofId |-> None]
  /\ call = [p \in Call |-> None]
  /\ accepted = << >>

\* Mutant: the marker is kept to the end of the window only.
ReplayExpiryWindow(m) == m.iat + ProofWindow

\* The marker is retained through the last second of the window.
ReplayExpiry(m) == m.iat + ProofWindow + Second

\* verifyProof up to reading the clock.
VerifyProof(p, m) ==
  /\ call[p] = None
  /\ call' = [call EXCEPT ![p] = [proof |-> m, now |-> tick, verified |-> FALSE]]
  /\ UNCHANGED <<tick, proofReplay, accepted>>

\* pop.Verify: jwt.WithIssuedAt refuses an iat that is still in the future, by a
\* clock of its own; the window is tested with the time read before.
Verify(p) ==
  LET c == call[p] IN
  /\ c # None /\ ~c.verified
  /\ c.proof.iat <= tick
  /\ c.now - c.proof.iat \in -ProofWindow .. ProofWindow
  /\ call' = [call EXCEPT ![p].verified = TRUE]
  /\ UNCHANGED <<tick, proofReplay, accepted>>

Reject(p) ==
  /\ call[p] # None
  /\ call' = [call EXCEPT ![p] = None]
  /\ UNCHANGED <<tick, proofReplay, accepted>>

\* The map, swept of what has expired by now when it is full.
Full(replay) == Cardinality({i \in ProofId : replay[i] # None}) >= Capacity
Sweep(now) == [i \in ProofId |-> IF proofReplay[i] # None /\ now > proofReplay[i]
                                   THEN None ELSE proofReplay[i]]
Swept(now) == IF Full(proofReplay) THEN Sweep(now) ELSE proofReplay

\* The marker of a proof is present and not past.
Replayed(c) == proofReplay[c.proof.id] # None /\ c.now <= proofReplay[c.proof.id]

\* consumeProof under proofMu: accepted.
ConsumeProof(p) ==
  LET c == call[p] IN
  /\ c # None /\ c.verified
  /\ ~Replayed(c)
  /\ ~Full(Swept(c.now))
  /\ Len(accepted) < MaxAccepted
  /\ proofReplay' = [Swept(c.now) EXCEPT ![c.proof.id] = ReplayExpiry(c.proof)]
  /\ accepted' = Append(accepted, [proof |-> c.proof, now |-> c.now, at |-> tick])
  /\ call' = [call EXCEPT ![p] = None]
  /\ UNCHANGED tick

\* consumeProof under proofMu: refused, because the map is full of live markers.
ConsumeProofFull(p) ==
  LET c == call[p] IN
  /\ c # None /\ c.verified
  /\ ~Replayed(c)
  /\ Full(Swept(c.now))
  /\ proofReplay' = Swept(c.now)
  /\ call' = [call EXCEPT ![p] = None]
  /\ UNCHANGED <<tick, accepted>>

Tick ==
  /\ tick < MaxTick
  /\ tick' = tick + 1
  /\ UNCHANGED <<proofReplay, call, accepted>>

Next ==
  \/ \E p \in Call, m \in Proof : VerifyProof(p, m)
  \/ \E p \in Call : Verify(p) \/ Reject(p) \/ ConsumeProof(p) \/ ConsumeProofFull(p)
  \/ Tick

Spec == Init /\ [][Next]_vars

-------------------------------------------------------------------------------

\* A proof is accepted a second time only by a request that was held up for more
\* than a second between reading the clock and locking the map: whatever ids are
\* reused, and however the map fills up and is swept in between.
ProofOnce ==
  \A i, j \in DOMAIN accepted :
    i < j /\ accepted[i].proof = accepted[j].proof =>
      accepted[j].now + Second < accepted[j].at
===============================================================================
