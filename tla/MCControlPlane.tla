---------------------------- MODULE MCControlPlane ----------------------------
(* Small instances of ControlPlane.  Authority is reduced to one resource and *)
(* two actions (DelegationChain explores authority); lifetimes differ so that *)
(* a lineage of three leases is strictly attenuating.  Each configuration     *)
(* chooses the operations (Ops) whose races it explores.                      *)
EXTENDS ControlPlane, TLC

CONSTANTS w1, w2, w3, k1, k2, k3, seg, read, write, svc, amount

NoConstraints == [k \in {} |-> 0]

DelegableGrant(pop) ==
  [audiences |-> {svc}, actions |-> {read, write}, resources |-> {<<seg>>}, maxTTL |-> 3,
   maxDelegationDepth |-> 2, canDelegate |-> TRUE, maxUses |-> 0, constraints |-> NoConstraints,
   requirePoP |-> pop]

MCGrant == [w \in Workload |-> DelegableGrant(w = w1)]

MCEnrolled == [w \in {w1, w2, w3} |-> CASE w = w1 -> k1 [] w = w2 -> k2 [] w = w3 -> k3]
MCEnrolledTwo == [w \in {w1, w2} |-> IF w = w1 THEN k1 ELSE k2]
MCEnrolledOne == [w \in {w1} |-> k1]

Body(actions, ttl, maxDepth, maxUses, pop) ==
  [actions |-> actions, resources |-> {<<seg>>}, constraints |-> NoConstraints,
   ttl |-> ttl, maxDepth |-> maxDepth, maxUses |-> maxUses, pop |-> pop]

\* Lineages of up to three leases.
LineageMint == {Body({read, write}, 3, 2, 0, FALSE)}
LineageDelegate == {Body({read}, 2, 0, 0, FALSE), Body({read}, 1, 0, 0, FALSE)}

\* A root lease with one use.
LimitedMint == {Body({read, write}, 3, 0, 1, FALSE)}

ProcSymmetry == Permutations(LeaseId) \union Permutations(Proc)
KeySymmetry == Permutations({k2, k3}) \union Permutations(Proc)
===============================================================================
