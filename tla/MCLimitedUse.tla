----------------------------- MODULE MCLimitedUse -----------------------------
(* The instance of MCControlPlane with protected services that charge it.     *)
EXTENDS LimitedUse, TLC

CONSTANTS w1, k1, seg, read, svc

NoConstraints == [k \in {} |-> 0]

MCGrant ==
  [w \in Workload |->
    [audiences |-> {svc}, actions |-> {read}, resources |-> {<<seg>>}, maxTTL |-> 3,
     maxDelegationDepth |-> 0, canDelegate |-> FALSE, maxUses |-> 2,
     constraints |-> NoConstraints, requirePoP |-> FALSE]]

MCEnrolled == [w \in {w1} |-> k1]

\* Root leases with two uses.
MCMint ==
  {[actions |-> {read}, resources |-> {<<seg>>}, constraints |-> NoConstraints,
    ttl |-> 1, maxDepth |-> 0, maxUses |-> 2, pop |-> FALSE]}

Symmetry ==
  Permutations(IdempotencyKey) \union Permutations(Proc) \union Permutations(Call)
===============================================================================
