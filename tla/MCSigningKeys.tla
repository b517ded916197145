---------------------------- MODULE MCSigningKeys ----------------------------
(* Three keys, two replicas, two concurrent requests.                         *)
EXTENDS SigningKeys, TLC

CONSTANTS k1

Symmetry == Permutations(Replica) \cup Permutations(Call) \cup Permutations(Key \ {FirstKey})
===============================================================================
