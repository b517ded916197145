----------------------------- MODULE MCProofReplay -----------------------------
(* Three ids, one used in two proofs, and a map with room for two: the third  *)
(* id makes consumeProof sweep while an earlier request is held up.           *)
EXTENDS ProofReplay, TLC

CONSTANTS a, b, d

MCProof == {[id |-> a, iat |-> 0], [id |-> b, iat |-> 0], [id |-> b, iat |-> 4],
            [id |-> d, iat |-> 4]}

CallSymmetry == Permutations(Call)
===============================================================================
