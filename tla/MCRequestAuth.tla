----------------------------- MODULE MCRequestAuth -----------------------------
(* Two nonces, one of them used with two timestamps, and half-second ticks.   *)
EXTENDS RequestAuth, TLC

CONSTANTS n1, n2

MCRequest == {[nonce |-> n1, timestamp |-> 1], [nonce |-> n1, timestamp |-> 2],
              [nonce |-> n2, timestamp |-> 1]}

ProcSymmetry == Permutations(Proc)
===============================================================================
