--------------------------- MODULE MCRateLimiter ----------------------------
(* Two addresses, room for one, two requests in flight; the burst takes *)
(* longer to earn than the idle time.                                   *)
EXTENDS RateLimiter, TLC

CONSTANTS c1, c2, addr1, addr2

Symmetry == Permutations(Call) \cup Permutations(Address)
=============================================================================
