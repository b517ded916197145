--------------------------- MODULE MCRevocationCache ---------------------------
(* Leases that all expire at the same time.                                   *)
EXTENDS RevocationCache

CONSTANT Expiry

MCExpiration == [l \in Lease |-> Expiry]
===============================================================================
