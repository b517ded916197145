------------------------------- MODULE UseBudget -------------------------------
(***************************************************************************)
(* What a limited-use lease promises its issuer (docs/security-model.md,   *)
(* "Stateful constraints"): a budget of uses, each charged to the          *)
(* operation that asked for it (named by its idempotency key) once and for *)
(* good, none after the lease is withdrawn, and no operation performed     *)
(* that was not charged before.  How requests, retries and transactions    *)
(* interleave is LimitedUse's business.                                    *)
(***************************************************************************)
EXTENDS Naturals, Sequences

CONSTANT Operation    \* the operations of protected services, by idempotency key

VARIABLES
  budget,       \* max_uses; 0 until the lease is issued
  withdrawn,    \* the lease is revoked
  charged,      \* the operations charged, in the order of their use numbers
  performed     \* the operations whose handler has run

vars == <<budget, withdrawn, charged, performed>>

Init == budget = 0 /\ withdrawn = FALSE /\ charged = << >> /\ performed = {}

Issue ==
  /\ budget = 0 /\ budget' \in Nat \ {0}
  /\ UNCHANGED <<withdrawn, charged, performed>>

Charge(o) ==
  /\ ~withdrawn /\ Len(charged) < budget
  /\ \A n \in DOMAIN charged : charged[n] # o
  /\ charged' = Append(charged, o)
  /\ UNCHANGED <<budget, withdrawn, performed>>

Withdraw ==
  /\ ~withdrawn /\ withdrawn' = TRUE
  /\ UNCHANGED <<budget, charged, performed>>

Perform(o) ==
  /\ \E n \in DOMAIN charged : charged[n] = o
  /\ performed' = performed \union {o}
  /\ UNCHANGED <<budget, withdrawn, charged>>

Next == Issue \/ Withdraw \/ \E o \in Operation : Charge(o) \/ Perform(o)

Spec == Init /\ [][Next]_vars
===============================================================================
