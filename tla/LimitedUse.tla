------------------------------ MODULE LimitedUse ------------------------------
(***************************************************************************)
(* Limited-use leases end to end: the lease server (ControlPlane) together *)
(* with the protected services that charge it before they run a handler    *)
(* (Verifier.Authorize in sdk/go/middleware calling Consumer.Consume in    *)
(* sdk/go/client, answered by delivery.consumeLease).                      *)
(*                                                                         *)
(* A call is one request at a protected service.  Its POST reaches the     *)
(* server while the call waits, perhaps more than once: net/http sends a   *)
(* body-less request with an Idempotency-Key again when a connection       *)
(* breaks.  An answer may be lost, and the service may give up (context or *)
(* client timeout) while the server goes on; ControlPlane's own            *)
(* ConsumeLease steps are consumptions by other holders of the consumption *)
(* token, and POSTs that arrive after their service has given up.          *)
(*                                                                         *)
(* A service gets here once the offline checks have passed (RequestAuth,   *)
(* ProofReplay, RevocationCache, SigningKeys); of these only the token's   *)
(* expiry is repeated, because the server's own check of it is stricter.   *)
(***************************************************************************)
EXTENDS ControlPlane

CONSTANTS
  Call,        \* concurrent requests at protected services
  ClockSkew    \* the verifier's leeway on exp

ASSUME CallAssumption == None \notin Call /\ ClockSkew \in Nat

VARIABLES
  call,        \* the request each call is authorizing
  serving,     \* serving[p]: the call whose POST process p answers
  performed    \* the (lease, idempotency key) pairs whose handler has run

callVars == <<call, serving, performed>>
useVars == <<vars, callVars>>

NoCall == [pc |-> "none"]

UseInit ==
  /\ Init
  /\ call = [c \in Call |-> NoCall]
  /\ serving = [p \in Proc |-> None]
  /\ performed = {}

\* Authorize up to the call of consumeLease.
Authorize(c, l, k) ==
  /\ call[c] = NoCall
  /\ lease[l] # None
  /\ clock < lease[l].authority.expiration + ClockSkew
  /\ lease[l].authority.maxUses > 0
  /\ call' = [call EXCEPT ![c] = [pc |-> "waiting", lease |-> l, key |-> k]]
  /\ UNCHANGED <<vars, serving, performed>>

\* Nobody reads an answer to call c any more.
Dropped(c) == [p \in Proc |-> IF serving[p] = c THEN None ELSE serving[p]]

\* The POST of a waiting call reaches the server; an earlier try's connection is gone.
Consume(p, c) ==
  /\ call[c].pc = "waiting"
  /\ ConsumeLease(p, call[c].lease, call[c].key)
  /\ serving' = [Dropped(c) EXCEPT ![p] = c]
  /\ UNCHANGED <<call, performed>>

\* The transaction commits and its 200 is on the way.
Consumed(p) ==
  /\ serving[p] # None
  /\ ConsumeLeaseUseCommit(p)
  /\ call' = [call EXCEPT ![serving[p]].pc = "allowed"]
  /\ serving' = [serving EXCEPT ![p] = None]
  /\ UNCHANGED performed

\* Every other step of the server; a commit here is one whose answer is lost.
Server ==
  /\ Next
  /\ serving' = [p \in Proc |-> IF tx'[p] = Idle THEN None ELSE serving[p]]
  /\ UNCHANGED <<call, performed>>

\* Consume returns nil: Authorize returns the claims and the handler runs.
Perform(c) ==
  /\ call[c].pc = "allowed"
  /\ performed' = performed \union {<<call[c].lease, call[c].key>>}
  /\ call' = [call EXCEPT ![c] = NoCall]
  /\ UNCHANGED <<vars, serving>>

\* Mutant: an unavailable control plane counts as consent.
FailsOpen(c) ==
  /\ call[c] # NoCall
  /\ performed' = performed \union {<<call[c].lease, call[c].key>>}
  /\ call' = [call EXCEPT ![c] = NoCall]
  /\ serving' = Dropped(c)
  /\ UNCHANGED vars

\* Consume returns an error: a refusal, a timeout, a lost or broken answer.  The
\* handler does not run; the agent may ask again, with the same key or another.
Refuse(c) ==
  /\ call[c] # NoCall
  /\ call' = [call EXCEPT ![c] = NoCall]
  /\ serving' = Dropped(c)
  /\ UNCHANGED <<vars, performed>>

UseNext ==
  \/ Server
  \/ \E p \in Proc : Consumed(p)
  \/ \E p \in Proc, c \in Call : Consume(p, c)
  \/ \E c \in Call, l \in LeaseId, k \in IdempotencyKey : Authorize(c, l, k)
  \/ \E c \in Call : Perform(c) \/ Refuse(c)

UseSpec == UseInit /\ [][UseNext]_useVars

-------------------------------------------------------------------------------

UsesOf(l) == {c \in consumption : c.lease = l}

\* The budget of lease l, read off the tables: the n-th charge is the row of
\* lease_consumptions with use_number n.
Budget(l) == INSTANCE UseBudget WITH
  Operation <- IdempotencyKey,
  budget    <- IF lease[l] = None THEN 0 ELSE lease[l].authority.maxUses,
  withdrawn <- lease[l] # None /\ lease[l].revoked,
  charged   <- [n \in 1 .. Cardinality(UsesOf(l)) |-> (CHOOSE c \in UsesOf(l) : c.use = n).key],
  performed <- {k \in IdempotencyKey : <<l, k>> \in performed}

\* The server and the services that use it keep the promise of every lease, with
\* retries, lost answers, rollbacks and withdrawals in any order: no operation
\* runs that was not charged first, none is charged twice, and a charge is never
\* beyond the budget, after the withdrawal or taken back.  (This is Budget(l)!Spec
\* for every l, with the quantifier moved inside the box for TLC.)
KeepsBudget ==
  /\ \A l \in LeaseId : Budget(l)!Init
  /\ [][\A l \in LeaseId : Budget(l)!Next \/ UNCHANGED Budget(l)!vars]_useVars
===============================================================================
