------------------------------- MODULE Authority -------------------------------
(***************************************************************************)
(* The part of internal/usecase that turns a request into the authority of *)
(* a lease: expiry, the checks on submitted values and grants, and the     *)
(* contexts handed to internal/attenuation.  It has no state; the chain of *)
(* one lineage (DelegationChain) and the concurrent server (ControlPlane)  *)
(* both use it.                                                            *)
(***************************************************************************)
EXTENDS Attenuation

CONSTANT MaxTTL    \* the server's ceiling on a lease's lifetime, in seconds
ASSUME TTLAssumption == MaxTTL \in Nat

\* A list of a request: entries of S, or an entry hasEmptyOrDuplicate refuses.
ListOf(S) == SUBSET ({BadEntry} \union S)

\* The requested expiry must be in the future and within MaxTTL.
expiration(now, expires) == expires > now /\ expires <= now + MaxTTL

\* Non-empty lists of canonical patterns.
validateValues(actions, resources) ==
  /\ actions # {} /\ resources # {}
  /\ ~hasEmptyOrDuplicate(actions) /\ ~hasEmptyOrDuplicate(resources)
  /\ \A resource \in resources : CanonicalizePattern(resource)

validateGrant(g) ==
  /\ g.audiences # {} /\ g.maxTTL \in 1 .. MaxTTL
  /\ g.maxDelegationDepth \in 0 .. DepthLimit /\ g.maxUses >= 0
  /\ ~g.canDelegate => g.maxDelegationDepth = 0
  /\ g.maxUses > 0 => ~g.canDelegate /\ g.maxDelegationDepth = 0
  /\ ~hasEmptyOrDuplicate(g.audiences)
  /\ validateValues(g.actions, g.resources)
  /\ \E audience \in g.audiences :
       ValidateRoot(g, audience,
                    [actions |-> g.actions, resources |-> g.resources, expiration |-> 1 + g.maxTTL,
                     depth |-> 0, maxDepth |-> g.maxDelegationDepth, maxUses |-> g.maxUses,
                     constraints |-> g.constraints], 1)

RootContext(r, expires) ==
  [actions |-> r.actions, resources |-> r.resources, expiration |-> expires, depth |-> 0,
   maxDepth |-> r.maxDepth, maxUses |-> r.maxUses, constraints |-> r.constraints]

\* A child inherits maxDepth unless it is limited-use, which makes it a leaf.
ChildContext(parent, r, expires) ==
  [actions |-> r.actions, resources |-> r.resources, expiration |-> expires,
   depth |-> parent.depth + 1,
   maxDepth |-> IF r.maxUses > 0 THEN parent.depth + 1 ELSE parent.maxDepth,
   maxUses |-> r.maxUses, constraints |-> r.constraints]

\* MintRootLease's checks on the request, up to and including ValidateRoot.
RootAuthorized(grant, audience, r, expires, now) ==
  /\ r.maxDepth \in 0 .. DepthLimit /\ r.maxUses >= 0
  /\ expiration(now, expires)
  /\ validateValues(r.actions, r.resources)
  /\ ValidateRoot(grant, audience, RootContext(r, expires), now)

\* DelegateLease's checks on the request against the parent's authority.
ChildAuthorized(parent, r, expires, now) ==
  /\ r.maxUses >= 0
  /\ parent.expiration > now
  /\ expiration(now, expires)
  /\ Validate(parent, ChildContext(parent, r, expires))

\* The CHECKs of the table leases that an inserted authority must meet.
InitialChecks(context, issuedAt) == context.expiration > issuedAt /\ context.depth >= 0
MaxDepthCheck(context) == context.maxDepth >= context.depth
HardeningChecks(context) ==
  /\ context.actions # {} /\ context.resources # {}
  /\ context.maxDepth <= DepthLimit
LimitedUseCheck(context) == context.maxUses = 0 \/ context.maxDepth = context.depth

\* INSERT INTO leases: the table refuses a lease without actions or resources,
\* which attenuation.Validate lets through.
TableAccepts(context, issuedAt) ==
  /\ InitialChecks(context, issuedAt)
  /\ MaxDepthCheck(context)
  /\ HardeningChecks(context)
  /\ LimitedUseCheck(context)
===============================================================================
