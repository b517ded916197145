------------------------------ MODULE Attenuation ------------------------------
(***************************************************************************)
(* Authority attenuation (internal/attenuation): what a root lease may     *)
(* take from a workload grant and what a child lease may take from its     *)
(* parent.  A Go slice of actions, resources or audiences is the set of    *)
(* its members; BadEntry in the set stands for an entry that               *)
(* hasEmptyOrDuplicate refuses (empty, padded with white space, or equal   *)
(* to an earlier entry).  Times are seconds; the zero time of an           *)
(* AuthorityContext never reaches the package and is left out.             *)
(***************************************************************************)
EXTENDS Resource, Constraints

CONSTANTS Audience, Action, BadEntry

\* GrantContext.MaxDelegationDepth is at most 16; a smaller bound in a model.
CONSTANT DepthLimit
ASSUME DepthAssumption == DepthLimit \in Nat

hasEmptyOrDuplicate(values) == BadEntry \in values

validateContext(context) ==
  /\ context.depth >= 0 /\ context.maxDepth >= context.depth /\ context.maxUses >= 0
  /\ Valid(context.constraints)
  /\ ~hasEmptyOrDuplicate(context.actions) /\ ~hasEmptyOrDuplicate(context.resources)
  /\ \A resource \in context.resources : CanonicalizePattern(resource)

\* Mutant: the grant's depth is not compared with the requested one.
ValidateRootAnyDepth(grant, audience, requested, issuedAt) ==
  /\ audience \in grant.audiences /\ requested.depth = 0
  /\ requested.maxDepth > 0 => grant.canDelegate
  /\ grant.maxUses > 0 => requested.maxUses # 0 /\ requested.maxUses <= grant.maxUses
  /\ requested.expiration <= issuedAt + grant.maxTTL
  /\ validateContext(requested) /\ requested.actions \subseteq grant.actions
  /\ Subset(requested.resources, grant.resources)
  /\ AtLeastAsStrong(grant.constraints, requested.constraints)

ValidateRoot(grant, audience, requested, issuedAt) ==
  /\ grant.maxTTL > 0 /\ grant.maxDelegationDepth \in 0 .. DepthLimit /\ grant.maxUses >= 0
  /\ ~hasEmptyOrDuplicate(grant.audiences)
  /\ ~hasEmptyOrDuplicate(grant.actions) /\ ~hasEmptyOrDuplicate(grant.resources)
  /\ Valid(grant.constraints) /\ AtLeastAsStrong(grant.constraints, requested.constraints)
  /\ \A resource \in grant.resources : CanonicalizePattern(resource)
  /\ audience \in grant.audiences
  /\ requested.depth = 0 /\ requested.maxDepth <= grant.maxDelegationDepth
  /\ requested.maxDepth > 0 => grant.canDelegate
  /\ ~(requested.maxUses > 0 /\ requested.maxDepth > 0)
  /\ grant.maxUses > 0 => requested.maxUses # 0 /\ requested.maxUses <= grant.maxUses
  /\ requested.expiration <= issuedAt + grant.maxTTL
  /\ validateContext(requested)
  /\ requested.actions \subseteq grant.actions
  /\ Subset(requested.resources, grant.resources)

\* child differs from parent in something besides its depth (ErrNotStrict)
StrictlyAttenuates(parent, child) ==
  ~ /\ child.actions = parent.actions /\ child.resources = parent.resources
    /\ child.expiration = parent.expiration
    /\ child.maxDepth = parent.maxDepth /\ child.maxUses = parent.maxUses
    /\ Equal(parent.constraints, child.constraints)

\* Mutant: the child's expiry is not compared with the parent's.
ValidateAnyExpiry(parent, child) ==
  /\ validateContext(parent) /\ validateContext(child)
  /\ parent.maxUses = 0
  /\ child.depth = parent.depth + 1 /\ child.maxDepth <= parent.maxDepth
  /\ AtLeastAsStrong(parent.constraints, child.constraints)
  /\ child.actions \subseteq parent.actions
  /\ Subset(child.resources, parent.resources)
  /\ StrictlyAttenuates(parent, child)

Validate(parent, child) ==
  /\ validateContext(parent) /\ validateContext(child)
  /\ parent.maxUses = 0
  /\ child.depth = parent.depth + 1
  /\ child.depth <= parent.maxDepth
  /\ child.maxDepth <= parent.maxDepth
  /\ child.maxDepth >= child.depth
  /\ child.expiration <= parent.expiration
  /\ child.maxUses > 0 => child.maxDepth = child.depth
  /\ AtLeastAsStrong(parent.constraints, child.constraints)
  /\ child.actions \subseteq parent.actions
  /\ Subset(child.resources, parent.resources)
  /\ StrictlyAttenuates(parent, child)

(***************************************************************************)
(* What a verifier lets the holder of a lease do (the tests of             *)
(* middleware.Authorize on action, resource, constraints and expiry;       *)
(* clockSkew is the verifier's leeway on exp).                             *)
(***************************************************************************)
Permits(context, request, clockSkew) ==
  /\ request.action \in context.actions
  /\ resourceAllowed(context.resources, request.resource)
  /\ Satisfied(context.constraints, request.values)
  /\ request.time < context.expiration + clockSkew
===============================================================================
