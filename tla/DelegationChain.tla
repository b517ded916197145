---------------------------- MODULE DelegationChain ----------------------------
(***************************************************************************)
(* One lineage of leases, from the grant of the root workload down.  It    *)
(* isolates the authority arithmetic of LeaseUsecase.MintRootLease and     *)
(* LeaseUsecase.DelegateLease (and validateGrant, which decides which      *)
(* grants can be registered at all) from storage and concurrency, which    *)
(* ControlPlane models.  chain[1] is the root lease, chain[i+1] was        *)
(* delegated from chain[i].                                                *)
(***************************************************************************)
EXTENDS Authority

CONSTANTS Grants,    \* grants an administrator may submit
          Requests,  \* authority a client may ask for
          Now,       \* time at which the leases of the chain are issued
          Probes,    \* requests to a protected service, for NeverWidens
          Skew       \* the verifier's leeway on exp

ASSUME TimeAssumption == Now \in Nat /\ Skew \in Nat

ASSUME RequestAssumption ==
  /\ \A g \in Grants : /\ g.resources \in ListOf(ResourceString)
                        /\ g.maxTTL \in Int /\ g.maxDelegationDepth \in Int /\ g.maxUses \in Int
  /\ \A r \in Requests : /\ r.resources \in ListOf(ResourceString)
                          /\ r.expires \in Int /\ r.maxDepth \in Int /\ r.maxUses \in Int
  /\ \A probe \in Probes : probe.resource \in ResourceString /\ probe.time \in Int

VARIABLES grant, chain
vars == <<grant, chain>>

Init == grant \in {g \in Grants : validateGrant(g)} /\ chain = << >>

MintRootLease(audience, r) ==
  /\ chain = << >>
  /\ RootAuthorized(grant, audience, r, r.expires, Now)
  /\ chain' = <<RootContext(r, r.expires)>>
  /\ UNCHANGED grant

DelegateLease(r) ==
  /\ chain # << >>
  /\ LET parent == chain[Len(chain)]
         child  == ChildContext(parent, r, r.expires)
     IN  /\ ChildAuthorized(parent, r, r.expires, Now)
         /\ TableAccepts(child, Now)
         /\ chain' = Append(chain, child)
  /\ UNCHANGED grant

Next == \/ \E audience \in Audience, r \in Requests : MintRootLease(audience, r)
        \/ \E r \in Requests : DelegateLease(r)

Spec == Init /\ [][Next]_vars

-------------------------------------------------------------------------------

\* A grant read as a context, so that Permits applies to it.
GrantContext == [actions |-> grant.actions, resources |-> grant.resources,
                 expiration |-> Now + grant.maxTTL, constraints |-> grant.constraints]

\* No lease of a lineage permits a request to a protected service that any of
\* its ancestors, or the root workload's grant, would refuse.
NeverWidens ==
  \A probe \in Probes : \A j \in DOMAIN chain :
    Permits(chain[j], probe, Skew) =>
      /\ Permits(GrantContext, probe, Skew)
      /\ \A i \in 1 .. j : Permits(chain[i], probe, Skew)

\* Patterns the lineage holds, the grant's included.
Patterns == grant.resources \union UNION {chain[i].resources : i \in DOMAIN chain}

\* Between the scopes of a lineage, resource.Covers decides inclusion exactly:
\* sound (a covered scope admits nothing outside) and complete (a scope that is
\* narrower is never refused), at the "/" boundary and for nested wildcards too.
CoversExact ==
  \A parent, child \in Patterns :
    Covers(parent, child) <=>
      \A probe \in Probes : Allows(child, probe.resource) => Allows(parent, probe.resource)

\* A lineage is never longer than the grant's delegation depth allows, and a
\* limited-use lease is the end of its lineage (uses are counted per lease, so
\* a delegable limited-use lease would multiply its budget).
LineageBounded ==
  /\ Len(chain) <= 1 + grant.maxDelegationDepth
  /\ \A i \in DOMAIN chain : chain[i].maxUses > 0 => i = Len(chain)
  /\ grant.maxUses > 0 => \A i \in DOMAIN chain : chain[i].maxUses \in 1 .. grant.maxUses
===============================================================================
