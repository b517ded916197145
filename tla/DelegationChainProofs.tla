------------------------- MODULE DelegationChainProofs -------------------------
(***************************************************************************)
(* What a delegation guarantees, for every set of segments, keys, actions, *)
(* grants and requests.                                                    *)
(*                                                                         *)
(* First of one step (package attenuation): the prefix test on resources   *)
(* is exact, and a child lease never permits a request that its parent, or *)
(* the grant of its root, would not permit.                                *)
(*                                                                         *)
(* Then of whole lineages: NeverWidens, LineageBounded and CoversExact are *)
(* invariants of DelegationChain.  None is inductive: NeverWidens speaks   *)
(* of the probes only, so ChainInv carries the syntactic relation Narrows  *)
(* between every pair of leases of the chain and between the grant and     *)
(* each lease; LineageBounded needs depth = position - 1 and the bound on  *)
(* maxDepth that every lease inherits from the grant; CoversExact needs    *)
(* every pattern to be canonical.                                          *)
(***************************************************************************)
EXTENDS DelegationChain, TLAPS

-------------------------------------------------------------------------------
(* One delegation *)

\* A pattern that Covers another admits every value the other admits: the
\* prefix test of resource.Covers is sound for resource.Allows.
THEOREM CoversSound ==
  ASSUME NEW parent \in ResourceString, NEW child \in ResourceString,
         NEW value \in ResourceString, Covers(parent, child), Allows(child, value)
  PROVE  Allows(parent, value)
<1>1. CASE parent = child
  BY <1>1
<1>2. CASE parent # child
  <2>1. HasWildcard(parent) /\ BelowPrefix(parent, child)
    BY <1>2 DEF Covers
  <2>2. CanonicalizePattern(parent) /\ CanonicalizeValue(value)
    BY DEF Covers, Allows
  <2>3. Len(parent) \in Nat /\ Len(child) \in Nat /\ Len(value) \in Nat
    BY DEF ResourceString
  <2>4. BelowPrefix(parent, value)
    <3>1. CASE child = value
      BY <2>1, <3>1
    <3>2. CASE BelowPrefix(child, value)
      BY <2>1, <2>3, <3>2 DEF BelowPrefix
    <3> QED BY <3>1, <3>2 DEF Allows
  <2> QED BY <2>1, <2>2, <2>4 DEF Allows
<1> QED BY <1>1, <1>2

\* And it is complete: a canonical pattern whose every value the parent admits is
\* covered, so the prefix test refuses no scope that really is narrower.  (Two
\* values below a child wildcard, of different lengths, tell a parent that is a
\* literal from one that is a wildcard.)
THEOREM CoversComplete ==
  ASSUME NEW parent \in ResourceString, NEW child \in ResourceString, Segment # {},
         CanonicalizePattern(parent), CanonicalizePattern(child),
         \A value \in ResourceString : Allows(child, value) => Allows(parent, value)
  PROVE  Covers(parent, child)
<1>1. /\ Len(parent) \in Nat /\ Len(child) \in Nat
      /\ DOMAIN parent = 1 .. Len(parent) /\ DOMAIN child = 1 .. Len(child)
  BY DEF ResourceString
<1>2. CASE ~HasWildcard(child)
  <2>1. CanonicalizeValue(child)
    BY <1>1, <1>2 DEF CanonicalizePattern, CanonicalizeValue, canonicalize, HasWildcard
  <2>2. Allows(child, child)
    BY <2>1 DEF Allows
  <2>3. Allows(parent, child)
    BY <2>2
  <2> QED BY <2>3 DEF Allows, Covers
<1>3. CASE HasWildcard(child)
  <2>1. PICK s : s \in Segment
    OBVIOUS
  <2> DEFINE n == Len(child)
             one == [i \in 1 .. n |-> IF i = n THEN s ELSE child[i]]
             two == [i \in 1 .. n + 1 |-> IF i >= n THEN s ELSE child[i]]
  <2>2. /\ one \in ResourceString /\ two \in ResourceString
        /\ Len(one) = n /\ Len(two) = n + 1
        /\ DOMAIN one = 1 .. n /\ DOMAIN two = 1 .. n + 1
    <3>1. n \in Nat /\ n + 1 \in Nat
      BY <1>1
    <3>2. \A i \in 1 .. n : child[i] \in Segment \union {Star, BadSegment}
      BY <1>1 DEF ResourceString
    <3>3. one \in [1 .. n -> Segment \union {Star, BadSegment}]
      BY <2>1, <3>2
    <3>4. two \in [1 .. n + 1 -> Segment \union {Star, BadSegment}]
      BY <1>1, <2>1, <3>2
    <3> HIDE DEF one, two, n
    <3>5. one \in Seq(Segment \union {Star, BadSegment}) /\ two \in Seq(Segment \union {Star, BadSegment})
      BY <3>1, <3>3, <3>4
    <3> QED BY <3>1, <3>3, <3>4, <3>5 DEF ResourceString
  <2>3. n > 1 /\ \A i \in 1 .. n - 1 : child[i] # BadSegment /\ child[i] # Star
    BY <1>1, <1>3 DEF HasWildcard, CanonicalizePattern, canonicalize
  <2>4. CanonicalizeValue(one) /\ CanonicalizeValue(two)
    <3>1. s # Star /\ s # BadSegment
      BY <2>1, SegmentAssumption
    <3>2. /\ \A i \in 1 .. n : one[i] # Star /\ one[i] # BadSegment
          /\ \A i \in 1 .. n + 1 : two[i] # Star /\ two[i] # BadSegment
      <4>0. \A i \in 1 .. n : i = n \/ (i # n /\ i \in 1 .. n - 1)
        <5>1. n \in Nat BY <1>1
        <5> HIDE DEF n
        <5> QED BY <5>1
      <4>1. ASSUME NEW i \in 1 .. n PROVE one[i] # Star /\ one[i] # BadSegment
        <5>1. CASE i = n BY <3>1, <5>1
        <5>2. CASE i # n BY <2>3, <4>0, <5>2
        <5> QED BY <5>1, <5>2
      <4>2. ASSUME NEW i \in 1 .. n + 1 PROVE two[i] # Star /\ two[i] # BadSegment
        <5>1. CASE i >= n BY <3>1, <5>1
        <5>2. CASE ~(i >= n)
          <6>1. i \in 1 .. n - 1 BY <1>1, <5>2
          <6> QED BY <2>3, <5>2, <6>1
        <5> QED BY <5>1, <5>2
      <4> QED BY <4>1, <4>2
    <3> HIDE DEF one, two
    <3>3. one # << >> /\ two # << >>
      BY <1>1, <2>2, <2>3
    <3> QED BY <2>2, <3>2, <3>3 DEF CanonicalizeValue, canonicalize
  <2>5. BelowPrefix(child, one) /\ BelowPrefix(child, two)
    BY <1>1, <2>2 DEF BelowPrefix
  <2>6. Allows(parent, one) /\ Allows(parent, two)
    BY <1>3, <2>2, <2>4, <2>5 DEF Allows
  <2>7. HasWildcard(parent)
    <3> HIDE DEF one, two
    <3>1. one # two
      BY <1>1, <2>2
    <3> QED BY <2>6, <3>1 DEF Allows
  <2>8. parent # one
    <3> HIDE DEF one
    <3> QED BY <1>1, <2>2, <2>4, <2>7 DEF HasWildcard, CanonicalizeValue, canonicalize
  <2>9. BelowPrefix(parent, one)
    BY <2>6, <2>8 DEF Allows
  <2>10. BelowPrefix(parent, child)
    <3>1. \A i \in 1 .. Len(parent) - 1 : i \in 1 .. n - 1 /\ one[i] = child[i]
      BY <1>1, <2>2, <2>9 DEF BelowPrefix
    <3> QED BY <1>1, <2>2, <2>9, <3>1 DEF BelowPrefix
  <2> QED BY <2>7, <2>10 DEF Covers
<1> QED BY <1>2, <1>3

\* Covers composes along a chain of delegations.
THEOREM CoversTransitive ==
  ASSUME NEW a \in ResourceString, NEW b \in ResourceString, NEW c \in ResourceString,
         Covers(a, b), Covers(b, c)
  PROVE  Covers(a, c)
<1>1. CASE a = b \/ b = c
  BY <1>1
<1>2. CASE a # b /\ b # c
  <2>1. HasWildcard(a) /\ BelowPrefix(a, b) /\ BelowPrefix(b, c)
    BY <1>2 DEF Covers
  <2>2. Len(a) \in Nat /\ Len(b) \in Nat /\ Len(c) \in Nat
    BY DEF ResourceString
  <2>3. BelowPrefix(a, c)
    BY <2>1, <2>2 DEF BelowPrefix
  <2> QED BY <2>1, <2>3 DEF Covers
<1> QED BY <1>1, <1>2

\* resource.Subset over a lease's patterns never widens what resourceAllowed
\* accepts at the verifier.
LEMMA SubsetSound ==
  ASSUME NEW parent \in SUBSET ResourceString, NEW child \in SUBSET ResourceString,
         NEW value \in ResourceString, Subset(child, parent), resourceAllowed(child, value)
  PROVE  resourceAllowed(parent, value)
<1>1. PICK pattern \in child : Allows(pattern, value)
  BY DEF resourceAllowed
<1>2. PICK ancestor \in parent : Covers(ancestor, pattern)
  BY <1>1 DEF Subset
<1>3. Allows(ancestor, value)
  BY <1>1, <1>2, CoversSound
<1> QED BY <1>3 DEF resourceAllowed

LEMMA SubsetTransitive ==
  ASSUME NEW a \in SUBSET ResourceString, NEW b \in SUBSET ResourceString,
         NEW c \in SUBSET ResourceString, Subset(b, a), Subset(c, b)
  PROVE  Subset(c, a)
<1> SUFFICES ASSUME NEW r \in c PROVE \E q \in a : Covers(q, r)
  BY DEF Subset
<1>1. PICK s \in b : Covers(s, r)
  BY DEF Subset
<1>2. PICK q \in a : Covers(q, s)
  BY <1>1 DEF Subset
<1>3. Covers(q, r)
  BY <1>1, <1>2, CoversTransitive
<1> QED BY <1>3

\* Request values that satisfy a child's constraints satisfy the parent's:
\* AtLeastAsStrong never lets a delegation lift a constraint or a ceiling.
THEOREM ConstraintsSound ==
  ASSUME NEW parent, NEW child, NEW actual,
         AtLeastAsStrong(parent, child), Satisfied(child, actual)
  PROVE  Satisfied(parent, actual)
<1>1. Valid(parent) /\ Valid(child)
  BY DEF AtLeastAsStrong
<1>2. ASSUME NEW key \in DOMAIN parent
      PROVE  /\ key \in DOMAIN actual
             /\ IF key = AmountKey THEN Parses(actual[key]) /\ actual[key] <= parent[key]
                                   ELSE actual[key] = parent[key]
  <2>1. key \in DOMAIN child /\ key \in DOMAIN actual
    BY DEF AtLeastAsStrong, Satisfied
  <2>2. CASE key = AmountKey
    <3>1. Parses(parent[key]) /\ Parses(child[key]) /\ Parses(actual[key])
      BY <1>1, <2>1, <2>2 DEF Valid, Satisfied
    <3>2. child[key] <= parent[key] /\ actual[key] <= child[key]
      BY <2>1, <2>2 DEF AtLeastAsStrong, Satisfied
    <3> QED BY <2>1, <2>2, <3>1, <3>2, AmountAssumption DEF Parses
  <2>3. CASE key # AmountKey
    BY <2>1, <2>3 DEF AtLeastAsStrong, Satisfied
  <2> QED BY <2>2, <2>3
<1> QED BY <1>1, <1>2 DEF Satisfied

LEMMA AtLeastAsStrongTransitive ==
  ASSUME NEW a, NEW b, NEW c, AtLeastAsStrong(a, b), AtLeastAsStrong(b, c)
  PROVE  AtLeastAsStrong(a, c)
<1>1. Valid(a) /\ Valid(b) /\ Valid(c)
  BY DEF AtLeastAsStrong
<1>2. ASSUME NEW key \in DOMAIN a
      PROVE  /\ key \in DOMAIN c
             /\ IF key = AmountKey THEN c[key] <= a[key] ELSE c[key] = a[key]
  <2>1. key \in DOMAIN b /\ key \in DOMAIN c
    BY DEF AtLeastAsStrong
  <2>2. CASE key = AmountKey
    <3>1. Parses(a[key]) /\ Parses(b[key]) /\ Parses(c[key])
      BY <1>1, <2>1, <2>2 DEF Valid
    <3>2. b[key] <= a[key] /\ c[key] <= b[key]
      BY <2>1, <2>2 DEF AtLeastAsStrong
    <3> QED BY <2>1, <2>2, <3>1, <3>2, AmountAssumption DEF Parses
  <2>3. CASE key # AmountKey
    BY <2>1, <2>3 DEF AtLeastAsStrong
  <2> QED BY <2>2, <2>3
<1> QED BY <1>1, <1>2 DEF AtLeastAsStrong

\* inner is within outer in every respect a verifier tests.
Narrows(outer, inner) ==
  /\ inner.actions \subseteq outer.actions
  /\ Subset(inner.resources, outer.resources)
  /\ AtLeastAsStrong(outer.constraints, inner.constraints)
  /\ inner.expiration <= outer.expiration

\* The fields of a context that Narrows compares have their types.
ContextTyped(context) ==
  context.resources \in SUBSET ResourceString /\ context.expiration \in Int

\* A verifier with any clock skew permits under inner only what it permits
\* under outer.
THEOREM NarrowsPermits ==
  ASSUME NEW outer, NEW inner, NEW request, NEW skew \in Int,
         ContextTyped(outer), ContextTyped(inner),
         request.resource \in ResourceString, request.time \in Int,
         Narrows(outer, inner), Permits(inner, request, skew)
  PROVE  Permits(outer, request, skew)
<1>1. request.action \in outer.actions
  BY DEF Narrows, Permits
<1>2. resourceAllowed(outer.resources, request.resource)
  BY SubsetSound DEF Narrows, Permits, ContextTyped
<1>3. Satisfied(outer.constraints, request.values)
  BY ConstraintsSound DEF Narrows, Permits
<1>4. request.time < outer.expiration + skew
  BY DEF Narrows, Permits, ContextTyped
<1> QED BY <1>1, <1>2, <1>3, <1>4 DEF Permits

LEMMA NarrowsTransitive ==
  ASSUME NEW x, NEW y, NEW z, ContextTyped(x), ContextTyped(y), ContextTyped(z),
         Narrows(x, y), Narrows(y, z)
  PROVE  Narrows(x, z)
<1>1. Subset(z.resources, x.resources)
  BY SubsetTransitive DEF Narrows, ContextTyped
<1>2. AtLeastAsStrong(x.constraints, z.constraints)
  BY AtLeastAsStrongTransitive DEF Narrows
<1> QED BY <1>1, <1>2 DEF Narrows, ContextTyped

\* attenuation.Validate accepts only children that are within their parent.
LEMMA ValidateNarrows ==
  ASSUME NEW parent, NEW child, Validate(parent, child)
  PROVE  Narrows(parent, child)
BY DEF Validate, Narrows

-------------------------------------------------------------------------------
(* Lineages *)

Context == [actions : {r.actions : r \in Requests}, resources : SUBSET ResourceString,
            expiration : Int, depth : Int, maxDepth : Int, maxUses : Int,
            constraints : {r.constraints : r \in Requests}]

\* Types, and the part of validateGrant the lineage depends on.
GrantInv ==
  /\ grant \in Grants
  /\ grant.resources \in SUBSET ResourceString
  /\ \A resource \in grant.resources : CanonicalizePattern(resource)
  /\ grant.maxUses > 0 => grant.maxDelegationDepth = 0
  /\ grant.maxDelegationDepth >= 0

DepthInv ==
  \A i \in 1 .. Len(chain) :
    /\ chain[i].depth = i - 1
    /\ chain[i].depth <= chain[i].maxDepth
    /\ chain[i].maxDepth <= grant.maxDelegationDepth
    /\ chain[i].maxUses > 0 => i = Len(chain)
    /\ grant.maxUses > 0 => chain[i].maxUses \in 1 .. grant.maxUses

NarrowInv ==
  \A j \in 1 .. Len(chain) :
    /\ Narrows(GrantContext, chain[j])
    /\ \A i \in 1 .. (j - 1) : Narrows(chain[i], chain[j])

ChainInv == chain \in Seq(Context) /\ GrantInv /\ DepthInv /\ NarrowInv

LEMMA CanonicalIsString ==
  ASSUME NEW rs \in ListOf(ResourceString), ~hasEmptyOrDuplicate(rs)
  PROVE  rs \in SUBSET ResourceString
BY DEF ListOf, hasEmptyOrDuplicate

LEMMA InitChainInv == Init => ChainInv
<1> SUFFICES ASSUME Init PROVE ChainInv
  OBVIOUS
<1>1. grant \in Grants /\ validateGrant(grant) /\ chain = << >>
  BY DEF Init
<1>2. GrantInv
  <2>1. grant.resources \in SUBSET ResourceString
    BY <1>1, CanonicalIsString, RequestAssumption DEF validateGrant, validateValues
  <2> QED BY <1>1, <2>1 DEF GrantInv, validateGrant, validateValues
<1> QED BY <1>1, <1>2 DEF ChainInv, DepthInv, NarrowInv

LEMMA GrantContextTyped == GrantInv => ContextTyped(GrantContext)
BY TimeAssumption, RequestAssumption DEF GrantInv, GrantContext, ContextTyped

LEMMA MintChainInv ==
  ASSUME ChainInv, NEW audience \in Audience, NEW r \in Requests, MintRootLease(audience, r)
  PROVE  ChainInv'
<1> DEFINE root == RootContext(r, r.expires)
<1>1. chain' = <<root>> /\ grant' = grant /\ ValidateRoot(grant, audience, root, Now)
  BY DEF MintRootLease, RootAuthorized
<1>2. root \in Context
  <2>1. r.resources \in SUBSET ResourceString
    BY <1>1, CanonicalIsString, RequestAssumption DEF ValidateRoot, validateContext, RootContext
  <2> QED BY <2>1, RequestAssumption DEF RootContext, Context
<1>3. GrantInv'
  BY <1>1 DEF ChainInv, GrantInv
<1>4. Len(chain') = 1 /\ chain'[1] = root /\ chain' \in Seq(Context)
  BY <1>1, <1>2
<1>5. DepthInv'
  BY <1>1, <1>2, <1>4, RequestAssumption
     DEF ChainInv, GrantInv, DepthInv, ValidateRoot, validateContext, RootContext, Context
<1>6. Narrows(GrantContext, root)'
  BY <1>1, <1>2, TimeAssumption, RequestAssumption
     DEF ValidateRoot, Narrows, GrantContext, RootContext, ChainInv, GrantInv
<1>7. NarrowInv'
  BY <1>1, <1>4, <1>6 DEF NarrowInv, GrantContext
<1> QED BY <1>3, <1>4, <1>5, <1>7 DEF ChainInv

LEMMA DelegateChainInv ==
  ASSUME ChainInv, NEW r \in Requests, DelegateLease(r)
  PROVE  ChainInv'
<1> DEFINE n == Len(chain)
           parent == chain[n]
           child == ChildContext(parent, r, r.expires)
<1>1. chain # << >> /\ chain' = Append(chain, child) /\ grant' = grant /\ Validate(parent, child)
  BY DEF DelegateLease, ChildAuthorized
<1>2. n \in Nat \ {0} /\ parent \in Context
  BY <1>1 DEF ChainInv
<1>3. child \in Context
  <2>1. r.resources \in SUBSET ResourceString
    BY <1>1, CanonicalIsString, RequestAssumption DEF Validate, validateContext, ChildContext
  <2> QED BY <1>2, <2>1, RequestAssumption DEF ChildContext, Context
<1>4. /\ chain' \in Seq(Context) /\ Len(chain') = n + 1 /\ chain'[n + 1] = child
      /\ \A i \in 1 .. n : chain'[i] = chain[i]
  BY <1>1, <1>2, <1>3 DEF ChainInv
<1>5. GrantInv'
  BY <1>1 DEF ChainInv, GrantInv
<1>6. /\ child.depth = n /\ child.depth <= child.maxDepth
      /\ child.maxDepth <= grant.maxDelegationDepth /\ parent.maxUses = 0
  BY <1>1, <1>2, <1>3, RequestAssumption
     DEF ChainInv, DepthInv, GrantInv, Validate, validateContext, ChildContext, Context
<1>7. DepthInv'
  <2>1. grant.maxUses > 0 => FALSE
    BY <1>2, <1>3, <1>6, RequestAssumption DEF ChainInv, GrantInv, Context
  <2>2. ASSUME NEW i \in 1 .. n PROVE chain[i].maxUses > 0 => FALSE
    BY <1>2, <1>6, <2>2 DEF ChainInv, DepthInv, Context
  <2> QED BY <1>1, <1>2, <1>4, <1>6, <2>1, <2>2 DEF ChainInv, DepthInv
<1>8. Narrows(parent, child)
  BY <1>1, ValidateNarrows
<1>9. \A c \in Context : ContextTyped(c)
  BY DEF Context, ContextTyped
<1>10. ASSUME NEW i \in 1 .. n PROVE Narrows(chain[i], child)
  <2>1. CASE i = n
    BY <1>8, <2>1
  <2>2. CASE i # n
    <3>1. Narrows(chain[i], parent)
      BY <1>2, <2>2 DEF ChainInv, NarrowInv
    <3>2. chain[i] \in Context
      BY DEF ChainInv
    <3> QED BY <1>2, <1>3, <1>8, <1>9, <3>1, <3>2, NarrowsTransitive
  <2> QED BY <2>1, <2>2
<1>11. Narrows(GrantContext, child)
  <2>1. Narrows(GrantContext, parent) /\ ContextTyped(GrantContext)
    BY <1>2, GrantContextTyped DEF ChainInv, NarrowInv
  <2> QED BY <1>2, <1>3, <1>8, <1>9, <2>1, NarrowsTransitive
<1>12. NarrowInv'
  <2>1. GrantContext' = GrantContext
    BY <1>1 DEF GrantContext
  <2>2. ASSUME NEW j \in 1 .. (n + 1)
        PROVE  /\ Narrows(GrantContext, chain'[j])
               /\ \A i \in 1 .. (j - 1) : Narrows(chain'[i], chain'[j])
    <3>1. CASE j = n + 1
      BY <1>2, <1>4, <1>10, <1>11, <3>1
    <3>2. CASE j \in 1 .. n
      BY <1>2, <1>4, <3>2 DEF ChainInv, NarrowInv
    <3> QED BY <1>2, <3>1, <3>2
  <2> QED BY <1>4, <2>1, <2>2 DEF NarrowInv, Narrows
<1> QED BY <1>4, <1>5, <1>7, <1>12 DEF ChainInv

LEMMA ChainInvariant == Spec => []ChainInv
<1>1. ChainInv /\ [Next]_vars => ChainInv'
  <2> SUFFICES ASSUME ChainInv, [Next]_vars PROVE ChainInv'
    OBVIOUS
  <2>1. CASE Next
    BY <2>1, MintChainInv, DelegateChainInv DEF Next
  <2>2. CASE UNCHANGED vars
    BY <2>2 DEF vars, ChainInv, GrantInv, DepthInv, NarrowInv, GrantContext, Narrows
  <2> QED BY <2>1, <2>2
<1> QED BY <1>1, InitChainInv, PTL DEF Spec

\* No lease of any lineage lets its holder do at a verifier what an ancestor
\* or the root workload's grant would not (attenuation.ValidateRoot, Validate).
THEOREM LineageNeverWidens == Spec => []NeverWidens
<1>1. ChainInv => NeverWidens
  <2> SUFFICES ASSUME ChainInv, NEW probe \in Probes, NEW j \in DOMAIN chain,
                      Permits(chain[j], probe, Skew)
               PROVE  /\ Permits(GrantContext, probe, Skew)
                      /\ \A i \in 1 .. j : Permits(chain[i], probe, Skew)
    BY DEF NeverWidens
  <2>1. j \in 1 .. Len(chain) /\ chain[j] \in Context
    BY DEF ChainInv
  <2>2. probe.resource \in ResourceString /\ probe.time \in Int /\ Skew \in Int
    BY RequestAssumption, TimeAssumption
  <2>3. \A c \in Context : ContextTyped(c)
    BY DEF Context, ContextTyped
  <2>4. Permits(GrantContext, probe, Skew)
    <3>1. Narrows(GrantContext, chain[j]) /\ ContextTyped(GrantContext)
      BY <2>1, GrantContextTyped DEF ChainInv, NarrowInv
    <3> QED BY <2>1, <2>2, <2>3, <3>1, NarrowsPermits
  <2>5. ASSUME NEW i \in 1 .. j PROVE Permits(chain[i], probe, Skew)
    <3>1. CASE i = j
      BY <3>1
    <3>2. CASE i # j
      <4>1. Narrows(chain[i], chain[j]) /\ chain[i] \in Context
        BY <2>1, <3>2 DEF ChainInv, NarrowInv
      <4> QED BY <2>1, <2>2, <2>3, <4>1, NarrowsPermits
    <3> QED BY <3>1, <3>2
  <2> QED BY <2>4, <2>5
<1> QED BY <1>1, ChainInvariant, PTL

\* A lineage is no longer than the grant's delegation depth, and limited-use
\* leases are leaves with at most the grant's uses.
THEOREM LineageIsBounded == Spec => []LineageBounded
<1>1. ChainInv => LineageBounded
  <2> SUFFICES ASSUME ChainInv PROVE LineageBounded
    OBVIOUS
  <2>1. Len(chain) \in Nat /\ DOMAIN chain = 1 .. Len(chain)
    BY DEF ChainInv
  <2>2. Len(chain) <= 1 + grant.maxDelegationDepth
    <3>1. CASE Len(chain) = 0
      BY <3>1, RequestAssumption DEF ChainInv, GrantInv
    <3>2. CASE Len(chain) # 0
      <4>1. Len(chain) \in 1 .. Len(chain) /\ chain[Len(chain)] \in Context
        BY <2>1, <3>2 DEF ChainInv
      <4> DEFINE last == chain[Len(chain)]
      <4>2. last.depth \in Int /\ last.maxDepth \in Int /\ grant.maxDelegationDepth \in Int
        BY <4>1, RequestAssumption DEF ChainInv, GrantInv, Context
      <4>3. /\ last.depth = Len(chain) - 1 /\ last.depth <= last.maxDepth
            /\ last.maxDepth <= grant.maxDelegationDepth
        BY <4>1 DEF ChainInv, DepthInv
      <4> HIDE DEF last
      <4> QED BY <2>1, <4>2, <4>3
    <3> QED BY <3>1, <3>2
  <2> QED BY <2>1, <2>2 DEF ChainInv, DepthInv, LineageBounded
<1> QED BY <1>1, ChainInvariant, PTL

\* When the protected service can be asked for every resource, resource.Covers
\* decides inclusion between the scopes of any lineage exactly: what it accepts
\* never widens, and no scope that really is narrower is refused.
THEOREM CoversIsExact ==
  ASSUME Segment # {}, \A value \in ResourceString : \E probe \in Probes : probe.resource = value
  PROVE  Spec => []CoversExact
<1>1. ChainInv => CoversExact
  <2> SUFFICES ASSUME ChainInv, NEW parent \in Patterns, NEW child \in Patterns
               PROVE  Covers(parent, child) <=>
                        \A probe \in Probes : Allows(child, probe.resource) => Allows(parent, probe.resource)
    BY DEF CoversExact
  <2>1. ASSUME NEW pattern \in Patterns PROVE pattern \in ResourceString /\ CanonicalizePattern(pattern)
    <3>1. CASE pattern \in grant.resources
      BY <3>1 DEF ChainInv, GrantInv
    <3>2. CASE pattern \notin grant.resources
      <4>1. PICK i \in DOMAIN chain : pattern \in chain[i].resources
        BY <3>2 DEF Patterns
      <4>2. i \in 1 .. Len(chain) /\ chain[i] \in Context
        BY DEF ChainInv
      <4>3. Narrows(GrantContext, chain[i])
        BY <4>2 DEF ChainInv, NarrowInv
      <4> QED BY <4>1, <4>2, <4>3 DEF Narrows, Subset, Covers, Context
    <3> QED BY <3>1, <3>2
  <2>2. \A probe \in Probes : probe.resource \in ResourceString
    BY RequestAssumption
  <2>3. ASSUME Covers(parent, child), NEW probe \in Probes, Allows(child, probe.resource)
        PROVE  Allows(parent, probe.resource)
    BY <2>1, <2>2, <2>3, CoversSound
  <2>4. ASSUME \A probe \in Probes : Allows(child, probe.resource) => Allows(parent, probe.resource)
        PROVE  Covers(parent, child)
    BY <2>1, <2>4, CoversComplete
  <2> QED BY <2>3, <2>4
<1> QED BY <1>1, ChainInvariant, PTL
===============================================================================
