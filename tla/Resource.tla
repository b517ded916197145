------------------------------- MODULE Resource -------------------------------
(***************************************************************************)
(* Resource scopes (internal/resource).  A resource string is modelled by  *)
(* the sequence of its "/"-separated segments, which is what every         *)
(* decision of the package depends on:                                     *)
(*   - Segment: an ordinary segment made of permitted characters;          *)
(*   - Star:    the segment "*";                                           *)
(*   - BadSegment: any segment the package refuses (empty, ".", "..", one  *)
(*     that mixes "*" with other characters, one holding "%", white space, *)
(*     a control or a syntax character, or one that is not in NFC).        *)
(* The empty sequence is the empty string.  A string longer than 256 bytes *)
(* is refused like a BadSegment.  canonicalize accepts a string only when  *)
(* it already is its canonical form, so it is a predicate here.            *)
(***************************************************************************)
EXTENDS Naturals, Sequences

CONSTANTS Segment, Star, BadSegment

ASSUME SegmentAssumption == Star \notin Segment /\ BadSegment \notin Segment /\ Star # BadSegment

ResourceString == Seq(Segment \union {Star, BadSegment})

canonicalize(value, wildcardAllowed) ==
  /\ value # << >>
  /\ \A i \in DOMAIN value :
       /\ value[i] # BadSegment
       /\ value[i] = Star => wildcardAllowed /\ i = Len(value) /\ i # 1

CanonicalizePattern(value) == canonicalize(value, TRUE)
CanonicalizeValue(value) == canonicalize(value, FALSE)

\* strings.HasSuffix(pattern, "/*")
HasWildcard(pattern) == Len(pattern) > 1 /\ pattern[Len(pattern)] = Star

\* HasPrefix(value, prefix) and len(value) > len(prefix), where prefix is the
\* pattern up to and including its last "/".
BelowPrefix(pattern, value) ==
  /\ Len(value) >= Len(pattern)
  /\ \A i \in 1 .. (Len(pattern) - 1) : value[i] = pattern[i]

\* Mutant: the prefix loses its final "/", so a/* also covers a.
CoversWithoutSlash(parent, child) ==
  /\ CanonicalizePattern(parent)
  /\ CanonicalizePattern(child)
  /\ \/ parent = child
     \/ /\ HasWildcard(parent) /\ Len(child) >= Len(parent) - 1
        /\ \A i \in 1 .. (Len(parent) - 1) : child[i] = parent[i]

Covers(parent, child) ==
  /\ CanonicalizePattern(parent)
  /\ CanonicalizePattern(child)
  /\ parent = child \/ (HasWildcard(parent) /\ BelowPrefix(parent, child))

Allows(pattern, value) ==
  /\ CanonicalizePattern(pattern)
  /\ CanonicalizeValue(value)
  /\ pattern = value \/ (HasWildcard(pattern) /\ BelowPrefix(pattern, value))

Subset(candidate, parent) ==
  \A child \in candidate : \E ancestor \in parent : Covers(ancestor, child)

\* middleware.go resourceAllowed: some pattern of the lease admits the value.
resourceAllowed(patterns, value) == \E pattern \in patterns : Allows(pattern, value)
===============================================================================
