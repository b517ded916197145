------------------------------ MODULE Constraints ------------------------------
(***************************************************************************)
(* Stateless lease constraints (internal/constraints).  A constraint map   *)
(* is a function whose domain is a set of keys.  Vocabulary is the set of  *)
(* keys the package knows ("environment", "repository", "branch",          *)
(* "http_method" and "max_transaction_minor_units"); AmountKey is the one  *)
(* numeric key.  The value of AmountKey is the number its text denotes:    *)
(* a number outside 0..MaxAmount is a text that strconv.ParseUint(v, 10,   *)
(* 63) refuses (MaxAmount is 2^63-1 in the code).  Malformed is the value  *)
(* of another key that Valid refuses: empty, padded, too long, or an       *)
(* http_method that is not upper case.                                     *)
(***************************************************************************)
EXTENDS Integers, FiniteSets

CONSTANTS Vocabulary, AmountKey, Malformed, MaxAmount

ASSUME AmountAssumption == MaxAmount \in Nat

MaxConstraints == 16

\* strconv.ParseUint(text, 10, 63) succeeds.
Parses(amount) == amount \in 0 .. MaxAmount

Valid(values) ==
  /\ Cardinality(DOMAIN values) <= MaxConstraints
  /\ \A key \in DOMAIN values :
       /\ key \in Vocabulary
       /\ IF key = AmountKey THEN Parses(values[key]) /\ values[key] # 0
                             ELSE values[key] # Malformed

AtLeastAsStrong(parent, child) ==
  /\ Valid(parent) /\ Valid(child)
  /\ \A key \in DOMAIN parent :
       /\ key \in DOMAIN child
       /\ IF key = AmountKey THEN child[key] <= parent[key] ELSE child[key] = parent[key]

Equal(left, right) ==
  /\ Cardinality(DOMAIN left) = Cardinality(DOMAIN right)
  /\ AtLeastAsStrong(left, right)
  /\ AtLeastAsStrong(right, left)

Satisfied(required, actual) ==
  /\ Valid(required)
  /\ \A key \in DOMAIN required :
       /\ key \in DOMAIN actual
       /\ IF key = AmountKey THEN Parses(actual[key]) /\ actual[key] <= required[key]
                             ELSE actual[key] = required[key]
===============================================================================
