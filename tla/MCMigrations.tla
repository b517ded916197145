---------------------------- MODULE MCMigrations ----------------------------
(* Three releases: v1 with four files, v2 that adds a fifth, and v3 in which *)
(* the fifth and a legacy file were edited; three processes.                 *)
EXTENDS Migrations, TLC

CONSTANTS p1, p2, p3, v1, v2, v3

MCDir == (v1 :> [n \in 1..4 |-> "a"])
      @@ (v2 :> [n \in 1..5 |-> "a"])
      @@ (v3 :> [n \in 1..5 |-> IF n \in {2, 5} THEN "b" ELSE "a"])

Migrated(k) == UNION {Creates(n, "a") : n \in 1..k}

\* An empty database; one migrated by hand up to a stage, or with one object
\* of a stage, or the rest of its file, missing; one recorded by a version that
\* kept no checksums.
MCLegacy ==
    {[schema |-> Migrated(k), rows |-> NoRows] : k \in 0..3}
    \cup {[schema |-> Migrated(3) \ {o}, rows |-> NoRows] : o \in UNION {Creates(n, "a") : n \in Stages}}
    \cup {[schema |-> Migrated(3) \ Creates(2, "a"), rows |-> NoRows]}
    \cup {[schema |-> Migrated(k), rows |-> [n \in 1..k |-> Null]] : k \in 1..4}

Symmetry == Permutations(Proc)
=============================================================================
