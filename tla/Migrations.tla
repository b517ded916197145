----------------------------- MODULE Migrations -----------------------------
(***************************************************************************)
(* Schema migrations (internal/repository/migrate.go) as the migration job *)
(* (cmd/migrate) and the server (cmd/upsilonauth) run them against one     *)
(* PostgreSQL database, several at a time, with crashes.                   *)
(*                                                                         *)
(* A migration is a number, its place in the sorted directory.  The        *)
(* contents of a file are a value c, its SHA-256 digest the same value.    *)
(* Running a file adds objects to the schema: <<n, x>> is the object x of  *)
(* migration n, and <<n, c>> what the text c of file n leaves behind.      *)
(*                                                                         *)
(* ApplyMigrations is one transaction: its changes are kept in tx[p] until *)
(* Commit.  It holds an advisory lock from its first statement.            *)
(***************************************************************************)
EXTENDS Naturals, FiniteSets

CONSTANTS
    Proc,        \* processes: migration jobs and servers
    Release,     \* releases of the program, each with its directory
    Dir,         \* Dir[r] : the files of release r, number -> contents
    Content,     \* contents a file can have
    Rerunnable,  \* migrations whose statements succeed when run again
    Legacy       \* databases from before this code: [schema, rows] records

\* The value of a checksum column that was never filled in.
Null == "null"

Migration == UNION {DOMAIN Dir[r] : r \in Release}

\* The stages baselineExistingSchema recognises, and what it looks for.
Stages == 1..3
Marks(n) ==
    CASE n = 1 -> {<<1, "workloads">>, <<1, "leases">>, <<1, "audit_events">>, <<1, "columns">>}
      [] n = 2 -> {<<2, "audience">>, <<2, "max_depth">>}
      [] n = 3 -> {<<3, "disabled_at">>, <<3, "workload_nonces">>}
      [] OTHER -> {}

\* What running file n with contents c creates.
Creates(n, c) == Marks(n) \cup {<<n, c>>}

ASSUME ReleaseAssumption ==
    /\ Rerunnable \cap Stages = {}
    /\ \A r \in Release : /\ Stages \subseteq DOMAIN Dir[r]
                          /\ IsFiniteSet(DOMAIN Dir[r])
                          /\ DOMAIN Dir[r] \subseteq Nat
                          /\ \A n \in DOMAIN Dir[r] : Dir[r][n] \in Content
    /\ Null \notin Content

\* Objects that belong to migration n, whatever the contents of its file.
ObjectsOf(n) == Marks(n) \cup {<<n, c>> : c \in Content}

\* A database without rows was migrated by hand.  A stage of it is complete,
\* lacks some of the objects the baseline looks for, or has them all and lacks
\* the rest of its file; a file that was begun has created one of them.  A
\* database with rows was migrated by a version of ApplyMigrations without
\* checksums.
ASSUME LegacyAssumption ==
    \A d \in Legacy :
        /\ DOMAIN d.rows \subseteq Migration
        /\ \A n \in DOMAIN d.rows : d.rows[n] = Null
        /\ \A n \in Migration :
              IF n \in DOMAIN d.rows
                THEN \E c \in Content : d.schema \cap ObjectsOf(n) = Creates(n, c)
              ELSE IF DOMAIN d.rows = {} /\ n \in Stages
                THEN /\ d.schema \cap Marks(n) = {} => d.schema \cap ObjectsOf(n) = {}
                     /\ Marks(n) \subseteq d.schema =>
                          \/ d.schema \cap ObjectsOf(n) = Marks(n)
                          \/ \E c \in Content : d.schema \cap ObjectsOf(n) = Creates(n, c)
              ELSE d.schema \cap ObjectsOf(n) = {}

VARIABLES
    schema,    \* objects in effect, committed
    rows,      \* schema_migrations: recorded number -> checksum, committed
    adopted,   \* ghost: rows whose checksum was filled in after the fact
    baselined, \* ghost: stages recorded by baselineExistingSchema
    pc,        \* "idle", "waiting", "migrating", "serving"
    job,       \* what a process runs: [release, server], or NoJob
    tx         \* uncommitted changes: [added, rows, adopted, done]

vars == <<schema, rows, adopted, baselined, pc, job, tx>>

NoRows == <<>>
NoJob == [release |-> "none", server |-> FALSE]
NoTx == [added |-> {}, rows |-> NoRows, adopted |-> {}, done |-> {}]
Files(p) == Dir[job[p].release]

\* Row n with checksum c, written over the rows f.
With(f, n, c) == [k \in DOMAIN f \cup {n} |-> IF k = n THEN c ELSE f[k]]

\* What a transaction sees: committed rows and objects, and its own changes.
Schema(p) == schema \cup tx[p].added
Recorded(p) == DOMAIN rows \cup DOMAIN tx[p].rows
Checksum(p, n) == IF n \in DOMAIN tx[p].rows THEN tx[p].rows[n] ELSE rows[n]

-----------------------------------------------------------------------------
\* A database nobody touched, or one that an older version of the tool, or
\* none, has migrated: Legacy lists them.
Init ==
    /\ \E d \in Legacy : schema = d.schema /\ rows = d.rows
    /\ adopted = {}
    /\ baselined = {}
    /\ pc = [p \in Proc |-> "idle"]
    /\ job = [p \in Proc |-> NoJob]
    /\ tx = [p \in Proc |-> NoTx]

\* Start-up: cmd/migrate runs one of the two modes and exits; the server
\* runs the mode of its configuration and serves if it succeeds.
Start(p, r, server) ==
    /\ pc[p] = "idle"
    /\ job' = [job EXCEPT ![p] = [release |-> r, server |-> server]]
    /\ pc' = [pc EXCEPT ![p] = "waiting"]
    /\ UNCHANGED <<schema, rows, adopted, baselined, tx>>

\* Mutant: rows are compared, but files without a row are not noticed.
VerifyRowsOnly(files) ==
    /\ rows # NoRows
    /\ \A n \in DOMAIN rows : n \in DOMAIN files /\ rows[n] = files[n]

\* VerifyMigrations: one query, so one snapshot of the committed rows.
VerifyMigrations(files) ==
    /\ \A n \in DOMAIN rows : n \in DOMAIN files /\ rows[n] = files[n]
    /\ Cardinality(DOMAIN rows) = Cardinality(DOMAIN files)

\* A server in verify mode that passes serves; in every other case the
\* process exits and nothing changes.
StartVerified(p, r) ==
    /\ pc[p] = "idle"
    /\ VerifyMigrations(Dir[r])
    /\ job' = [job EXCEPT ![p] = [release |-> r, server |-> TRUE]]
    /\ pc' = [pc EXCEPT ![p] = "serving"]
    /\ UNCHANGED <<schema, rows, adopted, baselined, tx>>

\* pg_advisory_xact_lock: held until the transaction ends.
LockFree == \A q \in Proc : pc[q] # "migrating"

\* baselineExistingSchema: nothing to do when a migration is recorded or no
\* table exists; an incomplete schema is refused.
InitialTables == Marks(1) \ {<<1, "columns">>}
NeedsBaseline == DOMAIN rows = {} /\ schema \cap InitialTables # {}
Half(marks) == schema \cap marks # {} /\ ~(marks \subseteq schema)
BaselineRefused ==
    NeedsBaseline /\ (~(Marks(1) \subseteq schema) \/ Half(Marks(2)) \/ Half(Marks(3)))

\* The stages in effect, each one only if the one before it is.
BaselineStages ==
    IF NeedsBaseline
      THEN {n \in Stages : \A k \in 1..n : Marks(k) \subseteq schema}
      ELSE {}

\* BEGIN, the lock, the migration table and the baseline.
LockMigrations(p) ==
    /\ pc[p] = "waiting"
    /\ LockFree
    /\ ~BaselineRefused
    /\ BaselineStages \subseteq DOMAIN Files(p)
    /\ pc' = [pc EXCEPT ![p] = "migrating"]
    /\ tx' = [tx EXCEPT ![p] = [added   |-> {},
                                rows    |-> [n \in BaselineStages |-> Null],
                                adopted |-> {},
                                done    |-> {}]]
    /\ UNCHANGED <<schema, rows, adopted, baselined, job>>

\* The next file in the order of the names.
Next1(p, n) ==
    /\ pc[p] = "migrating"
    /\ n \in DOMAIN Files(p) \ tx[p].done
    /\ \A k \in DOMAIN Files(p) \ tx[p].done : n <= k

\* A recorded migration: its checksum is filled in if missing, else compared
\* (rewriting an equal one changes nothing).
CheckRecorded(p, n) ==
    /\ Next1(p, n)
    /\ n \in Recorded(p)
    /\ Checksum(p, n) \in {Null, Files(p)[n]}
    /\ tx' = [tx EXCEPT ![p] =
         [added   |-> tx[p].added,
          rows    |-> With(tx[p].rows, n, Files(p)[n]),
          adopted |-> IF Checksum(p, n) = Null THEN tx[p].adopted \cup {n} ELSE tx[p].adopted,
          done    |-> tx[p].done \cup {n}]]
    /\ UNCHANGED <<schema, rows, adopted, baselined, pc, job>>

\* CREATE and ADD fail on an object that exists.
Runs(p, n) == n \in Rerunnable \/ Schema(p) \cap Creates(n, Files(p)[n]) = {}

\* Mutant: the file is run on the pool instead of in the transaction.
RunMigrationOnPool(p, n) ==
    /\ Next1(p, n)
    /\ n \notin Recorded(p)
    /\ Runs(p, n)
    /\ schema' = schema \cup Creates(n, Files(p)[n])
    /\ tx' = [tx EXCEPT ![p] =
         [added   |-> tx[p].added,
          rows    |-> With(tx[p].rows, n, Files(p)[n]),
          adopted |-> tx[p].adopted,
          done    |-> tx[p].done \cup {n}]]
    /\ UNCHANGED <<rows, adopted, baselined, pc, job>>

\* An unrecorded migration is run and recorded.
RunMigration(p, n) ==
    /\ Next1(p, n)
    /\ n \notin Recorded(p)
    /\ Runs(p, n)
    /\ tx' = [tx EXCEPT ![p] =
         [added   |-> tx[p].added \cup Creates(n, Files(p)[n]),
          rows    |-> With(tx[p].rows, n, Files(p)[n]),
          adopted |-> tx[p].adopted,
          done    |-> tx[p].done \cup {n}]]
    /\ UNCHANGED <<schema, rows, adopted, baselined, pc, job>>

\* COMMIT; the server then serves, the job exits.
CommitMigrations(p) ==
    /\ pc[p] = "migrating"
    /\ tx[p].done = DOMAIN Files(p)
    /\ schema' = Schema(p)
    /\ rows' = [n \in Recorded(p) |-> Checksum(p, n)]
    /\ adopted' = adopted \cup tx[p].adopted
    /\ baselined' = baselined \cup BaselineStages
    /\ pc' = [pc EXCEPT ![p] = IF job[p].server THEN "serving" ELSE "idle"]
    /\ tx' = [tx EXCEPT ![p] = NoTx]
    /\ job' = IF job[p].server THEN job ELSE [job EXCEPT ![p] = NoJob]

\* ROLLBACK: an error of any of the steps, the timeout of the job, or the
\* process or its connection dies.
Abort(p) ==
    /\ pc[p] \in {"waiting", "migrating"}
    /\ pc' = [pc EXCEPT ![p] = "idle"]
    /\ tx' = [tx EXCEPT ![p] = NoTx]
    /\ job' = [job EXCEPT ![p] = NoJob]
    /\ UNCHANGED <<schema, rows, adopted, baselined>>

\* The server is stopped.
Stop(p) ==
    /\ pc[p] = "serving"
    /\ pc' = [pc EXCEPT ![p] = "idle"]
    /\ job' = [job EXCEPT ![p] = NoJob]
    /\ UNCHANGED <<schema, rows, adopted, baselined, tx>>

Next == \E p \in Proc :
    \/ \E r \in Release, server \in BOOLEAN : Start(p, r, server)
    \/ \E r \in Release : StartVerified(p, r)
    \/ LockMigrations(p)
    \/ \E n \in Migration : CheckRecorded(p, n)
    \/ \E n \in Migration : RunMigration(p, n)
    \/ CommitMigrations(p)
    \/ Abort(p)
    \/ Stop(p)

Spec == Init /\ [][Next]_vars

-----------------------------------------------------------------------------
(* Properties *)

\* Once migrations are recorded, the record and the schema agree, whichever
\* processes raced, failed or died half-way: a recorded migration is in
\* effect with the contents its checksum names (any contents, if the
\* checksum was filled in later), no second version of it was run, and
\* nothing of an unrecorded migration is there, so the next run of
\* ApplyMigrations neither skips a file nor runs one again.  Of a stage the
\* baseline recorded it may be that only what the baseline looked for is there.
RecordMatchesSchema ==
    DOMAIN rows # {} =>
        \A n \in Migration :
            /\ n \in DOMAIN rows =>
                  \/ \E c \in Content :
                        /\ schema \cap ObjectsOf(n) = Creates(n, c)
                        /\ rows[n] = c \/ rows[n] = Null \/ n \in adopted
                  \/ n \in baselined /\ schema \cap ObjectsOf(n) = Marks(n)
            /\ n \notin DOMAIN rows => schema \cap ObjectsOf(n) = {}

\* A server never runs on a schema that lacks a migration of its release, or
\* has another version of one (unless the database predates checksums),
\* whatever jobs of other releases run while it serves.  Of a stage the
\* baseline recorded, it finds at least what the baseline looked for.
ServedSchema ==
    \A p \in Proc : pc[p] = "serving" =>
        \A n \in DOMAIN Files(p) :
            \/ \E c \in Content :
                  /\ Creates(n, c) \subseteq schema
                  /\ c = Files(p)[n] \/ n \in adopted
            \/ n \in baselined /\ Marks(n) \subseteq schema
=============================================================================
