-------------------------- MODULE MigrationsProofs --------------------------
(***************************************************************************)
(* The record of migrations and the schema agree, for any releases, any    *)
(* number of processes and every database LegacyAssumption admits.         *)
(*                                                                         *)
(* The invariant describes two views: the committed one (Committed) and    *)
(* that of the one open transaction (Open), which differs from it only in  *)
(* the migrations whose rows it wrote.                                     *)
(***************************************************************************)
EXTENDS Migrations, FiniteSetTheorems, TLAPS

\* Migration n is in effect in schema s as its checksum k says, or as far as
\* the baseline looked.
Row(s, k, n, filled, based) ==
    \/ \E c \in Content :
          /\ s \cap ObjectsOf(n) = Creates(n, c)
          /\ k = c \/ k = Null \/ n \in filled
    \/ n \in based /\ s \cap ObjectsOf(n) = Marks(n)

\* A stage of a database without rows: absent, recorded by the baseline or
\* refused.
Unrecorded(s, n) ==
    /\ s \cap Marks(n) = {} => s \cap ObjectsOf(n) = {}
    /\ Marks(n) \subseteq s =>
          \/ s \cap ObjectsOf(n) = Marks(n)
          \/ \E c \in Content : s \cap ObjectsOf(n) = Creates(n, c)

Committed ==
    /\ DOMAIN rows \subseteq Migration
    /\ \A n \in DOMAIN rows : rows[n] \in Content \cup {Null} /\ Row(schema, rows[n], n, adopted, baselined)
    /\ \A n \in Migration \ DOMAIN rows :
          IF DOMAIN rows = {} /\ n \in Stages
            THEN Unrecorded(schema, n)
            ELSE schema \cap ObjectsOf(n) = {}

\* The stages recorded by the baseline, that of an open transaction included.
Based == baselined \cup BaselineStages

Open(p) ==
    /\ DOMAIN tx[p].rows \subseteq Migration
    /\ tx[p].done \subseteq DOMAIN tx[p].rows
    /\ \A n \in tx[p].done : n \in DOMAIN Files(p) => tx[p].rows[n] = Files(p)[n]
    /\ \A n \in DOMAIN tx[p].rows :
          /\ tx[p].rows[n] \in Content \cup {Null}
          /\ Row(Schema(p), tx[p].rows[n], n, adopted \cup tx[p].adopted, Based)
          /\ n \in DOMAIN rows => rows[n] = Null \/ rows[n] = tx[p].rows[n]
    /\ \A n \in Migration \ DOMAIN tx[p].rows :
          Schema(p) \cap ObjectsOf(n) = schema \cap ObjectsOf(n)

\* The schema a server found when it started is still there.
Serving(p) ==
    \A n \in DOMAIN Files(p) : n \in DOMAIN rows /\ rows[n] = Files(p)[n]

Processes ==
    /\ pc \in [Proc -> {"idle", "waiting", "migrating", "serving"}]
    /\ DOMAIN job = Proc
    /\ DOMAIN tx = Proc
    /\ \A p \in Proc : pc[p] # "idle" => job[p].release \in Release
    /\ \A p, q \in Proc : pc[p] = "migrating" /\ pc[q] = "migrating" => p = q

IInv ==
    /\ Processes
    /\ Committed
    /\ \A p \in Proc : pc[p] = "migrating" => Open(p)
    /\ \A p \in Proc : pc[p] = "serving" => Serving(p)

-----------------------------------------------------------------------------
(* Objects and files *)

LEMMA ObjectOwner == \A n, k : n # k => ObjectsOf(n) \cap ObjectsOf(k) = {}
<1>1. \A n : \A o \in Marks(n) : o[1] = n
  BY DEF Marks
<1>2. \A n : \A o \in ObjectsOf(n) : o[1] = n
  BY <1>1 DEF ObjectsOf
<1> QED BY <1>2

LEMMA CreatesOwn ==
    ASSUME NEW n, NEW c \in Content
    PROVE  Creates(n, c) \subseteq ObjectsOf(n) /\ Marks(n) \subseteq Creates(n, c)
BY DEF Creates, ObjectsOf

LEMMA FilesOf ==
    ASSUME NEW r \in Release
    PROVE  /\ DOMAIN Dir[r] \subseteq Migration
           /\ Stages \subseteq DOMAIN Dir[r]
           /\ \A n \in DOMAIN Dir[r] : Dir[r][n] \in Content /\ Dir[r][n] # Null
BY ReleaseAssumption DEF Migration

LEMMA BasedFixed == UNCHANGED <<schema, rows, baselined>> => Based' = Based
BY DEF Based, BaselineStages, NeedsBaseline

LEMMA NullContent == Null \notin Content
BY ReleaseAssumption

-----------------------------------------------------------------------------
(* One lemma for each action *)

LEMMA InitIInv == Init => IInv
<1> SUFFICES ASSUME Init PROVE IInv
  OBVIOUS
<1>1. Processes
  BY DEF Init, Processes
<1>2. PICK d \in Legacy : schema = d.schema /\ rows = d.rows
  BY DEF Init
<1>3. Committed
  <2>1. ASSUME NEW n \in DOMAIN rows PROVE rows[n] = Null /\ Row(schema, rows[n], n, adopted, baselined)
    BY <1>2, LegacyAssumption DEF Row
  <2>2. ASSUME NEW n \in Migration \ DOMAIN rows
        PROVE  IF DOMAIN rows = {} /\ n \in Stages
                 THEN Unrecorded(schema, n)
                 ELSE schema \cap ObjectsOf(n) = {}
    BY <1>2, LegacyAssumption DEF Unrecorded
  <2>3. DOMAIN rows \subseteq Migration
    BY <1>2, LegacyAssumption
  <2> QED BY <2>1, <2>2, <2>3 DEF Committed
<1> QED
  BY <1>1, <1>3 DEF IInv, Init

\* A step that leaves the database, and p's transaction, as they were.
LEMMA Elsewhere ==
    ASSUME IInv, UNCHANGED <<schema, rows, adopted, baselined>>, Processes',
           NEW p \in Proc,
           \A q \in Proc : q # p => pc'[q] = pc[q] /\ job'[q] = job[q] /\ tx'[q] = tx[q],
           pc'[p] = "migrating" => Open(p)',
           pc'[p] = "serving" => Serving(p)'
    PROVE  IInv'
<1>1. Committed'
  BY DEF IInv, Committed
<1>2. ASSUME NEW q \in Proc, q # p
      PROVE  /\ pc'[q] = "migrating" => Open(q)'
             /\ pc'[q] = "serving" => Serving(q)'
  <2>1. pc'[q] = pc[q] /\ job'[q] = job[q] /\ tx'[q] = tx[q]
    BY <1>2
  <2>2. Schema(q)' = Schema(q) /\ Files(q)' = Files(q) /\ Based' = Based
    BY <2>1, BasedFixed DEF Schema, Files
  <2>3. pc[q] = "migrating" => Open(q)
    BY DEF IInv
  <2>4. Open(q) => Open(q)'
    BY <2>1, <2>2 DEF Open
  <2>5. pc[q] = "serving" => Serving(q)
    BY DEF IInv
  <2>6. Serving(q) => Serving(q)'
    BY <2>2 DEF Serving
  <2> QED BY <2>1, <2>3, <2>4, <2>5, <2>6
<1> QED
  BY <1>1, <1>2 DEF IInv

LEMMA StartIInv ==
    ASSUME IInv, NEW p \in Proc, NEW r \in Release, NEW server \in BOOLEAN, Start(p, r, server)
    PROVE  IInv'
<1>1. Processes'
  BY DEF IInv, Processes, Start
<1> QED
  BY <1>1, Elsewhere DEF IInv, Processes, Start

LEMMA StartVerifiedIInv ==
    ASSUME IInv, NEW p \in Proc, NEW r \in Release, StartVerified(p, r)
    PROVE  IInv'
<1>1. Processes'
  BY DEF IInv, Processes, StartVerified
<1>2. DOMAIN rows = DOMAIN Dir[r]
  <2>1. DOMAIN rows \in SUBSET DOMAIN Dir[r]
    BY DEF StartVerified, VerifyMigrations
  <2>2. Cardinality(DOMAIN rows) = Cardinality(DOMAIN Dir[r])
    BY DEF StartVerified, VerifyMigrations
  <2> QED BY <2>1, <2>2, FS_Subset, ReleaseAssumption
<1>3. Serving(p)'
  BY <1>2 DEF Serving, Files, StartVerified, VerifyMigrations, IInv, Processes
<1> QED
  BY <1>1, <1>3, Elsewhere DEF IInv, Processes, StartVerified

LEMMA LockIInv ==
    ASSUME IInv, NEW p \in Proc, LockMigrations(p)
    PROVE  IInv'
<1>1. Processes'
  BY DEF IInv, Processes, LockMigrations, LockFree
<1>2. tx'[p].added = {} /\ tx'[p].done = {} /\ tx'[p].adopted = {}
      /\ tx'[p].rows = [n \in BaselineStages |-> Null]
  BY DEF IInv, Processes, LockMigrations
<1>3. BaselineStages \subseteq Migration
  BY FilesOf DEF LockMigrations, Files, IInv, Processes
<1>4. ASSUME NEW n \in BaselineStages
      PROVE  DOMAIN rows = {} /\ Row(schema, Null, n, adopted, Based)
  <2>1. DOMAIN rows = {} /\ n \in Stages /\ Marks(n) \subseteq schema
    BY <1>4 DEF BaselineStages, NeedsBaseline, Stages
  <2>2. Unrecorded(schema, n)
    BY <1>3, <1>4, <2>1 DEF IInv, Committed
  <2> QED BY <1>4, <2>1, <2>2 DEF Unrecorded, Row, Based
<1>5. Schema(p)' = schema /\ Based' = Based
  BY <1>2, BasedFixed DEF Schema, LockMigrations
<1>6. Open(p)'
  <2>1. ASSUME NEW n \in BaselineStages
        PROVE  Row(Schema(p)', Null, n, adopted' \cup tx'[p].adopted, Based)
    BY <1>2, <1>4, <1>5 DEF Row, LockMigrations
  <2>2. rows' = rows /\ schema' = schema
    BY DEF LockMigrations
  <2> QED BY <1>2, <1>3, <1>4, <1>5, <2>1, <2>2 DEF Open
<1> QED
  BY <1>1, <1>6, Elsewhere DEF IInv, Processes, LockMigrations

LEMMA CheckRecordedIInv ==
    ASSUME IInv, NEW p \in Proc, NEW n \in Migration, CheckRecorded(p, n)
    PROVE  IInv'
<1> DEFINE c == Files(p)[n]
           R == tx[p].rows
<1>0. pc[p] = "migrating" /\ Open(p) /\ job[p].release \in Release /\ n \in DOMAIN Files(p)
  BY DEF CheckRecorded, Next1, IInv, Processes
<1>1. Processes'
  BY DEF IInv, Processes, CheckRecorded
<1>2. /\ tx'[p].added = tx[p].added
      /\ tx'[p].rows = With(R, n, c)
      /\ tx'[p].adopted = IF Checksum(p, n) = Null THEN tx[p].adopted \cup {n} ELSE tx[p].adopted
      /\ tx'[p].done = tx[p].done \cup {n}
  BY DEF CheckRecorded, IInv, Processes
<1>3. /\ schema' = schema /\ rows' = rows /\ adopted' = adopted
      /\ baselined' = baselined /\ Based' = Based
      /\ Files(p)' = Files(p) /\ Schema(p)' = Schema(p)
  BY <1>2, BasedFixed DEF CheckRecorded, Files, Schema
<1>4. c \in Content /\ c # Null
  BY <1>0, FilesOf DEF Files
<1>5. Row(Schema(p), c, n, adopted \cup tx'[p].adopted, Based)
  <2>1. Row(Schema(p), Checksum(p, n), n, adopted \cup tx[p].adopted, Based)
    <3>1. CASE n \in DOMAIN R
      BY <1>0, <3>1 DEF Open, Checksum
    <3>2. CASE n \notin DOMAIN R
      <4>1. n \in DOMAIN rows /\ Checksum(p, n) = rows[n]
        BY <3>2 DEF CheckRecorded, Recorded, Checksum
      <4>2. Row(schema, rows[n], n, adopted, baselined)
        BY <4>1 DEF IInv, Committed
      <4>3. Schema(p) \cap ObjectsOf(n) = schema \cap ObjectsOf(n)
        BY <1>0, <3>2 DEF Open
      <4> QED BY <4>1, <4>2, <4>3 DEF Row, Based
    <3> QED BY <3>1, <3>2
  <2>2. Checksum(p, n) = Null \/ Checksum(p, n) = c
    BY DEF CheckRecorded
  <2>3. CASE Checksum(p, n) = Null
    BY <1>2, <2>1, <2>3 DEF Row
  <2>4. CASE Checksum(p, n) = c
    BY <1>2, <1>4, <2>1, <2>4 DEF Row
  <2> QED BY <2>2, <2>3, <2>4
<1>6. n \in DOMAIN rows => rows[n] = Null \/ rows[n] = c
  <2>1. CASE n \in DOMAIN R
    BY <1>0, <1>4, <2>1 DEF CheckRecorded, Checksum, Open
  <2>2. CASE n \notin DOMAIN R
    BY <2>2 DEF CheckRecorded, Checksum
  <2> QED BY <2>1, <2>2
<1>7. ASSUME NEW k \in DOMAIN R, k # n
      PROVE  Row(Schema(p), R[k], k, adopted \cup tx'[p].adopted, Based)
  <2>1. Row(Schema(p), R[k], k, adopted \cup tx[p].adopted, Based)
    BY <1>0, <1>7 DEF Open
  <2> QED BY <1>2, <2>1 DEF Row
<1> HIDE DEF c
<1>8. /\ DOMAIN tx'[p].rows = DOMAIN R \cup {n}
      /\ tx'[p].rows[n] = c
      /\ \A k \in DOMAIN R : k # n => tx'[p].rows[k] = R[k]
  BY <1>2 DEF With
<1>9. Open(p)'
  <2>1. DOMAIN tx'[p].rows \subseteq Migration /\ tx'[p].done \subseteq DOMAIN tx'[p].rows
    BY <1>0, <1>2, <1>8 DEF Open
  <2>2. ASSUME NEW k \in tx'[p].done, k \in DOMAIN Files(p)
        PROVE  tx'[p].rows[k] = Files(p)[k]
    BY <1>0, <1>2, <1>8, <2>2 DEF Open, c
  <2>3. ASSUME NEW k \in DOMAIN tx'[p].rows
        PROVE  /\ tx'[p].rows[k] \in Content \cup {Null}
               /\ Row(Schema(p), tx'[p].rows[k], k, adopted \cup tx'[p].adopted, Based)
               /\ k \in DOMAIN rows => rows[k] = Null \/ rows[k] = tx'[p].rows[k]
    <3>1. CASE k = n
      BY <1>4, <1>5, <1>6, <1>8, <3>1
    <3>2. CASE k # n
      BY <1>0, <1>7, <1>8, <2>3, <3>2 DEF Open
    <3> QED BY <3>1, <3>2
  <2>4. \A k \in Migration \ DOMAIN tx'[p].rows :
           Schema(p) \cap ObjectsOf(k) = schema \cap ObjectsOf(k)
    BY <1>0, <1>8 DEF Open
  <2> QED BY <1>3, <2>1, <2>2, <2>3, <2>4 DEF Open
<1>10. pc' = pc /\ \A q \in Proc : q # p => job'[q] = job[q] /\ tx'[q] = tx[q]
  BY DEF IInv, Processes, CheckRecorded
<1>11. UNCHANGED <<schema, rows, adopted, baselined>> /\ pc'[p] # "serving"
  BY <1>0, <1>3, <1>10
<1>12. \A q \in Proc : q # p => pc'[q] = pc[q] /\ job'[q] = job[q] /\ tx'[q] = tx[q]
  BY <1>10
<1> HIDE DEF R
<1> QED
  BY <1>1, <1>9, <1>11, <1>12, Elsewhere, Zenon

LEMMA RunMigrationIInv ==
    ASSUME IInv, NEW p \in Proc, NEW n \in Migration, RunMigration(p, n)
    PROVE  IInv'
<1> DEFINE c == Files(p)[n]
           R == tx[p].rows
<1>0. pc[p] = "migrating" /\ Open(p) /\ job[p].release \in Release /\ n \in DOMAIN Files(p)
  BY DEF RunMigration, Next1, IInv, Processes
<1>1. Processes'
  BY DEF IInv, Processes, RunMigration
<1>2. /\ tx'[p].added = tx[p].added \cup Creates(n, c)
      /\ tx'[p].rows = With(R, n, c)
      /\ tx'[p].adopted = tx[p].adopted
      /\ tx'[p].done = tx[p].done \cup {n}
  BY DEF RunMigration, IInv, Processes
<1>3. /\ schema' = schema /\ rows' = rows /\ adopted' = adopted
      /\ baselined' = baselined /\ Based' = Based
      /\ Files(p)' = Files(p) /\ Schema(p)' = Schema(p) \cup Creates(n, c)
  BY <1>2, BasedFixed DEF RunMigration, Files, Schema
<1>4. c \in Content /\ c # Null
  BY <1>0, FilesOf DEF Files
<1>5. n \notin DOMAIN rows /\ n \notin DOMAIN R
  BY DEF RunMigration, Recorded
<1>6. Schema(p) \cap ObjectsOf(n) = {}
  <2>1. Schema(p) \cap ObjectsOf(n) = schema \cap ObjectsOf(n)
    BY <1>0, <1>5 DEF Open
  <2>2. CASE DOMAIN rows = {} /\ n \in Stages
    <3>1. Schema(p) \cap Creates(n, c) = {}
      BY <2>2, ReleaseAssumption DEF RunMigration, Runs
    <3>2. schema \cap Marks(n) = {}
      BY <1>4, <2>1, <3>1, CreatesOwn DEF Schema
    <3>3. Unrecorded(schema, n)
      BY <1>5, <2>2 DEF IInv, Committed
    <3> QED BY <2>1, <3>2, <3>3 DEF Unrecorded
  <2>3. CASE ~(DOMAIN rows = {} /\ n \in Stages)
    BY <1>5, <2>1, <2>3 DEF IInv, Committed
  <2> QED BY <2>2, <2>3
<1> HIDE DEF c
<1>7. /\ Schema(p)' \cap ObjectsOf(n) = Creates(n, c)
      /\ \A k : k # n => Schema(p)' \cap ObjectsOf(k) = Schema(p) \cap ObjectsOf(k)
  <2>1. Creates(n, c) \subseteq ObjectsOf(n)
    BY <1>4, CreatesOwn
  <2> QED BY <1>3, <1>6, <2>1, ObjectOwner
<1>8. /\ DOMAIN tx'[p].rows = DOMAIN R \cup {n}
      /\ tx'[p].rows[n] = c
      /\ \A k \in DOMAIN R : k # n => tx'[p].rows[k] = R[k]
  BY <1>2 DEF With
<1>9. Open(p)'
  <2>1. DOMAIN tx'[p].rows \subseteq Migration /\ tx'[p].done \subseteq DOMAIN tx'[p].rows
    BY <1>0, <1>2, <1>8 DEF Open
  <2>2. ASSUME NEW k \in tx'[p].done, k \in DOMAIN Files(p)
        PROVE  tx'[p].rows[k] = Files(p)[k]
    BY <1>0, <1>2, <1>8, <2>2 DEF Open, c
  <2>3. ASSUME NEW k \in DOMAIN tx'[p].rows
        PROVE  /\ tx'[p].rows[k] \in Content \cup {Null}
               /\ Row(Schema(p)', tx'[p].rows[k], k, adopted \cup tx'[p].adopted, Based)
               /\ k \in DOMAIN rows => rows[k] = Null \/ rows[k] = tx'[p].rows[k]
    <3>1. CASE k = n
      BY <1>4, <1>5, <1>7, <1>8, <3>1 DEF Row
    <3>2. CASE k # n
      <4>1. Row(Schema(p), R[k], k, adopted \cup tx[p].adopted, Based)
        BY <1>0, <1>8, <2>3, <3>2 DEF Open
      <4>2. Row(Schema(p)', R[k], k, adopted \cup tx'[p].adopted, Based)
        BY <1>2, <1>7, <3>2, <4>1 DEF Row
      <4> QED BY <1>0, <1>8, <2>3, <3>2, <4>2 DEF Open
    <3> QED BY <3>1, <3>2
  <2>4. \A k \in Migration \ DOMAIN tx'[p].rows :
           Schema(p)' \cap ObjectsOf(k) = schema \cap ObjectsOf(k)
    BY <1>0, <1>7, <1>8 DEF Open
  <2> QED BY <1>3, <2>1, <2>2, <2>3, <2>4 DEF Open
<1>10. pc' = pc /\ \A q \in Proc : q # p => job'[q] = job[q] /\ tx'[q] = tx[q]
  BY DEF IInv, Processes, RunMigration
<1>11. UNCHANGED <<schema, rows, adopted, baselined>> /\ pc'[p] # "serving"
  BY <1>0, <1>3, <1>10
<1>12. \A q \in Proc : q # p => pc'[q] = pc[q] /\ job'[q] = job[q] /\ tx'[q] = tx[q]
  BY <1>10
<1> HIDE DEF R
<1> QED
  BY <1>1, <1>9, <1>11, <1>12, Elsewhere, Zenon

LEMMA CommitIInv ==
    ASSUME IInv, NEW p \in Proc, CommitMigrations(p)
    PROVE  IInv'
<1> DEFINE R == tx[p].rows
<1>0. /\ pc[p] = "migrating" /\ Open(p) /\ job[p].release \in Release
      /\ tx[p].done = DOMAIN Files(p)
  BY DEF CommitMigrations, IInv, Processes
<1>1. Processes'
  BY DEF IInv, Processes, CommitMigrations
<1>2. /\ schema' = Schema(p) /\ adopted' = adopted \cup tx[p].adopted
      /\ baselined' = Based /\ baselined \subseteq Based
      /\ rows' = [n \in Recorded(p) |-> Checksum(p, n)]
      /\ DOMAIN rows' = DOMAIN rows \cup DOMAIN R
  BY DEF CommitMigrations, Recorded, Based
<1>3. \A n \in DOMAIN R : rows'[n] = R[n]
  BY <1>2 DEF Recorded, Checksum
<1>4. \A n \in DOMAIN rows \ DOMAIN R : rows'[n] = rows[n]
  BY <1>2 DEF Recorded, Checksum
<1>5. Stages \subseteq DOMAIN R /\ Stages # {}
  BY <1>0, FilesOf DEF Open, Files, Stages
<1>6. Committed'
  <2>1. DOMAIN rows' \subseteq Migration
    BY <1>0, <1>2 DEF IInv, Committed, Open
  <2>2. ASSUME NEW n \in DOMAIN rows'
        PROVE  rows'[n] \in Content \cup {Null} /\ Row(schema', rows'[n], n, adopted', baselined')
    <3>1. CASE n \in DOMAIN R
      BY <1>0, <1>2, <1>3, <3>1 DEF Open
    <3>2. CASE n \notin DOMAIN R
      <4>1. n \in DOMAIN rows /\ rows'[n] = rows[n] /\ n \in Migration
        BY <1>2, <1>4, <2>1, <2>2, <3>2
      <4>2. rows[n] \in Content \cup {Null} /\ Row(schema, rows[n], n, adopted, baselined)
        BY <4>1 DEF IInv, Committed
      <4>3. schema' \cap ObjectsOf(n) = schema \cap ObjectsOf(n)
        BY <1>0, <1>2, <3>2, <4>1 DEF Open
      <4> QED BY <1>2, <4>1, <4>2, <4>3 DEF Row
    <3> QED BY <3>1, <3>2
  <2>3. ASSUME NEW n \in Migration \ DOMAIN rows' PROVE schema' \cap ObjectsOf(n) = {}
    <3>1. n \notin DOMAIN rows /\ n \notin DOMAIN R /\ n \notin Stages
      BY <1>2, <1>5, <2>3
    <3>2. schema \cap ObjectsOf(n) = {}
      BY <3>1 DEF IInv, Committed
    <3> QED BY <1>0, <1>2, <3>1, <3>2 DEF Open
  <2>4. DOMAIN rows' # {}
    BY <1>2, <1>5
  <2> QED BY <2>1, <2>2, <2>3, <2>4 DEF Committed
<1>7. \A n \in DOMAIN rows : rows'[n] = rows[n] \/ rows[n] = Null
  <2>1. ASSUME NEW n \in DOMAIN rows PROVE rows'[n] = rows[n] \/ rows[n] = Null
    <3>1. CASE n \in DOMAIN R
      BY <1>0, <1>3, <3>1 DEF Open
    <3>2. CASE n \notin DOMAIN R
      BY <1>4, <3>2
    <3> QED BY <3>1, <3>2
  <2> QED BY <2>1
<1>8. ASSUME NEW q \in Proc, pc'[q] = "serving" PROVE Serving(q)'
  <2>1. CASE q # p
    <3>1. pc[q] = "serving" /\ job'[q] = job[q] /\ job[q].release \in Release
      BY <1>8, <2>1 DEF CommitMigrations, IInv, Processes
    <3>2. Serving(q) /\ Files(q)' = Files(q)
      BY <3>1 DEF IInv, Files
    <3>3. \A n \in DOMAIN Files(q) : Files(q)[n] # Null
      BY <3>1, FilesOf DEF Files
    <3> QED BY <1>2, <1>7, <3>2, <3>3 DEF Serving
  <2>2. CASE q = p
    <3>1. job'[q] = job[q]
      BY <1>8, <2>2 DEF CommitMigrations, IInv, Processes
    <3>2. Files(q)' = Files(p)
      BY <2>2, <3>1 DEF Files
    <3>3. \A n \in DOMAIN Files(p) : n \in DOMAIN R /\ R[n] = Files(p)[n]
      BY <1>0 DEF Open
    <3> QED BY <1>2, <1>3, <3>2, <3>3 DEF Serving
  <2> QED BY <2>1, <2>2
<1>9. \A q \in Proc : pc'[q] # "migrating"
  BY <1>0 DEF CommitMigrations, IInv, Processes
<1> QED
  BY <1>1, <1>6, <1>8, <1>9 DEF IInv

LEMMA EndIInv ==
    ASSUME IInv, NEW p \in Proc, Abort(p) \/ Stop(p)
    PROVE  IInv'
<1>1. Processes'
  BY DEF IInv, Processes, Abort, Stop
<1> QED
  BY <1>1, Elsewhere DEF IInv, Processes, Abort, Stop

-----------------------------------------------------------------------------

LEMMA Invariance == Spec => []IInv
<1>1. IInv /\ [Next]_vars => IInv'
  <2> SUFFICES ASSUME IInv, [Next]_vars PROVE IInv'
    OBVIOUS
  <2>1. CASE UNCHANGED vars
    <3>1. Processes' /\ Committed' /\ pc' = pc
      BY <2>1 DEF vars, IInv, Processes, Committed
    <3>2. ASSUME NEW p \in Proc
          PROVE  (Open(p) => Open(p)') /\ (Serving(p) => Serving(p)')
      <4>1. Schema(p)' = Schema(p) /\ Files(p)' = Files(p) /\ Based' = Based
        BY <2>1, BasedFixed DEF vars, Schema, Files
      <4> QED BY <2>1, <4>1 DEF vars, Open, Serving
    <3> QED BY <3>1, <3>2 DEF IInv
  <2>2. ASSUME NEW p \in Proc,
               \/ \E r \in Release, server \in BOOLEAN : Start(p, r, server)
               \/ \E r \in Release : StartVerified(p, r)
               \/ LockMigrations(p)
               \/ \E n \in Migration : CheckRecorded(p, n)
               \/ \E n \in Migration : RunMigration(p, n)
               \/ CommitMigrations(p)
               \/ Abort(p)
               \/ Stop(p)
        PROVE  IInv'
    BY <2>2, StartIInv, StartVerifiedIInv, LockIInv, CheckRecordedIInv,
       RunMigrationIInv, CommitIInv, EndIInv
  <2> QED BY <2>1, <2>2 DEF Next
<1> QED
  BY InitIInv, <1>1, PTL DEF Spec

\* The rows of schema_migrations and the schema never disagree, whatever jobs
\* and servers of whatever releases race, fail or die in ApplyMigrations, except
\* on what the baseline of a database migrated by hand did not look at.
THEOREM RecordIsSchema == Spec => []RecordMatchesSchema
<1>1. IInv => RecordMatchesSchema
  BY DEF IInv, Committed, Row, RecordMatchesSchema
<1> QED
  BY Invariance, <1>1, PTL

\* A server that passed VerifyMigrations, or applied its own migrations,
\* keeps finding all of them in effect, those the baseline recorded at least as
\* far as it looked.
THEOREM ServersFindTheirSchema == Spec => []ServedSchema
<1>1. IInv => ServedSchema
  <2> SUFFICES ASSUME IInv, NEW p \in Proc, pc[p] = "serving", NEW n \in DOMAIN Files(p)
               PROVE  \/ \E c \in Content : /\ Creates(n, c) \subseteq schema
                                            /\ c = Files(p)[n] \/ n \in adopted
                      \/ n \in baselined /\ Marks(n) \subseteq schema
    BY DEF ServedSchema
  <2>1. n \in DOMAIN rows /\ rows[n] = Files(p)[n] /\ Files(p)[n] # Null
    BY FilesOf DEF IInv, Serving, Processes, Files
  <2>2. Row(schema, rows[n], n, adopted, baselined)
    BY <2>1 DEF IInv, Committed
  <2> QED BY <2>1, <2>2 DEF Row
<1> QED
  BY Invariance, <1>1, PTL
=============================================================================
