-------------------------- MODULE ControlPlaneProofs --------------------------
(***************************************************************************)
(* Theorems of the concurrent server, and of the server with the services  *)
(* that charge it, for any number of workloads, keys, leases and           *)
(* concurrent requests.  Each property of ControlPlane needs a stronger,   *)
(* inductive one, which says what the locks protect between the reads of a *)
(* request and its commit:                                                 *)
(*                                                                         *)
(* TypeInv.  That lockLineage finds a root (RootOf is a lease) needs       *)
(*   Forest, the shape parent_lease_id and root_lease_id give the table,   *)
(*   and Forest needs InFlight, what a request refers to.                  *)
(* LineageInv, for LineageRevoked.  The row lock on the parent keeps a     *)
(*   delegation's parent live until the child is inserted (ParentLive);    *)
(*   the advisory lock keeps a revocation and a delegation of one lineage  *)
(*   apart (LineageExclusive), so that the leases the revocation found     *)
(*   when it locked are all of the lineage when it commits (Swept).        *)
(* BudgetInv, for UsesWithinBudget.  What a use read under its row lock is *)
(*   still the row when it commits (UseRead), because nobody else charges  *)
(*   the lease meanwhile (UseExclusive).                                   *)
(* CustodyInv, for DisabledHoldsNothing and the two action properties.     *)
(*   The share locks of CreateLease keep its checks of the workload rows   *)
(*   true and a disable of them out (Vetted), so that the leases a disable *)
(*   found are all there are when it commits (Disabling); a lease locked   *)
(*   for a use is live (UseLive), and so its holder is not disabled,       *)
(*   although the holder's row is not locked.                              *)
(* KeysInv, for KeysExclusive.  Under the advisory lock there is one       *)
(*   rotation at a time (OneRotation), and the key it is about to install  *)
(*   stays free (PendingKey).                                              *)
(* AuditInv, for AuditAccounts.  Rows are inserted live, so revoked_count  *)
(*   counts each revoked lease once.                                       *)
(* GrantedInv, for WithinGrant.  A child is compared with its parent only, *)
(*   so each row, and each row about to be inserted, carries the whole     *)
(*   comparison with the grant of its root, maxDepth included.             *)
(* CallInv, for KeepsBudget.  A served call is charged under its own key   *)
(*   (Served), and an allowed one has been (Paid).                         *)
(***************************************************************************)
EXTENDS LimitedUse, FiniteSetTheorems, TLAPS

-------------------------------------------------------------------------------
(* Types *)

\* Roots name themselves, children share their parent's root, and every lease
\* is reachable from its root.
Forest ==
  \A l \in Rows :
    /\ lease[l].parent = None => lease[l].root = l
    /\ lease[l].parent # None => /\ lease[l].parent \in Rows
                                 /\ lease[l].root = lease[lease[l].parent].root
    /\ lease[l].root \in Rows /\ lease[lease[l].root].parent = None
    /\ l \in Lineage({lease[l].root})

\* A request in flight refers to rows that exist, except for the id it creates.
Refers(t) ==
  /\ t.op \in {"disable", "rotate"} => workload[t.workload].registered
  /\ t.op \in {"revoke", "consume", "use"} => lease[t.lease] # None
  /\ t.op = "create" =>
       /\ lease[t.id] = None
       /\ t.row.parent = None => t.row.root = t.id
       /\ t.row.parent # None => /\ lease[t.row.parent] # None
                                 /\ t.row.root = lease[t.row.parent].root

\* No two requests create the same lease.
OwnId == \A p, q \in Proc :
  tx[p].op = "create" /\ tx[q].op = "create" /\ tx[p].id = tx[q].id => p = q

InFlight == (\A p \in Proc : Refers(tx[p])) /\ OwnId

TypeInv == TypeOK /\ Forest /\ InFlight

-------------------------------------------------------------------------------
(* Lineages *)

LEMMA LineageStart ==
  ASSUME NEW start \in SUBSET LeaseId
  PROVE  start \subseteq Lineage(start) /\ Lineage(start) \subseteq LeaseId
BY DEF Lineage

LEMMA LineageChild ==
  ASSUME NEW start \in SUBSET LeaseId, NEW c \in Rows, lease[c].parent \in Lineage(start)
  PROVE  c \in Lineage(start)
BY DEF Lineage, Rows

\* Lineage(start) is the least set with the two properties above.
LEMMA LineageLeast ==
  ASSUME NEW start, NEW S \in SUBSET LeaseId, start \subseteq S,
         \A c \in Rows : lease[c].parent \in S => c \in S
  PROVE  Lineage(start) \subseteq S
BY DEF Lineage

\* A lineage lies in the table and has one root.
LEMMA LineageRoot ==
  ASSUME TypeOK, Forest, NEW l \in Rows, NEW d \in Lineage({l})
  PROVE  d \in Rows /\ lease[d].root = lease[l].root
<1> DEFINE S == {x \in Rows : lease[x].root = lease[l].root}
<1>1. S \in SUBSET LeaseId /\ {l} \subseteq S
  BY DEF Rows
<1>2. ASSUME NEW c \in Rows, lease[c].parent \in S PROVE c \in S
  <2>1. lease[c].parent # None
    BY <1>1, <1>2, ControlPlaneAssumption
  <2> QED BY <1>2, <2>1 DEF Forest
<1>3. Lineage({l}) \subseteq S
  <2> HIDE DEF S
  <2> QED BY <1>1, <1>2, LineageLeast
<1> QED BY <1>3

\* lockLineage finds the lease that root_lease_id names.
LEMMA RootOfRow ==
  ASSUME TypeOK, Forest, NEW l \in Rows
  PROVE  RootOf(l) = lease[l].root /\ RootOf(l) \in LeaseId
<1>1. lease[l].root \in Rows /\ lease[lease[l].root].parent = None /\ l \in Lineage({lease[l].root})
  BY DEF Forest
<1>2. ASSUME NEW a \in Rows, lease[a].parent = None, l \in Lineage({a})
      PROVE  a = lease[l].root
  BY <1>2, LineageRoot DEF Forest
<1> QED BY <1>1, <1>2 DEF RootOf, Rows

\* Steps that change no parent link change no lineage.
LEMMA LineageSame ==
  ASSUME NEW start,
         \A l \in LeaseId : /\ lease'[l] = None <=> lease[l] = None
                            /\ lease[l] # None => lease'[l].parent = lease[l].parent
  PROVE  Lineage(start)' = Lineage(start) /\ Rows' = Rows
<1>1. Rows' = Rows
  BY DEF Rows
<1>2. \A c \in Rows : lease'[c].parent = lease[c].parent
  BY DEF Rows
<1> QED BY <1>1, <1>2 DEF Lineage

\* A new row joins the lineages its parent is in, and no other.
LEMMA LineageGrows ==
  ASSUME NEW start \in SUBSET LeaseId, NEW id \in LeaseId, NEW row,
         lease[id] = None, row # None,
         lease' = [lease EXCEPT ![id] = row], DOMAIN lease = LeaseId,
         \A c \in Rows : lease[c].parent # id, row.parent # id
  PROVE  /\ Rows' = Rows \union {id}
         /\ Lineage(start) \subseteq Lineage(start)'
         /\ Lineage(start)' \subseteq Lineage(start) \union {id}
         /\ id \in Lineage(start)' => id \in start \/ row.parent \in Lineage(start)
         /\ row.parent \in Lineage(start) => id \in Lineage(start)'
<1>1. Rows' = Rows \union {id} /\ id \notin Rows
  BY DEF Rows
<1>2. (\A c \in Rows : lease'[c] = lease[c]) /\ lease'[id] = row
  BY DEF Rows
<1>3. Lineage(start) \subseteq Lineage(start)'
  BY <1>1, <1>2 DEF Lineage
<1>4. row.parent \in Lineage(start) => id \in Lineage(start)'
  BY <1>1, <1>2, <1>3 DEF Lineage
<1>5. ASSUME NEW S \in SUBSET LeaseId, start \subseteq S,
             \A c \in Rows' : lease'[c].parent \in S => c \in S
      PROVE  Lineage(start)' \subseteq S
  BY <1>5 DEF Lineage
<1> DEFINE T == Lineage(start) \union {id}
           U == IF id \in start \/ row.parent \in Lineage(start) THEN T ELSE Lineage(start)
<1>6. U \in SUBSET LeaseId /\ start \subseteq U
  BY LineageStart
<1>7. ASSUME NEW c \in Rows', lease'[c].parent \in U PROVE c \in U
  <2>1. CASE c = id
    BY <1>2, <1>7, <2>1
  <2>2. CASE c \in Rows
    <3>1. lease[c].parent \in Lineage(start)
      BY <1>2, <1>7, <2>2
    <3> QED BY <2>2, <3>1, LineageChild
  <2> QED BY <1>1, <1>7, <2>1, <2>2
<1>8. Lineage(start)' \subseteq U
  <2> HIDE DEF U
  <2> QED BY <1>5, <1>6, <1>7
<1>9. id \in Lineage(start)' => id \in start \/ row.parent \in Lineage(start)
  <2> SUFFICES ASSUME id \in U, id \notin start, row.parent \notin Lineage(start) PROVE FALSE
    BY <1>8
  <2>1. id \in Lineage(start)
    OBVIOUS
  <2> DEFINE V == LeaseId \ {id}
  <2>2. V \in SUBSET LeaseId /\ start \subseteq V /\ \A c \in Rows : lease[c].parent \in V => c \in V
    BY <1>1 DEF Rows
  <2>3. Lineage(start) \subseteq V
    <3> HIDE DEF V
    <3> QED BY <2>2, LineageLeast
  <2> QED BY <2>1, <2>3
<1> QED BY <1>1, <1>3, <1>4, <1>8, <1>9

-------------------------------------------------------------------------------
(* Types *)

LEMMA TxTypes ==
  ASSUME TypeOK, NEW p \in Proc
  PROVE  /\ tx[p].op = "create" => tx[p] \in CreateTx
         /\ tx[p].op = "revoke" => tx[p] \in RevokeTx
         /\ tx[p].op = "disable" => tx[p] \in DisableTx
         /\ tx[p].op = "rotate" => tx[p] \in RotateTx
         /\ tx[p].op = "consume" => tx[p] \in ConsumeTx
         /\ tx[p].op = "use" => tx[p] \in UseTx
BY DEF TypeOK, Transaction, Idle, CreateTx, RevokeTx, DisableTx, RotateTx, ConsumeTx, UseTx

LEMMA TxSet ==
  ASSUME TypeOK, NEW p \in Proc, NEW t \in Transaction, tx' = [tx EXCEPT ![p] = t]
  PROVE  /\ tx' \in [Proc -> Transaction] /\ tx'[p] = t
         /\ \A q \in Proc : q # p => tx'[q] = tx[q]
BY DEF TypeOK

LEMMA IdleTyped == Idle \in Transaction
BY DEF Transaction

\* A row keeps everything but revoked_at when leases are withdrawn.
LEMMA RevokeEffect ==
  ASSUME TypeOK, NEW targets \in SUBSET LeaseId, Revoke(targets)
  PROVE  /\ lease' \in [LeaseId -> LeaseRow \union {None}] /\ revokedCount' \in Nat
         /\ \A l \in LeaseId : lease'[l] = None <=> lease[l] = None
         /\ \A l \in Rows :
              /\ lease'[l].revoked = (lease[l].revoked \/ l \in targets)
              /\ lease'[l].parent = lease[l].parent /\ lease'[l].root = lease[l].root
              /\ lease'[l].workload = lease[l].workload
              /\ lease'[l].delegatedBy = lease[l].delegatedBy
<1>1. ASSUME NEW row \in LeaseRow PROVE [row EXCEPT !.revoked = TRUE] \in LeaseRow
  BY DEF LeaseRow
<1>2. \A l \in LeaseId : l \in Affected(targets) => lease[l] \in LeaseRow
  BY DEF Affected, Unrevoked, TypeOK
<1>3. lease' \in [LeaseId -> LeaseRow \union {None}]
  BY <1>1, <1>2 DEF Revoke, TypeOK
<1>4. Affected(targets) \subseteq LeaseId /\ IsFiniteSet(LeaseId)
  BY ControlPlaneAssumption DEF Affected, Unrevoked
<1>5. Cardinality(Affected(targets)) \in Nat
  BY <1>4, FS_Subset, FS_CardinalityType
<1>6. revokedCount' \in Nat
  BY <1>5 DEF Revoke, TypeOK
<1>7. \A l \in LeaseId : lease'[l] = None <=> lease[l] = None
  BY <1>1, <1>2, NullAssumption DEF Revoke
<1>8. ASSUME NEW l \in Rows
      PROVE  /\ lease'[l].revoked = (lease[l].revoked \/ l \in targets)
             /\ lease'[l].parent = lease[l].parent /\ lease'[l].root = lease[l].root
             /\ lease'[l].workload = lease[l].workload
             /\ lease'[l].delegatedBy = lease[l].delegatedBy
  <2>1. lease[l] \in LeaseRow /\ l \in LeaseId
    BY DEF Rows, TypeOK
  <2>2. lease[l].revoked \in BOOLEAN
    BY <2>1 DEF LeaseRow
  <2>3. l \in Affected(targets) <=> l \in targets /\ ~lease[l].revoked
    BY <2>1 DEF Affected, Unrevoked, Rows
  <2>4. CASE l \in Affected(targets)
    <3>1. lease'[l] = [lease[l] EXCEPT !.revoked = TRUE]
      BY <2>1, <2>4 DEF Revoke
    <3> QED BY <2>1, <2>2, <2>3, <2>4, <3>1 DEF LeaseRow
  <2>5. CASE l \notin Affected(targets)
    <3>1. lease'[l] = lease[l]
      BY <2>1, <2>5 DEF Revoke
    <3> QED BY <2>2, <2>3, <2>5, <3>1
  <2> QED BY <2>4, <2>5
<1> QED BY <1>3, <1>6, <1>7, <1>8

\* Steps that keep every row's existence, parent and root.
SameShape ==
  \A l \in LeaseId : /\ lease'[l] = None <=> lease[l] = None
                     /\ lease[l] # None => /\ lease'[l].parent = lease[l].parent
                                           /\ lease'[l].root = lease[l].root

LEMMA ForestKept ==
  ASSUME TypeOK, Forest, SameShape
  PROVE  Forest'
<1>1. Rows' = Rows
  BY DEF SameShape, Rows
<1>2. \A l \in Rows : /\ lease'[l].parent = lease[l].parent /\ lease'[l].root = lease[l].root
                      /\ l \in LeaseId
  BY DEF SameShape, Rows
<1>3. ASSUME NEW l \in Rows PROVE (l \in Lineage({lease[l].root}))'
  <2>1. l \in Lineage({lease[l].root})
    BY DEF Forest
  <2> QED BY <1>1, <1>2, <2>1 DEF Lineage
<1>4. ASSUME NEW l \in Rows
      PROVE  /\ lease'[l].parent = None => lease'[l].root = l
             /\ lease'[l].parent # None => /\ lease'[l].parent \in Rows
                                           /\ lease'[l].root = lease'[lease'[l].parent].root
             /\ lease'[l].root \in Rows /\ lease'[lease'[l].root].parent = None
  <2>1. lease[l].root \in Rows /\ lease[lease[l].root].parent = None
    BY DEF Forest
  <2>2. lease[l].parent = None => lease[l].root = l
    BY DEF Forest
  <2>3. lease[l].parent # None => /\ lease[l].parent \in Rows
                                  /\ lease[l].root = lease[lease[l].parent].root
    BY DEF Forest
  <2> QED BY <1>2, <2>1, <2>2, <2>3
<1> QED BY <1>1, <1>3, <1>4 DEF Forest

LEMMA RefersKept ==
  ASSUME TypeOK, SameShape, \A w \in Workload : workload[w].registered => workload'[w].registered,
         NEW p \in Proc, Refers(tx[p])
  PROVE  Refers(tx[p])'  \/ tx'[p] # tx[p]
<1> SUFFICES ASSUME tx'[p] = tx[p] PROVE Refers(tx[p])'
  OBVIOUS
<1>1. CASE tx[p].op \in {"disable", "rotate"}
  BY <1>1, TxTypes DEF Refers, DisableTx, RotateTx
<1>2. CASE tx[p].op \in {"revoke", "consume", "use"}
  BY <1>2, TxTypes DEF Refers, RevokeTx, ConsumeTx, UseTx, SameShape
<1>3. CASE tx[p].op = "create"
  BY <1>3, TxTypes DEF Refers, CreateTx, LeaseRow, SameShape
<1> QED BY <1>1, <1>2, <1>3 DEF Refers

LEMMA IdleRefers == Refers(Idle)'
BY DEF Refers, Idle

\* A step in which requests only end.
LEMMA InFlightEnds ==
  ASSUME TypeOK, InFlight, SameShape,
         \A w \in Workload : workload[w].registered => workload'[w].registered,
         \A p \in Proc : tx'[p] = tx[p] \/ tx'[p] = Idle
  PROVE  InFlight'
<1>1. ASSUME NEW p \in Proc PROVE Refers(tx[p])'
  BY <1>1, RefersKept, IdleRefers DEF InFlight
<1>2. OwnId'
  BY DEF InFlight, OwnId, Idle
<1> QED BY <1>1, <1>2 DEF InFlight

\* A step in which one request takes or changes its transaction t.
LEMMA InFlightBegins ==
  ASSUME TypeOK, InFlight, UNCHANGED <<lease, workload>>, NEW p \in Proc, NEW t \in Transaction,
         tx' = [tx EXCEPT ![p] = t], Refers(t),
         t.op = "create" => \A q \in Proc : q # p /\ tx[q].op = "create" => tx[q].id # t.id
  PROVE  InFlight' /\ tx' \in [Proc -> Transaction]
<1>1. /\ tx' \in [Proc -> Transaction] /\ tx'[p] = t
      /\ \A q \in Proc : q # p => tx'[q] = tx[q]
  BY TxSet
<1>2. ASSUME NEW q \in Proc PROVE Refers(tx[q])'
  BY <1>1 DEF Refers, InFlight
<1>3. OwnId'
  BY <1>1 DEF OwnId, InFlight
<1> QED BY <1>1, <1>2, <1>3 DEF InFlight

-------------------------------------------------------------------------------
(* TypeInv is inductive, action by action *)

LEMMA TypeInit == Init => TypeInv
<1> SUFFICES ASSUME Init PROVE TypeInv
  OBVIOUS
<1>1. \A w \in Workload : /\ workload[w] \in WorkloadRow
                          /\ workload[w].registered => workload[w].publicKey \in Key
                          /\ workload[w].previousKey = None /\ workload[w].previousExpires = 0
  BY ControlPlaneAssumption DEF Init, WorkloadRow, Unregistered
<1>2. TypeOK
  BY <1>1, IdleTyped DEF Init, TypeOK
<1>3. Rows = {}
  BY DEF Init, Rows
<1>4. Forest
  BY <1>3 DEF Forest
<1>5. InFlight
  BY DEF Init, InFlight, OwnId, Refers, Idle
<1> QED BY <1>2, <1>4, <1>5 DEF TypeInv

\* Steps that only begin, continue or end transactions.
LEMMA TypeBegins ==
  ASSUME TypeInv, UNCHANGED <<clock, workload, lease, consumption, audit, revokedCount>>,
         NEW p \in Proc, NEW t \in Transaction, tx' = [tx EXCEPT ![p] = t], Refers(t),
         t.op = "create" => \A q \in Proc : q # p /\ tx[q].op = "create" => tx[q].id # t.id
  PROVE  TypeInv'
<1>1. InFlight' /\ tx' \in [Proc -> Transaction]
  BY InFlightBegins DEF TypeInv
<1>2. Forest'
  BY ForestKept DEF TypeInv, SameShape
<1>3. TypeOK'
  BY <1>1 DEF TypeInv, TypeOK
<1> QED BY <1>1, <1>2, <1>3 DEF TypeInv

LEMMA AuditRows ==
  /\ \A w \in Workload : \A e \in {"workload.registered", "workload.disabled", "workload.key_rotated"} :
       <<e, w>> \in AuditRow
  /\ \A l \in LeaseId : \A e \in {"lease.root_minted", "lease.delegated", "lease.lineage_revoked"} :
       <<e, l>> \in AuditRow
BY DEF AuditRow

LEMMA TypeRegister ==
  ASSUME TypeInv, NEW w \in Workload, NEW k \in Key, NEW now, RegisterWorkload(w, k, now)
  PROVE  TypeInv'
<1> DEFINE row == [Unregistered EXCEPT !.registered = TRUE, !.publicKey = k]
<1>1. /\ row \in WorkloadRow /\ row.registered /\ row.publicKey \in Key
      /\ row.previousKey = None /\ row.previousExpires = 0
  BY DEF Unregistered, WorkloadRow
<1>2. workload' = [workload EXCEPT ![w] = row]
  BY DEF RegisterWorkload
<1>3. TypeOK'
  <2> HIDE DEF row
  <2>1. workload' \in [Workload -> WorkloadRow]
    BY <1>1, <1>2 DEF TypeInv, TypeOK
  <2>2. \A v \in Workload : /\ workload'[v].registered => workload'[v].publicKey \in Key
                            /\ workload'[v].previousKey = None <=> workload'[v].previousExpires = 0
    BY <1>1, <1>2 DEF TypeInv, TypeOK
  <2>3. audit' \subseteq AuditRow
    BY AuditRows DEF RegisterWorkload, TypeInv, TypeOK
  <2> QED BY <2>1, <2>2, <2>3 DEF TypeInv, TypeOK, RegisterWorkload
<1>4. SameShape /\ \A v \in Workload : workload[v].registered => workload'[v].registered
  BY <1>1, <1>2 DEF SameShape, RegisterWorkload, TypeInv, TypeOK
<1> QED BY <1>3, <1>4, ForestKept, InFlightEnds DEF TypeInv, RegisterWorkload

LEMMA LineageTargets ==
  ASSUME NEW start \in SUBSET LeaseId
  PROVE  Unrevoked(Lineage(start)) \in SUBSET LeaseId
BY LineageStart DEF Unrevoked

LEMMA HeldByTyped ==
  ASSUME NEW w
  PROVE  HeldBy(w) \in SUBSET LeaseId
BY DEF HeldBy, Rows

LEMMA TypeDisableLock ==
  ASSUME TypeInv, NEW p \in Proc, NEW w \in Workload, DisableWorkloadLock(p, w)
  PROVE  TypeInv'
<1> DEFINE t == [op |-> "disable", workload |-> w, targets |-> Unrevoked(Lineage(HeldBy(w)))]
<1>1. t \in Transaction /\ t.op = "disable"
  BY LineageTargets, HeldByTyped DEF DisableTx, Transaction
<1>2. Refers(t)
  BY DEF Refers, DisableWorkloadLock
<1>3. tx' = [tx EXCEPT ![p] = t] /\ UNCHANGED <<clock, workload, lease, consumption, audit, revokedCount>>
  BY DEF DisableWorkloadLock
<1> HIDE DEF t
<1> QED BY <1>1, <1>2, <1>3, TypeBegins

LEMMA TypeRotateLock ==
  ASSUME TypeInv, NEW p \in Proc, NEW w \in Workload, NEW k \in Key, NEW overlap \in Overlap,
         NEW revokeOutstanding \in BOOLEAN, NEW now \in RequestTime,
         RotateWorkloadKeyLock(p, w, k, overlap, revokeOutstanding, now)
  PROVE  TypeInv'
<1> DEFINE targets == IF revokeOutstanding THEN Unrevoked(Lineage(HeldBy(w))) ELSE {}
           t == [op |-> "rotate", workload |-> w, publicKey |-> k, overlap |-> overlap,
                 rotatedAt |-> now, targets |-> targets]
<1>1. targets \in SUBSET LeaseId
  BY LineageTargets, HeldByTyped
<1>2. now \in Nat /\ overlap \in Nat
  BY ControlPlaneAssumption DEF RequestTime, TypeInv, TypeOK
<1>3. tx' = [tx EXCEPT ![p] = t] /\ UNCHANGED <<clock, workload, lease, consumption, audit, revokedCount>>
  BY DEF RotateWorkloadKeyLock
<1> HIDE DEF targets
<1>4. t \in Transaction /\ t.op = "rotate"
  BY <1>1, <1>2 DEF RotateTx, Transaction
<1>5. Refers(t)
  BY DEF Refers, RotateWorkloadKeyLock
<1> HIDE DEF t
<1> QED BY <1>3, <1>4, <1>5, TypeBegins

LEMMA TypeRevokeLock ==
  ASSUME TypeInv, NEW p \in Proc, NEW l \in LeaseId, RevokeLeaseLineageLock(p, l)
  PROVE  TypeInv'
<1> DEFINE t == [op |-> "revoke", lease |-> l, root |-> RootOf(l), targets |-> Unrevoked(Lineage({l}))]
<1>1. l \in Rows
  BY DEF RevokeLeaseLineageLock, Rows
<1>2. RootOf(l) \in LeaseId /\ Unrevoked(Lineage({l})) \in SUBSET LeaseId
  BY <1>1, RootOfRow, LineageTargets DEF TypeInv
<1>3. t \in Transaction /\ t.op = "revoke"
  BY <1>2 DEF RevokeTx, Transaction
<1>4. Refers(t)
  BY DEF Refers, RevokeLeaseLineageLock
<1>5. tx' = [tx EXCEPT ![p] = t] /\ UNCHANGED <<clock, workload, lease, consumption, audit, revokedCount>>
  BY DEF RevokeLeaseLineageLock
<1> HIDE DEF t
<1> QED BY <1>3, <1>4, <1>5, TypeBegins

LEMMA TypeMint ==
  ASSUME TypeInv, NEW p \in Proc, NEW w \in Workload, NEW k \in Key, NEW audience \in Audience,
         NEW r \in MintRequest, MintRootLease(p, w, k, audience, r)
  PROVE  TypeInv'
<1>1. PICK id \in LeaseId :
        /\ Fresh(id)
        /\ Prepare(p, id, k,
             [workload |-> w, rootWorkload |-> w, parent |-> None, root |-> id,
              delegatedBy |-> None, audience |-> audience, issuedAt |-> clock,
              authority |-> RootContext(r, clock + r.ttl),
              confirmation |-> Confirmation(r, Grant[w].requirePoP, workload[w]),
              revoked |-> FALSE, usesConsumed |-> 0])
  BY DEF MintRootLease
<1> DEFINE row == [workload |-> w, rootWorkload |-> w, parent |-> None, root |-> id,
              delegatedBy |-> None, audience |-> audience, issuedAt |-> clock,
              authority |-> RootContext(r, clock + r.ttl),
              confirmation |-> Confirmation(r, Grant[w].requirePoP, workload[w]),
              revoked |-> FALSE, usesConsumed |-> 0]
           t == [op |-> "create", pc |-> "prepared", id |-> id, key |-> k, root |-> None, row |-> row]
<1>2. RootContext(r, clock + r.ttl) \in Context
  BY RequestsAssumption DEF RootContext, Context, TypeInv, TypeOK
<1>3. Confirmation(r, Grant[w].requirePoP, workload[w]) \in Key \union {None}
  BY DEF Confirmation, TypeInv, TypeOK, WorkloadRow
<1>4. row \in LeaseRow
  BY <1>2, <1>3 DEF LeaseRow, TypeInv, TypeOK
<1>5. row.parent = None /\ row.root = id
  OBVIOUS
<1>6. tx' = [tx EXCEPT ![p] = t]
  BY <1>1 DEF Prepare
<1> HIDE DEF row
<1>7. t \in Transaction /\ t.op = "create" /\ t.id = id
  BY <1>4 DEF CreateTx, Transaction
<1>8. Refers(t)
  BY <1>1, <1>5 DEF Refers, Fresh
<1>9. \A q \in Proc : q # p /\ tx[q].op = "create" => tx[q].id # t.id
  BY <1>1 DEF Fresh
<1>10. UNCHANGED <<clock, workload, lease, consumption, audit, revokedCount>>
  BY DEF MintRootLease
<1> HIDE DEF t
<1> QED BY <1>6, <1>7, <1>8, <1>9, <1>10, TypeBegins

LEMMA TypeDelegate ==
  ASSUME TypeInv, NEW p \in Proc, NEW parentId \in LeaseId, NEW to \in Workload, NEW k \in Key,
         NEW r \in DelegateRequest, DelegateLease(p, parentId, to, k, r)
  PROVE  TypeInv'
<1> DEFINE parent == lease[parentId]
           child(id) == [workload |-> to, rootWorkload |-> parent.rootWorkload, parent |-> parentId,
              root |-> parent.root, delegatedBy |-> parent.workload, audience |-> parent.audience,
              issuedAt |-> clock, authority |-> ChildContext(parent.authority, r, clock + r.ttl),
              confirmation |-> Confirmation(r, parent.confirmation # None, workload[to]),
              revoked |-> FALSE, usesConsumed |-> 0]
<1>1. PICK id \in LeaseId : Fresh(id) /\ Prepare(p, id, k, child(id))
  BY DEF DelegateLease
<1> DEFINE row == child(id)
           t == [op |-> "create", pc |-> "prepared", id |-> id, key |-> k, root |-> None, row |-> row]
<1>2. parent \in LeaseRow /\ parent # None
  BY DEF DelegateLease, TypeInv, TypeOK
<1>3. parent.authority \in Context
  BY <1>2 DEF LeaseRow
<1>4. ChildContext(parent.authority, r, clock + r.ttl) \in Context
  <2> HIDE DEF parent
  <2> QED BY <1>3, RequestsAssumption DEF ChildContext, Context, TypeInv, TypeOK
<1>5. Confirmation(r, parent.confirmation # None, workload[to]) \in Key \union {None}
  BY DEF Confirmation, TypeInv, TypeOK, WorkloadRow
<1>6. row \in LeaseRow
  <2> HIDE DEF parent
  <2> QED BY <1>2, <1>4, <1>5 DEF LeaseRow, TypeInv, TypeOK
<1>7. row.parent = parentId /\ row.root = lease[parentId].root
  OBVIOUS
<1>8. tx' = [tx EXCEPT ![p] = t]
  BY <1>1 DEF Prepare
<1> HIDE DEF row
<1>9. t \in Transaction /\ t.op = "create" /\ t.id = id
  BY <1>6 DEF CreateTx, Transaction
<1>10. Refers(t)
  BY <1>1, <1>2, <1>7, ControlPlaneAssumption DEF Refers, Fresh
<1>11. \A q \in Proc : q # p /\ tx[q].op = "create" => tx[q].id # t.id
  BY <1>1 DEF Fresh
<1>12. UNCHANGED <<clock, workload, lease, consumption, audit, revokedCount>>
  BY DEF DelegateLease
<1> HIDE DEF t
<1> QED BY <1>8, <1>9, <1>10, <1>11, <1>12, TypeBegins

\* The transaction after CreateLeaseLock differs in pc and root only.
LEMMA CreateLockEffect ==
  ASSUME TypeInv, NEW p \in Proc, CreateLeaseLock(p)
  PROVE  /\ tx[p] \in CreateTx /\ tx'[p] \in CreateTx
         /\ tx'[p].id = tx[p].id /\ tx'[p].row = tx[p].row /\ tx'[p].key = tx[p].key
         /\ tx'[p].pc = "locked"
         /\ tx[p].row.parent # None => tx'[p].root = lease[tx[p].row.parent].root
         /\ tx[p].row.parent = None => tx'[p].root = tx[p].root
         /\ tx' = [tx EXCEPT ![p] = tx'[p]]
<1>1. tx[p] \in CreateTx /\ tx \in [Proc -> Transaction]
  BY TxTypes DEF CreateLeaseLock, TypeInv, TypeOK
<1>2. CASE tx[p].row.parent = None
  <2>1. tx' = [tx EXCEPT ![p].pc = "locked"]
    BY <1>2 DEF CreateLeaseLock
  <2> QED BY <1>1, <1>2, <2>1 DEF CreateTx
<1>3. CASE tx[p].row.parent # None
  <2>1. tx' = [tx EXCEPT ![p].pc = "locked", ![p].root = RootOf(tx[p].row.parent)]
    BY <1>3 DEF CreateLeaseLock
  <2>2. tx[p].row.parent \in Rows
    BY <1>1, <1>3 DEF TypeInv, InFlight, Refers, CreateTx, LeaseRow, Rows
  <2>3. RootOf(tx[p].row.parent) = lease[tx[p].row.parent].root /\ RootOf(tx[p].row.parent) \in LeaseId
    BY <2>2, RootOfRow DEF TypeInv
  <2> QED BY <1>1, <1>3, <2>1, <2>3 DEF CreateTx
<1> QED BY <1>2, <1>3

LEMMA TypeCreateLock ==
  ASSUME TypeInv, NEW p \in Proc, CreateLeaseLock(p)
  PROVE  TypeInv'
<1> DEFINE t == tx'[p]
<1>1. /\ tx[p] \in CreateTx /\ t \in CreateTx /\ t.id = tx[p].id /\ t.row = tx[p].row
      /\ tx' = [tx EXCEPT ![p] = t]
  BY CreateLockEffect
<1>2. t \in Transaction /\ t.op = "create" /\ tx[p].op = "create"
  BY <1>1 DEF Transaction, CreateTx
<1>3. Refers(t)
  BY <1>1, <1>2 DEF Refers, TypeInv, InFlight
<1>4. \A q \in Proc : q # p /\ tx[q].op = "create" => tx[q].id # t.id
  BY <1>1, <1>2 DEF TypeInv, InFlight, OwnId
<1>5. UNCHANGED <<clock, workload, lease, consumption, audit, revokedCount>>
  BY DEF CreateLeaseLock
<1> HIDE DEF t
<1> QED BY <1>1, <1>2, <1>3, <1>4, <1>5, TypeBegins

LEMMA TypeConsume ==
  ASSUME TypeInv, NEW p \in Proc, NEW l \in LeaseId, NEW k \in IdempotencyKey, ConsumeLease(p, l, k)
  PROVE  TypeInv'
<1> DEFINE t == [op |-> "consume", lease |-> l, key |-> k, consumedAt |-> clock,
                 holderDisabled |-> workload[lease[l].workload].disabled]
<1>1. lease[l] \in LeaseRow /\ lease[l] # None
  BY DEF ConsumeLease, TypeInv, TypeOK
<1>2. workload[lease[l].workload].disabled \in BOOLEAN
  BY <1>1 DEF LeaseRow, WorkloadRow, TypeInv, TypeOK
<1>3. t \in Transaction /\ t.op = "consume" /\ t.lease = l
  BY <1>2 DEF ConsumeTx, Transaction, TypeInv, TypeOK
<1>4. tx' = [tx EXCEPT ![p] = t] /\ UNCHANGED <<clock, workload, lease, consumption, audit, revokedCount>>
  BY DEF ConsumeLease
<1> HIDE DEF t
<1>5. Refers(t)
  BY <1>1, <1>3 DEF Refers
<1> QED BY <1>3, <1>4, <1>5, TypeBegins

LEMMA TypeUseLock ==
  ASSUME TypeInv, NEW p \in Proc, ConsumeLeaseUseLock(p)
  PROVE  TypeInv'
<1> DEFINE l == tx[p].lease
           t == [op |-> "use", lease |-> l, key |-> tx[p].key,
                 maxUses |-> lease[l].authority.maxUses, usesConsumed |-> lease[l].usesConsumed]
<1>1. tx[p] \in ConsumeTx /\ lease[l] # None
  BY TxTypes DEF ConsumeLeaseUseLock, TypeInv, InFlight, Refers
<1>2. l \in LeaseId /\ tx[p].key \in IdempotencyKey
  BY <1>1 DEF ConsumeTx
<1>3. lease[l] \in LeaseRow
  BY <1>1, <1>2 DEF TypeInv, TypeOK
<1>4. lease[l].authority.maxUses \in Nat /\ lease[l].usesConsumed \in Nat
  BY <1>3 DEF LeaseRow, Context, ConsumeLeaseUseLock
<1>5. tx' = [tx EXCEPT ![p] = t] /\ UNCHANGED <<clock, workload, lease, consumption, audit, revokedCount>>
  BY DEF ConsumeLeaseUseLock
<1>6. t \in Transaction /\ t.op = "use" /\ t.lease = l
  <2> HIDE DEF l
  <2> QED BY <1>2, <1>4 DEF UseTx, Transaction
<1> HIDE DEF t
<1>7. Refers(t)
  BY <1>1, <1>6 DEF Refers
<1> QED BY <1>5, <1>6, <1>7, TypeBegins

LEMMA TypeRollback ==
  ASSUME TypeInv, NEW p \in Proc, Rollback(p)
  PROVE  TypeInv'
<1>1. Refers(Idle) /\ Idle.op # "create"
  BY DEF Refers, Idle
<1> QED BY <1>1, IdleTyped, TypeBegins DEF Rollback

LEMMA TypeTick ==
  ASSUME TypeInv, Tick
  PROVE  TypeInv'
<1>1. TypeOK'
  BY DEF Tick, TypeInv, TypeOK
<1>2. SameShape /\ UNCHANGED <<workload, tx>>
  BY DEF Tick, SameShape
<1> QED BY <1>1, <1>2, ForestKept, InFlightEnds DEF TypeInv

\* Committing a withdrawal: disable, rotate or revoke.
LEMMA TypeWithdraw ==
  ASSUME TypeInv, NEW p \in Proc, NEW targets \in SUBSET LeaseId, Revoke(targets),
         tx' = [tx EXCEPT ![p] = Idle], UNCHANGED <<clock, consumption>>, audit' \subseteq AuditRow,
         workload' \in [Workload -> WorkloadRow],
         \A w \in Workload : /\ workload[w].registered => workload'[w].registered
                             /\ workload'[w].registered => workload'[w].publicKey \in Key
                             /\ workload'[w].previousKey = None <=> workload'[w].previousExpires = 0
  PROVE  TypeInv'
<1>1. SameShape
  BY RevokeEffect DEF SameShape, TypeInv, Rows
<1>2. /\ tx' \in [Proc -> Transaction]
      /\ \A q \in Proc : tx'[q] = tx[q] \/ tx'[q] = Idle
  BY IdleTyped, TxSet DEF TypeInv
<1>3. lease' \in [LeaseId -> LeaseRow \union {None}] /\ revokedCount' \in Nat
  BY RevokeEffect DEF TypeInv
<1>4. TypeOK'
  BY <1>2, <1>3 DEF TypeInv, TypeOK
<1> QED BY <1>1, <1>2, <1>4, ForestKept, InFlightEnds DEF TypeInv

LEMMA TypeRevokeCommit ==
  ASSUME TypeInv, NEW p \in Proc, RevokeLeaseLineageCommit(p)
  PROVE  TypeInv'
<1>1. tx[p] \in RevokeTx
  BY TxTypes DEF RevokeLeaseLineageCommit, TypeInv
<1>2. tx[p].targets \in SUBSET LeaseId /\ tx[p].lease \in LeaseId
  BY <1>1 DEF RevokeTx
<1>3. audit' \subseteq AuditRow
  BY <1>2, AuditRows DEF RevokeLeaseLineageCommit, TypeInv, TypeOK
<1>4. /\ Revoke(tx[p].targets) /\ tx' = [tx EXCEPT ![p] = Idle]
      /\ UNCHANGED <<clock, workload, consumption>>
  BY DEF RevokeLeaseLineageCommit
<1>5. workload' \in [Workload -> WorkloadRow]
  BY <1>4 DEF TypeInv, TypeOK
<1>6. \A w \in Workload : /\ workload[w].registered => workload'[w].registered
                          /\ workload'[w].registered => workload'[w].publicKey \in Key
                          /\ workload'[w].previousKey = None <=> workload'[w].previousExpires = 0
  BY <1>4 DEF TypeInv, TypeOK
<1> QED BY <1>2, <1>3, <1>4, <1>5, <1>6, TypeWithdraw

LEMMA TypeDisableCommit ==
  ASSUME TypeInv, NEW p \in Proc, DisableWorkloadCommit(p)
  PROVE  TypeInv'
<1>1. tx[p] \in DisableTx
  BY TxTypes DEF DisableWorkloadCommit, TypeInv
<1>2. tx[p].targets \in SUBSET LeaseId /\ tx[p].workload \in Workload
  BY <1>1 DEF DisableTx
<1>3. audit' \subseteq AuditRow
  BY <1>2, AuditRows DEF DisableWorkloadCommit, TypeInv, TypeOK
<1>4. /\ Revoke(tx[p].targets) /\ tx' = [tx EXCEPT ![p] = Idle] /\ UNCHANGED <<clock, consumption>>
      /\ workload' = [workload EXCEPT ![tx[p].workload].disabled = TRUE]
  BY DEF DisableWorkloadCommit
<1>5. /\ workload' \in [Workload -> WorkloadRow]
      /\ \A w \in Workload : /\ workload'[w].registered = workload[w].registered
                              /\ workload'[w].publicKey = workload[w].publicKey
                              /\ workload'[w].previousKey = workload[w].previousKey
                              /\ workload'[w].previousExpires = workload[w].previousExpires
  BY <1>2, <1>4 DEF TypeInv, TypeOK, WorkloadRow
<1>6. \A w \in Workload : /\ workload[w].registered => workload'[w].registered
                          /\ workload'[w].registered => workload'[w].publicKey \in Key
                          /\ workload'[w].previousKey = None <=> workload'[w].previousExpires = 0
  BY <1>5 DEF TypeInv, TypeOK
<1> QED BY <1>2, <1>3, <1>4, <1>5, <1>6, TypeWithdraw

LEMMA TypeRotateCommit ==
  ASSUME TypeInv, NEW p \in Proc, RotateWorkloadKeyCommit(p)
  PROVE  TypeInv'
<1> DEFINE w == tx[p].workload
           row == RotatedRow(workload[w], tx[p])
<1>1. tx[p] \in RotateTx
  BY TxTypes DEF RotateWorkloadKeyCommit, TypeInv
<1>2. /\ tx[p].targets \in SUBSET LeaseId /\ w \in Workload /\ tx[p].publicKey \in Key
      /\ tx[p].overlap \in Nat /\ tx[p].rotatedAt \in Nat
  BY <1>1 DEF RotateTx
<1>3. audit' \subseteq AuditRow
  BY <1>2, AuditRows DEF RotateWorkloadKeyCommit, TypeInv, TypeOK
<1>4. /\ Revoke(tx[p].targets) /\ tx' = [tx EXCEPT ![p] = Idle] /\ UNCHANGED <<clock, consumption>>
      /\ workload' = [workload EXCEPT ![w] = row]
  BY DEF RotateWorkloadKeyCommit
<1>5. workload[w] \in WorkloadRow /\ workload[w].registered /\ workload[w].publicKey \in Key
  BY <1>2, <1>1 DEF TypeInv, TypeOK, InFlight, Refers, RotateTx
<1>6. /\ row \in WorkloadRow /\ row.registered /\ row.publicKey \in Key
      /\ row.previousKey = None <=> row.previousExpires = 0
  <2> HIDE DEF w
  <2>1. /\ row.registered = workload[w].registered /\ row.publicKey = tx[p].publicKey
        /\ row.previousKey = IF tx[p].overlap > 0 THEN workload[w].publicKey ELSE None
        /\ row.previousExpires = IF tx[p].overlap > 0 THEN tx[p].rotatedAt + tx[p].overlap ELSE 0
    BY <1>5 DEF RotatedRow, WorkloadRow
  <2>2. workload[w].publicKey # None
    BY <1>5, ControlPlaneAssumption
  <2>3. row \in WorkloadRow
    <3>1. row = [workload[w] EXCEPT !.publicKey = row.publicKey, !.previousKey = row.previousKey,
                                    !.previousExpires = row.previousExpires]
      BY <1>5 DEF RotatedRow, WorkloadRow
    <3>2. /\ row.publicKey \in Key \union {None} /\ row.previousKey \in Key \union {None}
          /\ row.previousExpires \in Nat
      <4> HIDE DEF row
      <4> QED BY <1>2, <1>5, <2>1
    <3> HIDE DEF row
    <3> QED BY <1>5, <3>1, <3>2 DEF WorkloadRow
  <2>4. row.previousKey = None <=> row.previousExpires = 0
    <3> HIDE DEF row
    <3> QED BY <1>2, <2>1, <2>2
  <2> HIDE DEF row
  <2> QED BY <1>2, <1>5, <2>1, <2>3, <2>4
<1> HIDE DEF row
<1>7. workload' \in [Workload -> WorkloadRow]
  BY <1>2, <1>4, <1>6 DEF TypeInv, TypeOK
<1>8. \A v \in Workload : /\ workload[v].registered => workload'[v].registered
                          /\ workload'[v].registered => workload'[v].publicKey \in Key
                          /\ workload'[v].previousKey = None <=> workload'[v].previousExpires = 0
  BY <1>2, <1>4, <1>6 DEF TypeInv, TypeOK
<1> HIDE DEF w
<1> QED BY <1>2, <1>3, <1>4, <1>7, <1>8, TypeWithdraw

\* What CreateLeaseCommit inserts.
LEMMA CreateCommitEffect ==
  ASSUME TypeInv, NEW p \in Proc, CreateLeaseCommit(p)
  PROVE  /\ tx[p] \in CreateTx /\ tx[p].id \in LeaseId /\ tx[p].row \in LeaseRow
         /\ tx[p].row # None /\ lease[tx[p].id] = None
         /\ lease' = [lease EXCEPT ![tx[p].id] = tx[p].row] /\ DOMAIN lease = LeaseId
         /\ tx' = [tx EXCEPT ![p] = Idle]
         /\ \A c \in Rows : lease[c].parent # tx[p].id
         /\ tx[p].row.parent # tx[p].id
         /\ tx[p].row.parent = None => tx[p].row.root = tx[p].id
         /\ tx[p].row.parent # None => /\ tx[p].row.parent \in Rows
                                       /\ tx[p].row.root = lease[tx[p].row.parent].root
<1>1. tx[p] \in CreateTx /\ tx[p].op = "create"
  BY TxTypes DEF CreateLeaseCommit, CreateLocked, TypeInv
<1>2. tx[p].id \in LeaseId /\ tx[p].row \in LeaseRow /\ tx[p].row # None
  BY <1>1, NullAssumption DEF CreateTx
<1>3. tx[p].row.parent \in LeaseId \union {None}
  BY <1>2 DEF LeaseRow
<1>4. /\ lease[tx[p].id] = None
      /\ tx[p].row.parent = None => tx[p].row.root = tx[p].id
      /\ tx[p].row.parent # None => /\ lease[tx[p].row.parent] # None
                                    /\ tx[p].row.root = lease[tx[p].row.parent].root
  BY <1>1 DEF TypeInv, InFlight, Refers
<1>5. \A c \in Rows : lease[c].parent # tx[p].id
  BY <1>2, <1>4, ControlPlaneAssumption DEF TypeInv, Forest, Rows
<1>6. tx[p].row.parent # tx[p].id
  BY <1>2, <1>4, ControlPlaneAssumption
<1>7. /\ lease' = [lease EXCEPT ![tx[p].id] = tx[p].row] /\ DOMAIN lease = LeaseId
      /\ tx' = [tx EXCEPT ![p] = Idle]
  BY DEF CreateLeaseCommit, TypeInv, TypeOK
<1> QED BY <1>1, <1>2, <1>3, <1>4, <1>5, <1>6, <1>7 DEF Rows

LEMMA ForestGrows ==
  ASSUME TypeOK, Forest, NEW id \in LeaseId, NEW row \in LeaseRow,
         lease[id] = None, row # None, lease' = [lease EXCEPT ![id] = row],
         \A c \in Rows : lease[c].parent # id, row.parent # id,
         row.parent = None => row.root = id,
         row.parent # None => row.parent \in Rows /\ row.root = lease[row.parent].root
  PROVE  Forest'
<1>1. DOMAIN lease = LeaseId
  BY DEF TypeOK
<1>2. Rows' = Rows \union {id} /\ id \notin Rows /\ Rows \subseteq LeaseId
  BY <1>1 DEF Rows
<1>3. lease'[id] = row /\ \A l \in Rows : lease'[l] = lease[l]
  BY <1>1, <1>2
<1>4. ASSUME NEW a \in LeaseId
      PROVE  /\ Lineage({a}) \subseteq Lineage({a})'
             /\ row.parent \in Lineage({a}) => id \in Lineage({a})'
             /\ a \in Lineage({a})'
  <2>1. {a} \in SUBSET LeaseId /\ a \in Lineage({a})
    BY LineageStart
  <2>2. /\ Lineage({a}) \subseteq Lineage({a})'
        /\ row.parent \in Lineage({a}) => id \in Lineage({a})'
    BY <1>1, <2>1, LineageGrows
  <2> QED BY <2>1, <2>2
<1>5. ASSUME NEW l \in Rows'
      PROVE  /\ lease'[l].parent = None => lease'[l].root = l
             /\ lease'[l].parent # None => /\ lease'[l].parent \in Rows'
                                           /\ lease'[l].root = lease'[lease'[l].parent].root
             /\ lease'[l].root \in Rows' /\ lease'[lease'[l].root].parent = None
  <2>1. CASE l \in Rows
    <3>1. lease[l].root \in Rows /\ lease[lease[l].root].parent = None
      BY <2>1 DEF Forest
    <3>2. lease[l].parent = None => lease[l].root = l
      BY <2>1 DEF Forest
    <3>3. lease[l].parent # None => /\ lease[l].parent \in Rows
                                    /\ lease[l].root = lease[lease[l].parent].root
      BY <2>1 DEF Forest
    <3> QED BY <1>2, <1>3, <2>1, <3>1, <3>2, <3>3
  <2>2. CASE l = id /\ row.parent = None
    BY <1>2, <1>3, <2>2
  <2>3. CASE l = id /\ row.parent # None
    <3>1. lease[row.parent].root \in Rows /\ lease[lease[row.parent].root].parent = None
      BY <2>3 DEF Forest
    <3> QED BY <1>2, <1>3, <2>3, <3>1
  <2> QED BY <1>2, <2>1, <2>2, <2>3
<1>6. ASSUME NEW l \in Rows' PROVE (l \in Lineage({lease[l].root}))'
  <2>1. PICK a \in LeaseId : a = lease'[l].root
    BY <1>2, <1>5
  <2>2. l \in Lineage({a})'
    <3>1. CASE l \in Rows
      <4>1. l \in Lineage({lease[l].root}) /\ lease[l].root = a
        BY <1>3, <2>1, <3>1 DEF Forest
      <4> QED BY <1>4, <4>1
    <3>2. CASE l = id /\ row.parent = None
      <4>1. a = id
        BY <1>3, <2>1, <3>2
      <4> QED BY <1>4, <3>2, <4>1
    <3>3. CASE l = id /\ row.parent # None
      <4>1. row.parent \in Lineage({lease[row.parent].root}) /\ lease[row.parent].root = a
        BY <1>3, <2>1, <3>3 DEF Forest
      <4> QED BY <1>4, <3>3, <4>1
    <3> QED BY <1>2, <3>1, <3>2, <3>3
  <2> QED BY <2>1, <2>2 DEF Lineage
<1> QED BY <1>5, <1>6 DEF Forest

LEMMA TypeCreateCommit ==
  ASSUME TypeInv, NEW p \in Proc, CreateLeaseCommit(p)
  PROVE  TypeInv'
<1> DEFINE id == tx[p].id
           row == tx[p].row
<1>1. /\ id \in LeaseId /\ row \in LeaseRow /\ lease[id] = None /\ row # None
      /\ lease' = [lease EXCEPT ![id] = row] /\ DOMAIN lease = LeaseId
      /\ tx' = [tx EXCEPT ![p] = Idle] /\ tx[p] \in CreateTx
  BY CreateCommitEffect
<1>2. Forest'
  BY CreateCommitEffect, ForestGrows DEF TypeInv
<1>3. /\ tx' \in [Proc -> Transaction] /\ tx'[p] = Idle
      /\ \A q \in Proc : q # p => tx'[q] = tx[q]
  BY <1>1, IdleTyped, TxSet DEF TypeInv
<1>4. TypeOK'
  <2>1. lease' \in [LeaseId -> LeaseRow \union {None}]
    BY <1>1 DEF TypeInv, TypeOK
  <2>2. audit' \subseteq AuditRow
    BY <1>1, AuditRows DEF CreateLeaseCommit, TypeInv, TypeOK
  <2> QED BY <1>3, <2>1, <2>2 DEF CreateLeaseCommit, TypeInv, TypeOK
<1>5. \A l \in LeaseId : l # id => lease'[l] = lease[l]
  BY <1>1
<1>6. workload' = workload
  BY DEF CreateLeaseCommit
<1>7. ASSUME NEW q \in Proc PROVE Refers(tx[q])'
  <2>1. CASE q = p
    BY <1>3, <2>1 DEF Refers, Idle
  <2>2. CASE q # p
    <3>1. Refers(tx[q]) /\ tx'[q] = tx[q]
      BY <1>3, <2>2 DEF TypeInv, InFlight
    <3>2. CASE tx[q].op \in {"disable", "rotate"}
      BY <1>6, <3>1, <3>2 DEF Refers
    <3>3. CASE tx[q].op \in {"revoke", "consume", "use"}
      <4>1. tx[q].lease \in LeaseId /\ lease[tx[q].lease] # None
        BY <3>1, <3>3, TxTypes DEF TypeInv, Refers, RevokeTx, ConsumeTx, UseTx
      <4>2. lease'[tx[q].lease] # None
        BY <1>1, <1>5, <4>1
      <4> QED BY <3>1, <3>3, <4>2 DEF Refers
    <3>4. CASE tx[q].op = "create"
      <4>1. tx[q].id \in LeaseId /\ tx[q].row.parent \in LeaseId \union {None} /\ tx[p].op = "create"
        BY <1>1, <3>4, TxTypes DEF TypeInv, CreateTx, LeaseRow
      <4>2. tx[q].id # id
        BY <2>2, <3>4, <4>1 DEF TypeInv, InFlight, OwnId
      <4>3. tx[q].row.parent # None => lease'[tx[q].row.parent] = lease[tx[q].row.parent]
        BY <1>1, <1>5, <3>1, <3>4, <4>1 DEF Refers
      <4>4. lease'[tx[q].id] = None
        BY <1>5, <3>1, <3>4, <4>1, <4>2 DEF Refers
      <4> QED BY <3>1, <3>4, <4>3, <4>4 DEF Refers
    <3> QED BY <3>1, <3>2, <3>3, <3>4 DEF Refers
  <2> QED BY <2>1, <2>2
<1>8. OwnId'
  BY <1>3 DEF OwnId, TypeInv, InFlight, Idle
<1> QED BY <1>2, <1>4, <1>7, <1>8 DEF TypeInv, InFlight

\* A use changes uses_consumed of one row, or nothing.
LEMMA UseCommitEffect ==
  ASSUME TypeInv, NEW p \in Proc, ConsumeLeaseUseCommit(p)
  PROVE  /\ lease' \in [LeaseId -> LeaseRow \union {None}]
         /\ consumption' \subseteq [lease : LeaseId, key : IdempotencyKey, use : Nat]
         /\ \A l \in LeaseId : lease'[l] = None <=> lease[l] = None
         /\ \A l \in Rows :
              /\ lease'[l].revoked = lease[l].revoked
              /\ lease'[l].parent = lease[l].parent /\ lease'[l].root = lease[l].root
              /\ lease'[l].workload = lease[l].workload
              /\ lease'[l].delegatedBy = lease[l].delegatedBy
<1> DEFINE t == tx[p]
           use == t.usesConsumed + 1
<1>1. t \in UseTx /\ lease[t.lease] # None
  BY TxTypes DEF ConsumeLeaseUseCommit, TypeInv, InFlight, Refers
<1>2. t.lease \in LeaseId /\ t.key \in IdempotencyKey /\ use \in Nat
  BY <1>1 DEF UseTx
<1>3. lease[t.lease] \in LeaseRow
  BY <1>1, <1>2 DEF TypeInv, TypeOK
<1>4. CASE UNCHANGED <<lease, consumption>>
  BY <1>4 DEF TypeInv, TypeOK
<1>5. CASE /\ consumption' = consumption \union {[lease |-> t.lease, key |-> t.key, use |-> use]}
           /\ lease' = [lease EXCEPT ![t.lease].usesConsumed = use]
  <2> DEFINE row == [lease[t.lease] EXCEPT !.usesConsumed = use]
  <2> HIDE DEF t, use
  <2>1. /\ row \in LeaseRow /\ row # None
        /\ row.revoked = lease[t.lease].revoked /\ row.parent = lease[t.lease].parent
        /\ row.root = lease[t.lease].root /\ row.workload = lease[t.lease].workload
        /\ row.delegatedBy = lease[t.lease].delegatedBy
    <3>1. row \in LeaseRow
      BY <1>2, <1>3 DEF LeaseRow
    <3> QED BY <1>3, <3>1, NullAssumption DEF LeaseRow
  <2>2. lease' = [lease EXCEPT ![t.lease] = row]
    BY <1>5
  <2> HIDE DEF row
  <2>3. lease \in [LeaseId -> LeaseRow \union {None}]
    BY DEF TypeInv, TypeOK
  <2>4. consumption' \subseteq [lease : LeaseId, key : IdempotencyKey, use : Nat]
    BY <1>2, <1>5 DEF TypeInv, TypeOK
  <2> QED BY <1>1, <1>2, <2>1, <2>2, <2>3, <2>4 DEF Rows
<1> QED BY <1>4, <1>5 DEF ConsumeLeaseUseCommit

LEMMA TypeUseCommit ==
  ASSUME TypeInv, NEW p \in Proc, ConsumeLeaseUseCommit(p)
  PROVE  TypeInv'
<1>1. SameShape
  BY UseCommitEffect DEF SameShape, Rows
<1>2. tx' \in [Proc -> Transaction] /\ \A q \in Proc : tx'[q] = tx[q] \/ tx'[q] = Idle
  BY IdleTyped, TxSet DEF ConsumeLeaseUseCommit, TypeInv
<1>3. TypeOK'
  BY <1>2, UseCommitEffect DEF ConsumeLeaseUseCommit, TypeInv, TypeOK
<1>4. UNCHANGED workload
  BY DEF ConsumeLeaseUseCommit
<1> QED BY <1>1, <1>2, <1>3, <1>4, ForestKept, InFlightEnds DEF TypeInv

LEMMA TypeStutter ==
  ASSUME TypeInv, UNCHANGED vars
  PROVE  TypeInv'
<1>1. SameShape /\ UNCHANGED <<workload, tx>>
  BY DEF SameShape, vars
<1>2. TypeOK'
  BY DEF vars, TypeInv, TypeOK
<1> QED BY <1>1, <1>2, ForestKept, InFlightEnds DEF TypeInv

LEMMA TypeNext == TypeInv /\ [Next]_vars => TypeInv'
<1> SUFFICES ASSUME TypeInv, [Next]_vars PROVE TypeInv'
  OBVIOUS
<1>1. ASSUME NEW w \in Workload, NEW k \in Key, NEW now \in RequestTime, RegisterWorkload(w, k, now)
      PROVE  TypeInv'
  BY <1>1, TypeRegister
<1>2. ASSUME NEW p \in Proc, Admin(p) PROVE TypeInv'
  BY <1>2, TypeDisableLock, TypeRotateLock, TypeRevokeLock DEF Admin
<1>3. ASSUME NEW p \in Proc, Client(p) PROVE TypeInv'
  BY <1>3, TypeMint, TypeDelegate, TypeConsume DEF Client
<1>4. ASSUME NEW p \in Proc, Progress(p) PROVE TypeInv'
  BY <1>4, TypeCreateLock, TypeCreateCommit, TypeRevokeCommit, TypeDisableCommit,
     TypeRotateCommit, TypeUseLock, TypeUseCommit, TypeRollback DEF Progress
<1> QED BY <1>1, <1>2, <1>3, <1>4, TypeTick, TypeStutter DEF Next

\* The tables keep their types and constraints, and lockLineage always finds a
\* root, for any workloads, keys, leases and number of concurrent requests.
THEOREM TypeCorrect == Spec => []TypeOK
<1>1. TypeInv => TypeOK
  BY DEF TypeInv
<1> QED BY <1>1, TypeInit, TypeNext, PTL DEF Spec

-------------------------------------------------------------------------------
(* Revoked lineages *)

Delegating(p) == CreateLocked(p) /\ tx[p].row.parent # None

ParentLive ==
  \A p \in Proc : Delegating(p) =>
    /\ ~lease[tx[p].row.parent].revoked
    /\ tx[p].root = lease[tx[p].row.parent].root

LineageExclusive ==
  \A p, q \in Proc : Delegating(p) /\ tx[q].op = "revoke" => tx[p].root # tx[q].root

Swept ==
  \A q \in Proc, l \in LeaseId : tx[q].op = "revoke" /\ tx[q].lease = l =>
    /\ tx[q].root = lease[l].root
    /\ \A d \in Lineage({l}) : lease[d].revoked \/ d \in tx[q].targets

\* LineageRevoked, and only existing leases have a revocation on record.
Recorded ==
  \A l \in LeaseId : <<"lease.lineage_revoked", l>> \in audit =>
    l \in Rows /\ \A d \in Lineage({l}) : lease[d].revoked

LineageInv == ParentLive /\ LineageExclusive /\ Swept /\ Recorded

\* A step that begins no revocation and locks no delegation.
LEMMA LineageInvKept ==
  ASSUME TypeInv, LineageInv, SameShape,
         \A l \in Rows : lease[l].revoked => lease'[l].revoked,
         \A p \in Proc : Delegating(p) /\ ~lease[tx[p].row.parent].revoked =>
            ~lease'[tx[p].row.parent].revoked,
         \A p \in Proc : \/ tx'[p] = tx[p]
                         \/ /\ tx'[p].op # "revoke"
                            /\ ~(tx'[p].op = "create" /\ tx'[p].pc = "locked"),
         \A l \in LeaseId : <<"lease.lineage_revoked", l>> \in audit' =>
            \/ <<"lease.lineage_revoked", l>> \in audit
            \/ l \in Rows /\ \A d \in Lineage({l}) : lease'[d].revoked
  PROVE  LineageInv'
<1>1. Rows' = Rows /\ \A l \in LeaseId : Lineage({l})' = Lineage({l})
  BY LineageSame DEF SameShape
<1>2. \A l \in Rows : l \in LeaseId /\ lease'[l].root = lease[l].root
  BY DEF SameShape, Rows
<1>3. \A p \in Proc : Delegating(p)' => Delegating(p) /\ tx'[p] = tx[p]
  BY DEF Delegating, CreateLocked
<1>4. \A p \in Proc : Delegating(p) => tx[p].row.parent \in Rows
  BY TxTypes DEF Delegating, CreateLocked, TypeInv, InFlight, Refers, Rows, CreateTx, LeaseRow
<1>5. ParentLive'
  BY <1>2, <1>3, <1>4 DEF ParentLive, LineageInv
<1>6. LineageExclusive'
  BY <1>3 DEF LineageExclusive, LineageInv
<1>7. Swept'
  <2> SUFFICES ASSUME NEW q \in Proc, NEW l \in LeaseId, tx'[q].op = "revoke", tx'[q].lease = l
               PROVE  /\ tx'[q].root = lease'[l].root
                      /\ \A d \in Lineage({l})' : lease'[d].revoked \/ d \in tx'[q].targets
    BY DEF Swept
  <2>1. tx'[q] = tx[q]
    OBVIOUS
  <2>2. l \in Rows
    BY <2>1 DEF TypeInv, InFlight, Refers, Rows
  <2>3. tx[q].root = lease[l].root /\ \A d \in Lineage({l}) : lease[d].revoked \/ d \in tx[q].targets
    BY <2>1 DEF LineageInv, Swept
  <2>4. \A d \in Lineage({l}) : d \in Rows
    BY <2>2, LineageRoot DEF TypeInv
  <2> QED BY <1>1, <1>2, <2>1, <2>2, <2>3, <2>4
<1>8. Recorded'
  <2> SUFFICES ASSUME NEW l \in LeaseId, <<"lease.lineage_revoked", l>> \in audit'
               PROVE  l \in Rows' /\ \A d \in Lineage({l})' : lease'[d].revoked
    BY DEF Recorded
  <2>1. CASE <<"lease.lineage_revoked", l>> \in audit
    <3>1. l \in Rows /\ \A d \in Lineage({l}) : lease[d].revoked
      BY <2>1 DEF LineageInv, Recorded
    <3>2. \A d \in Lineage({l}) : d \in Rows
      BY <3>1, LineageRoot DEF TypeInv
    <3> QED BY <1>1, <3>1, <3>2
  <2> QED BY <1>1, <2>1
<1> QED BY <1>5, <1>6, <1>7, <1>8 DEF LineageInv

LEMMA LineageInit == Init => LineageInv
<1> SUFFICES ASSUME Init PROVE LineageInv
  OBVIOUS
<1>1. audit = {} /\ \A p \in Proc : tx[p].op = "idle"
  BY DEF Init, Idle
<1> QED BY <1>1 DEF LineageInv, ParentLive, LineageExclusive, Swept, Recorded, Delegating, CreateLocked

\* lease and audit unchanged, and no transaction becomes a revocation or locks.
LEMMA LineageBegins ==
  ASSUME TypeInv, LineageInv, UNCHANGED <<lease, audit>>, NEW p \in Proc, NEW t,
         tx' = [tx EXCEPT ![p] = t], t.op # "revoke", ~(t.op = "create" /\ t.pc = "locked")
  PROVE  LineageInv'
<1>1. SameShape /\ \A l \in Rows : lease[l].revoked => lease'[l].revoked
  BY DEF SameShape
<1>2. \A q \in Proc : \/ tx'[q] = tx[q]
                      \/ tx'[q].op # "revoke" /\ ~(tx'[q].op = "create" /\ tx'[q].pc = "locked")
  BY DEF TypeInv, TypeOK
<1> QED BY <1>1, <1>2, LineageInvKept

\* MintRootLease and DelegateLease only prepare a transaction.
LEMMA MintPrepares ==
  ASSUME NEW p \in Proc, NEW w, NEW k, NEW audience, NEW r, MintRootLease(p, w, k, audience, r)
  PROVE  /\ UNCHANGED <<lease, audit, workload>>
         /\ \E id \in LeaseId : \E row : Prepare(p, id, k, row)
<1>1. PICK id \in LeaseId :
        Prepare(p, id, k,
           [workload |-> w, rootWorkload |-> w, parent |-> None, root |-> id,
            delegatedBy |-> None, audience |-> audience, issuedAt |-> clock,
            authority |-> RootContext(r, clock + r.ttl),
            confirmation |-> Confirmation(r, Grant[w].requirePoP, workload[w]),
            revoked |-> FALSE, usesConsumed |-> 0])
  BY DEF MintRootLease
<1>2. UNCHANGED <<lease, audit, workload>>
  BY DEF MintRootLease
<1> QED BY <1>1, <1>2

LEMMA DelegatePrepares ==
  ASSUME NEW p \in Proc, NEW l, NEW to, NEW k, NEW r, DelegateLease(p, l, to, k, r)
  PROVE  /\ UNCHANGED <<lease, audit, workload>>
         /\ \E id \in LeaseId : \E row : Prepare(p, id, k, row)
<1>1. \E id \in LeaseId : \E row : Prepare(p, id, k, row)
  BY DEF DelegateLease
<1>2. UNCHANGED <<lease, audit, workload>>
  BY DEF DelegateLease
<1> QED BY <1>1, <1>2

LEMMA LineagePrepare ==
  ASSUME TypeInv, LineageInv, UNCHANGED <<lease, audit>>, NEW p \in Proc,
         NEW k, NEW id, NEW row, Prepare(p, id, k, row)
  PROVE  LineageInv'
<1> DEFINE t == [op |-> "create", pc |-> "prepared", id |-> id, key |-> k, root |-> None, row |-> row]
<1>1. tx' = [tx EXCEPT ![p] = t] /\ t.op = "create" /\ t.pc = "prepared"
  BY DEF Prepare
<1> HIDE DEF t
<1> QED BY <1>1, LineageBegins

LEMMA LineageClient ==
  ASSUME TypeInv, LineageInv, NEW p \in Proc, Client(p)
  PROVE  LineageInv'
<1>1. ASSUME NEW l \in LeaseId, NEW k \in IdempotencyKey, ConsumeLease(p, l, k)
      PROVE  LineageInv'
  <2> DEFINE t == [op |-> "consume", lease |-> l, key |-> k, consumedAt |-> clock,
                   holderDisabled |-> workload[lease[l].workload].disabled]
  <2>1. tx' = [tx EXCEPT ![p] = t] /\ t.op = "consume" /\ UNCHANGED <<lease, audit>>
    BY <1>1 DEF ConsumeLease
  <2> HIDE DEF t
  <2> QED BY <2>1, LineageBegins
<1>2. ASSUME NEW w \in Workload, NEW k \in Key, NEW audience \in Audience, NEW r \in MintRequest,
             MintRootLease(p, w, k, audience, r)
      PROVE  LineageInv'
  BY <1>2, MintPrepares, LineagePrepare
<1>3. ASSUME NEW l \in LeaseId, NEW to \in Workload, NEW k \in Key, NEW r \in DelegateRequest,
             DelegateLease(p, l, to, k, r)
      PROVE  LineageInv'
  BY <1>3, DelegatePrepares, LineagePrepare
<1> QED BY <1>1, <1>2, <1>3 DEF Client

LEMMA LineageRevokeLock ==
  ASSUME TypeInv, LineageInv, NEW p \in Proc, NEW l \in LeaseId, RevokeLeaseLineageLock(p, l)
  PROVE  LineageInv'
<1> DEFINE t == [op |-> "revoke", lease |-> l, root |-> RootOf(l), targets |-> Unrevoked(Lineage({l}))]
<1>1. l \in Rows /\ RootOf(l) = lease[l].root
  BY RootOfRow DEF RevokeLeaseLineageLock, Rows, TypeInv
<1>2. /\ UNCHANGED <<lease, audit>> /\ tx' = [tx EXCEPT ![p] = t]
      /\ t.op = "revoke" /\ t.lease = l /\ t.root = lease[l].root
      /\ t.targets = Unrevoked(Lineage({l}))
  BY <1>1 DEF RevokeLeaseLineageLock
<1> HIDE DEF t
<1>3. tx'[p] = t /\ \A q \in Proc : q # p => tx'[q] = tx[q]
  BY <1>2 DEF TypeInv, TypeOK
<1>4. ~LineageLocked(lease[l].root)
  BY <1>1 DEF RevokeLeaseLineageLock
<1>5. \A q \in Proc : Delegating(q)' => Delegating(q) /\ q # p /\ tx'[q] = tx[q]
  BY <1>2, <1>3 DEF Delegating, CreateLocked
<1>6. ParentLive'
  BY <1>2, <1>5 DEF LineageInv, ParentLive
<1>7. LineageExclusive'
  <2> SUFFICES ASSUME NEW q \in Proc, NEW s \in Proc, Delegating(q)', tx'[s].op = "revoke"
               PROVE  tx'[q].root # tx'[s].root
    BY DEF LineageExclusive
  <2>1. CASE s = p
    BY <1>2, <1>3, <1>4, <1>5, <2>1 DEF LineageLocked, Delegating
  <2>2. CASE s # p
    BY <1>3, <1>5, <2>2 DEF LineageInv, LineageExclusive
  <2> QED BY <2>1, <2>2
<1>8. ASSUME NEW a \in LeaseId PROVE Lineage({a})' = Lineage({a})
  BY <1>2, LineageSame
<1>9. \A d \in Lineage({l}) : lease[d].revoked \/ d \in t.targets
  BY <1>1, <1>2, LineageRoot DEF Unrevoked, Rows, TypeInv
<1>10. Swept'
  <2> SUFFICES ASSUME NEW q \in Proc, NEW a \in LeaseId, tx'[q].op = "revoke", tx'[q].lease = a
               PROVE  /\ tx'[q].root = lease'[a].root
                      /\ \A d \in Lineage({a})' : lease'[d].revoked \/ d \in tx'[q].targets
    BY DEF Swept
  <2>1. CASE q = p
    BY <1>2, <1>3, <1>8, <1>9, <2>1
  <2>2. CASE q # p
    BY <1>2, <1>3, <1>8, <2>2 DEF LineageInv, Swept
  <2> QED BY <2>1, <2>2
<1>11. Recorded'
  BY <1>2, <1>8 DEF LineageInv, Recorded, Rows
<1> QED BY <1>6, <1>7, <1>10, <1>11 DEF LineageInv

LEMMA LineageAdmin ==
  ASSUME TypeInv, LineageInv, NEW p \in Proc, Admin(p)
  PROVE  LineageInv'
<1>1. ASSUME NEW w \in Workload, DisableWorkloadLock(p, w) PROVE LineageInv'
  <2> DEFINE t == [op |-> "disable", workload |-> w, targets |-> Unrevoked(Lineage(HeldBy(w)))]
  <2>1. tx' = [tx EXCEPT ![p] = t] /\ t.op = "disable" /\ UNCHANGED <<lease, audit>>
    BY <1>1 DEF DisableWorkloadLock
  <2> HIDE DEF t
  <2> QED BY <2>1, LineageBegins
<1>2. ASSUME NEW w \in Workload, NEW k \in Key, NEW overlap \in Overlap,
             NEW revokeOutstanding \in BOOLEAN, NEW now \in RequestTime,
             RotateWorkloadKeyLock(p, w, k, overlap, revokeOutstanding, now)
      PROVE  LineageInv'
  <2> DEFINE t == [op |-> "rotate", workload |-> w, publicKey |-> k, overlap |-> overlap,
                   rotatedAt |-> now,
                   targets |-> IF revokeOutstanding THEN Unrevoked(Lineage(HeldBy(w))) ELSE {}]
  <2>1. tx' = [tx EXCEPT ![p] = t] /\ t.op = "rotate" /\ UNCHANGED <<lease, audit>>
    BY <1>2 DEF RotateWorkloadKeyLock
  <2> HIDE DEF t
  <2> QED BY <2>1, LineageBegins
<1> QED BY <1>1, <1>2, LineageRevokeLock DEF Admin

LEMMA LineageCreateLock ==
  ASSUME TypeInv, LineageInv, NEW p \in Proc, CreateLeaseLock(p)
  PROVE  LineageInv'
<1>1. /\ tx[p] \in CreateTx /\ tx'[p] \in CreateTx /\ tx'[p].row = tx[p].row
      /\ tx[p].row.parent # None => tx'[p].root = lease[tx[p].row.parent].root
      /\ tx' = [tx EXCEPT ![p] = tx'[p]] /\ UNCHANGED <<lease, audit>>
  BY CreateLockEffect DEF CreateLeaseLock
<1>2. \A q \in Proc : q # p => tx'[q] = tx[q]
  BY <1>1 DEF TypeInv, TypeOK
<1>3. tx'[p].op = "create" /\ tx[p].op = "create"
  BY <1>1 DEF CreateTx
<1>4. ASSUME NEW a \in LeaseId PROVE Lineage({a})' = Lineage({a})
  BY <1>1, LineageSame
<1>5. tx[p].row.parent # None => /\ tx[p].row.parent \in Rows
                                 /\ RootOf(tx[p].row.parent) = lease[tx[p].row.parent].root
  <2>1. tx[p].row.parent # None => tx[p].row.parent \in Rows
    BY <1>1, <1>3 DEF TypeInv, InFlight, Refers, Rows, CreateTx, LeaseRow
  <2> QED BY <2>1, RootOfRow DEF TypeInv
<1>6. tx[p].row.parent # None => /\ ~lease[tx[p].row.parent].revoked
                                 /\ ~LineageLocked(lease[tx[p].row.parent].root)
  BY <1>5 DEF CreateLeaseLock, ParentAccepted
<1>7. ParentLive'
  <2> SUFFICES ASSUME NEW q \in Proc, Delegating(q)'
               PROVE  /\ ~lease'[tx'[q].row.parent].revoked
                      /\ tx'[q].root = lease'[tx'[q].row.parent].root
    BY DEF ParentLive
  <2>1. CASE q = p
    BY <1>1, <1>6, <2>1 DEF Delegating
  <2>2. CASE q # p
    BY <1>1, <1>2, <2>2 DEF Delegating, CreateLocked, LineageInv, ParentLive
  <2> QED BY <2>1, <2>2
<1>8. LineageExclusive'
  <2> SUFFICES ASSUME NEW q \in Proc, NEW s \in Proc, Delegating(q)', tx'[s].op = "revoke"
               PROVE  tx'[q].root # tx'[s].root
    BY DEF LineageExclusive
  <2>1. s # p /\ tx'[s] = tx[s]
    BY <1>2, <1>3
  <2>2. CASE q = p
    <3>1. tx[p].row.parent # None
      BY <1>1, <2>2 DEF Delegating
    <3> QED BY <1>1, <1>6, <2>1, <2>2, <3>1 DEF LineageLocked
  <2>3. CASE q # p
    BY <1>2, <2>1, <2>3 DEF Delegating, CreateLocked, LineageInv, LineageExclusive
  <2> QED BY <2>2, <2>3
<1>9. Swept'
  <2> SUFFICES ASSUME NEW q \in Proc, NEW a \in LeaseId, tx'[q].op = "revoke", tx'[q].lease = a
               PROVE  /\ tx'[q].root = lease'[a].root
                      /\ \A d \in Lineage({a})' : lease'[d].revoked \/ d \in tx'[q].targets
    BY DEF Swept
  <2>1. tx'[q] = tx[q]
    BY <1>2, <1>3
  <2> QED BY <1>1, <1>4, <2>1 DEF LineageInv, Swept
<1>10. Recorded'
  BY <1>1, <1>4 DEF LineageInv, Recorded, Rows
<1> QED BY <1>7, <1>8, <1>9, <1>10 DEF LineageInv

\* Committing a withdrawal that waited for the row locks of its targets.
LEMMA LineageWithdraw ==
  ASSUME TypeInv, LineageInv, NEW p \in Proc, NEW targets \in SUBSET LeaseId,
         Lockable(targets), Revoke(targets), tx' = [tx EXCEPT ![p] = Idle],
         \A l \in LeaseId : <<"lease.lineage_revoked", l>> \in audit' =>
            \/ <<"lease.lineage_revoked", l>> \in audit
            \/ l \in Rows /\ \A d \in Lineage({l}) : lease[d].revoked \/ d \in targets
  PROVE  LineageInv'
<1>1. /\ \A l \in LeaseId : lease'[l] = None <=> lease[l] = None
      /\ \A l \in Rows : /\ lease'[l].revoked = (lease[l].revoked \/ l \in targets)
                          /\ lease'[l].parent = lease[l].parent /\ lease'[l].root = lease[l].root
  BY RevokeEffect DEF TypeInv
<1>2. SameShape
  BY <1>1 DEF SameShape, Rows
<1>3. \A q \in Proc : \/ tx'[q] = tx[q]
                      \/ tx'[q].op # "revoke" /\ ~(tx'[q].op = "create" /\ tx'[q].pc = "locked")
  BY DEF TypeInv, TypeOK, Idle
<1>4. ASSUME NEW q \in Proc, Delegating(q), ~lease[tx[q].row.parent].revoked
      PROVE  ~lease'[tx[q].row.parent].revoked
  <2>1. tx[q].row.parent \in Rows
    BY <1>4, TxTypes DEF Delegating, CreateLocked, TypeInv, InFlight, Refers, Rows, CreateTx, LeaseRow
  <2>2. ParentLocked(tx[q].row.parent)
    BY <1>4 DEF ParentLocked, Delegating
  <2>3. tx[q].row.parent \notin targets
    BY <1>4, <2>1, <2>2 DEF Lockable, Affected, Unrevoked, Rows
  <2> QED BY <1>1, <1>4, <2>1, <2>3
<1>5. ASSUME NEW l \in LeaseId, <<"lease.lineage_revoked", l>> \in audit',
             <<"lease.lineage_revoked", l>> \notin audit
      PROVE  l \in Rows /\ \A d \in Lineage({l}) : lease'[d].revoked
  <2>1. l \in Rows /\ \A d \in Lineage({l}) : lease[d].revoked \/ d \in targets
    BY <1>5
  <2>2. \A d \in Lineage({l}) : d \in Rows
    BY <2>1, LineageRoot DEF TypeInv
  <2> QED BY <1>1, <2>1, <2>2
<1>6. \A l \in Rows : lease[l].revoked => lease'[l].revoked
  BY <1>1
<1> QED BY <1>2, <1>3, <1>4, <1>5, <1>6, LineageInvKept

LEMMA LineageRevokeCommit ==
  ASSUME TypeInv, LineageInv, NEW p \in Proc, RevokeLeaseLineageCommit(p)
  PROVE  LineageInv'
<1>1. tx[p] \in RevokeTx
  BY TxTypes DEF RevokeLeaseLineageCommit, TypeInv
<1>2. tx[p].targets \in SUBSET LeaseId /\ tx[p].lease \in LeaseId
  BY <1>1 DEF RevokeTx
<1>3. /\ Lockable(tx[p].targets) /\ Revoke(tx[p].targets) /\ tx' = [tx EXCEPT ![p] = Idle]
      /\ audit' = audit \union {<<"lease.lineage_revoked", tx[p].lease>>} /\ tx[p].op = "revoke"
  BY DEF RevokeLeaseLineageCommit
<1>4. /\ tx[p].lease \in Rows
      /\ \A d \in Lineage({tx[p].lease}) : lease[d].revoked \/ d \in tx[p].targets
  BY <1>2, <1>3 DEF LineageInv, Swept, TypeInv, InFlight, Refers, Rows
<1>5. \A l \in LeaseId : <<"lease.lineage_revoked", l>> \in audit' =>
         \/ <<"lease.lineage_revoked", l>> \in audit
         \/ l \in Rows /\ \A d \in Lineage({l}) : lease[d].revoked \/ d \in tx[p].targets
  BY <1>3, <1>4
<1> QED BY <1>2, <1>3, <1>5, LineageWithdraw

LEMMA LineageOtherCommit ==
  ASSUME TypeInv, LineageInv, NEW p \in Proc, DisableWorkloadCommit(p) \/ RotateWorkloadKeyCommit(p)
  PROVE  LineageInv'
<1>1. tx[p] \in DisableTx \/ tx[p] \in RotateTx
  BY TxTypes DEF DisableWorkloadCommit, RotateWorkloadKeyCommit, TypeInv
<1>2. tx[p].targets \in SUBSET LeaseId
  BY <1>1 DEF DisableTx, RotateTx
<1>3. Lockable(tx[p].targets) /\ Revoke(tx[p].targets) /\ tx' = [tx EXCEPT ![p] = Idle]
  BY DEF DisableWorkloadCommit, RotateWorkloadKeyCommit
<1>4. \A l \in LeaseId : <<"lease.lineage_revoked", l>> \in audit' => <<"lease.lineage_revoked", l>> \in audit
  BY DEF DisableWorkloadCommit, RotateWorkloadKeyCommit
<1> QED BY <1>2, <1>3, <1>4, LineageWithdraw

\* Inserting a lease adds it to no lineage that is, or is about to be, revoked.
LEMMA LineageCreateCommit ==
  ASSUME TypeInv, LineageInv, NEW p \in Proc, CreateLeaseCommit(p)
  PROVE  LineageInv'
<1> DEFINE id == tx[p].id
           row == tx[p].row
<1>1. /\ id \in LeaseId /\ row # None /\ lease[id] = None
      /\ lease' = [lease EXCEPT ![id] = row] /\ DOMAIN lease = LeaseId
      /\ tx' = [tx EXCEPT ![p] = Idle]
      /\ (\A c \in Rows : lease[c].parent # id) /\ row.parent # id
      /\ row.parent # None => row.parent \in Rows
  BY CreateCommitEffect
<1>2. Rows' = Rows \union {id} /\ id \notin Rows /\ \A l \in Rows : l \in LeaseId /\ lease'[l] = lease[l]
  BY <1>1 DEF Rows
<1>3. /\ tx'[p] = Idle /\ \A q \in Proc : q # p => tx'[q] = tx[q]
  BY <1>1 DEF TypeInv, TypeOK
<1>4. CreateLocked(p) /\ \A l \in LeaseId :
        <<"lease.lineage_revoked", l>> \in audit' => <<"lease.lineage_revoked", l>> \in audit
  BY DEF CreateLeaseCommit
<1>5. ASSUME NEW l \in Rows
      PROVE  /\ Lineage({l})' \subseteq Lineage({l}) \union {id}
             /\ id \in Lineage({l})' => row.parent \in Lineage({l}) /\ Delegating(p)
  <2>1. {l} \in SUBSET LeaseId /\ id # l
    BY <1>2
  <2>2. /\ Lineage({l})' \subseteq Lineage({l}) \union {id}
        /\ id \in Lineage({l})' => id \in {l} \/ row.parent \in Lineage({l})
    BY <1>1, <2>1, LineageGrows
  <2>3. row.parent \in Lineage({l}) => row.parent # None
    BY LineageRoot, ControlPlaneAssumption DEF TypeInv, Rows
  <2> QED BY <1>4, <2>1, <2>2, <2>3 DEF Delegating
<1>6. \A q \in Proc : Delegating(q)' => q # p /\ Delegating(q) /\ tx'[q] = tx[q]
  BY <1>3 DEF Delegating, CreateLocked, Idle
<1>7. \A q \in Proc : Delegating(q) => tx[q].row.parent \in Rows
  BY TxTypes DEF Delegating, CreateLocked, TypeInv, InFlight, Refers, Rows, CreateTx, LeaseRow
<1>8. ParentLive'
  BY <1>2, <1>6, <1>7 DEF LineageInv, ParentLive
<1>9. \A q \in Proc : tx'[q].op = "revoke" => q # p /\ tx'[q] = tx[q]
  BY <1>3 DEF Idle
<1>10. LineageExclusive'
  BY <1>6, <1>9 DEF LineageInv, LineageExclusive
<1>11. Swept'
  <2> SUFFICES ASSUME NEW q \in Proc, NEW l \in LeaseId, tx'[q].op = "revoke", tx'[q].lease = l
               PROVE  /\ tx'[q].root = lease'[l].root
                      /\ \A d \in Lineage({l})' : lease'[d].revoked \/ d \in tx'[q].targets
    BY DEF Swept
  <2>1. tx'[q] = tx[q]
    BY <1>9
  <2>2. l \in Rows
    BY <2>1 DEF TypeInv, InFlight, Refers, Rows
  <2>3. tx[q].root = lease[l].root /\ \A d \in Lineage({l}) : lease[d].revoked \/ d \in tx[q].targets
    BY <2>1 DEF LineageInv, Swept
  <2>4. id \notin Lineage({l})'
    <3> SUFFICES ASSUME row.parent \in Lineage({l}), Delegating(p) PROVE FALSE
      BY <1>5, <2>2
    <3>1. lease[row.parent].root = lease[l].root
      BY <2>2, LineageRoot DEF TypeInv
    <3>2. tx[p].root = lease[row.parent].root
      BY DEF LineageInv, ParentLive
    <3> QED BY <2>1, <2>3, <3>1, <3>2 DEF LineageInv, LineageExclusive
  <2>5. \A d \in Lineage({l}) : d \in Rows
    BY <2>2, LineageRoot DEF TypeInv
  <2> QED BY <1>2, <1>5, <2>1, <2>2, <2>3, <2>4, <2>5
<1>12. Recorded'
  <2> SUFFICES ASSUME NEW l \in LeaseId, <<"lease.lineage_revoked", l>> \in audit'
               PROVE  l \in Rows' /\ \A d \in Lineage({l})' : lease'[d].revoked
    BY DEF Recorded
  <2>1. l \in Rows /\ \A d \in Lineage({l}) : lease[d].revoked
    BY <1>4 DEF LineageInv, Recorded
  <2>2. id \notin Lineage({l})'
    <3> SUFFICES ASSUME row.parent \in Lineage({l}), Delegating(p) PROVE FALSE
      BY <1>5, <2>1
    <3> QED BY <2>1 DEF LineageInv, ParentLive
  <2>3. \A d \in Lineage({l}) : d \in Rows
    BY <2>1, LineageRoot DEF TypeInv
  <2> QED BY <1>2, <1>5, <2>1, <2>2, <2>3
<1> QED BY <1>8, <1>10, <1>11, <1>12 DEF LineageInv

LEMMA LineageUse ==
  ASSUME TypeInv, LineageInv, NEW p \in Proc, ConsumeLeaseUseLock(p) \/ ConsumeLeaseUseCommit(p)
  PROVE  LineageInv'
<1>1. CASE ConsumeLeaseUseLock(p)
  <2> DEFINE t == [op |-> "use", lease |-> tx[p].lease, key |-> tx[p].key,
                   maxUses |-> lease[tx[p].lease].authority.maxUses,
                   usesConsumed |-> lease[tx[p].lease].usesConsumed]
  <2>1. tx' = [tx EXCEPT ![p] = t] /\ t.op = "use" /\ UNCHANGED <<lease, audit>>
    BY <1>1 DEF ConsumeLeaseUseLock
  <2> HIDE DEF t
  <2> QED BY <2>1, LineageBegins
<1>2. CASE ConsumeLeaseUseCommit(p)
  <2>1. /\ \A l \in LeaseId : lease'[l] = None <=> lease[l] = None
        /\ \A l \in Rows : /\ lease'[l].revoked = lease[l].revoked
                            /\ lease'[l].parent = lease[l].parent /\ lease'[l].root = lease[l].root
    BY <1>2, UseCommitEffect
  <2>2. SameShape
    BY <2>1 DEF SameShape, Rows
  <2>3. \A q \in Proc : Delegating(q) => tx[q].row.parent \in Rows
    BY TxTypes DEF Delegating, CreateLocked, TypeInv, InFlight, Refers, Rows, CreateTx, LeaseRow
  <2>4. audit' = audit /\ tx' = [tx EXCEPT ![p] = Idle]
    BY <1>2 DEF ConsumeLeaseUseCommit
  <2>5. \A q \in Proc : \/ tx'[q] = tx[q]
                        \/ tx'[q].op # "revoke" /\ ~(tx'[q].op = "create" /\ tx'[q].pc = "locked")
    BY <2>4 DEF TypeInv, TypeOK, Idle
  <2> QED BY <2>1, <2>2, <2>3, <2>4, <2>5, LineageInvKept
<1> QED BY <1>1, <1>2

LEMMA LineageQuiet ==
  ASSUME TypeInv, LineageInv, UNCHANGED <<lease, tx>>,
         \A l \in LeaseId : <<"lease.lineage_revoked", l>> \in audit' => <<"lease.lineage_revoked", l>> \in audit
  PROVE  LineageInv'
<1>1. SameShape /\ \A l \in Rows : lease[l].revoked => lease'[l].revoked
  BY DEF SameShape
<1> QED BY <1>1, LineageInvKept

LEMMA LineageNext == TypeInv /\ LineageInv /\ [Next]_vars => LineageInv'
<1> SUFFICES ASSUME TypeInv, LineageInv, [Next]_vars PROVE LineageInv'
  OBVIOUS
<1>1. ASSUME NEW w \in Workload, NEW k \in Key, NEW now \in RequestTime, RegisterWorkload(w, k, now)
      PROVE  LineageInv'
  <2>1. UNCHANGED <<lease, tx>> /\ audit' = audit \union {<<"workload.registered", w>>}
    BY <1>1 DEF RegisterWorkload
  <2> QED BY <2>1, LineageQuiet
<1>2. ASSUME NEW p \in Proc, Rollback(p) PROVE LineageInv'
  <2>1. tx' = [tx EXCEPT ![p] = Idle] /\ UNCHANGED <<lease, audit>> /\ Idle.op = "idle"
    BY <1>2 DEF Rollback, Idle
  <2> QED BY <2>1, LineageBegins
<1>3. ASSUME NEW p \in Proc, Progress(p) PROVE LineageInv'
  BY <1>2, <1>3, LineageCreateLock, LineageCreateCommit, LineageRevokeCommit, LineageOtherCommit,
     LineageUse DEF Progress
<1>4. CASE Tick
  BY <1>4, LineageQuiet DEF Tick
<1>5. CASE UNCHANGED vars
  BY <1>5, LineageQuiet DEF vars
<1> QED BY <1>1, <1>3, <1>4, <1>5, LineageAdmin, LineageClient DEF Next

\* A lineage once revoked through RevokeLeaseLineage is revoked to its last
\* descendant and stays so, whatever delegations, disables, rotations, uses and
\* rollbacks race the revocation.
THEOREM RevocationIsComplete == Spec => []LineageRevoked
<1>1. Recorded => LineageRevoked
  BY DEF Recorded, LineageRevoked, Rows
<1>2. LineageInv => LineageRevoked
  BY <1>1 DEF LineageInv
<1> QED BY <1>2, TypeInit, TypeNext, LineageInit, LineageNext, PTL DEF Spec

-------------------------------------------------------------------------------
(* Limited uses *)

\* A charge names a row; a row to be inserted has no uses and no negative
\* budget; the one transaction that holds a lease's row lock for a use read the
\* row as it still is.
Charged == \A c \in consumption : c.lease \in Rows

Unused(row) == row.usesConsumed = 0 /\ row.authority.maxUses >= 0

NewUnused == \A p \in Proc : tx[p].op = "create" => Unused(tx[p].row)

UseRead ==
  \A p \in Proc : tx[p].op = "use" =>
    /\ tx[p].maxUses = lease[tx[p].lease].authority.maxUses
    /\ tx[p].usesConsumed = lease[tx[p].lease].usesConsumed

UseExclusive ==
  \A p, q \in Proc : tx[p].op = "use" /\ tx[q].op = "use" /\ tx[p].lease = tx[q].lease => p = q

BudgetInv == Charged /\ NewUnused /\ UseRead /\ UseExclusive /\ UsesWithinBudget

\* Uses and budgets of all rows stay, and no transaction becomes a use.
LEMMA BudgetKept ==
  ASSUME TypeInv, BudgetInv, consumption' = consumption, Rows' = Rows,
         \A l \in Rows : /\ lease'[l].usesConsumed = lease[l].usesConsumed
                         /\ lease'[l].authority = lease[l].authority,
         \A p \in Proc : \/ tx'[p] = tx[p]
                         \/ /\ tx'[p].op # "use"
                            /\ tx'[p].op = "create" => Unused(tx'[p].row)
  PROVE  BudgetInv'
<1>1. Charged'
  BY DEF BudgetInv, Charged
<1>2. NewUnused'
  BY DEF BudgetInv, NewUnused, Unused
<1>3. \A p \in Proc : tx[p].op = "use" => tx[p].lease \in Rows
  BY TxTypes DEF TypeInv, InFlight, Refers, Rows, UseTx
<1>4. UseRead'
  BY <1>3 DEF BudgetInv, UseRead
<1>5. UseExclusive'
  BY DEF BudgetInv, UseExclusive
<1>6. UsesWithinBudget'
  <2> SUFFICES ASSUME NEW l \in Rows PROVE
         /\ lease'[l].usesConsumed <= lease'[l].authority.maxUses
         /\ {c.use : c \in {d \in consumption' : d.lease = l}} = 1 .. lease'[l].usesConsumed
         /\ \A c, d \in {e \in consumption' : e.lease = l} : c.key = d.key \/ c.use = d.use => c = d
    BY DEF UsesWithinBudget
  <2> QED BY DEF BudgetInv, UsesWithinBudget
<1> QED BY <1>1, <1>2, <1>4, <1>5, <1>6 DEF BudgetInv

\* The tables are left alone and one transaction becomes t.
LEMMA BudgetBegins ==
  ASSUME TypeInv, BudgetInv, UNCHANGED <<lease, consumption>>, NEW p \in Proc, NEW t,
         tx' = [tx EXCEPT ![p] = t], t.op # "use", t.op = "create" => Unused(t.row)
  PROVE  BudgetInv'
<1>1. Rows' = Rows
  BY DEF Rows
<1>2. \A q \in Proc : \/ tx'[q] = tx[q]
                      \/ tx'[q].op # "use" /\ (tx'[q].op = "create" => Unused(tx'[q].row))
  BY DEF TypeInv, TypeOK
<1> QED BY <1>1, <1>2, BudgetKept

LEMMA BudgetInit == Init => BudgetInv
<1> SUFFICES ASSUME Init PROVE BudgetInv
  OBVIOUS
<1>1. consumption = {} /\ \A p \in Proc : tx[p].op = "idle"
  BY DEF Init, Idle
<1>2. Rows = {}
  BY DEF Init, Rows
<1> QED BY <1>1, <1>2 DEF BudgetInv, Charged, NewUnused, UseRead, UseExclusive, UsesWithinBudget

LEMMA BudgetPrepare ==
  ASSUME TypeInv, BudgetInv, UNCHANGED <<lease, consumption>>, NEW p \in Proc,
         NEW k, NEW id, NEW row, Prepare(p, id, k, row), Unused(row)
  PROVE  BudgetInv'
<1> DEFINE t == [op |-> "create", pc |-> "prepared", id |-> id, key |-> k, root |-> None, row |-> row]
<1>1. tx' = [tx EXCEPT ![p] = t] /\ t.op = "create" /\ t.row = row
  BY DEF Prepare
<1> HIDE DEF t
<1> QED BY <1>1, BudgetBegins

LEMMA BudgetClient ==
  ASSUME TypeInv, BudgetInv, NEW p \in Proc, Client(p)
  PROVE  BudgetInv'
<1>1. ASSUME NEW l \in LeaseId, NEW k \in IdempotencyKey, ConsumeLease(p, l, k)
      PROVE  BudgetInv'
  <2> DEFINE t == [op |-> "consume", lease |-> l, key |-> k, consumedAt |-> clock,
                   holderDisabled |-> workload[lease[l].workload].disabled]
  <2>1. tx' = [tx EXCEPT ![p] = t] /\ t.op = "consume" /\ UNCHANGED <<lease, consumption>>
    BY <1>1 DEF ConsumeLease
  <2> HIDE DEF t
  <2> QED BY <2>1, BudgetBegins
<1>2. ASSUME NEW w \in Workload, NEW k \in Key, NEW audience \in Audience, NEW r \in MintRequest,
             MintRootLease(p, w, k, audience, r)
      PROVE  BudgetInv'
  <2> DEFINE row(id) == [workload |-> w, rootWorkload |-> w, parent |-> None, root |-> id,
                delegatedBy |-> None, audience |-> audience, issuedAt |-> clock,
                authority |-> RootContext(r, clock + r.ttl),
                confirmation |-> Confirmation(r, Grant[w].requirePoP, workload[w]),
                revoked |-> FALSE, usesConsumed |-> 0]
  <2>1. PICK id \in LeaseId : Prepare(p, id, k, row(id))
    BY <1>2 DEF MintRootLease
  <2>2. UNCHANGED <<lease, consumption>> /\ r.maxUses >= 0
    BY <1>2 DEF MintRootLease, RootAuthorized
  <2>3. Unused(row(id))
    BY <2>2 DEF Unused, RootContext
  <2> HIDE DEF row
  <2> QED BY <2>1, <2>2, <2>3, BudgetPrepare
<1>3. ASSUME NEW l \in LeaseId, NEW to \in Workload, NEW k \in Key, NEW r \in DelegateRequest,
             DelegateLease(p, l, to, k, r)
      PROVE  BudgetInv'
  <2> DEFINE parent == lease[l]
             row == [workload |-> to, rootWorkload |-> parent.rootWorkload, parent |-> l,
                root |-> parent.root, delegatedBy |-> parent.workload, audience |-> parent.audience,
                issuedAt |-> clock, authority |-> ChildContext(parent.authority, r, clock + r.ttl),
                confirmation |-> Confirmation(r, parent.confirmation # None, workload[to]),
                revoked |-> FALSE, usesConsumed |-> 0]
  <2>1. PICK id \in LeaseId : Prepare(p, id, k, row)
    BY <1>3 DEF DelegateLease
  <2>2. UNCHANGED <<lease, consumption>> /\ r.maxUses >= 0
    BY <1>3 DEF DelegateLease, ChildAuthorized
  <2>3. Unused(row)
    BY <2>2 DEF Unused, ChildContext
  <2> HIDE DEF row
  <2> QED BY <2>1, <2>2, <2>3, BudgetPrepare
<1> QED BY <1>1, <1>2, <1>3 DEF Client

LEMMA BudgetAdmin ==
  ASSUME TypeInv, BudgetInv, NEW p \in Proc, Admin(p)
  PROVE  BudgetInv'
<1>1. ASSUME NEW w \in Workload, DisableWorkloadLock(p, w) PROVE BudgetInv'
  <2> DEFINE t == [op |-> "disable", workload |-> w, targets |-> Unrevoked(Lineage(HeldBy(w)))]
  <2>1. tx' = [tx EXCEPT ![p] = t] /\ t.op = "disable" /\ UNCHANGED <<lease, consumption>>
    BY <1>1 DEF DisableWorkloadLock
  <2> HIDE DEF t
  <2> QED BY <2>1, BudgetBegins
<1>2. ASSUME NEW w \in Workload, NEW k \in Key, NEW overlap \in Overlap,
             NEW revokeOutstanding \in BOOLEAN, NEW now \in RequestTime,
             RotateWorkloadKeyLock(p, w, k, overlap, revokeOutstanding, now)
      PROVE  BudgetInv'
  <2> DEFINE t == [op |-> "rotate", workload |-> w, publicKey |-> k, overlap |-> overlap,
                   rotatedAt |-> now,
                   targets |-> IF revokeOutstanding THEN Unrevoked(Lineage(HeldBy(w))) ELSE {}]
  <2>1. tx' = [tx EXCEPT ![p] = t] /\ t.op = "rotate" /\ UNCHANGED <<lease, consumption>>
    BY <1>2 DEF RotateWorkloadKeyLock
  <2> HIDE DEF t
  <2> QED BY <2>1, BudgetBegins
<1>3. ASSUME NEW l \in LeaseId, RevokeLeaseLineageLock(p, l) PROVE BudgetInv'
  <2> DEFINE t == [op |-> "revoke", lease |-> l, root |-> RootOf(l), targets |-> Unrevoked(Lineage({l}))]
  <2>1. tx' = [tx EXCEPT ![p] = t] /\ t.op = "revoke" /\ UNCHANGED <<lease, consumption>>
    BY <1>3 DEF RevokeLeaseLineageLock
  <2> HIDE DEF t
  <2> QED BY <2>1, BudgetBegins
<1> QED BY <1>1, <1>2, <1>3 DEF Admin

LEMMA BudgetCreateLock ==
  ASSUME TypeInv, BudgetInv, NEW p \in Proc, CreateLeaseLock(p)
  PROVE  BudgetInv'
<1>1. /\ tx[p].op = "create" /\ tx'[p].op = "create" /\ tx'[p].row = tx[p].row
      /\ tx' = [tx EXCEPT ![p] = tx'[p]] /\ UNCHANGED <<lease, consumption>>
  BY CreateLockEffect DEF CreateLeaseLock, CreateTx
<1>2. Unused(tx'[p].row)
  BY <1>1 DEF BudgetInv, NewUnused, Unused
<1> QED BY <1>1, <1>2, BudgetBegins

\* A withdrawal writes revoked_at only.
LEMMA BudgetWithdraw ==
  ASSUME TypeInv, BudgetInv, NEW p \in Proc, NEW targets \in SUBSET LeaseId,
         Revoke(targets), tx' = [tx EXCEPT ![p] = Idle], consumption' = consumption
  PROVE  BudgetInv'
<1>1. Rows' = Rows
  BY RevokeEffect DEF TypeInv, Rows
<1>2. ASSUME NEW l \in Rows
      PROVE  /\ lease'[l].usesConsumed = lease[l].usesConsumed
             /\ lease'[l].authority = lease[l].authority
  <2>1. l \in LeaseId /\ lease[l] \in LeaseRow
    BY DEF Rows, TypeInv, TypeOK
  <2>2. lease'[l] = [lease[l] EXCEPT !.revoked = TRUE] \/ lease'[l] = lease[l]
    BY <2>1 DEF Revoke
  <2> QED BY <2>1, <2>2 DEF LeaseRow
<1>3. \A q \in Proc : tx'[q] = tx[q] \/ tx'[q].op = "idle"
  BY DEF TypeInv, TypeOK, Idle
<1> QED BY <1>1, <1>2, <1>3, BudgetKept

LEMMA BudgetWithdrawCommit ==
  ASSUME TypeInv, BudgetInv, NEW p \in Proc,
         \/ RevokeLeaseLineageCommit(p) \/ DisableWorkloadCommit(p) \/ RotateWorkloadKeyCommit(p)
  PROVE  BudgetInv'
<1>1. tx[p] \in RevokeTx \/ tx[p] \in DisableTx \/ tx[p] \in RotateTx
  BY TxTypes DEF RevokeLeaseLineageCommit, DisableWorkloadCommit, RotateWorkloadKeyCommit, TypeInv
<1>2. tx[p].targets \in SUBSET LeaseId
  BY <1>1 DEF RevokeTx, DisableTx, RotateTx
<1>3. Revoke(tx[p].targets) /\ tx' = [tx EXCEPT ![p] = Idle] /\ consumption' = consumption
  BY DEF RevokeLeaseLineageCommit, DisableWorkloadCommit, RotateWorkloadKeyCommit
<1> QED BY <1>2, <1>3, BudgetWithdraw

\* A new row starts without charges: nobody was charged for an id without a row.
LEMMA BudgetCreateCommit ==
  ASSUME TypeInv, BudgetInv, NEW p \in Proc, CreateLeaseCommit(p)
  PROVE  BudgetInv'
<1> DEFINE id == tx[p].id
           row == tx[p].row
<1>1. /\ id \in LeaseId /\ row \in LeaseRow /\ row # None /\ lease[id] = None
      /\ lease' = [lease EXCEPT ![id] = row] /\ DOMAIN lease = LeaseId
      /\ tx' = [tx EXCEPT ![p] = Idle] /\ tx[p] \in CreateTx
  BY CreateCommitEffect
<1>2. /\ Rows' = Rows \union {id} /\ id \notin Rows /\ lease'[id] = row
      /\ \A l \in Rows : l \in LeaseId /\ lease'[l] = lease[l]
  BY <1>1 DEF Rows
<1>3. consumption' = consumption
  BY DEF CreateLeaseCommit
<1>4. \A q \in Proc : tx'[q] = tx[q] \/ tx'[q].op = "idle"
  BY <1>1 DEF TypeInv, TypeOK, Idle
<1>5. Unused(row)
  BY <1>1 DEF BudgetInv, NewUnused, CreateTx
<1>6. \A q \in Proc : tx[q].op = "use" => tx[q].lease \in Rows
  BY TxTypes DEF TypeInv, InFlight, Refers, Rows, UseTx
<1>7. Charged' /\ NewUnused' /\ UseExclusive'
  BY <1>2, <1>3, <1>4 DEF BudgetInv, Charged, NewUnused, Unused, UseExclusive
<1>8. UseRead'
  BY <1>2, <1>4, <1>6 DEF BudgetInv, UseRead
<1>9. ASSUME NEW l \in Rows'
      PROVE  /\ lease'[l].usesConsumed <= lease'[l].authority.maxUses
             /\ {c.use : c \in {d \in consumption' : d.lease = l}} = 1 .. lease'[l].usesConsumed
             /\ \A c, d \in {e \in consumption' : e.lease = l} : c.key = d.key \/ c.use = d.use => c = d
  <2>1. CASE l = id
    <3>1. {d \in consumption' : d.lease = l} = {}
      BY <1>2, <1>3, <2>1 DEF BudgetInv, Charged
    <3>2. lease'[l].usesConsumed = 0 /\ lease'[l].authority.maxUses >= 0
      BY <1>2, <1>5, <2>1 DEF Unused
    <3>3. lease'[l].authority.maxUses \in Int
      BY <1>1, <1>2, <2>1 DEF LeaseRow, Context
    <3>4. 1 .. 0 = {}
      OBVIOUS
    <3> QED BY <3>1, <3>2, <3>3, <3>4
  <2>2. CASE l # id
    BY <1>2, <1>3, <2>2 DEF BudgetInv, UsesWithinBudget
  <2> QED BY <2>1, <2>2
<1>10. UsesWithinBudget'
  BY <1>9 DEF UsesWithinBudget
<1> QED BY <1>7, <1>8, <1>10 DEF BudgetInv

LEMMA BudgetUseLock ==
  ASSUME TypeInv, BudgetInv, NEW p \in Proc, ConsumeLeaseUseLock(p)
  PROVE  BudgetInv'
<1> DEFINE t == [op |-> "use", lease |-> tx[p].lease, key |-> tx[p].key,
                 maxUses |-> lease[tx[p].lease].authority.maxUses,
                 usesConsumed |-> lease[tx[p].lease].usesConsumed]
<1>1. /\ tx' = [tx EXCEPT ![p] = t] /\ t.op = "use" /\ t.lease = tx[p].lease
      /\ t.maxUses = lease[t.lease].authority.maxUses /\ t.usesConsumed = lease[t.lease].usesConsumed
      /\ UNCHANGED <<lease, consumption>> /\ ~UseLocked(t.lease)
  BY DEF ConsumeLeaseUseLock
<1> HIDE DEF t
<1>2. tx'[p] = t /\ \A q \in Proc : q # p => tx'[q] = tx[q]
  BY <1>1 DEF TypeInv, TypeOK
<1>3. Rows' = Rows
  BY <1>1 DEF Rows
<1>4. Charged' /\ UsesWithinBudget'
  BY <1>1, <1>3 DEF BudgetInv, Charged, UsesWithinBudget
<1>5. NewUnused'
  BY <1>1, <1>2 DEF BudgetInv, NewUnused, Unused
<1>6. UseRead'
  BY <1>1, <1>2 DEF BudgetInv, UseRead
<1>7. UseExclusive'
  BY <1>1, <1>2 DEF BudgetInv, UseExclusive, UseLocked
<1> QED BY <1>4, <1>5, <1>6, <1>7 DEF BudgetInv

\* The charge is the next number, for a key that has none, and within the budget.
LEMMA BudgetUseCommit ==
  ASSUME TypeInv, BudgetInv, NEW p \in Proc, ConsumeLeaseUseCommit(p)
  PROVE  BudgetInv'
<1> DEFINE a == tx[p].lease
           use == tx[p].usesConsumed + 1
           charge == [lease |-> a, key |-> tx[p].key, use |-> use]
<1>1. tx[p] \in UseTx /\ tx[p].op = "use" /\ tx' = [tx EXCEPT ![p] = Idle]
  BY TxTypes DEF ConsumeLeaseUseCommit, TypeInv
<1>2. a \in Rows /\ a \in LeaseId /\ lease[a] \in LeaseRow
  BY <1>1 DEF TypeInv, TypeOK, InFlight, Refers, Rows, UseTx
<1>3. tx'[p].op = "idle" /\ \A q \in Proc : q # p => tx'[q] = tx[q]
  BY <1>1 DEF TypeInv, TypeOK, Idle
<1>4. CASE UNCHANGED <<lease, consumption>>
  <2>1. Idle.op = "idle"
    BY DEF Idle
  <2> QED BY <1>1, <1>4, <2>1, BudgetBegins
<1>5. CASE /\ ~ \E c \in consumption : c.lease = a /\ c.key = tx[p].key
           /\ tx[p].usesConsumed < tx[p].maxUses
           /\ consumption' = consumption \union {charge}
           /\ lease' = [lease EXCEPT ![a].usesConsumed = use]
  <2>1. /\ tx[p].maxUses = lease[a].authority.maxUses
        /\ tx[p].usesConsumed = lease[a].usesConsumed
        /\ lease[a].usesConsumed \in Nat /\ lease[a].authority.maxUses \in Int
    BY <1>1, <1>2 DEF BudgetInv, UseRead, LeaseRow, Context
  <2>2. /\ lease'[a].usesConsumed = use /\ lease'[a].authority = lease[a].authority
        /\ lease'[a] # None
        /\ \A l \in LeaseId : l # a => lease'[l] = lease[l]
    <3>1. lease' = [lease EXCEPT ![a] = [lease[a] EXCEPT !.usesConsumed = use]]
      BY <1>5
    <3>2. /\ [lease[a] EXCEPT !.usesConsumed = use].usesConsumed = use
          /\ [lease[a] EXCEPT !.usesConsumed = use].authority = lease[a].authority
      BY <1>2 DEF LeaseRow
    <3>3. [lease[a] EXCEPT !.usesConsumed = use] \in LeaseRow
      BY <1>2, <2>1 DEF LeaseRow
    <3> QED BY <1>2, <3>1, <3>2, <3>3, NullAssumption DEF TypeInv, TypeOK
  <2>3. Rows' = Rows /\ \A l \in Rows : l \in LeaseId
    BY <1>2, <2>2 DEF Rows
  <2>4. charge.lease = a /\ charge.key = tx[p].key /\ charge.use = use
    OBVIOUS
  <2> HIDE DEF charge
  <2>5. Charged'
    BY <1>2, <1>5, <2>3, <2>4 DEF BudgetInv, Charged
  <2>6. NewUnused' /\ UseExclusive'
    BY <1>3 DEF BudgetInv, NewUnused, Unused, UseExclusive
  <2>7. \A q \in Proc : tx[q].op = "use" => tx[q].lease \in LeaseId
    BY TxTypes DEF TypeInv, UseTx
  <2>8. UseRead'
    BY <1>1, <1>3, <2>2, <2>7 DEF BudgetInv, UseRead, UseExclusive
  <2>9. ASSUME NEW l \in Rows
        PROVE  /\ lease'[l].usesConsumed <= lease'[l].authority.maxUses
               /\ {c.use : c \in {d \in consumption' : d.lease = l}} = 1 .. lease'[l].usesConsumed
               /\ \A c, d \in {e \in consumption' : e.lease = l} : c.key = d.key \/ c.use = d.use => c = d
    <3>1. /\ {c.use : c \in {d \in consumption : d.lease = l}} = 1 .. lease[l].usesConsumed
          /\ \A c, d \in {e \in consumption : e.lease = l} : c.key = d.key \/ c.use = d.use => c = d
      BY DEF BudgetInv, UsesWithinBudget
    <3>2. CASE l # a
      <4>1. {d \in consumption' : d.lease = l} = {d \in consumption : d.lease = l}
        BY <1>5, <2>4, <3>2
      <4>2. lease'[l] = lease[l]
        BY <2>2, <2>3, <3>2
      <4> QED BY <3>1, <4>1, <4>2 DEF BudgetInv, UsesWithinBudget
    <3>3. CASE l = a
      <4> DEFINE uses == {d \in consumption : d.lease = l}
      <4>1. {d \in consumption' : d.lease = l} = uses \union {charge}
        BY <1>5, <2>4, <3>3
      <4>2. {c.use : c \in uses \union {charge}} = {c.use : c \in uses} \union {use}
        BY <2>4
      <4>3. (1 .. lease[a].usesConsumed) \union {use} = 1 .. use
        BY <2>1
      <4>4. lease'[l].usesConsumed <= lease'[l].authority.maxUses
        BY <1>5, <2>1, <2>2, <3>3
      <4>5. \A c \in uses : c.key # charge.key
        BY <1>5, <2>4, <3>3
      <4>6. \A c \in uses : c.use # charge.use
        BY <2>1, <2>4, <3>1, <3>3
      <4> HIDE DEF uses
      <4>7. \A c, d \in uses \union {charge} : c.key = d.key \/ c.use = d.use => c = d
        BY <3>1, <4>5, <4>6 DEF uses
      <4> QED BY <2>2, <3>1, <3>3, <4>1, <4>2, <4>3, <4>4, <4>7 DEF uses
    <3> QED BY <3>2, <3>3
  <2>10. UsesWithinBudget'
    BY <2>3, <2>9 DEF UsesWithinBudget
  <2> QED BY <2>5, <2>6, <2>8, <2>10 DEF BudgetInv
<1> QED BY <1>4, <1>5 DEF ConsumeLeaseUseCommit

LEMMA BudgetNext == TypeInv /\ BudgetInv /\ [Next]_vars => BudgetInv'
<1> SUFFICES ASSUME TypeInv, BudgetInv, [Next]_vars PROVE BudgetInv'
  OBVIOUS
<1>1. ASSUME UNCHANGED <<lease, consumption, tx>> PROVE BudgetInv'
  <2>1. Rows' = Rows
    BY <1>1 DEF Rows
  <2> QED BY <1>1, <2>1, BudgetKept
<1>2. ASSUME NEW p \in Proc, Rollback(p) PROVE BudgetInv'
  <2>1. tx' = [tx EXCEPT ![p] = Idle] /\ UNCHANGED <<lease, consumption>> /\ Idle.op = "idle"
    BY <1>2 DEF Rollback, Idle
  <2> QED BY <2>1, BudgetBegins
<1>3. ASSUME NEW p \in Proc, Progress(p) PROVE BudgetInv'
  BY <1>2, <1>3, BudgetCreateLock, BudgetCreateCommit, BudgetWithdrawCommit, BudgetUseLock,
     BudgetUseCommit DEF Progress
<1>4. ASSUME NEW w \in Workload, NEW k \in Key, NEW now \in RequestTime, RegisterWorkload(w, k, now)
      PROVE  BudgetInv'
  BY <1>1, <1>4 DEF RegisterWorkload
<1>5. CASE Tick
  BY <1>1, <1>5 DEF Tick
<1>6. CASE UNCHANGED vars
  BY <1>1, <1>6 DEF vars
<1> QED BY <1>3, <1>4, <1>5, <1>6, BudgetAdmin, BudgetClient DEF Next

\* However many consumers race, a lease is never charged beyond max_uses, its
\* charges are numbered without gaps, and no idempotency key is charged twice.
THEOREM BudgetIsKept == Spec => []UsesWithinBudget
<1>1. BudgetInv => UsesWithinBudget
  BY DEF BudgetInv
<1> QED BY <1>1, TypeInit, TypeNext, BudgetInit, BudgetNext, PTL DEF Spec

-------------------------------------------------------------------------------
(* What steps do *)

\* The tables are left alone and the transaction of p becomes t.
Begins(p, t) ==
  /\ UNCHANGED <<clock, workload, lease, consumption, audit, revokedCount>>
  /\ tx' = [tx EXCEPT ![p] = t]

\* A withdrawal commits: disable, rotate or revoke.
Withdraws(p) ==
  RevokeLeaseLineageCommit(p) \/ DisableWorkloadCommit(p) \/ RotateWorkloadKeyCommit(p)

\* A step that changes nothing but, perhaps, the clock.
Quiet ==
  /\ clock' \in {clock, clock + 1}
  /\ UNCHANGED <<workload, lease, consumption, audit, revokedCount, tx>>

LEMMA BeginsEffect ==
  ASSUME TypeInv, NEW p \in Proc, NEW t, Begins(p, t)
  PROVE  /\ tx'[p] = t /\ \A q \in Proc : q # p => tx'[q] = tx[q]
         /\ Rows' = Rows
BY DEF Begins, TypeInv, TypeOK, Rows

\* The transaction MintRootLease prepares, and the one DelegateLease prepares.
Minted(t, w, k, audience, r) ==
  /\ t.op = "create" /\ t.pc = "prepared" /\ t.key = k
  /\ t.row.workload = w /\ t.row.rootWorkload = w /\ t.row.parent = None
  /\ t.row.root = t.id /\ t.row.delegatedBy = None /\ t.row.audience = audience
  /\ t.row.issuedAt = clock /\ t.row.authority = RootContext(r, clock + r.ttl)
  /\ t.row.confirmation = Confirmation(r, Grant[w].requirePoP, workload[w])
  /\ t.row.revoked = FALSE

Derived(t, parent, parentId, to, k, r) ==
  /\ t.op = "create" /\ t.pc = "prepared" /\ t.key = k
  /\ t.row.workload = to /\ t.row.rootWorkload = parent.rootWorkload
  /\ t.row.parent = parentId /\ t.row.root = parent.root
  /\ t.row.delegatedBy = parent.workload /\ t.row.audience = parent.audience
  /\ t.row.issuedAt = clock
  /\ t.row.authority = ChildContext(parent.authority, r, clock + r.ttl)
  /\ t.row.confirmation = Confirmation(r, parent.confirmation # None, workload[to])
  /\ t.row.revoked = FALSE

LEMMA MintEffect ==
  ASSUME NEW p \in Proc, NEW w, NEW k, NEW audience, NEW r, MintRootLease(p, w, k, audience, r)
  PROVE  \E t : Begins(p, t) /\ Minted(t, w, k, audience, r)
<1> DEFINE row(id) ==
      [workload |-> w, rootWorkload |-> w, parent |-> None, root |-> id,
       delegatedBy |-> None, audience |-> audience, issuedAt |-> clock,
       authority |-> RootContext(r, clock + r.ttl),
       confirmation |-> Confirmation(r, Grant[w].requirePoP, workload[w]),
       revoked |-> FALSE, usesConsumed |-> 0]
<1>1. PICK id \in LeaseId : Prepare(p, id, k, row(id))
  BY DEF MintRootLease
<1> DEFINE t == [op |-> "create", pc |-> "prepared", id |-> id, key |-> k, root |-> None, row |-> row(id)]
<1>2. Begins(p, t)
  BY <1>1 DEF Begins, Prepare, MintRootLease
<1>3. Minted(t, w, k, audience, r)
  BY DEF Minted
<1> QED BY <1>2, <1>3

LEMMA DelegateEffect ==
  ASSUME NEW p \in Proc, NEW l, NEW to, NEW k, NEW r, DelegateLease(p, l, to, k, r)
  PROVE  \E t : Begins(p, t) /\ Derived(t, lease[l], l, to, k, r)
<1> DEFINE row ==
      [workload |-> to, rootWorkload |-> lease[l].rootWorkload, parent |-> l,
       root |-> lease[l].root, delegatedBy |-> lease[l].workload, audience |-> lease[l].audience,
       issuedAt |-> clock, authority |-> ChildContext(lease[l].authority, r, clock + r.ttl),
       confirmation |-> Confirmation(r, lease[l].confirmation # None, workload[to]),
       revoked |-> FALSE, usesConsumed |-> 0]
<1>1. PICK id \in LeaseId : Prepare(p, id, k, row)
  BY DEF DelegateLease
<1> DEFINE t == [op |-> "create", pc |-> "prepared", id |-> id, key |-> k, root |-> None, row |-> row]
<1>2. Begins(p, t)
  BY <1>1 DEF Begins, Prepare, DelegateLease
<1>3. Derived(t, lease[l], l, to, k, r)
  BY DEF Derived
<1> QED BY <1>2, <1>3

LEMMA DisableLockEffect ==
  ASSUME NEW p \in Proc, NEW w, DisableWorkloadLock(p, w)
  PROVE  \E t : /\ Begins(p, t) /\ t.op = "disable" /\ t.workload = w
                /\ t.targets = Unrevoked(Lineage(HeldBy(w)))
<1> DEFINE t == [op |-> "disable", workload |-> w, targets |-> Unrevoked(Lineage(HeldBy(w)))]
<1>1. Begins(p, t)
  BY DEF Begins, DisableWorkloadLock
<1> QED BY <1>1

LEMMA RotateLockEffect ==
  ASSUME NEW p \in Proc, NEW w, NEW k, NEW overlap, NEW revokeOutstanding, NEW now,
         RotateWorkloadKeyLock(p, w, k, overlap, revokeOutstanding, now)
  PROVE  \E t : /\ Begins(p, t) /\ t.op = "rotate" /\ t.workload = w /\ t.publicKey = k
                /\ t.overlap = overlap /\ t.rotatedAt = now
<1> DEFINE t == [op |-> "rotate", workload |-> w, publicKey |-> k, overlap |-> overlap,
                 rotatedAt |-> now,
                 targets |-> IF revokeOutstanding THEN Unrevoked(Lineage(HeldBy(w))) ELSE {}]
<1>1. Begins(p, t)
  BY DEF Begins, RotateWorkloadKeyLock
<1> QED BY <1>1

LEMMA UseLockEffect ==
  ASSUME NEW p \in Proc, ConsumeLeaseUseLock(p)
  PROVE  \E t : /\ Begins(p, t) /\ t.op = "use" /\ t.lease = tx[p].lease /\ t.key = tx[p].key
<1> DEFINE t == [op |-> "use", lease |-> tx[p].lease, key |-> tx[p].key,
                 maxUses |-> lease[tx[p].lease].authority.maxUses,
                 usesConsumed |-> lease[tx[p].lease].usesConsumed]
<1>1. Begins(p, t)
  BY DEF Begins, ConsumeLeaseUseLock
<1> QED BY <1>1

LEMMA WithdrawEffect ==
  ASSUME TypeInv, NEW p \in Proc, Withdraws(p)
  PROVE  /\ tx[p].op \in {"revoke", "disable", "rotate"}
         /\ tx[p].targets \in SUBSET LeaseId /\ Lockable(tx[p].targets) /\ Revoke(tx[p].targets)
         /\ tx'[p] = Idle /\ \A q \in Proc : q # p => tx'[q] = tx[q]
         /\ Rows' = Rows /\ UNCHANGED <<clock, consumption>>
         /\ \A l \in LeaseId : /\ <<"lease.root_minted", l>> \in audit' <=> <<"lease.root_minted", l>> \in audit
                               /\ <<"lease.delegated", l>> \in audit' <=> <<"lease.delegated", l>> \in audit
<1>1. tx[p] \in RevokeTx \/ tx[p] \in DisableTx \/ tx[p] \in RotateTx
  BY TxTypes DEF Withdraws, RevokeLeaseLineageCommit, DisableWorkloadCommit, RotateWorkloadKeyCommit, TypeInv
<1>2. tx[p].targets \in SUBSET LeaseId /\ tx[p].op \in {"revoke", "disable", "rotate"}
  BY <1>1 DEF RevokeTx, DisableTx, RotateTx
<1>3. /\ Lockable(tx[p].targets) /\ Revoke(tx[p].targets) /\ tx' = [tx EXCEPT ![p] = Idle]
      /\ UNCHANGED <<clock, consumption>>
  BY DEF Withdraws, RevokeLeaseLineageCommit, DisableWorkloadCommit, RotateWorkloadKeyCommit
<1>4. tx'[p] = Idle /\ \A q \in Proc : q # p => tx'[q] = tx[q]
  BY <1>3 DEF TypeInv, TypeOK
<1>5. Rows' = Rows
  BY <1>2, <1>3, RevokeEffect DEF TypeInv, Rows
<1>6. \A l \in LeaseId : /\ <<"lease.root_minted", l>> \in audit' <=> <<"lease.root_minted", l>> \in audit
                         /\ <<"lease.delegated", l>> \in audit' <=> <<"lease.delegated", l>> \in audit
  BY DEF Withdraws, RevokeLeaseLineageCommit, DisableWorkloadCommit, RotateWorkloadKeyCommit
<1> QED BY <1>2, <1>3, <1>4, <1>5, <1>6

\* Every step is one of these.
LEMMA StepCases ==
  ASSUME [Next]_vars
  PROVE  \/ Quiet
         \/ \E w \in Workload, k \in Key, now \in RequestTime : RegisterWorkload(w, k, now)
         \/ \E p \in Proc : \E t : Begins(p, t) /\ t.op \in {"idle", "consume", "revoke"}
         \/ \E p \in Proc, w \in Workload : DisableWorkloadLock(p, w)
         \/ \E p \in Proc, w \in Workload, k \in Key, overlap \in Overlap,
               revokeOutstanding \in BOOLEAN, now \in RequestTime :
              RotateWorkloadKeyLock(p, w, k, overlap, revokeOutstanding, now)
         \/ \E p \in Proc, w \in Workload, k \in Key, audience \in Audience, r \in MintRequest :
              MintRootLease(p, w, k, audience, r)
         \/ \E p \in Proc, l \in LeaseId, to \in Workload, k \in Key, r \in DelegateRequest :
              DelegateLease(p, l, to, k, r)
         \/ \E p \in Proc : \/ CreateLeaseLock(p) \/ CreateLeaseCommit(p) \/ Withdraws(p)
                            \/ ConsumeLeaseUseLock(p) \/ ConsumeLeaseUseCommit(p)
<1>1. ASSUME NEW p \in Proc, NEW l \in LeaseId, NEW k \in IdempotencyKey, ConsumeLease(p, l, k)
      PROVE  \E t : Begins(p, t) /\ t.op \in {"idle", "consume", "revoke"}
  <2> DEFINE t == [op |-> "consume", lease |-> l, key |-> k, consumedAt |-> clock,
                   holderDisabled |-> workload[lease[l].workload].disabled]
  <2>1. Begins(p, t)
    BY <1>1 DEF ConsumeLease, Begins
  <2> QED BY <2>1
<1>2. ASSUME NEW p \in Proc, NEW l \in LeaseId, RevokeLeaseLineageLock(p, l)
      PROVE  \E t : Begins(p, t) /\ t.op \in {"idle", "consume", "revoke"}
  <2> DEFINE t == [op |-> "revoke", lease |-> l, root |-> RootOf(l), targets |-> Unrevoked(Lineage({l}))]
  <2>1. Begins(p, t)
    BY <1>2 DEF RevokeLeaseLineageLock, Begins
  <2> QED BY <2>1
<1>3. ASSUME NEW p \in Proc, Rollback(p)
      PROVE  \E t : Begins(p, t) /\ t.op \in {"idle", "consume", "revoke"}
  <2>1. Begins(p, Idle) /\ Idle.op = "idle"
    BY <1>3 DEF Rollback, Begins, Idle
  <2> QED BY <2>1
<1>4. Tick \/ UNCHANGED vars => Quiet
  BY DEF Tick, vars, Quiet
<1> QED BY <1>1, <1>2, <1>3, <1>4 DEF Next, Admin, Client, Progress, Withdraws

\* The actions that write table leases or lease_consumptions.
LEMMA TableWriters ==
  ASSUME [Next]_vars, ~UNCHANGED <<lease, consumption>>
  PROVE  \E p \in Proc : CreateLeaseCommit(p) \/ Withdraws(p) \/ ConsumeLeaseUseCommit(p)
<1>1. ~Quiet /\ ~ \E p \in Proc : \E t : Begins(p, t)
  BY DEF Quiet, Begins
<1>2. ASSUME NEW p \in Proc, CreateLeaseLock(p) PROVE FALSE
  BY <1>2 DEF CreateLeaseLock
<1>3. ASSUME NEW w, NEW k, NEW now, RegisterWorkload(w, k, now) PROVE FALSE
  BY <1>3 DEF RegisterWorkload
<1> QED BY <1>1, <1>2, <1>3, StepCases, DisableLockEffect, RotateLockEffect, MintEffect, DelegateEffect,
       UseLockEffect

-------------------------------------------------------------------------------
(* Disabled workloads *)

\* The workloads that answer for a lease.
Custodians(row) == {row.workload, Requester(row)}

\* A child was requested by the holder of its parent.
Delegated(row) == row.parent # None => row.delegatedBy = lease[row.parent].workload

Delegators ==
  /\ \A l \in Rows : Delegated(lease[l])
  /\ \A p \in Proc : tx[p].op = "create" => Delegated(tx[p].row)

Blank == \A w \in Workload : ~workload[w].registered => workload[w] = Unregistered

\* What CreateLease checked on the workload rows holds until its commit, and no
\* disable or rotation of them is under way.
Vetted ==
  \A p \in Proc : CreateLocked(p) =>
    /\ HoldersAccepted(tx[p])
    /\ \A q \in Proc : tx[q].op \in {"disable", "rotate"} => tx[q].workload \notin Custodians(tx[p].row)

\* The leases a disable found when it locked the workload are still all of them.
Disabling ==
  \A q \in Proc : tx[q].op = "disable" =>
    \A l \in Rows : tx[q].workload \in Custodians(lease[l]) => lease[l].revoked \/ l \in tx[q].targets

\* A lease whose row is locked for a use is not revoked.
UseLive == \A p \in Proc : tx[p].op = "use" => ~lease[tx[p].lease].revoked

CustodyInv == Delegators /\ Blank /\ Vetted /\ Disabling /\ UseLive /\ DisabledHoldsNothing

\* Steps that insert no row and rewrite no custodian, and under which no request
\* locks a workload or a lease.
LEMMA CustodyKept ==
  ASSUME TypeInv, CustodyInv, Rows' = Rows,
         \A l \in Rows : /\ lease'[l].parent = lease[l].parent /\ lease'[l].workload = lease[l].workload
                         /\ lease'[l].delegatedBy = lease[l].delegatedBy
                         /\ lease[l].revoked => lease'[l].revoked,
         \A p \in Proc : \/ tx'[p] = tx[p]
                         \/ /\ tx'[p].op \notin {"disable", "rotate", "use"}
                            /\ tx'[p].op = "create" => tx'[p].pc # "locked" /\ Delegated(tx[p].row)',
         \A p \in Proc : tx[p].op = "use" /\ tx'[p] = tx[p] => ~lease'[tx[p].lease].revoked,
         \A p \in Proc : CreateLocked(p) /\ tx'[p] = tx[p] => HoldersAccepted(tx[p])',
         Blank', DisabledHoldsNothing'
  PROVE  CustodyInv'
<1>1. \A l \in Rows : Custodians(lease[l])' = Custodians(lease[l])
  BY DEF Custodians, Requester
<1>2. \A p \in Proc : tx[p].op = "create" /\ tx[p].row.parent # None => tx[p].row.parent \in Rows
  BY TxTypes DEF TypeInv, InFlight, Refers, Rows, CreateTx, LeaseRow
<1>3. \A l \in Rows : lease[l].parent # None => lease[l].parent \in Rows
  BY DEF TypeInv, Forest
<1>4. Delegators'
  <2>1. ASSUME NEW l \in Rows PROVE Delegated(lease[l])'
    BY <1>3 DEF Delegated, CustodyInv, Delegators
  <2>2. ASSUME NEW p \in Proc, tx'[p].op = "create" PROVE Delegated(tx[p].row)'
    BY <1>2, <2>2 DEF Delegated, CustodyInv, Delegators
  <2> QED BY <2>1, <2>2 DEF Delegators
<1>5. Vetted'
  <2> SUFFICES ASSUME NEW p \in Proc, CreateLocked(p)'
               PROVE  /\ HoldersAccepted(tx[p])'
                      /\ \A q \in Proc : tx'[q].op \in {"disable", "rotate"} =>
                           tx'[q].workload \notin Custodians(tx'[p].row)
    BY DEF Vetted, Custodians, Requester
  <2>1. tx'[p] = tx[p] /\ CreateLocked(p)
    BY DEF CreateLocked
  <2>2. \A q \in Proc : tx[q].op \in {"disable", "rotate"} => tx[q].workload \notin Custodians(tx[p].row)
    BY <2>1 DEF CustodyInv, Vetted
  <2> QED BY <2>1, <2>2
<1>6. Disabling'
  <2> SUFFICES ASSUME NEW q \in Proc, tx'[q].op = "disable", NEW l \in Rows,
                      tx'[q].workload \in Custodians(lease[l])
               PROVE  lease'[l].revoked \/ l \in tx'[q].targets
    BY <1>1 DEF Disabling
  <2>1. tx'[q] = tx[q]
    OBVIOUS
  <2> QED BY <2>1 DEF CustodyInv, Disabling
<1>7. UseLive'
  BY DEF CustodyInv, UseLive
<1> QED BY <1>4, <1>5, <1>6, <1>7 DEF CustodyInv

LEMMA CustodyInit == Init => CustodyInv
<1> SUFFICES ASSUME Init PROVE CustodyInv
  OBVIOUS
<1>1. Rows = {} /\ \A p \in Proc : tx[p].op = "idle"
  BY DEF Init, Rows, Idle
<1>2. Blank
  BY DEF Init, Blank, Unregistered
<1> QED BY <1>1, <1>2 DEF CustodyInv, Delegators, Vetted, Disabling, UseLive, DisabledHoldsNothing, CreateLocked

LEMMA CustodyQuiet ==
  ASSUME TypeInv, CustodyInv, UNCHANGED <<workload, lease>>,
         \A p \in Proc : \/ tx'[p] = tx[p]
                         \/ /\ tx'[p].op \notin {"disable", "rotate", "use"}
                            /\ tx'[p].op = "create" => tx'[p].pc # "locked" /\ Delegated(tx[p].row)'
  PROVE  CustodyInv'
<1>1. Rows' = Rows
  BY DEF Rows
<1>2. \A p \in Proc : tx[p].op = "use" /\ tx'[p] = tx[p] => ~lease'[tx[p].lease].revoked
  BY DEF CustodyInv, UseLive
<1>3. ASSUME NEW p \in Proc, CreateLocked(p), tx'[p] = tx[p] PROVE HoldersAccepted(tx[p])'
  BY <1>3 DEF CustodyInv, Vetted, HoldersAccepted, AcceptedKeys, Requester
<1>4. Blank'
  BY DEF CustodyInv, Blank
<1>5. DisabledHoldsNothing'
  BY <1>1 DEF CustodyInv, DisabledHoldsNothing, Requester
<1> QED BY <1>1, <1>2, <1>3, <1>4, <1>5, CustodyKept

LEMMA CustodyBegins ==
  ASSUME TypeInv, CustodyInv, NEW p \in Proc, NEW t, Begins(p, t),
         t.op \notin {"disable", "rotate", "use"},
         t.op = "create" => t.pc # "locked" /\ Delegated(t.row)
  PROVE  CustodyInv'
<1>1. tx'[p] = t /\ (\A q \in Proc : q # p => tx'[q] = tx[q]) /\ UNCHANGED <<workload, lease>>
  BY BeginsEffect DEF Begins
<1>2. ASSUME NEW q \in Proc, tx'[q] # tx[q]
      PROVE  /\ tx'[q].op \notin {"disable", "rotate", "use"}
             /\ tx'[q].op = "create" => tx'[q].pc # "locked" /\ Delegated(tx[q].row)'
  <2>1. q = p
    BY <1>1, <1>2
  <2> QED BY <1>1, <2>1 DEF Delegated
<1> QED BY <1>1, <1>2, CustodyQuiet

LEMMA CustodyMint ==
  ASSUME TypeInv, CustodyInv, NEW p \in Proc, NEW w, NEW k, NEW audience, NEW r,
         MintRootLease(p, w, k, audience, r)
  PROVE  CustodyInv'
<1>1. PICK t : Begins(p, t) /\ Minted(t, w, k, audience, r)
  BY MintEffect
<1>2. t.op = "create" /\ t.pc = "prepared" /\ Delegated(t.row)
  BY <1>1 DEF Minted, Delegated
<1> QED BY <1>1, <1>2, CustodyBegins

LEMMA CustodyDelegate ==
  ASSUME TypeInv, CustodyInv, NEW p \in Proc, NEW l, NEW to, NEW k, NEW r, DelegateLease(p, l, to, k, r)
  PROVE  CustodyInv'
<1>1. PICK t : Begins(p, t) /\ Derived(t, lease[l], l, to, k, r)
  BY DelegateEffect
<1>2. t.op = "create" /\ t.pc = "prepared" /\ Delegated(t.row)
  BY <1>1 DEF Derived, Delegated
<1> QED BY <1>1, <1>2, CustodyBegins

\* The requester of a live lease held or delegated by w is found by the sweep.
LEMMA CustodiansSwept ==
  ASSUME TypeInv, Delegators, NEW w \in Workload, NEW l \in Rows, w \in Custodians(lease[l])
  PROVE  l \in Lineage(HeldBy(w))
<1>1. HeldBy(w) \in SUBSET LeaseId /\ HeldBy(w) \subseteq Lineage(HeldBy(w))
  BY HeldByTyped, LineageStart
<1>2. CASE lease[l].workload = w
  BY <1>1, <1>2 DEF HeldBy
<1>3. CASE lease[l].workload # w
  <2>1. lease[l].parent # None /\ lease[l].delegatedBy = w
    BY <1>3 DEF Custodians, Requester
  <2>2. lease[l].parent \in Rows /\ lease[lease[l].parent].workload = w
    BY <2>1 DEF Delegators, Delegated, TypeInv, Forest
  <2>3. lease[l].parent \in Lineage(HeldBy(w))
    BY <1>1, <2>2 DEF HeldBy
  <2> QED BY <1>1, <2>3, LineageChild
<1> QED BY <1>2, <1>3

LEMMA CustodiansTyped ==
  ASSUME TypeInv, Delegators
  PROVE  /\ \A l \in Rows : Custodians(lease[l]) \subseteq Workload
         /\ \A p \in Proc : tx[p].op = "create" => Custodians(tx[p].row) \subseteq Workload
<1>1. \A l \in Rows : lease[l] \in LeaseRow
  BY DEF TypeInv, TypeOK, Rows
<1>2. ASSUME NEW row \in LeaseRow, Delegated(row), row.parent # None => row.parent \in Rows
      PROVE  Custodians(row) \subseteq Workload
  BY <1>1, <1>2 DEF Custodians, Requester, Delegated, LeaseRow
<1>3. ASSUME NEW l \in Rows PROVE Custodians(lease[l]) \subseteq Workload
  BY <1>1, <1>2 DEF Delegators, TypeInv, Forest
<1>4. ASSUME NEW p \in Proc, tx[p].op = "create" PROVE Custodians(tx[p].row) \subseteq Workload
  <2>1. tx[p].row \in LeaseRow
    BY <1>4, TxTypes DEF TypeInv, CreateTx
  <2>2. tx[p].row.parent # None => tx[p].row.parent \in Rows
    BY <1>4, <2>1 DEF TypeInv, InFlight, Refers, Rows, LeaseRow
  <2> QED BY <1>2, <1>4, <2>1, <2>2 DEF Delegators
<1> QED BY <1>3, <1>4

\* A disable or a rotation locks a workload row no CreateLease holds.
LEMMA CustodyLocks ==
  ASSUME TypeInv, CustodyInv, NEW p \in Proc, NEW w \in Workload, NEW t, Begins(p, t),
         t.op \in {"disable", "rotate"}, t.workload = w, ~ShareLocked(w),
         t.op = "disable" => t.targets = Unrevoked(Lineage(HeldBy(w)))
  PROVE  CustodyInv'
<1>1. /\ tx'[p] = t /\ (\A q \in Proc : q # p => tx'[q] = tx[q]) /\ Rows' = Rows
      /\ UNCHANGED <<workload, lease>>
  BY BeginsEffect DEF Begins
<1>2. Delegators' /\ Blank' /\ UseLive' /\ DisabledHoldsNothing'
  <2>1. Delegators'
    BY <1>1 DEF CustodyInv, Delegators, Delegated
  <2>2. Blank' /\ UseLive'
    BY <1>1 DEF CustodyInv, Blank, UseLive
  <2>3. DisabledHoldsNothing'
    BY <1>1 DEF CustodyInv, DisabledHoldsNothing, Requester
  <2> QED BY <2>1, <2>2, <2>3
<1>3. Vetted'
  <2> SUFFICES ASSUME NEW q \in Proc, CreateLocked(q)'
               PROVE  /\ HoldersAccepted(tx[q])'
                      /\ \A s \in Proc : tx'[s].op \in {"disable", "rotate"} =>
                           tx'[s].workload \notin Custodians(tx'[q].row)
    BY DEF Vetted, Custodians, Requester
  <2>1. q # p /\ tx'[q] = tx[q] /\ CreateLocked(q)
    BY <1>1 DEF CreateLocked
  <2>2. HoldersAccepted(tx[q])'
    BY <1>1, <2>1 DEF CustodyInv, Vetted, HoldersAccepted, AcceptedKeys, Requester
  <2>3. w \notin Custodians(tx[q].row)
    BY <2>1 DEF ShareLocked, Custodians, Requester
  <2>4. \A s \in Proc : tx[s].op \in {"disable", "rotate"} => tx[s].workload \notin Custodians(tx[q].row)
    BY <2>1 DEF CustodyInv, Vetted
  <2> QED BY <1>1, <2>1, <2>2, <2>3, <2>4
<1>4. Disabling'
  <2> SUFFICES ASSUME NEW q \in Proc, tx'[q].op = "disable", NEW l \in Rows,
                      tx'[q].workload \in Custodians(lease[l])
               PROVE  lease[l].revoked \/ l \in tx'[q].targets
    BY <1>1 DEF Disabling, Custodians, Requester
  <2>1. CASE q = p
    <3>1. l \in Lineage(HeldBy(w))
      BY <1>1, <2>1, CustodiansSwept DEF CustodyInv
    <3> QED BY <1>1, <2>1, <3>1 DEF Unrevoked, Rows
  <2>2. CASE q # p
    BY <1>1, <2>2 DEF CustodyInv, Disabling
  <2> QED BY <2>1, <2>2
<1> QED BY <1>2, <1>3, <1>4 DEF CustodyInv

LEMMA CustodyCreateLock ==
  ASSUME TypeInv, CustodyInv, NEW p \in Proc, CreateLeaseLock(p)
  PROVE  CustodyInv'
<1>1. /\ tx[p] \in CreateTx /\ tx'[p] \in CreateTx /\ tx'[p].row = tx[p].row /\ tx'[p].key = tx[p].key
      /\ tx' = [tx EXCEPT ![p] = tx'[p]] /\ UNCHANGED <<workload, lease>>
  BY CreateLockEffect DEF CreateLeaseLock
<1>2. tx[p].op = "create" /\ tx'[p].op = "create" /\ \A q \in Proc : q # p => tx'[q] = tx[q]
  BY <1>1 DEF CreateTx, TypeInv, TypeOK
<1>3. Rows' = Rows
  BY <1>1 DEF Rows
<1>4. Delegators' /\ Blank' /\ UseLive' /\ DisabledHoldsNothing' /\ Disabling'
  <2>1. Delegators'
    BY <1>1, <1>2, <1>3 DEF CustodyInv, Delegators, Delegated
  <2>2. Blank' /\ UseLive'
    BY <1>1, <1>2 DEF CustodyInv, Blank, UseLive
  <2>3. DisabledHoldsNothing'
    BY <1>1, <1>3 DEF CustodyInv, DisabledHoldsNothing, Requester
  <2>4. Disabling'
    BY <1>1, <1>2, <1>3 DEF CustodyInv, Disabling, Custodians, Requester
  <2> QED BY <2>1, <2>2, <2>3, <2>4
<1>5. HoldersAccepted(tx[p]) /\ \A w \in Custodians(tx[p].row) : ~WriteLocked(w)
  BY DEF CreateLeaseLock, Custodians
<1>6. Vetted'
  <2> SUFFICES ASSUME NEW q \in Proc, CreateLocked(q)'
               PROVE  /\ HoldersAccepted(tx[q])'
                      /\ \A s \in Proc : tx'[s].op \in {"disable", "rotate"} =>
                           tx'[s].workload \notin Custodians(tx'[q].row)
    BY DEF Vetted, Custodians, Requester
  <2>1. \A s \in Proc : tx'[s].op \in {"disable", "rotate"} => tx'[s] = tx[s]
    BY <1>2
  <2>2. CASE q = p
    BY <1>1, <1>5, <2>1, <2>2 DEF HoldersAccepted, AcceptedKeys, Requester, Custodians, WriteLocked
  <2>3. CASE q # p
    <3>1. tx'[q] = tx[q] /\ CreateLocked(q)
      BY <1>2, <2>3 DEF CreateLocked
    <3>2. HoldersAccepted(tx[q])'
      BY <1>1, <3>1 DEF CustodyInv, Vetted, HoldersAccepted, AcceptedKeys, Requester
    <3> QED BY <2>1, <3>1, <3>2 DEF CustodyInv, Vetted
  <2> QED BY <2>2, <2>3
<1> QED BY <1>4, <1>6 DEF CustodyInv

\* A new lease has custodians that are enabled and not being disabled.
LEMMA CustodyCreateCommit ==
  ASSUME TypeInv, CustodyInv, NEW p \in Proc, CreateLeaseCommit(p)
  PROVE  CustodyInv'
<1> DEFINE id == tx[p].id
           row == tx[p].row
<1>1. /\ id \in LeaseId /\ row # None /\ lease[id] = None
      /\ lease' = [lease EXCEPT ![id] = row] /\ DOMAIN lease = LeaseId
      /\ tx' = [tx EXCEPT ![p] = Idle]
      /\ row.parent # None => row.parent \in Rows
  BY CreateCommitEffect
<1>2. /\ Rows' = Rows \union {id} /\ id \notin Rows /\ lease'[id] = row
      /\ \A l \in Rows : l \in LeaseId /\ lease'[l] = lease[l]
  BY <1>1 DEF Rows
<1>3. tx'[p] = Idle /\ \A q \in Proc : q # p => tx'[q] = tx[q]
  BY <1>1 DEF TypeInv, TypeOK
<1>4. CreateLocked(p) /\ workload' = workload /\ tx[p].op = "create"
  BY DEF CreateLeaseCommit, CreateLocked
<1>5. \A q \in Proc : tx'[q].op # "idle" => q # p /\ tx'[q] = tx[q]
  BY <1>3 DEF Idle
<1>6. /\ HoldersAccepted(tx[p])
      /\ \A q \in Proc : tx[q].op \in {"disable", "rotate"} => tx[q].workload \notin Custodians(row)
  BY <1>4 DEF CustodyInv, Vetted
<1>7. \A q \in Proc : tx[q].op = "create" /\ tx[q].row.parent # None => tx[q].row.parent \in Rows
  BY TxTypes DEF TypeInv, InFlight, Refers, Rows, CreateTx, LeaseRow
<1>8. \A l \in Rows : lease[l].parent # None => lease[l].parent \in Rows
  BY DEF TypeInv, Forest
<1>9. Delegators'
  <2>1. ASSUME NEW l \in Rows' PROVE Delegated(lease[l])'
    <3>1. CASE l \in Rows
      BY <1>2, <1>8, <3>1 DEF Delegated, CustodyInv, Delegators
    <3>2. CASE l = id
      BY <1>1, <1>2, <1>4, <3>2 DEF Delegated, CustodyInv, Delegators
    <3> QED BY <1>2, <3>1, <3>2
  <2>2. ASSUME NEW q \in Proc, tx'[q].op = "create" PROVE Delegated(tx[q].row)'
    BY <1>2, <1>5, <1>7, <2>2 DEF Delegated, CustodyInv, Delegators
  <2> QED BY <2>1, <2>2 DEF Delegators
<1>10. Blank'
  BY <1>4 DEF CustodyInv, Blank
<1>11. Vetted'
  <2> SUFFICES ASSUME NEW q \in Proc, CreateLocked(q)'
               PROVE  /\ HoldersAccepted(tx[q])'
                      /\ \A s \in Proc : tx'[s].op \in {"disable", "rotate"} =>
                           tx'[s].workload \notin Custodians(tx'[q].row)
    BY DEF Vetted, Custodians, Requester
  <2>1. tx'[q] = tx[q] /\ CreateLocked(q)
    BY <1>5 DEF CreateLocked
  <2>2. HoldersAccepted(tx[q])'
    BY <1>4, <2>1 DEF CustodyInv, Vetted, HoldersAccepted, AcceptedKeys, Requester
  <2> QED BY <1>5, <2>1, <2>2 DEF CustodyInv, Vetted
<1>12. Disabling'
  <2> SUFFICES ASSUME NEW q \in Proc, tx'[q].op = "disable", NEW l \in Rows',
                      tx'[q].workload \in Custodians(lease'[l])
               PROVE  lease'[l].revoked \/ l \in tx'[q].targets
    BY DEF Disabling, Custodians, Requester
  <2>1. tx'[q] = tx[q]
    BY <1>5
  <2> QED BY <1>2, <1>6, <2>1 DEF CustodyInv, Disabling
<1>13. UseLive'
  <2>1. \A q \in Proc : tx[q].op = "use" => tx[q].lease \in Rows
    BY TxTypes DEF TypeInv, InFlight, Refers, Rows, UseTx
  <2> QED BY <1>2, <1>5, <2>1 DEF CustodyInv, UseLive
<1>14. DisabledHoldsNothing'
  <2> SUFFICES ASSUME NEW l \in Rows'
               PROVE  \/ lease'[l].revoked
                      \/ /\ ~workload[lease'[l].workload].disabled
                         /\ ~workload[Requester(lease'[l])].disabled
    BY <1>4 DEF DisabledHoldsNothing, Requester
  <2> QED BY <1>2, <1>6 DEF CustodyInv, DisabledHoldsNothing, HoldersAccepted
<1> QED BY <1>9, <1>10, <1>11, <1>12, <1>13, <1>14 DEF CustodyInv

LEMMA CustodyUseLock ==
  ASSUME TypeInv, CustodyInv, NEW p \in Proc, ConsumeLeaseUseLock(p)
  PROVE  CustodyInv'
<1>1. PICK t : Begins(p, t) /\ t.op = "use" /\ t.lease = tx[p].lease
  BY UseLockEffect
<1>2. /\ tx'[p] = t /\ (\A q \in Proc : q # p => tx'[q] = tx[q]) /\ Rows' = Rows
      /\ UNCHANGED <<workload, lease>>
  BY <1>1, BeginsEffect DEF Begins
<1>3. Delegators' /\ Blank' /\ Disabling' /\ DisabledHoldsNothing'
  <2>1. Delegators'
    BY <1>1, <1>2 DEF CustodyInv, Delegators, Delegated
  <2>2. Blank' /\ Disabling'
    BY <1>1, <1>2 DEF CustodyInv, Blank, Disabling, Custodians, Requester
  <2>3. DisabledHoldsNothing'
    BY <1>2 DEF CustodyInv, DisabledHoldsNothing, Requester
  <2> QED BY <2>1, <2>2, <2>3
<1>4. UseLive'
  BY <1>1, <1>2 DEF CustodyInv, UseLive, ConsumeLeaseUseLock
<1>5. Vetted'
  <2> SUFFICES ASSUME NEW q \in Proc, CreateLocked(q)'
               PROVE  /\ HoldersAccepted(tx[q])'
                      /\ \A s \in Proc : tx'[s].op \in {"disable", "rotate"} =>
                           tx'[s].workload \notin Custodians(tx'[q].row)
    BY DEF Vetted, Custodians, Requester
  <2>1. tx'[q] = tx[q] /\ CreateLocked(q)
    BY <1>1, <1>2 DEF CreateLocked
  <2>2. HoldersAccepted(tx[q])'
    BY <1>2, <2>1 DEF CustodyInv, Vetted, HoldersAccepted, AcceptedKeys, Requester
  <2> QED BY <1>1, <1>2, <2>1, <2>2 DEF CustodyInv, Vetted
<1> QED BY <1>3, <1>4, <1>5 DEF CustodyInv

LEMMA CustodyUseCommit ==
  ASSUME TypeInv, CustodyInv, NEW p \in Proc, ConsumeLeaseUseCommit(p)
  PROVE  CustodyInv'
<1>1. /\ Rows' = Rows
      /\ \A l \in Rows : /\ lease'[l].revoked = lease[l].revoked /\ lease'[l].parent = lease[l].parent
                         /\ lease'[l].workload = lease[l].workload
                         /\ lease'[l].delegatedBy = lease[l].delegatedBy
  BY UseCommitEffect DEF Rows
<1>2. tx' = [tx EXCEPT ![p] = Idle] /\ workload' = workload
  BY DEF ConsumeLeaseUseCommit
<1>3. \A q \in Proc : tx'[q] = tx[q] \/ tx'[q].op = "idle"
  BY <1>2 DEF TypeInv, TypeOK, Idle
<1>4. \A q \in Proc : tx[q].op = "use" => tx[q].lease \in Rows
  BY TxTypes DEF TypeInv, InFlight, Refers, Rows, UseTx
<1>5. \A q \in Proc : tx[q].op = "use" /\ tx'[q] = tx[q] => ~lease'[tx[q].lease].revoked
  BY <1>1, <1>4 DEF CustodyInv, UseLive
<1>6. ASSUME NEW q \in Proc, CreateLocked(q), tx'[q] = tx[q] PROVE HoldersAccepted(tx[q])'
  BY <1>2, <1>6 DEF CustodyInv, Vetted, HoldersAccepted, AcceptedKeys, Requester
<1>7. Blank'
  BY <1>2 DEF CustodyInv, Blank
<1>8. DisabledHoldsNothing'
  BY <1>1, <1>2 DEF CustodyInv, DisabledHoldsNothing, Requester
<1> QED BY <1>1, <1>3, <1>5, <1>6, <1>7, <1>8, CustodyKept

\* What a withdrawal does to the workload rows.
LEMMA WithdrawWorkloads ==
  ASSUME TypeInv, NEW p \in Proc, Withdraws(p)
  PROVE  \/ /\ tx[p].op = "revoke" /\ workload' = workload
         \/ /\ tx[p].op \in {"disable", "rotate"} /\ tx[p].workload \in Workload
            /\ workload[tx[p].workload].registered
            /\ \A w \in Workload : w # tx[p].workload => workload'[w] = workload[w]
            /\ workload'[tx[p].workload].registered
            /\ tx[p].op = "rotate" =>
                 workload'[tx[p].workload].disabled = workload[tx[p].workload].disabled
<1>1. CASE RevokeLeaseLineageCommit(p)
  BY <1>1 DEF RevokeLeaseLineageCommit
<1>2. CASE DisableWorkloadCommit(p)
  <2>1. tx[p].op = "disable" /\ workload' = [workload EXCEPT ![tx[p].workload].disabled = TRUE]
    BY <1>2 DEF DisableWorkloadCommit
  <2>2. tx[p].workload \in Workload /\ workload[tx[p].workload].registered
    BY <2>1, TxTypes DEF TypeInv, DisableTx, InFlight, Refers
  <2>3. workload \in [Workload -> WorkloadRow]
    BY DEF TypeInv, TypeOK
  <2> QED BY <2>1, <2>2, <2>3 DEF WorkloadRow
<1>3. CASE RotateWorkloadKeyCommit(p)
  <2>1. tx[p].op = "rotate" /\ workload' = [workload EXCEPT ![tx[p].workload] = RotatedRow(@, tx[p])]
    BY <1>3 DEF RotateWorkloadKeyCommit
  <2>2. tx[p].workload \in Workload /\ workload[tx[p].workload].registered
    BY <2>1, TxTypes DEF TypeInv, RotateTx, InFlight, Refers
  <2>3. workload \in [Workload -> WorkloadRow]
    BY DEF TypeInv, TypeOK
  <2>4. ASSUME NEW row \in WorkloadRow
        PROVE  RotatedRow(row, tx[p]).registered = row.registered /\ RotatedRow(row, tx[p]).disabled = row.disabled
    BY DEF RotatedRow, WorkloadRow
  <2>5. /\ workload'[tx[p].workload] = RotatedRow(workload[tx[p].workload], tx[p])
        /\ \A w \in Workload : w # tx[p].workload => workload'[w] = workload[w]
    BY <2>1, <2>2, <2>3
  <2>6. workload[tx[p].workload] \in WorkloadRow
    BY <2>2, <2>3
  <2> QED BY <2>1, <2>2, <2>4, <2>5, <2>6
<1> QED BY <1>1, <1>2, <1>3 DEF Withdraws

\* A withdrawal waits for uses, and rewrites no workload row that a CreateLease
\* holds; a disable has found every lease of its workload.
LEMMA CustodyWithdraw ==
  ASSUME TypeInv, CustodyInv, NEW p \in Proc, Withdraws(p)
  PROVE  CustodyInv'
<1>1. /\ tx[p].op \in {"revoke", "disable", "rotate"}
      /\ tx[p].targets \in SUBSET LeaseId /\ Lockable(tx[p].targets) /\ Revoke(tx[p].targets)
      /\ tx'[p] = Idle /\ (\A q \in Proc : q # p => tx'[q] = tx[q]) /\ Rows' = Rows
  BY WithdrawEffect
<1>2. \A l \in Rows : /\ lease'[l].revoked = (lease[l].revoked \/ l \in tx[p].targets)
                      /\ lease'[l].parent = lease[l].parent /\ lease'[l].workload = lease[l].workload
                      /\ lease'[l].delegatedBy = lease[l].delegatedBy
  BY <1>1, RevokeEffect DEF TypeInv
<1>3. \A q \in Proc : tx'[q] = tx[q] \/ tx'[q].op = "idle"
  BY <1>1 DEF Idle
<1>4. ASSUME NEW q \in Proc, tx[q].op = "use", tx'[q] = tx[q] PROVE ~lease'[tx[q].lease].revoked
  <2>1. tx[q].lease \in Rows /\ ~lease[tx[q].lease].revoked
    BY <1>4, TxTypes DEF TypeInv, InFlight, Refers, Rows, UseTx, CustodyInv, UseLive
  <2>2. UseLocked(tx[q].lease)
    BY <1>4 DEF UseLocked
  <2>3. tx[q].lease \notin tx[p].targets
    BY <1>1, <2>1, <2>2 DEF Lockable, Affected, Unrevoked, Rows
  <2> QED BY <1>2, <2>1, <2>3
<1>5. ASSUME NEW q \in Proc, CreateLocked(q), tx'[q] = tx[q] PROVE HoldersAccepted(tx[q])'
  <2>1. /\ HoldersAccepted(tx[q])
        /\ tx[p].op \in {"disable", "rotate"} => tx[p].workload \notin Custodians(tx[q].row)
    BY <1>5 DEF CustodyInv, Vetted
  <2>2. Custodians(tx[q].row) \subseteq Workload
    BY <1>5, CustodiansTyped DEF CustodyInv, CreateLocked
  <2>3. \A w \in Custodians(tx[q].row) : workload'[w] = workload[w]
    BY <2>1, <2>2, WithdrawWorkloads
  <2>4. /\ workload'[tx[q].row.workload] = workload[tx[q].row.workload]
        /\ workload'[Requester(tx[q].row)] = workload[Requester(tx[q].row)]
    BY <2>3 DEF Custodians
  <2> QED BY <1>5, <2>1, <2>4 DEF HoldersAccepted, AcceptedKeys, Requester
<1>6. Blank'
  BY WithdrawWorkloads DEF CustodyInv, Blank
<1>7. DisabledHoldsNothing'
  <2> SUFFICES ASSUME NEW l \in Rows, ~lease'[l].revoked, NEW w \in Custodians(lease[l])
               PROVE  ~workload'[w].disabled
    BY <1>1, <1>2 DEF DisabledHoldsNothing, Custodians, Requester
  <2>1. ~lease[l].revoked /\ l \notin tx[p].targets
    BY <1>2
  <2>2. ~workload[w].disabled
    BY <2>1 DEF CustodyInv, DisabledHoldsNothing, Custodians
  <2>3. tx[p].op = "disable" => tx[p].workload # w
    BY <2>1 DEF CustodyInv, Disabling
  <2>4. w \in Workload
    BY CustodiansTyped DEF CustodyInv
  <2> QED BY <2>2, <2>3, <2>4, WithdrawWorkloads
<1> QED BY <1>1, <1>2, <1>3, <1>4, <1>5, <1>6, <1>7, CustodyKept

LEMMA CustodyRegister ==
  ASSUME TypeInv, CustodyInv, NEW w \in Workload, NEW k \in Key, NEW now, RegisterWorkload(w, k, now)
  PROVE  CustodyInv'
<1>1. /\ UNCHANGED <<lease, tx>> /\ ~workload[w].registered
      /\ workload' = [workload EXCEPT ![w] = [Unregistered EXCEPT !.registered = TRUE, !.publicKey = k]]
  BY DEF RegisterWorkload
<1>2. /\ workload'[w].registered /\ ~workload'[w].disabled
      /\ \A v \in Workload : v # w => workload'[v] = workload[v]
  BY <1>1 DEF TypeInv, TypeOK, Unregistered
<1>3. Rows' = Rows
  BY <1>1 DEF Rows
<1>4. Blank'
  BY <1>2 DEF CustodyInv, Blank
<1>5. \A q \in Proc : tx[q].op = "use" => ~lease'[tx[q].lease].revoked
  BY <1>1 DEF CustodyInv, UseLive
<1>6. ASSUME NEW q \in Proc, CreateLocked(q) PROVE HoldersAccepted(tx[q])'
  <2>1. HoldersAccepted(tx[q]) /\ Custodians(tx[q].row) \subseteq Workload
    BY <1>6, CustodiansTyped DEF CustodyInv, Vetted, CreateLocked
  <2>2. tx[q].key \in Key /\ tx[q].row.issuedAt \in Nat
    BY <1>6, TxTypes DEF TypeInv, CreateLocked, CreateTx, LeaseRow
  <2>3. Requester(tx[q].row) # w
    <3>1. workload[w] = Unregistered
      BY <1>1 DEF CustodyInv, Blank
    <3>2. tx[q].key \notin AcceptedKeys(workload[w], tx[q].row.issuedAt)
      BY <2>2, <3>1, ControlPlaneAssumption DEF AcceptedKeys, Unregistered
    <3> QED BY <2>1, <3>2 DEF HoldersAccepted
  <2> QED BY <1>1, <1>2, <2>1, <2>3 DEF HoldersAccepted, AcceptedKeys, Requester, Custodians
<1>7. DisabledHoldsNothing'
  <2>1. \A v \in Workload : workload'[v].disabled => workload[v].disabled
    BY <1>2
  <2>2. \A l \in Rows : Custodians(lease[l]) \subseteq Workload
    BY CustodiansTyped DEF CustodyInv
  <2> QED BY <1>1, <1>3, <2>1, <2>2 DEF CustodyInv, DisabledHoldsNothing, Custodians, Requester
<1> QED BY <1>1, <1>3, <1>4, <1>5, <1>6, <1>7, CustodyKept

LEMMA CustodyNext == TypeInv /\ CustodyInv /\ [Next]_vars => CustodyInv'
<1> SUFFICES ASSUME TypeInv, CustodyInv, [Next]_vars PROVE CustodyInv'
  OBVIOUS
<1>1. CASE Quiet
  BY <1>1, CustodyQuiet DEF Quiet
<1>2. ASSUME NEW p \in Proc, NEW t, Begins(p, t), t.op \in {"idle", "consume", "revoke"}
      PROVE  CustodyInv'
  BY <1>2, CustodyBegins
<1>3. ASSUME NEW p \in Proc, NEW w \in Workload, DisableWorkloadLock(p, w) PROVE CustodyInv'
  <2>1. ~ShareLocked(w)
    BY <1>3 DEF DisableWorkloadLock
  <2> QED BY <1>3, <2>1, DisableLockEffect, CustodyLocks
<1>4. ASSUME NEW p \in Proc, NEW w \in Workload, NEW k, NEW overlap, NEW revokeOutstanding, NEW now,
             RotateWorkloadKeyLock(p, w, k, overlap, revokeOutstanding, now)
      PROVE  CustodyInv'
  <2>1. ~ShareLocked(w)
    BY <1>4 DEF RotateWorkloadKeyLock
  <2>2. PICK t : Begins(p, t) /\ t.op = "rotate" /\ t.workload = w
    BY <1>4, RotateLockEffect
  <2> QED BY <2>1, <2>2, CustodyLocks
<1> QED BY <1>1, <1>2, <1>3, <1>4, CustodyRegister, CustodyMint, CustodyDelegate, CustodyCreateLock,
       CustodyCreateCommit, CustodyWithdraw, CustodyUseLock, CustodyUseCommit, StepCases

\* A disabled workload never holds a live lease nor has one outstanding that it
\* delegated, for any number of requests racing DisableWorkload.
THEOREM DisableIsEffective == Spec => []DisabledHoldsNothing
<1>1. CustodyInv => DisabledHoldsNothing
  BY DEF CustodyInv
<1> QED BY <1>1, TypeInit, TypeNext, CustodyInit, CustodyNext, PTL DEF Spec

\* Only the commit of a use changes uses_consumed, of the lease it has locked.
LEMMA UsesChange ==
  ASSUME TypeInv, [Next]_vars, NEW l \in Rows, lease'[l].usesConsumed # lease[l].usesConsumed
  PROVE  \E p \in Proc : tx[p].op = "use" /\ tx[p].lease = l
<1>1. l \in LeaseId /\ lease[l] \in LeaseRow
  BY DEF Rows, TypeInv, TypeOK
<1>2. ASSUME NEW p \in Proc, Withdraws(p) PROVE FALSE
  <2>1. Revoke(tx[p].targets)
    BY <1>2, WithdrawEffect
  <2>2. lease'[l] = [lease[l] EXCEPT !.revoked = TRUE] \/ lease'[l] = lease[l]
    BY <1>1, <2>1 DEF Revoke
  <2> QED BY <1>1, <2>2 DEF LeaseRow
<1>3. ASSUME NEW p \in Proc, CreateLeaseCommit(p) PROVE FALSE
  <2>1. lease[tx[p].id] = None /\ lease' = [lease EXCEPT ![tx[p].id] = tx[p].row] /\ DOMAIN lease = LeaseId
    BY <1>3, CreateCommitEffect
  <2> QED BY <1>1, <2>1 DEF Rows
<1>4. ASSUME NEW p \in Proc, ConsumeLeaseUseCommit(p) PROVE tx[p].op = "use" /\ tx[p].lease = l
  <2>1. tx[p].op = "use" /\ (lease' = lease \/ lease' = [lease EXCEPT ![tx[p].lease].usesConsumed = tx[p].usesConsumed + 1])
    BY <1>4 DEF ConsumeLeaseUseCommit
  <2> QED BY <1>1, <2>1 DEF TypeInv, TypeOK
<1> QED BY <1>2, <1>3, <1>4, TableWriters

\* A use is never charged to a lease that is revoked, or whose holder is disabled,
\* at the commit, although the holder is read from a snapshot.
THEOREM NoLateUse == Spec => NoUseAfterWithdrawal
<1>1. ASSUME TypeInv, CustodyInv, [Next]_vars
      PROVE  [\A l \in Rows : lease'[l].usesConsumed # lease[l].usesConsumed =>
                ~lease[l].revoked /\ ~workload[lease[l].workload].disabled]_vars
  <2> SUFFICES ASSUME NEW l \in Rows, lease'[l].usesConsumed # lease[l].usesConsumed
               PROVE  ~lease[l].revoked /\ ~workload[lease[l].workload].disabled
    OBVIOUS
  <2>1. ~lease[l].revoked
    BY <1>1, UsesChange DEF CustodyInv, UseLive
  <2> QED BY <1>1, <2>1 DEF CustodyInv, DisabledHoldsNothing
<1> QED BY <1>1, TypeInit, TypeNext, CustodyInit, CustodyNext, PTL DEF Spec, NoUseAfterWithdrawal

\* Only CreateLeaseCommit inserts a row.
LEMMA RowsGrow ==
  ASSUME TypeInv, [Next]_vars, NEW l \in LeaseId, lease[l] = None, lease'[l] # None
  PROVE  \E p \in Proc : CreateLeaseCommit(p) /\ tx[p].id = l
<1>1. lease' # lease /\ l \notin Rows
  BY DEF Rows
<1>2. ASSUME NEW p \in Proc, Withdraws(p) PROVE FALSE
  BY <1>1, <1>2, WithdrawEffect DEF Rows
<1>3. ASSUME NEW p \in Proc, CreateLeaseCommit(p) PROVE tx[p].id = l
  <2>1. lease' = [lease EXCEPT ![tx[p].id] = tx[p].row] /\ DOMAIN lease = LeaseId
    BY <1>3, CreateCommitEffect
  <2> QED BY <2>1
<1>4. ASSUME NEW p \in Proc, ConsumeLeaseUseCommit(p) PROVE FALSE
  BY <1>1, <1>4, UseCommitEffect DEF Rows
<1> QED BY <1>1, <1>2, <1>3, <1>4, TableWriters

\* Nothing a request read outside its transaction is stale when its lease appears:
\* holder and requester are enabled, the requester still accepts the signing key,
\* and the parent is live, in the state the lease is inserted into.
THEOREM CreationIsCurrent == Spec => CreatedFromCurrentState
<1>1. ASSUME TypeInv, CustodyInv, LineageInv, [Next]_vars
      PROVE  [\A l \in LeaseId : lease[l] = None /\ lease'[l] # None =>
                LET row == lease'[l] IN
                /\ ~workload[row.workload].disabled
                /\ ~workload[Requester(row)].disabled
                /\ row.parent # None => lease[row.parent] # None /\ ~lease[row.parent].revoked
                /\ \E p \in Proc : /\ tx[p].op = "create" /\ tx[p].id = l
                                   /\ tx[p].key \in AcceptedKeys(workload[Requester(row)], row.issuedAt)]_vars
  <2> SUFFICES ASSUME NEW l \in LeaseId, lease[l] = None, lease'[l] # None
               PROVE  /\ ~workload[lease'[l].workload].disabled
                      /\ ~workload[Requester(lease'[l])].disabled
                      /\ lease'[l].parent # None => /\ lease[lease'[l].parent] # None
                                                    /\ ~lease[lease'[l].parent].revoked
                      /\ \E p \in Proc : /\ tx[p].op = "create" /\ tx[p].id = l
                                         /\ tx[p].key \in AcceptedKeys(workload[Requester(lease'[l])],
                                                                       lease'[l].issuedAt)
    OBVIOUS
  <2>1. PICK p \in Proc : CreateLeaseCommit(p) /\ tx[p].id = l
    BY <1>1, RowsGrow
  <2>2. lease'[l] = tx[p].row /\ (tx[p].row.parent # None => tx[p].row.parent \in Rows)
    BY <1>1, <2>1, CreateCommitEffect
  <2>3. CreateLocked(p) /\ tx[p].op = "create"
    BY <2>1 DEF CreateLeaseCommit, CreateLocked
  <2>4. HoldersAccepted(tx[p])
    BY <1>1, <2>3 DEF CustodyInv, Vetted
  <2>5. tx[p].row.parent # None => ~lease[tx[p].row.parent].revoked
    BY <1>1, <2>3 DEF LineageInv, ParentLive, Delegating
  <2> QED BY <2>1, <2>2, <2>3, <2>4, <2>5 DEF HoldersAccepted, Rows
<1> QED BY <1>1, TypeInit, TypeNext, CustodyInit, CustodyNext, LineageInit, LineageNext, PTL
       DEF Spec, CreatedFromCurrentState

-------------------------------------------------------------------------------
(* Keys *)

OneRotation == \A p, q \in Proc : tx[p].op = "rotate" /\ tx[q].op = "rotate" => p = q

\* The key a rotation is about to install is accepted for no other workload.
PendingKey ==
  \A p \in Proc : tx[p].op = "rotate" => ~KeyTaken(tx[p].publicKey, tx[p].workload, clock)

KeysInv == OneRotation /\ PendingKey /\ KeysExclusive

\* Accepted keys only expire.
LEMMA KeysExpire ==
  ASSUME NEW row, row.previousExpires \in Nat, NEW s \in Nat, NEW t \in Nat, s <= t
  PROVE  AcceptedKeys(row, t) \subseteq AcceptedKeys(row, s)
BY DEF AcceptedKeys

LEMMA TakenExpires ==
  ASSUME TypeInv, NEW k, NEW w, NEW s \in Nat, NEW t \in Nat, s <= t, ~KeyTaken(k, w, s)
  PROVE  ~KeyTaken(k, w, t)
<1>1. \A v \in Workload : workload[v].previousExpires \in Nat
  BY DEF TypeInv, TypeOK, WorkloadRow
<1>2. \A v \in Workload : AcceptedKeys(workload[v], t) \subseteq AcceptedKeys(workload[v], s)
  BY <1>1, KeysExpire
<1> QED BY <1>2 DEF KeyTaken

LEMMA KeysInit == Init => KeysInv
<1> SUFFICES ASSUME Init PROVE KeysInv
  OBVIOUS
<1>1. \A p \in Proc : tx[p].op = "idle"
  BY DEF Init, Idle
<1>2. ASSUME NEW w \in Workload, workload[w].registered
      PROVE  w \in DOMAIN Enrolled /\ AcceptedKeys(workload[w], clock) = {Enrolled[w]}
  <2>1. w \in DOMAIN Enrolled /\ workload[w] = [Unregistered EXCEPT !.registered = TRUE, !.publicKey = Enrolled[w]]
    BY <1>2 DEF Init, Unregistered
  <2>2. workload[w].publicKey = Enrolled[w] /\ workload[w].previousExpires = 0 /\ clock = 0
    BY <2>1 DEF Unregistered, Init
  <2> QED BY <2>1, <2>2 DEF AcceptedKeys
<1>3. KeysExclusive
  BY <1>2, ControlPlaneAssumption DEF KeysExclusive
<1> QED BY <1>1, <1>3 DEF KeysInv, OneRotation, PendingKey

\* Time passes, rows keep their keys, and no rotation begins.
LEMMA KeysKept ==
  ASSUME TypeInv, KeysInv, clock' \in Nat, clock <= clock',
         \A w \in Workload : /\ workload'[w].registered = workload[w].registered
                             /\ workload'[w].publicKey = workload[w].publicKey
                             /\ workload'[w].previousKey = workload[w].previousKey
                             /\ workload'[w].previousExpires = workload[w].previousExpires,
         \A p \in Proc : tx'[p] = tx[p] \/ tx'[p].op # "rotate"
  PROVE  KeysInv'
<1>1. clock \in Nat /\ \A w \in Workload : workload[w].previousExpires \in Nat
  BY DEF TypeInv, TypeOK, WorkloadRow
<1>2. \A w \in Workload : AcceptedKeys(workload[w], clock)' = AcceptedKeys(workload[w], clock')
  BY DEF AcceptedKeys
<1>3. \A w \in Workload : AcceptedKeys(workload[w], clock') \subseteq AcceptedKeys(workload[w], clock)
  BY <1>1, KeysExpire
<1>4. OneRotation'
  BY DEF KeysInv, OneRotation
<1>5. PendingKey'
  <2> SUFFICES ASSUME NEW p \in Proc, tx'[p].op = "rotate"
               PROVE  ~KeyTaken(tx[p].publicKey, tx[p].workload, clock)'
    BY DEF PendingKey
  <2>1. tx'[p] = tx[p] /\ ~KeyTaken(tx[p].publicKey, tx[p].workload, clock)
    BY DEF KeysInv, PendingKey
  <2> QED BY <1>2, <1>3, <2>1 DEF KeyTaken
<1>6. KeysExclusive'
  BY <1>2, <1>3 DEF KeysInv, KeysExclusive
<1> QED BY <1>4, <1>5, <1>6 DEF KeysInv

LEMMA KeysBegins ==
  ASSUME TypeInv, KeysInv, NEW p \in Proc, NEW t, Begins(p, t), t.op # "rotate"
  PROVE  KeysInv'
<1>1. tx'[p] = t /\ (\A q \in Proc : q # p => tx'[q] = tx[q]) /\ UNCHANGED <<clock, workload>>
  BY BeginsEffect DEF Begins
<1>2. clock' \in Nat /\ clock <= clock'
  BY <1>1 DEF TypeInv, TypeOK
<1> QED BY <1>1, <1>2, KeysKept

LEMMA KeysRotateLock ==
  ASSUME TypeInv, KeysInv, NEW p \in Proc, NEW w \in Workload, NEW k, NEW overlap,
         NEW revokeOutstanding, NEW now \in RequestTime,
         RotateWorkloadKeyLock(p, w, k, overlap, revokeOutstanding, now)
  PROVE  KeysInv'
<1>1. PICK t : Begins(p, t) /\ t.op = "rotate" /\ t.workload = w /\ t.publicKey = k
  BY RotateLockEffect
<1>2. tx'[p] = t /\ (\A q \in Proc : q # p => tx'[q] = tx[q]) /\ UNCHANGED <<clock, workload>>
  BY <1>1, BeginsEffect DEF Begins
<1>3. ~KeysLocked /\ ~KeyTaken(k, w, now)
  BY DEF RotateWorkloadKeyLock
<1>4. now \in Nat /\ clock \in Nat /\ now <= clock
  BY DEF RequestTime, TypeInv, TypeOK
<1>5. ~KeyTaken(k, w, clock)
  BY <1>3, <1>4, TakenExpires
<1>6. \A q \in Proc : tx'[q].op = "rotate" => q = p
  BY <1>2, <1>3 DEF KeysLocked
<1>7. OneRotation'
  BY <1>6 DEF OneRotation
<1>8. PendingKey'
  BY <1>1, <1>2, <1>5, <1>6 DEF PendingKey, KeyTaken, AcceptedKeys
<1>9. KeysExclusive'
  BY <1>2 DEF KeysInv, KeysExclusive, AcceptedKeys
<1> QED BY <1>7, <1>8, <1>9 DEF KeysInv

\* Registration and rotation write one workload row, with no rotation left in
\* flight: its keys must be new, or its own.
LEMMA KeysWritten ==
  ASSUME TypeInv, KeysInv, NEW w \in Workload, NEW k, clock' = clock,
         \A v \in Workload : v # w => workload'[v] = workload[v],
         \A p \in Proc : tx'[p].op # "rotate",
         ~KeyTaken(k, w, clock),
         workload[w].registered \/ workload'[w].previousExpires = 0,
         workload'[w].publicKey = k,
         clock < workload'[w].previousExpires => workload'[w].previousKey = workload[w].publicKey
  PROVE  KeysInv'
<1>1. clock \in Nat
  BY DEF TypeInv, TypeOK
<1>2. OneRotation' /\ PendingKey'
  BY DEF OneRotation, PendingKey
<1>3. \A v \in Workload : v # w => AcceptedKeys(workload[v], clock)' = AcceptedKeys(workload[v], clock)
  BY DEF AcceptedKeys
<1>4. ASSUME NEW j \in AcceptedKeys(workload[w], clock)'
      PROVE  j = k \/ (workload[w].registered /\ j = workload[w].publicKey)
  <2>1. j = k \/ (clock < workload'[w].previousExpires /\ j = workload'[w].previousKey)
    BY DEF AcceptedKeys
  <2>2. workload'[w].previousExpires = 0 => ~(clock < workload'[w].previousExpires)
    BY <1>1
  <2> QED BY <2>1, <2>2
<1>5. workload[w].publicKey \in AcceptedKeys(workload[w], clock)
  BY DEF AcceptedKeys
<1>6. ASSUME NEW v \in Workload, v # w, workload[v].registered
      PROVE  AcceptedKeys(workload[w], clock)' \intersect AcceptedKeys(workload[v], clock) = {}
  <2> SUFFICES ASSUME NEW j \in AcceptedKeys(workload[w], clock)', j \in AcceptedKeys(workload[v], clock)
               PROVE  FALSE
    OBVIOUS
  <2>1. j # k
    BY <1>6 DEF KeyTaken
  <2>2. workload[w].registered /\ j = workload[w].publicKey
    BY <1>4, <2>1
  <2> QED BY <1>5, <1>6, <2>2 DEF KeysInv, KeysExclusive
<1>7. KeysExclusive'
  <2> SUFFICES ASSUME NEW u \in Workload, NEW v \in Workload, u # v, workload'[u].registered, workload'[v].registered
               PROVE  AcceptedKeys(workload[u], clock)' \intersect AcceptedKeys(workload[v], clock)' = {}
    BY DEF KeysExclusive
  <2>1. CASE u # w /\ v # w
    BY <1>3, <2>1 DEF KeysInv, KeysExclusive
  <2>2. CASE u = w
    BY <1>3, <1>6, <2>2
  <2>3. CASE v = w
    BY <1>3, <1>6, <2>3
  <2> QED BY <2>1, <2>2, <2>3
<1> QED BY <1>2, <1>7 DEF KeysInv

LEMMA KeysRegister ==
  ASSUME TypeInv, KeysInv, NEW w \in Workload, NEW k \in Key, NEW now \in RequestTime,
         RegisterWorkload(w, k, now)
  PROVE  KeysInv'
<1>1. /\ UNCHANGED <<clock, tx>> /\ ~KeysLocked /\ ~KeyTaken(k, w, now)
      /\ workload' = [workload EXCEPT ![w] = [Unregistered EXCEPT !.registered = TRUE, !.publicKey = k]]
  BY DEF RegisterWorkload
<1>2. /\ workload'[w].publicKey = k /\ workload'[w].previousExpires = 0
      /\ \A v \in Workload : v # w => workload'[v] = workload[v]
  BY <1>1 DEF TypeInv, TypeOK, Unregistered
<1>3. now \in Nat /\ clock \in Nat /\ now <= clock
  BY DEF RequestTime, TypeInv, TypeOK
<1>4. ~KeyTaken(k, w, clock)
  BY <1>1, <1>3, TakenExpires
<1>5. \A p \in Proc : tx'[p].op # "rotate"
  BY <1>1 DEF KeysLocked
<1>6. ~(clock < workload'[w].previousExpires)
  BY <1>2, <1>3
<1> QED BY <1>1, <1>2, <1>4, <1>5, <1>6, KeysWritten

LEMMA KeysRotateCommit ==
  ASSUME TypeInv, KeysInv, NEW p \in Proc, RotateWorkloadKeyCommit(p)
  PROVE  KeysInv'
<1> DEFINE w == tx[p].workload
<1>1. /\ tx[p].op = "rotate" /\ tx' = [tx EXCEPT ![p] = Idle] /\ clock' = clock
      /\ workload' = [workload EXCEPT ![w] = RotatedRow(workload[w], tx[p])]
  BY DEF RotateWorkloadKeyCommit
<1>2. tx[p] \in RotateTx /\ w \in Workload /\ workload[w].registered
  BY <1>1, TxTypes DEF TypeInv, RotateTx, InFlight, Refers
<1>3. workload[w] \in WorkloadRow
  BY <1>2 DEF TypeInv, TypeOK
<1>4. \A q \in Proc : tx'[q].op # "rotate"
  BY <1>1 DEF TypeInv, TypeOK, Idle, KeysInv, OneRotation
<1>5. ~KeyTaken(tx[p].publicKey, w, clock)
  BY <1>1 DEF KeysInv, PendingKey
<1>6. /\ workload'[w] = RotatedRow(workload[w], tx[p])
      /\ \A v \in Workload : v # w => workload'[v] = workload[v]
  BY <1>1, <1>2 DEF TypeInv, TypeOK
<1>7. /\ RotatedRow(workload[w], tx[p]).publicKey = tx[p].publicKey
      /\ tx[p].overlap > 0 => RotatedRow(workload[w], tx[p]).previousKey = workload[w].publicKey
      /\ ~(tx[p].overlap > 0) => RotatedRow(workload[w], tx[p]).previousExpires = 0
  BY <1>3 DEF RotatedRow, WorkloadRow
<1>8. clock \in Nat
  BY DEF TypeInv, TypeOK
<1>9. clock < workload'[w].previousExpires => workload'[w].previousKey = workload[w].publicKey
  BY <1>6, <1>7, <1>8
<1> HIDE DEF w
<1> QED BY <1>1, <1>2, <1>4, <1>5, <1>6, <1>7, <1>9, KeysWritten

LEMMA KeysCommit ==
  ASSUME TypeInv, KeysInv, NEW p \in Proc,
         \/ CreateLeaseCommit(p) \/ ConsumeLeaseUseCommit(p) \/ RevokeLeaseLineageCommit(p)
         \/ DisableWorkloadCommit(p) \/ CreateLeaseLock(p)
  PROVE  KeysInv'
<1>1. clock' = clock
  BY DEF CreateLeaseCommit, ConsumeLeaseUseCommit, RevokeLeaseLineageCommit, DisableWorkloadCommit, CreateLeaseLock
<1>2. clock' \in Nat /\ clock <= clock'
  BY <1>1 DEF TypeInv, TypeOK
<1>3. \A q \in Proc : tx'[q] = tx[q] \/ tx'[q].op # "rotate"
  <2>1. CASE CreateLeaseLock(p)
    BY <2>1, CreateLockEffect DEF CreateTx, TypeInv, TypeOK
  <2>2. CASE ~CreateLeaseLock(p)
    <3>1. tx' = [tx EXCEPT ![p] = Idle]
      BY <2>2 DEF CreateLeaseCommit, ConsumeLeaseUseCommit, RevokeLeaseLineageCommit, DisableWorkloadCommit
    <3> QED BY <3>1 DEF TypeInv, TypeOK, Idle
  <2> QED BY <2>1, <2>2
<1>4. workload' = workload \/ workload' = [workload EXCEPT ![tx[p].workload].disabled = TRUE]
  BY DEF CreateLeaseCommit, ConsumeLeaseUseCommit, RevokeLeaseLineageCommit, DisableWorkloadCommit, CreateLeaseLock
<1>5. \A w \in Workload : /\ workload'[w].registered = workload[w].registered
                          /\ workload'[w].publicKey = workload[w].publicKey
                          /\ workload'[w].previousKey = workload[w].previousKey
                          /\ workload'[w].previousExpires = workload[w].previousExpires
  BY <1>4 DEF TypeInv, TypeOK, WorkloadRow
<1> QED BY <1>2, <1>3, <1>5, KeysKept

LEMMA KeysNext == TypeInv /\ KeysInv /\ [Next]_vars => KeysInv'
<1> SUFFICES ASSUME TypeInv, KeysInv, [Next]_vars PROVE KeysInv'
  OBVIOUS
<1>1. CASE Quiet
  <2>1. clock' \in Nat /\ clock <= clock' /\ UNCHANGED <<workload, tx>>
    BY <1>1 DEF Quiet, TypeInv, TypeOK
  <2> QED BY <2>1, KeysKept
<1>2. ASSUME NEW p \in Proc, NEW t, Begins(p, t), t.op \in {"idle", "consume", "revoke"}
      PROVE  KeysInv'
  BY <1>2, KeysBegins
<1>3. ASSUME NEW p \in Proc, NEW w, DisableWorkloadLock(p, w) PROVE KeysInv'
  <2>1. PICK t : Begins(p, t) /\ t.op = "disable"
    BY <1>3, DisableLockEffect
  <2> QED BY <2>1, KeysBegins
<1>4. ASSUME NEW p \in Proc, NEW w, NEW k, NEW audience, NEW r, MintRootLease(p, w, k, audience, r)
      PROVE  KeysInv'
  <2>1. PICK t : Begins(p, t) /\ Minted(t, w, k, audience, r)
    BY <1>4, MintEffect
  <2> QED BY <2>1, KeysBegins DEF Minted
<1>5. ASSUME NEW p \in Proc, NEW l, NEW to, NEW k, NEW r, DelegateLease(p, l, to, k, r)
      PROVE  KeysInv'
  <2>1. PICK t : Begins(p, t) /\ Derived(t, lease[l], l, to, k, r)
    BY <1>5, DelegateEffect
  <2> QED BY <2>1, KeysBegins DEF Derived
<1>6. ASSUME NEW p \in Proc, ConsumeLeaseUseLock(p) PROVE KeysInv'
  <2>1. PICK t : Begins(p, t) /\ t.op = "use"
    BY <1>6, UseLockEffect
  <2> QED BY <2>1, KeysBegins
<1> QED BY <1>1, <1>2, <1>3, <1>4, <1>5, <1>6, KeysRegister, KeysRotateLock, KeysRotateCommit, KeysCommit,
       StepCases DEF Withdraws

\* No key ever authenticates two workloads, through any interleaving of
\* registrations, rotations and the overlaps in which previous keys are accepted.
THEOREM KeysAreExclusive == Spec => []KeysExclusive
<1>1. KeysInv => KeysExclusive
  BY DEF KeysInv
<1> QED BY <1>1, TypeInit, TypeNext, KeysInit, KeysNext, PTL DEF Spec

-------------------------------------------------------------------------------
(* The audit trail *)

\* A row is inserted live, so that only withdrawals add to the revoked leases.
NewLive == \A p \in Proc : tx[p].op = "create" => ~tx[p].row.revoked

Created(l) == <<"lease.root_minted", l>> \in audit \/ <<"lease.delegated", l>> \in audit

AuditInv == NewLive /\ AuditAccounts

LEMMA AuditInit == Init => AuditInv
<1> SUFFICES ASSUME Init PROVE AuditInv
  OBVIOUS
<1>1. audit = {} /\ revokedCount = 0 /\ \A p \in Proc : tx[p].op = "idle"
  BY DEF Init, Idle
<1>2. Rows = {}
  BY DEF Init, Rows
<1>3. Cardinality({l \in Rows : lease[l].revoked}) = 0
  BY <1>2, FS_EmptySet
<1> QED BY <1>1, <1>2, <1>3 DEF AuditInv, NewLive, AuditAccounts

LEMMA AuditKept ==
  ASSUME TypeInv, AuditInv, revokedCount' = revokedCount, Rows' = Rows,
         \A l \in Rows : lease'[l].revoked = lease[l].revoked,
         \A l \in LeaseId : Created(l)' <=> Created(l),
         \A p \in Proc : tx'[p] = tx[p] \/ (tx'[p].op = "create" => ~tx'[p].row.revoked)
  PROVE  AuditInv'
<1>1. {l \in Rows' : lease'[l].revoked} = {l \in Rows : lease[l].revoked}
  OBVIOUS
<1>2. AuditAccounts'
  BY <1>1 DEF AuditInv, AuditAccounts, Created
<1>3. NewLive'
  BY DEF AuditInv, NewLive
<1> QED BY <1>2, <1>3 DEF AuditInv

LEMMA AuditBegins ==
  ASSUME TypeInv, AuditInv, NEW p \in Proc, NEW t, Begins(p, t), t.op = "create" => ~t.row.revoked
  PROVE  AuditInv'
<1>1. tx'[p] = t /\ (\A q \in Proc : q # p => tx'[q] = tx[q]) /\ Rows' = Rows
  BY BeginsEffect
<1>2. UNCHANGED <<lease, audit, revokedCount>>
  BY DEF Begins
<1>3. \A l \in LeaseId : Created(l)' <=> Created(l)
  BY <1>2 DEF Created
<1> QED BY <1>1, <1>2, <1>3, AuditKept

\* revoked_count is the number of rows the UPDATE changed: none was revoked before.
LEMMA AuditWithdraw ==
  ASSUME TypeInv, AuditInv, NEW p \in Proc, Withdraws(p)
  PROVE  AuditInv'
<1> DEFINE old == {l \in Rows : lease[l].revoked}
           new == Affected(tx[p].targets)
<1>1. /\ tx[p].targets \in SUBSET LeaseId /\ Revoke(tx[p].targets)
      /\ tx'[p] = Idle /\ (\A q \in Proc : q # p => tx'[q] = tx[q]) /\ Rows' = Rows
      /\ \A l \in LeaseId : /\ <<"lease.root_minted", l>> \in audit' <=> <<"lease.root_minted", l>> \in audit
                            /\ <<"lease.delegated", l>> \in audit' <=> <<"lease.delegated", l>> \in audit
  BY WithdrawEffect
<1>2. \A l \in Rows : lease'[l].revoked = (lease[l].revoked \/ l \in tx[p].targets)
  BY <1>1, RevokeEffect DEF TypeInv
<1>3. new \subseteq Rows /\ old \intersect new = {}
  BY <1>1 DEF Affected, Unrevoked, Rows
<1>4. {l \in Rows' : lease'[l].revoked} = old \union new
  BY <1>1, <1>2 DEF Affected, Unrevoked, Rows
<1>5. IsFiniteSet(old) /\ IsFiniteSet(new)
  <2>1. old \subseteq LeaseId /\ new \subseteq LeaseId /\ IsFiniteSet(LeaseId)
    BY <1>3, ControlPlaneAssumption DEF Rows
  <2> QED BY <2>1, FS_Subset
<1>6. Cardinality(old \union new) = Cardinality(old) + Cardinality(new)
  <2> HIDE DEF old, new
  <2>1. Cardinality(old \union new) = Cardinality(old) + Cardinality(new) - Cardinality(old \intersect new)
    BY <1>5, FS_Union
  <2>2. Cardinality(old \intersect new) = 0
    BY <1>3, FS_EmptySet
  <2>3. Cardinality(old) \in Nat /\ Cardinality(new) \in Nat
    BY <1>5, FS_CardinalityType
  <2> QED BY <2>1, <2>2, <2>3
<1>7. revokedCount' = revokedCount + Cardinality(new) /\ revokedCount = Cardinality(old)
  BY <1>1 DEF Revoke, AuditInv, AuditAccounts
<1>8. revokedCount' = Cardinality({l \in Rows' : lease'[l].revoked})
  BY <1>4, <1>6, <1>7
<1>9. AuditAccounts'
  BY <1>1, <1>8 DEF AuditInv, AuditAccounts
<1>10. NewLive'
  BY <1>1 DEF AuditInv, NewLive, Idle
<1> QED BY <1>9, <1>10 DEF AuditInv

LEMMA AuditCreateCommit ==
  ASSUME TypeInv, AuditInv, NEW p \in Proc, CreateLeaseCommit(p)
  PROVE  AuditInv'
<1> DEFINE id == tx[p].id
           row == tx[p].row
<1>1. /\ id \in LeaseId /\ row # None /\ lease[id] = None
      /\ lease' = [lease EXCEPT ![id] = row] /\ DOMAIN lease = LeaseId
      /\ tx' = [tx EXCEPT ![p] = Idle] /\ tx[p] \in CreateTx
  BY CreateCommitEffect
<1>2. /\ Rows' = Rows \union {id} /\ id \notin Rows /\ lease'[id] = row
      /\ \A l \in Rows : l \in LeaseId /\ lease'[l] = lease[l]
  BY <1>1 DEF Rows
<1>3. tx'[p] = Idle /\ \A q \in Proc : q # p => tx'[q] = tx[q]
  BY <1>1 DEF TypeInv, TypeOK
<1>4. ~row.revoked
  BY <1>1 DEF AuditInv, NewLive, CreateTx
<1>5. {l \in Rows' : lease'[l].revoked} = {l \in Rows : lease[l].revoked}
  BY <1>2, <1>4
<1>6. revokedCount' = revokedCount
  BY DEF CreateLeaseCommit
<1>7. \/ audit' = audit \union {<<"lease.root_minted", id>>}
      \/ audit' = audit \union {<<"lease.delegated", id>>}
  BY DEF CreateLeaseCommit
<1>8. \A l \in LeaseId : Created(l)' <=> Created(l) \/ l = id
  BY <1>7 DEF Created
<1>9. \A l \in LeaseId : l \in Rows <=> Created(l)
  BY DEF AuditInv, AuditAccounts, Created
<1>10. \A l \in LeaseId : l \in Rows' <=> Created(l)'
  BY <1>2, <1>8, <1>9
<1>11. AuditAccounts'
  BY <1>5, <1>6, <1>10 DEF AuditInv, AuditAccounts, Created
<1>12. NewLive'
  BY <1>3 DEF AuditInv, NewLive, Idle
<1> QED BY <1>11, <1>12 DEF AuditInv

LEMMA AuditNext == TypeInv /\ AuditInv /\ [Next]_vars => AuditInv'
<1> SUFFICES ASSUME TypeInv, AuditInv, [Next]_vars PROVE AuditInv'
  OBVIOUS
<1>1. CASE Quiet
  <2>1. Rows' = Rows /\ UNCHANGED <<lease, audit, revokedCount, tx>>
    BY <1>1 DEF Quiet, Rows
  <2> QED BY <2>1, AuditKept DEF Created
<1>2. ASSUME NEW p \in Proc, NEW t, Begins(p, t), t.op \in {"idle", "consume", "revoke"}
      PROVE  AuditInv'
  BY <1>2, AuditBegins
<1>3. ASSUME NEW p \in Proc, NEW w, DisableWorkloadLock(p, w) PROVE AuditInv'
  <2>1. PICK t : Begins(p, t) /\ t.op = "disable"
    BY <1>3, DisableLockEffect
  <2> QED BY <2>1, AuditBegins
<1>4. ASSUME NEW p \in Proc, NEW w, NEW k, NEW overlap, NEW revokeOutstanding, NEW now,
             RotateWorkloadKeyLock(p, w, k, overlap, revokeOutstanding, now)
      PROVE  AuditInv'
  <2>1. PICK t : Begins(p, t) /\ t.op = "rotate"
    BY <1>4, RotateLockEffect
  <2> QED BY <2>1, AuditBegins
<1>5. ASSUME NEW p \in Proc, NEW w, NEW k, NEW audience, NEW r, MintRootLease(p, w, k, audience, r)
      PROVE  AuditInv'
  <2>1. PICK t : Begins(p, t) /\ Minted(t, w, k, audience, r)
    BY <1>5, MintEffect
  <2>2. t.op = "create" => ~t.row.revoked
    BY <2>1 DEF Minted
  <2> QED BY <2>1, <2>2, AuditBegins
<1>6. ASSUME NEW p \in Proc, NEW l, NEW to, NEW k, NEW r, DelegateLease(p, l, to, k, r)
      PROVE  AuditInv'
  <2>1. PICK t : Begins(p, t) /\ Derived(t, lease[l], l, to, k, r)
    BY <1>6, DelegateEffect
  <2>2. t.op = "create" => ~t.row.revoked
    BY <2>1 DEF Derived
  <2> QED BY <2>1, <2>2, AuditBegins
<1>7. ASSUME NEW p \in Proc, ConsumeLeaseUseLock(p) PROVE AuditInv'
  <2>1. PICK t : Begins(p, t) /\ t.op = "use"
    BY <1>7, UseLockEffect
  <2> QED BY <2>1, AuditBegins
<1>8. ASSUME NEW p \in Proc, CreateLeaseLock(p) PROVE AuditInv'
  <2>1. tx[p] \in CreateTx /\ tx'[p].row = tx[p].row /\ tx' = [tx EXCEPT ![p] = tx'[p]]
    BY <1>8, CreateLockEffect
  <2>2. Begins(p, tx'[p])
    BY <1>8, <2>1 DEF Begins, CreateLeaseLock
  <2>3. ~tx'[p].row.revoked
    BY <2>1 DEF AuditInv, NewLive, CreateTx
  <2> QED BY <2>2, <2>3, AuditBegins
<1>9. ASSUME NEW p \in Proc, ConsumeLeaseUseCommit(p) PROVE AuditInv'
  <2>1. Rows' = Rows /\ \A l \in Rows : lease'[l].revoked = lease[l].revoked
    BY <1>9, UseCommitEffect DEF Rows
  <2>2. UNCHANGED <<audit, revokedCount>> /\ tx' = [tx EXCEPT ![p] = Idle]
    BY <1>9 DEF ConsumeLeaseUseCommit
  <2>3. \A q \in Proc : tx'[q] = tx[q] \/ (tx'[q].op = "create" => ~tx'[q].row.revoked)
    BY <2>2 DEF TypeInv, TypeOK, Idle
  <2> QED BY <2>1, <2>2, <2>3, AuditKept DEF Created
<1>10. ASSUME NEW w \in Workload, NEW k, NEW now, RegisterWorkload(w, k, now) PROVE AuditInv'
  <2>1. UNCHANGED <<lease, revokedCount, tx>> /\ audit' = audit \union {<<"workload.registered", w>>}
    BY <1>10 DEF RegisterWorkload
  <2>2. Rows' = Rows /\ \A l \in LeaseId : Created(l)' <=> Created(l)
    BY <2>1 DEF Rows, Created
  <2> QED BY <2>1, <2>2, AuditKept
<1> QED BY <1>1, <1>2, <1>3, <1>4, <1>5, <1>6, <1>7, <1>8, <1>9, <1>10, AuditWithdraw, AuditCreateCommit,
       StepCases

\* However withdrawals overlap, the revoked_count fields add up to the number of
\* revoked leases, and each lease has its creation on record.
THEOREM AuditIsComplete == Spec => []AuditAccounts
<1>1. AuditInv => AuditAccounts
  BY DEF AuditInv
<1> QED BY <1>1, TypeInit, TypeNext, AuditInit, AuditNext, PTL DEF Spec

-------------------------------------------------------------------------------
(* Grants *)

\* The relations WithinGrant compares rows by are transitive (also proved in
\* DelegationChainProofs, whose variables keep it from being extended here).
LEMMA CoversTransitive ==
  ASSUME NEW a \in ResourceString, NEW b \in ResourceString, NEW c \in ResourceString,
         Covers(a, b), Covers(b, c)
  PROVE  Covers(a, c)
<1>1. CASE a = b \/ b = c
  BY <1>1
<1>2. CASE a # b /\ b # c
  <2>1. HasWildcard(a) /\ BelowPrefix(a, b) /\ BelowPrefix(b, c)
    BY <1>2 DEF Covers
  <2>2. Len(a) \in Nat /\ Len(b) \in Nat /\ Len(c) \in Nat
    BY DEF ResourceString
  <2>3. BelowPrefix(a, c)
    BY <2>1, <2>2 DEF BelowPrefix
  <2> QED BY <2>1, <2>3 DEF Covers
<1> QED BY <1>1, <1>2

LEMMA SubsetTransitive ==
  ASSUME NEW a \in SUBSET ResourceString, NEW b \in SUBSET ResourceString,
         NEW c \in SUBSET ResourceString, Subset(b, a), Subset(c, b)
  PROVE  Subset(c, a)
<1> SUFFICES ASSUME NEW r \in c PROVE \E q \in a : Covers(q, r)
  BY DEF Subset
<1>1. PICK s \in b : Covers(s, r)
  BY DEF Subset
<1>2. PICK q \in a : Covers(q, s)
  BY <1>1 DEF Subset
<1>3. Covers(q, r)
  BY <1>1, <1>2, CoversTransitive
<1> QED BY <1>3

LEMMA AtLeastAsStrongTransitive ==
  ASSUME NEW a, NEW b, NEW c, AtLeastAsStrong(a, b), AtLeastAsStrong(b, c)
  PROVE  AtLeastAsStrong(a, c)
<1>1. Valid(a) /\ Valid(b) /\ Valid(c)
  BY DEF AtLeastAsStrong
<1>2. ASSUME NEW key \in DOMAIN a
      PROVE  /\ key \in DOMAIN c
             /\ IF key = AmountKey THEN c[key] <= a[key] ELSE c[key] = a[key]
  <2>1. key \in DOMAIN b /\ key \in DOMAIN c
    BY DEF AtLeastAsStrong
  <2>2. CASE key = AmountKey
    <3>1. Parses(a[key]) /\ Parses(b[key]) /\ Parses(c[key])
      BY <1>1, <2>1, <2>2 DEF Valid
    <3>2. b[key] <= a[key] /\ c[key] <= b[key]
      BY <2>1, <2>2 DEF AtLeastAsStrong
    <3> QED BY <2>1, <2>2, <3>1, <3>2, AmountAssumption DEF Parses
  <2>3. CASE key # AmountKey
    BY <2>1, <2>3 DEF AtLeastAsStrong
  <2> QED BY <2>2, <2>3
<1> QED BY <1>1, <1>2 DEF AtLeastAsStrong

\* Nothing rewrites these columns of a lease.
LEMMA ColumnsKept ==
  ASSUME TypeInv, NEW p \in Proc, Withdraws(p) \/ ConsumeLeaseUseCommit(p)
  PROVE  /\ Rows' = Rows
         /\ \A l \in Rows :
              /\ lease'[l].workload = lease[l].workload /\ lease'[l].rootWorkload = lease[l].rootWorkload
              /\ lease'[l].parent = lease[l].parent /\ lease'[l].root = lease[l].root
              /\ lease'[l].audience = lease[l].audience /\ lease'[l].issuedAt = lease[l].issuedAt
              /\ lease'[l].authority = lease[l].authority
              /\ lease'[l].confirmation = lease[l].confirmation
<1>1. Rows' = Rows
  BY WithdrawEffect, UseCommitEffect DEF Rows
<1>2. ASSUME NEW l \in Rows
      PROVE  \/ lease'[l] = lease[l]
             \/ lease'[l] = [lease[l] EXCEPT !.revoked = TRUE]
             \/ \E n : lease'[l] = [lease[l] EXCEPT !.usesConsumed = n]
  <2>1. l \in LeaseId /\ DOMAIN lease = LeaseId
    BY DEF Rows, TypeInv, TypeOK
  <2>2. CASE Withdraws(p)
    <3>1. Revoke(tx[p].targets)
      BY <2>2, WithdrawEffect
    <3> QED BY <2>1, <3>1 DEF Revoke
  <2>3. CASE ConsumeLeaseUseCommit(p)
    <3>1. lease' = lease \/ lease' = [lease EXCEPT ![tx[p].lease].usesConsumed = tx[p].usesConsumed + 1]
      BY <2>3 DEF ConsumeLeaseUseCommit
    <3> QED BY <2>1, <3>1
  <2> QED BY <2>2, <2>3
<1>3. \A l \in Rows : lease[l] \in LeaseRow
  BY DEF TypeInv, TypeOK, Rows
<1> QED BY <1>1, <1>2, <1>3 DEF LeaseRow

\* A row is within the grant of its root workload, its lifetime counted from
\* when the root was issued.  maxDepth is bounded too: the depth of a child is
\* checked against its parent's, not against the grant.
Within(row, rootIssuedAt) ==
  LET g == Grant[row.rootWorkload] IN
  /\ row.audience \in g.audiences
  /\ row.authority.actions \subseteq g.actions
  /\ row.authority.resources \in SUBSET ResourceString
  /\ Subset(row.authority.resources, g.resources)
  /\ AtLeastAsStrong(g.constraints, row.authority.constraints)
  /\ row.authority.depth <= row.authority.maxDepth
  /\ row.authority.maxDepth <= g.maxDelegationDepth
  /\ row.authority.expiration <= rootIssuedAt + g.maxTTL
  /\ g.requirePoP => row.confirmation # None

\* The grant of a root workload is one that ValidateRoot accepted.
Granting(w) ==
  Grant[w].maxDelegationDepth \in Int /\ Grant[w].resources \in SUBSET ResourceString

RowsWithin ==
  \A l \in Rows :
    /\ lease[lease[l].root].workload = lease[l].rootWorkload
    /\ Granting(lease[l].rootWorkload)
    /\ Within(lease[l], lease[lease[l].root].issuedAt)

NewWithin ==
  \A p \in Proc : tx[p].op = "create" =>
    /\ Granting(tx[p].row.rootWorkload)
    /\ tx[p].row.parent = None => /\ tx[p].row.workload = tx[p].row.rootWorkload
                                  /\ Within(tx[p].row, tx[p].row.issuedAt)
    /\ tx[p].row.parent # None => /\ lease[tx[p].row.root].workload = tx[p].row.rootWorkload
                                  /\ Within(tx[p].row, lease[tx[p].row.root].issuedAt)

GrantedInv == RowsWithin /\ NewWithin

LEMMA GrantedInit == Init => GrantedInv
<1> SUFFICES ASSUME Init PROVE GrantedInv
  OBVIOUS
<1>1. Rows = {} /\ \A p \in Proc : tx[p].op = "idle"
  BY DEF Init, Rows, Idle
<1> QED BY <1>1 DEF GrantedInv, RowsWithin, NewWithin

\* The rows a request in flight depends on.
LEMMA NewRoot ==
  ASSUME TypeInv, NEW p \in Proc, tx[p].op = "create", tx[p].row.parent # None
  PROVE  tx[p].row.parent \in Rows /\ tx[p].row.root \in Rows
<1>1. tx[p].row.parent \in Rows /\ tx[p].row.root = lease[tx[p].row.parent].root
  BY TxTypes DEF TypeInv, InFlight, Refers, Rows, CreateTx, LeaseRow
<1> QED BY <1>1 DEF TypeInv, Forest

LEMMA GrantedKept ==
  ASSUME TypeInv, GrantedInv, Rows' = Rows,
         \A l \in Rows :
           /\ lease'[l].workload = lease[l].workload /\ lease'[l].rootWorkload = lease[l].rootWorkload
           /\ lease'[l].root = lease[l].root /\ lease'[l].audience = lease[l].audience
           /\ lease'[l].issuedAt = lease[l].issuedAt /\ lease'[l].authority = lease[l].authority
           /\ lease'[l].confirmation = lease[l].confirmation,
         \A p \in Proc : tx'[p] = tx[p] \/ tx'[p].op # "create"
  PROVE  GrantedInv'
<1>1. RowsWithin'
  <2> SUFFICES ASSUME NEW l \in Rows
               PROVE  /\ lease'[lease'[l].root].workload = lease'[l].rootWorkload
                      /\ Granting(lease'[l].rootWorkload)
                      /\ Within(lease'[l], lease'[lease'[l].root].issuedAt)
    BY DEF RowsWithin, Granting, Within
  <2>1. lease[l].root \in Rows
    BY DEF TypeInv, Forest
  <2> QED BY <2>1 DEF GrantedInv, RowsWithin, Within
<1>2. NewWithin'
  <2> SUFFICES ASSUME NEW p \in Proc, tx'[p].op = "create"
               PROVE  /\ Granting(tx'[p].row.rootWorkload)
                      /\ tx'[p].row.parent = None => /\ tx'[p].row.workload = tx'[p].row.rootWorkload
                                                     /\ Within(tx'[p].row, tx'[p].row.issuedAt)
                      /\ tx'[p].row.parent # None =>
                           /\ lease'[tx'[p].row.root].workload = tx'[p].row.rootWorkload
                           /\ Within(tx'[p].row, lease'[tx'[p].row.root].issuedAt)
    BY DEF NewWithin, Granting, Within
  <2>1. tx'[p] = tx[p]
    OBVIOUS
  <2> QED BY <2>1, NewRoot DEF GrantedInv, NewWithin
<1> QED BY <1>1, <1>2 DEF GrantedInv

LEMMA GrantedBegins ==
  ASSUME TypeInv, GrantedInv, NEW p \in Proc, NEW t, Begins(p, t),
         t.op = "create" =>
           /\ Granting(t.row.rootWorkload)
           /\ t.row.parent = None => /\ t.row.workload = t.row.rootWorkload
                                     /\ Within(t.row, t.row.issuedAt)
           /\ t.row.parent # None => /\ lease[t.row.root].workload = t.row.rootWorkload
                                     /\ Within(t.row, lease[t.row.root].issuedAt)
  PROVE  GrantedInv'
<1>1. /\ tx'[p] = t /\ (\A q \in Proc : q # p => tx'[q] = tx[q]) /\ Rows' = Rows /\ lease' = lease
  BY BeginsEffect DEF Begins
<1>2. RowsWithin'
  BY <1>1 DEF GrantedInv, RowsWithin, Within, Granting
<1>3. NewWithin'
  <2> SUFFICES ASSUME NEW q \in Proc, tx'[q].op = "create"
               PROVE  /\ Granting(tx'[q].row.rootWorkload)
                      /\ tx'[q].row.parent = None => /\ tx'[q].row.workload = tx'[q].row.rootWorkload
                                                     /\ Within(tx'[q].row, tx'[q].row.issuedAt)
                      /\ tx'[q].row.parent # None =>
                           /\ lease[tx'[q].row.root].workload = tx'[q].row.rootWorkload
                           /\ Within(tx'[q].row, lease[tx'[q].row.root].issuedAt)
    BY <1>1 DEF NewWithin, Granting, Within
  <2>1. CASE q = p
    BY <1>1, <2>1
  <2>2. CASE q # p
    BY <1>1, <2>2 DEF GrantedInv, NewWithin
  <2> QED BY <2>1, <2>2
<1> QED BY <1>2, <1>3 DEF GrantedInv

\* attenuation.ValidateRoot puts a root lease within its workload's grant.
LEMMA GrantedMint ==
  ASSUME TypeInv, GrantedInv, NEW p \in Proc, NEW w \in Workload, NEW k, NEW audience,
         NEW r \in MintRequest, MintRootLease(p, w, k, audience, r)
  PROVE  GrantedInv'
<1> DEFINE g == Grant[w]
           context == RootContext(r, clock + r.ttl)
<1>1. PICK t : Begins(p, t) /\ Minted(t, w, k, audience, r)
  BY MintEffect
<1>2. ValidateRoot(g, audience, context, clock) /\ workload[w].registered
  BY DEF MintRootLease, RootAuthorized
<1>3. Granting(w)
  BY <1>2, RequestsAssumption, DepthAssumption DEF Granting, ValidateRoot, ListOf, hasEmptyOrDuplicate
<1>4. context.resources \in SUBSET ResourceString
  <2>1. context.resources \in ListOf(ResourceString)
    BY RequestsAssumption DEF RootContext
  <2> QED BY <1>2, <2>1 DEF ListOf, ValidateRoot, validateContext, hasEmptyOrDuplicate
<1>5. /\ audience \in g.audiences /\ context.actions \subseteq g.actions
      /\ Subset(context.resources, g.resources) /\ AtLeastAsStrong(g.constraints, context.constraints)
      /\ context.depth <= context.maxDepth /\ context.maxDepth <= g.maxDelegationDepth
      /\ context.expiration <= clock + g.maxTTL
  <2>1. context.depth = 0 /\ context.maxDepth \in Int
    BY RequestsAssumption DEF RootContext
  <2> HIDE DEF context, g
  <2> QED BY <1>2, <2>1 DEF ValidateRoot, validateContext
<1>6. g.requirePoP => Confirmation(r, g.requirePoP, workload[w]) # None
  BY <1>2, ControlPlaneAssumption DEF Confirmation, TypeInv, TypeOK
<1>7. t.row.workload = w /\ t.row.rootWorkload = w /\ t.row.parent = None /\ t.row.issuedAt = clock
  BY <1>1 DEF Minted
<1>8. Within(t.row, clock)
  <2>1. /\ t.row.audience = audience /\ t.row.authority = context
        /\ t.row.confirmation = Confirmation(r, g.requirePoP, workload[w])
    BY <1>1 DEF Minted
  <2> HIDE DEF context
  <2> QED BY <1>4, <1>5, <1>6, <1>7, <2>1 DEF Within
<1> QED BY <1>1, <1>3, <1>7, <1>8, GrantedBegins

\* attenuation.Validate keeps a child within its parent, and so within the grant.
LEMMA GrantedDelegate ==
  ASSUME TypeInv, GrantedInv, NEW p \in Proc, NEW l \in LeaseId, NEW to \in Workload, NEW k,
         NEW r \in DelegateRequest, DelegateLease(p, l, to, k, r)
  PROVE  GrantedInv'
<1> DEFINE parent == lease[l]
           g == Grant[parent.rootWorkload]
           issued == lease[parent.root].issuedAt
           context == ChildContext(parent.authority, r, clock + r.ttl)
<1>1. PICK t : Begins(p, t) /\ Derived(t, parent, l, to, k, r)
  BY DelegateEffect
<1>2. /\ l \in Rows /\ parent \in LeaseRow /\ Validate(parent.authority, context)
      /\ workload[to].registered /\ l # None
  BY ControlPlaneAssumption DEF DelegateLease, ChildAuthorized, Rows, TypeInv, TypeOK
<1>3. /\ lease[parent.root].workload = parent.rootWorkload
      /\ Granting(parent.rootWorkload) /\ Within(parent, issued)
  BY <1>2 DEF GrantedInv, RowsWithin
<1>4. parent.rootWorkload \in Workload /\ parent.authority \in Context /\ issued \in Nat
  <2>1. parent.root \in Rows
    BY <1>2 DEF TypeInv, Forest
  <2>2. lease[parent.root] \in LeaseRow
    BY <2>1 DEF TypeInv, TypeOK, Rows
  <2> QED BY <1>2, <2>2 DEF LeaseRow
<1>5. context.resources \in SUBSET ResourceString
  <2>1. context.resources \in ListOf(ResourceString)
    BY RequestsAssumption DEF ChildContext
  <2> QED BY <1>2, <2>1 DEF ListOf, Validate, validateContext, hasEmptyOrDuplicate
<1>6. /\ context.depth \in Int /\ context.maxDepth \in Int /\ context.expiration \in Int
      /\ parent.authority.maxDepth \in Int /\ parent.authority.expiration \in Int
      /\ g.maxDelegationDepth \in Int /\ g.maxTTL \in Int
  <2>1. /\ parent.authority.depth \in Int /\ parent.authority.maxDepth \in Int
        /\ parent.authority.expiration \in Int
    BY <1>4 DEF Context
  <2>2. r.ttl \in Int /\ clock \in Nat
    BY RequestsAssumption DEF TypeInv, TypeOK
  <2>3. g.maxDelegationDepth \in Int /\ g.maxTTL \in Int
    BY <1>3, <1>4, RequestsAssumption DEF Granting
  <2> HIDE DEF parent, g
  <2> QED BY <2>1, <2>2, <2>3 DEF ChildContext
<1>7. /\ parent.audience \in g.audiences /\ parent.authority.actions \subseteq g.actions
      /\ parent.authority.resources \in SUBSET ResourceString
      /\ Subset(parent.authority.resources, g.resources) /\ g.resources \in SUBSET ResourceString
      /\ AtLeastAsStrong(g.constraints, parent.authority.constraints)
      /\ parent.authority.maxDepth <= g.maxDelegationDepth
      /\ parent.authority.expiration <= issued + g.maxTTL
      /\ g.requirePoP => parent.confirmation # None
  BY <1>3 DEF Within, Granting
<1>8. /\ context.actions \subseteq parent.authority.actions
      /\ Subset(context.resources, parent.authority.resources)
      /\ AtLeastAsStrong(parent.authority.constraints, context.constraints)
      /\ context.depth <= context.maxDepth /\ context.maxDepth <= parent.authority.maxDepth
      /\ context.expiration <= parent.authority.expiration
  <2> HIDE DEF context, parent
  <2> QED BY <1>2, <1>6 DEF Validate
<1>9. /\ context.actions \subseteq g.actions /\ Subset(context.resources, g.resources)
      /\ AtLeastAsStrong(g.constraints, context.constraints)
      /\ context.maxDepth <= g.maxDelegationDepth /\ context.expiration <= issued + g.maxTTL
  <2> HIDE DEF context, parent, g, issued
  <2>1. Subset(context.resources, g.resources)
    BY <1>5, <1>7, <1>8, SubsetTransitive
  <2>2. AtLeastAsStrong(g.constraints, context.constraints)
    BY <1>7, <1>8, AtLeastAsStrongTransitive
  <2> QED BY <1>4, <1>6, <1>7, <1>8, <2>1, <2>2
<1>10. g.requirePoP => Confirmation(r, parent.confirmation # None, workload[to]) # None
  BY <1>2, <1>7, ControlPlaneAssumption DEF Confirmation, TypeInv, TypeOK
<1>11. /\ t.row.rootWorkload = parent.rootWorkload /\ t.row.parent = l /\ t.row.root = parent.root
       /\ t.row.audience = parent.audience /\ t.row.authority = context
       /\ t.row.confirmation = Confirmation(r, parent.confirmation # None, workload[to])
  BY <1>1 DEF Derived
<1>12. Within(t.row, issued)
  <2> HIDE DEF context, parent, issued
  <2> QED BY <1>5, <1>7, <1>8, <1>9, <1>10, <1>11 DEF Within
<1> QED BY <1>1, <1>2, <1>3, <1>11, <1>12, GrantedBegins

LEMMA GrantedCreateCommit ==
  ASSUME TypeInv, GrantedInv, NEW p \in Proc, CreateLeaseCommit(p)
  PROVE  GrantedInv'
<1> DEFINE id == tx[p].id
           row == tx[p].row
<1>1. /\ id \in LeaseId /\ row # None /\ lease[id] = None
      /\ lease' = [lease EXCEPT ![id] = row] /\ DOMAIN lease = LeaseId
      /\ tx' = [tx EXCEPT ![p] = Idle] /\ tx[p] \in CreateTx
      /\ row.parent = None => row.root = id
  BY CreateCommitEffect
<1>2. /\ Rows' = Rows \union {id} /\ id \notin Rows /\ lease'[id] = row
      /\ \A l \in Rows : l \in LeaseId /\ lease'[l] = lease[l]
  BY <1>1 DEF Rows
<1>3. \A q \in Proc : tx'[q].op = "create" => tx'[q] = tx[q]
  BY <1>1 DEF TypeInv, TypeOK, Idle
<1>4. tx[p].op = "create"
  BY <1>1 DEF CreateTx
<1>5. ASSUME NEW l \in Rows'
      PROVE  /\ lease'[lease'[l].root].workload = lease'[l].rootWorkload
             /\ Granting(lease'[l].rootWorkload)
             /\ Within(lease'[l], lease'[lease'[l].root].issuedAt)
  <2>1. CASE l \in Rows
    <3>1. lease[l].root \in Rows
      BY <2>1 DEF TypeInv, Forest
    <3> QED BY <1>2, <2>1, <3>1 DEF GrantedInv, RowsWithin
  <2>2. CASE l = id /\ row.parent = None
    BY <1>1, <1>2, <1>4, <2>2 DEF GrantedInv, NewWithin
  <2>3. CASE l = id /\ row.parent # None
    BY <1>1, <1>2, <1>4, <2>3, NewRoot DEF GrantedInv, NewWithin
  <2> QED BY <1>2, <2>1, <2>2, <2>3
<1>6. RowsWithin'
  BY <1>5 DEF RowsWithin, Granting, Within
<1>7. NewWithin'
  <2> SUFFICES ASSUME NEW q \in Proc, tx'[q].op = "create"
               PROVE  /\ Granting(tx'[q].row.rootWorkload)
                      /\ tx'[q].row.parent = None => /\ tx'[q].row.workload = tx'[q].row.rootWorkload
                                                     /\ Within(tx'[q].row, tx'[q].row.issuedAt)
                      /\ tx'[q].row.parent # None =>
                           /\ lease'[tx'[q].row.root].workload = tx'[q].row.rootWorkload
                           /\ Within(tx'[q].row, lease'[tx'[q].row.root].issuedAt)
    BY DEF NewWithin, Granting, Within
  <2>1. tx'[q] = tx[q]
    BY <1>3
  <2> QED BY <1>2, <2>1, NewRoot DEF GrantedInv, NewWithin
<1> QED BY <1>6, <1>7 DEF GrantedInv

LEMMA GrantedNext == TypeInv /\ GrantedInv /\ [Next]_vars => GrantedInv'
<1> SUFFICES ASSUME TypeInv, GrantedInv, [Next]_vars PROVE GrantedInv'
  OBVIOUS
<1>1. ASSUME UNCHANGED <<lease, tx>> PROVE GrantedInv'
  <2>1. Rows' = Rows
    BY <1>1 DEF Rows
  <2> QED BY <1>1, <2>1, GrantedKept
<1>2. ASSUME NEW p \in Proc, NEW t, Begins(p, t), t.op # "create" PROVE GrantedInv'
  BY <1>2, GrantedBegins
<1>3. ASSUME NEW p \in Proc, NEW w, DisableWorkloadLock(p, w) PROVE GrantedInv'
  <2>1. PICK t : Begins(p, t) /\ t.op = "disable"
    BY <1>3, DisableLockEffect
  <2> QED BY <1>2, <2>1
<1>4. ASSUME NEW p \in Proc, NEW w, NEW k, NEW overlap, NEW revokeOutstanding, NEW now,
             RotateWorkloadKeyLock(p, w, k, overlap, revokeOutstanding, now)
      PROVE  GrantedInv'
  <2>1. PICK t : Begins(p, t) /\ t.op = "rotate"
    BY <1>4, RotateLockEffect
  <2> QED BY <1>2, <2>1
<1>5. ASSUME NEW p \in Proc, ConsumeLeaseUseLock(p) PROVE GrantedInv'
  <2>1. PICK t : Begins(p, t) /\ t.op = "use"
    BY <1>5, UseLockEffect
  <2> QED BY <1>2, <2>1
<1>6. ASSUME NEW p \in Proc, CreateLeaseLock(p) PROVE GrantedInv'
  <2>1. tx[p] \in CreateTx /\ tx'[p].row = tx[p].row /\ tx' = [tx EXCEPT ![p] = tx'[p]]
    BY <1>6, CreateLockEffect
  <2>2. Begins(p, tx'[p]) /\ tx[p].op = "create"
    BY <1>6, <2>1 DEF Begins, CreateLeaseLock
  <2>3. /\ Granting(tx[p].row.rootWorkload)
        /\ tx[p].row.parent = None => /\ tx[p].row.workload = tx[p].row.rootWorkload
                                      /\ Within(tx[p].row, tx[p].row.issuedAt)
        /\ tx[p].row.parent # None => /\ lease[tx[p].row.root].workload = tx[p].row.rootWorkload
                                      /\ Within(tx[p].row, lease[tx[p].row.root].issuedAt)
    BY <2>2 DEF GrantedInv, NewWithin
  <2> QED BY <2>1, <2>2, <2>3, GrantedBegins
<1>7. ASSUME NEW p \in Proc, Withdraws(p) \/ ConsumeLeaseUseCommit(p) PROVE GrantedInv'
  <2>1. \A q \in Proc : tx'[q] = tx[q] \/ tx'[q].op # "create"
    <3>1. CASE Withdraws(p)
      BY <3>1, WithdrawEffect DEF Idle
    <3>2. CASE ConsumeLeaseUseCommit(p)
      <4>1. tx' = [tx EXCEPT ![p] = Idle]
        BY <3>2 DEF ConsumeLeaseUseCommit
      <4> QED BY <4>1 DEF TypeInv, TypeOK, Idle
    <3> QED BY <1>7, <3>1, <3>2
  <2> QED BY <1>7, <2>1, ColumnsKept, GrantedKept
<1>8. ASSUME NEW w, NEW k, NEW now, RegisterWorkload(w, k, now) PROVE GrantedInv'
  BY <1>1, <1>8 DEF RegisterWorkload
<1>9. CASE Quiet
  BY <1>1, <1>9 DEF Quiet
<1> QED BY <1>2, <1>3, <1>4, <1>5, <1>6, <1>7, <1>8, <1>9, GrantedMint, GrantedDelegate, GrantedCreateCommit,
       StepCases

\* No lease exceeds the grant of the workload at the root of its lineage, in
\* authority, audience, depth, lifetime or proof of possession, however many
\* delegations, each validated outside its transaction, lie between.
THEOREM LeasesStayWithinGrant == Spec => []WithinGrant
<1>1. TypeInv /\ GrantedInv => WithinGrant
  <2> SUFFICES ASSUME TypeInv, GrantedInv, NEW l \in Rows
               PROVE  LET row == lease[l]
                          g   == Grant[row.rootWorkload]
                      IN  /\ row.root \in Rows /\ lease[row.root].workload = row.rootWorkload
                          /\ row.audience \in g.audiences
                          /\ row.authority.actions \subseteq g.actions
                          /\ Subset(row.authority.resources, g.resources)
                          /\ AtLeastAsStrong(g.constraints, row.authority.constraints)
                          /\ row.authority.depth <= g.maxDelegationDepth
                          /\ row.authority.expiration <= lease[row.root].issuedAt + g.maxTTL
                          /\ g.requirePoP => row.confirmation # None
    BY DEF WithinGrant
  <2>1. lease[l].root \in Rows
    BY DEF TypeInv, Forest
  <2>2. /\ lease[lease[l].root].workload = lease[l].rootWorkload /\ Granting(lease[l].rootWorkload)
        /\ Within(lease[l], lease[lease[l].root].issuedAt)
    BY DEF GrantedInv, RowsWithin
  <2>3. lease[l].authority.depth \in Int /\ lease[l].authority.maxDepth \in Int
    BY DEF TypeInv, TypeOK, Rows, LeaseRow, Context
  <2>4. lease[l].authority.depth <= Grant[lease[l].rootWorkload].maxDelegationDepth
    BY <2>2, <2>3 DEF Within, Granting
  <2> QED BY <2>1, <2>2, <2>4 DEF Within
<1> QED BY <1>1, TypeInit, TypeNext, GrantedInit, GrantedNext, PTL DEF Spec

-------------------------------------------------------------------------------
(* The promise of a limited-use lease *)

\* The four values Budget(l) is made of.
ChargedKeys(uses) == [n \in 1 .. Cardinality(uses) |-> (CHOOSE c \in uses : c.use = n).key]
Balance(l) == IF lease[l] = None THEN 0 ELSE lease[l].authority.maxUses
Withdrawn(l) == lease[l] # None /\ lease[l].revoked
Ran(l) == {k \in IdempotencyKey : <<l, k>> \in performed}

BudgetStep(l) == Budget(l)!Next \/ UNCHANGED Budget(l)!vars

LEMMA BudgetStutters ==
  ASSUME NEW l, Balance(l)' = Balance(l), Withdrawn(l)' = Withdrawn(l), UsesOf(l)' = UsesOf(l),
         Ran(l)' = Ran(l)
  PROVE  BudgetStep(l)
<1>1. ChargedKeys(UsesOf(l))' = ChargedKeys(UsesOf(l))
  BY DEF ChargedKeys
<1> QED BY <1>1 DEF BudgetStep, Budget!vars, Balance, Withdrawn, Ran, ChargedKeys

LEMMA BudgetIssues ==
  ASSUME NEW l, Balance(l) = 0, Balance(l)' \in Nat \ {0}, Withdrawn(l)' = Withdrawn(l),
         UsesOf(l)' = UsesOf(l), Ran(l)' = Ran(l)
  PROVE  BudgetStep(l)
<1>1. ChargedKeys(UsesOf(l))' = ChargedKeys(UsesOf(l))
  BY DEF ChargedKeys
<1> QED BY <1>1 DEF BudgetStep, Budget!Next, Budget!Issue, Balance, Withdrawn, Ran, ChargedKeys

LEMMA BudgetWithdraws ==
  ASSUME NEW l, ~Withdrawn(l), Withdrawn(l)', Balance(l)' = Balance(l),
         UsesOf(l)' = UsesOf(l), Ran(l)' = Ran(l)
  PROVE  BudgetStep(l)
<1>1. ChargedKeys(UsesOf(l))' = ChargedKeys(UsesOf(l))
  BY DEF ChargedKeys
<1> QED BY <1>1 DEF BudgetStep, Budget!Next, Budget!Withdraw, Balance, Withdrawn, Ran, ChargedKeys

LEMMA BudgetCharges ==
  ASSUME NEW l, NEW o \in IdempotencyKey, ~Withdrawn(l), Len(ChargedKeys(UsesOf(l))) < Balance(l),
         \A n \in DOMAIN ChargedKeys(UsesOf(l)) : ChargedKeys(UsesOf(l))[n] # o,
         ChargedKeys(UsesOf(l))' = Append(ChargedKeys(UsesOf(l)), o),
         Balance(l)' = Balance(l), Withdrawn(l)' = Withdrawn(l), Ran(l)' = Ran(l)
  PROVE  BudgetStep(l)
<1>1. Budget(l)!Charge(o)
  BY DEF Budget!Charge, Balance, Withdrawn, Ran, ChargedKeys
<1> QED BY <1>1 DEF BudgetStep, Budget!Next

LEMMA BudgetPerforms ==
  ASSUME NEW l, NEW o \in IdempotencyKey,
         \E n \in DOMAIN ChargedKeys(UsesOf(l)) : ChargedKeys(UsesOf(l))[n] = o,
         Ran(l)' = Ran(l) \union {o}, Balance(l)' = Balance(l), Withdrawn(l)' = Withdrawn(l),
         UsesOf(l)' = UsesOf(l)
  PROVE  BudgetStep(l)
<1>1. ChargedKeys(UsesOf(l))' = ChargedKeys(UsesOf(l))
  BY DEF ChargedKeys
<1>2. Budget(l)!Perform(o)
  BY <1>1 DEF Budget!Perform, Balance, Withdrawn, Ran, ChargedKeys
<1> QED BY <1>2 DEF BudgetStep, Budget!Next

\* The charges of a lease are its uses_consumed rows, one per number.
LEMMA UsesNumbered ==
  ASSUME TypeInv, BudgetInv, NEW l \in Rows
  PROVE  /\ lease[l].usesConsumed \in Nat
         /\ IsFiniteSet(UsesOf(l)) /\ Cardinality(UsesOf(l)) = lease[l].usesConsumed
         /\ \A c \in UsesOf(l) : /\ c.use \in 1 .. lease[l].usesConsumed
                                 /\ (CHOOSE d \in UsesOf(l) : d.use = c.use) = c
         /\ \A n \in 1 .. lease[l].usesConsumed :
              /\ (CHOOSE c \in UsesOf(l) : c.use = n) \in UsesOf(l)
              /\ (CHOOSE c \in UsesOf(l) : c.use = n).use = n
<1> DEFINE u == lease[l].usesConsumed
           uses == UsesOf(l)
           charge(n) == CHOOSE c \in uses : c.use = n
           f == [n \in 1 .. u |-> charge(n)]
<1>1. u \in Nat
  BY DEF TypeInv, TypeOK, Rows, LeaseRow
<1>2. {c.use : c \in uses} = 1 .. u /\ \A c, d \in uses : c.use = d.use => c = d
  BY DEF BudgetInv, UsesWithinBudget, UsesOf
<1>3. \A n \in 1 .. u : \E c \in uses : c.use = n
  BY <1>2
<1> HIDE DEF u, uses
<1>4. \A n \in 1 .. u : charge(n) \in uses /\ charge(n).use = n
  BY <1>3
<1>5. \A c \in uses : c.use \in 1 .. u /\ charge(c.use) = c
  <2>1. \A c \in uses : c.use \in 1 .. u
    BY <1>2
  <2> QED BY <1>2, <1>4, <2>1
<1>6. f \in Bijection(1 .. u, uses)
  <2> HIDE DEF charge
  <2>1. f \in Injection(1 .. u, uses)
    BY <1>4 DEF Injection, IsInjective
  <2>2. f \in Surjection(1 .. u, uses)
    BY <1>4, <1>5 DEF Surjection
  <2> QED BY <2>1, <2>2 DEF Bijection
<1>7. IsFiniteSet(uses) /\ Cardinality(uses) = u
  <2>1. IsFiniteSet(1 .. u) /\ Cardinality(1 .. u) = u
    BY <1>1, FS_Interval
  <2>2. ExistsBijection(1 .. u, uses)
    BY <1>6 DEF ExistsBijection
  <2> QED BY <2>1, <2>2, FS_Bijection
<1> QED BY <1>1, <1>4, <1>5, <1>7 DEF u, uses

\* One more charge, with the next number, is appended to the keys charged.
LEMMA ChargeAppends ==
  ASSUME NEW uses, NEW u \in Nat, NEW charge, NEW K,
         IsFiniteSet(uses), Cardinality(uses) = u, charge.use = u + 1, charge.key \in K,
         \A c \in uses : c.use \in 1 .. u /\ c.key \in K,
         \A c, d \in uses : c.use = d.use => c = d,
         \A n \in 1 .. u : \E c \in uses : c.use = n
  PROVE  /\ ChargedKeys(uses) \in Seq(K) /\ Len(ChargedKeys(uses)) = u
         /\ ChargedKeys(uses \union {charge}) = Append(ChargedKeys(uses), charge.key)
<1> DEFINE new == uses \union {charge}
           first(n) == CHOOSE c \in uses : c.use = n
           then(n) == CHOOSE c \in new : c.use = n
           s == ChargedKeys(uses)
<1>1. charge \notin uses
  OBVIOUS
<1>2. Cardinality(new) = u + 1
  BY <1>1, FS_AddElement
<1>3. \A n \in 1 .. u : first(n) \in uses /\ first(n).use = n
  OBVIOUS
<1>4. \A n \in 1 .. u + 1 : then(n) \in new /\ then(n).use = n
  <2>1. \A n \in 1 .. u + 1 : n \in 1 .. u \/ n = u + 1
    OBVIOUS
  <2>2. \A n \in 1 .. u + 1 : \E c \in new : c.use = n
    BY <2>1
  <2> HIDE DEF new
  <2> QED BY <2>2
<1> HIDE DEF first, then
<1>5. \A n \in 1 .. u : then(n) = first(n)
  <2> TAKE n \in 1 .. u
  <2>1. n \in 1 .. u + 1 /\ n # u + 1
    OBVIOUS
  <2>2. then(n) \in new /\ then(n).use = n
    BY <1>4, <2>1
  <2>3. then(n) \in uses
    BY <2>1, <2>2
  <2> QED BY <1>3, <2>2, <2>3
<1>6. then(u + 1) = charge
  <2>1. u + 1 \in 1 .. u + 1
    OBVIOUS
  <2>2. then(u + 1) \in new /\ then(u + 1).use = u + 1
    BY <1>4, <2>1
  <2> QED BY <2>2
<1>7. s = [n \in 1 .. u |-> first(n).key]
  BY DEF ChargedKeys, first
<1>8. ChargedKeys(new) = [n \in 1 .. u + 1 |-> then(n).key]
  BY <1>2 DEF ChargedKeys, then
<1>9. s \in Seq(K) /\ Len(s) = u /\ DOMAIN s = 1 .. u
  <2>1. s \in [1 .. u -> K]
    BY <1>3, <1>7
  <2> HIDE DEF s
  <2> QED BY <2>1
<1>10. Append(s, charge.key) = [n \in 1 .. u + 1 |-> then(n).key]
  <2>1. \A n \in 1 .. u : s[n] = then(n).key
    BY <1>5, <1>7
  <2> HIDE DEF s
  <2> DEFINE e == Append(s, charge.key)
  <2>2. e \in Seq(K) /\ Len(e) = u + 1 /\ DOMAIN e = 1 .. u + 1
    BY <1>9
  <2>3. \A n \in 1 .. u + 1 : e[n] = then(n).key
    BY <1>6, <1>9, <2>1
  <2> HIDE DEF e
  <2> QED BY <2>2, <2>3 DEF e
<1> QED BY <1>8, <1>9, <1>10

\* Inserting a row issues its budget, if it has one.
LEMMA PromiseCreateCommit ==
  ASSUME TypeInv, BudgetInv, NewLive, NEW p \in Proc, CreateLeaseCommit(p), performed' = performed,
         NEW l \in LeaseId
  PROVE  BudgetStep(l)
<1>1. /\ tx[p].row \in LeaseRow /\ tx[p].row # None /\ lease[tx[p].id] = None
      /\ lease' = [lease EXCEPT ![tx[p].id] = tx[p].row] /\ DOMAIN lease = LeaseId
  BY CreateCommitEffect
<1>2. UsesOf(l)' = UsesOf(l) /\ Ran(l)' = Ran(l)
  BY DEF CreateLeaseCommit, UsesOf, Ran
<1>3. CASE l # tx[p].id
  <2>1. lease'[l] = lease[l]
    BY <1>1, <1>3
  <2> QED BY <1>2, <2>1, BudgetStutters DEF Balance, Withdrawn
<1>4. CASE l = tx[p].id
  <2>1. lease'[l] = tx[p].row
    BY <1>1, <1>4
  <2>2. tx[p].op = "create"
    BY DEF CreateLeaseCommit, CreateLocked
  <2>3. ~tx[p].row.revoked /\ tx[p].row.authority.maxUses >= 0
    BY <2>2 DEF NewLive, BudgetInv, NewUnused, Unused
  <2>4. tx[p].row.authority.maxUses \in Nat
    BY <1>1, <2>3 DEF LeaseRow, Context
  <2>5. Balance(l) = 0 /\ Balance(l)' \in Nat /\ ~Withdrawn(l) /\ ~Withdrawn(l)'
    BY <1>1, <1>4, <2>1, <2>3, <2>4 DEF Balance, Withdrawn
  <2>6. Withdrawn(l)' = Withdrawn(l)
    BY <2>5 DEF Withdrawn
  <2>7. CASE Balance(l)' = 0
    BY <1>2, <2>5, <2>6, <2>7, BudgetStutters
  <2>8. CASE Balance(l)' # 0
    BY <1>2, <2>5, <2>6, <2>8, BudgetIssues
  <2> QED BY <2>7, <2>8
<1> QED BY <1>3, <1>4

\* A withdrawal flips revoked of the rows it affects, once.
LEMMA PromiseWithdraw ==
  ASSUME TypeInv, NEW p \in Proc, Withdraws(p), performed' = performed, NEW l \in LeaseId
  PROVE  BudgetStep(l)
<1>1. Revoke(tx[p].targets) /\ consumption' = consumption
  BY WithdrawEffect
<1>2. UsesOf(l)' = UsesOf(l) /\ Ran(l)' = Ran(l)
  BY <1>1 DEF UsesOf, Ran
<1>3. CASE l \in Affected(tx[p].targets)
  <2>1. lease'[l] = [lease[l] EXCEPT !.revoked = TRUE] /\ lease[l] # None /\ ~lease[l].revoked
    BY <1>1, <1>3 DEF Revoke, Affected, Unrevoked
  <2>2. lease[l] \in LeaseRow
    BY <2>1 DEF TypeInv, TypeOK
  <2>3. lease'[l] \in LeaseRow /\ lease'[l].revoked /\ lease'[l].authority = lease[l].authority
    BY <2>1, <2>2 DEF LeaseRow
  <2>4. lease'[l] # None
    BY <2>3, NullAssumption
  <2> QED BY <1>2, <2>1, <2>3, <2>4, BudgetWithdraws DEF Balance, Withdrawn
<1>4. CASE l \notin Affected(tx[p].targets)
  <2>1. lease'[l] = lease[l]
    BY <1>1, <1>4 DEF Revoke
  <2> QED BY <1>2, <2>1, BudgetStutters DEF Balance, Withdrawn
<1> QED BY <1>3, <1>4

\* The commit of a use charges the key that asked for it, unless it is charged.
LEMMA PromiseUseCommit ==
  ASSUME TypeInv, BudgetInv, UseLive, NEW p \in Proc, ConsumeLeaseUseCommit(p),
         performed' = performed, NEW l \in LeaseId
  PROVE  BudgetStep(l)
<1> DEFINE a == tx[p].lease
           o == tx[p].key
           use == tx[p].usesConsumed + 1
           charge == [lease |-> a, key |-> o, use |-> use]
<1>1. tx[p] \in UseTx /\ tx[p].op = "use"
  BY TxTypes DEF ConsumeLeaseUseCommit, TypeInv
<1>2. a \in Rows /\ a \in LeaseId /\ lease[a] \in LeaseRow /\ o \in IdempotencyKey
  BY <1>1 DEF TypeInv, TypeOK, InFlight, Refers, Rows, UseTx
<1>3. Ran(l)' = Ran(l)
  BY DEF Ran
<1>4. CASE UNCHANGED <<lease, consumption>>
  BY <1>3, <1>4, BudgetStutters DEF Balance, Withdrawn, UsesOf
<1>5. CASE /\ ~ \E c \in consumption : c.lease = a /\ c.key = o
           /\ tx[p].usesConsumed < tx[p].maxUses
           /\ consumption' = consumption \union {charge}
           /\ lease' = [lease EXCEPT ![a].usesConsumed = use]
  <2>1. /\ tx[p].maxUses = lease[a].authority.maxUses
        /\ tx[p].usesConsumed = lease[a].usesConsumed
        /\ lease[a].usesConsumed \in Nat /\ lease[a].authority.maxUses \in Int
    BY <1>1, <1>2 DEF BudgetInv, UseRead, LeaseRow, Context
  <2>2. charge.lease = a /\ charge.key = o /\ charge.use = use
    OBVIOUS
  <2> HIDE DEF charge
  <2>3. CASE l # a
    <3>1. lease'[l] = lease[l]
      BY <1>5, <2>3 DEF TypeInv, TypeOK
    <3>2. UsesOf(l)' = UsesOf(l)
      BY <1>5, <2>2, <2>3 DEF UsesOf
    <3> QED BY <1>3, <3>1, <3>2, BudgetStutters DEF Balance, Withdrawn
  <2>4. CASE l = a
    <3>1. UsesOf(l)' = UsesOf(l) \union {charge}
      BY <1>5, <2>2, <2>4 DEF UsesOf
    <3> DEFINE u == lease[l].usesConsumed
               uses == UsesOf(l)
    <3>2. /\ u \in Nat /\ IsFiniteSet(uses) /\ Cardinality(uses) = u
          /\ \A c \in uses : c.use \in 1 .. u
          /\ \A n \in 1 .. u : \E c \in uses : c.use = n
      BY <1>2, <2>4, UsesNumbered
    <3>3. /\ \A c, d \in uses : c.use = d.use => c = d
          /\ \A c \in uses : c.key \in IdempotencyKey /\ c.key # o
      BY <1>2, <1>5, <2>4 DEF BudgetInv, UsesWithinBudget, UsesOf, TypeInv, TypeOK
    <3>4. /\ Len(ChargedKeys(uses)) = u
          /\ ChargedKeys(uses \union {charge}) = Append(ChargedKeys(uses), o)
      <4> HIDE DEF u, uses, o
      <4>1. charge.use = u + 1 /\ charge.key = o
        BY <2>1, <2>2, <2>4 DEF u
      <4> QED BY <1>2, <3>2, <3>3, <4>1, ChargeAppends
    <3>5. ChargedKeys(UsesOf(l))' = Append(ChargedKeys(UsesOf(l)), o)
      BY <3>1, <3>4
    <3>6. \A n \in DOMAIN ChargedKeys(uses) : ChargedKeys(uses)[n] # o
      <4>1. \A n \in 1 .. u : (CHOOSE c \in uses : c.use = n) \in uses
        BY <1>2, <2>4, UsesNumbered
      <4> QED BY <3>2, <3>3, <4>1 DEF ChargedKeys
    <3>7. lease'[l] = [lease[l] EXCEPT !.usesConsumed = use]
      BY <1>2, <1>5, <2>4 DEF TypeInv, TypeOK
    <3>8. /\ lease'[l] # None /\ lease'[l].authority = lease[l].authority
          /\ lease'[l].revoked = lease[l].revoked
      <4>1. lease'[l] \in LeaseRow
        BY <1>2, <2>1, <2>4, <3>7 DEF LeaseRow
      <4> QED BY <1>2, <2>4, <3>7, <4>1, NullAssumption DEF LeaseRow
    <3>9. /\ ~Withdrawn(l) /\ Withdrawn(l)' = Withdrawn(l)
          /\ Balance(l)' = Balance(l) /\ u < Balance(l)
      BY <1>1, <1>2, <1>5, <2>1, <2>4, <3>8 DEF Withdrawn, Balance, UseLive, Rows
    <3> QED BY <1>2, <1>3, <3>4, <3>5, <3>6, <3>9, BudgetCharges
  <2> QED BY <2>3, <2>4
<1> QED BY <1>4, <1>5 DEF ConsumeLeaseUseCommit

\* A step of the server keeps the promise of every lease.
LEMMA PromiseServer ==
  ASSUME TypeInv, BudgetInv, CustodyInv, AuditInv, [Next]_vars, performed' = performed,
         NEW l \in LeaseId
  PROVE  BudgetStep(l)
<1> NewLive /\ UseLive
  BY DEF AuditInv, CustodyInv
<1>1. CASE UNCHANGED <<lease, consumption>>
  BY <1>1, BudgetStutters DEF Balance, Withdrawn, Ran, UsesOf
<1>2. CASE ~UNCHANGED <<lease, consumption>>
  BY <1>2, TableWriters, PromiseCreateCommit, PromiseWithdraw, PromiseUseCommit
<1> QED BY <1>1, <1>2

-------------------------------------------------------------------------------
(* The services *)

CallType ==
  /\ call \in [Call -> {NoCall} \union [pc : {"waiting", "allowed"}, lease : LeaseId, key : IdempotencyKey]]
  /\ serving \in [Proc -> Call \union {None}]

\* Process p is charging the lease and key of call c.
Charging(p, c) ==
  tx[p].op \in {"consume", "use"} /\ tx[p].lease = call[c].lease /\ tx[p].key = call[c].key

\* Only a call that waits is served, by one process, which charges what it asks.
Served ==
  /\ \A p \in Proc : serving[p] # None =>
       call[serving[p]].pc = "waiting" /\ Charging(p, serving[p])
  /\ \A p, q \in Proc : serving[p] # None /\ serving[p] = serving[q] => p = q

\* A call is allowed once its key is charged.
Paid ==
  \A c \in Call : call[c].pc = "allowed" =>
    \E u \in consumption : u.lease = call[c].lease /\ u.key = call[c].key

CallInv == CallType /\ Served /\ Paid

LEMMA CallInit == UseInit => CallInv
<1> SUFFICES ASSUME UseInit PROVE CallInv
  OBVIOUS
<1>1. call = [c \in Call |-> NoCall] /\ serving = [p \in Proc |-> None] /\ NoCall.pc = "none"
  BY DEF UseInit, NoCall
<1> QED BY <1>1 DEF CallInv, CallType, Served, Paid

\* Charges are never taken back.
LEMMA ConsumptionGrows ==
  ASSUME [Next]_vars
  PROVE  consumption \subseteq consumption'
<1>1. CASE UNCHANGED <<lease, consumption>>
  BY <1>1
<1>2. ASSUME NEW p \in Proc, CreateLeaseCommit(p) \/ Withdraws(p) PROVE consumption \subseteq consumption'
  BY <1>2 DEF CreateLeaseCommit, Withdraws, RevokeLeaseLineageCommit, DisableWorkloadCommit,
     RotateWorkloadKeyCommit
<1>3. ASSUME NEW p \in Proc, ConsumeLeaseUseCommit(p) PROVE consumption \subseteq consumption'
  BY <1>3 DEF ConsumeLeaseUseCommit
<1> QED BY <1>1, <1>2, <1>3, TableWriters

\* A transaction that charges a use goes on charging it, or ends.
LEMMA ChargingMoves ==
  ASSUME TypeInv, [Next]_vars, NEW p \in Proc, tx[p].op \in {"consume", "use"}
  PROVE  \/ tx'[p] = tx[p] \/ tx'[p] = Idle
         \/ tx'[p].op = "use" /\ tx'[p].lease = tx[p].lease /\ tx'[p].key = tx[p].key
<1> tx \in [Proc -> Transaction] /\ tx[p] # Idle
  BY DEF TypeInv, TypeOK, Idle
<1>1. CASE UNCHANGED tx
  BY <1>1
<1>2. ASSUME NEW q \in Proc, NEW t, tx[q] = Idle, tx' = [tx EXCEPT ![q] = t] PROVE tx'[p] = tx[p]
  BY <1>2
<1>3. ASSUME NEW q \in Proc, Admin(q) PROVE tx'[p] = tx[p]
  BY <1>2, <1>3 DEF Admin, DisableWorkloadLock, RotateWorkloadKeyLock, RevokeLeaseLineageLock
<1>4. ASSUME NEW q \in Proc, Client(q) PROVE tx'[p] = tx[p]
  BY <1>2, <1>4 DEF Client, MintRootLease, DelegateLease, ConsumeLease, Prepare
<1>5. ASSUME NEW q \in Proc, CreateLeaseLock(q) PROVE tx'[p] = tx[p]
  <2>1. tx[q].op = "create" /\ \A r \in Proc : r # q => tx'[r] = tx[r]
    BY <1>5 DEF CreateLeaseLock
  <2> QED BY <2>1
<1>6. ASSUME NEW q \in Proc, ConsumeLeaseUseLock(q)
      PROVE  \/ tx'[p] = tx[p]
             \/ tx'[p].op = "use" /\ tx'[p].lease = tx[p].lease /\ tx'[p].key = tx[p].key
  <2>1. PICK t : Begins(q, t) /\ t.op = "use" /\ t.lease = tx[q].lease /\ t.key = tx[q].key
    BY <1>6, UseLockEffect
  <2>2. tx'[q] = t /\ \A r \in Proc : r # q => tx'[r] = tx[r]
    BY <2>1, BeginsEffect
  <2> QED BY <2>1, <2>2
<1>7. ASSUME NEW q \in Proc, Progress(q), ~CreateLeaseLock(q), ~ConsumeLeaseUseLock(q)
      PROVE  tx'[p] = tx[p] \/ tx'[p] = Idle
  <2>1. tx' = [tx EXCEPT ![q] = Idle]
    BY <1>7 DEF Progress, CreateLeaseCommit, RevokeLeaseLineageCommit, DisableWorkloadCommit,
       RotateWorkloadKeyCommit, ConsumeLeaseUseCommit, Rollback
  <2> QED BY <2>1
<1> QED BY <1>1, <1>3, <1>4, <1>5, <1>6, <1>7 DEF Next, RegisterWorkload, Tick, vars

\* A step of the server: a call whose process ended is no longer served.
LEMMA CallServer ==
  ASSUME TypeInv, CallInv, [Next]_vars, UNCHANGED call,
         serving' = [p \in Proc |-> IF tx'[p] = Idle THEN None ELSE serving[p]]
  PROVE  CallInv'
<1>1. CallType'
  BY DEF CallInv, CallType
<1>2. \A p \in Proc : serving'[p] # None => serving[p] # None /\ serving'[p] = serving[p] /\ tx'[p] # Idle
  OBVIOUS
<1>3. ASSUME NEW p \in Proc, serving'[p] # None
      PROVE  call'[serving'[p]].pc = "waiting" /\ Charging(p, serving[p])'
  <2>1. serving[p] # None /\ serving'[p] = serving[p] /\ tx'[p] # Idle
    BY <1>2, <1>3
  <2>2. call[serving[p]].pc = "waiting" /\ Charging(p, serving[p])
    BY <2>1 DEF CallInv, Served
  <2>3. \/ tx'[p] = tx[p]
        \/ tx'[p].op = "use" /\ tx'[p].lease = tx[p].lease /\ tx'[p].key = tx[p].key
    BY <2>1, <2>2, ChargingMoves DEF Charging
  <2> QED BY <2>1, <2>2, <2>3 DEF Charging
<1>4. Served'
  <2>1. \A p, q \in Proc : serving'[p] # None /\ serving'[p] = serving'[q] => p = q
    BY <1>2 DEF CallInv, Served
  <2> QED BY <1>3, <2>1 DEF Served
<1>5. Paid'
  BY ConsumptionGrows DEF CallInv, Paid
<1> QED BY <1>1, <1>4, <1>5 DEF CallInv

\* The 200 of a commit reaches a call whose key the commit charged, or found charged.
LEMMA CallConsumed ==
  ASSUME TypeInv, CallInv, NEW p \in Proc, Consumed(p)
  PROVE  CallInv' /\ Next
<1> DEFINE c == serving[p]
<1>1. /\ c \in Call /\ call[c].pc = "waiting" /\ Charging(p, c) /\ ConsumeLeaseUseCommit(p)
      /\ call' = [call EXCEPT ![c].pc = "allowed"] /\ serving' = [serving EXCEPT ![p] = None]
  BY DEF Consumed, CallInv, CallType, Served
<1>2. Next
  BY <1>1 DEF Next, Progress
<1>3. /\ call[c] \in [pc : {"waiting", "allowed"}, lease : LeaseId, key : IdempotencyKey]
      /\ call'[c] = [call[c] EXCEPT !.pc = "allowed"]
      /\ \A d \in Call : d # c => call'[d] = call[d]
  BY <1>1 DEF CallInv, CallType, NoCall
<1>4. /\ call'[c] \in [pc : {"waiting", "allowed"}, lease : LeaseId, key : IdempotencyKey]
      /\ call'[c].lease = call[c].lease /\ call'[c].key = call[c].key
  BY <1>3
<1>5. CallType'
  BY <1>1, <1>3, <1>4 DEF CallInv, CallType
<1>6. serving'[p] = None /\ \A q \in Proc : q # p => serving'[q] = serving[q] /\ tx'[q] = tx[q]
  BY <1>1 DEF CallInv, CallType, ConsumeLeaseUseCommit, TypeInv, TypeOK
<1>7. \A q \in Proc : serving'[q] # None => q # p /\ serving[q] # None /\ serving[q] # c /\ serving[q] \in Call
  BY <1>1, <1>6 DEF CallInv, CallType, Served
<1>8. Served'
  <2>1. ASSUME NEW q \in Proc, serving'[q] # None
        PROVE  call'[serving'[q]].pc = "waiting" /\ Charging(q, serving[q])'
    BY <1>3, <1>6, <1>7, <2>1 DEF CallInv, Served, Charging
  <2>2. \A q, r \in Proc : serving'[q] # None /\ serving'[q] = serving'[r] => q = r
    BY <1>6, <1>7 DEF CallInv, Served
  <2> QED BY <2>1, <2>2 DEF Served
<1>9. Paid'
  <2>1. \E u \in consumption' : u.lease = call[c].lease /\ u.key = call[c].key
    <3> DEFINE charge == [lease |-> tx[p].lease, key |-> tx[p].key, use |-> tx[p].usesConsumed + 1]
    <3>1. charge.lease = tx[p].lease /\ charge.key = tx[p].key
      OBVIOUS
    <3>2. \/ \E u \in consumption' : u.lease = tx[p].lease /\ u.key = tx[p].key
          \/ charge \in consumption'
      BY <1>1 DEF ConsumeLeaseUseCommit
    <3> QED BY <1>1, <3>1, <3>2 DEF Charging
  <2> QED BY <1>2, <1>3, <1>4, <2>1, ConsumptionGrows DEF CallInv, Paid
<1> QED BY <1>2, <1>5, <1>8, <1>9 DEF CallInv

\* A POST is served instead of the call's earlier tries.
LEMMA CallConsume ==
  ASSUME TypeInv, CallInv, NEW p \in Proc, NEW c \in Call, Consume(p, c)
  PROVE  CallInv' /\ Next
<1>1. /\ call[c].pc = "waiting" /\ ConsumeLease(p, call[c].lease, call[c].key)
      /\ serving' = [Dropped(c) EXCEPT ![p] = c] /\ call' = call
  BY DEF Consume
<1>2. call[c].lease \in LeaseId /\ call[c].key \in IdempotencyKey /\ None \notin Call
  BY <1>1, CallAssumption DEF CallInv, CallType, NoCall
<1>3. Next
  BY <1>1, <1>2 DEF Next, Client
<1>4. /\ serving'[p] = c
      /\ \A q \in Proc : q # p => serving'[q] = IF serving[q] = c THEN None ELSE serving[q]
  BY <1>1 DEF Dropped
<1>5. CallType'
  BY <1>1 DEF CallInv, CallType, Dropped
<1>6. /\ tx'[p].op = "consume" /\ tx'[p].lease = call[c].lease /\ tx'[p].key = call[c].key
      /\ \A q \in Proc : q # p => tx'[q] = tx[q]
  BY <1>1 DEF ConsumeLease, TypeInv, TypeOK
<1>7. Served'
  <2>1. ASSUME NEW q \in Proc, serving'[q] # None
        PROVE  call'[serving'[q]].pc = "waiting" /\ Charging(q, serving[q])'
    <3>1. CASE q = p
      BY <1>1, <1>4, <1>6, <3>1 DEF Charging
    <3>2. CASE q # p
      BY <1>1, <1>4, <1>6, <2>1, <3>2 DEF CallInv, Served, Charging
    <3> QED BY <3>1, <3>2
  <2>2. \A q, r \in Proc : serving'[q] # None /\ serving'[q] = serving'[r] => q = r
    BY <1>2, <1>4 DEF CallInv, Served
  <2> QED BY <2>1, <2>2 DEF Served
<1>8. Paid'
  BY <1>1, <1>3, ConsumptionGrows DEF CallInv, Paid
<1> QED BY <1>3, <1>5, <1>7, <1>8 DEF CallInv

\* A call comes, performs its operation or gives up: the server does not notice.
LEMMA CallMoves ==
  ASSUME TypeInv, CallInv, NEW c \in Call, NEW s, call' = [call EXCEPT ![c] = s],
         UNCHANGED vars,
         s = NoCall \/ (s \in [pc : {"waiting"}, lease : LeaseId, key : IdempotencyKey] /\ call[c] = NoCall),
         \/ serving' = serving /\ call[c].pc # "waiting"
         \/ serving' = Dropped(c)
  PROVE  CallInv'
<1>1. /\ s.pc \in {"none", "waiting"} /\ call'[c] = s /\ \A d \in Call : d # c => call'[d] = call[d]
      /\ UNCHANGED <<tx, consumption>> /\ NoCall.pc = "none"
  BY DEF CallInv, CallType, NoCall, vars
<1>2. CallType'
  BY DEF CallInv, CallType, Dropped
<1>3. \A p \in Proc : serving'[p] # None =>
        serving'[p] = serving[p] /\ serving[p] # c /\ serving[p] \in Call
  BY DEF CallInv, CallType, Served, Dropped
<1>4. Served'
  <2>1. ASSUME NEW q \in Proc, serving'[q] # None
        PROVE  call'[serving'[q]].pc = "waiting" /\ Charging(q, serving[q])'
    BY <1>1, <1>3, <2>1 DEF CallInv, Served, Charging
  <2>2. \A q, r \in Proc : serving'[q] # None /\ serving'[q] = serving'[r] => q = r
    BY <1>3 DEF CallInv, Served
  <2> QED BY <2>1, <2>2 DEF Served
<1>5. Paid'
  BY <1>1 DEF CallInv, Paid
<1> QED BY <1>2, <1>4, <1>5 DEF CallInv

\* Every step of the composed system is a step of the server, or none.
LEMMA CallNext ==
  ASSUME TypeInv, CallInv, [UseNext]_useVars
  PROVE  CallInv' /\ [Next]_vars
<1>1. CASE Server
  BY <1>1, CallServer DEF Server
<1>2. ASSUME NEW p \in Proc, Consumed(p) PROVE CallInv' /\ [Next]_vars
  BY <1>2, CallConsumed
<1>3. ASSUME NEW p \in Proc, NEW c \in Call, Consume(p, c) PROVE CallInv' /\ [Next]_vars
  BY <1>3, CallConsume
<1>4. ASSUME NEW c \in Call, NEW l \in LeaseId, NEW k \in IdempotencyKey, Authorize(c, l, k)
      PROVE  CallInv' /\ [Next]_vars
  <2> DEFINE s == [pc |-> "waiting", lease |-> l, key |-> k]
  <2>1. s \in [pc : {"waiting"}, lease : LeaseId, key : IdempotencyKey]
    OBVIOUS
  <2>2. /\ call[c] = NoCall /\ call[c].pc # "waiting" /\ UNCHANGED <<vars, serving>>
        /\ call' = [call EXCEPT ![c] = s]
    BY <1>4 DEF Authorize, NoCall
  <2> QED BY <2>1, <2>2, CallMoves
<1>5. ASSUME NEW c \in Call, Perform(c) PROVE CallInv' /\ [Next]_vars
  <2>1. /\ call[c].pc # "waiting" /\ UNCHANGED <<vars, serving>>
        /\ call' = [call EXCEPT ![c] = NoCall]
    BY <1>5 DEF Perform
  <2> QED BY <2>1, CallMoves
<1>6. ASSUME NEW c \in Call, Refuse(c) PROVE CallInv' /\ [Next]_vars
  <2>1. /\ serving' = Dropped(c) /\ UNCHANGED vars
        /\ call' = [call EXCEPT ![c] = NoCall]
    BY <1>6 DEF Refuse
  <2> QED BY <2>1, CallMoves
<1>7. CASE UNCHANGED useVars
  <2>1. UNCHANGED <<vars, call, serving, tx, consumption>>
    BY <1>7 DEF useVars, callVars, vars
  <2>2. CallInv'
    BY <2>1 DEF CallInv, CallType, Served, Charging, Paid
  <2> QED BY <2>1, <2>2
<1> QED BY <1>1, <1>2, <1>3, <1>4, <1>5, <1>6, <1>7 DEF UseNext

\* A handler runs only when its key is charged.
LEMMA PromisePerform ==
  ASSUME TypeInv, BudgetInv, CallInv, NEW c \in Call, Perform(c), NEW l \in LeaseId
  PROVE  BudgetStep(l)
<1> DEFINE k == call[c].key
<1>1. /\ call[c].pc = "allowed" /\ performed' = performed \union {<<call[c].lease, k>>}
      /\ UNCHANGED <<lease, consumption>>
  BY DEF Perform, vars
<1>2. UsesOf(l)' = UsesOf(l) /\ Balance(l)' = Balance(l) /\ Withdrawn(l)' = Withdrawn(l)
  BY <1>1 DEF UsesOf, Balance, Withdrawn
<1>3. CASE call[c].lease # l
  <2>1. Ran(l)' = Ran(l)
    BY <1>1, <1>3 DEF Ran
  <2> QED BY <1>2, <2>1, BudgetStutters
<1>4. CASE call[c].lease = l
  <2>1. k \in IdempotencyKey
    BY <1>1 DEF CallInv, CallType, NoCall
  <2>2. Ran(l)' = Ran(l) \union {k}
    BY <1>1, <1>4, <2>1 DEF Ran
  <2>3. PICK u \in UsesOf(l) : u.key = k
    BY <1>1, <1>4 DEF CallInv, Paid, UsesOf
  <2>4. l \in Rows
    BY <2>3 DEF BudgetInv, Charged, UsesOf
  <2>5. /\ u.use \in 1 .. Cardinality(UsesOf(l))
        /\ (CHOOSE d \in UsesOf(l) : d.use = u.use) = u
    BY <2>3, <2>4, UsesNumbered
  <2>6. u.use \in DOMAIN ChargedKeys(UsesOf(l)) /\ ChargedKeys(UsesOf(l))[u.use] = k
    BY <2>3, <2>5 DEF ChargedKeys
  <2> QED BY <1>2, <2>1, <2>2, <2>6, BudgetPerforms
<1> QED BY <1>3, <1>4

\* The server and the services that use it implement UseBudget for every lease:
\* a use is charged once per key, within max_uses, never after the withdrawal and
\* never taken back, and no handler runs before its charge, whatever requests,
\* retries, lost answers, rollbacks and withdrawals interleave.
THEOREM PromiseKept == UseSpec => KeepsBudget
<1> DEFINE Inv == TypeInv /\ BudgetInv /\ CustodyInv /\ AuditInv /\ CallInv
           Step == \A l \in LeaseId : Budget(l)!Next \/ UNCHANGED Budget(l)!vars
<1>1. UseInit => Inv
  BY TypeInit, BudgetInit, CustodyInit, AuditInit, CallInit DEF UseInit
<1>2. Inv /\ [UseNext]_useVars => Inv'
  BY CallNext, TypeNext, BudgetNext, CustodyNext, AuditNext
<1>3. UseInit => \A l \in LeaseId : Budget(l)!Init
  <2> SUFFICES ASSUME UseInit, NEW l \in LeaseId PROVE Budget(l)!Init
    OBVIOUS
  <2>1. lease[l] = None /\ UsesOf(l) = {} /\ performed = {}
    BY DEF UseInit, Init, UsesOf
  <2>2. ChargedKeys(UsesOf(l)) = << >>
    BY <2>1, FS_EmptySet DEF ChargedKeys
  <2> QED BY <2>1, <2>2 DEF Budget!Init, ChargedKeys
<1>4. Inv /\ [UseNext]_useVars => [Step]_useVars
  <2> SUFFICES ASSUME Inv, UseNext, NEW l \in LeaseId PROVE BudgetStep(l)
    BY DEF BudgetStep
  <2>1. ASSUME NEW c \in Call, Perform(c) PROVE BudgetStep(l)
    BY <2>1, PromisePerform
  <2>2. CASE performed' = performed
    BY <2>2, CallNext, PromiseServer
  <2> QED BY <2>1, <2>2 DEF UseNext, Server, Consumed, Consume, Authorize, Refuse
<1> QED BY <1>1, <1>2, <1>3, <1>4, PTL DEF UseSpec, KeepsBudget
===============================================================================
