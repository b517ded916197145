----------------------------- MODULE ControlPlane -----------------------------
(***************************************************************************)
(* The lease server: internal/usecase over internal/repository over        *)
(* PostgreSQL.  Several requests run concurrently; each is a process that  *)
(* holds one request at a time in tx.                                      *)
(*                                                                         *)
(* Transactions run at READ COMMITTED (pgx.BeginFunc with no options):     *)
(*  - a transaction's writes are applied by its Commit action;             *)
(*  - a statement sees the rows committed when it starts, so the set of    *)
(*    leases that UPDATE leases ... WHERE id IN (SELECT id FROM affected)  *)
(*    will touch is fixed by the ...Lock action (targets), and only the    *)
(*    condition revoked_at IS NULL is evaluated again at the Commit, on    *)
(*    the rows it then locks;                                              *)
(*  - a row or advisory lock is held from the Lock action to the Commit or *)
(*    Rollback; who holds what is read off tx.                             *)
(* Consecutive statements that only take locks and read what the locks     *)
(* protect are one action: what they read cannot change until the last of  *)
(* the locks is granted.  Locks the last statements take and release with  *)
(* the commit (UPDATE leases, FOR UPDATE OF lease, foreign keys) are       *)
(* guards of the Commit action.                                            *)
(*                                                                         *)
(* Rows are abstracted to what later decisions read: disabled_at and       *)
(* revoked_at to booleans, timestamps to seconds, token and token hash to  *)
(* the lease they name, grant_version (always 1) left out.  A request that *)
(* is refused before its transaction changes nothing and is not a step; a  *)
(* check that fails inside it ends in Rollback.                            *)
(***************************************************************************)
EXTENDS Authority

CONSTANTS
  Workload, Key, LeaseId, IdempotencyKey, Proc,
  None,              \* SQL NULL
  Grant,             \* the authority grant submitted with each workload
  Enrolled,          \* keys of the workloads registered at the start
  MintRequest,       \* bodies of POST /v1/leases
  DelegateRequest,   \* bodies of POST /v1/leases/{id}/delegate
  Overlap,           \* overlaps an administrator may ask a rotation for
  Ops,               \* operations clients use in this instance
  MaxClock, MaxDelay \* bounds: the clock; seconds a request waits for its locks

Operation == {"register", "rotate", "disable", "mint", "delegate", "revoke", "consume"}

ASSUME ControlPlaneAssumption ==
  /\ None \notin Workload \union Key \union LeaseId /\ IsFiniteSet(LeaseId)
  /\ DOMAIN Grant = Workload
  /\ DOMAIN Enrolled \subseteq Workload
  /\ \A w \in DOMAIN Enrolled : Enrolled[w] \in Key
  /\ \A v, w \in DOMAIN Enrolled : Enrolled[v] = Enrolled[w] => v = w
  /\ \A w \in DOMAIN Enrolled : validateGrant(Grant[w])
  /\ Overlap \subseteq Nat /\ Ops \subseteq Operation
  /\ MaxClock \in Nat /\ MaxDelay \in Nat

ASSUME RequestsAssumption ==
  /\ \A r \in MintRequest \union DelegateRequest : r.actions \in ListOf(Action)
  /\ \A r \in MintRequest : /\ r.resources \in ListOf(ResourceString) /\ r.ttl \in Int
                            /\ r.maxDepth \in Int /\ r.maxUses \in Int /\ r.pop \in BOOLEAN
  /\ \A r \in DelegateRequest : /\ r.resources \in ListOf(ResourceString) /\ r.ttl \in Int
                                /\ r.maxUses \in Int /\ r.pop \in BOOLEAN
  /\ \A w \in Workload : Grant[w].resources \in ListOf(ResourceString) /\ Grant[w].maxTTL \in Int

VARIABLES
  clock,          \* seconds
  workload,       \* table workloads
  lease,          \* table leases
  consumption,    \* table lease_consumptions
  audit,          \* table audit_events: the (event_type, subject) pairs recorded
  revokedCount,   \* sum of details.revoked_count over audit_events
  tx              \* the request each process is serving

vars == <<clock, workload, lease, consumption, audit, revokedCount, tx>>

Rows == {l \in LeaseId : lease[l] # None}

-------------------------------------------------------------------------------
(* Queries *)

\* Keys a workload row accepts at a time: the current key, and the previous one
\* until it expires (acceptedWorkloadKey, workloadAcceptsThumbprint and
\* authenticatedWorkloadKey make the same test).
AcceptedKeys(row, at) ==
  {row.publicKey} \union (IF at < row.previousExpires THEN {row.previousKey} ELSE {})

\* Mutant: previous keys that still authenticate are not searched.
KeyTakenAsCurrent(k, w, at) ==
  \E v \in Workload \ {w} : workload[v].registered /\ k = workload[v].publicKey

\* A workload other than w owns key k at time at.
KeyTaken(k, w, at) ==
  \E v \in Workload \ {w} : workload[v].registered /\ k \in AcceptedKeys(workload[v], at)

\* The recursive CTE: start and everything reachable from it along
\* parent_lease_id, as the least set that contains start and is closed.
Lineage(start) ==
  {l \in LeaseId : \A S \in SUBSET LeaseId :
     (start \subseteq S /\ \A c \in Rows : lease[c].parent \in S => c \in S) => l \in S}

\* Leases a withdrawing UPDATE will touch: not yet revoked in its snapshot.
Unrevoked(S) == {l \in S : lease[l] # None /\ ~lease[l].revoked}

HeldBy(w) == {l \in Rows : lease[l].workload = w}

\* lockLineage: the ancestor without a parent names the advisory lock.
RootOf(l) == CHOOSE a \in Rows : lease[a].parent = None /\ l \in Lineage({a})

-------------------------------------------------------------------------------
(* Locks *)

CreateLocked(q) == tx[q].op = "create" /\ tx[q].pc = "locked"

\* Mutant: only the holder's row is locked, not the delegator's.
ShareLockedHolder(w) == \E q \in Proc : CreateLocked(q) /\ w = tx[q].row.workload

\* CreateLease's SELECT ... FROM workloads ... FOR SHARE
ShareLocked(w) ==
  \E q \in Proc : CreateLocked(q) /\ w \in {tx[q].row.workload, tx[q].row.delegatedBy}

\* UPDATE workloads (disable) or SELECT ... FOR UPDATE (rotate)
WriteLocked(w) == \E q \in Proc : tx[q].op \in {"disable", "rotate"} /\ tx[q].workload = w

\* pg_advisory_xact_lock(workloadKeyLockID)
KeysLocked == \E q \in Proc : tx[q].op = "rotate"

\* Mutant: CreateLease does not take the lineage lock.
LineageLockedByRevoke(root) == \E q \in Proc : tx[q].op = "revoke" /\ tx[q].root = root

\* pg_advisory_xact_lock(hashtextextended(root, 0))
LineageLocked(root) ==
  \E q \in Proc : (CreateLocked(q) \/ tx[q].op = "revoke") /\ tx[q].root = root

\* CreateLease's SELECT ... FROM leases ... FOR SHARE on the parent
ParentLocked(l) == \E q \in Proc : CreateLocked(q) /\ tx[q].row.parent = l

\* Mutant: the lease is read without FOR UPDATE.
UseNotLocked(l) == FALSE

\* ConsumeLeaseUse's SELECT ... FOR UPDATE OF lease
UseLocked(l) == \E q \in Proc : tx[q].op = "use" /\ tx[q].lease = l

Idle == [op |-> "idle"]

-------------------------------------------------------------------------------
(* Workloads *)

Unregistered == [registered |-> FALSE, disabled |-> FALSE, publicKey |-> None,
                 previousKey |-> None, previousExpires |-> 0]

\* One transaction under the key lock.  now was read before waiting for it.
RegisterWorkload(w, k, now) ==
  /\ "register" \in Ops
  /\ ~workload[w].registered
  /\ validateGrant(Grant[w])
  /\ ~KeysLocked
  /\ ~KeyTaken(k, w, now)
  /\ workload' = [workload EXCEPT ![w] = [Unregistered EXCEPT !.registered = TRUE, !.publicKey = k]]
  /\ audit' = audit \union {<<"workload.registered", w>>}
  /\ UNCHANGED <<clock, lease, consumption, revokedCount, tx>>

\* Mutant: revoked_at IS NULL is tested in the snapshot only.
AffectedInSnapshot(targets) == targets

\* Rows a withdrawing UPDATE still has to change, once it can lock them.
Affected(targets) == Unrevoked(targets)

\* Mutant: the update does not wait for a use in flight.
LockableDuringUse(targets) == \A l \in Affected(targets) : ~ParentLocked(l)

Lockable(targets) == \A l \in Affected(targets) : ~ParentLocked(l) /\ ~UseLocked(l)

Revoke(targets) ==
  /\ lease' = [l \in LeaseId |-> IF l \in Affected(targets) THEN [lease[l] EXCEPT !.revoked = TRUE]
                                                            ELSE lease[l]]
  /\ revokedCount' = revokedCount + Cardinality(Affected(targets))

DisableWorkloadLock(p, w) ==
  /\ "disable" \in Ops
  /\ tx[p] = Idle
  /\ workload[w].registered
  /\ ~ShareLocked(w) /\ ~WriteLocked(w)
  /\ tx' = [tx EXCEPT ![p] = [op |-> "disable", workload |-> w,
                              targets |-> Unrevoked(Lineage(HeldBy(w)))]]
  /\ UNCHANGED <<clock, workload, lease, consumption, audit, revokedCount>>

DisableWorkloadCommit(p) ==
  /\ tx[p].op = "disable"
  /\ Lockable(tx[p].targets)
  /\ workload' = [workload EXCEPT ![tx[p].workload].disabled = TRUE]
  /\ Revoke(tx[p].targets)
  /\ audit' = audit \union {<<"workload.disabled", tx[p].workload>>}
  /\ tx' = [tx EXCEPT ![p] = Idle]
  /\ UNCHANGED <<clock, consumption>>

\* The unique index on previous_public_key ignores expiry: a rotation that keeps
\* the old key for an overlap fails while another row still names that key.
PreviousKeyUnique(w, overlap) ==
  overlap > 0 => \A v \in Workload \ {w} : workload[v].previousKey # workload[w].publicKey

RotateWorkloadKeyLock(p, w, k, overlap, revokeOutstanding, now) ==
  /\ "rotate" \in Ops
  /\ tx[p] = Idle
  /\ workload[w].registered
  /\ ~KeysLocked
  /\ ~ShareLocked(w) /\ ~WriteLocked(w)
  /\ ~workload[w].disabled
  /\ ~KeyTaken(k, w, now)
  /\ PreviousKeyUnique(w, overlap)
  /\ tx' = [tx EXCEPT ![p] = [op |-> "rotate", workload |-> w, publicKey |-> k,
                              overlap |-> overlap, rotatedAt |-> now,
                              targets |-> IF revokeOutstanding
                                            THEN Unrevoked(Lineage(HeldBy(w))) ELSE {}]]
  /\ UNCHANGED <<clock, workload, lease, consumption, audit, revokedCount>>

\* Mutant: previous_key_expires_at is left alone without overlap.
RotatedRowKeepsExpiry(row, request) ==
  [row EXCEPT !.publicKey = request.publicKey,
              !.previousKey = IF request.overlap > 0 THEN row.publicKey ELSE None,
              !.previousExpires = IF request.overlap > 0 THEN request.rotatedAt + request.overlap ELSE @]

\* previous_public_key and previous_key_expires_at are both NULL without overlap.
RotatedRow(row, request) ==
  [row EXCEPT !.publicKey = request.publicKey,
              !.previousKey = IF request.overlap > 0 THEN row.publicKey ELSE None,
              !.previousExpires = IF request.overlap > 0 THEN request.rotatedAt + request.overlap ELSE 0]

RotateWorkloadKeyCommit(p) ==
  /\ tx[p].op = "rotate"
  /\ Lockable(tx[p].targets)
  /\ workload' = [workload EXCEPT ![tx[p].workload] = RotatedRow(@, tx[p])]
  /\ Revoke(tx[p].targets)
  /\ audit' = audit \union {<<"workload.key_rotated", tx[p].workload>>}
  /\ tx' = [tx EXCEPT ![p] = Idle]
  /\ UNCHANGED <<clock, consumption>>

-------------------------------------------------------------------------------
(* Issuing leases *)

\* newID: an id no row and no request in flight has.
Fresh(id) == lease[id] = None /\ \A q \in Proc : tx[q].op = "create" => tx[q].id # id

Prepare(p, id, key, row) ==
  tx' = [tx EXCEPT ![p] = [op |-> "create", pc |-> "prepared", id |-> id, key |-> key,
                           root |-> None, row |-> row]]

\* Mutant: a delegation is bound to a key only when it asks to be.
ConfirmationOnRequest(r, required, holder) == IF r.pop THEN holder.publicKey ELSE None

\* The key a lease is bound to, when its request, grant or parent wants one.
Confirmation(r, required, holder) == IF r.pop \/ required THEN holder.publicKey ELSE None

\* AuthenticateWorkload with key k, then MintRootLease up to issue.
MintRootLease(p, w, k, audience, r) ==
  LET expires == clock + r.ttl IN
  /\ "mint" \in Ops
  /\ tx[p] = Idle
  /\ workload[w].registered /\ ~workload[w].disabled
  /\ k \in AcceptedKeys(workload[w], clock)
  /\ RootAuthorized(Grant[w], audience, r, expires, clock)
  /\ \E id \in LeaseId :
       /\ Fresh(id)
       /\ Prepare(p, id, k,
            [workload |-> w, rootWorkload |-> w, parent |-> None, root |-> id,
             delegatedBy |-> None, audience |-> audience, issuedAt |-> clock,
             authority |-> RootContext(r, expires),
             confirmation |-> Confirmation(r, Grant[w].requirePoP, workload[w]),
             revoked |-> FALSE, usesConsumed |-> 0])
  /\ UNCHANGED <<clock, workload, lease, consumption, audit, revokedCount>>

\* AuthenticateWorkload with key k by the holder of the parent, then
\* DelegateLease up to issue: the parent and the recipient are read outside the
\* transaction.
DelegateLease(p, parentId, to, k, r) ==
  LET parent  == lease[parentId]
      expires == clock + r.ttl
  IN
  /\ "delegate" \in Ops
  /\ tx[p] = Idle
  /\ parent # None
  /\ ~workload[parent.workload].disabled
  /\ k \in AcceptedKeys(workload[parent.workload], clock)
  /\ ~parent.revoked
  /\ parent.confirmation # None => parent.confirmation = k
  /\ workload[to].registered /\ ~workload[to].disabled
  /\ ChildAuthorized(parent.authority, r, expires, clock)
  /\ \E id \in LeaseId :
       /\ Fresh(id)
       /\ Prepare(p, id, k,
            [workload |-> to, rootWorkload |-> parent.rootWorkload, parent |-> parentId,
             root |-> parent.root, delegatedBy |-> parent.workload, audience |-> parent.audience,
             issuedAt |-> clock, authority |-> ChildContext(parent.authority, r, expires),
             confirmation |-> Confirmation(r, parent.confirmation # None, workload[to]),
             revoked |-> FALSE, usesConsumed |-> 0])
  /\ UNCHANGED <<clock, workload, lease, consumption, audit, revokedCount>>

\* The workload whose key signed the request.
Requester(row) == IF row.parent = None THEN row.workload ELSE row.delegatedBy

\* Mutant: the key that authenticated the request is not checked again.
HoldersEnabled(t) == ~workload[t.row.workload].disabled /\ ~workload[Requester(t.row)].disabled

\* CreateLease's checks on the workload rows it has locked.
HoldersAccepted(t) ==
  /\ ~workload[t.row.workload].disabled
  /\ ~workload[Requester(t.row)].disabled
  /\ t.key \in AcceptedKeys(workload[Requester(t.row)], t.row.issuedAt)

\* Mutant: the parent's revocation is checked by DelegateLease only.
ParentIdentified(row) ==
  /\ lease[row.parent] # None
  /\ lease[row.parent].workload = row.delegatedBy /\ lease[row.parent].root = row.root

\* CreateLease's checks on the parent row it has locked.
ParentAccepted(row) ==
  LET parent == lease[row.parent] IN
  /\ parent # None
  /\ ~parent.revoked
  /\ parent.authority.expiration > row.issuedAt
  /\ parent.authority.maxUses = 0
  /\ parent.workload = row.delegatedBy
  /\ parent.root = row.root /\ parent.rootWorkload = row.rootWorkload
  /\ row.authority.depth = parent.authority.depth + 1
  /\ row.authority.maxDepth <= parent.authority.maxDepth

CreateLeaseLock(p) ==
  LET t == tx[p] IN
  /\ t.op = "create" /\ t.pc = "prepared"
  /\ ~WriteLocked(t.row.workload) /\ ~WriteLocked(Requester(t.row))
  /\ HoldersAccepted(t)
  /\ IF t.row.parent = None
       THEN /\ t.row.root = t.id /\ t.row.rootWorkload = t.row.workload
            /\ t.row.delegatedBy = None /\ t.row.authority.depth = 0
            /\ tx' = [tx EXCEPT ![p].pc = "locked"]
       ELSE /\ ~LineageLocked(RootOf(t.row.parent))
            /\ ~UseLocked(t.row.parent)
            /\ ParentAccepted(t.row)
            /\ tx' = [tx EXCEPT ![p].pc = "locked", ![p].root = RootOf(t.row.parent)]
  /\ UNCHANGED <<clock, workload, lease, consumption, audit, revokedCount>>

\* INSERT INTO leases: its foreign key on the root workload waits for a rotation
\* of that workload (FOR UPDATE), not for a disable.
CreateLeaseCommit(p) ==
  LET t == tx[p] IN
  /\ CreateLocked(p)
  /\ ~ \E q \in Proc : tx[q].op = "rotate" /\ tx[q].workload = t.row.rootWorkload
  /\ TableAccepts(t.row.authority, t.row.issuedAt)
  /\ lease' = [lease EXCEPT ![t.id] = t.row]
  /\ audit' = audit \union {<<IF t.row.parent = None THEN "lease.root_minted"
                                                     ELSE "lease.delegated", t.id>>}
  /\ tx' = [tx EXCEPT ![p] = Idle]
  /\ UNCHANGED <<clock, workload, consumption, revokedCount>>

-------------------------------------------------------------------------------
(* Revoking and using leases *)

RevokeLeaseLineageLock(p, l) ==
  /\ "revoke" \in Ops
  /\ tx[p] = Idle
  /\ lease[l] # None
  /\ ~LineageLocked(RootOf(l))
  /\ tx' = [tx EXCEPT ![p] = [op |-> "revoke", lease |-> l, root |-> RootOf(l),
                              targets |-> Unrevoked(Lineage({l}))]]
  /\ UNCHANGED <<clock, workload, lease, consumption, audit, revokedCount>>

RevokeLeaseLineageCommit(p) ==
  /\ tx[p].op = "revoke"
  /\ Lockable(tx[p].targets)
  /\ Revoke(tx[p].targets)
  /\ audit' = audit \union {<<"lease.lineage_revoked", tx[p].lease>>}
  /\ tx' = [tx EXCEPT ![p] = Idle]
  /\ UNCHANGED <<clock, workload, consumption>>

\* ConsumeLease, and the snapshot of ConsumeLeaseUse's first statement.  Only the
\* lease row is locked, so workload.disabled_at is the snapshot's value.
ConsumeLease(p, l, k) ==
  /\ "consume" \in Ops
  /\ tx[p] = Idle
  /\ lease[l] # None
  /\ tx' = [tx EXCEPT ![p] = [op |-> "consume", lease |-> l, key |-> k, consumedAt |-> clock,
                              holderDisabled |-> workload[lease[l].workload].disabled]]
  /\ UNCHANGED <<clock, workload, lease, consumption, audit, revokedCount>>

\* The row lock is granted: the lease row is read as it is now, and checked.
ConsumeLeaseUseLock(p) ==
  LET t   == tx[p]
      row == lease[t.lease]
  IN
  /\ t.op = "consume"
  /\ ~ParentLocked(t.lease) /\ ~UseLocked(t.lease)
  /\ ~row.revoked /\ ~t.holderDisabled
  /\ row.authority.expiration > t.consumedAt
  /\ row.authority.maxUses > 0
  /\ tx' = [tx EXCEPT ![p] = [op |-> "use", lease |-> t.lease, key |-> t.key,
                              maxUses |-> row.authority.maxUses, usesConsumed |-> row.usesConsumed]]
  /\ UNCHANGED <<clock, workload, lease, consumption, audit, revokedCount>>

\* A known idempotency key is answered with the use it already has.
ConsumeLeaseUseCommit(p) ==
  LET t   == tx[p]
      use == t.usesConsumed + 1
  IN
  /\ t.op = "use"
  /\ IF \E c \in consumption : c.lease = t.lease /\ c.key = t.key
       THEN UNCHANGED <<lease, consumption>>
       ELSE /\ t.usesConsumed < t.maxUses
            /\ consumption' = consumption \union {[lease |-> t.lease, key |-> t.key, use |-> use]}
            /\ lease' = [lease EXCEPT ![t.lease].usesConsumed = use]
  /\ tx' = [tx EXCEPT ![p] = Idle]
  /\ UNCHANGED <<clock, workload, audit, revokedCount>>

-------------------------------------------------------------------------------

\* A failed check, a cancelled context, a deadlock victim or a server crash.
Rollback(p) ==
  /\ tx[p] # Idle
  /\ tx' = [tx EXCEPT ![p] = Idle]
  /\ UNCHANGED <<clock, workload, lease, consumption, audit, revokedCount>>

Tick ==
  /\ clock < MaxClock
  /\ clock' = clock + 1
  /\ UNCHANGED <<workload, lease, consumption, audit, revokedCount, tx>>

\* Times a request that is getting its locks now may have read from the clock.
RequestTime == {t \in 0 .. clock : t + MaxDelay >= clock}

Init ==
  /\ clock = 0
  /\ workload = [w \in Workload |->
       IF w \in DOMAIN Enrolled
         THEN [Unregistered EXCEPT !.registered = TRUE, !.publicKey = Enrolled[w]]
         ELSE Unregistered]
  /\ lease = [l \in LeaseId |-> None]
  /\ consumption = {} /\ audit = {} /\ revokedCount = 0
  /\ tx = [p \in Proc |-> Idle]

Admin(p) ==
  \/ \E w \in Workload : DisableWorkloadLock(p, w)
  \/ \E w \in Workload, k \in Key, overlap \in Overlap, revokeOutstanding \in BOOLEAN, now \in RequestTime :
       RotateWorkloadKeyLock(p, w, k, overlap, revokeOutstanding, now)
  \/ \E l \in LeaseId : RevokeLeaseLineageLock(p, l)

Client(p) ==
  \/ \E w \in Workload, k \in Key, audience \in Audience, r \in MintRequest :
       MintRootLease(p, w, k, audience, r)
  \/ \E l \in LeaseId, to \in Workload, k \in Key, r \in DelegateRequest :
       DelegateLease(p, l, to, k, r)
  \/ \E l \in LeaseId, k \in IdempotencyKey : ConsumeLease(p, l, k)

Progress(p) ==
  \/ CreateLeaseLock(p) \/ CreateLeaseCommit(p)
  \/ RevokeLeaseLineageCommit(p) \/ DisableWorkloadCommit(p) \/ RotateWorkloadKeyCommit(p)
  \/ ConsumeLeaseUseLock(p) \/ ConsumeLeaseUseCommit(p)
  \/ Rollback(p)

Next ==
  \/ \E w \in Workload, k \in Key, now \in RequestTime : RegisterWorkload(w, k, now)
  \/ \E p \in Proc : Admin(p) \/ Client(p) \/ Progress(p)
  \/ Tick

Spec == Init /\ [][Next]_vars

-------------------------------------------------------------------------------
(* Types *)

WorkloadRow == [registered : BOOLEAN, disabled : BOOLEAN, publicKey : Key \union {None},
                previousKey : Key \union {None}, previousExpires : Nat]

Context == [actions : ListOf(Action), resources : ListOf(ResourceString),
            expiration : Int, depth : Int, maxDepth : Int, maxUses : Int,
            constraints : {r.constraints : r \in MintRequest \union DelegateRequest}]

LeaseRow == [workload : Workload, rootWorkload : Workload, parent : LeaseId \union {None},
             root : LeaseId, delegatedBy : Workload \union {None}, audience : Audience,
             issuedAt : Nat, authority : Context, confirmation : Key \union {None},
             revoked : BOOLEAN, usesConsumed : Nat]

ASSUME NullAssumption == None \notin LeaseRow

CreateTx == [op : {"create"}, pc : {"prepared", "locked"}, id : LeaseId, key : Key,
             root : LeaseId \union {None}, row : LeaseRow]
RevokeTx == [op : {"revoke"}, lease : LeaseId, root : LeaseId, targets : SUBSET LeaseId]
DisableTx == [op : {"disable"}, workload : Workload, targets : SUBSET LeaseId]
RotateTx == [op : {"rotate"}, workload : Workload, publicKey : Key, overlap : Nat,
             rotatedAt : Nat, targets : SUBSET LeaseId]
ConsumeTx == [op : {"consume"}, lease : LeaseId, key : IdempotencyKey, consumedAt : Nat,
              holderDisabled : BOOLEAN]
UseTx == [op : {"use"}, lease : LeaseId, key : IdempotencyKey, maxUses : Nat, usesConsumed : Nat]

Transaction == {Idle} \union CreateTx \union RevokeTx \union DisableTx \union RotateTx
                      \union ConsumeTx \union UseTx

AuditRow ==
  ({"workload.registered", "workload.disabled", "workload.key_rotated"} \X Workload)
  \union ({"lease.root_minted", "lease.delegated", "lease.lineage_revoked"} \X LeaseId)

\* Every column has its type; a registered workload has a key, and (the check
\* workloads_previous_key_check) a previous key exactly when it has an expiry.
TypeOK ==
  /\ clock \in Nat
  /\ workload \in [Workload -> WorkloadRow]
  /\ \A w \in Workload : /\ workload[w].registered => workload[w].publicKey \in Key
                         /\ workload[w].previousKey = None <=> workload[w].previousExpires = 0
  /\ lease \in [LeaseId -> LeaseRow \union {None}]
  /\ consumption \subseteq [lease : LeaseId, key : IdempotencyKey, use : Nat]
  /\ audit \subseteq AuditRow
  /\ revokedCount \in Nat
  /\ tx \in [Proc -> Transaction]

-------------------------------------------------------------------------------
(* Properties *)

\* Every lease is within the grant of the workload at the root of its lineage,
\* however many delegations, each validated against a parent read outside the
\* transaction, lie between: authority, audience, depth, lifetime counted from
\* the root's issue, and proof of possession when the grant requires it.
WithinGrant ==
  \A l \in Rows :
    LET row == lease[l]
        g   == Grant[row.rootWorkload]
    IN  /\ row.root \in Rows /\ lease[row.root].workload = row.rootWorkload
        /\ row.audience \in g.audiences
        /\ row.authority.actions \subseteq g.actions
        /\ Subset(row.authority.resources, g.resources)
        /\ AtLeastAsStrong(g.constraints, row.authority.constraints)
        /\ row.authority.depth <= g.maxDelegationDepth
        /\ row.authority.expiration <= lease[row.root].issuedAt + g.maxTTL
        /\ g.requirePoP => row.confirmation # None

\* Once a lineage revocation has committed, every descendant of the lease is
\* revoked, and stays so: a delegation racing RevokeLeaseLineage is either swept
\* by it or refused.
LineageRevoked ==
  \A l \in Rows : <<"lease.lineage_revoked", l>> \in audit =>
    \A d \in Lineage({l}) : lease[d].revoked

\* A disabled workload holds no live lease, and no lease it delegated to another
\* is live, whatever mints and delegations raced DisableWorkload.
DisabledHoldsNothing ==
  \A l \in Rows :
    \/ lease[l].revoked
    \/ /\ ~workload[lease[l].workload].disabled
       /\ ~workload[Requester(lease[l])].disabled

\* No key authenticates two workloads at the same time, through registrations,
\* rotations and the overlap in which a previous key is still accepted.
KeysExclusive ==
  \A v, w \in Workload :
    v # w /\ workload[v].registered /\ workload[w].registered =>
      AcceptedKeys(workload[v], clock) \intersect AcceptedKeys(workload[w], clock) = {}

\* The recorded uses of a lease are numbered 1..uses_consumed without gaps, one
\* per idempotency key, and never exceed max_uses, under concurrent consumption.
UsesWithinBudget ==
  \A l \in Rows :
    LET uses == {c \in consumption : c.lease = l}
    IN  /\ lease[l].usesConsumed <= lease[l].authority.maxUses
        /\ {c.use : c \in uses} = 1 .. lease[l].usesConsumed
        /\ \A c, d \in uses : c.key = d.key \/ c.use = d.use => c = d

\* The audit trail accounts for every lease: one creation event per row, and the
\* revoked_count fields add up to the number of revoked leases, also when two
\* withdrawals overlap.
AuditAccounts ==
  /\ revokedCount = Cardinality({l \in Rows : lease[l].revoked})
  /\ \A l \in LeaseId : l \in Rows <=>
       \/ <<"lease.root_minted", l>> \in audit
       \/ <<"lease.delegated", l>> \in audit

\* A lease appears only while, in the committed state, its holder and requester
\* are enabled, the requester still accepts the key that signed the request, and
\* the parent is not revoked: nothing read outside the transaction is stale.
CreatedFromCurrentState ==
  [][\A l \in LeaseId : lease[l] = None /\ lease'[l] # None =>
       LET row == lease'[l] IN
       /\ ~workload[row.workload].disabled
       /\ ~workload[Requester(row)].disabled
       /\ row.parent # None => lease[row.parent] # None /\ ~lease[row.parent].revoked
       /\ \E p \in Proc : /\ tx[p].op = "create" /\ tx[p].id = l
                          /\ tx[p].key \in AcceptedKeys(workload[Requester(row)], row.issuedAt)]_vars

\* A use is recorded only for a lease that is not revoked and whose holder is not
\* disabled at the commit, although disabled_at is read from a snapshot without
\* locking the workload row.
NoUseAfterWithdrawal ==
  [][\A l \in Rows : lease'[l].usesConsumed # lease[l].usesConsumed =>
       ~lease[l].revoked /\ ~workload[lease[l].workload].disabled]_vars

\* docs/api.md of POST /v1/workloads/{id}/disable: "Atomically disables the
\* workload and revokes leases currently held by it plus their descendants."
DisableRevokesDescendants ==
  \A w \in Workload : <<"workload.disabled", w>> \in audit =>
    \A l \in Lineage(HeldBy(w)) : lease[l].revoked
===============================================================================
