# A TLA+ model of UpsilonAuth

UpsilonAuth issues *leases*: signed tokens that give a workload a narrow piece of
authority (actions, resources, constraints, an expiry, a delegation depth, and
sometimes a number of uses). A workload may delegate part of a lease to another
workload; an operator may revoke a lease with all of its descendants, disable a
workload, or rotate its key. Protected services verify leases without asking the
control plane about each request.

The modules here model the control plane with its start-up and its limits, the
arithmetic of authority and the verifier, state what has to be true of them, check it with TLC on small instances
and prove every safety property with TLAPS for all instances. `PROJECT.json` maps every
definition to the lines it translates.

## 1. Inventory

| Component | State | Operations | What makes it correct |
|---|---|---|---|
| `internal/resource` | none | `CanonicalizePattern`, `CanonicalizeValue`, `Covers`, `Allows` | `Covers` decides inclusion of scopes exactly |
| `internal/constraints` | none | `Valid`, `AtLeastAsStrong`, `Equal`, `Satisfied` | stronger constraints admit fewer requests |
| `internal/attenuation` | none | `ValidateRoot`, `Validate` | a child never has authority its parent lacks, along any chain |
| `internal/usecase` | none of its own (reads rows, decides, calls the repository) | register, authenticate, mint, delegate, revoke, disable, rotate, consume | decisions made from stale reads are made again where it matters |
| `internal/repository` | PostgreSQL tables `workloads`, `leases`, `lease_consumptions`, `workload_nonces`, `audit_events` | one transaction per operation, row locks and advisory locks | withdrawals are complete, keys are exclusive, uses are not oversold, the audit trail adds up |
| `internal/delivery` | rate-limiter buckets, metrics | HTTP handlers, JWKS and revocation feeds with ETags, `ipLimiter.allow` | a `304` means the verifier's copy is current; no address exceeds its rate, and the limiter recovers when full |
| `sdk/go/middleware` | revocation snapshot, JWKS snapshot, proof replay map | `Authorize`, `isRevoked`, `key`, `consumeProof` | bounded exposure of a revoked lease, no proof accepted twice, every request returns |
| `sdk/go/pop` | none | `Sign`, `Verify` | the window of a proof and the life of its replay marker agree |
| `sdk/go/client` | none | API client, `Consume` | a retried consumption is charged once, and nothing runs that was not charged |
| `internal/crypto` | signing keys | sign and verify tokens, publish the key set | a rotation loses no genuine token and ends the life of a dropped key |
| `internal/repository/migrate.go` | table `schema_migrations` | apply, baseline, verify checksums | one migrator at a time, schema and record agree |
| `cmd/*`, `examples`, `website` | none | start-up, command line, pages | - |

How they interact: a handler of `delivery` calls one method of `usecase`, which reads
rows, checks the request and calls one method of `repository`, which opens a
transaction, takes locks and checks again what the locks protect. A verifier polls
`/.well-known/revocations.json`, which lists the revoked leases that have not expired,
and consults its copy for each request.

The hard behaviours are: (a) reads that precede a transaction, and transactions at
READ COMMITTED, where each statement has its own snapshot and an `UPDATE` re-evaluates
its condition only on rows it had to wait for; (b) requests delivered twice, late and
to several servers; (c) times that are truncated, compared with different clocks, or
read before a lock is taken; (d) a verifier whose refresh is slow, fails, or overlaps
with another; (e) sequences of legal delegations; (f) processes that die half-way, and
processes of different releases or configurations that run side by side during a
rollout. `PROJECT.json` lists each hazard at
its line with the properties that would notice it going wrong.

## 2. Modules

Authority, bottom up (no RECURSIVE operators anywhere):

- **`Resource`**: patterns and values are sequences of segments; `Star` at the end makes
  a pattern a prefix. Every segment `canonicalize` refuses is the one `BadSegment`.
- **`Constraints`**: functions from constraint keys to values; the key `AmountKey`
  holds a number of bounded width, the others are compared for equality.
- **`Attenuation`**: `ValidateRoot`, `Validate` and their helpers, and `Permits`, what a
  verifier's `Authorize` asks of a lease.
- **`Authority`**: the part of `usecase` that builds contexts from requests, and the
  CHECK constraints of table `leases`.
- **`DelegationChain`**: one lineage as a sequence, the grant first; it isolates the
  arithmetic of authority from storage and concurrency.

The server:

- **`ControlPlane`**: the tables, and in `tx` the request each server process is
  handling. An operation is one action up to its locks (`...Lock`) and one for its
  writes and commit (`...Commit`); mint, delegate and consume have one more for what
  they read before their transaction. Lock tables are not variables: `ShareLocked`,
  `WriteLocked`, `KeysLocked`, `LineageLocked`, `ParentLocked` and `UseLocked` read off
  `tx` who holds what. `targets` is the set of leases an `UPDATE ... WHERE id IN (...)`
  found in its snapshot; the condition `revoked_at IS NULL` is evaluated again at the
  commit. `Rollback` stands for every check that fails inside a transaction, a
  deadlock victim, and a lost connection. `Tick` moves the clock; a request may use a
  time up to `MaxDelay` old, because the time is read before the locks are granted.
- **`LimitedUse`**: `ControlPlane` together with the protected services that charge a
  limited-use lease before they run a handler: `Authorize` up to `consumeLease`, the POST
  that may be sent again or arrive after its service gave up, answers that are lost, and
  retries by the agent with the same idempotency key or another.
- **`UseBudget`**: what such a lease promises, as an abstract specification: a budget, a
  sequence of charged operations, a withdrawal, and the operations performed. `LimitedUse`
  implements it once for every lease (`Budget(l)`): `charged` is read off
  `lease_consumptions` in the order of `use_number`, `withdrawn` off `revoked_at`.
- **`RequestAuth`**: the window and nonce of signed requests, with a clock finer than a
  second (PostgreSQL's `NOW()`) and one truncated to it (the server's).
- **`RateLimiter`**: `rateLimit` and `ipLimiter.allow`: the time is read before the
  mutex, so buckets may be refilled with a time older than their own; the sweep of idle
  visitors at each `SweepEvery`-th request and the cap on visitors. Ghosts `spent` and
  `log` record what each address was granted, `early` what its renewed buckets may have
  brought it before it was earned: `loadConfig` accepts any positive rate with any burst,
  so a burst may take longer to earn than the ten idle minutes after which a bucket may be
  swept, and `Shortfall` is the difference.
- **`Migrations`**: `ApplyMigrations` as one transaction under the advisory lock
  (baseline, then file by file, then commit), `VerifyMigrations` as one query, run by
  jobs and servers of several releases. `Abort` is any error, timeout or death of the
  process; `tx` holds what is not committed. A file creates the objects the baseline looks
  for (`Marks`) and a rest it does not look at; ghost `baselined` holds the stages that
  were recorded by the baseline.
- **`SigningKeys`**: the configuration an operator deploys (`docs/deployment.md:83-92`),
  the one each replica was started with, the JWKS it serves, the shared HTTP caches that
  `Cache-Control: public, max-age=60, must-revalidate` allows on the way, and
  `Verifier.key` with its cache and refresh mutex. It reaches from `cmd/upsilonauth` to
  `sdk/go/middleware`. A cached key is returned without a step of its own, so the
  properties speak of what `Verifier.key` would answer in each state.

The protected service:

- **`RevocationCache`**: goroutines in `Authorize`/`isRevoked`, the refresh mutex, the
  cached snapshot with its ETag, the control plane's feed with a clock of its own, and
  fetches that take time, fail, or answer `304`.
- **`ProofReplay`**: `verifyProof`, `pop.Verify` and `consumeProof` with its map,
  which is swept when full.

`MC*` modules give constants their values. The `*Proofs` modules hold the theorems
about the module they extend; `ControlPlaneProofs` extends `LimitedUse`, so as to cover the
server alone and with its services.

## 3. What TLC checks

Every passing property has a mutant in `PROJECT.json`: a change to one definition (a
dropped lock, a missing reset, another expiry) under which the same run finds it
violated.

| Run | Instance | Shows |
|---|---|---|
| `delegation_chain` | small sets of grants and requests, invalid ones included | `NeverWidens`, `LineageBounded`; `CoversExact`: on the scopes of every lineage `Covers` holds exactly when each value the child admits is admitted by the parent |
| `revocation` | 2 workloads, 3 leases, 2 processes; revocations, disables and rotations that revoke | `WithinGrant`, `LineageRevoked`, `DisabledHoldsNothing`, `AuditAccounts`, `CreatedFromCurrentState` |
| `keys` | 2 workloads, 3 keys, 1 lease with 1 use, 2 processes, overlaps 0 and 1, request times up to 1 s old | `TypeOK`, `KeysExclusive`, `CreatedFromCurrentState`, and `NoUseAfterWithdrawal` against a rotation that revokes |
| `uses` | a lease with 2 uses and a lifetime of 1, 3 idempotency keys, 3 processes, 2 calls at protected services | `UsesWithinBudget`, `NoUseAfterWithdrawal`, and `KeepsBudget`: the server and its services implement `UseBudget` |
| `migrations` | 3 processes, 3 releases (the older, the newer, one with an edited file), fresh and legacy databases, with stages incomplete or half run | `RecordMatchesSchema`, `ServedSchema` |
| `rate_limiter` | 2 addresses, room for 1 visitor, 2 requests in flight, a sweep each 3 requests, a burst of 4 and an idle time of 3 | `RateBound`, `SweepsKeepUp` |
| `signing_keys` | 3 keys, 2 replicas, a shared HTTP cache, 2 requests at the verifier | `DroppedKeyBound`, `GenuineTokenKnown` |
| `request_auth` | 2 processes, requests that share a nonce, two ticks to the second | `OncePerWindow` |
| `revocation_cache` | 2 requests in flight, each mode, clocks 0 or 2 s apart | `RevocationBound`, `RevokedStaysRevoked`, `AuthorizeReturns` |
| `proof_replay` | 3 proof ids, a map of 2 entries, 2 goroutines | `ProofOnce` |
| `disable_race`, `replay` | see section 5 | violations of what a document says |

**Bounds.** The lock conflicts of `ControlPlane` are between two transactions, so two
processes show every pairwise race; `uses` has three because overselling two uses takes
three consumers. Three leases are the least at which a delegation happens two levels
below a workload (root, child, grandchild), the depth at which lock and snapshot
differ. In `revocation` two workloads hold the leases of a lineage in turn, and a rotation
there installs the key the workload has, which the code accepts: it withdraws leases, and
keys are the question of run `keys`. The theorems cover any number of workloads. Three keys let a rotation choose the key another workload retires.
In `uses` the three processes may all answer one call's resent POST, and a third key is
the operation that has to be refused. `CoversExact` compares scopes by values that tell
them apart (a prefix itself, with one segment more, with two, and beside it);
`CoversSound` and `CoversComplete` prove the same for all patterns. `migrations` has
three processes so that a server runs while a job migrates and another waits. One visitor
fills the limiter of `rate_limiter`, and `MaxClock` 5 lets a visitor go idle, be swept and
come back; its burst takes longer to earn than the idle time, so the bucket that comes
back is early, the case the default configuration (a burst earned in 15 s) never meets.
In `signing_keys` the lifetimes are 1, and 2 for the copies of a shared cache, the least at
which a copy outlives the tick it was made in. Both bounds are attained: with one tick less
in `DroppedKeyBound`, or in the time after a rollout in `GenuineTokenKnown`, TLC finds a
violation. Its replicas sign
leases of the longest lifetime all the time, which is the worst case for a rotation.
`Second` and `TicksPerSecond` are 2, the least at which
truncation differs from the identity. `Capacity` 2 with 3 ids fills the replay map,
sweeps it and makes it refuse. `MaxAccepted`, `MaxTick` and `MaxClock` bound histories
and clocks; each is long enough for a window to open, close and be overrun. The clocks
of the runs `revocation` and `disable_race` stand still, as their
questions are about order and not time.

**Symmetry** is used for processes and goroutines, for lease ids (only `RootOf` chooses
one, and a lineage has one root), for the keys nobody holds at the start in `keys`, and
for calls and idempotency keys in `uses`, for addresses in `rate_limiter`, for replicas
and keys not yet in use in `signing_keys`; in runs with a symmetry set no
liveness property is checked.

**Fairness.** Only `RevocationCache` states any, for `AuthorizeReturns` (every request
is eventually answered): weak fairness of a goroutine's own steps (`LookUp`, `Return`);
weak fairness of the end of a fetch (`Receive`, `RejectSnapshot` or `FetchFails`),
justified by the 5 s timeout of the default `http.Client` (a caller that configures
a client without a timeout gives up `AuthorizeReturns`, and the `FetchTimeout` in
`RevocationBound`); strong fairness of `Refresh`,
justified by `sync.Mutex`, which hands itself to a waiter that has starved for a
millisecond. There is no fairness of the control plane's answer: it may fail for ever.
The other modules state safety only.

**Deadlock** checking is on in `migrations` and `rate_limiter`, which never stop; the
other instances stop when their clocks and identifiers are used up.

## 4. What is proved

All theorems hold for every value of the constants that meets the named assumptions: the
requests and grants have the types a decoded request has, `None` differs from the data it
stands beside, there are finitely many lease ids, keys are distinct at enrolment, and
there is at least one replica. Every invariant and action property that a passing run
checks is stated by a theorem, and so is the refinement. Bounds on clocks and histories are
not used, except where `RevocationBound` says nothing anyway (mode `EXPIRY_ONLY`, whose
exposure is written as `MaxClock`).

**`DelegationChainProofs`**, one delegation: `CoversSound` (covering implies inclusion),
`CoversComplete` (inclusion implies covering, for patterns of any length),
`CoversTransitive`, `ConstraintsSound`, and `NarrowsPermits`: a context that narrows another
permits only what the other permits. Lineages: `LineageNeverWidens` (`NeverWidens`),
`LineageIsBounded` (`LineageBounded`) and `CoversIsExact` (`CoversExact`). `NeverWidens` is
not inductive, since a delegation is checked syntactically against the parent only.
`ChainInv` carries `Narrows` between each pair of leases and from the grant to each lease,
where transitivity is needed, and ties depth to position in the chain. `CoversIsExact` has
two hypotheses: there is a segment, and every value is the resource of some probe. With
fewer probes two different scopes may look alike, and only soundness would be left; the run
has just enough of them for its scopes.

**`ControlPlaneProofs`**, the server. Each property gets an inductive invariant that says
what the locks protect between the reads of a request and its commit.

| Theorem | States | Invariant, and why it is needed |
|---|---|---|
| `TypeCorrect` | `TypeOK` | `TypeInv`: that `lockLineage` finds a root needs the table to be a forest (`Forest`: parents exist, a child has its parent's root, every lease is reachable from its root), and that needs `InFlight`: what a request read about other rows stays true until its commit, and no two requests create one id |
| `RevocationIsComplete` | `LineageRevoked` | `LineageInv`: the parent of a delegation that holds its locks is live (`ParentLive`), no revocation holds the same lineage (`LineageExclusive`), and what a revocation collected is still the whole lineage (`Swept`) |
| `BudgetIsKept` | `UsesWithinBudget` | `BudgetInv`: what a use read under its row lock still is the row (`UseRead`), no second use holds the lock (`UseExclusive`), a row starts unused (`NewUnused`) with no charge to its id (`Charged`) |
| `DisableIsEffective` | `DisabledHoldsNothing` | `CustodyInv`: a child's requester holds its parent (`Delegators`), so a disable reaches what its workload delegated; the share locks of `CreateLease` keep its checks of holder and requester true (`Vetted`); hence what a disable collected still contains every live lease of the workload (`Disabling`) |
| `NoLateUse` | `NoUseAfterWithdrawal` | `CustodyInv` again: a lease locked for a use is live until the use commits (`UseLive`), because a withdrawal has to wait for its row; a live lease has an enabled holder by `DisabledHoldsNothing`, so the unlocked, possibly stale `disabled_at` does no harm |
| `CreationIsCurrent` | `CreatedFromCurrentState` | `CustodyInv` and `LineageInv`: `Vetted` for the workloads and the requester's key, `ParentLive` for the parent |
| `KeysAreExclusive` | `KeysExclusive` | `KeysInv`: there is one rotation at a time (`OneRotation`) and the key it will install stays free (`PendingKey`). The times compared are old, never early, so a previous key judged by them is judged accepted too long and not too short |
| `AuditIsComplete` | `AuditAccounts` | `AuditInv`: rows are inserted live (`NewLive`), so each revoked lease was counted by the one commit that changed it |
| `LeasesStayWithinGrant` | `WithinGrant` | `GrantedInv`: the same of the rows about to be inserted (`NewWithin`), read against a parent outside the transaction; authority of a row never changes, so that reading does not go stale. `maxDepth` is bounded as well as `depth`, since `Validate` compares with the parent only |
| `PromiseKept` | `KeepsBudget` | the refinement, below |

`PromiseKept` proves `UseSpec => KeepsBudget`: for every lease, `LimitedUse` implements
`UseBudget`. It is one step simulation per action. Actions that touch neither table nor
service stutter; an insertion opens the budget; a withdrawal maps to a withdrawal for the
leases it changes; a use appends its idempotency key, where `BudgetInv` gives that the
numbers of the charges are `1 .. n`, so that the sequence read off `lease_consumptions`
grows at its end only; and a service's `Perform` is enabled because of `CallInv`: a call is
served by at most one process, which charges what the call asks (`Served`), and a call
that is allowed has its key charged (`Paid`).

**`RevocationCacheProofs`**: `RevocationIsBounded` (`RevocationBound`) and
`CacheNeverForgets` (`RevokedStaysRevoked`). `CacheInv` dates every snapshot: the cache lists
each lease that was revoked `FetchTimeout` before `fetched`, unless the control plane has
dropped it as expired (`SnapshotInv`); the same is true of an answer in flight, dated by when
its request was sent (`FetchInv`); a `304` answers the snapshot that is still cached, which
needs that there is one fetch at a time (`OneFetch`, the refresh mutex).

**`SigningKeysProofs`**: `DroppedKeysExpire` (`DroppedKeyBound`) and `GenuineTokensAreKnown`
(`GenuineTokenKnown`). The invariant (also `KeysInv`) says that a key that signed and is
neither deployed nor compromised has no token left (`DeploymentInv`), that a dropped key is
never deployed again (`NeverReused`), so what an up-to-date set lacked stays lacking, and that
each set is dated: the copy in a shared cache by its expiry (`CopyInv`), a set in flight by
that copy and the time its fetch began (`FetchedInv`), a cached one by both and its own
expiry (`CachedInv`). A set holds a dropped key, or differs from the deployed set after a
complete rollout, only if it is older than the drop or the rollout.

**`RequestAuthProofs`**: `AuthenticatedOncePerWindow` (`OncePerWindow`), from `Remembered`:
a nonce's row outlives the window of the request that wrote it, or that window has
closed. The second case matters: a reused nonce may get an earlier expiry.

**`ProofReplayProofs`**: `ProofAcceptedOnce` (`ProofOnce`), from `Marked` (the marker of an
accepted proof is in the map until a second after the window, through any sweep) and
`InWindow` (the time a request carries is past, and within the window once verified).

**`MigrationsProofs`**: `RecordIsSchema` (`RecordMatchesSchema`) and `ServersFindTheirSchema`
(`ServedSchema`), for any releases and processes. The invariant keeps two views, the
committed one (`Committed`) and that of the one open transaction (`Open`), which may
differ from it only in migrations whose rows it wrote; `Serving` says the rows a server
found are never rewritten. A row agrees with the
schema (`Row`) if its file is in effect, or if the baseline wrote it and what the baseline
looks for is there; `Based` counts the stages an open transaction is about to baseline,
which stay the same until it commits. `LegacyAssumption` is what a database
from before this code may look like.

**`RateLimiterProofs`**: `RateIsBounded` (`RateBound`) and `SweepsAreRegular`
(`SweepsKeepUp`). The first is a potential argument: `tokens - updated` of a bucket
never grows by a refill, whatever order the times come in, and drops by `Cost` with
each accepted request (`Held`); whoever has no bucket has earned everything back but for
one `Shortfall`, which the next bucket will add to `early` (`Forgotten`). Nothing is assumed of how rate, burst and idle
time relate; where `Burst + 2 * MaxDelay <= IdleTime`, as in the default configuration,
`Shortfall` is 0 and the bound is that of one bucket that is never swept.

Only model-checked: `AuthorizeReturns`, since liveness under fairness is out of the prover's
reach, and the two expected violations of section 5, which are counterexamples.

## 5. Where documents and code disagree

- **`disable_race`.** `DisableWorkload` collects descendants in one statement and,
  unlike `CreateLease` and `RevokeLeaseLineage`, does not take the lineage lock. A
  delegation two levels below the workload whose transaction is open at that moment is
  not in the snapshot, and its lease survives. Leases held by the workload itself are
  safe: `DisabledHoldsNothing` holds, since `CreateLease` locks requester and holder.
  `docs/api.md:85` promises the descendants too.
- **`replay`.** The window is tested with a truncated clock, and the nonce row expires
  by a finer one. In the last second of the window a request still passes while its
  nonce no longer counts. `OncePerWindow` is what does hold: not before the nominal
  end of the window. `docs/api.md:39` says the nonce is single-use.

Met while modelling, and not the subject of a run:

- The key a child lease is bound to is read before the transaction and not checked again,
  so a lease created after a rotation without overlap may be bound to the recipient's
  retired key. The requester's key *is* checked again (`CreatedFromCurrentState`), which is
  what `docs/deployment.md:98` describes, but it concludes that no retired key can cross the
  rotation.
- The feed drops a lease at its expiry, while verifiers accept it for `ClockSkew` longer. A
  refresh in between makes a verifier accept a lease it has refused as revoked.
  `RevocationBound` states the exposure that does hold, with the end of the lease by the
  control plane's clock as a case of its own.
- The budget of a lease bounds idempotency keys, not runs of a handler: a request repeated
  with a key that was charged is allowed again without a charge. `UseBudget` says so
  (`Perform` may repeat); a service has to make an operation idempotent by its key.
- A checksum that is missing is filled in from the current file, so a database from before
  checksums is trusted as it is (`adopted`). The baseline recognises a stage by some of its
  columns and tables: of a file that was run half-way by hand, the rest may be missing for
  ever, and neither mode notices. `RecordMatchesSchema` and `ServedSchema` state this
  exception; `docs/migrations.md:29` says the server refuses to start if files, checksums
  and database state disagree.
- With a rate and burst that take longer than ten minutes to earn (1 per minute and 30, say),
  an address that pauses for ten minutes may find a full bucket. `RateBound` counts it.
- The lifetimes of a shared HTTP cache and of a verifier's own cache add up: a key dropped in
  an emergency may be accepted for `max-age` and a fetch longer than `CacheTTL`, and a token
  of a new key refused for as long after a rollout.
- `VerifyMigrations` refuses rows its release has no file for, so a server that is rolled
  back to an older image in verify mode does not start on the newer schema;
  `docs/migrations.md:33` recommends that roll-back.

## 6. Not modelled

JSON, HTTP status codes, logging, metrics and TLS (formatting and I/O); Ed25519, JWT
encoding and token hashes (assumed correct: a token is the lease it names, a signature
is valid); read-only queries (`TraceLease`, `ListAuditEvents`, `GetWorkload`,
`GetLease`); the rest of `sdk/go/client/api.go`, which encodes single calls without state
or retries; reading of configuration and of the metadata documents (sizes, duplicate
keys, content types), which is parsing; the command-line tools; the website. The proof of
possession is modelled by its times; method, target and token hash are assumed to match.
`grant_version` is always 1 in the code and left out. The limiter's `float64` is taken
as exact. The SQL of a migration is the set of objects it creates, the ones the baseline
looks for and one more for the rest of the file; a file begun by hand has created
one of the former.

## 7. Plan

Done: the modules above, in the order authority, lineage, server, request
authentication, verifier, migrations, rate limiter, signing keys, limited uses with their
abstract specification; theorems for every safety property and for the refinement. To
come, most important first:

1. `LeaseForest`, an abstract specification of leases that are created, delegated and
   withdrawn atomically, implemented by `ControlPlane`: `CustodyInv` and `LineageInv` are what
   its step simulation needs, and the miss of `disable_race` becomes a clause of it.
2. What a disable does guarantee of descendants: a lease two levels down survives only if
   its delegation was open at the disable's snapshot.
3. Progress of `ControlPlane`: with deadlock victims aborted, a request ends.
