# Homebase: TLA+ models, model checking and proofs

Homebase is a small replicated store. A server holds *spaces*; each space is a log of
admitted batches, the state they leave behind, and a lease table. Devices keep a submit log
of their own batches and an admit log of everybody's, and work offline under leases.
Multilite builds a replicated SQLite database on top of a device and one space: updates run on
branches of the database file, are captured as logical operations, committed by one committer,
pushed, pulled and rebased.

This directory models the kernel (core, server, client) and multilite. Everything is written
from the Rust source; PROJECT.json maps each definition to the lines it stands for.

## The system and its modules

| part | source | module |
|---|---|---|
| ranges of keys, key bytes | core/src/range.rs, key.rs | KeyRanges, StorageKeys |
| newest-admission summary of a prefix | server/src/schema.rs | HistoricalHeads, HeadsMachine |
| lease table and server clock | server/src/space/lease.rs | LeaseManager |
| records, tombstones, aggregates, reads | server/src/space/data.rs | DataPlane |
| what a space promises | (abstract) | ReplicatedMap |
| one space: leases and admission | server/src/space/mod.rs, actor.rs | Space |
| ordered stores: memory, SQLite, SlateDB | core/src/storage.rs, multilite/src/metastore.rs, server/src/storage | OrderedStores |
| submit log, push, rollback | client/src/client.rs, meta.rs | DevicePush |
| pull, admit log, applying | client/src/space.rs, meta.rs | AdmitLog |
| lease workflows, clocks, repair | client/src/space.rs, core/src/clock.rs | ClientLeases |
| checked submissions, unlease_checked | client/src/space.rs | CheckedSubmits |
| per-space permits of a client | client/src/coordination.rs | Coordinator |
| cipher | client/src/cipher.rs | Cipher |
| stored records and their keys | server/src/schema.rs, client/src/meta.rs | Records, StorageKeys |
| conflict footprints | multilite/src/commit/footprint.rs, history.rs | Footprint |
| one database: updates, group commit, push, pull, rebase, rollback | multilite/src/commit, multilite/src/database | Replica |
| sync policy actor and its worker | multilite/src/database/policy.rs, async_api.rs | PolicyActor |
| row identifiers | multilite/src/rowid.rs | RowIds |
| opening a database file | multilite/src/database.rs | DatabaseFile |
| WAL parsing, overlays, branches, checkpoints | multilite/src/branch, commit/checkpoint.rs | Branches |
| logical operations: targets, guards, catalog, inverses | multilite/src/logical, repair.rs | Catalog, Operations |
| statements and updates | multilite/src/database/update.rs | Operations, UpdateTransactions |
| replicas of the logical layer | multilite/src/database/pending.rs, rebase.rs | LogicalReplicas |
| operation, row, schema and proposal frames | multilite/src/logical, commit/proposal.rs | Records, OperationFrames |
| SQL validation, dependencies, compilation | multilite/src/sql.rs | SqlFrontEnd |

How they interact. A server actor executes the commands of one space one at a time and stamps
the time when it dequeues a command, so a server action is atomic (Space, LeaseManager). The
client holds a per-space permit (Coordinator) while it pushes (DevicePush), pulls (AdmitLog) or
runs a lease workflow (ClientLeases); committing locally takes no permit. Requests travel
through a mailbox: the caller may give up and the request may still execute later. Each stored
transition of the client is atomic; a crash may fall between any two. In multilite one committer
thread owns the database file (Replica); updates run on copy-on-write branches over a pinned WAL
snapshot (Branches) and leave operations (Operations), which the committer checks against what
was committed since the snapshot (Footprint, UpdateTransactions). A policy actor decides when
the database is pushed and pulled (PolicyActor).

The MC modules give the constants their values. Where components do not share state and ask
questions of the same kind, one MC module extends several of them with a variable `part` that
says which of them a behaviour runs.

### Server

*HistoricalHeads* is the two-entry summary kept per prefix: the newest admission and the newest
by a different device. `HeadsMachine` runs it as a machine over registers with the true
observations as history, so that exactness of `max_excluding` is an invariant.

*LeaseManager* has the lease table, the id counter, the demand set (memory only) and the clock.
`Acquire` has its three outcomes (contended, self overlap, grant); the purge of expired
overlapping records belongs to the call. `Renew`, `Release` and `ListLeases` follow.

*DataPlane* holds the operators of admission and reading: the version floors, the lazily
maintained aggregates (`materialize_aggregate`, `apply_point_count`, `apply_range_count`), the
combination of an aggregate with a covering delete (`effective_history`), assertions, `snapshot`
and `delta`. A record's bytes are in *Records*, its key in *StorageKeys*.

*Space* composes both. A refused request changes nothing, so refusals are guards of `Admit`.
A checksum is a collision-free hash, modelled by the sequence it hashes.

*ReplicatedMap* is the abstract specification: a log of batches and the map the replay of their
operations leaves. `Space!ImplementsMap` states that a space implements it, with the mapping
admitted = the log of the space, live = what a read returns.

*OrderedStores* has one store of each backend: the SQLite store with batches cut into statements
inside a savepoint, and SlateDB with its unflushed tail, next to what the batches mean.

### Client

*DevicePush* has the three cursors, the stored rows, the version high-water, the confirmed
checksum, and one running push with its stages: loop, sent. The server side keeps the device
history only; whether it refuses a batch is a choice fixed per payload by `refused`.

*AdmitLog* has the paging loop of a pull, `append_admits`, the application that applies retained
batches, `mark_applied` and `trim`.

*ClientLeases* runs lease, unlease and repair one stored transition at a time against the real
verbs of LeaseManager. It has two clocks of the client and the server's clock. The documented
assumption on the wall clock (a wall error below the margin, or a regression the clock record
shows) is the definition `WallReading`. Opening with a wall behind the clock record takes two stored
transitions, the void deadlines (`Reopen`) and the clock (`OpenRecord`), and the process may die
between them. A repair may run at any time, as in the code. The history variable `revived` holds the
ids of the leases that the last repair rebuilt from a request of before such a regression; no action
reads it. *CheckedSubmits* adds the queue of submissions with
checked range assertions, the two ways of giving leases up, and foreign writes that the server
admits where no live lease forbids them.

*Coordinator* has the command channel, the active map with its waiters, and one task per caller
that can be dropped while waiting, at the grant, or holding.

*Cipher* works over ideal primitives: a ciphertext is the record of what was sealed, a pseudonym
is the pair of its key and its name. What the module is about is what is bound to what.

### Multilite

*Footprint* has the write regions of a transaction and the prefixes its outcome depends on: the
conflict test of the committer (`conflicts_with_writes`) and the range assertions of the
submission (`plan`) are two readings of the same footprint.

*Replica* is one database. The variable `db` is the SQLite file: the image, the commit sequence
with its retained history, the submit log with its cursors, the pending journal and the admit
cursors. Only the committer changes it, in one step per group (`CommitGroup`), which folds
`Member` over the proposals it took: each is answered from its receipt, or prepared on what the
earlier members left. The five kinds of proposals are the operators `Transaction`,
`ApplyAdmissions`, `RejectSubmissions`, `AcceptSubmissions` and `AppendAdmissions`. `sync` is the
one authority workflow that the policy actor admits at a time; its proposals go through the same
queue. A row's value is the name of the transaction that wrote it last, which is what tells a
lost update. Three simplifications are exact: a capture takes effect at its place in the queue; an
acknowledgement and the proposal made from it are one step, since nothing in between moves the
head or the neck; a refusal and the reading of the cursors for the rejection are one step, since a
violated assertion stays violated.

*PolicyActor* is the actor with its deadlines, its one lease, the waiting refreshes, the back-off
and the worker that pushes, and the callers of the public API; each policy is a behaviour of its
own. *RowIds* has slots, leased blocks and reopening. *DatabaseFile* has the steps of creating or
reopening a file, with a failure or a crash after each.

*Branches* has the parser of the write-ahead log, incremental and from the start, the private page
overlay of a branch with its memory limit, and the machine that captures snapshots step by step
against a writer that commits, rolls back, checkpoints and restarts the log, with the pool of read
views.

*Catalog* has the authority targets with the contract of guards and mutations, the catalog of
tables, ALTER TABLE and the other schema operations. *Operations* gathers the operation families:
what each prepares from a catalog, the guards and mutations it lowers to, what applying it does and
what undoes it, and the statements that give rise to them. *LogicalReplicas* runs two replicas of that
layer with pending windows, rejections, pulls and a restart. *UpdateTransactions* runs the
statements of an update on its branch with the authorizer's reads, the hooks' captures and
statement rollback, and commits it with the check against what was committed since.

*Records* and *OperationFrames* model the bytes as fields. The machine in OperationFrames writes a
value (`WriteRecord`), may damage the frame in one place (`DamageRecord`) and reads it with the
decoder of the code that will meet it (`ReadRecord`, `ReadPending`, `ReadProposal`, `ReadBatch`).
*SqlFrontEnd* works on parse trees, since the parser is a library.

## Runs

Passing runs (bounds are the constants of the .cfg, each named in its module):

| run | properties | what it shows |
|---|---|---|
| space | LeaseExclusion, ReservedSinceBarrier, HistoryIsExact, AssertsHoldInLog, ReadsAreReplay, LogIsOrdered, HeadsExact, ImplementsMap | no conflicting leases; nothing foreign below a live lease since its barrier; reads, counts, histories, assertions, versions and deltas agree with the log, also for several batches staged in one request; the space implements the map; the head summary is exact for three devices that compete for two places |
| device_push | Certified, ExactlyOnceInOrder, NeverForks, VersionsOnlyGrow, PushReturns, OneWorkflowPerSpace, WaitersAreServed | exactly once, in order, nothing lost, no fork, every push returns; one workflow per space, waiters are served |
| client_leases | LocalAuthorityUnlessRevived, StampsRecordedFirst, AppliedIsServerPrefix, PullReachesItsStart, CheckedAssertsHold | local authority is inside server authority, with crashes, detected wall regressions and repairs, but for the leases a repair revived across such a regression; only a repair takes a stored stamp above the clock record; checked assertions hold until their reservation runs out or is given up unchecked; the admit log is a dense slice and a pull reaches what was there when it started |
| database | ImageAndJournal, AdmittedSawItsPlace, RowidsUnique, OpensWholeOrNot, StoreContract | the image is the server's order plus the pending window; admitted transactions saw what they depend on; row identifiers are unique; a file is initialised whole or untouched; stores keep batches and scans exact |
| logical | ReplicasAgree, OnlyNamedFailures, StaysUsable, RejectionRestores | every pair of logical operations of two replicas, and windows of two against a third: guards, convergence, exact undo, reopening |
| updates | CheckSuffices, RecordingIsExact, SnapshotsAreExact, BlockedOnlyByLive | serializability of commits, replay of branches, statement rollback; snapshots, overlays, views and checkpoints |
| policy | FreshReads, PushDiscipline, ComesToRest | freshness, coverage of buffered writes, exclusion of workflows, coming to rest |
| formats | FramesReadBack, KeysAreExact, SealingIsExact, FrontEndIsSound | every stored frame, key, sealed entry and SQL form, whole and damaged |

A property that is a conjunction of several promises names each conjunct in its module
(`ImageAndJournal`, `ReplicasAgree`, `SnapshotsAreExact`, `FrontEndIsSound`, ...).

Why the bounds are enough for the questions asked:

- Three devices are the least for which the third competes for two head places; two registers
  are the least for a merge.
- A parent and its child below the full range give every relation of two ranges: equal, above,
  below. Three versions allow one below, at and above a floor. Three admissions allow a write, a
  delete over it and a late operation; two batches in a request let a staged entry see another.
- Two lease ids and a time bound above one time to live let a lease expire, be purged and be
  followed by another. One batch of each device is the least for a foreign write before a grant and
  one after it.
- Push: three sequence numbers allow a window of two with a marker behind; one- and two-entry
  payloads with a cap of two let a group be cut; two mailbox places let an abandoned request
  meet a newer one. Three callers on two spaces give a holder, a waiter and an unrelated caller.
- Pages of two over four batches give short, full and exactly full last pages.
- Leases at the client: a time to live of two with a margin of one leaves one usable tick; two
  incarnations allow a crash and a judgement by a successor; three ticks of the server's clock let a
  lease be granted, run out and be followed by another, and three of the wall a reading behind the
  clock record. The part with checked submissions uses one process, one queued submission and reads
  of one tick, which is the least in which a lease is given up, replaced and expires.
- Replica: two updates are the least for a conflict, in one group or across two, and for a window
  of which a part is acknowledged; one batch of another device refuses one window. Three shapes of
  updates (a serializable scan with a write, a write constrained by another row, the deletion of
  a table's range) and two rows give every relation of footprint and region. Pages of one batch
  make every pull go on after its first page.
- Row identifiers: two replicas, slots of three and leases of two, so that a block is cut by the
  end of its slot. Stores: three keys, two puts a statement and two savepoint frames.
- Logical layer: pairs of all operations on a base with two tables, an index, a view and a foreign
  key; windows of two for the groups whose inverses touch the same table.
- Updates: two updates of two statements; branches: one page in the file, two at most, four
  writes, which allow a checkpoint, a restart of the log and a commit into the new one. `Effort`
  (a state constraint) bounds the number of steps of a behaviour of the branches part only.
- Policy: two callers and one fault, one remote write, two local ones; back-off doubles once.
- Formats: two components, two bytes that are escaped and two that are not; two records at a time;
  the limits on changes and bytes of an operation are scaled so that values fall on both sides.

Writers and devices are interchangeable where a cfg says SYMMETRY; those runs check no liveness.
Deadlock checking is off in every run: each stops at a bound of the model (log length, time, sequence
numbers, number of writes), which is not a state of the system.

Violation runs state what the repository says and the code does not do:

| run | disagreement |
|---|---|
| repair_certify | repair stores a lease stamped above the clock record; the next open fails its certification |
| repair_authority | after an open that voided the deadlines of a regressed wall, repair gives one back on the old time line, and the client takes the lease for live after it has run out at the server |
| replica_cancel | dropping the future of a queued update drops its history pin, and a conflict is missed |
| replica_remote | a remote write whose window another caller rolled back returns Ok |

Each quotes the line it contradicts in PROJECT.json. The two runs about repair check the
specification of `client_leases` with longer times to live and more ticks; what that run checks
(`LocalAuthorityUnlessRevived`, `StampsRecordedFirst`) says that these violations have no other
cause. `CancelSpec` and `RemoteSpec` are specifications that separate the other two cases from the
passing runs.

### Exceptions named in the properties

Some promises hold except in situations that were met while modelling. The property, or the conjunct
of it that is named here, then names the exception, so that the rest of the promise stays checked:

- `WaitersAreServed`: a future dropped between the grant and its next poll strands its space
  (coordination.rs:86).
- `LocalAuthorityUnlessRevived`, `StampsRecordedFirst`: the leases that the runs repair_authority and
  repair_certify are about.
- `CheckedAssertsHold`: `unlease_checked` may give up a replacement lease that is live but not yet
  usable (space.rs:746-748 allows it), after which nothing keeps the assertion (`GivenUpUnusable`).
- `CommitOrderIsSerial`: SQLite reports no read for an UPDATE or DELETE without WHERE
  (update.rs:855), so such a statement depends on no table (`Unread`); a renamed table does not
  conflict with reads of its root (`Renamed`).
- `BranchImageStable`, `IncrementalIsCold`, `BlockedOnlyByLive`: the log may be restarted under a
  snapshot that pins the base only; frames spilled by a transaction that rolled back are taken in
  by the incremental parser; a view recycled during a commit may be parked with an old snapshot
  (checkpoint.rs:65).
- `ReadsAreFresh`: a read coalesced behind a pull that was evaluated before the request and
  stamped after it misses what was admitted in between (policy.rs:33).
- `Converge`, `WindowInvertible` and their neighbours: pairs of operations whose guards do not
  meet (for instance an added CHECK and a renamed column, or a view and a renamed table), listed
  in LogicalReplicas by name. An exception holds only where its cause does: a stale spelling when
  everything the operation names is there and its text no longer binds, a rebuild under a view when
  the operation applies without the views.
- `DependenciesComplete`: the dependencies of a subquery inside the window of `count(*) OVER` are
  overlooked (sql.rs:960). `ChecksReadBack`: qualified columns, DISTINCT calls and RAISE in a CHECK
  are accepted and refused by the decoder of stored expressions.
- `OnlyCanonical`: three server records are decoded with bytes left over (`StopsEarly`).

One more disagreement is not part of a property: a lost acquire reply and a retry leave one device
with two live read leases on one prefix, against client/src/meta.rs:605-606.

## Fairness

*DevicePush*: the loop of `push_space` and the actor are always scheduled (threads that are ready
run), so their steps are weakly fair. Failures, crashes and new commits are not fair. They are
bounded by the constants, and a push that is refused for good returns. `PushReturns` says that a
running push ends.

*Coordinator*: the loop thread is weakly fair; a task whose grant was sent is polled, and a holder
finishes or is dropped. Nothing forces a caller to enter.

*PolicyActor*: the actor thread, the worker and the steps of a call that was made are weakly fair,
and so is the clock; faults and new calls are not. `ComesToRest` says that the buffered writes are
pushed and every waiting call is answered.


## Proofs

| theorem | statement | also checked by |
|---|---|---|
| ComponentProofs!HeadsInvariance | HeadsSpec => []HeadsInv | |
| ComponentProofs!HeadsExactness | HeadsSpec => []HeadsExact | space |
| SpaceProofs!LeasesExclude | Space!Spec => []LeaseExclusion | space |
| SpaceProofs!LeasesReserve | Space!Spec => []ReservedSinceBarrier | space |
| SpaceProofs!SpaceTypes | Space!Spec => []TypeOK | |
| RowIdProofs!RowidsAreUnique | RowSpec => []RowidsUnique | database |
| AdmitLogProofs!AppliedIsPrefix | PullSpec => []AppliedIsServerPrefix | client_leases |
| AdmitLogProofs!PullReaches | PullSpec => []PullReachesItsStart | client_leases |
| ComponentProofs!OneWorkflow | CoordSpec => []OneWorkflowPerSpace | device_push |
| DevicePushProofs!PushInvariance | DevicePush!Spec => []PushInv | |
| DevicePushProofs!CertifiedAlways | DevicePush!Spec => []Certified | device_push |
| DevicePushProofs!ExactlyOnce | DevicePush!Spec => []ExactlyOnceInOrder | device_push |
| DevicePushProofs!ForkFree | DevicePush!Spec => []NeverForks | device_push |
| DevicePushProofs!VersionsGrow | DevicePush!Spec => VersionsOnlyGrow | device_push |
| ClientLeasesProofs!LeaseInvariance | ClientLeases!Spec => []LeaseInv | |
| ClientLeasesProofs!LocalAuthority | ClientLeases!Spec => []LocalAuthorityUnlessRevived | client_leases |
| ClientLeasesProofs!StampsUnderRecord | ClientLeases!Spec => StampsRecordedFirst | client_leases |

They hold for every set of devices, callers, spaces, keys, payloads and batches and for every
bound. The assumptions are those stated with the constants: bounds are natural numbers, times to
live and caps are positive where the code has them so, a placeholder is none of the values it
stands beside. *DataFacts* has the facts about naturals and prefixes of sequences that several proofs
cite. The proofs of the two-heads summary and of the coordinator share *ComponentProofs*, those of the
lease workflows are *ClientStepsProofs* (the invariant, and the steps of the client) and
*ClientLeasesProofs* (the clocks, the processes, the server, and the theorems).

*Heads.* `HeadsInv` is inductive: the heads are ordered, belong to different devices, are the
newest observations of their devices, and every other device is no newer than the second.
Exactness of `max_excluding` follows from it without a further step.

*Exclusion.* The proof needs the table to have unique ids below the counter. Grant is the one
action that adds records: its blockers are all live leases in conflict, and the overlapping
expired ones have been purged in the same step, so the stored table, live or not, never holds a
conflicting pair. Renewal changes deadlines and nothing the invariant reads.

*Reservation.* The invariant needs that barriers are at most the log length and that the counter
is the log length (part of TypeOK). An admission step by another device that touches the prefix
is refused by `validate_writes`, whose covering test and the relevance test of the property are
related by a lemma on ranges. A grant sets the barrier to the present length, so the interval is
empty. An expired lease may not be renewed, which is why the property speaks of live leases and
survives `Renew`.

*Row identifiers.* That the next offset of a cached lease was never issued follows from the file
being ahead of every process: every issued rowid is in a slot its replica's file records, below the
lease frontier when that slot is the active one, and a cached lease is the end of what the file has
leased. Slots of different devices are different numbers by a lemma on mixed radix. The theorem
assumes what the code assumes, that no two devices draw the same tag.

*Admit log.* `PullInv` says that the retained batches are the slice of the server's log between
the cursors, that what was applied is the log below the neck, and that a page in flight starts
right behind the tail and agrees with the log. A page shorter than the cap was cut by the end of the
log as it was then, which is at or above where the log was when the pull started. That is what makes
the last page sufficient.

*Coordinator.* `CoordInv` adds two facts to the property. `active` lists every space with a trace of
a workflow (an owner, a task lost with its grant, a Leave on its way), so a grant of an unlisted
space meets no owner. Each task is queued once, in the channel or behind one space, so the queue of a
space never hands its permit to a task that has moved on.

*Push.* `PushInv` relates four places that hold batches: the records of the client, the confirmed
prefix it knows of, the requests in the mailbox and the history of the server. The confirmed prefix is
a chain of the client's own records that misses nothing below the neck but what was given up. The
history is the confirmed prefix, or that prefix followed by a first part of the window: the requests
that expect the confirmed checksum carry first parts of the window, and any other expects a chain
that the history has passed, so the server refuses it. A lost reply leaves the history ahead of the
confirmed prefix, which `Mismatch` with a checksum the client can reproduce repairs; a checksum it
cannot reproduce would be a fork, and the invariant says there is none. A roll back happens only
with an empty mailbox and equal prefixes, which is why giving records up cannot lose an admitted one.

*Lease workflows.* What makes the comparison of two machines' clocks possible is how far the wall of
a process was ahead of the server's clock when it took a stamp. For the running process that is
known and does not change. For an earlier process of the present time line it is at most `anchor`,
the most that open's regression check lets a successor miss. `OnServer` turns a stamp into a server
time it is not before, by that bound. `LeaseInv` then says: a lease was granted after its request
was sent, on the server's clock (`SentBy`); a deadline the client stores, or will store when the
reply it has is processed, is one the server's record outlasts (`Backed`); what the client knows of
a lease is what the server has under its id (`Agrees`); a request nobody waits for any more,
executed late, still keeps this so; and the clock record is moved only to the stamp of the present
workflow, which no stored stamp is newer than. A stored deadline of an earlier time line is void or
its lease is in `revived`: a repair lists what the server has, and of a request stamped before the
regression nothing relates the deadline to the server's clock. While a regressed open has not yet
recorded its clock every deadline is void and nothing on the server or in flight was sent on the new
time line (`VoidOK`), so a process that dies there leaves a state its successor judges the same way.
Nothing is assumed about when a repair runs. A repair may bring back a stamp above the clock record
(repair_certify), so that no stamp is above it is not an invariant; `StampsUnderRecord` says instead
which steps can put one there. It follows from `LeaseInv`: the other steps that store a lease either
store the stamp just recorded, or keep deadlines, or void them.

### What is model-checked only

- Liveness (`PushReturns`, `WaitersAreServed`, `ComesToRest`): the prover has neither fairness nor
  ENABLED.
- What recursive definitions compute for every input: replay of a log, the staged fold of a request
  (`HistoryIsExact`, `AssertsHoldInLog`, `ReadsAreReplay`, `ImplementsMap`), frames and parse trees
  (all of `formats`), logical operations (`logical`, `updates`). The induction theorems of the library
  cannot be instantiated, and a module that reaches a RECURSIVE operator has no SMT backend.
- Checked submissions (`CheckedAssertsHold`): the certificate is recomputed from the log of the space
  by the fold of *DataPlane*.
- The commit pipeline and the policy actor (`database` but for row identifiers, `policy`).

## Not modelled

The routing of a space id to its actor or transport, server start-up, wire message types, physical.rs
(a debug comparison), the rendering of SQL text, the public wrappers of views and the blocking
adapters, the command line tools, the conformance runner and the simulator (PROJECT.json, components,
says why for each). The SQL parser and SQLite itself are libraries: the first is the set of parse
trees, the second is modelled from how the code uses it. Checksums and ciphers are ideal. The ordered
store under server and client is an atomic durable map everywhere but in *OrderedStores*. Undetected
wall errors beyond the margin are outside the documented guarantee and outside `WallReading`. Rolling
back after an ambiguous push is excluded by the documented precondition, which `Rollback` has as its
guard.
