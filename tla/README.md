# A TLA+ model of Grafeo's transactions and storage

Grafeo is an embedded graph database (LPG and RDF) with multi-version
concurrency control, a write-ahead log and a single-file container. These
modules model how its transactions, direct writes, imports, checkpoints and
`close()` interact, how the log and the database file survive failures, kills
and power losses, how backup chains are taken and restored, and what a consumer
of its change events sees. TLC checks them on small instances. TLAPS proves the
properties of the transaction manager for every number of transactions,
entities and keys, that the threads around it implement it for every number of
threads, jobs and faults, and the properties of the read pins and the garbage
collection's horizon for every number of readers and commits.

## The system

### Parts

| part | where | state | operations |
|---|---|---|---|
| transaction manager | `grafeo-engine/src/transaction/manager.rs` | assigned and published epoch, transactions with their claims, committed epochs, active count, poison and close flags, idle gate, commit lock, publish turn, write freeze, read pins | begin, claim, read, savepoint, commit (start, written, complete, abort), abort, hold commits, sync epoch, poison, close, gc, pin |
| change sets | `transaction/changes.rs` | the ordered changes of a transaction per graph, the backends it is bound to | record, mark, rollback, rollback to a mark, commit; the streaming set of an import |
| history | `transaction/history.rs` | retention, commit times, floor | record, floor, pin a past epoch |
| sessions | `session/mod.rs`, `session/pending_schema.rs` | current transaction, savepoints, nesting depth, pending schema | begin, commit, rollback, savepoint, release, schema statements |
| direct writes | `database/direct.rs` | the recorder of an immediate call | write at once behind the idle gate, or as a private transaction |
| imports | `database/import.rs` | none of its own | hold commits, stream changes, publish one epoch |
| standalone statements | `database/standalone.rs` | catalog, indexes | hold commits, apply, log |
| checkpoints and flush | `database/flush.rs`, `checkpoint_timer.rs` | checkpoint guard, timer | hold commits, build the image, write it, trim the log |
| write-ahead log | `grafeo-storage/src/wal/` | segments, LSNs, groups, flusher, failure state | begin group, append, finish, cut back, sync, rotate, truncate |
| recovery | `wal/reader.rs`, `wal/recovery.rs`, `engine database/replay.rs` | reader position, open groups | read frames, end at a torn tail, replay complete groups |
| container file | `grafeo-storage/src/file/` | two headers, directory, allocator | write sections, switch header, reclaim extents |
| backup and PITR | `engine database/backup.rs` | backup manifest, segments | full and incremental backup, restore to an epoch |
| row-group store | `grafeo-core/src/graph/rowgroup/` | row groups, version chains, deltas | apply, stamp, roll back, collect versions |
| buffer manager | `grafeo-common/src/memory/buffer/` | grants, consumers, pressure | grant, release, evict |
| change data capture | `engine cdc.rs` | event log, retention | record a commit, read, prune |
| catalog | `engine catalog/` | types, constraints, indexes | define, drop, check |
| query layer | `grafeo-adapters/src/query`, `engine query/`, `grafeo-core/src/execution` | plans, caches | parse, bind, optimise, execute |
| indexes, algorithms, bindings, CLI | `grafeo-core/src/index`, `grafeo-adapters/src/plugins`, `crates/bindings`, `grafeo-cli` | per index | search, build |

### How they interact

A transaction begins at the *published* epoch, its snapshot. Each write first
claims its entity in the manager (first writer wins), then changes the store
and records the change in the transaction's change set, all under a shared
hold of the *write freeze*. A commit takes the *commit lock*, is validated
against everyone who committed after its snapshot, takes the next *assigned*
epoch, writes its group to the log, releases the commit lock, syncs the log,
and waits for its *turn*. In its turn it stamps its versions with the epoch
and publishes it. A commit that fails after its group may be in the log
*poisons* the manager: nothing at or above its epoch is ever published.

A direct write outside a transaction takes the *idle gate*. If nobody is open
it holds commits off, writes at the next epoch and publishes it at once, with
no claims. Otherwise it runs as a private transaction. An import holds commits
off while transactions stay open. A checkpoint holds commits off and also
freezes writes, so it reads a store that does not move.

The log is a sequence of groups in segment files. One thread's fsync covers the
groups of others; the next group, or a marker, records how far it reached, which
is how a later scan tells a torn tail from damage. A checkpoint rotates the log,
writes an image beside the active one into free pages, syncs it, writes the
other header slot, syncs that, and removes the segments the image covers, but
none that a backup chain still needs. An open reads the newest valid header's
image and replays the log from the position it names. A commit in its turn also
hands its changes to the event log, which consumers poll by epoch and which
`gc()` and memory pressure prune.

### What makes it hard

The list is in `PROJECT.json` under `hazards`, each at its line: claims that
are collected while somebody still needs them, commits that sync out of order,
a commit that fails while later ones are already in the log, an epoch that is
handed back, a wakeup lost between a check and a sleep, four locks taken by
several kinds of callers, checks made before a poisoning and used after it,
frames that were cut away and come back after a crash, headers that are in the
page cache only, chunks reused without being read, segments removed while a
backup needs them, events recorded before their commit is published.

## Modules

**TransactionManager** models `transaction/manager.rs`. Each action is one
critical section under the `transactions` lock. The variables keep the names of
the fields; `state`, `level`, `private`, `start` and `claims` are the fields of
`TransactionInfo`, with "Unborn" for an id not handed out and "Removed" for one
dropped from the map. `handle` is what the committing thread holds: a
`CommitGuard` ("Guard", which includes the commit lock), a `Publish` handle,
one whose ordered step failed, one being dropped, or nothing. `held` is the
commit lock held by a change outside a transaction. `turn` is the commit that
holds the publish turn. The entities, keys and levels are model values;
`epochOf`, `committedTx` and `direct` are history variables.

**CommitPublish** models the threads around the manager, at the grain of single
locks and atomic stores: `session/mod.rs` (commit, rollback), `direct.rs`,
`import.rs`, `flush.rs`, `QueryProcessor`'s commit, and the manager's waits. A
thread runs one job; `pc` names its place. The log is reduced to its outcomes
(written, cut back, sync failed), the store to the set of stamped epochs. It
implements TransactionManager: **ManagerRefinement** maps the places of a thread
to the handle it holds, and states `ImplementsManager`.

**UpdateChain** models what the row-group store keeps of one vector of values
(`rowgroup/updates.rs`, `column.rs`, `apply.rs`, `collect.rs`): the chain of undo
nodes, each with the rows it saved, the change set of each transaction, and the
collect with the counters that make it due. What a reader at any epoch must see
is kept beside it in a history variable. It relies on two promises of the other
modules: at most one writer holds a row (`FirstCommitterWins` and the claims of
TransactionManager) and no collect passes a reader (`ReadersKept` of
ReadHorizon).

**ReadHorizon** models what holds that collect back: the counted epochs of
`ReadPins`, the retention and time index of `transaction/history.rs`, and
`collect_horizon`, which moves the history floor under the pins' lock. `commits`
is the queue of commits between their epoch and their return; `turn` says how
far the first of them has come, since it publishes its epoch and records its
time in separate steps. `setter` is a change of the retention, which sets the
retention under its lock and switches `on` afterwards. The clock may jump either
way at any step.

**WriteAheadLog** models `wal/writer.rs` and `wal/reader.rs` at the grain of
frames, fsyncs and locks: groups with their prologue, group commit by a leader
under `sync_lock`, markers, rotation with the creation of the next segment,
failed writes cut back, poisoning, and after a crash the scan, the cut of the
torn tail and the reopened writer. `file` is what the process reads back;
`dirty` and `stale` are what a crash may take away or bring back. A frame takes
one log position. Commits in `Direct` share the transaction id of markers. It
implements **DurableLog**, a sequence of commits of which a prefix is durable:
a crash keeps that prefix and perhaps more, and only durable commits are told
so.

**LogSegments** is the same log as checkpoints, backups and opens see it: a group
is one step, and what matters is which segment files exist. `gone` are removals
that a power loss may undo.

**Container** models the database file (`file/manager.rs`, `file/v3/`): two header
slots, directories with the checksum of each chunk, the allocator, the reuse and
relocation of chunks, the pages spared for an image whose header may be on the
disk. `file` is the page cache, `disk` what a power loss leaves.

**Checkpoint** composes the two with `database/flush.rs`, the marks and baseline of
`rowgroup/checkpoint.rs`, and the open and close of `database/mod.rs`. The step of
a checkpoint is `step`; commits go on between its steps once it has released
them. A group of the log changes one chunk, so the content of a chunk is the
number of groups that changed it.

**Backup** composes LogSegments with `database/backup.rs`: full and incremental
backups into directories that share one cursor, the checkpoints and the close
that look at it, and `restore_to_epoch` as operators over the manifests.

**ChangeCapture** models `cdc.rs` and the clock of `types/hlc.rs`: commits record
events in their turn and then publish, `gc()` and evictions prune under several
holds of the lock, consumers poll with `changes_between`. An action is one hold
of the lock. `replica` is what a consumer makes of the events it got.

The proofs about TransactionManager are in **TransactionManagerLemmas** (facts
about the operators, counting, and what the actions leave alone) and
**TransactionManagerProofs** (a lemma per action and the theorems). Those about
CommitPublish are in **CommitPublishInvariant** (the invariant and the parts of it
that need no counting) and **CommitPublishProofs**, the refinement in
**ManagerRefinementProofs**. Those about ReadHorizon are in **ReadHorizonPins**
(what the operations on the pins do) and **ReadHorizonProofs**, that of DurableLog
in **DurableLogProofs**.

The `MC` modules add the symmetry sets for TLC.

## Runs

| run | question | bounds |
|---|---|---|
| manager_claims | first committer wins, no dangling edge, unique keys, read validation, claims kept | 2 serializable transactions, 1 entity, 1 key, deletes and endpoint claims, private ones, savepoints, direct writes, gc |
| manager_faults | snapshots whole, publishing in order, count exact | 3 transactions, imports, all failures, close, abort_all_active |
| publish_safe | the threads implement the manager; stamping order, schema commits alone, images whole, poison() stops commits, no deadlock | 3 threads, every job but the rollback, 5 faults |
| publish_live | every call returns | 2 threads, every job, every fault |
| update_rows | every reader sees its epoch's values, counters exact, garbage bounded | 2 transactions and direct calls, 2 rows |
| read_horizon | no collect passes a reader or the retention window, pins and times exact | 2 readers, 2 commits, a clock of 2 times, imports, retention off, a window, and for ever |
| log_safe | what was reported durable is read back, what was reported as not written never is, a crash is no damage, syncs leave evidence; the log implements DurableLog | 2 commits that share an id, of up to 2 frames, a flusher, a rotation, 1 fault, 1 crash |
| checkpoint | every open finds a whole image and the log after it; reused chunks are current; replaced pages are used again; no checkpoint is undone | 1 held and 1 graph chunk, 3 groups, 3 checkpoints, 2 failures, kills or power losses |
| backup | every chain restores every epoch it reaches; the log a chain needs is kept | 2 directories, 3 groups, 3 backups, 1 failure or power loss |
| capture | a consumer misses and repeats nothing; time stamps follow epochs; gc reaches its limit | 2 entities, 2 commits of up to 2 changes, 2 pruning threads, 1 consumer, clock going back, counter saturated |
| sync_race | (violated) a rotation whose fsync fails, and a sync of the same file past its check | as log_safe, with pages lost by a failed fsync |
| header_unsynced | (violated) a process killed before the sync of its header | as checkpoint, with kills at any point |

Each module states the types of its variables in TypeOK. The manager's is checked
by manager_claims and proved; the others are documentation that TLC confirmed on
the instances above, and the runs spend their properties elsewhere.

A conflict involves two transactions. The third is the one whose snapshot keeps
claims alive, or that commits in between: manager_faults has it, and the
properties of manager_claims also passed with three, split by isolation level.
The runs use one entity and one key, so TLC never sees a call that claims two
entities at once; that case is left to the proofs, which hold for any sets, and
so is the mixture of isolation levels. `EpochMax` stands for `u64::MAX`. In
TransactionManager it also bounds the epochs handed out, from 1 to `EpochMax - 1`.
In CommitPublish it bounds nothing, since each thread runs one job. Three threads
have a commit, the one below it and an outsider that waits for both. publish_safe
checks them, deadlock included: a thread asleep for good after the others returned
is one. A rollback and its failure are left to publish_live, where two threads are
enough for one to wait for the other's failed commit; publish_safe also passed with
failing rollbacks (1.6 million states), and publish_live with three threads that
commit, write directly and checkpoint (0.5 million). In
ReadHorizon `EpochMax` bounds the commits and `ClockMax` the clock: with the
window of 0, a commit is at the edge of the window or outside it. The same
properties also passed with three commits and no imports (7.7 million states),
and with three times and a window of 1 (5.3 million).

In the log, two groups are the least that one sync covers for another, and a
segment of three frames is full after two of them, so begin_group rotates too;
groups of three frames passed as well. In Checkpoint three iterations use each
header slot again, and 16 pages are more than `FileBounded` allows to be in use,
also after two failures; it also passed with three chunks (10.5 million states),
four groups (13.4 million) and three faults. In Backup three backups give a full one, an
incremental on it and another in either directory. In ChangeCapture a limit of
one event and a window of no epochs make both prunings happen; three epochs and
three changes per commit passed in separate instances.

Symmetry is over identical threads, transactions, directories or readers and is
not used for liveness. Deadlock is checked for the threads of CommitPublish and
WriteAheadLog, where stopping before every call has returned would be a real
deadlock; in the other modules the transaction ids, epochs, groups or faults of
the instance simply run out.

**What the fault model leaves out.** Two violation runs show failures the code does
not survive, and the passing runs then exclude exactly these. In sync_race a
rotation's fsync fails and drops the pages it could not write. The leader of a sync
of the same file passed its check before the rotation poisons the writer, and does
not look again: its own fsync then succeeds and the lost group is reported durable
(`PagesLost` is FALSE in log_safe). A failed fsync and the poisoning after it are
two steps in WriteAheadLog, with other threads in between. In header_unsynced a
process dies between the write of a header and its sync; the next process serves
that image from the page cache, its checkpoint writes over the older image, and a
power loss leaves neither (`KillAnywhere` is FALSE in checkpoint: a kill leaves
header slots that are on the disk). A rename or removal whose directory sync failed
counts as done in Backup. `SyncsAreRecorded` excepts the three failures its comment
names, after which a sync stays unrecorded until the next one; the ghost `unmarked`
marks them.

**Other disagreements.** Some comments promise more than the code does. TLC found
the first five in earlier versions of these modules; no run keeps them.

- `hold_commits` does not keep transactions from beginning: begin takes only the
  idle gate.
- `TransactionManager::commit` stamps its changes before its turn.
- A direct write that checked before `poison()` may publish after it returned.
- A session's failed undo poisons the database only after its abort, so another
  commit may slip in.
- An import records no commit time, so a read at a later time misses it.
- `restore_to_epoch` of an epoch between the reach of one full backup and the next
  full backup gives the older state; its doc (`backup.rs`) promises an error for an
  epoch the chain does not cover.
- A standalone change logged after the last commit of epoch E is not restored by
  `restore_to_epoch(E)` from a chain whose backup came before it.
- Two prunings of the event log at once may drop epochs that fit `max_events`, or
  leave more than that.
- `HlcClock::now` repeats its time stamp once the logical counter is at its end,
  where its doc says "strictly greater".

**Fairness.** `CommitPublish!Spec` assumes weak fairness of each thread's next
step: the scheduler runs every thread that can go on. Nothing is assumed of
failures, which are always a choice, nor of who gets a contended lock: every
thread runs one job, so a lock that others take is free again in the end.

## Proofs

The proof modules make Zenon the prover of a step that names none; a step that
needs arithmetic, records or sequences names SMT. ReadHorizon has its own three
operators on sequences, so that its proofs do without the whole of SequencesExt.

`ManagerInvariant` proves `Spec => []IInv` for any finite set of transactions
and any entities, keys and levels. The properties are not inductive alone. A
commit that passes validation conflicts with no one who committed after its
snapshot only if the manager still holds all their claims (`ConflictsKept`).
That in turn needs the exact count of open transactions (`ActiveCountExact`),
since a private commit leaves at once when it is the only one counted. And a
commit that is published must not conflict with one still waiting, whose
validation saw it as open: `OpenCompatible` covers claims of open transactions,
`SettledCompatible` commits in progress against committed ones, and
`CommittedCompatible` is what is left when both are done. `EpochsInv`,
`PublishedIsComplete`, `TurnInv`, `HandlesInv` and `HoldsInv` place the epochs;
`DirectInv` places immediate writes, `MarksInv` savepoints, `ReadsInv` the reads
of serializable transactions. There is one lemma per
action, and lemmas that carry the parts an action does not touch; TLC checked
`IInv` on the manager's instances before it was proved.

From it follow the theorems for each invariant the manager's runs check, and
`OrderedPublishing` for the action property. The assumptions are that `Tx` is
finite, `EpochMax` is a positive number, and the claim kinds, workloads and
levels are the named ones.

`PublishInvariant` proves `Spec => []PublishInv` for the threads of CommitPublish.
It goes by place: `PlaceInv` says at which lines of the code a thread can be for
each state of its transaction, `LockInv`, `GateInv` and `FreezeInv` which locks it
holds there, `EpochInv` and `WaitInv` where its epoch lies. The steps that need
several threads are these. A thread that waited for the commits before it finds
`published = assigned` and keeps the commit lock, so nobody takes an epoch until it
is done: that is why a schema commit is alone and an image whole. Whoever is in its
turn has the epoch after the published one, since epochs are apart and everything
below is published or barred: that orders the stamps. `StopInv` is the argument
about poison(): it bars every epoch, then takes the turn, so that no thread is left
between the check of its turn and its publish. `SpentInv` counts the threads that
took an epoch, so that no epoch reaches the end of the range; this needs the
assumption that `EpochMax` is above the number of threads plus one, and the others
are that the threads are finite and the jobs and faults the named ones.

`ThreadsImplementManager` proves the refinement from it: every step of a thread is a
step of the manager or leaves it alone. There is one lemma per step that changes
what the manager sees (`BeginMaps` to `BarMaps`), and `QuietSteps` for the others.
`ImplementsManager` asks for stuttering first, which is quicker for TLC and the same
as the manager's `Spec`; the theorem states both.
The two stores of poison() are two steps of the manager, and the epoch that a failed
log write hands back is its `GuardAbort`. With it the theorems on TransactionManager
hold of the threads, except that a thread's transaction makes no claims there.

`HorizonInvariant` does the same for ReadHorizon, for any finite set of readers,
any windows and bounds. It has four parts, each resting on the ones before.
`EpochInv`: the commits in progress have consecutive epochs up to the assigned
one, so that a publish adds one to the published epoch. `TimeInv`: no recorded
time is past the newest taken, so a new entry never goes back. `PinInv`: the
deque of pins is the function from epochs to numbers of readers, written down in
order (`PinsMatch`); no pin is past the published epoch, which is why
`hold_published` may look at the back only. `FloorInv`: what was collected ends at
or before the floor, the floor at or before the published epoch, and no collected
or computed horizon is past a reader. A reader that asks for a past epoch is kept
because `pin_read_at` compares with the floor under the pins' lock, and
`collected <= floor`. From it follow ReadersKept, PinsCountReaders and
TimesAscend. The assumptions are that the readers are finite and none of them is
the writer without a transaction, that the windows are numbers, and that the
bounds are.

`LogKeepsItsPromise` is about DurableLog, the abstract log that log_safe shows
WriteAheadLog to implement: a commit that was told so has its group in the log
after every crash, and no group is in it twice.

Only model-checked: UpdateChain, WindowReadable of ReadHorizon, the log and its
refinement, Checkpoint, Backup and ChangeCapture, and liveness, which is out of the
prover's reach.

## Not modelled, and the plan

In order:

1. Savepoints: the inverse log of claims and the change set's marks, nested
   transactions included, shown to implement "restore the state at the mark".
2. Row versions: creates and deletes (`rowgroup/versions.rs`) beside the values
   of UpdateChain, composed with ReadHorizon's collects.
3. WriteAheadLog in place of the outcomes of a log write in CommitPublish; the
   time index and the history after a replay.
4. Proofs: WindowReadable of ReadHorizon; Checkpoint; the log implements
   DurableLog.

The checkpoint timer and the adaptive flusher only decide when a checkpoint or a
sync is called, which is always possible here. Encryption, the salvage of a
damaged log, upgrades of older file formats and read-only opens are left out.
Nothing outside tests takes grants of the buffer manager; the eviction it asks
of the event log is in ChangeCapture.

The query layer, the indexes, the algorithms, the bindings and the command line
tool are sequential code over data far beyond what a model checker can
enumerate, or plain input and output; the catalog's rules are checked by the
schema commit that SchemaCommitAlone covers and are otherwise left out.
