------------------------- MODULE TransactionManager -------------------------
(***************************************************************************)
(* The transaction manager of grafeo-engine: snapshots, conflict claims,   *)
(* commit validation, epochs and the cleanup of finished transactions      *)
(* (crates/grafeo-engine/src/transaction/manager.rs).                      *)
(*                                                                         *)
(* Every action is one critical section of the manager: the code holds the *)
(* `transactions` lock (and `committed_epochs`) for all of it.  The commit *)
(* lock spans several of them, from StartCommit to Written, GuardAbort,    *)
(* Complete, RefusePublish or DropUnfinished; it is held exactly while     *)
(* some transaction has a CommitGuard.  How threads wait for the locks and *)
(* for their turn to publish is the subject of module CommitPublish.       *)
(***************************************************************************)
EXTENDS Integers, FiniteSets

CONSTANTS
    Tx,         \* the transaction ids the manager may hand out
    Entity,     \* the nodes and edges transactions claim
    Key,        \* the values of unique keys transactions claim (KeyClaim)
    Levels,     \* the isolation levels transactions begin with
    Claims,     \* the kinds of claims the workload makes
    Workload,   \* which of the optional operations the workload performs
    EpochMax    \* u64::MAX; also the bound on the epochs handed out

ASSUME TxAssumption == IsFiniteSet(Tx)
ASSUME EpochAssumption == EpochMax \in Nat \ {0}
ASSUME ClaimsAssumption == Claims \subseteq {"Write", "Delete", "Endpoint"}
ASSUME WorkloadAssumption ==
    Workload \subseteq {"Private", "Read", "Savepoint", "Direct", "Import", "Fault",
                       "Close", "AbortAll", "Gc"}
ASSUME LevelsAssumption ==
    Levels \subseteq {"ReadCommitted", "SnapshotIsolation", "Serializable"}

VARIABLES
    assigned,           \* assigned_epoch
    published,          \* published_epoch
    activeCount,        \* active_count
    poisoned,           \* poisoned
    unpublishableFrom,  \* unpublishable_from
    closed,             \* closed
    held,               \* the commit lock held for a change: see Holds
    turn,               \* who holds publish_turn to publish: at most one
    committedEpochs,    \* the keys of committed_epochs (the value is epochOf)
    state,              \* info.state; "Unborn": no id yet, "Removed": dropped
    level, private,     \* info.isolation_level, info.private
    start,              \* info.start_epoch
    claims,             \* the claim sets and the read set of info
    mark,               \* the claims at its savepoint, if it has one
    handle,             \* what the committing thread holds: see Handles
    epochOf,            \* the epoch of the commit's Publish handle
    committedTx,        \* history: the transactions reported committed
    direct              \* history: <<epoch, entity>> of each immediate write

vars == <<assigned, published, activeCount, poisoned, unpublishableFrom, closed,
          held, turn, committedEpochs, state, level, private, start, claims, mark, handle,
          epochOf, committedTx, direct>>

----------------------------------------------------------------------------

States == {"Unborn", "Active", "Committing", "Committed", "Aborted", "Removed"}

\* "Guard": a CommitGuard, with the commit lock; "Publish": a Publish handle;
\* "Failed": a Publish handle whose `ordered` step failed; "Dropping": one that
\* was dropped unfinished, with the manager already poisoned; "TakenBack":
\* CommitGuard::abort ran and the caller's rollback comes next.
Handles == {"None", "Guard", "Publish", "Failed", "Dropping", "TakenBack"}

\* "Change": hold_commits_for_change; "Direct": the same behind the idle gate,
\* which also keeps transactions from beginning.
Holds == {"No", "Change", "Direct"}

ClaimSets == [write : SUBSET Entity, delete : SUBSET Entity,
              endpoint : SUBSET Entity, key : SUBSET Key, read : SUBSET Entity]

NoClaims == [write |-> {}, delete |-> {}, endpoint |-> {}, key |-> {}, read |-> {}]

TypeOK ==
    /\ assigned \in Nat /\ published \in Nat /\ activeCount \in Nat
    /\ poisoned \in BOOLEAN /\ closed \in BOOLEAN /\ held \in Holds
    /\ unpublishableFrom \in Nat
    /\ turn \in SUBSET Tx /\ committedEpochs \in SUBSET Tx
    /\ state \in [Tx -> States]
    /\ level \in [Tx -> Levels \cup {"SnapshotIsolation"}]
    /\ private \in [Tx -> BOOLEAN]
    /\ start \in [Tx -> Nat]
    /\ claims \in [Tx -> ClaimSets]
    /\ mark \in [Tx -> SUBSET ClaimSets]
    /\ handle \in [Tx -> Handles]
    /\ epochOf \in [Tx -> Nat]
    /\ committedTx \in SUBSET Tx
    /\ direct \in SUBSET (Nat \X Entity)

Init ==
    /\ assigned = 0 /\ published = 0 /\ activeCount = 0
    /\ poisoned = FALSE /\ closed = FALSE /\ unpublishableFrom = EpochMax
    /\ held = "No" /\ turn = {}
    /\ committedEpochs = {}
    /\ state = [t \in Tx |-> "Unborn"]
    /\ level = [t \in Tx |-> "SnapshotIsolation"]
    /\ private = [t \in Tx |-> FALSE]
    /\ start = [t \in Tx |-> 0]
    /\ claims = [t \in Tx |-> NoClaims]
    /\ mark = [t \in Tx |-> {}]
    /\ handle = [t \in Tx |-> "None"]
    /\ epochOf = [t \in Tx |-> 0]
    /\ committedTx = {} /\ direct = {}

Open(t) == state[t] \in {"Active", "Committing"}
InMap(t) == state[t] \notin {"Unborn", "Removed"}
CommitLocked == held # "No" \/ \E t \in Tx : handle[t] = "Guard"

----------------------------------------------------------------------------
(* Beginning and ending a transaction *)

\* The insert and the count of a new transaction, whose snapshot is the
\* published epoch.
Register(t, isolation, isPrivate) ==
    /\ held # "Direct"
    /\ state[t] = "Unborn"
    /\ state' = [state EXCEPT ![t] = "Active"]
    /\ level' = [level EXCEPT ![t] = isolation]
    /\ private' = [private EXCEPT ![t] = isPrivate]
    /\ start' = [start EXCEPT ![t] = published]
    /\ activeCount' = activeCount + 1
    /\ UNCHANGED <<assigned, published, poisoned, unpublishableFrom, closed, held,
                   turn, committedEpochs, claims, mark, handle, epochOf,
                   committedTx, direct>>

Begin(t) == \E isolation \in Levels : Register(t, isolation, FALSE)

BeginPrivate(t) ==
    /\ "Private" \in Workload
    /\ ~closed
    /\ Register(t, "SnapshotIsolation", TRUE)

\* Mutant: the count goes down once for the transaction and once for its undo.
AbortCountsTwice(t) ==
    /\ state[t] = "Active"
    /\ handle[t] \in {"None", "TakenBack"}
    /\ state' = [state EXCEPT ![t] = IF private[t] THEN "Removed" ELSE "Aborted"]
    /\ activeCount' = activeCount - 2
    /\ handle' = [handle EXCEPT ![t] = "None"]
    /\ mark' = [mark EXCEPT ![t] = {}]
    /\ UNCHANGED <<assigned, published, poisoned, unpublishableFrom, closed, held,
                   turn, committedEpochs, level, private, start, claims, epochOf,
                   committedTx, direct>>

\* The rollback itself (the undo of the store) precedes this; a private
\* transaction leaves the map at once, another one at the next Gc.
Abort(t) ==
    /\ state[t] = "Active"
    /\ handle[t] \in {"None", "TakenBack"}
    /\ state' = [state EXCEPT ![t] = IF private[t] THEN "Removed" ELSE "Aborted"]
    /\ activeCount' = activeCount - 1
    /\ handle' = [handle EXCEPT ![t] = "None"]
    /\ mark' = [mark EXCEPT ![t] = {}]
    /\ UNCHANGED <<assigned, published, poisoned, unpublishableFrom, closed, held,
                   turn, committedEpochs, level, private, start, claims, epochOf,
                   committedTx, direct>>

\* Mutant: the transactions are marked aborted and stay counted.
AbortAllUncounted ==
    LET active == {t \in Tx : state[t] = "Active"} IN
    /\ "AbortAll" \in Workload
    /\ active # {}
    /\ state' = [t \in Tx |-> IF t \in active THEN "Aborted" ELSE state[t]]
    /\ mark' = [t \in Tx |-> IF t \in active THEN {} ELSE mark[t]]
    /\ UNCHANGED <<assigned, published, activeCount, poisoned, unpublishableFrom,
                   closed, held, turn, committedEpochs, level, private, start,
                   claims, handle, epochOf, committedTx, direct>>

AbortAllActive ==
    LET active == {t \in Tx : state[t] = "Active"} IN
    /\ "AbortAll" \in Workload
    /\ active # {}
    /\ state' = [t \in Tx |-> IF t \in active THEN "Aborted" ELSE state[t]]
    /\ mark' = [t \in Tx |-> IF t \in active THEN {} ELSE mark[t]]
    /\ activeCount' = activeCount - Cardinality(active)
    /\ UNCHANGED <<assigned, published, poisoned, unpublishableFrom, closed, held,
                   turn, committedEpochs, level, private, start, claims, handle,
                   epochOf, committedTx, direct>>

----------------------------------------------------------------------------
(* Claims *)

\* Mutant: an edge to a node another transaction deletes is no conflict.
ConflictOnWritesOnly(other, claim, entities) ==
    claim \in {"Write", "Delete"} /\ entities \cap claims[other].write # {}

\* TransactionInfo::conflict_with, over a set of entities.
ConflictWith(other, claim, entities) ==
    \/ claim \in {"Write", "Delete"} /\ entities \cap claims[other].write # {}
    \/ claim = "Delete" /\ entities \cap claims[other].endpoint # {}
    \/ claim = "Endpoint" /\ entities \cap claims[other].delete # {}

Claimed(sets, claim, entities) ==
    CASE claim = "Write" -> [sets EXCEPT !.write = @ \cup entities]
      [] claim = "Delete" -> [sets EXCEPT !.write = @ \cup entities,
                                          !.delete = @ \cup entities]
      [] claim = "Endpoint" -> [sets EXCEPT !.endpoint = @ \cup entities]

\* The scan of the other open transactions is skipped when only one is
\* counted.
RecordClaims(t, claim, entities) ==
    /\ ~poisoned
    /\ activeCount > 1 =>
         \A other \in Tx \ {t} : Open(other) => ~ConflictWith(other, claim, entities)
    /\ state[t] = "Active" /\ handle[t] = "None"
    /\ claims' = [claims EXCEPT ![t] = Claimed(@, claim, entities)]
    /\ UNCHANGED <<assigned, published, activeCount, poisoned, unpublishableFrom,
                   closed, held, turn, committedEpochs, state, level, private,
                   start, mark, handle, epochOf, committedTx, direct>>

RecordKey(t, key) ==
    /\ ~poisoned
    /\ activeCount > 1 =>
         \A other \in Tx \ {t} : Open(other) => key \notin claims[other].key
    /\ state[t] = "Active" /\ handle[t] = "None"
    /\ claims' = [claims EXCEPT ![t].key = @ \cup {key}]
    /\ UNCHANGED <<assigned, published, activeCount, poisoned, unpublishableFrom,
                   closed, held, turn, committedEpochs, state, level, private,
                   start, mark, handle, epochOf, committedTx, direct>>

RecordRead(t, entity) ==
    /\ "Read" \in Workload
    /\ state[t] = "Active" /\ handle[t] = "None"
    /\ claims' = [claims EXCEPT ![t].read = @ \cup {entity}]
    /\ UNCHANGED <<assigned, published, activeCount, poisoned, unpublishableFrom,
                   closed, held, turn, committedEpochs, state, level, private,
                   start, mark, handle, epochOf, committedTx, direct>>

\* A savepoint and the rollback to it: the claims made since are released
\* (the read set is kept).  The code finds them in an inverse log of claims;
\* here the mark holds the claims themselves.
MarkClaims(t) ==
    /\ "Savepoint" \in Workload
    /\ state[t] = "Active" /\ handle[t] = "None"
    /\ mark' = [mark EXCEPT ![t] = {claims[t]}]
    /\ UNCHANGED <<assigned, published, activeCount, poisoned, unpublishableFrom,
                   closed, held, turn, committedEpochs, state, level, private,
                   start, claims, handle, epochOf, committedTx, direct>>

RestoreClaims(t) ==
    /\ ~poisoned
    /\ state[t] = "Active" /\ handle[t] = "None"
    /\ \E saved \in mark[t] :
         claims' = [claims EXCEPT ![t] = [saved EXCEPT !.read = claims[t].read]]
    /\ mark' = [mark EXCEPT ![t] = {}]
    /\ UNCHANGED <<assigned, published, activeCount, poisoned, unpublishableFrom,
                   closed, held, turn, committedEpochs, state, level, private,
                   start, handle, epochOf, committedTx, direct>>

----------------------------------------------------------------------------
(* Committing *)

\* The transactions whose commit took an epoch after t's snapshot and whose
\* claims the manager still holds.
CommittedSince(t) ==
    {o \in committedEpochs \ {t} : epochOf[o] > start[t] /\ InMap(o)}

\* Mutant: the keys of the committed transactions are not looked at.
ValidatedNoKeys(t) ==
    \A o \in CommittedSince(t) :
        /\ claims[t].write \cap claims[o].write = {}
        /\ level[t] = "Serializable" => claims[t].read \cap claims[o].write = {}

\* Mutant: the reads of a serializable transaction are not looked at.
ValidatedNoReads(t) ==
    \A o \in CommittedSince(t) :
        /\ claims[t].write \cap claims[o].write = {}
        /\ claims[t].key \cap claims[o].key = {}

\* The checks of start_commit_after.
Validated(t) ==
    assigned > start[t] =>
        \A o \in CommittedSince(t) :
            /\ claims[t].write \cap claims[o].write = {}
            /\ ~ConflictWith(o, "Endpoint", claims[t].endpoint)
            /\ ~ConflictWith(o, "Delete", claims[t].delete)
            /\ claims[t].key \cap claims[o].key = {}
            /\ level[t] = "Serializable" => claims[t].read \cap claims[o].write = {}

StartCommit(t) ==
    /\ ~CommitLocked
    /\ ~poisoned /\ ~closed
    /\ state[t] = "Active" /\ handle[t] = "None"
    /\ Validated(t)
    /\ assigned + 1 < EpochMax
    /\ assigned' = assigned + 1
    /\ state' = [state EXCEPT ![t] = "Committing"]
    /\ epochOf' = [epochOf EXCEPT ![t] = assigned + 1]
    /\ committedEpochs' = committedEpochs \cup {t}
    /\ handle' = [handle EXCEPT ![t] = "Guard"]
    /\ UNCHANGED <<published, activeCount, poisoned, unpublishableFrom, closed,
                   turn, held, level, private, start, claims, mark, committedTx,
                   direct>>

\* CommitGuard::abort: the log group was not written, the epoch goes back.
\* Every caller rolls the transaction back next.
GuardAbort(t) ==
    /\ handle[t] = "Guard" /\ t \notin turn
    /\ state' = [state EXCEPT ![t] = "Active"]
    /\ committedEpochs' = committedEpochs \ {t}
    /\ assigned' = epochOf[t] - 1
    /\ handle' = [handle EXCEPT ![t] = "TakenBack"]
    /\ UNCHANGED <<published, activeCount, poisoned, unpublishableFrom, closed,
                   turn, held, level, private, start, claims, mark, epochOf,
                   committedTx, direct>>

\* CommitGuard::written: the commit lock goes, the Publish handle stays.
Written(t) ==
    /\ handle[t] = "Guard" /\ t \notin turn
    /\ handle' = [handle EXCEPT ![t] = "Publish"]
    /\ UNCHANGED <<assigned, published, activeCount, poisoned, unpublishableFrom,
                   closed, held, turn, committedEpochs, state, level, private,
                   start, claims, mark, epochOf, committedTx, direct>>

\* Mutant: a private transaction always leaves as it commits.
LeavesAlways(t) == private[t]

\* Whether a private transaction leaves the map as it commits: no other one
\* is counted.
LeavesAtOnce(t) == private[t] /\ activeCount = 1

\* Mutant: a commit publishes without waiting for the one below it.
TakeTurnEarly(t) ==
    /\ handle[t] \in {"Guard", "Publish"}
    /\ turn = {}
    /\ epochOf[t] < unpublishableFrom
    /\ turn' = {t}
    /\ UNCHANGED <<assigned, published, activeCount, poisoned, unpublishableFrom,
                   closed, held, committedEpochs, state, level, private, start,
                   claims, mark, handle, epochOf, committedTx, direct>>

\* Publish::complete_with, of a handle or of a guard that still has the lock:
\* the turn comes, the `ordered` steps run in it (they stamp the versions),
\* and the commit is published.
TakeTurn(t) ==
    /\ handle[t] \in {"Guard", "Publish"}
    /\ turn = {}
    /\ epochOf[t] < unpublishableFrom
    /\ published + 1 >= epochOf[t]
    /\ turn' = {t}
    /\ UNCHANGED <<assigned, published, activeCount, poisoned, unpublishableFrom,
                   closed, held, committedEpochs, state, level, private, start,
                   claims, mark, handle, epochOf, committedTx, direct>>

Complete(t) ==
    /\ t \in turn
    /\ state' = [state EXCEPT ![t] = IF LeavesAtOnce(t) THEN "Removed" ELSE "Committed"]
    /\ committedEpochs' = IF LeavesAtOnce(t) THEN committedEpochs \ {t}
                                            ELSE committedEpochs
    /\ mark' = [mark EXCEPT ![t] = {}]
    /\ activeCount' = activeCount - 1
    /\ published' = IF epochOf[t] > published THEN epochOf[t] ELSE published
    /\ handle' = [handle EXCEPT ![t] = "None"]
    /\ turn' = {}
    /\ committedTx' = committedTx \cup {t}
    /\ UNCHANGED <<assigned, poisoned, unpublishableFrom, closed, held, level,
                   private, start, claims, epochOf, direct>>

\* The `ordered` steps fail half way: the turn goes, then the handle.
OrderedFails(t) ==
    /\ "Fault" \in Workload
    /\ t \in turn
    /\ turn' = {}
    /\ handle' = [handle EXCEPT ![t] = "Failed"]
    /\ UNCHANGED <<assigned, published, activeCount, poisoned, unpublishableFrom,
                   closed, held, committedEpochs, state, level, private, start,
                   claims, mark, epochOf, committedTx, direct>>

\* complete_with of a commit at or above one that did not complete.
RefusePublish(t) ==
    /\ handle[t] \in {"Guard", "Publish"}
    /\ turn = {}
    /\ epochOf[t] >= unpublishableFrom
    /\ handle' = [handle EXCEPT ![t] = "None"]
    /\ UNCHANGED <<assigned, published, activeCount, poisoned, unpublishableFrom,
                   closed, held, turn, committedEpochs, state, level, private,
                   start, claims, mark, epochOf, committedTx, direct>>

\* The handle is dropped unfinished: a failed sync, a failed `ordered` step, a
\* panic.  The drop poisons the manager, then bars the epoch.
DropUnfinished(t) ==
    /\ "Fault" \in Workload
    /\ handle[t] \in {"Guard", "Publish", "Failed"} /\ t \notin turn
    /\ handle' = [handle EXCEPT ![t] = "Dropping"]
    /\ poisoned' = TRUE
    /\ UNCHANGED <<assigned, published, activeCount, unpublishableFrom, closed,
                   held, turn, committedEpochs, state, level, private, start,
                   claims, mark, epochOf, committedTx, direct>>

BarEpoch(t) ==
    /\ handle[t] = "Dropping"
    /\ handle' = [handle EXCEPT ![t] = "None"]
    /\ unpublishableFrom' = IF epochOf[t] < unpublishableFrom THEN epochOf[t]
                                                              ELSE unpublishableFrom
    /\ UNCHANGED <<assigned, published, activeCount, poisoned, closed, held, turn,
                   committedEpochs, state, level, private, start, claims, mark,
                   epochOf, committedTx, direct>>

----------------------------------------------------------------------------
(* Changes outside a transaction, poisoning, closing, cleanup *)

\* Mutant: the hold does not wait for the commits already written.
HoldsAtOnce == ~CommitLocked /\ ~poisoned /\ ~closed

\* hold_commits_for_change succeeds.
HoldsForChange ==
    ~CommitLocked /\ published >= assigned /\ ~poisoned /\ ~closed

HoldForChange ==
    /\ "Import" \in Workload
    /\ HoldsForChange
    /\ held' = "Change"
    /\ UNCHANGED <<assigned, published, activeCount, poisoned, unpublishableFrom,
                   closed, turn, committedEpochs, state, level, private, start,
                   claims, mark, handle, epochOf, committedTx, direct>>

\* Mutant: the immediate write does not look whether a transaction is open.
HoldUngated ==
    /\ "Direct" \in Workload
    /\ HoldsForChange
    /\ held' = "Direct"
    /\ UNCHANGED <<assigned, published, activeCount, poisoned, unpublishableFrom,
                   closed, turn, committedEpochs, state, level, private, start,
                   claims, mark, handle, epochOf, committedTx, direct>>

\* A direct call that commits at once: behind the idle gate it needs no claim.
HoldForDirect ==
    /\ "Direct" \in Workload
    /\ activeCount = 0
    /\ HoldsForChange
    /\ held' = "Direct"
    /\ UNCHANGED <<assigned, published, activeCount, poisoned, unpublishableFrom,
                   closed, turn, committedEpochs, state, level, private, start,
                   claims, mark, handle, epochOf, committedTx, direct>>

\* sync_epoch at the next epoch, under the commit lock; nothing looks again
\* whether the manager was poisoned meanwhile.
SyncEpoch ==
    /\ published + 1 < EpochMax
    /\ assigned' = IF published + 1 > assigned THEN published + 1 ELSE assigned
    /\ published' = published + 1
    /\ held' = "No"
    /\ UNCHANGED <<activeCount, poisoned, unpublishableFrom, closed, turn,
                   committedEpochs, state, level, private, start, claims, mark,
                   handle, epochOf, committedTx>>

DirectWrite(entity) ==
    /\ held = "Direct"
    /\ SyncEpoch
    /\ direct' = direct \cup {<<published + 1, entity>>}

\* A bulk import: it only creates, and transactions may be open.
Import ==
    /\ held = "Change"
    /\ SyncEpoch
    /\ UNCHANGED direct

\* The change failed or changed nothing: the hold goes, no epoch moves.
ReleaseHold ==
    /\ held # "No"
    /\ held' = "No"
    /\ UNCHANGED <<assigned, published, activeCount, poisoned, unpublishableFrom,
                   closed, turn, committedEpochs, state, level, private, start,
                   claims, mark, handle, epochOf, committedTx, direct>>

\* poison(): a rollback, a logged change or a direct write that failed.
Poison ==
    /\ "Fault" \in Workload
    /\ ~poisoned
    /\ poisoned' = TRUE
    /\ UNCHANGED <<assigned, published, activeCount, unpublishableFrom, closed,
                   held, turn, committedEpochs, state, level, private, start,
                   claims, mark, handle, epochOf, committedTx, direct>>

BarAllEpochs ==
    /\ "Fault" \in Workload
    /\ poisoned /\ unpublishableFrom # 0
    /\ unpublishableFrom' = 0
    /\ UNCHANGED <<assigned, published, activeCount, poisoned, closed, held, turn,
                   committedEpochs, state, level, private, start, claims, mark,
                   handle, epochOf, committedTx, direct>>

CloseForWrites ==
    /\ "Close" \in Workload
    /\ ~CommitLocked /\ (poisoned \/ published >= assigned)
    /\ closed' = TRUE
    /\ UNCHANGED <<assigned, published, activeCount, poisoned, unpublishableFrom,
                   held, turn, committedEpochs, state, level, private, start,
                   claims, mark, handle, epochOf, committedTx, direct>>

\* A finished transaction nobody can conflict with any more.
Collectable(t) ==
    \/ state[t] = "Aborted"
    \/ state[t] = "Committed"
       /\ \A a \in Tx : state[a] = "Active" =>
            t \in committedEpochs /\ epochOf[t] < start[a]

Gc ==
    LET gone == {t \in Tx : Collectable(t)} IN
    /\ "Gc" \in Workload
    /\ gone # {}
    /\ state' = [t \in Tx |-> IF t \in gone THEN "Removed" ELSE state[t]]
    /\ committedEpochs' = committedEpochs \ gone
    /\ UNCHANGED <<assigned, published, activeCount, poisoned, unpublishableFrom,
                   closed, turn, held, level, private, start, claims, mark,
                   handle, epochOf, committedTx, direct>>

----------------------------------------------------------------------------

TxStep(t) ==
    \/ Begin(t) \/ BeginPrivate(t) \/ Abort(t)
    \/ \E claim \in Claims \cap {"Write", "Delete"}, entity \in Entity :
          RecordClaims(t, claim, {entity})
    \/ \E claim \in Claims \cap {"Endpoint"}, src, dst \in Entity :
          RecordClaims(t, claim, {src, dst})
    \/ \E key \in Key : RecordKey(t, key)
    \/ \E entity \in Entity : RecordRead(t, entity)
    \/ MarkClaims(t) \/ RestoreClaims(t)
    \/ StartCommit(t) \/ GuardAbort(t) \/ Written(t)
    \/ TakeTurn(t) \/ Complete(t) \/ RefusePublish(t)
    \/ OrderedFails(t) \/ DropUnfinished(t) \/ BarEpoch(t)

Next ==
    \/ \E t \in Tx : TxStep(t)
    \/ \E entity \in Entity : DirectWrite(entity)
    \/ HoldForDirect \/ HoldForChange \/ Import \/ ReleaseHold
    \/ Poison \/ BarAllEpochs \/ CloseForWrites \/ AbortAllActive \/ Gc

Spec == Init /\ [][Next]_vars

----------------------------------------------------------------------------
(* What the manager promises *)

\* Neither transaction's snapshot holds the other's commit.
Concurrent(a, b) == epochOf[a] > start[b] /\ epochOf[b] > start[a]

\* Two transactions that ran concurrently and both committed wrote different
\* entities, and no transaction overwrote an immediate write it did not see:
\* the claims made at write time, the validation of start_commit and the idle
\* gate together leave no lost update, whatever Gc or a private commit dropped.
FirstCommitterWins ==
    /\ \A a, b \in committedTx :
          a # b /\ Concurrent(a, b) => claims[a].write \cap claims[b].write = {}
    /\ \A t \in committedTx, d \in direct :
          start[t] < d[1] /\ d[1] < epochOf[t] => d[2] \notin claims[t].write

\* No transaction committed an edge to a node that a concurrent committed
\* transaction deleted (the Endpoint and Delete claims).
NoDanglingEdge ==
    \A a, b \in committedTx :
        a # b /\ Concurrent(a, b) => claims[a].delete \cap claims[b].endpoint = {}

\* No two concurrent committed transactions wrote the same value of a unique
\* key (record_key and the key check of start_commit).
UniqueKeys ==
    \A a, b \in committedTx :
        a # b /\ Concurrent(a, b) => claims[a].key \cap claims[b].key = {}

\* A committed serializable transaction read nothing that a transaction which
\* committed between its snapshot and its own commit wrote (the SSI check).
SerializableReads ==
    \A a, b \in committedTx :
        level[b] = "Serializable" /\ start[b] < epochOf[a] /\ epochOf[a] < epochOf[b]
            => claims[b].read \cap claims[a].write = {}

\* A snapshot at the published epoch holds whole commits only: every epoch
\* handed out above it belongs to exactly one commit in progress, and no
\* commit in progress, also one that failed half way, has an epoch at or
\* below it.
PublishedIsComplete ==
    /\ \A t \in Tx : state[t] = "Committing" => epochOf[t] > published
    /\ \A e \in published + 1 .. assigned :
          \E t \in Tx : state[t] = "Committing" /\ epochOf[t] = e
    /\ \A a, b \in Tx : state[a] = "Committing" /\ state[b] = "Committing"
                         /\ epochOf[a] = epochOf[b] => a = b

\* active_count counts the open transactions: the claim scan, the idle gate
\* and the removal of private transactions rely on it.
ActiveCountExact == activeCount = Cardinality({t \in Tx : Open(t)})

\* While a transaction can still commit, the manager holds the claims of
\* everyone who committed after its snapshot: neither Gc nor the removal of a
\* private transaction drops a write set that validation needs.
ConflictsKept ==
    \A t \in Tx, o \in committedTx :
        state[t] = "Active" /\ handle[t] = "None" /\ epochOf[o] > start[t]
            => o \in CommittedSince(t)

\* Commits publish in epoch order without gaps: a transaction is reported
\* committed in the step that publishes its epoch, the next one.
PublishInOrder ==
    [][/\ published' \in {published, published + 1}
       /\ \A t \in committedTx' \ committedTx : epochOf[t] = published']_vars

----------------------------------------------------------------------------
(* The inductive invariant behind these properties *)

\* What the handle of a transaction's thread says of its state: a guard is
\* held by one thread, whose epoch is the last one handed out.
HandlesInv ==
    /\ \A t \in Tx : state[t] = "Unborn" =>
          claims[t] = NoClaims /\ mark[t] = {} /\ handle[t] = "None"
    /\ \A t \in Tx : handle[t] \in {"Guard", "Publish", "Failed", "Dropping"} =>
          state[t] = "Committing"
    /\ \A t \in Tx : handle[t] = "TakenBack" =>
          state[t] \in {"Active", "Aborted", "Removed"}
    /\ \A t \in Tx : handle[t] = "Guard" => epochOf[t] = assigned
    /\ \A a, b \in Tx : handle[a] = "Guard" /\ handle[b] = "Guard" => a = b

\* The turn belongs to one commit, the next one to publish.
TurnInv ==
    /\ \A t \in turn : handle[t] \in {"Guard", "Publish"} /\ epochOf[t] = published + 1
    /\ \A a, b \in turn : a = b

\* While a change holds commits off no commit is in progress, and no
\* transaction is open behind the idle gate.
HoldsInv ==
    /\ held # "No" => published = assigned /\ \A t \in Tx : handle[t] # "Guard"
    /\ held = "Direct" => activeCount = 0

\* Where the epochs of snapshots and commits lie.
EpochsInv ==
    /\ published <= assigned
    /\ \A t \in Tx : start[t] <= published
    /\ \A t \in Tx : state[t] = "Committing" =>
          t \in committedEpochs /\ epochOf[t] <= assigned
    /\ \A t \in Tx : state[t] = "Committed" => t \in committedEpochs
    /\ \A t \in committedTx : state[t] \in {"Committed", "Removed"}
                              /\ epochOf[t] <= published

\* What two transactions may not both do.
Compatible(a, b) ==
    /\ claims[a].write \cap claims[b].write = {}
    /\ claims[a].delete \cap claims[b].endpoint = {}
    /\ claims[a].endpoint \cap claims[b].delete = {}
    /\ claims[a].key \cap claims[b].key = {}

\* A transaction that passed validation and whose claims no longer grow.
Settled(t) ==
    state[t] = "Committing" \/ (state[t] = "Active" /\ handle[t] = "TakenBack")

\* Claims of open transactions never conflict.
OpenCompatible ==
    \A a, b \in Tx : a # b /\ Open(a) /\ Open(b) => Compatible(a, b)

\* A settled transaction conflicts with nobody who committed after its
\* snapshot.
SettledCompatible ==
    \A t \in Tx, o \in committedTx :
        Settled(t) /\ epochOf[o] > start[t] => Compatible(t, o)

\* Neither do two committed transactions that ran concurrently.
CommittedCompatible ==
    \A a, b \in committedTx : a # b /\ Concurrent(a, b) => Compatible(a, b)

\* A savepoint only holds claims the transaction still has.
MarksInv ==
    \A t \in Tx : \A m \in mark[t] :
        /\ m.write \subseteq claims[t].write /\ m.delete \subseteq claims[t].delete
        /\ m.endpoint \subseteq claims[t].endpoint /\ m.key \subseteq claims[t].key

\* An immediate write is in the snapshot of every open transaction.
DirectInv ==
    /\ \A d \in direct : d[1] <= published
    /\ \A t \in Tx, d \in direct : Open(t) => d[1] <= start[t]
    /\ \A t \in committedTx, d \in direct : d[1] <= start[t] \/ epochOf[t] < d[1]

\* The read set of a serializable commit, in progress or done, against every
\* commit between its snapshot and it.
ReadsInv ==
    \A t, o \in Tx :
        /\ state[t] = "Committing" \/ t \in committedTx
        /\ state[o] = "Committing" \/ o \in committedTx
        /\ level[t] = "Serializable"
        /\ start[t] < epochOf[o] /\ epochOf[o] < epochOf[t]
        => claims[t].read \cap claims[o].write = {}

\* The whole invariant: every action of the manager preserves it.
IInv ==
    /\ TypeOK /\ ActiveCountExact /\ HandlesInv /\ TurnInv /\ HoldsInv /\ EpochsInv
    /\ PublishedIsComplete /\ ConflictsKept /\ OpenCompatible /\ SettledCompatible
    /\ CommittedCompatible /\ MarksInv /\ DirectInv /\ ReadsInv
=============================================================================
