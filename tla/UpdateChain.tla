---------------------------- MODULE UpdateChain ----------------------------
(***************************************************************************)
(* The update chain of one vector of a column of the row-group store: the  *)
(* newest values in place, and the undo nodes that hold what each writer   *)
(* replaced (grafeo-core/src/graph/rowgroup: updates.rs, and its callers   *)
(* in apply.rs, column.rs and collect.rs).                                 *)
(*                                                                         *)
(* Every action is one hold of the store's lock.  Who may write, commit    *)
(* and collect follows the transaction manager: a row is claimed by one    *)
(* open transaction at a time, a commit over a newer write is refused      *)
(* (FirstCommitterWins of module TransactionManager), a direct call runs   *)
(* alone, and a collect runs at a horizon no reader is older than (module  *)
(* ReadHorizon).  The rows exist from the first epoch on.                  *)
(***************************************************************************)
EXTENDS Integers, FiniteSetsExt, SequencesExt, TLC

CONSTANTS
    Row,            \* the rows of the vector
    Value,          \* what a row may hold
    None,           \* no value
    Writer,         \* the transactions
    EpochMax,       \* bound on the epochs
    LogMax,         \* bound on the entries of a transaction's change set
    CollectBound    \* COLLECT_BOUND

ASSUME SetsAssumption == IsFiniteSet(Row) /\ IsFiniteSet(Writer) /\ None \notin Value
ASSUME WriterAssumption == Writer \cap Nat = {}
ASSUME BoundsAssumption == EpochMax \in Nat /\ LogMax \in Nat /\ CollectBound \in Nat \ {0}

VARIABLES
    vector,     \* the column's values and the vector's chain
    assigned,   \* the last epoch a commit took
    published,  \* the published epoch
    phase,      \* where each transaction is: see Phases
    snap,       \* its snapshot
    epochOf,    \* its commit epoch
    log,        \* its change set
    claimed,    \* the rows it claims
    direct,     \* the epoch of the direct call that runs, 0 with none
    epoch,      \* RowGroupStore::epoch
    floor,      \* RowGroupStore::floor
    listed,     \* has_listed
    settled,    \* settled
    heldAt,     \* held_at
    broken,     \* a stamp or an undo found no pending version
    past,       \* history: the state each readable epoch committed
    writtenAt   \* history: the last published epoch that wrote each row

vars == <<vector, assigned, published, phase, snap, epochOf, log, claimed, direct,
          epoch, floor, listed, settled, heldAt, broken, past, writtenAt>>

Phases == {"Unborn", "Active", "RolledBack", "Undone", "Committing", "Stamped", "Done"}
Held == Value \cup {None}

\* A stamp is the transaction while it is open, then its commit epoch.
IsPending(stamp) == stamp \in Writer
Stamps == Writer \cup 0 .. EpochMax

TypeOK ==
    /\ vector.column \in [Row -> Held]
    /\ \A node \in Range(vector.nodes) :
         /\ node.stamp \in Stamps
         /\ DOMAIN node.rows \subseteq Row /\ DOMAIN node.rows # {}
         /\ Range(node.rows) \subseteq Held
    /\ {assigned, published, direct, epoch, floor, vector.newest} \subseteq 0 .. EpochMax
    /\ floor <= published /\ published <= assigned
    /\ phase \in [Writer -> Phases]
    /\ snap \in [Writer -> 0 .. EpochMax] /\ epochOf \in [Writer -> 0 .. EpochMax]
    /\ \A t \in Writer : \A entry \in Range(log[t]) :
         entry \in [row : Row, value : Held, before : Held, version : {"Created", "Replaced"}]
    /\ claimed \in [Writer -> SUBSET Row]
    /\ vector.pending \in Nat /\ settled \in Nat /\ heldAt \in 0 .. EpochMax + 1
    /\ {listed, broken} \subseteq BOOLEAN
    /\ past \in [floor .. published -> [Row -> Held]]
    /\ writtenAt \in [Row -> 0 .. EpochMax]

Init ==
    /\ vector = [column |-> [r \in Row |-> None], nodes |-> <<>>, newest |-> 0, pending |-> 0]
    /\ assigned = 0 /\ published = 0 /\ direct = 0 /\ epoch = 0 /\ floor = 0
    /\ phase = [t \in Writer |-> "Unborn"]
    /\ snap = [t \in Writer |-> 0] /\ epochOf = [t \in Writer |-> 0]
    /\ log = [t \in Writer |-> <<>>] /\ claimed = [t \in Writer |-> {}]
    /\ listed = FALSE /\ settled = 0 /\ heldAt = 0 /\ broken = FALSE
    /\ past = [e \in {0} |-> [r \in Row |-> None]]
    /\ writtenAt = [r \in Row |-> 0]

----------------------------------------------------------------------------
(* The chain *)

HoldersOf(v, row) == {i \in DOMAIN v.nodes : row \in DOMAIN v.nodes[i].rows}

\* A reader: a transaction at its snapshot, or (tx = None) a committed read.
ReadBy(t) == [tx |-> t, epoch |-> snap[t]]
ReadAt(e) == [tx |-> None, epoch |-> e]
Sees(read, stamp) == IF IsPending(stamp) THEN stamp = read.tx ELSE stamp <= read.epoch

\* Mutant: the first node the reader does not see decides.
SavedNewest(v, row, read) ==
    LET unseen == {i \in HoldersOf(v, row) : ~Sees(read, v.nodes[i].stamp)}
    IN  IF unseen = {} THEN {} ELSE {v.nodes[Max(unseen)].rows[row]}

\* Updates::saved, as the set of what it finds: the walk from the newest node
\* ends at the first node of the row the reader sees.
Saved(v, row, read) ==
    LET holders == HoldersOf(v, row)
        last == Max({0} \cup {i \in holders : Sees(read, v.nodes[i].stamp)})
        unseen == {i \in holders : i > last}
    IN  IF \/ v.pending = 0 /\ v.newest <= read.epoch
           \/ last > 0 /\ IsPending(v.nodes[last].stamp)
           \/ unseen = {}
        THEN {} ELSE {v.nodes[Min(unseen)].rows[row]}

\* Hot::get_at
ValueAt(v, row, read) ==
    LET saved == Saved(v, row, read)
    IN  IF saved = {} THEN v.column[row] ELSE CHOOSE kept \in saved : TRUE

\* Whether the search of Updates::keep finds a node of the writer.
KeptBefore(v, row, stamp, snapshot) ==
    \E i \in HoldersOf(v, row) :
        /\ v.nodes[i].stamp = stamp
        /\ \A j \in DOMAIN v.nodes : j > i =>
             IsPending(v.nodes[j].stamp) \/ v.nodes[j].stamp > snapshot

\* Updates::keep
Keep(v, row, stamp, snapshot) ==
    LET n == Len(v.nodes) IN
    IF KeptBefore(v, row, stamp, snapshot) THEN v
    ELSE IF n > 0 /\ v.nodes[n].stamp = stamp
    THEN [v EXCEPT !.nodes[n].rows = (row :> v.column[row]) @@ @]
    ELSE [v EXCEPT !.nodes = Append(@, [stamp |-> stamp, rows |-> row :> v.column[row]]),
                   !.pending = IF IsPending(stamp) THEN @ + 1 ELSE @,
                   !.newest = IF IsPending(stamp) THEN @ ELSE Max({@, stamp})]

\* Columns::write
WriteRow(v, row, value, stamp, snapshot) ==
    [Keep(v, row, stamp, snapshot) EXCEPT !.column[row] = value]

\* Columns::stamp with check_kept: the newest node of the row is the
\* transaction's, or an earlier entry of this commit stamped it.
StampEntry(v, entry, t, at) ==
    LET i == Max({0} \cup HoldersOf(v, entry.row)) IN
    IF i > 0 /\ v.nodes[i].stamp = t
    THEN [v EXCEPT !.nodes[i].stamp = at, !.pending = @ - 1, !.newest = Max({@, at})]
    ELSE v
StampFinds(v, entry, t, at) ==
    LET i == Max({0} \cup HoldersOf(v, entry.row)) IN i > 0 /\ v.nodes[i].stamp \in {t, at}

\* Mutant: a node left empty goes uncounted.
UndoUncounted(v, row, i) ==
    LET kept == v.nodes[i].rows
        rest == [r \in DOMAIN kept \ {row} |-> kept[r]]
    IN  [v EXCEPT !.column[row] = kept[row],
                  !.nodes = IF DOMAIN rest = {} THEN RemoveAt(@, i) ELSE [@ EXCEPT ![i].rows = rest]]

\* Columns::undo with Updates::undo: node i gives the row back.
UndoKept(v, row, i) ==
    LET kept == v.nodes[i].rows
        rest == [r \in DOMAIN kept \ {row} |-> kept[r]]
    IN  [v EXCEPT !.column[row] = kept[row],
                  !.nodes = IF DOMAIN rest = {} THEN RemoveAt(@, i) ELSE [@ EXCEPT ![i].rows = rest],
                  !.pending = IF DOMAIN rest = {} THEN @ - 1 ELSE @]

\* Inner::restore_value
UndoFinds(v, entry, t) ==
    LET i == Max({0} \cup HoldersOf(v, entry.row)) IN
    entry.version = "Replaced" \/ (i > 0 /\ v.nodes[i].stamp = t)
UndoEntry(v, entry, t) ==
    IF entry.version = "Replaced" THEN [v EXCEPT !.column[entry.row] = entry.before]
    ELSE IF UndoFinds(v, entry, t) THEN UndoKept(v, entry.row, Max(HoldersOf(v, entry.row)))
    ELSE v

\* Mutant: a node one epoch past the horizon goes too.
DropSeenEarly(v, horizon) ==
    LET kept == SelectSeq(v.nodes, LAMBDA node :
                    IsPending(node.stamp) \/ node.stamp > horizon + 1)
        committed == {node \in Range(kept) : ~IsPending(node.stamp)}
    IN  [v EXCEPT !.nodes = kept, !.pending = Cardinality({i \in DOMAIN kept : IsPending(kept[i].stamp)}),
                  !.newest = Max({0} \cup {node.stamp : node \in committed})]

\* Updates::collect_chain
DropSeen(v, horizon) ==
    LET kept == SelectSeq(v.nodes, LAMBDA node :
                    IsPending(node.stamp) \/ node.stamp > horizon)
        committed == {node \in Range(kept) : ~IsPending(node.stamp)}
    IN  [v EXCEPT !.nodes = kept, !.pending = Cardinality({i \in DOMAIN kept : IsPending(kept[i].stamp)}),
                  !.newest = Max({0} \cup {node.stamp : node \in committed})]

----------------------------------------------------------------------------
(* Writing *)

Open(t) == phase[t] \notin {"Unborn", "Done"}
RowsOf(entries) == {entry.row : entry \in Range(entries)}

\* Mutant: a write always reports a version of its own.
VersionCreated(row, stamp, snapshot) == "Created"

\* What a write does to the writer's version of the value (Column::keep).
VersionOf(row, stamp, snapshot) ==
    IF KeptBefore(vector, row, stamp, snapshot) THEN "Replaced" ELSE "Created"

\* A transaction begins at the published epoch; the direct call holds the
\* idle gate.
Begin(t) ==
    /\ phase[t] = "Unborn" /\ direct = 0
    /\ phase' = [phase EXCEPT ![t] = "Active"]
    /\ snap' = [snap EXCEPT ![t] = published]
    /\ UNCHANGED <<vector, assigned, published, epochOf, log, claimed, direct, epoch,
                   floor, listed, settled, heldAt, broken, past, writtenAt>>

\* TransactionManager::record_writes: the first writer of a row wins.
Claimable(t, row) ==
    \A other \in Writer \ {t} : Open(other) => row \notin claimed[other]

\* Inner::write_value of a transaction: the claim, the change and its entry.
\* Removing a value the row lacks changes nothing.
Write(t, row, value) ==
    /\ phase[t] = "Active" /\ Len(log[t]) < LogMax
    /\ Claimable(t, row)
    /\ value = None => vector.column[row] # None
    /\ vector' = WriteRow(vector, row, value, t, snap[t])
    /\ claimed' = [claimed EXCEPT ![t] = @ \cup {row}]
    /\ log' = [log EXCEPT ![t] = Append(@,
                 [row |-> row, value |-> value, before |-> vector.column[row],
                  version |-> VersionOf(row, t, snap[t])])]
    /\ listed' = TRUE
    /\ UNCHANGED <<assigned, published, phase, snap, epochOf, direct, epoch, floor,
                   settled, heldAt, broken, past, writtenAt>>

DirectBegin ==
    /\ direct = 0 /\ assigned < EpochMax
    /\ \A t \in Writer : ~Open(t)
    /\ direct' = published + 1
    /\ UNCHANGED <<vector, assigned, published, phase, snap, epochOf, log, claimed, epoch,
                   floor, listed, settled, heldAt, broken, past, writtenAt>>

\* Inner::write_value of an immediate write, stamped at once.
DirectWrite(row, value) ==
    /\ direct # 0 /\ settled < CollectBound + LogMax
    /\ value = None => vector.column[row] # None
    /\ vector' = WriteRow(vector, row, value, direct, direct)
    /\ listed' = TRUE /\ settled' = settled + 1 /\ epoch' = Max({epoch, direct})
    /\ writtenAt' = [writtenAt EXCEPT ![row] = direct]
    /\ UNCHANGED <<assigned, published, phase, snap, epochOf, log, claimed, direct, floor,
                   heldAt, broken, past>>

\* TransactionManager::sync_epoch
DirectEnd ==
    /\ direct # 0
    /\ assigned' = direct /\ published' = direct /\ direct' = 0
    /\ past' = past @@ (direct :> vector.column)
    /\ UNCHANGED <<vector, phase, snap, epochOf, log, claimed, epoch, floor, listed,
                   settled, heldAt, broken, writtenAt>>

----------------------------------------------------------------------------
(* Rolling back *)

\* RowGroupStore::undo, last entry first.
UndoneBack(entries, t) ==
    FoldLeft(LAMBDA v, entry : UndoEntry(v, entry, t), vector, Reverse(entries))

\* Whether some undo of the entries finds no pending version.
UndoBreaks(entries, t) ==
    \E i \in DOMAIN entries :
        ~UndoFinds(UndoneBack(SubSeq(entries, i + 1, Len(entries)), t), entries[i], t)

\* TransactionChanges::rollback_to: the entries after the mark go and are
\* undone; the transaction still claims their rows.
RollbackTo(t, mark) ==
    /\ phase[t] = "Active" /\ mark < Len(log[t])
    /\ LET tail == SubSeq(log[t], mark + 1, Len(log[t]))
       IN  vector' = UndoneBack(tail, t) /\ broken' = (broken \/ UndoBreaks(tail, t))
    /\ log' = [log EXCEPT ![t] = SubSeq(@, 1, mark)]
    /\ phase' = [phase EXCEPT ![t] = "RolledBack"]
    /\ UNCHANGED <<assigned, published, snap, epochOf, claimed, direct, epoch, floor,
                   listed, settled, heldAt, past, writtenAt>>

\* TransactionManager::restore_claims, which ends a rollback to a savepoint.
RestoreClaims(t) ==
    /\ phase[t] = "RolledBack"
    /\ claimed' = [claimed EXCEPT ![t] = RowsOf(log[t])]
    /\ phase' = [phase EXCEPT ![t] = "Active"]
    /\ UNCHANGED <<vector, assigned, published, snap, epochOf, log, direct, epoch, floor,
                   listed, settled, heldAt, broken, past, writtenAt>>

\* TransactionChanges::rollback, then TransactionManager::abort.
Rollback(t) ==
    /\ phase[t] = "Active"
    /\ vector' = UndoneBack(log[t], t) /\ broken' = (broken \/ UndoBreaks(log[t], t))
    /\ log' = [log EXCEPT ![t] = <<>>]
    /\ phase' = [phase EXCEPT ![t] = "Undone"]
    /\ UNCHANGED <<assigned, published, snap, epochOf, claimed, direct, epoch, floor,
                   listed, settled, heldAt, past, writtenAt>>

Abort(t) ==
    /\ phase[t] = "Undone"
    /\ claimed' = [claimed EXCEPT ![t] = {}]
    /\ phase' = [phase EXCEPT ![t] = "Done"]
    /\ UNCHANGED <<vector, assigned, published, snap, epochOf, log, direct, epoch, floor,
                   listed, settled, heldAt, broken, past, writtenAt>>

----------------------------------------------------------------------------
(* Committing *)

\* TransactionManager::start_commit_after: refused over a newer write.
StartCommit(t) ==
    /\ phase[t] = "Active" /\ assigned < EpochMax
    /\ \A row \in claimed[t] : writtenAt[row] <= snap[t]
    /\ assigned' = assigned + 1
    /\ epochOf' = [epochOf EXCEPT ![t] = assigned + 1]
    /\ phase' = [phase EXCEPT ![t] = "Committing"]
    /\ UNCHANGED <<vector, published, snap, log, claimed, direct, epoch, floor, listed,
                   settled, heldAt, broken, past, writtenAt>>

Stamped(entries, t, at) ==
    FoldLeft(LAMBDA v, entry : StampEntry(v, entry, t, at), vector, entries)

\* GraphBackend::commit.  A session's commit stamps in its turn; the query
\* processor's may stamp before it (module CommitPublish).
Stamp(t) ==
    /\ phase[t] = "Committing" /\ settled < CollectBound + LogMax
    /\ vector' = Stamped(log[t], t, epochOf[t])
    /\ broken' = (broken \/ \E i \in DOMAIN log[t] :
                    ~StampFinds(Stamped(SubSeq(log[t], 1, i - 1), t, epochOf[t]),
                                log[t][i], t, epochOf[t]))
    /\ settled' = settled + Len(log[t])
    /\ epoch' = Max({epoch, epochOf[t]})
    /\ phase' = [phase EXCEPT ![t] = "Stamped"]
    /\ UNCHANGED <<assigned, published, snap, epochOf, log, claimed, direct, floor, listed,
                   heldAt, past, writtenAt>>

\* What a transaction reads of a row: its last write, or its snapshot.
OwnView(t, base) ==
    [row \in Row |->
        LET writes == {i \in DOMAIN log[t] : log[t][i].row = row}
        IN  IF writes = {} THEN base[row] ELSE log[t][Max(writes)].value]

\* Publish::complete_with: in the order of the epochs.
Publish(t) ==
    /\ phase[t] = "Stamped" /\ epochOf[t] = published + 1
    /\ published' = epochOf[t]
    /\ past' = past @@ (epochOf[t] :> OwnView(t, past[published]))
    /\ writtenAt' = [row \in Row |-> IF row \in RowsOf(log[t]) THEN epochOf[t]
                                     ELSE writtenAt[row]]
    /\ phase' = [phase EXCEPT ![t] = "Done"]
    /\ log' = [log EXCEPT ![t] = <<>>] /\ claimed' = [claimed EXCEPT ![t] = {}]
    /\ UNCHANGED <<vector, assigned, snap, epochOf, direct, epoch, floor, listed, settled,
                   heldAt, broken>>

----------------------------------------------------------------------------
(* Collecting *)

\* The read horizon, with no reader but the open transactions.
Horizon == Min({published} \cup {snap[t] : t \in {w \in Writer : Open(w)}})

\* Mutant: the end of a reader that held a collect back makes none due.
DueWhenFull(horizon) == listed /\ settled >= CollectBound /\ horizon > floor

\* RowGroupStore::collect_due
CollectDue(horizon) ==
    /\ listed
    /\ \/ settled >= CollectBound /\ horizon > floor
       \/ heldAt # 0 /\ horizon >= heldAt

\* Inner::collect_listed of the vector, and RowGroupStore::collected.
CollectVersions(horizon) ==
    /\ listed
    /\ vector' = DropSeen(vector, horizon)
    /\ listed' = (vector'.nodes # <<>>)
    /\ floor' = Max({floor, horizon})
    /\ heldAt' = IF listed' /\ horizon < epoch THEN horizon + 1 ELSE 0
    /\ settled' = 0
    /\ past' = [e \in floor' .. published |-> past[e]]
    /\ UNCHANGED <<assigned, published, phase, snap, epochOf, log, claimed, direct, epoch,
                   broken, writtenAt>>

\* RowGroupStore::collect_after_write and gc_versions, at a horizon computed
\* now or earlier, with or without readers other than transactions.  A collect
\* found due without the lock may run later: GcVersions covers it.
CollectAfterWrite(horizon) == CollectDue(horizon) /\ CollectVersions(horizon)
GcVersions(horizon) == CollectVersions(horizon)

----------------------------------------------------------------------------

Next ==
    \/ \E t \in Writer :
         \/ Begin(t) \/ RestoreClaims(t) \/ Rollback(t) \/ Abort(t)
         \/ StartCommit(t) \/ Stamp(t) \/ Publish(t)
         \/ \E row \in Row, value \in Held : Write(t, row, value)
         \/ \E mark \in 0 .. LogMax - 1 : RollbackTo(t, mark)
    \/ DirectBegin \/ DirectEnd
    \/ \E row \in Row, value \in Held : DirectWrite(row, value)
    \/ \E horizon \in 0 .. Horizon : CollectAfterWrite(horizon) \/ GcVersions(horizon)

Spec == Init /\ [][Next]_vars

----------------------------------------------------------------------------
(* Properties *)

\* Snapshot reads: at every epoch the store still answers, a committed read
\* through the undo nodes finds exactly what had committed by then, whoever
\* has written, rolled back or collected since (Updates::saved, collect); and
\* a transaction reads its own last write of a row that it has not rolled
\* back, and its snapshot elsewhere, also after a rollback to a savepoint
\* (Updates::keep and undo, Inner::restore_value).
SnapshotReads ==
    \A row \in Row :
      /\ \A e \in floor .. published : ValueAt(vector, row, ReadAt(e)) = past[e][row]
      /\ \A t \in Writer : phase[t] \in {"Active", "RolledBack", "Undone", "Committing"} =>
           ValueAt(vector, row, ReadBy(t)) = OwnView(t, past[snap[t]])[row]

\* Every entry of a change set still has its pending version when it is
\* stamped or undone: the broken invariant that would poison the database
\* (not_pending in apply.rs) never happens.
EntriesArePending == ~broken

\* The counters a reader trusts to skip the chain are exact
\* (Chain::seen_whole_by).
ChainCounts ==
    LET committed == {i \in DOMAIN vector.nodes : ~IsPending(vector.nodes[i].stamp)}
    IN  /\ vector.pending = Cardinality(DOMAIN vector.nodes \ committed)
        /\ vector.newest = Max({0} \cup {vector.nodes[i].stamp : i \in committed})

\* What no reader needs stays bounded: while the collect after a write is not
\* due at the horizon, fewer than COLLECT_BOUND kept values could be dropped
\* (RowGroupStore::collect_due).
GarbageBounded ==
    ~CollectDue(Horizon) =>
        Cardinality(UNION {{<<i, row>> : row \in DOMAIN vector.nodes[i].rows} :
            i \in {j \in DOMAIN vector.nodes :
                     ~IsPending(vector.nodes[j].stamp) /\ vector.nodes[j].stamp <= Horizon}})
          < CollectBound

=============================================================================
