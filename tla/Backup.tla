------------------------------- MODULE Backup -------------------------------
(***************************************************************************)
(* Backup chains and point-in-time restore: database/backup.rs, with the    *)
(* checkpoints of database/flush.rs that remove log segments beside them.   *)
(* A group of the log is a "Commit", which has an epoch of its own, or a    *)
(* "Standalone" change (a graph command, a schema statement, the index      *)
(* API), which is logged at the epoch of the last commit.  Manifests and    *)
(* the cursor are replaced whole and synced (write_metadata); `base` is the *)
(* log position of the database file's image (see Checkpoint).             *)
(***************************************************************************)
EXTENDS LogSegments, SequencesExt

CONSTANTS Dirs,           \* backup directories
          MaxGroups,      \* bound on the groups logged
          MaxBackups,     \* bound on the segments of all manifests
          MaxFaults       \* bound on failed calls and power losses

ASSUME BackupAssumption == MaxGroups \in Nat /\ MaxBackups \in Nat /\ MaxFaults \in Nat

VARIABLES up, published,  \* whether the database is open; the groups published
          base,           \* the image's log position
          manifest,       \* the segments of each backup directory
          cursor,         \* the backup cursor beside the log, {} for none
          guard,          \* who holds the checkpoint guard
          flush,          \* the checkpoint in progress
          backup,         \* the backup in progress; they wait for one another
          faults

vars == <<logVars, up, published, base, manifest, cursor, guard, flush, backup, faults>>

Kinds == {"Commit", "Standalone"}
EpochAt(n) == Cardinality({i \in 1 .. n : log[i] = "Commit"})
CurrentEpoch == EpochAt(published)

NoFlush == [step |-> "None", lsn |-> 0]
NoBackup == [step |-> "None", dir |-> {}, epoch |-> 0, lsn |-> 0, copied |-> {}]
Dir == CHOOSE d \in backup.dir : TRUE \* the directory of the backup in progress
Backups == {<<d, i>> : d \in Dirs, i \in 1 .. MaxBackups}
Taken == Cardinality({b \in Backups : b[2] \in DOMAIN manifest[b[1]]})

Init ==
  /\ InitLog
  /\ up = TRUE
  /\ published = 0
  /\ base = 0
  /\ manifest = [d \in Dirs |-> <<>>]
  /\ cursor = {}
  /\ guard = "None"
  /\ flush = NoFlush
  /\ backup = NoBackup
  /\ faults = 0

LogCommit ==
  /\ up /\ published = Len(log) /\ Len(log) < MaxGroups
  /\ AppendGroup("Commit")
  /\ UNCHANGED <<up, published, base, manifest, cursor, guard, flush, backup, faults>>

Publish ==
  /\ up /\ published < Len(log)
  /\ published' = published + 1
  /\ UNCHANGED <<logVars, up, base, manifest, cursor, guard, flush, backup, faults>>

Standalone ==
  /\ up /\ published = Len(log) /\ Len(log) < MaxGroups
  /\ AppendGroup("Standalone")
  /\ published' = published + 1
  /\ UNCHANGED <<up, base, manifest, cursor, guard, flush, backup, faults>>

\* A checkpoint takes the guard, holds commits off and rotates.
StartFlush ==
  /\ up /\ guard = "None" /\ published = Len(log)
  /\ RotateLog
  /\ guard' = "Flush"
  /\ flush' = [step |-> "Image", lsn |-> Len(log)]
  /\ UNCHANGED <<up, published, base, manifest, cursor, backup, faults>>

\* Its image is written and active.
WriteImage ==
  /\ flush.step = "Image"
  /\ base' = flush.lsn
  /\ flush' = [flush EXCEPT !.step = "Cursor"]
  /\ UNCHANGED <<logVars, up, published, manifest, cursor, guard, backup, faults>>

\* Mutant of ReadCursor: the backup cursor is not looked at.
IgnoreCursor ==
  /\ flush.step = "Cursor"
  /\ flush' = [flush EXCEPT !.step = "Remove"]
  /\ UNCHANGED <<logVars, up, published, base, manifest, cursor, guard, backup, faults>>

\* It keeps the segments from the backup cursor on.  A cursor that cannot be
\* read keeps them all, as FailFlush does here.
ReadCursor ==
  /\ flush.step = "Cursor"
  /\ flush' = [step |-> "Remove", lsn |-> Min({flush.lsn} \cup {c.lsn : c \in cursor})]
  /\ UNCHANGED <<logVars, up, published, base, manifest, cursor, guard, backup, faults>>

RemoveSegment ==
  /\ flush.step = "Remove" /\ Removable(flush.lsn) # {}
  /\ RemoveOldest(flush.lsn)
  /\ UNCHANGED <<up, published, base, manifest, cursor, guard, flush, backup, faults>>

FinishFlush ==
  /\ flush.step = "Remove" /\ Removable(flush.lsn) = {}
  /\ guard' = "None"
  /\ flush' = NoFlush
  /\ UNCHANGED <<logVars, up, published, base, manifest, cursor, backup, faults>>

\* close() waits for backups; after its checkpoint it removes the log, unless a
\* cursor says that a backup chain needs it.
Close ==
  /\ up /\ guard = "None" /\ backup = NoBackup
  /\ base = Len(log) /\ published = Len(log)
  /\ IF cursor = {}
     THEN segs' = {} /\ gone' = gone \cup segs
     ELSE UNCHANGED <<segs, gone>>
  /\ up' = FALSE
  /\ published' = 0
  /\ UNCHANGED <<log, synced, cuts, base, manifest, cursor, guard, flush, backup, faults>>

\* A full backup takes the checkpoint guard until its cursor names the segments
\* after its image, holds commits off, rotates and writes the image.
StartFull(d) ==
  /\ up /\ backup = NoBackup /\ guard = "None" /\ published = Len(log) /\ Taken < MaxBackups
  /\ RotateLog
  /\ guard' = "Full"
  /\ backup' = [step |-> "FullManifest", dir |-> {d}, epoch |-> CurrentEpoch, lsn |-> Len(log),
                copied |-> {}]
  /\ UNCHANGED <<up, published, base, manifest, cursor, flush, faults>>

AddSegment(d, segment) == manifest' = [manifest EXCEPT ![d] = Append(@, segment)]

WriteFullManifest ==
  /\ backup.step = "FullManifest"
  /\ AddSegment(Dir, [kind |-> "Full", start |-> 0, end |-> backup.epoch, lsn |-> backup.lsn,
                             copied |-> {}])
  /\ backup' = [backup EXCEPT !.step = "FullCursor"]
  /\ UNCHANGED <<logVars, up, published, base, cursor, guard, flush, faults>>

WriteFullCursor ==
  /\ backup.step = "FullCursor"
  /\ cursor' = {[epoch |-> backup.epoch, lsn |-> backup.lsn]}
  /\ guard' = "None"
  /\ backup' = NoBackup
  /\ UNCHANGED <<logVars, up, published, base, manifest, flush, faults>>

\* An incremental backup reads the current epoch first; it does not take the
\* checkpoint guard.
StartIncremental(d) ==
  /\ up /\ backup = NoBackup /\ Taken < MaxBackups
  /\ \E i \in DOMAIN manifest[d] : manifest[d][i].kind = "Full"
  /\ cursor # {}
  /\ backup' = [step |-> "Check", dir |-> {d}, epoch |-> CurrentEpoch, lsn |-> 0, copied |-> {}]
  /\ UNCHANGED <<logVars, up, published, base, manifest, cursor, guard, flush, faults>>

From == (CHOOSE c \in cursor : TRUE).lsn
Behind == Last(manifest[Dir]).lsn < From
ChainBroken == (\E s \in segs : s > From) /\ From \notin segs

\* A chain that ends before the cursor, or whose log was removed, is refused.
RefuseIncremental ==
  /\ backup.step = "Check" /\ (Behind \/ ChainBroken)
  /\ backup' = NoBackup
  /\ UNCHANGED <<logVars, up, published, base, manifest, cursor, guard, flush, faults>>

\* Mutant of SealForIncremental: the cursor moves before the copy is made.
SealMovesCursor ==
  /\ backup.step = "Check" /\ ~Behind /\ ~ChainBroken
  /\ RotateLog
  /\ backup' = IF Len(log) = From THEN NoBackup
               ELSE [backup EXCEPT !.step = "Copy", !.lsn = Len(log)]
  /\ cursor' = {[epoch |-> backup.epoch, lsn |-> Len(log)]}
  /\ UNCHANGED <<up, published, base, manifest, guard, flush, faults>>

\* Otherwise the active segment is sealed; without a new group that is all.
SealForIncremental ==
  /\ backup.step = "Check" /\ ~Behind /\ ~ChainBroken
  /\ RotateLog
  /\ backup' = IF Len(log) = From THEN NoBackup
               ELSE [backup EXCEPT !.step = "Copy", !.lsn = Len(log)]
  /\ UNCHANGED <<up, published, base, manifest, cursor, guard, flush, faults>>

\* Mutant of CopySegments: the segment that starts at the cursor is left out.
CopyAfterCursor ==
  /\ backup.step = "Copy"
  /\ backup' = [backup EXCEPT !.step = "Manifest",
                              !.copied = {<<s, EndOf(s)>> : s \in {t \in segs : From < t /\ t < backup.lsn}}]
  /\ UNCHANGED <<logVars, up, published, base, manifest, cursor, guard, flush, faults>>

\* The segments from the cursor up to the sealed end are copied whole.
CopySegments ==
  /\ backup.step = "Copy"
  /\ backup' = [backup EXCEPT !.step = "Manifest",
                              !.copied = {<<s, EndOf(s)>> : s \in {t \in segs : From <= t /\ t < backup.lsn}}]
  /\ UNCHANGED <<logVars, up, published, base, manifest, cursor, guard, flush, faults>>

WriteManifest ==
  /\ backup.step = "Manifest"
  /\ \E c \in cursor :
       AddSegment(Dir, [kind |-> "Incremental", start |-> c.epoch + 1, end |-> backup.epoch,
                               lsn |-> backup.lsn, copied |-> backup.copied])
  /\ backup' = [backup EXCEPT !.step = "Cursor"]
  /\ UNCHANGED <<logVars, up, published, base, cursor, guard, flush, faults>>

WriteCursor ==
  /\ backup.step = "Cursor"
  /\ cursor' = {[epoch |-> backup.epoch, lsn |-> backup.lsn]}
  /\ backup' = NoBackup
  /\ UNCHANGED <<logVars, up, published, base, manifest, guard, flush, faults>>

\* A call fails between two of its steps.
FailFlush ==
  /\ guard = "Flush" /\ faults < MaxFaults
  /\ guard' = "None"
  /\ flush' = NoFlush
  /\ faults' = faults + 1
  /\ UNCHANGED <<logVars, up, published, base, manifest, cursor, backup>>

FailBackup ==
  /\ backup # NoBackup /\ faults < MaxFaults
  /\ guard' = IF guard = "Full" THEN "None" ELSE guard
  /\ backup' = NoBackup
  /\ faults' = faults + 1
  /\ UNCHANGED <<logVars, up, published, base, manifest, cursor, flush>>

PowerLoss ==
  /\ faults < MaxFaults
  /\ PowerLossLog
  /\ up' = FALSE
  /\ published' = 0
  /\ guard' = "None"
  /\ flush' = NoFlush
  /\ backup' = NoBackup
  /\ faults' = faults + 1
  /\ UNCHANGED <<base, manifest, cursor>>

Open ==
  /\ ~up
  /\ OpenLogAt(base)
  /\ up' = TRUE
  /\ published' = Len(log)
  /\ UNCHANGED <<base, manifest, cursor, guard, flush, backup, faults>>

Next ==
  \/ LogCommit \/ Publish \/ Standalone
  \/ StartFlush \/ WriteImage \/ ReadCursor \/ RemoveSegment \/ FinishFlush \/ Close
  \/ \E d \in Dirs : StartFull(d) \/ StartIncremental(d)
  \/ WriteFullManifest \/ WriteFullCursor
  \/ RefuseIncremental \/ SealForIncremental \/ CopySegments \/ WriteManifest \/ WriteCursor
  \/ FailFlush \/ FailBackup \/ PowerLoss \/ Open

Spec == Init /\ [][Next]_vars
-----------------------------------------------------------------------------
(***************************************************************************)
(* Restore: do_restore_to_epoch, restore_segments, copy_groups_until.       *)
(***************************************************************************)
\* The full backups taken at epoch e or before.
FullsFor(d, e) ==
  {i \in DOMAIN manifest[d] : manifest[d][i].kind = "Full" /\ manifest[d][i].end <= e}

\* The incremental segments after the newest of them that do not start past e.
IncrementalsFor(d, e) ==
  {i \in DOMAIN manifest[d] : /\ i > Max(FullsFor(d, e))
                              /\ manifest[d][i].kind = "Incremental"
                              /\ manifest[d][i].start <= e}

\* The log segments they hold: a file copied twice is the later copy.
Staged(d, e) ==
  LET files == UNION {manifest[d][i].copied : i \in IncrementalsFor(d, e)}
  IN {f \in files : \A g \in files : g[1] = f[1] => g[2] <= f[2]}

\* The groups of the restored database: those of the image, then those staged
\* after it up to the first past e.  -1: the scan finds a gap and fails.
Restored(d, e) ==
  LET lsn == manifest[d][Max(FullsFor(d, e))].lsn
      used == {f \in Staged(d, e) : f[2] > lsn \/ f[1] >= lsn}
      end == Max({lsn} \cup {f[2] : f \in used})
      past == {i \in lsn + 1 .. end : EpochAt(i) > e}
  IN IF \/ \E f \in used : f[2] < end /\ \A g \in used : g[1] # f[2]
        \/ used # {} /\ Min({f[1] : f \in used}) > lsn
     THEN -1
     ELSE IF past = {} THEN end ELSE Min(past) - 1

(***************************************************************************)
(* Properties.                                                             *)
(***************************************************************************)
\* The variables have their types; a backup in progress has a destination.
TypeOK ==
  /\ log \in Seq(Kinds) /\ synced \in 0 .. Len(log) /\ published \in 0 .. Len(log)
  /\ segs \subseteq cuts
  /\ base \in 0 .. synced
  /\ Cardinality(cursor) <= 1 /\ \A c \in cursor : c.lsn \in 0 .. synced
  /\ guard \in {"None", "Flush", "Full"}
  /\ (guard = "Flush") = (flush # NoFlush)
  /\ guard = "Full" => backup.step \in {"FullManifest", "FullCursor"}

Restorable == {<<d, e>> \in Dirs \X (0 .. MaxGroups) : FullsFor(d, e) # {}}
Chained(d) == Max({0} \cup {manifest[d][i].lsn : i \in DOMAIN manifest[d]})

\* Where the segments end that follow the full backup a restore to e starts
\* from, up to the next full backup.
Reach(d, e) ==
  LET full == Max(FullsFor(d, e)) IN
  Max({manifest[d][i].lsn :
         i \in {k \in full .. Len(manifest[d]) :
                  \A j \in full + 1 .. k : manifest[d][j].kind = "Incremental"}})

\* A restore to any epoch that a full backup of the directory precedes finds no
\* gap, holds nothing past the epoch, and misses no commit up to it that the
\* incrementals of that full backup reach: whatever checkpoints removed segments
\* meanwhile, whichever backups were cut off, and though an incremental's epochs
\* are read before it seals the log ("they select by order, not by range",
\* backup.rs).  An epoch between the reach of one full backup and the next full
\* backup is restored as far as the first one reaches.
ChainRestores ==
  \A r \in Restorable :
    LET n == Restored(r[1], r[2]) IN
    /\ n >= 0
    /\ EpochAt(n) <= r[2]
    /\ \A i \in 1 .. Reach(r[1], r[2]) : log[i] = "Commit" /\ EpochAt(i) <= r[2] => i <= n

\* The log from the backup cursor on is there: no checkpoint, close or power
\* loss makes the next incremental backup find its chain broken.
LogFromCursorKept ==
  \A c \in cursor : segs # {} /\ NoGap(c.lsn) /\ (c.lsn \in segs \/ \A s \in segs : s < c.lsn)

\* Some chain reaches the cursor: a backup cut off between its manifest and its
\* cursor, or before both, leaves a directory that takes the next incremental.
CursorIsChained == \A c \in cursor : \E d \in Dirs : c.lsn <= Chained(d)
=============================================================================
