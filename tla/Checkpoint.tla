----------------------------- MODULE Checkpoint -----------------------------
(***************************************************************************)
(* Checkpoints and opens of a database with a log: database/flush.rs,       *)
(* rowgroup/checkpoint.rs, and the open and close of database/mod.rs, over  *)
(* the file of Container and the log of LogSegments.  A group of the log    *)
(* changes one chunk: a held chunk is written while commits are held off    *)
(* (the catalog, changed by standalone statements), a graph chunk is        *)
(* written from the snapshot while commits go on.  `applied` groups are     *)
(* published; what the store holds of a chunk is how many of them changed   *)
(* it.  There is no backup here (see Backup).                               *)
(***************************************************************************)
EXTENDS Container, LogSegments

CONSTANTS HeldChunks,   \* the chunks of the sections without versions
          MaxGroups,    \* bound on the groups logged
          MaxIteration, \* bound on the iterations of the database header
          MaxFaults,    \* bound on failures, power losses and kills
          KillAnywhere  \* whether a kill may leave a header that is not on disk

ASSUME CheckpointAssumption ==
  /\ Chunks \subseteq Nat /\ HeldChunks \subseteq Chunks
  /\ MaxGroups \in Nat /\ MaxIteration \in Nat /\ MaxFaults \in Nat /\ KillAnywhere \in BOOLEAN
  /\ \A h \in HeldChunks, g \in Chunks \ HeldChunks : h < g

VARIABLES up,       \* whether the database is open
          applied,  \* the groups published
          marks,    \* the graph chunks changed since the baseline
          baseline, \* the image they are relative to, {} for none
          step,     \* the next step of the checkpoint
          snap,     \* what the checkpoint took
          closing,  \* whether it is the one close() makes
          faults

memory == <<up, applied, marks, baseline, step, snap, closing, faults>>
vars == <<fileVars, logVars, memory>>

GraphChunks == Chunks \ HeldChunks
Versions(n) == [c \in Chunks |-> Cardinality({i \in 1 .. n : log[i] = c})]
NoSnap == [versions |-> Versions(0), marks |-> {}, baseline |-> {}, lsn |-> 0]

Steps == {"Idle", "Rotate", "Held", "Graph", "SyncImage", "WriteHeader", "SyncHeader", "Trim",
          "Remove", "RemoveLog"}

Init ==
  /\ InitFile
  /\ InitLog
  /\ up = TRUE
  /\ applied = 0
  /\ marks = {}
  /\ baseline = {}
  /\ step = "Idle"
  /\ snap = NoSnap
  /\ closing = FALSE
  /\ faults = 0

CommitsHeld == closing \/ step \in {"Rotate", "Held"}

\* A commit writes its group.  Groups are published in the order of the log
\* (CommitPublish), so one at a time between the two is enough.
LogCommit(c) ==
  /\ up /\ ~CommitsHeld
  /\ applied = Len(log) /\ Len(log) < MaxGroups
  /\ AppendGroup(c)
  /\ UNCHANGED <<fileVars, memory>>

\* It publishes in its turn: stamping marks the chunk.
PublishCommit ==
  /\ up /\ applied < Len(log)
  /\ applied' = applied + 1
  /\ marks' = marks \cup {log[applied + 1]}
  /\ UNCHANGED <<fileVars, logVars, up, baseline, step, snap, closing, faults>>

\* A standalone statement holds commits off, logs its change and applies it.
Standalone(c) ==
  /\ up /\ ~CommitsHeld
  /\ applied = Len(log) /\ Len(log) < MaxGroups
  /\ AppendGroup(c)
  /\ applied' = applied + 1
  /\ UNCHANGED <<fileVars, up, marks, baseline, step, snap, closing, faults>>

SyncCommits ==
  /\ up /\ SyncLog
  /\ UNCHANGED <<fileVars, memory>>

\* hold_commits waits for the commits in progress; the snapshot takes the
\* marks, which start over.  close() first stops writes for good.
TakeSnapshot(last) ==
  /\ up /\ step = "Idle" /\ applied = Len(log)
  /\ closing => last
  /\ active.iteration < MaxIteration
  /\ closing' = last
  /\ snap' = [versions |-> Versions(applied), marks |-> marks, baseline |-> baseline, lsn |-> 0]
  /\ marks' = {}
  /\ step' = "Rotate"
  /\ UNCHANGED <<fileVars, logVars, up, applied, baseline, faults>>

RotateForCheckpoint ==
  /\ step = "Rotate"
  /\ RotateLog
  /\ snap' = [snap EXCEPT !.lsn = Len(log)]
  /\ step' = "Held"
  /\ UNCHANGED <<fileVars, up, applied, marks, baseline, closing, faults>>

\* The chunks of the snapshot not in the new image yet, in writing order.
Unwritten == {c \in Chunks : snap.versions[c] > 0} \ DOMAIN building.entries

\* A held chunk that would be written as it is is reused.
SameBytes(c) ==
  c \in DOMAIN Previous /\ file[Previous[c].page] = Chunk(c, snap.versions[c])

WriteHeldChunk ==
  /\ step = "Held" /\ Unwritten \cap HeldChunks # {}
  /\ LET c == Min(Unwritten) IN
     IF SameBytes(c) THEN ReuseChunk(c) ELSE WriteChunk(c, snap.versions[c])
  /\ UNCHANGED <<logVars, memory>>

ReleaseCommits ==
  /\ step = "Held" /\ Unwritten \cap HeldChunks = {}
  /\ step' = "Graph"
  /\ UNCHANGED <<fileVars, logVars, up, applied, marks, baseline, snap, closing, faults>>

\* A graph chunk without marks is reused, without a look at its bytes, when the
\* marks are relative to the image the checkpoint follows.
Unchanged(c) ==
  /\ snap.baseline = {active.iteration}
  /\ c \in DOMAIN Previous
  /\ c \notin snap.marks

WriteGraphChunk ==
  /\ step = "Graph" /\ Unwritten # {}
  /\ LET c == Min(Unwritten) IN
     IF Unchanged(c) THEN ReuseChunk(c) ELSE WriteChunk(c, snap.versions[c])
  /\ UNCHANGED <<logVars, memory>>

FinishImage ==
  /\ step = "Graph" /\ Unwritten = {}
  /\ WriteDirectory
  /\ step' = "SyncImage"
  /\ UNCHANGED <<logVars, up, applied, marks, baseline, snap, closing, faults>>

SyncNewImage ==
  /\ step = "SyncImage"
  /\ SyncImage
  /\ step' = "WriteHeader"
  /\ UNCHANGED <<logVars, up, applied, marks, baseline, snap, closing, faults>>

WriteNewHeader ==
  /\ step = "WriteHeader"
  /\ WriteHeader(snap.lsn)
  /\ step' = "SyncHeader"
  /\ UNCHANGED <<logVars, up, applied, marks, baseline, snap, closing, faults>>

SyncNewHeader ==
  /\ step = "SyncHeader"
  /\ SyncHeader
  /\ step' = "Trim"
  /\ UNCHANGED <<logVars, up, applied, marks, baseline, snap, closing, faults>>

\* The new image is active and the marks set since the snapshot are relative
\* to it (written_as).
ActivateImage ==
  /\ step = "Trim"
  /\ Trim(snap.lsn)
  /\ baseline' = {active.iteration + 1}
  /\ step' = "Remove"
  /\ UNCHANGED <<logVars, up, applied, marks, snap, closing, faults>>

\* remove_segments_before, one file at a time.
RemoveSegment ==
  /\ step = "Remove" /\ Removable(snap.lsn) # {}
  /\ RemoveOldest(snap.lsn)
  /\ UNCHANGED <<fileVars, memory>>

FinishCheckpoint ==
  /\ step = "Remove" /\ Removable(snap.lsn) = {}
  /\ step' = IF closing THEN "RemoveLog" ELSE "Idle"
  /\ snap' = NoSnap
  /\ UNCHANGED <<fileVars, logVars, up, applied, marks, baseline, closing, faults>>

\* close() removes the sidecar log once the image holds all of it.
CloseDatabase ==
  /\ step = "RemoveLog"
  /\ segs' = {}
  /\ gone' = gone \cup segs
  /\ UNCHANGED <<log, synced, cuts>>
  /\ up' = FALSE
  /\ step' = "Idle"
  /\ closing' = FALSE
  /\ UNCHANGED <<fileVars, applied, marks, baseline, snap, faults>>

\* Mutant of FailCheckpoint: the graphs go on following the active image.
FailKeepsBaseline ==
  /\ step # "Idle" /\ faults < MaxFaults
  /\ IF step \in {"SyncImage", "SyncHeader"} THEN SyncFileFails ELSE UNCHANGED <<file, disk, dirty>>
  /\ building' = NoImage
  /\ snap' = NoSnap
  /\ step' = "Idle"
  /\ faults' = faults + 1
  /\ UNCHANGED <<active, logVars, up, applied, marks, baseline, closing>>

\* A step of the checkpoint fails: the marks it took are lost, so the next one
\* writes every chunk.  A failed close() keeps the database closed for writes.
FailCheckpoint ==
  /\ step # "Idle" /\ faults < MaxFaults
  /\ IF step \in {"SyncImage", "SyncHeader"} THEN SyncFileFails ELSE UNCHANGED <<file, disk, dirty>>
  /\ baseline' = IF step \in {"Remove", "RemoveLog"} THEN baseline ELSE {}
  /\ building' = NoImage
  /\ snap' = NoSnap
  /\ step' = "Idle"
  /\ faults' = faults + 1
  /\ UNCHANGED <<active, logVars, up, applied, marks, closing>>

Down ==
  /\ up' = FALSE
  /\ marks' = {}
  /\ baseline' = {}
  /\ step' = "Idle"
  /\ snap' = NoSnap
  /\ closing' = FALSE

PowerLoss ==
  /\ faults < MaxFaults
  /\ PowerLossFile
  /\ PowerLossLog
  /\ Down
  /\ applied' = 0
  /\ faults' = faults + 1

\* The process dies; what it wrote stays in the page cache.
Kill ==
  /\ up /\ faults < MaxFaults
  /\ KillAnywhere \/ \A s \in {0, 1} : file[SlotPage(s)] = disk[SlotPage(s)]
  /\ Down
  /\ applied' = 0
  /\ building' = NoImage
  /\ faults' = faults + 1
  /\ UNCHANGED <<file, disk, dirty, active, logVars>>

\* The open loads the image, follows it, and replays the log from its position.
Open ==
  /\ ~up
  /\ OpenFile
  /\ OpenLogAt(active'.lsn)
  /\ up' = TRUE
  /\ applied' = Len(log)
  /\ marks' = {log[i] : i \in active'.lsn + 1 .. Len(log)} \ HeldChunks
  /\ baseline' = {active'.iteration}
  /\ UNCHANGED <<step, snap, closing, faults>>

Next ==
  \/ \E c \in GraphChunks : LogCommit(c)
  \/ PublishCommit
  \/ \E c \in HeldChunks : Standalone(c)
  \/ SyncCommits
  \/ \E last \in BOOLEAN : TakeSnapshot(last)
  \/ RotateForCheckpoint
  \/ WriteHeldChunk \/ ReleaseCommits \/ WriteGraphChunk \/ FinishImage
  \/ SyncNewImage \/ WriteNewHeader \/ SyncNewHeader \/ ActivateImage
  \/ RemoveSegment \/ FinishCheckpoint \/ CloseDatabase
  \/ FailCheckpoint \/ PowerLoss \/ Kill
  \/ Open

Spec == Init /\ [][Next]_vars
-----------------------------------------------------------------------------
(***************************************************************************)
(* Properties.                                                             *)
(***************************************************************************)
\* The variables have their types, and no page past the bound was wanted.
TypeOK ==
  /\ DOMAIN file = AllPages /\ DOMAIN disk = AllPages
  /\ dirty \subseteq AllPages
  /\ active.slot \in {0, 1} /\ active.lsn \in 0 .. MaxGroups
  /\ active.runs \subseteq DataPages /\ building.runs \subseteq DataPages
  /\ log \in Seq(GraphChunks \cup HeldChunks)
  /\ synced \in 0 .. Len(log) /\ applied \in 0 .. Len(log)
  /\ segs \subseteq cuts /\ cuts \subseteq 0 .. MaxGroups
  /\ marks \subseteq GraphChunks
  /\ step \in Steps /\ closing \in BOOLEAN /\ up \in BOOLEAN

\* Whatever a power loss, a kill or a close left, the file opens at an image
\* with all its pages, which holds every group before its log position and none
\* after it: "a crash at any point opens either the old or the new image"
\* (manager.rs, write_checkpoint), and no chunk was reused that had changed.
OpensWhole ==
  ~up => \E s \in ActiveHeader(file) :
           LET image == ImageAt(file, s) IN
           /\ Whole(file, image.root)
           /\ image.lsn <= Len(log)
           /\ Contents(file, image.root) = Versions(image.lsn)

\* The segments an open finds follow that image without a gap up to the end of
\* the log: a checkpoint removes none before the header that covers it is
\* durable, and a removal cut short, or undone by the power loss, does no harm.
LogFollowsImage ==
  ~up => \A s \in ActiveHeader(file) :
           LET lsn == ImageAt(file, s).lsn IN NoGap(lsn) /\ ScanEnd(lsn) = Len(log)

\* While a graph follows an image, that image is the active one and holds the
\* current contents of every chunk without a mark: what an incremental
\* checkpoint reuses without reading is right, after failed checkpoints,
\* commits during a checkpoint, and replays.
BaselineExact ==
  up /\ baseline # {} =>
    /\ baseline = {active.iteration}
    /\ \A c \in GraphChunks \ (marks \cup snap.marks) :
         Contents(file, active.root)[c] = Versions(applied)[c]

\* An open never falls back behind the image the manager served before it: a
\* checkpoint that was reported done is not undone by a power loss.
CheckpointSticks ==
  [][Open => active'.lsn >= active.lsn /\ active'.iteration >= active.iteration]_vars

\* The pages of replaced images are used again: the spared pages span at most
\* the old image and the new one, and one more for each checkpoint that failed.
FileBounded == Max(active.runs) < DataStart + (2 + faults) * (Cardinality(Chunks) + 1)
=============================================================================
