---------------------------- MODULE WriteAheadLog ----------------------------
(***************************************************************************)
(* The write-ahead log (grafeo-storage wal/writer.rs, wal/reader.rs):      *)
(* groups of frames in segments, one fsync for many commits, sync markers, *)
(* rotation, failed writes cut back, poisoning, and after a crash the scan *)
(* that tells a torn tail from damage and cuts it.                         *)
(*                                                                         *)
(* A commit writes one group and may ask for a sync; the flusher syncs and *)
(* a checkpoint rotates. Each action is a step between two points where    *)
(* another thread or a crash may come in: a frame, an fsync, a lock. A     *)
(* frame takes one log position, so position p is file[p + 1]. `file` is   *)
(* what the process reads back; a crash may take any position in `dirty`.  *)
(* Records, encryption, salvage and frames of later releases are left out. *)
(***************************************************************************)
EXTENDS Integers, FiniteSetsExt, SequencesExt

CONSTANTS
    Tx,             \* the commits, each with one group
    Direct,         \* those that are direct writes: they share the id SYSTEM
    Flusher,        \* the threads that call sync()
    Checkpointer,   \* the threads that call rotate()
    MaxFrames,      \* bound on the frames of a group
    SegmentFrames,  \* the positions a segment reaches before it is full
    PagesLost,      \* whether a failed fsync leaves unwritten pages clean
    MaxFaults,      \* bound on the failed writes, syncs and cuts
    MaxCrashes      \* bound on the crashes

ASSUME TxAssumption == IsFiniteSet(Tx) /\ Direct \subseteq Tx
ASSUME ActorsAssumption ==
    /\ IsFiniteSet(Flusher) /\ IsFiniteSet(Checkpointer)
    /\ Tx \cap Flusher = {} /\ Tx \cap Checkpointer = {} /\ Flusher \cap Checkpointer = {}
    /\ \A a \in Tx \cup Flusher \cup Checkpointer : a \notin {"Hole", "Marker"}
ASSUME BoundsAssumption ==
    /\ MaxFrames \in Nat \ {0} /\ SegmentFrames \in Nat \ {0}
    /\ PagesLost \in BOOLEAN /\ MaxFaults \in Nat /\ MaxCrashes \in Nat

VARIABLES
    file,           \* the frames of all segments, from position 0
    segs,           \* the first positions of the segments
    making,         \* a segment that is created, or was left half made
    dirty,          \* the positions no fsync has covered
    lost,           \* those that no later fsync writes either
    stale,          \* frames that were cut back and may be on the disk still
    end,            \* end_lsn
    synced,         \* synced_lsn
    due, marker,    \* marker_due; marker_start_lsn and marker_end_lsn
    poisoned,
    writer,         \* who holds the writer's lock
    leader,         \* who holds sync_lock
    prologue,       \* the synced_lsn the group being written records
    target,         \* what the leader copied of SyncTarget
    pc, goal,       \* the place of each thread, and the position it syncs to
    status,         \* what each commit was told
    up,             \* whether the log is open
    log,            \* history: the commits whose groups the log holds, with their ends
    opened,         \* history: where the writer continued when it was opened
    unmarked,       \* history: whether a sync may go unrecorded
    faults, crashes

Actor == Tx \cup Flusher \cup Checkpointer

disk == <<file, segs, making, dirty, lost, stale>>
sync == <<synced, due, marker>>
locks == <<writer, leader>>
locals == <<prologue, target, pc, goal, status>>
ghosts == <<up, log, opened, unmarked, faults, crashes>>
vars == <<disk, end, sync, poisoned, locks, locals, ghosts>>

\* A frame that cannot be read: partial, zeros or never written.
Hole == [by |-> "Hole", first |-> FALSE, last |-> FALSE, synced |-> 0]

\* The transaction id of a frame's header.
IdOf(by) == IF by \in Direct THEN "Marker" ELSE by

Active == Max(segs)
SegmentOf(p) == Max({s \in segs : s <= p})
Positions == 0 .. Len(file) - 1

Option(S) == {s \in SUBSET S : Cardinality(s) <= 1}
Frame == [by : Tx \cup {"Hole", "Marker"}, first : BOOLEAN, last : BOOLEAN, synced : Nat]

\* The variables have their types, and no segment starts past the frames that
\* the log holds (rotate_locked).
TypeOK ==
    /\ \A i \in DOMAIN file : file[i] \in Frame
    /\ segs \subseteq 0 .. Len(file) /\ 0 \in segs
    /\ making \in [st : {"None", "Blank", "Whole", "Gone"}, at : 0 .. Len(file)]
    /\ dirty \cup lost \subseteq Positions /\ DOMAIN stale \subseteq Nat
    /\ {end, synced, opened, prologue} \subseteq Nat
    /\ {due, poisoned, up, unmarked} \subseteq BOOLEAN
    /\ marker \in Nat \X Nat
    /\ {writer, leader} \subseteq Option(Actor)
    /\ target \in [seg : Nat, end : Nat]
    /\ pc \in [Actor -> {"Idle", "Prologue", "Group", "Frame", "Last", "Sync", "Fsync",
                         "SyncFailed", "SyncMarker", "Rotate", "SealFailed", "Create",
                         "Header", "Dir", "Done"}]
    /\ goal \in [Actor -> Nat]
    /\ status \in [Tx -> {"None", "NotWritten", "Written", "Durable", "Unknown"}]
    /\ \A i \in DOMAIN log : log[i] \in [tx : Tx, end : 1 .. Len(file)]
    /\ faults \in 0 .. MaxFaults /\ crashes \in 0 .. MaxCrashes

NoSegment == [st |-> "None", at |-> 0]

\* A new log: its first segment was created by Wal::open.
Init ==
    /\ file = <<>> /\ segs = {0} /\ making = NoSegment
    /\ dirty = {} /\ lost = {} /\ stale = <<>>
    /\ end = 0 /\ synced = 0 /\ due = FALSE /\ marker = <<0, 0>>
    /\ poisoned = FALSE /\ writer = {} /\ leader = {}
    /\ prologue = 0 /\ target = [seg |-> 0, end |-> 0]
    /\ pc = [a \in Actor |-> "Idle"] /\ goal = [a \in Actor |-> 0]
    /\ status = [t \in Tx |-> "None"]
    /\ up = TRUE /\ log = <<>> /\ opened = 0 /\ unmarked = FALSE
    /\ faults = 0 /\ crashes = 0

-----------------------------------------------------------------------------
(* Files *)

\* write_frame: the frame follows what the file holds.
AppendFrame(frame) ==
    /\ file' = Append(file, frame)
    /\ dirty' = dirty \cup {Len(file)}
    /\ stale' = [p \in DOMAIN stale \ {Len(file)} |-> stale[p]]

\* Mutant: a failed group is not cut back.
NoCutBack == UNCHANGED <<file, dirty, stale>>

\* cut_back: the file ends where the group began. The new length is not
\* synced, so the disk may keep the frames.
CutBack ==
    /\ file' = SubSeq(file, 1, end)
    /\ dirty' = {p \in dirty : p < end}
    /\ stale' = [p \in DOMAIN stale \cup {q \in Positions : q >= end} |->
                    IF p \in Positions /\ p >= end THEN file[p + 1] ELSE stale[p]]

\* sync_file on the segment that starts at s.
Fsync(s) ==
    /\ dirty' = {p \in dirty : SegmentOf(p) # s}
    /\ stale' = IF s = Active THEN <<>> ELSE stale
    /\ UNCHANGED <<file, lost>>

\* A failed fsync: the pages may count as written from then on.
FsyncFails(s) ==
    LET pages == IF PagesLost THEN {p \in dirty : SegmentOf(p) = s} ELSE {}
    IN  /\ dirty' = dirty \ pages
        /\ lost' = lost \cup pages
        /\ UNCHANGED <<file, stale>>

Fault == faults < MaxFaults /\ faults' = faults + 1

\* A call returns: a commit is over, the flusher or a checkpoint may call again.
\* `said` is what a commit is told.
Return(a, said) ==
    /\ pc' = [pc EXCEPT ![a] = IF a \in Tx THEN "Done" ELSE "Idle"]
    /\ status' = [t \in Tx |-> IF t = a THEN said ELSE status[t]]

Goto(a, place) == pc' = [pc EXCEPT ![a] = place] /\ UNCHANGED status

-----------------------------------------------------------------------------
(* Groups *)

\* begin_group: a poisoned writer takes no group, a full segment is rotated
\* first, and no marker is due for the syncs the prologue will record.
BeginGroup(t) ==
    /\ up /\ t \in Tx /\ pc[t] = "Idle" /\ writer = {}
    /\ \/ /\ poisoned
          /\ Return(t, "NotWritten")
          /\ UNCHANGED <<writer, due>>
       \/ /\ ~poisoned
          /\ writer' = {t}
          /\ IF end - Active >= SegmentFrames
             THEN Goto(t, "Rotate") /\ UNCHANGED due
             ELSE Goto(t, "Prologue") /\ due' = FALSE
    /\ UNCHANGED <<disk, end, synced, marker, poisoned, leader, prologue, target, goal, ghosts>>

\* Mutant: the prologue records the end of the log.
ReadPrologueEnd(t) ==
    /\ pc[t] = "Prologue"
    /\ prologue' = end
    /\ Goto(t, "Group")
    /\ UNCHANGED <<disk, end, sync, poisoned, locks, target, goal, ghosts>>

\* group_writer: the prologue records how far the log is durable.
ReadPrologue(t) ==
    /\ pc[t] = "Prologue"
    /\ prologue' = synced
    /\ Goto(t, "Group")
    /\ UNCHANGED <<disk, end, sync, poisoned, locks, target, goal, ghosts>>

\* write_frame up to its check of the poison.
CheckFrame(t) ==
    /\ pc[t] = "Group" /\ ~poisoned
    /\ Goto(t, "Frame")
    /\ UNCHANGED <<disk, end, sync, poisoned, locks, prologue, target, goal, ghosts>>

\* The frame is written. The LAST frame completes the group: write_last
\* publishes its end.
WriteFrame(t) ==
    LET written == Len(file) - end
        Next_(last) == [by |-> t, first |-> written = 0, last |-> last,
                        synced |-> IF written = 0 THEN prologue ELSE 0]
    IN  /\ pc[t] = "Frame"
        /\ \/ /\ written + 1 < MaxFrames
              /\ AppendFrame(Next_(FALSE))
              /\ Goto(t, "Group")
              /\ UNCHANGED <<end, goal, log>>
           \/ /\ AppendFrame(Next_(TRUE))
              /\ end' = Len(file) + 1
              /\ goal' = [goal EXCEPT ![t] = end']
              /\ log' = Append(log, [tx |-> t, end |-> end'])
              /\ Goto(t, "Last")
        /\ UNCHANGED <<segs, making, lost, sync, poisoned, locks, prologue, target,
                       up, opened, unmarked, faults, crashes>>

\* The group ends without its LAST frame (fail, Drop): what it wrote is cut
\* back, and a cut that fails poisons the writer. The file may then hold
\* `partial`, part of a frame.
EndGroup(t, partial) ==
    /\ \/ /\ CutBack
          /\ UNCHANGED <<poisoned, faults>>
       \/ /\ Fault
          /\ poisoned' = TRUE
          /\ IF partial THEN AppendFrame(Hole) ELSE UNCHANGED <<file, dirty, stale>>
    /\ writer' = {}
    /\ unmarked' = TRUE
    /\ Return(t, "NotWritten")
    /\ UNCHANGED <<segs, making, lost, end, sync, leader, prologue, target, goal,
                   up, log, opened, crashes>>

\* write_frame finds the writer poisoned, or a record is refused or the group
\* is dropped.
AbandonGroup(t) ==
    /\ pc[t] = "Group"
    /\ EndGroup(t, FALSE)

\* The write of a frame fails.
FailFrame(t) ==
    /\ pc[t] = "Frame" /\ faults < MaxFaults
    /\ EndGroup(t, TRUE)

\* write_marker_if_due, with the writer's lock and no group in progress: an
\* empty group that records how far the log is durable. One that cannot be
\* written is cut back and left out. Its check of the poison, its prologue and
\* its write are one step here.
WriteMarkerIfDue ==
    IF poisoned \/ ~due
    THEN UNCHANGED <<file, dirty, stale, end, due, marker, poisoned, unmarked, faults>>
    ELSE /\ due' = FALSE
         /\ \/ /\ AppendFrame([by |-> "Marker", first |-> TRUE, last |-> TRUE, synced |-> synced])
               /\ end' = Len(file) + 1
               /\ marker' = <<end, end'>>
               /\ UNCHANGED <<poisoned, unmarked, faults>>
            \/ /\ Fault
               /\ unmarked' = TRUE
               /\ \/ CutBack /\ UNCHANGED poisoned
                  \/ AppendFrame(Hole) /\ poisoned' = TRUE
               /\ UNCHANGED <<end, marker>>

\* finish and finish_unsynced after write_last: the writer's lock is released;
\* the durability mode decides whether the commit waits for a sync.
FinishGroup(t) ==
    /\ pc[t] = "Last"
    /\ WriteMarkerIfDue
    /\ writer' = {}
    /\ Goto(t, "Sync") \/ Return(t, "Written")
    /\ UNCHANGED <<segs, making, lost, synced, leader, prologue, target, goal,
                   up, log, opened, crashes>>

-----------------------------------------------------------------------------
(* sync_until *)

\* sync, as the flusher calls it.
CallSync(a) ==
    /\ up /\ a \in Flusher /\ pc[a] = "Idle"
    /\ ~poisoned /\ synced < end
    /\ goal' = [goal EXCEPT ![a] = end]
    /\ Goto(a, "Sync")
    /\ UNCHANGED <<disk, end, sync, poisoned, locks, prologue, target, ghosts>>

\* Another sync covered the position, before or after the wait for the lock.
SyncCovered(a) ==
    /\ pc[a] = "Sync" /\ synced >= goal[a]
    /\ Return(a, "Durable")
    /\ UNCHANGED <<disk, end, sync, poisoned, locks, prologue, target, goal, ghosts>>

\* The leader refuses a poisoned writer, or copies the file and the end that
\* are published.
LeadSync(a) ==
    /\ pc[a] = "Sync" /\ synced < goal[a] /\ leader = {}
    /\ \/ /\ poisoned
          /\ Return(a, "Unknown")
          /\ UNCHANGED <<leader, target>>
       \/ /\ ~poisoned
          /\ leader' = {a}
          /\ target' = [seg |-> Active, end |-> end]
          /\ Goto(a, "Fsync")
    /\ UNCHANGED <<disk, end, sync, poisoned, writer, prologue, goal, ghosts>>

\* Mutant: the end is read after the fsync, not with the file.
SyncUntilLateEnd(a) ==
    /\ pc[a] = "Fsync"
    /\ Fsync(target.seg)
    /\ synced' = Max({synced, end})
    /\ leader' = {}
    /\ Return(a, "Durable")
    /\ UNCHANGED <<segs, making, end, due, marker, poisoned, writer, prologue, target, goal, ghosts>>

\* The fsync of that file, and what it covered. It asks for a marker unless it
\* covered nothing but the last one.
SyncUntil(a) ==
    LET onlyTheMarker == synced >= marker[1] /\ target.end <= marker[2]
    IN  /\ pc[a] = "Fsync"
        /\ Fsync(target.seg)
        /\ synced' = Max({synced, target.end})
        /\ IF target.end > synced /\ ~onlyTheMarker
           THEN due' = TRUE /\ Goto(a, "SyncMarker") /\ UNCHANGED leader
           ELSE leader' = {} /\ Return(a, "Durable") /\ UNCHANGED due
        /\ UNCHANGED <<segs, making, end, marker, poisoned, writer, prologue, target, goal, ghosts>>

\* The fsync fails. Until the writer is poisoned nobody else knows.
SyncFails(a) ==
    /\ pc[a] = "Fsync" /\ Fault
    /\ FsyncFails(target.seg)
    /\ Goto(a, "SyncFailed")
    /\ UNCHANGED <<segs, making, end, sync, poisoned, locks, prologue, target, goal,
                   up, log, opened, unmarked, crashes>>

\* Mutant: a failed sync is reported as a group that was not written.
PoisonSyncNotWritten(a) ==
    /\ pc[a] = "SyncFailed"
    /\ poisoned' = TRUE
    /\ leader' = {}
    /\ Return(a, "NotWritten")
    /\ UNCHANGED <<disk, end, sync, writer, prologue, target, goal, ghosts>>

\* poison, and the error: the caller cannot tell whether its group is durable.
PoisonSync(a) ==
    /\ pc[a] = "SyncFailed"
    /\ poisoned' = TRUE
    /\ leader' = {}
    /\ Return(a, "Unknown")
    /\ UNCHANGED <<disk, end, sync, writer, prologue, target, goal, ghosts>>

\* Mutant: a marker that cannot be written at once is dropped.
SyncMarkerDropped(a) ==
    /\ pc[a] = "SyncMarker"
    /\ IF writer = {} THEN WriteMarkerIfDue
       ELSE due' = FALSE /\ UNCHANGED <<file, dirty, stale, end, marker, poisoned, unmarked, faults>>
    /\ leader' = {}
    /\ Return(a, "Durable")
    /\ UNCHANGED <<segs, making, lost, synced, writer, prologue, target, goal,
                   up, log, opened, crashes>>

\* The marker is written at once unless a group is: it then follows that.
SyncMarker(a) ==
    /\ pc[a] = "SyncMarker"
    /\ IF writer = {} THEN WriteMarkerIfDue
       ELSE UNCHANGED <<file, dirty, stale, end, due, marker, poisoned, unmarked, faults>>
    /\ leader' = {}
    /\ Return(a, "Durable")
    /\ UNCHANGED <<segs, making, lost, synced, writer, prologue, target, goal,
                   up, log, opened, crashes>>

-----------------------------------------------------------------------------
(* Rotation *)

\* rotate, as a checkpoint calls it.
CallRotate(a) ==
    /\ up /\ a \in Checkpointer /\ pc[a] = "Idle"
    /\ writer = {} /\ ~poisoned /\ end # Active
    /\ writer' = {a}
    /\ Goto(a, "Rotate")
    /\ UNCHANGED <<disk, end, sync, poisoned, leader, prologue, target, goal, ghosts>>

\* Mutant: the sealed segment is not synced.
SyncSealedSkipped(a) ==
    /\ pc[a] = "Rotate"
    /\ synced' = Max({synced, end})
    /\ Goto(a, "Create")
    /\ UNCHANGED <<disk, end, due, marker, poisoned, locks, prologue, target, goal, ghosts>>

\* rotate_locked syncs the active segment first.
SyncSealed(a) ==
    /\ pc[a] = "Rotate"
    /\ Fsync(Active)
    /\ synced' = Max({synced, end})
    /\ Goto(a, "Create")
    /\ UNCHANGED <<segs, making, end, due, marker, poisoned, locks, prologue, target, goal, ghosts>>

\* A rotation that fails leaves the active segment as it is.
RotationFails(a, poisons) ==
    /\ poisoned' = (poisoned \/ poisons)
    /\ writer' = {}
    /\ Return(a, "NotWritten")
    /\ UNCHANGED <<segs, end, sync, leader, prologue, target, goal, up, log, opened, crashes>>

\* Its fsync fails, and it poisons the writer.
SealFails(a) ==
    /\ pc[a] = "Rotate" /\ Fault
    /\ FsyncFails(Active)
    /\ Goto(a, "SealFailed")
    /\ UNCHANGED <<segs, making, end, sync, poisoned, locks, prologue, target, goal,
                   up, log, opened, unmarked, crashes>>

PoisonSeal(a) ==
    /\ pc[a] = "SealFailed"
    /\ RotationFails(a, TRUE)
    /\ UNCHANGED <<file, making, dirty, lost, stale, unmarked, faults>>

\* create_segment: the file, its header synced, its entry in the directory.
CreateSegment(a) ==
    /\ pc[a] = "Create"
    /\ making' = [st |-> "Blank", at |-> end]
    /\ Goto(a, "Header")
    /\ UNCHANGED <<file, segs, dirty, lost, stale, end, sync, poisoned, locks, prologue, target,
                   goal, ghosts>>

WriteHeader(a) ==
    /\ pc[a] = "Header"
    /\ making' = [making EXCEPT !.st = "Whole"]
    /\ Goto(a, "Dir")
    /\ UNCHANGED <<file, segs, dirty, lost, stale, end, sync, poisoned, locks, prologue, target,
                   goal, ghosts>>

\* The file is not created, its header is not written and the file removed
\* again, that removal or the sync of the header fails, or the directory's
\* sync does.
CreateFails(a) ==
    /\ \/ /\ pc[a] = "Create"
          /\ UNCHANGED making
          /\ RotationFails(a, FALSE)
       \/ /\ pc[a] = "Header"
          /\ making' = [making EXCEPT !.st = "Gone"]
          /\ RotationFails(a, FALSE)
       \/ /\ pc[a] \in {"Header", "Dir"}
          /\ UNCHANGED making
          /\ RotationFails(a, TRUE)
    /\ Fault
    /\ unmarked' = TRUE
    /\ UNCHANGED <<file, dirty, lost, stale>>

\* The directory is synced: the segment is published and active. A group that
\* found the old one full begins in it.
StartSegment(a) ==
    /\ pc[a] = "Dir"
    /\ segs' = segs \cup {making.at}
    /\ making' = NoSegment
    /\ \/ /\ a \in Tx
          /\ due' = FALSE
          /\ Goto(a, "Prologue")
          /\ UNCHANGED writer
       \/ /\ a \notin Tx
          /\ writer' = {}
          /\ Return(a, "None")
          /\ UNCHANGED due
    /\ UNCHANGED <<file, dirty, lost, stale, end, synced, marker, poisoned, leader, prologue,
                   target, goal, ghosts>>

-----------------------------------------------------------------------------
(* Scan *)

\* next_group and read_group take the frame at p after the one before it: a
\* FIRST frame where a group must start, with a prologue that can be true, and
\* inside a group a frame of its transaction and segment.
Follows(p) ==
    LET f == file[p + 1]
    IN  /\ f # Hole
        /\ f.first <=> (p = 0 \/ file[p].last)
        /\ f.first => f.synced <= p
        /\ ~f.first => IdOf(f.by) = IdOf(file[p].by) /\ p \notin segs

\* The frame that ended the scan, or the end of the segment inside a group.
BadFrame == Min({p \in Positions : ~Follows(p)} \cup {Len(file)})

\* Where the last complete group before it ends.
ScanEnd == Max({0} \cup {e \in 1 .. BadFrame : file[e].last})

\* bad_frame, later_synced_group: what follows the last complete group is
\* damage in a sealed segment, when its prologue cannot be true, or when a
\* later group was begun after the bad frame had been synced.
Damaged ==
    LET s == ScanEnd
    IN  /\ s < Len(file)
        /\ \/ file[s + 1].first /\ file[s + 1].synced > s
           \/ SegmentOf(s) # Active
           \/ \E p \in BadFrame + 1 .. Len(file) - 1 :
                file[p + 1].first /\ file[p + 1].synced > BadFrame

\* The commits whose groups a scan returns, in log order.
Scanned ==
    LET lasts == SelectSeq(SubSeq(file, 1, ScanEnd), LAMBDA f : f.last /\ f.by \in Tx)
    IN  [i \in DOMAIN lasts |-> lasts[i].by]

-----------------------------------------------------------------------------
(* Crash and reopen *)

\* The frames a crash may leave: those that were synced, any others in part,
\* and frames that were cut back but not synced away. A segment that was being
\* created may be missing, without a header, or whole.
CrashDisk ==
    LET top == Max({Len(file)} \cup {p + 1 : p \in DOMAIN stale})
        loose == dirty \cup lost \cup Len(file) .. top - 1
        kept == Max({Active} \cup {p + 1 : p \in 0 .. top - 1 \ loose})
        Old(p) == IF p < Len(file) THEN file[p + 1]
                  ELSE IF p \in DOMAIN stale THEN stale[p] ELSE Hole
    IN  /\ \E length \in kept .. top : \E holes \in SUBSET (loose \cap 0 .. length - 1) :
             file' = [i \in 1 .. length |-> IF i - 1 \in holes THEN Hole ELSE Old(i - 1)]
        /\ \/ segs' = segs /\ making' = NoSegment
           \/ /\ making.st \in {"Blank", "Gone"}
              /\ segs' = segs /\ making' = [making EXCEPT !.st = "Blank"]
           \/ /\ making.st \in {"Blank", "Whole"}
              /\ segs' = segs \cup {making.at} /\ making' = NoSegment

\* The process dies: calls in progress never return.
Crash ==
    /\ up /\ crashes < MaxCrashes
    /\ crashes' = crashes + 1
    /\ up' = FALSE
    /\ CrashDisk
    /\ log' = SelectSeq(log, LAMBDA g : g.end <= ScanEnd')
    /\ dirty' = {} /\ lost' = {} /\ stale' = <<>>
    /\ poisoned' = FALSE /\ due' = FALSE /\ marker' = <<0, 0>>
    /\ writer' = {} /\ leader' = {}
    /\ prologue' = 0 /\ target' = [seg |-> 0, end |-> 0]
    /\ goal' = [a \in Actor |-> 0]
    /\ pc' = [a \in Actor |-> IF a \in Tx /\ pc[a] # "Idle" THEN "Done" ELSE "Idle"]
    /\ UNCHANGED <<end, synced, status, opened, unmarked, faults>>

\* cut_torn_tail: the torn tail is truncated, and synced.
CutTornTail ==
    /\ ~up /\ ~Damaged /\ ScanEnd < Len(file)
    /\ file' = SubSeq(file, 1, ScanEnd)
    /\ UNCHANGED <<segs, making, dirty, lost, stale, end, sync, poisoned, locks, locals, ghosts>>

\* cut_torn_tail: then a newest segment without a header is removed.
RemoveUnfinished ==
    /\ ~up /\ ~Damaged /\ ScanEnd = Len(file) /\ making.st = "Blank"
    /\ making' = NoSegment
    /\ UNCHANGED <<file, segs, dirty, lost, stale, end, sync, poisoned, locks, locals, ghosts>>

\* Wal::open at the end of the scan: the newest segment ends there, is synced,
\* and is appended to.
OpenLog ==
    /\ ~up /\ ~Damaged /\ ScanEnd = Len(file) /\ making.st = "None"
    /\ up' = TRUE
    /\ end' = Len(file) /\ synced' = Len(file) /\ opened' = Len(file)
    /\ UNCHANGED <<disk, due, marker, poisoned, locks, locals, log, unmarked, faults, crashes>>

-----------------------------------------------------------------------------
Step(a) ==
    \/ BeginGroup(a) \/ ReadPrologue(a) \/ CheckFrame(a) \/ WriteFrame(a)
    \/ AbandonGroup(a) \/ FailFrame(a) \/ FinishGroup(a)
    \/ CallSync(a) \/ SyncCovered(a) \/ LeadSync(a) \/ SyncUntil(a) \/ SyncFails(a)
    \/ PoisonSync(a) \/ SyncMarker(a)
    \/ CallRotate(a) \/ SyncSealed(a) \/ SealFails(a) \/ PoisonSeal(a)
    \/ CreateSegment(a) \/ WriteHeader(a) \/ CreateFails(a) \/ StartSegment(a)

\* Every call has returned and the log is open: nothing more need happen.
Over ==
    /\ up /\ \A a \in Actor : pc[a] \in {"Idle", "Done"} /\ (a \in Tx => pc[a] = "Done")
    /\ UNCHANGED vars

Next ==
    \/ \E a \in Actor : Step(a)
    \/ Crash \/ CutTornTail \/ RemoveUnfinished \/ OpenLog
    \/ Over

Spec == Init /\ [][Next]_vars

-----------------------------------------------------------------------------
(* Properties *)

Told == {t \in Tx : status[t] = "Durable"}

\* What a scan reads is what the writer takes for the log: the groups that were
\* completed, up to end_lsn, whatever was cut back or left half written behind
\* them, and after a crash the oldest of these, whole and in order.
LogReadsBack ==
    /\ Scanned = [i \in DOMAIN log |-> log[i].tx]
    /\ up => ScanEnd = end

\* A commit that sync_until answered with Ok is in the log that every later
\* scan reads, whichever thread's fsync covered it, the flusher's or a
\* rotation's, and whatever crash came after.
DurableSurvives == Told \subseteq Range(Scanned)

\* A group that was reported as not written is never read back: not when its
\* frames were cut back, not when the cut failed, not when a crash brings the
\* frames back that were cut (GroupWriter::fail).
FailedNeverReplayed == \A t \in Tx : status[t] = "NotWritten" => t \notin Range(Scanned)

\* A crash alone is never taken for damage: the scan refuses no log that the
\* writer left, so the database opens again (bad_frame, find_gap).
CrashIsNotDamage == ~up => ~Damaged

\* A sync leaves evidence: whoever damages a group after it was synced is found
\* out by a later scan, since a prologue behind it says so, a group being
\* written will, or a marker is due (begin_group, sync_until). Sealed segments
\* need none and a reopened log has none until its next sync. Three failures
\* leave a sync unrecorded until the next one: of a marker's write, of a group
\* after begin_group cleared marker_due, of a rotation after its sync.
SyncsAreRecorded ==
    up /\ ~poisoned /\ ~unmarked =>
      \A p \in Max({opened, Active}) .. Min({synced, Len(file)}) - 1 :
        file[p + 1].by \in Tx =>
          \/ due \/ leader # {}
          \/ \E a \in Actor : pc[a] \in {"Prologue", "Create", "Header", "Dir"}
          \/ writer # {} /\ prologue > p
          \/ \E q \in p + 1 .. Len(file) - 1 : file[q + 1].first /\ file[q + 1].synced > p

\* The log keeps the promises of module DurableLog.
Promise == INSTANCE DurableLog WITH
    log <- [i \in DOMAIN log |-> log[i].tx],
    synced <- Cardinality({i \in DOMAIN log : log[i].end <= synced}),
    told <- Told

ImplementsDurableLog == Promise!Spec

=============================================================================
