---------------------------- MODULE LogSegments ----------------------------
(***************************************************************************)
(* The segment files of the write-ahead log, as checkpoints, backups and   *)
(* an open see them (wal/writer.rs, wal/reader.rs).  WriteAheadLog models   *)
(* how a group gets into a segment and onto the disk; here a group is one   *)
(* member of `log`, a log position is the number of groups before it, and   *)
(* the first `synced` groups are durable.                                   *)
(***************************************************************************)
EXTENDS Integers, Sequences, FiniteSetsExt

CONSTANT SegmentGroups \* the groups that fill a segment (max_segment_bytes)

ASSUME SegmentGroupsAssumption == SegmentGroups \in Nat \ {0}

VARIABLES log,    \* the groups logged, those of removed segments included
          synced, \* how many of them are durable
          segs,   \* the first positions of the segment files
          cuts,   \* every position a segment ever started at
          gone    \* segments removed since the directory was last synced

logVars == <<log, synced, segs, cuts, gone>>

InitLog ==
  /\ log = <<>>
  /\ synced = 0
  /\ segs = {0}
  /\ cuts = {0}
  /\ gone = {}

ActiveSegment == Max(segs)

\* Where the segment that starts at s ends: its length, not the next file's name.
EndOf(s) == Min({t \in cuts : t > s} \cup {Len(log)})

\* Seal the active segment, sync it, and create the next one, whose creation
\* syncs the directory.
StartSegment ==
  /\ segs' = segs \cup {Len(log)}
  /\ cuts' = cuts \cup {Len(log)}
  /\ synced' = Len(log)
  /\ gone' = {}

\* A segment without frames is not sealed.
RotateLog ==
  /\ IF Len(log) > ActiveSegment
     THEN StartSegment
     ELSE UNCHANGED <<segs, cuts, synced, gone>>
  /\ UNCHANGED log

\* The group that finds the active segment full starts the next one.
AppendGroup(g) ==
  /\ log' = Append(log, g)
  /\ IF Len(log) - ActiveSegment >= SegmentGroups
     THEN StartSegment
     ELSE UNCHANGED <<segs, cuts, synced, gone>>

SyncLog ==
  /\ synced < Len(log)
  /\ synced' = Len(log)
  /\ UNCHANGED <<log, segs, cuts, gone>>

\* The segments remove_segments_before(lsn) still has to delete: a segment
\* ends where the next file starts, and the active one stays.
Removable(lsn) == {s \in segs \ {ActiveSegment} : Min({t \in segs : t > s}) <= lsn}

\* Deletes the oldest of them.
RemoveOldest(lsn) ==
  LET s == Min(Removable(lsn)) IN
  /\ segs' = segs \ {s}
  /\ gone' = gone \cup {s}
  /\ UNCHANGED <<log, synced, cuts>>

\* What a power loss leaves: the durable groups and perhaps more, and perhaps
\* files whose removal did not reach the disk.
PowerLossLog ==
  /\ \E n \in synced .. Len(log) : log' = SubSeq(log, 1, n)
  /\ \E back \in SUBSET gone : segs' = segs \cup back
  /\ gone' = {}
  /\ UNCHANGED <<synced, cuts>>

\* The segments a scan from lsn reads (WalScan::open), and whether they follow
\* one another from lsn on (find_gap).
Used(lsn) == {s \in segs : EndOf(s) > lsn \/ s >= lsn}
NoGap(lsn) ==
  LET used == Used(lsn) IN
  used # {} => /\ Min(used) <= lsn
               /\ \A s \in used \ {Max(used)} : EndOf(s) = Min({t \in used : t > s})

\* Where a scan from lsn ends.
ScanEnd(lsn) == IF Used(lsn) = {} THEN lsn ELSE EndOf(Max(Used(lsn)))

\* Wal::open continuing at lsn: it goes on in the newest segment, and syncs it,
\* unless there is none or it ends before lsn; then it starts one at lsn.
OpenLogAt(lsn) ==
  /\ IF segs = {} \/ EndOf(Max(segs)) < lsn
     THEN segs' = segs \cup {lsn} /\ gone' = {}
     ELSE UNCHANGED <<segs, gone>>
  /\ cuts' = {t \in cuts : t < Max(segs')} \cup {Max(segs')}
  /\ synced' = Len(log)
  /\ UNCHANGED log
=============================================================================
