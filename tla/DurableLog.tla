----------------------------- MODULE DurableLog -----------------------------
(***************************************************************************)
(* What the write-ahead log promises the commits that write to it          *)
(* (grafeo-storage wal/writer.rs, wal/reader.rs): the groups it holds are  *)
(* whole and in the order they were written, a crash takes some of the     *)
(* newest that were not made durable and nothing else, and a commit is     *)
(* told that its group is durable only when no crash can take it.          *)
(***************************************************************************)
EXTENDS Naturals, SequencesExt

CONSTANT Tx     \* the commits, each with at most one group

VARIABLES
    log,        \* the groups of the log, by their commit
    synced,     \* how many of them no crash takes
    told        \* the commits that were told their group is durable

vars == <<log, synced, told>>

Init == log = <<>> /\ synced = 0 /\ told = {}

Write(t) ==
    /\ log' = Append(log, t)
    /\ t \notin Range(log) \cup told
    /\ UNCHANGED <<synced, told>>

Sync ==
    /\ synced' \in synced .. Len(log)
    /\ UNCHANGED <<log, told>>

Tell(t) ==
    /\ t \notin told /\ told' = told \cup {t}
    /\ \E i \in 1 .. synced : log[i] = t
    /\ UNCHANGED <<log, synced>>

\* A sync and the answer to the commit it was for.
SyncAndTell(t) ==
    /\ t \notin told /\ told' = told \cup {t}
    /\ synced' \in synced .. Len(log)
    /\ \E i \in 1 .. synced' : log[i] = t
    /\ UNCHANGED log

Crash ==
    /\ \E kept \in synced .. Len(log) : log' = SubSeq(log, 1, kept)
    /\ UNCHANGED <<synced, told>>

Next ==
    \/ \E t \in Tx : Write(t) \/ Tell(t) \/ SyncAndTell(t)
    \/ Sync
    \/ Crash

Spec == Init /\ [][Next]_vars

=============================================================================
