----------------------------- MODULE Container -----------------------------
(***************************************************************************)
(* The database file (grafeo-storage/src/file/manager.rs and file/v3/):     *)
(* two header slots and images written copy-on-write.  `file` is what the   *)
(* process reads back, `disk` what a power loss leaves, `dirty` the pages   *)
(* written since the last sync.  An image is a directory page, which names  *)
(* the page and checksum of every chunk, and the pages of the chunks.       *)
(* Every chunk and the directory take one page; a chunk's content is the    *)
(* number of changes in it.                                                 *)
(***************************************************************************)
EXTENDS Integers, Sequences, FiniteSetsExt

CONSTANTS Chunks,   \* the chunks of an image, in the order they are written
          LastPage  \* the last page of the model

VARIABLES file, disk, dirty,
          active,   \* ActiveImage: the image the manager serves
          building  \* the entries and runs of the CheckpointWriter

fileVars == <<file, disk, dirty, active, building>>

DataStart == 3 \* pages 1 and 2 are the header slots
SlotPage(slot) == 1 + slot
AllPages == 1 .. LastPage
DataPages == DataStart .. LastPage

Blank == <<"Blank">>
Damage == <<"Damage">>
Header(iteration, lsn, root) == <<"Header", iteration, lsn, root>>
Chunk(c, v) == <<"Chunk", c, v>>
Directory(entries) == <<"Directory", entries>>

NoImage == [entries |-> <<>>, runs |-> {}]

IsDirectory(page) == page[1] = "Directory"
Entries(f, root) == f[root][2]
RunsOf(f, root) == {root} \cup {Entries(f, root)[c].page : c \in DOMAIN Entries(f, root)}

\* A chunk whose checksum holds is the one the directory named.
Whole(f, root) ==
  /\ IsDirectory(f[root])
  /\ \A c \in DOMAIN Entries(f, root) :
       f[Entries(f, root)[c].page] = Chunk(c, Entries(f, root)[c].crc)

\* What an image holds of each chunk; a chunk it lacks was never changed.
Contents(f, root) ==
  [c \in Chunks |-> IF c \in DOMAIN Entries(f, root) THEN Entries(f, root)[c].crc ELSE 0]

\* Mutant of ActiveHeader: slot 0 while it is valid.
ActiveHeaderFirst(f) ==
  LET valid == {s \in {0, 1} : f[SlotPage(s)][1] = "Header"}
  IN IF valid = {} THEN {} ELSE {Min(valid)}

\* The valid slot with the higher iteration, as a set.
ActiveHeader(f) ==
  LET valid(s) == f[SlotPage(s)][1] = "Header"
      iteration(s) == f[SlotPage(s)][2]
  IN {s \in {0, 1} : /\ valid(s)
                     /\ valid(1 - s) => \/ iteration(s) > iteration(1 - s)
                                        \/ iteration(s) = iteration(1 - s) /\ s = 0}

\* The image that slot s of the file names, as open_existing reads it.
ImageAt(f, s) ==
  LET h == f[SlotPage(s)] IN
  [slot |-> s, iteration |-> h[2], lsn |-> h[3], root |-> h[4],
   runs |-> IF IsDirectory(f[h[4]]) THEN RunsOf(f, h[4]) ELSE {h[4]}]

\* create_with_id: an image without chunks, in slot 0.
InitFile ==
  /\ file = [p \in AllPages |-> CASE p = 1 -> Header(0, 0, DataStart)
                                  [] p = DataStart -> Directory(<<>>)
                                  [] OTHER -> Blank]
  /\ disk = file
  /\ dirty = {}
  /\ active = ImageAt(file, 0)
  /\ building = NoImage

WritePage(p, content) ==
  /\ file' = [file EXCEPT ![p] = content]
  /\ dirty' = dirty \cup {p}

\* What a failed sync or a power loss makes of the dirty pages: each one is
\* written or not, and a header may be torn.
Reached(pages) ==
  {[p \in AllPages |-> IF p = torn THEN Damage ELSE IF p \in some THEN file[p] ELSE disk[p]] :
     some \in SUBSET pages, torn \in {0} \cup (pages \cap {1, 2})}

SyncFile ==
  /\ disk' = [p \in AllPages |-> IF p \in dirty THEN file[p] ELSE disk[p]]
  /\ dirty' = {}
  /\ UNCHANGED file

\* After a failed fsync the kernel takes the pages for clean.
SyncFileFails ==
  /\ disk' \in Reached(dirty)
  /\ dirty' = {}
  /\ UNCHANGED file

\* The pages free for the writer: neither the spared ones nor its own.
Free == DataPages \ (active.runs \cup building.runs)
Allocate == Min(Free)

\* The directory of the image the checkpoint follows; one that cannot be read
\* offers nothing.
Previous == IF IsDirectory(file[active.root]) THEN Entries(file, active.root) ELSE <<>>

\* At least half of the pages the followed image spans are free.
Relocate ==
  LET runs == RunsOf(file, active.root)
      span == Max(runs) + 1 - DataStart
  IN span - Cardinality(runs) >= Cardinality(runs)

Store(c, page, crc) ==
  building' = [entries |-> [d \in DOMAIN building.entries \cup {c} |->
                              IF d = c THEN [page |-> page, crc |-> crc] ELSE building.entries[d]],
               runs |-> building.runs \cup {page}]

WriteChunk(c, v) ==
  /\ WritePage(Allocate, Chunk(c, v))
  /\ Store(c, Allocate, v)
  /\ UNCHANGED <<disk, active>>

\* The new image shares the chunk's page, or takes a copy of its stored bytes
\* in the first free page before it.
ReuseChunk(c) ==
  LET old == Previous[c]
      before == {p \in Free : p < old.page}
  IN /\ IF Relocate /\ before # {}
        THEN /\ WritePage(Min(before), file[old.page])
             /\ Store(c, Min(before), old.crc)
        ELSE /\ Store(c, old.page, old.crc)
             /\ UNCHANGED <<file, dirty>>
     /\ UNCHANGED <<disk, active>>

\* CheckpointWriter::finish: the directory goes last.
WriteDirectory ==
  /\ WritePage(Allocate, Directory(building.entries))
  /\ building' = [building EXCEPT !.runs = @ \cup {Allocate}]
  /\ UNCHANGED <<disk, active>>

\* The page the new image's directory is in.
Root == CHOOSE p \in building.runs : IsDirectory(file[p])

\* Mutant of SyncImage: the next checkpoint spares the old image only.
SyncImageNotSpared ==
  /\ SyncFile
  /\ UNCHANGED <<active, building>>

\* The image's pages are synced; from here on the next checkpoint spares them.
SyncImage ==
  /\ SyncFile
  /\ active' = [active EXCEPT !.runs = @ \cup building.runs]
  /\ UNCHANGED building

WriteHeader(lsn) ==
  /\ WritePage(SlotPage(1 - active.slot), Header(active.iteration + 1, lsn, Root))
  /\ UNCHANGED <<disk, active, building>>

\* Mutant of SyncHeader: the header is left to the page cache.
SyncHeaderLater == UNCHANGED fileVars

SyncHeader ==
  /\ SyncFile
  /\ UNCHANGED <<active, building>>

\* Mutant of Trim: the pages of the replaced image stay spared.
TrimKeepsRuns(lsn) ==
  /\ active' = [slot |-> 1 - active.slot, iteration |-> active.iteration + 1, lsn |-> lsn,
                root |-> Root, runs |-> active.runs]
  /\ building' = NoImage
  /\ UNCHANGED <<file, disk, dirty>>

\* The file is cut after the new image, which is the active one from now on.
Trim(lsn) ==
  /\ file' = [p \in AllPages |-> IF p > Max(building.runs) THEN Blank ELSE file[p]]
  /\ dirty' = dirty \ (Max(building.runs) + 1 .. LastPage)
  /\ active' = [slot |-> 1 - active.slot, iteration |-> active.iteration + 1, lsn |-> lsn,
                root |-> Root, runs |-> building.runs]
  /\ building' = NoImage
  /\ UNCHANGED disk

\* The power fails: what reached the disk is all there is.
PowerLossFile ==
  /\ disk' \in Reached(dirty)
  /\ file' = disk'
  /\ dirty' = {}
  /\ building' = NoImage
  /\ UNCHANGED active

\* open_existing serves the active header's image; it writes and syncs nothing.
OpenFile ==
  \E s \in ActiveHeader(file) :
    /\ active' = ImageAt(file, s)
    /\ building' = NoImage
    /\ UNCHANGED <<file, disk, dirty>>
=============================================================================
