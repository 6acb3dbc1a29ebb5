-------------------------------- MODULE FAT12 --------------------------------
(***************************************************************************)
(* The file system, kernel/Filesystem/FAT12.cpp, on the disk it keeps:     *)
(* the first FAT, the root directory and the data sectors.  A write is a   *)
(* series of sector writes, directory first, then the FAT one entry at a   *)
(* time, then the data; power may fail between any two of them.            *)
(*                                                                         *)
(* The FAT is modelled nibble by nibble, since entries of three nibbles    *)
(* cross the sectors they are searched and written in.  What a file holds  *)
(* is abstract: chunk j of the file in slot s is <<s, j>>.                 *)
(***************************************************************************)
EXTENDS Integers, Sequences, SequencesExt, FiniteSetsExt

CONSTANTS
  SECTOR_SIZE,    \* in bytes
  FATSize,        \* the sectors of a FAT
  RootSectors, SlotsPerSector,
  Names,
  MaxChunks,      \* bound of the model: the sectors' worth of a file's content
  Disks           \* the formatted disks the kernel may find: [fat, dir, data]

EOF_MARK == 4095    \* 0xFFF
LastMark == 4088    \* 0xFF8

SectorNibbles == 2 * SECTOR_SIZE
Nibbles == 0 .. FATSize * SectorNibbles - 1
ClusterCount == (FATSize * SectorNibbles) \div 3
Clusters == 0 .. ClusterCount - 1

\* Stands for every cluster whose entry is not in the FAT: a FILE's cluster has 32 bits.
Outside == -1
Values == Clusters \cup {Outside, EOF_MARK}
Slots == 1 .. RootSectors * SlotsPerSector

\* A directory entry; only those with attributes 0 end behind their name, so
\* that only those compare equal to a name.
Empty == [name |-> "", attributes |-> 0, firstClusterLow |-> 0]
Garbage == [name |-> "?", attributes |-> 1, firstClusterLow |-> 0]

ASSUME FATAssumption ==
  /\ SECTOR_SIZE \in Nat /\ SECTOR_SIZE % 3 = 2
  /\ {FATSize, RootSectors, SlotsPerSector} \subseteq Nat \ {0}
  /\ FATSize >= 2 /\ RootSectors >= 2 /\ MaxChunks \in Nat \ {0}
  /\ SectorNibbles \div 3 <= LastMark
  /\ "" \notin Names /\ "?" \notin Names

VARIABLES
  fat, dir, data,   \* the disk
  op,               \* the operation the shell's handler is in
  complete,         \* the slots whose file was written to the end, with its length
  cut,              \* has power failed in the middle of a write?
  spilled           \* has a write taken a cluster behind the first FAT sector's
                    \* whole entries?

disk   == <<fat, dir, data>>
fsVars == <<disk, op, complete, cut, spilled>>

Idle == [kind |-> "idle"]

-----------------------------------------------------------------------------
\* Reading.

\* The entry of a cluster in the FAT f, as read takes it out of two sectors in a row.
nextCluster(f, c) == f[3*c] + 16 * f[3*c + 1] + 256 * f[3*c + 2]

ends(value) == value >= LastMark \/ value = 0

\* The first entry of this name, 0 for none.
slotOf(name) ==
  LET found == {s \in Slots : dir[s].name = name /\ dir[s].attributes = 0}
  IN  IF found = {} THEN 0 ELSE Min(found)

\* The shell's command reads a file to its end.  A missing file is answered with
\* a FILE of which only flags is set: its cluster and its eof are what the stack
\* held, any cluster there may be.
Open ==
  /\ op = Idle
  /\ \E name \in Names, junk \in Clusters \cup {Outside}, eof \in {"read", "eof"} :
       LET s == slotOf(name)
       IN  op' = [kind |-> IF s = 0 THEN eof ELSE "read", slot |-> s, got |-> <<>>,
                  cluster |-> IF s = 0 THEN junk ELSE dir[s].firstClusterLow]
  /\ UNCHANGED <<disk, complete, cut, spilled>>

\* Of a file's sectors as many are kept as tell it from one of MaxChunks; of a
\* missing file's, and of one outside of the data, what is read is nobody's.
gotNow ==
  IF op.slot = 0 \/ Len(op.got) > MaxChunks THEN op.got
  ELSE Append(op.got, IF op.cluster \in Clusters THEN data[op.cluster] ELSE <<>>)

ReadOn(value) ==
  IF ends(value)
  THEN [op EXCEPT !.kind = "eof", !.got = gotNow]
  ELSE [op EXCEPT !.cluster = IF value \in Clusters THEN value ELSE Outside, !.got = gotNow]

\* What read takes for the cluster's entry: outside of the FAT, whatever is there.
entries == IF op.cluster \in Clusters THEN {nextCluster(fat, op.cluster)} ELSE Values

Read_EarlyEnd ==
  /\ op.kind = "read"
  /\ \E value \in entries :
       op' = IF ends(value) THEN [op EXCEPT !.kind = "eof"] ELSE ReadOn(value)
  /\ UNCHANGED <<disk, complete, cut, spilled>>

Read_NoMark ==
  /\ op.kind = "read"
  /\ \E value \in entries : op' = IF value = EOF_MARK THEN ReadOn(Outside) ELSE ReadOn(value)
  /\ UNCHANGED <<disk, complete, cut, spilled>>

Read ==
  /\ op.kind = "read"
  /\ \E value \in entries : op' = ReadOn(value)
  /\ UNCHANGED <<disk, complete, cut, spilled>>

Close ==
  /\ op.kind = "eof"
  /\ op' = Idle
  /\ UNCHANGED <<disk, complete, cut, spilled>>

-----------------------------------------------------------------------------
\* Writing.

\* The entries findSectors looks at in one sector of the FAT, and the value it
\* takes the k-th for: the last one's upper nibbles lie behind the buffer.
WholePerSector == SectorNibbles \div 3
EntriesPerSector == WholePerSector + 1
WholeEntries == 0 .. WholePerSector - 1

valueIn(j, k, behind) ==
  LET nibble(n) == IF n < SectorNibbles THEN fat[j * SectorNibbles + n] ELSE behind
  IN  nibble(3*k) + 16 * nibble(3*k + 1) + 256 * nibble(3*k + 2)

taken_Next(count, behind) ==
  LET after[e \in 0 .. FATSize * EntriesPerSector] ==
        IF e = 0 THEN <<>>
        ELSE LET w == after[e - 1]
                 j == (e - 1) \div EntriesPerSector
                 k == (e - 1) % EntriesPerSector
             IN  IF IF w = <<>> THEN valueIn(j, k, behind) = 0 ELSE Len(w) < count
                 THEN Append(w, k) ELSE w
  IN  after

\* The clusters taken when e entries have been looked at, sector by sector, until
\* there are enough.  At least one is, even for nothing; numbers count from 0 in each sector.
taken(count, behind) ==
  LET after[e \in 0 .. FATSize * EntriesPerSector] ==
        IF e = 0 THEN <<>>
        ELSE LET w == after[e - 1]
                 j == (e - 1) \div EntriesPerSector
                 k == (e - 1) % EntriesPerSector
             IN  IF (w = <<>> \/ Len(w) < count) /\ valueIn(j, k, behind) = 0
                 THEN Append(w, k) ELSE w
  IN  after

findSectors(count, behind) == taken(count, behind)[FATSize * EntriesPerSector]

firstEmpty == {s \in Slots : dir[s] = Empty /\ \A t \in 1 .. s-1 : dir[t] # Empty}

\* writetest up to its first sector write.  With no cluster or no slot left it
\* returns.
Write ==
  /\ op = Idle
  /\ \E name \in Names, chunks \in 1 .. MaxChunks, behind \in {0, 1} :
       LET sectors == findSectors(chunks, behind)
       IN  /\ sectors # <<>>
           /\ \E s \in firstEmpty :
                op' = [kind |-> "dir", name |-> name, slot |-> s, sectors |-> sectors,
                       done |-> 0]
           /\ spilled' = (spilled \/ sectors # taken(chunks, behind)[WholePerSector])
  /\ UNCHANGED <<disk, complete, cut>>

WriteDir ==
  /\ op.kind = "dir"
  /\ dir' = [dir EXCEPT ![op.slot] = [name |-> op.name, attributes |-> 0,
                                      firstClusterLow |-> op.sectors[1]]]
  /\ op' = [op EXCEPT !.kind = "fat"]
  /\ UNCHANGED <<fat, data, complete, cut, spilled>>

\* Two nibbles or'ed, and the nibbles of an entry.
or(a, b) ==
  LET bit(k) == IF (a \div k) % 2 = 1 \/ (b \div k) % 2 = 1 THEN k ELSE 0
  IN  bit(1) + bit(2) + bit(4) + bit(8)

digits(value) == <<value % 16, (value \div 16) % 16, (value \div 256) % 16>>

link_Wide(f, c, value) ==
  [n \in Nibbles |->
     IF n \in 3*c .. 3*c + 2 /\ n \div SectorNibbles = (3*c) \div SectorNibbles
     THEN f[n] + value \div 16^(n - 3*c) ELSE f[n]]

\* An entry is or'ed into the FAT sector its first byte is in; what lies in the
\* next sector is lost.
link(f, c, value) ==
  [n \in Nibbles |->
     IF n \in 3*c .. 3*c + 2 /\ n \div SectorNibbles = (3*c) \div SectorNibbles
     THEN or(f[n], digits(value)[n - 3*c + 1]) ELSE f[n]]

\* The value of the i-th cluster's entry: the next cluster, or the last mark.
linkTo_Last(i) == IF i + 1 >= Len(op.sectors) THEN EOF_MARK ELSE op.sectors[i + 1]

linkTo(i) == IF i = Len(op.sectors) THEN EOF_MARK ELSE op.sectors[i + 1]

Then(kind) ==
  IF op.done + 1 = Len(op.sectors)
  THEN [op EXCEPT !.kind = kind, !.done = 0]
  ELSE [op EXCEPT !.done = @ + 1]

\* updateFAT, one entry and one sector write at a time.
WriteFAT ==
  /\ op.kind = "fat"
  /\ LET i == op.done + 1
     IN  fat' = link(fat, op.sectors[i], linkTo(i))
  /\ op' = Then("data")
  /\ UNCHANGED <<dir, data, complete, cut, spilled>>

\* The sectors of clusters 0 and 1 are the last two of the root directory.
overwritten(c) ==
  IF c > 1 THEN {}
  ELSE {s \in Slots : (s-1) \div SlotsPerSector = RootSectors - 2 + c}

WriteData ==
  /\ op.kind = "data"
  /\ LET i == op.done + 1
         c == op.sectors[i]
     IN  /\ data' = [data EXCEPT ![c] = <<op.slot, i>>]
         /\ dir' = [s \in Slots |-> IF s \in overwritten(c) THEN Garbage ELSE dir[s]]
  /\ LET last == op.done + 1 = Len(op.sectors)
     IN  /\ op' = IF last THEN Idle ELSE Then("data")
         /\ complete' = IF last THEN [complete EXCEPT ![op.slot] = Len(op.sectors)] ELSE complete
  /\ UNCHANGED <<fat, cut, spilled>>

\* The kernel starts again from the disk; nothing repairs it.
PowerFails ==
  /\ op # Idle
  /\ op' = Idle
  /\ cut' = (cut \/ op.kind \in {"dir", "fat", "data"})
  /\ UNCHANGED <<disk, complete, spilled>>

\* The clusters of a chain in the FAT f, as far as it goes inside the FAT.
chain(f, first) ==
  LET walk[n \in 0 .. ClusterCount] ==
        IF n = 0 THEN <<first>>
        ELSE LET w == walk[n - 1]
                 v == nextCluster(f, Last(w))
             IN  IF ends(v) \/ v \notin Clusters THEN w ELSE Append(w, v)
  IN  walk[ClusterCount]

\* The marks of entries 0 and 1 are set, and every cluster taken is a file's.
ASSUME DisksAssumption ==
  \A d \in Disks :
    /\ d.fat \in [Nibbles -> 0..15]
    /\ d.dir \in [Slots -> [name : Names \cup {"", "?"}, attributes : Nat,
                            firstClusterLow : Clusters]]
    /\ DOMAIN d.data = Clusters
    /\ \A c \in WholeEntries :
         IF c \in {0, 1} THEN nextCluster(d.fat, c) # 0
         ELSE nextCluster(d.fat, c) # 0 =>
                \E s \in Slots : /\ d.dir[s] # Empty
                               /\ c \in Range(chain(d.fat, d.dir[s].firstClusterLow))

\* Only for ReadingEnds: the chains of the files another system wrote have an end.
ASSUME ChainsAssumption ==
  \A d \in Disks, s \in Slots :
    LET p == chain(d.fat, d.dir[s].firstClusterLow)
    IN  IsInjective(p) /\ ends(nextCluster(d.fat, Last(p)))

FATInit ==
  /\ \E d \in Disks : fat = d.fat /\ dir = d.dir /\ data = d.data
  /\ op = Idle /\ complete = [s \in Slots |-> 0]
  /\ cut = FALSE /\ spilled = FALSE

FATNext == Open \/ Read \/ Close \/ Write \/ WriteDir \/ WriteFAT \/ WriteData \/ PowerFails

\* The handler of the command runs on: no interrupt gets in between.
FATSpec == FATInit /\ [][FATNext]_fsVars /\ WF_fsVars(Read) /\ WF_fsVars(Close)

-----------------------------------------------------------------------------
\* The clusters of the file in slot s, and what they hold.
clustersOf(s) == chain(fat, dir[s].firstClusterLow)

contents(s) == [i \in DOMAIN clustersOf(s) |-> data[clustersOf(s)[i]]]

whole(s) == [i \in 1 .. complete[s] |-> <<s, i>>]

FATTypeOK ==
  /\ fat \in [Nibbles -> 0..15]
  /\ \A s \in Slots : /\ dir[s].name \in Names \cup {"", "?"}
                      /\ dir[s].firstClusterLow \in Clusters
  /\ DOMAIN data = Clusters
  /\ op.kind \in {"idle", "read", "eof", "dir", "fat", "data"}
  /\ op.kind \in {"read", "eof"} => op.cluster \in Clusters \cup {Outside}
  /\ complete \in [Slots -> 0 .. MaxChunks]
  /\ {cut, spilled} \subseteq BOOLEAN

\* Whatever is being written, and wherever power failed before, every file whose
\* write came to its end keeps its chain and its contents: a later write takes
\* none of its clusters, and a write cut short damages only its own file.
\* findSectors, updateFAT, writetest.
CompleteFilesStay ==
  ~spilled => \A s \in Slots : complete[s] # 0 => contents(s) = whole(s)

\* What the shell reads from a file that was written to the end is what was
\* written, chunk by chunk, and all of it when it meets the end of the file.
ReadsWhatWasWritten ==
  ~spilled /\ op.kind \in {"read", "eof"} /\ op.slot # 0 /\ complete[op.slot] # 0 =>
    /\ IsPrefix(op.got, whole(op.slot))
    /\ op.kind = "eof" => op.got = whole(op.slot)

\* Unless power failed in a write, every cluster that is not free belongs to a
\* file: a write that finds no slot takes no cluster, and one that finds too
\* few clusters uses those it found.
NothingLeaks ==
  ~spilled /\ ~cut /\ op = Idle =>
    \A c \in WholeEntries \ {0, 1} :
      nextCluster(fat, c) # 0 => \E s \in Slots : dir[s] # Empty /\ c \in Range(clustersOf(s))

\* Reading comes to an end from every cluster in the FAT, a missing file's too,
\* and on a disk where power failed: no write makes a cycle.  From a cluster
\* outside of the FAT, which a missing file may start with, what lies there may
\* keep read going for ever: writes do not keep that from happening.
ReadingEnds == (op.kind = "read" /\ op.cluster \in Clusters /\ ~spilled) ~> op = Idle
=============================================================================
