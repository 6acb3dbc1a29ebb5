---------------------------- MODULE FAT12_proofs ----------------------------
(***************************************************************************)
(* Theorems about FAT12: on every disk that is formatted, and wherever     *)
(* power fails, the files written to the end keep their clusters and what  *)
(* is in them, reads return that, and no cluster is lost, as long as       *)
(* writes stay in the first sector of the FAT.  A file that is written is  *)
(* a list of clusters that ascends; they were free, no other file's chain  *)
(* has them, and their entries are linked one by one.                      *)
(***************************************************************************)
EXTENDS FAT12, TLAPS, WellFoundedInduction

DirEntry == [name : Names \cup {"", "?"}, attributes : Nat, firstClusterLow : Clusters]

FATs == [Nibbles -> 0..15]

\* The operations, with the fields their kinds have.
IsRead(o) ==
  /\ o = [kind |-> o.kind, slot |-> o.slot, got |-> o.got, cluster |-> o.cluster]
  /\ o.kind \in {"read", "eof"} /\ o.slot \in Slots \cup {0}
  /\ o.cluster \in Clusters \cup {Outside}

WriteOps ==
  [kind : {"dir", "fat", "data"}, name : Names, slot : Slots,
   sectors : Seq(0 .. WholePerSector), done : Nat]

IsWrite(o) == o \in WriteOps /\ Len(o.sectors) \in 1 .. MaxChunks /\ o.done < Len(o.sectors)

\* A list of clusters of the first FAT sector as findSectors makes them.
Ascends(q) ==
  /\ \A i \in 1 .. Len(q) : q[i] \in WholeEntries \ {0, 1}
  /\ \A i, j \in 1 .. Len(q) : i < j => q[i] < q[j]
  /\ Len(q) <= WholePerSector

\* What updateFAT stores for the i-th cluster of a list.
target(q, i) == IF i = Len(q) THEN EOF_MARK ELSE q[i + 1]

\* The file in slot s is all there: its chain, whose entries are taken, and its data.
Intact(s) ==
  LET p == clustersOf(s)
  IN  /\ Len(p) = complete[s]
      /\ \A i \in 1 .. Len(p) : data[p[i]] = <<s, i>> /\ nextCluster(fat, p[i]) # 0
      /\ nextCluster(fat, p[Len(p)]) = EOF_MARK

OnDisk ==
  /\ \A c \in WholeEntries \cap {0, 1} : nextCluster(fat, c) # 0
  /\ \A s \in Slots : complete[s] # 0 => Intact(s)
  /\ \A s \in Slots : dir[s] = Empty => complete[s] = 0

\* A write: how far it has come, and that no complete file has a cluster of it.
Linked(o, i) == o.kind = "data" \/ (o.kind = "fat" /\ i <= o.done)

Linking(o) ==
  \A i \in 1 .. Len(o.sectors) :
    nextCluster(fat, o.sectors[i]) = IF Linked(o, i) THEN target(o.sectors, i) ELSE 0

Filling(o) ==
  o.kind = "data" => \A i \in 1 .. o.done : data[o.sectors[i]] = <<o.slot, i>>

Alone(o) ==
  \A s \in Slots : complete[s] # 0 =>
    \A k \in 1 .. Len(clustersOf(s)), i \in 1 .. Len(o.sectors) :
      clustersOf(s)[k] # o.sectors[i]

Writing(o) ==
  /\ Ascends(o.sectors) /\ complete[o.slot] = 0
  /\ IF o.kind = "dir" THEN dir[o.slot] = Empty /\ o.done = 0
     ELSE dir[o.slot] = [name |-> o.name, attributes |-> 0, firstClusterLow |-> o.sectors[1]]
  /\ Linking(o) /\ Filling(o) /\ Alone(o)

\* A read of a complete file has got the chunks before its cluster.
Chunks(s, m) == [i \in 1 .. m |-> <<s, i>>]

ReadingFile(o) ==
  o.slot # 0 /\ complete[o.slot] # 0 =>
    \E m \in 0 .. complete[o.slot] :
      /\ o.got = Chunks(o.slot, m)
      /\ IF o.kind = "eof" THEN m = complete[o.slot]
         ELSE m < complete[o.slot] /\ o.cluster = clustersOf(o.slot)[m + 1]

\* A cluster that is taken belongs to a file, or to the one being written.
HasFile(c) == \E s \in Slots : dir[s] # Empty /\ c \in Range(clustersOf(s))

Takes(o, c) == o.kind \in {"fat", "data"} /\ \E i \in 1 .. Len(o.sectors) : o.sectors[i] = c

Kept(o) ==
  \A c \in WholeEntries \ {0, 1} : nextCluster(fat, c) # 0 => HasFile(c) \/ Takes(o, c)

InOrder ==
  /\ OnDisk
  /\ op.kind \in {"dir", "fat", "data"} => Writing(op)
  /\ op.kind \in {"read", "eof"} => ReadingFile(op)
  /\ ~cut => Kept(op)

FInv ==
  /\ FATTypeOK
  /\ dir \in [Slots -> DirEntry]
  /\ op = Idle \/ IsRead(op) \/ IsWrite(op)
  /\ ~spilled => InOrder

-----------------------------------------------------------------------------
\* Loops.

LEMMA LeastElement ==
  ASSUME NEW T \in SUBSET Nat, T # {}
  PROVE  \E x \in T : \A y \in T : x <= y
<1>1. IsWellFoundedOn(OpToRel(<, Nat), Nat)  BY NatLessThanWellFounded
<1>2. \E x \in T : \A y \in T : ~(<<y, x>> \in OpToRel(<, Nat))
  BY <1>1, WFMin, Zenon
<1>3. \A x \in T, y \in T : <<y, x>> \in OpToRel(<, Nat) <=> y < x
  BY DEF OpToRel
<1>4. \E x \in T : \A y \in T : ~(y < x)  BY <1>2, <1>3, Zenon
<1> QED  BY <1>4

\* What holds before a loop of n turns, and is kept by each turn, holds after it;
\* S is the set of the turns after which it holds.
LEMMA EveryTurn ==
  ASSUME NEW n \in Nat, NEW S, 0 \in S, \A k \in 1 .. n : k-1 \in S => k \in S
  PROVE  \A k \in 0 .. n : k \in S
<1> DEFINE T == {k \in 0 .. n : k \notin S}
<1> SUFFICES ASSUME T # {} PROVE FALSE
  OBVIOUS
<1>1. T \in SUBSET Nat  OBVIOUS
<1> HIDE DEF T
<1>2. PICK x \in T : \A y \in T : x <= y  BY <1>1, LeastElement
<1>3. x \in 1 .. n /\ x \notin S  BY <1>2 DEF T
<1>4. x-1 \in 0 .. n /\ ~(x <= x-1)  BY <1>3
<1>5. x-1 \in S  BY <1>2, <1>4 DEF T
<1> QED  BY <1>3, <1>5

\* f holds the states of a loop that starts in a and makes step[k][v] of v in its
\* k-th turn.
Turns(f, a, step, n) == f[0] = a /\ \A k \in 1 .. n : f[k] = step[k][f[k-1]]

LEMMA LoopStates ==
  ASSUME NEW n \in Nat, NEW A, NEW a \in A, NEW step \in [1 .. n -> [A -> A]]
  PROVE  \E f \in [0 .. n -> A] :
           Turns(f, a, step, n)
<1> DEFINE Upto(m, f) == /\ f[0] = a
                         /\ \A k \in 1 .. m : f[k] = step[k][f[k-1]]
           S == {m \in 0 .. n : \E f \in [0 .. m -> A] : Upto(m, f)}
<1>1. 0 \in S
  <2> DEFINE g == [k \in 0 .. 0 |-> a]
  <2>1. g \in [0 .. 0 -> A] /\ Upto(0, g)  OBVIOUS
  <2> HIDE DEF g, Upto
  <2> QED  BY <2>1
<1>2. ASSUME NEW m \in 1 .. n, m-1 \in S
      PROVE  m \in S
  <2>1. PICK f \in [0 .. m-1 -> A] : Upto(m-1, f)  BY <1>2
  <2> DEFINE g == [k \in 0 .. m |-> IF k < m THEN f[k] ELSE step[m][f[m-1]]]
  <2>2. step[m][f[m-1]] \in A  OBVIOUS
  <2>3. g \in [0 .. m -> A]  BY <2>2
  <2>4. g[0] = a  BY <2>1
  <2>5. ASSUME NEW k \in 1 .. m PROVE g[k] = step[k][g[k-1]]
    <3>1. g[k-1] = f[k-1]  OBVIOUS
    <3>2. CASE k < m  BY <2>1, <3>1, <3>2
    <3>3. CASE k = m  BY <3>1, <3>3
    <3> QED  BY <3>2, <3>3
  <2>6. Upto(m, g)  BY <2>4, <2>5
  <2> HIDE DEF g, Upto
  <2> QED  BY <2>3, <2>6
<1>3. n \in S
  <2>1. \A m \in 1 .. n : m-1 \in S => m \in S  BY <1>2
  <2> HIDE DEF S
  <2>2. \A m \in 0 .. n : m \in S  BY <1>1, <2>1, EveryTurn, Zenon
  <2> QED  BY <2>2
<1>4. PICK f \in [0 .. n -> A] : Upto(n, f)  BY <1>3
<1> QED  BY <1>4 DEF Turns

-----------------------------------------------------------------------------
\* The sizes of the FAT.

LEMMA DivMod ==
  ASSUME NEW a \in Int, NEW u \in Nat \ {0}
  PROVE  /\ a \div u \in Int
         /\ a % u \in 0 .. u-1
         /\ a = u * (a \div u) + (a % u)
OBVIOUS

\* Numbers below u are in the first of the parts of u, and are their own rests.
LEMMA FirstPart ==
  ASSUME NEW u \in Nat \ {0}, NEW n \in 0 .. u-1
  PROVE  n \div u = 0 /\ n % u = n
<1> DEFINE q == n \div u
           r == n % u
<1>1. q \in Int /\ r \in 0 .. u-1 /\ n = u * q + r  BY DivMod
<1> HIDE DEF q, r
<1>2. CASE q >= 1
  <2>1. u * q >= u * 1  BY <1>1, <1>2, Z3
  <2> QED  BY <1>1, <2>1
<1>3. CASE q <= -1
  <2>1. u * q <= u * (-1)  BY <1>1, <1>3, Z3
  <2> QED  BY <1>1, <2>1
<1>4. CASE q = 0
  <2>1. u * q = 0  BY <1>1, <1>4
  <2> QED  BY <1>1, <1>4, <2>1 DEF q, r
<1> QED  BY <1>1, <1>2, <1>3, <1>4

FATNibbles == FATSize * SectorNibbles

LEMMA Sizes ==
  /\ SectorNibbles \in Nat /\ WholePerSector \in Nat \ {0}
  /\ SectorNibbles = 3 * WholePerSector + 1
  /\ FATNibbles \in Nat /\ FATNibbles >= 2 * SectorNibbles
  /\ ClusterCount \in Nat /\ WholePerSector < ClusterCount
  /\ 3 * ClusterCount <= FATNibbles
  /\ EntriesPerSector = WholePerSector + 1
  /\ FATSize * EntriesPerSector \in Nat /\ WholePerSector < FATSize * EntriesPerSector
<1>1. /\ SECTOR_SIZE \in Nat /\ SECTOR_SIZE % 3 = 2
      /\ FATSize \in Nat /\ FATSize >= 2
  BY FATAssumption
<1>2. PICK k \in Nat : SECTOR_SIZE = 3 * k + 2
  <2>1. SECTOR_SIZE = 3 * (SECTOR_SIZE \div 3) + 2 /\ SECTOR_SIZE \div 3 \in Nat  BY <1>1
  <2> QED  BY <2>1
<1>3. SectorNibbles = 6 * k + 4 /\ WholePerSector = 2 * k + 1
  BY <1>2 DEF SectorNibbles, WholePerSector
<1>4. EntriesPerSector = WholePerSector + 1  BY DEF EntriesPerSector
<1>5. ASSUME NEW n \in Nat PROVE FATSize * n \in Nat /\ FATSize * n >= 2 * n
  BY <1>1, <1>5, Z3
<1>6. FATNibbles \in Nat /\ FATNibbles >= 2 * SectorNibbles
  <2>1. SectorNibbles \in Nat  BY <1>3
  <2> QED  BY <1>5, <2>1 DEF FATNibbles
<1>7. FATSize * EntriesPerSector \in Nat /\ FATSize * EntriesPerSector >= 2 * EntriesPerSector
  <2>1. EntriesPerSector \in Nat  BY <1>3, <1>4
  <2> QED  BY <1>5, <2>1
<1>8. /\ ClusterCount \in Nat /\ 3 * ClusterCount <= FATNibbles
      /\ FATNibbles < 3 * ClusterCount + 3
  <2>1. ClusterCount = FATNibbles \div 3  BY DEF ClusterCount, FATNibbles
  <2> HIDE DEF FATNibbles
  <2> QED  BY <1>6, <2>1
<1> QED  BY <1>3, <1>4, <1>6, <1>7, <1>8

LEMMA ClustersAre ==
  /\ \A c \in Clusters : /\ c \in Nat
                         /\ 3*c \in Nibbles /\ 3*c + 1 \in Nibbles /\ 3*c + 2 \in Nibbles
  /\ \A c \in WholeEntries : c \in Clusters /\ 3*c + 2 < SectorNibbles
  /\ WholePerSector \in Clusters /\ 0 \in Clusters
  /\ Nibbles \subseteq Nat
<1>1. Nibbles = 0 .. FATNibbles - 1  BY DEF Nibbles, FATNibbles
<1> QED  BY <1>1, Sizes DEF Clusters, WholeEntries

-----------------------------------------------------------------------------
\* Entries and links.

LEMMA EntryIsNat ==
  ASSUME NEW f \in FATs, NEW c \in Clusters
  PROVE  nextCluster(f, c) \in Nat
<1>1. f[3*c] \in Nat /\ f[3*c + 1] \in Nat /\ f[3*c + 2] \in Nat
  BY ClustersAre DEF FATs
<1> QED  BY <1>1 DEF nextCluster

LEMMA OrIsNibble ==
  ASSUME NEW a \in Nat, NEW b \in Nat
  PROVE  or(a, b) \in 0 .. 15
BY DEF or

LEMMA OrIntoZero ==
  ASSUME NEW b \in 0 .. 15
  PROVE  or(0, b) = b
<1>1. \/ b = 0 \/ b = 1 \/ b = 2 \/ b = 3 \/ b = 4 \/ b = 5 \/ b = 6 \/ b = 7
      \/ b = 8 \/ b = 9 \/ b = 10 \/ b = 11 \/ b = 12 \/ b = 13 \/ b = 14 \/ b = 15
  OBVIOUS
<1> QED  BY <1>1 DEF or

LEMMA DigitsMake ==
  ASSUME NEW v \in Nat
  PROVE  /\ digits(v) = <<digits(v)[1], digits(v)[2], digits(v)[3]>>
         /\ \A i \in 1 .. 3 : digits(v)[i] \in 0 .. 15
         /\ v <= EOF_MARK => digits(v)[1] + 16 * digits(v)[2] + 256 * digits(v)[3] = v
BY DEF digits, EOF_MARK

\* or-ing a value into an entry leaves all others alone; into a free whole entry
\* it stores the value.
LEMMA LinkDoes ==
  ASSUME NEW f \in FATs, NEW c \in Clusters, NEW v \in Nat
  PROVE  /\ link(f, c, v) \in FATs
         /\ \A d \in Clusters : d # c => nextCluster(link(f, c, v), d) = nextCluster(f, d)
         /\ c \in WholeEntries /\ nextCluster(f, c) = 0 /\ v <= EOF_MARK =>
              nextCluster(link(f, c, v), c) = v
<1> DEFINE g == link(f, c, v)
           D == digits(v)
<1>1. c \in Nat /\ Nibbles \subseteq Nat /\ \A n \in Nibbles : f[n] \in 0 .. 15
  BY ClustersAre DEF FATs
<1>2. \A i \in 1 .. 3 : D[i] \in 0 .. 15  BY DigitsMake
<1> HIDE DEF D
<1>3. \A n \in Nibbles :
        g[n] = IF n \in 3*c .. 3*c + 2 /\ n \div SectorNibbles = (3*c) \div SectorNibbles
               THEN or(f[n], D[n - 3*c + 1]) ELSE f[n]
  BY DEF link, D
<1>4. \A n \in Nibbles : g[n] \in 0 .. 15
  <2> TAKE n \in Nibbles
  <2>1. CASE n \in 3*c .. 3*c + 2
    <3>1. n - 3*c + 1 \in 1 .. 3  BY <1>1, <2>1
    <3>2. or(f[n], D[n - 3*c + 1]) \in 0 .. 15
      <4>1. f[n] \in Nat /\ D[n - 3*c + 1] \in Nat  BY <1>1, <1>2, <3>1
      <4> QED  BY <4>1, OrIsNibble
    <3> QED  BY <1>1, <1>3, <3>2
  <2>2. CASE n \notin 3*c .. 3*c + 2
    BY <1>1, <1>3, <2>2
  <2> QED  BY <2>1, <2>2
<1>5. g \in FATs
  <2>1. g = [n \in Nibbles |-> g[n]]  BY DEF link
  <2> QED  BY <1>4, <2>1 DEF FATs
<1> HIDE DEF g
<1>6. ASSUME NEW d \in Clusters, d # c PROVE nextCluster(g, d) = nextCluster(f, d)
  <2>1. d \in Nat /\ 3*d \in Nibbles /\ 3*d + 1 \in Nibbles /\ 3*d + 2 \in Nibbles
    BY ClustersAre
  <2>2. /\ 3*d \notin 3*c .. 3*c + 2 /\ 3*d + 1 \notin 3*c .. 3*c + 2
        /\ 3*d + 2 \notin 3*c .. 3*c + 2
    BY <1>1, <1>6, <2>1
  <2>3. g[3*d] = f[3*d] /\ g[3*d + 1] = f[3*d + 1] /\ g[3*d + 2] = f[3*d + 2]
    BY <1>3, <2>1, <2>2
  <2> QED  BY <2>3 DEF nextCluster
<1>7. ASSUME c \in WholeEntries, nextCluster(f, c) = 0, v <= EOF_MARK
      PROVE  nextCluster(g, c) = v
  <2>1. 3*c \in Nibbles /\ 3*c + 1 \in Nibbles /\ 3*c + 2 \in Nibbles
    BY ClustersAre
  <2>2. f[3*c] = 0 /\ f[3*c + 1] = 0 /\ f[3*c + 2] = 0
    <3>1. f[3*c] \in Nat /\ f[3*c + 1] \in Nat /\ f[3*c + 2] \in Nat  BY <1>1, <2>1
    <3>2. f[3*c] + 16 * f[3*c + 1] + 256 * f[3*c + 2] = 0  BY <1>7 DEF nextCluster
    <3> DEFINE x == f[3*c]
               y == f[3*c + 1]
               z == f[3*c + 2]
    <3>3. x \in Nat /\ y \in Nat /\ z \in Nat /\ x + 16 * y + 256 * z = 0  BY <3>1, <3>2
    <3> HIDE DEF x, y, z
    <3>4. x = 0 /\ y = 0 /\ z = 0  BY <3>3
    <3> QED  BY <3>4 DEF x, y, z
  <2>3. \A n \in 3*c .. 3*c + 2 : n \div SectorNibbles = 0
    <3> TAKE n \in 3*c .. 3*c + 2
    <3>1. SectorNibbles \in Nat \ {0} /\ n \in 0 .. SectorNibbles - 1
      BY <1>1, <1>7, Sizes, ClustersAre
    <3> QED  BY <3>1, FirstPart
  <2>4. 3*c \in 3*c .. 3*c + 2 /\ 3*c + 1 \in 3*c .. 3*c + 2 /\ 3*c + 2 \in 3*c .. 3*c + 2
    BY <1>1
  <2>5. /\ 3*c - 3*c + 1 = 1 /\ 3*c + 1 - 3*c + 1 = 2 /\ 3*c + 2 - 3*c + 1 = 3
    BY <1>1
  <2>6. g[3*c] = or(0, D[1]) /\ g[3*c + 1] = or(0, D[2]) /\ g[3*c + 2] = or(0, D[3])
    BY <1>3, <2>1, <2>2, <2>3, <2>4, <2>5
  <2>7. g[3*c] = D[1] /\ g[3*c + 1] = D[2] /\ g[3*c + 2] = D[3]
    BY <1>2, <2>6, OrIntoZero
  <2>8. D[1] + 16 * D[2] + 256 * D[3] = v  BY <1>7, DigitsMake DEF D
  <2> QED  BY <2>7, <2>8 DEF nextCluster
<1> QED  BY <1>5, <1>6, <1>7 DEF g

-----------------------------------------------------------------------------
\* Chains.

Stops(v) == ends(v) \/ v \notin Clusters

\* p starts in first, and each cluster is the entry of the one before.
Follows(f, p, first) ==
  /\ p \in Seq(Clusters) /\ Len(p) >= 1 /\ p[1] = first
  /\ \A i \in 1 .. Len(p) - 1 : p[i + 1] = nextCluster(f, p[i]) /\ ~Stops(p[i + 1])

\* ...and goes on for n clusters more, or to where the chain ends.
Goes(f, p, first, n) ==
  /\ Follows(f, p, first) /\ Len(p) <= n + 1
  /\ Len(p) = n + 1 \/ Stops(nextCluster(f, p[Len(p)]))

Ahead(f, w) ==
  IF Stops(nextCluster(f, Last(w))) THEN w ELSE Append(w, nextCluster(f, Last(w)))

LEMMA AheadGoes ==
  ASSUME NEW f, NEW w, NEW first, NEW n \in Nat, Goes(f, w, first, n)
  PROVE  Goes(f, Ahead(f, w), first, n + 1)
<1> DEFINE v == nextCluster(f, w[Len(w)])
<1>1. /\ w \in Seq(Clusters) /\ Len(w) \in Nat /\ Len(w) >= 1 /\ w[1] = first
      /\ \A i \in 1 .. Len(w) - 1 : w[i + 1] = nextCluster(f, w[i]) /\ ~Stops(w[i + 1])
      /\ Len(w) <= n + 1 /\ (Len(w) = n + 1 \/ Stops(v))
  BY DEF Goes, Follows
<1>2. Last(w) = w[Len(w)]  BY DEF Last
<1>3. CASE Stops(v)
  <2>1. Ahead(f, w) = w  BY <1>2, <1>3 DEF Ahead
  <2>2. Len(w) <= n + 1 + 1  BY <1>1
  <2> HIDE DEF v
  <2> QED  BY <1>3, <2>1, <2>2 DEF Goes, v
<1>4. CASE ~Stops(v)
  <2> DEFINE u == Append(w, v)
  <2>1. Ahead(f, w) = u  BY <1>2, <1>4 DEF Ahead
  <2>2. v \in Clusters  BY <1>4 DEF Stops
  <2> HIDE DEF v
  <2>3. /\ u \in Seq(Clusters) /\ Len(u) = Len(w) + 1 /\ u[Len(w) + 1] = v
        /\ \A i \in 1 .. Len(w) : u[i] = w[i]
    BY <1>1, <2>2
  <2> HIDE DEF u
  <2>4. ASSUME NEW i \in 1 .. Len(u) - 1
        PROVE  u[i + 1] = nextCluster(f, u[i]) /\ ~Stops(u[i + 1])
    <3>1. i \in 1 .. Len(w) /\ u[i] = w[i]  BY <1>1, <2>3
    <3>2. CASE i = Len(w)
      <4>1. u[i + 1] = v  BY <2>3, <3>2
      <4> QED  BY <1>4, <3>1, <3>2, <4>1 DEF v
    <3>3. CASE i # Len(w)
      <4>1. i \in 1 .. Len(w) - 1 /\ i + 1 \in 1 .. Len(w)  BY <1>1, <3>1, <3>3
      <4> QED  BY <1>1, <2>3, <3>1, <4>1
    <3> QED  BY <3>2, <3>3
  <2>5. 1 \in 1 .. Len(w) /\ Len(u) >= 1 /\ Len(u) = n + 1 + 1  BY <1>1, <1>4, <2>3
  <2>6. Follows(f, u, first)  BY <1>1, <2>3, <2>4, <2>5 DEF Follows
  <2> QED  BY <2>1, <2>5, <2>6 DEF Goes
<1> QED  BY <1>3, <1>4

\* chain is what it is called.
LEMMA ChainGoes ==
  ASSUME NEW f, NEW first \in Clusters
  PROVE  Goes(f, chain(f, first), first, ClusterCount)
<1> DEFINE N == ClusterCount
           Paths == {w \in Seq(Clusters) : Len(w) >= 1}
           step == [k \in 1 .. N |-> [w \in Paths |-> Ahead(f, w)]]
           R(u) == [n \in 0 .. N |->
                      IF n = 0 THEN <<first>>
                      ELSE LET w == u[n - 1]
                               v == nextCluster(f, Last(w))
                           IN  IF ends(v) \/ v \notin Clusters THEN w ELSE Append(w, v)]
           walk == CHOOSE u : u = R(u)
<1>1. N \in Nat  BY Sizes
<1>2. chain(f, first) = walk[N]  BY DEF chain
<1> HIDE DEF N
<1>3. \A w \in Paths : Ahead(f, w) \in Paths
  <2> TAKE w \in Paths
  <2> DEFINE v == nextCluster(f, Last(w))
  <2>1. Ahead(f, w) = IF Stops(v) THEN w ELSE Append(w, v)  BY DEF Ahead
  <2>2. ~Stops(v) => v \in Clusters  BY DEF Stops
  <2> HIDE DEF v
  <2> QED  BY <2>1, <2>2
<1>4. <<first>> \in Paths  OBVIOUS
<1> HIDE DEF Paths
<1>5. step \in [1 .. N -> [Paths -> Paths]]  BY <1>3
<1>6. \A u : R(u) = [n \in 0 .. N |-> IF n = 0 THEN <<first>> ELSE Ahead(f, u[n - 1])]
  BY DEF Ahead, Stops
<1> HIDE DEF R
<1>7. \E u : u = R(u)
  <2> HIDE DEF step
  <2>1. PICK u \in [0 .. N -> Paths] : Turns(u, <<first>>, step, N)
    BY <1>1, <1>4, <1>5, LoopStates, Zenon
  <2>2. \A k \in 1 .. N : u[k] = Ahead(f, u[k - 1])
    <3> TAKE k \in 1 .. N
    <3>1. k-1 \in 0 .. N  BY <1>1
    <3>2. u[k-1] \in Paths  BY <2>1, <3>1
    <3>3. step[k][u[k-1]] = Ahead(f, u[k-1])  BY <3>2 DEF step
    <3> QED  BY <2>1, <3>3 DEF Turns
  <2>3. \A k \in 0 .. N : u[k] = IF k = 0 THEN <<first>> ELSE Ahead(f, u[k - 1])
    <3>1. u[0] = <<first>>  BY <2>1 DEF Turns
    <3>2. \A k \in 0 .. N : k = 0 \/ k \in 1 .. N  BY <1>1
    <3>3. \A k \in 1 .. N : k # 0  BY <1>1
    <3> QED  BY <2>2, <3>1, <3>2, <3>3, Zenon
  <2>4. u = R(u)  BY <1>6, <2>3
  <2> QED  BY <2>4
<1>8. walk = R(walk)  BY <1>7
<1> HIDE DEF walk
<1>9. /\ walk[0] = <<first>>
      /\ \A k \in 1 .. N : walk[k] = Ahead(f, walk[k - 1])
  BY <1>1, <1>6, <1>8
<1>10. \A k \in 0 .. N : Goes(f, walk[k], first, k)
  <2> DEFINE S == {k \in 0 .. N : Goes(f, walk[k], first, k)}
  <2>1. 0 \in S
    <3>1. Goes(f, <<first>>, first, 0)  BY DEF Goes, Follows
    <3> QED  BY <1>1, <1>9, <3>1
  <2>2. ASSUME NEW k \in 1 .. N, k-1 \in S PROVE k \in S
    <3>1. k-1 \in Nat /\ k-1+1 = k  BY <1>1
    <3>2. Goes(f, walk[k-1], first, k-1)  BY <2>2
    <3>3. Goes(f, Ahead(f, walk[k-1]), first, k-1+1)  BY <3>1, <3>2, AheadGoes
    <3> QED  BY <1>1, <1>9, <3>1, <3>3
  <2> HIDE DEF S
  <2>3. \A k \in 0 .. N : k \in S  BY <1>1, <2>1, <2>2, EveryTurn, Zenon
  <2> QED  BY <2>3 DEF S
<1> QED  BY <1>1, <1>2, <1>10 DEF N

Within(p, q) == \A i \in 1 .. Len(p) : i <= Len(q) /\ q[i] = p[i]

\* Where the entries that go on in f are the same in g, a chain in g has all of
\* the one in f.
LEMMA ChainGrows ==
  ASSUME NEW f, NEW g, NEW first, NEW p, NEW q, NEW n \in Nat,
         Goes(f, p, first, n), Goes(g, q, first, n),
         \A c \in Clusters : ~Stops(nextCluster(f, c)) => nextCluster(g, c) = nextCluster(f, c)
  PROVE  Within(p, q)
<1> DEFINE m == Len(p) - 1
           S == {k \in 0 .. m : k + 1 <= Len(q) /\ q[k + 1] = p[k + 1]}
<1>1. /\ p \in Seq(Clusters) /\ Len(p) \in Nat /\ Len(p) >= 1 /\ Len(p) <= n + 1 /\ p[1] = first
      /\ \A i \in 1 .. Len(p) - 1 : p[i + 1] = nextCluster(f, p[i]) /\ ~Stops(p[i + 1])
  BY DEF Goes, Follows
<1>2. /\ q \in Seq(Clusters) /\ Len(q) \in Nat /\ Len(q) >= 1 /\ q[1] = first
      /\ \A i \in 1 .. Len(q) - 1 : q[i + 1] = nextCluster(g, q[i])
      /\ Len(q) = n + 1 \/ Stops(nextCluster(g, q[Len(q)]))
  BY DEF Goes, Follows
<1>3. m \in Nat /\ 0 \in S  BY <1>1, <1>2
<1>4. ASSUME NEW k \in 1 .. m, k-1 \in S PROVE k \in S
  <2>1. k <= Len(q) /\ q[k] = p[k] /\ k \in 1 .. Len(p) - 1 /\ k \in 1 .. Len(p)
    BY <1>1, <1>4
  <2>2. p[k + 1] = nextCluster(f, p[k]) /\ ~Stops(p[k + 1]) /\ p[k] \in Clusters
    BY <1>1, <2>1
  <2>3. nextCluster(g, q[k]) = p[k + 1]  BY <2>1, <2>2
  <2>4. k # Len(q)
    <3>1. CASE k = Len(q)
      <4>1. Len(q) = n + 1  BY <1>2, <2>2, <2>3, <3>1
      <4> QED  BY <1>1, <2>1, <3>1, <4>1
    <3> QED  BY <3>1
  <2>5. k \in 1 .. Len(q) - 1  BY <1>2, <2>1, <2>4
  <2>6. q[k + 1] = p[k + 1]  BY <1>2, <2>3, <2>5
  <2> QED  BY <1>1, <2>5, <2>6
<1>5. \A k \in 0 .. m : k \in S
  <2> HIDE DEF S, m
  <2> QED  BY <1>3, <1>4, EveryTurn, Zenon
<1>6. ASSUME NEW i \in 1 .. Len(p) PROVE i <= Len(q) /\ q[i] = p[i]
  <2>1. i-1 \in 0 .. m /\ i-1+1 = i  BY <1>1
  <2>2. i-1 \in S  BY <1>5, <2>1
  <2> QED  BY <2>1, <2>2
<1> QED  BY <1>6 DEF Within

\* A chain is known by where it starts.
LEMMA OneChain ==
  ASSUME NEW f, NEW first \in Clusters, NEW p, Goes(f, p, first, ClusterCount)
  PROVE  chain(f, first) = p
<1> DEFINE q == chain(f, first)
<1>1. Goes(f, q, first, ClusterCount) /\ ClusterCount \in Nat  BY ChainGoes, Sizes
<1> HIDE DEF q
<1>2. Within(p, q) /\ Within(q, p)  BY <1>1, ChainGrows
<1>4. /\ p \in Seq(Clusters) /\ q \in Seq(Clusters) /\ Len(p) \in Nat /\ Len(q) \in Nat
      /\ Len(p) >= 1 /\ Len(q) >= 1
  BY <1>1 DEF Goes, Follows
<1>5. Len(p) = Len(q)
  <2>1. Len(p) \in 1 .. Len(p) /\ Len(q) \in 1 .. Len(q)  BY <1>4
  <2>2. Len(p) <= Len(q) /\ Len(q) <= Len(p)  BY <1>2, <2>1 DEF Within
  <2> QED  BY <1>4, <2>2
<1>6. p = q  BY <1>2, <1>4, <1>5 DEF Within
<1> QED  BY <1>6 DEF q

\* Clusters that are linked to one another, up to the last mark, are a chain.
LEMMA LinkedIsChain ==
  ASSUME NEW f, NEW q \in Seq(Clusters), Ascends(q), Len(q) >= 1,
         \A i \in 1 .. Len(q) : nextCluster(f, q[i]) = target(q, i)
  PROVE  chain(f, q[1]) = q
<1>1. /\ WholePerSector \in Nat /\ WholePerSector < ClusterCount /\ ClusterCount \in Nat
      /\ WholePerSector <= LastMark /\ Len(q) \in Nat /\ Len(q) <= WholePerSector
  <2>1. WholePerSector <= LastMark  BY FATAssumption DEF WholePerSector
  <2> QED  BY <2>1, Sizes DEF Ascends
<1>2. ASSUME NEW i \in 1 .. Len(q) - 1
      PROVE  q[i + 1] = nextCluster(f, q[i]) /\ ~Stops(q[i + 1])
  <2>1. i \in 1 .. Len(q) /\ i + 1 \in 1 .. Len(q) /\ i # Len(q)  BY <1>1
  <2>2. q[i + 1] = nextCluster(f, q[i])  BY <2>1 DEF target
  <2>3. q[i + 1] \in Clusters /\ q[i + 1] \in WholeEntries \ {0, 1}  BY <2>1 DEF Ascends
  <2>4. q[i + 1] \in Nat /\ q[i + 1] < LastMark /\ q[i + 1] # 0
    BY <1>1, <2>3 DEF WholeEntries, LastMark
  <2> QED  BY <2>2, <2>3, <2>4 DEF Stops, ends, LastMark
<1>3. Stops(nextCluster(f, q[Len(q)]))
  <2>1. Len(q) \in 1 .. Len(q)  BY <1>1
  <2>2. nextCluster(f, q[Len(q)]) = EOF_MARK  BY <2>1 DEF target
  <2> QED  BY <2>2 DEF Stops, ends, EOF_MARK, LastMark
<1>4. Goes(f, q, q[1], ClusterCount)  BY <1>1, <1>2, <1>3 DEF Goes, Follows
<1>5. q[1] \in Clusters  BY <1>1
<1> QED  BY <1>4, <1>5, OneChain

\* Linking a free cluster leaves every chain's clusters in it, and a chain whose
\* clusters are all taken as it is.
LEMMA LinkKeepsChains ==
  ASSUME NEW f \in FATs, NEW c \in Clusters, NEW v \in Nat, nextCluster(f, c) = 0,
         NEW first \in Clusters
  PROVE  LET p == chain(f, first)
             q == chain(link(f, c, v), first)
         IN  /\ Range(p) \subseteq Range(q)
             /\ (\A i \in 1 .. Len(p) : nextCluster(f, p[i]) # 0) => q = p
<1> DEFINE g == link(f, c, v)
           p == chain(f, first)
           q == chain(g, first)
<1>1. ASSUME NEW d \in Clusters, nextCluster(f, d) # 0
      PROVE  nextCluster(g, d) = nextCluster(f, d)
  <2>1. d # c  BY <1>1
  <2> QED  BY <2>1, LinkDoes
<1> HIDE DEF g
<1>2. /\ Goes(f, p, first, ClusterCount) /\ Goes(g, q, first, ClusterCount)
      /\ ClusterCount \in Nat
  BY ChainGoes, Sizes
<1> HIDE DEF p, q
<1>3. /\ p \in Seq(Clusters) /\ q \in Seq(Clusters) /\ Len(p) \in Nat /\ Len(q) \in Nat
      /\ Len(p) >= 1
  BY <1>2 DEF Goes, Follows
<1>4. \A d \in Clusters : ~Stops(nextCluster(f, d)) => nextCluster(g, d) = nextCluster(f, d)
  BY <1>1 DEF Stops, ends
<1>5. Within(p, q)  BY <1>2, <1>4, ChainGrows
<1>6. Range(p) \subseteq Range(q)
  <2> SUFFICES ASSUME NEW i \in 1 .. Len(p) PROVE p[i] \in Range(q)
    BY <1>3 DEF Range
  <2>1. i \in 1 .. Len(q) /\ q[i] = p[i]  BY <1>3, <1>5 DEF Within
  <2> QED  BY <1>3, <2>1 DEF Range
<1>7. ASSUME \A i \in 1 .. Len(p) : nextCluster(f, p[i]) # 0 PROVE q = p
  <2>1. \A i \in 1 .. Len(p) : nextCluster(g, p[i]) = nextCluster(f, p[i])
    BY <1>1, <1>3, <1>7
  <2>2. Len(p) \in 1 .. Len(p) /\ \A i \in 1 .. Len(p) - 1 : i \in 1 .. Len(p)
    BY <1>3
  <2>3. Goes(g, p, first, ClusterCount)
    BY <1>2, <2>1, <2>2 DEF Goes, Follows
  <2> QED  BY <2>3, OneChain DEF q
<1> QED  BY <1>6, <1>7 DEF p, q, g

-----------------------------------------------------------------------------
\* findSectors.

Taken(count, behind, e, w) ==
  IF (w = <<>> \/ Len(w) < count)
       /\ valueIn((e - 1) \div EntriesPerSector, (e - 1) % EntriesPerSector, behind) = 0
  THEN Append(w, (e - 1) % EntriesPerSector) ELSE w

Numbers == 0 .. WholePerSector
LastEntry == FATSize * EntriesPerSector

LEMMA TakenTurns ==
  ASSUME NEW count, NEW behind
  PROVE  /\ taken(count, behind)[0] = <<>>
         /\ \A e \in 1 .. LastEntry :
              taken(count, behind)[e] = Taken(count, behind, e, taken(count, behind)[e - 1])
<1> DEFINE N == LastEntry
           step == [e \in 1 .. N |-> [w \in Seq(Numbers) |-> Taken(count, behind, e, w)]]
           R(u) == [e \in 0 .. N |->
                      IF e = 0 THEN <<>>
                      ELSE LET w == u[e - 1]
                               j == (e - 1) \div EntriesPerSector
                               k == (e - 1) % EntriesPerSector
                           IN  IF (w = <<>> \/ Len(w) < count) /\ valueIn(j, k, behind) = 0
                               THEN Append(w, k) ELSE w]
           after == CHOOSE u : u = R(u)
<1>1. N \in Nat  BY Sizes DEF LastEntry
<1>2. taken(count, behind) = after  BY DEF taken, LastEntry
<1> HIDE DEF N
<1>3. ASSUME NEW e \in 1 .. N, NEW w \in Seq(Numbers)
      PROVE  Taken(count, behind, e, w) \in Seq(Numbers)
  <2> DEFINE k == (e - 1) % EntriesPerSector
             free == valueIn((e - 1) \div EntriesPerSector, k, behind) = 0
  <2>1. k \in Numbers
    <3>1. e - 1 \in Int /\ EntriesPerSector \in Nat \ {0} /\ WholePerSector \in Nat
      BY <1>1, Sizes
    <3>2. k \in 0 .. EntriesPerSector - 1  BY <3>1, DivMod
    <3> HIDE DEF k
    <3> QED  BY <3>1, <3>2, Sizes DEF Numbers
  <2>2. Taken(count, behind, e, w) = Append(w, k) \/ Taken(count, behind, e, w) = w
    BY DEF Taken
  <2> HIDE DEF k
  <2> QED  BY <2>1, <2>2
<1>4. step \in [1 .. N -> [Seq(Numbers) -> Seq(Numbers)]]  BY <1>3
<1>5. <<>> \in Seq(Numbers)  OBVIOUS
<1>6. \A u : R(u) = [e \in 0 .. N |-> IF e = 0 THEN <<>> ELSE Taken(count, behind, e, u[e - 1])]
  BY DEF Taken
<1> HIDE DEF R
<1>7. \E u : u = R(u)
  <2> HIDE DEF step
  <2>1. PICK u \in [0 .. N -> Seq(Numbers)] : Turns(u, <<>>, step, N)
    BY <1>1, <1>4, <1>5, LoopStates, Zenon
  <2>2. \A e \in 1 .. N : u[e] = Taken(count, behind, e, u[e - 1])
    <3> TAKE e \in 1 .. N
    <3>1. e-1 \in 0 .. N  BY <1>1
    <3>2. u[e-1] \in Seq(Numbers)  BY <2>1, <3>1
    <3>3. step[e][u[e-1]] = Taken(count, behind, e, u[e-1])  BY <3>2 DEF step
    <3> QED  BY <2>1, <3>3 DEF Turns
  <2>3. \A e \in 0 .. N : u[e] = IF e = 0 THEN <<>> ELSE Taken(count, behind, e, u[e - 1])
    <3>1. u[0] = <<>>  BY <2>1 DEF Turns
    <3>2. \A e \in 0 .. N : e = 0 \/ e \in 1 .. N  BY <1>1
    <3>3. \A e \in 1 .. N : e # 0  BY <1>1
    <3> QED  BY <2>2, <3>1, <3>2, <3>3, Zenon
  <2>4. u = R(u)  BY <1>6, <2>3
  <2> QED  BY <2>4
<1>8. after = R(after)  BY <1>7
<1> HIDE DEF after
<1>9. after[0] = <<>> /\ \A e \in 1 .. N : after[e] = Taken(count, behind, e, after[e - 1])
  BY <1>1, <1>6, <1>8
<1> QED  BY <1>2, <1>9 DEF N

\* As many numbers as were asked for, or fewer.
LEMMA TakenAreNumbers ==
  ASSUME NEW count \in 1 .. MaxChunks, NEW behind
  PROVE  \A e \in 0 .. LastEntry :
           /\ taken(count, behind)[e] \in Seq(Numbers)
           /\ Len(taken(count, behind)[e]) <= MaxChunks
<1> DEFINE after == taken(count, behind)
           S == {e \in 0 .. LastEntry : after[e] \in Seq(Numbers) /\ Len(after[e]) <= count}
<1>1. LastEntry \in Nat  BY Sizes DEF LastEntry
<1>2. after[0] = <<>> /\ \A e \in 1 .. LastEntry : after[e] = Taken(count, behind, e, after[e - 1])
  BY TakenTurns
<1> HIDE DEF after
<1>3. 0 \in S
  <2>1. after[0] = <<>> /\ 0 \in 0 .. LastEntry  BY <1>1, <1>2
  <2>2. <<>> \in Seq(Numbers) /\ Len(<<>>) <= count  OBVIOUS
  <2> QED  BY <2>1, <2>2
<1>4. ASSUME NEW e \in 1 .. LastEntry, e-1 \in S PROVE e \in S
  <2> DEFINE w == after[e - 1]
             k == (e - 1) % EntriesPerSector
  <2>1. w \in Seq(Numbers) /\ Len(w) \in Nat /\ Len(w) <= count  BY <1>4
  <2>2. k \in Numbers
    <3>1. e - 1 \in Int /\ EntriesPerSector \in Nat \ {0} /\ WholePerSector \in Nat
      BY <1>1, Sizes
    <3>2. k \in 0 .. EntriesPerSector - 1  BY <3>1, DivMod
    <3> HIDE DEF k
    <3> QED  BY <3>1, <3>2, Sizes DEF Numbers
  <2>3. \/ after[e] = w
        \/ after[e] = Append(w, k) /\ (w = <<>> \/ Len(w) < count)
    BY <1>2 DEF Taken
  <2> HIDE DEF w, k
  <2>4. after[e] \in Seq(Numbers) /\ Len(after[e]) <= count
    <3>1. CASE after[e] = w  BY <2>1, <3>1
    <3>2. CASE after[e] = Append(w, k) /\ (w = <<>> \/ Len(w) < count)
      <4>1. Append(w, k) \in Seq(Numbers) /\ Len(Append(w, k)) = Len(w) + 1  BY <2>1, <2>2
      <4>2. Len(w) + 1 <= count
        <5>1. Len(<<>>) = 0 /\ count >= 1 /\ count \in Int  OBVIOUS
        <5> QED  BY <2>1, <3>2, <5>1
      <4> QED  BY <3>2, <4>1, <4>2
    <3> QED  BY <2>3, <3>1, <3>2
  <2> QED  BY <1>1, <2>4
<1>5. \A e \in 0 .. LastEntry : e \in S
  <2> HIDE DEF S
  <2> QED  BY <1>1, <1>3, <1>4, EveryTurn, Zenon
<1>6. count <= MaxChunks /\ count \in Nat /\ MaxChunks \in Nat
  <2>1. MaxChunks \in Nat  BY FATAssumption
  <2> QED  BY <2>1
<1> QED  BY <1>5, <1>6 DEF after

FreeAndAscending(w, e) ==
  /\ w \in Seq(Numbers) /\ Len(w) <= e
  /\ \A i \in 1 .. Len(w) : w[i] < e /\ w[i] \in WholeEntries /\ nextCluster(fat, w[i]) = 0
  /\ \A i, j \in 1 .. Len(w) : i < j => w[i] < w[j]

\* Those of the first sector's whole entries are free and come in order.
LEMMA TakenAreFree ==
  ASSUME NEW count, NEW behind
  PROVE  FreeAndAscending(taken(count, behind)[WholePerSector], WholePerSector)
<1> DEFINE after == taken(count, behind)
           W == WholePerSector
           S == {e \in 0 .. W : FreeAndAscending(after[e], e)}
<1>1. W \in Nat /\ W < LastEntry /\ LastEntry \in Nat  BY Sizes DEF LastEntry
<1>2. after[0] = <<>> /\ \A e \in 1 .. LastEntry : after[e] = Taken(count, behind, e, after[e - 1])
  BY TakenTurns
<1> HIDE DEF after
<1>3. 0 \in S
  <2>1. FreeAndAscending(<<>>, 0)  BY DEF FreeAndAscending
  <2> QED  BY <1>1, <1>2, <2>1
<1>4. ASSUME NEW e \in 1 .. W, e-1 \in S PROVE e \in S
  <2> DEFINE w == after[e - 1]
  <2>1. FreeAndAscending(w, e - 1)  BY <1>4
  <2> HIDE DEF w
  <2>2. (e - 1) \div EntriesPerSector = 0 /\ (e - 1) % EntriesPerSector = e - 1
    <3>1. EntriesPerSector \in Nat \ {0} /\ e - 1 \in 0 .. EntriesPerSector - 1
      BY <1>1, Sizes
    <3> QED  BY <3>1, FirstPart
  <2>3. valueIn(0, e - 1, behind) = nextCluster(fat, e - 1)
    <3>1. e - 1 \in WholeEntries /\ SectorNibbles \in Nat  BY <1>1, Sizes DEF WholeEntries
    <3>2. /\ 3 * (e - 1) \in Nat /\ 3 * (e - 1) + 2 < SectorNibbles  BY <3>1, ClustersAre
    <3>3. \A n \in Nat : 0 * SectorNibbles + n = n  BY <3>1
    <3>4. /\ 3 * (e - 1) \in Nat /\ 3 * (e - 1) + 1 \in Nat /\ 3 * (e - 1) + 2 \in Nat
          /\ 3 * (e - 1) < SectorNibbles /\ 3 * (e - 1) + 1 < SectorNibbles
      BY <3>1, <3>2
    <3> QED  BY <3>2, <3>3, <3>4 DEF valueIn, nextCluster
  <2>4. CASE after[e] = w
    <3>1. FreeAndAscending(w, e)
      <4>1. w \in Seq(Numbers) /\ Len(w) \in Nat /\ \A i \in 1 .. Len(w) : w[i] \in Nat
        BY <1>1, <2>1 DEF FreeAndAscending, Numbers
      <4> QED  BY <1>1, <2>1, <4>1 DEF FreeAndAscending
    <3> QED  BY <1>1, <2>4, <3>1
  <2>5. CASE after[e] = Append(w, e - 1) /\ nextCluster(fat, e - 1) = 0
    <3> DEFINE u == Append(w, e - 1)
    <3>1. /\ w \in Seq(Numbers) /\ Len(w) \in Nat /\ Len(w) <= e - 1
          /\ \A i \in 1 .. Len(w) : /\ w[i] \in Nat /\ w[i] < e - 1 /\ w[i] \in WholeEntries
                                    /\ nextCluster(fat, w[i]) = 0
          /\ \A i, j \in 1 .. Len(w) : i < j => w[i] < w[j]
      BY <1>1, <2>1 DEF FreeAndAscending, Numbers
    <3>2. e - 1 \in Numbers /\ e - 1 \in WholeEntries /\ e \in Nat
      BY <1>1 DEF Numbers, WholeEntries
    <3>3. /\ u \in Seq(Numbers) /\ Len(u) = Len(w) + 1 /\ u[Len(w) + 1] = e - 1
          /\ \A i \in 1 .. Len(w) : u[i] = w[i]
      BY <3>1, <3>2
    <3> HIDE DEF u
    <3>4. \A i \in 1 .. Len(u) : \/ i \in 1 .. Len(w) /\ u[i] = w[i]
                                 \/ i = Len(w) + 1 /\ u[i] = e - 1
      BY <3>1, <3>3
    <3>5. \A i \in 1 .. Len(u) : u[i] < e /\ u[i] \in WholeEntries /\ nextCluster(fat, u[i]) = 0
      BY <2>5, <3>1, <3>2, <3>4
    <3>6. ASSUME NEW i \in 1 .. Len(u), NEW j \in 1 .. Len(u), i < j PROVE u[i] < u[j]
      <4>1. i \in 1 .. Len(w) /\ u[i] = w[i]  BY <3>1, <3>3, <3>4, <3>6
      <4>2. CASE j \in 1 .. Len(w)  BY <3>1, <3>3, <3>6, <4>1, <4>2
      <4>3. CASE j = Len(w) + 1  BY <3>1, <3>3, <4>1, <4>3
      <4> QED  BY <3>4, <4>2, <4>3
    <3>7. FreeAndAscending(u, e)  BY <3>1, <3>2, <3>3, <3>5, <3>6 DEF FreeAndAscending
    <3>8. after[e] = u  BY <2>5 DEF u
    <3> QED  BY <1>1, <3>7, <3>8
  <2>6. after[e] = Taken(count, behind, e, w)
    <3>1. e \in 1 .. LastEntry  BY <1>1
    <3> QED  BY <1>2, <3>1 DEF w
  <2> QED  BY <2>2, <2>3, <2>4, <2>5, <2>6 DEF Taken
<1>5. \A e \in 0 .. W : e \in S
  <2> HIDE DEF S, W
  <2> QED  BY <1>1, <1>3, <1>4, EveryTurn, Zenon
<1> QED  BY <1>1, <1>5 DEF after

-----------------------------------------------------------------------------
\* The steps.

LEMMA Facts ==
  ASSUME FInv
  PROVE  /\ fat \in FATs /\ dir \in [Slots -> DirEntry] /\ DOMAIN data = Clusters
         /\ complete \in [Slots -> 0 .. MaxChunks] /\ cut \in BOOLEAN /\ spilled \in BOOLEAN
         /\ \A s \in Slots : /\ s # 0 /\ dir[s].firstClusterLow \in Clusters
                             /\ complete[s] \in Nat
         /\ MaxChunks \in Nat
<1>1. MaxChunks \in Nat  BY FATAssumption
<1>2. \A s \in Slots : s # 0  BY DEF Slots
<1>3. /\ fat \in FATs /\ dir \in [Slots -> DirEntry] /\ DOMAIN data = Clusters
      /\ complete \in [Slots -> 0 .. MaxChunks]
  BY DEF FInv, FATTypeOK, FATs
<1>4. cut \in BOOLEAN /\ spilled \in BOOLEAN  BY DEF FInv, FATTypeOK
<1>5. \A s \in Slots : dir[s].firstClusterLow \in Clusters  BY <1>3 DEF DirEntry
<1>6. \A s \in Slots : complete[s] \in Nat
  <2>1. 0 .. MaxChunks \subseteq Nat  BY <1>1
  <2> QED  BY <1>3, <2>1
<1> QED  BY <1>1, <1>2, <1>3, <1>4, <1>5, <1>6

\* The kinds an operation can have, each with its fields.
LEMMA Kinds ==
  ASSUME FInv
  PROVE  /\ op = Idle => op.kind = "idle"
         /\ op.kind = "idle" => op = Idle
         /\ op.kind \in {"read", "eof"} => IsRead(op)
         /\ op.kind \in {"dir", "fat", "data"} => IsWrite(op)
BY DEF FInv, Idle, IsRead, IsWrite, WriteOps

LEMMA ClustersOfSlot ==
  ASSUME FInv, NEW s \in Slots
  PROVE  Goes(fat, clustersOf(s), dir[s].firstClusterLow, ClusterCount)
BY Facts, ChainGoes DEF clustersOf

\* A step that only changes the operation.
LEMMA DiskStays ==
  ASSUME UNCHANGED <<fat, dir, data, complete>>
  PROVE  /\ OnDisk => OnDisk'
         /\ \A c : HasFile(c) => HasFile(c)'
BY DEF OnDisk, Intact, HasFile, clustersOf

LEMMA FInitHolds == FATInit => FInv
<1> SUFFICES ASSUME FATInit PROVE FInv
  OBVIOUS
<1>1. PICK d \in Disks : fat = d.fat /\ dir = d.dir /\ data = d.data
  BY DEF FATInit
<1>2. /\ op = Idle /\ complete = [s \in Slots |-> 0] /\ cut = FALSE /\ spilled = FALSE
  BY DEF FATInit
<1>3. /\ fat \in FATs /\ dir \in [Slots -> DirEntry] /\ DOMAIN data = Clusters
  BY <1>1, DisksAssumption DEF FATs, DirEntry
<1>4. FATTypeOK
  <2>1. MaxChunks \in Nat  BY FATAssumption
  <2>2. complete \in [Slots -> 0 .. MaxChunks]
    <3>1. 0 \in 0 .. MaxChunks  BY <2>1
    <3> QED  BY <1>2, <3>1
  <2>3. \A s \in Slots : /\ dir[s].name \in Names \cup {"", "?"}
                         /\ dir[s].firstClusterLow \in Clusters
    BY <1>3 DEF DirEntry
  <2>4. op.kind = "idle" /\ {cut, spilled} \subseteq BOOLEAN  BY <1>2 DEF Idle
  <2> QED  BY <1>3, <2>2, <2>3, <2>4 DEF FATTypeOK, FATs
<1>5. OnDisk
  BY <1>1, <1>2, DisksAssumption DEF OnDisk
<1>6. Kept(op)
  <2> SUFFICES ASSUME NEW c \in WholeEntries \ {0, 1}, nextCluster(fat, c) # 0
               PROVE  HasFile(c)
    BY DEF Kept
  <2>1. \E s \in Slots : dir[s] # Empty /\ c \in Range(chain(fat, dir[s].firstClusterLow))
    BY <1>1, DisksAssumption
  <2> QED  BY <2>1 DEF HasFile, clustersOf
<1> QED  BY <1>2, <1>3, <1>4, <1>5, <1>6 DEF FInv, InOrder, Idle

\* A step that leaves the operation idle or reading, and the disk alone.
LEMMA ReadStep ==
  ASSUME FInv, UNCHANGED <<disk, complete, cut, spilled>>,
         op = Idle \/ IsRead(op), op' = Idle \/ IsRead(op'),
         OnDisk /\ IsRead(op') /\ (IsRead(op) => ReadingFile(op)) => ReadingFile(op')
  PROVE  FInv'
<1>1. UNCHANGED <<fat, dir, data, complete, cut, spilled>>  BY DEF disk
<1>2. FATTypeOK'
  <2>1. op'.kind \in {"idle", "read", "eof"}  BY DEF Idle, IsRead
  <2>2. op'.kind \in {"read", "eof"} => op'.cluster \in Clusters \cup {Outside}
    BY DEF Idle, IsRead
  <2> QED  BY <1>1, <2>1, <2>2 DEF FInv, FATTypeOK
<1>3. ASSUME ~spilled PROVE InOrder'
  <2>1. OnDisk /\ OnDisk'  BY <1>1, <1>3, DiskStays DEF FInv, InOrder
  <2>2. op.kind \in {"idle", "read", "eof"} /\ op'.kind \in {"idle", "read", "eof"}
    BY DEF Idle, IsRead
  <2>3. IsRead(op') => ReadingFile(op')
    <3>1. IsRead(op) => ReadingFile(op)  BY <1>3 DEF FInv, InOrder, IsRead
    <3> QED  BY <2>1, <3>1
  <2>4. ReadingFile(op') => ReadingFile(op)'
    BY <1>1 DEF ReadingFile, clustersOf
  <2>5. ~cut' => Kept(op)'
    <3>1. ~cut => Kept(op)  BY <1>3 DEF FInv, InOrder
    <3>2. \A c : HasFile(c) => HasFile(c)'  BY <1>1, DiskStays
    <3> QED  BY <1>1, <2>2, <3>1, <3>2 DEF Kept, Takes
  <2>6. op'.kind \in {"read", "eof"} => IsRead(op')  BY DEF Idle
  <2> QED  BY <2>1, <2>2, <2>3, <2>4, <2>5, <2>6 DEF InOrder
<1> QED  BY <1>1, <1>2, <1>3 DEF FInv

LEMMA SlotOfIs ==
  ASSUME NEW name
  PROVE  slotOf(name) \in Slots \cup {0}
<1> DEFINE found == {s \in Slots : dir[s].name = name /\ dir[s].attributes = 0}
<1>1. slotOf(name) = IF found = {} THEN 0 ELSE Min(found)  BY DEF slotOf
<1>2. found \in SUBSET Nat /\ found \subseteq Slots  BY DEF Slots
<1> HIDE DEF found
<1>3. found # {} => Min(found) \in found  BY <1>2, LeastElement DEF Min
<1> QED  BY <1>1, <1>2, <1>3

\* The first cluster of a complete file is the one in the directory.
LEMMA IntactStarts ==
  ASSUME FInv, OnDisk, NEW s \in Slots, complete[s] # 0
  PROVE  /\ Len(clustersOf(s)) = complete[s] /\ complete[s] >= 1 /\ complete[s] \in Nat
         /\ clustersOf(s)[1] = dir[s].firstClusterLow
         /\ clustersOf(s) \in Seq(Clusters)
         /\ \A i \in 1 .. Len(clustersOf(s)) - 1 :
              /\ clustersOf(s)[i + 1] = nextCluster(fat, clustersOf(s)[i])
              /\ ~Stops(clustersOf(s)[i + 1])
<1>1. Goes(fat, clustersOf(s), dir[s].firstClusterLow, ClusterCount)  BY ClustersOfSlot
<1>2. Len(clustersOf(s)) = complete[s]  BY DEF OnDisk, Intact
<1>3. complete[s] \in Nat  BY Facts
<1> QED  BY <1>1, <1>2, <1>3 DEF Goes, Follows

LEMMA OpenStep ==
  ASSUME FInv, Open
  PROVE  FInv'
<1>1. PICK name \in Names, junk \in Clusters \cup {Outside}, eof \in {"read", "eof"} :
        op' = [kind |-> IF slotOf(name) = 0 THEN eof ELSE "read", slot |-> slotOf(name),
               got |-> <<>>,
               cluster |-> IF slotOf(name) = 0 THEN junk ELSE dir[slotOf(name)].firstClusterLow]
  BY DEF Open
<1> DEFINE s == slotOf(name)
<1>2. s \in Slots \cup {0}  BY SlotOfIs
<1> HIDE DEF s
<1>3. /\ op'.kind = (IF s = 0 THEN eof ELSE "read") /\ op'.slot = s /\ op'.got = <<>>
      /\ op'.cluster = IF s = 0 THEN junk ELSE dir[s].firstClusterLow
      /\ op' = [kind |-> op'.kind, slot |-> op'.slot, got |-> op'.got, cluster |-> op'.cluster]
  BY <1>1 DEF s
<1>4. IsRead(op')
  <2>1. op'.cluster \in Clusters \cup {Outside}  BY <1>1, <1>2, <1>3, Facts
  <2> QED  BY <1>2, <1>3, <2>1 DEF IsRead
<1>5. ASSUME OnDisk PROVE ReadingFile(op')
  <2> SUFFICES ASSUME s # 0, complete[s] # 0
               PROVE  \E m \in 0 .. complete[s] :
                        /\ op'.got = Chunks(s, m)
                        /\ IF op'.kind = "eof" THEN m = complete[s]
                           ELSE m < complete[s] /\ op'.cluster = clustersOf(s)[m + 1]
    BY <1>3 DEF ReadingFile
  <2>1. /\ complete[s] >= 1 /\ complete[s] \in Nat
        /\ clustersOf(s)[1] = dir[s].firstClusterLow
    BY <1>2, <1>5, IntactStarts
  <2>2. <<>> = Chunks(s, 0)  BY DEF Chunks
  <2>3. op'.kind = "read" /\ op'.cluster = clustersOf(s)[0 + 1]  BY <1>3, <2>1
  <2>4. 0 \in 0 .. complete[s] /\ 0 < complete[s]  BY <2>1
  <2> QED  BY <1>3, <2>2, <2>3, <2>4
<1>6. UNCHANGED <<disk, complete, cut, spilled>> /\ op = Idle  BY DEF Open
<1> QED  BY <1>4, <1>5, <1>6, ReadStep

LEMMA ChunksGrow ==
  ASSUME NEW s, NEW m \in Nat
  PROVE  Append(Chunks(s, m), <<s, m + 1>>) = Chunks(s, m + 1)
<1> DEFINE A == {<<s, i>> : i \in 1 .. m + 1}
<1>1. Chunks(s, m) \in Seq(A) /\ Len(Chunks(s, m)) = m  BY DEF Chunks
<1>2. <<s, m + 1>> \in A  OBVIOUS
<1>3. \A i \in 1 .. m : Chunks(s, m)[i] = <<s, i>>  BY DEF Chunks
<1>4. /\ Chunks(s, m + 1) \in Seq(A) /\ Len(Chunks(s, m + 1)) = m + 1
      /\ \A i \in 1 .. m + 1 : Chunks(s, m + 1)[i] = <<s, i>>
  BY DEF Chunks
<1> DEFINE p == Chunks(s, m)
           q == Chunks(s, m + 1)
           v == <<s, m + 1>>
<1>5. /\ p \in Seq(A) /\ Len(p) = m /\ q \in Seq(A) /\ Len(q) = m + 1 /\ v \in A
      /\ \A i \in 1 .. m : p[i] = q[i]
      /\ q[m + 1] = v
  <2>1. \A i \in 1 .. m : i \in 1 .. m + 1  OBVIOUS
  <2>2. m + 1 \in 1 .. m + 1  OBVIOUS
  <2> QED  BY <1>1, <1>2, <1>3, <1>4, <2>1, <2>2
<1> HIDE DEF A, p, q, v
<1> DEFINE r == Append(p, v)
<1>6. /\ r \in Seq(A) /\ Len(r) = m + 1 /\ r[m + 1] = v
      /\ \A i \in 1 .. m : r[i] = p[i]
  BY <1>5
<1> HIDE DEF r
<1>7. \A i \in 1 .. m + 1 : r[i] = q[i]
  <2> TAKE i \in 1 .. m + 1
  <2>1. CASE i = m + 1  BY <1>5, <1>6, <2>1
  <2>2. CASE i \in 1 .. m  BY <1>5, <1>6, <2>2
  <2> QED  BY <2>1, <2>2
<1>8. r = q  BY <1>5, <1>6, <1>7
<1> QED  BY <1>8 DEF p, q, v, r

LEMMA ReadStepHolds ==
  ASSUME FInv, Read
  PROVE  FInv'
<1>1. PICK v \in entries : op' = ReadOn(v)
  BY DEF Read
<1> DEFINE got == gotNow
           there == IF v \in Clusters THEN v ELSE Outside
<1>2. /\ op.kind = "read"
      /\ op' = IF ends(v) THEN [op EXCEPT !.kind = "eof", !.got = got]
               ELSE [op EXCEPT !.cluster = there, !.got = got]
      /\ UNCHANGED <<disk, complete, cut, spilled>>
  BY <1>1 DEF Read, ReadOn
<1>3. IsRead(op)  BY <1>2, Kinds
<1>4. there \in Clusters \cup {Outside}  OBVIOUS
<1> HIDE DEF got, there
<1>6. /\ op'.kind = (IF ends(v) THEN "eof" ELSE "read") /\ op'.slot = op.slot /\ op'.got = got
      /\ op'.cluster = (IF ends(v) THEN op.cluster ELSE there)
      /\ op' = [kind |-> op'.kind, slot |-> op'.slot, got |-> op'.got, cluster |-> op'.cluster]
  BY <1>2, <1>3 DEF IsRead
<1>7. IsRead(op')  BY <1>3, <1>4, <1>6 DEF IsRead
<1>5. ASSUME OnDisk, ReadingFile(op) PROVE ReadingFile(op')
  <2> DEFINE s == op.slot
             p == clustersOf(s)
             n == complete[s]
  <2> SUFFICES ASSUME s # 0, n # 0
               PROVE  \E m \in 0 .. n :
                        /\ op'.got = Chunks(s, m)
                        /\ IF op'.kind = "eof" THEN m = n
                           ELSE m < n /\ op'.cluster = p[m + 1]
    BY <1>6 DEF ReadingFile
  <2>1. s \in Slots  BY <1>3 DEF IsRead
  <2>2. PICK m \in 0 .. n : op.got = Chunks(s, m) /\ m < n /\ op.cluster = p[m + 1]
    BY <1>2, <1>5 DEF ReadingFile
  <2>3. /\ Len(p) = n /\ n >= 1 /\ n \in Nat
        /\ \A i \in 1 .. Len(p) - 1 : p[i + 1] = nextCluster(fat, p[i]) /\ ~Stops(p[i + 1])
    BY <1>5, <2>1, IntactStarts
  <2>4. Intact(s)  BY <1>5, <2>1 DEF OnDisk
  <2>10. n <= MaxChunks /\ MaxChunks \in Nat
    <3>1. complete \in [Slots -> 0 .. MaxChunks] /\ MaxChunks \in Nat  BY Facts, FATAssumption
    <3> QED  BY <2>1, <3>1
  <2>11. p \in Seq(Clusters)  BY <1>5, <2>1, IntactStarts
  <2>5. /\ \A i \in 1 .. n : data[p[i]] = <<s, i>>
        /\ nextCluster(fat, p[n]) = EOF_MARK
    BY <2>3, <2>4 DEF Intact
  <2> HIDE DEF s, p, n
  <2>6. m \in Nat /\ m + 1 \in 1 .. n /\ m + 1 \in 0 .. n  BY <2>2, <2>3
  <2>12. op.cluster \in Clusters  BY <2>2, <2>3, <2>6, <2>11
  <2>13. v = nextCluster(fat, op.cluster)  BY <1>1, <2>12 DEF entries
  <2>7. op'.got = Chunks(s, m + 1)
    <3>1. data[op.cluster] = <<s, m + 1>>  BY <2>2, <2>5, <2>6
    <3>2. Len(op.got) = m /\ ~(m > MaxChunks)  BY <2>2, <2>3, <2>6, <2>10 DEF Chunks
    <3>3. op.slot # 0  BY DEF s
    <3>4. got = Append(op.got, data[op.cluster])  BY <2>12, <3>2, <3>3 DEF got, gotNow
    <3>5. got = Append(Chunks(s, m), <<s, m + 1>>)  BY <2>2, <3>1, <3>4
    <3> QED  BY <1>6, <2>6, <3>5, ChunksGrow
  <2>8. CASE m + 1 = n
    <3>1. v = EOF_MARK  BY <2>2, <2>5, <2>8, <2>13
    <3>2. ends(v)  BY <3>1 DEF ends, EOF_MARK, LastMark
    <3> QED  BY <1>6, <2>6, <2>7, <2>8, <3>2
  <2>9. CASE m + 1 # n
    <3>1. m + 1 \in 1 .. Len(p) - 1 /\ m + 1 < n  BY <2>3, <2>6, <2>9
    <3>2. v = p[m + 1 + 1] /\ ~Stops(v)  BY <2>2, <2>3, <2>13, <3>1
    <3>3. ~ends(v)  BY <3>2 DEF Stops
    <3>4. v \in Clusters  BY <2>11, <3>1, <3>2
    <3> QED  BY <1>6, <2>6, <2>7, <3>1, <3>2, <3>3, <3>4 DEF there
  <2> QED  BY <2>8, <2>9
<1> QED  BY <1>2, <1>3, <1>7, <1>5, ReadStep

LEMMA CloseStep ==
  ASSUME FInv, Close
  PROVE  FInv'
<1>1. op.kind = "eof" /\ op' = Idle /\ UNCHANGED <<disk, complete, cut, spilled>>
  BY DEF Close
<1>2. IsRead(op) /\ ~IsRead(op')  BY <1>1, Kinds DEF IsRead, Idle
<1> QED  BY <1>1, <1>2, ReadStep

LEMMA PowerFailsStep ==
  ASSUME FInv, PowerFails
  PROVE  FInv'
<1>1. /\ UNCHANGED <<fat, dir, data, complete, spilled>>
      /\ op' = Idle /\ cut' = (cut \/ op.kind \in {"dir", "fat", "data"})
  BY DEF PowerFails, disk
<1>2. FATTypeOK'  BY <1>1 DEF FInv, FATTypeOK, Idle
<1>3. ASSUME ~spilled PROVE InOrder'
  <2>1. OnDisk'  BY <1>1, <1>3, DiskStays DEF FInv, InOrder
  <2>2. ASSUME ~cut' PROVE Kept(op)'
    <3>1. Kept(op) /\ op.kind \notin {"fat", "data"}
      BY <1>1, <1>3, <2>2 DEF FInv, InOrder
    <3>2. \A c : HasFile(c) => HasFile(c)'  BY <1>1, DiskStays
    <3> QED  BY <1>1, <3>1, <3>2 DEF Kept, Takes
  <2> QED  BY <1>1, <2>1, <2>2 DEF InOrder, Idle
<1> QED  BY <1>1, <1>2, <1>3 DEF FInv

LEMMA WriteStep ==
  ASSUME FInv, Write
  PROVE  FInv'
<1>1. PICK name \in Names, n \in 1 .. MaxChunks, behind \in {0, 1} :
        LET sectors == findSectors(n, behind)
        IN  /\ sectors # <<>>
            /\ \E s \in firstEmpty :
                 op' = [kind |-> "dir", name |-> name, slot |-> s, sectors |-> sectors,
                        done |-> 0]
            /\ spilled' = (spilled \/ sectors # taken(n, behind)[WholePerSector])
  BY DEF Write
<1> DEFINE q == findSectors(n, behind)
<1>2. PICK s \in firstEmpty :
        op' = [kind |-> "dir", name |-> name, slot |-> s, sectors |-> q, done |-> 0]
  BY <1>1
<1>3. /\ q # <<>> /\ spilled' = (spilled \/ q # taken(n, behind)[WholePerSector])
      /\ op = Idle /\ UNCHANGED <<fat, dir, data, complete, cut>>
  BY <1>1 DEF Write, disk
<1>4. s \in Slots /\ dir[s] = Empty  BY DEF firstEmpty
<1>5. q \in Seq(Numbers) /\ Len(q) \in 1 .. MaxChunks
  <2>1. LastEntry \in 0 .. LastEntry  BY Sizes DEF LastEntry
  <2>2. q = taken(n, behind)[LastEntry]  BY DEF findSectors, LastEntry
  <2>3. q \in Seq(Numbers) /\ Len(q) <= MaxChunks  BY <2>1, <2>2, TakenAreNumbers
  <2> HIDE DEF q
  <2>4. Len(q) \in Nat /\ Len(q) # 0 /\ MaxChunks \in Nat  BY <1>3, <2>3, Facts
  <2> QED  BY <2>3, <2>4
<1> HIDE DEF q
<1>6. /\ op'.kind = "dir" /\ op'.name = name /\ op'.slot = s /\ op'.sectors = q /\ op'.done = 0
      /\ op' = [kind |-> op'.kind, name |-> op'.name, slot |-> op'.slot,
                sectors |-> op'.sectors, done |-> op'.done]
  BY <1>2
<1>7. IsWrite(op')
  <2>1. op'.done < Len(q) /\ op'.done \in Nat  BY <1>5, <1>6
  <2>2. q \in Seq(0 .. WholePerSector)  BY <1>5 DEF Numbers
  <2> QED  BY <1>4, <1>5, <1>6, <2>1, <2>2 DEF IsWrite, WriteOps
<1>8. FATTypeOK'  BY <1>3, <1>6 DEF FInv, FATTypeOK
<1>9. ASSUME ~spilled' PROVE InOrder'
  <2>1. OnDisk /\ OnDisk' /\ (~cut => Kept(op))
    BY <1>3, <1>9, DiskStays DEF FInv, InOrder
  <2>2. q = taken(n, behind)[WholePerSector]  BY <1>3, <1>9
  <2>3. FreeAndAscending(q, WholePerSector)  BY <2>2, TakenAreFree
  <2>4. /\ Len(q) <= WholePerSector
        /\ \A i \in 1 .. Len(q) : q[i] \in WholeEntries /\ nextCluster(fat, q[i]) = 0
        /\ \A i, j \in 1 .. Len(q) : i < j => q[i] < q[j]
    BY <2>3 DEF FreeAndAscending
  <2>5. Ascends(q)
    <3>1. \A i \in 1 .. Len(q) : q[i] \notin {0, 1}  BY <2>1, <2>4 DEF OnDisk
    <3> QED  BY <2>4, <3>1 DEF Ascends
  <2>6. Linking(op)' /\ Filling(op)'
    BY <1>3, <1>6, <2>4 DEF Linking, Linked, Filling
  <2>7. Alone(op)'
    <3> SUFFICES ASSUME NEW t \in Slots, complete[t] # 0,
                        NEW k \in 1 .. Len(clustersOf(t)), NEW i \in 1 .. Len(q)
                 PROVE  clustersOf(t)[k] # q[i]
      BY <1>3, <1>6 DEF Alone, clustersOf
    <3>1. nextCluster(fat, clustersOf(t)[k]) # 0  BY <2>1 DEF OnDisk, Intact
    <3> QED  BY <2>4, <3>1
  <2>8. complete[s] = 0  BY <1>4, <2>1 DEF OnDisk
  <2>9. Writing(op)'
    BY <1>3, <1>4, <1>6, <2>5, <2>6, <2>7, <2>8 DEF Writing
  <2>10. ~cut' => Kept(op)'
    <3>1. \A c : HasFile(c) => HasFile(c)'  BY <1>3, DiskStays
    <3>2. op.kind = "idle"  BY <1>3 DEF Idle
    <3> QED  BY <1>3, <2>1, <3>1, <3>2 DEF Kept, Takes
  <2> QED  BY <1>6, <2>1, <2>9, <2>10 DEF InOrder
<1> QED  BY <1>3, <1>7, <1>8, <1>9 DEF FInv

\* The sector op is at.
LEMMA AtSector ==
  ASSUME IsWrite(op)
  PROVE  /\ op.done \in Nat /\ op.done + 1 \in 1 .. Len(op.sectors) /\ Len(op.sectors) \in Nat
         /\ op.kind \in {"dir", "fat", "data"} /\ op.name \in Names /\ op.slot \in Slots
         /\ op.sectors \in Seq(Numbers) /\ op.sectors \in Seq(Clusters)
         /\ Len(op.sectors) <= MaxChunks
         /\ \A i \in 1 .. Len(op.sectors) : op.sectors[i] \in Clusters /\ op.sectors[i] \in Numbers
<1>1. /\ op.done \in Nat /\ op.kind \in {"dir", "fat", "data"} /\ op.name \in Names
      /\ op.slot \in Slots /\ op.sectors \in Seq(Numbers)
  BY DEF IsWrite, WriteOps, Numbers
<1>2. op.done < Len(op.sectors) /\ Len(op.sectors) \in 1 .. MaxChunks  BY DEF IsWrite
<1>3. Len(op.sectors) \in Nat  BY <1>1
<1>6. MaxChunks \in Nat  BY FATAssumption
<1>7. /\ op.done + 1 \in 1 .. Len(op.sectors) /\ Len(op.sectors) <= MaxChunks
  BY <1>1, <1>2, <1>3, <1>6
<1>4. Numbers \subseteq Clusters
  BY Sizes DEF Numbers, Clusters
<1>5. op.sectors \in Seq(Clusters)  BY <1>1, <1>4
<1> QED  BY <1>1, <1>3, <1>4, <1>5, <1>7

LEMMA ThenGoesOn ==
  ASSUME IsWrite(op), op' = Then("data"), op.kind \in {"fat", "data"}
  PROVE  /\ IsWrite(op') /\ op'.name = op.name /\ op'.slot = op.slot
         /\ op'.sectors = op.sectors
         /\ IF op.done + 1 = Len(op.sectors) THEN op'.kind = "data" /\ op'.done = 0
            ELSE op'.kind = op.kind /\ op'.done = op.done + 1
<1>1. op = [kind |-> op.kind, name |-> op.name, slot |-> op.slot, sectors |-> op.sectors,
            done |-> op.done]
  BY DEF IsWrite, WriteOps
<1>2. /\ op'.name = op.name /\ op'.slot = op.slot /\ op'.sectors = op.sectors
      /\ IF op.done + 1 = Len(op.sectors) THEN op'.kind = "data" /\ op'.done = 0
         ELSE op'.kind = op.kind /\ op'.done = op.done + 1
      /\ op' = [kind |-> op'.kind, name |-> op'.name, slot |-> op'.slot,
                sectors |-> op'.sectors, done |-> op'.done]
  BY <1>1 DEF Then
<1>3. op'.done \in Nat /\ op'.done < Len(op.sectors) /\ op'.kind \in {"fat", "data"}
  BY <1>2, AtSector
<1>4. Len(op.sectors) \in 1 .. MaxChunks  BY DEF IsWrite
<1>5. op.name \in Names /\ op.slot \in Slots /\ op.sectors \in Seq(0 .. WholePerSector)
  BY DEF IsWrite, WriteOps
<1>6. op' \in WriteOps  BY <1>2, <1>3, <1>5 DEF WriteOps
<1> QED  BY <1>2, <1>3, <1>4, <1>6 DEF IsWrite

LEMMA WriteDirStep ==
  ASSUME FInv, WriteDir
  PROVE  FInv'
<1> DEFINE s == op.slot
           q == op.sectors
           new == [name |-> op.name, attributes |-> 0, firstClusterLow |-> q[1]]
<1>1. /\ op.kind = "dir" /\ dir' = [dir EXCEPT ![s] = new]
      /\ op' = [op EXCEPT !.kind = "fat"]
      /\ UNCHANGED <<fat, data, complete, cut, spilled>>
  BY DEF WriteDir
<1>2. IsWrite(op)  BY <1>1, Kinds
<1>3. /\ s \in Slots /\ op.name \in Names /\ op.done \in Nat /\ 1 \in 1 .. Len(q)
      /\ q[1] \in Clusters
  BY <1>2, AtSector
<1>4. new \in DirEntry  BY <1>3 DEF DirEntry
<1>5. /\ dir' \in [Slots -> DirEntry] /\ dir'[s] = new
      /\ \A t \in Slots : t # s => dir'[t] = dir[t]
  BY <1>1, <1>3, <1>4, Facts
<1>6. /\ op'.kind = "fat" /\ op'.name = op.name /\ op'.slot = s /\ op'.sectors = q
      /\ op'.done = op.done /\ IsWrite(op')
  BY <1>1, <1>2 DEF IsWrite, WriteOps
<1> HIDE DEF s, q
<1>7. FATTypeOK'
  <2>1. \A t \in Slots : /\ dir'[t].name \in Names \cup {"", "?"}
                         /\ dir'[t].firstClusterLow \in Clusters
    BY <1>5 DEF DirEntry
  <2> QED  BY <1>1, <1>6, <2>1 DEF FInv, FATTypeOK
<1>8. ASSUME ~spilled PROVE InOrder'
  <2>1. OnDisk /\ Writing(op) /\ (~cut => Kept(op))  BY <1>1, <1>8 DEF FInv, InOrder
  <2>2. /\ Ascends(q) /\ complete[s] = 0 /\ dir[s] = Empty /\ op.done = 0
        /\ Linking(op) /\ Alone(op)
    BY <1>1, <2>1 DEF Writing, s, q
  <2>3. \A t \in Slots : t # s => clustersOf(t)' = clustersOf(t)
    BY <1>1, <1>5 DEF clustersOf
  <2>4. new # Empty
    <3>1. new.name = op.name /\ Empty.name = "" /\ "" \notin Names
      BY FATAssumption DEF Empty
    <3> QED  BY <1>3, <3>1
  <2>5. OnDisk'
    <3>1. \A t \in Slots : complete[t] # 0 => Intact(t)'
      BY <1>1, <2>1, <2>2, <2>3 DEF OnDisk, Intact
    <3>2. \A t \in Slots : dir'[t] = Empty => complete[t] = 0
      BY <1>5, <2>1, <2>2, <2>4 DEF OnDisk
    <3> QED  BY <1>1, <2>1, <3>1, <3>2 DEF OnDisk
  <2>6. Linking(op)' /\ Filling(op)'
    <3>1. op.kind # "data" /\ op'.kind # "data"  BY <1>1, <1>6
    <3>2. \A i \in 1 .. Len(q) : ~Linked(op, i) /\ ~Linked(op', i)
      BY <1>1, <1>6, <2>2 DEF Linked
    <3>3. Linking(op)'
      BY <1>1, <1>6, <2>2, <3>2 DEF Linking, q
    <3> QED  BY <3>1, <3>3 DEF Filling
  <2>7. Alone(op)'
    <3> SUFFICES ASSUME NEW t \in Slots, complete[t] # 0
                 PROVE  \A k \in 1 .. Len(clustersOf(t)'), i \in 1 .. Len(q) :
                          clustersOf(t)'[k] # q[i]
      BY <1>1, <1>6 DEF Alone
    <3>1. clustersOf(t)' = clustersOf(t)  BY <2>2, <2>3
    <3> QED  BY <2>2, <3>1 DEF Alone, q
  <2>8. Writing(op)'
    <3>1. Ascends(op'.sectors) /\ complete'[op'.slot] = 0
      BY <1>1, <1>6, <2>2
    <3>2. dir'[op'.slot] = [name |-> op'.name, attributes |-> 0, firstClusterLow |-> op'.sectors[1]]
      BY <1>5, <1>6 DEF q
    <3> QED  BY <1>6, <2>6, <2>7, <3>1, <3>2 DEF Writing
  <2>9. ~cut' => Kept(op)'
    <3>1. \A c : HasFile(c) => HasFile(c)'
      BY <1>5, <2>2, <2>3 DEF HasFile
    <3> QED  BY <1>1, <2>1, <3>1 DEF Kept, Takes
  <2> QED  BY <1>6, <2>5, <2>8, <2>9 DEF InOrder
<1> QED  BY <1>1, <1>5, <1>6, <1>7, <1>8 DEF FInv

LEMMA WriteFATStep ==
  ASSUME FInv, WriteFAT
  PROVE  FInv'
<1> DEFINE q == op.sectors
           i == op.done + 1
           c == q[i]
           v == linkTo(i)
<1>1. /\ op.kind = "fat" /\ fat' = link(fat, c, v) /\ op' = Then("data")
      /\ UNCHANGED <<dir, data, complete, cut, spilled>>
  BY DEF WriteFAT
<1>2. IsWrite(op)  BY <1>1, Kinds
<1>3. /\ i \in 1 .. Len(q) /\ Len(q) \in Nat /\ op.done \in Nat /\ c \in Clusters
      /\ q \in Seq(Clusters) /\ op.slot \in Slots
      /\ \A k \in 1 .. Len(q) : q[k] \in Clusters /\ q[k] \in Numbers
  BY <1>2, AtSector
<1>4. /\ IsWrite(op') /\ op'.name = op.name /\ op'.slot = op.slot /\ op'.sectors = q
      /\ IF i = Len(q) THEN op'.kind = "data" /\ op'.done = 0
         ELSE op'.kind = "fat" /\ op'.done = i
  BY <1>1, <1>2, ThenGoesOn
<1>5. v = target(q, i)  BY DEF linkTo, target
<1> HIDE DEF q, v
<1>6. v \in Nat /\ v <= EOF_MARK
  <2>1. CASE i = Len(q)  BY <1>5, <2>1 DEF target, EOF_MARK
  <2>2. CASE i # Len(q)
    <3>1. i + 1 \in 1 .. Len(q)  BY <1>3, <2>2
    <3>2. q[i + 1] \in Numbers  BY <1>3, <3>1
    <3>3. WholePerSector <= LastMark /\ WholePerSector \in Nat
      BY FATAssumption, Sizes DEF WholePerSector
    <3>4. q[i + 1] \in Nat /\ q[i + 1] <= EOF_MARK
      BY <3>2, <3>3 DEF Numbers, LastMark, EOF_MARK
    <3> QED  BY <1>5, <2>2, <3>4 DEF target
  <2> QED  BY <2>1, <2>2
<1> HIDE DEF i
<1>7. fat \in FATs /\ complete \in [Slots -> 0 .. MaxChunks]  BY Facts
<1> HIDE DEF c
<1>8. /\ fat' \in FATs
      /\ \A d \in Clusters : d # c => nextCluster(fat', d) = nextCluster(fat, d)
      /\ c \in WholeEntries /\ nextCluster(fat, c) = 0 => nextCluster(fat', c) = v
  BY <1>1, <1>3, <1>6, <1>7, LinkDoes
<1>9. FATTypeOK'
  <2>1. op'.kind \in {"fat", "data"}  BY <1>4
  <2> QED  BY <1>1, <1>8, <2>1 DEF FInv, FATTypeOK, FATs
<1>10. ASSUME ~spilled PROVE InOrder'
  <2>1. OnDisk /\ Writing(op) /\ (~cut => Kept(op))  BY <1>1, <1>10 DEF FInv, InOrder
  <2>2. /\ Ascends(q) /\ complete[op.slot] = 0 /\ Linking(op) /\ Alone(op)
        /\ dir[op.slot] = [name |-> op.name, attributes |-> 0, firstClusterLow |-> q[1]]
    BY <1>1, <2>1 DEF Writing, q
  <2>3. \A k \in 1 .. Len(q) : nextCluster(fat, q[k]) = IF k <= op.done THEN target(q, k) ELSE 0
    BY <1>1, <2>2 DEF Linking, Linked, q
  <2>4. c \in WholeEntries \ {0, 1} /\ nextCluster(fat, c) = 0
    <3>1. ~(i <= op.done)  BY <1>3 DEF i
    <3> QED  BY <1>3, <2>2, <2>3, <3>1 DEF Ascends, c
  <2>5. nextCluster(fat', c) = v  BY <1>8, <2>4
  <2>6. ASSUME NEW first \in Clusters
        PROVE  /\ Range(chain(fat, first)) \subseteq Range(chain(fat', first))
               /\ (\A k \in 1 .. Len(chain(fat, first)) : nextCluster(fat, chain(fat, first)[k]) # 0)
                    => chain(fat', first) = chain(fat, first)
    BY <1>1, <1>3, <1>6, <1>7, <2>4, LinkKeepsChains
  <2>7. ASSUME NEW t \in Slots, complete[t] # 0
        PROVE  clustersOf(t)' = clustersOf(t)
    <3>1. \A k \in 1 .. Len(clustersOf(t)) : nextCluster(fat, clustersOf(t)[k]) # 0
      BY <2>1, <2>7 DEF OnDisk, Intact
    <3>2. dir[t].firstClusterLow \in Clusters  BY Facts
    <3> QED  BY <1>1, <2>6, <3>1, <3>2 DEF clustersOf
  <2>8. ASSUME NEW t \in Slots, complete[t] # 0 PROVE Intact(t)'
    <3> DEFINE p == clustersOf(t)
    <3>1. /\ Len(p) = complete[t] /\ nextCluster(fat, p[Len(p)]) = EOF_MARK
          /\ \A k \in 1 .. Len(p) : data[p[k]] = <<t, k>> /\ nextCluster(fat, p[k]) # 0
      BY <2>1, <2>8 DEF OnDisk, Intact
    <3>2. p \in Seq(Clusters) /\ Len(p) >= 1 /\ Len(p) \in Nat  BY <2>1, <2>8, IntactStarts
    <3>3. p' = p  BY <2>7, <2>8
    <3> HIDE DEF p
    <3>4. \A k \in 1 .. Len(p) : nextCluster(fat', p[k]) = nextCluster(fat, p[k])
      <4>1. \A k \in 1 .. Len(p) : p[k] # c /\ p[k] \in Clusters  BY <2>4, <3>1, <3>2
      <4> QED  BY <1>8, <4>1
    <3>5. Len(p) \in 1 .. Len(p)  BY <3>2
    <3>6. /\ Len(p') = complete'[t] /\ nextCluster(fat', p'[Len(p')]) = EOF_MARK
          /\ \A k \in 1 .. Len(p') : data'[p'[k]] = <<t, k>> /\ nextCluster(fat', p'[k]) # 0
      BY <1>1, <3>1, <3>3, <3>4, <3>5
    <3> QED  BY <3>6 DEF Intact, p
  <2>9. OnDisk'
    <3>1. \A d \in WholeEntries \cap {0, 1} : nextCluster(fat', d) # 0
      <4>1. \A d \in WholeEntries \cap {0, 1} : d # c /\ d \in Clusters  BY <2>4, ClustersAre
      <4> QED  BY <1>8, <2>1, <4>1 DEF OnDisk
    <3> QED  BY <1>1, <2>1, <2>8, <3>1 DEF OnDisk
  <2>10. Linking(op)'
    <3> SUFFICES ASSUME NEW k \in 1 .. Len(q)
                 PROVE  nextCluster(fat', q[k]) = IF Linked(op', k) THEN target(q, k) ELSE 0
      BY <1>4 DEF Linking
    <3>1. Linked(op', k) <=> k <= i  BY <1>3, <1>4 DEF Linked
    <3>2. CASE k = i
      BY <1>3, <1>5, <2>5, <3>1, <3>2 DEF c
    <3>3. CASE k # i
      <4>1. q[k] # c /\ q[k] \in Clusters
        <5>1. \A m \in 1 .. Len(q) : q[m] \in Nat
          BY <1>3, ClustersAre
        <5>2. k < i \/ i < k  BY <1>3, <3>3
        <5>3. q[k] < c \/ c < q[k]  BY <1>3, <2>2, <5>2 DEF Ascends, c
        <5> QED  BY <1>3, <5>1, <5>3 DEF c
      <4>2. k <= i <=> k <= op.done  BY <1>3, <3>3 DEF i
      <4> QED  BY <1>8, <2>3, <3>1, <4>1, <4>2
    <3> QED  BY <3>2, <3>3
  <2>11. Alone(op)'
    <3> SUFFICES ASSUME NEW t \in Slots, complete[t] # 0
                 PROVE  \A k \in 1 .. Len(clustersOf(t)'), m \in 1 .. Len(q) :
                          clustersOf(t)'[k] # q[m]
      BY <1>1, <1>4 DEF Alone
    <3>1. clustersOf(t)' = clustersOf(t)  BY <2>7
    <3> QED  BY <2>2, <3>1 DEF Alone, q
  <2>12. Filling(op)'
    <3>1. op'.kind = "data" => op'.done = 0  BY <1>4
    <3>2. \A k \in 1 .. 0 : FALSE  OBVIOUS
    <3> QED  BY <3>1, <3>2 DEF Filling
  <2>13. Writing(op)'
    BY <1>1, <1>4, <2>2, <2>10, <2>11, <2>12 DEF Writing
  <2>14. ASSUME ~cut PROVE Kept(op)'
    <3> SUFFICES ASSUME NEW d \in WholeEntries \ {0, 1}, nextCluster(fat', d) # 0
                 PROVE  HasFile(d)' \/ Takes(op, d)'
      BY DEF Kept
    <3>1. CASE d = c
      <4>1. Takes(op, d)'
        BY <1>3, <1>4, <3>1 DEF Takes, c
      <4> QED  BY <4>1
    <3>2. CASE d # c
      <4>1. nextCluster(fat, d) # 0  BY <1>8, <3>2, ClustersAre
      <4>2. HasFile(d) \/ Takes(op, d)  BY <2>1, <2>14, <4>1 DEF Kept
      <4>3. HasFile(d) => HasFile(d)'
        <5> SUFFICES ASSUME NEW t \in Slots, dir[t] # Empty, d \in Range(clustersOf(t))
                     PROVE  HasFile(d)'
          BY DEF HasFile
        <5>1. d \in Range(chain(fat', dir[t].firstClusterLow))
          BY <2>6, Facts DEF clustersOf
        <5> QED  BY <1>1, <5>1 DEF HasFile, clustersOf
      <4>4. Takes(op, d) => Takes(op, d)'  BY <1>4 DEF Takes, q
      <4> QED  BY <4>2, <4>3, <4>4
    <3> QED  BY <3>1, <3>2
  <2> QED  BY <1>1, <1>4, <2>9, <2>13, <2>14 DEF InOrder
<1> QED  BY <1>1, <1>4, <1>9, <1>10 DEF FInv

LEMMA WriteDataStep ==
  ASSUME FInv, WriteData
  PROVE  FInv'
<1> DEFINE q == op.sectors
           i == op.done + 1
           c == q[i]
           s == op.slot
           last == i = Len(q)
<1>1. /\ op.kind = "data" /\ data' = [data EXCEPT ![c] = <<s, i>>]
      /\ dir' = [t \in Slots |-> IF t \in overwritten(c) THEN Garbage ELSE dir[t]]
      /\ op' = IF last THEN Idle ELSE Then("data")
      /\ complete' = IF last THEN [complete EXCEPT ![s] = Len(q)] ELSE complete
      /\ UNCHANGED <<fat, cut, spilled>>
  BY DEF WriteData
<1>2. IsWrite(op)  BY <1>1, Kinds
<1>3. /\ i \in 1 .. Len(q) /\ Len(q) \in Nat /\ op.done \in Nat /\ c \in Clusters
      /\ q \in Seq(Clusters) /\ s \in Slots /\ Len(q) <= MaxChunks
  BY <1>2, AtSector
<1>4. IF last THEN op' = Idle
      ELSE /\ IsWrite(op') /\ op'.slot = s /\ op'.name = op.name /\ op'.sectors = q
           /\ op'.kind = "data" /\ op'.done = i
  BY <1>1, <1>2, ThenGoesOn
<1> HIDE DEF q, s, i, c
<1>5. /\ DOMAIN data' = Clusters /\ data'[c] = <<s, i>>
      /\ \A d \in Clusters : d # c => data'[d] = data[d]
  BY <1>1, <1>3, Facts
<1>6. dir' \in [Slots -> DirEntry]
  <2>1. Garbage \in DirEntry
    <3>1. 0 \in Clusters  BY Sizes DEF Clusters
    <3> QED  BY <3>1 DEF Garbage, DirEntry
  <2>2. \A t \in Slots : dir[t] \in DirEntry  BY Facts
  <2> QED  BY <1>1, <2>1, <2>2
<1>7. /\ complete' \in [Slots -> 0 .. MaxChunks]
      /\ \A t \in Slots : t # s => complete'[t] = complete[t]
      /\ complete'[s] = IF last THEN Len(q) ELSE complete[s]
  <2>1. Len(q) \in 0 .. MaxChunks  BY <1>3, Facts
  <2> QED  BY <1>1, <1>3, <2>1, Facts
<1>8. FATTypeOK'
  <2>1. op'.kind \in {"idle", "data"}  BY <1>4 DEF Idle
  <2>2. \A t \in Slots : /\ dir'[t].name \in Names \cup {"", "?"}
                         /\ dir'[t].firstClusterLow \in Clusters
    BY <1>6 DEF DirEntry
  <2> QED  BY <1>1, <1>5, <1>7, <2>1, <2>2 DEF FInv, FATTypeOK
<1>9. ASSUME ~spilled PROVE InOrder'
  <2>1. OnDisk /\ Writing(op) /\ (~cut => Kept(op))  BY <1>1, <1>9 DEF FInv, InOrder
  <2>2. /\ Ascends(q) /\ complete[s] = 0 /\ Linking(op) /\ Filling(op) /\ Alone(op)
        /\ dir[s] = [name |-> op.name, attributes |-> 0, firstClusterLow |-> q[1]]
    BY <1>1, <2>1 DEF Writing, q, s
  <2>3. dir' = dir
    <3>1. c \in WholeEntries \ {0, 1}  BY <1>3, <2>2 DEF Ascends, c
    <3>2. c \in Nat /\ c # 0 /\ c # 1  BY <1>3, <3>1, ClustersAre
    <3>3. overwritten(c) = {}  BY <3>2 DEF overwritten
    <3>4. dir' = [t \in Slots |-> dir[t]]  BY <1>1, <3>3
    <3> QED  BY <3>4, Facts
  <2>4. \A t \in Slots : clustersOf(t)' = clustersOf(t)
    BY <1>1, <2>3 DEF clustersOf
  <2>5. \A k \in 1 .. Len(q) : nextCluster(fat, q[k]) = target(q, k)
    BY <1>1, <2>2 DEF Linking, Linked, q
  <2>6. clustersOf(s) = q
    <3>1. 1 \in 1 .. Len(q) /\ Len(q) >= 1  BY <1>3
    <3>2. dir[s].firstClusterLow = q[1]  BY <2>2
    <3>3. chain(fat, q[1]) = q  BY <1>3, <2>2, <2>5, <3>1, LinkedIsChain
    <3> QED  BY <3>2, <3>3 DEF clustersOf
  <2>7. \A k \in 1 .. Len(q) : k # i => q[k] # c /\ q[k] \in Clusters
    <3> SUFFICES ASSUME NEW k \in 1 .. Len(q), k # i PROVE q[k] # c /\ q[k] \in Clusters
      OBVIOUS
    <3>1. q[k] \in Nat /\ q[k] \in Clusters /\ c \in Nat  BY <1>3, ClustersAre
    <3>2. k < i \/ i < k  BY <1>3
    <3>3. q[k] < c \/ c < q[k]  BY <1>3, <2>2, <3>2 DEF Ascends, c
    <3> QED  BY <3>1, <3>3
  <2>8. \A k \in 1 .. i : data'[q[k]] = <<s, k>>
    <3> SUFFICES ASSUME NEW k \in 1 .. i PROVE data'[q[k]] = <<s, k>>
      OBVIOUS
    <3>1. CASE k = i  BY <1>5, <3>1 DEF c
    <3>2. CASE k # i
      <4>1. k \in 1 .. op.done /\ k \in 1 .. Len(q)  BY <1>3, <3>2 DEF i
      <4>2. data[q[k]] = <<s, k>>  BY <1>1, <2>2, <4>1 DEF Filling, q, s
      <4> QED  BY <1>5, <2>7, <3>2, <4>1, <4>2
    <3> QED  BY <3>1, <3>2
  <2>9. ASSUME NEW t \in Slots, complete[t] # 0 PROVE t # s /\ Intact(t)'
    <3> DEFINE p == clustersOf(t)
    <3>1. /\ Len(p) = complete[t] /\ nextCluster(fat, p[Len(p)]) = EOF_MARK
          /\ \A k \in 1 .. Len(p) : data[p[k]] = <<t, k>> /\ nextCluster(fat, p[k]) # 0
      BY <2>1, <2>9 DEF OnDisk, Intact
    <3>2. p \in Seq(Clusters)  BY <2>1, <2>9, IntactStarts
    <3>3. \A k \in 1 .. Len(p) : p[k] # c
      BY <1>3, <2>2, <2>9 DEF Alone, c, q
    <3>4. p' = p /\ t # s  BY <2>2, <2>4, <2>9
    <3> HIDE DEF p
    <3>5. \A k \in 1 .. Len(p) : data'[p[k]] = data[p[k]]  BY <1>5, <3>2, <3>3
    <3>6. /\ Len(p') = complete'[t] /\ nextCluster(fat', p'[Len(p')]) = EOF_MARK
          /\ \A k \in 1 .. Len(p') : data'[p'[k]] = <<t, k>> /\ nextCluster(fat', p'[k]) # 0
      BY <1>1, <1>7, <3>1, <3>4, <3>5
    <3> QED  BY <3>4, <3>6 DEF Intact, p
  <2>10. ASSUME last, NEW t \in Slots, t = s PROVE Intact(t)'
    <3>1. \A k \in 1 .. Len(q) : nextCluster(fat, q[k]) # 0
      <4> SUFFICES ASSUME NEW k \in 1 .. Len(q) PROVE target(q, k) # 0
        BY <2>5
      <4>1. CASE k = Len(q)  BY <4>1 DEF target, EOF_MARK
      <4>2. CASE k # Len(q)
        <5>1. k + 1 \in 1 .. Len(q)  BY <1>3, <4>2
        <5> QED  BY <2>2, <4>2, <5>1 DEF Ascends, target
      <4> QED  BY <4>1, <4>2
    <3>2. nextCluster(fat, q[Len(q)]) = EOF_MARK
      <4>1. Len(q) \in 1 .. Len(q)  BY <1>3
      <4> QED  BY <2>5, <4>1 DEF target
    <3> DEFINE p == clustersOf(t)
    <3>3. p' = q  BY <2>4, <2>6, <2>10
    <3>4. complete'[t] = Len(q) /\ i = Len(q)  BY <1>7, <2>10
    <3> HIDE DEF p
    <3>5. /\ Len(p') = complete'[t] /\ nextCluster(fat', p'[Len(p')]) = EOF_MARK
          /\ \A k \in 1 .. Len(p') : data'[p'[k]] = <<t, k>> /\ nextCluster(fat', p'[k]) # 0
      BY <1>1, <2>8, <2>10, <3>1, <3>2, <3>3, <3>4
    <3> QED  BY <3>5 DEF Intact, p
  <2>11. dir[s] # Empty
    <3>1. "" \notin Names  BY FATAssumption
    <3>2. op.name # ""  BY <1>2, <3>1, AtSector
    <3>3. dir[s].name = op.name /\ Empty.name = ""  BY <2>2 DEF Empty
    <3> QED  BY <3>2, <3>3
  <2>12. OnDisk'
    <3>1. \A t \in Slots : complete'[t] # 0 => Intact(t)'
      BY <1>7, <2>2, <2>9, <2>10
    <3>2. \A t \in Slots : dir'[t] = Empty => complete'[t] = 0
      BY <1>7, <2>1, <2>3, <2>11 DEF OnDisk
    <3> QED  BY <1>1, <2>1, <3>1, <3>2 DEF OnDisk
  <2>13. ASSUME ~last PROVE Writing(op)'
    <3>1. /\ op'.slot = s /\ op'.name = op.name /\ op'.sectors = q
          /\ op'.kind = "data" /\ op'.done = i
      BY <1>4, <2>13
    <3>2. complete' = complete  BY <1>1, <2>13
    <3>3. Linking(op)'  BY <1>1, <2>5, <3>1 DEF Linking, Linked
    <3>4. Filling(op)'  BY <2>8, <3>1 DEF Filling
    <3>5. Alone(op)'
      <4> SUFFICES ASSUME NEW t \in Slots, complete[t] # 0
                   PROVE  \A k \in 1 .. Len(clustersOf(t)'), m \in 1 .. Len(q) :
                            clustersOf(t)'[k] # q[m]
        BY <3>1, <3>2 DEF Alone
      <4>1. clustersOf(t)' = clustersOf(t)  BY <2>4
      <4> QED  BY <2>2, <4>1 DEF Alone, q
    <3> QED  BY <2>2, <2>3, <3>1, <3>2, <3>3, <3>4, <3>5 DEF Writing
  <2>14. ASSUME ~cut PROVE Kept(op)'
    <3> SUFFICES ASSUME NEW d \in WholeEntries \ {0, 1}, nextCluster(fat, d) # 0
                 PROVE  HasFile(d)' \/ Takes(op, d)'
      BY <1>1 DEF Kept
    <3>1. HasFile(d) \/ Takes(op, d)  BY <2>1, <2>14 DEF Kept
    <3>2. \A e : HasFile(e) => HasFile(e)'  BY <2>3, <2>4 DEF HasFile
    <3>3. Takes(op, d) => HasFile(d)
      <4> SUFFICES ASSUME NEW k \in 1 .. Len(q), q[k] = d PROVE HasFile(d)
        BY DEF Takes, q
      <4>1. d \in Range(clustersOf(s))  BY <1>3, <2>6 DEF Range
      <4> QED  BY <1>3, <2>11, <4>1 DEF HasFile
    <3> QED  BY <3>1, <3>2, <3>3
  <2>15. CASE last
    <3>1. op' = Idle /\ op'.kind = "idle"  BY <1>4, <2>15 DEF Idle
    <3> QED  BY <1>1, <2>12, <2>14, <3>1 DEF InOrder
  <2>16. CASE ~last
    <3>1. op'.kind = "data"  BY <1>4, <2>16
    <3> QED  BY <1>1, <2>12, <2>13, <2>14, <2>16, <3>1 DEF InOrder
  <2> QED  BY <2>15, <2>16
<1>10. op' = Idle \/ IsWrite(op')  BY <1>4
<1> QED  BY <1>1, <1>6, <1>8, <1>9, <1>10 DEF FInv

LEMMA FInvStep == FInv /\ [FATNext]_fsVars => FInv'
<1> SUFFICES ASSUME FInv, [FATNext]_fsVars PROVE FInv'
  OBVIOUS
<1>1. CASE Open  BY <1>1, OpenStep
<1>2. CASE Read  BY <1>2, ReadStepHolds
<1>3. CASE Close  BY <1>3, CloseStep
<1>4. CASE Write  BY <1>4, WriteStep
<1>5. CASE WriteDir  BY <1>5, WriteDirStep
<1>6. CASE WriteFAT  BY <1>6, WriteFATStep
<1>7. CASE WriteData  BY <1>7, WriteDataStep
<1>8. CASE PowerFails  BY <1>8, PowerFailsStep
<1>9. CASE UNCHANGED fsVars
  <2>1. UNCHANGED <<fat, dir, data, op, complete, cut, spilled>>
    BY <1>9 DEF fsVars, disk
  <2>2. UNCHANGED FATTypeOK  BY <2>1 DEF FATTypeOK
  <2>3. UNCHANGED OnDisk  BY <2>1 DEF OnDisk, Intact, clustersOf
  <2>4. UNCHANGED Writing(op)
    BY <2>1 DEF Writing, Linking, Linked, Filling, Alone, clustersOf
  <2>5. UNCHANGED ReadingFile(op)  BY <2>1 DEF ReadingFile, clustersOf
  <2>6. UNCHANGED Kept(op)  BY <2>1 DEF Kept, HasFile, Takes, clustersOf
  <2>7. UNCHANGED InOrder  BY <2>1, <2>3, <2>4, <2>5, <2>6 DEF InOrder
  <2> QED  BY <2>1, <2>2, <2>7 DEF FInv
<1> QED
  BY <1>1, <1>2, <1>3, <1>4, <1>5, <1>6, <1>7, <1>8, <1>9 DEF FATNext

-----------------------------------------------------------------------------
\* On every disk, whatever it is asked for and wherever power fails.

\* What is written and read in a sector, and every count of chunks, stays in its range.
\* FAT12.cpp, all operations.
THEOREM FATTypeCorrect == FATSpec => []FATTypeOK
<1>1. FInv => FATTypeOK  BY DEF FInv
<1> QED  BY <1>1, FInitHolds, FInvStep, PTL DEF FATSpec

\* Files that were written to the end keep their clusters and their contents,
\* whatever is written after them and wherever power fails: findSectors takes
\* only clusters whose entries are free, updateFAT changes only these entries.
THEOREM CompleteFilesStayCorrect == FATSpec => []CompleteFilesStay
<1>1. FInv => CompleteFilesStay
  <2> SUFFICES ASSUME FInv, ~spilled, NEW s \in Slots, complete[s] # 0
               PROVE  contents(s) = whole(s)
    BY DEF CompleteFilesStay
  <2>1. OnDisk  BY DEF FInv, InOrder
  <2> DEFINE p == clustersOf(s)
  <2>2. Len(p) = complete[s] /\ \A k \in 1 .. Len(p) : data[p[k]] = <<s, k>>
    BY <2>1 DEF OnDisk, Intact
  <2>3. p \in Seq(Clusters)  BY <2>1, IntactStarts
  <2> HIDE DEF p
  <2>4. DOMAIN p = 1 .. complete[s]  BY <2>2, <2>3
  <2>5. contents(s) = [k \in DOMAIN p |-> data[p[k]]]  BY DEF contents, p
  <2> QED  BY <2>2, <2>4, <2>5 DEF whole
<1> QED  BY <1>1, FInitHolds, FInvStep, PTL DEF FATSpec

\* A file that was written to the end is read as it was written, from its first
\* chunk on, and whole when eof is set: read follows the entries that updateFAT linked.
THEOREM ReadsAreWhatWasWritten == FATSpec => []ReadsWhatWasWritten
<1>1. FInv => ReadsWhatWasWritten
  <2> SUFFICES ASSUME FInv, ~spilled, op.kind \in {"read", "eof"}, op.slot # 0,
                      complete[op.slot] # 0
               PROVE  /\ IsPrefix(op.got, whole(op.slot))
                      /\ op.kind = "eof" => op.got = whole(op.slot)
    BY DEF ReadsWhatWasWritten
  <2>1. IsRead(op) /\ ReadingFile(op)  BY Kinds DEF FInv, InOrder
  <2>2. op.slot \in Slots  BY <2>1 DEF IsRead
  <2> DEFINE n == complete[op.slot]
  <2>3. PICK m \in 0 .. n : op.got = Chunks(op.slot, m) /\ (op.kind = "eof" => m = n)
    BY <2>1 DEF ReadingFile
  <2>4. n \in Nat  BY <2>2, Facts
  <2> HIDE DEF n
  <2>5. whole(op.slot) = Chunks(op.slot, n)  BY DEF whole, Chunks, n
  <2>6. IsPrefix(Chunks(op.slot, m), Chunks(op.slot, n))
    <3> DEFINE a == Chunks(op.slot, m)
               b == Chunks(op.slot, n)
    <3>1. /\ a \in Seq({<<op.slot, k>> : k \in 1 .. n}) /\ Len(a) = m
          /\ b \in Seq({<<op.slot, k>> : k \in 1 .. n}) /\ Len(b) = n
      BY <2>4 DEF Chunks
    <3>2. \A k \in 1 .. m : a[k] = b[k]  BY <2>4 DEF Chunks
    <3> HIDE DEF a, b
    <3>3. SubSeq(b, 1, m) = a
      <4>1. SubSeq(b, 1, m) = [k \in 1 .. m |-> b[k]]  BY <2>4, <3>1
      <4>2. a = [k \in 1 .. m |-> a[k]]  BY <2>4, <3>1
      <4> QED  BY <3>2, <4>1, <4>2, Zenon
    <3>4. SubSeq(a, 1, m) = a  BY <2>4, <3>1
    <3>5. Len(a) <= Len(b) /\ SubSeq(a, 1, Len(a)) = SubSeq(b, 1, Len(a))
      BY <2>4, <3>1, <3>3, <3>4
    <3> QED  BY <3>5 DEF IsPrefix, a, b
  <2> QED  BY <2>3, <2>5, <2>6
<1> QED  BY <1>1, FInitHolds, FInvStep, PTL DEF FATSpec

\* No cluster is taken and in no file, unless a write was cut short: every path out of
\* writetest has linked all clusters it took or none.
THEOREM NothingLeaksCorrect == FATSpec => []NothingLeaks
<1>1. FInv => NothingLeaks
  <2> SUFFICES ASSUME FInv, ~spilled, ~cut, op = Idle,
                      NEW c \in WholeEntries \ {0, 1}, nextCluster(fat, c) # 0
               PROVE  \E s \in Slots : dir[s] # Empty /\ c \in Range(clustersOf(s))
    BY DEF NothingLeaks
  <2>1. Kept(op) /\ op.kind = "idle"  BY DEF FInv, InOrder, Idle
  <2> QED  BY <2>1 DEF Kept, Takes, HasFile
<1> QED  BY <1>1, FInitHolds, FInvStep, PTL DEF FATSpec
=============================================================================
