----------------------------- MODULE Heap_proofs -----------------------------
(***************************************************************************)
(* Theorems about the heap: for every number of classes, every size of a   *)
(* page and any order of kmalloc and kfree, blocks in use never meet one   *)
(* another or free memory, until the offset of moreMem goes around.        *)
(***************************************************************************)
EXTENDS Heap, VMM_proofs, SequenceTheorems

Lists == [Slabs -> Seq(SlabFrame)]

HeapRecords == [slabs : Lists, alloced : Lists, offset : 0 .. OffsetRange-1, frames : Nat]

\* The frames of one class, and of all.
Of(S, i) == {S[i][k] : k \in 1 .. Len(S[i])}
In(S)    == UNION {Of(S, i) : i \in Slabs}

Apart(f, g) == f.end < g.start \/ g.end < f.start

\* Frames at different places of the lists do not meet.
Separate(S) ==
  \A i, j \in Slabs : \A k \in 1 .. Len(S[i]), l \in 1 .. Len(S[j]) :
    i # j \/ k # l => Apart(S[i][k], S[j][l])

\* A free frame of a class is a whole number of its blocks, an allocated one a
\* single block.
Whole(f, i) == \E m \in 1 .. PageSize : f.end + 1 = f.start + m * AllocSize(i)
Single(f, i) == f.end + 1 = f.start + AllocSize(i)

\* The lists of h and the lost frames share out the memory below top.
Sound(h, gone, top) ==
  /\ Separate(h.slabs) /\ Separate(h.alloced)
  /\ \A f \in In(h.slabs), g \in In(h.alloced) \cup gone : Apart(f, g)
  /\ \A f \in In(h.alloced), g \in gone : Apart(f, g)
  /\ \A f, g \in gone : f # g => Apart(f, g)
  /\ \A f \in In(h.slabs) \cup In(h.alloced) \cup gone :
       heapStart <= f.start /\ f.start <= f.end /\ f.end < top
  /\ \A i \in Slabs : \A f \in Of(h.slabs, i) : Whole(f, i)
  /\ \A i \in Slabs : \A f \in Of(h.alloced, i) : Single(f, i)
  /\ \A f \in gone : \E i \in Slabs : Single(f, i)

\* The frame a block was handed out as.
Piece(b) == [start |-> b.addr, end |-> b.addr + AllocSize(b.slab) - 1]

\* Callers hold all blocks that are not free, and those are in the list of their
\* class or lost from it.
AllHeld(h, held_1) == \A i \in Slabs : \A f \in Of(h.alloced, i) :
                        [addr |-> f.start, slab |-> i] \in held_1
AllKnown(h, held_1, gone) == \A b \in held_1 : Piece(b) \in Of(h.alloced, b.slab) \cup gone

\* The lists of class j, and what is lost.
Somewhere(h, gone, j) == Of(h.slabs, j) \cup Of(h.alloced, j) \cup gone

\* A block freed under its caller is still a block of its class, free or not.
StolenKnown(h, taken, gone) == \A b \in taken : Piece(b) \in Somewhere(h, gone, b.slab)

Top == heapStart + grown * PageSize

\* The SlabFrames made so far are all somewhere, and h counts them.
Made(h, gone) == In(h.slabs) \cup In(h.alloced) \cup gone

Tallied(h, gone) == IsFiniteSet(Made(h, gone)) /\ h.frames = Cardinality(Made(h, gone))

\* The VMM returned every page below Top.
Requested == \A k \in 0 .. grown-1 : PageOf(heapStart) + k \in returned

HInv ==
  /\ VInv /\ left = 0 /\ HeapTypeOK
  /\ heapStartOffset = (grown * PageSize) % OffsetRange
  /\ ~Reused =>
       /\ Sound(heap, lost, Top) /\ Tallied(heap, lost) /\ Requested
       /\ AllHeld(heap, live) /\ AllKnown(heap, live, lost)
       /\ StolenKnown(heap, stolen, lost)
       /\ ~clashed

-----------------------------------------------------------------------------
\* Lists of frames.

LEMMA Members ==
  ASSUME NEW S \in Lists
  PROVE  /\ \A i \in Slabs : /\ S[i] \in Seq(SlabFrame) /\ Len(S[i]) \in Nat
                             /\ DOMAIN S[i] = 1 .. Len(S[i])
                             /\ Of(S, i) = Range(S[i])
                             /\ \A k \in 1 .. Len(S[i]) : S[i][k] \in SlabFrame /\ S[i][k] \in Of(S, i)
         /\ \A f : f \in In(S) <=> \E i \in Slabs : \E k \in 1 .. Len(S[i]) : f = S[i][k]
         /\ \A i \in Slabs : Of(S, i) \subseteq In(S)
         /\ In(S) \subseteq SlabFrame
BY DEF Lists, Of, In, Range

\* The lists without a first frame, and with one more.
Behind(S, i) == [S EXCEPT ![i] = Tail(S[i])]
InFront(S, i, f) == [S EXCEPT ![i] = <<f>> \o S[i]]

\* A frame put in front of a list.
LEMMA Pushed ==
  ASSUME NEW S \in Lists, NEW i \in Slabs, NEW f \in SlabFrame
  PROVE  /\ InFront(S, i, f) \in Lists
         /\ \A j \in Slabs : Of(InFront(S, i, f), j) = Of(S, j) \cup (IF j = i THEN {f} ELSE {})
         /\ In(InFront(S, i, f)) = In(S) \cup {f}
         /\ InFront(S, i, f)[i] # <<>> /\ Head(InFront(S, i, f)[i]) = f
         /\ Separate(S) /\ (\A g \in In(S) : Apart(f, g)) => Separate(InFront(S, i, f))
<1> DEFINE R == InFront(S, i, f)
<1>1. \A j \in Slabs : S[j] \in Seq(SlabFrame) /\ Len(S[j]) \in Nat  BY DEF Lists
<1>2. /\ <<f>> \o S[i] \in Seq(SlabFrame) /\ Len(<<f>> \o S[i]) = Len(S[i]) + 1
      /\ (<<f>> \o S[i])[1] = f
      /\ \A k \in 1 .. Len(S[i]) : (<<f>> \o S[i])[k + 1] = S[i][k]
      /\ \A k \in 2 .. Len(S[i]) + 1 : (<<f>> \o S[i])[k] = S[i][k - 1]
  BY <1>1
<1>3. /\ R \in Lists
      /\ R[i] = <<f>> \o S[i]
      /\ \A j \in Slabs : j # i => R[j] = S[j]
  BY <1>2 DEF Lists, InFront
<1> HIDE DEF R
<1>4. ASSUME NEW j \in Slabs
      PROVE  Of(R, j) = Of(S, j) \cup (IF j = i THEN {f} ELSE {})
  <2>1. CASE j # i  BY <1>3, <2>1 DEF Of
  <2>2. CASE j = i
    <3>1. Of(R, i) \subseteq Of(S, i) \cup {f}
      <4>1. ASSUME NEW k \in 1 .. Len(S[i]) + 1 PROVE R[i][k] \in Of(S, i) \cup {f}
        <5>1. k = 1 \/ (k \in 2 .. Len(S[i]) + 1 /\ k - 1 \in 1 .. Len(S[i]))  BY <1>1
        <5> QED  BY <1>2, <1>3, <5>1 DEF Of
      <4> QED  BY <1>2, <1>3, <4>1 DEF Of
    <3>2. f \in Of(R, i)
      <4>1. 1 \in 1 .. Len(S[i]) + 1  BY <1>1
      <4> QED  BY <1>2, <1>3, <4>1 DEF Of
    <3>3. Of(S, i) \subseteq Of(R, i)
      <4>1. \A k \in 1 .. Len(S[i]) : k + 1 \in 1 .. Len(S[i]) + 1  BY <1>1
      <4> QED  BY <1>2, <1>3, <4>1 DEF Of
    <3> QED  BY <2>2, <3>1, <3>2, <3>3
  <2> QED  BY <2>1, <2>2
<1>5. In(R) = In(S) \cup {f}  BY <1>4 DEF In
<1>6. R[i] # <<>> /\ Head(R[i]) = f
  <2>1. Len(R[i]) > 0 /\ R[i] \in Seq(SlabFrame)  BY <1>1, <1>2, <1>3
  <2> QED  BY <1>2, <1>3, <2>1
<1>7. ASSUME Separate(S), \A g \in In(S) : Apart(f, g) PROVE Separate(R)
  <2> SUFFICES ASSUME NEW j \in Slabs, NEW l \in Slabs,
                      NEW k \in 1 .. Len(R[j]), NEW m \in 1 .. Len(R[l]), j # l \/ k # m
               PROVE  Apart(R[j][k], R[l][m])
    BY DEF Separate
  <2>1. \/ j = i /\ k = 1 /\ R[j][k] = f
        \/ j = i /\ k - 1 \in 1 .. Len(S[j]) /\ R[j][k] = S[j][k - 1]
        \/ j # i /\ k \in 1 .. Len(S[j]) /\ R[j][k] = S[j][k]
    BY <1>1, <1>2, <1>3
  <2>2. \/ l = i /\ m = 1 /\ R[l][m] = f
        \/ l = i /\ m - 1 \in 1 .. Len(S[l]) /\ R[l][m] = S[l][m - 1]
        \/ l # i /\ m \in 1 .. Len(S[l]) /\ R[l][m] = S[l][m]
    BY <1>1, <1>2, <1>3
  <2>3. \A g \in In(S) : Apart(f, g) /\ Apart(g, f)  BY <1>7 DEF Apart
  <2>4. \A a \in Slabs : \A n \in 1 .. Len(S[a]) : S[a][n] \in In(S)  BY DEF In, Of
  <2>5. CASE R[j][k] = f /\ j = i /\ k = 1
    BY <2>2, <2>3, <2>4, <2>5
  <2>6. CASE R[l][m] = f /\ l = i /\ m = 1
    BY <2>1, <2>3, <2>4, <2>6
  <2>7. CASE /\ \/ j = i /\ k - 1 \in 1 .. Len(S[j]) /\ R[j][k] = S[j][k - 1]
                \/ j # i /\ k \in 1 .. Len(S[j]) /\ R[j][k] = S[j][k]
             /\ \/ l = i /\ m - 1 \in 1 .. Len(S[l]) /\ R[l][m] = S[l][m - 1]
                \/ l # i /\ m \in 1 .. Len(S[l]) /\ R[l][m] = S[l][m]
    BY <1>1, <1>7, <2>7, SMTT(20) DEF Separate
  <2> QED  BY <2>1, <2>2, <2>5, <2>6, <2>7
<1> QED  BY <1>3, <1>4, <1>5, <1>6, <1>7 DEF R

\* The first frames dropped from a list.
LEMMA Dropped ==
  ASSUME NEW S \in Lists, NEW i \in Slabs, NEW n \in 1 .. Len(S[i]),
         NEW T \in Seq(SlabFrame), Len(T) = Len(S[i]) - n,
         \A k \in 1 .. Len(T) : T[k] = S[i][k + n]
  PROVE  LET R == [S EXCEPT ![i] = T]
         IN  /\ R \in Lists
             /\ \A j \in Slabs : Of(R, j) \subseteq Of(S, j)
             /\ In(R) \subseteq In(S)
             /\ Separate(S) => /\ Separate(R)
                               /\ \A k \in 1 .. n : \A g \in In(R) : Apart(S[i][k], g)
<1> DEFINE R == [S EXCEPT ![i] = T]
<1>1. \A j \in Slabs : S[j] \in Seq(SlabFrame) /\ Len(S[j]) \in Nat  BY DEF Lists
<1>2. /\ R \in Lists /\ R[i] = T
      /\ \A j \in Slabs : j # i => R[j] = S[j]
  BY DEF Lists
<1> HIDE DEF R
<1>3. \A k \in 1 .. Len(T) : k + n \in 1 .. Len(S[i]) /\ k + n > n
  <2>1. Len(S[i]) \in Nat /\ n \in 1 .. Len(S[i]) /\ Len(T) = Len(S[i]) - n  BY <1>1
  <2> QED  BY <2>1
<1>4. \A j \in Slabs : Of(R, j) \subseteq Of(S, j)
  <2>1. Of(R, i) \subseteq Of(S, i)  BY <1>2, <1>3 DEF Of
  <2>2. \A j \in Slabs : j # i => Of(R, j) = Of(S, j)  BY <1>2 DEF Of
  <2> QED  BY <2>1, <2>2
<1>5. In(R) \subseteq In(S)  BY <1>4 DEF In
\* Where the frames that are left were.
<1>6. \A j \in Slabs : \A k \in 1 .. Len(R[j]) :
        \/ j = i /\ k + n \in 1 .. Len(S[j]) /\ k + n > n /\ R[j][k] = S[j][k + n]
        \/ j # i /\ k \in 1 .. Len(S[j]) /\ R[j][k] = S[j][k]
  BY <1>2, <1>3
<1>7. ASSUME Separate(S) PROVE Separate(R)
  <2> SUFFICES ASSUME NEW j \in Slabs, NEW l \in Slabs,
                      NEW k \in 1 .. Len(R[j]), NEW m \in 1 .. Len(R[l]), j # l \/ k # m
               PROVE  Apart(R[j][k], R[l][m])
    BY DEF Separate
  <2>1. k \in Int /\ m \in Int /\ n \in Int  OBVIOUS
  <2> QED  BY <1>6, <1>7, <2>1, SMTT(20) DEF Separate
<1>8. ASSUME Separate(S), NEW k \in 1 .. n, NEW g \in In(R) PROVE Apart(S[i][k], g)
  <2> PICK j \in Slabs : \E l \in 1 .. Len(R[j]) : g = R[j][l]  BY DEF In, Of
  <2> PICK l \in 1 .. Len(R[j]) : g = R[j][l]  OBVIOUS
  <2>1. k \in 1 .. Len(S[i]) /\ k <= n  BY <1>1
  <2> QED  BY <1>6, <1>8, <2>1 DEF Separate
<1> QED  BY <1>2, <1>4, <1>5, <1>7, <1>8 DEF R

\* The first frame, and the lists behind it.
LEMMA FirstAndRest ==
  ASSUME NEW S \in Lists, NEW i \in Slabs, S[i] # <<>>
  PROVE  /\ Head(S[i]) \in SlabFrame /\ Head(S[i]) \in Of(S, i) /\ Head(S[i]) \in In(S)
         /\ Behind(S, i) \in Lists /\ Behind(S, i)[i] = Tail(S[i])
         /\ \A j \in Slabs : Of(Behind(S, i), j) \subseteq Of(S, j)
         /\ In(Behind(S, i)) \subseteq In(S)
         /\ In(S) = In(Behind(S, i)) \cup {Head(S[i])}
         /\ Separate(S) => /\ Separate(Behind(S, i))
                           /\ \A g \in In(Behind(S, i)) : Apart(Head(S[i]), g)
<1> DEFINE T == Tail(S[i])
           R == [S EXCEPT ![i] = T]
<1>1. S[i] \in Seq(SlabFrame) /\ Len(S[i]) \in Nat \ {0}  BY DEF Lists
<1>2. /\ T \in Seq(SlabFrame) /\ Len(T) = Len(S[i]) - 1
      /\ \A k \in 1 .. Len(T) : T[k] = S[i][k + 1]
      /\ Head(S[i]) = S[i][1] /\ 1 \in 1 .. Len(S[i])
  BY <1>1
<1>3. Head(S[i]) \in SlabFrame /\ Head(S[i]) \in Of(S, i) /\ Head(S[i]) \in In(S)
  BY <1>1, <1>2 DEF Of, In
<1> HIDE DEF T
<1>4. /\ R \in Lists
      /\ \A j \in Slabs : Of(R, j) \subseteq Of(S, j)
      /\ In(R) \subseteq In(S)
      /\ Separate(S) => /\ Separate(R)
                        /\ \A k \in 1 .. 1 : \A g \in In(R) : Apart(S[i][k], g)
  BY <1>2, Dropped
<1>5. R[i] = T
  <2>1. DOMAIN S = Slabs  BY DEF Lists
  <2> QED  BY <2>1
<1>r. \A j \in Slabs : j # i => R[j] = S[j]
  <2>1. DOMAIN S = Slabs  BY DEF Lists
  <2> QED  BY <2>1
<1> HIDE DEF R
<1>6. Separate(S) => \A g \in In(R) : Apart(Head(S[i]), g)
  <2>1. 1 \in 1 .. 1  OBVIOUS
  <2> QED  BY <1>2, <1>4, <2>1
<1>7. \A j \in Slabs : \A k \in 1 .. Len(S[j]) : S[j][k] \in In(R) \cup {Head(S[i])}
  <2> SUFFICES ASSUME NEW j \in Slabs, NEW k \in 1 .. Len(S[j]), j # i \/ k # 1
               PROVE  S[j][k] \in In(R)
    BY <1>2
  <2>1. CASE j # i
    <3>1. R[j] = S[j]  BY <1>r, <2>1
    <3> QED  BY <3>1 DEF In, Of
  <2>2. CASE j = i
    <3>1. k - 1 \in 1 .. Len(T) /\ (k - 1) + 1 = k  BY <1>1, <1>2, <2>2
    <3>2. R[i][k - 1] = S[i][k] /\ k - 1 \in 1 .. Len(R[i])  BY <1>2, <1>5, <3>1
    <3> QED  BY <2>2, <3>2 DEF In, Of
  <2> QED  BY <2>1, <2>2
<1>8. In(S) \subseteq In(R) \cup {Head(S[i])}
  <2>1. \A f \in In(S) : \E j \in Slabs : \E k \in 1 .. Len(S[j]) : f = S[j][k]
    BY Members
  <2> QED  BY <1>7, <2>1
<1> QED  BY <1>3, <1>4, <1>5, <1>6, <1>8 DEF T, R, Behind

-----------------------------------------------------------------------------
\* The classes.

LEMMA Sizes ==
  /\ PageSize \in Nat /\ PageSize >= 2 /\ OffsetRange \in Nat \ {0} /\ heapStart \in Nat
  /\ MaxGrow \in Nat
  /\ \A i \in Slabs : /\ AllocSize(i) \in Nat /\ AllocSize(i) >= 2
                      /\ \E m \in 1 .. PageSize : PageSize = m * AllocSize(i)
  /\ \A i, j \in Slabs : AllocSize(i) = AllocSize(j) => i = j
<1>1. SlabCount \in Slabs /\ PageSize = AllocSize(SlabCount)
  BY HeapAssumption DEF Slabs
<1>2. PageSize \in Nat /\ PageSize >= 2  BY <1>1, ClassesAssumption
<1>3. ASSUME NEW i \in Slabs
      PROVE  \E m \in 1 .. PageSize : PageSize = m * AllocSize(i)
  <2> DEFINE a == AllocSize(i)
             m == PageSize \div a
  <2>1. a \in Nat \ {0} /\ PageSize % a = 0  BY ClassesAssumption
  <2> HIDE DEF a
  <2>2. m \in 0 .. PageSize /\ PageSize = a * m + (PageSize % a)
    BY <1>2, <2>1, DivMod, DivBound
  <2> HIDE DEF m
  <2>3. PageSize = a * m  BY <1>2, <2>1, <2>2
  <2>4. PageSize = m * a /\ m # 0  BY <1>2, <2>1, <2>2, <2>3
  <2>5. m \in 1 .. PageSize  BY <1>2, <2>2, <2>4
  <2> QED  BY <2>4, <2>5 DEF a
<1>4. \A i, j \in Slabs : AllocSize(i) = AllocSize(j) => i = j
  <2>1. \A i, j \in Slabs : i < j \/ j < i \/ i = j  BY HeapAssumption DEF Slabs
  <2> QED  BY <2>1, ClassesAssumption
<1> QED  BY <1>2, <1>3, <1>4, HeapAssumption, ClassesAssumption

\* Every size up to a page has a class.
LEMMA SlabForSize ==
  ASSUME NEW size \in 0 .. PageSize
  PROVE  slabFor(size) \in Slabs
<1> DEFINE fit == {i \in Slabs : size <= AllocSize(i)}
<1>1. SlabCount \in fit /\ fit \in SUBSET Nat
  BY Sizes, HeapAssumption DEF Slabs
<1>2. PICK i \in fit : \A j \in fit : i <= j  BY <1>1, LeastElement
<1>3. \E i_1 \in Slabs : /\ size <= AllocSize(i_1)
                         /\ \A j \in Slabs : size <= AllocSize(j) => i_1 <= j
  BY <1>2
<1> QED  BY <1>3 DEF slabFor

\* A frame of several blocks may lose the first, one that is no larger than an
\* allocation is one block.
LEMMA WholeBlocks ==
  ASSUME NEW f \in SlabFrame, NEW i \in Slabs, Whole(f, i)
  PROVE  /\ f.end - f.start > AllocSize(i) =>
              LET rest == [f EXCEPT !.start = @ + AllocSize(i)]
              IN  rest \in SlabFrame /\ Whole(rest, i) /\ rest.start <= rest.end
                  /\ rest.start = f.start + AllocSize(i) /\ rest.end = f.end
         /\ f.end - f.start <= AllocSize(i) => Single(f, i)
<1> DEFINE a == AllocSize(i)
<1>1. a \in Nat /\ a >= 2 /\ PageSize \in Nat  BY Sizes
<1>2. f.start \in Nat /\ f.end \in Nat  BY DEF SlabFrame
<1>3. PICK m \in 1 .. PageSize : f.end + 1 = f.start + m * a  BY DEF Whole
<1> HIDE DEF a
<1>4. m \in Nat /\ m >= 1 /\ m * a \in Nat  BY <1>1, <1>3
<1>5. (m - 1) * a = m * a - a  BY <1>1, <1>4
<1>6. ASSUME f.end - f.start <= a PROVE m = 1
  <2>1. m * a - 1 <= a  BY <1>1, <1>2, <1>3, <1>4, <1>6
  <2>2. (m - 1) * a <= 1  BY <1>1, <1>4, <1>5, <2>1
  <2>3. CASE m >= 2
    <3>1. (m - 1) * a >= 1 * a  BY <1>1, <1>4, <2>3, Z3
    <3> QED  BY <1>1, <2>2, <3>1, <1>4
  <2> QED  BY <1>4, <2>3
<1>7. m = 1 => f.end + 1 = f.start + a  BY <1>1, <1>3
<1>8. ASSUME f.end - f.start > a
      PROVE  LET rest == [f EXCEPT !.start = @ + a]
             IN  rest \in SlabFrame /\ Whole(rest, i) /\ rest.start <= rest.end
                 /\ rest.start = f.start + a /\ rest.end = f.end
  <2> DEFINE rest == [f EXCEPT !.start = @ + a]
  <2>1. rest \in SlabFrame /\ rest.start = f.start + a /\ rest.end = f.end
    BY <1>1 DEF SlabFrame
  <2> HIDE DEF rest
  <2>2. rest.start <= rest.end  BY <1>1, <1>2, <1>8, <2>1
  <2>3. m # 1  BY <1>1, <1>2, <1>3, <1>7, <1>8
  <2>4. m - 1 \in 1 .. PageSize  BY <1>1, <1>4, <2>3
  <2>5. rest.end + 1 = rest.start + (m - 1) * a
    BY <1>1, <1>2, <1>3, <1>4, <1>5, <2>1
  <2>6. Whole(rest, i)  BY <2>4, <2>5 DEF Whole, a
  <2> QED  BY <2>1, <2>2, <2>6 DEF rest
<1> QED  BY <1>6, <1>7, <1>8 DEF a, Single

-----------------------------------------------------------------------------
\* alloc.

\* fromFirst hands out the block new, the start of the first frame or all of it.
Allots(h, r, i, new) ==
  LET first == Head(h.slabs[i])
  IN  /\ r \in HeapRecords /\ r.offset = h.offset
      /\ new \in SlabFrame /\ r.alloced = InFront(h.alloced, i, new)
      /\ \/ /\ first.end - first.start > AllocSize(i)
            /\ new = [start |-> first.start, end |-> first.start + AllocSize(i) - 1]
            /\ r.slabs = InFront(Behind(h.slabs, i), i, [first EXCEPT !.start = @ + AllocSize(i)])
            /\ r.frames = h.frames + 1
         \/ /\ first.end - first.start <= AllocSize(i)
            /\ new = first /\ r.slabs = Behind(h.slabs, i)
            /\ r.frames = h.frames

LEMMA FromFirstAllots ==
  ASSUME NEW h \in HeapRecords, NEW i \in Slabs, h.slabs[i] # <<>>
  PROVE  \E new \in SlabFrame : Allots(h, fromFirst(h, i), i, new)
<1> DEFINE first == Head(h.slabs[i])
           a == AllocSize(i)
           r == fromFirst(h, i)
<1>1. h.slabs \in Lists /\ h.alloced \in Lists /\ h.frames \in Nat /\ h.offset \in 0 .. OffsetRange-1
  BY DEF HeapRecords
<1>2. first \in SlabFrame /\ Behind(h.slabs, i) \in Lists /\ Behind(h.slabs, i)[i] = Tail(h.slabs[i])
  BY <1>1, FirstAndRest
<1>3. a \in Nat /\ a >= 2 /\ first.start \in Nat /\ first.end \in Nat
  BY <1>2, Sizes DEF SlabFrame
<1> HIDE DEF first, a
<1>4. ASSUME first.end - first.start > a
      PROVE  \E new \in SlabFrame : Allots(h, r, i, new)
  <2> DEFINE new == [start |-> first.start, end |-> first.start + a - 1]
             rest == [first EXCEPT !.start = @ + a]
  <2>1. new \in SlabFrame /\ rest \in SlabFrame  BY <1>2, <1>3 DEF SlabFrame
  <2>2. r = [h EXCEPT !.frames = @ + 1,
                      !.alloced[i] = <<new>> \o @,
                      !.slabs[i] = <<rest>> \o Tail(@)]
    BY <1>4 DEF fromFirst, carve, first, a
  <2> HIDE DEF new, rest, r
  <2>3. /\ r.frames = h.frames + 1 /\ r.offset = h.offset
        /\ r.alloced = InFront(h.alloced, i, new)
        /\ r.slabs = [h.slabs EXCEPT ![i] = <<rest>> \o Tail(@)]
        /\ r = [slabs |-> r.slabs, alloced |-> r.alloced, offset |-> r.offset, frames |-> r.frames]
    BY <2>2 DEF HeapRecords, InFront
  <2>4. r.slabs = InFront(Behind(h.slabs, i), i, rest)
    <3>1. DOMAIN h.slabs = Slabs  BY <1>1 DEF Lists
    <3> QED  BY <1>2, <2>3, <3>1 DEF InFront, Behind
  <2>5. InFront(h.alloced, i, new) \in Lists /\ InFront(Behind(h.slabs, i), i, rest) \in Lists
    BY <1>1, <1>2, <2>1, Pushed
  <2>6. r \in HeapRecords
    BY <1>1, <2>3, <2>4, <2>5 DEF HeapRecords
  <2>7. Allots(h, r, i, new)
    BY <1>4, <2>1, <2>3, <2>4, <2>6 DEF Allots, new, rest, first, a
  <2> QED  BY <2>1, <2>7
<1>5. ASSUME ~(first.end - first.start > a)
      PROVE  \E new \in SlabFrame : Allots(h, r, i, new)
  <2>1. r = [h EXCEPT !.alloced[i] = <<first>> \o @, !.slabs[i] = Tail(@)]
    BY <1>5 DEF fromFirst, handOut, first, a
  <2> HIDE DEF r
  <2>2. /\ r.frames = h.frames /\ r.offset = h.offset
        /\ r.alloced = InFront(h.alloced, i, first)
        /\ r.slabs = Behind(h.slabs, i)
        /\ r = [slabs |-> r.slabs, alloced |-> r.alloced, offset |-> r.offset, frames |-> r.frames]
    BY <2>1 DEF HeapRecords, InFront, Behind
  <2>3. InFront(h.alloced, i, first) \in Lists
    BY <1>1, <1>2, Pushed
  <2>4. r \in HeapRecords
    BY <1>1, <1>2, <2>2, <2>3 DEF HeapRecords
  <2>5. first.end - first.start <= a  BY <1>3, <1>5
  <2>6. Allots(h, r, i, first)
    BY <1>2, <2>2, <2>4, <2>5 DEF Allots, first, a
  <2> QED  BY <1>2, <2>6
<1> QED  BY <1>4, <1>5

\* The block taken from the first frame meets nothing that is in use or lost.
LEMMA AllotsSound ==
  ASSUME NEW h \in HeapRecords, NEW r, NEW i \in Slabs, NEW new, h.slabs[i] # <<>>,
         Allots(h, r, i, new), NEW gone \in SUBSET SlabFrame, NEW top \in Nat,
         Sound(h, gone, top)
  PROVE  /\ Sound(r, gone, top)
         /\ Tallied(h, gone) => Tallied(r, gone)
         /\ Single(new, i)
         /\ \A g \in In(h.alloced) \cup gone : Apart(new, g)
<1> DEFINE first == Head(h.slabs[i])
           S == Behind(h.slabs, i)
           a == AllocSize(i)
           rest == [first EXCEPT !.start = @ + a]
<1>1. h.slabs \in Lists /\ h.alloced \in Lists /\ gone \subseteq SlabFrame
  BY DEF HeapRecords
<1>2. /\ first \in SlabFrame /\ first \in Of(h.slabs, i) /\ first \in In(h.slabs)
      /\ S \in Lists
      /\ \A j \in Slabs : Of(S, j) \subseteq Of(h.slabs, j)
      /\ In(S) \subseteq In(h.slabs) /\ In(h.slabs) = In(S) \cup {first}
      /\ Separate(S) /\ \A g \in In(S) : Apart(first, g)
  BY <1>1, FirstAndRest DEF Sound
<1>3. /\ Whole(first, i)
      /\ heapStart <= first.start /\ first.start <= first.end /\ first.end < top
      /\ \A g \in In(h.alloced) \cup gone : Apart(first, g)
  BY <1>2 DEF Sound
<1>4. /\ first.end - first.start > a =>
           /\ rest \in SlabFrame /\ Whole(rest, i) /\ rest.start <= rest.end
           /\ rest.start = first.start + a /\ rest.end = first.end
      /\ first.end - first.start <= a => Single(first, i)
  BY <1>2, <1>3, WholeBlocks
<1>5. a \in Nat /\ a >= 2 /\ heapStart \in Nat  BY Sizes
<1>6. first.start \in Nat /\ first.end \in Nat  BY <1>2 DEF SlabFrame
<1>7. new \in SlabFrame /\ new.start \in Nat /\ new.end \in Nat /\ r.alloced = InFront(h.alloced, i, new)
  BY DEF Allots, SlabFrame
<1>8. \A g \in In(h.slabs) \cup In(h.alloced) \cup gone : g \in SlabFrame /\ g.start \in Nat /\ g.end \in Nat
  <2>1. \A g \in In(h.slabs) \cup In(h.alloced) \cup gone : g \in SlabFrame
    BY <1>1, Members
  <2> QED  BY <2>1 DEF SlabFrame
<1>9. \/ /\ first.end - first.start > a
         /\ new = [start |-> first.start, end |-> first.start + a - 1]
         /\ r.slabs = InFront(S, i, rest) /\ r.frames = h.frames + 1
      \/ /\ first.end - first.start <= a
         /\ new = first /\ r.slabs = S /\ r.frames = h.frames
  BY DEF Allots
<1> HIDE DEF first, S, rest, a
\* The new block lies in the first frame, and is a single one.
<1>10. /\ new.start = first.start /\ new.end <= first.end /\ new.start <= new.end
       /\ new.end + 1 = first.start + a
  <2>1. CASE first.end - first.start > a  BY <1>5, <1>6, <1>9, <2>1
  <2>2. CASE first.end - first.start <= a
    <3>1. new = first /\ first.end + 1 = first.start + a
      BY <1>4, <1>5, <1>6, <1>9, <2>2 DEF Single, a
    <3> QED  BY <1>3, <1>6, <3>1
  <2> QED  BY <1>5, <1>6, <2>1, <2>2
<1>11. Single(new, i)  BY <1>10 DEF Single, a
<1>12. \A g \in In(h.slabs) \cup In(h.alloced) \cup gone : Apart(first, g) => Apart(new, g) /\ Apart(g, new)
  BY <1>6, <1>7, <1>8, <1>10 DEF Apart
<1>13. \A g \in In(h.alloced) \cup gone : Apart(new, g) /\ Apart(g, new)
  BY <1>3, <1>12
<1>14. /\ In(r.alloced) = In(h.alloced) \cup {new} /\ Separate(r.alloced)
       /\ \A j \in Slabs : Of(r.alloced, j) = Of(h.alloced, j) \cup (IF j = i THEN {new} ELSE {})
  <2>1. Separate(h.alloced) /\ \A g \in In(h.alloced) : Apart(new, g)
    BY <1>13 DEF Sound
  <2> QED  BY <1>1, <1>7, <2>1, Pushed
\* What is free afterwards is apart from the new block and from all others.
<1>15. /\ Separate(r.slabs)
       /\ \A f \in In(r.slabs) : /\ Apart(f, new)
                                 /\ \A g \in In(h.alloced) \cup gone : Apart(f, g)
                                 /\ heapStart <= f.start /\ f.start <= f.end /\ f.end < top
       /\ \A j \in Slabs : \A f \in Of(r.slabs, j) : Whole(f, j)
  <2>1. \A f \in In(S) : /\ Apart(f, new)
                         /\ \A g \in In(h.alloced) \cup gone : Apart(f, g)
                         /\ heapStart <= f.start /\ f.start <= f.end /\ f.end < top
    BY <1>2, <1>12 DEF Sound
  <2>2. \A j \in Slabs : \A f \in Of(S, j) : Whole(f, j)
    BY <1>2 DEF Sound
  <2>3. CASE r.slabs = S  BY <1>2, <2>1, <2>2, <2>3
  <2>4. CASE first.end - first.start > a /\ r.slabs = InFront(S, i, rest)
    <3>1. /\ rest \in SlabFrame /\ Whole(rest, i) /\ rest.start <= rest.end
          /\ rest.start = first.start + a /\ rest.end = first.end
      BY <1>4, <2>4
    <3>2. \A g \in In(h.slabs) \cup In(h.alloced) \cup gone : Apart(first, g) => Apart(rest, g)
      BY <1>5, <1>6, <1>8, <3>1 DEF Apart
    <3>3. Apart(rest, new)  BY <1>5, <1>6, <1>7, <1>10, <3>1 DEF Apart
    <3>4. heapStart <= rest.start /\ rest.end < top
      BY <1>3, <1>5, <1>6, <3>1
    <3>5. \A g \in In(S) : Apart(rest, g)  BY <1>2, <3>2
    <3>6. /\ In(r.slabs) = In(S) \cup {rest} /\ Separate(r.slabs)
          /\ \A j \in Slabs : Of(r.slabs, j) = Of(S, j) \cup (IF j = i THEN {rest} ELSE {})
      BY <1>2, <2>4, <3>1, <3>5, Pushed
    <3>7. \A g \in In(h.alloced) \cup gone : Apart(rest, g)  BY <1>3, <3>2
    <3>8. \A f \in In(r.slabs) : /\ Apart(f, new)
                                 /\ \A g \in In(h.alloced) \cup gone : Apart(f, g)
                                 /\ heapStart <= f.start /\ f.start <= f.end /\ f.end < top
      BY <2>1, <3>1, <3>3, <3>4, <3>6, <3>7
    <3>9. \A j \in Slabs : \A f \in Of(r.slabs, j) : Whole(f, j)
      BY <2>2, <3>1, <3>6
    <3> QED  BY <3>6, <3>8, <3>9
  <2> QED  BY <1>9, <2>3, <2>4
<1>16. heapStart <= new.start /\ new.start <= new.end /\ new.end < top
  BY <1>3, <1>5, <1>6, <1>7, <1>10
<1>17. \A f \in In(r.slabs), g \in In(r.alloced) \cup gone : Apart(f, g)
  BY <1>14, <1>15
<1>18. \A f \in In(r.alloced), g \in gone : Apart(f, g)
  BY <1>13, <1>14 DEF Sound
<1>19. \A f \in In(r.slabs) \cup In(r.alloced) \cup gone :
         heapStart <= f.start /\ f.start <= f.end /\ f.end < top
  BY <1>14, <1>15, <1>16 DEF Sound
<1>20. \A j \in Slabs : \A f \in Of(r.alloced, j) : Single(f, j)
  BY <1>11, <1>14 DEF Sound
<1>21. /\ \A f, g \in gone : f # g => Apart(f, g)
       /\ \A f \in gone : \E j \in Slabs : Single(f, j)
  BY DEF Sound
<1>22. Sound(r, gone, top)
  BY <1>14, <1>15, <1>17, <1>18, <1>19, <1>20, <1>21 DEF Sound
<1>23. ASSUME Tallied(h, gone) PROVE Tallied(r, gone)
  <2> DEFINE X == In(S) \cup In(h.alloced) \cup gone
  <2>1. Made(h, gone) = X \cup {first}  BY <1>2 DEF Made
  <2>2. first \notin X /\ new \notin X
    <3>1. \A g \in X : Apart(first, g) /\ g \in In(h.slabs) \cup In(h.alloced) \cup gone
      BY <1>2, <1>3
    <3>2. \A g \in X : Apart(new, g)  BY <1>12, <3>1
    <3>3. ~Apart(first, first) /\ ~Apart(new, new)
      BY <1>3, <1>6, <1>7, <1>10 DEF Apart
    <3> QED  BY <3>1, <3>2, <3>3
  <2>3. /\ IsFiniteSet(X) /\ Cardinality(X) \in Nat
        /\ h.frames = Cardinality(X) + 1
    <3>1. IsFiniteSet(X \cup {first}) /\ h.frames = Cardinality(X \cup {first})
      BY <1>23, <2>1 DEF Tallied
    <3> HIDE DEF X
    <3>2. IsFiniteSet(X)
      <4>1. X \in SUBSET (X \cup {first})  OBVIOUS
      <4> QED  BY <3>1, <4>1, FS_Subset
    <3>3. Cardinality(X) \in Nat /\ Cardinality(X \cup {first}) = Cardinality(X) + 1
      BY <2>2, <3>2, FS_AddElement, FS_CardinalityType
    <3> QED  BY <3>1, <3>2, <3>3
  <2> HIDE DEF X
  <2>4. CASE new = first /\ r.slabs = S /\ r.frames = h.frames
    <3>1. Made(r, gone) = Made(h, gone)
      BY <1>2, <1>14, <2>4 DEF Made
    <3> QED  BY <1>23, <2>4, <3>1 DEF Tallied
  <2>5. CASE first.end - first.start > a /\ r.slabs = InFront(S, i, rest) /\ r.frames = h.frames + 1
    <3>1. rest \in SlabFrame /\ rest.start = first.start + a /\ rest.end = first.end
      BY <1>4, <2>5
    <3>2. In(r.slabs) = In(S) \cup {rest}
      BY <1>2, <2>5, <3>1, Pushed
    <3>3. rest \notin X /\ rest # new
      <4>1. \A g \in X : /\ Apart(first, g) /\ g.start \in Nat /\ g.end \in Nat
                         /\ g.start <= g.end
        BY <1>2, <1>3, <1>8, <1>19 DEF X, Sound
      <4>2. \A g \in X : g # rest
        BY <1>3, <1>5, <1>6, <3>1, <4>1 DEF Apart
      <4>3. rest # new  BY <1>5, <1>6, <1>10, <3>1
      <4> QED  BY <4>2, <4>3
    <3>4. Made(r, gone) = (X \cup {new}) \cup {rest}
      BY <1>14, <3>2 DEF Made, X
    <3>5. /\ IsFiniteSet(X \cup {new}) /\ Cardinality(X \cup {new}) = Cardinality(X) + 1
      BY <2>2, <2>3, FS_AddElement
    <3>6. rest \notin X \cup {new}  BY <3>3
    <3>7. /\ IsFiniteSet((X \cup {new}) \cup {rest})
          /\ Cardinality((X \cup {new}) \cup {rest}) = Cardinality(X \cup {new}) + 1
      BY <3>5, <3>6, FS_AddElement
    <3> QED  BY <2>3, <2>5, <3>4, <3>5, <3>7 DEF Tallied
  <2> QED  BY <1>9, <2>4, <2>5
<1> QED  BY <1>11, <1>13, <1>22, <1>23

\* A page more, behind all memory handed out so far.
Page(h) == [start |-> nextMemory(h), end |-> nextMemory(h) + PageSize - 1]

LEMMA MoreMemType ==
  ASSUME NEW h \in HeapRecords, NEW i \in Slabs, h.slabs[i] = <<>>
  PROVE  /\ moreMem(h, i) \in HeapRecords
         /\ Page(h) \in SlabFrame
         /\ moreMem(h, i).slabs = InFront(h.slabs, i, Page(h))
         /\ moreMem(h, i).slabs[i] # <<>>
         /\ moreMem(h, i).alloced = h.alloced
         /\ moreMem(h, i).offset = (h.offset + PageSize) % OffsetRange
         /\ moreMem(h, i).frames = h.frames + 1
<1> DEFINE r == moreMem(h, i)
           p == Page(h)
<1>1. h.slabs \in Lists /\ h.alloced \in Lists /\ h.offset \in 0 .. OffsetRange-1 /\ h.frames \in Nat
  BY DEF HeapRecords
<1>2. p \in SlabFrame
  BY <1>1, Sizes, SMTT(20) DEF Page, nextMemory, SlabFrame
<1>3. r = [h EXCEPT !.frames = @ + 1, !.slabs[i] = <<p>>, !.offset = (@ + PageSize) % OffsetRange]
  BY DEF moreMem, Page
<1> HIDE DEF r, p
<1>4. /\ r.frames = h.frames + 1 /\ r.alloced = h.alloced
      /\ r.offset = (h.offset + PageSize) % OffsetRange
      /\ r.slabs = [h.slabs EXCEPT ![i] = <<p>>]
      /\ r = [slabs |-> r.slabs, alloced |-> r.alloced, offset |-> r.offset, frames |-> r.frames]
  BY <1>3 DEF HeapRecords
<1>5. <<p>> \o <<>> = <<p>>  OBVIOUS
<1>6. r.slabs = InFront(h.slabs, i, p)
  BY <1>4, <1>5 DEF InFront
<1>7. r.slabs \in Lists /\ r.slabs[i] # <<>>
  BY <1>1, <1>2, <1>6, Pushed
<1>8. r.offset \in 0 .. OffsetRange-1  BY <1>1, <1>4, Sizes, SMTT(20)
<1>9. r \in HeapRecords  BY <1>1, <1>4, <1>7, <1>8 DEF HeapRecords
<1> QED  BY <1>2, <1>4, <1>6, <1>7, <1>9 DEF r, p

LEMMA MoreMemSound ==
  ASSUME NEW h \in HeapRecords, NEW i \in Slabs, h.slabs[i] = <<>>,
         NEW gone \in SUBSET SlabFrame, NEW top \in Nat,
         Sound(h, gone, top), nextMemory(h) = top, top >= heapStart
  PROVE  /\ Sound(moreMem(h, i), gone, top + PageSize)
         /\ Tallied(h, gone) => Tallied(moreMem(h, i), gone)
<1> DEFINE r == moreMem(h, i)
           p == Page(h)
<1>1. /\ r \in HeapRecords /\ p \in SlabFrame /\ r.slabs = InFront(h.slabs, i, p)
      /\ r.alloced = h.alloced /\ r.frames = h.frames + 1
  BY MoreMemType
<1>2. h.slabs \in Lists /\ h.alloced \in Lists  BY DEF HeapRecords
<1>3. p.start = top /\ p.end = top + PageSize - 1  BY DEF Page
<1>4. PageSize \in Nat /\ PageSize >= 2 /\ heapStart \in Nat  BY Sizes
<1>5. Whole(p, i)
  <2>1. PICK m \in 1 .. PageSize : PageSize = m * AllocSize(i)  BY Sizes
  <2>2. p.end + 1 = p.start + m * AllocSize(i)  BY <1>3, <1>4, <2>1
  <2> QED  BY <2>2 DEF Whole
<1> HIDE DEF r, p
<1>6. \A g \in In(h.slabs) \cup In(h.alloced) \cup gone :
        /\ heapStart <= g.start /\ g.start <= g.end /\ g.end < top
        /\ g.start \in Nat /\ g.end \in Nat
  <2>1. \A g \in In(h.slabs) \cup In(h.alloced) \cup gone : g \in SlabFrame
    BY <1>2, Members
  <2> QED  BY <2>1 DEF SlabFrame, Sound
<1>7. \A g \in In(h.slabs) \cup In(h.alloced) \cup gone : Apart(p, g)
  BY <1>3, <1>6 DEF Apart
<1>8. /\ In(r.slabs) = In(h.slabs) \cup {p} /\ Separate(r.slabs)
      /\ \A j \in Slabs : Of(r.slabs, j) = Of(h.slabs, j) \cup (IF j = i THEN {p} ELSE {})
  <2>1. Separate(h.slabs) /\ \A g \in In(h.slabs) : Apart(p, g)  BY <1>7 DEF Sound
  <2> QED  BY <1>1, <1>2, <2>1, Pushed
<1>9. \A f \in In(r.slabs) \cup In(r.alloced) \cup gone :
        heapStart <= f.start /\ f.start <= f.end /\ f.end < top + PageSize
  BY <1>1, <1>3, <1>4, <1>6, <1>8
<1>10. \A f \in In(r.slabs), g \in In(r.alloced) \cup gone : Apart(f, g)
  BY <1>1, <1>7, <1>8 DEF Sound
<1>11. \A j \in Slabs : \A f \in Of(r.slabs, j) : Whole(f, j)
  BY <1>5, <1>8 DEF Sound
<1>12. Sound(r, gone, top + PageSize)
  BY <1>1, <1>8, <1>9, <1>10, <1>11 DEF Sound
<1>13. ASSUME Tallied(h, gone) PROVE Tallied(r, gone)
  <2>1. Made(r, gone) = Made(h, gone) \cup {p}  BY <1>1, <1>8 DEF Made
  <2>2. p \notin Made(h, gone)
    <3>1. ~Apart(p, p)  BY <1>3, <1>4 DEF Apart
    <3> QED  BY <1>7, <3>1 DEF Made
  <2>3. IsFiniteSet(Made(h, gone)) /\ h.frames = Cardinality(Made(h, gone))
    BY <1>13 DEF Tallied
  <2>4. /\ IsFiniteSet(Made(h, gone) \cup {p})
        /\ Cardinality(Made(h, gone) \cup {p}) = Cardinality(Made(h, gone)) + 1
    BY <2>2, <2>3, FS_AddElement
  <2> QED  BY <1>1, <2>1, <2>3, <2>4 DEF Tallied
<1> QED  BY <1>12, <1>13 DEF r

-----------------------------------------------------------------------------
\* free.

LEMMA PlaceIs ==
  ASSUME NEW h \in HeapRecords, NEW i \in Slabs, NEW addr
  PROVE  /\ place(h, i, addr) = 0 => \A k \in 1 .. Len(h.alloced[i]) : h.alloced[i][k].start # addr
         /\ place(h, i, addr) # 0 => /\ place(h, i, addr) \in 1 .. Len(h.alloced[i])
                                     /\ h.alloced[i][place(h, i, addr)].start = addr
<1> DEFINE at == {k \in DOMAIN h.alloced[i] : h.alloced[i][k].start = addr}
<1>1. h.alloced[i] \in Seq(SlabFrame) /\ DOMAIN h.alloced[i] = 1 .. Len(h.alloced[i])
      /\ Len(h.alloced[i]) \in Nat
  BY Members DEF HeapRecords
<1>2. at \in SUBSET Nat /\ 0 \notin at  BY <1>1
<1>3. place(h, i, addr) = IF at = {} THEN 0 ELSE CHOOSE k \in at : \A l \in at : k <= l
  BY DEF place
<1>4. \A k \in at : k \in 1 .. Len(h.alloced[i]) /\ h.alloced[i][k].start = addr
  BY <1>1
<1>5. at = {} => \A k \in 1 .. Len(h.alloced[i]) : h.alloced[i][k].start # addr
  BY <1>1
<1> HIDE DEF at
<1>6. CASE at = {}  BY <1>3, <1>5, <1>6
<1>7. CASE at # {}
  <2>1. \E k \in at : \A l \in at : k <= l  BY <1>2, <1>7, LeastElement
  <2>2. place(h, i, addr) \in at  BY <1>3, <1>7, <2>1
  <2> QED  BY <1>2, <1>4, <2>2
<1> QED  BY <1>6, <1>7

LEMMA SlabOfIs ==
  ASSUME NEW h \in HeapRecords, NEW addr
  PROVE  /\ slabOf(h, addr) = 0 => \A i \in Slabs : place(h, i, addr) = 0
         /\ slabOf(h, addr) # 0 => /\ slabOf(h, addr) \in Slabs
                                   /\ place(h, slabOf(h, addr), addr) # 0
<1> DEFINE in == {i \in Slabs : place(h, i, addr) # 0}
<1>1. in \in SUBSET Nat /\ 0 \notin in  BY HeapAssumption DEF Slabs
<1>2. slabOf(h, addr) = IF in = {} THEN 0 ELSE CHOOSE i \in in : \A j \in in : i <= j
  BY DEF slabOf
<1>3. \A i \in in : i \in Slabs /\ place(h, i, addr) # 0  OBVIOUS
<1>4. in = {} => \A i \in Slabs : place(h, i, addr) = 0  OBVIOUS
<1> HIDE DEF in
<1>5. CASE in = {}  BY <1>2, <1>4, <1>5
<1>6. CASE in # {}
  <2>1. \E i \in in : \A j \in in : i <= j  BY <1>1, <1>6, LeastElement
  <2>2. slabOf(h, addr) \in in  BY <1>2, <1>6, <2>1
  <2> QED  BY <1>1, <1>3, <2>2
<1> QED  BY <1>5, <1>6

\* The lists without the first k frames of class i.
Beheaded(S, i, k) == [S EXCEPT ![i] = SubSeq(S[i], k + 1, Len(S[i]))]

\* What free does: nothing, or the frame at k of slab i becomes free, the ones
\* before it are forgotten.
Frees(h, r, gone, i, k) ==
  LET s == h.alloced[i]
  IN  /\ r.slabs = InFront(h.slabs, i, s[k])
      /\ r.alloced = Beheaded(h.alloced, i, k)
      /\ gone = {s[l] : l \in 1 .. k - 1}

LEMMA FreeFrees ==
  ASSUME NEW h \in HeapRecords, NEW addr
  PROVE  LET r == free(h, addr)
             gone == skipped(h, addr)
         IN  /\ r \in HeapRecords /\ gone \in SUBSET SlabFrame /\ r.offset = h.offset
             /\ r.frames = h.frames
             /\ \/ /\ r = h /\ gone = {}
                   /\ \A i \in Slabs : \A f \in Of(h.alloced, i) : f.start # addr
                \/ \E i \in Slabs : \E k \in 1 .. Len(h.alloced[i]) :
                     h.alloced[i][k].start = addr /\ Frees(h, r, gone, i, k)
<1> DEFINE r == free(h, addr)
           gone == skipped(h, addr)
           i == slabOf(h, addr)
           k == place(h, i, addr)
           s == h.alloced[i]
<1>1. CASE i = 0
  <2>1. r = h /\ gone = {}  BY <1>1 DEF free, skipped
  <2>2. \A j \in Slabs : place(h, j, addr) = 0  BY <1>1, SlabOfIs
  <2>3. \A j \in Slabs : \A f \in Of(h.alloced, j) : f.start # addr
    BY <2>2, PlaceIs DEF Of
  <2> QED  BY <2>1, <2>3
<1>2. CASE i # 0
  <2>1. i \in Slabs /\ k \in 1 .. Len(s) /\ s[k].start = addr
    BY <1>2, SlabOfIs, PlaceIs
  <2>2. r = [h EXCEPT !.slabs[i] = <<s[k]>> \o @, !.alloced[i] = SubSeq(@, k+1, Len(@))]
        /\ gone = Range(SubSeq(s, 1, k - 1))
    BY <1>2 DEF free, skipped
  <2> HIDE DEF r, gone, i, k
  <2>3. h.slabs \in Lists /\ h.alloced \in Lists /\ s \in Seq(SlabFrame) /\ Len(s) \in Nat
    BY <2>1, Members DEF HeapRecords
  <2> HIDE DEF s
  <2>4. s = h.alloced[i]  BY DEF s
  <2>5. s[k] \in SlabFrame /\ SubSeq(s, k+1, Len(s)) \in Seq(SlabFrame)
    BY <2>1, <2>3
  <2>6. /\ r.frames = h.frames /\ r.offset = h.offset
        /\ r.slabs = InFront(h.slabs, i, s[k])
        /\ r.alloced = [h.alloced EXCEPT ![i] = SubSeq(s, k+1, Len(s))]
        /\ r = [slabs |-> r.slabs, alloced |-> r.alloced, offset |-> r.offset, frames |-> r.frames]
    BY <2>1, <2>2, <2>4 DEF HeapRecords, InFront
  <2>7. r.slabs \in Lists  BY <2>1, <2>3, <2>5, <2>6, Pushed
  <2>8. r.alloced \in Lists  BY <2>3, <2>5, <2>6 DEF Lists
  <2>9. r \in HeapRecords  BY <2>6, <2>7, <2>8 DEF HeapRecords
  <2>10. gone = {s[l] : l \in 1 .. k - 1}
    <3>1. k - 1 \in 0 .. Len(s) /\ k - 1 <= Len(s)  BY <2>1, <2>3
    <3>2. /\ SubSeq(s, 1, k - 1) \in Seq(SlabFrame) /\ Len(SubSeq(s, 1, k - 1)) = k - 1
          /\ \A l \in 1 .. k - 1 : SubSeq(s, 1, k - 1)[l] = s[l]
      BY <2>1, <2>3, <3>1
    <3>3. DOMAIN SubSeq(s, 1, k - 1) = 1 .. k - 1  BY <3>1, <3>2
    <3> QED  BY <2>2, <3>2, <3>3 DEF Range
  <2>11. \A l \in 1 .. k - 1 : s[l] \in SlabFrame  BY <2>1, <2>3
  <2>12. Frees(h, r, gone, i, k)  BY <2>4, <2>6, <2>10 DEF Frees, Beheaded
  <2> QED  BY <2>1, <2>4, <2>6, <2>9, <2>10, <2>11, <2>12 DEF r, gone
<1> QED  BY <1>1, <1>2

\* What is left of the lists without the first k frames of class i.
Remains(S, R, i, k) ==
  /\ R \in Lists
  /\ \A j \in Slabs : Of(R, j) \subseteq Of(S, j)
  /\ In(R) \subseteq In(S)
  /\ \A j \in Slabs : j # i => Of(R, j) = Of(S, j)
  /\ \A f \in Of(S, i) : f \in Of(R, i) \/ \E l \in 1 .. k : f = S[i][l]
  /\ Separate(S) => /\ Separate(R)
                    /\ \A l \in 1 .. k : \A g \in In(R) : Apart(S[i][l], g)

LEMMA Behead ==
  ASSUME NEW S \in Lists, NEW i \in Slabs, NEW k \in 1 .. Len(S[i])
  PROVE  Remains(S, Beheaded(S, i, k), i, k)
<1> DEFINE T == SubSeq(S[i], k + 1, Len(S[i]))
           R == Beheaded(S, i, k)
<1> USE DEF Beheaded
<1>1. S[i] \in Seq(SlabFrame) /\ Len(S[i]) \in Nat /\ DOMAIN S = Slabs  BY DEF Lists
<1>2. /\ T \in Seq(SlabFrame) /\ Len(T) = Len(S[i]) - k
      /\ \A l \in 1 .. Len(T) : T[l] = S[i][l + k]
  BY <1>1
<1> HIDE DEF T
<1>3. /\ R \in Lists
      /\ \A j \in Slabs : Of(R, j) \subseteq Of(S, j)
      /\ In(R) \subseteq In(S)
      /\ Separate(S) => /\ Separate(R)
                        /\ \A l \in 1 .. k : \A g \in In(R) : Apart(S[i][l], g)
  BY <1>2, Dropped DEF T
<1>4. R[i] = T /\ \A j \in Slabs : j # i => R[j] = S[j]  BY <1>1 DEF T
<1>5. \A j \in Slabs : j # i => Of(R, j) = Of(S, j)  BY <1>4 DEF Of
<1>6. ASSUME NEW l \in 1 .. Len(S[i]), l \notin 1 .. k
      PROVE  S[i][l] \in Of(R, i)
  <2>1. l - k \in 1 .. Len(T) /\ (l - k) + k = l  BY <1>1, <1>2, <1>6
  <2>2. T[l - k] = S[i][l]  BY <1>2, <2>1
  <2> QED  BY <1>4, <2>1, <2>2 DEF Of
<1> HIDE DEF R
<1>7. \A f \in Of(S, i) : f \in Of(R, i) \/ \E l \in 1 .. k : f = S[i][l]
  BY <1>6 DEF Of
<1> QED  BY <1>3, <1>5, <1>7 DEF Remains, R

\* A block a caller frees becomes free or is lost already; the blocks before it
\* in the list are lost, and callers go on holding all others.
LEMMA FreeSound ==
  ASSUME NEW h \in HeapRecords, NEW gone \in SUBSET SlabFrame, NEW top \in Nat,
         Sound(h, gone, top),
         NEW held_1 \in SUBSET [addr : Nat, slab : Slabs], NEW b \in held_1,
         AllHeld(h, held_1), AllKnown(h, held_1, gone),
         NEW r, r = free(h, b.addr), NEW sk, sk = skipped(h, b.addr)
  PROVE  /\ Sound(r, gone \cup sk, top)
         /\ AllHeld(r, held_1 \ {b}) /\ AllKnown(r, held_1 \ {b}, gone \cup sk)
         /\ Tallied(h, gone) => Tallied(r, gone \cup sk)
<1>1. /\ r \in HeapRecords /\ sk \in SUBSET SlabFrame /\ r.frames = h.frames
      /\ \/ /\ r = h /\ sk = {}
            /\ \A i \in Slabs : \A f \in Of(h.alloced, i) : f.start # b.addr
         \/ \E i \in Slabs : \E k \in 1 .. Len(h.alloced[i]) :
              h.alloced[i][k].start = b.addr /\ Frees(h, r, sk, i, k)
  BY FreeFrees
<1>2. CASE r = h /\ sk = {} /\ \A i \in Slabs : \A f \in Of(h.alloced, i) : f.start # b.addr
  <2>1. Sound(r, gone \cup sk, top)  BY <1>2
  <2>2. AllHeld(r, held_1 \ {b})
    <3>1. ASSUME NEW i \in Slabs, NEW f \in Of(h.alloced, i)
          PROVE  [addr |-> f.start, slab |-> i] \in held_1 \ {b}
      <4>1. f.start # b.addr  BY <1>2, <3>1
      <4>2. [addr |-> f.start, slab |-> i].addr = f.start  OBVIOUS
      <4>3. [addr |-> f.start, slab |-> i] # b  BY <4>1, <4>2
      <4> QED  BY <4>3, <3>1 DEF AllHeld
    <3> QED  BY <1>2, <3>1 DEF AllHeld
  <2>3. AllKnown(r, held_1 \ {b}, gone \cup sk)  BY <1>2 DEF AllKnown
  <2>4. gone \cup sk = gone /\ r = h  BY <1>2
  <2> QED  BY <2>1, <2>2, <2>3, <2>4
<1>3. ASSUME NEW i \in Slabs, NEW k \in 1 .. Len(h.alloced[i]),
             h.alloced[i][k].start = b.addr, Frees(h, r, sk, i, k)
      PROVE  /\ Sound(r, gone \cup sk, top)
             /\ AllHeld(r, held_1 \ {b}) /\ AllKnown(r, held_1 \ {b}, gone \cup sk)
             /\ Tallied(h, gone) => Tallied(r, gone \cup sk)
  <2> DEFINE A == h.alloced
             s == A[i]
             f == s[k]
  <2>1. h.slabs \in Lists /\ A \in Lists  BY DEF HeapRecords
  <2>2. /\ r.slabs = InFront(h.slabs, i, f)
        /\ r.alloced = Beheaded(A, i, k)
        /\ sk = {s[l] : l \in 1 .. k - 1}
    BY <1>3 DEF Frees
  <2>3. /\ Len(s) \in Nat /\ \A l \in 1 .. Len(s) : s[l] \in Of(A, i)
        /\ \A j \in Slabs : Of(A, j) \subseteq In(A)
        /\ In(A) \subseteq SlabFrame /\ In(h.slabs) \subseteq SlabFrame
    BY <2>1, Members
  <2>4. /\ r.alloced \in Lists
        /\ \A j \in Slabs : Of(r.alloced, j) \subseteq Of(A, j)
        /\ In(r.alloced) \subseteq In(A)
        /\ \A j \in Slabs : j # i => Of(r.alloced, j) = Of(A, j)
        /\ \A g \in Of(A, i) : g \in Of(r.alloced, i) \/ \E l \in 1 .. k : g = s[l]
        /\ Separate(r.alloced)
        /\ \A l \in 1 .. k : \A g \in In(r.alloced) : Apart(s[l], g)
    <3>1. Separate(A)  BY DEF Sound
    <3>2. Remains(A, Beheaded(A, i, k), i, k)  BY <2>1, Behead
    <3>3. Remains(A, r.alloced, i, k)  BY <2>2, <3>2
    <3> QED  BY <3>1, <3>3 DEF Remains
  <2>5. f.start = b.addr /\ f \in Of(A, i) /\ f \in In(A) /\ f \in SlabFrame
    BY <1>3, <2>3
  <2>6. \A g \in sk : g \in Of(A, i) /\ g \in In(A) /\ g \in SlabFrame
    <3>1. \A l \in 1 .. k - 1 : l \in 1 .. Len(s)  BY <2>3
    <3> QED  BY <2>2, <2>3, <3>1
  <2>7. \A l, m \in 1 .. k : l # m => Apart(s[l], s[m])
    <3>1. \A l \in 1 .. k : l \in 1 .. Len(s)  BY <2>3
    <3> QED  BY <3>1 DEF Sound, Separate
  <2>8. k \in 1 .. k /\ \A l \in 1 .. k - 1 : l \in 1 .. k /\ l # k
    BY <2>3
  <2>9. \A l \in 1 .. k : l = k \/ l \in 1 .. k - 1
    BY <2>3
  <2> HIDE DEF A
  <2> HIDE DEF s
  <2> HIDE DEF f
  <2>10. f = s[k]  BY DEF f
  <2>11. \A g \in sk : /\ \A x \in In(r.alloced) : Apart(g, x)
                       /\ Apart(f, g)
                       /\ \A x \in sk : g # x => Apart(g, x)
    <3> TAKE g \in sk
    <3>1. PICK l \in 1 .. k - 1 : g = s[l]  BY <2>2
    <3>2. l \in 1 .. k /\ l # k  BY <2>8
    <3>3. \A x \in sk : \E m \in 1 .. k : x = s[m]  BY <2>2, <2>8
    <3>4. \A x \in sk : g # x => Apart(g, x)  BY <2>7, <3>1, <3>2, <3>3
    <3>5. Apart(f, g)  BY <2>7, <2>8, <2>10, <3>1, <3>2
    <3> QED  BY <2>4, <3>1, <3>2, <3>4, <3>5
  <2>12. \A g \in In(r.alloced) : Apart(f, g)
    BY <2>4, <2>8, <2>10
  <2>13. A = h.alloced  BY DEF A
  \* Sound(r, gone \cup sk, top)
  <2>14. \A x, y \in SlabFrame : Apart(x, y) => Apart(y, x)  BY DEF Apart
  <2>15. /\ \A x \in In(h.slabs) : x \in SlabFrame /\ Apart(x, f) /\ Apart(f, x)
         /\ \A x \in In(h.slabs), g \in In(A) \cup gone : Apart(x, g)
         /\ \A x \in In(A), g \in gone : Apart(x, g) /\ Apart(g, x)
    BY <2>3, <2>5, <2>13, <2>14 DEF Sound
  <2>16. /\ Separate(r.slabs)
         /\ In(r.slabs) = In(h.slabs) \cup {f}
         /\ \A j \in Slabs : Of(r.slabs, j) = Of(h.slabs, j) \cup (IF j = i THEN {f} ELSE {})
    <3>1. Separate(h.slabs)  BY DEF Sound
    <3> QED  BY <2>1, <2>2, <2>5, <2>15, <3>1, Pushed
  <2>17. \A x \in In(r.slabs), g \in In(r.alloced) \cup (gone \cup sk) : Apart(x, g)
    <3>1. ASSUME NEW x \in In(h.slabs), NEW g \in In(r.alloced) \cup (gone \cup sk)
          PROVE  Apart(x, g)
      BY <2>4, <2>6, <2>15, <3>1
    <3>2. ASSUME NEW g \in In(r.alloced) \cup (gone \cup sk)
          PROVE  Apart(f, g)
      BY <2>5, <2>11, <2>12, <2>15, <3>2
    <3> QED  BY <2>16, <3>1, <3>2
  <2>18. \A x \in In(r.alloced), g \in gone \cup sk : Apart(x, g)
    <3>1. ASSUME NEW x \in In(r.alloced), NEW g \in sk PROVE Apart(x, g)
      BY <2>3, <2>4, <2>6, <2>11, <2>14, <3>1
    <3> QED  BY <2>4, <2>15, <3>1
  <2>19. \A x, g \in gone \cup sk : x # g => Apart(x, g)
    <3>1. \A x, g \in gone : x # g => Apart(x, g)  BY DEF Sound
    <3> QED  BY <2>6, <2>11, <2>15, <3>1
  <2>20. \A x \in In(r.slabs) \cup In(r.alloced) \cup (gone \cup sk) :
           heapStart <= x.start /\ x.start <= x.end /\ x.end < top
    <3>1. \A x \in In(h.slabs) \cup In(A) \cup gone :
            heapStart <= x.start /\ x.start <= x.end /\ x.end < top
      BY <2>13 DEF Sound
    <3> QED  BY <2>4, <2>5, <2>6, <2>16, <3>1
  <2>21. Single(f, i) /\ \A j \in Slabs : \A x \in Of(r.alloced, j) : Single(x, j)
    BY <2>4, <2>5, <2>13 DEF Sound
  <2>22. Whole(f, i)
    <3>1. AllocSize(i) \in Nat /\ PageSize \in Nat /\ PageSize >= 2 /\ 1 \in 1 .. PageSize
      BY Sizes
    <3>2. f.end + 1 = f.start + 1 * AllocSize(i)  BY <2>21, <3>1 DEF Single
    <3> QED  BY <3>1, <3>2 DEF Whole
  <2>23. \A j \in Slabs : \A x \in Of(r.slabs, j) : Whole(x, j)
    BY <2>16, <2>22 DEF Sound
  <2>33. \A x \in gone \cup sk : \E j \in Slabs : Single(x, j)
    <3>1. \A x \in sk : Single(x, i)  BY <2>6, <2>13 DEF Sound
    <3> QED  BY <3>1 DEF Sound
  <2>24. Sound(r, gone \cup sk, top)
    BY <2>4, <2>16, <2>17, <2>18, <2>19, <2>20, <2>21, <2>23, <2>33 DEF Sound
  \* Who holds what.
  <2>25. AllHeld(r, held_1 \ {b})
    <3>1. ASSUME NEW j \in Slabs, NEW g \in Of(r.alloced, j)
          PROVE  [addr |-> g.start, slab |-> j] \in held_1 \ {b}
      <4>1. g \in Of(A, j) /\ g \in In(r.alloced)
        BY <2>4, <3>1, Members
      <4>2. [addr |-> g.start, slab |-> j] \in held_1
        BY <2>13, <4>1 DEF AllHeld
      <4>3. /\ g.start <= g.end /\ f.start <= f.end
            /\ g.start \in Nat /\ g.end \in Nat /\ f.start \in Nat /\ f.end \in Nat
        <5>1. g \in SlabFrame  BY <2>3, <2>4, <4>1
        <5>2. g.start <= g.end /\ f.start <= f.end
          BY <2>4, <2>5, <2>13, <4>1 DEF Sound
        <5> QED  BY <2>5, <5>1, <5>2 DEF SlabFrame
      <4>4. Apart(f, g)  BY <2>12, <4>1
      <4>5. g.start # f.start  BY <4>3, <4>4 DEF Apart
      <4>6. [addr |-> g.start, slab |-> j].addr = g.start  OBVIOUS
      <4> QED  BY <2>5, <4>2, <4>5, <4>6
    <3> QED  BY <3>1 DEF AllHeld
  <2>26. b.addr \in Nat /\ b.slab \in Slabs /\ b = [addr |-> b.addr, slab |-> b.slab]
    OBVIOUS
  <2>27. Piece(b).start = f.start /\ Piece(b).end >= f.start /\ f.end >= f.start
         /\ Piece(b).end \in Int /\ f.start \in Int /\ f.end \in Int
    <3>1. AllocSize(b.slab) \in Nat /\ AllocSize(b.slab) >= 2  BY <2>26, Sizes
    <3>2. AllocSize(i) \in Nat /\ AllocSize(i) >= 2  BY Sizes
    <3>3. f.start \in Nat /\ f.end \in Nat  BY <2>5 DEF SlabFrame
    <3> QED  BY <2>5, <2>21, <2>26, <3>1, <3>2, <3>3 DEF Piece, Single
  <2>28. ~Apart(f, Piece(b))  BY <2>27 DEF Apart
  <2>29. b.slab = i
    <3>1. Piece(b) \in Of(A, b.slab) \cup gone  BY <2>13 DEF AllKnown
    <3>2. Piece(b) \notin gone  BY <2>5, <2>15, <2>28
    <3>3. PICK l \in 1 .. Len(A[b.slab]) : Piece(b) = A[b.slab][l]
      BY <3>1, <3>2 DEF Of
    <3>4. Separate(A)  BY <2>13 DEF Sound
    <3>5. b.slab # i => Apart(A[i][k], A[b.slab][l])
      BY <2>13, <2>26, <3>4 DEF Separate
    <3>6. f = A[i][k]  BY <2>10 DEF s
    <3> QED  BY <2>28, <3>3, <3>5, <3>6
  <2>30. ASSUME NEW c \in held_1 \ {b}
         PROVE  Piece(c) \in Of(r.alloced, c.slab) \cup (gone \cup sk)
    <3>1. c \in held_1 /\ c.addr \in Nat /\ c.slab \in Slabs
          /\ c = [addr |-> c.addr, slab |-> c.slab] /\ c # b
      BY <2>30
    <3>2. Piece(c) \in Of(A, c.slab) \cup gone  BY <2>13, <3>1 DEF AllKnown
    <3>3. CASE c.slab = i /\ Piece(c) \in Of(A, i)
      <4>1. Piece(c) \in Of(r.alloced, i) \/ \E l \in 1 .. k : Piece(c) = s[l]
        BY <2>4, <3>3
      <4>2. Piece(c) # f
        <5>1. Piece(c).start = c.addr  BY DEF Piece
        <5>2. c.addr # b.addr  BY <2>26, <2>29, <3>1, <3>3
        <5> QED  BY <2>5, <5>1, <5>2
      <4>3. \A l \in 1 .. k : Piece(c) = s[l] => Piece(c) \in sk
        BY <2>2, <2>9, <2>10, <4>2
      <4> QED  BY <3>3, <4>1, <4>3
    <3> QED  BY <2>4, <3>1, <3>2, <3>3
  <2>31. AllKnown(r, held_1 \ {b}, gone \cup sk)  BY <2>30 DEF AllKnown
  <2>32. Tallied(h, gone) => Tallied(r, gone \cup sk)
    <3>1. \A g \in In(A) : g \in In(r.alloced) \/ g = f \/ g \in sk
      <4> TAKE g \in In(A)
      <4>1. PICK j \in Slabs : g \in Of(A, j)  BY DEF In
      <4>2. Of(r.alloced, j) \subseteq In(r.alloced)  BY <2>4, Members
      <4>3. g \in Of(r.alloced, j) \/ \E l \in 1 .. k : g = s[l]  BY <2>4, <4>1
      <4> QED  BY <2>2, <2>9, <2>10, <4>2, <4>3
    <3>2. Made(r, gone \cup sk) = Made(h, gone)
      BY <2>4, <2>5, <2>6, <2>13, <2>16, <3>1 DEF Made
    <3> QED  BY <1>1, <3>2 DEF Tallied
  <2> QED  BY <2>24, <2>25, <2>31, <2>32
<1> QED  BY <1>1, <1>2, <1>3

-----------------------------------------------------------------------------
\* Blocks keep their bounds: what is one frame of a class stays one.

\* free moves frames between the lists and loses some.
LEMMA FreeKeepsPieces ==
  ASSUME NEW h \in HeapRecords, NEW addr, NEW gone,
         NEW r, r = free(h, addr), NEW sk, sk = skipped(h, addr), NEW j \in Slabs
  PROVE  Somewhere(h, gone, j) \subseteq Somewhere(r, gone \cup sk, j)
<1>1. \/ r = h /\ sk = {}
      \/ \E i \in Slabs : \E k \in 1 .. Len(h.alloced[i]) : Frees(h, r, sk, i, k)
  BY FreeFrees
<1>2. CASE r = h /\ sk = {}  BY <1>2 DEF Somewhere
<1>3. ASSUME NEW i \in Slabs, NEW k \in 1 .. Len(h.alloced[i]), Frees(h, r, sk, i, k)
      PROVE  Somewhere(h, gone, j) \subseteq Somewhere(r, gone \cup sk, j)
  <2> DEFINE A == h.alloced
             f == A[i][k]
  <2>1. h.slabs \in Lists /\ A \in Lists  BY DEF HeapRecords
  <2>2. /\ r.slabs = InFront(h.slabs, i, f) /\ r.alloced = Beheaded(A, i, k)
        /\ sk = {A[i][l] : l \in 1 .. k - 1}
    BY <1>3 DEF Frees
  <2>3. /\ f \in SlabFrame /\ k \in Nat  BY <2>1, Members
  <2>4. Of(r.slabs, j) = Of(h.slabs, j) \cup (IF j = i THEN {f} ELSE {})
    <3> HIDE DEF f
    <3> QED  BY <2>1, <2>2, <2>3, Pushed
  <2>5. Remains(A, r.alloced, i, k)
    <3> HIDE DEF A
    <3>1. Remains(A, Beheaded(A, i, k), i, k)  BY <2>1, Behead DEF A
    <3> QED  BY <2>2, <3>1
  <2>6. /\ j # i => Of(r.alloced, j) = Of(A, j)
        /\ \A g \in Of(A, i) : g \in Of(r.alloced, i) \/ \E l \in 1 .. k : g = A[i][l]
    BY <2>5 DEF Remains
  <2>7. \A l \in 1 .. k : A[i][l] = f \/ A[i][l] \in sk
    <3>1. \A l \in 1 .. k : l = k \/ l \in 1 .. k - 1  BY <2>3
    <3> QED  BY <2>2, <3>1
  <2>8. ASSUME NEW g \in Of(A, j) PROVE g \in Somewhere(r, gone \cup sk, j)
    <3>1. CASE j # i  BY <2>6, <2>8, <3>1 DEF Somewhere
    <3>2. CASE j = i  BY <2>4, <2>6, <2>7, <2>8, <3>2 DEF Somewhere
    <3> QED  BY <3>1, <3>2
  <2> QED  BY <2>4, <2>8 DEF Somewhere
<1> QED  BY <1>1, <1>2, <1>3

\* All frames but the first are behind it.
LEMMA Others ==
  ASSUME NEW S \in Lists, NEW i \in Slabs, S[i] # <<>>, NEW j \in Slabs, NEW f \in Of(S, j)
  PROVE  f \in Of(Behind(S, i), j) \/ (j = i /\ f = Head(S[i]))
<1>1. S[i] \in Seq(SlabFrame) /\ Len(S[i]) \in Nat \ {0} /\ DOMAIN S = Slabs  BY DEF Lists
<1>2. CASE j # i
  <2>1. Behind(S, i)[j] = S[j]  BY <1>1, <1>2 DEF Behind
  <2> QED  BY <2>1 DEF Of
<1>3. CASE j = i
  <2>1. PICK k \in 1 .. Len(S[i]) : f = S[i][k]  BY <1>3 DEF Of
  <2>2. CASE k = 1  BY <1>1, <1>3, <2>1, <2>2
  <2>3. CASE k # 1
    <3>1. /\ Behind(S, i)[i] = Tail(S[i]) /\ Len(Tail(S[i])) = Len(S[i]) - 1
          /\ \A m \in 1 .. Len(Tail(S[i])) : Tail(S[i])[m] = S[i][m + 1]
      BY <1>1 DEF Behind
    <3>2. k - 1 \in 1 .. Len(Tail(S[i])) /\ (k - 1) + 1 = k  BY <1>1, <2>3, <3>1
    <3>3. Tail(S[i])[k - 1] = f  BY <2>1, <3>1, <3>2
    <3> QED  BY <1>3, <3>1, <3>2, <3>3 DEF Of
  <2> QED  BY <2>2, <2>3
<1> QED  BY <1>2, <1>3

LEMMA InFrontKeeps ==
  ASSUME NEW S \in Lists, NEW i \in Slabs, NEW f \in SlabFrame, NEW j \in Slabs
  PROVE  Of(S, j) \subseteq Of(InFront(S, i, f), j)
BY Pushed

\* alloc carves frames that are larger than a block only.
LEMMA AllocKeepsPieces ==
  ASSUME NEW h \in HeapRecords, NEW i \in Slabs, h.slabs[i] # <<>>, NEW gone,
         NEW j \in Slabs, NEW f \in Somewhere(h, gone, j), f \in SlabFrame, Single(f, j)
  PROVE  f \in Somewhere(fromFirst(h, i), gone, j)
<1> DEFINE r == fromFirst(h, i)
           first == Head(h.slabs[i])
           S == Behind(h.slabs, i)
<1>1. PICK new \in SlabFrame : Allots(h, r, i, new)  BY FromFirstAllots
<1> HIDE DEF r
<1>2. h.slabs \in Lists /\ h.alloced \in Lists /\ S \in Lists /\ first \in SlabFrame
  BY FirstAndRest DEF HeapRecords
<1>3. Of(r.alloced, j) = Of(h.alloced, j) \cup (IF j = i THEN {new} ELSE {})
  <2>1. r.alloced = InFront(h.alloced, i, new)  BY <1>1 DEF Allots
  <2>2. \A l \in Slabs : Of(InFront(h.alloced, i, new), l) =
                           Of(h.alloced, l) \cup (IF l = i THEN {new} ELSE {})
    <3>1. h.alloced \in Lists  BY <1>2
    <3> QED  BY <3>1, Pushed
  <2> QED  BY <2>1, <2>2
<1>4. Of(S, j) \subseteq Of(r.slabs, j)
  <2>1. CASE r.slabs = S  BY <2>1
  <2>2. ASSUME r.slabs = InFront(S, i, [first EXCEPT !.start = @ + AllocSize(i)])
        PROVE  Of(S, j) \subseteq Of(r.slabs, j)
    <3> DEFINE rest == [first EXCEPT !.start = @ + AllocSize(i)]
    <3>1. AllocSize(i) \in Nat  BY Sizes
    <3>2. rest \in SlabFrame  BY <1>2, <3>1 DEF SlabFrame
    <3> HIDE DEF rest, S, first
    <3>3. r.slabs = InFront(S, i, rest)  BY <2>2 DEF rest
    <3>4. S \in Lists  BY <1>2
    <3>5. Of(S, j) \subseteq Of(InFront(S, i, rest), j)
      BY <3>2, <3>4, InFrontKeeps
    <3> QED  BY <3>3, <3>5
  <2> QED  BY <1>1, <2>1, <2>2 DEF Allots
<1>5. CASE f \in Of(h.slabs, j)
  <2>1. f \in Of(S, j) \/ (j = i /\ f = first)  BY <1>2, <1>5, Others
  <2>2. ASSUME j = i, f = first PROVE f = new
    <3>1. f.start \in Nat /\ f.end \in Nat /\ AllocSize(i) \in Nat /\ AllocSize(i) >= 2
      BY Sizes DEF SlabFrame
    <3>2. f.end + 1 = f.start + AllocSize(i)  BY <2>2 DEF Single
    <3>3. ~(first.end - first.start > AllocSize(i))  BY <2>2, <3>1, <3>2
    <3> QED  BY <1>1, <2>2, <3>3 DEF Allots
  <2> QED  BY <1>3, <1>4, <2>1, <2>2 DEF Somewhere, r
<1> QED  BY <1>3, <1>5 DEF Somewhere, r

-----------------------------------------------------------------------------
\* The steps of the heap.

LEMMA OverlapIs ==
  ASSUME NEW a \in [addr : Nat, slab : Slabs], NEW b \in [addr : Nat, slab : Slabs]
  PROVE  /\ Piece(a) \in SlabFrame /\ Piece(a).start = a.addr /\ Single(Piece(a), a.slab)
         /\ Apart(Piece(a), Piece(b)) => ~Overlap(a, b)
<1>1. /\ AllocSize(a.slab) \in Nat /\ AllocSize(a.slab) >= 2
      /\ AllocSize(b.slab) \in Nat /\ AllocSize(b.slab) >= 2
      /\ a.addr \in Nat /\ b.addr \in Nat
  BY Sizes
<1>2. /\ Piece(a).start = a.addr /\ Piece(a).end = a.addr + AllocSize(a.slab) - 1
      /\ Piece(b).start = b.addr /\ Piece(b).end = b.addr + AllocSize(b.slab) - 1
      /\ Piece(a) = [start |-> Piece(a).start, end |-> Piece(a).end]
  BY DEF Piece
<1>3. Piece(a).end \in Nat  BY <1>1, <1>2
<1>4. Piece(a) \in SlabFrame  BY <1>1, <1>2, <1>3 DEF SlabFrame
<1>5. Single(Piece(a), a.slab)  BY <1>1, <1>2 DEF Single
<1>6. ASSUME Apart(Piece(a), Piece(b)) PROVE Bytes(a) \cap Bytes(b) = {}
  <2>1. \A x \in Bytes(a) : x \in Int /\ a.addr <= x /\ x <= a.addr + AllocSize(a.slab) - 1
    BY <1>1 DEF Bytes
  <2>2. \A x \in Bytes(b) : x \in Int /\ b.addr <= x /\ x <= b.addr + AllocSize(b.slab) - 1
    BY <1>1 DEF Bytes
  <2>3. \/ a.addr + AllocSize(a.slab) - 1 < b.addr
        \/ b.addr + AllocSize(b.slab) - 1 < a.addr
    BY <1>2, <1>6 DEF Apart
  <2>4. ASSUME NEW x \in Bytes(a), x \in Bytes(b) PROVE FALSE
    BY <1>1, <2>1, <2>2, <2>3, <2>4
  <2> QED  BY <2>4
<1> QED  BY <1>2, <1>4, <1>5, <1>6 DEF Overlap

\* The block alloc returns is nobody's: it becomes its caller's.
HandsOut(h, r, block, held_1, gone, top) ==
  /\ r \in HeapRecords /\ r.offset = h.offset
  /\ block \in [addr : Nat, slab : Slabs]
  /\ Sound(h, gone, top) /\ AllHeld(h, held_1) /\ AllKnown(h, held_1, gone) =>
       /\ Sound(r, gone, top)
       /\ AllHeld(r, held_1 \cup {block}) /\ AllKnown(r, held_1 \cup {block}, gone)
       /\ \A b \in held_1 : ~Overlap(b, block)
       /\ Tallied(h, gone) => Tallied(r, gone)

FirstOf(r, i) == [addr |-> Head(r.alloced[i]).start, slab |-> i]

LEMMA AllocHeld ==
  ASSUME NEW h \in HeapRecords, NEW i \in Slabs, h.slabs[i] # <<>>,
         NEW gone \in SUBSET SlabFrame, NEW top \in Nat,
         NEW held_1 \in SUBSET [addr : Nat, slab : Slabs]
  PROVE  HandsOut(h, fromFirst(h, i), FirstOf(fromFirst(h, i), i), held_1, gone, top)
<1> DEFINE r == fromFirst(h, i)
           block == FirstOf(r, i)
<1>1. PICK new \in SlabFrame : Allots(h, r, i, new)
  BY FromFirstAllots
<1> HIDE DEF r
<1>2. /\ r \in HeapRecords /\ r.offset = h.offset
      /\ r.alloced = InFront(h.alloced, i, new)
  BY <1>1 DEF Allots
<1>3. h.alloced \in Lists  BY DEF HeapRecords
<1>4. /\ Head(r.alloced[i]) = new
      /\ \A j \in Slabs : Of(r.alloced, j) = Of(h.alloced, j) \cup (IF j = i THEN {new} ELSE {})
  BY <1>2, <1>3, Pushed
<1>5. /\ block \in [addr : Nat, slab : Slabs]
      /\ block.addr = new.start /\ block.slab = i
      /\ block = [addr |-> new.start, slab |-> i]
      /\ new.start \in Nat /\ new.end \in Nat /\ new = [start |-> new.start, end |-> new.end]
  BY <1>4 DEF SlabFrame, FirstOf
<1> HIDE DEF block
<1>6. ASSUME Sound(h, gone, top), AllHeld(h, held_1), AllKnown(h, held_1, gone)
      PROVE  /\ Sound(r, gone, top)
             /\ AllHeld(r, held_1 \cup {block}) /\ AllKnown(r, held_1 \cup {block}, gone)
             /\ \A b \in held_1 : ~Overlap(b, block)
             /\ Tallied(h, gone) => Tallied(r, gone)
  <2>1. /\ Sound(r, gone, top) /\ Single(new, i) /\ (Tallied(h, gone) => Tallied(r, gone))
        /\ \A g \in In(h.alloced) \cup gone : Apart(new, g)
    BY <1>1, <1>6, AllotsSound
  <2>2. Piece(block) = new
    <3>1. AllocSize(i) \in Nat  BY Sizes
    <3>2. new.end = new.start + AllocSize(i) - 1
      BY <1>5, <2>1, <3>1 DEF Single
    <3> QED  BY <1>5, <3>2 DEF Piece
  <2>3. AllHeld(r, held_1 \cup {block})
    <3>1. ASSUME NEW j \in Slabs, NEW f \in Of(r.alloced, j)
          PROVE  [addr |-> f.start, slab |-> j] \in held_1 \cup {block}
      <4>1. CASE f \in Of(h.alloced, j)  BY <1>6, <4>1 DEF AllHeld
      <4>2. CASE j = i /\ f = new  BY <1>5, <4>2
      <4> QED  BY <1>4, <4>1, <4>2
    <3> QED  BY <3>1 DEF AllHeld
  <2>4. AllKnown(r, held_1 \cup {block}, gone)
    <3>1. ASSUME NEW b \in held_1 PROVE Piece(b) \in Of(r.alloced, b.slab) \cup gone
      <4>1. b.slab \in Slabs  OBVIOUS
      <4> QED  BY <1>4, <1>6, <3>1, <4>1 DEF AllKnown
    <3>2. Piece(block) \in Of(r.alloced, block.slab)
      BY <1>4, <1>5, <2>2
    <3> QED  BY <3>1, <3>2 DEF AllKnown
  <2>5. ASSUME NEW b \in held_1 PROVE ~Overlap(b, block)
    <3>1. b.slab \in Slabs /\ b \in [addr : Nat, slab : Slabs]  OBVIOUS
    <3>2. Piece(b) \in In(h.alloced) \cup gone
      <4>1. Of(h.alloced, b.slab) \subseteq In(h.alloced)  BY <1>3, <3>1, Members
      <4> QED  BY <1>6, <4>1 DEF AllKnown
    <3>3. Apart(new, Piece(b))  BY <2>1, <3>2
    <3>4. Apart(Piece(b), Piece(block))  BY <2>2, <3>3 DEF Apart
    <3> QED  BY <1>5, <3>1, <3>4, OverlapIs
  <2> QED  BY <2>1, <2>3, <2>4, <2>5
<1> QED  BY <1>2, <1>5, <1>6 DEF HandsOut, r, block

LEMMA HeapRecord ==
  ASSUME HInv
  PROVE  /\ heap \in HeapRecords
         /\ heap.slabs = slabs /\ heap.alloced = allocedSlabs
         /\ heap.offset = heapStartOffset /\ heap.frames = slabFrames
         /\ lost \in SUBSET SlabFrame /\ live \in SUBSET [addr : Nat, slab : Slabs]
         /\ stolen \in SUBSET [addr : Nat, slab : Slabs]
         /\ grown \in Nat /\ Top \in Nat /\ Top >= heapStart
<1>1. heap \in HeapRecords /\ grown \in Nat
  BY DEF HInv, HeapTypeOK, heap, HeapRecords, Lists
<1>2. PageSize \in Nat /\ heapStart \in Nat  BY Sizes
<1>3. grown * PageSize \in Nat  BY <1>1, <1>2
<1>4. Top \in Nat /\ Top >= heapStart  BY <1>2, <1>3 DEF Top
<1> QED  BY <1>1, <1>4 DEF HInv, HeapTypeOK, heap

\* The page moreMem asks for is not one its callers ask for, but it is a page.
LEMMA NextPage ==
  ASSUME HInv
  PROVE  PageOf(nextMemory(heap)) \in Pages
<1> DEFINE o == heapStartOffset
<1>1. o \in 0 .. OffsetRange - 1 /\ nextMemory(heap) = heapStart + o
  BY DEF HInv, HeapTypeOK, nextMemory, heap
<1>2. DirIndex(PageOf(heapStart + o)) < RecursiveDir  BY <1>1, HeapAssumption
<1>3. heapStart + o \in Nat /\ PageSize \in Nat \ {0}  BY <1>1, Sizes
<1> HIDE DEF o
<1>4. PageOf(heapStart + o) \in Nat  BY <1>3, DivBound DEF PageOf
<1> QED  BY <1>1, <1>2, <1>4 DEF Pages

\* What moreMem asks for is behind all it got, until the offset goes around.
LEMMA OffsetGrows ==
  ASSUME HInv
  PROVE  /\ (heapStartOffset + PageSize) % OffsetRange = ((grown + 1) * PageSize) % OffsetRange
         /\ (grown + 1) * PageSize = grown * PageSize + PageSize
         /\ (grown + 1) * PageSize <= OffsetRange => ~Reused /\ nextMemory(heap) = Top
<1>1. PageSize \in Nat /\ PageSize >= 2 /\ OffsetRange \in Nat \ {0} /\ grown \in Nat
  BY Sizes, HeapRecord
<1> DEFINE p == grown * PageSize
<1>2. p \in Nat /\ (grown + 1) * PageSize = p + PageSize  BY <1>1
<1>3. heapStartOffset = p % OffsetRange  BY DEF HInv
<1>4. Reused <=> p > OffsetRange  BY DEF Reused
<1>5. Top = heapStart + p  BY DEF Top
<1> HIDE DEF p
<1>6. ((p % OffsetRange) + PageSize) % OffsetRange = (p + PageSize) % OffsetRange
  <2>1. p \in Int /\ PageSize \in Int  BY <1>1, <1>2
  <2> QED  BY <1>1, <2>1, ModAdd
<1>7. ASSUME p + PageSize <= OffsetRange PROVE ~Reused /\ nextMemory(heap) = Top
  <2>1. p < OffsetRange  BY <1>1, <1>2, <1>7
  <2>2. p % OffsetRange = p
    <3>1. p % OffsetRange \in 0 .. OffsetRange-1
          /\ p = OffsetRange * (p \div OffsetRange) + (p % OffsetRange)
          /\ p \div OffsetRange \in Int
      BY <1>1, <1>2, DivMod
    <3>2. \A q \in Int, m \in 0 .. OffsetRange-1 : p = OffsetRange * q + m => p - m = OffsetRange * q
      BY <1>1, <1>2
    <3> QED  BY <1>1, <1>2, <2>1
  <2>3. ~Reused  BY <1>1, <1>2, <1>4, <2>1
  <2>4. heap.offset = heapStartOffset  BY HeapRecord
  <2> QED  BY <1>3, <1>5, <2>2, <2>3, <2>4 DEF nextMemory
<1> QED  BY <1>1, <1>2, <1>3, <1>6, <1>7 DEF p

LEMMA LargerMultiple ==
  ASSUME NEW u \in Nat, NEW b \in Int, NEW c \in Int, b <= c
  PROVE  u * b <= u * c
<1> DEFINE d == c - b
<1>1. d \in Nat /\ c = b + d  OBVIOUS
<1> HIDE DEF d
<1>2. u * c = u * b + u * d /\ u * d \in Nat /\ u * b \in Int  BY <1>1
<1> QED  BY <1>2

\* What a quotient is at least, and what it stays below.
LEMMA QuotientBounds ==
  ASSUME NEW u \in Nat \ {0}, NEW a \in Nat, NEW m \in Nat
  PROVE  /\ a \div u \in Nat
         /\ u * m <= a => a \div u >= m
         /\ a < u * m => a \div u < m
<1> DEFINE k == a \div u
           q == u * k
           w == a % u
<1>1. k \in Nat /\ w \in 0 .. u-1 /\ a = q + w
  <2>1. k \in 0 .. a  BY DivBound
  <2> QED  BY <2>1, DivMod
<1> HIDE DEF k, w
<1>2. q \in Int /\ u * m \in Int /\ u * (k + 1) = q + u  BY <1>1
<1>3. ASSUME u * m <= a, k < m PROVE FALSE
  <2>1. u * (k + 1) <= u * m  BY <1>1, <1>3, LargerMultiple
  <2> DEFINE um == u * m
  <2>2. um \in Int /\ um <= a /\ q + u <= um  BY <1>2, <1>3, <2>1
  <2> HIDE DEF q, um
  <2> QED  BY <1>1, <1>2, <2>2
<1>4. ASSUME a < u * m, m <= k PROVE FALSE
  <2>1. u * m <= q  BY <1>1, <1>4, LargerMultiple
  <2> DEFINE um == u * m
  <2>2. um \in Int /\ a < um /\ um <= q  BY <1>2, <1>4, <2>1
  <2> HIDE DEF q, um
  <2> QED  BY <1>1, <1>2, <2>2
<1>5. u * m <= a => k >= m  BY <1>1, <1>3
<1>6. a < u * m => k < m  BY <1>1, <1>4
<1> QED  BY <1>1, <1>5, <1>6 DEF k

\* The heap's memory is whole pages from its start on.
LEMMA PagesBelowTop ==
  ASSUME NEW n \in Nat
  PROVE  /\ PageOf(heapStart + n * PageSize) = PageOf(heapStart) + n
         /\ \A a \in Nat : heapStart <= a /\ a < heapStart + n * PageSize
              => PageOf(a) - PageOf(heapStart) \in 0 .. n-1
<1> DEFINE h == PageOf(heapStart)
<1>1. PageSize \in Nat \ {0} /\ heapStart \in Nat /\ heapStart % PageSize = 0
  BY Sizes, HeapAssumption
<1>2. h \in Nat /\ heapStart = PageSize * h
  <2>1. /\ heapStart \div PageSize \in 0 .. heapStart
        /\ heapStart = PageSize * (heapStart \div PageSize) + (heapStart % PageSize)
    BY <1>1, DivBound, DivMod
  <2>2. h \in Nat /\ heapStart = PageSize * h + 0  BY <1>1, <2>1 DEF PageOf
  <2>3. PageSize * h \in Nat  BY <1>1, <2>2
  <2> QED  BY <2>2, <2>3
<1> HIDE DEF h
<1>3. n * PageSize \in Nat /\ heapStart + n * PageSize = PageSize * (h + n)
      /\ PageSize * (h + n) < PageSize * (h + n + 1)
  BY <1>1, <1>2
<1>4. ASSUME NEW a \in Nat, NEW m \in Nat
      PROVE  /\ PageOf(a) \in Nat
             /\ PageSize * m <= a => PageOf(a) >= m
             /\ a < PageSize * m => PageOf(a) < m
  BY <1>1, QuotientBounds DEF PageOf
<1>5. PageOf(heapStart + n * PageSize) = h + n
  <2> DEFINE a == heapStart + n * PageSize
  <2>1. a \in Nat /\ PageSize * (h + n) <= a /\ a < PageSize * (h + n + 1)
    BY <1>1, <1>2, <1>3
  <2> HIDE DEF a
  <2>2. PageOf(a) \in Nat /\ PageOf(a) >= h + n /\ PageOf(a) < h + n + 1
    BY <1>2, <1>4, <2>1
  <2> QED  BY <1>2, <2>2 DEF a
<1>6. ASSUME NEW a \in Nat, heapStart <= a, a < heapStart + n * PageSize
      PROVE  PageOf(a) - h \in 0 .. n-1
  <2>1. PageSize * h <= a /\ a < PageSize * (h + n)  BY <1>2, <1>3, <1>6
  <2>2. PageOf(a) \in Nat /\ PageOf(a) >= h /\ PageOf(a) < h + n
    BY <1>2, <1>4, <2>1
  <2> QED  BY <1>2, <2>2
<1> QED  BY <1>5, <1>6 DEF h

LEMMA KmallocStep ==
  ASSUME HInv, Kmalloc
  PROVE  HInv'
<1>1. PICK size \in 0 .. PageSize, junk \in Junk :
        LET i     == slabFor(size)
            grows == slabs[i] = <<>>
            h     == slabAlloc(heap, i)
            block == [addr |-> Head(h.alloced[i]).start, slab |-> i]
        IN  /\ grows => grown < MaxGrow
            /\ HeapIs(h)
            /\ grown' = grown + (IF grows THEN 1 ELSE 0)
            /\ live' = live \cup {block}
            /\ clashed' = (clashed \/ \E b \in live : Overlap(b, block))
            /\ IF grows
               THEN LET page == PageOf(nextMemory(heap))
                    IN  Becomes(allocPage(paging, page, junk), page) /\ UNCHANGED loopVars
               ELSE UNCHANGED <<vars, vmmVars>>
  BY DEF Kmalloc
<1> DEFINE i == slabFor(size)
           grows == slabs[i] = <<>>
           h0 == IF grows THEN moreMem(heap, i) ELSE heap
           r == slabAlloc(heap, i)
           block == FirstOf(r, i)
<1>2. i \in Slabs  BY SlabForSize
<1>3. /\ heap \in HeapRecords /\ heap.slabs = slabs /\ heap.alloced = allocedSlabs
      /\ heap.offset = heapStartOffset
      /\ lost \in SUBSET SlabFrame /\ live \in SUBSET [addr : Nat, slab : Slabs]
      /\ grown \in Nat /\ Top \in Nat /\ Top >= heapStart
  BY HeapRecord
<1>4. r = fromFirst(h0, i)  BY <1>3 DEF slabAlloc
<1>5. /\ grows => grown < MaxGrow
      /\ HeapIs(r)
      /\ grown' = grown + (IF grows THEN 1 ELSE 0)
      /\ live' = live \cup {block}
      /\ clashed' = (clashed \/ \E b \in live : Overlap(b, block))
      /\ lost' = lost /\ stolen' = stolen /\ up
  BY <1>1 DEF Kmalloc, FirstOf
<1>6. VInv' /\ left' = left
  <2>1. CASE grows
    <3> DEFINE page == PageOf(nextMemory(heap))
    <3>1. Becomes(allocPage(paging, page, junk), page) /\ next' = next /\ left' = left
      BY <1>1, <2>1 DEF loopVars
    <3>2. page \in Pages  BY NextPage
    <3> HIDE DEF page
    <3>3. VInv /\ next' \in Nat /\ left' \in Nat /\ Asking'
      BY <3>1 DEF HInv, VInv, VMMTypeOK, Asking
    <3> QED  BY <1>5, <3>1, <3>2, <3>3, AllocStep
  <2>2. CASE ~grows
    <3>1. UNCHANGED <<vars, vmmVars>>  BY <1>1, <2>2
    <3> QED  BY <3>1, VInvStep DEF HInv, vmmVars, loopVars
  <2> QED  BY <2>1, <2>2
\* The heap after moreMem, if it ran.
<1>7. /\ h0 \in HeapRecords /\ h0.slabs[i] # <<>> /\ h0.alloced = allocedSlabs
      /\ h0.offset = IF grows THEN (heapStartOffset + PageSize) % OffsetRange ELSE heapStartOffset
  <2>1. CASE grows  BY <1>2, <1>3, <2>1, MoreMemType
  <2>2. CASE ~grows  BY <1>3, <2>2
  <2> QED  BY <2>1, <2>2
<1>8. heapStartOffset = (grown * PageSize) % OffsetRange  BY DEF HInv
<1>9. ASSUME ~Reused' PROVE ~Reused /\ Sound(h0, lost, Top') /\ Tallied(h0, lost) /\ Requested'
  <2>1. CASE grows
    <3>1. grown' = grown + 1  BY <1>5, <2>1
    <3>2. (grown + 1) * PageSize <= OffsetRange
      <4>1. grown + 1 \in Nat /\ PageSize \in Nat /\ OffsetRange \in Nat  BY <1>3, Sizes
      <4>2. (grown + 1) * PageSize \in Nat  BY <4>1
      <4> QED  BY <1>9, <3>1, <4>1, <4>2 DEF Reused
    <3>3. ~Reused /\ nextMemory(heap) = Top  BY <3>2, OffsetGrows
    <3>4. Sound(heap, lost, Top) /\ Tallied(heap, lost) /\ Requested  BY <3>3 DEF HInv
    <3>5. Sound(moreMem(heap, i), lost, Top + PageSize) /\ Tallied(moreMem(heap, i), lost)
      BY <1>2, <1>3, <2>1, <3>3, <3>4, MoreMemSound
    <3>6. Top' = Top + PageSize
      <4>1. PageSize \in Nat /\ heapStart \in Nat /\ grown * PageSize \in Nat  BY <1>3, Sizes
      <4>2. Top' = heapStart + (grown * PageSize + PageSize)
        BY <3>1, OffsetGrows DEF Top
      <4> QED  BY <4>1, <4>2 DEF Top
    <3>7. Requested'
      <4>1. returned' = returned \cup {PageOf(Top)}
        BY <1>1, <2>1, <3>3 DEF Becomes
      <4>2. PageOf(Top) = PageOf(heapStart) + grown  BY <1>3, PagesBelowTop DEF Top
      <4>3. \A k \in 0 .. grown'-1 : k = grown \/ k \in 0 .. grown-1  BY <1>3, <3>1
      <4> QED  BY <3>4, <4>1, <4>2, <4>3 DEF Requested
    <3> QED  BY <2>1, <3>3, <3>5, <3>6, <3>7
  <2>2. CASE ~grows
    <3>1. grown' = grown  BY <1>3, <1>5, <2>2
    <3>2. Top' = Top /\ (Reused' <=> Reused)  BY <3>1 DEF Top, Reused
    <3>3. returned' = returned  BY <1>1, <2>2 DEF vmmVars, ghostVars
    <3>4. Requested' <=> Requested  BY <3>1, <3>3 DEF Requested
    <3> QED  BY <1>9, <2>2, <3>2, <3>4 DEF HInv
  <2> QED  BY <2>1, <2>2
<1>10. heapStartOffset' = (grown' * PageSize) % OffsetRange /\ grown' \in 0 .. MaxGrow
       /\ h0.offset = (grown' * PageSize) % OffsetRange
       /\ heapStartOffset' = r.offset
  <2>1. heapStartOffset' = r.offset  BY <1>5 DEF HeapIs
  <2>2. r.offset = h0.offset
    <3>1. PICK new \in SlabFrame : Allots(h0, fromFirst(h0, i), i, new)
      BY <1>2, <1>7, FromFirstAllots
    <3> QED  BY <1>4, <3>1 DEF Allots
  <2>3. h0.offset = (grown' * PageSize) % OffsetRange
    <3>1. CASE grows  BY <1>5, <1>7, <3>1, OffsetGrows
    <3>2. CASE ~grows
      <4>1. grown' = grown  BY <1>3, <1>5, <3>2
      <4> QED  BY <1>7, <1>8, <3>2, <4>1
    <3> QED  BY <3>1, <3>2
  <2>4. grown \in 0 .. MaxGrow /\ MaxGrow \in Nat  BY Sizes DEF HInv, HeapTypeOK
  <2>5. grown' \in 0 .. MaxGrow  BY <1>5, <2>4
  <2> QED  BY <2>1, <2>2, <2>3, <2>5
<1> HIDE DEF h0, r, block, grows, i
<1>11. /\ r \in HeapRecords /\ block \in [addr : Nat, slab : Slabs]
       /\ \A top \in Nat : HandsOut(h0, r, block, live, lost, top)
  <2>1. 0 \in Nat /\ \A top \in Nat : HandsOut(h0, r, block, live, lost, top)
    BY <1>2, <1>3, <1>4, <1>7, AllocHeld DEF block
  <2> QED  BY <2>1 DEF HandsOut
<1>12. heap' = r
  BY <1>5, <1>11 DEF HeapIs, heap, HeapRecords
<1>13. HeapTypeOK'
  <2>1. VMMTypeOK'  BY <1>6 DEF VInv
  <2>2. /\ slabs' \in Lists /\ allocedSlabs' \in Lists
        /\ heapStartOffset' \in 0 .. OffsetRange-1 /\ slabFrames' \in Nat
    BY <1>5, <1>11 DEF HeapIs, HeapRecords
  <2>3. /\ live' \subseteq [addr : Nat, slab : Slabs] /\ lost' \subseteq SlabFrame
        /\ stolen' \subseteq [addr : Nat, slab : Slabs]
    BY <1>3, <1>5, <1>11, HeapRecord
  <2>4. clashed' \in BOOLEAN  BY <1>5 DEF HInv, HeapTypeOK
  <2> QED  BY <1>10, <2>1, <2>2, <2>3, <2>4 DEF HeapTypeOK, Lists
<1>14. ASSUME ~Reused'
       PROVE  /\ Sound(heap, lost, Top)' /\ AllHeld(heap, live)' /\ AllKnown(heap, live, lost)'
              /\ StolenKnown(heap, stolen, lost)'
              /\ ~clashed' /\ Tallied(heap, lost)' /\ Requested'
  <2>1. ~Reused /\ Sound(h0, lost, Top') /\ Tallied(h0, lost) /\ Requested'  BY <1>9, <1>14
  <2>2. AllHeld(h0, live) /\ AllKnown(h0, live, lost) /\ ~clashed
    BY <1>3, <1>7, <2>1 DEF HInv, AllHeld, AllKnown
  <2>3. Top' \in Nat
    <3>1. grown' \in Nat /\ PageSize \in Nat /\ heapStart \in Nat  BY <1>10, Sizes
    <3>2. \A a, b \in Nat : a * b \in Nat  OBVIOUS
    <3>3. grown' * PageSize \in Nat  BY <3>1, <3>2, Zenon
    <3>4. Top' = heapStart + grown' * PageSize  BY DEF Top
    <3>5. \A m \in Nat : heapStart + m \in Nat  BY <3>1
    <3> QED  BY <3>3, <3>4, <3>5, Zenon
  <2>4. /\ Sound(r, lost, Top')
        /\ AllHeld(r, live \cup {block}) /\ AllKnown(r, live \cup {block}, lost)
        /\ \A b \in live : ~Overlap(b, block)
        /\ Tallied(r, lost)
    BY <1>11, <2>1, <2>2, <2>3 DEF HandsOut
  <2>5. Sound(heap, lost, Top)'  BY <1>5, <1>12, <2>4
  <2>6. AllHeld(heap, live)' /\ AllKnown(heap, live, lost)'
    BY <1>5, <1>12, <2>4
  <2>7. Tallied(heap, lost)'  BY <1>5, <1>12, <2>4
  <2>8. ASSUME NEW b \in stolen PROVE Piece(b) \in Somewhere(r, lost, b.slab)
    <3>1. b \in [addr : Nat, slab : Slabs] /\ b.slab \in Slabs  BY HeapRecord, <2>8
    <3>2. Piece(b) \in SlabFrame /\ Single(Piece(b), b.slab)  BY <3>1, OverlapIs
    <3>3. StolenKnown(heap, stolen, lost)  BY <2>1 DEF HInv
    <3>4. Piece(b) \in Somewhere(heap, lost, b.slab)  BY <2>8, <3>3 DEF StolenKnown
    <3>5. Somewhere(heap, lost, b.slab) \subseteq Somewhere(h0, lost, b.slab)
      <4>1. CASE ~grows  BY <4>1 DEF h0
      <4>2. CASE grows
        <5>1. /\ h0.slabs = InFront(heap.slabs, i, Page(heap)) /\ h0.alloced = heap.alloced
              /\ Page(heap) \in SlabFrame
          BY <1>2, <1>3, <4>2, MoreMemType DEF h0, grows
        <5>2. heap.slabs \in Lists  BY <1>3 DEF HeapRecords
        <5>3. Of(heap.slabs, b.slab) \subseteq Of(h0.slabs, b.slab)
          BY <1>2, <3>1, <5>1, <5>2, Pushed
        <5> QED  BY <5>1, <5>3 DEF Somewhere
      <4> QED  BY <4>1, <4>2
    <3>6. Piece(b) \in Somewhere(h0, lost, b.slab)  BY <3>4, <3>5
    <3>7. Piece(b) \in Somewhere(fromFirst(h0, i), lost, b.slab)
      BY <1>2, <1>7, <3>1, <3>2, <3>6, AllocKeepsPieces
    <3> QED  BY <1>4, <3>7
  <2>9. StolenKnown(heap, stolen, lost)'
    BY <1>5, <1>12, <2>8 DEF StolenKnown
  <2> QED  BY <1>5, <2>1, <2>2, <2>4, <2>5, <2>6, <2>7, <2>9
<1> QED  BY <1>6, <1>10, <1>13, <1>14 DEF HInv

\* A block somebody holds is freed, by whomever.
LEMMA GivesStep ==
  ASSUME HInv, NEW addr, NEW given \in SUBSET live, Gives(addr, given),
         stolen' \subseteq stolen \cup given,
         ~Reused => \E b \in live : given = {b} /\ addr = b.addr
  PROVE  HInv'
<1>1. /\ HeapIs(free(heap, addr))
      /\ live' = live \ given
      /\ lost' = lost \cup skipped(heap, addr)
  BY DEF Gives
<1>2. /\ UNCHANGED <<vars, vmmVars>> /\ grown' = grown /\ clashed' = clashed
  BY DEF Gives
<1> DEFINE r == free(heap, addr)
           sk == skipped(heap, addr)
<1>3. /\ heap \in HeapRecords /\ heap.offset = heapStartOffset
      /\ lost \in SUBSET SlabFrame /\ live \in SUBSET [addr : Nat, slab : Slabs]
      /\ Top \in Nat
  BY HeapRecord
<1>4. r \in HeapRecords /\ sk \in SUBSET SlabFrame /\ r.offset = heapStartOffset
  BY <1>3, FreeFrees
<1> HIDE DEF r, sk
<1>5. HeapIs(r) /\ lost' = lost \cup sk  BY <1>1 DEF r, sk
<1>6. heap' = r  BY <1>4, <1>5 DEF HeapIs, heap, HeapRecords
<1>7. VInv' /\ left' = left
  BY <1>2, VInvStep DEF HInv, vmmVars, loopVars
<1>8. Top' = Top /\ (Reused' <=> Reused)  BY <1>2 DEF Top, Reused
<1>9. HeapTypeOK'
  <2>1. VMMTypeOK'  BY <1>7 DEF VInv
  <2>2. /\ slabs' \in Lists /\ allocedSlabs' \in Lists
        /\ heapStartOffset' \in 0 .. OffsetRange-1 /\ slabFrames' \in Nat
    BY <1>4, <1>5 DEF HeapIs, HeapRecords
  <2>3. /\ live' \subseteq [addr : Nat, slab : Slabs] /\ lost' \subseteq SlabFrame
        /\ stolen' \subseteq [addr : Nat, slab : Slabs]
    BY <1>1, <1>3, <1>4, <1>5, HeapRecord
  <2>4. grown' \in 0 .. MaxGrow /\ clashed' \in BOOLEAN
    BY <1>2 DEF HInv, HeapTypeOK
  <2> QED  BY <2>1, <2>2, <2>3, <2>4 DEF HeapTypeOK, Lists
<1>10. heapStartOffset' = (grown' * PageSize) % OffsetRange
  BY <1>2, <1>4, <1>5 DEF HeapIs, HInv
<1>11. ASSUME ~Reused'
       PROVE  /\ Sound(heap, lost, Top)' /\ AllHeld(heap, live)' /\ AllKnown(heap, live, lost)'
              /\ StolenKnown(heap, stolen, lost)'
              /\ ~clashed' /\ Tallied(heap, lost)' /\ Requested'
  <2>1. /\ Sound(heap, lost, Top) /\ AllHeld(heap, live) /\ AllKnown(heap, live, lost)
        /\ StolenKnown(heap, stolen, lost) /\ ~clashed /\ Tallied(heap, lost) /\ Requested
    BY <1>8, <1>11 DEF HInv
  <2> PICK b \in live : given = {b} /\ addr = b.addr  BY <1>8, <1>11
  <2>2. /\ Sound(r, lost \cup sk, Top)
        /\ AllHeld(r, live \ {b}) /\ AllKnown(r, live \ {b}, lost \cup sk)
        /\ Tallied(r, lost \cup sk)
    BY <1>3, <2>1, FreeSound DEF r, sk
  <2>3. Sound(heap, lost, Top)'  BY <1>5, <1>6, <1>8, <2>2
  <2>4. AllHeld(heap, live)' /\ AllKnown(heap, live, lost)'
    BY <1>1, <1>5, <1>6, <2>2
  <2>5. Tallied(heap, lost)'  BY <1>5, <1>6, <2>2
  <2>6. Requested'
    <3>1. returned' = returned /\ grown' = grown  BY <1>2 DEF vmmVars, ghostVars
    <3> QED  BY <2>1, <3>1 DEF Requested
  <2>7. ASSUME NEW c \in stolen \cup {b} PROVE Piece(c) \in Somewhere(r, lost \cup sk, c.slab)
    <3>1. c.slab \in Slabs  BY <1>3, <2>7, HeapRecord
    <3>2. Piece(c) \in Somewhere(heap, lost, c.slab)
      BY <2>1, <2>7 DEF AllKnown, StolenKnown, Somewhere
    <3>3. Somewhere(heap, lost, c.slab) \subseteq Somewhere(r, lost \cup sk, c.slab)
      BY <1>3, <3>1, FreeKeepsPieces DEF r, sk
    <3> QED  BY <3>2, <3>3
  <2>8. StolenKnown(heap, stolen, lost)'
    BY <1>5, <1>6, <2>7 DEF StolenKnown
  <2> QED  BY <1>2, <2>1, <2>3, <2>4, <2>5, <2>6, <2>8
<1> QED  BY <1>7, <1>9, <1>10, <1>11 DEF HInv

LEMMA KfreeStep ==
  ASSUME HInv, Kfree
  PROVE  HInv'
<1>1. PICK b \in live : Gives(b.addr, {b}) /\ stolen' = stolen  BY DEF Kfree
<1>2. {b} \in SUBSET live /\ stolen' \subseteq stolen \cup {b}  BY <1>1
<1> QED  BY <1>1, <1>2, GivesStep

LEMMA HeapKeeps ==
  ASSUME HInv, VInv', left' = left, returned' = returned, UNCHANGED heapVars
  PROVE  HInv'
<1>1. UNCHANGED <<slabs, allocedSlabs, heapStartOffset, slabFrames, grown, live, stolen, lost, clashed>>
  BY DEF heapVars
<1>2. heap' = heap /\ Top' = Top /\ (Reused' <=> Reused)
  BY <1>1 DEF heap, Top, Reused
<1>3. HeapTypeOK'  BY <1>1 DEF HInv, VInv, HeapTypeOK
<1>4. heapStartOffset' = (grown' * PageSize) % OffsetRange  BY <1>1 DEF HInv
<1>5. Sound(heap, lost, Top)' <=> Sound(heap, lost, Top)  BY <1>1, <1>2
<1>6. /\ AllHeld(heap, live)' <=> AllHeld(heap, live)
      /\ AllKnown(heap, live, lost)' <=> AllKnown(heap, live, lost)
      /\ Tallied(heap, lost)' <=> Tallied(heap, lost)
      /\ StolenKnown(heap, stolen, lost)' <=> StolenKnown(heap, stolen, lost)
  BY <1>1, <1>2
<1>7. Requested' <=> Requested  BY <1>1 DEF Requested
<1> QED  BY <1>1, <1>2, <1>3, <1>4, <1>5, <1>6, <1>7 DEF HInv

\* kfree by anybody else: the block found is somebody's, or none is found and nothing
\* happens.
LEMMA KfreeStrayStep ==
  ASSUME HInv, KfreeStray
  PROVE  HInv'
<1>1. PICK addr \in HeapBytes :
        LET given == {b \in live : b.addr = addr /\ b.slab = slabOf(heap, addr)}
        IN  Gives(addr, given) /\ stolen' = stolen \cup given
  BY DEF KfreeStray
<1> DEFINE i == slabOf(heap, addr)
           given == {b \in live : b.addr = addr /\ b.slab = i}
<1>2. heap \in HeapRecords /\ live \in SUBSET [addr : Nat, slab : Slabs]  BY HeapRecord
<1>3. given \in SUBSET live /\ Gives(addr, given) /\ stolen' = stolen \cup given  BY <1>1
<1>4. CASE i = 0
  <2>1. 0 \notin Slabs  BY HeapAssumption DEF Slabs
  <2>2. given = {}  BY <1>2, <1>4, <2>1
  <2>3. free(heap, addr) = heap /\ skipped(heap, addr) = {}  BY <1>4 DEF free, skipped
  <2> HIDE DEF given, i
  <2>4. UNCHANGED heapVars
    BY <1>3, <2>2, <2>3 DEF Gives, HeapIs, heap, heapVars
  <2>5. UNCHANGED <<vars, vmmVars>>  BY <1>3 DEF Gives
  <2>6. VInv' /\ left' = left /\ returned' = returned
    BY <2>5, VInvStep DEF HInv, vmmVars, loopVars, ghostVars
  <2> QED  BY <2>4, <2>6, HeapKeeps
<1>5. CASE i # 0
  <2>1. ASSUME ~Reused PROVE \E b \in live : given = {b} /\ addr = b.addr
    <3> DEFINE k == place(heap, i, addr)
               b == [addr |-> addr, slab |-> i]
    <3>1. i \in Slabs /\ k # 0  BY <1>2, <1>5, SlabOfIs
    <3>2. k \in 1 .. Len(heap.alloced[i]) /\ heap.alloced[i][k].start = addr
      <4> HIDE DEF i
      <4> QED  BY <1>2, <3>1, PlaceIs
    <3>3. heap.alloced[i][k] \in Of(heap.alloced, i)  BY <3>2 DEF Of
    <3> HIDE DEF i, k
    <3>4. AllHeld(heap, live)  BY <2>1 DEF HInv
    <3>5. b \in live  BY <3>1, <3>2, <3>3, <3>4 DEF AllHeld
    <3>6. \A c \in given : c = b  BY <1>2
    <3>7. b \in given /\ b.addr = addr  BY <3>5
    <3> HIDE DEF b, given
    <3> QED  BY <3>5, <3>6, <3>7
  <2> HIDE DEF given, i
  <2> QED  BY <1>3, <2>1, GivesStep
<1> QED  BY <1>4, <1>5

LEMMA HInvInit == HeapInit => HInv
<1> SUFFICES ASSUME HeapInit PROVE HInv
  OBVIOUS
<1>1. /\ VInv /\ left = 0 /\ up = FALSE
      /\ slabs = [i \in Slabs |-> <<>>] /\ allocedSlabs = [i \in Slabs |-> <<>>]
      /\ heapStartOffset = 0 /\ slabFrames = 0 /\ grown = 0
      /\ live = {} /\ stolen = {} /\ lost = {} /\ clashed = FALSE
  BY VInvInit DEF HeapInit, VMMInit
<1>2. PageSize \in Nat /\ OffsetRange \in Nat \ {0} /\ MaxGrow \in Nat
  BY Sizes
<1>3. slabs \in Lists /\ allocedSlabs \in Lists  BY <1>1 DEF Lists
<1>4. HeapTypeOK
  <2>1. heapStartOffset \in 0 .. OffsetRange-1 /\ slabFrames \in Nat /\ grown \in 0 .. MaxGrow
    BY <1>1, <1>2
  <2>2. VMMTypeOK /\ clashed \in BOOLEAN  BY <1>1 DEF VInv
  <2>3. /\ live \subseteq [addr : Nat, slab : Slabs] /\ lost \subseteq SlabFrame
        /\ stolen \subseteq [addr : Nat, slab : Slabs]
    BY <1>1
  <2> QED  BY <1>3, <2>1, <2>2, <2>3 DEF HeapTypeOK, Lists
<1>5. heapStartOffset = (grown * PageSize) % OffsetRange
  <2>1. grown * PageSize = 0  BY <1>1, <1>2
  <2>2. 0 % OffsetRange = 0  BY <1>2
  <2> QED  BY <1>1, <2>1, <2>2
<1>6. /\ heap.slabs = slabs /\ heap.alloced = allocedSlabs
      /\ \A i \in Slabs : slabs[i] = <<>> /\ allocedSlabs[i] = <<>> /\ Len(<<>>) = 0
      /\ 1 .. 0 = {}
  BY <1>1 DEF heap
<1>7. \A i \in Slabs : Of(heap.slabs, i) = {} /\ Of(heap.alloced, i) = {}
  BY <1>6 DEF Of
<1>8. In(heap.slabs) = {} /\ In(heap.alloced) = {}  BY <1>7 DEF In
<1>9. Separate(heap.slabs) /\ Separate(heap.alloced)  BY <1>6 DEF Separate
<1>10. Sound(heap, lost, Top)  BY <1>1, <1>7, <1>8, <1>9 DEF Sound
<1>11. AllHeld(heap, live) /\ AllKnown(heap, live, lost) /\ StolenKnown(heap, stolen, lost)
  BY <1>1, <1>7 DEF AllHeld, AllKnown, StolenKnown
<1>12. Tallied(heap, lost)
  <2>1. Made(heap, lost) = {} /\ heap.frames = 0  BY <1>1, <1>8 DEF Made, heap
  <2> QED  BY <2>1, FS_EmptySet DEF Tallied
<1>13. Requested  BY <1>1 DEF Requested
<1> QED  BY <1>1, <1>4, <1>5, <1>10, <1>11, <1>12, <1>13 DEF HInv

LEMMA HInvStep == HInv /\ [HeapNext]_hvars => HInv'
<1> SUFFICES ASSUME HInv, [HeapNext]_hvars PROVE HInv'
  OBVIOUS
<1>1. CASE Boot /\ UNCHANGED heapVars
  <2>1. VInv'  BY <1>1, VInvStep DEF HInv, VMMNext
  <2>2. left' = left /\ returned' = returned
    BY <1>1 DEF Boot, ConstructVMM, vmmVars, loopVars, ghostVars
  <2> QED  BY <1>1, <2>1, <2>2, HeapKeeps
<1>2. CASE UNCHANGED hvars
  <2>1. UNCHANGED <<vars, vmmVars>> /\ UNCHANGED heapVars  BY <1>2 DEF hvars
  <2>2. VInv'  BY <2>1, VInvStep DEF HInv
  <2>3. left' = left /\ returned' = returned  BY <2>1 DEF vmmVars, loopVars, ghostVars
  <2> QED  BY <2>1, <2>2, <2>3, HeapKeeps
<1> QED  BY <1>1, <1>2, KmallocStep, KfreeStep, KfreeStrayStep DEF HeapNext

LEMMA HInvAlways == HeapSpec => []HInv
BY HInvInit, HInvStep, PTL DEF HeapSpec

-----------------------------------------------------------------------------
LEMMA ApartBytes ==
  ASSUME NEW f \in SlabFrame, NEW g \in SlabFrame, Apart(f, g)
  PROVE  FrameBytes(f) \cap FrameBytes(g) = {}
<1>1. f.start \in Nat /\ f.end \in Nat /\ g.start \in Nat /\ g.end \in Nat
  BY DEF SlabFrame
<1>2. ASSUME NEW x \in FrameBytes(f), x \in FrameBytes(g) PROVE FALSE
  BY <1>1, <1>2 DEF FrameBytes, Apart
<1> QED  BY <1>2

LEMMA FramesAre ==
  ASSUME HInv
  PROVE  /\ FreeFrames = In(heap.slabs) /\ AllocedFrames = In(heap.alloced)
         /\ FreeFrames \subseteq SlabFrame /\ AllocedFrames \subseteq SlabFrame
         /\ slabs \in Lists /\ allocedSlabs \in Lists
         /\ heap.slabs = slabs /\ heap.alloced = allocedSlabs
<1>1. heap.slabs = slabs /\ heap.alloced = allocedSlabs /\ slabs \in Lists /\ allocedSlabs \in Lists
  BY HeapRecord DEF HeapRecords
<1>2. /\ \A i \in Slabs : Of(slabs, i) = Range(slabs[i]) /\ Of(allocedSlabs, i) = Range(allocedSlabs[i])
      /\ In(slabs) \subseteq SlabFrame /\ In(allocedSlabs) \subseteq SlabFrame
  BY <1>1, Members
<1> QED  BY <1>1, <1>2 DEF FreeFrames, AllocedFrames, In

\* Blocks are told apart by their bytes.
LEMMA PiecesTell ==
  ASSUME NEW a \in [addr : Nat, slab : Slabs], NEW b \in [addr : Nat, slab : Slabs],
         Piece(a) = Piece(b)
  PROVE  a = b
<1>1. a.slab \in Slabs /\ b.slab \in Slabs /\ a.addr \in Nat /\ b.addr \in Nat
      /\ a = [addr |-> a.addr, slab |-> a.slab] /\ b = [addr |-> b.addr, slab |-> b.slab]
  OBVIOUS
<1>2. AllocSize(a.slab) \in Nat /\ AllocSize(b.slab) \in Nat  BY <1>1, Sizes
<1>3. a.addr = b.addr /\ AllocSize(a.slab) = AllocSize(b.slab)
  BY <1>1, <1>2 DEF Piece
<1> QED  BY <1>1, <1>3, Sizes

\* The lists of heap.cpp hold SlabFrames, the callers blocks of a class.
THEOREM HeapTypeCorrect == HeapSpec => []HeapTypeOK
<1>1. HInv => HeapTypeOK  BY DEF HInv
<1> QED  BY <1>1, HInvAlways, PTL

\* The lists of slab.h share out the heap's memory: no byte is in two SlabFrames,
\* free, allocated or left out of the lists by free.
THEOREM FramesArePartitionCorrect == HeapSpec => []FramesArePartition
<1>1. ASSUME HInv PROVE FramesArePartition
  <2> SUFFICES ASSUME ~Reused
      PROVE  /\ \A i, j \in Slabs : \A k \in DOMAIN slabs[i], l \in DOMAIN slabs[j] :
                  <<i, k>> # <<j, l>> => FrameBytes(slabs[i][k]) \cap FrameBytes(slabs[j][l]) = {}
             /\ \A i, j \in Slabs : \A k \in DOMAIN allocedSlabs[i], l \in DOMAIN allocedSlabs[j] :
                  <<i, k>> # <<j, l>> =>
                    FrameBytes(allocedSlabs[i][k]) \cap FrameBytes(allocedSlabs[j][l]) = {}
             /\ \A f \in FreeFrames, g \in AllocedFrames \cup lost :
                  FrameBytes(f) \cap FrameBytes(g) = {}
             /\ \A f \in AllocedFrames, g \in lost : FrameBytes(f) \cap FrameBytes(g) = {}
    BY DEF FramesArePartition
  <2>1. Sound(heap, lost, Top) /\ lost \subseteq SlabFrame
    BY <1>1, HeapRecord DEF HInv
  <2>2. ASSUME NEW S \in Lists, Separate(S),
               NEW i \in Slabs, NEW j \in Slabs,
               NEW k \in DOMAIN S[i], NEW l \in DOMAIN S[j], <<i, k>> # <<j, l>>
        PROVE  FrameBytes(S[i][k]) \cap FrameBytes(S[j][l]) = {}
    <3>1. /\ k \in 1 .. Len(S[i]) /\ l \in 1 .. Len(S[j])
          /\ S[i][k] \in SlabFrame /\ S[j][l] \in SlabFrame
      BY Members
    <3>2. i # j \/ k # l  BY <2>2
    <3>3. Apart(S[i][k], S[j][l])  BY <2>2, <3>1, <3>2 DEF Separate
    <3> QED  BY <3>1, <3>3, ApartBytes
  <2>3. /\ slabs \in Lists /\ allocedSlabs \in Lists
        /\ Separate(slabs) /\ Separate(allocedSlabs)
    BY <1>1, <2>1, FramesAre DEF Sound
  <2>4. /\ \A f \in FreeFrames, g \in AllocedFrames \cup lost : Apart(f, g)
        /\ \A f \in AllocedFrames, g \in lost : Apart(f, g)
        /\ \A f \in FreeFrames \cup AllocedFrames \cup lost : f \in SlabFrame
    BY <1>1, <2>1, FramesAre DEF Sound
  <2>5. \A f, g \in SlabFrame : Apart(f, g) => FrameBytes(f) \cap FrameBytes(g) = {}
    BY ApartBytes
  <2>6. /\ \A f \in FreeFrames, g \in AllocedFrames \cup lost :
             FrameBytes(f) \cap FrameBytes(g) = {}
        /\ \A f \in AllocedFrames, g \in lost : FrameBytes(f) \cap FrameBytes(g) = {}
    BY <2>4, <2>5
  <2> QED  BY <2>2, <2>3, <2>6
<1> QED  BY <1>1, HInvAlways, PTL

\* kmalloc never returns memory a caller holds, and kfree puts none of it into a
\* free list.
THEOREM LiveIsExclusiveCorrect == HeapSpec => []LiveIsExclusive
<1>1. ASSUME HInv PROVE LiveIsExclusive
  <2> SUFFICES ASSUME ~Reused
      PROVE  /\ ~clashed
             /\ \A a, b \in live : a # b => ~Overlap(a, b)
             /\ \A b \in live, f \in FreeFrames : Bytes(b) \cap FrameBytes(f) = {}
    BY DEF LiveIsExclusive
  <2>1. /\ Sound(heap, lost, Top) /\ AllKnown(heap, live, lost) /\ ~clashed
        /\ lost \subseteq SlabFrame /\ live \in SUBSET [addr : Nat, slab : Slabs]
        /\ heap.alloced \in Lists
    BY <1>1, HeapRecord DEF HInv, HeapRecords
  <2>2. \A b \in live : /\ b \in [addr : Nat, slab : Slabs]
                        /\ Piece(b) \in In(heap.alloced) \cup lost
                        /\ Piece(b) \in SlabFrame
    <3> TAKE b \in live
    <3>1. b \in [addr : Nat, slab : Slabs] /\ b.slab \in Slabs  BY <2>1
    <3>2. Of(heap.alloced, b.slab) \subseteq In(heap.alloced)  BY <2>1, <3>1, Members
    <3> QED  BY <2>1, <3>1, <3>2, OverlapIs DEF AllKnown
  <2>3. \A f, g \in In(heap.alloced) \cup lost : f # g => Apart(f, g) \/ Apart(g, f)
    <3>1. \A f, g \in In(heap.alloced) : f # g => Apart(f, g)
      <4> TAKE f, g \in In(heap.alloced)
      <4>1. PICK i \in Slabs : \E k \in 1 .. Len(heap.alloced[i]) : f = heap.alloced[i][k]
        BY DEF In, Of
      <4>2. PICK j \in Slabs : \E l \in 1 .. Len(heap.alloced[j]) : g = heap.alloced[j][l]
        BY DEF In, Of
      <4> QED  BY <2>1, <4>1, <4>2 DEF Sound, Separate
    <3> QED  BY <2>1, <3>1 DEF Sound
  <2>4. ASSUME NEW a \in live, NEW b \in live, a # b PROVE ~Overlap(a, b)
    <3>1. Piece(a) # Piece(b)  BY <2>2, <2>4, PiecesTell
    <3>2. Apart(Piece(a), Piece(b))
      BY <2>2, <2>3, <3>1 DEF Apart
    <3> QED  BY <2>2, <3>2, OverlapIs
  <2>5. ASSUME NEW b \in live, NEW f \in FreeFrames
        PROVE  Bytes(b) \cap FrameBytes(f) = {}
    <3>1. f \in In(heap.slabs) /\ f \in SlabFrame  BY <1>1, <2>5, FramesAre
    <3>2. Apart(f, Piece(b)) /\ Piece(b) \in SlabFrame
      BY <2>1, <2>2, <3>1 DEF Sound
    <3>3. FrameBytes(f) \cap FrameBytes(Piece(b)) = {}  BY <3>1, <3>2, ApartBytes
    <3>4. FrameBytes(Piece(b)) = Bytes(b)  BY DEF FrameBytes, Piece, Bytes
    <3> QED  BY <3>3, <3>4
  <2> QED  BY <2>1, <2>4, <2>5
<1> QED  BY <1>1, HInvAlways, PTL

\* A kfree (heap.cpp) by somebody who does not hold the block finds nothing, or the
\* block of the one caller who holds that address now: the only memory shared after
\* it is this block, whole.
THEOREM StrayFreeHarmsOneHolderCorrect == HeapSpec => []StrayFreeHarmsOneHolder
<1>1. ASSUME HInv PROVE StrayFreeHarmsOneHolder
  <2> SUFFICES ASSUME ~Reused
      PROVE  /\ \A addr \in HeapBytes : (\A b \in live : b.addr # addr) => free(heap, addr) = heap
             /\ \A s \in stolen, b \in live : Overlap(s, b) => s = b
    BY DEF StrayFreeHarmsOneHolder
  <2>1. /\ Sound(heap, lost, Top) /\ AllHeld(heap, live) /\ AllKnown(heap, live, lost)
        /\ StolenKnown(heap, stolen, lost)
    BY <1>1 DEF HInv
  <2>2. /\ heap \in HeapRecords /\ heap.slabs \in Lists /\ heap.alloced \in Lists
        /\ live \in SUBSET [addr : Nat, slab : Slabs]
        /\ stolen \in SUBSET [addr : Nat, slab : Slabs] /\ lost \in SUBSET SlabFrame
    BY <1>1, HeapRecord DEF HeapRecords
  <2>3. ASSUME NEW addr \in HeapBytes, \A b \in live : b.addr # addr
        PROVE  free(heap, addr) = heap
    <3>1. \A i \in Slabs : \A f \in Of(heap.alloced, i) : f.start # addr
      <4> TAKE i \in Slabs
      <4> TAKE f \in Of(heap.alloced, i)
      <4>1. [addr |-> f.start, slab |-> i] \in live  BY <2>1 DEF AllHeld
      <4>2. [addr |-> f.start, slab |-> i].addr = f.start  OBVIOUS
      <4> QED  BY <2>3, <4>1, <4>2
    <3>2. \A i \in Slabs : \A k \in 1 .. Len(heap.alloced[i]) : heap.alloced[i][k].start # addr
      BY <3>1 DEF Of
    <3> QED  BY <2>2, <3>2, FreeFrees
  <2>4. ASSUME NEW s \in stolen, NEW b \in live, s # b PROVE ~Overlap(s, b)
    <3>1. s \in [addr : Nat, slab : Slabs] /\ b \in [addr : Nat, slab : Slabs]
          /\ s.slab \in Slabs /\ b.slab \in Slabs
      BY <2>2
    <3>2. Piece(s) # Piece(b) /\ Piece(s) \in SlabFrame /\ Piece(b) \in SlabFrame
      BY <2>4, <3>1, PiecesTell, OverlapIs
    <3>3. Piece(s) \in In(heap.slabs) \cup In(heap.alloced) \cup lost
      <4>1. Piece(s) \in Somewhere(heap, lost, s.slab)  BY <2>1 DEF StolenKnown
      <4> QED  BY <2>2, <3>1, <4>1, Members DEF Somewhere
    <3>4. Piece(b) \in In(heap.alloced) \cup lost
      <4>1. Piece(b) \in Of(heap.alloced, b.slab) \cup lost  BY <2>1 DEF AllKnown
      <4> QED  BY <2>2, <3>1, <4>1, Members
    <3>5. \A f, g \in In(heap.alloced) : f # g => Apart(f, g)
      <4> TAKE f, g \in In(heap.alloced)
      <4>1. PICK i \in Slabs : \E k \in 1 .. Len(heap.alloced[i]) : f = heap.alloced[i][k]
        BY DEF In, Of
      <4>2. PICK j \in Slabs : \E l \in 1 .. Len(heap.alloced[j]) : g = heap.alloced[j][l]
        BY DEF In, Of
      <4> QED  BY <2>1, <4>1, <4>2 DEF Sound, Separate
    <3>6. Apart(Piece(s), Piece(b)) \/ Apart(Piece(b), Piece(s))
      BY <2>1, <3>2, <3>3, <3>4, <3>5 DEF Sound
    <3>7. Apart(Piece(s), Piece(b))  BY <3>6 DEF Apart
    <3> QED  BY <3>1, <3>7, OverlapIs
  <2> QED  BY <2>3, <2>4
<1> QED  BY <1>1, HInvAlways, PTL

-----------------------------------------------------------------------------
\* How many SlabFrames there are.

LEMMA EveryClass ==
  ASSUME NEW n \in Nat, NEW S, 0 \in S, \A k \in 1 .. n : k-1 \in S => k \in S
  PROVE  \A k \in 0 .. n : k \in S
<1> DEFINE T == {k \in 0 .. n : k \notin S}
<1> SUFFICES ASSUME T # {} PROVE FALSE
  OBVIOUS
<1>1. T \in SUBSET Nat  OBVIOUS
<1> HIDE DEF T
<1>2. PICK x \in T : \A y \in T : x <= y  BY <1>1, LeastElement
<1>3. x \in 1 .. n /\ x \notin S  BY <1>2 DEF T
<1>4. x-1 \in 0 .. n /\ ~(x <= x-1)  BY <1>3
<1>5. x-1 \in S  BY <1>2, <1>4 DEF T
<1> QED  BY <1>3, <1>5

\* Frames at different places are different ones.
LEMMA OneListCount ==
  ASSUME NEW S \in Lists, Separate(S), \A f \in In(S) : f.start <= f.end, NEW i \in Slabs
  PROVE  IsFiniteSet(Of(S, i)) /\ Cardinality(Of(S, i)) = Len(S[i])
<1> DEFINE s == S[i]
           n == Len(s)
           f == [k \in 1 .. n |-> s[k]]
<1>1. n \in Nat /\ \A k \in 1 .. n : s[k] \in SlabFrame /\ s[k] \in In(S) /\ s[k] \in Of(S, i)
  BY Members
<1>2. \A k, l \in 1 .. n : k # l => s[k] # s[l]
  <2> TAKE k, l \in 1 .. n
  <2>1. k # l => Apart(s[k], s[l])  BY DEF Separate
  <2>2. ~Apart(s[k], s[k])  BY <1>1 DEF Apart, SlabFrame
  <2> QED  BY <2>1, <2>2
<1>3. Of(S, i) = {s[k] : k \in 1 .. n}  BY DEF Of
<1> HIDE DEF s, n
<1>4. f \in [1 .. n -> Of(S, i)]  BY <1>1
<1>5. f \in Injection(1 .. n, Of(S, i))
  BY <1>2, <1>4 DEF Injection, IsInjective
<1>6. f \in Surjection(1 .. n, Of(S, i))
  BY <1>3, <1>4 DEF Surjection
<1>7. ExistsBijection(1 .. n, Of(S, i))
  BY <1>5, <1>6 DEF ExistsBijection, Bijection
<1>8. IsFiniteSet(1 .. n) /\ Cardinality(1 .. n) = n
  <2>1. 1 \in Int /\ n \in Int  BY <1>1
  <2>2. /\ IsFiniteSet(1 .. n)
        /\ Cardinality(1 .. n) = IF 1 > n THEN 0 ELSE n - 1 + 1
    BY <2>1, FS_Interval
  <2> QED  BY <1>1, <2>2
<1>9. IsFiniteSet(Of(S, i)) /\ Cardinality(Of(S, i)) = Cardinality(1 .. n)
  BY <1>7, <1>8, FS_Bijection
<1> QED  BY <1>8, <1>9 DEF s, n

\* Class by class, framesIn counts the frames of all lists.
LEMMA AllListsCount ==
  ASSUME NEW S \in Lists, Separate(S), \A f \in In(S) : f.start <= f.end
  PROVE  IsFiniteSet(In(S)) /\ framesIn(S) = Cardinality(In(S))
<1> DEFINE N == SlabCount
           InTo(i) == UNION {Of(S, j) : j \in 1 .. i}
           R(u) == [i \in 0 .. N |-> IF i = 0 THEN 0 ELSE u[i-1] + Len(S[i])]
           upTo == CHOOSE u : u = R(u)
           c == [i \in 0 .. N |-> Cardinality(InTo(i))]
<1>1. N \in Nat /\ Slabs = 1 .. N  BY HeapAssumption DEF Slabs
<1>2. framesIn(S) = upTo[N]  BY DEF framesIn
<1>3. InTo(0) = {} /\ InTo(N) = In(S)
  <2>1. 1 .. 0 = {}  OBVIOUS
  <2> QED  BY <1>1, <2>1 DEF In
<1>4. ASSUME NEW i \in 1 .. N
      PROVE  InTo(i) = InTo(i-1) \cup Of(S, i) /\ InTo(i-1) \cap Of(S, i) = {}
  <2>1. 1 .. i = (1 .. i-1) \cup {i}  BY <1>1
  <2>2. InTo(i) = InTo(i-1) \cup Of(S, i)  BY <2>1
  <2>3. ASSUME NEW j \in 1 .. i-1, NEW f \in Of(S, j), f \in Of(S, i) PROVE FALSE
    <3>1. j \in Slabs /\ i \in Slabs /\ j # i  BY <1>1
    <3>2. PICK k \in 1 .. Len(S[j]) : f = S[j][k]  BY <2>3 DEF Of
    <3>3. PICK l \in 1 .. Len(S[i]) : f = S[i][l]  BY <2>3 DEF Of
    <3>4. Apart(S[j][k], S[i][l])  BY <3>1 DEF Separate
    <3>5. f \in SlabFrame /\ f \in In(S)  BY <3>1, <3>2, Members
    <3> QED  BY <3>2, <3>3, <3>4, <3>5 DEF Apart, SlabFrame
  <2> QED  BY <2>2, <2>3
<1>5. \A i \in 1 .. N : IsFiniteSet(Of(S, i)) /\ Cardinality(Of(S, i)) = Len(S[i])
  BY <1>1, OneListCount
<1> HIDE DEF InTo, N
<1>6. \A i \in 0 .. N : IsFiniteSet(InTo(i))
  <2> DEFINE F == {i \in 0 .. N : IsFiniteSet(InTo(i))}
  <2>1. 0 \in F
    <3>1. 0 \in 0 .. N /\ InTo(0) = {}  BY <1>1, <1>3
    <3> QED  BY <3>1, FS_EmptySet
  <2>2. ASSUME NEW i \in 1 .. N, i-1 \in F PROVE i \in F
    <3>1. i \in 0 .. N  BY <1>1
    <3>2. IsFiniteSet(InTo(i-1)) /\ IsFiniteSet(Of(S, i))  BY <1>5, <2>2
    <3>3. IsFiniteSet(InTo(i-1) \cup Of(S, i))  BY <3>2, FS_Union
    <3>4. InTo(i) = InTo(i-1) \cup Of(S, i)  BY <1>4
    <3>5. IsFiniteSet(InTo(i))  BY <3>3, <3>4
    <3> QED  BY <3>1, <3>5
  <2> HIDE DEF F
  <2>3. \A i \in 0 .. N : i \in F  BY <1>1, <2>1, <2>2, EveryClass, Zenon
  <2> QED  BY <2>3 DEF F
<1>7. \A i \in 1 .. N : c[i] = c[i-1] + Len(S[i])
  <2> TAKE i \in 1 .. N
  <2>1. i \in 0 .. N /\ i-1 \in 0 .. N  BY <1>1
  <2>2. Cardinality(InTo(i)) =
          Cardinality(InTo(i-1)) + Cardinality(Of(S, i)) - Cardinality({})
    BY <1>4, <1>5, <1>6, <2>1, FS_Union
  <2>3. Cardinality({}) = 0 /\ Cardinality(InTo(i-1)) \in Nat /\ Cardinality(Of(S, i)) \in Nat
    BY <1>5, <1>6, <2>1, FS_EmptySet, FS_CardinalityType
  <2> QED  BY <1>5, <2>1, <2>2, <2>3
<1>8. c[0] = 0  BY <1>1, <1>3, FS_EmptySet
<1>9. c = R(c)
  <2>1. \A i \in 0 .. N : c[i] = IF i = 0 THEN 0 ELSE c[i-1] + Len(S[i])
    <3> HIDE DEF c
    <3>1. \A i \in 0 .. N : i = 0 \/ i \in 1 .. N  BY <1>1
    <3>2. \A i \in 1 .. N : i # 0  BY <1>1
    <3> QED  BY <1>7, <1>8, <3>1, <3>2, Zenon
  <2> QED  BY <2>1
<1>10. upTo = R(upTo)
  <2> HIDE DEF c
  <2>1. \E u : u = R(u)  BY <1>9
  <2> QED  BY <2>1
<1> HIDE DEF upTo, c
<1>11. upTo[0] = 0 /\ \A i \in 1 .. N : upTo[i] = upTo[i-1] + Len(S[i])
  BY <1>1, <1>10
<1>12. upTo[N] = c[N]
  <2> DEFINE E == {i \in 0 .. N : upTo[i] = c[i]}
  <2>1. 0 \in E  BY <1>1, <1>8, <1>11
  <2>2. ASSUME NEW i \in 1 .. N, i-1 \in E PROVE i \in E
    BY <1>1, <1>7, <1>11, <2>2
  <2> HIDE DEF E
  <2>3. \A i \in 0 .. N : i \in E  BY <1>1, <2>1, <2>2, EveryClass, Zenon
  <2>4. N \in E  BY <1>1, <2>3
  <2> QED  BY <2>4 DEF E
<1>13. c[N] = Cardinality(In(S))  BY <1>1, <1>3 DEF c
<1> QED  BY <1>1, <1>2, <1>3, <1>6, <1>12, <1>13 DEF N

\* Frames of at least one smallest block each, none meeting another, below top.
LEMMA FramesFit ==
  ASSUME NEW A \in SUBSET SlabFrame, NEW n \in Nat,
         \A f \in A : /\ heapStart <= f.start /\ f.end < heapStart + n * PageSize
                      /\ f.start + MinSize <= f.end + 1,
         \A f, g \in A : f # g => Apart(f, g)
  PROVE  Cardinality(A) <= n * (PageSize \div MinSize)
<1> DEFINE q == PageSize \div MinSize
           T == 0 .. n * q - 1
           at(f) == (f.start - heapStart) \div MinSize
           F == [f \in A |-> at(f)]
<1>1. /\ MinSize \in Nat \ {0} /\ PageSize \in Nat /\ heapStart \in Nat
      /\ PageSize % MinSize = 0
  <2>1. 1 \in Slabs  BY HeapAssumption DEF Slabs
  <2> QED  BY <2>1, Sizes, HeapAssumption, ClassesAssumption
<1>2. q \in Nat /\ PageSize = MinSize * q
  <2>1. /\ q \in 0 .. PageSize
        /\ PageSize = MinSize * q + (PageSize % MinSize)
    BY <1>1, DivBound, DivMod
  <2>2. MinSize * q \in Nat  BY <1>1, <2>1
  <2> QED  BY <1>1, <2>1, <2>2
<1> HIDE DEF q
<1>3. n * q \in Nat /\ n * PageSize \in Nat /\ n * PageSize = MinSize * (n * q)
  BY <1>1, <1>2
<1>4. ASSUME NEW f \in A
      PROVE  /\ f.start - heapStart \in Nat /\ f.start - heapStart < MinSize * (n * q)
             /\ f.start \in Nat /\ f.end \in Nat /\ at(f) \in Nat
  <2>1. f.start \in Nat /\ f.end \in Nat  BY DEF SlabFrame
  <2>2. f.start - heapStart \in Nat  BY <1>1, <2>1
  <2>3. f.start - heapStart < MinSize * (n * q)  BY <1>1, <1>3, <2>1
  <2>4. at(f) \in Nat  BY <1>1, <2>2, QuotientBounds
  <2> QED  BY <2>1, <2>2, <2>3, <2>4
<1>5. ASSUME NEW f \in A PROVE at(f) \in T
  <2>1. at(f) < n * q  BY <1>1, <1>3, <1>4, QuotientBounds
  <2> HIDE DEF at
  <2> QED  BY <1>3, <1>4, <2>1
<1>6. ASSUME NEW f \in A, NEW g \in A, f.end < g.start PROVE at(f) # at(g)
  <2> DEFINE a == f.start - heapStart
             b == g.start - heapStart
             k == a \div MinSize
  <2>1. a \in Nat /\ b \in Nat /\ a + MinSize <= b  BY <1>1, <1>4, <1>6
  <2> HIDE DEF a, b
  <2>2. k \in Nat /\ a = MinSize * k + (a % MinSize) /\ a % MinSize \in 0 .. MinSize-1
    <3>1. a \div MinSize \in Nat  BY <1>1, <2>1, QuotientBounds
    <3>2. a = MinSize * (a \div MinSize) + (a % MinSize) /\ a % MinSize \in 0 .. MinSize-1
      BY <1>1, <2>1, DivMod
    <3> QED  BY <3>1, <3>2
  <2> HIDE DEF k
  <2>3. MinSize * (k + 1) = MinSize * k + MinSize /\ MinSize * k \in Int  BY <1>1, <2>2
  <2> DEFINE m == MinSize * k
  <2>4. m \in Int /\ a = m + (a % MinSize) /\ MinSize * (k + 1) = m + MinSize  BY <2>2, <2>3
  <2> HIDE DEF m
  <2>5. MinSize * (k + 1) <= b  BY <1>1, <2>1, <2>2, <2>4
  <2>6. b \div MinSize >= k + 1 /\ b \div MinSize \in Nat
    <3> DEFINE k1 == k + 1
    <3>1. k1 \in Nat /\ b \in Nat /\ MinSize \in Nat \ {0} /\ MinSize * k1 <= b
      BY <1>1, <2>1, <2>2, <2>5
    <3> HIDE DEF k1
    <3>2. b \div MinSize >= k1 /\ b \div MinSize \in Nat  BY <3>1, QuotientBounds
    <3> QED  BY <3>2 DEF k1
  <2>7. at(f) = k /\ at(g) = b \div MinSize  BY DEF a, b, k
  <2> HIDE DEF at
  <2> QED  BY <2>2, <2>6, <2>7
<1> HIDE DEF at, T
<1>7. F \in [A -> T]  BY <1>5
<1>8. \A f, g \in A : F[f] = F[g] => f = g
  <2> SUFFICES ASSUME NEW f \in A, NEW g \in A, f # g PROVE F[f] # F[g]
    OBVIOUS
  <2>1. f.end < g.start \/ g.end < f.start  BY DEF Apart
  <2> QED  BY <1>6, <2>1
<1>9. F \in Injection(A, T)
  <2> HIDE DEF F
  <2> QED  BY <1>7, <1>8 DEF Injection, IsInjective
<1>10. IsFiniteSet(T) /\ Cardinality(T) = n * q
  <2> DEFINE m == n * q
  <2>1. 0 \in Int /\ m - 1 \in Int /\ m \in Nat  BY <1>3
  <2> HIDE DEF m
  <2>2. /\ IsFiniteSet(0 .. m - 1)
        /\ Cardinality(0 .. m - 1) = IF 0 > m - 1 THEN 0 ELSE (m - 1) - 0 + 1
    BY <2>1, FS_Interval
  <2>3. Cardinality(0 .. m - 1) = m  BY <2>1, <2>2
  <2> QED  BY <2>2, <2>3 DEF T, m
<1>11. Cardinality(A) <= Cardinality(T)  BY <1>9, <1>10, FS_Injection
<1> QED  BY <1>10, <1>11 DEF q

\* kmem gets no SlabFrame back (slab.h, free): every frame ever made is in one of
\* the lists or lost from them, and their number is bounded by the smallest blocks
\* the pages hold, however often blocks are allocated and freed.
THEOREM NoFrameIsForgottenCorrect == HeapSpec => []NoFrameIsForgotten
<1>1. ASSUME HInv, ~Reused
      PROVE  /\ slabFrames = framesIn(slabs) + framesIn(allocedSlabs) + Cardinality(lost)
             /\ slabFrames <= grown * (PageSize \div MinSize)
  <2>1. /\ Sound(heap, lost, Top) /\ Tallied(heap, lost)
        /\ heap.frames = slabFrames /\ grown \in Nat /\ lost \in SUBSET SlabFrame
        /\ slabs \in Lists /\ allocedSlabs \in Lists
        /\ heap.slabs = slabs /\ heap.alloced = allocedSlabs
    BY <1>1, HeapRecord, FramesAre DEF HInv
  <2> DEFINE F == In(slabs)
             A == In(allocedSlabs)
  <2>2. /\ F \subseteq SlabFrame /\ A \subseteq SlabFrame
        /\ \A f \in F \cup A \cup lost :
             heapStart <= f.start /\ f.start <= f.end /\ f.end < heapStart + grown * PageSize
        /\ \A f \in F, g \in A \cup lost : Apart(f, g)
        /\ \A f \in A, g \in lost : Apart(f, g)
        /\ \A f, g \in lost : f # g => Apart(f, g)
        /\ Separate(slabs) /\ Separate(allocedSlabs)
    BY <2>1, Members DEF Sound, Top
  <2>3. /\ IsFiniteSet(F) /\ framesIn(slabs) = Cardinality(F)
        /\ IsFiniteSet(A) /\ framesIn(allocedSlabs) = Cardinality(A)
    BY <2>1, <2>2, AllListsCount
  <2>4. IsFiniteSet(F \cup A \cup lost) /\ slabFrames = Cardinality(F \cup A \cup lost)
    BY <2>1 DEF Tallied, Made
  \* Frames of two lists, or of one, do not meet.
  <2>5. ASSUME NEW S \in Lists, Separate(S), NEW f \in In(S), NEW g \in In(S), f # g
        PROVE  Apart(f, g)
    <3>1. PICK i \in Slabs : \E k \in 1 .. Len(S[i]) : f = S[i][k]  BY DEF In, Of
    <3>2. PICK j \in Slabs : \E k \in 1 .. Len(S[j]) : g = S[j][k]  BY DEF In, Of
    <3> QED  BY <2>5, <3>1, <3>2 DEF Separate
  <2>6. /\ \A f, g \in F : f # g => Apart(f, g)
        /\ \A f, g \in A : f # g => Apart(f, g)
    BY <2>1, <2>2, <2>5
  <2>7. \A f, g \in F \cup A \cup lost : f # g => Apart(f, g)
    <3>1. \A f, g \in F \cup A \cup lost : Apart(f, g) => Apart(g, f)  BY DEF Apart
    <3> HIDE DEF F, A
    <3> QED  BY <2>2, <2>6, <3>1
  <2>8. \A f \in F \cup A \cup lost : f.start + MinSize <= f.end + 1
    <3> TAKE f \in F \cup A \cup lost
    <3>1. \E i \in Slabs : Whole(f, i) \/ Single(f, i)
      <4>1. CASE f \in F
        <5>1. PICK i \in Slabs : f \in Of(slabs, i)  BY <4>1 DEF In
        <5> QED  BY <2>1, <5>1 DEF Sound
      <4>2. CASE f \in A
        <5>1. PICK i \in Slabs : f \in Of(allocedSlabs, i)  BY <4>2 DEF In
        <5> QED  BY <2>1, <5>1 DEF Sound
      <4>3. CASE f \in lost  BY <2>1, <4>3 DEF Sound
      <4> QED  BY <4>1, <4>2, <4>3
    <3> PICK i \in Slabs : Whole(f, i) \/ Single(f, i)  BY <3>1
    <3>2. f \in SlabFrame  BY <2>1, <2>2
    <3>3. f.start \in Nat /\ f.end \in Nat  BY <3>2 DEF SlabFrame
    <3>4. AllocSize(i) \in Nat /\ MinSize \in Nat /\ AllocSize(i) >= MinSize
      <4>1. 1 \in Slabs /\ (i = 1 \/ 1 < i)  BY HeapAssumption DEF Slabs
      <4>2. 1 < i => AllocSize(1) < AllocSize(i)  BY <4>1, ClassesAssumption
      <4>3. AllocSize(1) = MinSize  BY ClassesAssumption
      <4>4. AllocSize(i) \in Nat  BY ClassesAssumption
      <4>5. MinSize \in Nat  BY HeapAssumption
      <4> QED  BY <4>1, <4>2, <4>3, <4>4, <4>5
    <3>5. \E m \in Nat \ {0} : f.end + 1 = f.start + m * AllocSize(i)
      <4>1. CASE Whole(f, i)  BY <4>1, Sizes DEF Whole
      <4>2. CASE Single(f, i)
        <5>1. 1 * AllocSize(i) = AllocSize(i)  BY <3>4
        <5> QED  BY <4>2, <5>1 DEF Single
      <4> QED  BY <4>1, <4>2
    <3>6. PICK m \in Nat \ {0} : f.end + 1 = f.start + m * AllocSize(i)  BY <3>5
    <3> DEFINE p == m * AllocSize(i)
    <3>7. AllocSize(i) * 1 <= AllocSize(i) * m /\ p = AllocSize(i) * m /\ p \in Int
      BY <3>4, LargerMultiple
    <3>8. p >= AllocSize(i)  BY <3>4, <3>7
    <3>9. f.end + 1 = f.start + p /\ p \in Int  BY <3>6, <3>7
    <3> HIDE DEF p
    <3> QED  BY <3>3, <3>4, <3>8, <3>9
  <2>9. slabFrames <= grown * (PageSize \div MinSize)
    <3> DEFINE M == F \cup A \cup lost
    <3>1. M \in SUBSET SlabFrame  BY <2>1, <2>2
    <3>2. \A f \in M : /\ heapStart <= f.start /\ f.end < heapStart + grown * PageSize
                       /\ f.start + MinSize <= f.end + 1
      BY <2>2, <2>8
    <3>3. \A f, g \in M : f # g => Apart(f, g)  BY <2>7
    <3> HIDE DEF M
    <3>4. Cardinality(M) <= grown * (PageSize \div MinSize)
      BY <2>1, <3>1, <3>2, <3>3, FramesFit
    <3> QED  BY <2>4, <3>4 DEF M
  <2>10. slabFrames = Cardinality(F) + Cardinality(A) + Cardinality(lost)
    <3>1. \A f \in F \cup A \cup lost : ~Apart(f, f)  BY <2>1, <2>2 DEF Apart, SlabFrame
    <3>2. F \cap A = {} /\ (F \cup A) \cap lost = {}
      <4> HIDE DEF F, A
      <4> QED  BY <2>2, <3>1
    <3> HIDE DEF F, A
    <3>3. IsFiniteSet(lost)
      <4>1. lost \in SUBSET (F \cup A \cup lost)  OBVIOUS
      <4> QED  BY <2>4, <4>1, FS_Subset
    <3>4. IsFiniteSet(F \cup A)
          /\ Cardinality(F \cup A) = Cardinality(F) + Cardinality(A) - Cardinality(F \cap A)
      BY <2>3, FS_Union
    <3>5. Cardinality((F \cup A) \cup lost) =
            Cardinality(F \cup A) + Cardinality(lost) - Cardinality((F \cup A) \cap lost)
      BY <3>3, <3>4, FS_Union
    <3>6. /\ Cardinality({}) = 0 /\ Cardinality(F) \in Nat /\ Cardinality(A) \in Nat
          /\ Cardinality(lost) \in Nat
      BY <2>3, <3>3, FS_EmptySet, FS_CardinalityType
    <3>7. Cardinality(F \cup A) = Cardinality(F) + Cardinality(A)
      <4>1. Cardinality(F \cap A) = 0  BY <3>2, <3>6, Zenon
      <4> QED  BY <3>4, <3>6, <4>1
    <3>8. Cardinality((F \cup A) \cup lost) = Cardinality(F \cup A) + Cardinality(lost)
      <4>1. Cardinality((F \cup A) \cap lost) = 0  BY <3>2, <3>6, Zenon
      <4>2. Cardinality(F \cup A) \in Nat  BY <3>4, FS_CardinalityType
      <4> QED  BY <3>5, <3>6, <4>1, <4>2
    <3> QED  BY <2>4, <3>7, <3>8
  <2> QED  BY <2>3, <2>9, <2>10
<1>2. HInv => NoFrameIsForgotten  BY <1>1 DEF NoFrameIsForgotten
<1> QED  BY <1>2, HInvAlways, PTL

-----------------------------------------------------------------------------
\* What the VMM does for the heap.

LEMMA HeapCountedStep ==
  ASSUME HInv, Counted, [HeapNext]_hvars
  PROVE  /\ Counted'
         /\ (built => CountsEnough) /\ OutOnly => OutOnly'
<1>1. CASE [VMMNext]_<<vars, vmmVars>>
  BY <1>1, CountedStep DEF HInv
<1>2. CASE Kmalloc
  <2>1. PICK size \in 0 .. PageSize, junk \in Junk :
          LET i     == slabFor(size)
              grows == slabs[i] = <<>>
              h     == slabAlloc(heap, i)
              block == [addr |-> Head(h.alloced[i]).start, slab |-> i]
          IN  IF grows
              THEN LET page == PageOf(nextMemory(heap))
                   IN  Becomes(allocPage(paging, page, junk), page) /\ UNCHANGED loopVars
              ELSE UNCHANGED <<vars, vmmVars>>
    BY <1>2 DEF Kmalloc
  <2> DEFINE page == PageOf(nextMemory(heap))
  <2>2. CASE UNCHANGED <<vars, vmmVars>>  BY <1>1, <2>2
  <2>3. CASE Becomes(allocPage(paging, page, junk), page)
    <3>1. up /\ page \in Pages  BY <1>2, NextPage DEF Kmalloc
    <3>2. built  BY <3>1 DEF HInv, VInv, Early
    <3> HIDE DEF page
    <3> QED  BY <2>3, <3>1, <3>2, CountedAnswer DEF HInv
  <2> QED  BY <2>1, <2>2, <2>3
<1>3. CASE Kfree \/ KfreeStray
  BY <1>1, <1>3 DEF Kfree, KfreeStray, Gives
<1>4. CASE Boot
  BY <1>1, <1>4 DEF VMMNext
<1>5. CASE UNCHANGED hvars
  BY <1>1, <1>5 DEF hvars
<1> QED  BY <1>2, <1>3, <1>4, <1>5 DEF HeapNext

\* Memory a caller holds (kmalloc.cpp) is in pages with an entry, as long as the PMM
\* has a frame left and the sizes the loader reports cover the free frames of its
\* map.  The entry of a page the VMM mapped is a frame no other page it mapped has.
\* Excepted is a page that met an old entry of a table nobody cleared: it is not
\* mapped, keeps that entry, and nothing is said of the frame behind it.
THEOREM LiveIsBackedCorrect ==
  HeapSpec /\ [](built => CountsEnough) => []LiveIsBacked
<1>1. ASSUME HInv, OutOnly PROVE LiveIsBacked
  <2> SUFFICES ASSUME ~Reused, Free(pmm) # {}, NEW b \in live
               PROVE  LET p == PageOf(b.addr)
                      IN  /\ entryOf(paging, p) # NotPresent
                          /\ p \in mapped =>
                               \A q \in mapped \ {p} : entryOf(paging, q) # entryOf(paging, p)
    BY DEF LiveIsBacked
  <2> DEFINE p == PageOf(b.addr)
  <2>1. /\ Sound(heap, lost, Top) /\ AllKnown(heap, live, lost) /\ Requested
        /\ live \in SUBSET [addr : Nat, slab : Slabs] /\ heap.alloced \in Lists /\ grown \in Nat
    BY <1>1, HeapRecord DEF HInv, HeapRecords
  <2>2. p \in returned
    <3>1. b.slab \in Slabs /\ b.addr \in Nat  BY <2>1
    <3>2. Piece(b) \in In(heap.alloced) \cup lost
      <4>1. Of(heap.alloced, b.slab) \subseteq In(heap.alloced)  BY <2>1, <3>1, Members
      <4> QED  BY <2>1, <4>1 DEF AllKnown
    <3>3. heapStart <= b.addr /\ b.addr < heapStart + grown * PageSize
      <4>1. Piece(b).start = b.addr /\ Piece(b).end = b.addr + AllocSize(b.slab) - 1
        BY DEF Piece
      <4>2. heapStart <= Piece(b).start /\ Piece(b).start <= Piece(b).end /\ Piece(b).end < Top
        BY <2>1, <3>2 DEF Sound
      <4>3. AllocSize(b.slab) \in Nat /\ Top \in Int  BY <1>1, <3>1, Sizes, HeapRecord
      <4>4. b.addr < Top  BY <3>1, <4>1, <4>2, <4>3
      <4> QED  BY <4>1, <4>2, <4>4 DEF Top
    <3> DEFINE k == p - PageOf(heapStart)
    <3>4. k \in 0 .. grown-1  BY <2>1, <3>1, <3>3, PagesBelowTop
    <3>5. PageOf(heapStart) \in Int /\ p \in Int
      <4>1. PageSize \in Nat \ {0} /\ heapStart \in Nat  BY Sizes
      <4> QED  BY <3>1, <4>1, QuotientBounds DEF PageOf
    <3>6. PageOf(heapStart) + k = p  BY <3>5
    <3> HIDE DEF k
    <3> QED  BY <2>1, <3>4, <3>6 DEF Requested
  <2>3. entryOf(paging, p) # NotPresent
    BY <1>1, <2>2 DEF OutOnly, ReturnedIsMapped
  <2>4. ASSUME p \in mapped, NEW q \in mapped \ {p}, entryOf(paging, q) = entryOf(paging, p)
        PROVE  FALSE
    <3> DEFINE e == entryOf(paging, p)
    <3>1. e \in held \cup {0}  BY <1>1, <2>4 DEF HInv, VInv, Owned
    <3>2. e # 0  BY <1>1, <2>4 DEF OutOnly, ZeroWhenOut
    <3>3. OneUse(e)  BY <1>1, <3>1, <3>2 DEF HInv, VInv, Owned
    <3>4. p \in PagesOf(e) /\ q \in PagesOf(e) /\ p # q  BY <2>4 DEF PagesOf
    <3> HIDE DEF e, p
    <3> QED  BY <3>3, <3>4 DEF OneUse
  <2> QED  BY <2>3, <2>4
<1>2. HeapInit => Counted /\ OutOnly  BY CountedInit DEF HeapInit
<1>3. HInv /\ Counted /\ [HeapNext]_hvars
        => Counted' /\ ((built => CountsEnough) /\ OutOnly => OutOnly')
  BY HeapCountedStep
<1> QED  BY <1>1, <1>2, <1>3, HInvAlways, PTL DEF HeapSpec

LEMMA CountHeapNext ==
  ASSUME MapsSuffice, HInv, CountInv, [HeapNext]_hvars
  PROVE  CountInv'
<1>1. VInv /\ TypeOK /\ (up => built)  BY DEF HInv, VInv, VMMTypeOK, Early
<1>2. CASE Boot
  BY <1>1, <1>2, CountVMMNext DEF VMMNext
<1>3. CASE Kmalloc
  <2>1. built  BY <1>1, <1>3 DEF Kmalloc
  <2>2. UNCHANGED <<built, boot>>  BY <1>3 DEF Kmalloc, Becomes, vars, managerVars
  <2> QED  BY <1>1, <2>1, <2>2, CountStep
<1>4. CASE Kfree \/ KfreeStray
  <2>1. UNCHANGED managerVars  BY <1>4 DEF Kfree, KfreeStray, Gives, vars
  <2> QED  BY <1>1, <2>1, CountStep
<1>5. CASE UNCHANGED hvars
  <2>1. UNCHANGED managerVars  BY <1>5 DEF hvars, vars
  <2> QED  BY <1>1, <2>1, CountStep
<1> QED  BY <1>2, <1>3, <1>4, <1>5 DEF HeapNext

\* The same for memory maps: where the available records hold the blocks that
\* mem_lower and mem_upper say, the pages of kmalloc's blocks have an entry while a
\* frame is left, and those that met no old entry a frame of their own.
THEOREM LiveIsBackedOnItsMaps ==
  ASSUME MapsSuffice
  PROVE  HeapSpec => []LiveIsBacked
<1>1. HInv /\ CountInv /\ [HeapNext]_hvars => CountInv'  BY CountHeapNext
<1>2. CountInv => (built => CountsEnough)  BY DEF CountInv
<1>3. HeapInit => CountInv  BY CountInit DEF HeapInit, VMMInit
<1>4. HeapSpec => [](built => CountsEnough)
  BY <1>1, <1>2, <1>3, HInvAlways, PTL DEF HeapSpec
<1> QED  BY <1>4, LiveIsBackedCorrect, PTL
=============================================================================
