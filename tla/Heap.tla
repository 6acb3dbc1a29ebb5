--------------------------------- MODULE Heap ---------------------------------
(***************************************************************************)
(* The kernel heap, kernel/heap.cpp, behind kmalloc, kfree, new and delete *)
(* (kernel/kmalloc.cpp): slabs of power-of-two classes carved out of pages *)
(* of the VMM.  A slab's list of SlabFrames is a sequence, its first frame *)
(* first; a SlabFrame is [start, end], the first and the last byte.        *)
(***************************************************************************)
EXTENDS VMM, SequencesExt

CONSTANTS
  SlabCount,    \* slabs and allocedSlabs
  MinSize,      \* the class of slab 1; each next one is twice as large
  PageSize,     \* 0x1000
  heapStart,    \* the address of the heap's first page
  OffsetRange,  \* the modulus of the uint16_t heapStartOffset
  MaxGrow       \* bound of the model: how often moreMem may run

Slabs == 1 .. SlabCount

AllocSize(i) == MinSize * 2^(i-1)

PageOf(addr) == addr \div PageSize

ASSUME HeapAssumption ==
  /\ SlabCount \in Nat \ {0} /\ MinSize \in Nat /\ MinSize >= 2
  /\ PageSize = AllocSize(SlabCount)
  /\ heapStart \in Nat /\ heapStart % PageSize = 0
  /\ OffsetRange \in Nat \ {0} /\ OffsetRange % PageSize = 0
  /\ MaxGrow \in Nat
  /\ \A o \in 0 .. OffsetRange - 1 :
       /\ PageOf(heapStart + o) \notin ClientPages
       /\ DirIndex(PageOf(heapStart + o)) < RecursiveDir

\* Powers of two: MinSize is the first class, each class is larger than the one
\* before, and a page is a whole number of its blocks.
ASSUME ClassesAssumption ==
  /\ AllocSize(1) = MinSize
  /\ \A i \in Slabs : AllocSize(i) \in Nat /\ AllocSize(i) >= 2 /\ PageSize % AllocSize(i) = 0
  /\ \A i, j \in Slabs : i < j => AllocSize(i) < AllocSize(j)

VARIABLES
  slabs,            \* the free SlabFrames of each class
  allocedSlabs,     \* the allocated ones
  heapStartOffset,
  slabFrames,       \* SlabFrames taken from PMM::kmem, which takes none back
  grown,            \* how often moreMem has run
  live,             \* the blocks callers hold and nobody has freed: [addr, slab]
  stolen,           \* those somebody else has freed under their caller
  lost,             \* the blocks in none of the lists any more
  clashed           \* has alloc returned a block that met a live one?

heapVars == <<slabs, allocedSlabs, heapStartOffset, slabFrames, grown, live, stolen, lost, clashed>>
hvars == <<vars, vmmVars, heapVars>>

-----------------------------------------------------------------------------
\* The heap's own operations, on a record [slabs, alloced, offset, frames].
heap == [slabs |-> slabs, alloced |-> allocedSlabs, offset |-> heapStartOffset,
         frames |-> slabFrames]

\* The page moreMem asks the VMM for.  allocPage returns the address it was given.
nextMemory(h) == heapStart + h.offset

moreMem_SamePage(h, i) ==
  [h EXCEPT !.frames = @ + 1,
            !.slabs[i] = <<[start |-> nextMemory(h), end |-> nextMemory(h) + PageSize - 1]>>]

moreMem_Wide(h, i) ==
  [h EXCEPT !.frames = @ + 1,
            !.slabs[i] = <<[start |-> nextMemory(h), end |-> nextMemory(h) + PageSize - 1]>>,
            !.offset = @ + PageSize]

moreMem(h, i) ==
  [h EXCEPT !.frames = @ + 1,
            !.slabs[i] = <<[start |-> nextMemory(h), end |-> nextMemory(h) + PageSize - 1]>>,
            !.offset = (@ + PageSize) % OffsetRange]

\* A first frame larger than one allocation is carved, else it is handed out whole.
carve_KeepStart(h, i) ==
  LET first == Head(h.slabs[i])
  IN  [h EXCEPT !.frames = @ + 1,
                !.alloced[i] = <<[start |-> first.start,
                                  end |-> first.start + AllocSize(i) - 1]>> \o @,
                !.slabs[i] = <<[first EXCEPT !.start = @ + AllocSize(i) - 1]>> \o Tail(@)]

carve(h, i) ==
  LET first == Head(h.slabs[i])
  IN  [h EXCEPT !.frames = @ + 1,
                !.alloced[i] = <<[start |-> first.start,
                                  end |-> first.start + AllocSize(i) - 1]>> \o @,
                !.slabs[i] = <<[first EXCEPT !.start = @ + AllocSize(i)]>> \o Tail(@)]

handOut_NewFrame(h, i) ==
  [h EXCEPT !.frames = @ + 1,
            !.alloced[i] = <<Head(h.slabs[i])>> \o @, !.slabs[i] = Tail(@)]

handOut(h, i) ==
  [h EXCEPT !.alloced[i] = <<Head(h.slabs[i])>> \o @, !.slabs[i] = Tail(@)]

fromFirst(h, i) ==
  LET first == Head(h.slabs[i])
  IN  IF first.end - first.start > AllocSize(i) THEN carve(h, i) ELSE handOut(h, i)

slabAlloc(h, i) == fromFirst(IF h.slabs[i] = <<>> THEN moreMem(h, i) ELSE h, i)

\* The place of the SlabFrame with this start in slab i's list, 0 for none.
place(h, i, addr) ==
  LET at == {k \in DOMAIN h.alloced[i] : h.alloced[i][k].start = addr}
  IN  IF at = {} THEN 0 ELSE CHOOSE k \in at : \A l \in at : k <= l

\* The slab free finds the address in, 0 for none.
slabOf(h, addr) ==
  LET in == {i \in Slabs : place(h, i, addr) # 0}
  IN  IF in = {} THEN 0 ELSE CHOOSE i \in in : \A j \in in : i <= j

\* The frames before it, which free leaves out of the list with it.
skipped(h, addr) ==
  LET i == slabOf(h, addr)
  IN  IF i = 0 THEN {} ELSE Range(SubSeq(h.alloced[i], 1, place(h, i, addr) - 1))

free_KeepsFrame(h, addr) ==
  LET i == slabOf(h, addr)
      k == place(h, i, addr)
  IN  IF i = 0 THEN h
      ELSE [h EXCEPT !.slabs[i] = <<h.alloced[i][k]>> \o @]

\* The frame goes to the free list, and the allocated list starts at the one
\* behind it.
free(h, addr) ==
  LET i == slabOf(h, addr)
      k == place(h, i, addr)
  IN  IF i = 0 THEN h
      ELSE [h EXCEPT !.slabs[i] = <<h.alloced[i][k]>> \o @,
                     !.alloced[i] = SubSeq(@, k+1, Len(@))]

-----------------------------------------------------------------------------
HeapInit ==
  /\ VMMInit
  /\ slabs = [i \in Slabs |-> <<>>] /\ allocedSlabs = [i \in Slabs |-> <<>>]
  /\ heapStartOffset = 0 /\ slabFrames = 0 /\ grown = 0
  /\ live = {} /\ stolen = {} /\ lost = {} /\ clashed = FALSE

HeapIs(h) ==
  /\ slabs' = h.slabs /\ allocedSlabs' = h.alloced
  /\ heapStartOffset' = h.offset /\ slabFrames' = h.frames

Bytes(b) == b.addr .. b.addr + AllocSize(b.slab) - 1

Overlap(a, b) == Bytes(a) \cap Bytes(b) # {}

\* The first slab whose blocks are large enough for size bytes.
slabFor(size) == CHOOSE i \in Slabs : /\ size <= AllocSize(i)
                                      /\ \A j \in Slabs : size <= AllocSize(j) => i <= j

\* alloc of a size up to a page.  moreMem has the page mapped before it fills the
\* list, so the two happen in one step.
Kmalloc ==
  /\ up
  /\ \E size \in 0 .. PageSize, junk \in Junk :
       LET i     == slabFor(size)
           grows == slabs[i] = <<>>
           h     == slabAlloc(heap, i)
           block == [addr |-> Head(h.alloced[i]).start, slab |-> i]
       IN  /\ grows => grown < MaxGrow
           /\ HeapIs(h)
           /\ grown' = grown + (IF grows THEN 1 ELSE 0)
           /\ live' = live \cup {block}
           /\ clashed' = (clashed \/ \E b \in live : Overlap(b, block))
           /\ IF grows
              THEN LET page == PageOf(nextMemory(heap))
                   IN  Becomes(allocPage(paging, page, junk), page) /\ UNCHANGED loopVars
              ELSE UNCHANGED <<vars, vmmVars>>
  /\ UNCHANGED <<stolen, lost>>

\* kfree of an address; the blocks given are no longer live.
Gives(addr, given) ==
  /\ up
  /\ HeapIs(free(heap, addr))
  /\ live' = live \ given
  /\ lost' = lost \cup skipped(heap, addr)
  /\ UNCHANGED <<vars, vmmVars, grown, clashed>>

\* kfree of a block the caller holds.
Kfree == \E b \in live : Gives(b.addr, {b}) /\ UNCHANGED stolen

HeapBytes == heapStart .. heapStart + OffsetRange - 1

\* kfree by anybody else: a second time, or of a pointer never returned.  Whose
\* block starts there now, if it is listed, has it freed under him.
KfreeStray ==
  \E addr \in HeapBytes :
    LET given == {b \in live : b.addr = addr /\ b.slab = slabOf(heap, addr)}
    IN  Gives(addr, given) /\ stolen' = stolen \cup given

HeapNext == (Boot /\ UNCHANGED heapVars) \/ Kmalloc \/ Kfree \/ KfreeStray

HeapSpec == HeapInit /\ [][HeapNext]_hvars

-----------------------------------------------------------------------------
\* The bytes of a SlabFrame, and the frames by where they are.
FrameBytes(f) == f.start .. f.end

FreeFrames   == UNION {Range(slabs[i]) : i \in Slabs}
AllocedFrames == UNION {Range(allocedSlabs[i]) : i \in Slabs}

\* heapStartOffset has gone around: moreMem has asked for a page a second time.
Reused == grown * PageSize > OffsetRange

SlabFrame == [start : Nat, end : Nat]

\* How many frames the lists S hold, class by class.
framesIn(S) ==
  LET upTo[i \in 0 .. SlabCount] == IF i = 0 THEN 0 ELSE upTo[i-1] + Len(S[i])
  IN  upTo[SlabCount]

HeapTypeOK ==
  /\ VMMTypeOK
  /\ slabs \in [Slabs -> Seq(SlabFrame)] /\ allocedSlabs \in [Slabs -> Seq(SlabFrame)]
  /\ heapStartOffset \in 0 .. OffsetRange-1
  /\ slabFrames \in Nat /\ grown \in 0 .. MaxGrow
  /\ live \subseteq [addr : Nat, slab : Slabs] /\ stolen \subseteq [addr : Nat, slab : Slabs]
  /\ lost \subseteq SlabFrame
  /\ clashed \in BOOLEAN

\* Until the offset goes around, no two SlabFrames in the lists or lost from them
\* share a byte: carving, freeing and moreMem share out the heap's memory.
FramesArePartition ==
  ~Reused =>
    /\ \A i, j \in Slabs : \A k \in DOMAIN slabs[i], l \in DOMAIN slabs[j] :
         <<i, k>> # <<j, l>> => FrameBytes(slabs[i][k]) \cap FrameBytes(slabs[j][l]) = {}
    /\ \A i, j \in Slabs : \A k \in DOMAIN allocedSlabs[i], l \in DOMAIN allocedSlabs[j] :
         <<i, k>> # <<j, l>> =>
           FrameBytes(allocedSlabs[i][k]) \cap FrameBytes(allocedSlabs[j][l]) = {}
    /\ \A f \in FreeFrames, g \in AllocedFrames \cup lost : FrameBytes(f) \cap FrameBytes(g) = {}
    /\ \A f \in AllocedFrames, g \in lost : FrameBytes(f) \cap FrameBytes(g) = {}

\* Until the offset goes around, alloc never returns memory a caller holds, and
\* no memory a caller holds waits in a free list: whatever else has been freed by
\* those who did not hold it, save blocks freed in this way themselves.
LiveIsExclusive ==
  ~Reused =>
    /\ ~clashed
    /\ \A a, b \in live : a # b => ~Overlap(a, b)
    /\ \A b \in live, f \in FreeFrames : Bytes(b) \cap FrameBytes(f) = {}

\* Until the offset goes around, a kfree by somebody who does not hold the block
\* (freed twice, never returned) harms one caller at most.  Of an address nobody
\* holds it finds nothing.  Once the address has been handed out again it frees the
\* block under its new owner; who shares memory with him then shares the whole of
\* this block, and no other block of his or of anybody else is touched.
StrayFreeHarmsOneHolder ==
  ~Reused =>
    /\ \A addr \in HeapBytes : (\A b \in live : b.addr # addr) => free(heap, addr) = heap
    /\ \A s \in stolen, b \in live : Overlap(s, b) => s = b

\* kmem takes no SlabFrame back: each one made is in one of the lists or lost, and
\* there are never more than the pages hold blocks of the smallest class.
NoFrameIsForgotten ==
  ~Reused =>
    /\ slabFrames = framesIn(slabs) + framesIn(allocedSlabs) + Cardinality(lost)
    /\ slabFrames <= grown * (PageSize \div MinSize)

\* A held block has memory of its own: its page is mapped by the VMM, to a frame
\* no other page of the heap maps, unless physical memory ran out or the page
\* table came with an old entry in that place.
LiveIsBacked ==
  ~Reused /\ Free(pmm) # {} =>
    \A b \in live :
      LET p == PageOf(b.addr)
      IN  /\ entryOf(paging, p) # NotPresent
          /\ p \in mapped => \A q \in mapped \ {p} : entryOf(paging, q) # entryOf(paging, p)

\* "gets another page of memory for the slab", "move the heapStartOffest by 1
\* page" (moreMem): every run of moreMem gets a page the heap did not have.
MoreMemIsAnotherPage == Cardinality(returned) = grown

\* "remove it from the alloced slab" (free): only the freed block leaves the
\* list; the blocks callers still hold stay in theirs.
FreeRemovesOnlyIt ==
  \A b \in live : \E k \in DOMAIN allocedSlabs[b.slab] : allocedSlabs[b.slab][k].start = b.addr
=============================================================================
