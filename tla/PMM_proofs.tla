------------------------------ MODULE PMM_proofs ------------------------------
(***************************************************************************)
(* Proofs about the physical memory manager, for every memory map, word    *)
(* and block size: its type invariant, that the bitmap, the counter and    *)
(* the frames its callers own always agree, and that it implements the     *)
(* abstract FrameAllocator where its counter covers the free frames.       *)
(***************************************************************************)
EXTENDS PMM, TLAPS, FiniteSetTheorems, WellFoundedInduction

-----------------------------------------------------------------------------
\* Arithmetic: division by a positive number, and counting modulo U32.

\* Division with remainder.
LEMMA DivMod ==
  ASSUME NEW a \in Int, NEW u \in Nat \ {0}
  PROVE  /\ a \div u \in Int
         /\ a % u \in 0 .. u-1
         /\ a = u * (a \div u) + (a % u)
OBVIOUS

\* The only multiple of u strictly between -u and u is zero.
LEMMA SmallMultiple ==
  ASSUME NEW m \in Int, NEW u \in Nat \ {0}, -u < u*m, u*m < u
  PROVE  m = 0
<1>1. CASE m >= 1
  <2>1. u*m >= u*1  BY <1>1, Z3
  <2> QED  BY <2>1
<1>2. CASE m <= -1
  <2>1. u*m <= u*(-1)  BY <1>2, Z3
  <2> QED  BY <2>1
<1> QED  BY <1>1, <1>2

\* A quotient is no larger than what it divides.
LEMMA DivBound ==
  ASSUME NEW a \in Nat, NEW u \in Nat \ {0}
  PROVE  a \div u \in 0 .. a
<1> DEFINE q == a \div u
           c == u - 1
<1>1. q \in Nat /\ c \in Nat /\ u = c + 1  OBVIOUS
<1>2. a = u*q + (a % u) /\ a % u \in Nat  BY DivMod
<1> HIDE DEF q, c
<1>3. u*q = c*q + q  BY <1>1
<1>4. c*q \in Nat  BY <1>1
<1>5. q <= a  BY <1>1, <1>2, <1>3, <1>4
<1> QED  BY <1>1, <1>5 DEF q

\* Adding a multiple of the modulus changes no remainder.
LEMMA ModShift ==
  ASSUME NEW a \in Int, NEW k \in Int, NEW u \in Nat \ {0}
  PROVE  (a + u*k) % u = a % u
<1> DEFINE b == a + u*k
           m == (b \div u) - (a \div u) - k
<1>1. /\ a = u * (a \div u) + (a % u)
      /\ a % u \in 0 .. u-1 /\ a \div u \in Int
  BY DivMod
<1>2. b \in Int  OBVIOUS
<1>3. /\ b = u * (b \div u) + (b % u)
      /\ b % u \in 0 .. u-1 /\ b \div u \in Int
  BY <1>2, DivMod
<1>4. m \in Int  BY <1>1, <1>3
<1>5. u*m = u*(b \div u) - u*(a \div u) - u*k  BY <1>1, <1>3
<1>6. u*m = (a % u) - (b % u)  BY <1>1, <1>3, <1>5
<1>7. m = 0  BY <1>1, <1>3, <1>4, <1>6, SmallMultiple
<1>8. (a % u) - (b % u) = 0
  <2>1. u*0 = 0  OBVIOUS
  <2> HIDE DEF m
  <2> QED  BY <1>6, <1>7, <2>1
<1> HIDE DEF b
<1>9. b % u = a % u  BY <1>1, <1>3, <1>8
<1> QED  BY <1>9 DEF b

\* Counting modulo u may take the remainder first.
LEMMA ModAdd ==
  ASSUME NEW a \in Int, NEW b \in Int, NEW u \in Nat \ {0}
  PROVE  ((a % u) + b) % u = (a + b) % u
<1> DEFINE c == (a % u) + b
           k == a \div u
<1>1. a = u * k + (a % u) /\ a % u \in Int /\ k \in Int  BY DivMod
<1>2. c \in Int /\ a + b = c + u*k  BY <1>1
<1> HIDE DEF c, k
<1>3. (c + u*k) % u = c % u  BY <1>1, <1>2, ModShift
<1> QED  BY <1>2, <1>3 DEF c

\* A frame's number survives the way through its address, and only frame 0 has
\* address 0.
LEMMA AddressRoundTrip ==
  ASSUME NEW f \in Nat
  PROVE  /\ AddrOf(f) \in Nat
         /\ FrameOf(AddrOf(f)) = f
         /\ AddrOf(f) = 0 <=> f = 0
<1>1. BlockSize \in Nat \ {0}  BY SizesAssumption
<1>2. (f * BlockSize) \div BlockSize = f  BY <1>1
<1>3. f * BlockSize \in Nat  BY <1>1
<1>4. f * BlockSize = 0 <=> f = 0
  <2>1. 0 * BlockSize = 0  BY <1>1
  <2>2. 0 \div BlockSize = 0  BY <1>1
  <2> QED  BY <1>2, <2>1, <2>2
<1> QED  BY <1>2, <1>3, <1>4 DEF AddrOf, FrameOf

-----------------------------------------------------------------------------
\* The searches.

\* Every nonempty set of naturals has a least element.
LEMMA LeastElement ==
  ASSUME NEW T \in SUBSET Nat, T # {}
  PROVE  \E x \in T : \A y \in T : x <= y
<1>1. IsWellFoundedOn(OpToRel(<, Nat), Nat)  BY NatLessThanWellFounded
<1>2. \E x \in T : \A y \in T : ~(<<y, x>> \in OpToRel(<, Nat))
  BY <1>1, WFMin, Zenon
<1>3. \A x \in T, y \in T : <<y, x>> \in OpToRel(<, Nat) <=> y < x
  BY DEF OpToRel
<1>4. \E x \in T : \A y \in T : ~(y < x)  BY <1>2, <1>3, Zenon
<1> QED  BY <1>4

\* A scan answers with a bit of the set, and with -1 only for the empty set.
LEMMA FirstFinds ==
  ASSUME NEW S \in SUBSET Nat
  PROVE  /\ First(S) = -1 <=> S = {}
         /\ S # {} => First(S) \in S
<1> DEFINE lowest == {f \in S : \A g \in S : f <= g}
           found  == CHOOSE f \in lowest : TRUE
<1>1. First(S) = IF lowest = {} THEN -1 ELSE found  BY DEF First
<1>2. S # {} => lowest # {}  BY LeastElement
<1>3. lowest # {} => found \in lowest  OBVIOUS
<1>4. lowest \subseteq S  OBVIOUS
<1> HIDE DEF lowest, found
<1>5. CASE S = {}  BY <1>1, <1>4, <1>5
<1>6. CASE S # {}
  <2>1. found \in S /\ First(S) = found  BY <1>1, <1>2, <1>3, <1>4, <1>6
  <2>2. found \in Nat  BY <2>1
  <2>3. found # -1  BY <2>2
  <2> QED  BY <1>6, <2>1, <2>3
<1> QED  BY <1>5, <1>6

LEMMA FreeAreNaturals ==
  ASSUME NEW p \in PmmType
  PROVE  Free(p) \subseteq Nat /\ Free(p) \cap p.map = {}
<1>1. p.max \in Nat /\ WordBits \in Nat \ {0} /\ p.max \div WordBits \in Int
  BY SizesAssumption DEF PmmType
<1>2. (p.max \div WordBits) * WordBits - 1 \in Int  BY <1>1
<1> QED  BY <1>2 DEF Free, Searched

\* allocBlock refuses, changing nothing, or takes one free frame.
LEMMA AllocBlockAnswer ==
  ASSUME NEW p \in PmmType
  PROVE  \/ allocBlock(p) = Refused(p)
         \/ \E f \in Free(p) :
              allocBlock(p) = [addr |-> AddrOf(f), pmm |-> Take(p, {f}, 1)]
<1>1. Free(p) \subseteq Nat  BY FreeAreNaturals
<1>2. mmapFirstFree(p) = -1 \/ mmapFirstFree(p) \in Free(p)
  BY <1>1, FirstFinds DEF mmapFirstFree
<1> QED  BY <1>2 DEF allocBlock

\* The run of size blocks at frame f's address.
LEMMA RunType ==
  ASSUME NEW f \in Nat, NEW size \in Nat
  PROVE  Run(AddrOf(f), size) = f .. f + size - 1
BY AddressRoundTrip DEF Run

\* allocBlocks refuses, or takes the run that starts at some free frame.
LEMMA AllocBlocksAnswer ==
  ASSUME NEW p \in PmmType, NEW size \in Nat
  PROVE  \/ allocBlocks(p, size) = Refused(p)
         \/ \E f \in Free(p) :
              allocBlocks(p, size) =
                [addr |-> AddrOf(f), pmm |-> Take(p, f .. f + size - 1, size)]
<1> DEFINE fit == {f \in Free(p) : RoomAt(p, f \div WordBits, f % WordBits, size)}
<1>1. Free(p) \subseteq Nat  BY FreeAreNaturals
<1>2. fit \subseteq Free(p)  OBVIOUS
<1>3. First(fit) = -1 \/ First(fit) \in Free(p)  
  <2> HIDE DEF fit
  <2> QED BY <1>1, <1>2, FirstFinds
<1>4. mmapFirstFree(p) = -1 \/ mmapFirstFree(p) \in Free(p)
  BY <1>1, FirstFinds DEF mmapFirstFree
<1>5. mmapFirstFreeS(p, size) = -1 \/ mmapFirstFreeS(p, size) \in Free(p)
  BY <1>3, <1>4 DEF mmapFirstFreeS
<1>6. \A f \in Free(p) : Run(AddrOf(f), size) = f .. f + size - 1
  BY <1>1, RunType
<1> QED  BY <1>5, <1>6 DEF allocBlocks

-----------------------------------------------------------------------------
\* Type correctness.

LEMMA TakeGiveType ==
  ASSUME NEW p \in PmmType, NEW F \in SUBSET Int, NEW n \in Int
  PROVE  Take(p, F, n) \in PmmType /\ Give(p, F, n) \in PmmType
<1>1. U32 \in Nat \ {0} /\ p.used \in Int  BY SizesAssumption DEF PmmType
<1>2. (p.used + n) % U32 \in 0 .. U32-1 /\ (p.used - n) % U32 \in 0 .. U32-1
  BY <1>1
<1>3. p.map \cup F \in SUBSET Int /\ p.map \ F \in SUBSET Int  BY DEF PmmType
<1> QED  BY <1>2, <1>3 DEF PmmType, Take, Give

LEMMA RegionType ==
  ASSUME NEW p \in PmmType, NEW base \in Int, NEW size \in Int
  PROVE  /\ initRegion(p, base, size) \in PmmType
         /\ deinitRegion(p, base, size) \in PmmType
<1>1. Blocks(base, size) \in SUBSET Int /\ size \div BlockSize \in Int
  BY SizesAssumption DEF Blocks
<1>2. {0} \in SUBSET Int /\ 0 \in Int  OBVIOUS
<1>3. Give(p, Blocks(base, size), size \div BlockSize) \in PmmType
  BY <1>1, TakeGiveType
<1> QED  BY <1>1, <1>2, <1>3, TakeGiveType DEF initRegion, deinitRegion

LEMMA ClearedType ==
  ASSUME NEW b \in BootInfos
  PROVE  Cleared(b) \in PmmType
<1> DEFINE bytes == (b.mem_lower + b.mem_upper) * KB
           max   == bytes \div BlockSize
<1>1. bytes \in Nat /\ bytes < U32 \div 2
  <2>1. b.mem_lower + b.mem_upper \in Nat /\ KB \in Nat
    BY BootAssumption, SizesAssumption
  <2> QED  BY <2>1, BootAssumption
<1>2. U32 \in Nat \ {0} /\ U32 \div 2 <= U32  BY SizesAssumption
<1> HIDE DEF bytes
<1>3. max \in Nat /\ max <= bytes
  BY <1>1, SizesAssumption, DivBound
<1>4. max \in 0 .. U32-1  BY <1>1, <1>2, <1>3
<1>5. memsetMap(max) \in SUBSET Int  BY DEF memsetMap
<1>6. b.around \in SUBSET Int  BY BootAssumption
<1> HIDE DEF max
<1>7. Cleared(b) = [map  |-> memsetMap(max) \cup
                             (b.around \ (0 .. (max \div BitsPerByte) * BitsPerByte - 1)),
                    used |-> max, max |-> max]
  BY DEF Cleared, max, bytes
<1> QED  BY <1>4, <1>5, <1>6, <1>7 DEF PmmType

\* What reaches a caller that is given the frames from f on.  Frame 0 would look
\* like a refusal.
LEMMA TakenAnswer ==
  ASSUME TypeOK, NEW f \in Free(pmm), NEW size \in Nat,
         Answer([addr |-> AddrOf(f), pmm |-> Take(pmm, f .. f + size - 1, size)], size)
  PROVE  /\ pmm' \in PmmType /\ asked' \in Nat /\ answer' \in Nat
         /\ held' \in SUBSET Nat /\ unfree' \in SUBSET Nat
         /\ pmm' = Take(pmm, f .. f + size - 1, size)
         /\ f # 0 => /\ held' = held \cup (f .. f + size - 1)
                     /\ unfree' = unfree \cup ((f .. f + size - 1) \ Free(pmm))
<1> DEFINE r == [addr |-> AddrOf(f), pmm |-> Take(pmm, f .. f + size - 1, size)]
<1>1. f \in Nat  BY FreeAreNaturals DEF TypeOK
<1>2. /\ AddrOf(f) \in Nat
      /\ AddrOf(f) = 0 <=> f = 0
      /\ Run(AddrOf(f), size) = f .. f + size - 1
  BY <1>1, AddressRoundTrip, RunType
<1>3. /\ f .. f + size - 1 \in SUBSET Int
      /\ f .. f + size - 1 \in SUBSET Nat
      /\ size \in Int
  BY <1>1
<1>4. Take(pmm, f .. f + size - 1, size) \in PmmType
  BY <1>3, TakeGiveType DEF TypeOK
<1>5. granted(r, size) = IF f = 0 THEN {} ELSE f .. f + size - 1
  BY <1>2 DEF granted
<1>6. /\ pmm' = Take(pmm, f .. f + size - 1, size) /\ asked' = size /\ answer' = AddrOf(f)
      /\ held' = held \cup granted(r, size)
      /\ unfree' = unfree \cup (granted(r, size) \ Free(pmm))
  BY DEF Answer
<1> HIDE DEF r
<1> QED  BY <1>2, <1>3, <1>4, <1>5, <1>6 DEF TypeOK

LEMMA TypeInit == Init => TypeOK
<1> SUFFICES ASSUME Init PROVE TypeOK
  OBVIOUS
<1>1. pmm \in PmmType  BY ClearedType DEF Init
<1>2. mbt.mmap \in Seq(MmapEntry)  BY BootAssumption DEF Init
<1>3. Len(mbt.mmap) \in Nat  BY <1>2
<1>4. record \in 1 .. Len(mbt.mmap) + 1  BY <1>3 DEF Init
<1> QED  BY <1>1, <1>4 DEF Init, TypeOK

LEMMA TypeStep == TypeOK /\ [Next]_vars => TypeOK'
<1> SUFFICES ASSUME TypeOK, [Next]_vars PROVE TypeOK'
  OBVIOUS
<1> USE DEF TypeOK
<1>0. mbt.mmap \in Seq(MmapEntry) /\ Len(mbt.mmap) \in Nat  BY BootAssumption
<1>1. CASE ReadRecord
  <2> DEFINE e == mbt.mmap[record]
  <2>1. e \in MmapEntry  BY <1>0, <1>1 DEF ReadRecord
  <2>2. e.addr % U32 \in Int /\ e.len % U32 \in Int
    BY <2>1, SizesAssumption DEF MmapEntry
  <2>3. initRegion(pmm, e.addr % U32, e.len % U32) \in PmmType
    BY <2>2, RegionType
  <2> HIDE DEF e
  <2>4. pmm' \in PmmType  BY <1>1, <2>3 DEF ReadRecord, e
  <2> QED  BY <1>0, <1>1, <2>4 DEF ReadRecord, callerVars
<1>2. CASE ReserveKernel
  <2>1. deinitRegion(pmm, 0, KernelBytes) \in PmmType
    BY RegionType, SizesAssumption
  <2> QED  BY <1>2, <2>1 DEF ReserveKernel, callerVars
<1>3. CASE AllocBlock
  <2>1. Answer(allocBlock(pmm), 1)  BY <1>3 DEF AllocBlock
  <2>2. CASE allocBlock(pmm) = Refused(pmm)
    <3>1. pmm' = pmm /\ asked' \in Nat /\ answer' = 0 /\ held' = held /\ unfree' = unfree
      BY <2>1, <2>2 DEF Answer, Refused, granted
    <3> QED  BY <1>3, <3>1 DEF AllocBlock
  <2>3. ASSUME NEW f \in Free(pmm),
               allocBlock(pmm) = [addr |-> AddrOf(f), pmm |-> Take(pmm, {f}, 1)]
        PROVE  TypeOK'
    <3>1. f \in Nat /\ {f} = f .. f + 1 - 1  BY FreeAreNaturals
    <3>2. Answer([addr |-> AddrOf(f), pmm |-> Take(pmm, f .. f + 1 - 1, 1)], 1)
      BY <2>1, <2>3, <3>1
    <3> QED  BY <1>3, <3>2, TakenAnswer DEF AllocBlock
  <2> QED  BY <2>2, <2>3, AllocBlockAnswer
<1>4. CASE AllocBlocks
  <2> PICK size \in RunSizes : Answer(allocBlocks(pmm, size), size)
    BY <1>4 DEF AllocBlocks
  <2>0. size \in Nat  BY SizesAssumption
  <2>1. CASE allocBlocks(pmm, size) = Refused(pmm)
    <3>1. pmm' = pmm /\ asked' \in Nat /\ answer' = 0 /\ held' = held /\ unfree' = unfree
      BY <2>0, <2>1 DEF Answer, Refused, granted
    <3> QED  BY <1>4, <3>1 DEF AllocBlocks
  <2>2. ASSUME NEW f \in Free(pmm),
               allocBlocks(pmm, size) =
                 [addr |-> AddrOf(f), pmm |-> Take(pmm, f .. f + size - 1, size)]
        PROVE  TypeOK'
    BY <1>4, <2>0, <2>2, TakenAnswer DEF AllocBlocks
  <2> QED  BY <2>0, <2>1, <2>2, AllocBlocksAnswer
<1>5. CASE FreeBlock
  <2> PICK f \in held : pmm' = freeBlock(pmm, AddrOf(f)) /\ held' = held \ {f}
    BY <1>5 DEF FreeBlock
  <2>1. FrameOf(AddrOf(f)) \in Int
    BY SizesAssumption DEF FrameOf, AddrOf
  <2>2. freeBlock(pmm, AddrOf(f)) \in PmmType
    BY <2>1, TakeGiveType DEF freeBlock
  <2> QED  BY <1>5, <2>2 DEF FreeBlock
<1>6. CASE FreeBlocks
  <2> PICK f \in held, size \in RunSizes \ {0} :
        /\ pmm' = freeBlocks(pmm, AddrOf(f), size)
        /\ held' = held \ Run(AddrOf(f), size)
    BY <1>6 DEF FreeBlocks
  <2>1. Run(AddrOf(f), size) \in SUBSET Int /\ size \in Int
    BY SizesAssumption DEF Run, FrameOf, AddrOf
  <2>2. freeBlocks(pmm, AddrOf(f), size) \in PmmType
    BY <2>1, TakeGiveType DEF freeBlocks
  <2> QED  BY <1>6, <2>2 DEF FreeBlocks
<1>7. CASE UNCHANGED vars
  BY <1>7 DEF vars, managerVars, callerVars
<1> QED
  BY <1>1, <1>2, <1>3, <1>4, <1>5, <1>6, <1>7 DEF Next, Construct

\* Every reachable state of the manager and its callers has its type.
THEOREM TypeCorrect == Spec => []TypeOK
BY TypeInit, TypeStep, PTL DEF Spec

-----------------------------------------------------------------------------
\* The bitmap, the counter and the owners agree.

(***************************************************************************)
(* The inductive invariant.  ExactMap and Accounting speak of boot, the    *)
(* state the constructor left: while it runs, boot follows the manager and *)
(* nobody owns a frame, and once it is done the kernel's frames are among  *)
(* the used ones.  That frame 0 is one of them is what makes an answer of  *)
(* 0 unambiguous, so that every frame taken has an owner.                  *)
(***************************************************************************)
Inv ==
  /\ TypeOK
  /\ ~built => pmm = boot /\ held = {} /\ unfree = {}
  /\ built => KernelFrames \subseteq boot.map
  /\ ExactMap
  /\ Accounting

LEMMA InvInit == Init => Inv
<1> SUFFICES ASSUME Init PROVE Inv
  OBVIOUS
<1>1. TypeOK  BY TypeInit
<1>2. pmm.used \in 0 .. U32-1 /\ U32 \in Nat \ {0}
  BY <1>1, SizesAssumption DEF TypeOK, PmmType
<1>3. (pmm.used + 0) % U32 = pmm.used  BY <1>2
<1>4. IsFiniteSet({}) /\ Cardinality({}) = 0  BY FS_EmptySet
<1>5. Accounting  BY <1>3, <1>4 DEF Init, Accounting
<1>6. ExactMap  BY DEF Init, ExactMap
<1> QED  BY <1>1, <1>5, <1>6 DEF Init, Inv

\* The constructor's last step marks the kernel's frames.
LEMMA ReserveKernelTakes ==
  ASSUME TypeOK, ReserveKernel
  PROVE  KernelFrames \subseteq boot'.map
<1>1. 0 \div BlockSize = 0  BY SizesAssumption
<1>2. Blocks(0, KernelBytes) = KernelFrames
  BY <1>1, SizesAssumption DEF Blocks, KernelFrames
<1>3. deinitRegion(pmm, 0, KernelBytes).map = pmm.map \cup KernelFrames
  BY <1>2 DEF deinitRegion, Take, TypeOK, PmmType
<1> QED  BY <1>3 DEF ReserveKernel

LEMMA ZeroIsKernels == 0 \in KernelFrames
<1>1. KernelBytes \div BlockSize >= 1
  <2> DEFINE q == KernelBytes \div BlockSize
  <2>1. KernelBytes = BlockSize * q + (KernelBytes % BlockSize)
        /\ KernelBytes % BlockSize \in 0 .. BlockSize-1
    BY SizesAssumption, DivMod
  <2>2. q # 0
    <3>1. BlockSize * 0 = 0  BY SizesAssumption
    <3> HIDE DEF q
    <3> QED  BY <2>1, <3>1, SizesAssumption
  <2>3. q \in 0 .. KernelBytes  BY SizesAssumption, DivBound
  <2> QED  BY <2>2, <2>3
<1>2. KernelBytes \div BlockSize \in Int  BY SizesAssumption
<1> QED  BY <1>1, <1>2 DEF KernelFrames

\* In every state of the invariant no frame of the kernel is free or owned.
LEMMA KernelIsTaken ==
  ASSUME Inv, built, unfree = {}
  PROVE  /\ 0 \in pmm.map
         /\ KernelFrames \subseteq pmm.map
         /\ held \cap KernelFrames = {}
BY ZeroIsKernels DEF Inv, ExactMap

\* Taking n frames, or giving back n, keeps the counter in step.
LEMMA TakeCounts ==
  ASSUME NEW p \in PmmType, NEW F \in SUBSET Int, NEW n \in Int, NEW a \in Int,
         p.used = a % U32
  PROVE  Take(p, F, n).used = (a + n) % U32
<1>0. U32 \in Nat \ {0}  BY SizesAssumption
<1>1. Take(p, F, n).used = ((a % U32) + n) % U32  BY DEF Take, PmmType
<1> QED  BY <1>0, <1>1, ModAdd

LEMMA GiveCounts ==
  ASSUME NEW p \in PmmType, NEW F \in SUBSET Int, NEW n \in Int, NEW a \in Int,
         p.used = a % U32
  PROVE  Give(p, F, n).used = (a - n) % U32
<1> DEFINE m == -n
<1>0. U32 \in Nat \ {0}  BY SizesAssumption
<1>1. m \in Int /\ a + m = a - n  OBVIOUS
<1>2. p.used \in Int /\ p.used - n = p.used + m  BY <1>0 DEF PmmType
<1> HIDE DEF m
<1>3. Give(p, F, n).used = ((a % U32) + m) % U32  BY <1>2 DEF Give, PmmType
<1>4. ((a % U32) + m) % U32 = (a + m) % U32  BY <1>0, <1>1, ModAdd
<1> QED  BY <1>1, <1>3, <1>4

LEMMA InvStep == Inv /\ [Next]_vars => Inv'
<1> SUFFICES ASSUME Inv, [Next]_vars PROVE Inv'
  OBVIOUS
<1> USE DEF Inv
<1>0. TypeOK'  BY TypeStep
<1>1. CASE ReadRecord \/ ReserveKernel
  <2>1. /\ ~built /\ held = {} /\ unfree = {}
        /\ held' = {} /\ unfree' = {} /\ boot' = pmm' /\ (built' = FALSE \/ ReserveKernel)
    BY <1>1 DEF ReadRecord, ReserveKernel, callerVars
  <2>2. ReserveKernel => KernelFrames \subseteq boot'.map
    BY ReserveKernelTakes
  <2>3. Accounting'
    <3>1. pmm'.used \in 0 .. U32-1 /\ U32 \in Nat \ {0}
      BY <1>0, SizesAssumption DEF TypeOK, PmmType
    <3>2. (pmm'.used + 0) % U32 = pmm'.used  BY <3>1
    <3>3. IsFiniteSet({}) /\ Cardinality({}) = 0  BY FS_EmptySet
    <3> QED  BY <2>1, <3>2, <3>3 DEF Accounting
  <2>4. ExactMap'  BY <2>1 DEF ExactMap
  <2> QED  BY <1>0, <2>1, <2>2, <2>3, <2>4
<1>2. ASSUME built, UNCHANGED <<built, boot>>,
             NEW f \in Free(pmm), NEW size \in Nat,
             Answer([addr |-> AddrOf(f), pmm |-> Take(pmm, f .. f + size - 1, size)], size)
      PROVE  Inv'
  <2> DEFINE run == f .. f + size - 1
  <2>1. CASE unfree' # {}
    BY <1>0, <1>2, <2>1 DEF ExactMap, Accounting
  <2>2. CASE unfree' = {}
    <3>1. unfree = {}  BY <2>2, <1>2 DEF Answer
    <3>2. f # 0 /\ f \in Nat
      BY <1>2, <3>1, KernelIsTaken, FreeAreNaturals DEF TypeOK
    <3>3. /\ pmm' = Take(pmm, run, size)
          /\ held' = held \cup run
          /\ run \cap pmm.map = {}
      <4>1. run \ Free(pmm) = {}  BY <1>2, <2>2, <3>2, TakenAnswer
      <4>2. Free(pmm) \cap pmm.map = {}  BY FreeAreNaturals DEF TypeOK
      <4> HIDE DEF run
      <4>3. run \cap pmm.map = {}  BY <4>1, <4>2
      <4> QED  BY <1>2, <3>2, <4>3, TakenAnswer DEF run
    <3>4. run \in SUBSET Int /\ size \in Int /\ IsFiniteSet(run) /\ Cardinality(run) = size
      <4>1. f \in Int /\ f + size - 1 \in Int /\ size \in Int  BY <3>2
      <4>2. IsFiniteSet(run) /\ Cardinality(run) =
              IF f > f + size - 1 THEN 0 ELSE (f + size - 1) - f + 1
        BY <4>1, FS_Interval
      <4> QED  BY <3>2, <4>1, <4>2
    <3> HIDE DEF run
    <3>5. held \cap run = {}  BY <3>1, <3>3 DEF ExactMap
    <3>6. ExactMap'
      BY <1>2, <2>2, <3>1, <3>3, <3>5 DEF ExactMap, Take, TypeOK, PmmType
    <3>7. IsFiniteSet(held) /\ Cardinality(held) \in Int
          /\ pmm.used = (boot.used + Cardinality(held)) % U32 /\ pmm.max = boot.max
      BY <3>1, FS_CardinalityType DEF Accounting
    <3>8. IsFiniteSet(held') /\ Cardinality(held') = Cardinality(held) + size
      BY <3>3, <3>4, <3>5, <3>7, FS_Union, FS_EmptySet
    <3> DEFINE a == boot.used + Cardinality(held)
    <3>9. Take(pmm, run, size).used = (a + size) % U32
      <4>1. pmm \in PmmType /\ a \in Int  BY <3>7 DEF TypeOK, PmmType
      <4>2. pmm.used = a % U32  BY <3>7
      <4> HIDE DEF a
      <4> QED  BY <3>4, <4>1, <4>2, TakeCounts, Zenon
    <3>10. a + size = boot.used + Cardinality(held')
      BY <3>4, <3>7, <3>8 DEF TypeOK, PmmType
    <3>11. Take(pmm, run, size).max = pmm.max  BY DEF Take, TypeOK, PmmType
    <3> HIDE DEF a
    <3> QED
      BY <1>0, <1>2, <3>1, <3>3, <3>6, <3>7, <3>8, <3>9, <3>10, <3>11 DEF Accounting
  <2> QED  BY <2>1, <2>2
<1>3. ASSUME built, UNCHANGED <<built, boot, unfree>>,
             NEW F \in SUBSET held, IsFiniteSet(F),
             pmm' = Give(pmm, F, Cardinality(F)), held' = held \ F
      PROVE  Inv'
  <2>1. CASE unfree # {}
    BY <1>0, <1>3, <2>1 DEF ExactMap, Accounting
  <2>2. CASE unfree = {}
    <3>1. F \in SUBSET Int /\ Cardinality(F) \in Int
      <4>1. held \in SUBSET Nat  BY DEF TypeOK
      <4>2. Cardinality(F) \in Nat  BY <1>3, FS_CardinalityType
      <4> QED  BY <4>1, <4>2
    <3>2. ExactMap'
      BY <1>3, <2>2 DEF ExactMap, Give, TypeOK, PmmType
    <3>3. IsFiniteSet(held) /\ Cardinality(held) \in Int
          /\ pmm.used = (boot.used + Cardinality(held)) % U32 /\ pmm.max = boot.max
      BY <2>2, FS_CardinalityType DEF Accounting
    <3>4. IsFiniteSet(held') /\ Cardinality(held') = Cardinality(held) - Cardinality(F)
      <4>1. held \cap F = F  OBVIOUS
      <4> QED  BY <1>3, <3>3, <4>1, FS_Difference
    <3> DEFINE n == Cardinality(F)
               a == boot.used + Cardinality(held)
    <3>5. Give(pmm, F, n).used = (a - n) % U32
      <4>1. pmm \in PmmType /\ a \in Int  BY <3>3 DEF TypeOK, PmmType
      <4>2. pmm.used = a % U32  BY <3>3
      <4>3. n \in Int  BY <3>1
      <4> HIDE DEF a, n
      <4> QED  BY <3>1, <4>1, <4>2, <4>3, GiveCounts, Zenon
    <3>6. a - n = boot.used + Cardinality(held')
      BY <3>1, <3>3, <3>4 DEF TypeOK, PmmType
    <3>7. Give(pmm, F, n).max = pmm.max  BY DEF Give, TypeOK, PmmType
    <3>8. pmm' = Give(pmm, F, n)  BY <1>3
    <3> HIDE DEF a, n
    <3> QED  BY <1>0, <1>3, <2>2, <3>2, <3>3, <3>4, <3>5, <3>6, <3>7, <3>8 DEF Accounting
  <2> QED  BY <2>1, <2>2
<1>4. CASE UNCHANGED <<managerVars, held, unfree>>
  BY <1>0, <1>4 DEF managerVars, ExactMap, Accounting
<1>5. CASE AllocBlock
  <2>1. built /\ UNCHANGED <<mbt, record, built, boot>> /\ Answer(allocBlock(pmm), 1)
    BY <1>5 DEF AllocBlock
  <2>2. CASE allocBlock(pmm) = Refused(pmm)
    <3>1. pmm' = pmm /\ held' = held /\ unfree' = unfree
      BY <2>1, <2>2 DEF Answer, Refused, granted
    <3> QED  BY <1>4, <2>1, <3>1 DEF managerVars
  <2>3. ASSUME NEW f \in Free(pmm),
               allocBlock(pmm) = [addr |-> AddrOf(f), pmm |-> Take(pmm, {f}, 1)]
        PROVE  Inv'
    <3>1. {f} = f .. f + 1 - 1  BY FreeAreNaturals DEF TypeOK
    <3>2. Answer([addr |-> AddrOf(f), pmm |-> Take(pmm, f .. f + 1 - 1, 1)], 1)
      BY <2>1, <2>3, <3>1
    <3> QED  BY <1>2, <2>1, <3>2
  <2> QED  BY <2>2, <2>3, AllocBlockAnswer DEF TypeOK
<1>6. CASE AllocBlocks
  <2>1. built /\ UNCHANGED <<mbt, record, built, boot>>
    BY <1>6 DEF AllocBlocks
  <2> PICK size \in RunSizes : Answer(allocBlocks(pmm, size), size)
    BY <1>6 DEF AllocBlocks
  <2>2. size \in Nat  BY SizesAssumption
  <2>3. CASE allocBlocks(pmm, size) = Refused(pmm)
    <3>1. pmm' = pmm /\ held' = held /\ unfree' = unfree
      BY <2>3 DEF Answer, Refused, granted
    <3> QED  BY <1>4, <2>1, <3>1 DEF managerVars
  <2>4. ASSUME NEW f \in Free(pmm),
               allocBlocks(pmm, size) =
                 [addr |-> AddrOf(f), pmm |-> Take(pmm, f .. f + size - 1, size)]
        PROVE  Inv'
    BY <1>2, <2>1, <2>2, <2>4
  <2> QED  BY <2>2, <2>3, <2>4, AllocBlocksAnswer DEF TypeOK
<1>7. CASE FreeBlock
  <2> PICK f \in held : pmm' = freeBlock(pmm, AddrOf(f)) /\ held' = held \ {f}
    BY <1>7 DEF FreeBlock
  <2>1. IsFiniteSet({f}) /\ Cardinality({f}) = 1  BY FS_Singleton
  <2>2. f \in Nat /\ FrameOf(AddrOf(f)) = f  BY AddressRoundTrip DEF TypeOK
  <2>3. pmm' = Give(pmm, {f}, 1)  BY <2>2 DEF freeBlock
  <2> QED  BY <1>3, <1>7, <2>1, <2>3 DEF FreeBlock
<1>8. CASE FreeBlocks
  <2> PICK f \in held, size \in RunSizes \ {0} :
        /\ Run(AddrOf(f), size) \subseteq held
        /\ pmm' = freeBlocks(pmm, AddrOf(f), size)
        /\ held' = held \ Run(AddrOf(f), size)
    BY <1>8 DEF FreeBlocks
  <2>1. f \in Nat /\ size \in Nat \ {0}  BY SizesAssumption DEF TypeOK
  <2> DEFINE run == f .. f + size - 1
  <2>2. Run(AddrOf(f), size) = run  BY <2>1, RunType
  <2>3. IsFiniteSet(run) /\ Cardinality(run) = size
    <3>1. f \in Int /\ f + size - 1 \in Int /\ f <= f + size - 1  BY <2>1
    <3>2. IsFiniteSet(run) /\ Cardinality(run) =
            IF f > f + size - 1 THEN 0 ELSE (f + size - 1) - f + 1
      BY <3>1, FS_Interval
    <3> QED  BY <2>1, <3>1, <3>2
  <2>4. pmm' = Give(pmm, run, size)  BY <2>2 DEF freeBlocks
  <2> HIDE DEF run
  <2> QED  BY <1>3, <1>8, <2>2, <2>3, <2>4 DEF FreeBlocks
<1>9. CASE UNCHANGED vars
  BY <1>4, <1>9 DEF vars, callerVars
<1> QED
  BY <1>1, <1>5, <1>6, <1>7, <1>8, <1>9 DEF Next, Construct

LEMMA InvCorrect == Spec => []Inv
BY InvInit, InvStep, PTL DEF Spec

\* The bitmap is the constructor's reservations and the owned frames, and these
\* do not meet, as long as the frames handed out were free.
THEOREM ExactMapCorrect == Spec => []ExactMap
<1>1. Inv => ExactMap  BY DEF Inv
<1> QED  BY <1>1, InvCorrect, PTL

\* The counter moves with the number of owned frames, modulo 2^32.
THEOREM AccountingCorrect == Spec => []Accounting
<1>1. Inv => Accounting  BY DEF Inv
<1> QED  BY <1>1, InvCorrect, PTL

\* The kernel's frames, frame 0 among them, are never handed out.
THEOREM KernelReservedCorrect == Spec => []KernelReserved
<1>1. Inv => KernelReserved  BY KernelIsTaken DEF KernelReserved
<1> QED  BY <1>1, InvCorrect, PTL
-----------------------------------------------------------------------------
\* The manager implements the abstract allocator, if the sizes the loader hands
\* over count every frame the bitmap has free, and nobody asks for a run of one.

\* The blocks the counter says are left are no fewer than the free bits of the
\* words that are searched.  The constructor does not see to it: the counter
\* starts from mem_lower and mem_upper, the bits from the regions of the map.
CountsEnough == Cardinality(Free(boot)) <= (boot.max - boot.used) % U32

\* What callers own was free when the constructor returned.
OwnedWereFree == built /\ unfree = {} => held \subseteq Free(boot)

RInv == Inv /\ OwnedWereFree

LEMMA FreeIsFinite ==
  ASSUME NEW p \in PmmType
  PROVE  IsFiniteSet(Free(p)) /\ Cardinality(Free(p)) \in Nat
<1>1. p.max \in Nat /\ WordBits \in Nat \ {0} /\ p.max \div WordBits \in Int
  BY SizesAssumption DEF PmmType
<1>2. (p.max \div WordBits) * WordBits - 1 \in Int /\ 0 \in Int  BY <1>1
<1>3. IsFiniteSet(Searched(p))  BY <1>2, FS_Interval DEF Searched
<1>4. Free(p) \in SUBSET Searched(p)  BY DEF Free
<1> QED  BY <1>3, <1>4, FS_Subset, FS_CardinalityType

\* The free frames are the ones the constructor left without those owned.
LEMMA FreeIsLeft ==
  ASSUME RInv, built, unfree = {}
  PROVE  /\ Free(pmm) = Free(boot) \ held
         /\ held \subseteq Free(boot)
         /\ Free(boot) \subseteq Nat
<1>1. pmm.map = boot.map \cup held /\ pmm.max = boot.max
  BY DEF RInv, Inv, ExactMap, Accounting
<1>2. Free(boot) \subseteq Nat  BY FreeAreNaturals DEF RInv, Inv, TypeOK
<1> QED  BY <1>1, <1>2 DEF RInv, OwnedWereFree, Free, Searched

\* A counter that says nothing is left, taken down by n from at least m, has been
\* taken down by m.
LEMMA CounterLeft ==
  ASSUME NEW a \in Int, NEW n \in Nat, NEW m \in Nat, NEW u \in Nat \ {0},
         n <= m, m <= a % u, (a - n) % u = 0
  PROVE  m = n
<1> DEFINE d == -n
           w == a % u
           e == w - n
<1>1. w \in 0 .. u-1  BY DivMod
<1>2. d \in Int /\ a + d = a - n  OBVIOUS
<1>3. m <= w  OBVIOUS
<1> HIDE DEF w
<1>4. w + d = e /\ e \in 0 .. u-1  BY <1>1, <1>3
<1> HIDE DEF d, e
<1>5. (w + d) % u = (a + d) % u  BY <1>2, ModAdd DEF w
<1>6. e % u = 0  BY <1>2, <1>4, <1>5
<1>7. e % u = e  BY <1>4
<1> QED  BY <1>1, <1>3, <1>6, <1>7 DEF e

\* The record p is the constructor's with some of its free frames taken, one
\* count each: what allocations of one frame at a time leave.
Balanced(p) ==
  /\ p \in PmmType
  /\ p.max = boot.max /\ boot.map \subseteq p.map
  /\ p.map \ boot.map \subseteq Free(boot)
  /\ p.used = (boot.used + Cardinality(p.map \ boot.map)) % U32

LEMMA BalancedTake ==
  ASSUME boot \in PmmType, NEW p, Balanced(p), NEW f \in Free(p)
  PROVE  /\ Balanced(Take(p, {f}, 1))
         /\ Free(Take(p, {f}, 1)) = Free(p) \ {f}
<1> DEFINE H == p.map \ boot.map
           G == Take(p, {f}, 1).map \ boot.map
<1>1. /\ p \in PmmType /\ p.max = boot.max /\ boot.map \subseteq p.map
      /\ H \subseteq Free(boot) /\ p.used = (boot.used + Cardinality(H)) % U32
  BY DEF Balanced
<1>2. f \in Nat /\ f \notin p.map /\ Free(p) = Searched(p) \ p.map
  BY <1>1, FreeAreNaturals DEF Free
<1>3. /\ Take(p, {f}, 1) \in PmmType
      /\ Take(p, {f}, 1).map = p.map \cup {f} /\ Take(p, {f}, 1).max = p.max
  <2>1. {f} \in SUBSET Int /\ 1 \in Int  BY <1>2
  <2>2. Take(p, {f}, 1) \in PmmType  BY <1>1, <2>1, TakeGiveType
  <2> QED  BY <1>1, <2>2 DEF Take, PmmType
<1>4. Searched(p) = Searched(boot)  BY <1>1 DEF Searched
<1>5. G = H \cup {f} /\ f \notin H /\ G \subseteq Free(boot)
  BY <1>1, <1>2, <1>3, <1>4 DEF Free
<1>6. IsFiniteSet(H) /\ Cardinality(H) \in Nat /\ Cardinality(G) = Cardinality(H) + 1
  <2>1. IsFiniteSet(H) /\ Cardinality(H) \in Nat
    BY <1>1, FreeIsFinite, FS_Subset, FS_CardinalityType
  <2>2. Cardinality(H \cup {f}) = Cardinality(H) + 1
    BY <1>5, <2>1, FS_AddElement
  <2> QED  BY <1>5, <2>1, <2>2
<1> DEFINE a == boot.used + Cardinality(H)
<1>7. Take(p, {f}, 1).used = (a + 1) % U32
  <2>1. a \in Int /\ {f} \in SUBSET Int /\ 1 \in Int /\ p.used = a % U32
    BY <1>1, <1>2, <1>6 DEF PmmType
  <2> HIDE DEF a
  <2> QED  BY <1>1, <2>1, TakeCounts, ZenonT(20)
<1>8. a + 1 = boot.used + Cardinality(G)  BY <1>6 DEF PmmType
<1>9. Free(Take(p, {f}, 1)) = Free(p) \ {f}
  BY <1>2, <1>3 DEF Free, Searched
<1> HIDE DEF a
<1> QED  BY <1>1, <1>3, <1>5, <1>7, <1>8, <1>9 DEF Balanced

\* A frame is refused only when none is free.
LEMMA BalancedRefusal ==
  ASSUME boot \in PmmType, NEW p, Balanced(p), CountsEnough, allocBlock(p) = Refused(p)
  PROVE  Free(p) = {}
<1> DEFINE H == p.map \ boot.map
<1>0. /\ p \in PmmType /\ p.max = boot.max /\ boot.map \subseteq p.map
      /\ H \subseteq Free(boot) /\ p.used = (boot.used + Cardinality(H)) % U32
      /\ U32 \in Nat \ {0}
  BY SizesAssumption DEF Balanced
<1>1. Free(p) \subseteq Nat /\ Free(p) \cap p.map = {}  BY <1>0, FreeAreNaturals
<1>2. (p.max - p.used) % U32 <= 0 \/ mmapFirstFree(p) = -1
  <2> SUFFICES ASSUME ~((p.max - p.used) % U32 <= 0), mmapFirstFree(p) # -1
               PROVE  FALSE
    OBVIOUS
  <2> DEFINE f == mmapFirstFree(p)
  <2>1. f \in Free(p)  BY <1>1, FirstFinds DEF mmapFirstFree
  <2>2. allocBlock(p).pmm = Take(p, {f}, 1)  BY DEF allocBlock
  <2>3. Take(p, {f}, 1).map = p.map \cup {f}  BY <1>0 DEF Take, PmmType
  <2>4. Refused(p).pmm = p  BY DEF Refused
  <2> HIDE DEF f
  <2> QED  BY <1>1, <2>1, <2>2, <2>3, <2>4
<1>3. CASE mmapFirstFree(p) = -1
  BY <1>1, <1>3, FirstFinds DEF mmapFirstFree
<1>4. CASE (p.max - p.used) % U32 <= 0
  <2> DEFINE n == Cardinality(H)
             m == Cardinality(Free(boot))
             a == boot.max - boot.used
  <2>1. /\ IsFiniteSet(Free(boot)) /\ m \in Nat  BY FreeIsFinite
  <2>2. H \in SUBSET Free(boot)  BY <1>0
  <2>3. n \in Nat /\ n <= m /\ (m = n => Free(boot) = H)
    BY <2>1, <2>2, FS_Subset, FS_CardinalityType
  <2>4. a \in Int /\ m <= a % U32 /\ a % U32 \in 0 .. U32-1
    BY <1>0 DEF PmmType, CountsEnough
  <2>5. (p.max - p.used) % U32 = (a - n) % U32
    <3> DEFINE b == boot.used + n
               c == boot.max - b
               k == b \div U32
               w == b % U32
    <3>1. p.used = w /\ p.max = boot.max
      BY <1>0
    <3>2. b \in Int /\ c \in Int /\ c = a - n /\ boot.max \in Int
      BY <1>0, <2>3 DEF PmmType
    <3> HIDE DEF b, c
    <3>u. U32 \in Nat \ {0}  BY <1>0
    <3>d. /\ b \div U32 \in Int /\ b % U32 \in 0 .. U32-1
          /\ b = U32 * (b \div U32) + (b % U32)
      BY <3>2, <3>u, DivMod
    <3>3. b = U32 * k + w /\ k \in Int /\ w \in Int
      <4>1. b = U32 * k + w /\ k \in Int /\ w \in 0 .. U32-1  BY <3>d
      <4>2. 0 .. U32-1 \subseteq Int  OBVIOUS
      <4> QED  BY <4>1, <4>2, Zenon
    <3> HIDE DEF k, w
    <3>4. boot.max - w = c + U32 * k  BY <1>0, <3>2, <3>3 DEF c
    <3>5. (c + U32 * k) % U32 = c % U32  BY <1>0, <3>2, <3>3, ModShift
    <3> QED  BY <3>1, <3>2, <3>4, <3>5
  <2>6. (a - n) % U32 = 0
    <3> DEFINE c == p.max - p.used
    <3>1. c \in Int  BY <1>0 DEF PmmType
    <3> HIDE DEF c, a, n
    <3>2. c % U32 \in 0 .. U32-1  BY <1>0, <3>1
    <3> QED  BY <1>4, <2>5, <3>2 DEF c
  <2>7. m = n
    <3> HIDE DEF a, n, m
    <3> QED  BY <1>0, <2>1, <2>3, <2>4, <2>6, CounterLeft
  <2>8. Free(boot) = H  BY <2>3, <2>7
  <2>9. Searched(p) = Searched(boot)  BY <1>0 DEF Searched
  <2> QED  BY <1>0, <2>8, <2>9 DEF Free
<1> QED  BY <1>2, <1>3, <1>4

\* The manager's own state is balanced, whatever callers take and give back.
LEMMA ManagerIsBalanced ==
  ASSUME RInv, built, unfree = {}
  PROVE  Balanced(pmm) /\ boot \in PmmType
<1>1. pmm.map \ boot.map = held
  BY DEF RInv, Inv, ExactMap
<1> QED
  BY <1>1, FreeIsLeft DEF RInv, Inv, TypeOK, ExactMap, Accounting, Balanced

LEMMA RefusedOnlyWhenOut ==
  ASSUME RInv, built, unfree = {}, CountsEnough, allocBlock(pmm) = Refused(pmm)
  PROVE  Free(boot) \subseteq held
<1>1. Free(pmm) = {}  BY ManagerIsBalanced, BalancedRefusal
<1> QED  BY <1>1, FreeIsLeft

\* What reaches the caller of an allocation that gets the frames from f on.
Gets(f, size) ==
  /\ f \in Free(pmm)
  /\ answer' = AddrOf(f) /\ asked' = size
  /\ held' = held \cup (f .. f + size - 1)
  /\ unfree' = (f .. f + size - 1) \ Free(pmm)

\* What reaches the caller of an allocation that fails.
GetsNone == answer' = 0 /\ held' = held /\ unfree' = unfree

LEMMA GivenFrames ==
  ASSUME RInv, built, unfree = {}, NEW f \in Free(pmm), NEW size \in Nat,
         Answer([addr |-> AddrOf(f), pmm |-> Take(pmm, f .. f + size - 1, size)], size)
  PROVE  Gets(f, size)
<1>1. TypeOK /\ 0 \in pmm.map  BY KernelIsTaken DEF RInv, Inv
<1>2. f # 0  BY <1>1, FreeAreNaturals DEF TypeOK
<1>3. answer' = AddrOf(f) /\ asked' = size  BY DEF Answer
<1> QED  BY <1>1, <1>2, <1>3, TakenAnswer DEF Gets

\* A request for one frame takes a free one, or fails.
LEMMA OneFrame ==
  ASSUME RInv, unfree = {}, AllocBlock
  PROVE  \/ \E f \in Nat : Gets(f, 1)
         \/ GetsNone /\ asked' = 1 /\ allocBlock(pmm) = Refused(pmm)
<1>0. pmm \in PmmType /\ Free(pmm) \subseteq Nat
  BY FreeAreNaturals DEF RInv, Inv, TypeOK
<1>1. built /\ Answer(allocBlock(pmm), 1)  BY DEF AllocBlock
<1>2. CASE allocBlock(pmm) = Refused(pmm)
  BY <1>1, <1>2 DEF Answer, Refused, granted, GetsNone
<1>3. ASSUME NEW f \in Free(pmm),
             allocBlock(pmm) = [addr |-> AddrOf(f), pmm |-> Take(pmm, {f}, 1)]
      PROVE  \E g \in Nat : Gets(g, 1)
  <2>1. f \in Nat /\ {f} = f .. f + 1 - 1  BY <1>0
  <2>2. Answer([addr |-> AddrOf(f), pmm |-> Take(pmm, f .. f + 1 - 1, 1)], 1)
    BY <1>1, <1>3, <2>1
  <2> QED  BY <1>1, <2>1, <2>2, GivenFrames
<1> QED  BY <1>0, <1>2, <1>3, AllocBlockAnswer

\* A request for a run takes the frames from a free one on, or fails.
LEMMA RunOfFrames ==
  ASSUME RInv, unfree = {}, AllocBlocks
  PROVE  \/ \E f \in Nat, size \in RunSizes \ {0} : Gets(f, size)
         \/ GetsNone /\ asked' \in RunSizes
<1>0. pmm \in PmmType /\ Free(pmm) \subseteq Nat /\ RunSizes \subseteq Nat
  BY FreeAreNaturals, SizesAssumption DEF RInv, Inv, TypeOK
<1>1. built  BY DEF AllocBlocks
<1> PICK size \in RunSizes : Answer(allocBlocks(pmm, size), size)
  BY DEF AllocBlocks
<1>2. CASE allocBlocks(pmm, size) = Refused(pmm)
  BY <1>2 DEF Answer, Refused, granted, GetsNone
<1>3. size = 0 => allocBlocks(pmm, size) = Refused(pmm)
  BY DEF allocBlocks, mmapFirstFreeS
<1>4. ASSUME size # 0, NEW f \in Free(pmm),
             allocBlocks(pmm, size) =
               [addr |-> AddrOf(f), pmm |-> Take(pmm, f .. f + size - 1, size)]
      PROVE  \E g \in Nat : Gets(g, size)
  BY <1>0, <1>1, <1>4, GivenFrames
<1> QED  BY <1>0, <1>2, <1>3, <1>4, AllocBlocksAnswer

\* Releases only take frames away from their owners.
LEMMA Releases ==
  ASSUME FreeBlock \/ FreeBlocks
  PROVE  /\ built /\ UNCHANGED <<built, boot, unfree, asked, answer>>
         /\ held' \subseteq held
BY DEF FreeBlock, FreeBlocks

LEMMA OwnedWereFreeStep == RInv /\ [Next]_vars => OwnedWereFree'
<1> SUFFICES ASSUME RInv, [Next]_vars PROVE OwnedWereFree'
  OBVIOUS
<1>1. CASE Construct
  <2>1. held = {} /\ held' = held  
    BY <1>1 DEF Construct, ReadRecord, ReserveKernel, callerVars, RInv, Inv
  <2> QED  BY <2>1 DEF OwnedWereFree
<1>2. CASE AllocBlock \/ AllocBlocks
  <2>1. built /\ boot' = boot /\ unfree \subseteq unfree'
    BY <1>2 DEF AllocBlock, AllocBlocks, Answer
  <2>2. CASE unfree # {}
    BY <2>1, <2>2 DEF OwnedWereFree
  <2>3. CASE unfree = {}
    <3>1. ASSUME NEW f, NEW size, Gets(f, size), unfree' = {}
          PROVE  held' \subseteq Free(boot)
      BY <2>1, <2>3, <3>1, FreeIsLeft DEF Gets
    <3>2. ASSUME GetsNone PROVE held' \subseteq Free(boot)
      BY <2>1, <2>3, <3>2, FreeIsLeft DEF GetsNone
    <3>3. GetsNone \/ \E f, size : Gets(f, size)
      <4>1. CASE AllocBlocks
        BY <2>3, <4>1, RunOfFrames
      <4>2. CASE AllocBlock
        BY <2>3, <4>2, OneFrame
      <4> QED  BY <1>2, <4>1, <4>2
    <3>4. Free(boot)' = Free(boot)  BY <2>1 DEF Free, Searched
    <3> QED  BY <3>1, <3>2, <3>3, <3>4 DEF OwnedWereFree
  <2> QED  BY <2>2, <2>3
<1>3. CASE FreeBlock \/ FreeBlocks
  <2>1. Free(boot)' = Free(boot)  BY <1>3, Releases DEF Free, Searched
  <2> QED  BY <1>3, <2>1, Releases DEF RInv, OwnedWereFree
<1>4. CASE UNCHANGED vars
  <2>1. Free(boot)' = Free(boot)  BY <1>4 DEF vars, managerVars, Free, Searched
  <2> QED  BY <1>4, <2>1 DEF vars, managerVars, callerVars, RInv, OwnedWereFree
<1> QED  BY <1>1, <1>2, <1>3, <1>4 DEF Next

LEMMA RInvCorrect == Spec => []RInv
<1>1. Init => RInv
  BY InvInit DEF RInv, OwnedWereFree, Init
<1>2. RInv /\ [Next]_vars => RInv'
  BY InvStep, OwnedWereFreeStep DEF RInv
<1> QED  BY <1>1, <1>2, PTL DEF Spec

\* The abstract allocator counts as this module does.
LEMMA SameCount ==
  ASSUME NEW S
  PROVE  Abstract!Cardinality(S) = Cardinality(S)
BY Zenon DEF Abstract!Cardinality, Cardinality

LEMMA RefinementStep ==
  ASSUME 1 \notin RunSizes
  PROVE  RInv /\ (built => CountsEnough) /\ [Next]_vars => [Abstract!ANext]_(Abstract!avars)
<1> SUFFICES ASSUME RInv, built => CountsEnough, [Next]_vars,
                    unfree = {}
             PROVE  [Abstract!ANext]_(Abstract!avars)
  BY DEF Abstract!ANext
<1>0. TypeOK  BY DEF RInv, Inv
<1>z. FrameOf(0) = 0  BY SizesAssumption DEF FrameOf
<1>f. boot' = boot => Free(boot)' = Free(boot)  BY DEF Free, Searched
<1>1. CASE ReadRecord
  BY <1>1 DEF ReadRecord, callerVars, Abstract!avars
<1>2. CASE ReserveKernel
  <2>1. boot' \in PmmType  BY TypeStep, <1>0 DEF TypeOK
  <2>2. Free(boot)' \subseteq Nat
    <3>1. Free(boot') \subseteq Nat  BY <2>1, FreeAreNaturals
    <3> QED  BY <3>1 DEF Free, Searched
  <2> QED  BY <1>2, <2>2 DEF ReserveKernel, callerVars, Abstract!ANext, Abstract!AOpen
<1>3. ASSUME built, UNCHANGED <<built, boot>>, NEW f \in Nat, NEW size \in Nat \ {0},
             Gets(f, size), size = 1 \/ size > 1
      PROVE  Abstract!ANext
  <2> DEFINE run == f .. f + size - 1
  <2>1. /\ f \in Free(pmm) /\ held' = held \cup run /\ asked' = size
        /\ FrameOf(answer') = f
        /\ unfree' = run \ Free(pmm)
        /\ f \in run /\ run \subseteq Nat
    BY <1>3, AddressRoundTrip DEF Gets
  <2>2. Free(pmm) = Free(boot) \ held  BY <1>3, FreeIsLeft
  <2>3. CASE unfree' # {}
    <3>1. size > 1
      BY <1>3, <2>1, <2>3
    <3> QED
      BY <1>3, <1>f, <2>1, <2>3, <3>1 DEF Abstract!ANext, Abstract!ABreak
  <2>4. CASE unfree' = {}
    <3>1. held' \ held = run
      <4> HIDE DEF run
      <4> QED  BY <2>1, <2>2, <2>4
    <3>2. Cardinality(run) = size
      <4>1. f \in Int /\ f + size - 1 \in Int /\ f <= f + size - 1  BY <1>3
      <4>2. Cardinality(run) = IF f > f + size - 1 THEN 0 ELSE (f + size - 1) - f + 1
        BY <4>1, FS_Interval
      <4> QED  BY <1>3, <4>1, <4>2
    <3> HIDE DEF run
    <3>3. held \subseteq Nat  BY <1>0 DEF TypeOK
    <3>4. asked' = Abstract!Cardinality(held' \ held)
      BY <2>1, <3>1, <3>2, SameCount
    <3> QED
      BY <1>3, <1>f, <2>1, <2>2, <2>4, <3>1, <3>3, <3>4
      DEF Abstract!ANext, Abstract!AAlloc
  <2> QED  BY <2>3, <2>4
<1>4. CASE AllocBlock
  <2>1. built /\ UNCHANGED <<built, boot>>  BY <1>4 DEF AllocBlock
  <2>2. ASSUME NEW f \in Nat, Gets(f, 1) PROVE Abstract!ANext
    BY <1>3, <2>1, <2>2
  <2>3. CASE GetsNone /\ asked' = 1 /\ allocBlock(pmm) = Refused(pmm)
    <3>1. Free(boot) \subseteq held  BY <2>1, <2>3, RefusedOnlyWhenOut
    <3> QED
      BY <1>z, <1>f, <2>1, <2>3, <3>1 DEF GetsNone, Abstract!ANext, Abstract!ARefuse
  <2> QED  BY <1>4, <2>1, <2>2, <2>3, OneFrame
<1>5. CASE AllocBlocks
  <2>1. built /\ UNCHANGED <<built, boot>>  BY <1>5 DEF AllocBlocks
  <2>2. ASSUME NEW f \in Nat, NEW size \in RunSizes \ {0}, Gets(f, size)
        PROVE  Abstract!ANext
    <3>1. size \in Nat \ {0} /\ size > 1  BY SizesAssumption
    <3> QED  BY <1>3, <2>1, <2>2, <3>1
  <2>3. CASE GetsNone /\ asked' \in RunSizes
    BY <1>z, <1>f, <2>1, <2>3 DEF GetsNone, Abstract!ANext, Abstract!ARefuse
  <2> QED  BY <1>5, <2>2, <2>3, RunOfFrames
<1>6. CASE FreeBlock \/ FreeBlocks
  BY <1>6, <1>f, Releases DEF Abstract!ANext, Abstract!AFree
<1>7. CASE UNCHANGED vars
  BY <1>7, <1>f DEF vars, managerVars, callerVars, Abstract!avars
<1> QED  BY <1>1, <1>2, <1>4, <1>5, <1>6, <1>7 DEF Next, Construct

\* pmm.cpp is a frame allocator that shares no frame and reports "out of memory"
\* for a block only when there is none, wherever the sizes the loader reports cover
\* the free frames of its map, and no caller asks allocBlocks for a single block.
THEOREM ImplementsAllocator ==
  ASSUME 1 \notin RunSizes
  PROVE  Spec /\ [](built => CountsEnough) => Implements
<1>1. Init => Abstract!AInit
  <2>1. FrameOf(0) = 0  BY SizesAssumption DEF FrameOf
  <2> QED  BY <2>1 DEF Init, Abstract!AInit
<1>2. RInv /\ (built => CountsEnough) /\ [Next]_vars => [Abstract!ANext]_(Abstract!avars)
  BY RefinementStep
<1> QED  BY <1>1, <1>2, RInvCorrect, PTL DEF Spec, Implements, Abstract!ASpec

-----------------------------------------------------------------------------
\* The counter covers the free frames on every map that has enough records.

\* Record n adds its blocks to those that are counted.
LEMMA CountedGrows ==
  ASSUME NEW b \in BootInfos, NEW n \in 1 .. Len(b.mmap), IsFiniteSet(counted(b, n-1))
  PROVE  /\ blocksIn(b.mmap[n]) \in Nat
         /\ IsFiniteSet(counted(b, n))
         /\ Cardinality(counted(b, n)) = Cardinality(counted(b, n-1)) + blocksIn(b.mmap[n])
<1> DEFINE k == blocksIn(b.mmap[n])
           new == {n} \X (0 .. k-1)
           old == counted(b, n-1)
<1>1. k \in Nat
  <2>1. b.mmap \in Seq(MmapEntry)  BY BootAssumption
  <2>2. b.mmap[n].len \in Int
    <3>1. b.mmap[n] \in MmapEntry  BY <2>1
    <3> QED  BY <3>1 DEF MmapEntry
  <2>3. U32 \in Nat \ {0} /\ BlockSize \in Nat \ {0}  BY SizesAssumption
  <2>4. b.mmap[n].len % U32 \in Nat
    <3>1. b.mmap[n].len % U32 \in 0 .. U32-1  BY <2>2, <2>3, DivMod
    <3> QED  BY <2>3, <3>1
  <2> HIDE DEF k
  <2>5. k = 0 \/ k = (b.mmap[n].len % U32) \div BlockSize  BY DEF k, blocksIn
  <2> QED  BY <2>3, <2>4, <2>5, DivBound
<1>2. counted(b, n) = old \cup new
  <2> DEFINE part(i) == {i} \X (0 .. blocksIn(b.mmap[i]) - 1)
  <2>1. n \in Int /\ \A i : i \in 1 .. n <=> (i \in 1 .. n-1 \/ i = n)
    <3>1. Len(b.mmap) \in Nat  BY BootAssumption
    <3> QED  BY <3>1
  <2>2. counted(b, n) = UNION {part(i) : i \in 1 .. n}  BY DEF counted
  <2>3. old = UNION {part(i) : i \in 1 .. n-1}  BY DEF counted
  <2>4. new = part(n)  OBVIOUS
  <2> HIDE DEF part, old, new
  <2> QED  BY <2>1, <2>2, <2>3, <2>4
<1>3. old \cap new = {}
  <2>1. \A x \in old : x[1] \in 1 .. n-1
    BY DEF counted
  <2>2. \A x \in new : x[1] = n  OBVIOUS
  <2>3. n \notin 1 .. n-1  OBVIOUS
  <2> HIDE DEF old, new
  <2> QED  BY <2>1, <2>2, <2>3
<1>4. IsFiniteSet(new) /\ Cardinality(new) = k
  <2> DEFINE I == 0 .. k-1
             N == {n}
  <2>1. 0 \in Int /\ k-1 \in Int  BY <1>1
  <2>2. IsFiniteSet(I) /\ Cardinality(I) = IF 0 > k-1 THEN 0 ELSE k-1-0+1
    BY <2>1, FS_Interval
  <2>3. Cardinality(I) = k  BY <1>1, <2>2
  <2>4. IsFiniteSet(N) /\ Cardinality(N) = 1  BY FS_Singleton
  <2> HIDE DEF I, N, k
  <2>5. IsFiniteSet(N \X I) /\ Cardinality(N \X I) = Cardinality(N) * Cardinality(I)
    BY <2>2, <2>4, FS_Product
  <2>6. Cardinality(N \X I) = k  BY <1>1, <2>3, <2>4, <2>5
  <2> QED  BY <2>5, <2>6 DEF N, I
<1> HIDE DEF new, old, k
<1>5. IsFiniteSet(old)  BY DEF old
<1>6. /\ IsFiniteSet(old \cup new)
      /\ Cardinality(old \cup new) = Cardinality(old) + Cardinality(new) - Cardinality(old \cap new)
  BY <1>4, <1>5, FS_Union
<1>7. Cardinality(old \cap new) = 0 /\ Cardinality(old) \in Nat
  BY <1>3, <1>5, FS_EmptySet, FS_CardinalityType
<1>8. Cardinality(old \cup new) = Cardinality(old) + k  BY <1>1, <1>4, <1>6, <1>7
<1> QED  BY <1>1, <1>2, <1>6, <1>8 DEF old, k

\* Until the constructor returns the counter is short of maxBlocks by the blocks
\* of the records it has read.
CountInv ==
  IF built THEN CountsEnough
  ELSE /\ pmm.max = Cleared(mbt).max
       /\ IsFiniteSet(counted(mbt, record - 1))
       /\ pmm.used = (pmm.max - Cardinality(counted(mbt, record - 1))) % U32

LEMMA CountInit == Init => CountInv
<1> SUFFICES ASSUME Init PROVE CountInv
  OBVIOUS
<1>1. ~built /\ record = 1 /\ pmm = Cleared(mbt) /\ mbt \in BootInfos  BY DEF Init
<1>2. pmm \in PmmType  BY <1>1, ClearedType
<1>3. pmm.used = pmm.max  BY <1>1 DEF Cleared
<1>4. counted(mbt, record - 1) = {}  BY <1>1 DEF counted
<1>5. pmm.max \in 0 .. U32-1 /\ U32 \in Nat \ {0}  BY <1>2, SizesAssumption DEF PmmType
<1>6. (pmm.max - 0) % U32 = pmm.max  BY <1>5
<1> QED  BY <1>1, <1>3, <1>4, <1>6, FS_EmptySet DEF CountInv

LEMMA CountReadRecord ==
  ASSUME TypeOK, CountInv, ReadRecord
  PROVE  CountInv'
<1> DEFINE e == mbt.mmap[record]
           c == Cardinality(counted(mbt, record - 1))
           n == blocksIn(e)
<1>1. /\ ~built /\ ~built' /\ record \in 1 .. Len(mbt.mmap) /\ record' = record + 1
      /\ mbt' = mbt /\ mbt \in BootInfos
      /\ pmm' = IF usable(e) THEN initRegion(pmm, e.addr % U32, e.len % U32) ELSE pmm
  <2>1. Len(mbt.mmap) \in Nat  BY BootAssumption DEF TypeOK
  <2> QED  BY <2>1 DEF ReadRecord, TypeOK
<1>2. /\ pmm.max = Cleared(mbt).max /\ IsFiniteSet(counted(mbt, record - 1))
      /\ pmm.used = (pmm.max - c) % U32
  BY <1>1 DEF CountInv
<1>3. /\ n \in Nat /\ IsFiniteSet(counted(mbt, record))
      /\ Cardinality(counted(mbt, record)) = c + n
  BY <1>1, <1>2, CountedGrows
<1>4. c \in Nat  BY <1>2, FS_CardinalityType
<1>5. pmm.max \in Int /\ pmm.used \in 0 .. U32-1 /\ U32 \in Nat \ {0}
  BY SizesAssumption DEF TypeOK, PmmType
<1>6. pmm'.max = pmm.max /\ pmm'.used = (pmm.used - n) % U32
  <2>1. CASE usable(e)
    <3> DEFINE w == (pmm.used - n) % U32
    <3>1. n = (e.len % U32) \div BlockSize  BY <2>1 DEF blocksIn
    <3>2. w \in 0 .. U32-1
      <4>1. pmm.used - n \in Int  BY <1>3, <1>5
      <4> QED  BY <1>5, <4>1, DivMod
    <3>3. pmm' = initRegion(pmm, e.addr % U32, e.len % U32)  BY <1>1, <2>1
    <3> HIDE DEF n
    <3>4. pmm'.max = pmm.max /\ pmm'.used = (w + 0) % U32
      BY <3>1, <3>3 DEF initRegion, Take, Give, TypeOK, PmmType
    <3> HIDE DEF w
    <3>5. (w + 0) % U32 = w  BY <1>5, <3>2
    <3> QED  BY <3>4, <3>5 DEF w
  <2>2. CASE ~usable(e)
    <3>1. n = 0 /\ pmm' = pmm  BY <1>1, <2>2 DEF blocksIn
    <3> HIDE DEF n
    <3>2. (pmm.used - n) % U32 = pmm.used  BY <1>5, <3>1
    <3> QED  BY <3>1, <3>2
  <2> QED  BY <2>1, <2>2
<1> HIDE DEF n, c
<1>7. (pmm.used - n) % U32 = (pmm.max - (c + n)) % U32
  <2> DEFINE a == pmm.max - c
             d == -n
  <2>1. a \in Int /\ d \in Int /\ a + d = pmm.max - (c + n)  BY <1>3, <1>4, <1>5
  <2>2. pmm.used - n = pmm.used + d /\ pmm.used = a % U32  BY <1>2, <1>3, <1>5
  <2> HIDE DEF a, d
  <2>3. ((a % U32) + d) % U32 = (a + d) % U32  BY <1>5, <2>1, ModAdd
  <2> QED  BY <2>1, <2>2, <2>3
<1>8. record' - 1 = record  BY <1>1
<1> QED  BY <1>1, <1>2, <1>3, <1>6, <1>7, <1>8 DEF CountInv

\* Taking a remainder off changes no remainder either.
LEMMA ModOff ==
  ASSUME NEW a \in Int, NEW b \in Int, NEW u \in Nat \ {0}
  PROVE  (a - (b % u)) % u = (a - b) % u
<1> DEFINE k == b \div u
           c == a - b
<1>1. b = u * k + (b % u) /\ b % u \in Int /\ k \in Int  BY DivMod
<1>2. c \in Int /\ a - (b % u) = c + u*k  BY <1>1
<1> HIDE DEF c, k
<1>3. (c + u*k) % u = c % u  BY <1>1, <1>2, ModShift
<1> QED  BY <1>2, <1>3 DEF c

LEMMA CountReserveKernel ==
  ASSUME MapsSuffice, TypeOK, CountInv, ReserveKernel
  PROVE  CountInv'
<1> DEFINE k == KernelBytes \div BlockSize
           c == Cardinality(counted(mbt, Len(mbt.mmap)))
           words == (pmm.max \div WordBits) * WordBits
           left == (boot'.max - boot'.used) % U32
<1>1. /\ ~built /\ built' /\ mbt \in BootInfos /\ record = Len(mbt.mmap) + 1
      /\ boot' = deinitRegion(pmm, 0, KernelBytes)
  <2>1. Len(mbt.mmap) \in Nat  BY BootAssumption DEF TypeOK
  <2> QED  BY <2>1 DEF ReserveKernel, TypeOK
<1>2. record - 1 = Len(mbt.mmap)
  <2>1. Len(mbt.mmap) \in Nat  BY <1>1, BootAssumption
  <2> QED  BY <1>1, <2>1
<1>3. /\ pmm.max = Cleared(mbt).max /\ IsFiniteSet(counted(mbt, Len(mbt.mmap)))
      /\ pmm.used = (pmm.max - c) % U32
  BY <1>1, <1>2 DEF CountInv
<1>4. c \in Nat  BY <1>3, FS_CardinalityType
<1>5. /\ pmm.max \in Nat /\ pmm.used \in 0 .. U32-1 /\ U32 \in Nat \ {0}
      /\ WordBits \in Nat \ {0}
  BY SizesAssumption DEF TypeOK, PmmType
<1>6. k \in Nat /\ k >= 1
  <2>1. 0 \in KernelFrames  BY ZeroIsKernels
  <2>2. BlockSize \in Nat \ {0} /\ KernelBytes \in Nat  BY SizesAssumption
  <2>3. k \in 0 .. KernelBytes  BY <2>2, DivBound
  <2> HIDE DEF k
  <2>4. 0 \in 0 .. k-1  BY <2>1 DEF KernelFrames, k
  <2> QED  BY <2>2, <2>3, <2>4
<1>7. words \in Nat
  <2>1. pmm.max \div WordBits \in 0 .. pmm.max  BY <1>5, DivBound
  <2> QED  BY <1>5, <2>1
<1>8. /\ boot'.max = pmm.max /\ boot'.used = (pmm.used + k) % U32
      /\ KernelFrames \subseteq boot'.map
  BY <1>1, ReserveKernelTakes DEF deinitRegion, Take, TypeOK, PmmType
<1>9. Cardinality(0 .. words-1) <= c /\ c <= U32
  <2>1. Searched(Cleared(mbt)) = 0 .. words-1  BY <1>3 DEF Searched
  <2> QED  BY <1>1, <2>1 DEF MapsSuffice, RecordsSuffice
<1> HIDE DEF k, c, words
<1>10. words <= c
  <2>1. 0 \in Int /\ words-1 \in Int  BY <1>7
  <2>2. Cardinality(0 .. words-1) = IF 0 > words-1 THEN 0 ELSE words-1-0+1
    BY <2>1, FS_Interval
  <2> QED  BY <1>4, <1>7, <1>9, <2>2
<1>11. Free(boot)' \subseteq k .. words-1
  <2>1. Searched(boot') = 0 .. words-1  BY <1>8 DEF Searched, words
  <2>2. KernelFrames = 0 .. k-1  BY DEF KernelFrames, k
  <2>3. Free(boot)' = (0 .. words-1) \ boot'.map  BY <2>1 DEF Free, Searched
  <2> QED  BY <1>6, <1>7, <1>8, <2>2, <2>3
<1>12. left = (c - k) % U32
  <2> DEFINE a == pmm.max - c
             b == a + k
  <2>1. a \in Int /\ b \in Int /\ pmm.max - b = c - k  BY <1>4, <1>5, <1>6
  <2>2. pmm.used = a % U32  BY <1>3
  <2> HIDE DEF a
  <2>6. k \in Int /\ pmm.max \in Int  BY <1>5, <1>6
  <2>3. ((a % U32) + k) % U32 = (a + k) % U32  BY <1>5, <2>1, <2>6, ModAdd
  <2>4. boot'.used = b % U32  BY <1>8, <2>2, <2>3
  <2> HIDE DEF b
  <2>5. (pmm.max - (b % U32)) % U32 = (pmm.max - b) % U32  BY <1>5, <2>1, <2>6, ModOff
  <2> QED  BY <1>8, <2>1, <2>4, <2>5
<1> HIDE DEF left
<1>13. Cardinality(Free(boot)') <= left
  <2>1. k \in Int /\ words-1 \in Int  BY <1>6, <1>7
  <2>2. /\ IsFiniteSet(k .. words-1)
        /\ Cardinality(k .. words-1) = IF k > words-1 THEN 0 ELSE words-1-k+1
    BY <2>1, FS_Interval
  <2>3. /\ Cardinality(Free(boot)') <= Cardinality(k .. words-1)
        /\ IsFiniteSet(Free(boot)')
    BY <1>11, <2>2, FS_Subset
  <2>4. Cardinality(Free(boot)') \in Nat  BY <2>3, FS_CardinalityType
  <2> DEFINE d == c - k
  <2>5. d \in Int /\ left = d % U32 /\ left \in 0 .. U32-1
    <3>1. d \in Int  BY <1>4, <1>6
    <3> HIDE DEF d
    <3>2. d % U32 \in 0 .. U32-1  BY <1>5, <3>1
    <3> QED  BY <1>12, <3>1, <3>2 DEF d
  <2>6. CASE words <= k  BY <1>6, <1>7, <2>2, <2>3, <2>4, <2>5, <2>6, <1>5
  <2>7. CASE words > k
    <3>1. d \in 0 .. U32-1 /\ words - k <= d
      BY <1>4, <1>5, <1>6, <1>7, <1>9, <1>10, <2>7
    <3> HIDE DEF d
    <3>2. d % U32 = d  BY <1>5, <3>1
    <3>3. Cardinality(k .. words-1) = words - k  BY <1>6, <1>7, <2>2, <2>7
    <3> QED  BY <1>6, <1>7, <2>3, <2>4, <2>5, <3>1, <3>2, <3>3
  <2> QED  BY <1>6, <1>7, <2>6, <2>7
<1> QED  BY <1>1, <1>13 DEF CountInv, CountsEnough, left

\* Once the constructor has returned no step changes what it left.
LEMMA CountStep ==
  ASSUME MapsSuffice, TypeOK, CountInv,
         Construct \/ (built /\ UNCHANGED <<built, boot>>) \/ UNCHANGED managerVars
  PROVE  CountInv'
<1>1. CASE Construct
  BY <1>1, CountReadRecord, CountReserveKernel DEF Construct
<1>2. CASE built /\ UNCHANGED <<built, boot>>
  BY <1>2 DEF CountInv, CountsEnough
<1>3. CASE UNCHANGED managerVars
  BY <1>3 DEF CountInv, CountsEnough, managerVars
<1> QED  BY <1>1, <1>2, <1>3

LEMMA CountNext ==
  ASSUME MapsSuffice, TypeOK, CountInv, [Next]_vars
  PROVE  CountInv'
<1>1. \/ Construct \/ (built /\ UNCHANGED <<built, boot>>) \/ UNCHANGED managerVars
  BY DEF Next, AllocBlock, AllocBlocks, FreeBlock, FreeBlocks, vars
<1> QED  BY <1>1, CountStep

\* On every memory map whose available records hold at least the blocks mem_lower
\* and mem_upper say, allocBlock and freeBlock are the abstract allocator: a frame is
\* refused only when all that were free are owned.  What the constructor counts twice, the
\* holes under the kernel's 4 MB, it misses at the end of the bitmap.
THEOREM ImplementsOnItsMaps ==
  ASSUME 1 \notin RunSizes, MapsSuffice
  PROVE  Spec => Implements
<1>1. TypeOK /\ CountInv /\ [Next]_vars => CountInv'  BY CountNext
<1>2. CountInv => (built => CountsEnough)  BY DEF CountInv
<1>3. Spec => [](built => CountsEnough)
  BY <1>1, <1>2, CountInit, TypeCorrect, PTL DEF Spec
<1> QED  BY <1>3, ImplementsAllocator, PTL
=============================================================================
