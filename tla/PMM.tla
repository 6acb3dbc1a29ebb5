--------------------------------- MODULE PMM ---------------------------------
(***************************************************************************)
(* The physical memory manager, kernel/pmm.cpp: a bitmap with one bit per  *)
(* 4K block (a set bit is a block in use) and a counter of used blocks.    *)
(*                                                                         *)
(* The state is a record, so that the modules that call the manager in the *)
(* middle of a handler (VMM, Heap) can thread it through their own steps:  *)
(*   map   the set bits of memoryMap, and of the memory on both sides of   *)
(*         it, which the unchecked bit operations reach as well;           *)
(*   used  usedBlocks, an unsigned counter modulo U32;                     *)
(*   max   maxBlocks.                                                      *)
(* A frame is named by its number; its address is the number * BlockSize.  *)
(***************************************************************************)
EXTENDS Integers, Sequences, FiniteSets

CONSTANTS
  BlockSize,      \* BLOCK_SIZE, in bytes
  KB,             \* the bytes of the unit mem_lower and mem_upper count in
  WordBits,       \* the bits of a uint32_t of memoryMap
  BitsPerByte,    \* BLOCKS_PER_BYTE
  U32,            \* the modulus of uint32_t
  KernelBytes,    \* the bytes from address 0 the constructor marks as used
  BootInfos,      \* the multiboot information the loader may hand over
  RunSizes        \* the sizes callers pass to allocBlocks and freeBlocks

(***************************************************************************)
(* A multiboot record: the two sizes, the records found from mmap_addr on, *)
(* and the bits already set in the memory around the bitmap.  The loop of  *)
(* the constructor runs mmap_length times although mmap_length counts      *)
(* bytes, so mmap holds the real table followed by whatever lies after it. *)
(***************************************************************************)
MmapEntry == [type : Nat, addr : Nat, len : Nat]

ASSUME SizesAssumption ==
  /\ BlockSize \in Nat \ {0} /\ KB \in Nat \ {0}
  /\ WordBits \in Nat \ {0} /\ BitsPerByte \in Nat \ {0}
  /\ U32 \in Nat \ {0}
  /\ KernelBytes \in Nat /\ KernelBytes >= BlockSize
  /\ RunSizes \subseteq Nat

\* mem_lower + mem_upper stays below 2 GB: from there on useableMemory * 1024
\* overflows an int.
ASSUME BootAssumption ==
  \A b \in BootInfos :
    /\ b.mem_lower \in Nat /\ b.mem_upper \in Nat
    /\ (b.mem_lower + b.mem_upper) * KB < U32 \div 2
    /\ b.mmap \in Seq(MmapEntry)
    /\ b.around \in SUBSET Int

Available == 1      \* MULTIBOOT_MEMORY_AVAILABLE

PmmType == [map : SUBSET Int, used : 0..U32-1, max : 0..U32-1]

-----------------------------------------------------------------------------
\* The bitmap.

Blocks(base, size) == base \div BlockSize .. base \div BlockSize + size \div BlockSize - 1

\* Only whole words are searched.
Searched(p) == 0 .. (p.max \div WordBits) * WordBits - 1

Free(p) == Searched(p) \ p.map

\* Marking the frames F as used (as free) while the counter moves by n.
Take(p, F, n) == [p EXCEPT !.map = @ \cup F, !.used = (@ + n) % U32]
Give(p, F, n) == [p EXCEPT !.map = @ \ F, !.used = (@ - n) % U32]

mmapTest(p, bit) == bit \in p.map

\* What a scan from bit 0 up finds in a set of bits: the lowest, or -1.
First(S) ==
  LET lowest == {f \in S : \A g \in S : f <= g}
  IN  IF lowest = {} THEN -1 ELSE CHOOSE f \in lowest : TRUE

mmapFirstFree(p) == First(Free(p))

\* 1 << j as the int it is stored in.
Bit(j) == IF 2^j < U32 \div 2 THEN 2^j ELSE 2^j - U32

\* The test for room behind bit j of word i starts at bit i*32 + (1 << j), not
\* i*32 + j, and looks at size + 1 bits.
RoomAt(p, i, j, size) ==
  LET start == i * WordBits + Bit(j)
  IN  Cardinality({c \in 0..size : ~mmapTest(p, start + c)}) >= size

mmapFirstFreeS(p, size) ==
  CASE size = 0 -> -1
    [] size = 1 -> mmapFirstFree(p)
    [] OTHER -> First({f \in Free(p) : RoomAt(p, f \div WordBits, f % WordBits, size)})

initRegion(p, base, size) ==
  Take(Give(p, Blocks(base, size), size \div BlockSize), {0}, 0)

deinitRegion_OneShort(p, base, size) ==
  Take(p, Blocks(base, size - BlockSize), size \div BlockSize)

deinitRegion(p, base, size) == Take(p, Blocks(base, size), size \div BlockSize)

-----------------------------------------------------------------------------
\* The allocator: an answer is an address, 0 for failure, and the new state.

Refused(p) == [addr |-> 0, pmm |-> p]

AddrOf(frame) == frame * BlockSize
FrameOf(addr) == addr \div BlockSize

allocBlock_NoSet(p) ==
  LET frame == mmapFirstFree(p)
  IN  IF (p.max - p.used) % U32 <= 0 \/ frame = -1
      THEN Refused(p)
      ELSE [addr |-> AddrOf(frame), pmm |-> Take(p, {}, 1)]

allocBlock_NoScanCheck(p) ==
  LET frame == mmapFirstFree(p)
  IN  IF (p.max - p.used) % U32 <= 0
      THEN Refused(p)
      ELSE [addr |-> AddrOf(frame), pmm |-> Take(p, {frame}, 1)]

allocBlock_OneLeft(p) ==
  LET frame == mmapFirstFree(p)
  IN  IF (p.max - p.used) % U32 <= 1 \/ frame = -1
      THEN Refused(p)
      ELSE [addr |-> AddrOf(frame), pmm |-> Take(p, {frame}, 1)]

allocBlock(p) ==
  LET frame == mmapFirstFree(p)
  IN  IF (p.max - p.used) % U32 <= 0 \/ frame = -1
      THEN Refused(p)
      ELSE [addr |-> AddrOf(frame), pmm |-> Take(p, {frame}, 1)]

\* The frames of a run of size blocks at addr.
Run(addr, size) == FrameOf(addr) .. FrameOf(addr) + size - 1

allocBlocks(p, size) ==
  LET frame == mmapFirstFreeS(p, size)
  IN  IF (p.max - p.used) % U32 <= size \/ frame = -1
      THEN Refused(p)
      ELSE [addr |-> AddrOf(frame),
            pmm  |-> Take(p, Run(AddrOf(frame), size), size)]

freeBlock_NoCount(p, addr) == Give(p, {FrameOf(addr)}, 0)

freeBlock(p, addr) == Give(p, {FrameOf(addr)}, 1)

freeBlocks(p, addr, size) == Give(p, Run(addr, size), size)

-----------------------------------------------------------------------------
VARIABLES
  mbt,        \* the multiboot information the constructor was given
  record,     \* the constructor's loop: the mmap record it reads next
  built,      \* has the constructor returned?
  pmm,        \* the manager's state
  boot,       \* the manager's state when its constructor returned
  held,       \* the frames callers own
  unfree,     \* the frames handed out that were not free ones
  asked,      \* the number of blocks the last allocation asked for
  answer      \* the address it returned

managerVars == <<mbt, record, built, pmm, boot>>
callerVars  == <<held, unfree, asked, answer>>
vars        == <<managerVars, callerVars>>

\* memset(memoryMap, 0xf, ...) sets the low half of the bits of each byte.
memsetMap(max) ==
  {b \in 0 .. (max \div BitsPerByte) * BitsPerByte - 1 :
     b % BitsPerByte < BitsPerByte \div 2}

Cleared(b) ==
  LET max == ((b.mem_lower + b.mem_upper) * KB) \div BlockSize
      own == 0 .. (max \div BitsPerByte) * BitsPerByte - 1
  IN  [map |-> memsetMap(max) \cup (b.around \ own), used |-> max, max |-> max]

Init ==
  /\ mbt \in BootInfos
  /\ record = 1 /\ built = FALSE
  /\ pmm = Cleared(mbt) /\ boot = pmm
  /\ held = {} /\ unfree = {} /\ asked = 0 /\ answer = 0

usable(e) == e.type = Available /\ e.addr % U32 # 1

\* One turn of the constructor's loop.
ReadRecord ==
  /\ ~built /\ record <= Len(mbt.mmap)
  /\ record' = record + 1
  /\ LET e == mbt.mmap[record]
     IN  pmm' = IF usable(e) THEN initRegion(pmm, e.addr % U32, e.len % U32) ELSE pmm
  /\ boot' = pmm'
  /\ UNCHANGED <<mbt, built, callerVars>>

\* The end of the constructor: the kernel's own 4 MB are marked as used.
ReserveKernel ==
  /\ ~built /\ record > Len(mbt.mmap)
  /\ built' = TRUE
  /\ pmm' = deinitRegion(pmm, 0, KernelBytes)
  /\ boot' = pmm'
  /\ UNCHANGED <<mbt, record, callerVars>>

Construct == ReadRecord \/ ReserveKernel

\* An allocator's result r, for size blocks, reaches the caller.
granted(r, size) == IF r.addr = 0 THEN {} ELSE Run(r.addr, size)

Answer(r, size) ==
  /\ pmm' = r.pmm
  /\ asked' = size /\ answer' = r.addr
  /\ held' = held \cup granted(r, size)
  /\ unfree' = unfree \cup (granted(r, size) \ Free(pmm))

AllocBlock ==
  /\ built
  /\ Answer(allocBlock(pmm), 1)
  /\ UNCHANGED <<mbt, record, built, boot>>

AllocBlocks ==
  /\ built
  /\ \E size \in RunSizes : Answer(allocBlocks(pmm, size), size)
  /\ UNCHANGED <<mbt, record, built, boot>>

\* Callers give back what they own, and nothing else.
FreeBlock ==
  /\ built
  /\ \E f \in held :
       /\ pmm' = freeBlock(pmm, AddrOf(f))
       /\ held' = held \ {f}
  /\ UNCHANGED <<mbt, record, built, boot, unfree, asked, answer>>

FreeBlocks ==
  /\ built
  /\ \E f \in held, size \in RunSizes \ {0} :
       /\ Run(AddrOf(f), size) \subseteq held
       /\ pmm' = freeBlocks(pmm, AddrOf(f), size)
       /\ held' = held \ Run(AddrOf(f), size)
  /\ UNCHANGED <<mbt, record, built, boot, unfree, asked, answer>>

Next == Construct \/ AllocBlock \/ AllocBlocks \/ FreeBlock \/ FreeBlocks

Spec == Init /\ [][Next]_vars

-----------------------------------------------------------------------------
KernelFrames == 0 .. KernelBytes \div BlockSize - 1

TypeOK ==
  /\ mbt \in BootInfos
  /\ record \in 1 .. Len(mbt.mmap) + 1
  /\ built \in BOOLEAN
  /\ pmm \in PmmType /\ boot \in PmmType
  /\ held \in SUBSET Nat /\ unfree \in SUBSET Nat
  /\ asked \in Nat /\ answer \in Nat

\* The bitmap and the callers agree: as long as the frames handed out were free,
\* the set bits are those the constructor left and the frames callers own, and
\* the two do not meet.  pmm.cpp, allocBlock to freeBlocks.
ExactMap ==
  unfree = {} => /\ pmm.map = boot.map \cup held
                 /\ held \cap boot.map = {}

\* The counter follows the bitmap through every allocation and release,
\* modulo 2^32: usedBlocks moves by the number of frames callers own.
Accounting ==
  unfree = {} => /\ IsFiniteSet(held)
                 /\ pmm.used = (boot.used + Cardinality(held)) % U32
                 /\ pmm.max = boot.max

\* The frames under the kernel's 4 MB, frame 0 among them, are never handed out,
\* so that an answer of 0 can only mean failure.
KernelReserved ==
  built /\ unfree = {} => /\ KernelFrames \subseteq pmm.map
                          /\ held \cap KernelFrames = {}

\* What the comments of mmapFirstFreeS promise ("loop through each bit to see if
\* its enough space", "free count==size needed; return index"): the run it
\* returns is made of free frames.
RunsAreFree == unfree = {}

\* The counter starts from mem_lower and mem_upper and goes down by the blocks of
\* the available records: those of the first n records of the boot information b.
blocksIn(e) == IF usable(e) THEN (e.len % U32) \div BlockSize ELSE 0

counted(b, n) == UNION {{i} \X (0 .. blocksIn(b.mmap[i]) - 1) : i \in 1 .. n}

\* A memory map whose available records hold at least the blocks that are searched,
\* which mem_lower and mem_upper say.
RecordsSuffice(b) ==
  LET blocks == Cardinality(counted(b, Len(b.mmap)))
  IN  Cardinality(Searched(Cleared(b))) <= blocks /\ blocks <= U32

MapsSuffice == \A b \in BootInfos : RecordsSuffice(b)

\* The manager implements the abstract allocator over the frames it searches and
\* found free when it was constructed.
Abstract == INSTANCE FrameAllocator WITH
  Frame  <- Nat,
  opened <- built,
  pool   <- IF built THEN Free(boot) ELSE {},
  out    <- held,
  answer <- FrameOf(answer),
  broken <- unfree # {}

Implements == Abstract!ASpec
=============================================================================
