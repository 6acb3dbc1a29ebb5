# A TLA+ model of UntitledOS

UntitledOS is a hobby kernel for one 32-bit x86 processor: a bitmap of physical
memory, paging, a slab heap, interrupts, a shell on the VGA text screen, and a
FAT12 file system on an IDE disk. This directory holds TLA+ modules of it, TLC
configurations that check them on small instances, and proofs for TLAPS.
`PROJECT.json` lists the components, the runs, the mutants (how each property is
shown to bite), the source lines each definition stands for, and the hazards
the properties are for.

Check a configuration with `tlc -config MCPMM.cfg MCPMM`, the proofs of a
component with `tlapm PMM_proofs.tla` (and `VMM_proofs`, `Heap_proofs`,
`Console_proofs`, `FAT12_proofs`, `Interrupts_proofs`, `IDE_proofs`,
`YString_proofs`: a few minutes each).

## 1. The system

One processor; no threads, no processes. There are two flows of control:
`kernel_main`, which constructs every object in order and then loops for ever,
and the interrupt handlers. Gates close the interrupt flag, so handlers do not
nest, but from `sti` on they interrupt `kernel_main` at any instruction. After
boot *everything* happens in the keyboard's handler: it runs the console's
editing, the shell's commands, the file system and the disk driver to their
end. Components call one another directly and share state through singletons
(`PMM::the`, `Heap::the`, ...). The heap is used by `kernel_main` before `sti`
and by the keyboard's handler after it, so it is never entered twice.

| Component | State | Operations | Talks to | What is hard about it |
|---|---|---|---|---|
| PMM (`pmm.cpp`) | bitmap, `usedBlocks`, `maxBlocks`, `kernelEnd` | constructor from the loader's memory map; `allocBlock(s)`, `freeBlock(s)`; `kmem` | called by VMM, Heap | bitmap and counter are updated apart; unsigned wrap; unchecked bit indices; a search for runs |
| VMM (`vmm.cpp`) | page directory and tables (recursive mapping) | constructor, `allocPage(s)`, `mapPage` | takes blocks from the PMM | running out of memory half way; tables in recycled frames; pages mapped twice |
| Heap (`heap.cpp`, `kmalloc.cpp`) | free and allocated lists of SlabFrames, one pair per class; `heapStartOffset` | `alloc`, `free`, `moreMem` | pages from the VMM, list nodes from `kmem` | any order of frees; double frees; a 16-bit offset |
| CPU, IRQHandler, stubs | IDT, `interruptHandlers` | `isrInstall`, `setInterruptHandler`, `irqHandler` | calls the devices | interrupts during construction; end of interrupt before the handler |
| PIT, RTC, KeyboardDevice | ticks; date and time; `shifted`, `capsLock`, `listeners` | constructors, `handleIRQ` | hardware; the console | interrupts that stop for ever unless a register is read |
| VirtualConsole | screen, row, column, `inputStr`, history | `keyStateChanged`, `newCommand`, `runCommand`, `putchar` | called by the keyboard; runs commands | wrap, scroll, erase and recall on one cursor; an interrupt in the banner or the first prompt |
| VFS, FAT12 | table of file systems; the disk's FAT, root directory, data | `open`, `read`, `writetest`, `list` | sectors from IDE | several sector writes per file, power may fail between; entries of 12 bits across sectors |
| IDE (`IDE.cpp`) | the drive's registers | constructor, `readSector`, `writeSector` | the drive, by port I/O | polling without limits; words sent and fetched without a look at DRQ; errors nobody hears of |
| Y (String, Vector) | buffer, size, capacity | append, reserve, copy, + | everything above; frames from the heap | capacities, missing terminators, frames never given back, shallow copies |
| libc, kprintf, tty, gdt, boot code | - | formatting, logging, static tables | - | - |

What makes each correct, in one line:

- PMM: a frame has one owner; bitmap, counter and owners agree; the kernel and
  frame 0 are never handed out; refusal means exhaustion.
- VMM: each frame from the PMM has one use; a mapping is never replaced; a page
  returned is mapped.
- Heap: blocks in use never meet; they have memory of their own; a stray free
  harms one caller at most; no list node is forgotten.
- Interrupts: no key is lost, doubled or reordered; no line jams; the machine
  does not stop.
- Console: the screen shows what Enter will run.
- IDE: the drive and the driver stay in step; sectors are read and written whole;
  every call returns.
- String: strings are texts; their bytes stay in their frames; frames come back.
- FAT12: a complete file survives whatever is written, or fails to be, after it.

## 2. Modules

| Module | Models | Sits on |
|---|---|---|
| `FrameAllocator` | abstract: what a physical memory manager promises | - |
| `PMM` | `pmm.cpp` and its callers, as owners of frames | implements `FrameAllocator` |
| `VMM` | `vmm.cpp` | extends `PMM` |
| `Heap` | `heap.cpp`, `kmalloc.cpp`, `kmem` | extends `VMM` |
| `Interrupts` | boot order, `CPU.cpp`, `interrupts.asm`, the handlers of PIT, RTC, keyboard; the PICs and devices are external | - |
| `Console` | `VirtualConsole.cpp`, `KeyboardDevice.cpp` and what `printf` and `String` do to them | - |
| `FAT12` | `FAT12.cpp`, on the disk, with loss of power | - |
| `Disk` | abstract: what a disk driver promises | - |
| `IDE` | `IDE.cpp` and the port instructions; the drive is external | implements `Disk` |
| `Texts` | abstract: what a string class promises | - |
| `YString` | `String.cpp` on the heap's frames | implements `Texts` |
| `PMM_proofs` | theorems about `PMM` | extends `PMM`, TLAPS |
| `VMM_proofs` | theorems about `VMM` | extends `VMM`, `PMM_proofs` |
| `Heap_proofs` | theorems about `Heap` | extends `Heap`, `VMM_proofs` |
| `Console_proofs` | theorems about `Console` | extends `Console`, TLAPS |
| `FAT12_proofs` | theorems about `FAT12` | extends `FAT12`, TLAPS |
| `Interrupts_proofs` | theorems about `Interrupts` | extends `Interrupts`, TLAPS |
| `IDE_proofs` | theorems about `IDE` | extends `IDE`, TLAPS |
| `YString_proofs` | theorems about `YString` | extends `YString`, TLAPS |
| `MC*` | the small instances | one each |

Names are those of the source. A handler that C++ writes as nested calls on
several objects (`kmalloc` -> `moreMem` -> `allocPage` -> `allocBlock`,
`mapPage` -> `allocBlock`) is one action: each component's operations are
functions from its state, a record, to an answer and a new state, and the action
composes them in the order of the calls. The definitions with a suffix
(`allocBlock_NoSet`) are mutants: plausible bugs no specification uses.

**PMM.** `ReadRecord` is one turn of the constructor's loop, `ReserveKernel` its
end, `AllocBlock` ... `FreeBlocks` the calls of owners who free only what they
own. `map` has the set bits of the bitmap *and* of the memory beside it, since the
bit operations do not check their index: regions of the memory map beyond
`maxBlocks`, and `mmapFirstFreeS`, reach there. `mmap_length` counts bytes but
bounds a loop over records, so a memory map is the table followed by
whatever is behind it. Integers have the width `U32`; the assumptions keep
memory below 2 GB, where `useableMemory * 1024` is an int. `held` (the frames
callers own), `unfree` (frames handed out that were not free ones), `asked` and
`boot` are history variables. The mapping to `FrameAllocator` takes `unfree # {}`
for `broken`: after that nothing is promised.

**VMM.** A page is a number, an entry a frame or `NotPresent`. A new table holds
any of `Junk`, and `memset(table, 0, sizeof(table))` clears one entry of it.
`allocPage` maps what `allocBlock` answered, frame 0 included. `allocPages` is its
loop: `AllocPages` starts it, each `AllocNextPage` is one turn (`next` is the page
it asks for, `left` the turns left). `returned`, `mapped` and `dropped` are history
variables; `mapped` travels in the record, since only `enter` knows whether a page
was entered.

**Heap.** Lists are sequences, first frame first. `Kmalloc` picks any size up to a
page; larger requests answer 0 and change nothing. `Kfree` frees a block its
caller holds; `KfreeStray` frees any address of the heap's memory by somebody who does
not hold the block: a second time, or a pointer never returned. If a caller's block
starts there by now, it is freed under him and counts as `stolen`, no more as `live`.

**Console.** `KeyIRQ` is the whole handler, from the scan code to the end of the
command, and atomic, since nothing interrupts it. `kernel_main`, which prints its
banner and then the first prompt, is modelled statement by statement of `putchar` and
`newCommand` (the `Main...` actions), with keys between any two of them. `row` and
`column` are plain ints, written by both: this is a data race, and what a statement of
`kernel_main` finds in them after a key depends on what the build keeps in registers.
So `main` has its own copies, which every statement uses and updates, and `MainLoad` may
read one again from memory at any point; a build that always does, one that never does
inside of `putchar`, and everything in between, are behaviours of the model. The
cells a key may overwrite while the banner is printed get no such care, and no property
speaks of them. Where the code writes or reads through a null pointer
the machine halts: page 0 is unmapped by `boot.asm`, and `isrHandler` ends
in `hlt` with interrupts off. What a command prints is one of `Outputs`. The heap is
taken to have the memory a line needs: a line of more than 4096 characters, or an
exhausted heap, makes `String::reserve` write through `kmalloc`'s null, which is a matter
of `YString` and `Heap`.

**FAT12.** The FAT is modelled in nibbles: 12-bit entries are read and or'ed
where the code reads and or's them, including the entry that lies across two
sectors and the clusters 0 and 1 whose sectors are those of the root directory.
`WriteDir`, `WriteFAT`, `WriteData` are one sector write each; `PowerFails` may
come between any two. A missing file is opened with an arbitrary cluster and
end-of-file flag, as the code leaves both uninitialized: one the FAT has an entry
for, or `Outside`, which stands for all others, up to 2^32 of them. What `read` takes for
the next cluster there is anything (`entries`). Of a file's contents `got` keeps as
many sectors as tell it from one of `MaxChunks`. `taken` is the loop of `findSectors`, entry by
entry, and remembers the list of each turn, so that a write can be told to have
stayed in the first sector's whole entries (`spilled`). The disks the kernel may find
(`DisksAssumption`) are formatted: the entries of clusters 0 and 1 are set, and each
taken cluster that lies in the first sector is some file's. `ChainsAssumption`, that the
chains on them end, is what `ReadingEnds` takes for granted of files the kernel did not
write; no theorem uses it.

**IDE.** One action per port access or loop that the drive can tell from another:
the command, the stray byte, the end of a poll, each word, the flush, the last
wait. Between any two the drive may go on. It is modelled by the two bits of its status
register that decide what the driver does, BSY and DRQ, and by the words it holds;
what it does with a command in the middle of another is left open. `Kinds` are
the sets of traits the driver takes for granted or not. `outcome` is a history
variable. The constructor's IDENTIFY is the call in hand at the start.

**YString.** A string is a record; a buffer is the frame `kmalloc` gave, the smallest of
the heap's `Classes` that fits, full of old bytes. Each action is one call on one string, with
the copies and the terminating it does on the way. Bytes behind a text and its
end are forgotten between calls (`Settled`): no operation but `+` looks at them,
and there `CTexts` lets an old byte be anything. `frames`, `joined`, `lost` and
`harm` (the first write outside of a frame, if any, and why) are for the properties.

**Interrupts.** `Boot` is `kernel_main` step by step, a constructor of a base class
apart from that of the derived one. The PICs latch edges, forget them when
programmed, and serve the lower line first; the keyboard controller holds one
byte; the clock is silent while its register C is unread. An uninitialized
`listeners`, and the word behind the table of 15 handlers, may or may not stop
the machine; so may the console's own code on any key given to it, since what is in
its line is not part of this module. Which keys do is a question to `Console`.

## 3. Runs

| Run | Instance | Result |
|---|---|---|
| `pmm` | four memory maps, 8 to 17 blocks, regions up to block 26; words of 8 bits; modulus 256; blocks, runs of 2 and 3, until a run not made of free frames is handed out (`AllFree`) | all hold |
| `pmm_shared` | the same, without the constraint | violated: finding 1 |
| `vmm` | 6 frames, 2 tables of 3 entries, 6 pages | all hold |
| `vmm_clear` | the same | violated: finding 2 |
| `heap` | 2 classes, pages of 2 small blocks, offset wraps after 3 pages, 4 frames, 4 `moreMem`; up to 2 blocks freed under their holders | all hold |
| `heap_more`, `heap_free` | the same, without the constraint | violated: findings 3, 4 |
| `console` | 3 x 2 screen, lines of 4, history of 2 characters in all; letters, shift, caps lock and releases; a banner of two lines | all hold |
| `fat12` | 2 FAT sectors of 7 1/3 entries, 4 directory slots, files of up to 3 sectors, 2 disks | all hold |
| `interrupts` | 3 keys | all hold |
| `ide` | 2 sectors of 2 words of 2 values; no drive, and all four kinds | all hold |
| `ystring` | 2 strings of 2 letters, texts of 3, classes of 2, 4, 8, 16 bytes | all hold |

Why these sizes are enough to meet the cases that matter:

- `pmm`: the maps are a PC with a ragged end (blocks in no whole word), one
  without, one with holes, unknown and junk records, and one whose regions
  exceed the reported sizes so that `usedBlocks` passes below zero. Memory is
  exhausted, fragmented and refilled in all of them.
- `vmm`: two tables and six pages cannot all be had from six frames, so
  memory runs out before, at and after the making of a table. Tables come
  clean or with an old entry.
- `heap`: `OffsetRange` is three pages and `MaxGrow` four, so the offset goes
  around once; three frames for pages, so physical memory ends before that. Both
  ways through `slabAlloc` and every order of frees of up to six blocks occur.
- `console`: a line of four characters is longer than a screen line and, behind
  the prompt, than the screen: wrapping, scrolling and the prompt's leaving the
  screen all happen. The banner ends one line by a line feed and fills the last one,
  so that both ways to `row++` are taken with a key behind them, on the last line
  and before it; the prompt's line feed scrolls.
- `fat12`: a file of three clusters and another fill the first FAT sector; the
  root directory fills; `Foreign` has a file of another system in the way, and three free
  clusters, so that writes find fewer than they need.
- `ide`: two words are a first and a last one, so a call can be left with words to
  fetch, to send, or one of each; two sectors tell the sector asked for from
  another, two calls what the one before left behind.
- `ystring`: a text of 3 grows through two classes of frames (2, 4) by doubling, fills one to
  the last byte, and is the sum of two others.
- `interrupts`: three keys put one byte in the console, one in the buffer and
  one behind it.

**Bounds and constraints**, each named: `MaxGrow`, `MaxInput`, `MaxHistory` (the
characters of all commands run), `MaxChunks`, `MaxKeys`, `MaxText`. `AllFree` (pmm)
stops at the first run that is not made of free frames, after which owners free one
another's memory. `Near` (heap) stops when the offset has gone around, as the properties
do, and at the third block freed under its holder. `Near` (console): recalled lines with
a NUL in them walk the cursor left without end, so exploration stops two cells before
the screen; after a key that came before the loop, two characters in all, no shift, and
the loop only if the key was in the window that loses the row. There the view `MCView`
leaves out cells, cursor and prompt, which nothing reads or speaks of any more.
`Clean` (ystring) stops when memory outside of a frame was written.
`Unspilled` (fat12): exploration stops once a write takes a cluster at or behind the entry
across the two FAT sectors; every property is conditional on this anyway, as
`findSectors` numbers the entries of the second sector from 0 again.

**Conditions in the properties** say where the code stops keeping its promise:
`unfree = {}` (finding 1), `~Reused` (finding 3), `~spilled`, `Regular` (no key
before the first prompt, no NUL in the history), `~early` (no key before the
console exists), and in `ide` the drive's kind. The findings' runs show that the first two are needed.

**Deadlock** is checked in `pmm*`, `vmm*`, `heap*` and `ystring`. The console stops after a
fault, `fat12` when the disk is full, `interrupts` when the machine has halted,
`ide` when there is no drive and the constructor waits for ever: there it is off.

**Fairness.** Three specifications state any. In `IDE`, weak fairness of the driver,
which nothing interrupts for good, and of the drive: if it is there it does not stay
busy for ever. Nobody has to call. In `FAT12`, `WF(Read)` and
`WF(Close)`: the command runs in a handler nothing interrupts, so the loop
goes on. In `Interrupts`, weak fairness of `kernel_main`, of the handlers (the
keyboard's runs the shell's commands, which are taken to end) and
of the devices that have something to announce; strong fairness of taking each
line, since the timer's handler is a few instructions and its period 10 ms, so the
timer cannot keep the lower lines out for ever. Nobody has to type, and the timer
and line 15 need not fire.

### What the runs show

- The single-block paths of the PMM are right, on every memory map tried, also
  when the counter wraps, and implement `FrameAllocator`: an answer of 0
  means that every frame is out.
- Every frame the VMM takes is a table, a page, or dropped where the code drops
  it (page already present, no memory for the table).
- A stray free never breaks the lists of the heap: `free` looks the address up in the
  allocated ones, and finds nothing if no caller's block starts there (the price is
  finding 4). But it does not know who asks. When an address freed once has been handed
  out again, a second free takes the block from its new owner, and the next `kmalloc`
  of that class gives it to a third; the two then share that one block, and
  no other is harmed. Copies of a `Vector`, which share a buffer, end in such frees.
- Keys that arrive before the console stands can jam the keyboard for ever
  (handler not there, byte never read) or call through an uninitialized
  pointer; keys after it are all handled, in order.
- The console has three ways to stop the machine from the keyboard: Enter as the
  first key, the down arrow with no history, Enter behind blanks. Interrupts by
  themselves stop it only on line 15, or by a key that comes early.
- Reading a file ends, also from a cluster of the FAT a missing file happens to start
  with. From a cluster outside of the FAT it need not: `open` of a missing file may keep
  the machine in its handler for ever, and nothing written to the disk changes that.
- A drive that asks for the words of a write as soon as it has the command never
  gets out of step with the driver, whatever fails: the waits of one call make up
  for what the one before left out. Over a drive that asks later the words of a
  write are lost, and the next command may be; reads it serves are right even then.
- Strings are texts, but `c_str` of a text that fills its frame, of a string
  that has no buffer, and calls on a string that `append(String)` left with too
  large a capacity write outside of their frames; `+` is right only behind a
  left side that ends in a NUL. `FAT12::list` adds twice, and the second time
  its left side is the result of the first, which `append` left without one.
- The row of the console is lost only by a key between `row++` and the test behind
  it, while `kernel_main` prints its banner or the first prompt and is on the last line.
  Whether it then is depends on the build: one that keeps the row in a register from
  `row++` to `row--` overwrites what the key did, one that reads it again for the test
  finds it past `VGA_HEIGHT`, where `==` never holds again.
- Directory first, FAT second, data last: a power failure at any point harms only
  the file being written, though its clusters may stay taken.

### Findings

1. `pmm.cpp:121`: the run search tests from bit `i*32 + (1 << j)`. (`pmm_shared`)
2. `vmm.cpp:52`: a new page table is not cleared. (`vmm_clear`)
3. `heap.cpp:130`, `heap.h:37`: the heap's offset wraps after 16 pages. (`heap_more`)
4. `heap.cpp:65`: freeing a block forgets the ones in front of it. (`heap_free`)

## 4. Proofs

Every theorem holds for all values of the constants its module's assumptions
allow, and TLC checks the property on a small instance. Each rests on one
inductive invariant, shown to hold at first (`...Init`), to be kept by each action
(`...Step`) and to imply the property.

| Module | Theorem | Statement |
|---|---|---|
| `PMM_proofs` | `TypeCorrect` | `Spec => []TypeOK` |
| | `ExactMapCorrect` | `Spec => []ExactMap` |
| | `AccountingCorrect` | `Spec => []Accounting` |
| | `KernelReservedCorrect` | `Spec => []KernelReserved` |
| | `ImplementsAllocator` | `1 \notin RunSizes`: `Spec /\ [](built => CountsEnough) => Implements` |
| | `ImplementsOnItsMaps` | `1 \notin RunSizes`, `MapsSuffice`: `Spec => Implements` |
| `VMM_proofs` | `VMMTypeCorrect` | `VMMSpec => []VMMTypeOK` |
| | `FramesHaveOneUseCorrect` | `VMMSpec => []FramesHaveOneUse` |
| | `MappingsAreStableCorrect` | `VMMSpec => MappingsAreStable` |
| | `ReturnedIsMappedCorrect` | `VMMSpec /\ [](built => CountsEnough) => []ReturnedIsMapped` |
| | `ReturnedIsMappedOnItsMaps` | `MapsSuffice`: `VMMSpec => []ReturnedIsMapped` |
| `Heap_proofs` | `HeapTypeCorrect` | `HeapSpec => []HeapTypeOK` |
| | `FramesArePartitionCorrect` | `HeapSpec => []FramesArePartition` |
| | `LiveIsExclusiveCorrect` | `HeapSpec => []LiveIsExclusive` |
| | `StrayFreeHarmsOneHolderCorrect` | `HeapSpec => []StrayFreeHarmsOneHolder` |
| | `NoFrameIsForgottenCorrect` | `HeapSpec => []NoFrameIsForgotten` |
| | `LiveIsBackedCorrect` | `HeapSpec /\ [](built => CountsEnough) => []LiveIsBacked` |
| | `LiveIsBackedOnItsMaps` | `MapsSuffice`: `HeapSpec => []LiveIsBacked` |
| `Console_proofs` | `TypeCorrect` | `ConsoleSpec => []ConsoleTypeOK` |
| | `ScreenShowsLine` | `ConsoleSpec => []LineIsShown` |
| | `WritesStayOnScreen` | `ConsoleSpec => []WritesOnScreen` |
| | `PositionStaysOnScreen` | `ConsoleSpec => []PositionIsOnScreen` |
| | `FaultsStayKnown` | `ConsoleSpec => []FaultsAreKnown` |
| `FAT12_proofs` | `FATTypeCorrect` | `FATSpec => []FATTypeOK` |
| | `CompleteFilesStayCorrect` | `FATSpec => []CompleteFilesStay` |
| | `ReadsAreWhatWasWritten` | `FATSpec => []ReadsWhatWasWritten` |
| | `NothingLeaksCorrect` | `FATSpec => []NothingLeaks` |
| `IDE_proofs` | `IDETypeCorrect` | `IDESpec => []IDETypeOK` |
| | `StaysInStepCorrect` | `IDESpec => []StaysInStep` |
| | `ReadsAreRightCorrect` | `IDESpec => []ReadsAreRight` |
| | `ImplementsDisk` | `IDESpec => Implements` |
| `Interrupts_proofs` | `IrqTypeCorrect` | `IrqSpec => []IrqTypeOK` |
| | `KeysInOrderCorrect` | `IrqSpec => []KeysInOrder` |
| | `NeverStuckCorrect` | `IrqSpec => []NeverStuck` |
| | `StopsAreKnownCorrect` | `IrqSpec => []StopsAreKnown` |
| `YString_proofs` | `StringTypeCorrect` | `StringSpec => []StringTypeOK` |
| | `HarmStaysKnown` | `StringSpec => []HarmIsKnown` |
| | `FramesAreReturned` | `StringSpec => FramesComeBack` |
| | `TextsImplemented` | `StringSpec => TextsAreRight` |

**PMM** (assumptions: `SizesAssumption`, `BootAssumption`). `TypeOK` is
inductive; the work is in the answers of the two searches, which are -1 or naturals
(`FirstFinds`), so that addresses are.
The other three follow from `Inv`: `TypeOK`, `ExactMap`,
`Accounting`, and two facts about the constructor that `ExactMap` and
`Accounting` need to be preserved, since both compare with the state `boot` it
left: while it runs, `boot` is the manager's state and nobody owns a frame; once
it is done, the kernel's frames are set in `boot`. As frame 0 is one of them, an
answer of 0 always means that nothing was taken; without that, a block at frame
0 would be taken with no owner and `ExactMap` would fail. `KernelReserved` then
needs no induction of its own (`KernelIsTaken`). An allocation that hands out a
taken frame makes `unfree` non-empty, and the conditional invariants hold of it;
otherwise `TakeCounts` and `GiveCounts` carry the new cardinality of `held` through
the counter's modulus (`ModAdd`).

`ImplementsAllocator` has two hypotheses, both needed. `CountsEnough`: the counter
leaves at least as many blocks as the searched words have free bits when the
constructor returns. The code does not see to it (the counter starts from `mem_lower`
and `mem_upper`, the bits from the regions); where it fails, `allocBlock` refuses while
frames are free. And no run of one block is asked
for, since `allocBlocks(1)` refuses the last free frame; nothing in the
repository calls `allocBlocks`. The invariant `RInv` adds `OwnedWereFree`: what is
owned was free in `boot`. If `allocBlock` refuses because the counter says nothing is
left, then as many frames are owned as were free (`CounterLeft`, modulo 2^32), and so
all of them (`RefusedOnlyWhenOut`).

`ImplementsOnItsMaps` replaces the hypothesis about runs by one about the maps the
loader hands over, `MapsSuffice`: the available records hold, in whole blocks, at least
the blocks that are searched, and at most 2^32. `CountInv` follows the counter
through the constructor, record by record: it is `maxBlocks` less the blocks
of the records read (`counted`), modulo 2^32. At the end it goes up by the kernel's
4 MB, all of it, while some of that was never free, such as the hole below 1 MB; but
the same blocks are missing at the end of the bitmap, since `mem_lower` and `mem_upper`
leave the hole out as well, so that what is left covers the free bits. On a PC with
639 KB below and whole blocks above 1 MB the condition holds, and records found behind
the table only add to it. TLC evaluates it on the maps of `MCPMM`, `MCVMM` and `MCHeap`.

**VMM** (and `TablesAssumption`). `VInv` says how far the constructors are (`Early`),
that the loop asks for pages of its callers (`Asking`), and `Owned`: what a page or
directory entry holds is a frame the PMM handed out (or frame 0), and each such
frame has exactly one of three uses. `FramesHaveOneUse` alone is not inductive: a
stale entry of a new table could be the frame obtained next. It is not, because only
entered pages count as a use, and those keep their entries (`Keeps`). `ExactMap`
makes a frame just taken differ from all that are in use, and that the kernel's
frames are never free keeps `DirFrame` and frame 0 apart from both. `AllocStep` is
the one lemma about `allocPage`, for any page; it also yields `MappingsAreStable`.

`ReturnedIsMapped` says that only a lack of frames leaves a returned page unmapped,
and needs `CountsEnough` as `ImplementsAllocator` does: `allocBlock` also refuses by its
counter, whatever is free. `OutOnly` is its inductive form: a page returned and not
present has met an answer of 0, and since nothing gives frames back after that,
all are still out (`ZeroIsNone`). `Counted` carries through the VMM's steps what the
counter says of the frames that are out.

**Heap** (and `HeapAssumption`, `ClassesAssumption`). `HInv` adds to `VInv`
the equation of the offset with the number of pages got, and, until the offset has
gone around, `Sound`: free, allocated and lost frames are pairwise apart and inside
the memory got, a free one is a whole number of blocks of its class, an allocated
one a single block. Without the whole number the last carve could hand out a frame
shorter than a block. `AllHeld` and `AllKnown` tie the lists to what callers hold;
together they say which frame a block is, so that `free`, which searches all
classes for an address, can only find the block it was given (`FreeSound`), or, given
an address by somebody else, the block of the caller it starts. `StolenKnown` follows
the blocks freed under their holders: each is still one SlabFrame of its class, free,
allocated or lost, so only a block that is the same one can meet it.
`ClassesAssumption` states what is used of powers of two, that classes grow and
divide a page: this follows from the definition of `AllocSize` by an
induction the provers cannot do, and TLC evaluates it.

`Tallied` says that the counter of list nodes is the number of frames that are free,
allocated or lost, as a set; since no frame is in two places, and `framesIn` adds up
the lists class by class (`EveryClass`), that is the sum `NoFrameIsForgotten`
states. The bound beside it is a count as well: the frames are apart and no
shorter than the smallest block, so each begins in a place of its own (`FramesFit`).
`LiveIsBacked` adds `Requested`, that every page below the top was asked of the VMM,
to `ReturnedIsMapped`, and has its hypothesis.

**Console**. `CInv` has the types, that no line has a NUL but one recalled
after the history was written past its end (`LinesArePlain`), where the row may be
and the column may be off the screen (`RowInv`, `ColumnInv`), the buffer's size, and
`ShownInv`: in a regular run the cells from prompt to cursor hold the line. `MainInv`
says where `kernel_main` is: as long as no key has come its registers agree with memory,
and the statements left of the `putchar` or the line feed it is in (`Finish`) end in a
clean screen, with the prompt on it as far as it is printed (`PromptSoFar`).
One step of a key is a whole handler, and a handler is loops over characters: printing is a
recursive function of the turns, so what it leaves on the screen is proved for each
turn in order (`EveryTurn`, by the least turn at which it would fail; the screen may
scroll at any of them, and moves the prompt along). Erasing a line that came over
several rows is the same argument backwards. It is true for every size of the
screen, every line and every history, since no bound of the instance is used.

**FAT12** (and `FATAssumption`, `DisksAssumption`). The properties speak of files
between writes; `FInv` says what is true in the middle of one. The clusters of the
write in hand ascend, the entries of those linked so far hold the next one and the
others nothing (`Linking`), the data of those written is there (`Filling`), and no
complete file has any of them (`Alone`). That they ascend makes them a chain with
no cycle, and an entry linked never one of the clusters still to come. A complete file
is `Intact`: its chain, followed from the directory, has the length and the data
written, and ends with the mark. `Kept`, while no write was cut short, says that a
cluster taken is a file's or the write's; `ReadingFile` that a read has the chunks
before the cluster it is at.
The loops are recursive functions of their turns: `TakenAreFree` says of each turn
of `findSectors` that the list ascends and its entries are zero, `LinkDoes` that
or'ing the nibbles of a value into a zero entry stores it and leaves every other
entry, neighbours in the same byte included, and `LinkKeepsChains` that linking a
cluster that was free changes no chain of clusters that are taken. All of it holds of
the first sector's whole entries, which is why the three properties are about writes
that stay there; what goes wrong behind them, where entries are numbered from 0 again
and cross sectors, is part of the model but of no promise.

**IDE**. `IInv` says what the drive holds in each of its states
(`Shape`), where the driver is in its call (`Place`), how much of a
sector a read has fetched (`Reading`), that a prompt drive waits for words only
while the driver sends them, and never has some left between calls (`InStep`), and
what is known of the outcome over a trusted drive (`Outcome`). `ImplementsDisk` maps
each step to one of `Disk` or a stutter: the drive's end of a command is the step at
which the sector changes.

**Interrupts**. `IrqInv` adds to the properties what has been constructed at
each step of `kernel_main`, that the controller holds a byte exactly as long as its
interrupt is latched or its handler has not begun to read (`Signalled`: this is
what makes "end of interrupt before the handler" harmless), and that keys that are
not early come when everything stands.

**YString** (and `StringAssumption`: there is a class for every request). `SInv` says of
every string that its size is within its capacity and that no buffer means no
capacity (`Sane`, always), and, until the first harm, that the text is inside of the
frame and, without `append(String)`, the whole capacity too (`Good`). A call copies,
terminates and grows in an order that differs from function to function; `Effect` says
once what any call comes to for the strings it is made on, one lemma per call shows
it, and the four theorems follow from it. For `TextsImplemented`, what `c_str` gives
is the bytes up to the first NUL in memory: on a string whose text is followed by a
NUL (`Sealed`) those are its text, as letters are not NUL.

**Only model-checked.** Liveness: `ReadingEnds`, `CommandsEnd`, `KeysAreHandled` and
`ClockGoesOn` are out of the prover's reach and stay with TLC.

## 5. Not modelled

- `FAT12::list` and `openSubDir`: the first changes nothing on the disk, the
  second has no caller.
- The VFS's table of drives: names with a drive letter. The letter is not
  checked, and entries never registered are not initialized.
- The clock's registers, which a handler may read while they change, and `ticks` and
  `seconds`: numbers that are only printed or stamped on files. `PIT::sleep` has no
  caller.
- `Vector`'s buffers. It is a sequence wherever it is used; that copies share a
  buffer (it has no copy constructor) is listed as a hazard.
- The buffers file commands never give back: also a hazard without a property, as the
  code promises nothing.
- Exceptions other than that they halt, formatting, logging, tty, gdt, boot
  code, the build.

`PROJECT.json` has the reason for each. Duplicate file names (a write never looks
for an old entry, a read takes the first) and the second FAT, which no write
updates, follow from `FAT12` as it is; no comment of the code says otherwise.

## 6. Plan

Written, in this order: `PMM` with `FrameAllocator`, `VMM`, `Heap`,
`Console`, `FAT12`, `Interrupts`, `PMM_proofs`; then `Disk` and `IDE`, `Texts` and
`YString`, and the theorems about `IDE`, `Interrupts`, `VMM`, `Heap`, `Console`,
`YString` and `FAT12`. What could follow:

1. Extend the model: `FAT12`'s sector writes as calls of `Disk`; an abstract file
   system (files written whole or not at all) that `FAT12` implements as far as it
   does; `Vector` on the heap's frames, as `YString` is.
2. Prove more: of each read in `FAT12`, that the cluster it is at stays one the FAT has
   an entry for; of the runs `allocBlocks` finds, under which sizes they are free.
