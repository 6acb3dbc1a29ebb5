--------------------------------- MODULE VMM ---------------------------------
(***************************************************************************)
(* The virtual memory manager, kernel/vmm.cpp: page tables filled on       *)
(* demand with frames of the PMM.  It sits on the PMM: every frame it gets *)
(* is one allocBlock answered with, and it never gives one back.           *)
(*                                                                         *)
(* A page is named by its number (its address >> 12); an entry of a table  *)
(* by the frame it maps, or NotPresent.  The state the handlers thread     *)
(* through is a record [pmm, dir, tables, mapped].                         *)
(***************************************************************************)
EXTENDS PMM

CONSTANTS
  Dirs,         \* the entries of the page directory; the last one is recursive
  Entries,      \* the entries of a page table
  DirFrame,     \* the frame of BootPageDirectory, inside the kernel's area
  Junk,         \* what the memory of a new page table may hold
  ClientPages   \* the pages callers ask for

NotPresent == -1

Entry == Nat \cup {NotPresent}
Table == [0 .. Entries-1 -> Entry]

ASSUME TablesAssumption ==
  /\ Dirs \in Nat \ {0, 1} /\ Entries \in Nat \ {0}
  /\ DirFrame \in KernelFrames
  /\ Junk \subseteq Table
  /\ \A p \in ClientPages : p \in Nat /\ p \div Entries < Dirs - 1

VARIABLES
  up,           \* has the constructor run?
  pageDirectory,
  pageTables,   \* the table behind each present directory entry
  next,         \* allocPages' loop: the page its next turn asks for
  left,         \* and how many turns are left
  returned,     \* the pages allocPage returned the address of
  mapped,       \* those of them mapPage entered into a table itself
  dropped       \* the frames allocPage obtained and mapPage did not map

pagingVars == <<pageDirectory, pageTables>>
loopVars   == <<next, left>>
ghostVars  == <<returned, mapped, dropped>>
vmmVars    == <<up, pagingVars, loopVars, ghostVars>>

RecursiveDir == Dirs - 1

DirIndex(page) == page \div Entries       \* PAGE_DIRECTORY_INDEX
TableIndex(page) == page % Entries        \* PAGE_TABLE_INDEX

\* memset(table, 0, sizeof(table)) clears as many bytes as a pointer has: one entry.
cleared(junk) == [junk EXCEPT ![0] = NotPresent]

enter_Overwrite(v, frame, page) ==
  [v EXCEPT !.tables[DirIndex(page)][TableIndex(page)] = frame, !.mapped = @ \cup {page}]

\* An entry already in use is left as it is.
enter(v, frame, page) ==
  IF v.tables[DirIndex(page)][TableIndex(page)] # NotPresent
  THEN v
  ELSE [v EXCEPT !.tables[DirIndex(page)][TableIndex(page)] = frame, !.mapped = @ \cup {page}]

\* A block t becomes the table behind directory entry d.
makeTable(v, t, d, junk) ==
  [v EXCEPT !.pmm = t.pmm, !.dir[d] = FrameOf(t.addr), !.tables[d] = cleared(junk)]

mapPage_NoTableCheck(v, frame, page, junk) ==
  LET d == DirIndex(page)
      t == allocBlock(v.pmm)
  IN  IF v.dir[d] # NotPresent
      THEN enter(v, frame, page)
      ELSE enter(makeTable(v, t, d, junk), frame, page)

mapPage_TableOnly(v, frame, page, junk) ==
  LET d == DirIndex(page)
      t == allocBlock(v.pmm)
  IN  CASE v.dir[d] # NotPresent -> enter(v, frame, page)
        [] v.dir[d] = NotPresent /\ t.addr = 0 -> v
        [] OTHER -> makeTable(v, t, d, junk)

\* A missing table is made first; without memory for it nothing is mapped.
mapPage(v, frame, page, junk) ==
  LET d == DirIndex(page)
      t == allocBlock(v.pmm)
  IN  CASE v.dir[d] # NotPresent -> enter(v, frame, page)
        [] v.dir[d] = NotPresent /\ t.addr = 0 -> v
        [] OTHER -> enter(makeTable(v, t, d, junk), frame, page)

\* The frame is mapped without a look at whether there was one: without memory
\* it is frame 0.
allocPage(v, page, junk) ==
  LET block == allocBlock(v.pmm)
  IN  mapPage([v EXCEPT !.pmm = block.pmm], FrameOf(block.addr), page, junk)

-----------------------------------------------------------------------------
paging == [pmm |-> pmm, dir |-> pageDirectory, tables |-> pageTables, mapped |-> mapped]

entryOf(v, page) ==
  IF v.dir[DirIndex(page)] = NotPresent THEN NotPresent
  ELSE v.tables[DirIndex(page)][TableIndex(page)]

\* The frames the record v puts to use: its tables and its pages.
used(v) == {v.dir[d] : d \in 0 .. Dirs-1} \cup {entryOf(v, p) : p \in v.mapped}

\* A call that left the record v, having returned the address of page.
Becomes(v, page) ==
  LET taken == v.pmm.map \ pmm.map
  IN  /\ pmm' = v.pmm /\ pageDirectory' = v.dir /\ pageTables' = v.tables
      /\ held' = held \cup taken
      /\ returned' = returned \cup {page}
      /\ mapped' = v.mapped
      /\ dropped' = dropped \cup (taken \ used(v))
      /\ UNCHANGED <<mbt, record, built, boot, unfree, asked, answer, up>>

VMMInit ==
  /\ Init
  /\ up = FALSE
  /\ pageDirectory = [d \in 0 .. Dirs-1 |-> NotPresent]
  /\ pageTables = [d \in 0 .. Dirs-1 |-> [i \in 0 .. Entries-1 |-> NotPresent]]
  /\ next = 0 /\ left = 0
  /\ returned = {} /\ mapped = {} /\ dropped = {}

ConstructVMM_First ==
  /\ built /\ ~up
  /\ up' = TRUE
  /\ pageDirectory' = [pageDirectory EXCEPT ![0] = DirFrame]
  /\ UNCHANGED <<vars, pageTables, loopVars, ghostVars>>

\* The directory becomes its own last table.
ConstructVMM ==
  /\ built /\ ~up
  /\ up' = TRUE
  /\ pageDirectory' = [pageDirectory EXCEPT ![RecursiveDir] = DirFrame]
  /\ UNCHANGED <<vars, pageTables, loopVars, ghostVars>>

Boot == (Construct /\ UNCHANGED vmmVars) \/ ConstructVMM

AllocPage ==
  /\ up /\ left = 0
  /\ \E page \in ClientPages, junk \in Junk :
       Becomes(allocPage(paging, page, junk), page)
  /\ UNCHANGED loopVars

AllocPages ==
  /\ up /\ left = 0
  /\ \E page \in ClientPages, pages \in RunSizes :
       /\ page .. page + pages - 1 \subseteq ClientPages
       /\ next' = page /\ left' = pages
  /\ UNCHANGED <<vars, up, pagingVars, ghostVars>>

\* One turn of allocPages' loop.
AllocNextPage ==
  /\ left > 0
  /\ \E junk \in Junk : Becomes(allocPage(paging, next, junk), next)
  /\ next' = next + 1 /\ left' = left - 1

VMMNext == Boot \/ AllocPage \/ AllocPages \/ AllocNextPage

VMMSpec == VMMInit /\ [][VMMNext]_<<vars, vmmVars>>

-----------------------------------------------------------------------------
TableFrames == {pageDirectory[d] : d \in 0 .. RecursiveDir-1} \ {NotPresent}
PagesOf(frame) == {p \in mapped : entryOf(paging, p) = frame}
DirsOf(frame)  == {d \in 0 .. RecursiveDir-1 : pageDirectory[d] = frame}

VMMTypeOK ==
  /\ TypeOK
  /\ up \in BOOLEAN
  /\ pageDirectory \in [0 .. Dirs-1 -> Entry]
  /\ pageTables \in [0 .. Dirs-1 -> Table]
  /\ up => pageDirectory[RecursiveDir] = DirFrame
  /\ next \in Nat /\ left \in Nat
  /\ mapped \subseteq returned
  /\ dropped \subseteq held

\* Every frame the PMM handed out has exactly one use: one page table, or one
\* page, or it was dropped because its page could not be entered.  So no two
\* pages and no page and table share a frame; only frame 0, which stands in for
\* a block that could not be had, may be mapped at several pages.
FramesHaveOneUse ==
  /\ \A f \in held :
       Cardinality(PagesOf(f)) + Cardinality(DirsOf(f)) + (IF f \in dropped THEN 1 ELSE 0) = 1
  /\ \A p \in mapped : entryOf(paging, p) \in held \cup {0}
  /\ TableFrames \subseteq held

\* allocPage returns its address whatever happened; the page is not present
\* only if memory ran out.
ReturnedIsMapped ==
  \A p \in returned : entryOf(paging, p) = NotPresent => Free(pmm) = {}

\* A page that has been mapped keeps its frame: nothing maps over it, and making
\* a table never replaces one.
MappingsAreStable ==
  [][\A p \in mapped : entryOf(paging, p)' = entryOf(paging, p)]_<<vars, vmmVars>>

\* "clear the table" (mapPage): the only present pages are those mapPage entered.
NewTablesAreClear ==
  \A p \in ClientPages : entryOf(paging, p) # NotPresent => p \in mapped
=============================================================================
