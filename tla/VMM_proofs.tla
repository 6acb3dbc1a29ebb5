----------------------------- MODULE VMM_proofs -----------------------------
(***************************************************************************)
(* Theorems about the virtual memory manager: for every memory map, every  *)
(* size of the tables and whatever new tables hold, each frame it takes    *)
(* has one use, and what is mapped stays mapped.                           *)
(***************************************************************************)
EXTENDS VMM, PMM_proofs

Pages == {p \in Nat : DirIndex(p) < RecursiveDir}

\* The records the handlers thread through.
Paging == [pmm : PmmType, dir : [0 .. Dirs-1 -> Entry], tables : [0 .. Dirs-1 -> Table],
           mapped : SUBSET Nat]

\* What is present in v is the same in r.
Keeps(v, r) ==
  /\ \A p \in Pages : entryOf(v, p) # NotPresent => entryOf(r, p) = entryOf(v, p)
  /\ \A d \in 0 .. Dirs-1 : v.dir[d] # NotPresent => r.dir[d] = v.dir[d]

\* The only page r has mapped and v has not may be this one.
Enters(v, r, frame, page) ==
  \/ r.mapped = v.mapped
  \/ /\ r.mapped = v.mapped \cup {page}
     /\ entryOf(v, page) = NotPresent /\ entryOf(r, page) = frame

\* The frame has exactly one use, of the three there are.
OneUse(f) ==
  \/ /\ \E p \in mapped : PagesOf(f) = {p}
     /\ DirsOf(f) = {} /\ f \notin dropped
  \/ /\ \E d \in 0 .. RecursiveDir-1 : DirsOf(f) = {d}
     /\ PagesOf(f) = {} /\ f \notin dropped
  \/ PagesOf(f) = {} /\ DirsOf(f) = {} /\ f \in dropped

\* The constructors run in order, on nothing.
Early ==
  /\ ~built => pmm = boot /\ held = {}
  /\ built => KernelFrames \subseteq boot.map
  /\ up => built
  /\ ~up => mapped = {} /\ held = {} /\ left = 0
            /\ \A d \in 0 .. RecursiveDir-1 : pageDirectory[d] = NotPresent

\* The loop asks for its callers' pages.
Asking == next .. next + left - 1 \subseteq ClientPages

Owned ==
  /\ \A p \in mapped : p \in Pages /\ entryOf(paging, p) \in held \cup {0}
  /\ \A d \in 0 .. RecursiveDir-1 : pageDirectory[d] \in held \cup {NotPresent}
  /\ \A f \in held : OneUse(f)

VInv == VMMTypeOK /\ unfree = {} /\ ExactMap /\ Early /\ Asking /\ Owned

-----------------------------------------------------------------------------
\* Where a page's entry is; no two pages share one.
LEMMA PageSlot ==
  /\ \A p \in Pages : /\ DirIndex(p) \in 0 .. RecursiveDir-1
                      /\ DirIndex(p) \in 0 .. Dirs-1
                      /\ TableIndex(p) \in 0 .. Entries-1
  /\ \A p, q \in Pages : DirIndex(p) = DirIndex(q) /\ TableIndex(p) = TableIndex(q) => p = q
<1>1. Entries \in Nat \ {0} /\ Dirs \in Nat  BY TablesAssumption
<1>2. ASSUME NEW p \in Nat
      PROVE  /\ p \div Entries \in Nat /\ p % Entries \in 0 .. Entries-1
             /\ p = Entries * (p \div Entries) + (p % Entries)
  <2>1. p \div Entries \in 0 .. p  BY <1>1, DivBound
  <2> QED  BY <1>1, <2>1, DivMod
<1>3. \A p \in Pages : p \in Nat /\ p \div Entries < Dirs - 1
  BY DEF Pages, DirIndex, RecursiveDir
<1>4. \A p \in Pages : /\ p \div Entries \in 0 .. Dirs-2 /\ p % Entries \in 0 .. Entries-1
                       /\ p = Entries * (p \div Entries) + (p % Entries)
  BY <1>1, <1>2, <1>3
<1>5. \A p, q \in Pages : p \div Entries = q \div Entries /\ p % Entries = q % Entries => p = q
  BY <1>4, Zenon
<1>6. RecursiveDir - 1 = Dirs - 2 /\ 0 .. Dirs-2 \subseteq 0 .. Dirs-1
  BY <1>1 DEF RecursiveDir
<1> QED
  BY <1>4, <1>5, <1>6 DEF DirIndex, TableIndex

LEMMA ClientsArePages == ClientPages \subseteq Pages
BY TablesAssumption DEF Pages, DirIndex, RecursiveDir

LEMMA EnterResult ==
  ASSUME NEW v \in Paging, NEW frame \in Nat, NEW page \in Pages,
         v.dir[DirIndex(page)] # NotPresent
  PROVE  LET r == enter(v, frame, page)
         IN  /\ r \in Paging /\ r.pmm = v.pmm /\ r.dir = v.dir
             /\ Keeps(v, r) /\ Enters(v, r, frame, page)
             /\ entryOf(r, page) # NotPresent
<1> DEFINE d == DirIndex(page)
           i == TableIndex(page)
           r == enter(v, frame, page)
<1>1. d \in 0 .. Dirs-1 /\ i \in 0 .. Entries-1 /\ page \in Nat
  BY PageSlot DEF Pages
<1>2. CASE v.tables[d][i] # NotPresent
  <2>1. r = v  BY <1>2 DEF enter
  <2>2. entryOf(v, page) # NotPresent  BY <1>2 DEF entryOf
  <2> HIDE DEF r
  <2> QED  BY <2>1, <2>2 DEF Keeps, Enters, r
<1>3. CASE v.tables[d][i] = NotPresent
  <2> DEFINE tables == [v.tables EXCEPT ![d][i] = frame]
  <2>1. r = [v EXCEPT !.tables = tables, !.mapped = v.mapped \cup {page}]
    BY <1>3 DEF enter, Paging
  <2>2. tables \in [0 .. Dirs-1 -> Table]
    BY <1>1 DEF Paging, Table, Entry
  <2>3. \A q \in Pages : tables[DirIndex(q)][TableIndex(q)] =
          IF q = page THEN frame ELSE v.tables[DirIndex(q)][TableIndex(q)]
    BY <1>1, PageSlot DEF Paging, Table
  <2> HIDE DEF tables
  <2>4. /\ r \in Paging /\ r.pmm = v.pmm /\ r.dir = v.dir
        /\ r.tables = tables /\ r.mapped = v.mapped \cup {page}
    BY <1>1, <2>1, <2>2 DEF Paging
  <2>5. \A q \in Pages : entryOf(r, q) = IF q = page THEN frame ELSE entryOf(v, q)
    BY <2>3, <2>4 DEF entryOf
  <2>6. entryOf(v, page) = NotPresent  BY <1>3 DEF entryOf
  <2> HIDE DEF r
  <2>7. Keeps(v, r)  BY <2>4, <2>5, <2>6 DEF Keeps
  <2>8. Enters(v, r, frame, page)  BY <2>4, <2>5, <2>6 DEF Enters
  <2>9. entryOf(r, page) # NotPresent  BY <2>5 DEF NotPresent
  <2> QED  BY <2>4, <2>7, <2>8, <2>9 DEF r
<1> QED  BY <1>2, <1>3

LEMMA MakeTableResult ==
  ASSUME NEW v \in Paging, NEW d \in 0 .. Dirs-1, v.dir[d] = NotPresent,
         NEW junk \in Junk, NEW f \in Free(v.pmm)
  PROVE  LET r == makeTable(v, [addr |-> AddrOf(f), pmm |-> Take(v.pmm, {f}, 1)], d, junk)
         IN  /\ r \in Paging /\ r.pmm = Take(v.pmm, {f}, 1) /\ r.mapped = v.mapped
             /\ r.dir = [v.dir EXCEPT ![d] = f]
             /\ Keeps(v, r)
<1> DEFINE t == [addr |-> AddrOf(f), pmm |-> Take(v.pmm, {f}, 1)]
           r == makeTable(v, t, d, junk)
<1>1. v.pmm \in PmmType /\ f \in Nat  BY FreeAreNaturals DEF Paging
<1>2. t.pmm \in PmmType /\ FrameOf(t.addr) = f
  BY <1>1, TakeGiveType, AddressRoundTrip
<1>3. cleared(junk) \in Table
  BY TablesAssumption DEF cleared, Table, Entry
<1> HIDE DEF t
<1>4. r = [v EXCEPT !.pmm = t.pmm, !.dir = [v.dir EXCEPT ![d] = f],
                    !.tables = [v.tables EXCEPT ![d] = cleared(junk)]]
  BY <1>2 DEF makeTable, Paging
<1>5. [v.dir EXCEPT ![d] = f] \in [0 .. Dirs-1 -> Entry]
  BY <1>1 DEF Paging, Entry
<1>6. [v.tables EXCEPT ![d] = cleared(junk)] \in [0 .. Dirs-1 -> Table]
  BY <1>3 DEF Paging
<1>7. /\ r \in Paging /\ r.pmm = t.pmm /\ r.mapped = v.mapped
      /\ r.dir = [v.dir EXCEPT ![d] = f]
      /\ r.tables = [v.tables EXCEPT ![d] = cleared(junk)]
  BY <1>2, <1>4, <1>5, <1>6 DEF Paging
<1> HIDE DEF r
<1>8. \A e \in 0 .. Dirs-1 : e # d => r.dir[e] = v.dir[e] /\ r.tables[e] = v.tables[e]
  BY <1>7 DEF Paging
<1>9. Keeps(v, r)
  BY <1>8, PageSlot DEF Keeps, entryOf
<1> QED  BY <1>7, <1>9 DEF r, t

\* mapPage keeps what is there; it takes a frame only for a table that is
\* missing, and enters no page but this.
MapPageDoes(v, r, frame, page) ==
  /\ r \in Paging
  /\ Keeps(v, r) /\ Enters(v, r, frame, page)
  /\ \/ r.pmm = v.pmm /\ r.dir = v.dir
     \/ \E f \in Free(v.pmm) :
          /\ r.pmm = Take(v.pmm, {f}, 1)
          /\ v.dir[DirIndex(page)] = NotPresent
          /\ r.dir = [v.dir EXCEPT ![DirIndex(page)] = f]

LEMMA MapPageResult ==
  ASSUME NEW v \in Paging, 0 \notin Free(v.pmm),
         NEW frame \in Nat, NEW page \in Pages, NEW junk \in Junk
  PROVE  MapPageDoes(v, mapPage(v, frame, page, junk), frame, page)
<1> DEFINE d == DirIndex(page)
           t == allocBlock(v.pmm)
           r == mapPage(v, frame, page, junk)
<1>0. d \in 0 .. Dirs-1 /\ v.pmm \in PmmType  BY PageSlot DEF Paging
<1>1. CASE v.dir[d] # NotPresent
  <2>1. r = enter(v, frame, page)  BY <1>1 DEF mapPage
  <2>2. /\ r \in Paging /\ r.pmm = v.pmm /\ r.dir = v.dir
        /\ Keeps(v, r) /\ Enters(v, r, frame, page)
    BY <1>1, <2>1, EnterResult
  <2> QED  BY <2>2 DEF MapPageDoes
<1>2. CASE v.dir[d] = NotPresent /\ t = Refused(v.pmm)
  <2>1. r = v  BY <1>2 DEF mapPage, Refused
  <2> QED  BY <2>1 DEF MapPageDoes, Keeps, Enters
<1>3. ASSUME v.dir[d] = NotPresent, NEW f \in Free(v.pmm),
             t = [addr |-> AddrOf(f), pmm |-> Take(v.pmm, {f}, 1)]
      PROVE  MapPageDoes(v, r, frame, page)
  <2> DEFINE w == makeTable(v, [addr |-> AddrOf(f), pmm |-> Take(v.pmm, {f}, 1)], d, junk)
  <2>1. f \in Nat /\ f # 0 /\ t.addr # 0
    BY <1>0, <1>3, FreeAreNaturals, AddressRoundTrip
  <2>2. r = enter(w, frame, page)  BY <1>3, <2>1 DEF mapPage
  <2>3. /\ w \in Paging /\ w.pmm = Take(v.pmm, {f}, 1) /\ w.mapped = v.mapped
        /\ w.dir = [v.dir EXCEPT ![d] = f] /\ Keeps(v, w)
    <3> HIDE DEF d
    <3> QED  BY <1>0, <1>3, MakeTableResult
  <2> HIDE DEF w
  <2>4. w.dir[DirIndex(page)] # NotPresent
    <3>1. v.dir \in [0 .. Dirs-1 -> Entry]  BY DEF Paging
    <3>2. w.dir[d] = f  BY <1>0, <2>3, <3>1
    <3> QED  BY <2>1, <3>2 DEF NotPresent
  <2> HIDE DEF r
  <2>5. /\ r \in Paging /\ r.pmm = w.pmm /\ r.dir = w.dir
        /\ Keeps(w, r) /\ Enters(w, r, frame, page)
    <3>1. w \in Paging /\ page \in Pages /\ frame \in Nat  BY <2>3
    <3> QED  BY <2>2, <2>4, <3>1, EnterResult
  <2>6. Keeps(v, r)  BY <2>3, <2>5 DEF Keeps
  <2>7. entryOf(v, page) = NotPresent  BY <1>3 DEF entryOf
  <2>8. Enters(v, r, frame, page)  BY <2>3, <2>5, <2>7 DEF Enters
  <2> QED  BY <1>3, <2>3, <2>5, <2>6, <2>8 DEF MapPageDoes
<1>4. \/ t = Refused(v.pmm)
      \/ \E f \in Free(v.pmm) : t = [addr |-> AddrOf(f), pmm |-> Take(v.pmm, {f}, 1)]
  BY <1>0, AllocBlockAnswer
<1> HIDE DEF t
<1> QED  BY <1>1, <1>2, <1>3, <1>4

\* allocPage takes a free frame for the page, or none, and one for a missing
\* table, or none.
Obtains(v, r, frame, page, B, T) ==
  /\ r \in Paging
  /\ Keeps(v, r) /\ Enters(v, r, frame, page)
  /\ B \subseteq Free(v.pmm) /\ T \subseteq Free(v.pmm) /\ B \cap T = {}
  /\ B = {frame} \/ (B = {} /\ frame = 0)
  /\ r.pmm.map = v.pmm.map \cup B \cup T
  /\ \/ T = {} /\ r.dir = v.dir
     \/ \E f \in T : /\ T = {f}
                     /\ v.dir[DirIndex(page)] = NotPresent
                     /\ r.dir = [v.dir EXCEPT ![DirIndex(page)] = f]

LEMMA AllocPageResult ==
  ASSUME NEW v \in Paging, 0 \notin Free(v.pmm), NEW page \in Pages, NEW junk \in Junk
  PROVE  \E B, T \in SUBSET Nat, frame \in Nat :
           Obtains(v, allocPage(v, page, junk), frame, page, B, T)
<1> DEFINE block == allocBlock(v.pmm)
           r == allocPage(v, page, junk)
<1>0. v.pmm \in PmmType /\ Free(v.pmm) \subseteq Nat /\ 0 \in Nat
  BY FreeAreNaturals DEF Paging
\* The block obtained, B at most, leaves the record u.
<1>1. ASSUME NEW p \in PmmType, NEW B \in SUBSET Free(v.pmm), NEW frame \in Nat,
             block.pmm = p, FrameOf(block.addr) = frame,
             B = {frame} \/ (B = {} /\ frame = 0),
             p.map = v.pmm.map \cup B, p.max = v.pmm.max
      PROVE  \E T \in SUBSET Nat : Obtains(v, r, frame, page, B, T)
  <2> DEFINE u == [v EXCEPT !.pmm = p]
  <2>1. /\ u \in Paging /\ u.pmm = p /\ u.dir = v.dir /\ u.tables = v.tables
        /\ u.mapped = v.mapped
    BY <1>1 DEF Paging
  <2>2. \A q \in Pages : entryOf(u, q) = entryOf(v, q)  BY <2>1 DEF entryOf
  <2>3. Free(p) = Free(v.pmm) \ B  BY <1>1 DEF Free, Searched
  <2>4. r = mapPage(u, frame, page, junk)  BY <1>1 DEF allocPage
  <2> HIDE DEF u
  <2>5. 0 \notin Free(u.pmm)  BY <2>1, <2>3
  <2>6. /\ r \in Paging
        /\ Keeps(u, r) /\ Enters(u, r, frame, page)
        /\ \/ r.pmm = p /\ r.dir = v.dir
           \/ \E f \in Free(p) :
                /\ r.pmm = Take(p, {f}, 1)
                /\ v.dir[DirIndex(page)] = NotPresent
                /\ r.dir = [v.dir EXCEPT ![DirIndex(page)] = f]
    <3> HIDE DEF r
    <3>1. u \in Paging /\ frame \in Nat /\ page \in Pages /\ junk \in Junk  BY <2>1
    <3>2. /\ r \in Paging
          /\ Keeps(u, r) /\ Enters(u, r, frame, page)
          /\ \/ r.pmm = u.pmm /\ r.dir = u.dir
             \/ \E f \in Free(u.pmm) :
                  /\ r.pmm = Take(u.pmm, {f}, 1)
                  /\ u.dir[DirIndex(page)] = NotPresent
                  /\ r.dir = [u.dir EXCEPT ![DirIndex(page)] = f]
      <4>1. MapPageDoes(u, mapPage(u, frame, page, junk), frame, page)
        BY <2>5, <3>1, MapPageResult
      <4> QED  BY <2>4, <4>1 DEF MapPageDoes
    <3> QED  BY <2>1, <3>2
  <2> HIDE DEF r
  <2>7. Keeps(v, r) /\ Enters(v, r, frame, page)
    BY <2>1, <2>2, <2>6 DEF Keeps, Enters
  <2>8. CASE r.pmm = p /\ r.dir = v.dir
    <3>1. Obtains(v, r, frame, page, B, {})
      BY <1>1, <2>6, <2>7, <2>8 DEF Obtains
    <3> QED  BY <3>1
  <2>9. ASSUME NEW f \in Free(p), r.pmm = Take(p, {f}, 1),
               v.dir[DirIndex(page)] = NotPresent,
               r.dir = [v.dir EXCEPT ![DirIndex(page)] = f]
        PROVE  \E T \in SUBSET Nat : Obtains(v, r, frame, page, B, T)
    <3>1. r.pmm.map = p.map \cup {f}  BY <2>9 DEF Take, PmmType
    <3>2. {f} \subseteq Free(v.pmm) /\ B \cap {f} = {} /\ {f} \in SUBSET Nat
      BY <1>0, <2>3
    <3>3. Obtains(v, r, frame, page, B, {f})
      BY <1>1, <2>6, <2>7, <2>9, <3>1, <3>2 DEF Obtains
    <3> QED  BY <3>2, <3>3
  <2> QED  BY <2>6, <2>8, <2>9
<1>2. CASE block = Refused(v.pmm)
  <2>1. FrameOf(block.addr) = 0 /\ block.pmm = v.pmm
    BY <1>2, SizesAssumption DEF Refused, FrameOf
  <2>2. \E T \in SUBSET Nat : Obtains(v, r, 0, page, {}, T)
    BY <1>0, <1>1, <2>1
  <2> HIDE DEF r
  <2> QED  BY <2>2 DEF r
<1>3. ASSUME NEW f \in Free(v.pmm), block = [addr |-> AddrOf(f), pmm |-> Take(v.pmm, {f}, 1)]
      PROVE  \E B, T \in SUBSET Nat, frame \in Nat : Obtains(v, r, frame, page, B, T)
  <2>1. f \in Nat /\ FrameOf(AddrOf(f)) = f  BY <1>0, AddressRoundTrip
  <2> DEFINE p == Take(v.pmm, {f}, 1)
  <2>2. p \in PmmType  BY <1>0, <2>1, TakeGiveType
  <2>3. p.map = v.pmm.map \cup {f} /\ p.max = v.pmm.max
    BY <1>0 DEF Take, PmmType
  <2>4. block.pmm = p /\ FrameOf(block.addr) = f  BY <1>3, <2>1
  <2> HIDE DEF p, block, r
  <2>5. \E T \in SUBSET Nat : Obtains(v, r, f, page, {f}, T)
    BY <1>1, <2>1, <2>2, <2>3, <2>4
  <2> QED  BY <2>1, <2>5
<1> HIDE DEF block
<1> QED  BY <1>0, <1>2, <1>3, AllocBlockAnswer DEF block

\* A page that is not present after a call that asked for it found no memory, and
\* left none; one frame at a time, the counter stays in step with the bitmap.
Answers(v, r, page) ==
  /\ Balanced(r.pmm) /\ Free(r.pmm) \subseteq Free(v.pmm)
  /\ CountsEnough /\ entryOf(r, page) = NotPresent => Free(r.pmm) = {}

\* A page that gets frame 0 got it in place of a block that could not be had.
ZeroIsNone(v, r) ==
  \A p \in r.mapped \ v.mapped : CountsEnough /\ entryOf(r, p) = 0 => Free(r.pmm) = {}

LEMMA MapPageAnswers ==
  ASSUME NEW v \in Paging, boot \in PmmType, Balanced(v.pmm), 0 \notin Free(v.pmm),
         NEW frame \in Nat, NEW page \in Pages, NEW junk \in Junk
  PROVE  Answers(v, mapPage(v, frame, page, junk), page)
<1> DEFINE d == DirIndex(page)
           t == allocBlock(v.pmm)
           r == mapPage(v, frame, page, junk)
<1>0. d \in 0 .. Dirs-1 /\ v.pmm \in PmmType  BY PageSlot DEF Paging
<1>1. CASE v.dir[d] # NotPresent
  <2>1. r = enter(v, frame, page)  BY <1>1 DEF mapPage
  <2>2. r.pmm = v.pmm /\ entryOf(r, page) # NotPresent
    BY <1>1, <2>1, EnterResult
  <2> HIDE DEF r
  <2> QED  BY <2>2 DEF Answers, r
<1>2. CASE v.dir[d] = NotPresent /\ t = Refused(v.pmm)
  <2>1. r = v  BY <1>2 DEF mapPage, Refused
  <2>2. CountsEnough => Free(v.pmm) = {}  BY <1>2, BalancedRefusal
  <2> HIDE DEF r
  <2> QED  BY <2>1, <2>2 DEF Answers, r
<1>3. ASSUME v.dir[d] = NotPresent, NEW f \in Free(v.pmm),
             t = [addr |-> AddrOf(f), pmm |-> Take(v.pmm, {f}, 1)]
      PROVE  Answers(v, r, page)
  <2> DEFINE w == makeTable(v, [addr |-> AddrOf(f), pmm |-> Take(v.pmm, {f}, 1)], d, junk)
  <2>1. f \in Nat /\ f # 0 /\ t.addr # 0
    BY <1>0, <1>3, FreeAreNaturals, AddressRoundTrip
  <2>2. r = enter(w, frame, page)  BY <1>3, <2>1 DEF mapPage
  <2>3. /\ w \in Paging /\ w.pmm = Take(v.pmm, {f}, 1) /\ w.mapped = v.mapped
        /\ w.dir = [v.dir EXCEPT ![d] = f] /\ Keeps(v, w)
    <3> HIDE DEF d
    <3> QED  BY <1>0, <1>3, MakeTableResult
  <2> HIDE DEF w
  <2>4. w.dir[DirIndex(page)] # NotPresent
    <3>1. v.dir \in [0 .. Dirs-1 -> Entry]  BY DEF Paging
    <3>2. w.dir[d] = f  BY <1>0, <2>3, <3>1
    <3> QED  BY <2>1, <3>2 DEF NotPresent
  <2> HIDE DEF r
  <2>5. r.pmm = w.pmm /\ entryOf(r, page) # NotPresent
    <3>1. w \in Paging /\ page \in Pages /\ frame \in Nat  BY <2>3
    <3> QED  BY <2>2, <2>4, <3>1, EnterResult
  <2>6. Balanced(w.pmm) /\ Free(w.pmm) \subseteq Free(v.pmm)
    BY <1>3, <2>3, BalancedTake
  <2> QED  BY <2>5, <2>6 DEF Answers
<1>4. \/ t = Refused(v.pmm)
      \/ \E f \in Free(v.pmm) : t = [addr |-> AddrOf(f), pmm |-> Take(v.pmm, {f}, 1)]
  BY <1>0, AllocBlockAnswer
<1> HIDE DEF t
<1> QED  BY <1>1, <1>2, <1>3, <1>4

LEMMA AllocPageAnswers ==
  ASSUME NEW v \in Paging, boot \in PmmType, Balanced(v.pmm), 0 \notin Free(v.pmm),
         NEW page \in Pages, NEW junk \in Junk
  PROVE  /\ Answers(v, allocPage(v, page, junk), page)
         /\ ZeroIsNone(v, allocPage(v, page, junk))
<1> DEFINE block == allocBlock(v.pmm)
           r == allocPage(v, page, junk)
           u == [v EXCEPT !.pmm = block.pmm]
           frame == FrameOf(block.addr)
<1>0. v.pmm \in PmmType /\ Free(v.pmm) \subseteq Nat
  BY FreeAreNaturals DEF Paging
<1>1. r = mapPage(u, frame, page, junk)  BY DEF allocPage
<1>2. /\ block.pmm \in PmmType /\ frame \in Nat
      /\ Balanced(block.pmm) /\ Free(block.pmm) \subseteq Free(v.pmm)
      /\ CountsEnough /\ frame = 0 => Free(v.pmm) = {}
  <2>1. CASE block = Refused(v.pmm)
    <3>1. block.pmm = v.pmm /\ frame = 0
      BY <2>1, SizesAssumption DEF Refused, FrameOf
    <3>2. CountsEnough => Free(v.pmm) = {}  BY <2>1, BalancedRefusal
    <3> HIDE DEF block, frame
    <3> QED  BY <1>0, <3>1, <3>2
  <2>2. ASSUME NEW f \in Free(v.pmm), block = [addr |-> AddrOf(f), pmm |-> Take(v.pmm, {f}, 1)]
        PROVE  /\ block.pmm \in PmmType /\ frame \in Nat
               /\ Balanced(block.pmm) /\ Free(block.pmm) \subseteq Free(v.pmm)
               /\ CountsEnough /\ frame = 0 => Free(v.pmm) = {}
    <3>1. block.pmm = Take(v.pmm, {f}, 1) /\ frame = f /\ f \in Nat
      BY <1>0, <2>2, AddressRoundTrip
    <3>2. Balanced(Take(v.pmm, {f}, 1)) /\ Free(Take(v.pmm, {f}, 1)) = Free(v.pmm) \ {f}
      BY <2>2, BalancedTake
    <3>3. frame # 0  BY <2>2, <3>1
    <3> HIDE DEF block, frame
    <3> QED  BY <3>1, <3>2, <3>3 DEF Balanced
  <2> QED  BY <1>0, <2>1, <2>2, AllocBlockAnswer
<1> HIDE DEF block, frame
<1>3. u \in Paging /\ u.pmm = block.pmm /\ u.mapped = v.mapped  BY <1>2 DEF Paging
<1> HIDE DEF u, r
<1>4. Answers(u, r, page)
  <2>1. 0 \notin Free(u.pmm) /\ Balanced(u.pmm)  BY <1>2, <1>3
  <2> QED  BY <1>1, <1>2, <1>3, <2>1, MapPageAnswers
<1>5. Answers(v, r, page)  BY <1>2, <1>3, <1>4 DEF Answers
<1>6. ZeroIsNone(v, r)
  <2>1. 0 \notin Free(u.pmm)  BY <1>2, <1>3
  <2>2. Enters(u, r, frame, page)
    BY <1>1, <1>2, <1>3, <2>1, MapPageResult DEF MapPageDoes
  <2>3. \A p \in r.mapped \ v.mapped : entryOf(r, p) = frame
    BY <1>3, <2>2 DEF Enters
  <2> QED  BY <1>2, <1>5, <2>3 DEF Answers, ZeroIsNone
<1> QED  BY <1>5, <1>6 DEF r

-----------------------------------------------------------------------------
LEMMA PagingType ==
  ASSUME VInv
  PROVE  /\ paging \in Paging
         /\ paging.pmm = pmm /\ paging.dir = pageDirectory /\ paging.tables = pageTables
         /\ paging.mapped = mapped
BY DEF VInv, VMMTypeOK, TypeOK, Owned, Pages, Paging, paging

\* No frame of the kernel is free or owned.
LEMMA KernelIsSet ==
  ASSUME VInv, up
  PROVE  /\ 0 \in pmm.map /\ DirFrame \in pmm.map /\ DirFrame \in Nat
         /\ 0 \notin held /\ DirFrame \notin held
<1>1. 0 \in KernelFrames /\ DirFrame \in KernelFrames /\ KernelFrames \subseteq Nat
  BY ZeroIsKernels, TablesAssumption DEF KernelFrames
<1> QED  BY <1>1 DEF VInv, Early, ExactMap

LEMMA VInvInit == VMMInit => VInv
<1> SUFFICES ASSUME VMMInit PROVE VInv
  OBVIOUS
<1> USE TablesAssumption DEF VMMInit
<1>1. TypeOK  BY TypeInit
<1>2. VMMTypeOK
  BY <1>1 DEF VMMTypeOK, Entry, Table
<1>3. RecursiveDir = Dirs - 1 /\ 0 .. RecursiveDir-1 \subseteq 0 .. Dirs-1
  BY DEF RecursiveDir
<1>4. Early /\ Asking /\ Owned /\ ExactMap
  BY <1>3 DEF Init, Early, Asking, Owned, ExactMap
<1> QED  BY <1>2, <1>4 DEF VInv, Init

LEMMA BootStep ==
  ASSUME VInv, Boot
  PROVE  VInv'
<1> USE DEF VInv
<1>1. CASE Construct /\ UNCHANGED vmmVars
  <2>1. TypeOK'
    BY <1>1, TypeStep DEF VMMTypeOK, Next
  <2>2. ~built /\ UNCHANGED callerVars /\ boot' = pmm' /\ (built' = FALSE \/ ReserveKernel)
    BY <1>1 DEF Construct, ReadRecord, ReserveKernel
  <2>3. ~up /\ held = {} /\ unfree = {}  BY <2>2 DEF Early
  <2>4. ReserveKernel => KernelFrames \subseteq boot'.map
    BY ReserveKernelTakes DEF VMMTypeOK
  <2>5. /\ UNCHANGED <<up, pageDirectory, pageTables, next, left, returned, mapped, dropped, held, unfree>>
    BY <1>1, <2>2 DEF vmmVars, pagingVars, loopVars, ghostVars, callerVars
  <2>6. VMMTypeOK'  BY <2>1, <2>5 DEF VMMTypeOK
  <2>7. Early' /\ Asking' /\ ExactMap'
    BY <2>2, <2>3, <2>4, <2>5 DEF Early, Asking, ExactMap
  <2>8. Owned'
    BY <2>3, <2>5 DEF Early, Owned
  <2> QED  BY <2>3, <2>5, <2>6, <2>7, <2>8
<1>2. CASE ConstructVMM
  <2>1. UNCHANGED <<mbt, record, built, pmm, boot, held, unfree, asked, answer, pageTables,
                    next, left, returned, mapped, dropped>>
        /\ built /\ ~up /\ up'
        /\ pageDirectory' = [pageDirectory EXCEPT ![RecursiveDir] = DirFrame]
    BY <1>2 DEF ConstructVMM, vars, managerVars, callerVars, loopVars, ghostVars
  <2>2. RecursiveDir \in 0 .. Dirs-1 /\ RecursiveDir = Dirs-1 /\ DirFrame \in Nat
    BY TablesAssumption DEF RecursiveDir, KernelFrames
  <2>3. VMMTypeOK'
    BY <2>1, <2>2 DEF VMMTypeOK, TypeOK, Entry
  <2>4. held = {} /\ mapped = {}
        /\ \A d \in 0 .. RecursiveDir-1 : pageDirectory'[d] = NotPresent
    BY <2>1, <2>2 DEF Early, VMMTypeOK
  <2>5. Early' /\ Asking' /\ ExactMap'
    BY <2>1 DEF Early, Asking, ExactMap
  <2>6. Owned'
    BY <2>1, <2>4 DEF Owned
  <2> QED  BY <2>1, <2>3, <2>5, <2>6
<1> QED  BY <1>1, <1>2 DEF Boot

\* allocPage keeps the invariant, and the pages that are mapped, whatever page
\* it is asked for.
LEMMA AllocStep ==
  ASSUME VInv, up, NEW page \in Pages, NEW junk \in Junk,
         Becomes(allocPage(paging, page, junk), page),
         next' \in Nat /\ left' \in Nat, Asking'
  PROVE  /\ VInv'
         /\ \A p \in mapped : entryOf(paging, p)' = entryOf(paging, p)
<1> DEFINE r == allocPage(paging, page, junk)
<1>1. /\ paging \in Paging /\ pmm \in PmmType /\ Free(pmm) \subseteq Nat
      /\ Free(pmm) \cap pmm.map = {}
      /\ paging.pmm = pmm /\ paging.dir = pageDirectory /\ paging.mapped = mapped
  BY PagingType, FreeAreNaturals DEF VInv, VMMTypeOK, TypeOK
<1>2. 0 \notin Free(pmm) /\ DirFrame \notin Free(pmm) /\ 0 \notin held /\ DirFrame \in Nat
  BY <1>1, KernelIsSet
<1>3. PICK B \in SUBSET Nat, T \in SUBSET Nat, frame \in Nat :
        Obtains(paging, r, frame, page, B, T)
  BY <1>1, <1>2, AllocPageResult
<1> DEFINE d == DirIndex(page)
<1>4. /\ r \in Paging
      /\ Keeps(paging, r) /\ Enters(paging, r, frame, page)
      /\ B \subseteq Free(pmm) /\ T \subseteq Free(pmm) /\ B \cap T = {}
      /\ B = {frame} \/ (B = {} /\ frame = 0)
      /\ r.pmm.map = pmm.map \cup B \cup T
      /\ \/ T = {} /\ r.dir = pageDirectory
         \/ \E f \in T : /\ T = {f}
                         /\ pageDirectory[d] = NotPresent
                         /\ r.dir = [pageDirectory EXCEPT ![d] = f]
  BY <1>1, <1>3 DEF Obtains
<1> HIDE DEF r
<1>5. r.pmm.map \ pmm.map = B \cup T  BY <1>1, <1>4
<1>6. /\ paging' = r /\ pmm' = r.pmm /\ pageDirectory' = r.dir /\ pageTables' = r.tables
      /\ mapped' = r.mapped
      /\ held' = held \cup B \cup T
      /\ returned' = returned \cup {page}
      /\ dropped' = dropped \cup ((B \cup T) \ used(r))
      /\ UNCHANGED <<mbt, record, built, boot, unfree, asked, answer, up>>
  BY <1>4, <1>5 DEF Becomes, paging, Paging, r
<1>7. \A f \in Free(pmm) : f \notin held /\ f # 0 /\ f # DirFrame /\ f \in Nat /\ f # NotPresent
  BY <1>1, <1>2 DEF VInv, ExactMap, NotPresent
<1>8. /\ RecursiveDir = Dirs - 1 /\ Dirs \in Nat \ {0, 1} /\ RecursiveDir \in 0 .. Dirs-1
      /\ 0 .. RecursiveDir-1 \subseteq 0 .. Dirs-1
      /\ d \in 0 .. RecursiveDir-1
      /\ \A e \in 0 .. Dirs-1 : e \in 0 .. RecursiveDir-1 \/ e = RecursiveDir
      /\ pageDirectory \in [0 .. Dirs-1 -> Entry]
  BY TablesAssumption, PageSlot DEF RecursiveDir, VInv, VMMTypeOK
\* The entries of the directory and of the pages, before and after.
<1>9. \A p \in mapped : /\ p \in Pages
                        /\ entryOf(paging, p) \in held \cup {0}
                        /\ entryOf(paging, p) # NotPresent
                        /\ entryOf(r, p) = entryOf(paging, p)
  <2>1. NotPresent \notin held \cup {0}
    <3>1. held \subseteq Nat  BY DEF VInv, VMMTypeOK, TypeOK
    <3>2. NotPresent \notin Nat /\ 0 \in Nat  BY DEF NotPresent
    <3> QED  BY <3>1, <3>2, Zenon
  <2>2. \A p \in mapped : p \in Pages /\ entryOf(paging, p) \in held \cup {0}
    BY DEF VInv, Owned
  <2>3. \A p \in mapped : entryOf(paging, p) # NotPresent
    BY <2>1, <2>2, Zenon
  <2> QED  BY <1>4, <2>2, <2>3 DEF Keeps
<1>10. \/ mapped' = mapped
       \/ mapped' = mapped \cup {page} /\ page \notin mapped /\ entryOf(r, page) = frame
  BY <1>1, <1>4, <1>6, <1>9 DEF Enters
<1>11. \A e \in 0 .. RecursiveDir-1 : pageDirectory[e] \in held \cup {NotPresent}
  BY DEF VInv, Owned
<1>12. \/ T = {} /\ pageDirectory' = pageDirectory
       \/ \E f \in T : /\ T = {f} /\ pageDirectory[d] = NotPresent
                       /\ pageDirectory' = [pageDirectory EXCEPT ![d] = f]
  BY <1>4, <1>6
<1>13. pageDirectory'[RecursiveDir] = DirFrame
  <2>1. pageDirectory[RecursiveDir] = DirFrame  BY DEF VInv, VMMTypeOK
  <2>2. d # RecursiveDir  BY <1>8
  <2> QED  BY <1>8, <1>12, <2>1, <2>2
<1>14. /\ held \cap B = {} /\ held \cap T = {} /\ 0 \notin B /\ 0 \notin T
       /\ held \subseteq Nat /\ dropped \subseteq held
  BY <1>4, <1>7 DEF VInv, VMMTypeOK, TypeOK
<1>15. used(r) = {pageDirectory'[e] : e \in 0 .. Dirs-1} \cup {entryOf(r, p) : p \in mapped'}
  BY <1>6 DEF used
<1>16. VMMTypeOK'
  <2>1. TypeOK'
    BY <1>4, <1>6, <1>14 DEF VInv, VMMTypeOK, TypeOK, Paging
  <2>2. pageDirectory' \in [0 .. Dirs-1 -> Entry] /\ pageTables' \in [0 .. Dirs-1 -> Table]
    BY <1>4, <1>6 DEF Paging
  <2>3. mapped' \subseteq returned' /\ dropped' \subseteq held'
    BY <1>6, <1>10, <1>14 DEF VInv, VMMTypeOK
  <2>4. up' \in BOOLEAN /\ next' \in Nat /\ left' \in Nat
    BY <1>6
  <2> QED  BY <1>13, <2>1, <2>2, <2>3, <2>4 DEF VMMTypeOK
<1>17. ExactMap' /\ unfree' = {}
  <2>1. pmm.map = boot.map \cup held /\ held \cap boot.map = {} /\ unfree = {}
    BY DEF VInv, ExactMap
  <2>2. (B \cup T) \cap boot.map = {}  BY <1>1, <1>4, <2>1
  <2>3. pmm'.map = boot.map \cup held'  BY <1>4, <1>6, <2>1
  <2>4. held' \cap boot.map = {}  BY <1>6, <2>1, <2>2
  <2> QED  BY <1>6, <2>1, <2>3, <2>4 DEF ExactMap
<1>18. Early'
  BY <1>6 DEF VInv, Early
<1>19. \A p \in mapped' : p \in Pages /\ entryOf(r, p) \in held' \cup {0}
  BY <1>4, <1>6, <1>9, <1>10
<1>20. \A e \in 0 .. RecursiveDir-1 : pageDirectory'[e] \in held' \cup {NotPresent}
  BY <1>6, <1>8, <1>11, <1>12
<1>22. \A f : /\ PagesOf(f) = {p \in mapped : entryOf(paging, p) = f}
              /\ PagesOf(f)' = {p \in mapped' : entryOf(r, p) = f}
              /\ DirsOf(f) = {e \in 0 .. RecursiveDir-1 : pageDirectory[e] = f}
              /\ DirsOf(f)' = {e \in 0 .. RecursiveDir-1 : pageDirectory'[e] = f}
  BY <1>6 DEF PagesOf, DirsOf
\* Frames in use before keep their use.
<1>23. ASSUME NEW f \in held PROVE OneUse(f)'
  <2>1. f \notin B /\ f \notin T /\ f # 0 /\ f # NotPresent /\ f # frame
    BY <1>2, <1>4, <1>14 DEF NotPresent
  <2>2. PagesOf(f)' = PagesOf(f)
    BY <1>9, <1>10, <1>22, <2>1
  <2>3. DirsOf(f)' = DirsOf(f)
    BY <1>8, <1>12, <1>22, <2>1
  <2>4. f \in dropped' <=> f \in dropped  BY <1>6, <2>1
  <2>5. mapped \subseteq mapped'  BY <1>10
  <2>6. OneUse(f)  BY DEF VInv, Owned
  <2> QED  BY <2>2, <2>3, <2>4, <2>5, <2>6 DEF OneUse
\* The frame of a new table.
<1>24. ASSUME NEW f \in T PROVE OneUse(f)'
  <2>1. f \notin held /\ f \notin B /\ f # 0 /\ f # NotPresent /\ f # frame
    BY <1>4, <1>7
  <2>2. PagesOf(f)' = {}
    BY <1>9, <1>10, <1>22, <2>1
  <2>3. DirsOf(f)' = {d}
    BY <1>8, <1>11, <1>12, <1>22, <2>1
  <2>4. f \notin dropped'
    <3>1. f \in used(r)  BY <1>8, <1>12, <1>15
    <3> QED  BY <1>6, <1>14, <2>1, <3>1
  <2> QED  BY <1>8, <2>2, <2>3, <2>4 DEF OneUse
\* The frame for the page.
<1>25. ASSUME NEW f \in B PROVE OneUse(f)'
  <2>1. f = frame /\ f \notin held /\ f \notin T /\ f # 0 /\ f # NotPresent /\ f # DirFrame
    BY <1>4, <1>7
  <2>2. DirsOf(f)' = {}
    BY <1>8, <1>11, <1>12, <1>22, <2>1
  <2>3. \A e \in 0 .. Dirs-1 : pageDirectory'[e] # f
    BY <1>8, <1>13, <1>22, <2>1, <2>2
  <2>4. CASE mapped' = mapped
    <3>1. PagesOf(f)' = {}  BY <1>9, <1>22, <2>1, <2>4
    <3>2. f \in dropped'
      BY <1>6, <1>15, <1>22, <2>3, <3>1
    <3> QED  BY <2>2, <3>1, <3>2 DEF OneUse
  <2>5. CASE mapped' = mapped \cup {page} /\ page \notin mapped /\ entryOf(r, page) = frame
    <3>1. PagesOf(f)' = {page}  BY <1>9, <1>22, <2>1, <2>5
    <3>2. f \notin dropped'
      BY <1>6, <1>14, <1>15, <2>1, <2>5
    <3> QED  BY <2>2, <2>5, <3>1, <3>2 DEF OneUse
  <2> QED  BY <1>10, <2>4, <2>5
<1>26. Owned'
  BY <1>6, <1>19, <1>20, <1>23, <1>24, <1>25 DEF Owned
<1>27. VInv'  BY <1>16, <1>17, <1>18, <1>26 DEF VInv
<1>28. \A p \in mapped : entryOf(paging, p)' = entryOf(paging, p)
  BY <1>6, <1>9 DEF entryOf
<1> QED  BY <1>27, <1>28

\* Every step keeps the invariant, and what is mapped.
LEMMA VInvStep ==
  ASSUME VInv, [VMMNext]_<<vars, vmmVars>>
  PROVE  /\ VInv'
         /\ \A p \in mapped : entryOf(paging, p)' = entryOf(paging, p)
<1>1. CASE Boot
  <2>1. VInv'  BY <1>1, BootStep
  <2>2. ~up
    BY <1>1 DEF Boot, ConstructVMM, Construct, ReadRecord, ReserveKernel, VInv, Early
  <2>3. mapped = {}  BY <2>2 DEF VInv, Early
  <2> QED  BY <2>1, <2>3
<1>2. CASE AllocPage
  <2> PICK page \in ClientPages, junk \in Junk : Becomes(allocPage(paging, page, junk), page)
    BY <1>2 DEF AllocPage
  <2>1. up /\ next' = next /\ left' = left  BY <1>2 DEF AllocPage, loopVars
  <2>2. next' \in Nat /\ left' \in Nat /\ Asking'
    BY <2>1 DEF VInv, VMMTypeOK, Asking
  <2>3. page \in Pages  BY ClientsArePages
  <2> QED  BY <2>1, <2>2, <2>3, AllocStep
<1>3. CASE AllocPages
  <2> PICK page \in ClientPages, pages \in RunSizes :
        /\ page .. page + pages - 1 \subseteq ClientPages
        /\ next' = page /\ left' = pages
    BY <1>3 DEF AllocPages
  <2>1. /\ UNCHANGED <<mbt, record, built, pmm, boot, held, unfree, asked, answer>>
        /\ UNCHANGED <<up, pageDirectory, pageTables, returned, mapped, dropped>>
        /\ up
    BY <1>3 DEF AllocPages, vars, managerVars, callerVars, pagingVars, ghostVars
  <2>2. next' \in Nat /\ left' \in Nat /\ Asking'
    BY SizesAssumption, TablesAssumption DEF Asking
  <2>3. VMMTypeOK' /\ unfree' = {} /\ ExactMap' /\ Early'
    BY <2>1, <2>2 DEF VInv, VMMTypeOK, TypeOK, ExactMap, Early
  <2>4. paging' = paging /\ mapped' = mapped  BY <2>1 DEF paging
  <2>5. Owned'
    BY <2>1, <2>4 DEF VInv, Owned, OneUse, PagesOf, DirsOf, entryOf
  <2> QED  BY <2>2, <2>3, <2>4, <2>5 DEF VInv, entryOf
<1>4. CASE AllocNextPage
  <2> PICK junk \in Junk : Becomes(allocPage(paging, next, junk), next)
    BY <1>4 DEF AllocNextPage
  <2>1. left > 0 /\ next' = next + 1 /\ left' = left - 1 /\ next \in Nat /\ left \in Nat
    BY <1>4 DEF AllocNextPage, VInv, VMMTypeOK
  <2>2. up  BY <2>1 DEF VInv, Early
  <2>3. next \in Pages /\ Asking'
    BY <2>1, ClientsArePages DEF VInv, Asking
  <2>4. next' \in Nat /\ left' \in Nat  BY <2>1
  <2> QED  BY <2>2, <2>3, <2>4, AllocStep
<1>5. CASE UNCHANGED <<vars, vmmVars>>
  <2>1. /\ UNCHANGED <<mbt, record, built, pmm, boot, held, unfree, asked, answer>>
        /\ UNCHANGED <<up, pageDirectory, pageTables, next, left, returned, mapped, dropped>>
    BY <1>5 DEF vars, managerVars, callerVars, vmmVars, pagingVars, loopVars, ghostVars
  <2>2. VMMTypeOK' /\ unfree' = {} /\ ExactMap' /\ Early' /\ Asking'
    BY <2>1 DEF VInv, VMMTypeOK, TypeOK, ExactMap, Early, Asking
  <2>3. paging' = paging /\ mapped' = mapped  BY <2>1 DEF paging
  <2>4. Owned'
    BY <2>1, <2>3 DEF VInv, Owned, OneUse, PagesOf, DirsOf, entryOf
  <2> QED  BY <2>2, <2>3, <2>4 DEF VInv, entryOf
<1> QED  BY <1>1, <1>2, <1>3, <1>4, <1>5 DEF VMMNext

LEMMA VInvAlways == VMMSpec => []VInv
BY VInvInit, VInvStep, PTL DEF VMMSpec

\* The directory and its tables hold frames or nothing, and every page that was
\* mapped was returned (vmm.cpp, allocPage and mapPage).
THEOREM VMMTypeCorrect == VMMSpec => []VMMTypeOK
<1>1. VInv => VMMTypeOK  BY DEF VInv
<1> QED  BY <1>1, VInvAlways, PTL

\* Every frame allocBlock handed to vmm.cpp is one page table, one page, or was
\* dropped; no two uses share a frame, whatever old entries new tables hold.
THEOREM FramesHaveOneUseCorrect == VMMSpec => []FramesHaveOneUse
<1>1. ASSUME VInv PROVE FramesHaveOneUse
  <2>1. ASSUME NEW f \in held
        PROVE  Cardinality(PagesOf(f)) + Cardinality(DirsOf(f))
                 + (IF f \in dropped THEN 1 ELSE 0) = 1
    <3>1. OneUse(f)  BY <1>1 DEF VInv, Owned
    <3>2. Cardinality({}) = 0 /\ \A x : Cardinality({x}) = 1
      BY FS_EmptySet, FS_Singleton
    <3> QED  BY <3>1, <3>2 DEF OneUse
  <2>2. \A p \in mapped : entryOf(paging, p) \in held \cup {0}
    BY <1>1 DEF VInv, Owned
  <2>3. TableFrames \subseteq held
    BY <1>1 DEF VInv, Owned, TableFrames
  <2> QED  BY <2>1, <2>2, <2>3 DEF FramesHaveOneUse
<1> QED  BY <1>1, VInvAlways, PTL

\* A page that is mapped keeps its frame through every call of vmm.cpp.
THEOREM MappingsAreStableCorrect == VMMSpec => MappingsAreStable
<1>1. VInv /\ [VMMNext]_<<vars, vmmVars>> =>
        [\A p \in mapped : entryOf(paging, p)' = entryOf(paging, p)]_<<vars, vmmVars>>
  BY VInvStep
<1> QED  BY <1>1, VInvAlways, PTL DEF VMMSpec, MappingsAreStable
\* The constructor's counts are kept, and a page that was returned is one the
\* loader's directory can name.
Counted ==
  /\ boot \in PmmType
  /\ built => Balanced(pmm)
  /\ ~up => returned = {}
  /\ returned \subseteq Pages

\* Frame 0 stands in for a block only when there is none.
ZeroWhenOut == \A p \in mapped : entryOf(paging, p) = 0 => Free(pmm) = {}

OutOnly == ReturnedIsMapped /\ ZeroWhenOut

LEMMA CountedAnswer ==
  ASSUME VInv, Counted, up, NEW page \in Pages, NEW junk \in Junk,
         Becomes(allocPage(paging, page, junk), page)
  PROVE  /\ Counted'
         /\ CountsEnough /\ OutOnly => OutOnly'
<1> DEFINE r == allocPage(paging, page, junk)
<1>1. /\ paging \in Paging /\ paging.pmm = pmm /\ 0 \notin Free(pmm)
  BY PagingType, KernelIsSet, FreeAreNaturals DEF VInv, VMMTypeOK, TypeOK
<1>2. Answers(paging, r, page) /\ ZeroIsNone(paging, r)
  <2>1. built /\ Balanced(paging.pmm) /\ boot \in PmmType
    BY <1>1 DEF VInv, Early, Counted
  <2> QED  BY <1>1, <2>1, AllocPageAnswers
<1>3. r \in Paging /\ Keeps(paging, r)
  BY <1>1, AllocPageResult DEF Obtains
<1> HIDE DEF r
<1>4. /\ paging' = r /\ pmm' = r.pmm /\ returned' = returned \cup {page}
      /\ mapped' = r.mapped /\ paging.mapped = mapped
      /\ built' = built /\ boot' = boot /\ up' = up
  BY <1>3 DEF Becomes, paging, Paging, r
<1>5. Balanced(pmm)' <=> Balanced(r.pmm)
  BY <1>4 DEF Balanced, Free, Searched
<1>6. Counted'
  BY <1>2, <1>4, <1>5 DEF Answers, Counted
<1>7. ASSUME CountsEnough, ReturnedIsMapped, NEW p \in returned',
             entryOf(paging, p)' = NotPresent
      PROVE  Free(pmm)' = {}
  <2>1. entryOf(r, p) = NotPresent  BY <1>4, <1>7 DEF entryOf
  <2>2. Free(pmm)' = Free(r.pmm)  BY <1>4 DEF Free, Searched
  <2>3. CASE p = page
    BY <1>2, <1>7, <2>1, <2>2, <2>3 DEF Answers
  <2>4. CASE p \in returned
    <3>1. entryOf(paging, p) = NotPresent
      BY <1>3, <2>1, <2>4 DEF Keeps, Counted
    <3>2. Free(pmm) = {}  BY <1>7, <2>4, <3>1 DEF ReturnedIsMapped
    <3> QED  BY <1>1, <1>2, <2>2, <3>2 DEF Answers
  <2> QED  BY <1>4, <2>3, <2>4
<1>8. ASSUME CountsEnough, ZeroWhenOut, NEW p \in mapped', entryOf(paging, p)' = 0
      PROVE  Free(pmm)' = {}
  <2>1. entryOf(r, p) = 0  BY <1>4, <1>8 DEF entryOf
  <2>2. Free(pmm)' = Free(r.pmm)  BY <1>4 DEF Free, Searched
  <2>3. CASE p \notin mapped
    BY <1>2, <1>4, <1>8, <2>1, <2>2, <2>3 DEF ZeroIsNone
  <2>4. CASE p \in mapped
    <3>1. p \in Pages /\ entryOf(paging, p) \in held \cup {0} /\ held \subseteq Nat
      BY <2>4 DEF VInv, Owned, VMMTypeOK, TypeOK
    <3>2. entryOf(paging, p) # NotPresent  BY <3>1 DEF NotPresent
    <3>3. entryOf(paging, p) = 0  BY <1>3, <2>1, <3>1, <3>2 DEF Keeps
    <3>4. Free(pmm) = {}  BY <1>8, <2>4, <3>3 DEF ZeroWhenOut
    <3> QED  BY <1>1, <1>2, <2>2, <3>4 DEF Answers
  <2> QED  BY <2>3, <2>4
<1> QED  BY <1>6, <1>7, <1>8 DEF OutOnly, ReturnedIsMapped, ZeroWhenOut

LEMMA CountedStep ==
  ASSUME VInv, Counted, [VMMNext]_<<vars, vmmVars>>
  PROVE  /\ Counted'
         /\ (built => CountsEnough) /\ OutOnly => OutOnly'
<1>1. CASE Construct /\ UNCHANGED vmmVars
  <2>1. ~built /\ returned' = {} /\ boot' = pmm'
    BY <1>1 DEF Construct, ReadRecord, ReserveKernel, vmmVars, ghostVars, VInv, Early, Counted
  <2>2. pmm' \in PmmType
    <3>1. TypeOK'  BY <1>1, TypeStep DEF VInv, VMMTypeOK, Next
    <3> QED  BY <3>1 DEF TypeOK
  <2>3. Balanced(pmm)'
    <3>1. pmm'.used \in 0 .. U32-1 /\ U32 \in Nat \ {0}
      BY <2>2, SizesAssumption DEF PmmType
    <3>2. (pmm'.used + 0) % U32 = pmm'.used  BY <3>1
    <3>3. Cardinality({}) = 0 /\ pmm'.map \ boot'.map = {}  BY <2>1, FS_EmptySet
    <3> QED  BY <2>1, <2>2, <3>2, <3>3 DEF Balanced
  <2>4. mapped' = {}
    BY <1>1, <2>1 DEF vmmVars, ghostVars, VInv, Early
  <2> QED  BY <2>1, <2>2, <2>3, <2>4 DEF Counted, OutOnly, ReturnedIsMapped, ZeroWhenOut
<1>2. CASE ConstructVMM
  <2>1. ~up /\ built /\ UNCHANGED <<built, pmm, boot, returned>> /\ mapped' = {}
    BY <1>2 DEF ConstructVMM, vars, managerVars, ghostVars, VInv, Early
  <2>2. Balanced(pmm)' <=> Balanced(pmm)  BY <2>1 DEF Balanced, Free, Searched
  <2> QED  BY <2>1, <2>2 DEF Counted, OutOnly, ReturnedIsMapped, ZeroWhenOut
<1>3. CASE AllocPage
  <2> PICK page \in ClientPages, junk \in Junk : Becomes(allocPage(paging, page, junk), page)
    BY <1>3 DEF AllocPage
  <2>1. up /\ built /\ page \in Pages
    BY <1>3, ClientsArePages DEF AllocPage, VInv, Early
  <2> QED  BY <2>1, CountedAnswer
<1>4. CASE AllocNextPage
  <2> PICK junk \in Junk : Becomes(allocPage(paging, next, junk), next)
    BY <1>4 DEF AllocNextPage
  <2>1. left > 0 /\ next \in Nat /\ left \in Nat
    BY <1>4 DEF AllocNextPage, VInv, VMMTypeOK
  <2>2. up /\ built /\ next \in Pages
    BY <2>1, ClientsArePages DEF VInv, Early, Asking
  <2> QED  BY <2>2, CountedAnswer
<1>5. ASSUME UNCHANGED <<pmm, boot, built, up, pageDirectory, pageTables, mapped, returned>>
      PROVE  Counted' /\ (OutOnly => OutOnly')
  <2>1. paging' = paging /\ Free(pmm)' = Free(pmm) /\ (Balanced(pmm)' <=> Balanced(pmm))
    BY <1>5 DEF paging, Balanced, Free, Searched
  <2>2. \A p : entryOf(paging, p)' = entryOf(paging, p)
    BY <2>1 DEF entryOf
  <2> QED  BY <1>5, <2>1, <2>2 DEF Counted, OutOnly, ReturnedIsMapped, ZeroWhenOut
<1>6. CASE AllocPages
  BY <1>5, <1>6 DEF AllocPages, vars, managerVars, pagingVars, ghostVars
<1>7. CASE UNCHANGED <<vars, vmmVars>>
  BY <1>5, <1>7 DEF vars, managerVars, vmmVars, pagingVars, ghostVars
<1> QED  BY <1>1, <1>2, <1>3, <1>4, <1>6, <1>7 DEF VMMNext, Boot

LEMMA CountedInit == VMMInit => Counted /\ OutOnly
<1> SUFFICES ASSUME VMMInit PROVE Counted /\ OutOnly
  OBVIOUS
<1>1. boot \in PmmType  BY TypeInit DEF VMMInit, TypeOK
<1> QED  BY <1>1 DEF VMMInit, Init, Counted, OutOnly, ReturnedIsMapped, ZeroWhenOut

\* allocPage returns the address of the page whether or not it could map it
\* (vmm.cpp, allocPage and mapPage): a page it returned is not present only when
\* no frame is left, wherever the sizes the loader reports cover the free frames of
\* its map, so that the PMM refuses no frame it has.
THEOREM ReturnedIsMappedCorrect ==
  VMMSpec /\ [](built => CountsEnough) => []ReturnedIsMapped
<1>1. VInv /\ Counted /\ [VMMNext]_<<vars, vmmVars>>
        => Counted' /\ ((built => CountsEnough) /\ OutOnly => OutOnly')
  BY CountedStep
<1>2. OutOnly => ReturnedIsMapped  BY DEF OutOnly
<1> QED  BY <1>1, <1>2, CountedInit, VInvAlways, PTL DEF VMMSpec

\* The VMM leaves the counter of a PMM that is constructed to the PMM.
LEMMA CountVMMNext ==
  ASSUME MapsSuffice, VInv, CountInv, [VMMNext]_<<vars, vmmVars>>
  PROVE  CountInv'
<1>1. TypeOK /\ (up => built)  BY DEF VInv, VMMTypeOK, Early
<1>2. CASE Construct  BY <1>1, <1>2, CountStep
<1>3. CASE ConstructVMM \/ AllocPages \/ UNCHANGED <<vars, vmmVars>>
  BY <1>1, <1>3, CountStep DEF ConstructVMM, AllocPages, vars
<1>4. CASE AllocPage \/ AllocNextPage
  <2>1. built
    BY <1>1, <1>4 DEF AllocPage, AllocNextPage, VInv, Early, VMMTypeOK
  <2>2. UNCHANGED <<built, boot>>  BY <1>4 DEF AllocPage, AllocNextPage, Becomes
  <2> QED  BY <1>1, <2>1, <2>2, CountStep
<1> QED  BY <1>2, <1>3, <1>4 DEF VMMNext, Boot

LEMMA CountsVMM ==
  ASSUME MapsSuffice
  PROVE  VMMSpec => [](built => CountsEnough)
<1>1. VInv /\ CountInv /\ [VMMNext]_<<vars, vmmVars>> => CountInv'  BY CountVMMNext
<1>2. CountInv => (built => CountsEnough)  BY DEF CountInv
<1>3. VMMInit => CountInv  BY CountInit DEF VMMInit
<1> QED  BY <1>1, <1>2, <1>3, VInvAlways, PTL DEF VMMSpec

\* The same for memory maps instead of runs: if the available records hold the blocks
\* that mem_lower and mem_upper say, allocPage leaves a page unmapped only when no frame is left.
THEOREM ReturnedIsMappedOnItsMaps ==
  ASSUME MapsSuffice
  PROVE  VMMSpec => []ReturnedIsMapped
BY CountsVMM, ReturnedIsMappedCorrect, PTL
=============================================================================
