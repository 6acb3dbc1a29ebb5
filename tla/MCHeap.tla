-------------------------------- MODULE MCHeap --------------------------------
(***************************************************************************)
(* The heap over the VMM over the PMM.  Two classes of 4 and 8 bytes in    *)
(* pages of 8, an offset that goes around after three pages, and four      *)
(* frames to hand out: the page table's and three for pages.               *)
(***************************************************************************)
EXTENDS Heap

Region(type, addr, len) == [type |-> type, addr |-> addr, len |-> len]

Small == [mem_lower |-> 8, mem_upper |-> 24, around |-> {},
          mmap |-> <<Region(1, 0, 8), Region(1, 8, 24)>>]

MCBootInfos == {Small}

\* A page table that held zeroes, and one that held an old entry at index 2.
MCJunk == {[i \in 0 .. 4 |-> NotPresent], [i \in 0 .. 4 |-> IF i = 2 THEN 1 ELSE NotPresent]}

\* Two blocks freed by those who do not hold them show who is harmed; once
\* the offset has gone around nothing is promised any more.
Near == ~Reused /\ Cardinality(stolen) <= 2

\* The loader's sizes fit its maps.
ASSUME MapsAssumption == MapsSuffice
=============================================================================
