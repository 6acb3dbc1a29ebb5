-------------------------------- MODULE MCPMM --------------------------------
(***************************************************************************)
(* PMM on small memory maps.  A block is 4 bytes, a word 8 bits and a byte *)
(* 4 bits; sizes count in bytes (KB = 1) and the kernel's own area is the  *)
(* first 6 blocks.                                                         *)
(***************************************************************************)
EXTENDS PMM

Region(type, addr, len) == [type |-> type, addr |-> addr, len |-> len]

\* A PC: low memory with a ragged end, the hole under 1 MB, upper memory.  17
\* blocks, 16 of them in whole words; frames 6..15 can be handed out.
PC == [mem_lower |-> 7, mem_upper |-> 64, around |-> -140 .. -1,
       mmap |-> <<Region(1, 0, 7), Region(2, 7, 5), Region(1, 12, 64)>>]

\* The same PC with a whole number of words.
Even == [PC EXCEPT !.mem_upper = 60,
                   !.mmap = <<Region(1, 0, 7), Region(2, 7, 5), Region(1, 12, 60)>>]

\* The same PC with a reserved region above the kernel, and with the records the
\* loop finds behind the table: one of no known type and the region at address 1.
Hole == [mem_lower |-> 7, mem_upper |-> 28, around |-> {},
         mmap |-> <<Region(1, 0, 7), Region(2, 7, 5), Region(1, 12, 28),
                    Region(2, 40, 16), Region(1, 56, 12),
                    Region(0, 9, 9), Region(1, 1, 100)>>]

\* Low memory only reported: the available regions exceed the sizes, so that
\* usedBlocks passes below zero in the constructor.
Wrap == [mem_lower |-> 12, mem_upper |-> 20, around |-> {},
         mmap |-> <<Region(1, 0, 12), Region(1, 12, 60), Region(1, 80, 28)>>]

\* Once a run has been handed out that was not free nothing is promised any more.
AllFree == unfree = {}

SmallBootInfos == {Even, Wrap}

MCBootInfos == {PC, Even, Hole, Wrap}
\* The loader's sizes fit its maps.
ASSUME MapsAssumption == MapsSuffice
=============================================================================
