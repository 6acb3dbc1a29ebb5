-------------------------------- MODULE MCVMM --------------------------------
(***************************************************************************)
(* The VMM over a PMM with 6 frames to hand out, with two page tables of   *)
(* three entries and a recursive one.                                      *)
(***************************************************************************)
EXTENDS VMM

Region(type, addr, len) == [type |-> type, addr |-> addr, len |-> len]

\* 8 blocks, of which the kernel has the first two.
Small == [mem_lower |-> 8, mem_upper |-> 24, around |-> {},
          mmap |-> <<Region(1, 0, 8), Region(1, 8, 24)>>]

MCBootInfos == {Small}

MCClientPages == 0 .. 5

\* New page tables hold zeroes, or what an earlier use of the frame left.
MCJunk ==
  {[i \in 0 .. 2 |-> NotPresent], [i \in 0 .. 2 |-> IF i = 1 THEN NotPresent ELSE 1]}
\* The loader's sizes fit its maps.
ASSUME MapsAssumption == MapsSuffice
=============================================================================
