------------------------------ MODULE MCFAT12 ------------------------------
(***************************************************************************)
(* FAT12 with FATs of two sectors of 11 bytes: seven whole entries in the  *)
(* first, one across the two.  The disk is empty, or has a file of two     *)
(* clusters another system wrote, and only three that are free.            *)
(***************************************************************************)
EXTENDS FAT12

\* A FAT with the entries f, the rest free.
FATOf(f) ==
  [n \in Nibbles |-> IF n \div 3 \in DOMAIN f THEN (f[n \div 3] \div 16^(n % 3)) % 16 ELSE 0]

Fresh == [fat  |-> FATOf([c \in {0, 1} |-> EOF_MARK]),
          dir  |-> [s \in Slots |-> Empty],
          data |-> [c \in Clusters |-> <<>>]]

\* The file's clusters are not in a row, and behind the first sector's whole entries
\* all is taken: a write may find fewer clusters than it needs.
Foreign ==
  [Fresh EXCEPT !.fat = FATOf([c \in Clusters \ {3, 5, 6} |-> IF c = 2 THEN 4 ELSE EOF_MARK]),
                !.dir[1] = [name |-> "x", attributes |-> 32, firstClusterLow |-> 2]]

\* Behind the first sector of the FAT writes overwrite what is there; nothing is
\* said of the disk any more.
Unspilled == ~spilled

MCDisks == {Fresh, Foreign}
=============================================================================
