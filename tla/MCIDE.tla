------------------------------- MODULE MCIDE --------------------------------
(***************************************************************************)
(* IDE with sectors of two words, every kind of drive, and none.           *)
(***************************************************************************)
EXTENDS IDE

AllKinds == {{}} \cup {{"present"} \cup T : T \in SUBSET {"prompt", "takesBytes"}}
=============================================================================
