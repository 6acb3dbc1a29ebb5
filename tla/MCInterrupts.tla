---------------------------- MODULE MCInterrupts ----------------------------
(***************************************************************************)
(* Interrupts with a bounded number of keys; everything else is finite.    *)
(***************************************************************************)
EXTENDS Interrupts
=============================================================================
