------------------------------ MODULE MCYString ------------------------------
(***************************************************************************)
(* Two strings of two letters, in frames of 2, 4, 8 bytes and so on.       *)
(***************************************************************************)
EXTENDS YString, Functions

\* Once memory is harmed nothing is promised any more; and an unknown character is
\* not carried on, for it is like any other.
Clean == harm = "none" /\ \A n \in Names : Other \notin Range(Text(strings[n]))

=============================================================================
