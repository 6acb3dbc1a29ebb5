------------------------------- MODULE Texts --------------------------------
(***************************************************************************)
(* What a string class promises: strings are texts, and a call changes the *)
(* text of the string it is made on, as it should, and no other.  A string *)
(* is sealed when it ends in the terminator that C's functions look for:   *)
(* only then can it be the left side of +.  Once a call has harmed memory  *)
(* nothing is promised any more.  YString implements it.                   *)
(***************************************************************************)
EXTENDS Integers, Sequences, SequencesExt

CONSTANT Names

VARIABLES text,     \* the strings' texts
          sealed,   \* the strings that are terminated
          call,     \* the last call
          harmed    \* has memory been harmed?

tvars == <<text, sealed, call, harmed>>

TInit ==
  /\ text = [n \in Names |-> <<>>]
  /\ sealed = Names /\ call = [op |-> "none"] /\ harmed = FALSE

\* The text the call c asks for, and whether it terminates the string.
Result(c) ==
  CASE c.op = "set"    -> c.with
    [] c.op = "copy"   -> text[c.from]
    [] c.op = "append" -> text[c.on] \o c.with
    [] c.op = "join"   -> text[c.on] \o text[c.from]
    [] c.op = "plus"   -> text[c.left] \o text[c.from]
    [] c.op = "pop"    -> SubSeq(text[c.on], 1, Len(text[c.on]) - 1)
    [] c.op = "clear"  -> <<>>
    [] c.op = "c_str"  -> text[c.on]

Seals(c) ==
  \/ c.op \in {"set", "copy", "c_str"}
  \/ c.op \in {"pop", "clear"} /\ (text[c.on] # <<>> \/ c.on \in sealed)

\* Nothing else changes; the value may be terminated by the way.
TOthers ==
  /\ \A n \in Names \ {call'.on} : text'[n] = text[n] /\ (n \in sealed => n \in sealed')
  /\ UNCHANGED harmed

TCall ==
  /\ call'.op # "add"
  /\ call'.op = "plus" => call'.left \in sealed
  /\ text'[call'.on] = Result(call')
  /\ Seals(call') => call'.on \in sealed'
  /\ TOthers

\* += may take a character for the start of a text...
TAdd ==
  /\ call'.op = "add"
  /\ IsPrefix(text[call'.on] \o call'.with, text'[call'.on])
  /\ TOthers

\* ...and of a left side of + that is not sealed anything may be read.
TPlus ==
  /\ call'.op = "plus" /\ call'.left \notin sealed
  /\ TOthers

TNext == harmed' \/ TCall \/ TAdd \/ TPlus

TSpec == TInit /\ [][TNext]_tvars
=============================================================================
