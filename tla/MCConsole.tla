------------------------------ MODULE MCConsole ------------------------------
(***************************************************************************)
(* A screen of 2 lines of 3 characters, which a line of 4 characters       *)
(* scrolls off.  The keys: a letter, the space bar, F1 (which types NUL),  *)
(* left shift down and up, caps lock, and those that edit.                 *)
(***************************************************************************)
EXTENDS Console

Keys(letter) ==
  [ch \in 0..127 |-> CASE ch = \h1E -> letter [] ch = \h39 -> Space
                      [] ch = EnterKey -> NewLine [] OTHER -> NUL]

MCMap == Keys("a")
MCShiftMap == Keys("A")

Edit == {Backspace, EnterKey, Escape, UpArrow, DownArrow}
Typed == {\h1E, \h39, \h3B}

MCCodes == Edit \cup Typed \cup {LeftShift, LeftShift + 128, CapsLock}

\* The banner reaches the last line; the prompt's line feed scrolls it.
MCBanner == <<"b", NewLine, "b", "b", "b">>

\* Recalling commands with a NUL in them moves the cursor left without end: more
\* is erased than was printed.  A row past the last line moves on without end.
\* After an early key two more characters are enough to fill the screen, and the
\* shift keys add nothing.
Near ==
  /\ At(screen) >= -2 /\ screen.row <= VGA_HEIGHT + 1
  /\ early => /\ Len(FlattenSeq(Append(previousCommands, inputStr))) <= 2
              /\ ~shifted /\ ~capsLock
              /\ main.phase = "loop" => raced

\* After an early key nothing is said of the cells, the cursor and the prompt, and
\* no statement reads them.
MCView ==
  <<keyboardVars, editVars, main, early, raced, halted, screen.row, screen.column,
    IF early THEN <<>> ELSE <<screen>> >>

MCOutputs == {<<>>, <<"x", NewLine>>}
=============================================================================
