------------------------------- MODULE Console -------------------------------
(***************************************************************************)
(* The shell: KeyboardDevice and VirtualConsole.  Every key is handled in  *)
(* one interrupt, from the scan code to the end of the command it may run; *)
(* interrupts do not nest, but they do interrupt kernel_main, which prints *)
(* its banner and the first prompt after the console is there.             *)
(*                                                                         *)
(* A character is a string of length one.  What a command prints is any    *)
(* of Outputs: what the commands compute belongs to other components.      *)
(***************************************************************************)
EXTENDS Integers, Sequences, SequencesExt

CONSTANTS
  VGA_WIDTH, VGA_HEIGHT,
  map, shift_map,   \* the characters of the scan codes 0..127
  Codes,            \* the bytes the keyboard may send
  Outputs,          \* what a command may print
  Banner,           \* what kernel_main prints first
  MaxInput,         \* bound of the model: the length of the line
  MaxHistory        \* bound of the model: the characters of all commands run

NUL == "NUL"
NewLine == "\n"
Space == " "
Prompt == <<">", Space>>

\* The keys, by the scan code's lower seven bits.
Backspace == \h0E
EnterKey  == \h1C
Escape    == \h01
UpArrow   == \h48
DownArrow == \h50
LeftShift == \h2A
CapsLock  == \h3A
Ignored   == {LeftShift, CapsLock, \h1D, \h0F, \h36, \h38, \h5C, \h4B, \h4D}
Special   == {Backspace, EnterKey, Escape, UpArrow, DownArrow} \cup Ignored

\* No key that types a character types a line feed.
ASSUME ConsoleAssumption ==
  /\ VGA_WIDTH \in Nat \ {0, 1} /\ VGA_HEIGHT \in Nat \ {0, 1}
  /\ DOMAIN map = 0..127 /\ DOMAIN shift_map = 0..127
  /\ \A ch \in (0..127) \ Special : NewLine \notin {map[ch], shift_map[ch]}
  /\ Codes \subseteq 0..255
  /\ \A out \in Outputs : out \in Seq(Range(out))
  /\ Banner \in Seq(Range(Banner))
  /\ MaxInput \in Nat /\ MaxHistory \in Nat

VARIABLES
  shifted, capsLock,
  screen,             \* [row, column, vga, cursor]; see below
  inputStr,
  allocated,          \* has inputStr a buffer, or still a null pointer?
  previousCommands,
  commandIndex,
  main,               \* kernel_main, statement by statement; see below
  early, raced,       \* what keys did to kernel_main; see below
  halted              \* did a fault stop the machine? (isrHandler ends in hlt)

keyboardVars == <<shifted, capsLock>>
editVars     == <<inputStr, allocated, previousCommands, commandIndex>>
consoleVars  == <<keyboardVars, screen, editVars, main, early, raced, halted>>

-----------------------------------------------------------------------------
(***************************************************************************)
(* The screen: row and column, the cells of vgaBuffer and the position of  *)
(* the hardware cursor; and for the properties, the position right behind  *)
(* the last prompt, which moves up when the screen scrolls, and whether    *)
(* the last handler wrote outside the buffer.                              *)
(***************************************************************************)
Cells == 0 .. VGA_WIDTH * VGA_HEIGHT - 1

At(s) == s.row * VGA_WIDTH + s.column

Positions == \h10000    \* two bytes go to the cursor's registers

updateCursor(s) == [s EXCEPT !.cursor = At(s) % Positions]

write(s, c) ==
  IF At(s) \in Cells THEN [s EXCEPT !.vga[At(s)] = c] ELSE [s EXCEPT !.stray = TRUE]

scroll(s) ==
  [s EXCEPT !.vga = [k \in Cells |-> IF k + VGA_WIDTH \in Cells THEN s.vga[k + VGA_WIDTH] ELSE Space],
            !.prompt = @ - VGA_WIDTH]

scrollIfFull_Never(s) == s

scrollIfFull(s) ==
  IF s.row = VGA_HEIGHT THEN scroll([s EXCEPT !.row = @ - 1]) ELSE s

newLine(s) == [s EXCEPT !.column = 0, !.row = @ + 1]

advance(s) ==
  IF s.column + 1 = VGA_WIDTH THEN newLine(s) ELSE [s EXCEPT !.column = @ + 1]

putchar(s, c) ==
  updateCursor(scrollIfFull(IF c = NewLine THEN newLine(s) ELSE advance(write(s, c))))

print(s, str) ==
  LET after[k \in 0 .. Len(str)] == IF k = 0 THEN s ELSE putchar(after[k-1], str[k])
  IN  after[Len(str)]

\* What printf("%s") prints of a String: the characters before the first NUL.
cString(str) ==
  LET ends == {k \in DOMAIN str : str[k] = NUL}
  IN  IF ends = {} THEN str
      ELSE SubSeq(str, 1, (CHOOSE k \in ends : \A l \in ends : k <= l) - 1)

left(s) == [s EXCEPT !.column = @ - 1]

\* The last character is blanked and the cursor left on it.
erase(s) == updateCursor(left(putchar(left(s), Space)))

eraseAll(s, str) ==
  LET after[k \in 0 .. Len(str)] == IF k = 0 THEN s ELSE erase(after[k-1])
  IN  after[Len(str)]

clearCommand_OneShort(s, str) == updateCursor(eraseAll(s, SubSeq(str, 2, Len(str))))

clearCommand(s, str) == updateCursor(eraseAll(s, str))

\* newCommand on the screen: a line feed, the prompt.
nextRow(s) == [s EXCEPT !.row = @ + 1]

promptText(s) ==
  LET p == print([s EXCEPT !.column = 0], Prompt)
  IN  updateCursor([p EXCEPT !.prompt = At(p)])

-----------------------------------------------------------------------------
(***************************************************************************)
(* kernel_main prints the banner, calls newCommand, which prints the       *)
(* prompt, and loops for ever.  A key may come between any two statements  *)
(* of putchar and newCommand:                                              *)
(*   phase, at   what it is doing, and the statement it is at;             *)
(*   text        what is left to print;                                    *)
(*   row, column the counters as its registers hold them.  The handler     *)
(*               changes those in memory, and the build decides where a    *)
(*               statement takes them from: MainLoad reads one again.      *)
(* Cells and cursor get no such care: once a key has come, nothing is said *)
(* of them.  early: did a key come before the loop?  raced: and did one    *)
(* when kernel_main had just taken the row past the last line?             *)
(***************************************************************************)
Phases     == {"banner", "newCommand", "prompt", "loop"}
Statements == {"put", "advance", "home", "row", "test", "up", "scroll", "end"}

\* Where the row is past the last line, for a moment.
Between == {"test", "up"}

ConsoleInit ==
  /\ shifted = FALSE /\ capsLock = FALSE
  /\ screen = [row |-> 0, column |-> 0, vga |-> [k \in Cells |-> Space], cursor |-> 0,
               prompt |-> 0, stray |-> FALSE]
  /\ inputStr = <<>> /\ allocated = FALSE
  /\ previousCommands = <<>> /\ commandIndex = 0
  /\ main = [phase |-> "banner", at |-> "put", text |-> Banner, row |-> 0, column |-> 0]
  /\ early = FALSE /\ raced = FALSE /\ halted = FALSE

\* A statement of kernel_main changes the screen to s and main to m.
Does(s, m) ==
  /\ ~halted /\ main.phase # "loop"
  /\ screen' = s /\ main' = m
  /\ UNCHANGED <<keyboardVars, allocated, previousCommands, commandIndex, early, raced, halted>>

\* It goes on to the statement "at" with row and column in its registers.
Goes(at, row, column) == [main EXCEPT !.at = at, !.row = row, !.column = column]

MainPut ==
  /\ main.at = "put" /\ main.text # <<>>
  /\ IF Head(main.text) = NewLine
     THEN Does(screen, [main EXCEPT !.at = "home", !.text = Tail(@)])
     ELSE Does(write(screen, Head(main.text)), [main EXCEPT !.at = "advance", !.text = Tail(@)])
  /\ UNCHANGED inputStr

MainAdvance ==
  /\ main.at = "advance"
  /\ LET c == main.column + 1
     IN  Does([screen EXCEPT !.column = c],
              Goes(IF c = VGA_WIDTH THEN "home" ELSE "test", main.row, c))
  /\ UNCHANGED inputStr

MainHome ==
  /\ main.at = "home"
  /\ Does([screen EXCEPT !.column = 0], Goes("row", main.row, 0))
  /\ UNCHANGED inputStr

MainRow ==
  /\ main.at = "row"
  /\ Does([screen EXCEPT !.row = main.row + 1], Goes("test", main.row + 1, main.column))
  /\ UNCHANGED inputStr

MainTest ==
  /\ main.at = "test"
  /\ Does(screen, [main EXCEPT !.at = IF main.row = VGA_HEIGHT THEN "up" ELSE "end"])
  /\ UNCHANGED inputStr

MainUp ==
  /\ main.at = "up"
  /\ Does([screen EXCEPT !.row = main.row - 1], Goes("scroll", main.row - 1, main.column))
  /\ UNCHANGED inputStr

MainScroll ==
  /\ main.at = "scroll"
  /\ Does(scroll(screen), [main EXCEPT !.at = "end"])
  /\ UNCHANGED inputStr

\* The end of putchar; the next one reads the counters anew.
MainCursor ==
  /\ main.at = "end" /\ main.phase # "newCommand"
  /\ Does(updateCursor(screen), Goes("put", screen.row, screen.column))
  /\ UNCHANGED inputStr

MainNewCommand ==
  /\ main.phase = "banner" /\ main.at = "put" /\ main.text = <<>>
  /\ Does(screen, [Goes("row", screen.row, screen.column) EXCEPT !.phase = "newCommand"])
  /\ inputStr' = <<>>

MainPrompt ==
  /\ main.phase = "newCommand" /\ main.at = "end"
  /\ Does([screen EXCEPT !.column = 0],
          [Goes("put", screen.row, 0) EXCEPT !.phase = "prompt", !.text = Prompt])
  /\ UNCHANGED inputStr

MainLoop ==
  /\ main.phase = "prompt" /\ main.at = "put" /\ main.text = <<>>
  /\ Does(updateCursor([screen EXCEPT !.prompt = At(screen)]), [main EXCEPT !.phase = "loop"])
  /\ UNCHANGED inputStr

MainLoad ==
  /\ \/ main.row # screen.row /\ Does(screen, [main EXCEPT !.row = screen.row])
     \/ main.column # screen.column /\ Does(screen, [main EXCEPT !.column = screen.column])
  /\ UNCHANGED inputStr

Main ==
  \/ MainPut \/ MainAdvance \/ MainHome \/ MainRow \/ MainTest \/ MainUp
  \/ MainScroll \/ MainCursor \/ MainNewCommand \/ MainPrompt \/ MainLoop \/ MainLoad

-----------------------------------------------------------------------------
quiet == [screen EXCEPT !.stray = FALSE]

\* A fault: the message isrHandler prints is left out, nothing runs any more.
Fault == halted' = TRUE /\ UNCHANGED <<screen, editVars>>

Erase_NoCheck ==
  /\ inputStr' = IF inputStr = <<>> THEN <<>> ELSE Front(inputStr)
  /\ screen' = erase(quiet)
  /\ UNCHANGED <<allocated, previousCommands, commandIndex, halted>>

Erase ==
  /\ IF inputStr = <<>>
     THEN screen' = quiet /\ UNCHANGED inputStr
     ELSE inputStr' = Front(inputStr) /\ screen' = erase(quiet)
  /\ UNCHANGED <<allocated, previousCommands, commandIndex, halted>>

Type(ch) ==
  LET c == IF shifted \/ capsLock THEN shift_map[ch] ELSE map[ch]
  IN  /\ Len(inputStr) < MaxInput
      /\ inputStr' = Append(inputStr, c)
      /\ allocated' = TRUE
      /\ screen' = putchar(quiet, c)
      /\ UNCHANGED <<previousCommands, commandIndex, halted>>

\* The line becomes the command of the history at index; a read outside the
\* history faults.
Recall(index) ==
  IF index + 1 \in DOMAIN previousCommands
  THEN /\ commandIndex' = index
       /\ inputStr' = previousCommands[index + 1]
       /\ allocated' = TRUE
       /\ screen' = print(clearCommand(quiet, inputStr), cString(previousCommands[index + 1]))
       /\ UNCHANGED <<previousCommands, halted>>
  ELSE Fault

Stay == screen' = quiet /\ UNCHANGED <<editVars, halted>>

Up == IF commandIndex > 0 THEN Recall(commandIndex - 1) ELSE Stay

\* size() - 1 is unsigned: with no history it is the largest number there is.
Down ==
  IF previousCommands = <<>> \/ commandIndex < Len(previousCommands) - 1
  THEN Recall(commandIndex + 1)
  ELSE Stay

ClearLine ==
  /\ screen' = clearCommand(quiet, inputStr)
  /\ inputStr' = <<>> /\ allocated' = TRUE
  /\ commandIndex' = Len(previousCommands)
  /\ UNCHANGED <<previousCommands, halted>>

isBlank(str) == \A k \in DOMAIN str : str[k] = Space

remember_IndexPast(command) ==
  /\ previousCommands' = Append(previousCommands, command)
  /\ commandIndex' = Len(previousCommands) + 2

remember(command) ==
  /\ previousCommands' = Append(previousCommands, command)
  /\ commandIndex' = Len(previousCommands) + 1

\* runCommand takes a copy of the line, which writes through the null pointer of
\* a line that never had a buffer; and takes the first word of a line that has
\* none, which reads through another.
Enter ==
  \/ /\ ~allocated \/ (inputStr # <<>> /\ isBlank(inputStr))
     /\ Fault
  \/ /\ allocated /\ inputStr = <<>>
     /\ screen' = promptText(scrollIfFull(nextRow(quiet)))
     /\ UNCHANGED <<editVars, halted>>
  \/ /\ allocated /\ ~isBlank(inputStr)
     /\ Len(FlattenSeq(Append(previousCommands, inputStr))) <= MaxHistory
     /\ \E out \in Outputs :
          screen' = promptText(scrollIfFull(nextRow(print(quiet, <<NewLine>> \o out))))
     /\ remember(inputStr)
     /\ inputStr' = <<>>
     /\ UNCHANGED <<allocated, halted>>

keyStateChanged(ch) ==
  \/ ch = Backspace /\ Erase
  \/ ch = EnterKey /\ Enter
  \/ ch = UpArrow /\ Up
  \/ ch = DownArrow /\ Down
  \/ ch = Escape /\ ClearLine
  \/ ch \in Ignored /\ Stay
  \/ ch \notin Special /\ Type(ch)

\* The IRQ1 handler.  The device follows the key before the console sees it, but
\* the console ignores the keys that change shifted or capsLock.
KeyIRQ ==
  /\ ~halted
  /\ \E raw \in Codes :
       LET ch      == raw % 128
           pressed == raw < 128
       IN  /\ capsLock' = IF raw = CapsLock THEN ~capsLock ELSE capsLock
           /\ shifted' = IF ch = LeftShift THEN pressed ELSE shifted
           /\ IF pressed THEN keyStateChanged(ch) ELSE Stay
  /\ early' = (early \/ main.phase # "loop")
  /\ raced' = (raced \/ (main.at \in Between /\ screen.row >= VGA_HEIGHT))
  /\ UNCHANGED main

ConsoleNext == Main \/ KeyIRQ

ConsoleSpec == ConsoleInit /\ [][ConsoleNext]_consoleVars

-----------------------------------------------------------------------------
Chars == {NUL, NewLine, ">", Space} \cup Range(map) \cup Range(shift_map)
           \cup Range(Banner) \cup UNION {Range(out) : out \in Outputs}

Screen == [row : Nat, column : Int, vga : [Cells -> Chars], cursor : 0 .. Positions-1,
           prompt : Int, stray : BOOLEAN]

ConsoleTypeOK ==
  /\ shifted \in BOOLEAN /\ capsLock \in BOOLEAN
  /\ screen \in Screen
  /\ inputStr \in Seq(Chars) /\ previousCommands \in Seq(Seq(Chars))
  /\ commandIndex \in 0 .. Len(previousCommands)
  /\ main \in [phase : Phases, at : Statements, text : Seq(Chars), row : Nat, column : Int]
  /\ {allocated, early, raced, halted} \subseteq BOOLEAN

\* The shell is at work: the first prompt stood before the first key, and no
\* command with a NUL in it, which the F-keys type, can be recalled.
Regular ==
  /\ main.phase = "loop" /\ ~early /\ ~halted
  /\ \A k \in DOMAIN previousCommands : NUL \notin Range(previousCommands[k])

\* What you see is what runs: from the prompt to the cursor the screen shows
\* the line Enter would run, after any mixture of typing, erasing, recalling,
\* wrapping and scrolling; and the prompt still stands before it.
\* keyStateChanged, putchar, clearCommand.
LineIsShown ==
  Regular =>
    /\ At(screen) = screen.prompt + Len(inputStr)
    /\ \A k \in DOMAIN inputStr :
         screen.prompt + k - 1 \in Cells => screen.vga[screen.prompt + k - 1] = inputStr[k]
    /\ \A k \in 1..2 :
         screen.prompt + k - 3 \in Cells => screen.vga[screen.prompt + k - 3] = Prompt[k]

\* A handler writes outside vgaBuffer only when the line has grown so long that
\* its prompt scrolled off the screen.
WritesOnScreen == Regular /\ screen.stray => screen.prompt < 0

\* Row and column stand outside of the screen only while kernel_main's putchar or
\* newCommand is between two statements, the column before it is set to 0, the
\* row before it is tested and set back; the row also for good, and only if a key
\* came just there, whichever of its counters the build keeps in registers.
PositionIsOnScreen ==
  /\ screen.row >= VGA_HEIGHT => raced \/ main.at \in Between
  /\ screen.column >= VGA_WIDTH => main.at = "home"

\* Keys stop the machine in two situations only: before the first command has
\* run, and on Enter behind a line of blanks.  In particular the history is
\* never read out of range, and the line always has its buffer, from the first
\* command on.  kmalloc is taken to have the memory a line needs; YString says
\* what an append does without.
FaultsAreKnown ==
  halted => previousCommands = <<>> \/ (inputStr # <<>> /\ isBlank(inputStr))
=============================================================================
