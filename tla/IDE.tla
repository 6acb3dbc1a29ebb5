-------------------------------- MODULE IDE ---------------------------------
(***************************************************************************)
(* The disk driver, kernel/Filesystem/IDE.cpp, against its drive.  The     *)
(* driver polls the status register and moves a sector word by word; it    *)
(* runs in kernel_main (the constructor) or in the keyboard's handler, so  *)
(* there is one call at a time, but the drive goes on between any two of   *)
(* its port accesses.                                                      *)
(*                                                                         *)
(* The drive is external, and modelled by the bits of its status register  *)
(* the driver looks at: BSY, or DRQ with words to send or to take, or      *)
(* neither.  It may fail a command.  Kinds differ in what the driver takes *)
(* for granted: that there is a drive, that it asks for the words of a     *)
(* write at once, that it does not count a byte written to its 16-bit data *)
(* register.                                                               *)
(***************************************************************************)
EXTENDS Integers, Sequences

Traits == {"present", "prompt", "takesBytes"}

CONSTANTS
  Sectors,      \* the sectors' numbers
  Words,        \* the words of a sector
  Values,       \* the values of a word; 0 is one
  Kinds         \* the drives the machine may have: the traits of each

ASSUME IDEAssumption ==
  /\ Words \in Nat \ {0}
  /\ 0 \in Values
  /\ Kinds \subseteq SUBSET Traits

Contents == [1 .. Words -> Values]

Calls == [op : {"read"}, sector : Sectors] \cup [op : {"write"}, sector : Sectors, data : Contents]

VARIABLES
  kind,         \* the drive's kind
  disk,         \* the contents of its sectors
  status,       \* "ready", "busy" (BSY), "send", "take" (DRQ)
  command,      \* the command the drive executes: op and sector
  words,        \* the words it has still to send, or has taken
  pc,           \* where the driver is
  call,         \* the call the driver works on
  moved,        \* the words the driver has read, or sent
  outcome,      \* what the drive made of the call: "none", "ok", "failed"
  answer        \* the last sector readSector returned

driveVars  == <<disk, status, command, words, outcome>>
driverVars == <<pc, call, moved, answer>>
ideVars    == <<kind, driveVars, driverVars>>

Present    == "present" \in kind      \* there is a drive
Prompt     == "prompt" \in kind       \* it asks for the words of a write at once
TakesBytes == "takesBytes" \in kind   \* it counts a byte as a word

Identify == [op |-> "identify"]

IDEInit ==
  /\ kind \in Kinds
  /\ disk \in [Sectors -> Contents]
  /\ status = (IF Present THEN "ready" ELSE "busy")    \* an empty bus reads as 0xFF
  /\ command = Identify /\ words = <<>> /\ outcome = "none"
  /\ pc = "ready" /\ call = Identify /\ moved = <<>>
  /\ answer = [w \in 1 .. Words |-> 0]

-----------------------------------------------------------------------------
\* The drive.

\* A command reaches the drive.  In the middle of another one it is ignored; a
\* drive that waits for words, or for its words to be fetched, may also drop them.
Accept(c) ==
  IF status = "ready"
  THEN /\ status' = (IF c.op = "write" /\ Prompt THEN "take" ELSE "busy")
       /\ command' = c /\ words' = <<>>
  ELSE \/ UNCHANGED <<status, command, words>>
       \/ /\ status \in {"send", "take"}
          /\ status' = "busy" /\ command' = c /\ words' = <<>>

Stored == command.op = "write" /\ Len(words) = Words

\* The drive is done with what it was busy with: it has a sector to send, asks
\* for the words of one, has stored it, or has nothing more to do.
SendsSector ==
  /\ command.op \in {"read", "identify"}
  /\ status' = "send" /\ outcome' = "ok"
  /\ words' \in (IF command.op = "read" THEN {disk[command.sector]} ELSE Contents)
  /\ UNCHANGED disk

AsksForWords ==
  /\ command.op = "write" /\ ~Stored
  /\ status' = "take"
  /\ UNCHANGED <<disk, words, outcome>>

Stores ==
  /\ Stored
  /\ status' = "ready" /\ outcome' = "ok"
  /\ disk' = [disk EXCEPT ![command.sector] = words]
  /\ words' = <<>>

Flushed ==
  /\ command.op = "flush"
  /\ status' = "ready"
  /\ UNCHANGED <<disk, words, outcome>>

Finishes ==
  /\ status = "busy" /\ Present
  /\ SendsSector \/ AsksForWords \/ Stores \/ Flushed
  /\ UNCHANGED <<kind, command, driverVars>>

\* It gives up: ERR or DF, no DRQ.
Fails ==
  /\ status = "busy" /\ Present
  /\ status' = "ready" /\ words' = <<>>
  /\ outcome' = (IF command.op = "flush" THEN outcome ELSE "failed")
  /\ UNCHANGED <<kind, disk, command, driverVars>>

\* A word comes to the data register: lost unless the drive asks for it.
Take(w) ==
  IF status = "take"
  THEN /\ words' = Append(words, w)
       /\ status' = (IF Len(words) + 1 = Words THEN "busy" ELSE "take")
  ELSE UNCHANGED <<status, words>>

-----------------------------------------------------------------------------
\* The driver.

\* A caller; the constructor's IDENTIFY is the call in hand at the start.
Ask ==
  /\ pc = "idle"
  /\ call' \in Calls
  /\ pc' = "ready" /\ moved' = <<>> /\ outcome' = "none"
  /\ UNCHANGED <<kind, disk, status, command, words, answer>>

\* What a call has the driver write to the command registers.
CommandOf(c) == IF c = Identify THEN c ELSE [op |-> c.op, sector |-> c.sector]

\* ataWaitReady, and the task file up to the command.  init sends its IDENTIFY
\* without waiting; the second wait of writeSector, ataWait(bus, 0), finds the
\* drive as the first one left it.
Command ==
  /\ pc = "ready"
  /\ call # Identify => status # "busy"
  /\ Accept(CommandOf(call))
  /\ pc' = (IF call.op = "write" THEN "byte" ELSE "poll")
  /\ UNCHANGED <<kind, disk, outcome, call, moved, answer>>

\* outb(bus, 0): a byte for the data register.
StrayByte ==
  /\ pc = "byte" /\ pc' = "words"
  /\ IF TakesBytes THEN Take(0) ELSE UNCHANGED <<status, words>>
  /\ UNCHANGED <<kind, disk, command, outcome, call, moved, answer>>

Poll_ForDRQ ==
  /\ pc = "poll" /\ status = "send"
  /\ pc' = "words"
  /\ UNCHANGED <<kind, driveVars, call, moved, answer>>

Poll_Once ==
  /\ pc = "poll"
  /\ pc' = "words"
  /\ UNCHANGED <<kind, driveVars, call, moved, answer>>

\* ataWait(bus, 1), or ataWaitReady in init: until BSY falls.  That the command
\* failed, or that there are no words, is logged only.
Poll ==
  /\ pc = "poll" /\ status # "busy"
  /\ pc' = "words"
  /\ UNCHANGED <<kind, driveVars, call, moved, answer>>

afterWords_OneMore(n) == IF n <= Words THEN "words" ELSE "finish"

\* insm and outsm count the words, whatever the drive does.
afterWords(n) ==
  IF n < Words THEN "words" ELSE IF call.op = "write" THEN "flush" ELSE "finish"

\* insm: what the data register holds when the drive has no words is anything.
GetWord ==
  /\ pc = "words" /\ call.op # "write"
  /\ IF status = "send"
     THEN /\ moved' = Append(moved, Head(words))
          /\ words' = Tail(words)
          /\ status' = (IF Len(words) = 1 THEN "ready" ELSE "send")
     ELSE /\ \E w \in Values : moved' = Append(moved, w)
          /\ UNCHANGED <<status, words>>
  /\ pc' = afterWords(Len(moved'))
  /\ UNCHANGED <<kind, disk, command, outcome, call, answer>>

\* outsm, without a look at DRQ.
PutWord ==
  /\ pc = "words" /\ call.op = "write"
  /\ LET w == call.data[Len(moved) + 1]
     IN  Take(w) /\ moved' = Append(moved, w)
  /\ pc' = afterWords(Len(moved'))
  /\ UNCHANGED <<kind, disk, command, outcome, call, answer>>

Flush ==
  /\ pc = "flush" /\ pc' = "finish"
  /\ Accept([op |-> "flush"])
  /\ UNCHANGED <<kind, disk, outcome, call, moved, answer>>

Return_NoWait ==
  /\ pc = "finish"
  /\ pc' = "idle" /\ moved' = <<>>
  /\ answer' = IF call.op = "read" THEN moved ELSE answer
  /\ UNCHANGED <<kind, driveVars, call>>

\* The last ataWait(bus, 0); init has none.
Return ==
  /\ pc = "finish"
  /\ call # Identify => status # "busy"
  /\ pc' = "idle" /\ moved' = <<>>
  /\ answer' = IF call.op = "read" THEN moved ELSE answer
  /\ UNCHANGED <<kind, driveVars, call>>

Drive  == Finishes \/ Fails
Driver == Command \/ StrayByte \/ Poll \/ GetWord \/ PutWord \/ Flush \/ Return

IDENext == Ask \/ Driver \/ Drive

\* The processor runs on, and a drive that is there is not busy for ever.
IDESpec ==
  IDEInit /\ [][IDENext]_ideVars /\ WF_ideVars(Driver) /\ WF_ideVars(Drive)

-----------------------------------------------------------------------------
Commands == [op : {"read", "write"}, sector : Sectors] \cup [op : {"identify", "flush"}]

IDETypeOK ==
  /\ kind \in Kinds
  /\ disk \in [Sectors -> Contents]
  /\ status \in {"ready", "busy", "send", "take"}
  /\ command \in Commands
  /\ words \in Seq(Values) /\ Len(words) <= Words
  /\ outcome \in {"none", "ok", "failed"}
  /\ pc \in {"idle", "ready", "byte", "poll", "words", "flush", "finish"}
  /\ call \in Calls \cup {Identify}
  /\ moved \in Seq(Values) /\ Len(moved) <= Words
  /\ answer \in Contents

\* With a drive that asks for the words of a write at once, the driver and the
\* drive stay in step: when a call has returned the drive waits for no word and
\* has none left to be fetched, though writeSector and insm never look at DRQ and
\* no caller hears of a failure.
StaysInStep ==
  Present /\ Prompt /\ pc = "idle" => status = "ready" /\ words = <<>>

\* Whatever the drive's kind, a read is right if the drive took its command and
\* did not fail it, whatever earlier calls came to.
ReadsAreRight ==
  pc = "idle" /\ call.op = "read" /\ outcome = "ok"
    => answer = disk[call.sector]

\* Every call returns, failures included, unless there is no drive: then not
\* even the constructor ends, and the kernel does not boot.
CommandsEnd == (pc # "idle" /\ Present) ~> (pc = "idle")

\* Over a prompt drive that ignores the stray byte, the driver implements a disk
\* whose sectors are read and written whole.
Trusted == Present /\ Prompt /\ ~TakesBytes

Whole == INSTANCE Disk WITH
  Sector  <- Sectors,
  Data    <- Contents,
  trusted <- Trusted,
  stage   <- IF pc = "idle" \/ call = Identify THEN "idle"
             ELSE IF outcome = "none" THEN "asked" ELSE outcome

Implements == Whole!DSpec
=============================================================================
