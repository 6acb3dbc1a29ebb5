----------------------------- MODULE IDE_proofs -----------------------------
(***************************************************************************)
(* Theorems about IDE: for every number of sectors and every length of a   *)
(* sector, the driver stays in step with a prompt drive, its reads are     *)
(* right, and it implements Disk.                                          *)
(***************************************************************************)
EXTENDS IDE, TLAPS, SequenceTheorems

\* What the drive holds in each of its states...
Shape ==
  /\ status = "ready" => words = <<>>
  /\ status = "busy" => words = <<>> \/ Stored
  /\ status = "send" => words # <<>>
  /\ status = "take" => Len(words) < Words /\ command.op = "write"

\* ...and without one.
Absent == ~Present => status = "busy" /\ call = Identify /\ pc \in {"ready", "poll"}

\* What the driver's place says of its call.
Place ==
  /\ pc = "idle" => status # "busy"
  /\ pc = "ready" => /\ moved = <<>> /\ outcome = "none"
                     /\ call # Identify => status # "busy"
                     /\ call = Identify /\ Present => status = "ready"
  /\ pc \in {"byte", "flush"} => call \in Calls /\ call.op = "write"
  /\ pc = "poll" => call.op # "write" /\ moved = <<>>
  /\ pc = "byte" => moved = <<>>
  /\ pc = "words" => Len(moved) < Words
  /\ pc \in {"flush", "finish"} => Len(moved) = Words
  /\ pc \in {"words", "finish"} /\ call.op # "write" => status # "busy"

\* The words a read has moved, and those the drive has still to send, are those
\* of the sector.
Partial ==
  /\ Len(moved) + Len(words) = Words
  /\ \A i \in 1 .. Len(moved) : moved[i] = disk[call.sector][i]
  /\ \A i \in 1 .. Len(words) : words[i] = disk[call.sector][Len(moved) + i]

Reading ==
  call.op = "read" =>
    /\ pc = "poll" /\ status = "busy" => command = CommandOf(call) /\ outcome = "none"
    /\ outcome = "ok" =>
         /\ pc \in {"poll", "words"} => status = "send" /\ Partial
         /\ pc = "finish" => moved = disk[call.sector]
         /\ pc = "idle" => answer = disk[call.sector]

\* A prompt drive waits for words only while the driver sends them.
InStep ==
  Present /\ Prompt =>
    /\ pc \in {"idle", "ready"} => status = "ready"
    /\ pc = "byte" => status = "take" /\ words = <<>>
    /\ status = "busy" /\ command.op = "write" => Stored
    /\ call.op = "write" /\ pc \in {"words", "flush", "finish"} =>
         /\ status # "send"
         /\ status = "busy" => command.op \in {"write", "flush"}
         /\ status = "take" => pc = "words" /\ Len(moved) <= Len(words)
    /\ call.op # "write" /\ pc \in {"poll", "words", "finish"} =>
         /\ status # "take"
         /\ status = "busy" => command.op \in {"read", "identify"}
         /\ status = "send" => Len(moved) + Len(words) = Words

\* Over a trusted drive: what is known of the outcome, and the words of a write.
Outcome ==
  Trusted /\ call # Identify =>
    /\ call.op = "read" /\ pc = "poll" => (status = "busy" <=> outcome = "none")
    /\ call.op = "read" /\ pc \in {"words", "finish"} => outcome # "none"
    /\ pc = "byte" => command = CommandOf(call) /\ outcome = "none"
    /\ call.op = "write" /\ pc \in {"words", "flush", "finish"} =>
         /\ \A i \in 1 .. Len(moved) : moved[i] = call.data[i]
         /\ outcome = "none" => command = CommandOf(call) /\ words = moved
         /\ outcome # "none" => status = "ready" \/ command.op = "flush"
         /\ pc = "words" => outcome = "none" /\ status = "take"
         /\ pc # "words" /\ outcome = "none" => status = "busy"

IInv == IDETypeOK /\ Shape /\ Absent /\ Place /\ Reading /\ InStep /\ Outcome

-----------------------------------------------------------------------------
\* The contents of a sector are the sequences of Words words.
LEMMA Sector ==
  /\ \A c \in Contents : c \in Seq(Values) /\ Len(c) = Words
  /\ \A s \in Seq(Values) : Len(s) = Words => s \in Contents
BY IDEAssumption DEF Contents

\* A word more, a word less.
LEMMA Appended ==
  ASSUME NEW s \in Seq(Values), NEW w \in Values
  PROVE  /\ Append(s, w) \in Seq(Values)
         /\ Len(Append(s, w)) = Len(s) + 1
         /\ Append(s, w)[Len(s) + 1] = w
         /\ \A i \in 1 .. Len(s) : Append(s, w)[i] = s[i]
OBVIOUS

LEMMA Fetched ==
  ASSUME NEW s \in Seq(Values), s # <<>>
  PROVE  /\ Len(s) \in Nat \ {0}
         /\ Head(s) = s[1] /\ Head(s) \in Values
         /\ Tail(s) \in Seq(Values) /\ Len(Tail(s)) = Len(s) - 1
         /\ \A i \in 1 .. Len(Tail(s)) : Tail(s)[i] = s[i + 1]
<1>1. Head(s) = s[1]  OBVIOUS
<1> QED  BY <1>1, EmptySeq, HeadTailProperties

LEMMA Nothing ==
  /\ <<>> \in Seq(Values) /\ Len(<<>>) = 0
  /\ \A s \in Seq(Values) : s = <<>> <=> Len(s) = 0
BY EmptySeq

\* What a call is, and the command it is sent as.
LEMMA CallKinds ==
  ASSUME NEW c \in Calls \cup {Identify}
  PROVE  /\ c.op \in {"read", "write", "identify"}
         /\ c = Identify <=> c.op = "identify"
         /\ c # Identify => c \in Calls /\ c.sector \in Sectors
         /\ c.op = "write" => c.data \in Contents
         /\ CommandOf(c) \in Commands
         /\ CommandOf(c).op = c.op
         /\ c # Identify => CommandOf(c).sector = c.sector
BY DEF Calls, Identify, CommandOf, Commands

LEMMA CommandKinds ==
  ASSUME NEW c \in Commands
  PROVE  /\ c.op \in {"read", "write", "identify", "flush"}
         /\ c.op \in {"read", "write"} => c.sector \in Sectors
BY DEF Commands

LEMMA FlushKind == [op |-> "flush"] \in Commands /\ [op |-> "flush"].op = "flush"
BY DEF Commands

-----------------------------------------------------------------------------
\* The drive's types and shape.
Statuses == {"ready", "busy", "send", "take"}

DriveOK ==
  /\ disk \in [Sectors -> Contents]
  /\ status \in Statuses
  /\ command \in Commands
  /\ words \in Seq(Values) /\ Len(words) <= Words
  /\ outcome \in {"none", "ok", "failed"}
  /\ Shape

LEMMA Accepted ==
  ASSUME DriveOK, NEW c \in Commands, Accept(c), UNCHANGED <<disk, outcome>>
  PROVE  DriveOK'
<1> USE IDEAssumption, Nothing, CommandKinds
<1>1. CASE UNCHANGED <<status, command, words>>
  BY <1>1 DEF DriveOK, Shape, Stored
<1>2. CASE status' = "busy" /\ command' = c /\ words' = <<>>
  BY <1>2 DEF DriveOK, Shape, Statuses
<1>3. CASE status' = "take" /\ c.op = "write" /\ command' = c /\ words' = <<>>
  BY <1>3 DEF DriveOK, Shape, Statuses
<1> QED  BY <1>1, <1>2, <1>3 DEF Accept

LEMMA Taken ==
  ASSUME DriveOK, NEW w \in Values, Take(w), UNCHANGED <<disk, command, outcome>>
  PROVE  DriveOK'
<1>1. CASE status = "take"
  <2>1. words' = Append(words, w)
    BY <1>1 DEF Take
  <2>2. words' \in Seq(Values) /\ Len(words') = Len(words) + 1
    BY <2>1, Appended DEF DriveOK
  <2>3. Len(words) < Words /\ Len(words) \in Nat /\ command.op = "write"
    BY <1>1 DEF DriveOK, Shape
  <2>4. status' = (IF Len(words') = Words THEN "busy" ELSE "take")
    BY <1>1, <2>2 DEF Take
  <2> QED  BY <2>2, <2>3, <2>4, IDEAssumption DEF DriveOK, Shape, Stored, Statuses
<1>2. CASE status # "take"
  BY <1>2 DEF Take, DriveOK, Shape, Stored
<1> QED  BY <1>1, <1>2

LEMMA Worked ==
  ASSUME DriveOK, Drive
  PROVE  DriveOK'
<1> USE IDEAssumption, Nothing
<1>1. CASE Finishes /\ SendsSector
  <2>1. words' \in Contents
    BY <1>1, CommandKinds DEF Finishes, SendsSector, DriveOK
  <2>2. words' \in Seq(Values) /\ Len(words') = Words /\ words' # <<>>
    BY <2>1, Sector
  <2> QED  BY <1>1, <2>2 DEF Finishes, SendsSector, DriveOK, Shape, Statuses
<1>2. CASE Finishes /\ AsksForWords
  BY <1>2 DEF Finishes, AsksForWords, DriveOK, Shape, Statuses
<1>3. CASE Finishes /\ Stores
  <2>1. words \in Contents
    BY <1>3, Sector DEF Stores, Stored, DriveOK
  <2>2. disk' \in [Sectors -> Contents]
    BY <1>3, <2>1 DEF Stores, DriveOK
  <2> QED  BY <1>3, <2>2 DEF Finishes, Stores, DriveOK, Shape, Statuses
<1>4. CASE Finishes /\ Flushed
  BY <1>4 DEF Finishes, Flushed, Stored, DriveOK, Shape, Statuses
<1>5. CASE Fails
  BY <1>5 DEF Fails, DriveOK, Shape, Statuses
<1> QED  BY <1>1, <1>2, <1>3, <1>4, <1>5 DEF Drive, Finishes

\* Every step of the driver, too.
LEMMA DriveStep ==
  ASSUME IInv, IDENext
  PROVE  DriveOK'
<1>0. DriveOK
  BY DEF IInv, IDETypeOK, DriveOK, Statuses
<1>1. CASE Ask
  BY <1>0, <1>1 DEF Ask, DriveOK, Shape, Stored
<1>2. CASE Command
  <2>1. CommandOf(call) \in Commands
    BY CallKinds DEF IInv, IDETypeOK
  <2> QED  BY <1>0, <1>2, <2>1, Accepted DEF Command
<1>3. CASE StrayByte
  <2>1. CASE TakesBytes
    BY <1>0, <1>3, <2>1, Taken, IDEAssumption DEF StrayByte
  <2>2. CASE ~TakesBytes
    BY <1>0, <1>3, <2>2 DEF StrayByte, DriveOK, Shape, Stored
  <2> QED  BY <2>1, <2>2
<1>4. CASE Poll \/ Return
  BY <1>0, <1>4 DEF Poll, Return, driveVars, DriveOK, Shape, Stored
<1>5. CASE GetWord
  <2>1. CASE status = "send"
    <3>1. words' = Tail(words) /\ words # <<>>
      BY <1>0, <1>5, <2>1 DEF GetWord, DriveOK, Shape
    <3>2. words' \in Seq(Values) /\ Len(words') = Len(words) - 1 /\ Len(words) \in Nat \ {0}
      BY <1>0, <3>1, Fetched DEF DriveOK
    <3>3. status' = (IF Len(words) = 1 THEN "ready" ELSE "send")
      BY <1>5, <2>1 DEF GetWord
    <3>4. Len(words) = 1 <=> words' = <<>>
      <4>1. words' = <<>> <=> Len(words') = 0
        BY <3>2, Nothing
      <4> QED  BY <4>1, <3>2
    <3> QED
      BY <1>0, <1>5, <3>2, <3>3, <3>4, IDEAssumption DEF GetWord, DriveOK, Shape, Statuses
  <2>2. CASE status # "send"
    BY <1>0, <1>5, <2>2 DEF GetWord, DriveOK, Shape, Stored
  <2> QED  BY <2>1, <2>2
<1>6. CASE PutWord
  <2>1. Len(moved) + 1 \in 1 .. Words
    BY <1>6, IDEAssumption DEF PutWord, IInv, IDETypeOK, Place
  <2>2. call.data \in [1 .. Words -> Values]
    BY <1>6, CallKinds DEF PutWord, IInv, IDETypeOK, Contents
  <2>3. call.data[Len(moved) + 1] \in Values
    BY <2>1, <2>2
  <2> QED  BY <1>0, <1>6, <2>3, Taken DEF PutWord
<1>7. CASE Flush
  BY <1>0, <1>7, FlushKind, Accepted DEF Flush
<1>8. CASE Drive
  BY <1>0, <1>8, Worked
<1> QED  BY <1>1, <1>2, <1>3, <1>4, <1>5, <1>6, <1>7, <1>8 DEF IDENext, Driver

-----------------------------------------------------------------------------
\* The words moved; afterwards the driver goes on to the next one, or ends.
LEMMA Moved ==
  ASSUME IInv, GetWord \/ PutWord
  PROVE  /\ pc = "words" /\ Len(moved) \in Nat /\ Len(moved) < Words
         /\ \E w \in Values : moved' = Append(moved, w)
         /\ moved' \in Seq(Values) /\ Len(moved') = Len(moved) + 1
         /\ pc' = afterWords(Len(moved'))
         /\ UNCHANGED <<kind, disk, command, outcome, call, answer>>
<1>1. pc = "words" /\ Len(moved) \in Nat /\ Len(moved) < Words /\ moved \in Seq(Values)
  BY DEF GetWord, PutWord, IInv, IDETypeOK, Place
<1>2. \E w \in Values : moved' = Append(moved, w)
  <2>1. CASE GetWord /\ status = "send"
    <3>1. words \in Seq(Values) /\ words # <<>>
      BY <2>1 DEF IInv, IDETypeOK, Shape
    <3>2. Head(words) \in Values
      BY <3>1, Fetched
    <3> QED  BY <2>1, <3>2 DEF GetWord
  <2>2. CASE GetWord /\ status # "send"
    BY <2>2 DEF GetWord
  <2>3. CASE PutWord
    <3>1. Len(moved) + 1 \in 1 .. Words
      BY <1>1, IDEAssumption
    <3>2. call.data \in [1 .. Words -> Values]
      BY <2>3, CallKinds DEF PutWord, IInv, IDETypeOK, Contents
    <3> QED  BY <2>3, <3>1, <3>2 DEF PutWord
  <2> QED  BY <2>1, <2>2, <2>3
<1>3. moved' \in Seq(Values) /\ Len(moved') = Len(moved) + 1
  BY <1>1, <1>2, Appended
<1> QED  BY <1>1, <1>2, <1>3 DEF GetWord, PutWord

\* The types, and what a step does to the driver's place.
LEMMA TypeStep ==
  ASSUME IInv, IDENext
  PROVE  IDETypeOK'
<1>0. DriveOK'
  BY DriveStep
<1> USE IDEAssumption, Nothing DEF IInv
<1>1. CASE Ask
  BY <1>0, <1>1 DEF Ask, IDETypeOK, DriveOK, Statuses
<1>2. CASE Command \/ StrayByte \/ Poll \/ Flush \/ Drive
  BY <1>0, <1>2 DEF Command, StrayByte, Poll, Flush, Drive, Finishes, Fails, driveVars, driverVars,
                    IDETypeOK, DriveOK, Statuses
<1>3. CASE GetWord \/ PutWord
  BY <1>0, <1>3, Moved DEF afterWords, IDETypeOK, DriveOK, Statuses
<1>4. CASE Return
  <2>1. call.op = "read" => moved \in Contents
    BY <1>4, Sector DEF Return, IDETypeOK, Place
  <2> QED  BY <1>0, <1>4, <2>1 DEF Return, driveVars, IDETypeOK, DriveOK, Statuses
<1> QED  BY <1>1, <1>2, <1>3, <1>4 DEF IDENext, Driver

\* What is known while the drive is busy.
LEMMA BusyDrive ==
  ASSUME IInv, status = "busy", Present
  PROVE  /\ pc \notin {"idle", "ready"}
         /\ call.op \in {"read", "identify"} => pc = "poll" /\ moved = <<>>
         /\ call.op = "read" => command.op = "read" /\ command = CommandOf(call) /\ outcome = "none"
         /\ Prompt => pc # "byte"
         /\ Prompt /\ call.op \in {"read", "identify"} => command.op \in {"read", "identify"}
         /\ call.op = "write" => pc \in {"byte", "words", "flush", "finish"}
         /\ Prompt /\ call.op = "write" => command.op \in {"write", "flush"}
<1>1. /\ call.op \in {"read", "write", "identify"}
      /\ call = Identify <=> call.op = "identify"
      /\ CommandOf(call).op = call.op
  BY CallKinds DEF IInv, IDETypeOK
<1>2. pc \notin {"idle", "ready"}
  BY DEF IInv, Place
<1>3. call.op \in {"read", "identify"} => pc = "poll" /\ moved = <<>>
  BY <1>1, <1>2 DEF IInv, Place, IDETypeOK
<1>4. call.op = "read" => command = CommandOf(call) /\ outcome = "none"
  BY <1>3 DEF IInv, Reading
<1>5. Prompt => pc # "byte"
  BY DEF IInv, InStep
<1>6. call.op = "write" => pc \in {"byte", "words", "flush", "finish"}
  BY <1>2 DEF IInv, IDETypeOK, Place
<1>7. Prompt /\ call.op \in {"read", "identify"} => command.op \in {"read", "identify"}
  BY <1>3 DEF IInv, InStep
<1>8. Prompt /\ call.op = "write" => command.op \in {"write", "flush"}
  BY <1>5, <1>6 DEF IInv, InStep
<1> QED  BY <1>1, <1>2, <1>3, <1>4, <1>5, <1>6, <1>7, <1>8

LEMMA PlaceStep ==
  ASSUME IInv, IDENext
  PROVE  Place' /\ Absent'
<1>0. /\ call.op \in {"read", "write", "identify"}
      /\ call = Identify <=> call.op = "identify"
      /\ call \in Calls \cup {Identify} /\ status \in Statuses
      /\ call # Identify => call \in Calls
  BY CallKinds DEF IInv, IDETypeOK, Statuses
<1> USE IDEAssumption, Nothing DEF IInv, Place, Absent, Present
<1>1. CASE Ask
  <2>1. call' # Identify
    BY <1>1, CallKinds DEF Ask, Calls, Identify
  <2> QED  BY <1>1, <2>1 DEF Ask
<1>2. CASE Command
  BY <1>0, <1>2 DEF Command, Accept, Statuses
<1>3. CASE StrayByte
  BY <1>0, <1>3 DEF StrayByte
<1>4. CASE Poll
  BY <1>0, <1>4 DEF Poll, driveVars
<1>5. CASE GetWord
  <2>1. status' # "busy"
    BY <1>5 DEF GetWord
  <2> QED  BY <1>5, <2>1, Moved DEF GetWord, afterWords
<1>6. CASE PutWord
  BY <1>0, <1>6, Moved DEF PutWord, afterWords
<1>7. CASE Flush
  BY <1>0, <1>7 DEF Flush
<1>8. CASE Return
  BY <1>0, <1>8 DEF Return, driveVars
<1>9. CASE Drive
  <2>1. status = "busy" /\ Present /\ UNCHANGED <<kind, driverVars>>
    BY <1>9 DEF Drive, Finishes, Fails
  <2>2. status' # "busy"
    BY <1>9 DEF Drive, Finishes, Fails, SendsSector, AsksForWords, Stores, Flushed
  <2> QED  BY <2>1, <2>2, BusyDrive DEF driverVars
<1> QED  BY <1>1, <1>2, <1>3, <1>4, <1>5, <1>6, <1>7, <1>8, <1>9 DEF IDENext, Driver

\* A word of the sector, fetched: what Partial says goes on to hold.
LEMMA PartialStep ==
  ASSUME IInv, GetWord, call.op = "read", status = "send", Partial
  PROVE  Partial'
<1>1. /\ moved \in Seq(Values) /\ words \in Seq(Values) /\ words # <<>>
      /\ UNCHANGED <<disk, call>>
      /\ moved' = Append(moved, Head(words)) /\ words' = Tail(words)
  BY DEF GetWord, IInv, IDETypeOK, Shape
<1> DEFINE D == disk[call.sector]
           m == Len(moved)
<1>2. /\ Len(words) \in Nat \ {0} /\ Head(words) = words[1] /\ Head(words) \in Values
      /\ words' \in Seq(Values) /\ Len(words') = Len(words) - 1
      /\ \A i \in 1 .. Len(words') : words'[i] = words[i + 1]
  BY <1>1, Fetched
<1>3. /\ m \in Nat /\ Len(moved') = m + 1 /\ moved'[m + 1] = words[1]
      /\ \A i \in 1 .. m : moved'[i] = moved[i]
  BY <1>1, <1>2, Appended
<1>4. /\ m + Len(words) = Words
      /\ \A i \in 1 .. m : moved[i] = D[i]
      /\ \A i \in 1 .. Len(words) : words[i] = D[m + i]
  BY DEF Partial
<1>5. moved'[m + 1] = D[m + 1]
  BY <1>2, <1>3, <1>4
<1>6. ASSUME NEW i \in 1 .. Len(moved') PROVE moved'[i] = D[i]
  BY <1>3, <1>4, <1>5
<1>7. ASSUME NEW i \in 1 .. Len(words') PROVE words'[i] = D[Len(moved') + i]
  <2>1. i + 1 \in 1 .. Len(words) /\ m + (i + 1) = Len(moved') + i
    BY <1>2, <1>3
  <2> QED  BY <1>2, <1>4, <2>1
<1> QED  BY <1>1, <1>2, <1>3, <1>4, <1>6, <1>7 DEF Partial

\* With the last word the driver holds the sector.
LEMMA Filled ==
  ASSUME NEW s \in Seq(Values), NEW D \in Contents, Len(s) = Words,
         \A i \in 1 .. Words : s[i] = D[i]
  PROVE  s = D
BY Sector, IDEAssumption DEF Contents

LEMMA ReadingStep ==
  ASSUME IInv, IDENext
  PROVE  Reading'
<1>0. IDETypeOK /\ IDETypeOK'
  BY TypeStep DEF IInv
<1>k. call \in Calls \cup {Identify}
  BY <1>0 DEF IDETypeOK
<1> SUFFICES ASSUME call'.op = "read"
             PROVE  /\ pc' = "poll" /\ status' = "busy" => command' = CommandOf(call') /\ outcome' = "none"
                    /\ outcome' = "ok" =>
                         /\ pc' \in {"poll", "words"} => status' = "send" /\ Partial'
                         /\ pc' = "finish" => moved' = disk'[call'.sector]
                         /\ pc' = "idle" => answer' = disk'[call'.sector]
  BY DEF Reading, CommandOf
<1>1. CASE Ask
  BY <1>1 DEF Ask
<1>2. CASE Command
  <2>1. call.op = "read" /\ call # Identify
    BY <1>2, <1>k, CallKinds DEF Command
  <2>2. status # "busy" /\ outcome = "none" /\ UNCHANGED <<outcome, call>>
    BY <1>2, <2>1 DEF Command, IInv, Place
  <2>3. status' = "busy" => command' = CommandOf(call)
    BY <1>2, <2>2 DEF Command, Accept
  <2> QED  BY <1>2, <2>2, <2>3 DEF Command, CommandOf
<1>3. CASE StrayByte \/ PutWord \/ Flush
  BY <1>3, <1>k, CallKinds DEF StrayByte, PutWord, Flush, IInv, Place
<1>4. CASE Poll
  BY <1>4 DEF Poll, driveVars, IInv, Reading, Partial
<1>5. CASE GetWord
  <2>1. call.op = "read" /\ UNCHANGED <<disk, outcome, call>> /\ pc = "words" /\ pc' \in {"words", "finish"}
    BY <1>5, Moved DEF afterWords
  <2> SUFFICES ASSUME outcome = "ok"
               PROVE  /\ pc' = "words" => status' = "send" /\ Partial'
                      /\ pc' = "finish" => moved' = disk[call.sector]
    BY <2>1
  <2>2. status = "send" /\ Partial
    BY <2>1 DEF IInv, Reading
  <2>3. Partial'
    BY <1>5, <2>1, <2>2, PartialStep
  <2>4. pc' = (IF Len(moved') < Words THEN "words" ELSE "finish")
    BY <1>5, <2>1, Moved DEF afterWords
  <2>5. Len(moved') + Len(words') = Words /\ Len(moved') \in Nat /\ Len(words') \in Nat
    BY <1>0, <2>3 DEF Partial, IDETypeOK
  <2>6. CASE pc' = "words"
    <3>1. Len(words') > 0
      BY <2>4, <2>5, <2>6, IDEAssumption
    <3>2. words \in Seq(Values) /\ words # <<>> /\ words' = Tail(words)
      BY <1>5, <2>2 DEF GetWord, IInv, IDETypeOK, Shape
    <3>3. Len(words) # 1
      BY <3>1, <3>2, Fetched
    <3>4. status' = "send"
      BY <1>5, <2>2, <3>3 DEF GetWord
    <3> QED  BY <2>3, <2>6, <3>4
  <2>7. CASE pc' = "finish"
    <3>1. Len(moved') = Words
      BY <2>4, <2>5, <2>7, IDEAssumption
    <3>2. disk[call.sector] \in Contents
      BY <1>0, <1>k, <2>1, CallKinds DEF IDETypeOK
    <3>3. \A i \in 1 .. Words : moved'[i] = disk[call.sector][i]
      BY <2>1, <2>3, <3>1 DEF Partial
    <3> QED  BY <1>0, <2>7, <3>1, <3>2, <3>3, Filled DEF IDETypeOK
  <2> QED  BY <2>1, <2>6, <2>7
<1>6. CASE Return
  BY <1>6 DEF Return, driveVars, IInv, Reading
<1>7. CASE Drive
  <2>1. /\ status = "busy" /\ Present /\ UNCHANGED driverVars /\ call.op = "read" /\ status' # "busy"
    BY <1>7 DEF Drive, Finishes, Fails, driverVars, SendsSector, AsksForWords, Stores, Flushed
  <2>2. pc = "poll" /\ moved = <<>> /\ command.op = "read" /\ command = CommandOf(call) /\ outcome = "none"
    BY <2>1, BusyDrive
  <2>3. CASE Finishes /\ SendsSector
    <3>1. command.sector = call.sector /\ call.sector \in Sectors
      BY <1>k, <2>1, <2>2, CallKinds
    <3>2. words' = disk[call.sector] /\ UNCHANGED disk /\ status' = "send"
      BY <2>2, <2>3, <3>1 DEF SendsSector
    <3>3. disk[call.sector] \in Seq(Values) /\ Len(disk[call.sector]) = Words
      BY <1>0, <3>1, Sector DEF IDETypeOK
    <3>4. moved' = <<>> /\ call' = call /\ Len(moved') = 0
      BY <2>1, <2>2, Nothing DEF driverVars
    <3>5. Partial'
      BY <3>2, <3>3, <3>4, IDEAssumption DEF Partial
    <3> QED  BY <2>1, <2>2, <3>2, <3>5 DEF driverVars
  <2>4. ~(Finishes /\ (AsksForWords \/ Stores \/ Flushed))
    BY <2>2 DEF AsksForWords, Stores, Stored, Flushed
  <2>5. CASE Fails
    BY <2>1, <2>2, <2>5 DEF Fails, driverVars
  <2> QED  BY <1>7, <2>3, <2>4, <2>5 DEF Drive, Finishes
<1> QED  BY <1>1, <1>2, <1>3, <1>4, <1>5, <1>6, <1>7 DEF IDENext, Driver

\* A prompt drive and the driver.
LEMMA InStepStep ==
  ASSUME IInv, IDENext
  PROVE  InStep'
<1>0. /\ call.op \in {"read", "write", "identify"} /\ status \in Statuses
      /\ call = Identify <=> call.op = "identify"
      /\ CommandOf(call).op = call.op
  BY CallKinds DEF IInv, IDETypeOK, Statuses
<1> SUFFICES ASSUME Present', Prompt' PROVE InStep'
  BY DEF InStep
<1>k. Present /\ Prompt
  BY DEF IDENext, Driver, Drive, Ask, Command, StrayByte, Poll, GetWord, PutWord, Flush, Return,
         Finishes, Fails, Present, Prompt
<1>p. /\ pc \in {"idle", "ready"} => status = "ready"
      /\ pc = "byte" => status = "take" /\ words = <<>>
      /\ status = "busy" /\ command.op = "write" => Stored
      /\ call.op = "write" /\ pc \in {"words", "flush", "finish"} =>
           /\ status # "send"
           /\ status = "busy" => command.op \in {"write", "flush"}
           /\ status = "take" => pc = "words" /\ Len(moved) <= Len(words)
      /\ call.op # "write" /\ pc \in {"poll", "words", "finish"} =>
           /\ status # "take"
           /\ status = "busy" => command.op \in {"read", "identify"}
           /\ status = "send" => Len(moved) + Len(words) = Words
  BY <1>k DEF IInv, InStep
<1>t. /\ words \in Seq(Values) /\ moved \in Seq(Values)
      /\ Len(words) \in Nat /\ Len(moved) \in Nat
  BY DEF IInv, IDETypeOK
<1> USE IDEAssumption, Nothing
<1>1. CASE Ask
  BY <1>1, <1>p DEF Ask, InStep
<1>2. CASE Command
  <2>1. /\ status' = (IF call.op = "write" THEN "take" ELSE "busy")
        /\ command' = CommandOf(call) /\ words' = <<>>
    BY <1>0, <1>k, <1>2, <1>p DEF Command, Accept
  <2> QED  BY <1>0, <1>2, <2>1 DEF Command, InStep
<1>3. CASE StrayByte
  <2>1. status = "take" /\ words = <<>> /\ moved = <<>> /\ call.op = "write" /\ command.op = "write"
    BY <1>3, <1>p DEF StrayByte, IInv, Place, Shape
  <2>2. CASE TakesBytes
    <3>1. words' = Append(<<>>, 0)
      BY <1>3, <2>1, <2>2 DEF StrayByte, Take
    <3>2. Len(words') = 1
      BY <3>1, Appended
    <3> QED  BY <1>3, <2>1, <2>2, <3>2 DEF StrayByte, Take, InStep, Stored
  <2>3. CASE ~TakesBytes
    BY <1>3, <2>1, <2>3 DEF StrayByte, InStep
  <2> QED  BY <2>2, <2>3
<1>4. CASE Poll
  <2>1. call.op # "write"
    BY <1>4 DEF Poll, IInv, Place
  <2> QED  BY <1>4, <1>p, <2>1 DEF Poll, driveVars, InStep, Stored
<1>5. CASE GetWord
  <2>1. /\ pc = "words" /\ call.op # "write" /\ call' = call /\ pc' \in {"words", "finish"}
        /\ Len(moved') = Len(moved) + 1 /\ status # "busy"
    BY <1>5, Moved DEF GetWord, afterWords, IInv, Place
  <2>2. CASE status = "send"
    <3>1. words' = Tail(words) /\ words # <<>>
      BY <1>5, <2>2 DEF GetWord, IInv, Shape
    <3>2. Len(words') = Len(words) - 1
      BY <1>t, <3>1, Fetched
    <3>3. Len(moved') + Len(words') = Words
      BY <1>p, <1>t, <2>1, <2>2, <3>2
    <3>4. status' \in {"ready", "send"}
      BY <1>5, <2>2 DEF GetWord
    <3> QED  BY <2>1, <3>3, <3>4 DEF InStep
  <2>3. CASE status # "send"
    BY <1>0, <1>5, <1>p, <2>1, <2>3 DEF GetWord, InStep, Statuses
  <2> QED  BY <2>2, <2>3
<1>6. CASE PutWord
  <2>1. /\ pc = "words" /\ call.op = "write" /\ call' = call /\ command' = command
        /\ pc' = (IF Len(moved') < Words THEN "words" ELSE "flush")
        /\ Len(moved') = Len(moved) + 1
    BY <1>6, Moved DEF PutWord, afterWords
  <2>2. CASE status = "take"
    <3>1. PICK w \in Values : words' = Append(words, w)
      <4>1. Len(moved) + 1 \in 1 .. Words
        BY <1>6, <1>t, Moved
      <4>2. call.data \in [1 .. Words -> Values]
        BY <2>1, CallKinds DEF IInv, IDETypeOK, Contents
      <4> QED  BY <1>6, <2>2, <4>1, <4>2 DEF PutWord, Take
    <3>2. Len(words') = Len(words) + 1
      BY <1>t, <3>1, Appended
    <3>3. status' = (IF Len(words') = Words THEN "busy" ELSE "take")
      BY <1>6, <2>2, <3>2 DEF PutWord, Take
    <3>4. command.op = "write" /\ Len(words) < Words /\ Len(moved) <= Len(words)
      BY <1>p, <2>1, <2>2 DEF IInv, Shape
    <3> QED  BY <1>t, <2>1, <3>2, <3>3, <3>4 DEF InStep, Stored
  <2>3. CASE status # "take"
    <3>1. UNCHANGED <<status, words>> /\ pc' \in {"words", "flush"}
      BY <1>6, <2>1, <2>3 DEF PutWord, Take
    <3> QED  BY <1>p, <2>1, <2>3, <3>1 DEF InStep, Stored
  <2> QED  BY <2>2, <2>3
<1>7. CASE Flush
  <2>1. call.op = "write" /\ pc' = "finish" /\ call' = call /\ status \in {"ready", "busy"}
    BY <1>0, <1>7, <1>p DEF Flush, IInv, Place, Statuses
  <2>2. \/ UNCHANGED <<status, command, words>>
        \/ status' = "busy" /\ command'.op = "flush"
    BY <1>7, <2>1 DEF Flush, Accept
  <2> QED  BY <1>7, <1>p, <2>1, <2>2 DEF Flush, InStep, Stored
<1>8. CASE Return
  <2>1. pc = "finish" /\ pc' = "idle" /\ UNCHANGED <<status, words, command>> /\ Len(moved) = Words
    BY <1>8 DEF Return, driveVars, IInv, Place
  <2>2. status # "busy"
    BY <1>0, <1>8, <2>1 DEF Return, IInv, Place
  <2>3. status = "ready"
    <3>1. CASE call.op = "write"
      BY <1>0, <1>p, <2>1, <2>2, <3>1 DEF Statuses
    <3>2. CASE call.op # "write"
      <4>1. status = "send" => words # <<>>
        BY DEF IInv, Shape
      <4> QED  BY <1>0, <1>p, <1>t, <2>1, <2>2, <3>2, <4>1 DEF Statuses
    <3> QED  BY <3>1, <3>2
  <2> QED  BY <2>1, <2>3 DEF InStep
<1>9. CASE Drive
  <2>1. status = "busy" /\ UNCHANGED <<kind, command, pc, call, moved>>
    BY <1>9 DEF Drive, Finishes, Fails, driverVars
  <2>2. /\ pc \notin {"idle", "ready", "byte"}
        /\ call.op \in {"read", "identify"} => pc = "poll" /\ moved = <<>> /\ command.op \in {"read", "identify"}
        /\ call.op = "write" => command.op \in {"write", "flush"}
    BY <1>k, <2>1, BusyDrive
  <2>3. CASE Finishes /\ SendsSector
    <3>1. command.op \in {"read", "identify"} /\ status' = "send" /\ call.op # "write"
      BY <2>2, <2>3 DEF SendsSector
    <3>2. words' \in Contents
      BY <2>3, CommandKinds DEF SendsSector, IInv, IDETypeOK
    <3> QED  BY <1>0, <2>1, <2>2, <3>1, <3>2, Sector DEF InStep
  <2>4. ~(Finishes /\ AsksForWords)
    BY <1>p, <2>1 DEF AsksForWords
  <2>5. CASE status' = "ready"
    BY <2>1, <2>2, <2>5 DEF InStep
  <2> QED  BY <1>9, <2>3, <2>4, <2>5 DEF Drive, Finishes, Stores, Flushed, Fails
<1> QED  BY <1>1, <1>2, <1>3, <1>4, <1>5, <1>6, <1>7, <1>8, <1>9 DEF IDENext, Driver

LEMMA OutcomeStep ==
  ASSUME IInv, IDENext
  PROVE  Outcome'
<1> SUFFICES ASSUME Trusted', call' # Identify
             PROVE  Outcome'
  BY DEF Outcome
<1>k. Trusted /\ Present /\ Prompt /\ ~TakesBytes
  BY DEF IDENext, Driver, Drive, Ask, Command, StrayByte, Poll, GetWord, PutWord, Flush, Return,
         Finishes, Fails, Present, Prompt, TakesBytes, Trusted
<1>0. /\ call.op \in {"read", "write", "identify"} /\ status \in Statuses
      /\ call = Identify <=> call.op = "identify"
      /\ CommandOf(call).op = call.op
  BY CallKinds DEF IInv, IDETypeOK, Statuses
<1>1. CASE Ask
  BY <1>1 DEF Ask, Outcome
<1>p. ASSUME call # Identify
      PROVE  /\ call.op = "read" /\ pc = "poll" => (status = "busy" <=> outcome = "none")
             /\ call.op = "read" /\ pc \in {"words", "finish"} => outcome # "none"
             /\ pc = "byte" => command = CommandOf(call) /\ outcome = "none"
             /\ call.op = "write" /\ pc \in {"words", "flush", "finish"} =>
                  /\ \A i \in 1 .. Len(moved) : moved[i] = call.data[i]
                  /\ outcome = "none" => command = CommandOf(call) /\ words = moved
                  /\ outcome # "none" => status = "ready" \/ command.op = "flush"
                  /\ pc = "words" => outcome = "none" /\ status = "take"
                  /\ pc # "words" /\ outcome = "none" => status = "busy"
  BY <1>k, <1>p DEF IInv, Outcome
<1>2. CASE Command
  <2>1. status = "ready" /\ outcome = "none" /\ UNCHANGED <<call, outcome>>
    BY <1>k, <1>2 DEF Command, IInv, InStep, Place
  <2>2. command' = CommandOf(call) /\ (call.op = "read" => status' = "busy")
    BY <1>2, <2>1, <1>0 DEF Command, Accept
  <2> QED  BY <1>0, <1>2, <2>1, <2>2 DEF Command, Outcome, CommandOf
<1>3. CASE StrayByte
  <2>1. /\ call # Identify /\ call.op = "write" /\ pc = "byte" /\ moved = <<>> /\ pc' = "words"
        /\ UNCHANGED <<status, words, command, outcome, call, moved>>
    BY <1>k, <1>3 DEF StrayByte, IInv, Place
  <2>2. status = "take" /\ words = <<>>
    BY <1>k, <2>1 DEF IInv, InStep
  <2>3. command' = CommandOf(call') /\ outcome' = "none"
    BY <1>p, <2>1 DEF CommandOf
  <2> QED  BY <2>1, <2>2, <2>3, Nothing DEF Outcome
<1>4. CASE Poll
  <2>1. call # Identify /\ call' = call /\ pc' = "words" /\ pc = "poll" /\ call.op # "write"
        /\ status # "busy" /\ outcome' = outcome
    BY <1>4 DEF Poll, driveVars, IInv, Place
  <2> QED  BY <1>p, <1>0, <2>1 DEF Outcome
<1>5. CASE GetWord
  <2>1. call # Identify /\ call' = call /\ pc = "words" /\ call.op # "write" /\ outcome' = outcome
        /\ pc' \in {"words", "finish"}
    BY <1>5, Moved DEF GetWord, afterWords
  <2> QED  BY <1>p, <1>0, <2>1 DEF Outcome
<1>6. CASE PutWord
  <2>1. /\ call # Identify /\ call' = call /\ call.op = "write" /\ command' = command /\ outcome' = outcome
        /\ pc = "words" /\ pc' = (IF Len(moved') < Words THEN "words" ELSE "flush")
    BY <1>6, Moved DEF PutWord, afterWords
  <2>2. /\ status = "take" /\ outcome = "none" /\ words = moved /\ command = CommandOf(call)
        /\ \A i \in 1 .. Len(moved) : moved[i] = call.data[i]
    BY <1>p, <2>1
  <2> DEFINE w == call.data[Len(moved) + 1]
  <2>3. w \in Values
    <3>1. Len(moved) + 1 \in 1 .. Words
      BY <1>6, IDEAssumption, Moved
    <3>2. call.data \in [1 .. Words -> Values]
      BY <2>1, CallKinds DEF IInv, IDETypeOK, Contents
    <3> QED  BY <3>1, <3>2
  <2>4. /\ moved' = Append(moved, w) /\ words' = Append(words, w)
        /\ status' = (IF Len(words) + 1 = Words THEN "busy" ELSE "take")
    BY <1>6, <2>2 DEF PutWord, Take
  <2>5. /\ moved \in Seq(Values) /\ Len(moved) \in Nat /\ Len(moved) < Words /\ Len(moved') = Len(moved) + 1
        /\ moved'[Len(moved) + 1] = w
        /\ \A i \in 1 .. Len(moved) : moved'[i] = moved[i]
    BY <1>6, <2>3, <2>4, Moved, Appended DEF IInv, IDETypeOK
  <2>6. \A i \in 1 .. Len(moved') : moved'[i] = call.data[i]
    BY <2>2, <2>5
  <2>7. status' = (IF Len(moved') = Words THEN "busy" ELSE "take")
    BY <2>2, <2>4, <2>5
  <2>8. pc' = "words" => status' = "take"
    BY <2>1, <2>5, <2>7, IDEAssumption
  <2>9. pc' # "words" => status' = "busy"
    BY <2>1, <2>5, <2>7, IDEAssumption
  <2> QED  BY <2>1, <2>2, <2>4, <2>6, <2>8, <2>9 DEF Outcome, CommandOf
<1>7. CASE Flush
  <2>1. /\ call # Identify /\ call' = call /\ call.op = "write" /\ pc = "flush" /\ pc' = "finish"
        /\ UNCHANGED <<moved, outcome>>
    BY <1>0, <1>7 DEF Flush, IInv, Place
  <2>2. status \in {"ready", "busy"}
    BY <1>0, <1>k, <2>1 DEF IInv, InStep, Statuses
  <2>3. CASE status = "ready"
    <3>1. command'.op = "flush" /\ outcome # "none"
      BY <1>p, <1>7, <2>1, <2>3 DEF Flush, Accept
    <3> QED  BY <1>p, <2>1, <3>1 DEF Outcome
  <2>4. CASE status = "busy"
    <3>1. UNCHANGED <<status, command, words>>
      BY <1>7, <2>4 DEF Flush, Accept
    <3> QED  BY <1>p, <2>1, <2>4, <3>1 DEF Outcome, CommandOf
  <2> QED  BY <2>2, <2>3, <2>4
<1>8. CASE Return
  BY <1>8 DEF Return, Outcome
<1>9. CASE Drive
  <2>1. /\ status = "busy" /\ UNCHANGED <<command, pc, call, moved>> /\ call # Identify
        /\ outcome' = outcome \/ outcome' # "none"
    BY <1>9 DEF Drive, Finishes, Fails, driverVars, SendsSector, AsksForWords, Stores, Flushed
  <2>2. /\ pc \notin {"idle", "ready", "byte"}
        /\ call.op = "read" => pc = "poll" /\ command.op = "read" /\ outcome = "none"
        /\ call.op = "write" => pc \in {"flush", "finish", "words"} /\ command.op \in {"write", "flush"}
    BY <1>k, <2>1, BusyDrive
  <2>3. ~(Finishes /\ AsksForWords)
    BY <1>k, <2>1 DEF AsksForWords, IInv, InStep
  <2>4. CASE call.op = "read"
    <3>1. outcome' # "none" /\ status' # "busy"
      BY <1>9, <2>2, <2>3, <2>4 DEF Drive, Finishes, Fails, SendsSector, Stores, Stored, Flushed
    <3> QED  BY <2>1, <2>2, <2>4, <3>1 DEF Outcome
  <2>5. CASE call.op = "write"
    <3>1. status' = "ready"
      BY <1>9, <2>2, <2>3, <2>5 DEF Drive, Finishes, Fails, SendsSector, Stores, Flushed
    <3>2. pc # "words"
      BY <1>p, <2>1, <2>5
    <3>3. outcome' # "none"
      <4>1. outcome = "none" => command.op = "write"
        BY <1>0, <1>p, <2>1, <2>2, <2>5
      <4> QED  BY <1>9, <2>1, <2>2, <2>3, <2>5, <4>1 DEF Drive, Finishes, Fails, SendsSector, Stores, Flushed
    <3> QED  BY <1>p, <2>1, <2>2, <2>5, <3>1, <3>2, <3>3 DEF Outcome
  <2> QED  BY <1>0, <2>1, <2>4, <2>5
<1> QED  BY <1>1, <1>2, <1>3, <1>4, <1>5, <1>6, <1>7, <1>8, <1>9 DEF IDENext, Driver

-----------------------------------------------------------------------------
LEMMA IInvInit == IDEInit => IInv
<1> SUFFICES ASSUME IDEInit PROVE IInv
  OBVIOUS
<1>1. answer \in Contents
  BY IDEAssumption DEF IDEInit, Contents
<1>2. IDETypeOK
  BY <1>1, Nothing, IDEAssumption DEF IDEInit, IDETypeOK, Commands, Identify
<1>3. call = Identify /\ call.op = "identify" /\ command = Identify /\ command.op = "identify"
  BY DEF IDEInit, Identify
<1> QED
  BY <1>2, <1>3, Nothing, IDEAssumption
  DEF IDEInit, IInv, Shape, Stored, Absent, Place, Reading, InStep, Outcome

LEMMA IInvStep == IInv /\ [IDENext]_ideVars => IInv'
<1>1. CASE IInv /\ IDENext
  <2>1. Shape'
    BY <1>1, DriveStep DEF DriveOK
  <2> QED  BY <1>1, <2>1, TypeStep, PlaceStep, ReadingStep, InStepStep, OutcomeStep DEF IInv
<1>2. CASE IInv /\ UNCHANGED ideVars
  BY <1>2 DEF IInv, IDETypeOK, Shape, Stored, Absent, Place, Reading, Partial, InStep, Outcome, Trusted,
              Present, Prompt, TakesBytes, CommandOf, ideVars, driveVars, driverVars
<1> QED  BY <1>1, <1>2

LEMMA IInvAlways == IDESpec => []IInv
BY IInvInit, IInvStep, PTL DEF IDESpec

\* The driver returns only full sectors, and the drive stores no others: the
\* types of IDE.cpp's buffers and of the drive's sectors.
THEOREM IDETypeCorrect == IDESpec => []IDETypeOK
<1>1. IInv => IDETypeOK
  BY DEF IInv
<1> QED  BY <1>1, IInvAlways, PTL

\* Between two calls a prompt drive waits for no word and has none to send:
\* IDE.cpp's waits suffice, without a look at DRQ.
THEOREM StaysInStepCorrect == IDESpec => []StaysInStep
<1>1. IInv => StaysInStep
  BY DEF IInv, InStep, Shape, StaysInStep
<1> QED  BY <1>1, IInvAlways, PTL

\* What readSector answers is what the sector holds, if the drive served the
\* call, of whatever kind it is.
THEOREM ReadsAreRightCorrect == IDESpec => []ReadsAreRight
<1>1. IInv => ReadsAreRight
  BY DEF IInv, Reading, ReadsAreRight
<1> QED  BY <1>1, IInvAlways, PTL

-----------------------------------------------------------------------------
\* The driver implements Disk: first the steps, then the specification.
LEMMA Stutters ==
  ASSUME UNCHANGED <<kind, disk, call, outcome, answer>>,
         pc = "idle" <=> pc' = "idle"
  PROVE  UNCHANGED Whole!dvars
BY DEF Whole!dvars, Trusted, Present, Prompt, TakesBytes

LEMMA ImplementsStep ==
  ASSUME IInv, IDENext
  PROVE  [Whole!DNext]_Whole!dvars
<1>t. UNCHANGED kind /\ (Trusted' <=> Trusted)
  BY DEF IDENext, Driver, Drive, Ask, Command, StrayByte, Poll, GetWord, PutWord, Flush, Return,
         Finishes, Fails, Present, Prompt, TakesBytes, Trusted
<1>0. /\ call.op \in {"read", "write", "identify"}
      /\ call = Identify <=> call.op = "identify"
      /\ call \in Calls \cup {Identify}
      /\ CommandOf(call).op = call.op
      /\ call # Identify => CommandOf(call).sector = call.sector
  BY CallKinds DEF IInv, IDETypeOK
<1>k. CASE ~Trusted
  BY <1>t, <1>k DEF Whole!DNext
<1> SUFFICES ASSUME Trusted PROVE [Whole!DNext]_Whole!dvars
  BY <1>k
<1>j. Present /\ Prompt /\ Trusted'
  BY <1>t DEF Trusted
<1>1. CASE Ask
  <2>1. call' \in Calls /\ call' # Identify
    BY <1>1, CallKinds DEF Ask, Calls, Identify
  <2> QED  BY <1>t, <1>1, <2>1 DEF Ask, Whole!DNext, Whole!DAsk, Whole!Calls, Calls
<1>2. CASE Command \/ StrayByte \/ Poll \/ GetWord \/ PutWord \/ Flush
  <2>1. pc # "idle" /\ pc' # "idle"
    BY <1>2 DEF Command, StrayByte, Poll, GetWord, PutWord, Flush, afterWords
  <2>2. UNCHANGED <<kind, disk, call, outcome, answer>>
    BY <1>2 DEF Command, StrayByte, Poll, GetWord, PutWord, Flush, driveVars
  <2> QED  BY <2>1, <2>2, Stutters
<1>3. CASE Return
  <2>1. pc = "finish" /\ pc' = "idle" /\ UNCHANGED <<kind, disk, call, outcome, status, command>>
    BY <1>3 DEF Return, driveVars
  <2>2. CASE call = Identify
    <3>1. UNCHANGED answer
      BY <1>0, <1>3, <2>2 DEF Return
    <3> QED  BY <2>1, <2>2, <3>1 DEF Whole!dvars, Trusted, Present, Prompt, TakesBytes
  <2>3. CASE call # Identify
    <3>1. outcome \in {"ok", "failed"}
      <4>1. status # "busy"
        BY <1>3, <2>3 DEF Return
      <4>2. outcome # "none"
        BY <1>0, <2>1, <2>3, <4>1 DEF IInv, Outcome
      <4> QED  BY <4>2 DEF IInv, IDETypeOK
    <3>2. answer' \in IF call.op = "write" THEN {answer}
                      ELSE IF outcome = "ok" THEN {disk[call.sector]} ELSE Contents
      <4>1. call.op = "write" => answer' = answer
        BY <1>3 DEF Return
      <4>2. call.op # "write" => call.op = "read" /\ answer' = moved
        BY <1>0, <1>3, <2>3 DEF Return
      <4>3. moved \in Contents
        BY <2>1, Sector DEF IInv, IDETypeOK, Place
      <4>4. call.op = "read" /\ outcome = "ok" => moved = disk[call.sector]
        BY <2>1 DEF IInv, Reading
      <4> QED  BY <4>1, <4>2, <4>3, <4>4
    <3> QED  BY <1>t, <2>1, <2>3, <3>1, <3>2 DEF Whole!DNext, Whole!DReturn
  <2> QED  BY <2>2, <2>3
<1>4. CASE Drive
  <2>1. status = "busy" /\ UNCHANGED <<kind, command, pc, call, moved, answer>>
    BY <1>4 DEF Drive, Finishes, Fails, driverVars
  <2>2. /\ pc \notin {"idle", "ready", "byte"}
        /\ call.op = "read" => pc = "poll" /\ command.op = "read" /\ outcome = "none"
        /\ call.op = "identify" => command.op \in {"read", "identify"}
        /\ call.op = "write" => pc \in {"flush", "finish", "words"} /\ command.op \in {"write", "flush"}
    BY <1>j, <2>1, BusyDrive
  <2>3. ~(Finishes /\ AsksForWords)
    BY <1>j, <2>1 DEF AsksForWords, IInv, InStep
  <2>4. call.op = "write" /\ command.op # "flush" =>
          /\ outcome = "none" /\ pc # "words" /\ command = CommandOf(call) /\ words = moved
          /\ \A i \in 1 .. Len(moved) : moved[i] = call.data[i]
    <3>1. ASSUME call.op = "write", command.op # "flush"
          PROVE  /\ call # Identify /\ outcome = "none"
      BY <1>0, <2>1, <2>2, <3>1 DEF IInv, Outcome
    <3> QED  BY <2>1, <2>2, <3>1 DEF IInv, Outcome
  <2>5. CASE call = Identify
    <3>1. UNCHANGED disk
      BY <1>0, <1>4, <2>2, <2>5 DEF Drive, Finishes, Fails, SendsSector, AsksForWords, Stores, Stored, Flushed
    <3> QED  BY <2>1, <2>5, <3>1 DEF Whole!dvars, Trusted, Present, Prompt, TakesBytes
  <2>6. CASE call # Identify /\ outcome' = outcome /\ UNCHANGED disk
    BY <2>1, <2>6, Stutters
  <2>7. CASE call # Identify /\ outcome = "none" /\ outcome' = "failed" /\ UNCHANGED disk
    BY <1>t, <2>1, <2>2, <2>7 DEF Whole!DNext, Whole!DFail
  <2>8. CASE call # Identify /\ outcome = "none" /\ outcome' = "ok" /\ UNCHANGED disk /\ call.op # "write"
    BY <1>t, <2>1, <2>2, <2>8 DEF Whole!DNext, Whole!DServe
  <2>9. CASE call # Identify /\ Finishes /\ Stores
    <3>1. call.op = "write" /\ command.op # "flush"
      BY <1>0, <2>2, <2>9 DEF Stores, Stored
    <3>2. command.sector = call.sector
      BY <1>0, <2>4, <2>9, <3>1
    <3>3. words = call.data
      <4>1. Len(words) = Words /\ words \in Seq(Values)
        BY <2>9 DEF Stores, Stored, IInv, IDETypeOK
      <4>2. call.data \in Contents
        BY <1>0, <3>1, CallKinds
      <4> QED  BY <2>4, <3>1, <4>1, <4>2, Filled
    <3>4. disk' = [disk EXCEPT ![call.sector] = call.data] /\ outcome' = "ok" /\ outcome = "none"
      BY <2>4, <2>9, <3>1, <3>2, <3>3 DEF Stores
    <3> QED  BY <1>t, <2>1, <2>2, <2>9, <3>1, <3>4 DEF Whole!DNext, Whole!DServe
  <2>10. CASE call # Identify /\ Finishes /\ SendsSector
    <3>1. call.op # "write" /\ outcome = "none"
      BY <1>0, <2>2, <2>10 DEF SendsSector
    <3> QED  BY <2>8, <2>10, <3>1 DEF SendsSector
  <2>11. CASE call # Identify /\ Finishes /\ Flushed
    BY <2>6, <2>11 DEF Flushed
  <2>12. CASE call # Identify /\ Fails
    <3>1. command.op = "flush" \/ outcome = "none"
      BY <1>0, <2>2, <2>4, <2>12
    <3> QED  BY <2>6, <2>7, <2>12, <3>1 DEF Fails
  <2> QED  BY <1>4, <2>3, <2>5, <2>9, <2>10, <2>11, <2>12 DEF Drive, Finishes
<1> QED  BY <1>1, <1>2, <1>3, <1>4 DEF IDENext, Driver

\* Over every drive that asks for the words of a write at once and ignores the
\* stray byte, IDE.cpp reads and writes sectors whole, one call at a time.
THEOREM ImplementsDisk == IDESpec => Implements
<1>1. IDEInit => Whole!DInit
  <2> SUFFICES ASSUME IDEInit PROVE Whole!DInit
    OBVIOUS
  <2>1. answer \in Contents
    BY IDEAssumption DEF IDEInit, Contents
  <2> QED  BY <2>1 DEF IDEInit, Whole!DInit, Trusted, Present, Prompt, TakesBytes
<1>2. IInv /\ [IDENext]_ideVars => [Whole!DNext]_Whole!dvars
  <2>1. CASE IInv /\ IDENext
    BY <2>1, ImplementsStep
  <2>2. CASE UNCHANGED ideVars
    BY <2>2, Stutters DEF ideVars, driveVars, driverVars
  <2> QED  BY <2>1, <2>2
<1> QED  BY <1>1, <1>2, IInvAlways, PTL DEF IDESpec, Implements, Whole!DSpec
=============================================================================
