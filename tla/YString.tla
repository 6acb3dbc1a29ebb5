------------------------------ MODULE YString -------------------------------
(***************************************************************************)
(* The kernel's string class, Y/String.cpp, on the frames of the heap: any *)
(* calls on a few strings, in any order.  A string's buffer is the whole   *)
(* frame kmalloc gave it: a request is rounded up to the next class of the *)
(* heap, and the frame still holds what it held before (Old).  An empty    *)
(* buffer is the null pointer of a string that has none.                   *)
(*                                                                         *)
(* No caller appends a string to itself, or assigns it to itself.          *)
(***************************************************************************)
EXTENDS Integers, Sequences, FiniteSets

CONSTANTS
  Names,      \* the strings
  Char,       \* the characters
  Classes,    \* the sizes of the heap's blocks
  MaxText     \* bound of the model: the length of a text

NUL == "NUL"
Old == "old"
Other == "?"      \* an old byte that turned out not to be NUL

\* The heap has a block for every request texts of that length make (kmalloc gives
\* the null pointer for larger ones).
ASSUME StringAssumption ==
  /\ {NUL, Old, Other} \cap Char = {}
  /\ MaxText \in Nat \ {0}
  /\ Classes \subseteq Nat \ {0}
  /\ \A n \in 0 .. 2 * MaxText : \E size \in Classes : n <= size

VARIABLES
  strings,    \* the strings; see below
  call,       \* the last call
  lost,       \* the frames it got and lost
  harm        \* why memory outside of a frame was first written, or "none"

stringVars == <<strings, call, lost, harm>>

-----------------------------------------------------------------------------
(***************************************************************************)
(* A string is a record: buffer, size and capacity as in the code; and for *)
(* the properties, the frames got for it and not given back, and whether a *)
(* String was appended to it since it got its buffer.                      *)
(***************************************************************************)
Default == [buffer |-> <<>>, size |-> 0, capacity |-> 0, frames |-> 0, joined |-> FALSE]

Class(n) == CHOOSE size \in Classes :
              n <= size /\ \A other \in Classes : n <= other => size <= other

\* new char[n]
Fresh(n) == [i \in 1 .. Class(n) |-> Old]

\* str written behind the first k bytes of a buffer, as far as it reaches.
Over(buffer, k, str) ==
  [i \in DOMAIN buffer |-> IF i - k \in DOMAIN str THEN str[i - k] ELSE buffer[i]]

Text(x) == [i \in 1 .. x.size |-> IF i \in DOMAIN x.buffer THEN x.buffer[i] ELSE Old]

Owned(x) == IF x.buffer = <<>> THEN 0 ELSE 1

\* operator= and the constructors: x holds str, in a buffer of its own.
assign_NoDelete(x, str) ==
  [buffer |-> Over(Fresh(Len(str) + 1), 0, str \o <<NUL>>),
   size |-> Len(str), capacity |-> Len(str),
   frames |-> x.frames + 1, joined |-> FALSE]

assign(x, str) ==
  [buffer |-> Over(Fresh(Len(str) + 1), 0, str \o <<NUL>>),
   size |-> Len(str), capacity |-> Len(str),
   frames |-> x.frames + 1 - Owned(x), joined |-> FALSE]

\* The old buffer is freed unless the capacity is 0.
reserve(x, n) ==
  [x EXCEPT !.buffer = Over(Fresh(n), 0, Text(x)), !.capacity = n, !.joined = FALSE,
            !.frames = @ + 1 - (IF x.capacity = 0 THEN 0 ELSE 1)]

room_Late(x) ==
  IF x.size > x.capacity \/ x.capacity = 0
  THEN reserve(x, IF x.capacity = 0 THEN 1 ELSE 2 * x.capacity) ELSE x

\* append(char) makes room...
room(x) ==
  IF x.size >= x.capacity
  THEN reserve(x, IF x.capacity = 0 THEN 1 ELSE 2 * x.capacity) ELSE x

\* ...and leaves the text without an end.
push(x, c) == [x EXCEPT !.buffer = Over(@, x.size, <<c>>), !.size = @ + 1]

\* append(String): the new size is counted twice into the capacity.
roomFor(x, n) == IF x.size + n >= x.capacity THEN reserve(x, x.size + n) ELSE x

join_StaleSize(x, str) ==
  [x EXCEPT !.buffer = Over(@, x.size, str), !.size = x.capacity,
            !.capacity = x.size + 2 * Len(str), !.joined = TRUE]

join(x, str) ==
  [x EXCEPT !.buffer = Over(@, x.size, str), !.size = @ + Len(str),
            !.capacity = x.size + 2 * Len(str), !.joined = TRUE]

terminate(x) == [x EXCEPT !.buffer = Over(@, x.size, <<NUL>>)]

pop_back_NoMark(x) == IF x.size = 0 THEN x ELSE [x EXCEPT !.size = @ - 1]

pop_back(x) == IF x.size = 0 THEN x ELSE terminate([x EXCEPT !.size = @ - 1])

clear(x) ==
  [x EXCEPT !.buffer = Over(@, 0, [i \in 1 .. x.capacity |-> NUL]), !.size = 0]

\* The texts a C function may find at the buffer: up to a NUL, or to any of the
\* old bytes, which may be one, or past the frame.
CTexts(x) ==
  LET ends == {i \in DOMAIN x.buffer : x.buffer[i] = NUL}
      last == IF ends = {} THEN Len(x.buffer) ELSE (CHOOSE i \in ends : \A j \in ends : i <= j) - 1
      text == [i \in 1 .. last |-> IF x.buffer[i] = Old THEN Other ELSE x.buffer[i]]
  IN  {SubSeq(text, 1, k) : k \in {last} \cup {j \in 0 .. last - 1 : x.buffer[j+1] = Old}}

\* Why bytes up to the one numbered last do not stay in the frame of x.
Beyond(x, last, reason) ==
  IF last <= Len(x.buffer) THEN "none"
  ELSE IF x.buffer = <<>> THEN "null"
  ELSE IF x.joined THEN "joined" ELSE reason

\* c_str's byte falls behind a frame the text fills.
Unended(x) == Beyond(x, x.size + 1, IF x.size = Len(x.buffer) THEN "full" ELSE "other")

\* The first harm of several steps.
FirstHarm(reasons) ==
  LET harms == {i \in DOMAIN reasons : reasons[i] # "none"}
  IN  IF harms = {} THEN "none" ELSE reasons[CHOOSE i \in harms : \A j \in harms : i <= j]

-----------------------------------------------------------------------------
StringInit ==
  /\ strings = [n \in Names |-> Default]
  /\ call = [op |-> "none"] /\ lost = 0 /\ harm = "none"

\* Between two calls the bytes behind the text and its end count as old ones.
Settled(x) ==
  [x EXCEPT !.buffer = [i \in DOMAIN @ |->
                          IF i <= x.size \/ (i = x.size + 1 /\ @[i] = NUL) THEN @[i] ELSE Old],
            !.frames = Owned(x)]

\* The call c made x of the string it is on...
Makes(c, x) ==
  /\ call' = c
  /\ strings' = [strings EXCEPT ![c.on] = Settled(x)]
  /\ lost' = x.frames - Owned(x)

\* ...and y of the one it takes its value from.
MakesBoth(c, x, y) ==
  /\ call' = c
  /\ strings' = [strings EXCEPT ![c.from] = Settled(y), ![c.on] = Settled(x)]
  /\ lost' = x.frames - Owned(x)

\* From a literal.
Set(n) ==
  \E str \in {<<>>} \cup {<<c>> : c \in Char} :
    /\ Makes([op |-> "set", on |-> n, with |-> str], assign(strings[n], str))
    /\ UNCHANGED harm

\* From another string, of which c_str is called.
Copy(n, m) ==
  /\ MakesBoth([op |-> "copy", on |-> n, from |-> m],
               assign(strings[n], Text(strings[m])), terminate(strings[m]))
  /\ harm' = FirstHarm(<<harm, Unended(strings[m])>>)

AppendChar(n) ==
  LET x == room(strings[n])
  IN  /\ strings[n].size < MaxText
      /\ \E c \in Char : Makes([op |-> "append", on |-> n, with |-> <<c>>], push(x, c))
      /\ harm' = FirstHarm(<<harm, Beyond(x, x.size + 1, "other")>>)

\* The value is copied, and so terminated, for each of its characters.
AppendString(n, m) ==
  LET y == strings[m]
      x == roomFor(strings[n], y.size)
  IN  /\ strings[n].size + y.size <= MaxText
      /\ MakesBoth([op |-> "join", on |-> n, from |-> m],
                   join(x, Text(y)), IF y.size = 0 THEN y ELSE terminate(y))
      /\ harm' = FirstHarm(<<harm, IF y.size = 0 THEN "none" ELSE Unended(y),
                             Beyond(x, x.size + y.size, "other")>>)

\* operator+=(char) takes the address of the character for a text: it ends
\* somewhere.
AddChar(n) ==
  \E c \in Char, tail \in {<<>>, <<Other>>} :
    LET str == <<c>> \o tail
        x   == roomFor(strings[n], Len(str))
    IN  /\ x.size + Len(str) <= MaxText
        /\ Makes([op |-> "add", on |-> n, with |-> <<c>>], join(x, str))
        /\ harm' = FirstHarm(<<harm, Beyond(x, x.size + Len(str), "other")>>)

\* n = l + m.  A new String is made of what C finds at the buffer of l; nobody
\* deletes it.
Plus(n, l, m) ==
  \E str \in CTexts(strings[l]) :
    LET y == strings[m]
        s == roomFor(assign(Default, str), y.size)
        t == join(s, Text(y))
        x == [assign(strings[n], Text(t)) EXCEPT !.frames = @ + t.frames + 1]
    IN  /\ strings[l].size + y.size <= MaxText /\ t.size <= MaxText
        /\ IF n = m THEN Makes([op |-> "plus", on |-> n, left |-> l, from |-> m], x)
           ELSE MakesBoth([op |-> "plus", on |-> n, left |-> l, from |-> m], x,
                          IF y.size = 0 THEN y ELSE terminate(y))
        /\ harm' = FirstHarm(<<harm, IF strings[l].buffer = <<>> THEN "null" ELSE "none",
                               IF y.size = 0 THEN "none" ELSE Unended(y),
                               Beyond(s, s.size + y.size, "other"),
                               IF t.size = Len(t.buffer) THEN "full" ELSE "none">>)

PopBack(n) ==
  /\ Makes([op |-> "pop", on |-> n], pop_back(strings[n]))
  /\ UNCHANGED harm

Clear(n) ==
  /\ Makes([op |-> "clear", on |-> n], clear(strings[n]))
  /\ harm' = FirstHarm(<<harm, Beyond(strings[n], strings[n].capacity, "other")>>)

CStr(n) ==
  /\ Makes([op |-> "c_str", on |-> n], terminate(strings[n]))
  /\ harm' = FirstHarm(<<harm, Unended(strings[n])>>)

StringNext ==
  \E n \in Names :
    \/ Set(n) \/ AppendChar(n) \/ AddChar(n) \/ PopBack(n) \/ Clear(n) \/ CStr(n)
    \/ \E m \in Names \ {n} : Copy(n, m) \/ AppendString(n, m)
    \/ \E l, m \in Names : Plus(n, l, m)

StringSpec == StringInit /\ [][StringNext]_stringVars

-----------------------------------------------------------------------------
StringTypeOK ==
  /\ \A n \in Names :
       LET x == strings[n]
       IN  /\ x.buffer \in Seq(Char \cup {NUL, Old, Other})
           /\ x.size \in 0 .. MaxText
           /\ x.capacity \in Nat /\ x.frames = Owned(x)
           /\ x.joined \in BOOLEAN
  /\ lost \in Int
  /\ harm \in {"none", "null", "full", "joined", "other"}

\* Memory outside of a string's frame is written in three situations only: c_str
\* of a string without a buffer, c_str of a text that fills its frame to the last
\* byte, and calls on a string that append(String) left with a capacity it does
\* not have.  In particular append(char), pop_back and the assignments never do.
HarmIsKnown ==
  /\ harm # "other"
  /\ \A n \in Names : LET x == strings[n]
                      IN  ~x.joined /\ harm = "none" => x.size <= x.capacity /\ x.capacity <= Len(x.buffer)

\* Every frame but the string's buffer is given back, and none twice, but for the
\* result of +, and for the buffer of an empty text that is appended to: reserve
\* frees none of capacity 0.
FramesComeBack ==
  [][lost' = 0 \/ (lost' > 0 /\ (call'.op = "plus" \/ strings[call'.on].size = 0))]_stringVars

\* Until harm is done the strings are the texts of Texts, but for += of a
\* character, and for + on a string whose text append left without an end.
Whole == INSTANCE Texts WITH
  text   <- [n \in Names |-> Text(strings[n])],
  sealed <- {n \in Names : LET x == strings[n]
                           IN  x.buffer = <<>> \/ (x.size < Len(x.buffer) /\ x.buffer[x.size + 1] = NUL)},
  harmed <- harm # "none"

TextsAreRight == Whole!TSpec
=============================================================================
