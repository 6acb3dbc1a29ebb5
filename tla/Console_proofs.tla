----------------------------- MODULE Console_proofs -----------------------------
(***************************************************************************)
(* Proofs about the shell, for every size of the screen, every keyboard    *)
(* map and whatever commands print: the screen shows the line Enter would  *)
(* run, writes stay in the buffer, and the keys' faults are the known      *)
(* ones.                                                                   *)
(***************************************************************************)
EXTENDS Console, TLAPS, WellFoundedInduction, SequenceTheorems

-----------------------------------------------------------------------------
\* Loops: induction over their turns, and the states they go through.

\* Every nonempty set of naturals has a least element.
LEMMA LeastElement ==
  ASSUME NEW T \in SUBSET Nat, T # {}
  PROVE  \E x \in T : \A y \in T : x <= y
<1>1. IsWellFoundedOn(OpToRel(<, Nat), Nat)  BY NatLessThanWellFounded
<1>2. \E x \in T : \A y \in T : ~(<<y, x>> \in OpToRel(<, Nat))
  BY <1>1, WFMin, Zenon
<1>3. \A x \in T, y \in T : <<y, x>> \in OpToRel(<, Nat) <=> y < x
  BY DEF OpToRel
<1>4. \E x \in T : \A y \in T : ~(y < x)  BY <1>2, <1>3, Zenon
<1> QED  BY <1>4

\* What holds before a loop of n turns, and is kept by each turn, holds after it;
\* S is the set of the turns after which it holds.
LEMMA EveryTurn ==
  ASSUME NEW n \in Nat, NEW S, 0 \in S, \A k \in 1 .. n : k-1 \in S => k \in S
  PROVE  \A k \in 0 .. n : k \in S
<1> DEFINE T == {k \in 0 .. n : k \notin S}
<1> SUFFICES ASSUME T # {} PROVE FALSE
  OBVIOUS
<1>1. T \in SUBSET Nat  OBVIOUS
<1> HIDE DEF T
<1>2. PICK x \in T : \A y \in T : x <= y  BY <1>1, LeastElement
<1>3. x \in 1 .. n /\ x \notin S  BY <1>2 DEF T
<1>4. x-1 \in 0 .. n /\ ~(x <= x-1)  BY <1>3
<1>5. x-1 \in S  BY <1>2, <1>4 DEF T
<1> QED  BY <1>3, <1>5

\* f holds the states of a loop that starts in a and makes step[k][v] of v in its
\* k-th turn.
Turns(f, a, step, n) == f[0] = a /\ \A k \in 1 .. n : f[k] = step[k][f[k-1]]

LEMMA LoopStates ==
  ASSUME NEW n \in Nat, NEW A, NEW a \in A, NEW step \in [1 .. n -> [A -> A]]
  PROVE  \E f \in [0 .. n -> A] :
           Turns(f, a, step, n)
<1> DEFINE Upto(m, f) == /\ f[0] = a
                         /\ \A k \in 1 .. m : f[k] = step[k][f[k-1]]
           S == {m \in 0 .. n : \E f \in [0 .. m -> A] : Upto(m, f)}
<1>1. 0 \in S
  <2> DEFINE g == [k \in 0 .. 0 |-> a]
  <2>1. g \in [0 .. 0 -> A] /\ Upto(0, g)  OBVIOUS
  <2> HIDE DEF g, Upto
  <2> QED  BY <2>1
<1>2. ASSUME NEW m \in 1 .. n, m-1 \in S
      PROVE  m \in S
  <2>1. PICK f \in [0 .. m-1 -> A] : Upto(m-1, f)  BY <1>2
  <2> DEFINE g == [k \in 0 .. m |-> IF k < m THEN f[k] ELSE step[m][f[m-1]]]
  <2>2. step[m][f[m-1]] \in A  OBVIOUS
  <2>3. g \in [0 .. m -> A]  BY <2>2
  <2>4. g[0] = a  BY <2>1
  <2>5. ASSUME NEW k \in 1 .. m PROVE g[k] = step[k][g[k-1]]
    <3>1. g[k-1] = f[k-1]  OBVIOUS
    <3>2. CASE k < m  BY <2>1, <3>1, <3>2
    <3>3. CASE k = m  BY <3>1, <3>3
    <3> QED  BY <3>2, <3>3
  <2>6. Upto(m, g)  BY <2>4, <2>5
  <2> HIDE DEF g, Upto
  <2> QED  BY <2>3, <2>6
<1>3. n \in S
  <2>1. \A m \in 1 .. n : m-1 \in S => m \in S  BY <1>2
  <2> HIDE DEF S
  <2>2. \A m \in 0 .. n : m \in S  BY <1>1, <2>1, EveryTurn, Zenon
  <2> QED  BY <2>2
<1>4. PICK f \in [0 .. n -> A] : Upto(n, f)  BY <1>3
<1> QED  BY <1>4 DEF Turns

-----------------------------------------------------------------------------
\* The screen's record: what setting one field does to all of them.

Grid == [Cells -> Chars]
Addresses == 0 .. Positions-1

LEMMA ScreenIs ==
  Screen = [row : Nat, column : Int, vga : Grid, cursor : Addresses,
            prompt : Int, stray : BOOLEAN]
BY DEF Screen, Grid, Addresses

LEMMA Fields ==
  ASSUME NEW s \in Screen
  PROVE  /\ s.row \in Nat /\ s.column \in Int /\ s.vga \in Grid
         /\ s.cursor \in Addresses /\ s.prompt \in Int /\ s.stray \in BOOLEAN
BY ScreenIs

LEMMA SetRow ==
  ASSUME NEW s \in Screen, NEW v \in Nat
  PROVE  LET t == [s EXCEPT !.row = v]
         IN  /\ t \in Screen /\ t.row = v
             /\ t.column = s.column /\ t.vga = s.vga /\ t.cursor = s.cursor
             /\ t.prompt = s.prompt /\ t.stray = s.stray
BY ScreenIs, Zenon

LEMMA SetColumn ==
  ASSUME NEW s \in Screen, NEW v \in Int
  PROVE  LET t == [s EXCEPT !.column = v]
         IN  /\ t \in Screen /\ t.column = v
             /\ t.row = s.row /\ t.vga = s.vga /\ t.cursor = s.cursor
             /\ t.prompt = s.prompt /\ t.stray = s.stray
BY ScreenIs, Zenon

LEMMA SetVga ==
  ASSUME NEW s \in Screen, NEW v \in Grid
  PROVE  LET t == [s EXCEPT !.vga = v]
         IN  /\ t \in Screen /\ t.vga = v
             /\ t.row = s.row /\ t.column = s.column /\ t.cursor = s.cursor
             /\ t.prompt = s.prompt /\ t.stray = s.stray
BY ScreenIs, Zenon

LEMMA SetCursor ==
  ASSUME NEW s \in Screen, NEW v \in Addresses
  PROVE  LET t == [s EXCEPT !.cursor = v]
         IN  /\ t \in Screen /\ t.cursor = v
             /\ t.row = s.row /\ t.column = s.column /\ t.vga = s.vga
             /\ t.prompt = s.prompt /\ t.stray = s.stray
BY ScreenIs, Zenon

LEMMA SetPrompt ==
  ASSUME NEW s \in Screen, NEW v \in Int
  PROVE  LET t == [s EXCEPT !.prompt = v]
         IN  /\ t \in Screen /\ t.prompt = v
             /\ t.row = s.row /\ t.column = s.column /\ t.vga = s.vga
             /\ t.cursor = s.cursor /\ t.stray = s.stray
BY ScreenIs, Zenon

LEMMA SetStray ==
  ASSUME NEW s \in Screen, NEW v \in BOOLEAN
  PROVE  LET t == [s EXCEPT !.stray = v]
         IN  /\ t \in Screen /\ t.stray = v
             /\ t.row = s.row /\ t.column = s.column /\ t.vga = s.vga
             /\ t.cursor = s.cursor /\ t.prompt = s.prompt
BY ScreenIs, Zenon

LEMMA Sizes == VGA_WIDTH \in Nat \ {0, 1} /\ VGA_HEIGHT \in Nat \ {0, 1}
BY ConsoleAssumption

-----------------------------------------------------------------------------
\* The steps of putchar, field by field.

\* Row and column may be any while kernel_main moves the cursor; else they are on
\* the screen.
Sound(s) == s \in Screen
Good(s)  == Sound(s) /\ s.column < VGA_WIDTH /\ s.row < VGA_HEIGHT

\* What is on the screen in s is in t too, and a row below the first still is.
Stays(s, t) ==
  /\ s.row < VGA_HEIGHT => t.row < VGA_HEIGHT
  /\ s.column < VGA_WIDTH => t.column < VGA_WIDTH
  /\ s.row > 0 => t.row > 0

LEMMA StaysTwice ==
  ASSUME NEW s, NEW t, NEW u, Stays(s, t), Stays(t, u)
  PROVE  Stays(s, u)
BY Zenon DEF Stays

LEMMA StaysGood ==
  ASSUME NEW s, NEW t, Good(s), Sound(t), Stays(s, t)
  PROVE  Good(t)
BY Zenon DEF Stays, Good

LEMMA AtIsInt ==
  ASSUME NEW s \in Screen
  PROVE  At(s) \in Int /\ At(s) = s.row * VGA_WIDTH + s.column
         /\ s.row * VGA_WIDTH \in Nat
         /\ (s.row + 1) * VGA_WIDTH = s.row * VGA_WIDTH + VGA_WIDTH
<1>1. s.row \in Nat /\ s.column \in Int  BY Fields
<1>2. s.row * VGA_WIDTH \in Nat  BY <1>1, Sizes
<1>3. (s.row + 1) * VGA_WIDTH = s.row * VGA_WIDTH + VGA_WIDTH  BY <1>1, Sizes
<1> QED  BY <1>1, <1>2, <1>3 DEF At

\* A line on the screen has all its cells in the buffer.
LEMMA RowIsInBuffer ==
  ASSUME NEW s, Good(s)
  PROVE  /\ VGA_WIDTH * VGA_HEIGHT \in Nat
         /\ s.row * VGA_WIDTH + VGA_WIDTH <= VGA_WIDTH * VGA_HEIGHT
         /\ At(s) < VGA_WIDTH * VGA_HEIGHT
<1>1. s \in Screen /\ s.row \in Nat /\ s.column \in Int
      /\ s.column < VGA_WIDTH /\ s.row < VGA_HEIGHT
  BY Fields DEF Good, Sound
<1> DEFINE d == VGA_HEIGHT - (s.row + 1)
           r == s.row
<1>2. d \in Nat /\ r \in Nat /\ VGA_HEIGHT = r + 1 + d  BY <1>1, Sizes
<1>3. At(s) = r * VGA_WIDTH + s.column  BY <1>1, AtIsInt
<1> HIDE DEF d
<1>4. s.column < VGA_WIDTH /\ s.column \in Int  BY <1>1
<1> HIDE DEF r
<1>5. VGA_WIDTH * (r + 1 + d) = r * VGA_WIDTH + VGA_WIDTH + VGA_WIDTH * d
  BY <1>2, Sizes
<1>6. VGA_WIDTH * d \in Nat /\ r * VGA_WIDTH \in Nat  BY <1>2, Sizes
<1>7. VGA_WIDTH * VGA_HEIGHT = r * VGA_WIDTH + VGA_WIDTH + VGA_WIDTH * d
  BY <1>2, <1>5
<1> QED  BY <1>3, <1>4, <1>6, <1>7, Sizes DEF r

LEMMA CursorIs ==
  ASSUME NEW s \in Screen
  PROVE  LET t == updateCursor(s)
         IN  /\ t \in Screen
             /\ t.row = s.row /\ t.column = s.column /\ t.vga = s.vga
             /\ t.prompt = s.prompt /\ t.stray = s.stray
<1> DEFINE a == At(s) % Positions
<1>1. a \in Addresses
  <2>1. Positions \in Nat /\ Positions > 0  BY DEF Positions
  <2> QED  BY <2>1, AtIsInt DEF Addresses
<1> HIDE DEF a
<1>2. updateCursor(s) = [s EXCEPT !.cursor = a]  BY DEF updateCursor, a
<1> QED  BY <1>1, <1>2, SetCursor

LEMMA NewLineIs ==
  ASSUME NEW s \in Screen
  PROVE  LET t == newLine(s)
         IN  /\ t \in Screen
             /\ t.row = s.row + 1 /\ t.column = 0 /\ t.vga = s.vga
             /\ t.prompt = s.prompt /\ t.stray = s.stray
<1> DEFINE u == [s EXCEPT !.column = 0]
           r == s.row + 1
<1>1. newLine(s) = [u EXCEPT !.row = r]  BY Zenon DEF newLine
<1>2. r \in Nat  BY Fields
<1>3. /\ u \in Screen /\ u.row = s.row /\ u.column = 0 /\ u.vga = s.vga
      /\ u.prompt = s.prompt /\ u.stray = s.stray
  BY SetColumn
<1> HIDE DEF u
<1>4. LET t == [u EXCEPT !.row = r]
      IN  /\ t \in Screen
          /\ t.row = r /\ t.column = u.column /\ t.vga = u.vga
          /\ t.prompt = u.prompt /\ t.stray = u.stray
  BY <1>2, <1>3, SetRow
<1> QED  BY <1>1, <1>3, <1>4

LEMMA AdvanceIs ==
  ASSUME NEW s \in Screen
  PROVE  LET t == advance(s)
         IN  /\ t \in Screen /\ At(t) = At(s) + 1
             /\ s.column + 1 # VGA_WIDTH => t.row = s.row /\ t.column = s.column + 1
             /\ s.column + 1 = VGA_WIDTH => t.row = s.row + 1 /\ t.column = 0
             /\ t.vga = s.vga /\ t.prompt = s.prompt /\ t.stray = s.stray
<1> DEFINE c == s.column + 1
<1>1. c \in Int /\ s.column \in Int /\ s.row \in Nat  BY Fields
<1>2. CASE c = VGA_WIDTH
  <2>1. advance(s) = newLine(s)  BY <1>2 DEF advance
  <2>2. At(newLine(s)) = At(s) + 1
    <3>1. At(newLine(s)) = (s.row + 1) * VGA_WIDTH + 0
      BY NewLineIs DEF At
    <3> QED  BY <1>1, <1>2, <3>1, AtIsInt, Sizes
  <2> QED  BY <1>2, <2>1, <2>2, NewLineIs
<1>3. CASE c # VGA_WIDTH
  <2> DEFINE t == [s EXCEPT !.column = c]
  <2>1. advance(s) = t  BY <1>3 DEF advance
  <2>2. /\ t \in Screen /\ t.row = s.row /\ t.column = c /\ t.vga = s.vga
        /\ t.prompt = s.prompt /\ t.stray = s.stray
    BY <1>1, SetColumn
  <2> HIDE DEF t
  <2>3. At(t) = s.row * VGA_WIDTH + c  BY <2>2 DEF At
  <2>4. At(t) = At(s) + 1  BY <2>3, <1>1, AtIsInt
  <2> QED  BY <1>3, <2>1, <2>2, <2>4
<1> QED  BY <1>2, <1>3

LEMMA WriteIs ==
  ASSUME NEW s \in Screen, NEW c \in Chars
  PROVE  LET t == write(s, c)
         IN  /\ t \in Screen
             /\ t.row = s.row /\ t.column = s.column /\ t.prompt = s.prompt
             /\ t.stray = (s.stray \/ At(s) \notin Cells)
             /\ \A k \in Cells : t.vga[k] = IF k = At(s) THEN c ELSE s.vga[k]
<1>1. CASE At(s) \in Cells
  <2> DEFINE g == [s.vga EXCEPT ![At(s)] = c]
             t == [s EXCEPT !.vga = g]
  <2>1. write(s, c) = t  BY <1>1 DEF write
  <2>2. s.vga \in [Cells -> Chars]  BY Fields DEF Grid
  <2>3. g \in Grid /\ \A k \in Cells : g[k] = IF k = At(s) THEN c ELSE s.vga[k]
    BY <2>2 DEF Grid
  <2> HIDE DEF g
  <2>4. /\ t \in Screen /\ t.vga = g
        /\ t.row = s.row /\ t.column = s.column /\ t.prompt = s.prompt
        /\ t.stray = s.stray
    BY <2>3, SetVga
  <2> HIDE DEF t
  <2>5. s.stray \in BOOLEAN  BY Fields
  <2> QED  BY <1>1, <2>1, <2>3, <2>4, <2>5
<1>2. CASE At(s) \notin Cells
  <2> DEFINE t == [s EXCEPT !.stray = TRUE]
  <2>1. write(s, c) = t  BY <1>2 DEF write
  <2>2. /\ t \in Screen /\ t.stray = TRUE /\ t.vga = s.vga
        /\ t.row = s.row /\ t.column = s.column /\ t.prompt = s.prompt
    BY SetStray
  <2> HIDE DEF t
  <2>3. s.stray \in BOOLEAN  BY Fields
  <2> QED  BY <1>2, <2>1, <2>2, <2>3
<1> QED  BY <1>1, <1>2

LEMMA ScrollIs ==
  ASSUME NEW s \in Screen
  PROVE  LET t == scroll(s)
         IN  /\ t \in Screen
             /\ t.row = s.row /\ t.column = s.column /\ t.stray = s.stray
             /\ t.prompt = s.prompt - VGA_WIDTH
             /\ \A k \in Cells : k + VGA_WIDTH \in Cells => t.vga[k] = s.vga[k + VGA_WIDTH]
<1> DEFINE g == [k \in Cells |-> IF k + VGA_WIDTH \in Cells
                                 THEN s.vga[k + VGA_WIDTH] ELSE Space]
           p == s.prompt - VGA_WIDTH
           u == [s EXCEPT !.vga = g]
<1>1. Space \in Chars  BY DEF Chars
<1>2. s.vga \in [Cells -> Chars]  BY Fields DEF Grid
<1>3. g \in Grid  BY <1>1, <1>2 DEF Grid
<1>4. \A k \in Cells : k + VGA_WIDTH \in Cells => g[k] = s.vga[k + VGA_WIDTH]
  OBVIOUS
<1>5. p \in Int  BY Fields, Sizes
<1>6. scroll(s) = [u EXCEPT !.prompt = p]  BY Zenon DEF scroll
<1> HIDE DEF g, p
<1>7. /\ u \in Screen /\ u.vga = g
      /\ u.row = s.row /\ u.column = s.column /\ u.stray = s.stray
  BY <1>3, SetVga
<1> HIDE DEF u
<1>8. LET t == [u EXCEPT !.prompt = p]
      IN  /\ t \in Screen /\ t.vga = u.vga /\ t.prompt = p
          /\ t.row = u.row /\ t.column = u.column /\ t.stray = u.stray
  BY <1>5, <1>7, SetPrompt
<1> QED  BY <1>4, <1>6, <1>7, <1>8 DEF p

\* A row that fills the screen scrolls it up by one line, d cells; no other row
\* does.
LEMMA ScrollIfFullIs ==
  ASSUME NEW s \in Screen
  PROVE  LET t == scrollIfFull(s)
         IN  /\ t \in Screen /\ t.column = s.column /\ t.stray = s.stray
             /\ s.row < VGA_HEIGHT => t = s
             /\ s.row <= VGA_HEIGHT => t.row < VGA_HEIGHT
             /\ s.row > 0 => t.row > 0
             /\ \E d \in {0, VGA_WIDTH} :
                  /\ At(t) = At(s) - d /\ t.prompt = s.prompt - d
                  /\ \A k \in Cells : k + d \in Cells => t.vga[k] = s.vga[k + d]
<1>1. CASE s.row = VGA_HEIGHT
  <2> DEFINE r == s.row - 1
             u == [s EXCEPT !.row = r]
  <2>1. r \in Nat /\ r < VGA_HEIGHT /\ s.row = r + 1 /\ r > 0  BY <1>1, Sizes
  <2>2. scrollIfFull(s) = scroll(u)  BY <1>1 DEF scrollIfFull
  <2> HIDE DEF r
  <2>3. /\ u \in Screen /\ u.row = r /\ u.vga = s.vga /\ u.column = s.column
        /\ u.prompt = s.prompt /\ u.stray = s.stray
    BY <2>1, SetRow
  <2> HIDE DEF u
  <2> DEFINE t == scroll(u)
  <2>4. /\ t \in Screen
        /\ t.row = r /\ t.column = s.column /\ t.stray = s.stray
        /\ t.prompt = s.prompt - VGA_WIDTH
        /\ \A k \in Cells : k + VGA_WIDTH \in Cells => t.vga[k] = s.vga[k + VGA_WIDTH]
    BY <2>3, ScrollIs
  <2> HIDE DEF t
  <2>5. At(t) = At(s) - VGA_WIDTH
    <3>1. At(s) = (r + 1) * VGA_WIDTH + s.column  BY <2>1, AtIsInt
    <3>2. At(t) = r * VGA_WIDTH + s.column  BY <2>4, AtIsInt
    <3>3. (r + 1) * VGA_WIDTH = r * VGA_WIDTH + VGA_WIDTH  BY <2>1, Sizes
    <3>4. r * VGA_WIDTH \in Nat /\ s.column \in Int  BY <2>1, Sizes, Fields
    <3> QED  BY <3>1, <3>2, <3>3, <3>4, Sizes
  <2> QED  BY <1>1, <2>1, <2>2, <2>4, <2>5, Sizes DEF t
<1>2. CASE s.row # VGA_HEIGHT
  <2>1. scrollIfFull(s) = s  BY <1>2 DEF scrollIfFull
  <2>2. s.row \in Nat /\ s.prompt \in Int /\ At(s) \in Int  BY Fields, AtIsInt
  <2>3. \A k \in Cells : s.vga[k] = s.vga[k + 0]  BY DEF Cells
  <2>4. At(s) = At(s) - 0 /\ s.prompt = s.prompt - 0  BY <2>2
  <2>5. s.row <= VGA_HEIGHT => s.row < VGA_HEIGHT  BY <2>2, <1>2, Sizes
  <2> QED  BY <2>1, <2>3, <2>4, <2>5
<1> QED  BY <1>1, <1>2

\* putchar of a line feed.
LEMMA PutcharNewLine ==
  ASSUME NEW s, Sound(s)
  PROVE  LET t == putchar(s, NewLine)
         IN  Sound(t) /\ t.stray = s.stray /\ t.column = 0 /\ Stays(s, t)
<1> DEFINE u == newLine(s)
           v == scrollIfFull(u)
<1>1. s \in Screen /\ s.row \in Nat  BY Fields DEF Sound
<1>2. /\ u \in Screen /\ u.row = s.row + 1 /\ u.column = 0 /\ u.stray = s.stray
  BY <1>1, NewLineIs
<1>3. putchar(s, NewLine) = updateCursor(v)  BY DEF putchar
<1> HIDE DEF u
<1>4. /\ v \in Screen /\ v.column = u.column /\ v.stray = u.stray
      /\ u.row <= VGA_HEIGHT => v.row < VGA_HEIGHT
      /\ u.row > 0 => v.row > 0
  BY <1>2, ScrollIfFullIs
<1> HIDE DEF v
<1> DEFINE t == updateCursor(v)
<1>5. t \in Screen /\ t.row = v.row /\ t.column = v.column /\ t.stray = v.stray
  BY <1>4, CursorIs
<1> HIDE DEF t
<1>6. Stays(s, t)  BY <1>1, <1>2, <1>4, <1>5, Sizes DEF Stays
<1> QED  BY <1>2, <1>3, <1>4, <1>5, <1>6 DEF Sound, t

\* putchar of any other character: the character at the cursor, the cursor behind
\* it, and perhaps all of it d cells up.
LEMMA PutcharIs ==
  ASSUME NEW s, Sound(s), NEW c \in Chars \ {NewLine}
  PROVE  LET t == putchar(s, c)
         IN  /\ Sound(t) /\ Stays(s, t)
             /\ s.column >= -1 => t.column >= 0
             /\ s.column + 1 # VGA_WIDTH /\ s.row < VGA_HEIGHT =>
                  t.row = s.row /\ t.column = s.column + 1
             /\ t.stray = (s.stray \/ At(s) \notin Cells)
             /\ s.row < VGA_HEIGHT =>
                  \E d \in {0, VGA_WIDTH} :
                    /\ At(t) = At(s) + 1 - d /\ t.prompt = s.prompt - d
                    /\ \A k \in Cells : k + d \in Cells =>
                         t.vga[k] = IF k + d = At(s) THEN c ELSE s.vga[k + d]
<1> DEFINE w == write(s, c)
           u == advance(w)
           v == scrollIfFull(u)
           t == updateCursor(v)
<1>1. s \in Screen /\ s.row \in Nat /\ s.column \in Int /\ At(s) \in Int
  BY Fields, AtIsInt DEF Sound
<1>2. putchar(s, c) = t  BY DEF putchar
<1>3. /\ w \in Screen /\ w.row = s.row /\ w.column = s.column /\ w.prompt = s.prompt
      /\ w.stray = (s.stray \/ At(s) \notin Cells)
      /\ \A k \in Cells : w.vga[k] = IF k = At(s) THEN c ELSE s.vga[k]
  BY <1>1, WriteIs
<1> HIDE DEF w
<1>4. At(w) = At(s)  BY <1>3 DEF At
<1>5. /\ u \in Screen /\ At(u) = At(w) + 1
      /\ w.column + 1 # VGA_WIDTH => u.row = w.row /\ u.column = w.column + 1
      /\ w.column + 1 = VGA_WIDTH => u.row = w.row + 1 /\ u.column = 0
      /\ u.vga = w.vga /\ u.prompt = w.prompt /\ u.stray = w.stray
  BY <1>3, AdvanceIs
<1> HIDE DEF u
<1>6. /\ v \in Screen /\ v.column = u.column /\ v.stray = u.stray
      /\ u.row < VGA_HEIGHT => v = u
      /\ u.row <= VGA_HEIGHT => v.row < VGA_HEIGHT
      /\ u.row > 0 => v.row > 0
      /\ \E d \in {0, VGA_WIDTH} :
           /\ At(v) = At(u) - d /\ v.prompt = u.prompt - d
           /\ \A k \in Cells : k + d \in Cells => v.vga[k] = u.vga[k + d]
  BY <1>5, ScrollIfFullIs
<1> HIDE DEF v
<1>7. /\ t \in Screen /\ t.row = v.row /\ t.column = v.column /\ t.vga = v.vga
      /\ t.prompt = v.prompt /\ t.stray = v.stray
  BY <1>6, CursorIs
<1> HIDE DEF t
<1>8. At(t) = At(v)  BY <1>7 DEF At
<1>9. Sound(t)  BY <1>7 DEF Sound
<1>10. Stays(s, t)
  <2>1. t.row = v.row /\ t.column = u.column  BY <1>6, <1>7
  <2>2. s.row < VGA_HEIGHT => v.row < VGA_HEIGHT
    BY <1>1, <1>3, <1>5, <1>6, Sizes
  <2>3. s.column < VGA_WIDTH => u.column < VGA_WIDTH  BY <1>1, <1>3, <1>5, Sizes
  <2>4. s.row > 0 => v.row > 0  BY <1>1, <1>3, <1>5, <1>6
  <2> QED  BY <2>1, <2>2, <2>3, <2>4 DEF Stays
<1>11. s.column >= -1 => t.column >= 0
  BY <1>1, <1>3, <1>5, <1>6, <1>7
<1>12. t.stray = (s.stray \/ At(s) \notin Cells)
  BY <1>3, <1>5, <1>6, <1>7, Zenon
<1>13. \E d \in {0, VGA_WIDTH} :
         /\ At(t) = At(s) + 1 - d /\ t.prompt = s.prompt - d
         /\ \A k \in Cells : k + d \in Cells =>
              t.vga[k] = IF k + d = At(s) THEN c ELSE s.vga[k + d]
  <2>1. PICK d \in {0, VGA_WIDTH} :
           /\ At(v) = At(u) - d /\ v.prompt = u.prompt - d
           /\ \A k \in Cells : k + d \in Cells => v.vga[k] = u.vga[k + d]
    BY <1>6
  <2>2. At(t) = At(s) + 1 - d /\ t.prompt = s.prompt - d
    <3>1. At(u) = At(s) + 1  BY <1>4, <1>5, Zenon
    <3>2. At(v) = At(u) - d /\ v.prompt = u.prompt - d  BY <2>1
    <3>3. u.prompt = s.prompt  BY <1>3, <1>5, Zenon
    <3>4. At(t) = At(v) /\ t.prompt = v.prompt  BY <1>7, <1>8, Zenon
    <3>5. At(s) \in Int /\ d \in Int  BY <1>1, Sizes
    <3>6. At(t) = At(s) + 1 - d  BY <3>1, <3>2, <3>4, <3>5
    <3>7. t.prompt = s.prompt - d  BY <3>2, <3>3, <3>4
    <3> QED  BY <3>6, <3>7
  <2>3. \A k \in Cells : k + d \in Cells =>
              t.vga[k] = IF k + d = At(s) THEN c ELSE s.vga[k + d]
    BY <2>1, <1>3, <1>5, <1>7
  <2> QED  BY <2>2, <2>3
<1>14. s.column + 1 # VGA_WIDTH /\ s.row < VGA_HEIGHT =>
         t.row = s.row /\ t.column = s.column + 1
  BY <1>3, <1>5, <1>6, <1>7
<1> QED  BY <1>2, <1>9, <1>10, <1>11, <1>12, <1>13, <1>14

LEMMA PutcharSound ==
  ASSUME NEW s, Sound(s), NEW c \in Chars
  PROVE  /\ Sound(putchar(s, c)) /\ Stays(s, putchar(s, c))
         /\ s.column >= 0 => putchar(s, c).column >= 0
         /\ s.column >= 0 /\ Good(s) => putchar(s, c).stray = s.stray
<1>1. CASE c = NewLine  BY <1>1, PutcharNewLine
<1>2. CASE c # NewLine
  <2>1. s.column \in Int /\ s.row \in Nat /\ s.stray \in BOOLEAN  BY Fields DEF Sound
  <2>2. s.column >= 0 /\ Good(s) => At(s) \in Cells
    <3> SUFFICES ASSUME s.column >= 0, Good(s) PROVE At(s) \in Cells
      OBVIOUS
    <3>1. s \in Screen  BY DEF Sound
    <3> QED  BY <3>1, <2>1, RowIsInBuffer, AtIsInt DEF Cells
  <2>3. c \in Chars \ {NewLine}  BY <1>2
  <2>4. /\ Sound(putchar(s, c)) /\ Stays(s, putchar(s, c))
        /\ s.column >= -1 => putchar(s, c).column >= 0
        /\ putchar(s, c).stray = (s.stray \/ At(s) \notin Cells)
    BY <2>3, PutcharIs
  <2>5. s.column >= 0 => s.column >= -1  BY <2>1
  <2> QED  BY <2>1, <2>2, <2>4, <2>5
<1> QED  BY <1>1, <1>2

LEMMA LeftIs ==
  ASSUME NEW s, Sound(s)
  PROVE  LET t == left(s)
         IN  /\ Sound(t) /\ t.row = s.row /\ t.column = s.column - 1
             /\ Stays(s, t) /\ At(t) = At(s) - 1
             /\ t.vga = s.vga /\ t.prompt = s.prompt /\ t.stray = s.stray
<1> DEFINE c == s.column - 1
           t == [s EXCEPT !.column = c]
<1>1. /\ s \in Screen /\ s.row \in Nat /\ s.column \in Int
      /\ s.row * VGA_WIDTH \in Nat
  BY Fields, AtIsInt DEF Sound
<1>2. left(s) = t  BY DEF left
<1>3. c \in Int /\ (s.column < VGA_WIDTH => c < VGA_WIDTH)  BY <1>1, Sizes
<1>4. /\ t \in Screen /\ t.row = s.row /\ t.column = c /\ t.vga = s.vga
      /\ t.prompt = s.prompt /\ t.stray = s.stray
  BY <1>1, <1>3, SetColumn
<1> HIDE DEF t
<1>5. At(t) = At(s) - 1  BY <1>1, <1>4 DEF At
<1>6. Stays(s, t)  BY <1>3, <1>4 DEF Stays
<1> QED  BY <1>2, <1>4, <1>5, <1>6 DEF Sound

\* erase blanks the character before the cursor and leaves the cursor there.  It
\* never wraps: the cursor goes left without end.
LEMMA EraseIs ==
  ASSUME NEW s, Sound(s)
  PROVE  LET t == erase(s)
         IN  /\ Sound(t) /\ Stays(s, t)
             /\ Good(s) =>
                  /\ At(t) = At(s) - 1 /\ t.prompt = s.prompt
                  /\ t.stray = (s.stray \/ At(s) - 1 \notin Cells)
                  /\ \A k \in Cells : k # At(s) - 1 => t.vga[k] = s.vga[k]
<1> DEFINE l == left(s)
           p == putchar(l, Space)
           m == left(p)
           t == updateCursor(m)
<1>1. /\ s \in Screen /\ s.row \in Nat /\ s.column \in Int /\ s.prompt \in Int
      /\ At(s) \in Int
  BY Fields, AtIsInt DEF Sound
<1>2. erase(s) = t  BY DEF erase
<1>3. /\ Sound(l) /\ l.row = s.row /\ l.column = s.column - 1
      /\ Stays(s, l) /\ At(l) = At(s) - 1
      /\ l.vga = s.vga /\ l.prompt = s.prompt /\ l.stray = s.stray
  BY LeftIs
<1> HIDE DEF l
<1>4. Space \in Chars \ {NewLine}  BY DEF Chars, Space, NewLine
<1>5. /\ Sound(p) /\ Stays(l, p)
      /\ l.column + 1 # VGA_WIDTH /\ l.row < VGA_HEIGHT =>
           p.row = l.row /\ p.column = l.column + 1
      /\ p.stray = (l.stray \/ At(l) \notin Cells)
      /\ l.row < VGA_HEIGHT =>
           \E d \in {0, VGA_WIDTH} :
             /\ At(p) = At(l) + 1 - d /\ p.prompt = l.prompt - d
             /\ \A k \in Cells : k + d \in Cells =>
                  p.vga[k] = IF k + d = At(l) THEN Space ELSE l.vga[k + d]
  BY <1>3, <1>4, PutcharIs
<1> HIDE DEF p
<1>6. /\ Sound(m) /\ Stays(p, m) /\ At(m) = At(p) - 1
      /\ m.vga = p.vga /\ m.prompt = p.prompt /\ m.stray = p.stray
  BY <1>5, LeftIs
<1> HIDE DEF m
<1>7. /\ t \in Screen /\ t.row = m.row /\ t.column = m.column /\ t.vga = m.vga
      /\ t.prompt = m.prompt /\ t.stray = m.stray
  BY <1>6, CursorIs DEF Sound
<1> HIDE DEF t
<1>8. At(t) = At(m)  BY <1>7 DEF At
<1>9. Sound(t) /\ Stays(s, t)
  <2>1. Stays(m, t)  BY <1>7 DEF Stays
  <2>2. Stays(s, m)  BY <1>3, <1>5, <1>6, StaysTwice, Zenon
  <2> QED  BY <1>7, <2>1, <2>2, StaysTwice DEF Sound
<1>10. ASSUME Good(s)
       PROVE  /\ At(t) = At(s) - 1 /\ t.prompt = s.prompt
              /\ t.stray = (s.stray \/ At(s) - 1 \notin Cells)
              /\ \A k \in Cells : k # At(s) - 1 => t.vga[k] = s.vga[k]
  <2> s.row < VGA_HEIGHT /\ s.column < VGA_WIDTH  BY <1>10 DEF Good
  <2>1. p.row = s.row /\ p.column = s.column
    BY <1>1, <1>3, <1>5, Sizes
  <2>2. At(p) = At(s)  BY <2>1 DEF At
  <2>3. PICK d \in {0, VGA_WIDTH} :
           /\ At(p) = At(l) + 1 - d /\ p.prompt = l.prompt - d
           /\ \A k \in Cells : k + d \in Cells =>
                p.vga[k] = IF k + d = At(l) THEN Space ELSE l.vga[k + d]
    BY <1>3, <1>5
  <2>4. d = 0  BY <1>1, <1>3, <2>2, <2>3, Sizes
  <2>5. \A k \in Cells : k + 0 = k  BY DEF Cells
  <2>6. \A k \in Cells : p.vga[k] = IF k = At(l) THEN Space ELSE l.vga[k]
    BY <2>3, <2>4, <2>5
  <2>7. p.prompt = s.prompt  BY <1>1, <1>3, <2>3, <2>4
  <2>8. At(t) = At(s) - 1  BY <1>6, <1>8, <2>2
  <2>9. t.stray = (s.stray \/ At(s) - 1 \notin Cells)
    BY <1>3, <1>5, <1>6, <1>7, Zenon
  <2>10. \A k \in Cells : k # At(s) - 1 => t.vga[k] = s.vga[k]
    BY <1>3, <1>6, <1>7, <2>6
  <2> QED  BY <1>6, <1>7, <2>7, <2>8, <2>9, <2>10
<1> QED  BY <1>2, <1>9, <1>10

-----------------------------------------------------------------------------
\* The text before the cursor.

Behind(s, txt) ==
  \A k \in 1 .. Len(txt) :
    LET a == At(s) - Len(txt) + k - 1 IN a \in Cells => s.vga[a] = txt[k]

Plain == Chars \ {NewLine}

LEMMA FrontIs ==
  ASSUME NEW S, NEW txt \in Seq(S), txt # <<>>
  PROVE  /\ Front(txt) \in Seq(S) /\ Len(txt) \in Nat \ {0}
         /\ Len(Front(txt)) = Len(txt) - 1
         /\ \A k \in 1 .. Len(txt) - 1 : Front(txt)[k] = txt[k]
<1> DEFINE n == Len(txt)
           m == n - 1
           f == SubSeq(txt, 1, m)
<1>1. n \in Nat \ {0} /\ \A k \in 1 .. n : txt[k] \in S  BY LenProperties
<1>2. Front(txt) = f  BY DEF Front
<1> HIDE DEF n
<1>3. m \in Nat /\ m = n - 1 /\ \A k \in 1 .. m : txt[k] \in S  BY <1>1
<1> HIDE DEF m
<1>4. /\ f \in Seq(S)
      /\ Len(f) = IF 1 <= m THEN m - 1 + 1 ELSE 0
      /\ \A k \in 1 .. m - 1 + 1 : f[k] = txt[1 + k - 1]
  BY <1>3, SubSeqProperties
<1> HIDE DEF f
<1>5. Len(f) = m  BY <1>3, <1>4
<1>6. \A k \in 1 .. m : k \in 1 .. m - 1 + 1 /\ 1 + k - 1 = k  BY <1>3
<1>7. \A k \in 1 .. m : f[k] = txt[k]  BY <1>4, <1>6
<1> QED  BY <1>1, <1>2, <1>3, <1>4, <1>5, <1>7 DEF n

LEMMA PutcharBehind ==
  ASSUME NEW s, Good(s), NEW txt \in Seq(Plain), Behind(s, txt), NEW c \in Plain
  PROVE  LET t == putchar(s, c)
         IN  /\ Good(t) /\ Behind(t, Append(txt, c))
             /\ At(t) - t.prompt = At(s) - s.prompt + 1
             /\ t.prompt <= s.prompt
             /\ t.stray => s.stray \/ s.prompt > At(s) \/ s.prompt < 0
<1> DEFINE t == putchar(s, c)
           n == Len(txt)
<1>1. /\ s \in Screen /\ At(s) \in Int /\ s.prompt \in Int /\ At(s) < VGA_WIDTH * VGA_HEIGHT
      /\ VGA_WIDTH * VGA_HEIGHT \in Nat /\ Sound(s) /\ s.row < VGA_HEIGHT
  BY Fields, AtIsInt, RowIsInBuffer DEF Good, Sound
<1>2. c \in Chars \ {NewLine}  BY DEF Plain
<1>3. /\ Good(t)
      /\ t.stray = (s.stray \/ At(s) \notin Cells)
      /\ \E d \in {0, VGA_WIDTH} :
           /\ At(t) = At(s) + 1 - d /\ t.prompt = s.prompt - d
           /\ \A k \in Cells : k + d \in Cells =>
                t.vga[k] = IF k + d = At(s) THEN c ELSE s.vga[k + d]
  BY <1>1, <1>2, PutcharIs, StaysGood
<1> HIDE DEF t
<1>4. PICK d \in {0, VGA_WIDTH} :
           /\ At(t) = At(s) + 1 - d /\ t.prompt = s.prompt - d
           /\ \A k \in Cells : k + d \in Cells =>
                t.vga[k] = IF k + d = At(s) THEN c ELSE s.vga[k + d]
  BY <1>3
<1>5. d \in Nat /\ n \in Nat  BY Sizes
<1>6. Len(Append(txt, c)) = n + 1 /\ \A k \in 1 .. n + 1 :
        Append(txt, c)[k] = IF k = n + 1 THEN c ELSE txt[k]
  OBVIOUS
<1>7. ASSUME NEW k \in 1 .. n + 1, NEW a \in Cells, a = At(t) - (n + 1) + k - 1
      PROVE  t.vga[a] = Append(txt, c)[k]
  <2>1. a + d = At(s) - n + k - 1  BY <1>1, <1>4, <1>5, <1>7
  <2>2. a + d \in Cells  BY <1>1, <1>5, <1>7, <2>1 DEF Cells
  <2>3. t.vga[a] = IF a + d = At(s) THEN c ELSE s.vga[a + d]  BY <1>4, <2>2
  <2>4. CASE k = n + 1
    BY <1>1, <1>5, <1>6, <2>1, <2>3, <2>4
  <2>5. CASE k # n + 1
    <3>1. k \in 1 .. n /\ a + d # At(s)  BY <1>1, <1>5, <2>1, <2>5
    <3>2. s.vga[a + d] = txt[k]  BY <2>1, <2>2, <3>1 DEF Behind
    <3> QED  BY <1>6, <2>3, <2>5, <3>1, <3>2
  <2> QED  BY <2>4, <2>5
<1>8. Behind(t, Append(txt, c))
  BY <1>6, <1>7 DEF Behind
<1>9. At(t) - t.prompt = At(s) - s.prompt + 1 /\ t.prompt <= s.prompt
  BY <1>1, <1>4, <1>5
<1>10. t.stray => s.stray \/ s.prompt > At(s) \/ s.prompt < 0
  <2>1. t.stray => s.stray \/ At(s) \notin Cells  BY <1>3, Zenon
  <2>2. At(s) \notin Cells => s.prompt > At(s) \/ s.prompt < 0  BY <1>1 DEF Cells
  <2> QED  BY <2>1, <2>2, Zenon
<1> QED  BY <1>3, <1>8, <1>9, <1>10 DEF Good, t

LEMMA EraseBehind ==
  ASSUME NEW s, Good(s), NEW txt \in Seq(Plain), txt # <<>>, Behind(s, txt)
  PROVE  LET t == erase(s)
         IN  /\ Good(t) /\ Behind(t, Front(txt))
             /\ At(t) = At(s) - 1 /\ t.prompt = s.prompt
             /\ t.stray => s.stray \/ At(s) < 1
<1> DEFINE t == erase(s)
           n == Len(txt)
<1>1. /\ s \in Screen /\ At(s) \in Int /\ At(s) < VGA_WIDTH * VGA_HEIGHT
      /\ VGA_WIDTH * VGA_HEIGHT \in Nat /\ Sound(s) /\ s.row < VGA_HEIGHT
  BY Fields, AtIsInt, RowIsInBuffer DEF Good, Sound
<1>2. /\ Good(t)
      /\ At(t) = At(s) - 1 /\ t.prompt = s.prompt
      /\ t.stray = (s.stray \/ At(s) - 1 \notin Cells)
      /\ \A k \in Cells : k # At(s) - 1 => t.vga[k] = s.vga[k]
  BY <1>1, EraseIs, StaysGood
<1> HIDE DEF t
<1>3. /\ n \in Nat \ {0} /\ Len(Front(txt)) = n - 1
      /\ \A k \in 1 .. n - 1 : Front(txt)[k] = txt[k]
  BY FrontIs
<1>4. ASSUME NEW k \in 1 .. n - 1, NEW a \in Cells, a = At(t) - (n - 1) + k - 1
      PROVE  t.vga[a] = Front(txt)[k]
  <2>1. a = At(s) - n + k - 1 /\ a # At(s) - 1 /\ k \in 1 .. n
    BY <1>1, <1>2, <1>3, <1>4
  <2> QED  BY <1>2, <1>3, <2>1 DEF Behind
<1>5. Behind(t, Front(txt))  BY <1>3, <1>4 DEF Behind
<1>6. t.stray => s.stray \/ At(s) < 1
  <2>1. t.stray => s.stray \/ At(s) - 1 \notin Cells  BY <1>2, Zenon
  <2>2. At(s) - 1 \notin Cells => At(s) < 1  BY <1>1 DEF Cells
  <2> QED  BY <2>1, <2>2, Zenon
<1> QED  BY <1>2, <1>5, <1>6 DEF t

-----------------------------------------------------------------------------
\* The line on the screen.

LEMMA PromptIs == Prompt \in Seq(Plain) /\ Len(Prompt) = 2 /\ Prompt[1] = ">" /\ Prompt[2] = Space
BY DEF Prompt, Plain, Chars, Space, NewLine

LEMMA PromptConcat ==
  ASSUME NEW str \in Seq(Plain)
  PROVE  /\ Prompt \o str \in Seq(Plain) /\ Len(Prompt \o str) = 2 + Len(str)
         /\ \A k \in 1 .. 2 + Len(str) :
              (Prompt \o str)[k] = IF k <= 2 THEN Prompt[k] ELSE str[k-2]
<1>1. /\ Prompt \o str \in Seq(Plain)
      /\ Len(Prompt \o str) = Len(Prompt) + Len(str)
      /\ \A k \in 1 .. Len(Prompt) + Len(str) :
           (Prompt \o str)[k] = IF k <= Len(Prompt) THEN Prompt[k] ELSE str[k - Len(Prompt)]
  BY PromptIs, ConcatProperties, Zenon
<1>2. Len(Prompt) = 2  BY PromptIs
<1> QED  BY <1>1, <1>2, Zenon

\* The screen shows the line str behind its prompt, and nothing was written
\* outside the buffer unless the prompt scrolled off.
Shows(s, str) ==
  /\ Good(s)
  /\ At(s) = s.prompt + Len(str)
  /\ Behind(s, Prompt \o str)
  /\ s.stray => s.prompt < 0

LEMMA LineFacts ==
  ASSUME NEW str \in Seq(Plain)
  PROVE  /\ Prompt \o str \in Seq(Plain)
         /\ \A c \in Plain : /\ Append(str, c) \in Seq(Plain)
                             /\ Len(Append(str, c)) = Len(str) + 1
                             /\ Append(Prompt \o str, c) = Prompt \o Append(str, c)
         /\ str # <<>> => /\ Front(str) \in Seq(Plain)
                          /\ Len(Front(str)) = Len(str) - 1
                          /\ Prompt \o str # <<>>
                          /\ Front(Prompt \o str) = Prompt \o Front(str)
<1>1. Prompt \o str \in Seq(Plain)  BY PromptIs
<1>2. ASSUME NEW c \in Plain
      PROVE  /\ Append(str, c) \in Seq(Plain)
             /\ Len(Append(str, c)) = Len(str) + 1
             /\ Append(Prompt \o str, c) = Prompt \o Append(str, c)
  BY PromptIs
<1>3. ASSUME str # <<>>
      PROVE  /\ Front(str) \in Seq(Plain)
             /\ Len(Front(str)) = Len(str) - 1
             /\ Prompt \o str # <<>>
             /\ Front(Prompt \o str) = Prompt \o Front(str)
  <2>1. Front(str) \in Seq(Plain) /\ Len(Front(str)) = Len(str) - 1
    BY <1>3, FrontIs
  <2>2. Prompt \o str # <<>>  BY PromptIs, <1>3
  <2>3. Front(Prompt \o str) = Prompt \o Front(str)
    <3> DEFINE a == Prompt \o str
               b == Front(str)
               f == Front(a)
               g == Prompt \o b
    <3>1. /\ a \in Seq(Plain) /\ a # <<>> /\ Len(a) = 2 + Len(str)
          /\ \A k \in 1 .. 2 + Len(str) : a[k] = IF k <= 2 THEN Prompt[k] ELSE str[k-2]
      BY <2>2, PromptConcat
    <3>2. /\ b \in Seq(Plain) /\ Len(b) = Len(str) - 1 /\ Len(str) \in Nat \ {0}
          /\ \A k \in 1 .. Len(str) - 1 : b[k] = str[k]
      BY <1>3, FrontIs
    <3> HIDE DEF a, b
    <3>3. /\ f \in Seq(Plain) /\ Len(f) = Len(a) - 1
          /\ \A k \in 1 .. Len(a) - 1 : f[k] = a[k]
      BY <3>1, FrontIs
    <3>4. /\ g \in Seq(Plain) /\ Len(g) = 2 + Len(b)
          /\ \A k \in 1 .. 2 + Len(b) : g[k] = IF k <= 2 THEN Prompt[k] ELSE b[k-2]
      BY <3>2, PromptConcat
    <3> HIDE DEF f, g
    <3> DEFINE n == Len(str)
    <3> HIDE DEF n
    <3>5. n \in Nat \ {0} /\ Len(a) = n + 2 /\ Len(f) = n + 1 /\ Len(g) = n + 1
      BY <3>1, <3>2, <3>3, <3>4 DEF n
    <3>6. ASSUME NEW k \in 1 .. n + 1
          PROVE  f[k] = g[k]
      <4>1. k \in 1 .. Len(a) - 1 /\ k \in 1 .. 2 + n /\ k \in 1 .. 2 + Len(b)
        BY <3>2, <3>5 DEF n
      <4>2. f[k] = IF k <= 2 THEN Prompt[k] ELSE str[k-2]  BY <3>1, <3>3, <4>1 DEF n
      <4>3. g[k] = IF k <= 2 THEN Prompt[k] ELSE b[k-2]  BY <3>4, <4>1
      <4>4. ~(k <= 2) => b[k-2] = str[k-2]
        <5>1. ~(k <= 2) => k-2 \in 1 .. n - 1  BY <3>5
        <5> QED  BY <3>2, <5>1 DEF n
      <4> QED  BY <4>2, <4>3, <4>4
    <3>7. f = g  BY <3>3, <3>4, <3>5, <3>6, SeqEqual
    <3> QED  BY <3>7 DEF f, g, a, b
  <2> QED  BY <2>1, <2>2, <2>3
<1> QED  BY <1>1, <1>2, <1>3

LEMMA PutcharShows ==
  ASSUME NEW s, NEW str \in Seq(Plain), Shows(s, str), NEW c \in Plain
  PROVE  Shows(putchar(s, c), Append(str, c))
<1> DEFINE t == putchar(s, c)
<1>1. Good(s) /\ s \in Screen  BY DEF Shows, Good, Sound
<1>2. Good(t)  BY <1>1, LineFacts, PutcharBehind DEF Shows
<1>3. t \in Screen  BY <1>2 DEF Good, Sound
<1>4. /\ Behind(t, Append(Prompt \o str, c))
      /\ At(t) - t.prompt = At(s) - s.prompt + 1
      /\ t.prompt <= s.prompt
      /\ t.stray => s.stray \/ s.prompt > At(s) \/ s.prompt < 0
  BY <1>1, LineFacts, PutcharBehind DEF Shows
<1> HIDE DEF t
<1>5. /\ At(s) \in Int /\ s.prompt \in Int /\ At(t) \in Int /\ t.prompt \in Int
      /\ Len(str) \in Nat
  BY <1>1, <1>3, Fields, AtIsInt
<1>6. At(s) = s.prompt + Len(str) /\ (s.stray => s.prompt < 0)  BY DEF Shows
<1>7. At(t) = t.prompt + Len(Append(str, c))  BY <1>4, <1>5, <1>6, LineFacts
<1>8. t.stray => t.prompt < 0  BY <1>4, <1>5, <1>6
<1> QED  BY <1>2, <1>4, <1>7, <1>8, LineFacts DEF Shows, t

LEMMA EraseShows ==
  ASSUME NEW s, NEW str \in Seq(Plain), str # <<>>, Shows(s, str)
  PROVE  Shows(erase(s), Front(str))
<1> DEFINE t == erase(s)
<1>1. Good(s) /\ s \in Screen  BY DEF Shows, Good, Sound
<1>2. /\ Good(t) /\ Behind(t, Front(Prompt \o str))
      /\ At(t) = At(s) - 1 /\ t.prompt = s.prompt
      /\ t.stray => s.stray \/ At(s) < 1
  BY <1>1, LineFacts, EraseBehind DEF Shows
<1> HIDE DEF t
<1>3. At(s) \in Int /\ s.prompt \in Int /\ Len(str) \in Nat /\ Len(str) > 0
  BY <1>1, Fields, AtIsInt
<1>4. At(s) = s.prompt + Len(str) /\ (s.stray => s.prompt < 0)  BY DEF Shows
<1>5. At(t) = t.prompt + Len(Front(str))  BY <1>2, <1>3, <1>4, LineFacts
<1>6. t.stray => t.prompt < 0  BY <1>2, <1>3, <1>4
<1> QED  BY <1>2, <1>5, <1>6, LineFacts DEF Shows, t

LEMMA SameShows ==
  ASSUME NEW s, NEW str, Shows(s, str), NEW t \in Screen,
         t.row = s.row, t.column = s.column, t.vga = s.vga, t.prompt = s.prompt,
         t.stray => s.stray
  PROVE  Shows(t, str)
<1>1. At(t) = At(s)  BY DEF At
<1>2. Good(t)  BY DEF Shows, Good, Sound
<1>3. Behind(t, Prompt \o str)  BY <1>1, Zenon DEF Shows, Behind
<1> QED  BY <1>1, <1>2, <1>3, Zenon DEF Shows

-----------------------------------------------------------------------------
\* print and eraseAll: the screens after their turns.

LEMMA PrintTurns ==
  ASSUME NEW s, Sound(s), NEW str \in Seq(Chars)
  PROVE  \E after :
           /\ print(s, str) = after[Len(str)] /\ after[0] = s
           /\ \A k \in 0 .. Len(str) : Sound(after[k])
           /\ \A k \in 1 .. Len(str) : after[k] = putchar(after[k-1], str[k])
<1> DEFINE n == Len(str)
           R(f) == [k \in 0 .. n |-> IF k = 0 THEN s ELSE putchar(f[k-1], str[k])]
           step == [k \in 1 .. n |-> [v \in Screen |-> putchar(v, str[k])]]
           after == CHOOSE f : f = R(f)
<1>1. n \in Nat /\ \A k \in 1 .. n : str[k] \in Chars  BY LenProperties
<1>2. print(s, str) = after[n]  BY DEF print
<1> HIDE DEF n
<1>3. \A k \in 1 .. n, v \in Screen : putchar(v, str[k]) \in Screen
  BY <1>1, PutcharSound DEF Sound
<1>4. step \in [1 .. n -> [Screen -> Screen]]  BY <1>3
<1>5. s \in Screen  BY DEF Sound
<1>6. \E f : f = R(f)
  <2> HIDE DEF step
  <2>1. PICK f \in [0 .. n -> Screen] :
           Turns(f, s, step, n)
    BY <1>1, <1>4, <1>5, LoopStates, Zenon
  <2>2. \A k \in 1 .. n : f[k] = putchar(f[k-1], str[k])
    <3> TAKE k \in 1 .. n
    <3>1. k-1 \in 0 .. n  BY <1>1
    <3>2. f[k-1] \in Screen  BY <2>1, <3>1
    <3>3. step[k][f[k-1]] = putchar(f[k-1], str[k])  BY <3>2 DEF step
    <3> QED  BY <2>1, <3>3 DEF Turns
  <2>3. \A k \in 0 .. n : f[k] = IF k = 0 THEN s ELSE putchar(f[k-1], str[k])
    BY <1>1, <2>1, <2>2 DEF Turns
  <2>4. f = R(f)  BY <2>3
  <2> QED  BY <2>4
<1>7. after = R(after)  BY <1>6
<1> HIDE DEF after
<1>8. /\ after[0] = s
      /\ \A k \in 1 .. n : after[k] = putchar(after[k-1], str[k])
  BY <1>1, <1>7
<1>9. \A k \in 0 .. n : after[k] \in Screen
  <2> DEFINE S == {k \in 0 .. n : after[k] \in Screen}
  <2>1. 0 \in S  BY <1>1, <1>5, <1>8
  <2>2. \A k \in 1 .. n : k-1 \in S => k \in S  BY <1>3, <1>8
  <2> HIDE DEF S
  <2>3. \A k \in 0 .. n : k \in S  BY <1>1, <2>1, <2>2, EveryTurn, Zenon
  <2> QED  BY <2>3 DEF S
<1>10. \A k \in 0 .. n : Sound(after[k])  BY <1>9 DEF Sound
<1> QED  BY <1>2, <1>8, <1>10 DEF n

LEMMA EraseTurns ==
  ASSUME NEW s, Sound(s), NEW str, Len(str) \in Nat
  PROVE  \E after :
           /\ eraseAll(s, str) = after[Len(str)] /\ after[0] = s
           /\ \A k \in 0 .. Len(str) : Sound(after[k])
           /\ \A k \in 1 .. Len(str) : after[k] = erase(after[k-1])
<1> DEFINE n == Len(str)
           R(f) == [k \in 0 .. n |-> IF k = 0 THEN s ELSE erase(f[k-1])]
           step == [k \in 1 .. n |-> [v \in Screen |-> erase(v)]]
           after == CHOOSE f : f = R(f)
<1>1. n \in Nat  OBVIOUS
<1>2. eraseAll(s, str) = after[n]  BY DEF eraseAll
<1> HIDE DEF n
<1>3. \A v \in Screen : erase(v) \in Screen
  BY EraseIs DEF Sound
<1>4. step \in [1 .. n -> [Screen -> Screen]]  BY <1>3
<1>5. s \in Screen  BY DEF Sound
<1>6. \E f : f = R(f)
  <2> HIDE DEF step
  <2>1. PICK f \in [0 .. n -> Screen] :
           Turns(f, s, step, n)
    BY <1>1, <1>4, <1>5, LoopStates, Zenon
  <2>2. \A k \in 1 .. n : f[k] = erase(f[k-1])
    <3> TAKE k \in 1 .. n
    <3>1. k-1 \in 0 .. n  BY <1>1
    <3>2. f[k-1] \in Screen  BY <2>1, <3>1
    <3>3. step[k][f[k-1]] = erase(f[k-1])  BY <3>2 DEF step
    <3> QED  BY <2>1, <3>3 DEF Turns
  <2>3. \A k \in 0 .. n : f[k] = IF k = 0 THEN s ELSE erase(f[k-1])
    BY <1>1, <2>1, <2>2 DEF Turns
  <2>4. f = R(f)  BY <2>3
  <2> QED  BY <2>4
<1>7. after = R(after)  BY <1>6
<1> HIDE DEF after
<1>8. /\ after[0] = s
      /\ \A k \in 1 .. n : after[k] = erase(after[k-1])
  BY <1>1, <1>7
<1>9. \A k \in 0 .. n : after[k] \in Screen
  <2> DEFINE S == {k \in 0 .. n : after[k] \in Screen}
  <2>1. 0 \in S  BY <1>1, <1>5, <1>8
  <2>2. \A k \in 1 .. n : k-1 \in S => k \in S  BY <1>3, <1>8
  <2> HIDE DEF S
  <2>3. \A k \in 0 .. n : k \in S  BY <1>1, <2>1, <2>2, EveryTurn, Zenon
  <2> QED  BY <2>3 DEF S
<1>10. \A k \in 0 .. n : Sound(after[k])  BY <1>9 DEF Sound
<1> QED  BY <1>2, <1>8, <1>10 DEF n

LEMMA PrefixIs ==
  ASSUME NEW S, NEW str \in Seq(S), NEW m \in 0 .. Len(str)
  PROVE  /\ SubSeq(str, 1, m) \in Seq(S) /\ Len(SubSeq(str, 1, m)) = m
         /\ \A k \in 1 .. m : SubSeq(str, 1, m)[k] = str[k]
<1> DEFINE f == SubSeq(str, 1, m)
<1>1. \A k \in 1 .. Len(str) : str[k] \in S  BY LenProperties
<1>2. Len(str) \in Nat  BY LenProperties
<1>3. m \in Nat /\ \A k \in 1 .. m : str[k] \in S  BY <1>1, <1>2
<1>4. /\ f \in Seq(S)
      /\ Len(f) = IF 1 <= m THEN m - 1 + 1 ELSE 0
      /\ \A k \in 1 .. m - 1 + 1 : f[k] = str[1 + k - 1]
  BY <1>3, SubSeqProperties
<1> HIDE DEF f
<1>5. Len(f) = m  BY <1>3, <1>4
<1>6. \A k \in 1 .. m : k \in 1 .. m - 1 + 1 /\ 1 + k - 1 = k  BY <1>3
<1>7. \A k \in 1 .. m : f[k] = str[k]  BY <1>4, <1>6
<1> QED  BY <1>4, <1>5, <1>7 DEF f

\* The prefix of length m of a text is the one before it and its last character.
Extends(S, str, m) ==
  /\ str[m] \in S
  /\ SubSeq(str, 1, m-1) \in Seq(S) /\ SubSeq(str, 1, m) \in Seq(S)
  /\ SubSeq(str, 1, m) # <<>>
  /\ Append(SubSeq(str, 1, m-1), str[m]) = SubSeq(str, 1, m)
  /\ Front(SubSeq(str, 1, m)) = SubSeq(str, 1, m-1)

LEMMA PrefixTurns ==
  ASSUME NEW S, NEW str \in Seq(S)
  PROVE  /\ Len(str) \in Nat
         /\ SubSeq(str, 1, 0) = <<>> /\ SubSeq(str, 1, Len(str)) = str
         /\ \A m \in 1 .. Len(str) : Extends(S, str, m)
<1>1. Len(str) \in Nat /\ \A k \in 1 .. Len(str) : str[k] \in S  BY LenProperties
<1>2. SubSeq(str, 1, 0) = <<>>  BY SubSeqEmpty
<1>3. SubSeq(str, 1, Len(str)) = str  BY SubSeqFull
<1>4. ASSUME NEW m \in 1 .. Len(str)
      PROVE  Extends(S, str, m)
  <2> DEFINE l == m-1
             a == SubSeq(str, 1, l)
             b == SubSeq(str, 1, m)
             c == Append(a, str[m])
             d == Front(b)
  <2>1. l \in 0 .. Len(str) /\ m \in 0 .. Len(str) /\ l \in Nat /\ m = l + 1  BY <1>1
  <2> HIDE DEF l
  <2>2. a \in Seq(S) /\ Len(a) = l /\ \A k \in 1 .. l : a[k] = str[k]  BY <2>1, PrefixIs
  <2>3. b \in Seq(S) /\ Len(b) = m /\ \A k \in 1 .. m : b[k] = str[k]  BY <2>1, PrefixIs
  <2> HIDE DEF a, b
  <2>4. b # <<>>  BY <2>1, <2>3
  <2>5. /\ c \in Seq(S) /\ Len(c) = m
        /\ \A k \in 1 .. m : c[k] = IF k = m THEN str[m] ELSE a[k]
    BY <1>1, <2>1, <2>2
  <2>6. d \in Seq(S) /\ Len(d) = l /\ \A k \in 1 .. l : d[k] = b[k]
    <3>1. /\ d \in Seq(S) /\ Len(d) = Len(b) - 1
          /\ \A k \in 1 .. Len(b) - 1 : d[k] = b[k]
      BY <2>3, <2>4, FrontIs
    <3>2. Len(b) - 1 = l  BY <2>1, <2>3
    <3> QED  BY <3>1, <3>2
  <2> HIDE DEF c, d
  <2>7. \A k \in 1 .. m : c[k] = b[k]  BY <2>1, <2>2, <2>3, <2>5
  <2>8. c = b  BY <2>3, <2>5, <2>7, SeqEqual
  <2>9. \A k \in 1 .. l : d[k] = a[k]  BY <2>1, <2>2, <2>3, <2>6
  <2>10. d = a  BY <2>2, <2>6, <2>9, SeqEqual
  <2> QED  BY <1>1, <2>2, <2>3, <2>4, <2>8, <2>10, Zenon DEF Extends, a, b, c, d, l
<1>5. Len(str) \in Nat  BY <1>1
<1>6. \A m \in 1 .. Len(str) : Extends(S, str, m)  BY <1>4
<1>7. SubSeq(str, 1, 0) = <<>> /\ SubSeq(str, 1, Len(str)) = str  BY <1>2, <1>3
<1> QED  BY <1>5, <1>6, <1>7

LEMMA CursorShows ==
  ASSUME NEW s, NEW str, Shows(s, str)
  PROVE  Shows(updateCursor(s), str)
<1>1. s \in Screen  BY DEF Shows, Good, Sound
<1> DEFINE t == updateCursor(s)
<1>2. /\ t \in Screen /\ t.row = s.row /\ t.column = s.column /\ t.vga = s.vga
      /\ t.prompt = s.prompt /\ t.stray = s.stray
  BY <1>1, CursorIs
<1> HIDE DEF t
<1>3. Shows(t, str)  BY <1>2, SameShows
<1> QED  BY <1>3 DEF t

\* The screen shows the line: printing a text shows it behind the line, and
\* clearing it leaves the prompt.
LEMMA PrintShows ==
  ASSUME NEW s, Shows(s, <<>>), NEW str \in Seq(Plain)
  PROVE  Shows(print(s, str), str)
<1> DEFINE n == Len(str)
<1>1. /\ n \in Nat
      /\ SubSeq(str, 1, 0) = <<>> /\ SubSeq(str, 1, n) = str
      /\ \A m \in 1 .. n : Extends(Plain, str, m)
  BY PrefixTurns
<1>2. Sound(s) /\ str \in Seq(Chars)  BY DEF Shows, Good, Plain
<1>3. PICK after :
           /\ print(s, str) = after[n] /\ after[0] = s
           /\ \A k \in 0 .. n : Sound(after[k])
           /\ \A k \in 1 .. n : after[k] = putchar(after[k-1], str[k])
  BY <1>2, PrintTurns
<1> HIDE DEF n
<1> DEFINE S == {k \in 0 .. n : Shows(after[k], SubSeq(str, 1, k))}
<1>4. 0 \in S
  <2>1. Shows(after[0], SubSeq(str, 1, 0))  BY <1>1, <1>3, Zenon
  <2>2. 0 \in 0 .. n  BY <1>1
  <2> QED  BY <2>1, <2>2
<1>5. ASSUME NEW k \in 1 .. n, k-1 \in S
      PROVE  k \in S
  <2>1. Shows(after[k-1], SubSeq(str, 1, k-1))  BY <1>5
  <2>2. Shows(putchar(after[k-1], str[k]), Append(SubSeq(str, 1, k-1), str[k]))
    BY <1>1, <2>1, PutcharShows DEF Extends
  <2>3. Shows(after[k], SubSeq(str, 1, k))  BY <1>1, <1>3, <2>2 DEF Extends
  <2> QED  BY <2>3
<1> HIDE DEF S
<1>6. \A k \in 1 .. n : k-1 \in S => k \in S  BY <1>5
<1>7. \A k \in 0 .. n : k \in S  BY <1>1, <1>4, <1>6, EveryTurn, Zenon
<1>8. n \in S  BY <1>1, <1>7
<1> QED  BY <1>1, <1>3, <1>8 DEF S

LEMMA ClearShows ==
  ASSUME NEW s, NEW str \in Seq(Plain), Shows(s, str)
  PROVE  Shows(clearCommand(s, str), <<>>)
<1> DEFINE n == Len(str)
<1>1. /\ n \in Nat
      /\ SubSeq(str, 1, 0) = <<>> /\ SubSeq(str, 1, n) = str
      /\ \A m \in 1 .. n : Extends(Plain, str, m)
  BY PrefixTurns
<1>2. Sound(s)  BY DEF Shows, Good
<1>3. PICK after :
           /\ eraseAll(s, str) = after[n] /\ after[0] = s
           /\ \A k \in 0 .. n : Sound(after[k])
           /\ \A k \in 1 .. n : after[k] = erase(after[k-1])
  BY <1>1, <1>2, EraseTurns
<1> HIDE DEF n
<1> DEFINE S == {k \in 0 .. n : Shows(after[k], SubSeq(str, 1, n-k))}
<1>4. 0 \in S
  <2>1. n - 0 = n /\ 0 \in 0 .. n  BY <1>1
  <2>2. Shows(after[0], SubSeq(str, 1, n-0))  BY <1>1, <1>3, <2>1, Zenon
  <2> QED  BY <2>1, <2>2
<1>5. ASSUME NEW k \in 1 .. n, k-1 \in S
      PROVE  k \in S
  <2> DEFINE m == n - (k-1)
  <2>1. m \in 1 .. n /\ m-1 = n-k  BY <1>1
  <2>2. Shows(after[k-1], SubSeq(str, 1, m))  BY <1>5
  <2> HIDE DEF m
  <2>3. Shows(erase(after[k-1]), Front(SubSeq(str, 1, m)))
    BY <1>1, <2>1, <2>2, EraseShows DEF Extends
  <2>4. Shows(after[k], SubSeq(str, 1, n-k))
    BY <1>1, <1>3, <2>1, <2>3 DEF Extends
  <2> QED  BY <2>4
<1> HIDE DEF S
<1>6. \A k \in 1 .. n : k-1 \in S => k \in S  BY <1>5
<1>7. \A k \in 0 .. n : k \in S  BY <1>1, <1>4, <1>6, EveryTurn, Zenon
<1>8. n \in S /\ n - n = 0  BY <1>1, <1>7
<1>9. Shows(eraseAll(s, str), <<>>)  BY <1>1, <1>3, <1>8 DEF S
<1> QED  BY <1>9, CursorShows DEF clearCommand

\* print and eraseAll keep the cursor on the screen; and print writes nothing
\* outside the buffer when it starts with a line feed.
LEMMA PrintSound ==
  ASSUME NEW s, Sound(s), NEW str \in Seq(Chars)
  PROVE  LET t == print(s, str)
         IN  /\ Sound(t) /\ Stays(s, t)
             /\ Good(s) /\ (s.column >= 0 \/ str[1] = NewLine) => t.stray = s.stray
<1> DEFINE n == Len(str)
           e == Good(s) /\ (s.column >= 0 \/ str[1] = NewLine)
<1>1. n \in Nat /\ \A k \in 1 .. n : str[k] \in Chars  BY LenProperties
<1>2. PICK after :
           /\ print(s, str) = after[n] /\ after[0] = s
           /\ \A k \in 0 .. n : Sound(after[k])
           /\ \A k \in 1 .. n : after[k] = putchar(after[k-1], str[k])
  BY PrintTurns
<1> HIDE DEF n
<1> DEFINE S == {k \in 0 .. n :
                   /\ Stays(s, after[k])
                   /\ e => /\ after[k].stray = s.stray
                           /\ after[k].column >= 0 \/ (k = 0 /\ str[1] = NewLine)}
<1>3. 0 \in S
  <2>1. Stays(s, s)  BY DEF Stays
  <2> QED  BY <1>1, <1>2, <2>1
<1>4. e => Good(s)  OBVIOUS
<1> HIDE DEF e
<1>5. ASSUME NEW k \in 1 .. n, k-1 \in S
      PROVE  k \in S
  <2> DEFINE u == after[k-1]
             t == putchar(u, str[k])
  <2>1. k-1 \in 0 .. n  BY <1>1
  <2>2. /\ Stays(s, u)
        /\ e => /\ u.stray = s.stray
                /\ u.column >= 0 \/ (k-1 = 0 /\ str[1] = NewLine)
        /\ Sound(u)
    BY <1>2, <1>5, <2>1
  <2> HIDE DEF u
  <2>3. /\ Stays(u, t)
        /\ u.column >= 0 => t.column >= 0
        /\ u.column >= 0 /\ Good(u) => t.stray = u.stray
    BY <1>1, <2>2, PutcharSound
  <2>4. k-1 = 0 /\ str[1] = NewLine => t.stray = u.stray /\ t.column = 0
    <3>1. k-1 = 0 => k = 1  OBVIOUS
    <3> QED  BY <2>2, <3>1, PutcharNewLine
  <2>5. after[k] = t  BY <1>2 DEF u
  <2> HIDE DEF t
  <2>6. Stays(s, t)  BY <2>2, <2>3, StaysTwice
  <2>7. e => Good(u)  BY <1>4, <2>2, StaysGood
  <2>8. k # 0  BY <1>1
  <2>9. e => t.stray = s.stray /\ t.column >= 0
    <3>1. 0 >= 0  OBVIOUS
    <3> QED  BY <2>2, <2>3, <2>4, <2>7, <3>1
  <2> QED  BY <2>5, <2>6, <2>9
<1> HIDE DEF S
<1>6. \A k \in 1 .. n : k-1 \in S => k \in S  BY <1>5
<1>7. \A k \in 0 .. n : k \in S  BY <1>1, <1>3, <1>6, EveryTurn, Zenon
<1>8. n \in S /\ n \in 0 .. n  BY <1>1, <1>7
<1> QED  BY <1>2, <1>8 DEF S, e

LEMMA ClearSound ==
  ASSUME NEW s, Sound(s), NEW str, Len(str) \in Nat
  PROVE  LET t == clearCommand(s, str)
         IN  Sound(t) /\ Stays(s, t)
<1> DEFINE n == Len(str)
<1>1. n \in Nat  OBVIOUS
<1>2. PICK after :
           /\ eraseAll(s, str) = after[n] /\ after[0] = s
           /\ \A k \in 0 .. n : Sound(after[k])
           /\ \A k \in 1 .. n : after[k] = erase(after[k-1])
  BY EraseTurns
<1> HIDE DEF n
<1> DEFINE S == {k \in 0 .. n : Stays(s, after[k])}
<1>3. 0 \in S
  <2>1. Stays(s, s)  BY DEF Stays
  <2> QED  BY <1>1, <1>2, <2>1
<1>4. ASSUME NEW k \in 1 .. n, k-1 \in S
      PROVE  k \in S
  <2> DEFINE u == after[k-1]
             t == erase(u)
  <2>1. k-1 \in 0 .. n  BY <1>1
  <2>2. Stays(s, u) /\ Sound(u)
    BY <1>2, <1>4, <2>1
  <2> HIDE DEF u
  <2>3. Stays(u, t)  BY <2>2, EraseIs
  <2>4. after[k] = t  BY <1>2 DEF u
  <2> HIDE DEF t
  <2>5. Stays(s, t)  BY <2>2, <2>3, StaysTwice
  <2> QED  BY <2>4, <2>5
<1> HIDE DEF S
<1>5. \A k \in 1 .. n : k-1 \in S => k \in S  BY <1>4
<1>6. \A k \in 0 .. n : k \in S  BY <1>1, <1>3, <1>5, EveryTurn, Zenon
<1>7. n \in S /\ n \in 0 .. n  BY <1>1, <1>6
<1> DEFINE u == eraseAll(s, str)
           t == updateCursor(u)
<1>8. Sound(u) /\ Stays(s, u)
  BY <1>2, <1>7 DEF S
<1> HIDE DEF u
<1>9. t \in Screen /\ t.row = u.row /\ t.column = u.column
  BY <1>8, CursorIs DEF Sound
<1> HIDE DEF t
<1>10. clearCommand(s, str) = t  BY DEF clearCommand, t, u
<1>11. Stays(u, t)  BY <1>9 DEF Stays
<1> QED  BY <1>8, <1>9, <1>10, <1>11, StaysTwice DEF Sound

\* newCommand's screen: the row, scrolled into the screen, and the prompt.
LEMMA NextRowIs ==
  ASSUME NEW s, Sound(s)
  PROVE  LET t == nextRow(s)
         IN  /\ Sound(t) /\ t.row = s.row + 1 /\ t.column = s.column
             /\ t.vga = s.vga /\ t.prompt = s.prompt /\ t.stray = s.stray
<1> DEFINE r == s.row + 1
           t == [s EXCEPT !.row = r]
<1>1. s \in Screen /\ r \in Nat  BY Fields DEF Sound
<1>2. nextRow(s) = t  BY DEF nextRow
<1> HIDE DEF r
<1>3. /\ t \in Screen /\ t.row = r /\ t.column = s.column
      /\ t.vga = s.vga /\ t.prompt = s.prompt /\ t.stray = s.stray
  BY <1>1, SetRow
<1> HIDE DEF t
<1> QED  BY <1>2, <1>3 DEF Sound, r

LEMMA PrintTwo ==
  ASSUME NEW s, Sound(s), NEW str \in Seq(Chars), Len(str) = 2
  PROVE  /\ Sound(putchar(s, str[1]))
         /\ print(s, str) = putchar(putchar(s, str[1]), str[2])
<1>1. PICK after :
        /\ print(s, str) = after[Len(str)] /\ after[0] = s
        /\ \A k \in 0 .. Len(str) : Sound(after[k])
        /\ \A k \in 1 .. Len(str) : after[k] = putchar(after[k-1], str[k])
  BY PrintTurns
<1> QED  BY <1>1

LEMMA AppendToOne ==
  ASSUME NEW S, NEW b \in Seq(S), Len(b) = 1, NEW e \in S
  PROVE  LET c == Append(b, e)
         IN  c \in Seq(S) /\ Len(c) = 2 /\ c[1] = b[1] /\ c[2] = e
<1>1. \A i \in 1 .. Len(b) : Append(b, e)[i] = b[i]  BY AppendProperties
<1>2. Append(b, e)[Len(b) + 1] = e  BY AppendProperties
<1>3. Append(b, e) \in Seq(S) /\ Len(Append(b, e)) = Len(b) + 1  BY AppendProperties
<1> QED  BY <1>1, <1>2, <1>3

\* Printing the prompt from the margin makes the screen show the empty line.
LEMMA PromptPrinted ==
  ASSUME NEW u, Good(u), u.column = 0, ~u.stray
  PROVE  LET q == putchar(putchar(u, ">"), Space)
         IN  Shows(updateCursor([q EXCEPT !.prompt = At(q)]), <<>>)
<1> DEFINE p == putchar(u, ">")
           q == putchar(p, Space)
           a == At(q)
           v == [q EXCEPT !.prompt = a]
           t == updateCursor(v)
<1>1. ">" \in Plain /\ Space \in Plain  BY DEF Plain, Chars, Space, NewLine
<1>2. ">" \in Chars /\ Space \in Chars  BY DEF Chars
<1>3. <<>> \in Seq(Plain) /\ Behind(u, <<>>)  BY DEF Behind
<1>4. Good(p) /\ Behind(p, Append(<<>>, ">"))
  BY <1>1, <1>3, PutcharBehind
<1>5. p.column >= 0 /\ ~p.stray
  <2>1. Sound(u) /\ u.column >= 0  BY DEF Good
  <2> QED  BY <1>2, <2>1, PutcharSound
<1> HIDE DEF p
<1>6. Append(<<>>, ">") \in Seq(Plain)  BY <1>1
<1>7. Good(q) /\ Behind(q, Append(Append(<<>>, ">"), Space))
  BY <1>1, <1>4, <1>6, PutcharBehind
<1>8. ~q.stray
  <2>1. Sound(p)  BY <1>4 DEF Good
  <2> QED  BY <1>2, <1>4, <1>5, <2>1, PutcharSound
<1> HIDE DEF q
<1>9. Append(Append(<<>>, ">"), Space) = Prompt
  <2> DEFINE b == Append(<<>>, ">")
             c == Append(b, Space)
  <2>1. b \in Seq(Plain) /\ Len(b) = 1 /\ b[1] = ">"  BY <1>1
  <2> HIDE DEF b
  <2>2. c \in Seq(Plain) /\ Len(c) = 2 /\ c[1] = ">" /\ c[2] = Space
    BY <1>1, <2>1, AppendToOne
  <2> HIDE DEF c
  <2>3. c = Prompt  BY <2>2, PromptIs, SeqEqual
  <2> QED  BY <2>3 DEF b, c
<1>10. q \in Screen  BY <1>7 DEF Good, Sound
<1>11. a \in Int  BY <1>10, AtIsInt
<1> HIDE DEF a
<1>12. /\ v \in Screen /\ v.prompt = a /\ v.row = q.row /\ v.column = q.column
       /\ v.vga = q.vga /\ v.stray = q.stray
  BY <1>10, <1>11, SetPrompt
<1> HIDE DEF v
<1>13. /\ t \in Screen /\ t.row = v.row /\ t.column = v.column
       /\ t.vga = v.vga /\ t.prompt = v.prompt /\ t.stray = v.stray
  BY <1>12, CursorIs
<1> HIDE DEF t
<1>14. At(t) = At(q)  BY <1>12, <1>13 DEF At
<1>15. At(t) = t.prompt + Len(<<>>)  BY <1>11, <1>12, <1>13, <1>14 DEF a
<1>16. Prompt \o <<>> = Prompt
  <2>1. Prompt \in Seq(Plain)  BY PromptIs
  <2> QED  BY <2>1, ConcatEmptySeq
<1>17. Behind(t, Prompt \o <<>>)
  BY <1>7, <1>9, <1>12, <1>13, <1>14, <1>16, Zenon DEF Behind
<1>18. Good(t)  BY <1>7, <1>12, <1>13 DEF Good, Sound
<1>19. Shows(t, <<>>)  BY <1>8, <1>12, <1>13, <1>15, <1>17, <1>18 DEF Shows
<1> QED  BY <1>19 DEF t, v, a, q, p

LEMMA PromptTextIs ==
  ASSUME NEW s, Sound(s)
  PROVE  LET t == promptText(s)
         IN  /\ Sound(t) /\ Stays(s, t)
             /\ Good(s) /\ ~s.stray => Shows(t, <<>>)
<1> DEFINE u == [s EXCEPT !.column = 0]
           q == print(u, Prompt)
           a == At(q)
           v == [q EXCEPT !.prompt = a]
           t == updateCursor(v)
<1>1. s \in Screen /\ s.row \in Nat  BY Fields DEF Sound
<1>2. /\ u \in Screen /\ u.row = s.row /\ u.column = 0 /\ u.stray = s.stray
  BY <1>1, SetColumn
<1>3. promptText(s) = t  BY DEF promptText
<1> HIDE DEF u
<1>4. Sound(u)  BY <1>2 DEF Sound
<1>5. Prompt \in Seq(Chars) /\ Len(Prompt) = 2  BY PromptIs DEF Plain
<1>6. q = putchar(putchar(u, ">"), Space)
  BY <1>4, <1>5, PromptIs, PrintTwo
<1>7. Sound(q) /\ Stays(u, q)  BY <1>4, <1>5, PrintSound
<1>8. Good(s) /\ ~s.stray => Shows(t, <<>>)
  <2> SUFFICES ASSUME Good(s), ~s.stray PROVE Shows(t, <<>>)
    OBVIOUS
  <2>1. Good(u)  BY <1>2, <1>4, Sizes DEF Good
  <2> HIDE DEF q
  <2> QED  BY <1>2, <1>6, <2>1, PromptPrinted
<1> HIDE DEF q
<1>9. a \in Int  BY <1>7, AtIsInt DEF Sound
<1> HIDE DEF a
<1>10. v \in Screen /\ v.row = q.row /\ v.column = q.column
  BY <1>7, <1>9, SetPrompt DEF Sound
<1> HIDE DEF v
<1>11. t \in Screen /\ t.row = v.row /\ t.column = v.column  BY <1>10, CursorIs
<1> HIDE DEF t
<1>12. Stays(q, t)  BY <1>10, <1>11 DEF Stays
<1>13. Stays(s, u)  BY <1>2, Sizes DEF Stays
<1>14. Stays(s, t)  BY <1>7, <1>12, <1>13, StaysTwice
<1> QED  BY <1>3, <1>8, <1>11, <1>14 DEF Sound

-----------------------------------------------------------------------------
(***************************************************************************)
(* The inductive invariant.  While no key has come, kernel_main's          *)
(* registers hold what memory holds, and finishing what it is at leaves    *)
(* the cursor on the screen, behind what it has printed.  Whatever comes,  *)
(* the counters are on the screen but at the statements named, and only a  *)
(* key there loses the row for good.  From the first prompt on, without an *)
(* early key, the screen shows the line.                                   *)
(***************************************************************************)
NoNul(commands) == \A k \in DOMAIN commands : NUL \notin Range(commands[k])

LinesArePlain ==
  inputStr \in Seq(Plain) /\ previousCommands \in Seq(Seq(Plain))

Mains == [phase : Phases, at : Statements, text : Seq(Chars), row : Nat, column : Int]

ColumnInv ==
  main.at # "home" => screen.column < VGA_WIDTH /\ main.column < VGA_WIDTH

RowInv ==
  /\ main.row > 0 => screen.row > 0
  /\ main.at = "up" => main.row > 0
  /\ ~raced =>
       /\ screen.row <= VGA_HEIGHT /\ main.row <= VGA_HEIGHT
       /\ main.at \notin Between => screen.row < VGA_HEIGHT /\ main.row < VGA_HEIGHT
       /\ main.at = "test" => (main.row = VGA_HEIGHT <=> screen.row = VGA_HEIGHT)

BufferInv == previousCommands # <<>> => allocated

\* The screen when putchar, or newCommand's line feed, has run to its end.
Finish(at, s) ==
  CASE at = "put"     -> s
    [] at = "advance" -> updateCursor(scrollIfFull(advance(s)))
    [] at = "home"    -> updateCursor(scrollIfFull(newLine(s)))
    [] at = "row"     -> updateCursor(scrollIfFull(nextRow(s)))
    [] at = "test"    -> updateCursor(scrollIfFull(s))
    [] at = "up"      -> updateCursor(scroll([s EXCEPT !.row = @ - 1]))
    [] at = "scroll"  -> updateCursor(scroll(s))
    [] at = "end"     -> updateCursor(s)

Clean(s) == Good(s) /\ s.column >= 0 /\ ~s.stray

\* s is what printing the prompt has made of a clean screen, up to the rest of it.
PromptSoFar(rest, s) ==
  \E u : /\ Clean(u) /\ u.column = 0
         /\ \/ rest = Prompt /\ s = u
            \/ rest = <<Space>> /\ s = putchar(u, ">")
            \/ rest = <<>> /\ s = putchar(putchar(u, ">"), Space)

MainInv ==
  ~early /\ main.phase # "loop" =>
    /\ main.row = screen.row /\ main.column = screen.column
    /\ inputStr = <<>>
    /\ Clean(Finish(main.at, screen))
    /\ main.phase = "prompt" => PromptSoFar(main.text, Finish(main.at, screen))

ShownInv == Regular => Shows(screen, inputStr)

CInv ==
  /\ ConsoleTypeOK /\ LinesArePlain /\ ColumnInv /\ RowInv /\ BufferInv
  /\ MainInv /\ ShownInv /\ FaultsAreKnown

\* What every key does, whichever it is.
Handled ==
  /\ Sound(screen') /\ Stays(screen, screen')
  /\ LinesArePlain' /\ commandIndex' \in 0 .. Len(previousCommands')
  /\ allocated' \in BOOLEAN /\ halted' \in BOOLEAN
  /\ BufferInv' /\ FaultsAreKnown'
  /\ NoNul(previousCommands') => NoNul(previousCommands)
  /\ ~halted' /\ Shows(screen, inputStr) /\ NoNul(previousCommands') =>
       Shows(screen', inputStr')

LEMMA PlainIsText ==
  ASSUME NEW str \in Seq(Plain)
  PROVE  str \in Seq(Chars) /\ Len(str) \in Nat
BY DEF Plain

LEMMA QuietIs ==
  ASSUME Sound(screen)
  PROVE  /\ Sound(quiet) /\ Stays(screen, quiet) /\ ~quiet.stray
         /\ Good(screen) => Good(quiet)
         /\ \A str : Shows(screen, str) => Shows(quiet, str)
<1>1. /\ quiet \in Screen /\ quiet.stray = FALSE
      /\ quiet.row = screen.row /\ quiet.column = screen.column
      /\ quiet.vga = screen.vga /\ quiet.prompt = screen.prompt
  BY SetStray DEF quiet, Sound
<1>2. ASSUME NEW str, Shows(screen, str)
      PROVE  Shows(quiet, str)
  BY <1>1, <1>2, SameShows
<1>3. Sound(quiet) /\ Stays(screen, quiet)  BY <1>1 DEF Sound, Stays
<1> QED  BY <1>1, <1>2, <1>3, StaysGood

LEMMA CFacts ==
  ASSUME CInv
  PROVE  /\ Sound(screen) /\ inputStr \in Seq(Plain) /\ Len(inputStr) \in Nat
         /\ previousCommands \in Seq(Seq(Plain)) /\ Len(previousCommands) \in Nat
         /\ DOMAIN previousCommands = 1 .. Len(previousCommands)
         /\ \A k \in DOMAIN previousCommands : previousCommands[k] \in Seq(Plain)
         /\ commandIndex \in 0 .. Len(previousCommands)
         /\ allocated \in BOOLEAN /\ halted \in BOOLEAN
         /\ BufferInv /\ FaultsAreKnown
<1>1. /\ Sound(screen) /\ commandIndex \in 0 .. Len(previousCommands)
      /\ allocated \in BOOLEAN /\ halted \in BOOLEAN
  BY DEF CInv, ConsoleTypeOK, Sound
<1>2. inputStr \in Seq(Plain) /\ previousCommands \in Seq(Seq(Plain))
  BY DEF CInv, LinesArePlain
<1>3. /\ Len(previousCommands) \in Nat
      /\ DOMAIN previousCommands = 1 .. Len(previousCommands)
      /\ \A k \in DOMAIN previousCommands : previousCommands[k] \in Seq(Plain)
  BY <1>2, LenProperties
<1> QED  BY <1>1, <1>2, <1>3, PlainIsText DEF CInv

\* A handler that only changes the line and the screen.
LEMMA Edited ==
  ASSUME CInv, ~halted,
         Sound(screen'), Stays(screen, screen'),
         inputStr' \in Seq(Plain), allocated' \in BOOLEAN, allocated => allocated',
         commandIndex' \in 0 .. Len(previousCommands),
         UNCHANGED <<previousCommands, halted>>,
         Shows(screen, inputStr) /\ NoNul(previousCommands) => Shows(screen', inputStr')
  PROVE  Handled
<1>1. LinesArePlain' /\ commandIndex' \in 0 .. Len(previousCommands')
  BY CFacts DEF LinesArePlain
<1>2. halted' \in BOOLEAN /\ BufferInv' /\ FaultsAreKnown'
  BY CFacts DEF BufferInv, FaultsAreKnown
<1>3. NoNul(previousCommands') = NoNul(previousCommands)  OBVIOUS
<1> QED  BY <1>1, <1>2, <1>3 DEF Handled

LEMMA StayHandled ==
  ASSUME CInv, ~halted, Stay
  PROVE  Handled
<1>1. /\ screen' = quiet
      /\ UNCHANGED <<inputStr, allocated, previousCommands, commandIndex, halted>>
  BY DEF Stay, editVars
<1> QED  BY <1>1, CFacts, QuietIs, Edited

LEMMA EraseHandled ==
  ASSUME CInv, ~halted, Erase
  PROVE  Handled
<1>1. UNCHANGED <<allocated, previousCommands, commandIndex, halted>>  BY DEF Erase
<1>2. CASE inputStr = <<>>
  <2>1. screen' = quiet /\ inputStr' = inputStr  BY <1>2 DEF Erase
  <2> QED  BY <1>1, <2>1, CFacts, QuietIs, Edited
<1>3. CASE inputStr # <<>>
  <2>1. inputStr' = Front(inputStr) /\ screen' = erase(quiet)  BY <1>3 DEF Erase
  <2>2. inputStr' \in Seq(Plain)  BY <1>3, <2>1, CFacts, FrontIs
  <2>3. Sound(screen') /\ Stays(screen, screen')
    <3>1. Sound(screen') /\ Stays(quiet, screen')  BY <2>1, CFacts, QuietIs, EraseIs
    <3> QED  BY <3>1, CFacts, QuietIs, StaysTwice
  <2>4. Shows(screen, inputStr) => Shows(screen', inputStr')
    BY <1>3, <2>1, CFacts, QuietIs, EraseShows
  <2> QED  BY <1>1, <2>2, <2>3, <2>4, CFacts, Edited
<1> QED  BY <1>2, <1>3

LEMMA TypedIsPlain ==
  ASSUME NEW ch \in 0 .. 127, ch \notin Special
  PROVE  map[ch] \in Plain /\ shift_map[ch] \in Plain
<1>1. ch \in DOMAIN map /\ ch \in DOMAIN shift_map /\ NewLine \notin {map[ch], shift_map[ch]}
  BY ConsoleAssumption
<1>2. map[ch] \in Range(map) /\ shift_map[ch] \in Range(shift_map)
  BY <1>1 DEF Range
<1> QED  BY <1>1, <1>2 DEF Plain, Chars

LEMMA TypeHandled ==
  ASSUME CInv, ~halted, NEW ch \in 0 .. 127, ch \notin Special, Type(ch)
  PROVE  Handled
<1> DEFINE c == IF shifted \/ capsLock THEN shift_map[ch] ELSE map[ch]
<1>1. /\ inputStr' = Append(inputStr, c) /\ allocated' = TRUE
      /\ screen' = putchar(quiet, c)
      /\ UNCHANGED <<previousCommands, commandIndex, halted>>
  BY DEF Type
<1>2. c \in Plain  BY TypedIsPlain
<1> HIDE DEF c
<1>3. c \in Chars  BY <1>2 DEF Plain
<1>4. inputStr' \in Seq(Plain)  BY <1>1, <1>2, CFacts
<1>5. Sound(screen') /\ Stays(screen, screen')
  <2>1. Sound(screen') /\ Stays(quiet, screen')
    BY <1>1, <1>3, CFacts, QuietIs, PutcharSound
  <2> QED  BY <2>1, CFacts, QuietIs, StaysTwice
<1>6. Shows(screen, inputStr) => Shows(screen', inputStr')
  BY <1>1, <1>2, CFacts, QuietIs, PutcharShows
<1> QED  BY <1>1, <1>4, <1>5, <1>6, CFacts, Edited

\* What a String prints: all of it when it holds no NUL.
LEMMA CStringIs ==
  ASSUME NEW S, NEW str \in Seq(S)
  PROVE  /\ cString(str) \in Seq(S)
         /\ NUL \notin Range(str) => cString(str) = str
<1> DEFINE ends == {k \in DOMAIN str : str[k] = NUL}
<1>1. Len(str) \in Nat /\ DOMAIN str = 1 .. Len(str)  BY LenProperties
<1>2. NUL \notin Range(str) => ends = {}  BY DEF Range
<1>3. CASE ends = {}  BY <1>3 DEF cString
<1>4. CASE ends # {}
  <2> DEFINE least == CHOOSE k \in ends : \A l \in ends : k <= l
  <2>1. ends \in SUBSET Nat  BY <1>1
  <2>2. ends \subseteq 1 .. Len(str)  BY <1>1
  <2>3. cString(str) = SubSeq(str, 1, least - 1)  BY <1>4 DEF cString
  <2>4. NUL \in Range(str)  BY <1>4 DEF Range
  <2> HIDE DEF ends
  <2>5. \E k \in ends : \A l \in ends : k <= l  BY <1>4, <2>1, LeastElement
  <2>6. least \in ends  BY <2>5
  <2> HIDE DEF least
  <2>7. least - 1 \in 0 .. Len(str)  BY <1>1, <2>2, <2>6
  <2> QED  BY <2>3, <2>4, <2>7, PrefixIs
<1> QED  BY <1>2, <1>3, <1>4

LEMMA FaultHandled ==
  ASSUME CInv, ~halted, Fault,
         previousCommands = <<>> \/ (inputStr # <<>> /\ isBlank(inputStr))
  PROVE  Handled
<1>1. /\ screen' = screen /\ inputStr' = inputStr /\ allocated' = allocated
      /\ previousCommands' = previousCommands /\ commandIndex' = commandIndex
      /\ halted' = TRUE
  BY DEF Fault, editVars
<1>2. LinesArePlain' /\ commandIndex' \in 0 .. Len(previousCommands')
  BY <1>1, CFacts DEF LinesArePlain
<1>3. allocated' \in BOOLEAN /\ halted' \in BOOLEAN /\ BufferInv'
  BY <1>1, CFacts DEF BufferInv
<1>4. isBlank(inputStr)' = isBlank(inputStr)  BY <1>1 DEF isBlank
<1>5. FaultsAreKnown'  BY <1>1, <1>4 DEF FaultsAreKnown
<1>6. NoNul(previousCommands') => NoNul(previousCommands)  BY <1>1
<1>7. Sound(screen') /\ Stays(screen, screen')
  BY <1>1, CFacts DEF Stays
<1> QED  BY <1>1, <1>2, <1>3, <1>5, <1>6, <1>7 DEF Handled

LEMMA RecallHandled ==
  ASSUME CInv, ~halted, NEW index, index + 1 \in DOMAIN previousCommands,
         index \in 0 .. Len(previousCommands), Recall(index)
  PROVE  Handled
<1> DEFINE command == previousCommands[index + 1]
           cleared == clearCommand(quiet, inputStr)
           text == cString(command)
<1>1. /\ commandIndex' = index /\ inputStr' = command /\ allocated' = TRUE
      /\ screen' = print(cleared, text)
      /\ UNCHANGED <<previousCommands, halted>>
  BY DEF Recall
<1>2. command \in Seq(Plain)  BY CFacts
<1>3. NoNul(previousCommands) => NUL \notin Range(command)  BY DEF NoNul
<1> HIDE DEF command
<1>4. text \in Seq(Plain) /\ (NUL \notin Range(command) => text = command)
  BY <1>2, CStringIs
<1> HIDE DEF text
<1>5. text \in Seq(Chars)  BY <1>4, PlainIsText
<1>6. Sound(cleared) /\ Stays(screen, cleared)
  <2>1. Sound(cleared) /\ Stays(quiet, cleared)  BY CFacts, QuietIs, ClearSound
  <2> QED  BY <2>1, CFacts, QuietIs, StaysTwice
<1>7. Shows(screen, inputStr) => Shows(cleared, <<>>)
  BY CFacts, QuietIs, ClearShows
<1> HIDE DEF cleared
<1>8. Sound(screen') /\ Stays(screen, screen')
  <2>1. Sound(screen') /\ Stays(cleared, screen')  BY <1>1, <1>5, <1>6, PrintSound
  <2> QED  BY <2>1, <1>6, StaysTwice
<1>9. Shows(screen, inputStr) /\ NoNul(previousCommands) => Shows(screen', inputStr')
  BY <1>1, <1>3, <1>4, <1>7, PrintShows
<1> QED  BY <1>1, <1>2, <1>8, <1>9, CFacts, Edited

LEMMA UpHandled ==
  ASSUME CInv, ~halted, Up
  PROVE  Handled
<1>1. CASE commandIndex > 0
  <2> DEFINE index == commandIndex - 1
  <2>1. Recall(index)  BY <1>1 DEF Up
  <2>2. index + 1 \in DOMAIN previousCommands /\ index \in 0 .. Len(previousCommands)
    BY <1>1, CFacts
  <2> HIDE DEF index
  <2> QED  BY <2>1, <2>2, RecallHandled
<1>2. CASE ~(commandIndex > 0)
  BY <1>2, StayHandled DEF Up
<1> QED  BY <1>1, <1>2

LEMMA DownHandled ==
  ASSUME CInv, ~halted, Down
  PROVE  Handled
<1> DEFINE index == commandIndex + 1
<1>1. CASE previousCommands = <<>>
  <2>1. Recall(index)  BY <1>1 DEF Down
  <2>2. index + 1 \notin DOMAIN previousCommands  BY <1>1, CFacts
  <2>3. Fault  BY <2>1, <2>2 DEF Recall
  <2> QED  BY <1>1, <2>3, FaultHandled
<1>2. CASE previousCommands # <<>> /\ commandIndex < Len(previousCommands) - 1
  <2>1. Recall(index)  BY <1>2 DEF Down
  <2>2. index + 1 \in DOMAIN previousCommands /\ index \in 0 .. Len(previousCommands)
    BY <1>2, CFacts
  <2> HIDE DEF index
  <2> QED  BY <2>1, <2>2, RecallHandled
<1>3. CASE previousCommands # <<>> /\ ~(commandIndex < Len(previousCommands) - 1)
  BY <1>3, StayHandled DEF Down
<1> QED  BY <1>1, <1>2, <1>3

LEMMA ClearLineHandled ==
  ASSUME CInv, ~halted, ClearLine
  PROVE  Handled
<1>1. /\ screen' = clearCommand(quiet, inputStr)
      /\ inputStr' = <<>> /\ allocated' = TRUE
      /\ commandIndex' = Len(previousCommands)
      /\ UNCHANGED <<previousCommands, halted>>
  BY DEF ClearLine
<1>2. inputStr' \in Seq(Plain)  BY <1>1
<1>3. Sound(screen') /\ Stays(screen, screen')
  <2>1. Sound(screen') /\ Stays(quiet, screen')  BY <1>1, CFacts, QuietIs, ClearSound
  <2> QED  BY <2>1, CFacts, QuietIs, StaysTwice
<1>4. Shows(screen, inputStr) => Shows(screen', inputStr')
  BY <1>1, CFacts, QuietIs, ClearShows
<1>5. commandIndex' \in 0 .. Len(previousCommands)  BY <1>1, CFacts
<1> QED  BY <1>1, <1>2, <1>3, <1>4, <1>5, CFacts, Edited

\* newCommand: a line further down, scrolled into the screen, and the prompt.
LEMMA NewCommandIs ==
  ASSUME NEW s, Sound(s)
  PROVE  LET t == promptText(scrollIfFull(nextRow(s)))
         IN  /\ Sound(t) /\ Stays(s, t)
             /\ Good(s) /\ ~s.stray => Shows(t, <<>>)
<1> DEFINE u == nextRow(s)
           v == scrollIfFull(u)
           t == promptText(v)
<1>1. s.row \in Nat  BY Fields DEF Sound
<1>2. Sound(u) /\ u.row = s.row + 1 /\ u.column = s.column /\ u.stray = s.stray
  BY NextRowIs
<1> HIDE DEF u
<1>3. /\ v \in Screen /\ v.column = u.column /\ v.stray = u.stray
      /\ u.row <= VGA_HEIGHT => v.row < VGA_HEIGHT
      /\ u.row > 0 => v.row > 0
  BY <1>2, ScrollIfFullIs DEF Sound
<1> HIDE DEF v
<1>4. Sound(v)  BY <1>3 DEF Sound
<1>5. Stays(s, v)  BY <1>1, <1>2, <1>3, Sizes DEF Stays
<1>6. /\ Sound(t) /\ Stays(v, t)
      /\ Good(v) /\ ~v.stray => Shows(t, <<>>)
  BY <1>4, PromptTextIs
<1> HIDE DEF t
<1>7. Good(s) /\ ~s.stray => Shows(t, <<>>)
  BY <1>2, <1>3, <1>4, <1>5, <1>6, StaysGood
<1>8. Sound(t) /\ Stays(s, t)  BY <1>5, <1>6, StaysTwice
<1> QED  BY <1>7, <1>8 DEF t, v, u

LEMMA OutputIsText ==
  ASSUME NEW out \in Outputs
  PROVE  /\ <<NewLine>> \o out \in Seq(Chars)
         /\ (<<NewLine>> \o out)[1] = NewLine
<1>1. out \in Seq(Range(out))  BY ConsoleAssumption
<1>2. Range(out) \subseteq Chars  BY DEF Chars
<1>3. out \in Seq(Chars)  BY <1>1, <1>2
<1>4. NewLine \in Chars  BY DEF Chars
<1>5. <<NewLine>> \in Seq(Chars) /\ Len(<<NewLine>>) = 1  BY <1>4
<1> QED  BY <1>3, <1>5, ConcatProperties

LEMMA EnterHandled ==
  ASSUME CInv, ~halted, Enter
  PROVE  Handled
<1>1. CASE (~allocated \/ (inputStr # <<>> /\ isBlank(inputStr))) /\ Fault
  BY <1>1, CFacts, FaultHandled DEF BufferInv
<1>2. CASE /\ screen' = promptText(scrollIfFull(nextRow(quiet))) /\ inputStr = <<>>
           /\ UNCHANGED <<editVars, halted>>
  <2>1. UNCHANGED <<inputStr, allocated, previousCommands, commandIndex, halted>>
    BY <1>2 DEF editVars
  <2>2. Sound(screen') /\ Stays(screen, screen')
    <3>1. Sound(screen') /\ Stays(quiet, screen')  BY <1>2, CFacts, QuietIs, NewCommandIs
    <3> QED  BY <3>1, CFacts, QuietIs, StaysTwice
  <2>3. Shows(screen, inputStr) => Shows(screen', inputStr')
    BY <1>2, <2>1, CFacts, QuietIs, NewCommandIs DEF Shows
  <2> QED  BY <2>1, <2>2, <2>3, CFacts, Edited
<1>3. ASSUME allocated, NEW out \in Outputs,
             screen' = promptText(scrollIfFull(nextRow(print(quiet, <<NewLine>> \o out)))),
             remember(inputStr), inputStr' = <<>>, UNCHANGED <<allocated, halted>>
      PROVE  Handled
  <2> DEFINE p == print(quiet, <<NewLine>> \o out)
  <2>1. /\ Sound(p) /\ Stays(screen, p)
        /\ Good(screen) => Good(p) /\ ~p.stray
    <3>1. /\ Sound(p) /\ Stays(quiet, p)
          /\ Good(quiet) => p.stray = quiet.stray
      BY CFacts, QuietIs, OutputIsText, PrintSound
    <3> HIDE DEF p
    <3>2. Stays(screen, p)  BY <3>1, CFacts, QuietIs, StaysTwice
    <3>3. Good(screen) => Good(p)  BY <3>1, <3>2, StaysGood
    <3> QED  BY <3>1, <3>2, <3>3, CFacts, QuietIs
  <2> HIDE DEF p
  <2>2. Sound(screen') /\ Stays(screen, screen')
    <3>1. Sound(screen') /\ Stays(p, screen')  BY <1>3, <2>1, NewCommandIs DEF p
    <3> QED  BY <2>1, <3>1, StaysTwice
  <2>3. Shows(screen, inputStr) => Shows(screen', inputStr')
    <3>1. Good(p) /\ ~p.stray => Shows(screen', <<>>)
      BY <1>3, <2>1, NewCommandIs DEF p
    <3> QED  BY <1>3, <2>1, <3>1 DEF Shows
  <2>4. /\ previousCommands' = Append(previousCommands, inputStr)
        /\ commandIndex' = Len(previousCommands) + 1
    BY <1>3 DEF remember
  <2>5. previousCommands' \in Seq(Seq(Plain)) /\ Len(previousCommands') = Len(previousCommands) + 1
    BY <2>4, CFacts
  <2>6. LinesArePlain' /\ commandIndex' \in 0 .. Len(previousCommands')
    BY <1>3, <2>4, <2>5, CFacts DEF LinesArePlain
  <2>7. BufferInv' /\ FaultsAreKnown'  BY <1>3 DEF BufferInv, FaultsAreKnown
  <2>8. NoNul(previousCommands') => NoNul(previousCommands)
    BY <2>4, CFacts DEF NoNul
  <2>9. allocated' \in BOOLEAN /\ halted' \in BOOLEAN  BY <1>3, CFacts
  <2> QED  BY <2>2, <2>3, <2>6, <2>7, <2>8, <2>9 DEF Handled
<1> QED  BY <1>1, <1>2, <1>3 DEF Enter

-----------------------------------------------------------------------------
\* The invariant holds.

LEMMA CInit == ConsoleInit => CInv
<1> SUFFICES ASSUME ConsoleInit PROVE CInv
  OBVIOUS
<1> DEFINE blank == [k \in Cells |-> Space]
<1>1. screen = [row |-> 0, column |-> 0, vga |-> blank, cursor |-> 0,
                prompt |-> 0, stray |-> FALSE]
  BY DEF ConsoleInit
<1>2. blank \in Grid /\ 0 \in Addresses
  <2>1. Space \in Chars  BY DEF Chars
  <2>2. Positions \in Nat /\ Positions > 0  BY DEF Positions
  <2> QED  BY <2>1, <2>2 DEF Grid, Addresses
<1> HIDE DEF blank
<1>3. screen \in Screen  BY <1>1, <1>2, ScreenIs
<1>4. screen.row = 0 /\ screen.column = 0 /\ screen.stray = FALSE  BY <1>1
<1>5. /\ shifted \in BOOLEAN /\ capsLock \in BOOLEAN
      /\ inputStr = <<>> /\ previousCommands = <<>> /\ commandIndex = 0
      /\ early = FALSE /\ raced = FALSE /\ allocated = FALSE /\ halted = FALSE
  BY DEF ConsoleInit
<1>6. main = [phase |-> "banner", at |-> "put", text |-> Banner, row |-> 0, column |-> 0]
  BY DEF ConsoleInit
<1>7. main \in Mains
  <2>1. Range(Banner) \subseteq Chars  BY DEF Chars
  <2>2. Banner \in Seq(Chars)  BY <2>1, ConsoleAssumption
  <2>3. "banner" \in Phases /\ "put" \in Statements  BY DEF Phases, Statements
  <2> QED  BY <1>6, <2>2, <2>3 DEF Mains
<1>8. /\ main.phase = "banner" /\ main.at = "put" /\ main.row = 0 /\ main.column = 0
  BY <1>6
<1>9. ConsoleTypeOK
  <2>1. inputStr \in Seq(Chars) /\ previousCommands \in Seq(Seq(Chars))  BY <1>5
  <2>2. commandIndex \in 0 .. Len(previousCommands)  BY <1>5
  <2> QED  BY <1>3, <1>5, <1>7, <2>1, <2>2 DEF ConsoleTypeOK, Mains
<1>10. LinesArePlain  BY <1>5 DEF LinesArePlain
<1>11. ColumnInv /\ RowInv  BY <1>4, <1>8, Sizes DEF ColumnInv, RowInv, Between
<1>12. MainInv
  <2>1. Finish(main.at, screen) = screen  BY <1>8 DEF Finish
  <2>2. Clean(screen)  BY <1>3, <1>4, Sizes DEF Clean, Good, Sound
  <2> QED  BY <1>4, <1>5, <1>8, <2>1, <2>2 DEF MainInv
<1>13. BufferInv /\ ShownInv /\ FaultsAreKnown
  BY <1>5, <1>8 DEF BufferInv, ShownInv, Regular, FaultsAreKnown
<1> QED  BY <1>9, <1>10, <1>11, <1>12, <1>13 DEF CInv

-----------------------------------------------------------------------------
\* kernel_main, statement by statement.

LEMMA SetMain ==
  ASSUME NEW m \in Mains, NEW p \in Phases, NEW at \in Statements, NEW txt \in Seq(Chars),
         NEW r \in Nat, NEW c \in Int
  PROVE  LET t == [m EXCEPT !.phase = p, !.at = at, !.text = txt, !.row = r, !.column = c]
         IN  /\ t \in Mains /\ t.phase = p /\ t.at = at /\ t.text = txt
             /\ t.row = r /\ t.column = c
BY Zenon DEF Mains

LEMMA SameScreen ==
  ASSUME NEW s \in Screen, NEW t \in Screen,
         s.row = t.row, s.column = t.column, s.vga = t.vga,
         s.cursor = t.cursor, s.prompt = t.prompt, s.stray = t.stray
  PROVE  s = t
BY ScreenIs

\* Finishing takes the statements one after the other.
LEMMA FinishAdvance ==
  ASSUME NEW s \in Screen
  PROVE  LET c == s.column + 1
             t == [s EXCEPT !.column = c]
         IN  Finish(IF c = VGA_WIDTH THEN "home" ELSE "test", t) = Finish("advance", s)
<1> DEFINE c == s.column + 1
           t == [s EXCEPT !.column = c]
<1>1. c \in Int  BY Fields
<1>2. CASE c # VGA_WIDTH
  <2>1. advance(s) = t  BY <1>2 DEF advance
  <2>2. Finish("test", t) = updateCursor(scrollIfFull(t))  BY DEF Finish
  <2>3. Finish("advance", s) = updateCursor(scrollIfFull(advance(s)))  BY DEF Finish
  <2> QED  BY <1>2, <2>1, <2>2, <2>3
<1>3. CASE c = VGA_WIDTH
  <2> DEFINE a == [t EXCEPT !.column = 0]
             b == [s EXCEPT !.column = 0]
  <2>1. advance(s) = newLine(s)  BY <1>3 DEF advance
  <2>2. /\ t \in Screen /\ t.row = s.row /\ t.vga = s.vga /\ t.cursor = s.cursor
        /\ t.prompt = s.prompt /\ t.stray = s.stray
    BY <1>1, SetColumn
  <2> HIDE DEF t
  <2>3. /\ a \in Screen /\ a.column = 0 /\ a.row = t.row /\ a.vga = t.vga
        /\ a.cursor = t.cursor /\ a.prompt = t.prompt /\ a.stray = t.stray
    BY <2>2, SetColumn
  <2>4. /\ b \in Screen /\ b.column = 0 /\ b.row = s.row /\ b.vga = s.vga
        /\ b.cursor = s.cursor /\ b.prompt = s.prompt /\ b.stray = s.stray
    BY SetColumn
  <2>5. newLine(t) = [a EXCEPT !.row = t.row + 1]  BY Zenon DEF newLine
  <2>6. newLine(s) = [b EXCEPT !.row = s.row + 1]  BY Zenon DEF newLine
  <2> HIDE DEF a, b
  <2>7. a = b  BY <2>2, <2>3, <2>4, SameScreen
  <2>8. newLine(t) = newLine(s)  BY <2>2, <2>5, <2>6, <2>7
  <2>9. Finish("home", t) = updateCursor(scrollIfFull(newLine(t)))  BY DEF Finish
  <2>10. Finish("advance", s) = updateCursor(scrollIfFull(advance(s)))  BY DEF Finish
  <2> QED  BY <1>3, <2>1, <2>8, <2>9, <2>10 DEF t
<1> QED  BY <1>2, <1>3

LEMMA FinishHome ==
  ASSUME NEW s \in Screen
  PROVE  Finish("row", [s EXCEPT !.column = 0]) = Finish("home", s)
<1> DEFINE b == [s EXCEPT !.column = 0]
<1>1. b \in Screen /\ b.row = s.row  BY SetColumn
<1>2. newLine(s) = [b EXCEPT !.row = s.row + 1]  BY Zenon DEF newLine
<1> HIDE DEF b
<1>3. nextRow(b) = [b EXCEPT !.row = b.row + 1]  BY DEF nextRow
<1>4. nextRow(b) = newLine(s)  BY <1>1, <1>2, <1>3
<1>5. Finish("row", b) = updateCursor(scrollIfFull(nextRow(b)))  BY DEF Finish
<1>6. Finish("home", s) = updateCursor(scrollIfFull(newLine(s)))  BY DEF Finish
<1> QED  BY <1>4, <1>5, <1>6 DEF b

LEMMA FinishTest ==
  ASSUME NEW s \in Screen
  PROVE  Finish(IF s.row = VGA_HEIGHT THEN "up" ELSE "end", s) = Finish("test", s)
<1>1. Finish("test", s) = updateCursor(scrollIfFull(s))  BY DEF Finish
<1>2. Finish("up", s) = updateCursor(scroll([s EXCEPT !.row = @ - 1]))  BY DEF Finish
<1>3. Finish("end", s) = updateCursor(s)  BY DEF Finish
<1> QED  BY <1>1, <1>2, <1>3 DEF scrollIfFull

LEMMA FinishPut ==
  ASSUME NEW s, NEW c
  PROVE  /\ c = NewLine => Finish("home", s) = putchar(s, c)
         /\ c # NewLine => Finish("advance", write(s, c)) = putchar(s, c)
<1>1. Finish("home", s) = updateCursor(scrollIfFull(newLine(s)))  BY DEF Finish
<1>2. Finish("advance", write(s, c)) = updateCursor(scrollIfFull(advance(write(s, c))))
  BY DEF Finish
<1> QED  BY <1>1, <1>2 DEF putchar

LEMMA CleanIs ==
  ASSUME NEW s, Clean(s)
  PROVE  s \in Screen /\ Sound(s) /\ Good(s) /\ s.column >= 0 /\ ~s.stray
BY DEF Clean, Good, Sound

LEMMA PutcharClean ==
  ASSUME NEW s, Clean(s), NEW c \in Chars
  PROVE  Clean(putchar(s, c))
<1>1. /\ Sound(putchar(s, c)) /\ Stays(s, putchar(s, c))
      /\ putchar(s, c).column >= 0 /\ putchar(s, c).stray = s.stray
  BY CleanIs, PutcharSound
<1>2. Good(putchar(s, c))  BY <1>1, CleanIs, StaysGood
<1> QED  BY <1>1, <1>2, CleanIs DEF Clean

\* newCommand's line feed.
LEMMA RowClean ==
  ASSUME NEW s, Clean(s)
  PROVE  Clean(Finish("row", s))
<1> DEFINE u == nextRow(s)
           v == scrollIfFull(u)
           t == updateCursor(v)
<1>1. Finish("row", s) = t  BY DEF Finish
<1>2. s.row \in Nat /\ s.row < VGA_HEIGHT /\ s.column < VGA_WIDTH
  BY CleanIs, Fields DEF Good
<1>3. Sound(u) /\ u.row = s.row + 1 /\ u.column = s.column /\ u.stray = s.stray
  BY CleanIs, NextRowIs
<1> HIDE DEF u
<1>4. /\ v \in Screen /\ v.column = u.column /\ v.stray = u.stray
      /\ u.row <= VGA_HEIGHT => v.row < VGA_HEIGHT
  BY <1>3, ScrollIfFullIs DEF Sound
<1> HIDE DEF v
<1>5. /\ t \in Screen /\ t.row = v.row /\ t.column = v.column /\ t.stray = v.stray
  BY <1>4, CursorIs
<1> HIDE DEF t
<1>6. t.row < VGA_HEIGHT  BY <1>2, <1>3, <1>4, <1>5, Sizes
<1> QED  BY <1>1, <1>2, <1>3, <1>4, <1>5, <1>6, CleanIs DEF Clean, Good, Sound

-----------------------------------------------------------------------------
\* kernel_main's statements keep the invariant.

\* What a statement does to the counters, and where it goes.
Moved(at, srow, scolumn, row, column) ==
  /\ screen' \in Screen /\ main' \in Mains
  /\ main'.at = at /\ main'.row = row /\ main'.column = column
  /\ screen'.row = srow /\ screen'.column = scolumn

\* What it does to what is printed.
SameText == main'.phase = main.phase /\ main'.text = main.text

LEMMA MFacts ==
  ASSUME CInv
  PROVE  /\ main \in Mains /\ screen \in Screen
         /\ main.phase \in Phases /\ main.at \in Statements /\ main.text \in Seq(Chars)
         /\ main.row \in Nat /\ main.column \in Int
         /\ screen.row \in Nat /\ screen.column \in Int
         /\ early \in BOOLEAN /\ raced \in BOOLEAN
<1>1. main \in Mains /\ screen \in Screen /\ early \in BOOLEAN /\ raced \in BOOLEAN
  BY DEF CInv, ConsoleTypeOK, Mains
<1>2. screen.row \in Nat /\ screen.column \in Int  BY <1>1, Fields
<1>3. /\ main.phase \in Phases /\ main.at \in Statements /\ main.text \in Seq(Chars)
      /\ main.row \in Nat /\ main.column \in Int
  BY <1>1 DEF Mains
<1> QED  BY <1>1, <1>2, <1>3

LEMMA AdvanceMoved ==
  ASSUME CInv, MainAdvance
  PROVE  LET c == main.column + 1
         IN  /\ Moved(IF c = VGA_WIDTH THEN "home" ELSE "test",
                      screen.row, c, main.row, c)
             /\ screen' = [screen EXCEPT !.column = c] /\ SameText /\ inputStr' = inputStr
<1> DEFINE c  == main.column + 1
           at == IF c = VGA_WIDTH THEN "home" ELSE "test"
<1>1. c \in Int /\ at \in Statements  BY MFacts DEF Statements
<1>2. /\ screen' = [screen EXCEPT !.column = c] /\ inputStr' = inputStr
      /\ main' = [main EXCEPT !.at = at, !.row = main.row, !.column = c]
  BY DEF MainAdvance, Does, Goes
<1> HIDE DEF at, c
<1>3. /\ main' \in Mains /\ main'.at = at /\ main'.row = main.row /\ main'.column = c
      /\ SameText
  BY <1>1, <1>2, MFacts, Zenon DEF Mains, SameText
<1>4. screen' \in Screen /\ screen'.column = c /\ screen'.row = screen.row
  BY <1>1, <1>2, MFacts, SetColumn
<1> QED  BY <1>2, <1>3, <1>4 DEF Moved, at, c

LEMMA HomeMoved ==
  ASSUME CInv, MainHome
  PROVE  /\ Moved("row", screen.row, 0, main.row, 0)
         /\ screen' = [screen EXCEPT !.column = 0] /\ SameText /\ inputStr' = inputStr
<1>1. /\ screen' = [screen EXCEPT !.column = 0] /\ inputStr' = inputStr
      /\ main' = [main EXCEPT !.at = "row", !.row = main.row, !.column = 0]
  BY DEF MainHome, Does, Goes
<1>2. "row" \in Statements /\ 0 \in Int  BY DEF Statements
<1>3. /\ main' \in Mains /\ main'.at = "row" /\ main'.row = main.row /\ main'.column = 0
      /\ SameText
  BY <1>1, <1>2, MFacts, Zenon DEF Mains, SameText
<1>4. screen' \in Screen /\ screen'.column = 0 /\ screen'.row = screen.row
  BY <1>1, MFacts, SetColumn
<1> QED  BY <1>1, <1>3, <1>4 DEF Moved

LEMMA RowMoved ==
  ASSUME CInv, MainRow
  PROVE  LET r == main.row + 1
         IN  /\ Moved("test", r, screen.column, r, main.column)
             /\ screen' = [screen EXCEPT !.row = r] /\ SameText /\ inputStr' = inputStr
<1> DEFINE r == main.row + 1
<1>1. r \in Nat /\ "test" \in Statements  BY MFacts DEF Statements
<1>2. /\ screen' = [screen EXCEPT !.row = r] /\ inputStr' = inputStr
      /\ main' = [main EXCEPT !.at = "test", !.row = r, !.column = main.column]
  BY DEF MainRow, Does, Goes
<1> HIDE DEF r
<1>3. /\ main' \in Mains /\ main'.at = "test" /\ main'.row = r
      /\ main'.column = main.column /\ SameText
  BY <1>1, <1>2, MFacts, Zenon DEF Mains, SameText
<1>4. screen' \in Screen /\ screen'.row = r /\ screen'.column = screen.column
  BY <1>1, <1>2, MFacts, SetRow
<1> QED  BY <1>2, <1>3, <1>4 DEF Moved, r

LEMMA TestMoved ==
  ASSUME CInv, MainTest
  PROVE  /\ Moved(IF main.row = VGA_HEIGHT THEN "up" ELSE "end",
                  screen.row, screen.column, main.row, main.column)
         /\ screen' = screen /\ SameText /\ inputStr' = inputStr
<1> DEFINE at == IF main.row = VGA_HEIGHT THEN "up" ELSE "end"
<1>1. at \in Statements  BY DEF Statements
<1>2. screen' = screen /\ inputStr' = inputStr /\ main' = [main EXCEPT !.at = at]
  BY DEF MainTest, Does
<1> HIDE DEF at
<1>3. /\ main' \in Mains /\ main'.at = at /\ main'.row = main.row
      /\ main'.column = main.column /\ SameText
  BY <1>1, <1>2, MFacts, Zenon DEF Mains, SameText
<1> QED  BY <1>2, <1>3, MFacts DEF Moved, at

LEMMA UpMoved ==
  ASSUME CInv, MainUp
  PROVE  LET r == main.row - 1
         IN  /\ Moved("scroll", r, screen.column, r, main.column)
             /\ screen' = [screen EXCEPT !.row = r] /\ SameText /\ inputStr' = inputStr
<1> DEFINE r == main.row - 1
<1>1. r \in Nat
  <2>1. main.at = "up"  BY DEF MainUp
  <2>2. main.row > 0  BY <2>1 DEF CInv, RowInv
  <2> QED  BY <2>2, MFacts
<1>2. /\ screen' = [screen EXCEPT !.row = r] /\ inputStr' = inputStr
      /\ main' = [main EXCEPT !.at = "scroll", !.row = r, !.column = main.column]
  BY DEF MainUp, Does, Goes
<1> HIDE DEF r
<1>3. "scroll" \in Statements  BY DEF Statements
<1>4. /\ main' \in Mains /\ main'.at = "scroll" /\ main'.row = r
      /\ main'.column = main.column /\ SameText
  BY <1>1, <1>2, <1>3, MFacts, Zenon DEF Mains, SameText
<1>5. screen' \in Screen /\ screen'.row = r /\ screen'.column = screen.column
  BY <1>1, <1>2, MFacts, SetRow
<1> QED  BY <1>2, <1>4, <1>5 DEF Moved, r

LEMMA ScrollMoved ==
  ASSUME CInv, MainScroll
  PROVE  /\ Moved("end", screen.row, screen.column, main.row, main.column)
         /\ screen' = scroll(screen) /\ SameText /\ inputStr' = inputStr
<1>1. screen' = scroll(screen) /\ inputStr' = inputStr /\ main' = [main EXCEPT !.at = "end"]
  BY DEF MainScroll, Does
<1>2. "end" \in Statements  BY DEF Statements
<1>3. /\ main' \in Mains /\ main'.at = "end" /\ main'.row = main.row
      /\ main'.column = main.column /\ SameText
  BY <1>1, <1>2, MFacts, Zenon DEF Mains, SameText
<1>4. screen' \in Screen /\ screen'.row = screen.row /\ screen'.column = screen.column
  BY <1>1, MFacts, ScrollIs
<1> QED  BY <1>1, <1>3, <1>4 DEF Moved

LEMMA CursorMoved ==
  ASSUME CInv, MainCursor
  PROVE  /\ Moved("put", screen.row, screen.column, screen.row, screen.column)
         /\ screen' = updateCursor(screen) /\ SameText /\ inputStr' = inputStr
<1>1. /\ screen' = updateCursor(screen) /\ inputStr' = inputStr
      /\ main' = [main EXCEPT !.at = "put", !.row = screen.row, !.column = screen.column]
  BY DEF MainCursor, Does, Goes
<1>2. "put" \in Statements  BY DEF Statements
<1>3. /\ main' \in Mains /\ main'.at = "put" /\ main'.row = screen.row
      /\ main'.column = screen.column /\ SameText
  BY <1>1, <1>2, MFacts, Zenon DEF Mains, SameText
<1>4. screen' \in Screen /\ screen'.row = screen.row /\ screen'.column = screen.column
  BY <1>1, MFacts, CursorIs
<1> QED  BY <1>1, <1>3, <1>4 DEF Moved

LEMMA LoadMoved ==
  ASSUME CInv, MainLoad
  PROVE  /\ \/ Moved(main.at, screen.row, screen.column, screen.row, main.column)
            \/ Moved(main.at, screen.row, screen.column, main.row, screen.column)
         /\ main.row # screen.row \/ main.column # screen.column
         /\ screen' = screen /\ SameText /\ inputStr' = inputStr
<1>1. screen' = screen /\ inputStr' = inputStr
      /\ (main.row # screen.row \/ main.column # screen.column)
  BY DEF MainLoad, Does
<1>2. CASE main' = [main EXCEPT !.row = screen.row]
  <2>1. /\ main' \in Mains /\ main'.at = main.at /\ main'.row = screen.row
        /\ main'.column = main.column /\ SameText
    BY <1>2, MFacts, Zenon DEF Mains, SameText
  <2> QED  BY <1>1, <2>1, MFacts DEF Moved
<1>3. CASE main' = [main EXCEPT !.column = screen.column]
  <2>1. /\ main' \in Mains /\ main'.at = main.at /\ main'.row = main.row
        /\ main'.column = screen.column /\ SameText
    BY <1>3, MFacts, Zenon DEF Mains, SameText
  <2> QED  BY <1>1, <2>1, MFacts DEF Moved
<1> QED  BY <1>2, <1>3 DEF MainLoad, Does

\* putchar's first statement: the character at the cursor, or none for a line feed.
LEMMA PutMoved ==
  ASSUME CInv, MainPut
  PROVE  LET c == Head(main.text)
             at == IF c = NewLine THEN "home" ELSE "advance"
         IN  /\ Moved(at, screen.row, screen.column, main.row, main.column)
             /\ main'.phase = main.phase /\ main'.text = Tail(main.text)
             /\ c \in Chars /\ inputStr' = inputStr
             /\ main.at = "put" => Finish(at, screen') = putchar(Finish(main.at, screen), c)
<1> DEFINE c == Head(main.text)
           at == IF c = NewLine THEN "home" ELSE "advance"
           rest == Tail(main.text)
<1>1. c \in Chars /\ rest \in Seq(Chars) /\ at \in Statements
  <2>1. main.text # <<>>  BY DEF MainPut
  <2> QED  BY <2>1, MFacts DEF Statements
<1>2. /\ screen' = IF c = NewLine THEN screen ELSE write(screen, c)
      /\ main' = [main EXCEPT !.at = at, !.text = rest] /\ inputStr' = inputStr
  BY DEF MainPut, Does
<1>3. main.at = "put"  BY DEF MainPut
<1> HIDE DEF c, rest
<1>4. screen' \in Screen /\ screen'.row = screen.row /\ screen'.column = screen.column
  BY <1>1, <1>2, MFacts, WriteIs
<1>5. Finish(main.at, screen) = screen  BY <1>3 DEF Finish
<1>6. Finish(at, screen') = putchar(screen, c)  BY <1>2, FinishPut
<1> HIDE DEF at
<1>7. /\ main' \in Mains /\ main'.at = at /\ main'.row = main.row
      /\ main'.column = main.column /\ main'.phase = main.phase /\ main'.text = rest
  BY <1>1, <1>2, MFacts, Zenon DEF Mains
<1> QED  BY <1>1, <1>2, <1>4, <1>5, <1>6, <1>7 DEF Moved, at, rest, c

\* newCommand's statements around its line feed.
LEMMA NewCommandMoved ==
  ASSUME CInv, MainNewCommand
  PROVE  /\ Moved("row", screen.row, screen.column, screen.row, screen.column)
         /\ screen' = screen /\ main'.phase = "newCommand" /\ inputStr' = <<>>
         /\ main.at = "put"
<1>1. /\ screen' = screen /\ inputStr' = <<>> /\ main.at = "put"
      /\ main' = [[main EXCEPT !.at = "row", !.row = screen.row, !.column = screen.column]
                    EXCEPT !.phase = "newCommand"]
  BY DEF MainNewCommand, Does, Goes
<1>2. "row" \in Statements /\ "newCommand" \in Phases  BY DEF Statements, Phases
<1>3. /\ main' \in Mains /\ main'.at = "row" /\ main'.row = screen.row
      /\ main'.column = screen.column /\ main'.phase = "newCommand"
  BY <1>1, <1>2, MFacts, Zenon DEF Mains
<1> QED  BY <1>1, <1>3, MFacts DEF Moved

LEMMA PromptMoved ==
  ASSUME CInv, MainPrompt
  PROVE  /\ Moved("put", screen.row, 0, screen.row, 0)
         /\ screen' = [screen EXCEPT !.column = 0] /\ inputStr' = inputStr
         /\ main'.phase = "prompt" /\ main'.text = Prompt /\ main.at = "end"
<1>1. /\ screen' = [screen EXCEPT !.column = 0] /\ inputStr' = inputStr /\ main.at = "end"
      /\ main' = [[main EXCEPT !.at = "put", !.row = screen.row, !.column = 0]
                    EXCEPT !.phase = "prompt", !.text = Prompt]
  BY DEF MainPrompt, Does, Goes
<1>2. "put" \in Statements /\ "prompt" \in Phases /\ 0 \in Int
  BY DEF Statements, Phases
<1>3. Prompt \in Seq(Chars)
  <2>1. Prompt \in Seq(Plain)  BY PromptIs
  <2> QED  BY <2>1, PlainIsText
<1>4. /\ main' \in Mains /\ main'.at = "put" /\ main'.row = screen.row
      /\ main'.column = 0 /\ main'.phase = "prompt" /\ main'.text = Prompt
  BY <1>1, <1>2, <1>3, MFacts, Zenon DEF Mains
<1>5. screen' \in Screen /\ screen'.column = 0 /\ screen'.row = screen.row
  BY <1>1, MFacts, SetColumn
<1> QED  BY <1>1, <1>4, <1>5 DEF Moved

LEMMA LoopMoved ==
  ASSUME CInv, MainLoop
  PROVE  /\ Moved("put", screen.row, screen.column, main.row, main.column)
         /\ screen' = updateCursor([screen EXCEPT !.prompt = At(screen)])
         /\ main'.phase = "loop" /\ inputStr' = inputStr
         /\ main.at = "put" /\ main.phase = "prompt" /\ main.text = <<>>
<1> DEFINE a == At(screen)
           v == [screen EXCEPT !.prompt = a]
<1>1. /\ screen' = updateCursor(v) /\ inputStr' = inputStr
      /\ main' = [main EXCEPT !.phase = "loop"]
      /\ main.at = "put" /\ main.phase = "prompt" /\ main.text = <<>>
  BY DEF MainLoop, Does
<1>2. a \in Int  BY MFacts, AtIsInt
<1> HIDE DEF a
<1>3. v \in Screen /\ v.row = screen.row /\ v.column = screen.column
  BY <1>2, MFacts, SetPrompt
<1> HIDE DEF v
<1>4. screen' \in Screen /\ screen'.row = screen.row /\ screen'.column = screen.column
  BY <1>1, <1>3, CursorIs
<1>5. "loop" \in Phases  BY DEF Phases
<1>6. /\ main' \in Mains /\ main'.at = "put" /\ main'.row = main.row
      /\ main'.column = main.column /\ main'.phase = "loop"
  BY <1>1, <1>5, MFacts, Zenon DEF Mains
<1> QED  BY <1>1, <1>4, <1>6 DEF Moved, v, a

\* What all of them leave alone.
LEMMA MainLeaves ==
  ASSUME Main
  PROVE  /\ UNCHANGED <<shifted, capsLock, allocated, previousCommands, commandIndex>>
         /\ UNCHANGED <<early, raced, halted>> /\ ~halted /\ main.phase # "loop"
BY DEF Main, MainPut, MainAdvance, MainHome, MainRow, MainTest, MainUp, MainScroll,
       MainCursor, MainNewCommand, MainPrompt, MainLoop, MainLoad, Does, keyboardVars

\* The counters, statement by statement.
LEMMA MainCounts ==
  ASSUME CInv, Main
  PROVE  /\ screen' \in Screen /\ main' \in Mains /\ ColumnInv' /\ RowInv'
         /\ inputStr' = inputStr \/ inputStr' = <<>>
<1> USE MFacts DEF Moved
<1>1. ColumnInv /\ RowInv  BY DEF CInv
<1>2. raced' = raced  BY MainLeaves
<1>3. VGA_WIDTH \in Nat \ {0, 1} /\ VGA_HEIGHT \in Nat \ {0, 1}  BY Sizes
<1>4. CASE MainPut
  <2>1. main.at = "put"  BY <1>4 DEF MainPut
  <2> QED  BY <1>1, <1>2, <1>4, <2>1, PutMoved DEF ColumnInv, RowInv, Between
<1>5. CASE MainAdvance
  <2>1. main.at = "advance"  BY <1>5 DEF MainAdvance
  <2> QED  BY <1>1, <1>2, <1>3, <1>5, <2>1, AdvanceMoved DEF ColumnInv, RowInv, Between
<1>6. CASE MainHome
  <2>1. main.at = "home"  BY <1>6 DEF MainHome
  <2> QED  BY <1>1, <1>2, <1>3, <1>6, <2>1, HomeMoved DEF ColumnInv, RowInv, Between
<1>7. CASE MainRow
  <2>1. main.at = "row"  BY <1>7 DEF MainRow
  <2> QED  BY <1>1, <1>2, <1>3, <1>7, <2>1, RowMoved DEF ColumnInv, RowInv, Between
<1>8. CASE MainTest
  <2>1. main.at = "test"  BY <1>8 DEF MainTest
  <2> QED  BY <1>1, <1>2, <1>3, <1>8, <2>1, TestMoved DEF ColumnInv, RowInv, Between
<1>9. CASE MainUp
  <2>1. main.at = "up"  BY <1>9 DEF MainUp
  <2> QED  BY <1>1, <1>2, <1>3, <1>9, <2>1, UpMoved DEF ColumnInv, RowInv, Between
<1>10. CASE MainScroll
  <2>1. main.at = "scroll"  BY <1>10 DEF MainScroll
  <2> QED  BY <1>1, <1>2, <1>10, <2>1, ScrollMoved DEF ColumnInv, RowInv, Between
<1>11. CASE MainCursor
  <2>1. main.at = "end"  BY <1>11 DEF MainCursor
  <2> QED  BY <1>1, <1>2, <1>11, <2>1, CursorMoved DEF ColumnInv, RowInv, Between
<1>12. CASE MainNewCommand
  BY <1>1, <1>2, <1>12, NewCommandMoved DEF ColumnInv, RowInv, Between
<1>13. CASE MainPrompt
  BY <1>1, <1>2, <1>3, <1>13, PromptMoved DEF ColumnInv, RowInv, Between
<1>14. CASE MainLoop
  BY <1>1, <1>2, <1>14, LoopMoved DEF ColumnInv, RowInv, Between
<1>15. CASE MainLoad
  BY <1>1, <1>2, <1>15, LoadMoved DEF ColumnInv, RowInv, Between
<1> QED  BY <1>4, <1>5, <1>6, <1>7, <1>8, <1>9, <1>10, <1>11, <1>12, <1>13, <1>14, <1>15
         DEF Main

\* A statement that only moves on leaves what it finishes.
LEMMA MovesOn ==
  ASSUME CInv, ~early, ~early', main.phase # "loop", SameText, inputStr' = inputStr,
         main'.row = screen'.row, main'.column = screen'.column,
         Finish(main'.at, screen') = Finish(main.at, screen)
  PROVE  MainInv' /\ main'.phase # "loop"
BY DEF CInv, MainInv, SameText

\* What is printed, statement by statement.
LEMMA MainPrints ==
  ASSUME CInv, Main, ~early
  PROVE  MainInv' /\ (main'.phase = "loop" => Shows(screen', inputStr'))
<1> DEFINE f == Finish(main.at, screen)
<1>1. /\ ~early' /\ main.phase # "loop"  BY MainLeaves
<1>2. /\ main.row = screen.row /\ main.column = screen.column
      /\ inputStr = <<>> /\ Clean(f)
      /\ main.phase = "prompt" => PromptSoFar(main.text, f)
  BY <1>1 DEF CInv, MainInv
<1>3. CASE MainPut
  <2> DEFINE c  == Head(main.text)
             at == IF c = NewLine THEN "home" ELSE "advance"
             g  == Finish(main'.at, screen')
  <2>1. /\ main'.row = main.row /\ main'.column = main.column
        /\ screen'.row = screen.row /\ screen'.column = screen.column
        /\ main'.phase = main.phase /\ main'.text = Tail(main.text)
        /\ c \in Chars /\ inputStr' = inputStr /\ g = putchar(f, c)
    <3>1. main.at = "put"  BY <1>3 DEF MainPut
    <3> QED  BY <1>3, <3>1, PutMoved DEF Moved
  <2> HIDE DEF g, f
  <2>2. Clean(g)  BY <1>2, <2>1, PutcharClean
  <2>3. ASSUME main.phase = "prompt"
        PROVE  PromptSoFar(Tail(main.text), g)
    <3>1. main.text # <<>>  BY <1>3 DEF MainPut
    <3>2. PICK u : /\ Clean(u) /\ u.column = 0
                   /\ \/ main.text = Prompt /\ f = u
                      \/ main.text = <<Space>> /\ f = putchar(u, ">")
      BY <1>2, <2>3, <3>1 DEF PromptSoFar
    <3>3. CASE main.text = Prompt /\ f = u
      <4>1. c = ">" /\ Tail(main.text) = <<Space>>  BY <3>3 DEF Prompt
      <4> HIDE DEF c
      <4> QED  BY <2>1, <3>2, <3>3, <4>1 DEF PromptSoFar
    <3>4. CASE main.text = <<Space>> /\ f = putchar(u, ">")
      <4>1. c = Space /\ Tail(main.text) = <<>>  BY <3>4
      <4> HIDE DEF c
      <4> QED  BY <2>1, <3>2, <3>4, <4>1 DEF PromptSoFar
    <3> QED  BY <3>2, <3>3, <3>4
  <2> QED  BY <1>1, <1>2, <2>1, <2>2, <2>3 DEF MainInv, g
<1>4. CASE MainAdvance
  <2>1. main.at = "advance"  BY <1>4 DEF MainAdvance
  <2> QED  BY <1>1, <1>2, <1>4, <2>1, AdvanceMoved, FinishAdvance, MFacts, MovesOn DEF Moved
<1>5. CASE MainHome
  <2>1. main.at = "home"  BY <1>5 DEF MainHome
  <2> QED  BY <1>1, <1>2, <1>5, <2>1, HomeMoved, FinishHome, MFacts, MovesOn DEF Moved
<1>6. CASE MainRow
  <2>1. main.at = "row"  BY <1>6 DEF MainRow
  <2>2. screen' = nextRow(screen)  BY <1>2, <1>6, RowMoved DEF nextRow
  <2>3. Finish("test", screen') = Finish("row", screen)  BY <2>2 DEF Finish
  <2> QED  BY <1>1, <1>2, <1>6, <2>1, <2>3, RowMoved, MovesOn DEF Moved
<1>7. CASE MainTest
  <2>1. main.at = "test"  BY <1>7 DEF MainTest
  <2> QED  BY <1>1, <1>2, <1>7, <2>1, TestMoved, FinishTest, MFacts, MovesOn DEF Moved
<1>8. CASE MainUp
  <2>1. main.at = "up"  BY <1>8 DEF MainUp
  <2>2. screen' = [screen EXCEPT !.row = @ - 1]  BY <1>2, <1>8, UpMoved
  <2>3. Finish("scroll", screen') = Finish("up", screen)  BY <2>2 DEF Finish
  <2> QED  BY <1>1, <1>2, <1>8, <2>1, <2>3, UpMoved, MovesOn DEF Moved
<1>9. CASE MainScroll
  <2>1. main.at = "scroll"  BY <1>9 DEF MainScroll
  <2>2. screen' = scroll(screen)  BY <1>9, ScrollMoved
  <2>3. Finish("end", screen') = Finish("scroll", screen)  BY <2>2 DEF Finish
  <2> QED  BY <1>1, <1>2, <1>9, <2>1, <2>3, ScrollMoved, MovesOn DEF Moved
<1>10. CASE MainCursor
  <2>1. main.at = "end"  BY <1>10 DEF MainCursor
  <2>2. screen' = updateCursor(screen)  BY <1>10, CursorMoved
  <2>3. Finish("put", screen') = Finish("end", screen)  BY <2>2 DEF Finish
  <2> QED  BY <1>1, <1>2, <1>10, <2>1, <2>3, CursorMoved, MovesOn DEF Moved
<1>11. CASE MainNewCommand
  <2>1. /\ main.at = "put" /\ main'.at = "row" /\ main'.phase = "newCommand"
        /\ main'.row = screen.row /\ main'.column = screen.column
        /\ screen' = screen /\ inputStr' = <<>>
    BY <1>11, NewCommandMoved DEF Moved
  <2>2. Clean(screen)  BY <1>2, <2>1 DEF Finish
  <2>3. Clean(Finish("row", screen))  BY <2>2, RowClean
  <2> QED  BY <2>1, <2>3 DEF MainInv
<1>12. CASE MainPrompt
  <2>1. /\ main.at = "end" /\ main'.at = "put" /\ main'.phase = "prompt"
        /\ main'.text = Prompt /\ main'.row = screen.row /\ main'.column = 0
        /\ screen' \in Screen /\ screen'.row = screen.row /\ screen'.column = 0
        /\ screen' = [screen EXCEPT !.column = 0] /\ inputStr' = inputStr
    BY <1>12, PromptMoved DEF Moved
  <2>2. /\ updateCursor(screen).row = screen.row
        /\ updateCursor(screen).stray = screen.stray
    BY MFacts, CursorIs
  <2>3. f = updateCursor(screen)  BY <2>1 DEF Finish
  <2>4. screen.row < VGA_HEIGHT /\ ~screen.stray
    BY <1>2, <2>2, <2>3, CleanIs DEF Good
  <2>5. screen'.stray = screen.stray  BY <2>1, MFacts, SetColumn
  <2>6. Clean(screen')  BY <2>1, <2>4, <2>5, Sizes DEF Clean, Good, Sound
  <2>7. Finish("put", screen') = screen'  BY DEF Finish
  <2>8. PromptSoFar(Prompt, screen')  BY <2>1, <2>6 DEF PromptSoFar
  <2> QED  BY <1>2, <2>1, <2>6, <2>7, <2>8 DEF MainInv
<1>13. CASE MainLoop
  <2>1. /\ screen' = updateCursor([screen EXCEPT !.prompt = At(screen)])
        /\ main'.phase = "loop" /\ inputStr' = inputStr
        /\ main.at = "put" /\ main.phase = "prompt" /\ main.text = <<>>
    BY <1>13, LoopMoved
  <2>2. f = screen  BY <2>1 DEF Finish
  <2>3. PICK u : /\ Clean(u) /\ u.column = 0
                 /\ screen = putchar(putchar(u, ">"), Space)
    <3>1. <<>> # Prompt /\ <<>> # <<Space>>  BY DEF Prompt
    <3> QED  BY <1>2, <2>1, <2>2, <3>1 DEF PromptSoFar
  <2>4. Good(u) /\ ~u.stray  BY <2>3, CleanIs
  <2>5. Shows(screen', <<>>)  BY <2>1, <2>3, <2>4, PromptPrinted
  <2> QED  BY <1>2, <2>1, <2>5 DEF MainInv
<1>14. CASE MainLoad
  BY <1>2, <1>14, LoadMoved
<1> QED  BY <1>3, <1>4, <1>5, <1>6, <1>7, <1>8, <1>9, <1>10, <1>11, <1>12, <1>13, <1>14
         DEF Main

LEMMA MainStep == CInv /\ Main => CInv'
<1> SUFFICES ASSUME CInv, Main PROVE CInv'
  OBVIOUS
<1>1. /\ UNCHANGED <<shifted, capsLock, allocated, previousCommands, commandIndex>>
      /\ UNCHANGED <<early, raced, halted>> /\ ~halted
  BY MainLeaves
<1>2. /\ screen' \in Screen /\ main' \in Mains /\ ColumnInv' /\ RowInv'
      /\ inputStr' = inputStr \/ inputStr' = <<>>
  BY MainCounts
<1>3. inputStr' \in Seq(Plain)
  <2>1. <<>> \in Seq(Plain)  OBVIOUS
  <2> QED  BY <1>2, <2>1, CFacts, Zenon
<1>4. LinesArePlain' /\ BufferInv'
  <2>1. LinesArePlain'  BY <1>1, <1>3, CFacts DEF LinesArePlain
  <2>2. BufferInv'  BY <1>1, CFacts, Zenon DEF BufferInv
  <2> QED  BY <2>1, <2>2
<1>5. ConsoleTypeOK'
  <2>1. ConsoleTypeOK  BY DEF CInv
  <2>2. inputStr' \in Seq(Chars)  BY <1>3, PlainIsText
  <2> QED  BY <1>1, <1>2, <2>1, <2>2, Zenon DEF ConsoleTypeOK, Mains
<1>6. MainInv'
  <2>1. CASE early  BY <1>1, <2>1 DEF MainInv
  <2>2. CASE ~early  BY <2>2, MainPrints
  <2> QED  BY <2>1, <2>2
<1>7. ShownInv'
  <2> SUFFICES ASSUME Regular' PROVE Shows(screen', inputStr')
    BY DEF ShownInv
  <2>1. ~early /\ main'.phase = "loop"  BY <1>1 DEF Regular
  <2> QED  BY <2>1, MainPrints
<1>8. FaultsAreKnown'  BY <1>1 DEF FaultsAreKnown
<1> QED  BY <1>2, <1>4, <1>5, <1>6, <1>7, <1>8 DEF CInv

LEMMA KeyHandled ==
  ASSUME CInv, KeyIRQ
  PROVE  Handled /\ {shifted', capsLock'} \subseteq BOOLEAN
<1>1. ~halted /\ shifted \in BOOLEAN /\ capsLock \in BOOLEAN
  BY DEF KeyIRQ, CInv, ConsoleTypeOK
<1>2. PICK raw \in Codes :
        LET ch      == raw % 128
            pressed == raw < 128
        IN  /\ capsLock' = IF raw = CapsLock THEN ~capsLock ELSE capsLock
            /\ shifted' = IF ch = LeftShift THEN pressed ELSE shifted
            /\ IF pressed THEN keyStateChanged(ch) ELSE Stay
  BY DEF KeyIRQ
<1> DEFINE ch == raw % 128
<1>3. raw \in 0 .. 255  BY ConsoleAssumption
<1>4. ch \in 0 .. 127  BY <1>3
<1>5. keyStateChanged(ch) \/ Stay  BY <1>2
<1>6. {shifted', capsLock'} \subseteq BOOLEAN
  <2>1. shifted' = shifted \/ shifted' = (raw < 128)  BY <1>2
  <2>2. shifted' \in BOOLEAN
    <3>1. (raw < 128) \in BOOLEAN  BY <1>3
    <3> QED  BY <1>1, <2>1, <3>1, Zenon
  <2>3. capsLock' \in BOOLEAN  BY <1>1, <1>2
  <2> QED  BY <2>2, <2>3
<1> HIDE DEF ch
<1>7. ASSUME keyStateChanged(ch) PROVE Handled
  BY <1>1, <1>4, <1>7, EraseHandled, EnterHandled, UpHandled, DownHandled,
     ClearLineHandled, StayHandled, TypeHandled DEF keyStateChanged
<1> QED  BY <1>1, <1>5, <1>6, <1>7, StayHandled

LEMMA KeyStep == CInv /\ KeyIRQ => CInv'
<1> SUFFICES ASSUME CInv, KeyIRQ PROVE CInv'
  OBVIOUS
<1>1. Handled /\ shifted' \in BOOLEAN /\ capsLock' \in BOOLEAN  BY KeyHandled
<1>2. /\ early' = (early \/ main.phase # "loop")
      /\ raced' = (raced \/ (main.at \in Between /\ screen.row >= VGA_HEIGHT))
      /\ main' = main /\ ~halted
  BY DEF KeyIRQ
<1>3. /\ ConsoleTypeOK /\ ColumnInv /\ RowInv /\ ShownInv /\ main \in Mains
      /\ early \in BOOLEAN /\ raced \in BOOLEAN
  BY DEF CInv, ConsoleTypeOK, Mains
<1>4. /\ VGA_HEIGHT \in Nat /\ screen.row \in Nat /\ screen'.row \in Nat
      /\ main.row \in Nat
  BY <1>1, <1>3, CFacts, Sizes, Fields DEF Handled, Sound, Mains
<1>5. ConsoleTypeOK'
  <2>1. inputStr' \in Seq(Chars) /\ previousCommands' \in Seq(Seq(Chars))
    BY <1>1 DEF Handled, LinesArePlain, Plain
  <2>2. early' \in BOOLEAN /\ raced' \in BOOLEAN  BY <1>2, <1>3, Zenon
  <2>3. main' \in Mains  BY <1>2, <1>3
  <2>4. /\ screen' \in Screen /\ commandIndex' \in 0 .. Len(previousCommands')
        /\ {allocated', halted'} \subseteq BOOLEAN
    BY <1>1 DEF Handled, Sound
  <2> QED  BY <1>1, <2>1, <2>2, <2>3, <2>4 DEF ConsoleTypeOK, Mains
<1>6. Stays(screen, screen')  BY <1>1 DEF Handled
<1>7. ColumnInv'  BY <1>2, <1>3, <1>6 DEF ColumnInv, Stays
<1>8. RowInv'
  <2>1. screen.row > 0 => screen'.row > 0  BY <1>6 DEF Stays
  <2>2. screen.row < VGA_HEIGHT => screen'.row < VGA_HEIGHT  BY <1>6 DEF Stays
  <2>3. ASSUME ~raced'
        PROVE  /\ screen'.row <= VGA_HEIGHT /\ main.row <= VGA_HEIGHT
               /\ main.at \notin Between => screen'.row < VGA_HEIGHT /\ main.row < VGA_HEIGHT
               /\ main.at = "test" => (main.row = VGA_HEIGHT <=> screen'.row = VGA_HEIGHT)
    <3>1. ~raced /\ (main.at \in Between => screen.row < VGA_HEIGHT)
      <4>1. ~(raced \/ (main.at \in Between /\ screen.row >= VGA_HEIGHT))
        BY <1>2, <2>3, Zenon
      <4> QED  BY <1>4, <4>1
    <3>2. /\ screen.row <= VGA_HEIGHT /\ main.row <= VGA_HEIGHT
          /\ main.at \notin Between => screen.row < VGA_HEIGHT /\ main.row < VGA_HEIGHT
          /\ main.at = "test" => (main.row = VGA_HEIGHT <=> screen.row = VGA_HEIGHT)
      BY <1>3, <3>1 DEF RowInv
    <3>3. screen.row < VGA_HEIGHT  BY <3>1, <3>2
    <3> QED  BY <1>4, <2>2, <3>2, <3>3
  <2>4. /\ main.row > 0 => screen.row > 0
        /\ main.at = "up" => main.row > 0
    BY <1>3 DEF RowInv
  <2> QED  BY <1>2, <2>1, <2>3, <2>4 DEF RowInv
<1>9. MainInv'  BY <1>2 DEF MainInv
<1>10. ShownInv'
  <2> SUFFICES ASSUME Regular'
               PROVE  Shows(screen', inputStr')
    BY DEF ShownInv
  <2>1. main.phase = "loop" /\ ~early /\ ~halted' /\ NoNul(previousCommands')
    BY <1>2 DEF Regular, NoNul
  <2>2. NoNul(previousCommands)  BY <1>1, <2>1 DEF Handled
  <2>3. Regular  BY <1>2, <2>1, <2>2 DEF Regular, NoNul
  <2>4. Shows(screen, inputStr)  BY <1>3, <2>3 DEF ShownInv
  <2> QED  BY <1>1, <2>1, <2>4 DEF Handled
<1> QED  BY <1>1, <1>5, <1>7, <1>8, <1>9, <1>10 DEF CInv, Handled

LEMMA CStutter == CInv /\ UNCHANGED consoleVars => CInv'
<1> SUFFICES ASSUME CInv, UNCHANGED consoleVars PROVE CInv'
  OBVIOUS
<1>1. /\ UNCHANGED <<shifted, capsLock, screen, inputStr, allocated>>
      /\ UNCHANGED <<previousCommands, commandIndex, main, early, raced, halted>>
  BY DEF consoleVars, keyboardVars, editVars
<1>2. /\ ConsoleTypeOK' = ConsoleTypeOK /\ LinesArePlain' = LinesArePlain
      /\ ColumnInv' = ColumnInv /\ RowInv' = RowInv /\ BufferInv' = BufferInv
  BY <1>1 DEF ConsoleTypeOK, LinesArePlain, ColumnInv, RowInv, BufferInv
<1>3. Regular' = Regular /\ MainInv' = MainInv  BY <1>1 DEF Regular, MainInv
<1>4. ShownInv' = ShownInv  BY <1>1, <1>3 DEF ShownInv
<1>5. FaultsAreKnown' = FaultsAreKnown  BY <1>1 DEF FaultsAreKnown, isBlank
<1> QED  BY <1>2, <1>3, <1>4, <1>5 DEF CInv

THEOREM ConsoleInvariant == ConsoleSpec => []CInv
<1>1. CInv /\ [ConsoleNext]_consoleVars => CInv'
  BY MainStep, KeyStep, CStutter DEF ConsoleNext
<1> QED  BY CInit, <1>1, PTL DEF ConsoleSpec

-----------------------------------------------------------------------------

\* The shell's state keeps its types: in particular the index into the history
\* never passes its end.
THEOREM TypeCorrect == ConsoleSpec => []ConsoleTypeOK
<1>1. CInv => ConsoleTypeOK  BY DEF CInv
<1> QED  BY <1>1, ConsoleInvariant, PTL

\* From the first prompt on the screen shows, from prompt to cursor, the line
\* that Enter would run, whatever is typed, erased or recalled, on every screen.
THEOREM ScreenShowsLine == ConsoleSpec => []LineIsShown
<1>1. CInv => LineIsShown
  <2> SUFFICES ASSUME CInv, Regular
               PROVE  /\ At(screen) = screen.prompt + Len(inputStr)
                      /\ \A k \in DOMAIN inputStr :
                           screen.prompt + k - 1 \in Cells =>
                             screen.vga[screen.prompt + k - 1] = inputStr[k]
                      /\ \A k \in 1..2 :
                           screen.prompt + k - 3 \in Cells =>
                             screen.vga[screen.prompt + k - 3] = Prompt[k]
    BY DEF LineIsShown
  <2> DEFINE txt == Prompt \o inputStr
             n == Len(inputStr)
             p == screen.prompt
  <2>1. Shows(screen, inputStr)  BY DEF CInv, ShownInv
  <2>2. At(screen) = p + n  BY <2>1 DEF Shows
  <2>3. p \in Int /\ n \in Nat /\ inputStr \in Seq(Plain)
    BY CFacts, Fields DEF Sound
  <2>4. DOMAIN inputStr = 1 .. n  BY <2>3
  <2>5. Len(txt) = 2 + n /\ \A k \in 1 .. 2 + n :
          txt[k] = IF k <= 2 THEN Prompt[k] ELSE inputStr[k-2]
    BY <2>3, PromptConcat
  <2>6. Behind(screen, txt)  BY <2>1 DEF Shows
  <2> HIDE DEF txt, n, p
  <2>7. ASSUME NEW k \in 1 .. 2 + n, p + k - 3 \in Cells
        PROVE  screen.vga[p + k - 3] = txt[k]
    <3>1. At(screen) - Len(txt) + k - 1 = p + k - 3  BY <2>2, <2>3, <2>5
    <3> QED  BY <2>5, <2>6, <2>7, <3>1 DEF Behind
  <2>8. ASSUME NEW k \in 1 .. n, p + k - 1 \in Cells
        PROVE  screen.vga[p + k - 1] = inputStr[k]
    <3> DEFINE l == k + 2
    <3>1. l \in 1 .. 2 + n /\ p + l - 3 = p + k - 1 /\ ~(l <= 2) /\ l - 2 = k
      BY <2>3
    <3> HIDE DEF l
    <3>2. screen.vga[p + l - 3] = txt[l]  BY <2>7, <2>8, <3>1
    <3> QED  BY <2>5, <3>1, <3>2
  <2>9. ASSUME NEW k \in 1 .. 2, p + k - 3 \in Cells
        PROVE  screen.vga[p + k - 3] = Prompt[k]
    <3>1. k \in 1 .. 2 + n /\ k <= 2  BY <2>3
    <3> QED  BY <2>5, <2>7, <2>9, <3>1
  <2> QED  BY <2>2, <2>4, <2>8, <2>9 DEF n, p
<1> QED  BY <1>1, ConsoleInvariant, PTL

\* A handler writes outside vgaBuffer only when the prompt has scrolled off.
THEOREM WritesStayOnScreen == ConsoleSpec => []WritesOnScreen
<1>1. CInv => WritesOnScreen
  BY DEF CInv, ShownInv, Shows, WritesOnScreen
<1> QED  BY <1>1, ConsoleInvariant, PTL

\* Row and column leave the screen at the named statements only, and the row for
\* good only by a key that comes there, whatever the build keeps in registers.
THEOREM PositionStaysOnScreen == ConsoleSpec => []PositionIsOnScreen
<1>1. CInv => PositionIsOnScreen
  <2> SUFFICES ASSUME CInv PROVE PositionIsOnScreen
    OBVIOUS
  <2>1. screen.row \in Nat /\ screen.column \in Int  BY CFacts, Fields DEF Sound
  <2>2. ASSUME ~raced, main.at \notin Between PROVE ~(screen.row >= VGA_HEIGHT)
    BY <2>1, <2>2, Sizes DEF CInv, RowInv
  <2>3. main.at # "home" => ~(screen.column >= VGA_WIDTH)
    BY <2>1, Sizes DEF CInv, ColumnInv
  <2> QED  BY <2>2, <2>3 DEF PositionIsOnScreen
<1> QED  BY <1>1, ConsoleInvariant, PTL

\* Keys stop the machine in the two known situations only.
THEOREM FaultsStayKnown == ConsoleSpec => []FaultsAreKnown
<1>1. CInv => FaultsAreKnown  BY DEF CInv
<1> QED  BY <1>1, ConsoleInvariant, PTL
=============================================================================
