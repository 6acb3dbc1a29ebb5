--------------------------- MODULE YString_proofs ---------------------------
(***************************************************************************)
(* Theorems about the string class, YString, for any strings, letters,     *)
(* classes of the heap and length of a text.  SInv is inductive; whatever  *)
(* a call does is said once, by Effect, and the four properties follow.    *)
(***************************************************************************)
EXTENDS YString, TLAPS, WellFoundedInduction, SequenceTheorems

Byte   == Char \cup {NUL, Old, Other}
Letter == Char \cup {Other}
Buffers == Seq(Byte)

Strings == [buffer : Buffers, size : Nat, capacity : Nat, frames : Int, joined : BOOLEAN]

\* What holds of a string at any time, harm or not...
Sane(x) ==
  /\ x \in Strings
  /\ x.size <= x.capacity /\ x.size <= MaxText
  /\ x.buffer = <<>> => x.capacity = 0 /\ ~x.joined

\* ...and before any harm: the text is in the buffer.
Good(x) ==
  /\ x.size <= Len(x.buffer)
  /\ ~x.joined => x.capacity <= Len(x.buffer)
  /\ \A i \in 1 .. x.size : x.buffer[i] \in Letter

Sealed(x) == x.buffer = <<>> \/ (x.size < Len(x.buffer) /\ x.buffer[x.size + 1] = NUL)

Known == {"none", "null", "full", "joined"}

AllGood == \A n \in Names : Good(strings[n])

SInv ==
  /\ strings \in [Names -> Strings]
  /\ \A n \in Names : Sane(strings[n]) /\ strings[n].frames = Owned(strings[n])
  /\ lost \in Int
  /\ harm \in Known
  /\ harm = "none" => AllGood

-----------------------------------------------------------------------------
\* Sequences, buffers and texts.

LEMMA LeastElement ==
  ASSUME NEW T \in SUBSET Nat, T # {}
  PROVE  \E x \in T : \A y \in T : x <= y
<1>1. IsWellFoundedOn(OpToRel(<, Nat), Nat)  BY NatLessThanWellFounded
<1>2. \E x \in T : \A y \in T : ~(<<y, x>> \in OpToRel(<, Nat))
  BY <1>1, WFMin, Zenon
<1>3. \A x \in T, y \in T : <<y, x>> \in OpToRel(<, Nat) <=> y < x
  BY DEF OpToRel
<1>4. \E x \in T : \A y \in T : ~(y < x)  BY <1>2, <1>3, Zenon
<1> QED  BY <1>4

LEMMA AsSeq ==
  ASSUME NEW S, NEW n \in Nat, NEW f \in [1 .. n -> S]
  PROVE  f \in Seq(S) /\ Len(f) = n /\ DOMAIN f = 1 .. n
OBVIOUS

LEMMA SameSeq ==
  ASSUME NEW S, NEW s \in Seq(S), NEW t \in Seq(S), Len(s) = Len(t),
         \A i \in 1 .. Len(s) : s[i] = t[i]
  PROVE  s = t
BY SeqEqual

\* A request that texts of the bounded length make gets a frame it fits into.
LEMMA FreshIs ==
  ASSUME NEW n \in Nat, n <= 2 * MaxText
  PROVE  /\ Fresh(n) \in Buffers /\ Fresh(n) # <<>>
         /\ n <= Len(Fresh(n)) /\ Len(Fresh(n)) \in Nat \ {0}
<1>1. Classes \subseteq Nat \ {0} /\ MaxText \in Nat  BY StringAssumption
<1>2. n \in 0 .. 2 * MaxText  BY <1>1
<1> DEFINE T == {c \in Classes : n <= c}
<1>3. T \in SUBSET Nat /\ T # {}  BY <1>1, <1>2, StringAssumption
<1> HIDE DEF T
<1>4. \E x \in T : \A y \in T : x <= y  BY <1>3, LeastElement
<1>5. \E x \in Classes : n <= x /\ \A y \in Classes : n <= y => x <= y
  BY <1>4 DEF T
<1>6. Class(n) \in Classes /\ n <= Class(n)  BY <1>5 DEF Class
<1>7. Class(n) \in Nat \ {0}  BY <1>1, <1>6
<1> DEFINE k == Class(n)
<1> HIDE DEF k
<1>8. [i \in 1 .. k |-> Old] \in [1 .. k -> Byte]  BY DEF Byte
<1>9. k \in Nat \ {0} /\ n <= k  BY <1>6, <1>7 DEF k
<1>10. /\ [i \in 1 .. k |-> Old] \in Seq(Byte)
       /\ Len([i \in 1 .. k |-> Old]) = k
  BY <1>8, <1>9, AsSeq
<1> QED  BY <1>9, <1>10 DEF Fresh, k, Buffers

\* o is b with str behind its first k bytes.
Overwrites(o, b, k, str) ==
  /\ o \in Buffers /\ Len(o) = Len(b) /\ (o = <<>> <=> b = <<>>)
  /\ \A i \in 1 .. Len(b) : i <= k \/ k + Len(str) < i => o[i] = b[i]
  /\ \A j \in 1 .. Len(str) : k + j <= Len(b) => o[k + j] = str[j]

LEMMA OverIs ==
  ASSUME NEW b \in Buffers, NEW k \in Nat, NEW str \in Buffers
  PROVE  Overwrites(Over(b, k, str), b, k, str)
<1> DEFINE n == Len(b)
           v(i) == IF i - k \in DOMAIN str THEN str[i - k] ELSE b[i]
           o == [i \in 1 .. n |-> v(i)]
<1>1. n \in Nat /\ DOMAIN b = 1 .. n /\ DOMAIN str = 1 .. Len(str) /\ Len(str) \in Nat
  BY DEF Buffers
<1>2. \A i \in 1 .. n : v(i) \in Byte
  <2> TAKE i \in 1 .. n
  <2>1. b[i] \in Byte  BY ElementOfSeq DEF Buffers
  <2>2. ASSUME i - k \in DOMAIN str PROVE str[i - k] \in Byte
    BY <1>1, <2>2, ElementOfSeq DEF Buffers
  <2> QED  BY <2>1, <2>2
<1>3. Over(b, k, str) = o  BY <1>1 DEF Over
<1> HIDE DEF n
<1>4. o \in Seq(Byte) /\ Len(o) = n
  <2>1. o \in [1 .. n -> Byte]  BY <1>2
  <2> HIDE DEF o
  <2> QED  BY <1>1, <2>1, AsSeq
<1>5. \A i \in 1 .. n : i <= k \/ k + Len(str) < i => o[i] = b[i]
  BY <1>1
<1>6. \A j \in 1 .. Len(str) : k + j <= n => o[k + j] = str[j]
  <2> TAKE j \in 1 .. Len(str)
  <2>1. k + j <= n => k + j \in 1 .. n  BY <1>1
  <2>2. (k + j) - k = j  BY <1>1
  <2> QED  BY <1>1, <2>1, <2>2
<1> HIDE DEF o
<1>7. o = <<>> <=> b = <<>>
  <2>1. o = <<>> <=> Len(o) = 0  BY <1>4, EmptySeq
  <2>2. b = <<>> <=> Len(b) = 0  BY EmptySeq DEF Buffers
  <2> QED  BY <1>4, <2>1, <2>2 DEF n
<1> QED  BY <1>3, <1>4, <1>5, <1>6, <1>7 DEF Overwrites, Buffers, n

LEMMA TextIs ==
  ASSUME NEW x \in Strings
  PROVE  /\ Text(x) \in Buffers /\ Len(Text(x)) = x.size
         /\ \A i \in 1 .. x.size : i <= Len(x.buffer) => Text(x)[i] = x.buffer[i]
<1> DEFINE n == x.size
           b == x.buffer
           v(i) == IF i \in DOMAIN b THEN b[i] ELSE Old
           t == [i \in 1 .. n |-> v(i)]
<1>1. n \in Nat /\ b \in Seq(Byte)  BY DEF Strings, Buffers
<1>2. Text(x) = t  BY DEF Text
<1> HIDE DEF n, b
<1>3. DOMAIN b = 1 .. Len(b) /\ Len(b) \in Nat  BY <1>1
<1>4. \A i \in 1 .. n : v(i) \in Byte
  <2> TAKE i \in 1 .. n
  <2>1. i \in DOMAIN b => b[i] \in Byte  BY <1>1, <1>3, ElementOfSeq
  <2> QED  BY <2>1 DEF Byte
<1>5. t \in Seq(Byte) /\ Len(t) = n
  <2>1. t \in [1 .. n -> Byte]  BY <1>4
  <2> HIDE DEF t
  <2> QED  BY <1>1, <2>1, AsSeq
<1>6. \A i \in 1 .. n : i <= Len(b) => t[i] = b[i]
  BY <1>1, <1>3
<1> QED  BY <1>2, <1>5, <1>6 DEF n, b, Buffers

\* A string whose buffer starts with str has that text.
LEMMA Reads ==
  ASSUME NEW x \in Strings, NEW str \in Seq(Letter), x.size = Len(str),
         x.size <= Len(x.buffer), \A i \in 1 .. Len(str) : x.buffer[i] = str[i]
  PROVE  Text(x) = str /\ \A i \in 1 .. x.size : x.buffer[i] \in Letter
<1>1. \A i \in 1 .. x.size : str[i] \in Letter  BY ElementOfSeq
<1>2. str \in Buffers
  <2>1. str \in [1 .. Len(str) -> Byte]  BY <1>1 DEF Letter, Byte
  <2> QED  BY <2>1 DEF Buffers
<1>3. /\ Text(x) \in Buffers /\ Len(Text(x)) = x.size
      /\ \A i \in 1 .. x.size : i <= Len(x.buffer) => Text(x)[i] = x.buffer[i]
  BY TextIs
<1>4. x.size \in Nat /\ Len(x.buffer) \in Nat  BY DEF Strings, Buffers
<1>5. \A i \in 1 .. Len(str) : Text(x)[i] = str[i]  BY <1>3, <1>4
<1>6. Text(x) = str  BY <1>2, <1>3, <1>5, SameSeq DEF Buffers
<1> QED  BY <1>1, <1>6

LEMMA GoodText ==
  ASSUME NEW x \in Strings, Good(x)
  PROVE  /\ Text(x) \in Seq(Letter) /\ Len(Text(x)) = x.size
         /\ \A i \in 1 .. x.size : Text(x)[i] = x.buffer[i]
<1>1. /\ Text(x) \in Buffers /\ Len(Text(x)) = x.size
      /\ \A i \in 1 .. x.size : i <= Len(x.buffer) => Text(x)[i] = x.buffer[i]
  BY TextIs
<1>2. x.size \in Nat /\ Len(x.buffer) \in Nat  BY DEF Strings, Buffers
<1>3. \A i \in 1 .. x.size : Text(x)[i] = x.buffer[i]  BY <1>1, <1>2 DEF Good
<1>4. \A i \in 1 .. x.size : Text(x)[i] \in Letter  BY <1>3 DEF Good
<1> DEFINE t == Text(x)
<1>5. t \in Seq(Byte) /\ Len(t) = x.size  BY <1>1 DEF Buffers
<1> HIDE DEF t
<1>6. t \in [1 .. Len(t) -> Letter]  BY <1>4, <1>5 DEF t
<1>7. t \in Seq(Letter)  BY <1>2, <1>5, <1>6, AsSeq
<1> QED  BY <1>1, <1>3, <1>7 DEF t

-----------------------------------------------------------------------------
\* What each function makes of a string.

\* y has the text of x.
Keeps(x, y) == y.size = x.size /\ (Good(x) => Good(y) /\ Text(y) = Text(x))

LEMMA KeepsText ==
  ASSUME NEW x \in Strings, NEW y \in Strings, y.size = x.size,
         Good(x) => /\ y.size <= Len(y.buffer)
                    /\ ~y.joined => y.capacity <= Len(y.buffer)
                    /\ \A i \in 1 .. x.size : y.buffer[i] = x.buffer[i]
  PROVE  Keeps(x, y)
<1> SUFFICES ASSUME Good(x) PROVE Good(y) /\ Text(y) = Text(x)
  BY DEF Keeps
<1>1. /\ Text(x) \in Seq(Letter) /\ Len(Text(x)) = x.size
      /\ \A i \in 1 .. x.size : Text(x)[i] = x.buffer[i]
  BY GoodText
<1>2. \A i \in 1 .. Len(Text(x)) : y.buffer[i] = Text(x)[i]  BY <1>1
<1>3. Text(y) = Text(x) /\ \A i \in 1 .. y.size : y.buffer[i] \in Letter
  BY <1>1, <1>2, Reads
<1> QED  BY <1>3 DEF Good

LEMMA assignIs ==
  ASSUME NEW x, x.frames \in Int, NEW str \in Buffers, Len(str) <= MaxText
  PROVE  LET y == assign(x, str)
         IN  /\ Sane(y) /\ y.frames = x.frames + 1 - Owned(x)
             /\ y.size = Len(str) /\ y.buffer # <<>>
             /\ str \in Seq(Letter) => Good(y) /\ Text(y) = str /\ Sealed(y)
<1> DEFINE y == assign(x, str)
           n == Len(str)
           b == Fresh(n + 1)
           s == str \o <<NUL>>
           o == Over(b, 0, s)
<1>1. n \in Nat /\ n + 1 <= 2 * MaxText
  BY StringAssumption DEF Buffers
<1>2. b \in Buffers /\ b # <<>> /\ n + 1 <= Len(b) /\ Len(b) \in Nat
  <2>1. n + 1 \in Nat  BY <1>1
  <2> QED  BY <1>1, <2>1, FreshIs
<1>3. s \in Buffers /\ Len(s) = n + 1 /\ s[n + 1] = NUL /\ \A i \in 1 .. n : s[i] = str[i]
  BY DEF Buffers, Byte
<1>4. Overwrites(o, b, 0, s)
  <2> HIDE DEF b, s, o
  <2> QED  BY <1>2, <1>3, OverIs DEF o
<1>5. y = [buffer |-> o, size |-> n, capacity |-> n, frames |-> x.frames + 1 - Owned(x),
           joined |-> FALSE]
  BY DEF assign
<1>6. x.frames + 1 - Owned(x) \in Int  BY DEF Owned
<1> HIDE DEF b, s, n, o, y
<1>7. /\ o \in Buffers /\ Len(o) = Len(b) /\ o # <<>>
      /\ \A i \in 1 .. n + 1 : o[i] = s[i]
  <2>1. \A j \in 1 .. Len(s) : 0 + j <= Len(b) => o[0 + j] = s[j]
    BY <1>4 DEF Overwrites
  <2>2. \A j \in 1 .. n + 1 : 0 + j = j /\ j <= Len(b)  BY <1>1, <1>2
  <2> QED  BY <1>2, <1>3, <1>4, <2>1, <2>2 DEF Overwrites
<1>8. y \in Strings /\ y.buffer = o /\ y.size = n /\ y.capacity = n /\ ~y.joined
  BY <1>1, <1>5, <1>6, <1>7 DEF Strings
<1>9. Sane(y)
  <2>1. n <= MaxText  BY DEF n
  <2> QED  BY <1>1, <1>7, <1>8, <2>1 DEF Sane
<1>10. ASSUME str \in Seq(Letter) PROVE Good(y) /\ Text(y) = str /\ Sealed(y)
  <2>1. y.size = Len(str) /\ y.size <= Len(y.buffer)  BY <1>1, <1>2, <1>7, <1>8 DEF n
  <2>2. \A i \in 1 .. Len(str) : y.buffer[i] = str[i]
    <3>1. \A i \in 1 .. n : i \in 1 .. n + 1  BY <1>1
    <3> QED  BY <1>3, <1>7, <1>8, <3>1 DEF n
  <2>3. Text(y) = str /\ \A i \in 1 .. y.size : y.buffer[i] \in Letter
    BY <1>8, <1>10, <2>1, <2>2, Reads
  <2>4. Good(y)  BY <1>1, <1>2, <1>7, <1>8, <2>3 DEF Good
  <2>5. Sealed(y)
    <3>1. n + 1 \in 1 .. n + 1  BY <1>1
    <3> QED  BY <1>1, <1>2, <1>3, <1>7, <1>8, <3>1 DEF Sealed
  <2> QED  BY <2>3, <2>4, <2>5
<1>11. y.frames = x.frames + 1 - Owned(x)  BY <1>5
<1> QED  BY <1>7, <1>8, <1>9, <1>10, <1>11 DEF y, n

LEMMA reserveIs ==
  ASSUME NEW x, Sane(x), NEW n \in Nat, x.size <= n, n <= 2 * MaxText
  PROVE  LET y == reserve(x, n)
         IN  /\ Sane(y) /\ Keeps(x, y) /\ y.buffer # <<>>
             /\ y.capacity = n /\ n <= Len(y.buffer) /\ ~y.joined
             /\ y.frames = x.frames + 1 - (IF x.capacity = 0 THEN 0 ELSE 1)
<1> DEFINE y == reserve(x, n)
           b == Fresh(n)
           t == Text(x)
           o == Over(b, 0, t)
           fs == x.frames + 1 - (IF x.capacity = 0 THEN 0 ELSE 1)
<1>1. x \in Strings /\ x.size \in Nat /\ x.size <= MaxText /\ fs \in Int
  BY DEF Sane, Strings
<1>2. b \in Buffers /\ b # <<>> /\ n <= Len(b) /\ Len(b) \in Nat
  BY FreshIs
<1>3. t \in Buffers /\ Len(t) = x.size
  BY <1>1, TextIs
<1>4. Overwrites(o, b, 0, t)
  <2> HIDE DEF b, t, o
  <2> QED  BY <1>2, <1>3, OverIs DEF o
<1>5. y = [x EXCEPT !.buffer = o, !.capacity = n, !.joined = FALSE, !.frames = fs]
  BY DEF reserve
<1> HIDE DEF b, t, o, y, fs
<1>6. /\ o \in Buffers /\ Len(o) = Len(b) /\ o # <<>>
      /\ \A i \in 1 .. x.size : o[i] = t[i]
  <2>1. \A j \in 1 .. Len(t) : 0 + j <= Len(b) => o[0 + j] = t[j]
    BY <1>4 DEF Overwrites
  <2>2. \A j \in 1 .. x.size : 0 + j = j /\ j <= Len(b)  BY <1>1, <1>2
  <2> QED  BY <1>2, <1>3, <1>4, <2>1, <2>2 DEF Overwrites
<1>7. /\ y \in Strings /\ y.buffer = o /\ y.size = x.size /\ y.capacity = n /\ ~y.joined
      /\ y.frames = fs
  BY <1>1, <1>5, <1>6 DEF Strings
<1>8. Sane(y)  BY <1>1, <1>6, <1>7 DEF Sane
<1>9. Keeps(x, y)
  <2>1. ASSUME Good(x) PROVE \A i \in 1 .. x.size : y.buffer[i] = x.buffer[i]
    <3>1. \A i \in 1 .. x.size : t[i] = x.buffer[i]  BY <1>1, <2>1, GoodText DEF t
    <3> QED  BY <1>6, <1>7, <3>1
  <2>2. y.size <= Len(y.buffer) /\ y.capacity <= Len(y.buffer)
    BY <1>1, <1>2, <1>6, <1>7
  <2> QED  BY <1>1, <1>7, <2>1, <2>2, KeepsText
<1> QED  BY <1>2, <1>6, <1>7, <1>8, <1>9 DEF y, fs

\* Room for a character, in a frame of its own.
LEMMA roomIs ==
  ASSUME NEW x, Sane(x), x.size < MaxText
  PROVE  LET y == room(x)
         IN  /\ Sane(y) /\ Keeps(x, y) /\ y.buffer # <<>> /\ y.size < y.capacity
             /\ \/ y = x
                \/ y.frames = x.frames + 1 - (IF x.capacity = 0 THEN 0 ELSE 1)
<1> DEFINE n == IF x.capacity = 0 THEN 1 ELSE 2 * x.capacity
<1>1. x \in Strings /\ x.size \in Nat /\ x.capacity \in Nat /\ x.size <= x.capacity
  BY DEF Sane, Strings
<1>2. MaxText \in Nat \ {0}  BY StringAssumption
<1>3. CASE x.size >= x.capacity
  <2>1. room(x) = reserve(x, n)  BY <1>3 DEF room
  <2>2. n \in Nat /\ x.size < n /\ n <= 2 * MaxText  BY <1>1, <1>2, <1>3
  <2> HIDE DEF n
  <2>3. /\ Sane(reserve(x, n)) /\ Keeps(x, reserve(x, n)) /\ reserve(x, n).buffer # <<>>
        /\ reserve(x, n).capacity = n
        /\ reserve(x, n).frames = x.frames + 1 - (IF x.capacity = 0 THEN 0 ELSE 1)
    BY <1>1, <2>2, reserveIs
  <2>4. reserve(x, n).size = x.size  BY <2>3 DEF Keeps
  <2> QED  BY <2>1, <2>2, <2>3, <2>4
<1>4. CASE x.size < x.capacity
  <2>1. room(x) = x  BY <1>1, <1>4 DEF room
  <2>2. x.buffer # <<>>  BY <1>1, <1>4 DEF Sane
  <2>3. Keeps(x, x)  BY DEF Keeps
  <2> QED  BY <1>4, <2>1, <2>2, <2>3
<1> QED  BY <1>1, <1>3, <1>4

LEMMA roomForIs ==
  ASSUME NEW x, Sane(x), NEW n \in Nat, x.size + n <= MaxText
  PROVE  LET y == roomFor(x, n)
         IN  /\ Sane(y) /\ Keeps(x, y) /\ y.buffer # <<>> /\ y.size + n <= y.capacity
             /\ \/ y = x
                \/ /\ y.frames = x.frames + 1 - (IF x.capacity = 0 THEN 0 ELSE 1)
                   /\ y.size + n <= Len(y.buffer)
<1> DEFINE k == x.size + n
<1>1. x \in Strings /\ x.size \in Nat /\ x.capacity \in Nat
  BY DEF Sane, Strings
<1>2. MaxText \in Nat  BY StringAssumption
<1>3. CASE k >= x.capacity
  <2>1. roomFor(x, n) = reserve(x, k)  BY <1>3 DEF roomFor
  <2>2. k \in Nat /\ x.size <= k /\ k <= 2 * MaxText  BY <1>1, <1>2
  <2> HIDE DEF k
  <2>3. /\ Sane(reserve(x, k)) /\ Keeps(x, reserve(x, k)) /\ reserve(x, k).buffer # <<>>
        /\ reserve(x, k).capacity = k /\ k <= Len(reserve(x, k).buffer)
        /\ reserve(x, k).frames = x.frames + 1 - (IF x.capacity = 0 THEN 0 ELSE 1)
    BY <1>1, <2>2, reserveIs
  <2>4. reserve(x, k).size = x.size  BY <2>3 DEF Keeps
  <2>5. reserve(x, k).size + n = k  BY <2>4 DEF k
  <2> QED  BY <2>1, <2>2, <2>3, <2>5
<1>4. CASE k < x.capacity
  <2>1. roomFor(x, n) = x  BY <1>1, <1>4 DEF roomFor
  <2>2. x.buffer # <<>>  BY <1>1, <1>4 DEF Sane
  <2>3. Keeps(x, x)  BY DEF Keeps
  <2> QED  BY <1>1, <1>4, <2>1, <2>2, <2>3
<1> QED  BY <1>1, <1>3, <1>4

LEMMA LettersAreBytes == \A str \in Seq(Letter) : str \in Buffers
<1> SUFFICES ASSUME NEW str \in Seq(Letter) PROVE str \in Buffers
  OBVIOUS
<1>1. Len(str) \in Nat /\ \A i \in 1 .. Len(str) : str[i] \in Letter  BY ElementOfSeq
<1>2. str \in [1 .. Len(str) -> Byte]  BY <1>1 DEF Letter, Byte
<1> QED  BY <1>1, <1>2 DEF Buffers

\* What is written behind a text continues it.
LEMMA Behind ==
  ASSUME NEW x \in Strings, Good(x), NEW str \in Seq(Letter), NEW y \in Strings,
         y.buffer = Over(x.buffer, x.size, str),
         y.size = x.size + Len(str), y.size <= Len(x.buffer)
  PROVE  /\ Text(y) = Text(x) \o str /\ y.size <= Len(y.buffer)
         /\ \A i \in 1 .. y.size : y.buffer[i] \in Letter
<1> DEFINE b == x.buffer
           o == y.buffer
           k == x.size
           t == Text(x)
           s == t \o str
<1>1. b \in Buffers /\ k \in Nat /\ str \in Buffers /\ Len(str) \in Nat
  BY LettersAreBytes DEF Strings
<1>2. Overwrites(o, b, k, str)  BY <1>1, OverIs
<1>3. t \in Seq(Letter) /\ Len(t) = k /\ \A i \in 1 .. k : t[i] = b[i]
  BY GoodText
<1>4. y.size = k + Len(str) /\ y.size <= Len(b) /\ Len(b) \in Nat
  BY <1>1 DEF Buffers
<1> HIDE DEF b, o, k, t
<1>5. s \in Seq(Letter) /\ Len(s) = k + Len(str)  BY <1>3
<1>6. \A i \in 1 .. Len(s) : o[i] = s[i]
  <2> TAKE i \in 1 .. Len(s)
  <2>1. i \in 1 .. Len(b)  BY <1>1, <1>4, <1>5
  <2>2. CASE i <= k
    <3>1. i \in 1 .. k  BY <1>5, <2>2
    <3>2. s[i] = t[i]  BY <1>3, <3>1
    <3> QED  BY <1>2, <1>3, <2>1, <2>2, <3>1, <3>2 DEF Overwrites
  <2>3. CASE i > k
    <3> DEFINE j == i - k
    <3>1. j \in 1 .. Len(str) /\ k + j = i  BY <1>1, <1>5, <2>3
    <3>2. s[i] = str[j]  BY <1>1, <1>3, <1>5, <2>3
    <3> HIDE DEF j
    <3>3. k + j <= Len(b) => o[k + j] = str[j]  BY <1>2, <3>1 DEF Overwrites
    <3> QED  BY <1>4, <2>1, <3>1, <3>2, <3>3
  <2> QED  BY <1>1, <1>5, <2>2, <2>3
<1>7. Len(o) = Len(b)  BY <1>2 DEF Overwrites
<1>8. y.size = Len(s) /\ y.size <= Len(y.buffer)  BY <1>4, <1>5, <1>7 DEF o
<1> HIDE DEF s
<1>9. Text(y) = s /\ \A i \in 1 .. y.size : y.buffer[i] \in Letter
  BY <1>5, <1>6, <1>8, Reads DEF o
<1> QED  BY <1>8, <1>9 DEF s, t

\* y has the text of x with str behind it, if the buffer has room.
Continues(x, y, str) ==
  /\ y.size = x.size + Len(str) /\ y.frames = x.frames
  /\ Good(x) /\ str \in Seq(Letter) /\ x.size + Len(str) <= Len(x.buffer)
       => Good(y) /\ Text(y) = Text(x) \o str

LEMMA pushIs ==
  ASSUME NEW x, Sane(x), x.size < x.capacity, x.size < MaxText, NEW c \in Char
  PROVE  Sane(push(x, c)) /\ Continues(x, push(x, c), <<c>>)
<1> DEFINE y == push(x, c)
           str == <<c>>
           o == Over(x.buffer, x.size, str)
<1>1. /\ x \in Strings /\ x.size \in Nat /\ x.capacity \in Nat /\ MaxText \in Nat
      /\ x.buffer \in Buffers /\ x.buffer # <<>>
  BY StringAssumption DEF Sane, Strings
<1>2. str \in Seq(Letter) /\ Len(str) = 1  BY DEF Letter
<1>3. y = [x EXCEPT !.buffer = o, !.size = x.size + 1]  BY DEF push
<1> HIDE DEF str, o, y
<1>4. Overwrites(o, x.buffer, x.size, str)
  BY <1>1, <1>2, OverIs, LettersAreBytes DEF o
<1>5. /\ y \in Strings /\ y.buffer = o /\ y.size = x.size + 1 /\ y.capacity = x.capacity
      /\ y.joined = x.joined /\ y.frames = x.frames
  <2>1. o \in Buffers  BY <1>4 DEF Overwrites
  <2>2. x.size + 1 \in Nat  BY <1>1
  <2> QED  BY <1>1, <1>3, <2>1, <2>2 DEF Strings
<1>6. Sane(y)  BY <1>1, <1>4, <1>5 DEF Sane, Overwrites
<1>7. ASSUME Good(x), x.size + Len(str) <= Len(x.buffer)
      PROVE  Good(y) /\ Text(y) = Text(x) \o str
  <2>1. /\ Text(y) = Text(x) \o str /\ y.size <= Len(y.buffer)
        /\ \A i \in 1 .. y.size : y.buffer[i] \in Letter
    <3>1. y.size = x.size + Len(str)  BY <1>2, <1>5
    <3>2. y.size <= Len(x.buffer)  BY <1>7, <3>1
    <3>3. y.buffer = Over(x.buffer, x.size, str)  BY <1>5 DEF o
    <3> QED  BY <1>1, <1>2, <1>5, <1>7, <3>1, <3>2, <3>3, Behind
  <2>2. Len(y.buffer) = Len(x.buffer)  BY <1>4, <1>5 DEF Overwrites
  <2> QED  BY <1>5, <1>7, <2>1, <2>2 DEF Good
<1> QED  BY <1>2, <1>5, <1>6, <1>7 DEF Continues, y, str

LEMMA joinIs ==
  ASSUME NEW x, Sane(x), x.buffer # <<>>, NEW str \in Buffers, x.size + Len(str) <= MaxText
  PROVE  Sane(join(x, str)) /\ Continues(x, join(x, str), str)
<1> DEFINE y == join(x, str)
           o == Over(x.buffer, x.size, str)
           n == Len(str)
<1>1. /\ x \in Strings /\ x.size \in Nat /\ MaxText \in Nat /\ n \in Nat
      /\ x.buffer \in Buffers
  BY StringAssumption DEF Sane, Strings, Buffers
<1>2. y = [x EXCEPT !.buffer = o, !.size = x.size + n, !.capacity = x.size + 2 * n,
                    !.joined = TRUE]
  BY DEF join
<1> HIDE DEF o, y
<1>3. Overwrites(o, x.buffer, x.size, str)
  BY <1>1, OverIs DEF o
<1>4. /\ y \in Strings /\ y.buffer = o /\ y.size = x.size + n
      /\ y.capacity = x.size + 2 * n /\ y.joined /\ y.frames = x.frames
  <2>1. o \in Buffers  BY <1>3 DEF Overwrites
  <2>2. x.size + n \in Nat /\ x.size + 2 * n \in Nat  BY <1>1
  <2> HIDE DEF n
  <2> QED  BY <1>1, <1>2, <2>1, <2>2 DEF Strings
<1>5. Sane(y)  BY <1>1, <1>3, <1>4 DEF Sane, Overwrites
<1>6. ASSUME Good(x), str \in Seq(Letter), x.size + n <= Len(x.buffer)
      PROVE  Good(y) /\ Text(y) = Text(x) \o str
  <2>1. /\ Text(y) = Text(x) \o str /\ y.size <= Len(y.buffer)
        /\ \A i \in 1 .. y.size : y.buffer[i] \in Letter
    BY <1>1, <1>4, <1>6, Behind DEF o
  <2> QED  BY <1>4, <2>1 DEF Good
<1> QED  BY <1>4, <1>5, <1>6 DEF Continues, y

LEMMA terminateIs ==
  ASSUME NEW x, Sane(x)
  PROVE  LET y == terminate(x)
         IN  /\ Sane(y) /\ Keeps(x, y)
             /\ y.frames = x.frames /\ Owned(y) = Owned(x) /\ Len(y.buffer) = Len(x.buffer)
             /\ x.size < Len(x.buffer) \/ x.buffer = <<>> => Sealed(y)
             /\ Sealed(x) => Sealed(y)
<1> DEFINE y == terminate(x)
           str == <<NUL>>
           o == Over(x.buffer, x.size, str)
<1>1. /\ x \in Strings /\ x.size \in Nat /\ x.buffer \in Buffers /\ Len(x.buffer) \in Nat
  BY DEF Sane, Strings, Buffers
<1>2. str \in Buffers /\ Len(str) = 1 /\ str[1] = NUL  BY DEF Buffers, Byte
<1>3. y = [x EXCEPT !.buffer = o]  BY DEF terminate
<1> HIDE DEF o, y, str
<1>4. Overwrites(o, x.buffer, x.size, str)
  BY <1>1, <1>2, OverIs DEF o
<1>5. /\ y \in Strings /\ y.buffer = o /\ y.size = x.size /\ y.capacity = x.capacity
      /\ y.joined = x.joined /\ y.frames = x.frames
  BY <1>1, <1>3, <1>4 DEF Strings, Overwrites
<1>6. Len(o) = Len(x.buffer) /\ (o = <<>> <=> x.buffer = <<>>)
  BY <1>4 DEF Overwrites
<1>7. Sane(y)  BY <1>1, <1>5, <1>6 DEF Sane
<1>8. Keeps(x, y)
  <2>1. ASSUME Good(x) PROVE \A i \in 1 .. x.size : y.buffer[i] = x.buffer[i]
    <3> TAKE i \in 1 .. x.size
    <3>1. i \in 1 .. Len(x.buffer) /\ i <= x.size  BY <1>1, <2>1 DEF Good
    <3> QED  BY <1>4, <1>5, <3>1 DEF Overwrites
  <2> QED  BY <1>1, <1>5, <1>6, <2>1, KeepsText DEF Good
<1>9. x.size < Len(x.buffer) => Sealed(y)
  <2>1. x.size + 1 <= Len(x.buffer) => o[x.size + 1] = NUL
    <3>1. 1 \in 1 .. Len(str)  BY <1>2
    <3> QED  BY <1>2, <1>4, <3>1 DEF Overwrites
  <2> QED  BY <1>1, <1>5, <1>6, <2>1 DEF Sealed
<1>10. x.buffer = <<>> => Sealed(y)  BY <1>5, <1>6 DEF Sealed
<1>11. Sealed(x) => x.size < Len(x.buffer) \/ x.buffer = <<>>  BY DEF Sealed
<1>12. Owned(y) = Owned(x)  BY <1>5, <1>6 DEF Owned
<1> QED  BY <1>5, <1>6, <1>7, <1>8, <1>9, <1>10, <1>11, <1>12 DEF y

\* The text of a string whose size is set back by one.
LEMMA pop_backIs ==
  ASSUME NEW x, Sane(x)
  PROVE  LET y == pop_back(x)
         IN  /\ Sane(y) /\ y.frames = x.frames /\ Owned(y) = Owned(x)
             /\ Good(x) => Good(y) /\ Text(y) = SubSeq(Text(x), 1, Len(Text(x)) - 1)
             /\ Good(x) /\ (Text(x) # <<>> \/ Sealed(x)) => Sealed(y)
<1>1. /\ x \in Strings /\ x.size \in Nat /\ x.buffer \in Buffers /\ Len(x.buffer) \in Nat
      /\ x.size <= MaxText /\ MaxText \in Nat /\ x.capacity \in Nat /\ x.size <= x.capacity
  BY StringAssumption DEF Sane, Strings, Buffers
<1>2. ASSUME Good(x)
      PROVE  /\ Text(x) \in Seq(Letter) /\ Len(Text(x)) = x.size
             /\ \A i \in 1 .. x.size : Text(x)[i] = x.buffer[i]
  BY <1>1, <1>2, GoodText
<1>3. CASE x.size = 0
  <2>1. pop_back(x) = x  BY <1>3 DEF pop_back
  <2>2. ASSUME Good(x) PROVE Text(x) = <<>> /\ SubSeq(Text(x), 1, Len(Text(x)) - 1) = <<>>
    <3> DEFINE t == Text(x)
    <3>1. t \in Seq(Letter) /\ Len(t) = 0  BY <1>2, <1>3, <2>2
    <3> HIDE DEF t
    <3>2. t = <<>>  BY <3>1, EmptySeq
    <3>3. SubSeq(<<>>, 1, Len(<<>>) - 1) = <<>>  OBVIOUS
    <3> QED  BY <3>2, <3>3 DEF t
  <2> QED  BY <2>1, <2>2
<1>4. CASE x.size > 0
  <2> DEFINE z == [x EXCEPT !.size = x.size - 1]
  <2>1. pop_back(x) = terminate(z)  BY <1>1, <1>4 DEF pop_back
  <2>2. /\ z \in Strings /\ z.size = x.size - 1 /\ z.buffer = x.buffer
        /\ z.capacity = x.capacity /\ z.joined = x.joined /\ z.frames = x.frames
    BY <1>1, <1>4 DEF Strings
  <2>3. Sane(z)  BY <1>1, <2>2 DEF Sane
  <2>4. Owned(z) = Owned(x)  BY <2>2 DEF Owned
  <2> HIDE DEF z
  <2> DEFINE y == terminate(z)
  <2>5. /\ Sane(y) /\ Keeps(z, y) /\ y.frames = z.frames /\ Owned(y) = Owned(z)
        /\ z.size < Len(z.buffer) => Sealed(y)
    BY <2>3, terminateIs
  <2> HIDE DEF y
  <2>6. ASSUME Good(x)
        PROVE  Good(y) /\ Text(y) = SubSeq(Text(x), 1, Len(Text(x)) - 1) /\ Sealed(y)
    <3> DEFINE t == Text(x)
               u == SubSeq(t, 1, Len(t) - 1)
    <3>1. t \in Seq(Letter) /\ Len(t) = x.size /\ \A i \in 1 .. x.size : t[i] = x.buffer[i]
      BY <1>2, <2>6
    <3> HIDE DEF t
    <3>2. u \in Seq(Letter) /\ Len(u) = x.size - 1 /\ \A i \in 1 .. x.size - 1 : u[i] = t[i]
      BY <1>1, <1>4, <3>1
    <3> HIDE DEF u
    <3>3. x.size <= Len(x.buffer)  BY <2>6 DEF Good
    <3>4. \A i \in 1 .. Len(u) : z.buffer[i] = u[i]
      <4>1. \A i \in 1 .. Len(u) : i \in 1 .. x.size /\ i \in 1 .. x.size - 1
        BY <1>1, <3>2
      <4> QED  BY <2>2, <3>1, <3>2, <4>1
    <3>5. z.size = Len(u) /\ z.size <= Len(z.buffer)  BY <1>1, <2>2, <3>2, <3>3
    <3>6. Text(z) = u /\ \A i \in 1 .. z.size : z.buffer[i] \in Letter
      BY <2>2, <3>2, <3>4, <3>5, Reads
    <3>7. Good(z)  BY <2>2, <2>6, <3>5, <3>6 DEF Good
    <3>8. z.size < Len(z.buffer)  BY <1>1, <2>2, <3>3
    <3> QED  BY <2>5, <3>6, <3>7, <3>8 DEF Keeps, u, t
  <2> QED  BY <2>1, <2>2, <2>4, <2>5, <2>6 DEF y
<1> QED  BY <1>1, <1>3, <1>4

LEMMA clearIs ==
  ASSUME NEW x, Sane(x)
  PROVE  LET y == clear(x)
         IN  /\ Sane(y) /\ y.frames = x.frames /\ Owned(y) = Owned(x)
             /\ Good(x) => Good(y) /\ Text(y) = <<>>
             /\ Good(x) /\ (Text(x) # <<>> \/ Sealed(x)) => Sealed(y)
<1> DEFINE y == clear(x)
           n == x.capacity
           str == [i \in 1 .. n |-> NUL]
           o == Over(x.buffer, 0, str)
<1>1. /\ x \in Strings /\ x.size \in Nat /\ x.buffer \in Buffers /\ Len(x.buffer) \in Nat
      /\ MaxText \in Nat /\ n \in Nat /\ x.size <= n
  BY StringAssumption DEF Sane, Strings, Buffers
<1>2. str \in Buffers /\ Len(str) = n /\ \A i \in 1 .. n : str[i] = NUL
  <2>1. str \in [1 .. n -> Byte]  BY DEF Byte
  <2>2. \A i \in 1 .. n : str[i] = NUL  OBVIOUS
  <2> HIDE DEF str, n
  <2> QED  BY <1>1, <2>1, <2>2, AsSeq DEF Buffers
<1>3. y = [x EXCEPT !.buffer = o, !.size = 0]  BY DEF clear
<1> HIDE DEF o, y, str, n
<1>4. Overwrites(o, x.buffer, 0, str)
  BY <1>1, <1>2, OverIs DEF o
<1>5. /\ y \in Strings /\ y.buffer = o /\ y.size = 0 /\ y.capacity = n
      /\ y.joined = x.joined /\ y.frames = x.frames
  BY <1>1, <1>3, <1>4 DEF Strings, Overwrites, n
<1>6. Len(o) = Len(x.buffer) /\ (o = <<>> <=> x.buffer = <<>>)
  BY <1>4 DEF Overwrites
<1>7. Sane(y)  BY <1>1, <1>5, <1>6 DEF Sane, n
<1>8. ASSUME Good(x) PROVE Good(y) /\ Text(y) = <<>>
  <2>1. <<>> \in Seq(Letter) /\ Len(<<>>) = 0  OBVIOUS
  <2>2. y.size = Len(<<>>) /\ y.size <= Len(y.buffer)  BY <1>1, <1>5, <1>6, <2>1
  <2>3. \A i \in 1 .. Len(<<>>) : y.buffer[i] = <<>>[i]  BY <2>1
  <2>4. Text(y) = <<>> /\ \A i \in 1 .. y.size : y.buffer[i] \in Letter
    BY <1>5, <2>1, <2>2, <2>3, Reads
  <2> QED  BY <1>5, <1>6, <1>8, <2>2, <2>4 DEF Good, n
<1>9. ASSUME Good(x), Text(x) # <<>> \/ Sealed(x) PROVE Sealed(y)
  <2>1. CASE x.size > 0
    <3>1. 1 \in 1 .. n /\ 1 <= Len(x.buffer)  BY <1>1, <1>9, <2>1 DEF Good
    <3>2. 0 + 1 <= Len(x.buffer) => o[0 + 1] = str[1]  BY <1>2, <1>4, <3>1 DEF Overwrites
    <3>3. o[1] = NUL  BY <1>2, <3>1, <3>2
    <3> QED  BY <1>5, <1>6, <3>1, <3>3 DEF Sealed
  <2>2. CASE x.size = 0
    <3>1. Text(x) = <<>>
      <4> DEFINE t == Text(x)
      <4>1. t \in Seq(Letter) /\ Len(t) = 0  BY <1>1, <1>9, <2>2, GoodText
      <4> HIDE DEF t
      <4>2. t = <<>>  BY <4>1, EmptySeq
      <4> QED  BY <4>2 DEF t
    <3>2. Sealed(x)  BY <1>9, <3>1
    <3>3. CASE x.buffer = <<>>  BY <1>5, <1>6, <3>3 DEF Sealed
    <3>4. CASE 0 < Len(x.buffer) /\ x.buffer[0 + 1] = NUL
      \* With a capacity of 0 nothing is written, and the end stays.
      <4>1. o[1] = NUL
        <5>1. CASE n = 0
          <6>1. 1 \in 1 .. Len(x.buffer) /\ 0 + Len(str) < 1  BY <1>1, <1>2, <3>4, <5>1
          <6>2. o[1] = x.buffer[1]  BY <1>4, <6>1 DEF Overwrites
          <6> QED  BY <3>4, <6>2
        <5>2. CASE n > 0
          <6>1. 1 \in 1 .. Len(str)  BY <1>1, <1>2, <5>2
          <6>2. 0 + 1 <= Len(x.buffer) => o[0 + 1] = str[1]  BY <1>4, <6>1 DEF Overwrites
          <6> QED  BY <1>1, <1>2, <3>4, <6>1, <6>2
        <5> QED  BY <1>1, <5>1, <5>2
      <4> QED  BY <1>5, <1>6, <3>4, <4>1 DEF Sealed
    <3> QED  BY <2>2, <3>2, <3>3, <3>4 DEF Sealed
  <2> QED  BY <1>1, <2>1, <2>2
<1> QED  BY <1>5, <1>6, <1>7, <1>8, <1>9 DEF y, Owned

\* Between two calls a string keeps its text and its end, but not the bytes behind.
LEMMA SettledIs ==
  ASSUME NEW x, Sane(x)
  PROVE  LET y == Settled(x)
         IN  /\ Sane(y) /\ y.frames = Owned(y) /\ Owned(y) = Owned(x)
             /\ Keeps(x, y) /\ (Sealed(x) <=> Sealed(y))
<1> DEFINE y == Settled(x)
           b == x.buffer
           k == x.size
           v(i) == IF i <= k \/ (i = k + 1 /\ b[i] = NUL) THEN b[i] ELSE Old
           o == [i \in 1 .. Len(b) |-> v(i)]
<1>1. x \in Strings /\ k \in Nat /\ b \in Buffers /\ Len(b) \in Nat /\ DOMAIN b = 1 .. Len(b)
  BY DEF Sane, Strings, Buffers
<1>2. y = [x EXCEPT !.buffer = o, !.frames = Owned(x)]  BY <1>1 DEF Settled
<1>3. /\ o \in Buffers /\ Len(o) = Len(b)
      /\ \A i \in 1 .. Len(b) : o[i] = v(i)
  <2>1. \A i \in 1 .. Len(b) : v(i) \in Byte
    <3> TAKE i \in 1 .. Len(b)
    <3>1. b[i] \in Byte  BY <1>1, ElementOfSeq DEF Buffers
    <3> QED  BY <3>1 DEF Byte
  <2>2. o \in [1 .. Len(b) -> Byte]  BY <2>1
  <2>3. \A i \in 1 .. Len(b) : o[i] = v(i)  OBVIOUS
  <2> HIDE DEF o, b
  <2> QED  BY <1>1, <2>2, <2>3, AsSeq DEF Buffers
<1> HIDE DEF o, y
<1>4. o = <<>> <=> b = <<>>
  <2>1. o = <<>> <=> Len(o) = 0  BY <1>3, EmptySeq DEF Buffers
  <2>2. b = <<>> <=> Len(b) = 0  BY <1>1, EmptySeq DEF Buffers
  <2> QED  BY <1>3, <2>1, <2>2
<1>5. Owned(x) \in Int  BY DEF Owned
<1>6. /\ y \in Strings /\ y.buffer = o /\ y.size = k /\ y.capacity = x.capacity
      /\ y.joined = x.joined /\ y.frames = Owned(x)
  BY <1>1, <1>2, <1>3, <1>5 DEF Strings
<1>7. Owned(y) = Owned(x)  BY <1>4, <1>6 DEF Owned
<1>8. Sane(y)  BY <1>1, <1>4, <1>6 DEF Sane
<1>9. Keeps(x, y)
  <2>1. ASSUME Good(x) PROVE \A i \in 1 .. x.size : y.buffer[i] = x.buffer[i]
    <3> TAKE i \in 1 .. x.size
    <3>1. i \in 1 .. Len(b) /\ i <= k  BY <1>1, <2>1 DEF Good
    <3> QED  BY <1>3, <1>6, <3>1
  <2> QED  BY <1>1, <1>3, <1>6, <2>1, KeepsText DEF Good
<1>10. Sealed(x) <=> Sealed(y)
  <2>1. ASSUME k < Len(b) PROVE o[k + 1] = NUL <=> b[k + 1] = NUL
    <3>1. k + 1 \in 1 .. Len(b) /\ ~(k + 1 <= k)  BY <1>1, <2>1
    <3>2. o[k + 1] = IF b[k + 1] = NUL THEN b[k + 1] ELSE Old  BY <1>3, <3>1
    <3> QED  BY <3>2 DEF NUL, Old
  <2> QED  BY <1>3, <1>4, <1>6, <2>1 DEF Sealed
<1> QED  BY <1>6, <1>7, <1>8, <1>9, <1>10 DEF y

\* C finds letters at a buffer; and the text itself, if the string is sealed.
LEMMA CTextsAre ==
  ASSUME NEW x, Sane(x)
  PROVE  /\ \A str \in CTexts(x) : str \in Seq(Letter)
         /\ Good(x) /\ Sealed(x) => \A str \in CTexts(x) : str = Text(x)
<1> DEFINE b == x.buffer
           ends == {i \in DOMAIN b : b[i] = NUL}
           least == CHOOSE i \in ends : \A j \in ends : i <= j
           last == IF ends = {} THEN Len(b) ELSE least - 1
           v(i) == IF b[i] = Old THEN Other ELSE b[i]
           text == [i \in 1 .. last |-> v(i)]
           stops == {last} \cup {j \in 0 .. last - 1 : b[j + 1] = Old}
<1>1. x \in Strings /\ x.size \in Nat /\ b \in Buffers /\ Len(b) \in Nat /\ DOMAIN b = 1 .. Len(b)
  BY DEF Sane, Strings, Buffers
<1>2. CTexts(x) = {SubSeq(text, 1, k) : k \in stops}  BY DEF CTexts
<1>3. ends # {} => /\ least \in 1 .. Len(b) /\ b[least] = NUL
                   /\ \A j \in ends : least <= j
  <2>1. ASSUME ends # {} PROVE \E i \in ends : \A j \in ends : i <= j
    <3>1. ends \in SUBSET Nat  BY <1>1
    <3> HIDE DEF ends
    <3> QED  BY <2>1, <3>1, LeastElement
  <2>2. ends # {} => least \in ends /\ \A j \in ends : least <= j
    <3> HIDE DEF ends
    <3> QED  BY <2>1
  <2> QED  BY <1>1, <2>2
<1> HIDE DEF least
<1>4. last \in 0 .. Len(b) /\ \A i \in 1 .. last : i \in 1 .. Len(b) /\ b[i] # NUL
  <2>1. CASE ends = {}  BY <1>1, <2>1
  <2>2. CASE ends # {}
    <3>1. last = least - 1 /\ least \in 1 .. Len(b)  BY <1>3, <2>2
    <3>2. \A i \in 1 .. last : i \in 1 .. Len(b) /\ ~(least <= i)  BY <1>1, <3>1
    <3>3. \A i \in 1 .. last : i \notin ends  BY <1>3, <2>2, <3>2
    <3>4. \A i \in 1 .. last : b[i] # NUL  BY <1>1, <3>2, <3>3
    <3> QED  BY <1>1, <3>1, <3>2, <3>4
  <2> QED  BY <2>1, <2>2
<1>5. \A i \in 1 .. last : v(i) \in Letter
  <2> TAKE i \in 1 .. last
  <2>1. b[i] \in Byte /\ b[i] # NUL  BY <1>1, <1>4, ElementOfSeq DEF Buffers
  <2> QED  BY <2>1 DEF Byte, Letter
<1>6. text \in Seq(Letter) /\ Len(text) = last /\ \A i \in 1 .. last : text[i] = v(i)
  <2>1. text \in [1 .. last -> Letter] /\ last \in Nat  BY <1>1, <1>4, <1>5
  <2>2. \A i \in 1 .. last : text[i] = v(i)  OBVIOUS
  <2> HIDE DEF text, last
  <2> QED  BY <2>1, <2>2, AsSeq
<1> HIDE DEF text
<1>7. ASSUME NEW k \in stops PROVE SubSeq(text, 1, k) \in Seq(Letter)
  <2>1. last \in Nat  BY <1>1, <1>4
  <2> HIDE DEF last
  <2>2. k \in 0 .. last  BY <2>1
  <2>3. \A i \in 1 .. k : text[i] \in Letter
    <3> TAKE i \in 1 .. k
    <3>1. i \in 1 .. Len(text)  BY <1>6, <2>1, <2>2
    <3> QED  BY <1>6, <3>1, ElementOfSeq
  <2>4. SubSeq(text, 1, k) = [i \in 1 .. k |-> text[i]]
    BY <1>6, <2>1, <2>2
  <2>5. SubSeq(text, 1, k) \in [1 .. k -> Letter]  BY <2>3, <2>4
  <2>6. k \in Nat  BY <2>1, <2>2
  <2> DEFINE s == SubSeq(text, 1, k)
  <2>7. s \in [1 .. k -> Letter]  BY <2>5
  <2> HIDE DEF s
  <2>8. s \in Seq(Letter)  BY <2>6, <2>7, AsSeq
  <2> QED  BY <2>8 DEF s
<1>8. ASSUME Good(x), Sealed(x), NEW k \in stops PROVE SubSeq(text, 1, k) = Text(x)
  <2>1. \A i \in 1 .. x.size : b[i] # NUL /\ b[i] # Old
    <3>1. \A i \in 1 .. x.size : b[i] \in Letter  BY <1>8 DEF Good
    <3>2. NUL \notin Letter /\ Old \notin Letter
      BY StringAssumption DEF Letter, NUL, Old, Other
    <3> QED  BY <3>1, <3>2
  <2>2. last = x.size
    <3>1. CASE b = <<>>
      <4>1. Len(b) = 0  BY <3>1
      <4>2. x.size = 0 /\ last = 0
        BY <1>1, <1>4, <1>8, <4>1 DEF Good
      <4> QED  BY <4>2
    <3>2. CASE x.size < Len(b) /\ b[x.size + 1] = NUL
      <4>1. x.size + 1 \in ends  BY <1>1, <3>2
      <4>2. least <= x.size + 1 /\ least \in 1 .. Len(b) /\ b[least] = NUL
        BY <1>3, <4>1
      <4>3. ~(least <= x.size)
        <5> SUFFICES ASSUME least <= x.size PROVE FALSE
          OBVIOUS
        <5>1. least \in 1 .. x.size  BY <1>1, <4>2
        <5> QED  BY <2>1, <4>2, <5>1
      <4>4. least = x.size + 1  BY <1>1, <4>2, <4>3
      <4> QED  BY <1>1, <4>1, <4>4
    <3> QED  BY <1>8, <3>1, <3>2 DEF Sealed
  <2>3. k = x.size
    <3> SUFFICES ASSUME k # last PROVE FALSE
      BY <2>2
    <3>1. k \in 0 .. last - 1 /\ b[k + 1] = Old  OBVIOUS
    <3>2. k + 1 \in 1 .. x.size  BY <1>1, <2>2, <3>1
    <3> QED  BY <2>1, <3>1, <3>2
  <2> DEFINE t == Text(x)
             s == SubSeq(text, 1, k)
  <2>4. t \in Seq(Letter) /\ Len(t) = x.size /\ \A i \in 1 .. x.size : t[i] = b[i]
    BY <1>1, <1>8, GoodText
  <2> HIDE DEF t, last
  <2>5. \A i \in 1 .. x.size : text[i] = b[i]  BY <1>6, <2>1, <2>2
  <2>6. s \in Seq(Letter)  BY <1>7
  <2>7. Len(s) = x.size /\ \A i \in 1 .. x.size : s[i] = text[i]
    BY <1>1, <1>6, <2>2, <2>3
  <2> HIDE DEF s
  <2>8. s = t  BY <2>4, <2>5, <2>6, <2>7, SameSeq
  <2> QED  BY <2>8 DEF s, t
<1> QED  BY <1>2, <1>7, <1>8

-----------------------------------------------------------------------------
\* Harm.

Harms == Known \cup {"other"}

\* h2 is what harm is after it was h and the reasons in R were added.
Merged(h2, h, R) ==
  /\ h # "none" => h2 = h
  /\ h = "none" => h2 \in R \cup {"none"}
  /\ h2 = "none" => \A r \in R : r = "none"

LEMMA FirstHarmIs ==
  ASSUME NEW r \in Seq(Harms), Len(r) >= 1
  PROVE  Merged(FirstHarm(r), r[1], {r[i] : i \in 2 .. Len(r)})
<1> DEFINE harms == {i \in DOMAIN r : r[i] # "none"}
           first == CHOOSE i \in harms : \A j \in harms : i <= j
<1>1. DOMAIN r = 1 .. Len(r) /\ Len(r) \in Nat \ {0}  OBVIOUS
<1>2. FirstHarm(r) = IF harms = {} THEN "none" ELSE r[first]  BY DEF FirstHarm
<1>3. CASE harms = {}
  <2>1. \A i \in 1 .. Len(r) : r[i] = "none"  BY <1>1, <1>3
  <2>2. 1 \in 1 .. Len(r) /\ \A i \in 2 .. Len(r) : i \in 1 .. Len(r)  BY <1>1
  <2> QED  BY <1>2, <1>3, <2>1, <2>2 DEF Merged
<1>4. CASE harms # {}
  <2>1. first \in harms /\ \A j \in harms : first <= j
    <3>1. harms \in SUBSET Nat  BY <1>1
    <3> HIDE DEF harms
    <3>2. \E i \in harms : \A j \in harms : i <= j  BY <1>4, <3>1, LeastElement
    <3> QED  BY <3>2
  <2> HIDE DEF first
  <2>2. FirstHarm(r) = r[first] /\ r[first] # "none" /\ first \in 1 .. Len(r)
    BY <1>1, <1>2, <1>4, <2>1
  <2>3. r[1] # "none" => first = 1
    <3>1. r[1] # "none" => first <= 1  BY <1>1, <2>1
    <3> QED  BY <1>1, <2>2, <3>1
  <2>4. r[1] = "none" => first \in 2 .. Len(r)  BY <1>1, <2>2
  <2> QED  BY <2>2, <2>3, <2>4 DEF Merged
<1> QED  BY <1>3, <1>4

LEMMA FirstOfTwo ==
  ASSUME NEW h \in Harms, NEW a \in Harms
  PROVE  Merged(FirstHarm(<<h, a>>), h, {a})
<1> DEFINE r == <<h, a>>
<1>1. r \in Seq(Harms) /\ Len(r) = 2 /\ r[1] = h /\ r[2] = a  OBVIOUS
<1> HIDE DEF r
<1>2. {r[i] : i \in 2 .. Len(r)} = {a}
  <2>1. \A i \in 2 .. 2 : i = 2  OBVIOUS
  <2> QED  BY <1>1, <2>1
<1>3. Merged(FirstHarm(r), r[1], {r[i] : i \in 2 .. Len(r)})
  <2>1. Len(r) >= 1  BY <1>1
  <2> QED  BY <1>1, <2>1, FirstHarmIs
<1> QED  BY <1>1, <1>2, <1>3 DEF r

LEMMA FirstOfThree ==
  ASSUME NEW h \in Harms, NEW a \in Harms, NEW b \in Harms
  PROVE  Merged(FirstHarm(<<h, a, b>>), h, {a, b})
<1> DEFINE r == <<h, a, b>>
<1>1. r \in Seq(Harms) /\ Len(r) = 3 /\ r[1] = h /\ r[2] = a /\ r[3] = b  OBVIOUS
<1> HIDE DEF r
<1>2. {r[i] : i \in 2 .. Len(r)} = {a, b}
  <2>1. 2 .. 3 = {2, 3}  OBVIOUS
  <2> QED  BY <1>1, <2>1
<1>3. Merged(FirstHarm(r), r[1], {r[i] : i \in 2 .. Len(r)})
  <2>1. Len(r) >= 1  BY <1>1
  <2> QED  BY <1>1, <2>1, FirstHarmIs
<1> QED  BY <1>1, <1>2, <1>3 DEF r

LEMMA FirstOfFive ==
  ASSUME NEW h \in Harms, NEW a \in Harms, NEW b \in Harms, NEW c \in Harms, NEW d \in Harms
  PROVE  Merged(FirstHarm(<<h, a, b, c, d>>), h, {a, b, c, d})
<1> DEFINE r == <<h, a, b, c, d>>
<1>1. /\ r \in Seq(Harms) /\ Len(r) = 5 /\ r[1] = h
      /\ r[2] = a /\ r[3] = b /\ r[4] = c /\ r[5] = d
  OBVIOUS
<1> HIDE DEF r
<1>2. {r[i] : i \in 2 .. Len(r)} = {a, b, c, d}
  <2>1. 2 .. 5 = {2, 3, 4, 5}  OBVIOUS
  <2> QED  BY <1>1, <2>1
<1>3. Merged(FirstHarm(r), r[1], {r[i] : i \in 2 .. Len(r)})
  <2>1. Len(r) >= 1  BY <1>1
  <2> QED  BY <1>1, <2>1, FirstHarmIs
<1> QED  BY <1>1, <1>2, <1>3 DEF r

LEMMA BeyondIs ==
  ASSUME NEW x, Sane(x), NEW last \in Nat, NEW reason \in Harms
  PROVE  /\ Beyond(x, last, reason) \in {"none", "null", "joined", reason}
         /\ last <= Len(x.buffer) => Beyond(x, last, reason) = "none"
         /\ last > Len(x.buffer) /\ reason # "none" => Beyond(x, last, reason) # "none"
         /\ x.joined => Beyond(x, last, reason) \in {"none", "null", "joined"}
BY DEF Beyond, Sane, Strings, Buffers

\* c_str harms only where it is known to.
LEMMA UnendedIs ==
  ASSUME NEW x, Sane(x)
  PROVE  /\ Unended(x) \in Harms
         /\ Good(x) => Unended(x) \in Known
         /\ Unended(x) = "none" => x.size < Len(x.buffer)
<1> DEFINE reason == IF x.size = Len(x.buffer) THEN "full" ELSE "other"
<1>1. x.size \in Nat /\ Len(x.buffer) \in Nat  BY DEF Sane, Strings, Buffers
<1>2. reason \in Harms /\ reason # "none"  BY DEF Harms, Known
<1>3. Unended(x) = Beyond(x, x.size + 1, reason)  BY DEF Unended
<1>4. Good(x) /\ x.size + 1 > Len(x.buffer) => reason = "full"  BY <1>1 DEF Good
<1> HIDE DEF reason
<1>5. /\ Unended(x) \in {"none", "null", "joined", reason}
      /\ x.size + 1 <= Len(x.buffer) => Unended(x) = "none"
      /\ x.size + 1 > Len(x.buffer) => Unended(x) # "none"
  BY <1>1, <1>2, <1>3, BeyondIs
<1> QED  BY <1>1, <1>2, <1>4, <1>5 DEF Harms, Known

-----------------------------------------------------------------------------
\* What a call does.

\* x is what Texts wants of the call c on n.
Agrees(n, x, c) ==
  \/ /\ c.op # "add" /\ (c.op = "plus" => c.left \in Names /\ Sealed(strings[c.left]))
     /\ Text(x) = Whole!Result(c)
     /\ Whole!Seals(c) => Sealed(x)
  \/ c.op = "add" /\ Whole!IsPrefix(Text(strings[n]) \o c.with, Text(x))
  \/ c.op = "plus" /\ ~Sealed(strings[c.left])

\* The call makes x of n, and y of m.
Effect(n, x, m, y) ==
  /\ n \in Names /\ m \in Names /\ call'.on = n
  /\ Sane(x) /\ Sane(y)
  /\ strings' = [strings EXCEPT ![m] = Settled(y), ![n] = Settled(x)]
  /\ lost' = x.frames - Owned(x)
  /\ lost' = 0 \/ (lost' > 0 /\ (call'.op = "plus" \/ strings[n].size = 0))
  /\ harm' \in Known /\ (harm # "none" => harm' = harm)
  /\ harm' = "none" =>
       /\ Good(x) /\ Agrees(n, x, call')
       /\ m # n => Keeps(strings[m], y) /\ (Sealed(strings[m]) => Sealed(y))

LEMMA StringsAre ==
  ASSUME SInv, NEW n \in Names
  PROVE  /\ strings[n] \in Strings /\ Sane(strings[n])
         /\ strings[n].frames = Owned(strings[n]) /\ Owned(strings[n]) \in {0, 1}
         /\ strings[n].frames \in Int
         /\ harm = "none" => Good(strings[n])
         /\ strings[n].size \in Nat /\ strings[n].size <= MaxText
         /\ strings[n].capacity \in Nat /\ strings[n].size <= strings[n].capacity
         /\ strings[n].capacity # 0 => Owned(strings[n]) = 1
         /\ Text(strings[n]) \in Buffers /\ Len(Text(strings[n])) = strings[n].size
         /\ harm = "none" => Text(strings[n]) \in Seq(Letter)
<1>1. strings[n] \in Strings /\ Sane(strings[n]) /\ strings[n].frames = Owned(strings[n])
      /\ (harm = "none" => Good(strings[n]))
  BY DEF SInv, AllGood
<1>2. Owned(strings[n]) \in {0, 1}  BY DEF Owned
<1>3. Text(strings[n]) \in Buffers /\ Len(Text(strings[n])) = strings[n].size
  BY <1>1, TextIs
<1>4. harm = "none" => Text(strings[n]) \in Seq(Letter)  BY <1>1, GoodText
<1> QED  BY <1>1, <1>2, <1>3, <1>4 DEF Sane, Strings, Owned

\* A call on one string only.
LEMMA MakesIs ==
  ASSUME NEW n, NEW c, c.on = n, NEW x, Makes(c, x)
  PROVE  /\ call' = c /\ call'.on = n
         /\ strings' = [strings EXCEPT ![n] = Settled(x), ![n] = Settled(x)]
         /\ lost' = x.frames - Owned(x)
BY DEF Makes

LEMMA SetEffect ==
  ASSUME SInv, NEW n \in Names, Set(n)
  PROVE  \E x : Effect(n, x, n, x)
<1> PICK str \in {<<>>} \cup {<<c>> : c \in Char} :
      /\ Makes([op |-> "set", on |-> n, with |-> str], assign(strings[n], str))
      /\ UNCHANGED harm
  BY DEF Set
<1> DEFINE c == [op |-> "set", on |-> n, with |-> str]
           x == assign(strings[n], str)
<1>1. str \in Seq(Letter) /\ Len(str) <= 1
  <2>1. <<>> \in Seq(Letter) /\ Len(<<>>) = 0  OBVIOUS
  <2>2. ASSUME NEW e \in Char PROVE <<e>> \in Seq(Letter) /\ Len(<<e>>) = 1
    BY DEF Letter
  <2>3. CASE str = <<>>  BY <2>1, <2>3
  <2>4. CASE str \in {<<e>> : e \in Char}
    <3>1. PICK e \in Char : str = <<e>>  BY <2>4
    <3> QED  BY <2>2, <3>1
  <2> QED  BY <2>3, <2>4
<1>2. str \in Buffers /\ Len(str) <= MaxText /\ Len(str) \in Nat
  BY <1>1, LettersAreBytes, StringAssumption
<1>3. /\ Sane(x) /\ x.frames = strings[n].frames + 1 - Owned(strings[n])
      /\ x.buffer # <<>> /\ Good(x) /\ Text(x) = str /\ Sealed(x)
  BY <1>1, <1>2, StringsAre, assignIs
<1>4. c.op = "set" /\ c.on = n /\ c.with = str  OBVIOUS
<1> HIDE DEF c, x
<1>5. /\ call' = c /\ call'.on = n /\ lost' = x.frames - Owned(x)
      /\ strings' = [strings EXCEPT ![n] = Settled(x), ![n] = Settled(x)]
  BY <1>4, MakesIs DEF c, x
<1>6. lost' = 0  BY <1>3, <1>5, StringsAre DEF Owned
<1>7. Agrees(n, x, c)  BY <1>3, <1>4 DEF Agrees, Whole!Result
<1>8. harm' \in Known /\ harm' = harm  BY DEF SInv
<1>9. Effect(n, x, n, x)  BY <1>3, <1>5, <1>6, <1>7, <1>8 DEF Effect
<1> QED  BY <1>9

LEMMA PopBackEffect ==
  ASSUME SInv, NEW n \in Names, PopBack(n)
  PROVE  \E x : Effect(n, x, n, x)
<1> DEFINE c == [op |-> "pop", on |-> n]
           z == strings[n]
           x == pop_back(z)
<1>1. Makes(c, x) /\ UNCHANGED harm  BY DEF PopBack
<1>2. c.op = "pop" /\ c.on = n  OBVIOUS
<1>3. /\ Sane(z) /\ z.frames = Owned(z) /\ Owned(z) \in {0, 1}
      /\ harm = "none" => Good(z)
  BY StringsAre
<1>4. /\ Sane(x) /\ x.frames = z.frames /\ Owned(x) = Owned(z)
      /\ Good(z) => Good(x) /\ Text(x) = SubSeq(Text(z), 1, Len(Text(z)) - 1)
      /\ Good(z) /\ (Text(z) # <<>> \/ Sealed(z)) => Sealed(x)
  BY <1>3, pop_backIs
<1> HIDE DEF c, x
<1>5. /\ call' = c /\ call'.on = n /\ lost' = x.frames - Owned(x)
      /\ strings' = [strings EXCEPT ![n] = Settled(x), ![n] = Settled(x)]
  BY <1>1, <1>2, MakesIs
<1>6. lost' = 0  BY <1>3, <1>4, <1>5
<1>7. ASSUME harm = "none" PROVE Good(x) /\ Agrees(n, x, c)
  <2>1. Good(x) /\ Text(x) = SubSeq(Text(z), 1, Len(Text(z)) - 1)  BY <1>3, <1>4, <1>7
  <2>2. Whole!Result(c) = SubSeq(Text(z), 1, Len(Text(z)) - 1)  BY <1>2 DEF Whole!Result
  <2>3. Whole!Seals(c) => Sealed(x)
    BY <1>2, <1>3, <1>4, <1>7 DEF Whole!Seals, Sealed
  <2> QED  BY <1>2, <2>1, <2>2, <2>3 DEF Agrees
<1>8. harm' \in Known /\ harm' = harm  BY <1>1 DEF SInv
<1>9. Effect(n, x, n, x)  BY <1>4, <1>5, <1>6, <1>7, <1>8 DEF Effect
<1> QED  BY <1>9

LEMMA ClearEffect ==
  ASSUME SInv, NEW n \in Names, Clear(n)
  PROVE  \E x : Effect(n, x, n, x)
<1> DEFINE c == [op |-> "clear", on |-> n]
           z == strings[n]
           x == clear(z)
           r == Beyond(z, z.capacity, "other")
<1>1. Makes(c, x) /\ harm' = FirstHarm(<<harm, r>>)  BY DEF Clear
<1>2. c.op = "clear" /\ c.on = n  OBVIOUS
<1>3. /\ Sane(z) /\ z.frames = Owned(z) /\ Owned(z) \in {0, 1} /\ z.capacity \in Nat
      /\ harm = "none" => Good(z)
  BY StringsAre
<1>4. /\ Sane(x) /\ x.frames = z.frames /\ Owned(x) = Owned(z)
      /\ Good(z) => Good(x) /\ Text(x) = <<>>
      /\ Good(z) /\ (Text(z) # <<>> \/ Sealed(z)) => Sealed(x)
  BY <1>3, clearIs
<1>5. r \in Harms /\ (Good(z) => r \in Known)
  <2>1. /\ r \in {"none", "null", "joined", "other"}
        /\ z.capacity <= Len(z.buffer) => r = "none"
        /\ z.joined => r \in {"none", "null", "joined"}
    BY <1>3, BeyondIs DEF Harms
  <2> HIDE DEF r
  <2> QED  BY <2>1 DEF Good, Harms, Known
<1> HIDE DEF c, x, r
<1>6. Merged(harm', harm, {r})  BY <1>1, <1>5, FirstOfTwo DEF SInv, Harms
<1>7. /\ call' = c /\ call'.on = n /\ lost' = x.frames - Owned(x)
      /\ strings' = [strings EXCEPT ![n] = Settled(x), ![n] = Settled(x)]
  BY <1>1, <1>2, MakesIs
<1>8. lost' = 0  BY <1>3, <1>4, <1>7
<1>9. ASSUME harm = "none" PROVE Good(x) /\ Agrees(n, x, c)
  <2>1. Good(x) /\ Text(x) = <<>>  BY <1>3, <1>4, <1>9
  <2>2. Whole!Result(c) = <<>>  BY <1>2 DEF Whole!Result
  <2>3. Whole!Seals(c) => Sealed(x)
    BY <1>2, <1>3, <1>4, <1>9 DEF Whole!Seals, Sealed
  <2> QED  BY <1>2, <2>1, <2>2, <2>3 DEF Agrees
<1>10. /\ harm' \in Known /\ (harm # "none" => harm' = harm)
       /\ harm' = "none" => harm = "none"
  BY <1>3, <1>5, <1>6 DEF SInv, Merged, Known
<1>11. Effect(n, x, n, x)  BY <1>4, <1>7, <1>8, <1>9, <1>10 DEF Effect
<1> QED  BY <1>11

LEMMA CStrEffect ==
  ASSUME SInv, NEW n \in Names, CStr(n)
  PROVE  \E x : Effect(n, x, n, x)
<1> DEFINE c == [op |-> "c_str", on |-> n]
           z == strings[n]
           x == terminate(z)
           r == Unended(z)
<1>1. Makes(c, x) /\ harm' = FirstHarm(<<harm, r>>)  BY DEF CStr
<1>2. c.op = "c_str" /\ c.on = n  OBVIOUS
<1>3. /\ Sane(z) /\ z.frames = Owned(z) /\ Owned(z) \in {0, 1}
      /\ harm = "none" => Good(z)
  BY StringsAre
<1>4. /\ Sane(x) /\ Keeps(z, x) /\ x.frames = z.frames /\ Owned(x) = Owned(z)
      /\ z.size < Len(z.buffer) => Sealed(x)
  BY <1>3, terminateIs
<1>5. r \in Harms /\ (Good(z) => r \in Known) /\ (r = "none" => z.size < Len(z.buffer))
  BY <1>3, UnendedIs
<1> HIDE DEF c, x, r
<1>6. Merged(harm', harm, {r})  BY <1>1, <1>5, FirstOfTwo DEF SInv, Harms
<1>7. /\ call' = c /\ call'.on = n /\ lost' = x.frames - Owned(x)
      /\ strings' = [strings EXCEPT ![n] = Settled(x), ![n] = Settled(x)]
  BY <1>1, <1>2, MakesIs
<1>8. lost' = 0  BY <1>3, <1>4, <1>7
<1>9. ASSUME harm = "none", r = "none" PROVE Good(x) /\ Agrees(n, x, c)
  <2>1. Good(x) /\ Text(x) = Text(z)  BY <1>3, <1>4, <1>9 DEF Keeps
  <2>2. Whole!Result(c) = Text(z)  BY <1>2 DEF Whole!Result
  <2>3. Sealed(x)  BY <1>4, <1>5, <1>9
  <2> QED  BY <1>2, <2>1, <2>2, <2>3 DEF Agrees
<1>10. /\ harm' \in Known /\ (harm # "none" => harm' = harm)
       /\ harm' = "none" => harm = "none" /\ r = "none"
  BY <1>3, <1>5, <1>6 DEF SInv, Merged, Known
<1>11. Effect(n, x, n, x)  BY <1>4, <1>7, <1>8, <1>9, <1>10 DEF Effect
<1> QED  BY <1>11

\* What making room loses: the frame of an empty text.
LEMMA RoomLoses ==
  ASSUME NEW z, Sane(z), z.frames = Owned(z), NEW y, Sane(y), y.buffer # <<>>,
         \/ y = z
         \/ y.frames = z.frames + 1 - (IF z.capacity = 0 THEN 0 ELSE 1)
  PROVE  /\ y.frames - 1 = 0 \/ (y.frames - 1 > 0 /\ z.size = 0)
         /\ y.frames \in Int /\ Owned(y) = 1
<1>1. z.size \in Nat /\ z.capacity \in Nat /\ z.size <= z.capacity /\ y.frames \in Int
  BY DEF Sane, Strings
<1>2. Owned(y) = 1 /\ Owned(z) \in {0, 1} /\ (z.capacity # 0 => Owned(z) = 1)
  BY DEF Owned, Sane
<1> QED  BY <1>1, <1>2

LEMMA AppendCharEffect ==
  ASSUME SInv, NEW n \in Names, AppendChar(n)
  PROVE  \E x : Effect(n, x, n, x)
<1> DEFINE z == strings[n]
           y == room(z)
           r == Beyond(y, y.size + 1, "other")
<1>1. z.size < MaxText /\ harm' = FirstHarm(<<harm, r>>)  BY DEF AppendChar
<1>2. PICK e \in Char : Makes([op |-> "append", on |-> n, with |-> <<e>>], push(y, e))
  BY DEF AppendChar
<1> DEFINE c == [op |-> "append", on |-> n, with |-> <<e>>]
           x == push(y, e)
<1>3. Makes(c, x) /\ c.op = "append" /\ c.on = n /\ c.with = <<e>>  BY <1>2
<1>4. /\ Sane(z) /\ z.frames = Owned(z) /\ z.size \in Nat
      /\ harm = "none" => Good(z)
  BY StringsAre
<1>5. /\ Sane(y) /\ Keeps(z, y) /\ y.buffer # <<>> /\ y.size < y.capacity
      /\ \/ y = z
         \/ y.frames = z.frames + 1 - (IF z.capacity = 0 THEN 0 ELSE 1)
  BY <1>1, <1>4, roomIs
<1> HIDE DEF y, z
<1>6. y.size = z.size /\ y.size < MaxText  BY <1>1, <1>5 DEF Keeps
<1>7. Sane(x) /\ Continues(y, x, <<e>>)  BY <1>5, <1>6, pushIs
<1>8. /\ r \in Harms /\ (Good(y) => r \in Known)
      /\ r = "none" => y.size + 1 <= Len(y.buffer)
  <2>1. /\ y.size + 1 \in Nat /\ y.size \in Nat /\ y.capacity \in Nat
        /\ Len(y.buffer) \in Nat
    BY <1>5 DEF Sane, Strings, Buffers
  <2>2. /\ r \in {"none", "null", "joined", "other"}
        /\ y.size + 1 <= Len(y.buffer) => r = "none"
        /\ y.size + 1 > Len(y.buffer) => r # "none"
        /\ y.joined => r \in {"none", "null", "joined"}
    BY <1>5, <2>1, BeyondIs DEF Harms
  <2> HIDE DEF r
  <2>3. ASSUME Good(y), ~y.joined PROVE y.size + 1 <= Len(y.buffer)
    BY <1>5, <2>1, <2>3 DEF Good
  <2> QED  BY <2>1, <2>2, <2>3 DEF Harms, Known
<1> HIDE DEF c, x, r
<1>9. Merged(harm', harm, {r})  BY <1>1, <1>8, FirstOfTwo DEF SInv, Harms
<1>10. /\ call' = c /\ call'.on = n /\ lost' = x.frames - Owned(x)
       /\ strings' = [strings EXCEPT ![n] = Settled(x), ![n] = Settled(x)]
  BY <1>3, MakesIs
<1>11. lost' = 0 \/ (lost' > 0 /\ z.size = 0)
  <2>1. Owned(x) = 1
    <3>1. x.size = y.size + 1  BY <1>7 DEF Continues
    <3>2. x.buffer # <<>>
      BY <1>5, <1>7, <3>1 DEF Sane, Strings
    <3> QED  BY <3>2 DEF Owned
  <2>2. x.frames = y.frames  BY <1>7 DEF Continues
  <2>3. y.frames - 1 = 0 \/ (y.frames - 1 > 0 /\ z.size = 0)  BY <1>4, <1>5, RoomLoses
  <2> QED  BY <1>10, <2>1, <2>2, <2>3
<1>12. ASSUME harm = "none", r = "none" PROVE Good(x) /\ Agrees(n, x, c)
  <2>1. Good(y) /\ Text(y) = Text(z)  BY <1>4, <1>5, <1>12 DEF Keeps
  <2>2. <<e>> \in Seq(Letter) /\ Len(<<e>>) = 1  BY DEF Letter
  <2>3. Good(x) /\ Text(x) = Text(z) \o <<e>>
    BY <1>7, <1>8, <1>12, <2>1, <2>2 DEF Continues
  <2>4. Whole!Result(c) = Text(z) \o <<e>>  BY <1>3 DEF Whole!Result, z
  <2>5. ~Whole!Seals(c)  BY <1>3 DEF Whole!Seals
  <2> QED  BY <1>3, <2>3, <2>4, <2>5 DEF Agrees
<1>13. /\ harm' \in Known /\ (harm # "none" => harm' = harm)
       /\ harm' = "none" => harm = "none" /\ r = "none"
  <2>1. harm = "none" => Good(y)  BY <1>4, <1>5 DEF Keeps
  <2> QED  BY <1>8, <1>9, <2>1 DEF SInv, Merged, Known
<1>14. Effect(n, x, n, x)
  BY <1>7, <1>10, <1>11, <1>12, <1>13 DEF Effect, z
<1> QED  BY <1>14

\* Making room for a text of n bytes: what is then written stays inside the buffer
\* or the capacity is one that append(String) made up.
LEMMA JoinedHarm ==
  ASSUME NEW y, Sane(y), NEW n \in Nat, y.size + n <= y.capacity
  PROVE  LET r == Beyond(y, y.size + n, "other")
         IN  /\ r \in Harms /\ (Good(y) => r \in Known)
             /\ r = "none" <=> y.size + n <= Len(y.buffer)
<1> DEFINE r == Beyond(y, y.size + n, "other")
<1>1. /\ y.size + n \in Nat /\ y.size \in Nat /\ y.capacity \in Nat
      /\ Len(y.buffer) \in Nat
  BY DEF Sane, Strings, Buffers
<1>2. /\ r \in {"none", "null", "joined", "other"}
      /\ y.size + n <= Len(y.buffer) => r = "none"
      /\ y.size + n > Len(y.buffer) => r # "none"
      /\ y.joined => r \in {"none", "null", "joined"}
  BY <1>1, BeyondIs DEF Harms
<1> HIDE DEF r
<1>3. ASSUME Good(y), ~y.joined PROVE y.size + n <= Len(y.buffer)
  BY <1>1, <1>3 DEF Good
<1>4. r = "none" <=> y.size + n <= Len(y.buffer)  BY <1>1, <1>2
<1> QED  BY <1>2, <1>3, <1>4 DEF Harms, Known, r

\* A text written behind that of z, in the room made for it.
LEMMA JoinMakes ==
  ASSUME NEW z, Sane(z), z.frames = Owned(z), NEW str \in Buffers,
         z.size + Len(str) <= MaxText
  PROVE  LET y == roomFor(z, Len(str))
             x == join(y, str)
             r == Beyond(y, y.size + Len(str), "other")
         IN  /\ Sane(y) /\ y.buffer # <<>> /\ y.size = z.size
             /\ Sane(x) /\ x.size = z.size + Len(str)
             /\ r \in Harms /\ (Good(z) => r \in Known)
             /\ \/ x.frames - Owned(x) = 0
                \/ x.frames - Owned(x) > 0 /\ z.size = 0
             /\ Owned(x) = 1 /\ x.frames \in Int
             /\ Good(z) /\ str \in Seq(Letter) /\ r = "none"
                  => Good(x) /\ Text(x) = Text(z) \o str
<1> DEFINE n == Len(str)
           y == roomFor(z, n)
           x == join(y, str)
           r == Beyond(y, y.size + n, "other")
<1>1. n \in Nat /\ z.size \in Nat  BY DEF Buffers, Sane, Strings
<1>2. /\ Sane(y) /\ Keeps(z, y) /\ y.buffer # <<>> /\ y.size + n <= y.capacity
      /\ \/ y = z
         \/ y.frames = z.frames + 1 - (IF z.capacity = 0 THEN 0 ELSE 1)
  <2> HIDE DEF n
  <2>1. z.size + n <= MaxText  BY DEF n
  <2> QED  BY <1>1, <2>1, roomForIs
<1> HIDE DEF y
<1>3. y.size = z.size  BY <1>2 DEF Keeps
<1>4. y.size + n <= MaxText  BY <1>3
<1>5. Sane(x) /\ Continues(y, x, str)  BY <1>2, <1>4, joinIs
<1> HIDE DEF x
<1>6. r \in Harms /\ (Good(y) => r \in Known) /\ (r = "none" <=> y.size + n <= Len(y.buffer))
  <2> HIDE DEF n
  <2> QED  BY <1>1, <1>2, JoinedHarm
<1> HIDE DEF r
<1>7. y.frames - 1 = 0 \/ (y.frames - 1 > 0 /\ z.size = 0)
  BY <1>2, RoomLoses
<1>8. Owned(x) = 1
  <2>1. x = join(y, str)  BY DEF x
  <2>2. Overwrites(Over(y.buffer, y.size, str), y.buffer, y.size, str)
    <3>1. y.buffer \in Buffers /\ y.size \in Nat  BY <1>2 DEF Sane, Strings
    <3> QED  BY <3>1, OverIs
  <2>3. x.buffer = Over(y.buffer, y.size, str)
    <3>1. y \in Strings  BY <1>2 DEF Sane
    <3> QED  BY <2>1, <3>1 DEF join, Strings
  <2>4. x.buffer # <<>>  BY <1>2, <2>2, <2>3 DEF Overwrites
  <2> QED  BY <2>4 DEF Owned
<1>9. x.frames = y.frames /\ x.size = z.size + n  BY <1>3, <1>5 DEF Continues
<1>10. x.frames \in Int  BY <1>5 DEF Sane, Strings
<1>11. ASSUME Good(z), str \in Seq(Letter), r = "none"
       PROVE  Good(x) /\ Text(x) = Text(z) \o str
  <2>1. Good(y) /\ Text(y) = Text(z)  BY <1>2, <1>11 DEF Keeps
  <2>2. y.size + n <= Len(y.buffer)  BY <1>6, <1>11
  <2> QED  BY <1>5, <1>11, <2>1, <2>2 DEF Continues
<1>12. Good(z) => r \in Known  BY <1>2, <1>6 DEF Keeps
<1> QED
  BY <1>2, <1>3, <1>5, <1>6, <1>7, <1>8, <1>9, <1>10, <1>11, <1>12 DEF n, y, x, r

LEMMA AddCharEffect ==
  ASSUME SInv, NEW n \in Names, AddChar(n)
  PROVE  \E x : Effect(n, x, n, x)
<1> DEFINE z == strings[n]
<1>1. PICK e \in Char, tail \in {<<>>, <<Other>>} :
        LET str == <<e>> \o tail
            x   == roomFor(strings[n], Len(str))
        IN  /\ x.size + Len(str) <= MaxText
            /\ Makes([op |-> "add", on |-> n, with |-> <<e>>], join(x, str))
            /\ harm' = FirstHarm(<<harm, Beyond(x, x.size + Len(str), "other")>>)
  BY DEF AddChar
<1> DEFINE c == [op |-> "add", on |-> n, with |-> <<e>>]
           str == <<e>> \o tail
           y == roomFor(z, Len(str))
           x == join(y, str)
           r == Beyond(y, y.size + Len(str), "other")
<1>2. c.op = "add" /\ c.on = n /\ c.with = <<e>>  OBVIOUS
<1>3. /\ y.size + Len(str) <= MaxText /\ Makes(c, x)
      /\ harm' = FirstHarm(<<harm, r>>)
  BY <1>1
<1>4. /\ <<e>> \in Seq(Letter) /\ tail \in Seq(Letter)
      /\ str \in Seq(Letter) /\ str \in Buffers /\ Len(str) \in Nat
  <2>1. <<e>> \in Seq(Letter)  BY DEF Letter
  <2>2. <<>> \in Seq(Letter) /\ <<Other>> \in Seq(Letter)  BY DEF Letter
  <2>3. tail \in Seq(Letter)  BY <2>2
  <2>4. str \in Seq(Letter) /\ Len(str) \in Nat  BY <2>1, <2>3
  <2> HIDE DEF str
  <2> QED  BY <2>1, <2>3, <2>4, LettersAreBytes
<1> HIDE DEF c, str
<1>5. /\ Sane(z) /\ z.frames = Owned(z) /\ z.size \in Nat
      /\ harm = "none" => Good(z) /\ Text(z) \in Seq(Letter)
  BY StringsAre
<1> HIDE DEF z
<1>6. z.size + Len(str) <= MaxText
  \* Making room does not change the size.
  <2>1. y.size = z.size  BY DEF roomFor, reserve
  <2> QED  BY <1>3, <2>1
<1>7. /\ Sane(x) /\ r \in Harms /\ (Good(z) => r \in Known)
      /\ \/ x.frames - Owned(x) = 0
         \/ x.frames - Owned(x) > 0 /\ z.size = 0
      /\ Good(z) /\ r = "none" => Good(x) /\ Text(x) = Text(z) \o str
  BY <1>4, <1>5, <1>6, JoinMakes
<1> HIDE DEF y, x, r
<1>8. Merged(harm', harm, {r})  BY <1>3, <1>7, FirstOfTwo DEF SInv, Harms
<1>9. /\ call' = c /\ call'.on = n /\ lost' = x.frames - Owned(x)
      /\ strings' = [strings EXCEPT ![n] = Settled(x), ![n] = Settled(x)]
  BY <1>2, <1>3, MakesIs
<1>10. ASSUME harm = "none", r = "none" PROVE Good(x) /\ Agrees(n, x, c)
  <2>1. Good(x) /\ Text(x) = Text(z) \o str  BY <1>5, <1>7, <1>10
  <2> DEFINE t == Text(z)
             s == t \o <<e>>
  <2>2. t \in Seq(Letter)  BY <1>5, <1>10
  <2> HIDE DEF t
  <2>3. t \o str = s \o tail
    BY <1>4, <2>2 DEF str
  <2>4. s \in Seq(Letter)  BY <1>4, <2>2
  <2> HIDE DEF s
  <2>5. Whole!IsPrefix(s, s \o tail)
    <3>1. Len(s) <= Len(s \o tail)  BY <1>4, <2>4
    <3>2. SubSeq(s, 1, Len(s)) = SubSeq(s \o tail, 1, Len(s))
      BY <1>4, <2>4
    <3> QED  BY <1>4, <2>4, <3>1, <3>2 DEF Whole!IsPrefix
  <2>6. Whole!IsPrefix(Text(strings[n]) \o c.with, Text(x))
    BY <1>2, <2>1, <2>3, <2>5 DEF s, t, z
  <2> QED  BY <1>2, <2>1, <2>6 DEF Agrees
<1>11. /\ harm' \in Known /\ (harm # "none" => harm' = harm)
       /\ harm' = "none" => harm = "none" /\ r = "none"
  BY <1>5, <1>7, <1>8 DEF SInv, Merged, Known
<1>12. Effect(n, x, n, x)
  BY <1>7, <1>9, <1>10, <1>11 DEF Effect, z
<1> QED  BY <1>12

\* A call that takes its value from another string.
LEMMA MakesBothIs ==
  ASSUME NEW n, NEW m, NEW c, c.on = n, c.from = m, NEW x, NEW y, MakesBoth(c, x, y)
  PROVE  /\ call' = c /\ call'.on = n
         /\ strings' = [strings EXCEPT ![m] = Settled(y), ![n] = Settled(x)]
         /\ lost' = x.frames - Owned(x)
BY DEF MakesBoth

LEMMA CopyEffect ==
  ASSUME SInv, NEW n \in Names, NEW m \in Names, Copy(n, m)
  PROVE  \E x, y : Effect(n, x, m, y)
<1> DEFINE c == [op |-> "copy", on |-> n, from |-> m]
           z == strings[n]
           v == strings[m]
           x == assign(z, Text(v))
           y == terminate(v)
           r == Unended(v)
<1>1. MakesBoth(c, x, y) /\ harm' = FirstHarm(<<harm, r>>)  BY DEF Copy
<1>2. c.op = "copy" /\ c.on = n /\ c.from = m  OBVIOUS
<1>3. /\ z.frames = Owned(z) /\ z.frames \in Int
      /\ Sane(v) /\ (harm = "none" => Good(v) /\ Text(v) \in Seq(Letter))
      /\ Text(v) \in Buffers /\ Len(Text(v)) = v.size /\ v.size <= MaxText
  BY StringsAre
<1>4. /\ Sane(x) /\ x.frames = z.frames + 1 - Owned(z) /\ x.buffer # <<>>
      /\ Text(v) \in Seq(Letter) => Good(x) /\ Text(x) = Text(v) /\ Sealed(x)
  <2> DEFINE str == Text(v)
  <2>1. str \in Buffers /\ Len(str) <= MaxText  BY <1>3
  <2> HIDE DEF str, z
  <2>2. /\ Sane(assign(z, str)) /\ assign(z, str).frames = z.frames + 1 - Owned(z)
        /\ assign(z, str).buffer # <<>>
        /\ str \in Seq(Letter) =>
             Good(assign(z, str)) /\ Text(assign(z, str)) = str /\ Sealed(assign(z, str))
    BY <1>3, <2>1, assignIs
  <2> QED  BY <2>2 DEF str
<1>5. Sane(y) /\ Keeps(v, y) /\ (Sealed(v) => Sealed(y))
  BY <1>3, terminateIs
<1>6. r \in Harms /\ (Good(v) => r \in Known)
  BY <1>3, UnendedIs
<1> HIDE DEF c, x, y, r
<1>7. Merged(harm', harm, {r})  BY <1>1, <1>6, FirstOfTwo DEF SInv, Harms
<1>8. /\ call' = c /\ call'.on = n /\ lost' = x.frames - Owned(x)
      /\ strings' = [strings EXCEPT ![m] = Settled(y), ![n] = Settled(x)]
  BY <1>1, <1>2, MakesBothIs
<1>9. lost' = 0
  <2>1. Owned(x) = 1 /\ Owned(z) \in Int  BY <1>4 DEF Owned
  <2> QED  BY <1>3, <1>4, <1>8, <2>1
<1>10. ASSUME harm = "none" PROVE Good(x) /\ Agrees(n, x, c)
  <2>1. Whole!Result(c) = Text(v)  BY <1>2 DEF Whole!Result
  <2> QED  BY <1>2, <1>3, <1>4, <1>10, <2>1 DEF Agrees
<1>11. /\ harm' \in Known /\ (harm # "none" => harm' = harm)
       /\ harm' = "none" => harm = "none"
  BY <1>3, <1>6, <1>7 DEF SInv, Merged, Known
<1>12. Effect(n, x, m, y)
  BY <1>4, <1>5, <1>8, <1>9, <1>10, <1>11 DEF Effect
<1> QED  BY <1>12

\* A value that is copied for each of its characters is terminated, if it has any.
LEMMA EndedIs ==
  ASSUME NEW v, Sane(v)
  PROVE  LET y == IF v.size = 0 THEN v ELSE terminate(v)
             r == IF v.size = 0 THEN "none" ELSE Unended(v)
         IN  /\ Sane(y) /\ Keeps(v, y) /\ (Sealed(v) => Sealed(y))
             /\ r \in Harms /\ (Good(v) => r \in Known)
<1>1. Sane(terminate(v)) /\ Keeps(v, terminate(v)) /\ (Sealed(v) => Sealed(terminate(v)))
  BY terminateIs
<1>2. Unended(v) \in Harms /\ (Good(v) => Unended(v) \in Known)
  BY UnendedIs
<1>3. Keeps(v, v)  BY DEF Keeps
<1>4. "none" \in Harms /\ "none" \in Known  BY DEF Harms, Known
<1> QED  BY <1>1, <1>2, <1>3, <1>4

LEMMA AppendStringEffect ==
  ASSUME SInv, NEW n \in Names, NEW m \in Names, AppendString(n, m)
  PROVE  \E x, y : Effect(n, x, m, y)
<1> DEFINE c == [op |-> "join", on |-> n, from |-> m]
           z == strings[n]
           v == strings[m]
           str == Text(v)
           w == roomFor(z, v.size)
           x == join(w, str)
           y == IF v.size = 0 THEN v ELSE terminate(v)
           r == Beyond(w, w.size + v.size, "other")
           q == IF v.size = 0 THEN "none" ELSE Unended(v)
<1>1. /\ z.size + v.size <= MaxText /\ MakesBoth(c, x, y)
      /\ harm' = FirstHarm(<<harm, q, r>>)
  BY DEF AppendString
<1>2. c.op = "join" /\ c.on = n /\ c.from = m  OBVIOUS
<1>3. /\ Sane(z) /\ z.frames = Owned(z) /\ Sane(v)
      /\ harm = "none" => Good(z) /\ Good(v) /\ str \in Seq(Letter)
      /\ str \in Buffers /\ Len(str) = v.size
  BY StringsAre
<1>4. Sane(y) /\ Keeps(v, y) /\ (Sealed(v) => Sealed(y)) /\ q \in Harms /\ (Good(v) => q \in Known)
  BY <1>3, EndedIs
<1>5. /\ Sane(x) /\ r \in Harms /\ (Good(z) => r \in Known)
      /\ \/ x.frames - Owned(x) = 0
         \/ x.frames - Owned(x) > 0 /\ z.size = 0
      /\ Good(z) /\ str \in Seq(Letter) /\ r = "none" => Good(x) /\ Text(x) = Text(z) \o str
  <2> HIDE DEF str, z
  <2>1. z.size + Len(str) <= MaxText  BY <1>1, <1>3
  <2> QED  BY <1>3, <2>1, JoinMakes
<1> HIDE DEF c, x, y, r, q
<1>6. Merged(harm', harm, {q, r})  BY <1>1, <1>4, <1>5, FirstOfThree DEF SInv, Harms
<1>7. /\ call' = c /\ call'.on = n /\ lost' = x.frames - Owned(x)
      /\ strings' = [strings EXCEPT ![m] = Settled(y), ![n] = Settled(x)]
  BY <1>1, <1>2, MakesBothIs
<1>8. ASSUME harm = "none", r = "none" PROVE Good(x) /\ Agrees(n, x, c)
  <2>1. Whole!Result(c) = Text(z) \o str  BY <1>2 DEF Whole!Result
  <2>2. ~Whole!Seals(c)  BY <1>2 DEF Whole!Seals
  <2>3. Good(x) /\ Text(x) = Text(z) \o str  BY <1>3, <1>5, <1>8
  <2> QED  BY <1>2, <2>1, <2>2, <2>3 DEF Agrees
<1>9. /\ harm' \in Known /\ (harm # "none" => harm' = harm)
      /\ harm' = "none" => harm = "none" /\ r = "none"
  BY <1>3, <1>4, <1>5, <1>6 DEF SInv, Merged, Known
<1>10. lost' = 0 \/ (lost' > 0 /\ z.size = 0)  BY <1>5, <1>7
<1>11. Effect(n, x, m, y)
  BY <1>4, <1>5, <1>7, <1>8, <1>9, <1>10 DEF Effect
<1> QED  BY <1>11

\* The String that + makes of what C finds at the left buffer, with str behind it,
\* and the copy the caller takes of it.
PlusMade(z, left, str, n) ==
  LET a == assign(Default, left)
      s == roomFor(a, n)
      t == join(s, str)
      x == [assign(z, Text(t)) EXCEPT !.frames = @ + t.frames + 1]
      r == Beyond(s, s.size + n, "other")
  IN  t.size <= MaxText =>
        /\ Sane(x) /\ r \in Known /\ x.frames - Owned(x) > 0
        /\ str \in Seq(Letter) /\ r = "none" => Good(x) /\ Text(x) = left \o str

LEMMA PlusMakes ==
  ASSUME NEW z, z.frames = Owned(z), NEW left \in Seq(Letter), NEW str \in Buffers
  PROVE  PlusMade(z, left, str, Len(str))
<1> DEFINE a == assign(Default, left)
           s == roomFor(a, Len(str))
           t == join(s, str)
           b == assign(z, Text(t))
           x == [b EXCEPT !.frames = @ + t.frames + 1]
           r == Beyond(s, s.size + Len(str), "other")
<1> SUFFICES ASSUME t.size <= MaxText
             PROVE  /\ Sane(x) /\ r \in Known /\ x.frames - Owned(x) > 0
                    /\ str \in Seq(Letter) /\ r = "none" => Good(x) /\ Text(x) = left \o str
  BY DEF PlusMade
<1>1. Len(left) \in Nat /\ Len(str) \in Nat /\ left \in Buffers /\ MaxText \in Nat
  BY LettersAreBytes, StringAssumption DEF Buffers
<1>2. s.size = a.size /\ a.size = Len(left)  BY DEF roomFor, reserve, assign
<1>3. t.size = s.size + Len(str)  BY DEF join, roomFor, reserve, assign
<1>4. Len(left) + Len(str) <= MaxText  BY <1>2, <1>3
<1>5. Sane(a) /\ Good(a) /\ Text(a) = left /\ a.frames = Owned(a)
  <2>1. Default.frames \in Int /\ Default.frames = 0 /\ Owned(Default) = 0
    BY DEF Default, Owned
  <2>2. Len(left) <= MaxText  BY <1>1, <1>4
  <2>3. /\ Sane(a) /\ a.frames = Default.frames + 1 - Owned(Default)
        /\ a.buffer # <<>> /\ Good(a) /\ Text(a) = left
    BY <1>1, <2>1, <2>2, assignIs
  <2> HIDE DEF a
  <2> QED  BY <2>1, <2>3 DEF Owned
<1> HIDE DEF a
<1>6. /\ Sane(t) /\ r \in Known /\ t.frames \in Int /\ Owned(t) = 1
      /\ t.frames - Owned(t) = 0 \/ t.frames - Owned(t) > 0
      /\ str \in Seq(Letter) /\ r = "none" => Good(t) /\ Text(t) = left \o str
  <2>1. a.size + Len(str) <= MaxText  BY <1>2, <1>4
  <2> QED  BY <1>5, <2>1, JoinMakes
<1> HIDE DEF s, t, r
<1>7. Text(t) \in Buffers /\ Len(Text(t)) = t.size /\ (Good(t) => Text(t) \in Seq(Letter))
  BY <1>6, TextIs, GoodText DEF Sane
<1>8. Owned(z) \in Int /\ z.frames \in Int  BY DEF Owned
<1>9. /\ Sane(b) /\ b.frames = 1 /\ b.buffer # <<>>
      /\ Good(t) => Good(b) /\ Text(b) = Text(t)
  <2> DEFINE u == Text(t)
  <2>1. u \in Buffers /\ Len(u) <= MaxText /\ (Good(t) => u \in Seq(Letter))  BY <1>7
  <2> HIDE DEF u
  <2>2. /\ Sane(assign(z, u)) /\ assign(z, u).frames = z.frames + 1 - Owned(z)
        /\ assign(z, u).buffer # <<>>
        /\ u \in Seq(Letter) => Good(assign(z, u)) /\ Text(assign(z, u)) = u
    BY <1>8, <2>1, assignIs
  <2>3. z.frames + 1 - Owned(z) = 1  BY <1>8
  <2> QED  BY <2>1, <2>2, <2>3 DEF u
<1> HIDE DEF b
<1>10. /\ x \in Strings /\ x.buffer = b.buffer /\ x.size = b.size
       /\ x.capacity = b.capacity /\ x.joined = b.joined /\ x.frames = 1 + t.frames + 1
  <2>1. b \in Strings  BY <1>9 DEF Sane
  <2> QED  BY <1>6, <1>9, <2>1 DEF Strings
<1> HIDE DEF x
<1>11. Sane(x)  BY <1>9, <1>10 DEF Sane
<1>12. x.frames - Owned(x) > 0
  <2>1. Owned(x) = 1  BY <1>9, <1>10 DEF Owned
  <2> QED  BY <1>6, <1>10, <2>1
<1>13. Good(b) => Good(x) /\ Text(x) = Text(b)
  BY <1>10 DEF Good, Text
<1> QED  BY <1>6, <1>9, <1>11, <1>12, <1>13 DEF x, b, t, s, a, r

LEMMA PlusEffect ==
  ASSUME SInv, NEW n \in Names, NEW l \in Names, NEW m \in Names, Plus(n, l, m)
  PROVE  \E x, y : Effect(n, x, m, y)
<1> DEFINE v == strings[m]
           str == Text(v)
           n2 == v.size
<1>1. PICK left \in CTexts(strings[l]) :
        LET s == roomFor(assign(Default, left), n2)
            t == join(s, str)
            x == [assign(strings[n], Text(t)) EXCEPT !.frames = @ + t.frames + 1]
        IN  /\ t.size <= MaxText
            /\ IF n = m THEN Makes([op |-> "plus", on |-> n, left |-> l, from |-> m], x)
               ELSE MakesBoth([op |-> "plus", on |-> n, left |-> l, from |-> m], x,
                              IF n2 = 0 THEN v ELSE terminate(v))
            /\ harm' = FirstHarm(<<harm, IF strings[l].buffer = <<>> THEN "null" ELSE "none",
                                   IF n2 = 0 THEN "none" ELSE Unended(v),
                                   Beyond(s, s.size + n2, "other"),
                                   IF t.size = Len(t.buffer) THEN "full" ELSE "none">>)
  BY DEF Plus
<1> DEFINE c == [op |-> "plus", on |-> n, left |-> l, from |-> m]
           z == strings[n]
           s == roomFor(assign(Default, left), n2)
           t == join(s, str)
           x == [assign(z, Text(t)) EXCEPT !.frames = @ + t.frames + 1]
           y == IF v.size = 0 THEN v ELSE terminate(v)
           r == Beyond(s, s.size + n2, "other")
           q == IF v.size = 0 THEN "none" ELSE Unended(v)
           p == IF strings[l].buffer = <<>> THEN "null" ELSE "none"
           f == IF t.size = Len(t.buffer) THEN "full" ELSE "none"
<1>2. /\ t.size <= MaxText /\ harm' = FirstHarm(<<harm, p, q, r, f>>)
      /\ IF n = m THEN Makes(c, x) ELSE MakesBoth(c, x, y)
  BY <1>1
<1>3. c.op = "plus" /\ c.on = n /\ c.from = m /\ c.left = l  OBVIOUS
<1>4. /\ z.frames = Owned(z) /\ Sane(v) /\ Sane(strings[l])
      /\ harm = "none" => Good(v) /\ str \in Seq(Letter) /\ Good(strings[l])
      /\ str \in Buffers /\ Len(str) = n2
  BY StringsAre
<1>5. /\ left \in Seq(Letter)
      /\ Good(strings[l]) /\ Sealed(strings[l]) => left = Text(strings[l])
  BY <1>4, CTextsAre
<1>6. Sane(y) /\ Keeps(v, y) /\ (Sealed(v) => Sealed(y)) /\ q \in Harms /\ (Good(v) => q \in Known)
  BY <1>4, EndedIs
<1>7. /\ Sane(x) /\ r \in Known /\ x.frames - Owned(x) > 0
      /\ str \in Seq(Letter) /\ r = "none" => Good(x) /\ Text(x) = left \o str
  <2> HIDE DEF str, z, n2
  <2>1. PlusMade(z, left, str, n2)
    <3>1. PlusMade(z, left, str, Len(str))  BY <1>4, <1>5, PlusMakes
    <3> HIDE DEF z, str, n2
    <3> QED  BY <1>4, <3>1
  <2> QED  BY <1>2, <2>1 DEF PlusMade
<1>8. p \in Known /\ f \in Known  BY DEF Known
<1> HIDE DEF c, x, y, r, q, p, f
<1>9. Merged(harm', harm, {p, q, r, f})
  BY <1>2, <1>6, <1>7, <1>8, FirstOfFive DEF SInv, Harms
<1>10. /\ harm' \in Known /\ (harm # "none" => harm' = harm)
       /\ harm' = "none" => harm = "none" /\ r = "none"
  BY <1>4, <1>6, <1>7, <1>8, <1>9 DEF SInv, Merged, Known
<1>11. ASSUME harm = "none", r = "none" PROVE Good(x) /\ Agrees(n, x, c)
  <2>1. Good(x) /\ Text(x) = left \o str  BY <1>4, <1>7, <1>11
  <2>2. ~Whole!Seals(c)  BY <1>3 DEF Whole!Seals
  <2>3. Whole!Result(c) = Text(strings[l]) \o str  BY <1>3 DEF Whole!Result
  <2>4. CASE Sealed(strings[l])
    <3>1. left = Text(strings[l])  BY <1>4, <1>5, <1>11, <2>4
    <3>2. Text(x) = Whole!Result(c)  BY <2>1, <2>3, <3>1
    <3> QED  BY <1>3, <2>1, <2>2, <2>4, <3>2 DEF Agrees
  <2>5. CASE ~Sealed(strings[l])  BY <1>3, <2>1, <2>5 DEF Agrees
  <2> QED  BY <2>4, <2>5
<1>12. CASE n = m
  <2>1. /\ call' = c /\ call'.on = n /\ lost' = x.frames - Owned(x)
        /\ strings' = [strings EXCEPT ![n] = Settled(x), ![n] = Settled(x)]
    BY <1>2, <1>3, <1>12, MakesIs
  <2>2. Effect(n, x, n, x)
    BY <1>3, <1>7, <1>10, <1>11, <2>1 DEF Effect
  <2> QED  BY <1>12, <2>2
<1>13. CASE n # m
  <2>1. /\ call' = c /\ call'.on = n /\ lost' = x.frames - Owned(x)
        /\ strings' = [strings EXCEPT ![m] = Settled(y), ![n] = Settled(x)]
    BY <1>2, <1>3, <1>13, MakesBothIs
  <2>2. Effect(n, x, m, y)
    BY <1>3, <1>6, <1>7, <1>10, <1>11, <2>1 DEF Effect
  <2> QED  BY <2>2
<1> QED  BY <1>12, <1>13

LEMMA EveryCall ==
  ASSUME SInv, StringNext
  PROVE  \E n, x, m, y : Effect(n, x, m, y)
<1> PICK n \in Names :
      \/ Set(n) \/ AppendChar(n) \/ AddChar(n) \/ PopBack(n) \/ Clear(n) \/ CStr(n)
      \/ \E m \in Names \ {n} : Copy(n, m) \/ AppendString(n, m)
      \/ \E l, m \in Names : Plus(n, l, m)
  BY DEF StringNext
<1>1. CASE Set(n)  BY <1>1, SetEffect
<1>2. CASE AppendChar(n)  BY <1>2, AppendCharEffect
<1>3. CASE AddChar(n)  BY <1>3, AddCharEffect
<1>4. CASE PopBack(n)  BY <1>4, PopBackEffect
<1>5. CASE Clear(n)  BY <1>5, ClearEffect
<1>6. CASE CStr(n)  BY <1>6, CStrEffect
<1>7. ASSUME NEW m \in Names, Copy(n, m) PROVE \E x, y : Effect(n, x, m, y)
  BY <1>7, CopyEffect
<1>8. ASSUME NEW m \in Names, AppendString(n, m) PROVE \E x, y : Effect(n, x, m, y)
  BY <1>8, AppendStringEffect
<1>9. ASSUME NEW l \in Names, NEW m \in Names, Plus(n, l, m)
      PROVE  \E x, y : Effect(n, x, m, y)
  BY <1>9, PlusEffect
<1> QED  BY <1>1, <1>2, <1>3, <1>4, <1>5, <1>6, <1>7, <1>8, <1>9

\* The strings after a call.
LEMMA EffectIs ==
  ASSUME SInv, NEW n, NEW x, NEW m, NEW y, Effect(n, x, m, y)
  PROVE  /\ strings' \in [Names -> Strings]
         /\ strings'[n] = Settled(x)
         /\ m # n => strings'[m] = Settled(y)
         /\ \A k \in Names \ {n, m} : strings'[k] = strings[k]
         /\ \A k \in Names : Sane(strings'[k]) /\ strings'[k].frames = Owned(strings'[k])
<1>1. /\ n \in Names /\ m \in Names /\ strings \in [Names -> Strings]
      /\ strings' = [strings EXCEPT ![m] = Settled(y), ![n] = Settled(x)]
  BY DEF Effect, SInv
<1>2. /\ Sane(Settled(x)) /\ Settled(x).frames = Owned(Settled(x))
      /\ Sane(Settled(y)) /\ Settled(y).frames = Owned(Settled(y))
  BY SettledIs DEF Effect
<1>3. Settled(x) \in Strings /\ Settled(y) \in Strings  BY <1>2 DEF Sane
<1>4. /\ strings' \in [Names -> Strings]
      /\ strings'[n] = Settled(x)
      /\ m # n => strings'[m] = Settled(y)
      /\ \A k \in Names \ {n, m} : strings'[k] = strings[k]
  BY <1>1, <1>3
<1>5. \A k \in Names : Sane(strings[k]) /\ strings[k].frames = Owned(strings[k])
  BY DEF SInv
<1>6. \A k \in Names : Sane(strings'[k]) /\ strings'[k].frames = Owned(strings'[k])
  <2> TAKE k \in Names
  <2>1. CASE k = n  BY <1>2, <1>4, <2>1
  <2>2. CASE k # n /\ k = m  BY <1>2, <1>4, <2>2
  <2>3. CASE k # n /\ k # m
    <3>1. strings'[k] = strings[k]  BY <1>4, <2>3
    <3> QED  BY <1>5, <3>1
  <2> QED  BY <2>1, <2>2, <2>3
<1> QED  BY <1>4, <1>6

\* Without harm each string is good, and the one called upon has the text of x.
LEMMA EffectUnharmed ==
  ASSUME SInv, NEW n, NEW x, NEW m, NEW y, Effect(n, x, m, y), harm' = "none"
  PROVE  /\ Good(strings'[n]) /\ Text(strings'[n]) = Text(x) /\ (Sealed(x) => Sealed(strings'[n]))
         /\ Agrees(n, x, call')
         /\ \A k \in Names \ {n} :
              /\ Good(strings'[k]) /\ Text(strings'[k]) = Text(strings[k])
              /\ Sealed(strings[k]) => Sealed(strings'[k])
<1>1. harm = "none" /\ n \in Names /\ m \in Names /\ Sane(x) /\ Sane(y)
  BY DEF Effect
<1>2. \A k \in Names : Good(strings[k])  BY <1>1 DEF SInv, AllGood
<1>3. /\ Good(x) /\ Agrees(n, x, call')
      /\ m # n => Keeps(strings[m], y) /\ (Sealed(strings[m]) => Sealed(y))
  BY DEF Effect
<1>4. /\ strings'[n] = Settled(x)
      /\ m # n => strings'[m] = Settled(y)
      /\ \A k \in Names \ {n, m} : strings'[k] = strings[k]
  BY EffectIs
<1>5. Keeps(x, Settled(x)) /\ (Sealed(x) <=> Sealed(Settled(x)))  BY <1>1, SettledIs
<1>6. Keeps(y, Settled(y)) /\ (Sealed(y) <=> Sealed(Settled(y)))  BY <1>1, SettledIs
<1>7. Good(strings'[n]) /\ Text(strings'[n]) = Text(x) /\ (Sealed(x) => Sealed(strings'[n]))
  BY <1>3, <1>4, <1>5 DEF Keeps
<1>8. ASSUME NEW k \in Names \ {n}
      PROVE  /\ Good(strings'[k]) /\ Text(strings'[k]) = Text(strings[k])
             /\ Sealed(strings[k]) => Sealed(strings'[k])
  <2>1. CASE k = m
    <3>1. Good(y) /\ Text(y) = Text(strings[m]) /\ (Sealed(strings[m]) => Sealed(y))
      BY <1>1, <1>2, <1>3, <2>1 DEF Keeps
    <3> QED  BY <1>4, <1>6, <2>1, <3>1 DEF Keeps
  <2>2. CASE k # m
    <3>1. strings'[k] = strings[k]  BY <1>4, <2>2
    <3> QED  BY <1>2, <3>1
  <2> QED  BY <2>1, <2>2
<1> QED  BY <1>3, <1>7, <1>8

LEMMA SInvInit == StringInit => SInv
<1> SUFFICES ASSUME StringInit PROVE SInv
  OBVIOUS
<1>1. strings = [n \in Names |-> Default] /\ lost = 0 /\ harm = "none"
  BY DEF StringInit
<1>2. MaxText \in Nat  BY StringAssumption
<1>3. Default \in Strings /\ Sane(Default) /\ Default.frames = Owned(Default) /\ Good(Default)
  <2>1. /\ Default.buffer = <<>> /\ Default.size = 0 /\ Default.capacity = 0
        /\ Default.frames = 0 /\ Default.joined = FALSE
    BY DEF Default
  <2>2. <<>> \in Seq(Byte) /\ Len(<<>>) = 0  OBVIOUS
  <2>3. Default \in Strings  BY <2>2 DEF Default, Strings, Buffers
  <2>4. Sane(Default)  BY <1>2, <2>1, <2>3 DEF Sane
  <2>5. Good(Default)  BY <2>1, <2>2 DEF Good
  <2> QED  BY <2>1, <2>3, <2>4, <2>5 DEF Owned
<1> QED  BY <1>1, <1>3 DEF SInv, AllGood, Known

LEMMA SInvStep == SInv /\ [StringNext]_stringVars => SInv'
<1> SUFFICES ASSUME SInv, [StringNext]_stringVars PROVE SInv'
  OBVIOUS
<1>1. CASE StringNext
  <2> PICK n, x, m, y : Effect(n, x, m, y)  BY <1>1, EveryCall
  <2>1. /\ strings' \in [Names -> Strings]
        /\ \A k \in Names : Sane(strings'[k]) /\ strings'[k].frames = Owned(strings'[k])
    BY EffectIs
  <2>2. lost' \in Int /\ harm' \in Known
    <3>1. x.frames \in Int /\ Owned(x) \in Int /\ lost' = x.frames - Owned(x)
      BY DEF Effect, Sane, Strings, Owned
    <3> QED  BY <3>1 DEF Effect
  <2>3. ASSUME harm' = "none" PROVE \A k \in Names : Good(strings'[k])
    BY <2>3, EffectUnharmed
  <2> QED  BY <2>1, <2>2, <2>3 DEF SInv, AllGood
<1>2. CASE UNCHANGED stringVars
  BY <1>2 DEF stringVars, SInv, AllGood
<1> QED  BY <1>1, <1>2

LEMMA SInvAlways == StringSpec => []SInv
BY SInvInit, SInvStep, PTL DEF StringSpec

\* The types of the strings' fields (String.h), and that all frames a string has got
\* and not given back are the one its buffer is in.
THEOREM StringTypeCorrect == StringSpec => []StringTypeOK
<1>1. SInv => StringTypeOK
  <2> SUFFICES ASSUME SInv PROVE StringTypeOK
    OBVIOUS
  <2>1. ASSUME NEW n \in Names
        PROVE  LET x == strings[n]
               IN  /\ x.buffer \in Seq(Char \cup {NUL, Old, Other})
                   /\ x.size \in 0 .. MaxText
                   /\ x.capacity \in Nat /\ x.frames = Owned(x)
                   /\ x.joined \in BOOLEAN
    <3>1. MaxText \in Nat  BY StringAssumption
    <3> QED  BY <3>1, StringsAre DEF Strings, Buffers, Byte
  <2>2. lost \in Int /\ harm \in {"none", "null", "full", "joined", "other"}
    BY DEF SInv, Known
  <2> QED  BY <2>1, <2>2 DEF StringTypeOK
<1> QED  BY <1>1, SInvAlways, PTL

\* append(char), pop_back and the assignments never write outside of a frame, and
\* the other calls only where HarmIsKnown says; a string keeps size <= m_capacity,
\* and without append(String) m_capacity bytes to write on.
THEOREM HarmStaysKnown == StringSpec => []HarmIsKnown
<1>1. SInv => HarmIsKnown
  BY DEF SInv, Known, AllGood, HarmIsKnown, Sane, Good
<1> QED  BY <1>1, SInvAlways, PTL

\* delete[] and new[] match in every call but + and an append to an empty text.
THEOREM FramesAreReturned == StringSpec => FramesComeBack
<1>1. ASSUME SInv, [StringNext]_stringVars
      PROVE  [lost' = 0 \/ (lost' > 0 /\ (call'.op = "plus" \/ strings[call'.on].size = 0))]_stringVars
  <2>1. CASE StringNext
    <3> PICK n, x, m, y : Effect(n, x, m, y)  BY <1>1, <2>1, EveryCall
    <3> QED  BY DEF Effect
  <2>2. CASE UNCHANGED stringVars  BY <2>2
  <2> QED  BY <1>1, <2>1, <2>2
<1> QED  BY <1>1, SInvAlways, PTL DEF StringSpec, FramesComeBack

\* The class implements Texts: until memory is harmed each call makes the text it
\* should of the string it is made on, terminates it where it should, and leaves the
\* texts of the others alone.
THEOREM TextsImplemented == StringSpec => TextsAreRight
<1>1. StringInit => Whole!TInit
  <2> SUFFICES ASSUME StringInit PROVE Whole!TInit
    OBVIOUS
  <2>1. strings = [n \in Names |-> Default] /\ call = [op |-> "none"] /\ harm = "none"
    BY DEF StringInit
  <2>2. Default.buffer = <<>> /\ Default.size = 0  BY DEF Default
  <2>3. Text(Default) = <<>>
    <3>1. Default \in Strings /\ Len(Text(Default)) = 0 /\ Text(Default) \in Buffers
      <4>1. Default \in Strings
        BY DEF Default, Strings, Buffers
      <4> QED  BY <2>2, <4>1, TextIs
    <3> QED  BY <3>1, EmptySeq DEF Buffers
  <2> QED  BY <2>1, <2>2, <2>3 DEF Whole!TInit
<1>2. ASSUME SInv, [StringNext]_stringVars PROVE [Whole!TNext]_(Whole!tvars)
  <2>1. CASE UNCHANGED stringVars
    BY <2>1 DEF stringVars, Whole!tvars, Text
  <2>2. CASE StringNext /\ harm' # "none"
    BY <2>2 DEF Whole!TNext
  <2>3. CASE StringNext /\ harm' = "none"
    <3> PICK n, x, m, y : Effect(n, x, m, y)  BY <1>2, <2>3, EveryCall
    <3>1. call'.on = n /\ n \in Names /\ harm = "none"  BY <2>3 DEF Effect
    <3>2. /\ Text(strings'[n]) = Text(x) /\ (Sealed(x) => Sealed(strings'[n]))
          /\ Agrees(n, x, call')
          /\ \A k \in Names \ {n} :
               /\ Text(strings'[k]) = Text(strings[k])
               /\ Sealed(strings[k]) => Sealed(strings'[k])
      BY <1>2, <2>3, EffectUnharmed
    <3>3. Whole!TOthers
      BY <2>3, <3>1, <3>2 DEF Whole!TOthers, Sealed
    <3>4. CASE /\ call'.op # "add" /\ (call'.op = "plus" => call'.left \in Names /\ Sealed(strings[call'.left]))
               /\ Text(x) = Whole!Result(call')
               /\ Whole!Seals(call') => Sealed(x)
      BY <3>1, <3>2, <3>3, <3>4 DEF Whole!TNext, Whole!TCall, Sealed
    <3>5. CASE call'.op = "add" /\ Whole!IsPrefix(Text(strings[n]) \o call'.with, Text(x))
      BY <3>1, <3>2, <3>3, <3>5 DEF Whole!TNext, Whole!TAdd
    <3>6. CASE call'.op = "plus" /\ ~Sealed(strings[call'.left])
      BY <3>3, <3>6 DEF Whole!TNext, Whole!TPlus, Sealed
    <3> QED  BY <3>2, <3>4, <3>5, <3>6 DEF Agrees
  <2> QED  BY <1>2, <2>1, <2>2, <2>3
<1> QED  BY <1>1, <1>2, SInvAlways, PTL DEF StringSpec, TextsAreRight, Whole!TSpec
=============================================================================
