------------------------------ MODULE WireProofs ------------------------------
(***************************************************************************)
(* Proofs about the wire of the network protocol (Wire), for any procedures,*)
(* words, strings, buffer size and base, and for messages of any length.   *)
(*                                                                         *)
(* The argument is that of the phases.  As long as nothing has failed the  *)
(* connection is silent, or the client talks (the request), or the server  *)
(* does (the reply).  In a talk the listener has the first values of the   *)
(* message, and of the next one perhaps the first elements; the bytes that *)
(* are on their way - in the buffer of the listener, the stream, and the   *)
(* buffer of the speaker - are a cut of the next pieces, before those that *)
(* the speaker is still to put; and what the listener expects has the types*)
(* of what is to come.                                                     *)
(***************************************************************************)
EXTENDS Wire, FiniteSetTheorems, SequenceTheorems, TLAPS

-----------------------------------------------------------------------------
(* Numbers.                                                                *)

LEMMA NatSetInduction ==
    ASSUME NEW S, 0 \in S, \A n \in Nat : n \in S => n + 1 \in S
    PROVE  Nat \subseteq S
<1> SUFFICES ASSUME Nat \ S # {} PROVE FALSE
    OBVIOUS
<1> DEFINE T == {1 .. n : n \in Nat \ S}
<1>1. T \subseteq FiniteSubsetsOf(Nat) /\ T # {}
  <2>1. ASSUME NEW n \in Nat PROVE (1 .. n) \in FiniteSubsetsOf(Nat)
    <3>1. IsFiniteSet(1 .. n)
          BY FS_Interval
    <3>2. (1 .. n) \subseteq Nat
          OBVIOUS
    <3> QED BY <3>1, <3>2 DEF FiniteSubsetsOf
  <2> QED BY <2>1
<1>2. IsWellFoundedOn(StrictSubsetOrdering(Nat), FiniteSubsetsOf(Nat))
      BY FS_StrictSubsetOrderingWellFounded
<1> HIDE DEF T
<1>3. PICK x \in T : \A y \in T : <<y, x>> \notin StrictSubsetOrdering(Nat)
      BY <1>1, <1>2, WFMin
<1>4. PICK n \in Nat \ S : x = 1 .. n
      BY DEF T
<1>5. n # 0 /\ n - 1 \in Nat \ S
      OBVIOUS
<1>6. (1 .. (n - 1)) \in T
      BY <1>5 DEF T
<1>7. <<1 .. (n - 1), 1 .. n>> \in StrictSubsetOrdering(Nat)
  <2>1. n \in 1 .. n /\ n \notin 1 .. (n - 1)
        BY <1>5
  <2>2. (1 .. (n - 1)) \subseteq 1 .. n
        OBVIOUS
  <2> QED BY <2>1, <2>2, <1>5 DEF StrictSubsetOrdering
<1> QED BY <1>3, <1>4, <1>6, <1>7

\* All the numbers up to n, when 0 has the property and each passes it on.
LEMMA UpTo ==
    ASSUME NEW n \in Nat, NEW S, 0 \in S, \A i \in 0 .. n - 1 : i \in S => i + 1 \in S
    PROVE  0 .. n \subseteq S
<1> DEFINE T == {i \in Nat : i <= n => i \in S}
<1>1. 0 \in T /\ \A i \in Nat : i \in T => i + 1 \in T
      OBVIOUS
<1> HIDE DEF T
<1>2. Nat \subseteq T
      BY <1>1, NatSetInduction
<1> QED BY <1>2 DEF T

Follows(g, n, D, a, F) == g \in [0 .. n -> D] /\ g[0] = a /\ \A i \in 1 .. n : g[i] = F[i][g[i - 1]]

\* A function that is defined by its value at 0 and from each place to the next.
LEMMA StepByStep ==
    ASSUME NEW n \in Nat, NEW D, NEW a \in D, NEW F \in [1 .. n -> [D -> D]]
    PROVE  \E g : Follows(g, n, D, a, F)
<1> DEFINE Up(k, g) == g \in [0 .. k -> D] /\ g[0] = a /\ \A i \in 1 .. k : g[i] = F[i][g[i - 1]]
           S == {k \in 0 .. n : \E g \in [0 .. k -> D] : Up(k, g)}
<1>1. 0 \in S
  <2>1. [i \in 0 .. 0 |-> a] \in [0 .. 0 -> D] /\ Up(0, [i \in 0 .. 0 |-> a])
        OBVIOUS
  <2> HIDE DEF Up
  <2>2. \E g \in [0 .. 0 -> D] : Up(0, g)
        BY <2>1
  <2> QED BY <2>2
<1>2. ASSUME NEW k \in 0 .. n - 1, k \in S PROVE k + 1 \in S
  <2>1. PICK g \in [0 .. k -> D] : Up(k, g)
        BY <1>2
  <2> DEFINE v == F[k + 1][g[k]]
             h == [i \in 0 .. k + 1 |-> IF i = k + 1 THEN v ELSE g[i]]
  <2>2. v \in D
    <3>1. F[k + 1] \in [D -> D] /\ g[k] \in D
          OBVIOUS
    <3> QED BY <3>1
  <2> HIDE DEF v
  <2>3. h \in [0 .. k + 1 -> D] /\ h[0] = a
        BY <2>1, <2>2
  <2>4. ASSUME NEW i \in 1 .. k + 1 PROVE h[i] = F[i][h[i - 1]]
    <3>1. CASE i = k + 1
      <4>1. h[i] = v /\ h[i - 1] = g[k]
            BY <3>1
      <4> QED BY <4>1, <3>1 DEF v
    <3>2. CASE i # k + 1
      <4>1. h[i] = g[i] /\ h[i - 1] = g[i - 1] /\ i \in 1 .. k
            BY <3>2
      <4> QED BY <4>1, <2>1
    <3> QED BY <3>1, <3>2
  <2> HIDE DEF h
  <2>5. Up(k + 1, h)
        BY <2>3, <2>4
  <2> HIDE DEF Up
  <2> QED BY <2>3, <2>5
<1> HIDE DEF S
<1>3. n \in S
  <2>1. \A i \in 0 .. n - 1 : i \in S => i + 1 \in S
        BY <1>2
  <2>2. 0 .. n \subseteq S
        BY <1>1, <2>1, UpTo
  <2> QED BY <2>2
<1>4. PICK g \in [0 .. n -> D] : Up(n, g)
      BY <1>3 DEF S
<1> QED BY <1>4 DEF Follows

\* A set of numbers that is not empty has a smallest.
LEMMA SomeSmallest ==
    ASSUME NEW S \in SUBSET Nat, S # {}
    PROVE  \E x \in S : \A y \in S : x <= y
<1> SUFFICES ASSUME \A x \in S : \E y \in S : y < x PROVE FALSE
    OBVIOUS
<1> DEFINE T == {k \in Nat : \A x \in S : x >= k}
<1>1. 0 \in T /\ \A k \in Nat : k \in T => k + 1 \in T
  <2>1. 0 \in T
        OBVIOUS
  <2>2. ASSUME NEW k \in Nat, k \in T PROVE k + 1 \in T
    <3>1. ASSUME NEW x \in S, x = k PROVE FALSE
          BY <2>2, <3>1
    <3> QED BY <2>2, <3>1
  <2> QED BY <2>1, <2>2
<1> HIDE DEF T
<1>2. \A k \in Nat : k \in T
      BY <1>1, NatSetInduction
<1>3. \A x \in S : x + 1 \in T
      BY <1>2
<1>4. PICK x \in S : TRUE
      OBVIOUS
<1>5. x >= x + 1 /\ x \in Nat
      BY <1>3 DEF T
<1> QED BY <1>5

-----------------------------------------------------------------------------
(* Words and bytes.                                                        *)

Square == Base * Base

\* What a word and a byte are, as numbers.
LEMMA WordBounds ==
    /\ Base \in Nat /\ Base >= 3 /\ Square \in Nat /\ Square >= 9
    /\ MaxWord \in Nat /\ MaxWord >= 3
    /\ MaxWord + 1 = Square \div 2 /\ 2 * (MaxWord + 1) <= Square /\ Square <= 2 * (MaxWord + 1) + 1
    /\ WordRange = (MaxWord + 1 - Square) .. MaxWord
<1>1. Base \in Nat /\ Base >= 3
  BY WireAssumption
<1>2. Base * Base \in Nat /\ Base * Base >= 9
  <2>1. \A b \in Nat : b >= 3 => b * b \in Nat /\ b * b >= 3 * b
    OBVIOUS
  <2> QED BY <1>1, <2>1
<1> DEFINE z == Base * Base
<1>3. MaxWord = (z \div 2) - 1 /\ WordRange = (MaxWord + 1 - z) .. MaxWord
  BY DEF MaxWord, WordRange
<1> HIDE DEF z
<1>4. z \in Nat /\ z >= 9
  BY <1>2 DEF z
<1>5. z \div 2 \in Nat /\ 2 * (z \div 2) <= z /\ z <= 2 * (z \div 2) + 1 /\ z \div 2 >= 4
  BY <1>4
<1>6. Square = z
  BY DEF Square, z
<1> QED BY <1>1, <1>3, <1>4, <1>5, <1>6

\* A word is two digits to the base of a byte.
LEMMA TwoDigits ==
    ASSUME NEW u \in 0 .. Square - 1
    PROVE  u \div Base \in Bytes /\ u % Base \in Bytes /\ (u \div Base) * Base + (u % Base) = u
<1>1. Base \in Nat \ {0} /\ u \in Nat
  BY WordBounds
<1>2. u \div Base \in Nat /\ (u \div Base) * Base <= u /\ u < (u \div Base) * Base + Base
  <2>1. \A q \in Nat \ {0}, a \in Nat : a \div q \in Nat /\ (a \div q) * q <= a /\ a < (a \div q) * q + q
    OBVIOUS
  <2> QED BY <1>1, <2>1
<1>3. u % Base \in Bytes /\ u % Base = u - (u \div Base) * Base
  <2>1. \A q \in Nat \ {0}, a \in Nat : a % q \in 0 .. q - 1 /\ a % q = a - (a \div q) * q
    OBVIOUS
  <2> QED BY <1>1, <2>1 DEF Bytes
<1> DEFINE d == u \div Base
           e == d * Base
<1>4. d < Base
  <2> SUFFICES ASSUME d >= Base PROVE FALSE
    BY <1>1, <1>2
  <2>1. d * Base >= Base * Base
    <3>1. \A a, b \in Nat : a >= b => a * b >= b * b
      OBVIOUS
    <3> HIDE DEF d
    <3> QED BY <3>1, <1>1, <1>2 DEF d
  <2> QED BY <2>1, <1>1, <1>2, WordBounds DEF Square
<1> HIDE DEF d
<1>5. e \in Nat
  BY <1>1, <1>2 DEF d
<1>6. e + (u % Base) = u
  <2> DEFINE r == u % Base
  <2>1. r = u - e
    BY <1>3 DEF d, e
  <2> HIDE DEF e, r
  <2>2. e + r = u
    BY <2>1, <1>1, <1>5
  <2> QED BY <2>2 DEF r
<1> QED BY <1>1, <1>2, <1>3, <1>4, <1>6 DEF d, Bytes

Piece == {b \in Seq(Bytes) : Len(b) \in 1 .. 2}

LEMMA WordIsPiece ==
    ASSUME NEW w \in Int
    PROVE  BinWord(w) \in Piece /\ Len(BinWord(w)) = 2
<1> DEFINE u == w % Square
<1>1. u \in 0 .. Square - 1
  BY WordBounds
<1>2. BinWord(w) = <<u \div Base, u % Base>>
  BY DEF BinWord, Square
<1> HIDE DEF u
<1>3. u \div Base \in Bytes /\ u % Base \in Bytes
  BY <1>1, TwoDigits
<1> QED BY <1>2, <1>3 DEF Piece

LEMMA OfWordIs ==
    ASSUME NEW b, NEW u, b[1] * Base + b[2] = u
    PROVE  OfBinWord(b) = IF u < Square \div 2 THEN u ELSE u - Square
<1> DEFINE x == b[1] * Base + b[2]
<1>1. OfBinWord(b) = IF x < Square \div 2 THEN x ELSE x - Square
  BY DEF OfBinWord, Square
<1> HIDE DEF x
<1>2. x = u
  BY DEF x
<1> QED BY <1>1, <1>2

\* What bin_w_word has stored, it finds again.
LEMMA WordAndBack ==
    ASSUME NEW w \in WordRange
    PROVE  OfBinWord(BinWord(w)) = w
<1> DEFINE u == w % Square
<1>0. w \in Int /\ MaxWord + 1 - Square <= w /\ w <= MaxWord
  BY WordBounds
<1>1. u \in 0 .. Square - 1 /\ (w >= 0 => u = w) /\ (w < 0 => u = w + Square)
  <2>1. w >= 0 => u = w
    BY WordBounds, <1>0
  <2>2. w < 0 => u = w + Square
    <3>1. w < 0 => w + Square \in 0 .. Square - 1
      BY WordBounds, <1>0
    <3>2. \A z \in Nat \ {0}, x \in Int : x + z \in 0 .. z - 1 => x % z = x + z
      OBVIOUS
    <3>3. w < 0 => w % Square = w + Square
      <4>1. Square \in Nat \ {0}
        BY WordBounds
      <4> QED BY <3>1, <3>2, <1>0, <4>1
    <3> QED BY <3>3
  <2> QED BY <2>1, <2>2, WordBounds, <1>0
<1>2. BinWord(w) = <<u \div Base, u % Base>>
  BY DEF BinWord, Square
<1> HIDE DEF u
<1>3. (u \div Base) * Base + (u % Base) = u
  BY <1>1, TwoDigits
<1>4. OfBinWord(BinWord(w)) = IF u < Square \div 2 THEN u ELSE u - Square
  <2> DEFINE b == BinWord(w)
  <2>1. b[1] * Base + b[2] = u
    BY <1>2, <1>3
  <2> HIDE DEF b
  <2>2. OfBinWord(b) = IF u < Square \div 2 THEN u ELSE u - Square
    BY <2>1, OfWordIs
  <2> QED BY <2>2 DEF b
<1>5. (w >= 0 => u < Square \div 2) /\ (w < 0 => ~(u < Square \div 2))
  BY <1>0, <1>1, WordBounds
<1> QED BY <1>0, <1>1, <1>4, <1>5, WordBounds

\* Any two bytes are a word.
LEMMA OfBytesIsWord ==
    ASSUME NEW b \in Seq(Bytes), Len(b) = 2
    PROVE  OfBinWord(b) \in WordRange
<1>1. b[1] \in Bytes /\ b[2] \in Bytes
  OBVIOUS
<1> DEFINE u == b[1] * Base + b[2]
<1>2. u \in 0 .. Square - 1
  <2> DEFINE e == b[1] * Base
  <2>1. e \in Nat /\ e <= (Base - 1) * Base
    <3>1. \A x, y, z \in Nat : x <= y => x * z \in Nat /\ x * z <= y * z
      OBVIOUS
    <3>2. b[1] \in Nat /\ Base - 1 \in Nat /\ b[1] <= Base - 1 /\ Base \in Nat
      BY <1>1, WordBounds DEF Bytes
    <3> QED BY <3>1, <3>2
  <2>2. (Base - 1) * Base = Square - Base
    BY WordBounds DEF Square
  <2> HIDE DEF e
  <2>3. e + b[2] \in 0 .. Square - 1
    BY <1>1, <2>1, <2>2, WordBounds DEF Bytes
  <2> QED BY <2>3 DEF e
<1>3. OfBinWord(b) = IF u < Square \div 2 THEN u ELSE u - Square
  BY OfWordIs
<1> HIDE DEF u
<1> QED BY <1>2, <1>3, WordBounds
-----------------------------------------------------------------------------
(* Values.  A value is a word - its head - and the elements that follow it.*)

Values == [t : Plain, v : Seq(Int)]

Good(f) ==
    /\ f \in Values
    /\ f.t = "word" => Len(f.v) = 1 /\ f.v[1] \in WordRange
    /\ f.t = "words" => f.v \in Seq(WordRange) /\ Len(f.v) <= MaxWord
    /\ f.t = "chars" => f.v \in Seq(Bytes) /\ Len(f.v) <= MaxWord
    /\ f.t = "string" => f.v = Null \/ (f.v \in Seq(1 .. Base - 1) /\ Len(f.v) < MaxWord)
    /\ f.t = "ptr" => f.v = NullPtr \/ (f.v \in Seq(WordRange) /\ Len(f.v) = 1)

ElementsOf(f) ==
    IF f.t = "word" THEN <<>>
    ELSE IF f.t # "string" THEN f.v
    ELSE IF f.v = Null THEN <<>> ELSE Append(f.v, 0)

HeadOf(f) ==
    IF f.t = "word" THEN f.v[1]
    ELSE IF f.t = "ptr" THEN (IF f.v = NullPtr THEN 1 ELSE 0)
    ELSE Len(ElementsOf(f))

PieceOf(t, x) == IF t \in {"words", "ptr"} THEN BinWord(x) ELSE <<x>>

\* The elements of a value, and the word in front of them.
LEMMA ElementsTyped ==
    ASSUME NEW f, Good(f)
    PROVE  /\ ElementsOf(f) \in Seq(Int)
           /\ HeadOf(f) \in WordRange
           /\ f.t \notin {"word", "ptr"} => HeadOf(f) = Len(ElementsOf(f)) /\ HeadOf(f) >= 0
           /\ f.t = "ptr" => Len(ElementsOf(f)) = 1 - HeadOf(f)
           /\ f.t = "word" => Len(ElementsOf(f)) = 0
           /\ \A i \in 1 .. Len(ElementsOf(f)) :
                ElementsOf(f)[i] \in (IF f.t \in {"words", "ptr"} THEN WordRange ELSE Bytes)
<1>0. f \in Values /\ f.t \in Plain /\ f.v \in Seq(Int) /\ (0 .. MaxWord) \subseteq WordRange
  <2>1. (0 .. MaxWord) \subseteq WordRange
    BY WordBounds
  <2> QED BY <2>1 DEF Good, Values
<1>1. CASE f.t = "word"
  BY <1>0, <1>1 DEF Good, ElementsOf, HeadOf
<1>2. CASE f.t = "words"
  <2>1. f.v \in Seq(WordRange) /\ Len(f.v) \in 0 .. MaxWord
    BY <1>0, <1>2, WordBounds DEF Good
  <2> QED BY <1>0, <1>2, <2>1 DEF ElementsOf, HeadOf
<1>3. CASE f.t = "chars"
  <2>1. f.v \in Seq(Bytes) /\ Len(f.v) \in 0 .. MaxWord
    BY <1>0, <1>3, WordBounds DEF Good
  <2> QED BY <1>0, <1>3, <2>1 DEF ElementsOf, HeadOf
<1>4. CASE f.t = "string" /\ f.v = Null
  BY <1>0, <1>4, WordBounds DEF ElementsOf, HeadOf
<1>5. CASE f.t = "string" /\ f.v # Null
  <2>1. f.v \in Seq(1 .. Base - 1) /\ Len(f.v) < MaxWord
    BY <1>5 DEF Good
  <2>2. ElementsOf(f) = Append(f.v, 0) /\ HeadOf(f) = Len(Append(f.v, 0))
    BY <1>5 DEF ElementsOf, HeadOf
  <2>3. (1 .. Base - 1) \subseteq Bytes /\ 0 \in Bytes
    BY WordBounds DEF Bytes
  <2>4. Append(f.v, 0) \in Seq(Bytes) /\ Len(Append(f.v, 0)) = Len(f.v) + 1
    <3>1. f.v \in Seq(Bytes)
      BY <2>1, <2>3, SeqMonotonic
    <3> QED BY <3>1, <2>3
  <2>5. Len(f.v) + 1 \in 0 .. MaxWord
    BY <2>1, WordBounds
  <2>6. Append(f.v, 0) \in Seq(Int)
    BY <1>0
  <2>7. \A i \in 1 .. Len(Append(f.v, 0)) : Append(f.v, 0)[i] \in Bytes
    <3> HIDE DEF Bytes
    <3> QED BY <2>4
  <2> QED BY <1>0, <1>5, <2>2, <2>4, <2>5, <2>6, <2>7
<1>6. CASE f.t = "ptr"
  <2>1. f.v = NullPtr \/ (f.v \in Seq(WordRange) /\ Len(f.v) = 1)
    BY <1>6 DEF Good
  <2>2. 0 \in WordRange /\ 1 \in WordRange
    BY <1>0, WordBounds
  <2>3. ElementsOf(f) = f.v /\ HeadOf(f) = IF f.v = NullPtr THEN 1 ELSE 0
    BY <1>6 DEF ElementsOf, HeadOf
  <2>4. CASE f.v = NullPtr
    BY <1>0, <1>6, <2>2, <2>3, <2>4 DEF NullPtr
  <2>5. CASE f.v # NullPtr
    BY <1>0, <1>6, <2>1, <2>2, <2>3, <2>5
  <2> QED BY <2>4, <2>5
<1> QED BY <1>0, <1>1, <1>2, <1>3, <1>4, <1>5, <1>6 DEF Plain

\* The pieces of a value: its head, and a piece for each element.
LEMMA PiecesAre ==
    ASSUME NEW f, Good(f)
    PROVE  /\ Pieces(f) \in Seq(Piece)
           /\ Len(Pieces(f)) = 1 + Len(ElementsOf(f))
           /\ Pieces(f)[1] = BinWord(HeadOf(f))
           /\ \A i \in 1 .. Len(ElementsOf(f)) : Pieces(f)[i + 1] = PieceOf(f.t, ElementsOf(f)[i])
<1> DEFINE e == ElementsOf(f)
           h == HeadOf(f)
           q == <<BinWord(h)>> \o [i \in 1 .. Len(e) |-> PieceOf(f.t, e[i])]
<1>0. f \in Values /\ f.t \in Plain /\ f.v \in Seq(Int) /\ e \in Seq(Int) /\ h \in WordRange
  BY ElementsTyped DEF Good, Values
<1>1. Pieces(f) = q
  <2>1. CASE f.t = "word"
    <3>1. e = <<>> /\ h = f.v[1] /\ Pieces(f) = <<BinWord(f.v[1])>>
      BY <2>1 DEF ElementsOf, HeadOf, Pieces
    <3>2. [i \in 1 .. Len(e) |-> PieceOf(f.t, e[i])] = <<>>
      BY <3>1
    <3> QED BY <3>1, <3>2
  <2>2. CASE f.t = "words"
    <3>1. e = f.v /\ h = Len(f.v)
      BY <2>2 DEF ElementsOf, HeadOf
    <3>2. Pieces(f) = <<BinWord(Len(f.v))>> \o [i \in DOMAIN f.v |-> BinWord(f.v[i])]
      BY <2>2 DEF Pieces
    <3>3. [i \in DOMAIN f.v |-> BinWord(f.v[i])] = [i \in 1 .. Len(e) |-> PieceOf(f.t, e[i])]
      BY <3>1, <2>2, <1>0 DEF PieceOf
    <3> QED BY <3>1, <3>2, <3>3
  <2>3. CASE f.t = "chars"
    <3>1. e = f.v /\ h = Len(f.v)
      BY <2>3 DEF ElementsOf, HeadOf
    <3>2. Pieces(f) = <<BinWord(Len(f.v))>> \o [i \in DOMAIN f.v |-> <<f.v[i]>>]
      BY <2>3 DEF Pieces
    <3>3. [i \in DOMAIN f.v |-> <<f.v[i]>>] = [i \in 1 .. Len(e) |-> PieceOf(f.t, e[i])]
      BY <3>1, <2>3, <1>0 DEF PieceOf
    <3> QED BY <3>1, <3>2, <3>3
  <2>4. CASE f.t = "string" /\ f.v = Null
    <3>1. e = <<>> /\ h = 0 /\ Pieces(f) = <<BinWord(0)>>
      BY <2>4 DEF ElementsOf, HeadOf, Pieces
    <3>2. [i \in 1 .. Len(e) |-> PieceOf(f.t, e[i])] = <<>>
      BY <3>1
    <3> QED BY <3>1, <3>2
  <2>5. CASE f.t = "string" /\ f.v # Null
    <3>1. e = Append(f.v, 0) /\ h = Len(Append(f.v, 0))
      BY <2>5 DEF ElementsOf, HeadOf
    <3>2. Pieces(f) = <<BinWord(Len(f.v) + 1)>> \o [i \in 1 .. Len(f.v) + 1 |->
                                   <<IF i <= Len(f.v) THEN f.v[i] ELSE 0>>]
      BY <2>5 DEF Pieces
    <3>3. Len(e) = Len(f.v) + 1 /\ \A i \in 1 .. Len(e) : e[i] = IF i <= Len(f.v) THEN f.v[i] ELSE 0
      BY <3>1, <1>0
    <3>4. [i \in 1 .. Len(f.v) + 1 |-> <<IF i <= Len(f.v) THEN f.v[i] ELSE 0>>]
             = [i \in 1 .. Len(e) |-> PieceOf(f.t, e[i])]
      <4> HIDE DEF e
      <4> QED BY <3>3, <2>5 DEF PieceOf
    <3> QED BY <3>1, <3>2, <3>3, <3>4
  <2>6. CASE f.t = "ptr"
    <3>1. CASE f.v = NullPtr
      <4>1. e = <<>> /\ h = 1 /\ Pieces(f) = <<BinWord(1)>>
        BY <2>6, <3>1 DEF ElementsOf, HeadOf, Pieces, NullPtr
      <4>2. [i \in 1 .. Len(e) |-> PieceOf(f.t, e[i])] = <<>>
        BY <4>1
      <4> QED BY <4>1, <4>2
    <3>2. CASE f.v # NullPtr
      <4>1. e = f.v /\ h = 0 /\ Pieces(f) = <<BinWord(0), BinWord(f.v[1])>> /\ Len(e) = 1
        BY <2>6, <3>2 DEF ElementsOf, HeadOf, Pieces, Good
      <4>2. [i \in 1 .. Len(e) |-> PieceOf(f.t, e[i])] = <<BinWord(f.v[1])>>
        BY <4>1, <2>6 DEF PieceOf
      <4> QED BY <4>1, <4>2
    <3> QED BY <3>1, <3>2
  <2> QED BY <1>0, <2>1, <2>2, <2>3, <2>4, <2>5, <2>6 DEF Plain
<1>2. ASSUME NEW i \in 1 .. Len(e) PROVE PieceOf(f.t, e[i]) \in Piece
  <2>1. CASE f.t \in {"words", "ptr"}
    <3>1. e[i] \in Int
      BY <1>0
    <3> QED BY <3>1, <2>1, WordIsPiece DEF PieceOf
  <2>2. CASE f.t \notin {"words", "ptr"}
    <3>1. e[i] \in Bytes
      BY <2>2, ElementsTyped
    <3>2. PieceOf(f.t, e[i]) = <<e[i]>>
      BY <2>2 DEF PieceOf
    <3> HIDE DEF e
    <3> QED BY <3>1, <3>2 DEF Piece
  <2> QED BY <2>1, <2>2
<1>3. BinWord(h) \in Piece
  BY <1>0, WordIsPiece, WordBounds
<1> DEFINE r == [i \in 1 .. Len(e) |-> PieceOf(f.t, e[i])]
<1>4. r \in Seq(Piece) /\ Len(r) = Len(e)
  <2>1. Len(e) \in Nat
    BY <1>0
  <2> HIDE DEF e
  <2> QED BY <1>2, <2>1
<1>5. \A i \in 1 .. Len(e) : r[i] = PieceOf(f.t, e[i])
  OBVIOUS
<1> HIDE DEF r
<1>6. q = <<BinWord(h)>> \o r
  BY DEF r
<1> HIDE DEF q, e, h
<1>7. <<BinWord(h)>> \in Seq(Piece)
  BY <1>3
<1>8. q \in Seq(Piece) /\ Len(q) = 1 + Len(e) /\ q[1] = BinWord(h) /\ \A i \in 1 .. Len(e) : q[i + 1] = r[i]
  BY <1>4, <1>6, <1>7
<1> QED BY <1>1, <1>5, <1>8 DEF e, h
-----------------------------------------------------------------------------
(* Sequences.                                                              *)

\* Concatenation is associative.
Associates(xs, ys, zs) == (xs \o ys) \o zs = xs \o (ys \o zs)

LEMMA Assoc == \A xs, ys, zs \in Seq(Bytes) : Associates(xs, ys, zs)
BY ConcatAssociative DEF Associates

LEMMA AssocPieces == \A xs, ys, zs \in Seq(Piece) : Associates(xs, ys, zs)
BY ConcatAssociative DEF Associates

\* A sequence of pieces, its first, and the rest.
LEMMA HeadAndTail ==
    ASSUME NEW S, NEW x \in S, NEW y \in Seq(S)
    PROVE  /\ <<x>> \o y \in Seq(S) /\ <<x>> \o y # <<>>
           /\ (<<x>> \o y)[1] = x /\ Tail(<<x>> \o y) = y
<1> DEFINE z == <<x>> \o y
<1>1. <<x>> \in Seq(S) /\ Len(<<x>>) = 1 /\ <<x>>[1] = x /\ Len(y) \in Nat
  OBVIOUS
<1>2. z \in Seq(S) /\ Len(z) = 1 + Len(y) /\ \A i \in 1 .. 1 + Len(y) : z[i] = IF i <= 1 THEN <<x>>[i] ELSE y[i - 1]
  <2>1. /\ <<x>> \o y \in Seq(S)
        /\ Len(<<x>> \o y) = Len(<<x>>) + Len(y)
        /\ \A i \in 1 .. Len(<<x>>) + Len(y) : (<<x>> \o y)[i] = IF i <= Len(<<x>>) THEN <<x>>[i] ELSE y[i - Len(<<x>>)]
    BY <1>1, ConcatProperties
  <2> QED BY <2>1, <1>1
<1> HIDE DEF z
<1>3. z # <<>> /\ z[1] = x
  BY <1>1, <1>2
<1>4. Tail(z) \in Seq(S) /\ Len(Tail(z)) = Len(y) /\ \A i \in 1 .. Len(y) : Tail(z)[i] = z[i + 1]
  <2>1. /\ Tail(z) \in Seq(S) /\ Len(Tail(z)) = Len(z) - 1
        /\ \A i \in 1 .. Len(Tail(z)) : Tail(z)[i] = z[i + 1]
    BY <1>2, <1>3, HeadTailProperties
  <2> QED BY <2>1, <1>1, <1>2
<1>5. \A i \in 1 .. Len(y) : z[i + 1] = y[i]
  BY <1>1, <1>2
<1>6. Tail(z) = y
  BY <1>4, <1>5, SeqEqual
<1> QED BY <1>2, <1>3, <1>6 DEF z

LEMMA FirstAndRest ==
    ASSUME NEW S, NEW t \in Seq(S), t # <<>>
    PROVE  t = <<t[1]>> \o Tail(t) /\ t[1] \in S /\ Tail(t) \in Seq(S)
<1>1. Len(t) \in Nat /\ Len(t) >= 1 /\ t[1] \in S
  OBVIOUS
<1>2. 1 \in 1 .. Len(t) /\ Len(t) \in 1 .. Len(t)
  BY <1>1
<1>3. SubSeq(t, 1, Len(t)) = <<t[1]>> \o SubSeq(t, 1 + 1, Len(t))
  BY <1>2, SubSeqRecursiveFirst
<1>4. SubSeq(t, 1, Len(t)) = t /\ Tail(t) = SubSeq(t, 2, Len(t)) /\ Tail(t) \in Seq(S)
  BY SubSeqFull, TailIsSubSeq, HeadTailProperties
<1>5. 1 + 1 = 2
  OBVIOUS
<1> QED BY <1>1, <1>3, <1>4, <1>5

\* Dropping one more is dropping the first of what is left.
LEMMA SuffixStep ==
    ASSUME NEW S, NEW p \in Seq(S), NEW t \in Seq(S), NEW c \in 0 .. Len(p) - 1
    PROVE  /\ SubSeq(p, c + 1, Len(p)) \o t \in Seq(S)
           /\ SubSeq(p, c + 1, Len(p)) \o t # <<>>
           /\ (SubSeq(p, c + 1, Len(p)) \o t)[1] = p[c + 1]
           /\ Tail(SubSeq(p, c + 1, Len(p)) \o t) = SubSeq(p, c + 2, Len(p)) \o t
<1> DEFINE x == p[c + 1]
           b == SubSeq(p, c + 2, Len(p))
<1>1. c + 1 \in 1 .. Len(p) /\ Len(p) \in c + 1 .. Len(p) /\ c + 1 + 1 = c + 2 /\ x \in S
  OBVIOUS
<1>2. SubSeq(p, c + 1, Len(p)) = <<x>> \o b
  <2>1. SubSeq(p, c + 1, Len(p)) = <<p[c + 1]>> \o SubSeq(p, c + 1 + 1, Len(p))
    BY <1>1, SubSeqRecursiveFirst
  <2> QED BY <2>1, <1>1
<1>3. b \in Seq(S)
  OBVIOUS
<1> HIDE DEF b, x
<1>4. (<<x>> \o b) \o t = <<x>> \o (b \o t) /\ b \o t \in Seq(S)
  <2>1. <<x>> \in Seq(S)
    BY <1>1
  <2> QED BY <2>1, <1>3, ConcatAssociative, ConcatProperties
<1>5. <<x>> \o (b \o t) \in Seq(S) /\ <<x>> \o (b \o t) # <<>> /\ (<<x>> \o (b \o t))[1] = x /\ Tail(<<x>> \o (b \o t)) = b \o t
  BY <1>1, <1>4, HeadAndTail
<1> QED BY <1>2, <1>4, <1>5 DEF b, x

\* The first piece of what is left goes to the end of what is on its way.
LEMMA MoveOne ==
    ASSUME NEW S, NEW q \in Seq(S), NEW t \in Seq(S), t # <<>>
    PROVE  Append(q, t[1]) \o Tail(t) = q \o t /\ Append(q, t[1]) \in Seq(S) /\ Tail(t) \in Seq(S)
<1>1. t = <<t[1]>> \o Tail(t) /\ t[1] \in S /\ Tail(t) \in Seq(S)
  BY FirstAndRest
<1>2. <<t[1]>> \in Seq(S)
  BY <1>1
<1>3. Append(q, t[1]) = q \o <<t[1]>> /\ Append(q, t[1]) \in Seq(S)
  BY <1>1, AppendIsConcat, AppendProperties
<1>4. (q \o <<t[1]>>) \o Tail(t) = q \o (<<t[1]>> \o Tail(t))
  BY <1>1, <1>2, ConcatAssociative
<1> QED BY <1>1, <1>3, <1>4

-----------------------------------------------------------------------------
(* What is still to come of a message: from its k-th value on, or from a   *)
(* piece of a value on.                                                    *)

Message(m) == m \in Seq(Values) /\ \A i \in 1 .. Len(m) : Good(m[i])

\* The pieces of a message from its k-th value on, one value after the other.
LEMMA PiecesFromAre ==
    ASSUME NEW m, Message(m)
    PROVE  /\ \A k \in 1 .. Len(m) + 1 : PiecesFrom(m, k) \in Seq(Piece)
           /\ PiecesFrom(m, Len(m) + 1) = <<>>
           /\ \A k \in 1 .. Len(m) : PiecesFrom(m, k) = Pieces(m[k]) \o PiecesFrom(m, k + 1)
<1> DEFINE n == Len(m)
           D == Seq(Piece)
           F == [i \in 1 .. n |-> [x \in D |-> Pieces(m[n + 1 - i]) \o x]]
           Is(h) == h = [i \in 1 .. n + 1 |-> IF i > n THEN <<>> ELSE Pieces(m[i]) \o h[i + 1]]
           from == CHOOSE h : Is(h)
<1>0. n \in Nat /\ \A i \in 1 .. n : Good(m[i]) /\ Pieces(m[i]) \in D
  BY PiecesAre DEF Message
<1>1. <<>> \in D
  OBVIOUS
<1>2. F \in [1 .. n -> [D -> D]]
  <2>1. ASSUME NEW i \in 1 .. n, NEW x \in D PROVE Pieces(m[n + 1 - i]) \o x \in D
    <3> DEFINE p == Pieces(m[n + 1 - i])
    <3>1. p \in D
      <4>1. n + 1 - i \in 1 .. n
        BY <1>0
      <4> QED BY <4>1, <1>0
    <3> HIDE DEF p
    <3>2. p \o x \in D
      BY <3>1, ConcatProperties
    <3> QED BY <3>2 DEF p
  <2> HIDE DEF D
  <2> QED BY <2>1
<1>3. PICK g : Follows(g, n, D, <<>>, F)
  <2> HIDE DEF F, n, D
  <2> QED BY <1>0, <1>1, <1>2, StepByStep
<1> DEFINE h == [i \in 1 .. n + 1 |-> g[n + 1 - i]]
<1>4. Is(h)
  <2>1. ASSUME NEW i \in 1 .. n PROVE h[i] = Pieces(m[i]) \o h[i + 1]
    <3>1. n + 1 - i \in 1 .. n /\ n + 1 - (i + 1) = n + 1 - i - 1 /\ i + 1 \in 1 .. n + 1 /\ i \in 1 .. n + 1
      BY <1>0
    <3>2. g[n + 1 - i] = F[n + 1 - i][g[n + 1 - i - 1]] /\ g[n + 1 - i - 1] \in D
      <4> DEFINE j == n + 1 - i
      <4>1. j - 1 \in 0 .. n /\ j \in 1 .. n
        BY <1>0, <3>1
      <4> HIDE DEF F, n, D, j
      <4>2. g[j] = F[j][g[j - 1]] /\ g[j - 1] \in D
        BY <1>3, <4>1 DEF Follows
      <4> QED BY <4>2 DEF j, n, F, D
    <3>3. n + 1 - (n + 1 - i) = i
      BY <1>0
    <3>4. F[n + 1 - i][g[n + 1 - i - 1]] = Pieces(m[n + 1 - (n + 1 - i)]) \o g[n + 1 - i - 1]
      <4> HIDE DEF D, n
      <4> QED BY <3>1, <3>2
    <3>5. h[i] = g[n + 1 - i] /\ h[i + 1] = g[n + 1 - (i + 1)]
      <4> HIDE DEF n
      <4> QED BY <3>1
    <3> HIDE DEF h, n, F
    <3> QED BY <3>1, <3>2, <3>3, <3>4, <3>5
  <2>2. h[n + 1] = <<>>
    <3>1. n + 1 \in 1 .. n + 1 /\ n + 1 - (n + 1) = 0
      BY <1>0
    <3>2. h[n + 1] = g[0]
      <4> HIDE DEF n
      <4> QED BY <3>1
    <3> QED BY <3>2, <1>3 DEF Follows
  <2>3. \A i \in 1 .. n + 1 : h[i] = IF i > n THEN <<>> ELSE Pieces(m[i]) \o h[i + 1]
    <3>1. \A i \in 1 .. n + 1 : i > n => i = n + 1
      BY <1>0
    <3>2. \A i \in 1 .. n + 1 : ~(i > n) => i \in 1 .. n
      BY <1>0
    <3> HIDE DEF h, n
    <3> QED BY <2>1, <2>2, <3>1, <3>2
  <2>4. h = [i \in 1 .. n + 1 |-> h[i]]
    OBVIOUS
  <2> HIDE DEF h, n
  <2> QED BY <2>3, <2>4
<1>5. Is(from)
  <2> HIDE DEF Is, h
  <2> QED BY <1>4
<1>6. \A k : PiecesFrom(m, k) = from[k]
  BY DEF PiecesFrom
<1> HIDE DEF from, F, h
<1>7. from[n + 1] = <<>> /\ \A i \in 1 .. n : from[i] = Pieces(m[i]) \o from[i + 1]
  <2>1. from[n + 1] = <<>>
    <3>1. n + 1 \in 1 .. n + 1 /\ n + 1 > n
      BY <1>0
    <3> HIDE DEF n
    <3> QED BY <3>1, <1>5
  <2>2. ASSUME NEW i \in 1 .. n PROVE from[i] = Pieces(m[i]) \o from[i + 1]
    <3>1. i \in 1 .. n + 1 /\ ~(i > n)
      BY <1>0
    <3> HIDE DEF n
    <3> QED BY <3>1, <1>5
  <2> QED BY <2>1, <2>2
<1> HIDE DEF Is
<1>8. \A k \in 1 .. n + 1 : from[k] \in D
  <2> DEFINE S == {i \in 0 .. n : from[n + 1 - i] \in D}
  <2>1. 0 \in S
    <3>1. n + 1 - 0 = n + 1 /\ 0 \in 0 .. n
      BY <1>0
    <3> HIDE DEF n
    <3> QED BY <3>1, <1>7, <1>1
  <2>2. ASSUME NEW i \in 0 .. n - 1, i \in S PROVE i + 1 \in S
    <3>1. n + 1 - (i + 1) \in 1 .. n /\ n + 1 - (i + 1) + 1 = n + 1 - i /\ i + 1 \in 0 .. n
      BY <1>0
    <3> DEFINE j == n + 1 - (i + 1)
               p == Pieces(m[j])
               t == from[n + 1 - i]
    <3>2. from[j] = p \o t
      <4>1. j + 1 = n + 1 - i
        BY <3>1
      <4> HIDE DEF n
      <4> QED BY <3>1, <4>1, <1>7
    <3>3. p \in D /\ t \in D
      <4>1. t \in D
        BY <2>2
      <4>2. p \in D
        <5> HIDE DEF D, n
        <5> QED BY <3>1, <1>0
      <4> QED BY <4>1, <4>2
    <3>4. p \o t \in D
      <4> HIDE DEF p, t
      <4> QED BY <3>3
    <3> HIDE DEF n, p, t, D
    <3> QED BY <3>1, <3>2, <3>4
  <2> HIDE DEF S, D
  <2>3. 0 .. n \subseteq S
    <3> HIDE DEF n
    <3> QED BY <2>1, <2>2, <1>0, UpTo
  <2>4. ASSUME NEW k \in 1 .. n + 1 PROVE from[k] \in D
    <3>1. n + 1 - k \in 0 .. n /\ n + 1 - (n + 1 - k) = k
      BY <1>0
    <3> HIDE DEF n
    <3>2. n + 1 - k \in S
      BY <3>1, <2>3
    <3>3. from[n + 1 - (n + 1 - k)] \in D
      BY <3>2 DEF S
    <3> QED BY <3>1, <3>3
  <2> QED BY <2>4
<1> QED BY <1>6, <1>7, <1>8

Rest(m, k, c) ==
    IF c = 0 THEN PiecesFrom(m, k + 1)
    ELSE SubSeq(Pieces(m[k + 1]), c + 1, Len(Pieces(m[k + 1]))) \o PiecesFrom(m, k + 2)

\* The next piece of the rest, and what is left after it.
LEMMA RestStep ==
    ASSUME NEW m, Message(m), NEW k \in 0 .. Len(m) - 1, NEW c \in 0 .. Len(Pieces(m[k + 1])) - 1
    PROVE  /\ Rest(m, k, c) \in Seq(Piece) /\ Rest(m, k, c) # <<>>
           /\ Rest(m, k, c)[1] = Pieces(m[k + 1])[c + 1]
           /\ Tail(Rest(m, k, c)) = Rest(m, k, c + 1)
<1> DEFINE p == Pieces(m[k + 1])
           t == PiecesFrom(m, k + 2)
<1>0. k + 1 \in 1 .. Len(m) /\ k + 2 \in 1 .. Len(m) + 1 /\ k + 2 = (k + 1) + 1
  BY DEF Message
<1>1. p \in Seq(Piece)
  BY <1>0, PiecesAre DEF Message
<1>2. t \in Seq(Piece)
  BY <1>0, PiecesFromAre
<1>3. Rest(m, k, c) = SubSeq(p, c + 1, Len(p)) \o t
  <2>1. CASE c # 0
    BY <2>1 DEF Rest
  <2>2. CASE c = 0
    <3>1. Rest(m, k, c) = p \o t
      BY <2>2, <1>0, PiecesFromAre DEF Rest
    <3> HIDE DEF p, t
    <3>2. SubSeq(p, c + 1, Len(p)) = p
      BY <2>2, <1>1, SubSeqFull
    <3> QED BY <3>1, <3>2
  <2> QED BY <2>1, <2>2
<1>4. Rest(m, k, c + 1) = SubSeq(p, c + 2, Len(p)) \o t
  <2>1. c + 1 # 0 /\ c + 1 + 1 = c + 2
    OBVIOUS
  <2> QED BY <2>1 DEF Rest
<1>5. c \in 0 .. Len(p) - 1
  OBVIOUS
<1> HIDE DEF p, t
<1>6. /\ SubSeq(p, c + 1, Len(p)) \o t \in Seq(Piece)
      /\ SubSeq(p, c + 1, Len(p)) \o t # <<>>
      /\ (SubSeq(p, c + 1, Len(p)) \o t)[1] = p[c + 1]
      /\ Tail(SubSeq(p, c + 1, Len(p)) \o t) = SubSeq(p, c + 2, Len(p)) \o t
  BY <1>1, <1>2, <1>5, SuffixStep
<1> QED BY <1>3, <1>4, <1>6 DEF p

LEMMA RestOfNext ==
    ASSUME NEW m, Message(m), NEW k \in 0 .. Len(m) - 1
    PROVE  Rest(m, k, Len(Pieces(m[k + 1]))) = Rest(m, k + 1, 0)
<1> DEFINE p == Pieces(m[k + 1])
           t == PiecesFrom(m, k + 2)
<1>0. k + 1 \in 1 .. Len(m) /\ k + 2 \in 1 .. Len(m) + 1 /\ k + 2 = (k + 1) + 1
  BY DEF Message
<1>1. p \in Seq(Piece) /\ Len(p) # 0
  <2>1. Good(m[k + 1])
    BY <1>0 DEF Message
  <2>2. Len(ElementsOf(m[k + 1])) \in Nat
    BY <2>1, ElementsTyped
  <2> QED BY <2>1, <2>2, PiecesAre
<1>2. t \in Seq(Piece)
  BY <1>0, PiecesFromAre
<1>3. Rest(m, k, Len(p)) = SubSeq(p, Len(p) + 1, Len(p)) \o t
  BY <1>1 DEF Rest
<1>4. Rest(m, k + 1, 0) = t
  BY <1>0 DEF Rest
<1> HIDE DEF p, t
<1>5. SubSeq(p, Len(p) + 1, Len(p)) = <<>>
  BY <1>1
<1>6. <<>> \o t = t
  BY <1>2
<1> QED BY <1>3, <1>4, <1>5, <1>6 DEF p

LEMMA RestOfNone ==
    ASSUME NEW m, Message(m)
    PROVE  Rest(m, Len(m), 0) = <<>>
BY PiecesFromAre DEF Rest

-----------------------------------------------------------------------------
(* Bytes on their way: how the pieces were cut into them.                  *)

IsCut(off, f, q) ==
    /\ off \in [0 .. Len(q) -> Nat] /\ off[0] = 0 /\ off[Len(q)] = Len(f)
    /\ \A i \in 1 .. Len(q) :
         /\ off[i] = off[i - 1] + Len(q[i]) /\ off[i] <= Len(f)
         /\ \A j \in 1 .. Len(q[i]) : f[off[i - 1] + j] = q[i][j]

Cuts(f, q) == \E off \in [0 .. Len(q) -> Nat] : IsCut(off, f, q)

\* No bytes are a cut of no pieces only.
LEMMA CutOfNothing ==
    /\ Cuts(<<>>, <<>>)
    /\ \A f \in Seq(Bytes) : Cuts(f, <<>>) => f = <<>>
    /\ \A q \in Seq(Piece) : Cuts(<<>>, q) => q = <<>>
<1>1. Cuts(<<>>, <<>>)
  <2>1. IsCut([i \in 0 .. 0 |-> 0], <<>>, <<>>) /\ [i \in 0 .. 0 |-> 0] \in [0 .. Len(<<>>) -> Nat]
    BY DEF IsCut
  <2> QED BY <2>1 DEF Cuts
<1>2. ASSUME NEW f \in Seq(Bytes), Cuts(f, <<>>) PROVE f = <<>>
  <2>1. Len(f) = 0
    BY <1>2 DEF Cuts, IsCut
  <2> QED BY <2>1
<1>3. ASSUME NEW q \in Seq(Piece), Cuts(<<>>, q), q # <<>> PROVE FALSE
  <2>1. PICK off : IsCut(off, <<>>, q)
    BY <1>3 DEF Cuts
  <2>2. 1 \in 1 .. Len(q) /\ q[1] \in Piece
    BY <1>3
  <2>4. Len(q[1]) \in 1 .. 2
    BY <2>2 DEF Piece
  <2>3. off[1] = off[1 - 1] + Len(q[1]) /\ off[1] <= Len(<<>>) /\ off[0] = 0
    BY <2>1, <2>2 DEF IsCut
  <2>5. Len(q[1]) \in Nat /\ Len(q[1]) >= 1
    <3>1. \A l \in 1 .. 2 : l \in Nat /\ l >= 1
      OBVIOUS
    <3> QED BY <2>4, <3>1, Zenon
  <2>6. off[1] = Len(q[1]) /\ off[1] <= 0
    <3>1. Len(<<>>) = 0
      OBVIOUS
    <3> QED BY <2>3, <2>5, <3>1
  <2> QED BY <2>5, <2>6
<1> QED BY <1>1, <1>2, <1>3

\* A piece that is written is the last of the cut.
LEMMA CutAppend ==
    ASSUME NEW f \in Seq(Bytes), NEW q \in Seq(Piece), NEW x \in Piece, Cuts(f, q)
    PROVE  Cuts(f \o x, Append(q, x))
<1>1. PICK off \in [0 .. Len(q) -> Nat] : IsCut(off, f, q)
  BY DEF Cuts
<1> DEFINE n == Len(q)
           r == Append(q, x)
           g == f \o x
           o == [i \in 0 .. n + 1 |-> IF i = n + 1 THEN Len(f) + Len(x) ELSE off[i]]
<1>2. n \in Nat /\ r \in Seq(Piece) /\ Len(r) = n + 1 /\ r[n + 1] = x /\ \A i \in 1 .. n : r[i] = q[i] /\ q[i] \in Piece
  OBVIOUS
<1>3. x \in Seq(Bytes) /\ Len(x) \in 1 .. 2 /\ Len(f) \in Nat
  BY DEF Piece
<1>4. /\ g \in Seq(Bytes) /\ Len(g) = Len(f) + Len(x)
      /\ \A j \in 1 .. Len(f) : g[j] = f[j]
      /\ \A j \in 1 .. Len(x) : g[Len(f) + j] = x[j]
  BY <1>3
<1>5. off[0] = 0 /\ off[n] = Len(f) /\ \A i \in 0 .. n : off[i] \in Nat
  BY <1>1 DEF IsCut
<1>6. \A i \in 1 .. n : off[i] = off[i - 1] + Len(q[i]) /\ off[i] <= Len(f) /\ \A j \in 1 .. Len(q[i]) : f[off[i - 1] + j] = q[i][j]
  BY <1>1 DEF IsCut
<1> HIDE DEF n, r, g
<1>7. o \in [0 .. n + 1 -> Nat] /\ o[n + 1] = Len(f) + Len(x) /\ \A i \in 0 .. n : o[i] = off[i]
  BY <1>2, <1>3, <1>5
<1> HIDE DEF o
<1>8. ASSUME NEW i \in 1 .. n + 1
      PROVE /\ o[i] = o[i - 1] + Len(r[i]) /\ o[i] <= Len(g)
            /\ \A j \in 1 .. Len(r[i]) : g[o[i - 1] + j] = r[i][j]
  <2>1. CASE i = n + 1
    <3>1. o[i] = Len(f) + Len(x) /\ o[i - 1] = Len(f) /\ r[i] = x
      <4>1. i - 1 = n /\ n \in 0 .. n
        BY <2>1, <1>2
      <4> QED BY <2>1, <4>1, <1>2, <1>5, <1>7
    <3> QED BY <3>1, <1>3, <1>4
  <2>2. CASE i # n + 1
    <3>1. i \in 1 .. n /\ i - 1 \in 0 .. n /\ i \in 0 .. n
      BY <2>2, <1>2
    <3>2. o[i] = off[i] /\ o[i - 1] = off[i - 1] /\ r[i] = q[i] /\ q[i] \in Piece
      BY <3>1, <1>2, <1>7
    <3>3. o[i] = o[i - 1] + Len(r[i]) /\ o[i] <= Len(f) /\ o[i] \in Nat /\ o[i - 1] \in Nat
      BY <3>1, <3>2, <1>5, <1>6
    <3>4. ASSUME NEW j \in 1 .. Len(r[i]) PROVE g[o[i - 1] + j] = r[i][j]
      <4>1. f[o[i - 1] + j] = r[i][j]
        BY <3>1, <3>2, <1>6
      <4>2. Len(r[i]) \in Nat
        BY <3>2 DEF Piece
      <4> DEFINE a == o[i - 1]
                 b == o[i]
                 l == Len(r[i])
      <4>5. a \in Nat /\ l \in Nat /\ b = a + l /\ b <= Len(f) /\ j \in 1 .. l
        BY <3>3, <4>2
      <4>6. Len(f) \in Nat
        BY <1>3
      <4> HIDE DEF a, b, l
      <4>7. a + j \in 1 .. Len(f)
        BY <4>5, <4>6
      <4>3. o[i - 1] + j \in 1 .. Len(f)
        BY <4>7 DEF a
      <4> QED BY <4>1, <4>3, <1>4
    <3> QED BY <3>3, <3>4, <1>3, <1>4
  <2> QED BY <2>1, <2>2
<1>9. IsCut(o, g, r) /\ o \in [0 .. Len(r) -> Nat]
  <2>1. o[0] = 0 /\ o[Len(r)] = Len(g)
    BY <1>2, <1>4, <1>5, <1>7
  <2> QED BY <2>1, <1>2, <1>7, <1>8 DEF IsCut
<1> QED BY <1>9 DEF Cuts, g, r

\* The bytes of the first piece come first, and the rest is cut as before.
LEMMA CutHead ==
    ASSUME NEW f \in Seq(Bytes), NEW q \in Seq(Piece), q # <<>>, Cuts(f, q)
    PROVE  /\ q[1] \in Piece /\ Len(q[1]) <= Len(f)
           /\ SubSeq(f, 1, Len(q[1])) = q[1]
           /\ Tail(q) \in Seq(Piece)
           /\ Cuts(SubSeq(f, Len(q[1]) + 1, Len(f)), Tail(q))
<1>1. PICK off \in [0 .. Len(q) -> Nat] : IsCut(off, f, q)
  BY DEF Cuts
<1> DEFINE n == Len(q)
           x == q[1]
           r == Tail(q)
           g == SubSeq(f, Len(x) + 1, Len(f))
           o == [i \in 0 .. n - 1 |-> off[i + 1] - off[1]]
<1>2. n \in Nat /\ n >= 1 /\ r \in Seq(Piece) /\ Len(r) = n - 1 /\ x \in Piece
      /\ \A i \in 1 .. n - 1 : r[i] = q[i + 1] /\ q[i + 1] \in Piece
  OBVIOUS
<1>3. x \in Seq(Bytes) /\ Len(x) \in 1 .. 2 /\ Len(f) \in Nat
  BY <1>2 DEF Piece
<1>5. off[0] = 0 /\ off[n] = Len(f) /\ \A i \in 0 .. n : off[i] \in Nat
  BY <1>1 DEF IsCut
<1>6. \A i \in 1 .. n : off[i] = off[i - 1] + Len(q[i]) /\ off[i] <= Len(f) /\ \A j \in 1 .. Len(q[i]) : f[off[i - 1] + j] = q[i][j]
  BY <1>1 DEF IsCut
<1>7. off[1] = Len(x) /\ Len(x) <= Len(f) /\ \A j \in 1 .. Len(x) : f[j] = x[j]
  <2>1. 1 \in 1 .. n /\ 1 - 1 = 0
    BY <1>2
  <2>2. off[1] = off[0] + Len(x) /\ off[1] <= Len(f) /\ \A j \in 1 .. Len(x) : f[off[0] + j] = x[j]
    BY <2>1, <1>6
  <2> QED BY <2>2, <1>5, <1>3
<1>4. /\ g \in Seq(Bytes) /\ Len(g) = Len(f) - Len(x)
      /\ \A j \in 1 .. Len(f) - Len(x) : g[j] = f[Len(x) + j]
  <2> HIDE DEF x
  <2> QED BY <1>3, <1>7
<1>8. SubSeq(f, 1, Len(x)) = x
  <2> HIDE DEF x
  <2>1. SubSeq(f, 1, Len(x)) \in Seq(Bytes) /\ Len(SubSeq(f, 1, Len(x))) = Len(x)
    BY <1>3, <1>7
  <2>2. \A j \in 1 .. Len(x) : SubSeq(f, 1, Len(x))[j] = x[j]
    BY <1>3, <1>7
  <2> QED BY <2>1, <2>2, <1>3, SeqEqual
<1> HIDE DEF n, r, g, x
<1>9. \A i \in 1 .. n : off[i] \in Nat /\ off[i] >= Len(x)
  <2> DEFINE S == {i \in 0 .. n - 1 : off[i + 1] >= Len(x)}
  <2>1. 0 \in S
    BY <1>2, <1>3, <1>7
  <2>2. ASSUME NEW i \in 0 .. (n - 1) - 1, i \in S PROVE i + 1 \in S
    <3>1. i + 2 \in 1 .. n /\ i + 2 - 1 = i + 1 /\ i + 1 \in 0 .. n - 1 /\ (i + 1) + 1 = i + 2 /\ i + 1 \in 0 .. n /\ i + 1 \in 1 .. n - 1
      BY <1>2
    <3>2. off[i + 2] = off[i + 1] + Len(q[i + 2]) /\ off[i + 1] >= Len(x)
      BY <2>2, <3>1, <1>6
    <3>3. Len(q[i + 2]) \in 1 .. 2 /\ off[i + 1] \in Nat
      <4>1. q[i + 2] \in Piece
        BY <3>1, <1>2
      <4> QED BY <4>1, <3>1, <1>5 DEF Piece
    <3>4. off[(i + 1) + 1] >= Len(x)
      BY <3>1, <3>2, <3>3, <1>3
    <3> QED BY <3>1, <3>4
  <2> HIDE DEF S
  <2>3. 0 .. n - 1 \subseteq S
    <3>1. n - 1 \in Nat
      BY <1>2
    <3> QED BY <2>1, <2>2, <3>1, UpTo
  <2>4. ASSUME NEW i \in 1 .. n PROVE off[i] \in Nat /\ off[i] >= Len(x)
    <3>1. i - 1 \in 0 .. n - 1 /\ (i - 1) + 1 = i /\ i \in 0 .. n
      BY <1>2
    <3>2. off[(i - 1) + 1] >= Len(x)
      BY <3>1, <2>3 DEF S
    <3> QED BY <3>1, <3>2, <1>5
  <2> QED BY <2>4
<1>10. /\ o \in [0 .. n - 1 -> Nat]
       /\ \A i \in 0 .. n - 1 : o[i] = off[i + 1] - Len(x)
  <2>1. \A i \in 0 .. n - 1 : i + 1 \in 1 .. n
    BY <1>2
  <2>2. \A i \in 0 .. n - 1 : off[i + 1] - off[1] \in Nat
    BY <2>1, <1>9, <1>7, <1>3
  <2> QED BY <2>2, <1>7
<1> HIDE DEF o
<1>11. ASSUME NEW i \in 1 .. n - 1
       PROVE /\ o[i] = o[i - 1] + Len(r[i]) /\ o[i] <= Len(g)
             /\ \A j \in 1 .. Len(r[i]) : g[o[i - 1] + j] = r[i][j]
  <2>1. i + 1 \in 1 .. n /\ i \in 1 .. n /\ i + 1 - 1 = i /\ i - 1 \in 0 .. n - 1 /\ i \in 0 .. n - 1 /\ (i - 1) + 1 = i
    BY <1>2
  <2>2. r[i] = q[i + 1] /\ Len(r[i]) \in 1 .. 2
    BY <1>2 DEF Piece
  <2>3. off[i + 1] = off[i] + Len(q[i + 1]) /\ off[i + 1] <= Len(f)
        /\ \A j \in 1 .. Len(q[i + 1]) : f[off[i] + j] = q[i + 1][j]
    BY <2>1, <1>6
  <2>4. o[i] = off[i + 1] - Len(x) /\ o[i - 1] = off[i] - Len(x)
    BY <2>1, <1>10
  <2>5. off[i] \in Nat /\ off[i + 1] \in Nat /\ off[i] >= Len(x)
    BY <2>1, <1>9
  <2>6. ASSUME NEW j \in 1 .. Len(r[i]) PROVE g[o[i - 1] + j] = r[i][j]
    <3>1. o[i - 1] + j \in 1 .. Len(f) - Len(x) /\ Len(x) + (o[i - 1] + j) = off[i] + j
      <4> DEFINE a == off[i]
                 b == off[i + 1]
                 l == Len(r[i])
                 d == Len(x)
      <4>1. d \in Nat /\ Len(f) \in Nat
        BY <1>3
      <4>2. l \in Nat /\ b = a + l /\ b <= Len(f) /\ j \in 1 .. l
        BY <2>2, <2>3
      <4>3. a \in Nat /\ a >= d /\ o[i - 1] = a - d
        BY <2>4, <2>5
      <4> HIDE DEF a, b, d, l
      <4>4. a - d + j \in 1 .. Len(f) - d /\ d + (a - d + j) = a + j
        BY <4>1, <4>2, <4>3
      <4>5. o[i - 1] + j \in 1 .. Len(f) - d /\ d + (o[i - 1] + j) = a + j
        BY <4>3, <4>4
      <4> QED BY <4>5 DEF a, d
    <3>2. g[o[i - 1] + j] = f[off[i] + j]
      BY <3>1, <1>4
    <3> QED BY <3>2, <2>2, <2>3
  <2>7. o[i] = o[i - 1] + Len(r[i]) /\ o[i] <= Len(g)
    <3> DEFINE a == off[i]
               b == off[i + 1]
               l == Len(r[i])
               d == Len(x)
    <3>1. d \in Nat /\ Len(f) \in Nat /\ Len(g) = Len(f) - d
      BY <1>3, <1>4
    <3>2. l \in Nat /\ b = a + l /\ b <= Len(f)
      BY <2>2, <2>3
    <3>3. a \in Nat /\ b \in Nat
      BY <2>5
    <3>4. o[i - 1] = a - d /\ o[i] = b - d
      BY <2>4
    <3> HIDE DEF a, b, d, l
    <3>5. o[i] = o[i - 1] + l /\ o[i] <= Len(g)
      BY <3>1, <3>2, <3>3, <3>4
    <3> QED BY <3>5 DEF l
  <2> QED BY <2>6, <2>7
<1>12. IsCut(o, g, r) /\ o \in [0 .. Len(r) -> Nat]
  <2>1. o[0] = 0
    <3>1. 0 \in 0 .. n - 1 /\ 0 + 1 = 1
      BY <1>2
    <3> QED BY <3>1, <1>3, <1>7, <1>10
  <2>2. o[n - 1] = Len(g)
    <3>1. n - 1 \in 0 .. n - 1 /\ (n - 1) + 1 = n
      BY <1>2
    <3> QED BY <3>1, <1>3, <1>4, <1>5, <1>10
  <2> QED BY <2>1, <2>2, <1>2, <1>10, <1>11 DEF IsCut
<1>13. Cuts(g, r)
  BY <1>12 DEF Cuts
<1> QED BY <1>2, <1>7, <1>8, <1>13 DEF g, r, x

-----------------------------------------------------------------------------
(* Memory.                                                                 *)

LEMMA MinIs ==
    ASSUME NEW S \in SUBSET Nat, S # {}
    PROVE  Min(S) \in S /\ \A x \in S : Min(S) <= x
<1>1. \E x \in S : \A y \in S : x <= y
  BY SomeSmallest
<1> QED BY <1>1 DEF Min

Scaled(t, x) == IF t \in {"words", "ptr"} THEN 2 * x ELSE x

\* A C string ends at its first zero.
LEMMA StrLenIs ==
    ASSUME NEW v \in Seq(Int)
    PROVE  /\ StrLen(v) \in 0 .. Len(v)
           /\ (\A i \in 1 .. Len(v) : v[i] # 0) => StrLen(v) = Len(v)
<1> DEFINE S == {Len(v)} \cup {i - 1 : i \in {j \in DOMAIN v : v[j] = 0}}
<1>1. S \in SUBSET Nat /\ S # {} /\ Len(v) \in S /\ DOMAIN v = 1 .. Len(v)
  OBVIOUS
<1>2. StrLen(v) = Min(S)
  BY DEF StrLen
<1>3. (\A i \in 1 .. Len(v) : v[i] # 0) => S = {Len(v)}
  BY <1>1
<1> HIDE DEF S
<1>4. Min(S) \in S /\ \A x \in S : Min(S) <= x
  BY <1>1, MinIs
<1>5. Min(S) \in Nat /\ Min(S) <= Len(v)
  BY <1>1, <1>4
<1>6. S = {Len(v)} => Min(S) = Len(v)
  BY <1>4
<1>7. Len(v) \in Nat
  OBVIOUS
<1> QED BY <1>2, <1>3, <1>5, <1>6, <1>7

\* What the caller gives back of a value is what its elements took.
LEMMA FreedByIs ==
    ASSUME NEW f \in Values
    PROVE  FreedBy(f) \in Nat /\ (Good(f) => FreedBy(f) = Scaled(f.t, Len(ElementsOf(f))))
<1>0. f.v \in Seq(Int) /\ f.t \in Plain /\ Len(f.v) \in Nat
  BY DEF Values
<1>1. CASE f.t = "word"
  <2>1. FreedBy(f) = 0
    BY <1>1 DEF FreedBy
  <2>2. ElementsOf(f) = <<>>
    BY <1>1 DEF ElementsOf
  <2> QED BY <1>1, <2>1, <2>2 DEF Scaled
<1>2. CASE f.t \in {"words", "chars"}
  <2>1. FreedBy(f) = Scaled(f.t, Len(f.v)) /\ ElementsOf(f) = f.v
    BY <1>2 DEF FreedBy, ElementsOf, Scaled
  <2>2. Scaled(f.t, Len(f.v)) \in Nat
    BY <1>0 DEF Scaled
  <2> QED BY <2>1, <2>2
<1>3. CASE f.t = "string" /\ f.v = Null
  <2>1. FreedBy(f) = 0
    BY <1>3 DEF FreedBy
  <2>2. ElementsOf(f) = <<>>
    BY <1>3 DEF ElementsOf
  <2> QED BY <1>3, <2>1, <2>2 DEF Scaled
<1>4. CASE f.t = "string" /\ f.v # Null
  <2>1. FreedBy(f) = StrLen(f.v) + 1 /\ StrLen(f.v) \in Nat
    <3>1. FreedBy(f) = StrLen(f.v) + 1
      BY <1>4 DEF FreedBy
    <3>2. StrLen(f.v) \in Nat
      BY <1>0, StrLenIs
    <3> QED BY <3>1, <3>2
  <2>2. ASSUME Good(f) PROVE FreedBy(f) = Scaled(f.t, Len(ElementsOf(f)))
    <3>1. \A i \in 1 .. Len(f.v) : f.v[i] # 0
      <4>1. f.v \in Seq(1 .. Base - 1)
        BY <2>2, <1>4 DEF Good
      <4> QED BY <4>1, WordBounds
    <3>2. StrLen(f.v) = Len(f.v)
      BY <3>1, <1>0, StrLenIs
    <3>3. ElementsOf(f) = Append(f.v, 0) /\ Len(Append(f.v, 0)) = Len(f.v) + 1
      BY <1>4, <1>0 DEF ElementsOf
    <3> QED BY <2>1, <3>2, <3>3, <1>4 DEF Scaled
  <2> QED BY <2>1, <2>2
<1>5. CASE f.t = "ptr"
  <2>1. FreedBy(f) = (IF f.v = NullPtr THEN 0 ELSE 2) /\ ElementsOf(f) = f.v
    BY <1>5 DEF FreedBy, ElementsOf
  <2>2. Good(f) => f.v = <<>> \/ Len(f.v) = 1
    BY <1>5 DEF Good, NullPtr
  <2>3. CASE f.v = <<>>
    BY <1>5, <2>1, <2>3 DEF Scaled, NullPtr
  <2>4. CASE f.v # <<>>
    <3>1. FreedBy(f) = 2 /\ ElementsOf(f) = f.v
      BY <2>1, <2>4 DEF NullPtr
    <3>2. Scaled(f.t, Len(f.v)) = 2 * Len(f.v)
      BY <1>5 DEF Scaled
    <3>3. ASSUME Good(f) PROVE FreedBy(f) = Scaled(f.t, Len(ElementsOf(f)))
      <4>1. Len(f.v) = 1
        BY <3>3, <2>2, <2>4
      <4> QED BY <3>1, <3>2, <4>1
    <3> QED BY <3>1, <3>3
  <2> QED BY <2>3, <2>4
<1> QED BY <1>0, <1>1, <1>2, <1>3, <1>4, <1>5 DEF Plain

\* The turns of Freed.
Counting(m, g) ==
    g \in [0 .. Len(m) -> Nat] /\ g[0] = 0 /\ \A i \in 1 .. Len(m) : g[i] = g[i - 1] + FreedBy(m[i])

\* What is freed of the values of a message, counted one by one.
LEMMA FreedCounts ==
    ASSUME NEW m \in Seq(Values)
    PROVE  \E g \in [0 .. Len(m) -> Nat] : Counting(m, g) /\ Freed(m) = g[Len(m)]
<1> DEFINE n == Len(m)
           F == [i \in 1 .. n |-> [x \in Nat |-> x + FreedBy(m[i])]]
           Is(h) == h = [i \in 0 .. n |-> IF i = 0 THEN 0 ELSE h[i - 1] + FreedBy(m[i])]
           upTo == CHOOSE h : Is(h)
<1>0. n \in Nat /\ \A i \in 1 .. n : FreedBy(m[i]) \in Nat
  BY FreedByIs
<1>2. F \in [1 .. n -> [Nat -> Nat]]
  <2>1. \A i \in 1 .. n, x \in Nat : x + FreedBy(m[i]) \in Nat
    BY <1>0
  <2> QED BY <2>1
<1>3. PICK g : Follows(g, n, Nat, 0, F)
  <2> HIDE DEF F, n
  <2> QED BY <1>0, <1>2, StepByStep
<1>4. \A i \in 1 .. n : g[i] = g[i - 1] + FreedBy(m[i])
  <2>1. ASSUME NEW i \in 1 .. n PROVE g[i] = g[i - 1] + FreedBy(m[i])
    <3>1. i - 1 \in 0 .. n
      BY <1>0
    <3>2. g[i - 1] \in Nat
      <4> HIDE DEF n, F
      <4> QED BY <1>3, <3>1 DEF Follows
    <3>3. g[i] = F[i][g[i - 1]]
      <4> HIDE DEF n, F
      <4> QED BY <1>3 DEF Follows
    <3> QED BY <3>2, <3>3
  <2> QED BY <2>1
<1>5. Is(g)
  <2>1. g = [i \in 0 .. n |-> g[i]] /\ g[0] = 0
    <3> HIDE DEF n, F
    <3> QED BY <1>3 DEF Follows
  <2>2. \A i \in 0 .. n : g[i] = IF i = 0 THEN 0 ELSE g[i - 1] + FreedBy(m[i])
    <3>1. \A i \in 0 .. n : i # 0 => i \in 1 .. n
      BY <1>0
    <3> HIDE DEF n
    <3> QED BY <2>1, <3>1, <1>4
  <2> HIDE DEF n
  <2> QED BY <2>1, <2>2
<1>6. Is(upTo)
  <2> HIDE DEF Is
  <2> QED BY <1>5
<1>7. Freed(m) = upTo[n]
  BY DEF Freed
<1> HIDE DEF upTo, n, F
<1>8. upTo[0] = 0 /\ \A i \in 1 .. n : upTo[i] = upTo[i - 1] + FreedBy(m[i])
  <2>1. 0 \in 0 .. n /\ \A i \in 1 .. n : i \in 0 .. n /\ i # 0
    BY <1>0
  <2> QED BY <2>1, <1>6
<1>9. upTo = g
  <2> DEFINE S == {i \in 0 .. n : upTo[i] = g[i]}
  <2>1. 0 \in S
    BY <1>0, <1>3, <1>8 DEF Follows
  <2>2. ASSUME NEW i \in 0 .. n - 1, i \in S PROVE i + 1 \in S
    <3>1. i + 1 \in 1 .. n /\ (i + 1) - 1 = i /\ i + 1 \in 0 .. n
      BY <1>0
    <3>2. upTo[i] = g[i]
      BY <2>2
    <3>3. upTo[i + 1] = upTo[i] + FreedBy(m[i + 1]) /\ g[i + 1] = g[i] + FreedBy(m[i + 1])
      BY <3>1, <1>4, <1>8
    <3> QED BY <3>1, <3>2, <3>3
  <2> HIDE DEF S
  <2>3. 0 .. n \subseteq S
    BY <1>0, <2>1, <2>2, UpTo
  <2>4. \A i \in 0 .. n : upTo[i] = g[i]
    BY <2>3 DEF S
  <2>5. upTo = [i \in 0 .. n |-> upTo[i]] /\ g = [i \in 0 .. n |-> g[i]]
    BY <1>3, <1>6 DEF Follows
  <2> QED BY <2>4, <2>5
<1>10. g \in [0 .. n -> Nat] /\ g[0] = 0
  BY <1>3 DEF Follows
<1>11. Counting(m, g)
  BY <1>4, <1>10 DEF n, Counting
<1> QED BY <1>7, <1>9, <1>10, <1>11 DEF n

\* Two messages that begin alike are counted alike so far.
Alike(n, m, r) == n \in Nat /\ n <= Len(m) /\ n <= Len(r) /\ \A i \in 1 .. n : m[i] = r[i]

LEMMA CountedOnce ==
    ASSUME NEW m \in Seq(Values), NEW r \in Seq(Values), NEW n, Alike(n, m, r),
           NEW g, Counting(m, g), NEW h, Counting(r, h)
    PROVE  g[n] = h[n]
<1> USE DEF Alike
<1> DEFINE S == {i \in 0 .. n : g[i] = h[i]}
<1>1. 0 \in S
  BY DEF Counting
<1>2. ASSUME NEW i \in 0 .. n - 1, i \in S PROVE i + 1 \in S
  <2>1. i + 1 \in 1 .. n /\ (i + 1) - 1 = i /\ i + 1 \in 0 .. n /\ i + 1 \in 1 .. Len(m) /\ i + 1 \in 1 .. Len(r)
    OBVIOUS
  <2>2. g[i] = h[i] /\ m[i + 1] = r[i + 1]
    BY <1>2, <2>1
  <2>3. g[i + 1] = g[i] + FreedBy(m[i + 1]) /\ h[i + 1] = h[i] + FreedBy(r[i + 1])
    BY <2>1 DEF Counting
  <2> QED BY <2>1, <2>2, <2>3
<1> HIDE DEF S
<1>3. 0 .. n \subseteq S
  BY <1>1, <1>2, UpTo
<1> QED BY <1>3 DEF S

\* What is freed of one value more.
LEMMA FreedIs ==
    ASSUME NEW m \in Seq(Values)
    PROVE  /\ Freed(m) \in Nat /\ Freed(<<>>) = 0
           /\ \A f \in Values : Freed(Append(m, f)) = Freed(m) + FreedBy(f)
<1>1. PICK g \in [0 .. Len(m) -> Nat] : Counting(m, g) /\ Freed(m) = g[Len(m)]
  BY FreedCounts
<1>2. Freed(m) \in Nat
  <2>1. Len(m) \in 0 .. Len(m)
    OBVIOUS
  <2> QED BY <1>1, <2>1
<1>3. Freed(<<>>) = 0
  <2>1. <<>> \in Seq(Values) /\ Len(<<>>) = 0
    OBVIOUS
  <2>2. PICK h \in [0 .. Len(<<>>) -> Nat] : Counting(<<>>, h) /\ Freed(<<>>) = h[Len(<<>>)]
    BY <2>1, FreedCounts
  <2> QED BY <2>1, <2>2 DEF Counting
<1>4. ASSUME NEW f \in Values PROVE Freed(Append(m, f)) = Freed(m) + FreedBy(f)
  <2> DEFINE r == Append(m, f)
             n == Len(m)
  <2>1. r \in Seq(Values) /\ Len(r) = n + 1 /\ n \in Nat /\ r[n + 1] = f /\ \A i \in 1 .. n : m[i] = r[i]
    OBVIOUS
  <2> HIDE DEF r
  <2>2. PICK h \in [0 .. Len(r) -> Nat] : Counting(r, h) /\ Freed(r) = h[Len(r)]
    BY <2>1, FreedCounts
  <2>3. g[n] = h[n]
    <3>1. n <= Len(m) /\ n <= Len(r)
      BY <2>1
    <3>2. Counting(m, g) /\ Counting(r, h)
      BY <1>1, <2>2
    <3>3. r \in Seq(Values) /\ Alike(n, m, r)
      BY <2>1, <3>1 DEF Alike
    <3> HIDE DEF n
    <3>4. m \in Seq(Values)
      OBVIOUS
    <3> QED BY <3>2, <3>3, <3>4, CountedOnce
  <2>4. h[n + 1] = h[n] + FreedBy(r[n + 1])
    <3>1. n + 1 \in 1 .. Len(r) /\ (n + 1) - 1 = n
      BY <2>1
    <3> QED BY <3>1, <2>2 DEF Counting
  <2>5. Freed(r) = Freed(m) + FreedBy(f)
    BY <1>1, <2>1, <2>2, <2>3, <2>4
  <2> QED BY <2>5 DEF r
<1> QED BY <1>2, <1>3, <1>4

-----------------------------------------------------------------------------
(* The messages of the procedures.                                         *)

Strings == {Null} \cup {s \in Seq(1 .. Base - 1) : Len(s) < MaxWord}

\* A string value has no zero and fits into a word.
LEMMA TextIs ==
    ASSUME NEW s \in Strings
    PROVE  Text(s) \in Seq(1 .. Base - 1) /\ Len(Text(s)) \in 0 .. MaxWord
<1>1. CASE s = Null
  <2>1. Text(s) = <<>>
    BY <1>1 DEF Text
  <2> QED BY <2>1, WordBounds
<1>2. CASE s # Null
  <2>1. Text(s) = s /\ s \in Seq(1 .. Base - 1) /\ Len(s) < MaxWord
    BY <1>2 DEF Text, Strings
  <2> QED BY <2>1, WordBounds
<1> QED BY <1>1, <1>2

LEMMA WordIsGood ==
    ASSUME NEW w \in WordRange
    PROVE  Good(Word(w)) /\ Word(w).t = "word" /\ Word(w).v[1] = w
<1>1. w \in Int
  BY WordBounds
<1> QED BY <1>1 DEF Good, Word, Values, Plain

LEMMA StringIsGood ==
    ASSUME NEW s \in Strings
    PROVE  Good(String(s)) /\ String(s).t = "string"
<1>1. s \in Seq(Int)
  <2>1. CASE s = Null
    BY <2>1 DEF Null
  <2>2. CASE s # Null
    <3>1. s \in Seq(1 .. Base - 1)
      BY <2>2 DEF Strings
    <3>2. (1 .. Base - 1) \subseteq Int
      BY WordBounds
    <3> QED BY <3>1, <3>2, SeqMonotonic
  <2> QED BY <2>1, <2>2
<1> QED BY <1>1 DEF Good, String, Values, Plain, Strings

LEMMA CharsAreGood ==
    ASSUME NEW s \in Seq(1 .. Base - 1), Len(s) \in 0 .. MaxWord
    PROVE  Good(Chars(s)) /\ Chars(s).t = "chars"
<1>1. s \in Seq(Int) /\ s \in Seq(Bytes)
  <2>1. (1 .. Base - 1) \subseteq Int /\ (1 .. Base - 1) \subseteq Bytes
    BY WordBounds DEF Bytes
  <2> QED BY <2>1, SeqMonotonic
<1>2. Len(s) <= MaxWord
  BY WordBounds
<1> QED BY <1>1, <1>2 DEF Good, Chars, Values, Plain

LEMMA WordsAreGood ==
    ASSUME NEW ws \in Seq(WordRange), Len(ws) <= 3
    PROVE  Good(Words(ws)) /\ Words(ws).t = "words"
<1>1. ws \in Seq(Int)
  <2>1. WordRange \subseteq Int
    BY WordBounds
  <2> QED BY <2>1, SeqMonotonic
<1>2. Len(ws) <= MaxWord
  <2>1. Len(ws) \in Nat
    BY LenProperties
  <2> QED BY <2>1, WordBounds
<1> QED BY <1>1, <1>2 DEF Good, Words, Values, Plain

LEMMA PtrIsGood ==
    ASSUME NEW w \in WordRange
    PROVE  Good(Ptr(<<w>>)) /\ Good(Ptr(NullPtr)) /\ Ptr(<<w>>).t = "ptr" /\ Ptr(NullPtr).t = "ptr"
<1>1. w \in Int
  BY WordBounds
<1> QED BY <1>1 DEF Good, Ptr, Values, Plain, NullPtr

LEMMA SmallWords == {0, 1, 2, 3} \subseteq WordRange
BY WordBounds

LEMMA PartsAreGood ==
    ASSUME NEW n \in WordRange, NEW w \in WordRange, NEW s \in Strings
    PROVE  /\ Good(Word(n)) /\ Good(Word(w)) /\ Good(String(s)) /\ Good(String(Null)) /\ Good(Word(0)) /\ Good(Word(1))
           /\ Good(Word(TypeString)) /\ Good(Word(Len(Text(s)))) /\ Good(Chars(Text(s))) /\ Good(Word(SetAuto))
           /\ Good(Word(TypeInt)) /\ Good(Words(<<w>>))
<1>1. Len(Text(s)) \in WordRange
  BY TextIs, WordBounds
<1>2. Null \in Strings
  BY DEF Strings
<1>3. TypeString \in WordRange /\ TypeInt \in WordRange /\ SetAuto \in WordRange /\ 0 \in WordRange /\ 1 \in WordRange
  BY SmallWords DEF TypeString, TypeInt, SetAuto
<1>4. Good(Words(<<w>>))
  <2>1. <<w>> \in Seq(WordRange) /\ Len(<<w>>) <= 3
    OBVIOUS
  <2> QED BY <2>1, WordsAreGood
<1>5. Good(Chars(Text(s)))
  BY TextIs, CharsAreGood
<1>6. Good(String(s)) /\ Good(String(Null))
  BY <1>2, StringIsGood
<1> QED BY <1>1, <1>3, <1>4, <1>5, <1>6, WordIsGood

LEMMA ConsIs ==
    ASSUME NEW x \in Values, NEW y \in Seq(Values), NEW z \in Seq(Values), Len(z) = Len(y) + 1,
           z[1] = x, \A i \in 1 .. Len(y) : z[i + 1] = y[i]
    PROVE  <<x>> \o y = z
<1> DEFINE c == <<x>> \o y
<1>1. <<x>> \in Seq(Values) /\ Len(<<x>>) = 1 /\ <<x>>[1] = x /\ Len(y) \in Nat
  OBVIOUS
<1>2. /\ c \in Seq(Values)
      /\ Len(c) = Len(<<x>>) + Len(y)
      /\ \A i \in 1 .. Len(<<x>>) + Len(y) : c[i] = IF i <= Len(<<x>>) THEN <<x>>[i] ELSE y[i - Len(<<x>>)]
  BY <1>1, ConcatProperties
<1> HIDE DEF c
<1>3. ASSUME NEW i \in 1 .. Len(c) PROVE c[i] = z[i]
  <2>1. CASE i = 1
    BY <1>1, <1>2, <2>1
  <2>2. CASE i # 1
    <3>1. i - 1 \in 1 .. Len(y) /\ (i - 1) + 1 = i
      BY <1>1, <1>2, <2>2
    <3>2. c[i] = y[i - 1]
      BY <3>1, <1>1, <1>2, <2>2
    <3> QED BY <3>1, <3>2
  <2> QED BY <2>1, <2>2
<1>4. c = z
  BY <1>1, <1>2, <1>3, SeqEqual
<1> QED BY <1>4 DEF c

LEMMA ThreeAndThree ==
    ASSUME NEW S, NEW a, NEW b, NEW c, NEW d, NEW e, NEW f, <<a, b, c>> \in Seq(S), <<d, e, f>> \in Seq(S)
    PROVE  <<a, b, c>> \o <<d, e, f>> = <<a, b, c, d, e, f>>
<1> DEFINE x == <<a, b, c>>
           y == <<d, e, f>>
           r == <<a, b, c, d, e, f>>
<1>1. Len(x) = 3 /\ Len(y) = 3 /\ x[1] = a /\ x[2] = b /\ x[3] = c /\ y[1] = d /\ y[2] = e /\ y[3] = f
  OBVIOUS
<1>2. /\ r \in Seq(S) /\ Len(r) = 6 /\ r[1] = a /\ r[2] = b /\ r[3] = c /\ r[4] = d /\ r[5] = e /\ r[6] = f
  <2>1. a \in S /\ b \in S /\ c \in S /\ d \in S /\ e \in S /\ f \in S
    <3>1. \A i \in 1 .. Len(x) : x[i] \in S
      BY ElementOfSeq
    <3>2. \A i \in 1 .. Len(y) : y[i] \in S
      BY ElementOfSeq
    <3> QED BY <3>1, <3>2, <1>1
  <2> QED BY <2>1
<1> HIDE DEF x, y, r
<1>3. x \in Seq(S) /\ y \in Seq(S)
  BY DEF x, y
<1>4. x \o y \in Seq(S) /\ Len(x \o y) = 6 /\ \A i \in 1 .. 6 : (x \o y)[i] = IF i <= 3 THEN x[i] ELSE y[i - 3]
  <2>1. /\ x \o y \in Seq(S)
        /\ Len(x \o y) = Len(x) + Len(y)
        /\ \A i \in 1 .. Len(x) + Len(y) : (x \o y)[i] = IF i <= Len(x) THEN x[i] ELSE y[i - Len(x)]
    BY <1>3, ConcatProperties
  <2> QED BY <2>1, <1>1
<1>5. \A i \in 1 .. 6 : (x \o y)[i] = r[i]
  <2>1. \A i \in 1 .. 6 : i \in {1, 2, 3, 4, 5, 6}
    OBVIOUS
  <2> QED BY <2>1, <1>1, <1>2, <1>4
<1>6. x \o y = r
  BY <1>2, <1>4, <1>5, SeqEqual
<1> QED BY <1>6 DEF x, y, r

\* A request after its procedure.
IsRequest(p, n, w, s, m) ==
    /\ Message(m)
    /\ p = "init" => m = <<Word(n), Word(w), String(s)>>
    /\ p = "control" => m = <<Word(n), Word(w), Word(0), Word(1), Word(TypeString), Word(Len(Text(s))), Chars(Text(s))>>
    /\ p = "auto" /\ Version < 3 => m = <<Word(n), Word(w), Word(0), Word(SetAuto), Word(TypeInt), Word(1), Words(<<w>>)>>
    /\ p = "auto" /\ ~(Version < 3) => m = <<Word(n), Word(w), Word(0), Word(SetAuto)>>
    /\ p = "authorize" => m = <<Word(n), String(s), String(s), String(Null)>>
    /\ p \notin {"init", "control", "auto", "authorize"} => m = <<Word(n), Word(w)>>

\* What a caller sends for a procedure is a message, of the types that the
\* procedure has.
LEMMA RequestIs ==
    ASSUME NEW p, NEW n \in WordRange, NEW w \in WordRange, NEW s \in Strings
    PROVE  IsRequest(p, n, w, s, <<Word(n)>> \o Request(p, w, s))
<1> DEFINE m == <<Word(n)>> \o Request(p, w, s)
<1> SUFFICES
      /\ Message(m)
      /\ p = "init" => m = <<Word(n), Word(w), String(s)>>
      /\ p = "control" => m = <<Word(n), Word(w), Word(0), Word(1), Word(TypeString), Word(Len(Text(s))), Chars(Text(s))>>
      /\ p = "auto" /\ Version < 3 => m = <<Word(n), Word(w), Word(0), Word(SetAuto), Word(TypeInt), Word(1), Words(<<w>>)>>
      /\ p = "auto" /\ ~(Version < 3) => m = <<Word(n), Word(w), Word(0), Word(SetAuto)>>
      /\ p = "authorize" => m = <<Word(n), String(s), String(s), String(Null)>>
      /\ p \notin {"init", "control", "auto", "authorize"} => m = <<Word(n), Word(w)>>
  BY Zenon DEF IsRequest
<1>0. /\ Good(Word(n)) /\ Good(Word(w)) /\ Good(String(s)) /\ Good(String(Null)) /\ Good(Word(0)) /\ Good(Word(1))
      /\ Good(Word(TypeString)) /\ Good(Word(Len(Text(s)))) /\ Good(Chars(Text(s))) /\ Good(Word(SetAuto))
      /\ Good(Word(TypeInt)) /\ Good(Words(<<w>>))
  BY PartsAreGood
<1>1. \A f : Good(f) => f \in Values
  BY DEF Good
<1>2. CASE p = "init"
  <2>1. Request(p, w, s) = <<Word(w), String(s)>>
    BY <1>2 DEF Request, OptionValue, TypeString, TypeInt
  <2>2. m = <<Word(n), Word(w), String(s)>>
    <3> DEFINE y == <<Word(w), String(s)>>
               z == <<Word(n), Word(w), String(s)>>
    <3>1. Word(n) \in Values /\ y \in Seq(Values) /\ z \in Seq(Values) /\ Len(z) = Len(y) + 1 /\ z[1] = Word(n)
      BY <1>0, <1>1
    <3>2. \A i \in 1 .. Len(y) : z[i + 1] = y[i]
      OBVIOUS
    <3> HIDE DEF y, z
    <3>3. <<Word(n)>> \o y = z
      BY <3>1, <3>2, ConsIs
    <3> QED BY <3>3, <2>1 DEF y, z
  <2>3. Message(m)
    <3> HIDE DEF m
    <3> QED BY <2>2, <1>0, <1>1 DEF Message
  <2> QED BY <1>2, <2>2, <2>3
<1>3. CASE p = "control"
  <2>1. Request(p, w, s) = <<Word(w), Word(0), Word(1), Word(TypeString), Word(Len(Text(s))), Chars(Text(s))>>
    BY <1>3 DEF Request, OptionValue, TypeString, TypeInt
  <2>2. m = <<Word(n), Word(w), Word(0), Word(1), Word(TypeString), Word(Len(Text(s))), Chars(Text(s))>>
    <3> DEFINE y == <<Word(w), Word(0), Word(1), Word(TypeString), Word(Len(Text(s))), Chars(Text(s))>>
               z == <<Word(n), Word(w), Word(0), Word(1), Word(TypeString), Word(Len(Text(s))), Chars(Text(s))>>
    <3>1. Word(n) \in Values /\ y \in Seq(Values) /\ z \in Seq(Values) /\ Len(z) = Len(y) + 1 /\ z[1] = Word(n)
      BY <1>0, <1>1
    <3>2. \A i \in 1 .. Len(y) : z[i + 1] = y[i]
      OBVIOUS
    <3> HIDE DEF y, z
    <3>3. <<Word(n)>> \o y = z
      BY <3>1, <3>2, ConsIs
    <3> QED BY <3>3, <2>1 DEF y, z
  <2>3. Message(m)
    <3> HIDE DEF m
    <3> QED BY <2>2, <1>0, <1>1 DEF Message
  <2> QED BY <1>3, <2>2, <2>3
<1>4. CASE p = "auto" /\ Version < 3
  <2>1. Request(p, w, s) = <<Word(w), Word(0), Word(SetAuto), Word(TypeInt), Word(1), Words(<<w>>)>>
    <3>1. Request(p, w, s) = <<Word(w), Word(0), Word(SetAuto)>> \o <<Word(TypeInt), Word(1), Words(<<w>>)>>
      BY <1>4 DEF Request, OptionValue
    <3>2. <<Word(w), Word(0), Word(SetAuto)>> \in Seq(Values) /\ <<Word(TypeInt), Word(1), Words(<<w>>)>> \in Seq(Values)
      BY <1>0, <1>1
    <3>3. <<Word(w), Word(0), Word(SetAuto)>> \o <<Word(TypeInt), Word(1), Words(<<w>>)>> = <<Word(w), Word(0), Word(SetAuto), Word(TypeInt), Word(1), Words(<<w>>)>>
      BY <3>2, ThreeAndThree
    <3> QED BY <3>1, <3>3
  <2>2. m = <<Word(n), Word(w), Word(0), Word(SetAuto), Word(TypeInt), Word(1), Words(<<w>>)>>
    <3> DEFINE y == <<Word(w), Word(0), Word(SetAuto), Word(TypeInt), Word(1), Words(<<w>>)>>
               z == <<Word(n), Word(w), Word(0), Word(SetAuto), Word(TypeInt), Word(1), Words(<<w>>)>>
    <3>1. Word(n) \in Values /\ y \in Seq(Values) /\ z \in Seq(Values) /\ Len(z) = Len(y) + 1 /\ z[1] = Word(n)
      BY <1>0, <1>1
    <3>2. \A i \in 1 .. Len(y) : z[i + 1] = y[i]
      OBVIOUS
    <3> HIDE DEF y, z
    <3>3. <<Word(n)>> \o y = z
      BY <3>1, <3>2, ConsIs
    <3> QED BY <3>3, <2>1 DEF y, z
  <2>3. Message(m)
    <3> HIDE DEF m
    <3> QED BY <2>2, <1>0, <1>1 DEF Message
  <2> QED BY <1>4, <2>2, <2>3
<1>5. CASE p = "auto" /\ ~(Version < 3)
  <2>1. Request(p, w, s) = <<Word(w), Word(0), Word(SetAuto)>>
    <3>1. Request(p, w, s) = <<Word(w), Word(0), Word(SetAuto)>> \o <<>>
      BY <1>5 DEF Request
    <3>2. <<Word(w), Word(0), Word(SetAuto)>> \in Seq(Values)
      BY <1>0, <1>1
    <3> QED BY <3>1, <3>2, ConcatEmptySeq
  <2>2. m = <<Word(n), Word(w), Word(0), Word(SetAuto)>>
    <3> DEFINE y == <<Word(w), Word(0), Word(SetAuto)>>
               z == <<Word(n), Word(w), Word(0), Word(SetAuto)>>
    <3>1. Word(n) \in Values /\ y \in Seq(Values) /\ z \in Seq(Values) /\ Len(z) = Len(y) + 1 /\ z[1] = Word(n)
      BY <1>0, <1>1
    <3>2. \A i \in 1 .. Len(y) : z[i + 1] = y[i]
      OBVIOUS
    <3> HIDE DEF y, z
    <3>3. <<Word(n)>> \o y = z
      BY <3>1, <3>2, ConsIs
    <3> QED BY <3>3, <2>1 DEF y, z
  <2>3. Message(m)
    <3> HIDE DEF m
    <3> QED BY <2>2, <1>0, <1>1 DEF Message
  <2> QED BY <1>5, <2>2, <2>3
<1>6. CASE p = "authorize"
  <2>1. Request(p, w, s) = <<String(s), String(s), String(Null)>>
    BY <1>6 DEF Request, OptionValue, TypeString, TypeInt
  <2>2. m = <<Word(n), String(s), String(s), String(Null)>>
    <3> DEFINE y == <<String(s), String(s), String(Null)>>
               z == <<Word(n), String(s), String(s), String(Null)>>
    <3>1. Word(n) \in Values /\ y \in Seq(Values) /\ z \in Seq(Values) /\ Len(z) = Len(y) + 1 /\ z[1] = Word(n)
      BY <1>0, <1>1
    <3>2. \A i \in 1 .. Len(y) : z[i + 1] = y[i]
      OBVIOUS
    <3> HIDE DEF y, z
    <3>3. <<Word(n)>> \o y = z
      BY <3>1, <3>2, ConsIs
    <3> QED BY <3>3, <2>1 DEF y, z
  <2>3. Message(m)
    <3> HIDE DEF m
    <3> QED BY <2>2, <1>0, <1>1 DEF Message
  <2> QED BY <1>6, <2>2, <2>3
<1>7. CASE p \notin {"init", "control", "auto", "authorize"}
  <2>1. Request(p, w, s) = <<Word(w)>>
    BY <1>7 DEF Request, OptionValue, TypeString, TypeInt
  <2>2. m = <<Word(n), Word(w)>>
    <3> DEFINE y == <<Word(w)>>
               z == <<Word(n), Word(w)>>
    <3>1. Word(n) \in Values /\ y \in Seq(Values) /\ z \in Seq(Values) /\ Len(z) = Len(y) + 1 /\ z[1] = Word(n)
      BY <1>0, <1>1
    <3>2. \A i \in 1 .. Len(y) : z[i + 1] = y[i]
      OBVIOUS
    <3> HIDE DEF y, z
    <3>3. <<Word(n)>> \o y = z
      BY <3>1, <3>2, ConsIs
    <3> QED BY <3>3, <2>1 DEF y, z
  <2>3. Message(m)
    <3> HIDE DEF m
    <3> QED BY <2>2, <1>0, <1>1 DEF Message
  <2> QED BY <1>7, <2>2, <2>3
<1> QED BY <1>2, <1>3, <1>4, <1>5, <1>6, <1>7

\* So is what the server answers.
LEMMA ReplyIsMessage ==
    ASSUME NEW p, NEW w \in WordRange, NEW s \in Strings
    PROVE  Message(Reply(p, w, s)) /\ Reply(p, w, s) # <<>>
<1>0. /\ Good(Word(w)) /\ Good(String(s)) /\ Good(String(Null)) /\ Good(Word(0)) /\ Good(Word(1))
      /\ Good(Word(TypeInt)) /\ Good(Words(<<w>>)) /\ Good(Words(<<w, 0>>)) /\ Good(Words(<<>>))
      /\ Good(Ptr(<<w>>)) /\ Good(Ptr(NullPtr))
  <2>1. 0 \in WordRange /\ 1 \in WordRange /\ TypeInt \in WordRange
    BY SmallWords DEF TypeInt
  <2>2. Null \in Strings
    BY DEF Strings
  <2>3. Good(Words(<<w>>)) /\ Good(Words(<<w, 0>>)) /\ Good(Words(<<>>))
    <3>1. <<w>> \in Seq(WordRange) /\ Len(<<w>>) <= 3
      OBVIOUS
    <3>2. <<w, 0>> \in Seq(WordRange) /\ Len(<<w, 0>>) <= 3
      BY <2>1
    <3>3. <<>> \in Seq(WordRange) /\ Len(<<>>) <= 3
      OBVIOUS
    <3> QED BY <3>1, <3>2, <3>3, WordsAreGood
  <2>4. Good(String(s)) /\ Good(String(Null))
    BY <2>2, StringIsGood
  <2> QED BY <2>1, <2>3, <2>4, WordIsGood, PtrIsGood
<1>1. \A f : Good(f) => f \in Values
  BY DEF Good
<1> DEFINE m == Reply(p, w, s)
<1>2. CASE p = "init"
  <2>1. m = <<Word(0), Word(w)>>
    BY <1>2 DEF Reply
  <2> HIDE DEF m
  <2> QED BY <2>1, <1>0, <1>1 DEF Message, m
<1>3. CASE p = "control"
  <2>1. m = <<Word(0), Word(w), Word(TypeInt), Word(1), Words(<<w>>), String(s)>>
    BY <1>3 DEF Reply, OptionValue
  <2> HIDE DEF m
  <2> QED BY <2>1, <1>0, <1>1 DEF Message, m
<1>4. CASE p = "auto"
  <2>1. m = <<Word(w), Word(0), Word(TypeInt), Word(0), Words(<<>>), String(Null)>>
    BY <1>4 DEF Reply
  <2> HIDE DEF m
  <2> QED BY <2>1, <1>0, <1>1 DEF Message, m
<1>5. CASE p = "open"
  <2>1. m = <<Word(0), Word(w), String(s)>>
    BY <1>5 DEF Reply
  <2> HIDE DEF m
  <2> QED BY <2>1, <1>0, <1>1 DEF Message, m
<1>6. CASE p = "parameters"
  <2>1. m = <<Word(0), Word(w), Word(1), Word(w), Word(w), Word(w), Word(1)>>
    BY <1>6 DEF Reply
  <2> HIDE DEF m
  <2> QED BY <2>1, <1>0, <1>1 DEF Message, m
<1>7. CASE p = "descriptor"
  <2>1. m = <<Word(0), String(s), Word(w), Words(<<w, 0>>), Ptr(<<w>>), Ptr(NullPtr)>>
    BY <1>7 DEF Reply
  <2> HIDE DEF m
  <2> QED BY <2>1, <1>0, <1>1 DEF Message, m
<1>8. CASE p \notin {"init", "control", "auto", "open", "parameters", "descriptor"}
  <2>1. m = <<Word(0)>>
    BY <1>8 DEF Reply
  <2> HIDE DEF m
  <2> QED BY <2>1, <1>0, <1>1 DEF Message, m
<1> QED BY <1>2, <1>3, <1>4, <1>5, <1>6, <1>7, <1>8

-----------------------------------------------------------------------------
(* What the variables hold, broken or not.                                 *)

AllTypes == Plain \cup {"action", "value"}
OpSet == [t : AllTypes, n : Nat \cup {-1}, acc : Seq(Int)]
WireSet == [dir : {"encode", "decode"}, status : {0, 1}, alloc : Nat, buf : Seq(Bytes)]
TodoSet == Seq(Piece) \cup Seq(OpSet)

\* Only the first operation may have begun, and only one that takes elements.
OpsOK(x) ==
    /\ x \in Seq(OpSet)
    /\ \A i \in 1 .. Len(x) : x[i].n # -1 => i = 1 /\ x[i].t \in Plain \ {"word"}
    /\ \A i \in 1 .. Len(x) : x[i].n = -1 => x[i] = Op(x[i].t)

\* What is counted for the value that is being decoded.
Pending(x) == IF x = <<>> \/ x[1].n = -1 THEN 0 ELSE Scaled(x[1].t, x[1].n + Len(x[1].acc))

SideIs(w, x, g) ==
    /\ Len(w.buf) <= BufSize
    /\ w.dir = "encode" => x \in Seq(Piece) /\ w.alloc >= Freed(g)
    /\ w.dir = "decode" => OpsOK(x) /\ w.alloc >= Freed(g) + Pending(x)

WireTyped ==
    /\ wire \in [Sides -> WireSet] /\ chan \in [Sides -> Seq(Bytes)] /\ todo \in [Sides -> TodoSet]
    /\ got \in [Sides -> Seq(Values)] /\ sent \in [Sides -> Seq(Values)]
    /\ broken \in BOOLEAN /\ calls \in Nat

TypeInv == WireTyped /\ \A s \in Sides : SideIs(wire[s], todo[s], got[s])

Change(s, w, x, g) ==
    /\ wire' = [wire EXCEPT ![s] = w] /\ todo' = [todo EXCEPT ![s] = x] /\ got' = [got EXCEPT ![s] = g]

\* A step of one side leaves the other as it is.
LEMMA OneSide ==
    ASSUME TypeInv, NEW s \in Sides, NEW w \in WireSet, NEW x \in TodoSet, NEW g \in Seq(Values),
           Change(s, w, x, g), SideIs(w, x, g), chan' \in [Sides -> Seq(Bytes)],
           sent' \in [Sides -> Seq(Values)], broken' \in BOOLEAN, calls' \in Nat
    PROVE  TypeInv'
<1>1. wire' \in [Sides -> WireSet] /\ todo' \in [Sides -> TodoSet] /\ got' \in [Sides -> Seq(Values)]
  BY DEF TypeInv, WireTyped, Change
<1>2. \A r \in Sides : SideIs(wire'[r], todo'[r], got'[r])
  <2>1. wire'[s] = w /\ todo'[s] = x /\ got'[s] = g
    BY DEF TypeInv, WireTyped, Change
  <2>2. \A r \in Sides : r # s => wire'[r] = wire[r] /\ todo'[r] = todo[r] /\ got'[r] = got[r]
    BY DEF TypeInv, WireTyped, Change
  <2> QED BY <2>1, <2>2 DEF TypeInv
<1> QED BY <1>1, <1>2 DEF TypeInv, WireTyped

LEMMA OtherSide ==
    \A s \in Sides : Peer(s) \in Sides /\ Peer(s) # s /\ Peer(Peer(s)) = s /\ Sides = {s, Peer(s)}
BY DEF Sides, Peer

LEMMA PendingIsNat ==
    ASSUME NEW x, OpsOK(x)
    PROVE  Pending(x) \in Nat
<1>1. CASE x = <<>> \/ x[1].n = -1
  BY <1>1 DEF Pending
<1>2. CASE ~(x = <<>> \/ x[1].n = -1)
  <2>1. x[1] \in OpSet
    BY <1>2 DEF OpsOK
  <2>2. x[1].n \in Nat /\ Len(x[1].acc) \in Nat
    BY <1>2, <2>1 DEF OpSet
  <2>3. x[1].n + Len(x[1].acc) \in Nat
    BY <2>2
  <2>4. Scaled(x[1].t, x[1].n + Len(x[1].acc)) \in Nat
    BY <2>3 DEF Scaled
  <2> QED BY <1>2, <2>4 DEF Pending
<1> QED BY <1>1, <1>2

LEMMA NoneOK == OpsOK(<<>>) /\ Pending(<<>>) = 0 /\ <<>> \in Seq(OpSet) /\ <<>> \in Seq(Piece) /\ <<>> \in TodoSet
BY DEF OpsOK, Pending, TodoSet

LEMMA NewOpIs ==
    ASSUME NEW t \in AllTypes
    PROVE  Op(t) \in OpSet /\ Op(t).t = t /\ Op(t).n = -1
BY DEF Op, OpSet

\* The operations of a list of types.
LEMMA OpsAre ==
    ASSUME NEW types \in Seq(AllTypes)
    PROVE  /\ OpsOK(Ops(types)) /\ Len(Ops(types)) = Len(types) /\ Pending(Ops(types)) = 0
           /\ \A i \in 1 .. Len(types) : Ops(types)[i] = Op(types[i])
<1>1. \A i \in 1 .. Len(types) : types[i] \in AllTypes
  OBVIOUS
<1>2. Ops(types) = [i \in 1 .. Len(types) |-> Op(types[i])]
  BY DEF Ops
<1>3. Ops(types) \in Seq(OpSet) /\ Len(Ops(types)) = Len(types) /\ \A i \in 1 .. Len(types) : Ops(types)[i] = Op(types[i])
  <2>1. \A i \in 1 .. Len(types) : Op(types[i]) \in OpSet
    BY <1>1, NewOpIs
  <2> QED BY <1>2, <2>1
<1>4. \A i \in 1 .. Len(types) : Ops(types)[i].n = -1 /\ Ops(types)[i] = Op(Ops(types)[i].t)
  BY <1>1, <1>3, NewOpIs
<1>5. Pending(Ops(types)) = 0
  <2>1. Ops(types) # <<>> => 1 \in 1 .. Len(types)
    BY <1>3
  <2> QED BY <2>1, <1>4 DEF Pending
<1> QED BY <1>3, <1>4, <1>5 DEF OpsOK

\* What is left when the first operation is done.
LEMMA OpsTail ==
    ASSUME NEW x, OpsOK(x), x # <<>>
    PROVE  /\ OpsOK(Tail(x)) /\ Pending(Tail(x)) = 0 /\ Len(Tail(x)) = Len(x) - 1
           /\ \A i \in 1 .. Len(x) - 1 : Tail(x)[i] = x[i + 1] /\ Tail(x)[i].n = -1
<1>1. x \in Seq(OpSet) /\ Len(x) \in Nat /\ Len(x) >= 1
  BY DEF OpsOK
<1>2. Tail(x) \in Seq(OpSet) /\ Len(Tail(x)) = Len(x) - 1 /\ \A i \in 1 .. Len(x) - 1 : Tail(x)[i] = x[i + 1]
  <2>1. Tail(x) \in Seq(OpSet) /\ Len(Tail(x)) = Len(x) - 1 /\ \A i \in 1 .. Len(Tail(x)) : Tail(x)[i] = x[i + 1]
    BY <1>1, HeadTailProperties
  <2> QED BY <2>1
<1>3. \A i \in 1 .. Len(x) - 1 : i + 1 \in 1 .. Len(x) /\ i + 1 # 1
  BY <1>1
<1>4. \A i \in 1 .. Len(x) - 1 : Tail(x)[i].n = -1 /\ Tail(x)[i] = Op(Tail(x)[i].t)
  BY <1>2, <1>3 DEF OpsOK
<1>5. Pending(Tail(x)) = 0
  <2>1. Tail(x) # <<>> => 1 \in 1 .. Len(x) - 1
    BY <1>1, <1>2
  <2> QED BY <2>1, <1>4 DEF Pending
<1> QED BY <1>2, <1>4, <1>5 DEF OpsOK

\* An operation that has begun, before others that have not.
LEMMA OpsBegun ==
    ASSUME NEW x, OpsOK(x), x # <<>>, NEW o \in OpSet, o.n # -1, o.t \in Plain \ {"word"}
    PROVE  LET y == <<o>> \o Tail(x) IN
           /\ OpsOK(y) /\ Pending(y) = Scaled(o.t, o.n + Len(o.acc)) /\ Len(y) = Len(x)
           /\ y # <<>> /\ y[1] = o /\ Tail(y) = Tail(x) /\ \A i \in 2 .. Len(x) : y[i] = x[i]
<1> DEFINE y == <<o>> \o Tail(x)
           r == Tail(x)
<1>1. OpsOK(r) /\ Len(r) = Len(x) - 1 /\ \A i \in 1 .. Len(x) - 1 : r[i] = x[i + 1] /\ r[i].n = -1
  BY OpsTail
<1>2. r \in Seq(OpSet) /\ Len(x) \in Nat
  BY <1>1 DEF OpsOK
<1> HIDE DEF r
<1>3. y \in Seq(OpSet) /\ y # <<>> /\ y[1] = o /\ Tail(y) = r
  BY <1>2, HeadAndTail DEF r
<1> HIDE DEF y
<1>4. Len(y) = Len(x) /\ \A i \in 1 .. Len(x) - 1 : y[i + 1] = r[i]
  <2>1. Len(r) = Len(y) - 1 /\ \A i \in 1 .. Len(r) : r[i] = y[i + 1]
    BY <1>3, HeadTailProperties
  <2>2. Len(y) \in Nat
    BY <1>3
  <2> QED BY <2>1, <2>2, <1>1, <1>2
<1>5. \A i \in 2 .. Len(x) : y[i] = x[i] /\ y[i].n = -1
  <2>1. ASSUME NEW i \in 2 .. Len(x) PROVE y[i] = x[i] /\ y[i].n = -1
    <3>1. i - 1 \in 1 .. Len(x) - 1 /\ (i - 1) + 1 = i
      BY <1>2
    <3>2. y[i] = r[i - 1] /\ r[i - 1] = x[i] /\ r[i - 1].n = -1
      BY <3>1, <1>1, <1>4
    <3> QED BY <3>2
  <2> QED BY <2>1
<1>6. OpsOK(y)
  <2>1. ASSUME NEW i \in 1 .. Len(y), y[i].n # -1 PROVE i = 1 /\ y[i].t \in Plain \ {"word"}
    <3>1. i = 1
      BY <2>1, <1>2, <1>4, <1>5
    <3> QED BY <3>1, <1>3
  <2>2. ASSUME NEW i \in 1 .. Len(y), y[i].n = -1 PROVE y[i] = Op(y[i].t)
    <3>1. i \in 2 .. Len(x) /\ i \in 1 .. Len(x)
      <4>1. i # 1
        BY <2>2, <1>3
      <4> QED BY <4>1, <1>2, <1>4
    <3> QED BY <3>1, <2>2, <1>5 DEF OpsOK
  <2> QED BY <2>1, <2>2, <1>3 DEF OpsOK
<1>7. Pending(y) = Scaled(o.t, o.n + Len(o.acc))
  BY <1>3 DEF Pending
<1> QED BY <1>3, <1>4, <1>5, <1>6, <1>7 DEF r, y

\* The types of a request are types of the wire.
LEMMA RequestTypesAre ==
    ASSUME NEW p
    PROVE  /\ p \in {"control", "auto"} => RequestTypes(p) = <<"word", "word", "word", "action">>
           /\ p = "init" => RequestTypes(p) = <<"word", "string">>
           /\ p = "authorize" => RequestTypes(p) = <<"string", "string", "string">>
           /\ p \notin {"init", "control", "auto", "authorize"} => RequestTypes(p) = <<"word">>
           /\ RequestTypes(p) \in Seq(AllTypes)
<1>1. ASSUME p \in {"control", "auto"} PROVE RequestTypes(p) = <<"word", "word", "word", "action">>
  BY <1>1 DEF RequestTypes
<1>2. ASSUME p = "init" PROVE RequestTypes(p) = <<"word", "string">>
  <2>1. Request(p, 0, <<>>) = <<Word(0), String(<<>>)>>
    BY <1>2 DEF Request
  <2>2. RequestTypes(p) = [i \in DOMAIN Request(p, 0, <<>>) |-> Request(p, 0, <<>>)[i].t]
    BY <1>2 DEF RequestTypes
  <2> QED BY <2>1, <2>2 DEF Word, String
<1>3. ASSUME p = "authorize" PROVE RequestTypes(p) = <<"string", "string", "string">>
  <2>1. Request(p, 0, <<>>) = <<String(<<>>), String(<<>>), String(Null)>>
    BY <1>3 DEF Request
  <2>2. RequestTypes(p) = [i \in DOMAIN Request(p, 0, <<>>) |-> Request(p, 0, <<>>)[i].t]
    BY <1>3 DEF RequestTypes
  <2> QED BY <2>1, <2>2 DEF String
<1>4. ASSUME p \notin {"init", "control", "auto", "authorize"} PROVE RequestTypes(p) = <<"word">>
  <2>1. Request(p, 0, <<>>) = <<Word(0)>>
    BY <1>4 DEF Request
  <2>2. RequestTypes(p) = [i \in DOMAIN Request(p, 0, <<>>) |-> Request(p, 0, <<>>)[i].t]
    BY <1>4 DEF RequestTypes
  <2> QED BY <2>1, <2>2 DEF Word
<1>5. RequestTypes(p) \in Seq(AllTypes)
  <2>1. <<"word", "word", "word", "action">> \in Seq(AllTypes) /\ <<"word", "string">> \in Seq(AllTypes)
        /\ <<"string", "string", "string">> \in Seq(AllTypes) /\ <<"word">> \in Seq(AllTypes)
    BY DEF AllTypes, Plain
  <2> QED BY <2>1, <1>1, <1>2, <1>3, <1>4
<1> QED BY <1>1, <1>2, <1>3, <1>4, <1>5

LEMMA ReplyTypesAre ==
    ASSUME NEW p
    PROVE  /\ p \in {"control", "auto"} => ReplyTypes(p) = <<"word", "word", "word", "word", "value", "string">>
           /\ p = "init" => ReplyTypes(p) = <<"word", "word">>
           /\ p = "open" => ReplyTypes(p) = <<"word", "word", "string">>
           /\ p = "parameters" => ReplyTypes(p) = <<"word", "word", "word", "word", "word", "word", "word">>
           /\ p = "descriptor" => ReplyTypes(p) = <<"word", "string", "word", "words", "ptr", "ptr">>
           /\ p \notin {"init", "control", "auto", "open", "parameters", "descriptor"} => ReplyTypes(p) = <<"word">>
           /\ ReplyTypes(p) \in Seq(AllTypes) /\ ReplyTypes(p) # <<>> /\ ReplyTypes(p)[1] = "word"
<1>1. ASSUME p \in {"control", "auto"} PROVE ReplyTypes(p) = <<"word", "word", "word", "word", "value", "string">>
  BY <1>1 DEF ReplyTypes
<1>0. ASSUME p \notin {"control", "auto"}
      PROVE  ReplyTypes(p) = [i \in DOMAIN Reply(p, 0, <<>>) |-> Reply(p, 0, <<>>)[i].t]
  BY <1>0 DEF ReplyTypes
<1>2. ASSUME p = "init" PROVE ReplyTypes(p) = <<"word", "word">>
  <2>1. Reply(p, 0, <<>>) = <<Word(0), Word(0)>>
    BY <1>2 DEF Reply
  <2> QED BY <2>1, <1>0, <1>2 DEF Word
<1>3. ASSUME p = "open" PROVE ReplyTypes(p) = <<"word", "word", "string">>
  <2>1. Reply(p, 0, <<>>) = <<Word(0), Word(0), String(<<>>)>>
    BY <1>3 DEF Reply
  <2> QED BY <2>1, <1>0, <1>3 DEF Word, String
<1>4. ASSUME p = "parameters" PROVE ReplyTypes(p) = <<"word", "word", "word", "word", "word", "word", "word">>
  <2>1. Reply(p, 0, <<>>) = <<Word(0), Word(0), Word(1), Word(0), Word(0), Word(0), Word(1)>>
    BY <1>4 DEF Reply
  <2> QED BY <2>1, <1>0, <1>4 DEF Word
<1>5. ASSUME p = "descriptor" PROVE ReplyTypes(p) = <<"word", "string", "word", "words", "ptr", "ptr">>
  <2>1. Reply(p, 0, <<>>) = <<Word(0), String(<<>>), Word(0), Words(<<0, 0>>), Ptr(<<0>>), Ptr(NullPtr)>>
    BY <1>5 DEF Reply
  <2> QED BY <2>1, <1>0, <1>5 DEF Word, String, Words, Ptr
<1>6. ASSUME p \notin {"init", "control", "auto", "open", "parameters", "descriptor"} PROVE ReplyTypes(p) = <<"word">>
  <2>1. Reply(p, 0, <<>>) = <<Word(0)>>
    BY <1>6 DEF Reply
  <2> QED BY <2>1, <1>0, <1>6 DEF Word
<1>7. ReplyTypes(p) \in Seq(AllTypes) /\ ReplyTypes(p) # <<>> /\ ReplyTypes(p)[1] = "word"
  <2>1. /\ <<"word", "word", "word", "word", "value", "string">> \in Seq(AllTypes)
        /\ <<"word", "word">> \in Seq(AllTypes) /\ <<"word", "word", "string">> \in Seq(AllTypes)
        /\ <<"word", "word", "word", "word", "word", "word", "word">> \in Seq(AllTypes)
        /\ <<"word", "string", "word", "words", "ptr", "ptr">> \in Seq(AllTypes) /\ <<"word">> \in Seq(AllTypes)
    BY DEF AllTypes, Plain
  <2>8. /\ <<"word", "word", "word", "word", "value", "string">> # <<>> /\ <<"word", "word", "word", "word", "value", "string">>[1] = "word"
        /\ <<"word", "word">> # <<>> /\ <<"word", "word">>[1] = "word"
        /\ <<"word", "word", "string">> # <<>> /\ <<"word", "word", "string">>[1] = "word"
        /\ <<"word", "word", "word", "word", "word", "word", "word">> # <<>> /\ <<"word", "word", "word", "word", "word", "word", "word">>[1] = "word"
        /\ <<"word", "string", "word", "words", "ptr", "ptr">> # <<>> /\ <<"word", "string", "word", "words", "ptr", "ptr">>[1] = "word"
        /\ <<"word">> # <<>> /\ <<"word">>[1] = "word"
    OBVIOUS
  <2>2. CASE p \in {"control", "auto"}
    BY <2>1, <2>8, <2>2, <1>1
  <2>3. CASE p = "init"
    BY <2>1, <2>8, <2>3, <1>2
  <2>4. CASE p = "open"
    BY <2>1, <2>8, <2>4, <1>3
  <2>5. CASE p = "parameters"
    BY <2>1, <2>8, <2>5, <1>4
  <2>6. CASE p = "descriptor"
    BY <2>1, <2>8, <2>6, <1>5
  <2>7. CASE p \notin {"init", "control", "auto", "open", "parameters", "descriptor"}
    BY <2>1, <2>8, <2>7, <1>6
  <2> QED BY <2>2, <2>3, <2>4, <2>5, <2>6, <2>7
<1> QED BY <1>1, <1>2, <1>3, <1>4, <1>5, <1>6, <1>7

-----------------------------------------------------------------------------
(* What the steps do: to the side that takes them, and to the stream.      *)

LEMMA SideTyped ==
    ASSUME TypeInv, NEW s \in Sides
    PROVE  /\ wire[s] \in WireSet /\ wire[s].dir \in {"encode", "decode"} /\ wire[s].status \in {0, 1}
           /\ wire[s].alloc \in Nat /\ wire[s].buf \in Seq(Bytes) /\ Len(wire[s].buf) <= BufSize
           /\ chan[s] \in Seq(Bytes) /\ todo[s] \in TodoSet /\ got[s] \in Seq(Values) /\ sent[s] \in Seq(Values)
           /\ wire[s].dir = "encode" => todo[s] \in Seq(Piece) /\ wire[s].alloc >= Freed(got[s])
           /\ wire[s].dir = "decode" => OpsOK(todo[s]) /\ wire[s].alloc >= Freed(got[s]) + Pending(todo[s])
<1>1. wire[s] \in WireSet /\ chan[s] \in Seq(Bytes) /\ todo[s] \in TodoSet /\ got[s] \in Seq(Values) /\ sent[s] \in Seq(Values)
  BY DEF TypeInv, WireTyped
<1>2. SideIs(wire[s], todo[s], got[s])
  BY DEF TypeInv
<1>3. wire[s].dir \in {"encode", "decode"} /\ wire[s].status \in {0, 1} /\ wire[s].alloc \in Nat /\ wire[s].buf \in Seq(Bytes)
  BY <1>1 DEF WireSet
<1> QED BY <1>1, <1>2, <1>3 DEF SideIs

Flushed(w, b, k) == [w EXCEPT !.buf = b, !.status = k]

LEMMA SideFlushed ==
    ASSUME NEW w \in WireSet, NEW b \in Seq(Bytes), NEW k \in {0, 1}
    PROVE  LET z == Flushed(w, b, k) IN
           z \in WireSet /\ z.buf = b /\ z.status = k /\ z.dir = w.dir /\ z.alloc = w.alloc
<1> DEFINE S == Seq(Bytes)
<1>1. WireSet = [dir : {"encode", "decode"}, status : {0, 1}, alloc : Nat, buf : S] /\ b \in S
  BY DEF WireSet
<1> HIDE DEF S
<1>2. w \in [dir : {"encode", "decode"}, status : {0, 1}, alloc : Nat, buf : S]
  BY <1>1
<1> QED BY <1>1, <1>2 DEF Flushed

Turned(w, b, d) == [w EXCEPT !.dir = d, !.buf = b]

LEMMA SideTurned ==
    ASSUME NEW w \in WireSet, NEW b \in Seq(Bytes), NEW d \in {"encode", "decode"}
    PROVE  LET z == Turned(w, b, d) IN
           z \in WireSet /\ z.buf = b /\ z.status = w.status /\ z.dir = d /\ z.alloc = w.alloc
<1> DEFINE S == Seq(Bytes)
<1>1. WireSet = [dir : {"encode", "decode"}, status : {0, 1}, alloc : Nat, buf : S] /\ b \in S
  BY DEF WireSet
<1> HIDE DEF S
<1>2. w \in [dir : {"encode", "decode"}, status : {0, 1}, alloc : Nat, buf : S]
  BY <1>1
<1> QED BY <1>1, <1>2 DEF Turned

LEMMA SpaceEncodeIs ==
    ASSUME TypeInv, NEW s \in Sides, NEW n \in Nat, NEW r \in SpaceEncode(s, n), wire[s].status = 0 \/ n = BufSize + 1
    PROVE  /\ r.out \in Seq(Bytes) /\ r.w \in WireSet /\ r.w.dir = wire[s].dir /\ r.w.alloc = wire[s].alloc
           /\ Len(r.w.buf) <= BufSize
           /\ r.w.status = 0 => \/ r.w.buf = wire[s].buf /\ r.out = <<>> /\ Len(wire[s].buf) + n <= BufSize
                                \/ r.w.buf = <<>> /\ r.out = wire[s].buf
<1>0. /\ wire[s] \in WireSet /\ wire[s].dir \in {"encode", "decode"} /\ wire[s].alloc \in Nat
      /\ wire[s].buf \in Seq(Bytes) /\ Len(wire[s].buf) <= BufSize /\ BufSize \in Nat /\ Len(wire[s].buf) \in Nat
  BY SideTyped, WireAssumption
<1>1. CASE Len(wire[s].buf) + n <= BufSize
  <2>1. r = [w |-> wire[s], out |-> <<>>]
    BY <1>1 DEF SpaceEncode
  <2> QED BY <1>0, <1>1, <2>1
<1>2. CASE ~(Len(wire[s].buf) + n <= BufSize)
  <2>1. CASE r = [w |-> [wire[s] EXCEPT !.buf = <<>>, !.status = 0], out |-> wire[s].buf]
    <3>1. r.w.buf = <<>> /\ r.w.status = 0 /\ r.w.dir = wire[s].dir /\ r.w.alloc = wire[s].alloc /\ r.out = wire[s].buf
          /\ r.w \in WireSet
      <4> DEFINE z == [wire[s] EXCEPT !.buf = <<>>, !.status = 0]
      <4>1. z \in WireSet /\ z.buf = <<>> /\ z.status = 0 /\ z.dir = wire[s].dir /\ z.alloc = wire[s].alloc
        <5>1. <<>> \in Seq(Bytes)
          OBVIOUS
        <5>2. z = Flushed(wire[s], <<>>, 0) /\ 0 \in {0, 1}
          BY DEF Flushed
        <5> HIDE DEF z
        <5> QED BY <1>0, <5>1, <5>2, SideFlushed
      <4>2. r.w = z /\ r.out = wire[s].buf
        BY <2>1
      <4> HIDE DEF z
      <4> QED BY <4>1, <4>2
    <3> QED BY <3>1, <1>0
  <2>2. CASE \E k \in 0 .. Len(wire[s].buf) - 1 :
                r = [w |-> [wire[s] EXCEPT !.status = 1, !.buf = SubSeq(@, 1, k)], out |-> SubSeq(wire[s].buf, 1, k)]
    <3>1. PICK k \in 0 .. Len(wire[s].buf) - 1 :
                r = [w |-> [wire[s] EXCEPT !.status = 1, !.buf = SubSeq(@, 1, k)], out |-> SubSeq(wire[s].buf, 1, k)]
      BY <2>2
    <3> DEFINE b == SubSeq(wire[s].buf, 1, k)
    <3>2. b \in Seq(Bytes) /\ Len(b) = k
      BY <1>0
    <3>3. r.w = [wire[s] EXCEPT !.status = 1, !.buf = b] /\ r.out = b
      BY <3>1
    <3> HIDE DEF b
    <3>4. r.w.buf = b /\ r.w.status = 1 /\ r.w.dir = wire[s].dir /\ r.w.alloc = wire[s].alloc /\ r.w \in WireSet
      BY <3>2, <3>3, <1>0 DEF WireSet
    <3> QED BY <3>2, <3>3, <3>4, <1>0
  <2> QED BY <1>2, <2>1, <2>2 DEF SpaceEncode
<1> QED BY <1>1, <1>2

Puts(s, w, x, o) ==
    /\ Change(s, w, x, got[s]) /\ chan' = [chan EXCEPT ![Peer(s)] = @ \o o]
    /\ SideIs(w, x, got[s]) /\ UNCHANGED <<sent, calls>> /\ broken' \in BOOLEAN
    /\ w.dir = "encode" /\ w.alloc = wire[s].alloc
    /\ ~broken' => /\ ~broken /\ w.status = 0 /\ x = Tail(todo[s])
                   /\ o \o w.buf = wire[s].buf \o todo[s][1] /\ w.buf # <<>>

\* A piece is stored, and what the buffer held is in it or in the stream.
LEMMA PutEffect ==
    ASSUME TypeInv, NEW s \in Sides, Put(s)
    PROVE  \E w \in WireSet, x \in Seq(Piece), o \in Seq(Bytes) : Puts(s, w, x, o)
<1>0. /\ wire[s].dir = "encode" /\ wire[s].status = 0 /\ todo[s] # <<>> /\ todo[s] \in Seq(Piece)
      /\ wire[s].alloc >= Freed(got[s]) /\ wire[s] \in WireSet
      /\ wire[s].buf \in Seq(Bytes) /\ Len(wire[s].buf) <= BufSize /\ BufSize \in Nat /\ BufSize >= 2
  BY SideTyped, WireAssumption DEF Put
<1> DEFINE p == todo[s][1]
<1>1. p \in Seq(Bytes) /\ Len(p) \in 1 .. 2
  <2>1. p \in Piece
    BY <1>0
  <2> QED BY <2>1 DEF Piece
<1>2. PICK r \in SpaceEncode(s, Len(p)) :
         /\ wire' = [wire EXCEPT ![s] = IF r.w.status # 0 THEN r.w ELSE [r.w EXCEPT !.buf = @ \o p]]
         /\ chan' = [chan EXCEPT ![Peer(s)] = @ \o r.out]
         /\ todo' = [todo EXCEPT ![s] = IF r.w.status # 0 THEN <<>> ELSE Tail(@)]
         /\ broken' = (broken \/ r.w.status # 0)
  BY DEF Put
<1>3. /\ r.out \in Seq(Bytes) /\ r.w \in WireSet /\ r.w.dir = wire[s].dir /\ r.w.alloc = wire[s].alloc
      /\ Len(r.w.buf) <= BufSize
      /\ r.w.status = 0 => \/ r.w.buf = wire[s].buf /\ r.out = <<>> /\ Len(wire[s].buf) + Len(p) <= BufSize
                           \/ r.w.buf = <<>> /\ r.out = wire[s].buf
  <2>1. Len(p) \in Nat
    BY <1>1
  <2> HIDE DEF p
  <2> QED BY <1>0, <1>2, <2>1, SpaceEncodeIs
<1> DEFINE w == IF r.w.status # 0 THEN r.w ELSE [r.w EXCEPT !.buf = @ \o p]
           x == IF r.w.status # 0 THEN <<>> ELSE Tail(todo[s])
<1>4. UNCHANGED <<got, sent, calls>>
  BY DEF Put
<1>5. got' = [got EXCEPT ![s] = got[s]]
  BY <1>4 DEF TypeInv, WireTyped
<1>6. todo' = [todo EXCEPT ![s] = x] /\ wire' = [wire EXCEPT ![s] = w]
  BY <1>2 DEF TypeInv, WireTyped
<1>7. CASE r.w.status # 0
  <2>1. w = r.w /\ x = <<>> /\ broken' = TRUE
    BY <1>2, <1>7
  <2>2. SideIs(w, x, got[s])
    BY <1>0, <1>3, <2>1, NoneOK DEF SideIs
  <2> HIDE DEF w, x, p
  <2>3. Puts(s, w, x, r.out)
    BY <1>0, <1>2, <1>3, <1>4, <1>5, <1>6, <2>1, <2>2 DEF Change, Puts
  <2>4. w \in WireSet /\ x \in Seq(Piece) /\ r.out \in Seq(Bytes)
    BY <1>3, <2>1, NoneOK
  <2> QED BY <2>3, <2>4
<1>8. CASE r.w.status = 0
  <2> DEFINE b == r.w.buf \o p
  <2>1. w = [r.w EXCEPT !.buf = b] /\ x = Tail(todo[s])
    BY <1>8
  <2>2. broken' = broken /\ broken \in BOOLEAN
    BY <1>2, <1>8 DEF TypeInv, WireTyped
  <2>3. x \in Seq(Piece)
    BY <1>0, <2>1
  <2>4. b \in Seq(Bytes) /\ Len(b) = Len(r.w.buf) + Len(p) /\ r.w.buf \in Seq(Bytes)
    <3>1. r.w.buf \in Seq(Bytes)
      BY <1>3 DEF WireSet
    <3> HIDE DEF p
    <3> QED BY <3>1, <1>1, ConcatProperties
  <2>5. Len(b) <= BufSize /\ b # <<>>
    <3> DEFINE l == Len(p)
               m == Len(r.w.buf)
    <3>1. l \in 1 .. 2 /\ m \in Nat /\ Len(b) = m + l
      BY <1>1, <2>4
    <3>2. m + l <= BufSize
      <4>1. CASE r.w.buf = wire[s].buf /\ Len(wire[s].buf) + l <= BufSize
        BY <4>1
      <4>2. CASE r.w.buf = <<>>
        <5>1. m = 0
          BY <4>2
        <5> HIDE DEF m, l
        <5> QED BY <3>1, <5>1, <1>0
      <4> HIDE DEF m
      <4> QED BY <4>1, <4>2, <1>3, <1>8
    <3> HIDE DEF b, l, m
    <3>3. Len(b) <= BufSize /\ Len(b) # 0
      BY <3>1, <3>2
    <3> QED BY <3>3
  <2>6. r.out \o b = wire[s].buf \o p
    <3> HIDE DEF p
    <3>1. wire[s].buf \o p \in Seq(Bytes)
      BY <1>0, <1>1, ConcatProperties
    <3>2. <<>> \o (wire[s].buf \o p) = wire[s].buf \o p /\ <<>> \o p = p
      BY <1>1, <3>1, ConcatEmptySeq
    <3> QED BY <1>3, <1>8, <3>2
  <2> HIDE DEF b, w, x
  <2>7. w \in WireSet /\ w.dir = "encode" /\ w.alloc = wire[s].alloc /\ w.status = 0 /\ w.buf = b
    BY <1>0, <1>3, <1>8, <2>1, <2>4 DEF WireSet
  <2>8. SideIs(w, x, got[s])
    BY <1>0, <2>3, <2>5, <2>7 DEF SideIs
  <2> HIDE DEF p
  <2>9. Change(s, w, x, got[s])
    BY <1>5, <1>6 DEF Change
  <2>10. x = Tail(todo[s]) /\ r.out \o w.buf = wire[s].buf \o todo[s][1] /\ w.buf # <<>> /\ chan' = [chan EXCEPT ![Peer(s)] = @ \o r.out]
    BY <1>2, <2>1, <2>5, <2>6, <2>7 DEF p
  <2>11. Puts(s, w, x, r.out)
    BY <1>4, <2>2, <2>7, <2>8, <2>9, <2>10 DEF Puts
  <2> QED BY <1>3, <2>3, <2>7, <2>11
<1> QED BY <1>7, <1>8

\* What a side has stored and not sent yet.
Outgoing(w) == IF w.dir = "encode" THEN w.buf ELSE <<>>

Turning(s, dir, next, w, x, o) ==
    /\ wire' = [wire EXCEPT ![s] = w] /\ todo' = [todo EXCEPT ![s] = x]
    /\ chan' = [chan EXCEPT ![Peer(s)] = @ \o o] /\ broken' \in BOOLEAN
    /\ w.dir = dir /\ w.alloc = wire[s].alloc /\ Len(w.buf) <= BufSize
    /\ ~broken' => ~broken /\ w.status = 0 /\ x = next /\ w.buf = <<>> /\ o = Outgoing(wire[s])

\* A turn: what is in the buffer goes out, or what is left of the message is lost.
LEMMA SetDirEffect ==
    ASSUME TypeInv, NEW s \in Sides, NEW dir \in {"encode", "decode"}, NEW next \in TodoSet, SetDir(s, dir, next)
    PROVE  \E w \in WireSet, x \in {<<>>, next}, o \in Seq(Bytes) : Turning(s, dir, next, w, x, o)
<1>0. /\ wire[s] \in WireSet /\ wire[s].dir \in {"encode", "decode"} /\ wire[s].alloc \in Nat
      /\ wire[s].buf \in Seq(Bytes) /\ Len(wire[s].buf) <= BufSize /\ BufSize \in Nat /\ Len(wire[s].buf) \in Nat
  BY SideTyped, WireAssumption
<1> DEFINE R == IF wire[s].dir = "encode" THEN SpaceEncode(s, BufSize + 1)
                ELSE {[w |-> [wire[s] EXCEPT !.buf = <<>>, !.status = 0], out |-> <<>>]}
<1>1. PICK r \in R :
         /\ chan' = [chan EXCEPT ![Peer(s)] = @ \o r.out]
         /\ broken' = (broken \/ r.w.status # 0)
         /\ wire' = [wire EXCEPT ![s] = [r.w EXCEPT !.dir = dir, !.buf = IF dir = "decode" THEN <<>> ELSE @]]
         /\ todo' = [todo EXCEPT ![s] = IF r.w.status # 0 THEN <<>> ELSE next]
  BY DEF SetDir
<1>2. /\ r.out \in Seq(Bytes) /\ r.w \in WireSet /\ r.w.alloc = wire[s].alloc /\ Len(r.w.buf) <= BufSize
      /\ r.w.status = 0 => r.w.buf = <<>> /\ r.out = IF wire[s].dir = "encode" THEN wire[s].buf ELSE <<>>
  <2>1. CASE wire[s].dir = "encode"
    <3>1. r \in SpaceEncode(s, BufSize + 1) /\ BufSize + 1 \in Nat
      BY <1>0, <2>1
    <3>2. /\ r.out \in Seq(Bytes) /\ r.w \in WireSet /\ r.w.alloc = wire[s].alloc /\ Len(r.w.buf) <= BufSize
          /\ r.w.status = 0 => \/ r.w.buf = wire[s].buf /\ r.out = <<>> /\ Len(wire[s].buf) + (BufSize + 1) <= BufSize
                               \/ r.w.buf = <<>> /\ r.out = wire[s].buf
      BY <3>1, SpaceEncodeIs
    <3>3. ~(Len(wire[s].buf) + (BufSize + 1) <= BufSize)
      BY <1>0
    <3> QED BY <2>1, <3>2, <3>3
  <2>2. CASE wire[s].dir = "decode"
    <3>1. r = [w |-> [wire[s] EXCEPT !.buf = <<>>, !.status = 0], out |-> <<>>]
      BY <2>2
    <3>2. r.w.buf = <<>> /\ r.w.status = 0 /\ r.w.alloc = wire[s].alloc /\ r.out = <<>> /\ r.w \in WireSet
      <4> DEFINE z == [wire[s] EXCEPT !.buf = <<>>, !.status = 0]
      <4>1. z \in WireSet /\ z.buf = <<>> /\ z.status = 0 /\ z.dir = wire[s].dir /\ z.alloc = wire[s].alloc
        <5>1. <<>> \in Seq(Bytes)
          OBVIOUS
        <5>2. z = Flushed(wire[s], <<>>, 0) /\ 0 \in {0, 1}
          BY DEF Flushed
        <5> HIDE DEF z
        <5> QED BY <1>0, <5>1, <5>2, SideFlushed
      <4>2. r.w = z /\ r.out = <<>>
        BY <3>1
      <4> HIDE DEF z
      <4> QED BY <4>1, <4>2
    <3> QED BY <3>2, <2>2, <1>0
  <2> QED BY <1>0, <2>1, <2>2
<1> HIDE DEF R
<1> DEFINE w == [r.w EXCEPT !.dir = dir, !.buf = IF dir = "decode" THEN <<>> ELSE @]
           x == IF r.w.status # 0 THEN <<>> ELSE next
<1>3. w \in WireSet /\ w.dir = dir /\ w.alloc = wire[s].alloc /\ w.status = r.w.status /\ w.buf \in {<<>>, r.w.buf}
  <2> DEFINE b == IF dir = "decode" THEN <<>> ELSE r.w.buf
  <2>1. b \in Seq(Bytes) /\ b \in {<<>>, r.w.buf}
    BY <1>2 DEF WireSet
  <2>2. w = Turned(r.w, b, dir)
    BY DEF Turned
  <2> HIDE DEF w, b
  <2> DEFINE u == r.w
  <2>3. Turned(u, b, dir) \in WireSet /\ Turned(u, b, dir).buf = b /\ Turned(u, b, dir).status = u.status
        /\ Turned(u, b, dir).dir = dir /\ Turned(u, b, dir).alloc = u.alloc
    <3> HIDE DEF u
    <3>1. u \in WireSet
      BY <1>2 DEF u
    <3> QED BY <3>1, <2>1, SideTurned
  <2> QED BY <1>2, <2>1, <2>2, <2>3
<1>4. Len(w.buf) <= BufSize
  <2>1. Len(<<>>) <= BufSize
    BY <1>0
  <2> HIDE DEF w
  <2> QED BY <1>2, <1>3, <2>1
<1>5. ~broken' => ~broken /\ w.status = 0 /\ x = next /\ w.buf = <<>> /\ r.out = IF wire[s].dir = "encode" THEN wire[s].buf ELSE <<>>
  <2>1. SUFFICES ASSUME ~broken' PROVE ~broken /\ w.status = 0 /\ x = next /\ w.buf = <<>> /\ r.out = IF wire[s].dir = "encode" THEN wire[s].buf ELSE <<>>
    OBVIOUS
  <2>2. ~broken /\ r.w.status = 0
    BY <1>1, <2>1
  <2> HIDE DEF w
  <2> QED BY <2>2, <1>2, <1>3
<1>6. broken' \in BOOLEAN
  BY <1>1
<1>7. x \in {<<>>, next} /\ todo' = [todo EXCEPT ![s] = x] /\ wire' = [wire EXCEPT ![s] = w]
  BY <1>1
<1> HIDE DEF w, x
<1>8. ~broken' => ~broken /\ w.status = 0 /\ x = next /\ w.buf = <<>> /\ r.out = Outgoing(wire[s])
  BY <1>5 DEF Outgoing
<1> DEFINE o == r.out
<1>9. Turning(s, dir, next, w, x, o)
  BY <1>1, <1>3, <1>4, <1>6, <1>7, <1>8 DEF Turning
<1>10. w \in WireSet /\ x \in {<<>>, next} /\ o \in Seq(Bytes)
  BY <1>2, <1>3, <1>7
<1> HIDE DEF o
<1> QED BY <1>9, <1>10

\* sanei_w_space of a side that decodes: the bytes that are taken are the first
\* ones of what the buffer and the stream hold, and nothing else is gone.
LEMMA Taking ==
    ASSUME TypeInv, NEW s \in Sides, NEW n \in 1 .. 2, NEW k \in SpaceDecode(s, n)
    PROVE  LET h == First(s, k, n)
               b == Took(s, k, n)
               c == SubSeq(chan[s], k + 1, Len(chan[s]))
           IN /\ h \in Seq(Bytes) /\ Len(h) = n /\ b \in Seq(Bytes) /\ Len(b) <= BufSize /\ c \in Seq(Bytes)
              /\ h \o (b \o c) = wire[s].buf \o chan[s]
<1> DEFINE B == wire[s].buf
           C == chan[s]
           x == SubSeq(C, 1, k)
           y == SubSeq(C, k + 1, Len(C))
           z == B \o x
<1>1. B \in Seq(Bytes) /\ Len(B) \in Nat /\ Len(B) <= BufSize /\ BufSize \in Nat /\ C \in Seq(Bytes) /\ Len(C) \in Nat
      /\ BufSize >= 2
  BY SideTyped, WireAssumption
<1>2. k \in 0 .. Len(C) /\ Len(B) + k >= n /\ Len(B) + k <= BufSize
  <2>1. CASE Len(B) >= n
    <3>1. k = 0
      BY <2>1 DEF SpaceDecode
    <3> HIDE DEF B, C
    <3> QED BY <2>1, <3>1, <1>1
  <2>2. CASE ~(Len(B) >= n)
    <3> DEFINE T == {Len(C), BufSize - Len(B)}
    <3>1. k \in (n - Len(B)) .. Min(T)
      BY <2>2 DEF SpaceDecode
    <3>2. T \in SUBSET Nat /\ T # {}
      <4> HIDE DEF B, C
      <4> QED BY <1>1
    <3>3. Min(T) \in T /\ \A v \in T : Min(T) <= v
      <4> HIDE DEF T
      <4> QED BY <3>2, MinIs
    <3> DEFINE m == Min(T)
    <3>4. m \in Nat /\ m <= Len(C) /\ m <= BufSize - Len(B) /\ k \in (n - Len(B)) .. m
      BY <3>1, <3>2, <3>3
    <3> HIDE DEF m, T, B, C
    <3> QED BY <3>4, <2>2, <1>1
  <2> QED BY <2>1, <2>2
<1> HIDE DEF B, C
<1>3. x \in Seq(Bytes) /\ y \in Seq(Bytes) /\ Len(x) = k
  BY <1>1, <1>2
<1>4. x \o y = C
  <2>1. 1 \in 1 .. Len(C) + 1 /\ k \in 1 - 1 .. Len(C) /\ Len(C) \in k .. Len(C)
    BY <1>1, <1>2
  <2>2. SubSeq(C, 1, k) \o SubSeq(C, k + 1, Len(C)) = SubSeq(C, 1, Len(C))
    BY <1>1, <2>1, ConcatAdjacentSubSeq
  <2>3. SubSeq(C, 1, Len(C)) = C
    BY <1>1, SubSeqFull
  <2> QED BY <2>2, <2>3
<1> HIDE DEF x, y
<1>5. z \in Seq(Bytes) /\ Len(z) = Len(B) + k
  BY <1>1, <1>3, ConcatProperties
<1> HIDE DEF z
<1> DEFINE h == SubSeq(z, 1, n)
           b == SubSeq(z, n + 1, Len(z))
<1>6. h \in Seq(Bytes) /\ b \in Seq(Bytes) /\ Len(h) = n /\ Len(b) = Len(z) - n
  <2>1. n \in Nat /\ Len(z) \in Nat /\ n <= Len(z)
    BY <1>1, <1>2, <1>5
  <2> QED BY <2>1, <1>5
<1>7. h \o b = z
  <2>1. 1 \in 1 .. Len(z) + 1 /\ n \in 1 - 1 .. Len(z) /\ Len(z) \in n .. Len(z)
    BY <1>1, <1>2, <1>5
  <2>2. SubSeq(z, 1, n) \o SubSeq(z, n + 1, Len(z)) = SubSeq(z, 1, Len(z))
    BY <1>5, <2>1, ConcatAdjacentSubSeq
  <2>3. SubSeq(z, 1, Len(z)) = z
    BY <1>5, SubSeqFull
  <2> QED BY <2>2, <2>3
<1>8. First(s, k, n) = h /\ Took(s, k, n) = b
  BY <1>5 DEF First, Took, z, x, B, C
<1> HIDE DEF h, b
<1>9. h \o (b \o y) = B \o C
  <2>1. (h \o b) \o y = h \o (b \o y)
    <3>1. h \in Seq(Bytes) /\ b \in Seq(Bytes) /\ y \in Seq(Bytes)
      BY <1>3, <1>6
    <3>9. Associates(h, b, y)
      BY <3>1, Assoc
    <3> QED BY <3>9, Zenon DEF Associates
  <2>2. (B \o x) \o y = B \o (x \o y)
    <3>1. B \in Seq(Bytes) /\ x \in Seq(Bytes) /\ y \in Seq(Bytes)
      BY <1>1, <1>3
    <3>9. Associates(B, x, y)
      BY <3>1, Assoc
    <3> QED BY <3>9, Zenon DEF Associates
  <2> QED BY <2>1, <2>2, <1>4, <1>7 DEF z
<1>10. Len(b) <= BufSize
  BY <1>1, <1>2, <1>5, <1>6
<1> QED BY <1>3, <1>6, <1>8, <1>9, <1>10 DEF y, B, C

\* What the first word of a value leads to, when it is not too large.
GetResult(s, t, v, w, x, g) ==
    \/ t = "word" /\ x = Tail(todo[s]) /\ g = Append(got[s], Word(v)) /\ w.alloc = wire[s].alloc
    \/ t = "ptr" /\ v # 0 /\ x = Tail(todo[s]) /\ g = Append(got[s], Ptr(NullPtr)) /\ w.alloc = wire[s].alloc
    \/ t = "ptr" /\ v = 0 /\ x = <<Elements(t, 1)>> \o Tail(todo[s]) /\ g = got[s] /\ w.alloc = wire[s].alloc + 2
    \/ /\ t \in {"words", "string", "chars"} /\ v >= 0 /\ x = <<Elements(t, v)>> \o Tail(todo[s]) /\ g = got[s]
       /\ w.alloc = wire[s].alloc + Scaled(t, v)

Gets(s, h, c, w, x, g) ==
    /\ Change(s, w, x, g) /\ SideIs(w, x, g)
    /\ chan' = [chan EXCEPT ![s] = c] /\ UNCHANGED <<sent, calls>> /\ broken' \in BOOLEAN
    /\ Len(h) = 2 /\ h \o (w.buf \o c) = wire[s].buf \o chan[s] /\ w.dir = "decode"
    /\ ~broken' => /\ ~broken /\ w.status = 0
                   /\ GetResult(s, todo[s][1].t, OfBinWord(h), w, x, g)

\* The first piece of a value: the value itself, or how many elements come.
LEMMA GetEffect ==
    ASSUME TypeInv, NEW s \in Sides, Get(s)
    PROVE  \E h \in Seq(Bytes), c \in Seq(Bytes), w \in WireSet, x \in Seq(OpSet), g \in Seq(Values) : Gets(s, h, c, w, x, g)
<1>0. /\ wire[s].dir = "decode" /\ wire[s].status = 0 /\ todo[s] # <<>> /\ OpsOK(todo[s])
      /\ wire[s] \in WireSet /\ wire[s].alloc \in Nat /\ wire[s].alloc >= Freed(got[s]) + Pending(todo[s])
      /\ got[s] \in Seq(Values) /\ todo[s][1].t \in Plain /\ todo[s][1].n = -1
      /\ Freed(got[s]) \in Nat /\ BufSize \in Nat /\ broken \in BOOLEAN
  <2>1. wire[s].dir = "decode" /\ wire[s].status = 0 /\ todo[s] # <<>> /\ todo[s][1].t \in Plain /\ todo[s][1].n = -1
    BY DEF Get, Decoding
  <2>2. got[s] \in Seq(Values)
    BY SideTyped
  <2> QED BY <2>1, <2>2, SideTyped, FreedIs, WireAssumption DEF TypeInv, WireTyped
<1> DEFINE t == todo[s][1].t
<1>1. Pending(todo[s]) = 0
  BY <1>0 DEF Pending
<1>2. PICK k \in SpaceDecode(s, 2) :
         LET v == OfBinWord(First(s, k, 2))
             d == Decoded(t, v)
             full == t \notin {"word", "ptr"} /\ v # 0 /\ (v < 0 \/ wire[s].alloc + d.mem > MaxMem)
         IN /\ chan' = [chan EXCEPT ![s] = SubSeq(@, k + 1, Len(@))]
            /\ wire' = [wire EXCEPT ![s].buf = Took(s, k, 2),
                          ![s].alloc = IF full THEN @ ELSE @ + d.mem,
                          ![s].status = IF full THEN 1 ELSE @]
            /\ todo' = [todo EXCEPT ![s] = IF full THEN <<>> ELSE d.ops \o Tail(@)]
            /\ got' = [got EXCEPT ![s] = @ \o d.v]
            /\ broken' = (broken \/ full)
  BY DEF Get
<1> DEFINE h == First(s, k, 2)
           b == Took(s, k, 2)
           c == SubSeq(chan[s], k + 1, Len(chan[s]))
           v == OfBinWord(h)
           d == Decoded(t, v)
           full == t \notin {"word", "ptr"} /\ v # 0 /\ (v < 0 \/ wire[s].alloc + d.mem > MaxMem)
           a == IF full THEN wire[s].alloc ELSE wire[s].alloc + d.mem
           st == IF full THEN 1 ELSE wire[s].status
           w == [dir |-> "decode", status |-> st, alloc |-> a, buf |-> b]
           x == IF full THEN <<>> ELSE d.ops \o Tail(todo[s])
           g == got[s] \o d.v
<1>3. h \in Seq(Bytes) /\ Len(h) = 2 /\ b \in Seq(Bytes) /\ Len(b) <= BufSize /\ c \in Seq(Bytes)
      /\ h \o (b \o c) = wire[s].buf \o chan[s]
  <2>1. 2 \in 1 .. 2
    OBVIOUS
  <2> QED BY <2>1, <1>2, Taking
<1>4. v \in Int /\ v \in WordRange
  <2>1. v \in WordRange
    <3> HIDE DEF h
    <3> QED BY <1>3, OfBytesIsWord
  <2> QED BY <2>1, WordBounds
<1>5. wire' = [wire EXCEPT ![s] = w] /\ todo' = [todo EXCEPT ![s] = x] /\ got' = [got EXCEPT ![s] = g]
      /\ chan' = [chan EXCEPT ![s] = c] /\ broken' = (broken \/ full)
  <2>1. wire' = [wire EXCEPT ![s] = w]
    <3>1. wire' = [wire EXCEPT ![s] = [wire[s] EXCEPT !.buf = b, !.alloc = a, !.status = st]]
      <4> HIDE DEF d, h
      <4> QED BY <1>2 DEF TypeInv, WireTyped, d, h
    <3>2. wire[s] = [dir |-> "decode", status |-> wire[s].status, alloc |-> wire[s].alloc, buf |-> wire[s].buf]
      BY <1>0 DEF WireSet
    <3> HIDE DEF b, a, st
    <3>3. [wire[s] EXCEPT !.buf = b, !.alloc = a, !.status = st] = w
      <4> DEFINE u == wire[s]
                 z == [u EXCEPT !.buf = b, !.alloc = a, !.status = st]
      <4>1. DOMAIN u = {"dir", "status", "alloc", "buf"} /\ u.dir = "decode"
        BY <3>2
      <4> HIDE DEF u
      <4>2. DOMAIN z = {"dir", "status", "alloc", "buf"} /\ z.dir = "decode" /\ z.buf = b /\ z.alloc = a /\ z.status = st
            /\ z = [f \in DOMAIN z |-> z[f]]
        BY <4>1
      <4> HIDE DEF z
      <4>3. z = w
        BY <4>2
      <4> QED BY <4>3 DEF z, u
    <3> QED BY <3>1, <3>3
  <2> QED BY <1>2, <2>1
<1>6. Tail(todo[s]) \in Seq(OpSet) /\ OpsOK(Tail(todo[s])) /\ Pending(Tail(todo[s])) = 0
  BY <1>0, OpsTail DEF OpsOK
<1>7. UNCHANGED <<sent, calls>>
  BY DEF Get
<1> HIDE DEF h, b, c
<1>8. CASE full
  <2>1. st = 1 /\ a = wire[s].alloc /\ x = <<>> /\ broken' = TRUE /\ d.v = <<>>
    <3>1. t \in {"words", "string", "chars"}
      BY <1>8, <1>0 DEF Plain
    <3>2. d.v = <<>>
      BY <3>1 DEF Decoded
    <3> QED BY <1>5, <1>8, <3>2
  <2>2. g = got[s]
    <3> HIDE DEF d
    <3> QED BY <2>1, <1>0, ConcatEmptySeq
  <2> HIDE DEF full, d, v, a, st, x, g
  <2>3. w \in WireSet /\ w.buf = b /\ w.dir = "decode" /\ w.alloc = wire[s].alloc
    BY <2>1, <1>0, <1>3 DEF WireSet
  <2> HIDE DEF w
  <2>4. SideIs(w, x, g)
    <3>1. wire[s].alloc >= Freed(g) + Pending(x)
      BY <1>0, <1>1, <2>1, <2>2, NoneOK
    <3> QED BY <3>1, <1>3, <2>1, <2>3, NoneOK DEF SideIs
  <2>5. x \in Seq(OpSet) /\ g \in Seq(Values)
    BY <2>1, <2>2, <1>0, NoneOK
  <2>6. Gets(s, h, c, w, x, g)
    BY <1>3, <1>5, <1>7, <2>1, <2>3, <2>4 DEF Change, Gets
  <2> QED BY <1>3, <2>3, <2>5, <2>6
<1>9. CASE ~full
  <2>1. st = 0 /\ a = wire[s].alloc + d.mem /\ x = d.ops \o Tail(todo[s]) /\ broken' = broken
    BY <1>0, <1>5, <1>9
  <2>2. t \in {"word", "ptr", "words", "string", "chars"}
    BY <1>0 DEF Plain
  <2>3. /\ x \in Seq(OpSet) /\ OpsOK(x) /\ g \in Seq(Values)
        /\ d.mem \in Nat /\ Freed(g) + Pending(x) = Freed(got[s]) + d.mem
        /\ (a = wire[s].alloc + d.mem => GetResult(s, t, v, [alloc |-> a], x, g))
    <3>1. CASE t = "word" \/ (t = "ptr" /\ v # 0)
      <4> DEFINE f == IF t = "word" THEN Word(v) ELSE Ptr(NullPtr)
      <4>1. d.v = <<f>> /\ d.ops = <<>> /\ d.mem = 0
        BY <3>1 DEF Decoded
      <4>2. x = Tail(todo[s])
        <5> HIDE DEF d
        <5> QED BY <2>1, <4>1, <1>6, ConcatEmptySeq
      <4>3. f \in Values /\ FreedBy(f) = 0
        BY <1>4 DEF Values, Word, Ptr, Plain, FreedBy, NullPtr
      <4>4. g = Append(got[s], f)
        <5> HIDE DEF d, f
        <5> QED BY <1>0, <4>1, <4>3, AppendIsConcat
      <4>5. Freed(Append(got[s], f)) = Freed(got[s]) + 0 /\ Append(got[s], f) \in Seq(Values)
        <5> HIDE DEF f
        <5> QED BY <1>0, <4>3, FreedIs, AppendProperties
      <4> HIDE DEF d, x, g, a
      <4>6. a = wire[s].alloc + d.mem => GetResult(s, t, v, [alloc |-> a], x, g)
        <5>1. a = wire[s].alloc + d.mem => a = wire[s].alloc
          BY <1>0, <4>1
        <5>2. CASE t = "word"
          <6>1. g = Append(got[s], Word(v))
            BY <4>4, <5>2
          <6> QED BY <4>2, <5>1, <5>2, <6>1 DEF GetResult
        <5>3. CASE t = "ptr" /\ v # 0
          <6>1. g = Append(got[s], Ptr(NullPtr))
            BY <4>4, <5>3
          <6> QED BY <4>2, <5>1, <5>3, <6>1 DEF GetResult
        <5> QED BY <3>1, <5>2, <5>3
      <4> QED BY <1>0, <1>6, <2>1, <4>1, <4>2, <4>4, <4>5, <4>6
    <3>2. CASE (t = "ptr" /\ v = 0) \/ t \in {"words", "string", "chars"}
      <4> DEFINE n == IF t = "ptr" THEN 1 ELSE v
                 o == Elements(t, n)
      <4>1. v >= 0
        <5>1. CASE t = "ptr"
          BY <5>1, <3>2
        <5>2. CASE t # "ptr"
          <6>1. v # 0 => ~(v < 0)
            BY <1>9, <3>2, <5>2
          <6> HIDE DEF v
          <6> QED BY <6>1, <1>4
        <5> QED BY <5>1, <5>2
      <4>2. n \in Nat
        <5> HIDE DEF v
        <5> QED BY <4>1, <1>4
      <4>3. d.v = <<>> /\ d.ops = <<o>> /\ d.mem = Scaled(t, n)
        <5> HIDE DEF v
        <5>1. CASE t = "ptr"
          BY <3>2, <5>1 DEF Decoded, Scaled
        <5>2. CASE t = "words"
          BY <3>2, <5>2 DEF Decoded, Scaled
        <5>3. CASE t \in {"string", "chars"}
          BY <3>2, <5>3 DEF Decoded, Scaled
        <5> QED BY <5>1, <5>2, <5>3, <3>2
      <4>4. o \in OpSet /\ o.n # -1 /\ o.t \in Plain \ {"word"} /\ o.n = n /\ o.t = t /\ Len(o.acc) = 0
        <5>1. o = [t |-> t, n |-> n, acc |-> <<>>]
          BY DEF Elements
        <5>2. t \in Plain \ {"word"} /\ t \in AllTypes
          BY <1>0, <3>2 DEF AllTypes
        <5> HIDE DEF o, n, t
        <5> QED BY <5>1, <5>2, <4>2 DEF OpSet
      <4>5. g = got[s]
        <5> HIDE DEF d
        <5> QED BY <4>3, <1>0, ConcatEmptySeq
      <4>6. x = <<o>> \o Tail(todo[s])
        <5> HIDE DEF d, o
        <5> QED BY <2>1, <4>3
      <4>7. OpsOK(x) /\ Pending(x) = Scaled(t, n + 0) /\ x \in Seq(OpSet)
        <5> HIDE DEF d, o, x, n, t
        <5>1. OpsOK(x) /\ Pending(x) = Scaled(o.t, o.n + Len(o.acc))
          BY <1>0, <4>4, <4>6, OpsBegun
        <5> QED BY <5>1, <4>4 DEF OpsOK
      <4>8. Scaled(t, n + 0) = Scaled(t, n) /\ Scaled(t, n) \in Nat
        <5> HIDE DEF n, t
        <5> QED BY <4>2 DEF Scaled
      <4>9. a = wire[s].alloc + d.mem => GetResult(s, t, v, [alloc |-> a], x, g)
        <5>1. CASE t = "ptr"
          <6>1. n = 1 /\ v = 0
            BY <3>2, <5>1
          <6>2. Scaled(t, n) = 2
            BY <6>1, <5>1 DEF Scaled
          <6> HIDE DEF d, x, g, a, n, v, t
          <6> QED BY <5>1, <6>1, <6>2, <4>3, <4>5, <4>6 DEF GetResult, o
        <5>2. CASE t # "ptr"
          <6>1. n = v
            BY <5>2
          <6> HIDE DEF d, x, g, a, n, v, t
          <6> QED BY <5>2, <6>1, <3>2, <4>1, <4>3, <4>5, <4>6 DEF GetResult, o
        <5> QED BY <5>1, <5>2
      <4> HIDE DEF d, x, g, a, n, o, t
      <4> QED BY <1>0, <4>3, <4>5, <4>7, <4>8, <4>9
    <3> QED BY <2>2, <3>1, <3>2
  <2> HIDE DEF full, d, v, a, st, x, g
  <2>4. w \in WireSet /\ w.buf = b /\ w.dir = "decode" /\ w.alloc = a /\ w.status = 0
    <3>1. a \in Nat
      BY <1>0, <2>1, <2>3
    <3> QED BY <3>1, <2>1, <1>3 DEF WireSet
  <2>5. GetResult(s, t, v, w, x, g)
    <3>1. GetResult(s, t, v, [alloc |-> a], x, g)
      BY <2>1, <2>3
    <3> HIDE DEF w, t
    <3> QED BY <3>1, <2>4 DEF GetResult
  <2> HIDE DEF w
  <2>6. SideIs(w, x, g)
    <3>1. w.alloc >= Freed(g) + Pending(x)
      BY <1>0, <1>1, <2>1, <2>3, <2>4
    <3> QED BY <3>1, <1>3, <2>3, <2>4 DEF SideIs
  <2>7. Gets(s, h, c, w, x, g)
    BY <1>0, <1>3, <1>5, <1>7, <2>1, <2>4, <2>5, <2>6 DEF Change, Gets, v
  <2> QED BY <1>3, <2>3, <2>4, <2>7
<1> QED BY <1>8, <1>9

\* One element more of a value that is being read.
LEMMA WithElementIs ==
    ASSUME NEW o \in OpSet, o.n \in Nat, o.n > 0, NEW h \in Seq(Bytes), Len(h) = BytesOf(o)
    PROVE  LET y == WithElement(o, h)
               e == IF BytesOf(o) = 2 THEN OfBinWord(h) ELSE h[1]
           IN /\ y \in OpSet /\ y.t = o.t /\ y.n = o.n - 1 /\ y.acc = Append(o.acc, e) /\ e \in Int
              /\ Len(y.acc) = Len(o.acc) + 1 /\ Len(o.acc) \in Nat
<1> DEFINE y == WithElement(o, h)
           e == IF BytesOf(o) = 2 THEN OfBinWord(h) ELSE h[1]
           a == Append(o.acc, e)
<1>1. BytesOf(o) \in 1 .. 2
  BY DEF BytesOf
<1>2. e \in Int
  <2>1. CASE BytesOf(o) = 2
    BY <2>1, OfBytesIsWord, WordBounds
  <2>2. CASE BytesOf(o) # 2
    <3>1. Len(h) = 1
      BY <1>1, <2>2
    <3>2. h[1] \in Bytes
      BY <3>1
    <3> QED BY <2>2, <3>2, WordBounds DEF Bytes
  <2> QED BY <2>1, <2>2
<1>3. o.acc \in Seq(Int) /\ o.t \in AllTypes
  BY DEF OpSet
<1>4. a \in Seq(Int) /\ Len(a) = Len(o.acc) + 1 /\ Len(o.acc) \in Nat
  <2> HIDE DEF e
  <2> QED BY <1>2, <1>3, AppendProperties, LenProperties
<1>5. y = [o EXCEPT !.n = @ - 1, !.acc = a]
  BY DEF WithElement
<1> HIDE DEF a, e
<1>6. o = [t |-> o.t, n |-> o.n, acc |-> o.acc]
  BY DEF OpSet
<1>7. y = [t |-> o.t, n |-> o.n - 1, acc |-> a]
  BY <1>5, <1>6
<1> HIDE DEF y
<1>8. o.n - 1 \in Nat
  OBVIOUS
<1>9. y \in OpSet /\ y.t = o.t /\ y.n = o.n - 1 /\ y.acc = a
  BY <1>3, <1>4, <1>7, <1>8 DEF OpSet
<1> QED BY <1>2, <1>4, <1>9 DEF a, e, y

GetsOne(s, h, c, w, x) ==
    /\ Change(s, w, x, got[s]) /\ SideIs(w, x, got[s])
    /\ chan' = [chan EXCEPT ![s] = c] /\ UNCHANGED <<sent, broken, calls>>
    /\ Len(h) = BytesOf(todo[s][1]) /\ h \o (w.buf \o c) = wire[s].buf \o chan[s]
    /\ w.dir = "decode" /\ w.status = 0 /\ w.alloc = wire[s].alloc
    /\ x = <<WithElement(todo[s][1], h)>> \o Tail(todo[s])

\* An element is taken: one less is to come, and the count stays.
LEMMA GetElementEffect ==
    ASSUME TypeInv, NEW s \in Sides, GetElement(s)
    PROVE  \E h \in Seq(Bytes), c \in Seq(Bytes), w \in WireSet, x \in Seq(OpSet) : GetsOne(s, h, c, w, x)
<1>0. /\ wire[s].dir = "decode" /\ wire[s].status = 0 /\ todo[s] # <<>> /\ OpsOK(todo[s])
      /\ wire[s] \in WireSet /\ wire[s].alloc \in Nat /\ wire[s].alloc >= Freed(got[s]) + Pending(todo[s])
      /\ todo[s][1].n > 0
  <2>1. wire[s].dir = "decode" /\ wire[s].status = 0 /\ todo[s] # <<>> /\ todo[s][1].n > 0
    BY DEF GetElement, Decoding
  <2> QED BY <2>1, SideTyped
<1> DEFINE op == todo[s][1]
           n == BytesOf(op)
<1>1. op \in OpSet /\ op.n \in Nat /\ op.n > 0 /\ op.t \in Plain \ {"word"} /\ n \in 1 .. 2
  <2>1. todo[s] \in Seq(OpSet) /\ 1 \in 1 .. Len(todo[s])
    BY <1>0 DEF OpsOK
  <2>2. op \in OpSet
    BY <2>1
  <2>3. op.n # -1 /\ op.n \in Nat
    BY <2>2, <1>0 DEF OpSet
  <2>4. op.t \in Plain \ {"word"}
    BY <1>0, <2>1, <2>3 DEF OpsOK
  <2> QED BY <1>0, <2>2, <2>3, <2>4 DEF BytesOf
<1>2. PICK k \in SpaceDecode(s, n) :
            /\ chan' = [chan EXCEPT ![s] = SubSeq(@, k + 1, Len(@))]
            /\ wire' = [wire EXCEPT ![s].buf = Took(s, k, n)]
            /\ todo' = [todo EXCEPT ![s] = <<WithElement(op, First(s, k, n))>> \o Tail(@)]
  BY DEF GetElement
<1> DEFINE h == First(s, k, n)
           b == Took(s, k, n)
           c == SubSeq(chan[s], k + 1, Len(chan[s]))
           o == WithElement(op, h)
           w == [dir |-> "decode", status |-> 0, alloc |-> wire[s].alloc, buf |-> b]
           x == <<o>> \o Tail(todo[s])
<1>3. h \in Seq(Bytes) /\ Len(h) = n /\ b \in Seq(Bytes) /\ Len(b) <= BufSize /\ c \in Seq(Bytes)
      /\ h \o (b \o c) = wire[s].buf \o chan[s]
  <2> HIDE DEF n
  <2> QED BY <1>1, <1>2, Taking
<1>4. UNCHANGED <<got, sent, broken, calls>>
  BY DEF GetElement
<1>5. chan' = [chan EXCEPT ![s] = c] /\ todo' = [todo EXCEPT ![s] = x] /\ got' = [got EXCEPT ![s] = got[s]]
  BY <1>2, <1>4 DEF TypeInv, WireTyped
<1>6. wire' = [wire EXCEPT ![s] = w]
  <2>1. wire' = [wire EXCEPT ![s] = [wire[s] EXCEPT !.buf = b]]
    BY <1>2 DEF TypeInv, WireTyped
  <2>2. wire[s] = [dir |-> "decode", status |-> 0, alloc |-> wire[s].alloc, buf |-> wire[s].buf]
    BY <1>0 DEF WireSet
  <2> HIDE DEF b
  <2>3. [wire[s] EXCEPT !.buf = b] = w
    BY <2>2
  <2> QED BY <2>1, <2>3
<1> HIDE DEF h, b, c
<1>7. o \in OpSet /\ o.t = op.t /\ o.n = op.n - 1 /\ Len(o.acc) = Len(op.acc) + 1 /\ Len(op.acc) \in Nat
  <2> HIDE DEF op
  <2> QED BY <1>1, <1>3, WithElementIs DEF n
<1> HIDE DEF o, n
<1>8. OpsOK(x) /\ Pending(x) = Scaled(o.t, o.n + Len(o.acc)) /\ x \in Seq(OpSet)
  <2>1. o.n # -1 /\ o.t \in Plain \ {"word"}
    BY <1>1, <1>7
  <2>2. OpsOK(x) /\ Pending(x) = Scaled(o.t, o.n + Len(o.acc))
    <3> HIDE DEF x
    <3> QED BY <1>0, <1>7, <2>1, OpsBegun DEF x
  <2> QED BY <2>2 DEF OpsOK
<1>9. Pending(x) = Pending(todo[s])
  <2>1. o.n + Len(o.acc) = op.n + Len(op.acc)
    <3> DEFINE l == Len(op.acc)
               m == Len(o.acc)
               i == op.n
    <3>1. o.n = i - 1 /\ m = l + 1 /\ l \in Nat /\ i \in Nat
      BY <1>1, <1>7
    <3> HIDE DEF l, m, i, op
    <3>2. o.n + m = i + l
      BY <3>1
    <3> QED BY <3>2 DEF l, m, i
  <2>2. Pending(todo[s]) = Scaled(op.t, op.n + Len(op.acc))
    BY <1>0, <1>1 DEF Pending
  <2> QED BY <1>7, <1>8, <2>1, <2>2
<1> HIDE DEF x, op
<1>10. w \in WireSet /\ w.buf = b /\ w.dir = "decode" /\ w.status = 0 /\ w.alloc = wire[s].alloc
  BY <1>0, <1>3 DEF WireSet
<1> HIDE DEF w
<1>11. SideIs(w, x, got[s])
  BY <1>0, <1>3, <1>8, <1>9, <1>10 DEF SideIs
<1>12. x = <<WithElement(todo[s][1], h)>> \o Tail(todo[s]) /\ n = BytesOf(todo[s][1])
  BY DEF x, o, op, n
<1>13. GetsOne(s, h, c, w, x)
  BY <1>3, <1>4, <1>5, <1>6, <1>8, <1>10, <1>11, <1>12 DEF Change, GetsOne
<1> QED BY <1>3, <1>8, <1>10, <1>13

\* A value that is complete takes no more than its elements.
LEMMA CompleteIs ==
    ASSUME NEW o \in OpSet, o.t \in Plain \ {"word"}
    PROVE  Complete(o) \in Values /\ FreedBy(Complete(o)) <= Scaled(o.t, Len(o.acc)) /\ Len(o.acc) \in Nat
<1>1. o.acc \in Seq(Int) /\ Len(o.acc) \in Nat
  BY DEF OpSet
<1> DEFINE a == o.acc
<1>2. CASE o.t = "words"
  <2>1. Complete(o) = [t |-> "words", v |-> a]
    BY <1>2 DEF Complete, Words
  <2> HIDE DEF a
  <2> QED BY <1>1, <1>2, <2>1 DEF Values, Plain, FreedBy, Scaled, a
<1>3. CASE o.t = "chars"
  <2>1. Complete(o) = [t |-> "chars", v |-> a]
    BY <1>3 DEF Complete, Chars
  <2> HIDE DEF a
  <2> QED BY <1>1, <1>3, <2>1 DEF Values, Plain, FreedBy, Scaled, a
<1>4. CASE o.t = "ptr"
  <2>1. Complete(o) = [t |-> "ptr", v |-> a]
    BY <1>4 DEF Complete, Ptr
  <2> HIDE DEF a
  <2>2. a # <<>> => Len(a) >= 1
    BY <1>1 DEF a
  <2>3. Len(a) \in Nat /\ a \in Seq(Int)
    BY <1>1 DEF a
  <2>4. FreedBy(Complete(o)) = IF a = <<>> THEN 0 ELSE 2
    BY <2>1 DEF FreedBy, NullPtr
  <2>5. Scaled(o.t, Len(a)) = 2 * Len(a)
    BY <1>4 DEF Scaled
  <2>6. FreedBy(Complete(o)) <= Scaled(o.t, Len(a))
    BY <2>2, <2>3, <2>4, <2>5
  <2>7. Complete(o) \in Values
    BY <2>1, <2>3 DEF Values, Plain
  <2> QED BY <1>1, <2>6, <2>7 DEF a
<1>5. CASE o.t = "string"
  <2> DEFINE v == IF a = <<>> THEN Null ELSE SubSeq(a, 1, Len(a) - 1)
  <2>1. Complete(o) = [t |-> "string", v |-> v]
    BY <1>5 DEF Complete, String
  <2>2. v \in Seq(Int) /\ (a # <<>> => Len(v) = Len(a) - 1)
    <3>1. CASE a = <<>>
      BY <3>1 DEF Null
    <3>2. CASE a # <<>>
      <4>1. a \in Seq(Int) /\ Len(a) \in Nat /\ Len(a) >= 1
        BY <1>1, <3>2
      <4> HIDE DEF a
      <4>2. SubSeq(a, 1, Len(a) - 1) \in Seq(Int) /\ Len(SubSeq(a, 1, Len(a) - 1)) = Len(a) - 1
        <5> DEFINE l == Len(a)
                   j == l - 1
        <5>1. j \in 0 .. l /\ l \in Nat /\ j - 1 + 1 = j
          <6> HIDE DEF l
          <6> QED BY <4>1 DEF l
        <5> HIDE DEF j
        <5>2. SubSeq(a, 1, j) \in Seq(Int) /\ Len(SubSeq(a, 1, j)) = j
          BY <4>1, <5>1
        <5> QED BY <5>2 DEF j
      <4> QED BY <3>2, <4>2
    <3> QED BY <3>1, <3>2
  <2>3. a = <<>> => v = Null
    OBVIOUS
  <2>4. Len(a) \in Nat /\ (a # <<>> => Len(a) >= 1)
    BY <1>1
  <2> HIDE DEF v
  <2>5. StrLen(v) \in 0 .. Len(v) /\ Len(v) \in Nat
    BY <2>2, StrLenIs
  <2>6. FreedBy(Complete(o)) = IF v = Null THEN 0 ELSE StrLen(v) + 1
    BY <2>1 DEF FreedBy
  <2>7. Scaled(o.t, Len(a)) = Len(a)
    BY <1>5 DEF Scaled
  <2> HIDE DEF a
  <2>8. FreedBy(Complete(o)) <= Scaled(o.t, Len(a))
    <3> DEFINE k == Len(a)
               j == Len(v)
               i == StrLen(v)
    <3>1. CASE v = Null
      BY <3>1, <2>4, <2>6, <2>7
    <3>2. CASE v # Null
      <4>1. a # <<>>
        BY <3>2, <2>3
      <4>2. j = k - 1 /\ i \in 0 .. j /\ j \in Nat /\ k \in Nat
        BY <4>1, <2>2, <2>4, <2>5
      <4> HIDE DEF i, j, k
      <4>3. i + 1 <= k
        BY <4>2
      <4> QED BY <3>2, <4>3, <2>6, <2>7 DEF i, k
    <3> QED BY <3>1, <3>2
  <2>9. Complete(o) \in Values
    BY <2>1, <2>2 DEF Values, Plain
  <2> QED BY <1>1, <2>8, <2>9 DEF a
<1> QED BY <1>2, <1>3, <1>4, <1>5 DEF Plain

\* The value is finished and given to the caller.
LEMMA GetEndEffect ==
    ASSUME TypeInv, NEW s \in Sides, GetEnd(s)
    PROVE  LET x == Tail(todo[s])
               g == Append(got[s], Complete(todo[s][1]))
           IN /\ Change(s, wire[s], x, g) /\ SideIs(wire[s], x, g) /\ x \in Seq(OpSet) /\ g \in Seq(Values)
              /\ UNCHANGED <<wire, chan, sent, broken, calls>>
              /\ wire[s].dir = "decode" /\ todo[s] # <<>> /\ todo[s][1].n = 0 /\ OpsOK(todo[s])
<1>0. /\ wire[s].dir = "decode" /\ wire[s].status = 0 /\ todo[s] # <<>> /\ OpsOK(todo[s])
      /\ wire[s] \in WireSet /\ wire[s].alloc \in Nat /\ wire[s].alloc >= Freed(got[s]) + Pending(todo[s])
      /\ todo[s][1].n = 0 /\ Len(wire[s].buf) <= BufSize /\ got[s] \in Seq(Values)
  <2>1. wire[s].dir = "decode" /\ wire[s].status = 0 /\ todo[s] # <<>> /\ todo[s][1].n = 0
    BY DEF GetEnd, Decoding
  <2> QED BY <2>1, SideTyped
<1> DEFINE o == todo[s][1]
           f == Complete(o)
           x == Tail(todo[s])
           g == Append(got[s], f)
<1>1. o \in OpSet /\ o.n = 0 /\ o.t \in Plain \ {"word"}
  <2>1. todo[s] \in Seq(OpSet) /\ 1 \in 1 .. Len(todo[s])
    BY <1>0 DEF OpsOK
  <2>2. o \in OpSet
    BY <2>1
  <2>4. o.t \in Plain \ {"word"}
    BY <1>0, <2>1 DEF OpsOK
  <2> QED BY <1>0, <2>2, <2>4
<1>2. f \in Values /\ FreedBy(f) <= Scaled(o.t, Len(o.acc)) /\ Len(o.acc) \in Nat
  <2> HIDE DEF o
  <2> QED BY <1>1, CompleteIs
<1>3. Pending(todo[s]) = Scaled(o.t, Len(o.acc))
  <2>1. Pending(todo[s]) = Scaled(o.t, o.n + Len(o.acc))
    BY <1>0, <1>1 DEF Pending
  <2>2. o.n + Len(o.acc) = Len(o.acc)
    <3> DEFINE l == Len(o.acc)
    <3>1. l \in Nat
      BY <1>2
    <3> HIDE DEF l
    <3>2. 0 + l = l
      BY <3>1
    <3> QED BY <3>2, <1>1 DEF l
  <2> QED BY <2>1, <2>2
<1>4. OpsOK(x) /\ Pending(x) = 0 /\ x \in Seq(OpSet)
  BY <1>0, OpsTail DEF OpsOK
<1> HIDE DEF f, x
<1>5. g \in Seq(Values) /\ Freed(g) = Freed(got[s]) + FreedBy(f) /\ Freed(got[s]) \in Nat /\ FreedBy(f) \in Nat
  BY <1>0, <1>2, FreedIs, FreedByIs, AppendProperties
<1> HIDE DEF g
<1>6. wire[s].alloc >= Freed(g) + Pending(x)
  <2> DEFINE sc == Scaled(o.t, Len(o.acc))
  <2>1. wire[s].alloc >= Freed(got[s]) + sc /\ FreedBy(f) <= sc /\ sc \in Int
    BY <1>0, <1>2, <1>3 DEF Scaled
  <2> HIDE DEF sc
  <2> QED BY <1>0, <1>4, <1>5, <2>1
<1>7. SideIs(wire[s], x, g)
  BY <1>0, <1>4, <1>6 DEF SideIs
<1>8. UNCHANGED <<wire, chan, sent, broken, calls>>
  BY DEF GetEnd
<1>9. Change(s, wire[s], x, g)
  <2>1. got' = [got EXCEPT ![s] = g] /\ todo' = [todo EXCEPT ![s] = x]
    BY DEF GetEnd, g, x, f
  <2>2. wire' = [wire EXCEPT ![s] = wire[s]]
    BY <1>8 DEF TypeInv, WireTyped
  <2> QED BY <2>1, <2>2 DEF Change
<1> QED BY <1>0, <1>4, <1>5, <1>7, <1>8, <1>9 DEF x, g, f

LEMMA OpsJoin ==
    ASSUME NEW types \in Seq(AllTypes), NEW r, OpsOK(r), \A i \in 1 .. Len(r) : r[i].n = -1
    PROVE  LET y == Ops(types) \o r IN
           /\ OpsOK(y) /\ Pending(y) = 0 /\ Len(y) = Len(types) + Len(r) /\ Len(types) \in Nat /\ Len(r) \in Nat
           /\ \A i \in 1 .. Len(types) : y[i] = Op(types[i])
           /\ \A i \in 1 .. Len(r) : y[Len(types) + i] = r[i]
<1> DEFINE o == Ops(types)
           y == o \o r
           a == Len(types)
           b == Len(r)
<1>1. o \in Seq(OpSet) /\ Len(o) = a /\ (\A i \in 1 .. a : o[i] = Op(types[i])) /\ a \in Nat
  BY OpsAre DEF OpsOK
<1>2. r \in Seq(OpSet) /\ b \in Nat /\ \A i \in 1 .. b : r[i] = Op(r[i].t)
  BY DEF OpsOK
<1>3. \A i \in 1 .. a : Op(types[i]).n = -1 /\ Op(types[i]) = Op(Op(types[i]).t)
  <2>1. \A i \in 1 .. a : types[i] \in AllTypes
    OBVIOUS
  <2> QED BY <2>1, NewOpIs
<1> HIDE DEF o
<1>4. y \in Seq(OpSet) /\ Len(y) = Len(o) + Len(r) /\ \A i \in 1 .. Len(o) + Len(r) : y[i] = IF i <= Len(o) THEN o[i] ELSE r[i - Len(o)]
  BY <1>1, <1>2, ConcatProperties
<1> HIDE DEF y
<1>5. y \in Seq(OpSet) /\ Len(y) = a + b /\ \A i \in 1 .. a + b : y[i] = IF i <= a THEN o[i] ELSE r[i - a]
  BY <1>1, <1>4
<1>9. \A i \in 1 .. b : r[i].n = -1
  OBVIOUS
<1> HIDE DEF a, b
<1>6. \A i \in 1 .. a : y[i] = Op(types[i])
  BY <1>1, <1>2, <1>5
<1>7. \A i \in 1 .. b : y[a + i] = r[i]
  <2>1. ASSUME NEW i \in 1 .. b PROVE y[a + i] = r[i]
    <3>1. a + i \in 1 .. a + b /\ ~(a + i <= a) /\ (a + i) - a = i
      BY <1>1, <1>2
    <3> QED BY <3>1, <1>5
  <2> QED BY <2>1
<1>8. \A i \in 1 .. a + b : y[i].n = -1 /\ y[i] = Op(y[i].t)
  <2>1. ASSUME NEW i \in 1 .. a + b PROVE y[i].n = -1 /\ y[i] = Op(y[i].t)
    <3>1. CASE i <= a
      BY <3>1, <1>1, <1>2, <1>3, <1>6
    <3>2. CASE ~(i <= a)
      <4>1. i - a \in 1 .. b /\ a + (i - a) = i
        BY <3>2, <1>1, <1>2
      <4> QED BY <4>1, <1>2, <1>7, <1>9
    <3> QED BY <3>1, <3>2
  <2> QED BY <2>1
<1>10. OpsOK(y)
  <2>1. Len(y) = a + b
    BY <1>5
  <2> QED BY <2>1, <1>5, <1>8 DEF OpsOK
<1>11. Pending(y) = 0
  <2>1. y # <<>> => 1 \in 1 .. a + b
    BY <1>1, <1>2, <1>5
  <2> QED BY <2>1, <1>8 DEF Pending
<1> QED BY <1>1, <1>2, <1>5, <1>6, <1>7, <1>10, <1>11 DEF a, b, y, o

\* What follows an operation that depends on the values so far.
Following(s, t) ==
    IF t = "action" THEN IF Version < 3 \/ LastWord(s) # SetAuto THEN <<"word", "word", "value">> ELSE <<>>
    ELSE IF got[s][Len(got[s]) - 1].v[1] = TypeString THEN <<"chars">> ELSE <<"words">>

\* The server reads the procedure and knows what comes next.
LEMMA DispatchEffect ==
    ASSUME TypeInv, NEW s \in Sides, Dispatch(s)
    PROVE  LET x == Ops(Following(s, todo[s][1].t)) \o Tail(todo[s])
           IN /\ Change(s, wire[s], x, got[s]) /\ SideIs(wire[s], x, got[s]) /\ x \in Seq(OpSet)
              /\ UNCHANGED <<wire, chan, got, sent, broken, calls>>
              /\ wire[s].dir = "decode" /\ todo[s] # <<>> /\ todo[s][1].n = -1 /\ OpsOK(todo[s])
              /\ todo[s][1].t \in {"action", "value"}
              /\ Following(s, todo[s][1].t) \in Seq(AllTypes)
<1>0. /\ wire[s].dir = "decode" /\ wire[s].status = 0 /\ todo[s] # <<>> /\ OpsOK(todo[s])
      /\ wire[s] \in WireSet /\ wire[s].alloc \in Nat /\ wire[s].alloc >= Freed(got[s]) + Pending(todo[s])
      /\ todo[s][1].t \in {"action", "value"} /\ Len(wire[s].buf) <= BufSize /\ got[s] \in Seq(Values)
  <2>1. wire[s].dir = "decode" /\ wire[s].status = 0 /\ todo[s] # <<>> /\ todo[s][1].t \in {"action", "value"}
    BY DEF Dispatch, Decoding
  <2> QED BY <2>1, SideTyped
<1> DEFINE next == Following(s, todo[s][1].t)
           r == Tail(todo[s])
           x == Ops(next) \o r
<1>1. todo[s][1].n = -1
  <2>1. 1 \in 1 .. Len(todo[s])
    BY <1>0 DEF OpsOK
  <2>2. todo[s][1].t \notin Plain
    BY <1>0 DEF Plain
  <2> QED BY <1>0, <2>1, <2>2 DEF OpsOK
<1>2. Pending(todo[s]) = 0
  BY <1>1 DEF Pending
<1>3. next \in Seq(AllTypes)
  <2>1. <<"word", "word", "value">> \in Seq(AllTypes) /\ <<>> \in Seq(AllTypes) /\ <<"chars">> \in Seq(AllTypes)
        /\ <<"words">> \in Seq(AllTypes)
    BY DEF AllTypes, Plain
  <2> QED BY <2>1 DEF Following
<1>4. OpsOK(r) /\ \A i \in 1 .. Len(r) : r[i].n = -1
  <2>1. OpsOK(r) /\ Len(r) = Len(todo[s]) - 1 /\ \A i \in 1 .. Len(todo[s]) - 1 : r[i].n = -1
    BY <1>0, OpsTail
  <2> HIDE DEF r
  <2> QED BY <2>1
<1>5. todo' = [todo EXCEPT ![s] = x]
  BY DEF Dispatch, Following
<1> HIDE DEF r
<1>6. OpsOK(x) /\ Pending(x) = 0
  <2> HIDE DEF next
  <2> QED BY <1>3, <1>4, OpsJoin
<1> HIDE DEF next, x
<1>7. x \in Seq(OpSet)
  BY <1>6 DEF OpsOK
<1>8. SideIs(wire[s], x, got[s])
  <2>1. wire[s].alloc >= Freed(got[s]) + Pending(x)
    BY <1>0, <1>2, <1>6
  <2> QED BY <2>1, <1>0, <1>6 DEF SideIs
<1>9. UNCHANGED <<wire, chan, got, sent, broken, calls>>
  BY DEF Dispatch
<1>10. Change(s, wire[s], x, got[s])
  <2>1. wire' = [wire EXCEPT ![s] = wire[s]] /\ got' = [got EXCEPT ![s] = got[s]]
    BY <1>9 DEF TypeInv, WireTyped
  <2> QED BY <2>1, <1>5 DEF Change
<1> QED BY <1>0, <1>1, <1>3, <1>7, <1>8, <1>9, <1>10 DEF x, r, next

\* A stream that ends fails the side that reads it.
LEMMA ReadFailsEffect ==
    ASSUME TypeInv, NEW s \in Sides, ReadFails(s)
    PROVE  \E w \in WireSet :
             /\ Change(s, w, <<>>, got[s]) /\ SideIs(w, <<>>, got[s])
             /\ UNCHANGED <<chan, sent, calls>> /\ broken' = TRUE
<1>0. /\ wire[s].dir = "decode" /\ OpsOK(todo[s]) /\ Freed(got[s]) \in Nat
      /\ wire[s] \in WireSet /\ wire[s].alloc \in Nat /\ wire[s].alloc >= Freed(got[s]) + Pending(todo[s])
      /\ Pending(todo[s]) \in Nat /\ Len(wire[s].buf) <= BufSize /\ wire[s].buf \in Seq(Bytes)
  <2>1. wire[s].dir = "decode" /\ got[s] \in Seq(Values)
    BY SideTyped DEF ReadFails, Decoding
  <2> QED BY <2>1, SideTyped, FreedIs, PendingIsNat
<1> DEFINE w == [dir |-> "decode", status |-> 1, alloc |-> wire[s].alloc, buf |-> wire[s].buf]
<1>1. w = [wire[s] EXCEPT !.status = 1]
  <2>1. wire[s] = [dir |-> "decode", status |-> wire[s].status, alloc |-> wire[s].alloc, buf |-> wire[s].buf]
    BY <1>0 DEF WireSet
  <2> QED BY <2>1
<1>2. w \in WireSet /\ w.dir = "decode" /\ w.alloc = wire[s].alloc /\ w.buf = wire[s].buf
  BY <1>0 DEF WireSet
<1>3. UNCHANGED <<chan, got, sent, calls>> /\ broken' = TRUE
  BY DEF ReadFails
<1>4. Change(s, w, <<>>, got[s])
  <2>1. wire' = [wire EXCEPT ![s] = w] /\ todo' = [todo EXCEPT ![s] = <<>>]
    <3>1. wire' = [wire EXCEPT ![s] = [wire[s] EXCEPT !.status = 1]] /\ todo' = [todo EXCEPT ![s] = <<>>]
      BY DEF ReadFails, TypeInv, WireTyped
    <3> HIDE DEF w
    <3> QED BY <3>1, <1>1
  <2>2. got' = [got EXCEPT ![s] = got[s]]
    BY <1>3 DEF TypeInv, WireTyped
  <2> HIDE DEF w
  <2> QED BY <2>1, <2>2 DEF Change
<1> HIDE DEF w
<1>5. SideIs(w, <<>>, got[s])
  <2>1. w.alloc >= Freed(got[s]) + Pending(<<>>)
    BY <1>0, <1>2, NoneOK
  <2> QED BY <2>1, <1>0, <1>2, NoneOK DEF SideIs
<1> QED BY <1>2, <1>3, <1>4, <1>5

Turns(s, dir, next, w, x, o) ==
    /\ Change(s, w, x, got[s]) /\ SideIs(w, x, got[s])
    /\ chan' = [chan EXCEPT ![Peer(s)] = @ \o o] /\ broken' \in BOOLEAN
    /\ w.dir = dir /\ w.alloc = wire[s].alloc
    /\ ~broken' => /\ ~broken /\ w.status = 0 /\ x = next /\ w.buf = <<>>
                   /\ o = Outgoing(wire[s])

\* What a side that has nothing to do turns to.
LEMMA TurnEffect ==
    ASSUME TypeInv, NEW s \in Sides, Idle(s), NEW dir \in {"encode", "decode"}, NEW next \in TodoSet,
           SetDir(s, dir, next), got' = got,
           dir = "encode" => next \in Seq(Piece), dir = "decode" => OpsOK(next) /\ Pending(next) = 0
    PROVE  \E w \in WireSet, x \in {<<>>, next}, o \in Seq(Bytes) : Turns(s, dir, next, w, x, o)
<1>0. PICK w \in WireSet, x \in {<<>>, next}, o \in Seq(Bytes) : Turning(s, dir, next, w, x, o)
  BY SetDirEffect
<1>1. /\ wire' = [wire EXCEPT ![s] = w] /\ todo' = [todo EXCEPT ![s] = x]
      /\ chan' = [chan EXCEPT ![Peer(s)] = @ \o o] /\ broken' \in BOOLEAN
      /\ w.dir = dir /\ w.alloc = wire[s].alloc /\ Len(w.buf) <= BufSize
      /\ ~broken' => ~broken /\ w.status = 0 /\ x = next /\ w.buf = <<>> /\ o = Outgoing(wire[s])
  BY <1>0 DEF Turning
<1>2. Change(s, w, x, got[s])
  <2>1. got' = [got EXCEPT ![s] = got[s]]
    BY DEF TypeInv, WireTyped
  <2> QED BY <1>1, <2>1 DEF Change
<1>3. wire[s].alloc >= Freed(got[s]) /\ Freed(got[s]) \in Nat /\ wire[s].alloc \in Nat
  <2>1. todo[s] = <<>>
    BY DEF Idle
  <2>2. got[s] \in Seq(Values) /\ wire[s].alloc \in Nat
        /\ (wire[s].dir = "decode" => wire[s].alloc >= Freed(got[s]) + Pending(todo[s]))
        /\ (wire[s].dir = "encode" => wire[s].alloc >= Freed(got[s])) /\ wire[s].dir \in {"encode", "decode"}
    BY SideTyped
  <2>3. Freed(got[s]) \in Nat
    BY <2>2, FreedIs
  <2> QED BY <2>1, <2>2, <2>3, NoneOK
<1>4. SideIs(w, x, got[s])
  <2>1. dir = "encode" => x \in Seq(Piece)
    BY <1>1, NoneOK
  <2>2. dir = "decode" => OpsOK(x) /\ Pending(x) = 0
    BY <1>1, NoneOK
  <2>3. dir = "decode" => w.alloc >= Freed(got[s]) + Pending(x)
    BY <1>1, <1>3, <2>2
  <2> QED BY <1>1, <1>3, <2>1, <2>2, <2>3 DEF SideIs
<1>5. Turns(s, dir, next, w, x, o)
  BY <1>1, <1>2, <1>4 DEF Turns
<1> QED BY <1>0, <1>5

LEMMA ChanGrows ==
    ASSUME TypeInv, NEW s \in Sides, NEW o \in Seq(Bytes), chan' = [chan EXCEPT ![Peer(s)] = @ \o o]
    PROVE  chan' \in [Sides -> Seq(Bytes)]
<1>1. chan \in [Sides -> Seq(Bytes)] /\ Peer(s) \in Sides
  BY OtherSide DEF TypeInv, WireTyped
<1>2. chan[Peer(s)] \o o \in Seq(Bytes)
  BY <1>1, ConcatProperties
<1> QED BY <1>1, <1>2

\* What the next request or reply is made of.
LEMMA NextMessage ==
    ASSUME NEW w \in WordValues, NEW v \in StringValues
    PROVE  /\ w \in WordRange /\ v \in Strings
           /\ \A p : Message(Reply(p, w, v)) /\ Reply(p, w, v) \in Seq(Values) /\ PiecesOf(Reply(p, w, v)) \in Seq(Piece)
           /\ \A p \in Procs : LET m == <<Word(ProcNumbers[p])>> \o Request(p, w, v) IN
                Message(m) /\ m \in Seq(Values) /\ PiecesOf(m) \in Seq(Piece) /\ ProcNumbers[p] \in WordRange
<1>1. w \in WordRange /\ v \in Strings
  BY WireAssumption DEF Strings
<1>2. ASSUME NEW m, Message(m) PROVE m \in Seq(Values) /\ PiecesOf(m) \in Seq(Piece)
  <2>1. m \in Seq(Values)
    BY <1>2 DEF Message
  <2>2. 1 \in 1 .. Len(m) + 1
    BY <2>1
  <2>3. PiecesFrom(m, 1) \in Seq(Piece)
    BY <1>2, <2>2, PiecesFromAre
  <2> QED BY <2>1, <2>3 DEF PiecesOf
<1>3. ASSUME NEW p PROVE Message(Reply(p, w, v))
  BY <1>1, ReplyIsMessage
<1>4. ASSUME NEW p \in Procs PROVE Message(<<Word(ProcNumbers[p])>> \o Request(p, w, v)) /\ ProcNumbers[p] \in WordRange
  <2>1. ProcNumbers[p] \in WordRange
    <3>1. ProcNumbers[p] \in 0 .. MaxWord
      BY WireAssumption
    <3> QED BY <3>1, WordBounds
  <2> QED BY <2>1, <1>1, RequestIs DEF IsRequest
<1> QED BY <1>1, <1>2, <1>3, <1>4

\* The types hold from the beginning.
LEMMA TypesBegin ==
    ASSUME WireInit
    PROVE  TypeInv
<1>1. NewWire \in WireSet /\ [NewWire EXCEPT !.dir = "decode"] \in WireSet
  <2>1. <<>> \in Seq(Bytes)
    OBVIOUS
  <2> QED BY <2>1 DEF NewWire, WireSet
<1>2. \A s \in Sides : /\ wire[s] \in WireSet /\ wire[s].alloc = 0 /\ wire[s].buf = <<>>
                       /\ todo[s] = <<>> /\ got[s] = <<>>
  <2>1. ASSUME NEW s \in Sides PROVE wire[s] \in {NewWire, [NewWire EXCEPT !.dir = "decode"]} /\ todo[s] = <<>> /\ got[s] = <<>>
    BY DEF WireInit
  <2>2. /\ NewWire.alloc = 0 /\ [NewWire EXCEPT !.dir = "decode"].alloc = 0
        /\ NewWire.buf = <<>> /\ [NewWire EXCEPT !.dir = "decode"].buf = <<>>
    BY DEF NewWire
  <2> QED BY <1>1, <2>1, <2>2
<1>3. WireTyped
  <2>1. <<>> \in Seq(Bytes) /\ <<>> \in Seq(Values) /\ <<>> \in TodoSet
    BY NoneOK
  <2>2. wire \in [Sides -> WireSet]
    BY <1>1 DEF WireInit
  <2> QED BY <2>1, <2>2 DEF WireInit, WireTyped
<1>4. ASSUME NEW s \in Sides PROVE SideIs(wire[s], todo[s], got[s])
  <2>1. Freed(<<>>) = 0 /\ BufSize \in Nat /\ Len(<<>>) = 0
    <3>1. <<>> \in Seq(Values)
      OBVIOUS
    <3> QED BY <3>1, FreedIs, WireAssumption
  <2>2. Freed(got[s]) = 0 /\ Pending(todo[s]) = 0 /\ Len(wire[s].buf) = 0 /\ wire[s].alloc = 0
    BY <1>2, <2>1, NoneOK
  <2>3. OpsOK(todo[s]) /\ todo[s] \in Seq(Piece)
    BY <1>2, NoneOK
  <2> QED BY <2>1, <2>2, <2>3 DEF SideIs
<1> QED BY <1>3, <1>4 DEF TypeInv

\* No step, failed or not, leaves the types, or more freed than was taken.
LEMMA TypesStay ==
    ASSUME TypeInv, [WireNext]_wireVars
    PROVE  TypeInv'
<1>0. /\ "client" \in Sides /\ "server" \in Sides
      /\ chan \in [Sides -> Seq(Bytes)] /\ sent \in [Sides -> Seq(Values)] /\ broken \in BOOLEAN /\ calls \in Nat
  BY DEF TypeInv, WireTyped, Sides
<1>1. ASSUME UNCHANGED wireVars PROVE TypeInv'
  BY <1>1 DEF wireVars, TypeInv, WireTyped
<1>2. ASSUME NEW p \in Procs, NEW w0 \in WordValues, NEW v \in StringValues, Call(p, w0, v) PROVE TypeInv'
  <2> DEFINE s == "client"
             m == <<Word(ProcNumbers[p])>> \o Request(p, w0, v)
             next == PiecesOf(m)
  <2>1. /\ Idle(s) /\ got' = got /\ calls' = calls + 1 /\ sent' = [sent EXCEPT ![s] = m]
        /\ SetDir(s, "encode", next)
    BY <1>2 DEF Call
  <2>2. m \in Seq(Values) /\ next \in Seq(Piece)
    BY NextMessage
  <2> HIDE DEF m, next
  <2>3. next \in TodoSet
    BY <2>2 DEF TodoSet
  <2>4. PICK w \in WireSet, x \in {<<>>, next}, o \in Seq(Bytes) : Turns(s, "encode", next, w, x, o)
    BY <1>0, <2>1, <2>2, <2>3, TurnEffect
  <2>5. x \in TodoSet
    BY <2>3, NoneOK
  <2>6. Change(s, w, x, got[s]) /\ SideIs(w, x, got[s]) /\ chan' = [chan EXCEPT ![Peer(s)] = @ \o o] /\ broken' \in BOOLEAN
    BY <2>4 DEF Turns
  <2>7. chan' \in [Sides -> Seq(Bytes)]
    BY <1>0, <2>6, ChanGrows
  <2>8. got[s] \in Seq(Values)
    BY <1>0, SideTyped
  <2>9. sent' \in [Sides -> Seq(Values)] /\ calls' \in Nat
    BY <1>0, <2>1, <2>2
  <2> QED BY <1>0, <2>5, <2>6, <2>7, <2>8, <2>9, OneSide
<1>3. ASSUME AwaitReply PROVE TypeInv'
  <2> DEFINE s == "client"
             next == Ops(ReplyTypes(ProcOf(sent["client"][1].v[1])))
  <2>1. Idle(s) /\ got' = got /\ calls' = calls /\ sent' = sent /\ SetDir(s, "decode", next)
    BY <1>3 DEF AwaitReply
  <2>2. OpsOK(next) /\ Pending(next) = 0
    BY ReplyTypesAre, OpsAre
  <2> HIDE DEF next
  <2>3. next \in TodoSet
    BY <2>2 DEF TodoSet, OpsOK
  <2>4. PICK w \in WireSet, x \in {<<>>, next}, o \in Seq(Bytes) : Turns(s, "decode", next, w, x, o)
    BY <1>0, <2>1, <2>2, <2>3, TurnEffect
  <2>5. x \in TodoSet
    BY <2>3, NoneOK
  <2>6. Change(s, w, x, got[s]) /\ SideIs(w, x, got[s]) /\ chan' = [chan EXCEPT ![Peer(s)] = @ \o o] /\ broken' \in BOOLEAN
    BY <2>4 DEF Turns
  <2>7. chan' \in [Sides -> Seq(Bytes)]
    BY <1>0, <2>6, ChanGrows
  <2>8. got[s] \in Seq(Values)
    BY <1>0, SideTyped
  <2> QED BY <1>0, <2>1, <2>5, <2>6, <2>7, <2>8, OneSide
<1>4. ASSUME ReplyFlushed PROVE TypeInv'
  <2> DEFINE s == "server"
  <2>1. Idle(s) /\ got' = got /\ calls' = calls /\ sent' = sent /\ SetDir(s, "decode", <<>>)
    BY <1>4 DEF ReplyFlushed
  <2>2. <<>> \in TodoSet /\ OpsOK(<<>>) /\ Pending(<<>>) = 0
    BY NoneOK
  <2>4. PICK w \in WireSet, x \in {<<>>, <<>>}, o \in Seq(Bytes) : Turns(s, "decode", <<>>, w, x, o)
    BY <1>0, <2>1, <2>2, TurnEffect
  <2>5. x \in TodoSet
    BY <2>2
  <2>6. Change(s, w, x, got[s]) /\ SideIs(w, x, got[s]) /\ chan' = [chan EXCEPT ![Peer(s)] = @ \o o] /\ broken' \in BOOLEAN
    BY <2>4 DEF Turns
  <2>7. chan' \in [Sides -> Seq(Bytes)]
    BY <1>0, <2>6, ChanGrows
  <2>8. got[s] \in Seq(Values)
    BY <1>0, SideTyped
  <2> QED BY <1>0, <2>1, <2>5, <2>6, <2>7, <2>8, OneSide
<1>5. ASSUME NEW s \in Sides, Put(s) PROVE TypeInv'
  <2>1. PICK w \in WireSet, x \in Seq(Piece), o \in Seq(Bytes) : Puts(s, w, x, o)
    BY <1>5, PutEffect
  <2>2. /\ Change(s, w, x, got[s]) /\ SideIs(w, x, got[s]) /\ chan' = [chan EXCEPT ![Peer(s)] = @ \o o]
        /\ broken' \in BOOLEAN /\ UNCHANGED <<sent, calls>>
    BY <2>1 DEF Puts
  <2>3. chan' \in [Sides -> Seq(Bytes)] /\ x \in TodoSet /\ got[s] \in Seq(Values)
    BY <1>0, <2>2, ChanGrows, SideTyped DEF TodoSet
  <2> QED BY <1>0, <2>2, <2>3, OneSide
<1>6. ASSUME NEW s \in Sides, Get(s) PROVE TypeInv'
  <2>1. PICK h \in Seq(Bytes), c \in Seq(Bytes), w \in WireSet, x \in Seq(OpSet), g \in Seq(Values) : Gets(s, h, c, w, x, g)
    BY <1>6, GetEffect
  <2>2. /\ Change(s, w, x, g) /\ SideIs(w, x, g) /\ chan' = [chan EXCEPT ![s] = c]
        /\ broken' \in BOOLEAN /\ UNCHANGED <<sent, calls>>
    BY <2>1 DEF Gets
  <2>3. chan' \in [Sides -> Seq(Bytes)] /\ x \in TodoSet
    BY <1>0, <2>2 DEF TodoSet
  <2> QED BY <1>0, <2>2, <2>3, OneSide
<1>7. ASSUME NEW s \in Sides, GetElement(s) PROVE TypeInv'
  <2>1. PICK h \in Seq(Bytes), c \in Seq(Bytes), w \in WireSet, x \in Seq(OpSet) : GetsOne(s, h, c, w, x)
    BY <1>7, GetElementEffect
  <2>2. /\ Change(s, w, x, got[s]) /\ SideIs(w, x, got[s]) /\ chan' = [chan EXCEPT ![s] = c]
        /\ UNCHANGED <<sent, broken, calls>>
    BY <2>1 DEF GetsOne
  <2>3. chan' \in [Sides -> Seq(Bytes)] /\ x \in TodoSet /\ got[s] \in Seq(Values)
    BY <1>0, <2>2, SideTyped DEF TodoSet
  <2> QED BY <1>0, <2>2, <2>3, OneSide
<1>8. ASSUME NEW s \in Sides, GetEnd(s) PROVE TypeInv'
  <2> DEFINE x == Tail(todo[s])
             g == Append(got[s], Complete(todo[s][1]))
  <2>1. /\ Change(s, wire[s], x, g) /\ SideIs(wire[s], x, g) /\ x \in Seq(OpSet) /\ g \in Seq(Values)
        /\ UNCHANGED <<chan, sent, broken, calls>>
    BY <1>8, GetEndEffect
  <2> HIDE DEF x, g
  <2>2. wire[s] \in WireSet /\ x \in TodoSet
    BY <2>1, SideTyped DEF TodoSet
  <2> QED BY <1>0, <2>1, <2>2, OneSide
<1>9. ASSUME NEW s \in Sides, Dispatch(s) PROVE TypeInv'
  <2> DEFINE x == Ops(Following(s, todo[s][1].t)) \o Tail(todo[s])
  <2>1. /\ Change(s, wire[s], x, got[s]) /\ SideIs(wire[s], x, got[s]) /\ x \in Seq(OpSet)
        /\ UNCHANGED <<chan, sent, broken, calls>>
    BY <1>9, DispatchEffect
  <2> HIDE DEF x
  <2>2. wire[s] \in WireSet /\ x \in TodoSet /\ got[s] \in Seq(Values)
    BY <2>1, SideTyped DEF TodoSet
  <2> QED BY <1>0, <2>1, <2>2, OneSide
<1>10. ASSUME NEW s \in Sides, ReadFails(s) PROVE TypeInv'
  <2>1. PICK w \in WireSet : /\ Change(s, w, <<>>, got[s]) /\ SideIs(w, <<>>, got[s])
                             /\ UNCHANGED <<chan, sent, calls>> /\ broken' = TRUE
    BY <1>10, ReadFailsEffect
  <2>2. <<>> \in TodoSet /\ got[s] \in Seq(Values)
    BY SideTyped, NoneOK
  <2> QED BY <1>0, <2>1, <2>2, OneSide
<1>11. ASSUME CallEnds PROVE TypeInv'
  <2> DEFINE s == "client"
             a == wire[s].alloc - Freed(got[s])
             w == [wire[s] EXCEPT !.alloc = a]
  <2>1. /\ todo[s] = <<>> /\ UNCHANGED <<chan, todo, broken, calls>> /\ sent' = [sent EXCEPT ![s] = <<>>]
        /\ got' = [got EXCEPT ![s] = <<>>] /\ wire' = [wire EXCEPT ![s].alloc = a]
    BY <1>11 DEF CallEnds, Idle, TypeInv, WireTyped
  <2>2. /\ wire[s] \in WireSet /\ wire[s].alloc \in Nat /\ got[s] \in Seq(Values) /\ Len(wire[s].buf) <= BufSize
        /\ wire[s].dir = "encode" => wire[s].alloc >= Freed(got[s])
        /\ wire[s].dir = "decode" => wire[s].alloc >= Freed(got[s]) + Pending(todo[s])
        /\ wire[s].dir \in {"encode", "decode"}
    BY <1>0, SideTyped
  <2>3. Freed(got[s]) \in Nat /\ Freed(<<>>) = 0
    BY <2>2, FreedIs
  <2>4. a \in Nat
    BY <2>1, <2>2, <2>3, NoneOK
  <2>5. wire' = [wire EXCEPT ![s] = w]
    BY <2>1 DEF TypeInv, WireTyped
  <2> HIDE DEF a
  <2>6. w \in WireSet /\ w.dir = wire[s].dir /\ w.alloc = a /\ w.buf = wire[s].buf
    BY <2>2, <2>4 DEF WireSet
  <2> HIDE DEF w
  <2>7. SideIs(w, <<>>, <<>>)
    BY <2>2, <2>3, <2>4, <2>6, NoneOK DEF SideIs
  <2>8. Change(s, w, <<>>, <<>>)
    <3>1. todo' = [todo EXCEPT ![s] = <<>>]
      BY <2>1 DEF TypeInv, WireTyped
    <3> QED BY <2>1, <2>5, <3>1 DEF Change
  <2>9. <<>> \in TodoSet /\ <<>> \in Seq(Values) /\ sent' \in [Sides -> Seq(Values)]
    BY <1>0, <2>1, NoneOK
  <2> QED BY <1>0, <2>1, <2>6, <2>7, <2>8, <2>9, OneSide
<1>12. ASSUME Await PROVE TypeInv'
  <2> DEFINE s == "server"
             types == IF got[s] = <<>> THEN <<"word">> ELSE RequestTypes(ProcOf(got[s][1].v[1]))
             x == Ops(types)
  <2>1. /\ todo[s] = <<>> /\ UNCHANGED <<wire, chan, got, sent, broken, calls>> /\ todo' = [todo EXCEPT ![s] = x]
        /\ wire[s].dir = "decode"
    BY <1>12 DEF Await, Idle
  <2>2. types \in Seq(AllTypes)
    <3>1. <<"word">> \in Seq(AllTypes)
      BY DEF AllTypes, Plain
    <3> QED BY <3>1, RequestTypesAre
  <2> HIDE DEF types
  <2>3. OpsOK(x) /\ Pending(x) = 0
    BY <2>2, OpsAre
  <2> HIDE DEF x
  <2>4. /\ wire[s] \in WireSet /\ wire[s].alloc \in Nat /\ got[s] \in Seq(Values) /\ Len(wire[s].buf) <= BufSize
        /\ wire[s].alloc >= Freed(got[s]) + Pending(todo[s])
    BY <1>0, <2>1, SideTyped
  <2>5. SideIs(wire[s], x, got[s])
    <3>1. wire[s].alloc >= Freed(got[s]) + Pending(x)
      BY <2>1, <2>3, <2>4, NoneOK
    <3> QED BY <2>1, <2>3, <2>4, <3>1 DEF SideIs
  <2>6. Change(s, wire[s], x, got[s])
    <3>1. wire' = [wire EXCEPT ![s] = wire[s]] /\ got' = [got EXCEPT ![s] = got[s]]
      BY <2>1 DEF TypeInv, WireTyped
    <3> QED BY <2>1, <3>1 DEF Change
  <2>7. x \in TodoSet
    BY <2>3 DEF OpsOK, TodoSet
  <2> QED BY <1>0, <2>1, <2>4, <2>5, <2>6, <2>7, OneSide
<1>13. ASSUME NEW w0 \in WordValues, NEW v \in StringValues, SendReply(w0, v) PROVE TypeInv'
  <2> DEFINE s == "server"
             m == Reply(ProcOf(got[s][1].v[1]), w0, v)
             x == PiecesOf(m)
             a == wire[s].alloc - Freed(got[s])
             w == [wire[s] EXCEPT !.dir = "encode", !.buf = <<>>, !.alloc = a]
  <2>1. /\ todo[s] = <<>> /\ wire[s].dir = "decode" /\ UNCHANGED <<chan, broken, calls>> /\ sent' = [sent EXCEPT ![s] = m]
        /\ todo' = [todo EXCEPT ![s] = x] /\ got' = [got EXCEPT ![s] = <<>>]
    BY <1>13 DEF SendReply, Idle
  <2>2. wire' = [wire EXCEPT ![s] = w]
    BY <1>13 DEF SendReply, TypeInv, WireTyped
  <2>3. /\ wire[s] \in WireSet /\ wire[s].alloc \in Nat /\ got[s] \in Seq(Values)
        /\ wire[s].alloc >= Freed(got[s]) + Pending(todo[s])
    BY <1>0, <2>1, SideTyped
  <2>4. Freed(got[s]) \in Nat /\ Freed(<<>>) = 0
    BY <2>3, FreedIs
  <2>5. a \in Nat
    BY <2>1, <2>3, <2>4, NoneOK
  <2>6. m \in Seq(Values) /\ x \in Seq(Piece)
    BY NextMessage
  <2> HIDE DEF a, x, m
  <2>7. w = [dir |-> "encode", status |-> wire[s].status, alloc |-> a, buf |-> <<>>]
    <3>1. wire[s] = [dir |-> wire[s].dir, status |-> wire[s].status, alloc |-> wire[s].alloc, buf |-> wire[s].buf]
      BY <2>3 DEF WireSet
    <3> DEFINE u == wire[s]
               z == [u EXCEPT !.dir = "encode", !.buf = <<>>, !.alloc = a]
    <3>2. DOMAIN u = {"dir", "status", "alloc", "buf"}
      BY <3>1
    <3> HIDE DEF u
    <3>3. DOMAIN z = {"dir", "status", "alloc", "buf"} /\ z.dir = "encode" /\ z.buf = <<>> /\ z.alloc = a /\ z.status = u.status
          /\ z = [f \in DOMAIN z |-> z[f]]
      BY <3>2
    <3> HIDE DEF z
    <3>4. z = [dir |-> "encode", status |-> u.status, alloc |-> a, buf |-> <<>>]
      BY <3>3
    <3> QED BY <3>4 DEF z, u
  <2> HIDE DEF w
  <2>8. w \in WireSet /\ w.dir = "encode" /\ w.alloc = a /\ w.buf = <<>>
    <3>1. wire[s].status \in {0, 1} /\ <<>> \in Seq(Bytes)
      BY <2>3 DEF WireSet
    <3> QED BY <2>5, <2>7, <3>1 DEF WireSet
  <2>9. SideIs(w, x, <<>>)
    <3>1. Len(<<>>) = 0 /\ BufSize \in Nat
      BY WireAssumption
    <3> QED BY <2>4, <2>5, <2>6, <2>8, <3>1 DEF SideIs
  <2>10. Change(s, w, x, <<>>)
    BY <2>1, <2>2 DEF Change
  <2>11. x \in TodoSet /\ <<>> \in Seq(Values) /\ sent' \in [Sides -> Seq(Values)]
    BY <1>0, <2>1, <2>6 DEF TodoSet
  <2> QED BY <1>0, <2>1, <2>8, <2>9, <2>10, <2>11, OneSide
<1> QED BY <1>1, <1>2, <1>3, <1>4, <1>5, <1>6, <1>7, <1>8, <1>9, <1>10, <1>11, <1>12, <1>13 DEF WireNext

\* That is what the type invariant of the model says.
LEMMA TypesSuffice ==
    ASSUME TypeInv
    PROVE  WireTypeOK
<1> SUFFICES ASSUME NEW s \in Sides
             PROVE  /\ wire[s].dir \in {"encode", "decode"} /\ wire[s].status \in {0, 1}
                    /\ wire[s].alloc \in Nat /\ Len(wire[s].buf) <= BufSize
                    /\ \A i \in DOMAIN wire[s].buf : wire[s].buf[i] \in 0 .. Base - 1
                    /\ \A i \in DOMAIN chan[s] : chan[s][i] \in 0 .. Base - 1
  BY DEF WireTypeOK
<1>1. /\ wire[s].dir \in {"encode", "decode"} /\ wire[s].status \in {0, 1}
      /\ wire[s].alloc \in Nat /\ Len(wire[s].buf) <= BufSize /\ wire[s].buf \in Seq(Bytes) /\ chan[s] \in Seq(Bytes)
  BY SideTyped
<1>2. ASSUME NEW q \in Seq(Bytes) PROVE \A i \in DOMAIN q : q[i] \in 0 .. Base - 1
  <2>1. DOMAIN q = 1 .. Len(q) /\ \A i \in 1 .. Len(q) : q[i] \in Bytes
    OBVIOUS
  <2> QED BY <2>1 DEF Bytes
<1> QED BY <1>1, <1>2

-----------------------------------------------------------------------------
(* As long as nothing has failed: one side sends a message, and its peer   *)
(* has read the first values of it.                                        *)

\* What is left to decode, of the operations x after k values of the message m:
\* the rest of the types, or a control request whose action is still to come.
ValueAt(m, q) == q >= 3 /\ m[q].t = IF m[q - 2].v[1] = TypeString THEN "chars" ELSE "words"
Suits(t, m, q) == t = m[q].t \/ (t = "value" /\ ValueAt(m, q))
AfterAction(m) ==
    /\ Len(m) >= 4
    /\ IF Version < 3 \/ m[4].v[1] # SetAuto
       THEN Len(m) = 7 /\ m[5].t = "word" /\ m[6].t = "word" /\ ValueAt(m, 7) ELSE Len(m) = 4

Whole(x, m, k) == k + Len(x) = Len(m) /\ \A i \in 1 .. Len(x) : Suits(x[i].t, m, k + i)
UpToAction(x, m, k) ==
    /\ x # <<>> /\ k + Len(x) = 5 /\ x[Len(x)].t = "action" /\ AfterAction(m)
    /\ \A i \in 1 .. Len(x) - 1 : x[i].t = m[k + i].t
Planned(x, m, k) == Whole(x, m, k) \/ UpToAction(x, m, k)

\* The server begins with the procedure alone.
Waiting(x) == x = <<>> \/ x = Ops(<<"word">>)
Expects(e, x, m, k) ==
    IF e = "server" THEN Planned(x, m, k)
    ELSE /\ Len(m) >= 2 /\ m[1].t = "word"
         /\ \/ k = 0 /\ Waiting(x)
            \/ k = 1 /\ x = <<>>
            \/ k >= 1 /\ Planned(x, m, k)
Waits(e, p, x) == IF e = "client" THEN x = Ops(ReplyTypes(p)) ELSE Waiting(x)

\* An operation that has begun has the first elements of its value.
Partial(o, f) ==
    /\ o.t = f.t /\ o.n + Len(o.acc) = Len(ElementsOf(f))
    /\ \A i \in 1 .. Len(o.acc) : o.acc[i] = ElementsOf(f)[i]
Begun(x) == x # <<>> /\ x[1].n # -1
Reading(x, g, m) ==
    /\ Len(g) <= Len(m) /\ \A i \in 1 .. Len(g) : g[i] = m[i]
    /\ Begun(x) => Len(g) < Len(m) /\ Partial(x[1], m[Len(g) + 1])

Here(x) == IF Begun(x) THEN 1 + Len(x[1].acc) ELSE 0
Left(w, x) == IF w.dir = "encode" THEN x ELSE <<>>

\* e sends m of procedure p: what it is still to do, and what its peer has done.
Speaks(e, p, m, w, x) ==
    /\ w.status = 0 /\ w.alloc = 0
    /\ w.dir = "decode" => w.buf = <<>> /\ Waits(e, p, x)
    /\ w.dir = "encode" /\ w.buf = <<>> => x = PiecesOf(m)
Listens(e, m, w, x, g) ==
    /\ w.status = 0 /\ w.dir = "decode" /\ w.alloc = Freed(g) + Pending(x)
    /\ Reading(x, g, m) /\ Expects(e, x, m, Len(g))

\* What is on its way is a cut of the next pieces, before those that are left.
Flow(m, f, l, k, c) == \E q \in Seq(Piece) : Cuts(f, q) /\ q \o l = Rest(m, k, c)
Flight(w, c, v) == v.buf \o (c \o Outgoing(w))

Talk(e, p, m) ==
    LET d == Peer(e) IN
    /\ Message(m) /\ m # <<>> /\ sent[e] = m /\ got[e] = <<>> /\ chan[e] = <<>>
    /\ Speaks(e, p, m, wire[e], todo[e])
    /\ Listens(e, m, wire[d], todo[d], got[d])
    /\ Flow(m, Flight(wire[e], chan[d], wire[d]), Left(wire[e], todo[e]), Len(got[d]), Here(todo[d]))

\* Between calls, during the request, and during the reply.
Silent ==
    /\ sent["client"] = <<>> /\ todo["client"] = <<>> /\ Waiting(todo["server"]) /\ wire["server"].dir = "decode"
    /\ \A s \in Sides : chan[s] = <<>> /\ wire[s].buf = <<>> /\ got[s] = <<>> /\ wire[s].alloc = 0 /\ wire[s].status = 0
Asking == \E p \in Procs, w \in WordValues, v \in StringValues :
            Talk("client", p, <<Word(ProcNumbers[p])>> \o Request(p, w, v))
Answering ==
    /\ sent["client"] # <<>>
    /\ \E p \in Procs, w \in WordValues, v \in StringValues : Talk("server", p, Reply(p, w, v))

WireInv == TypeInv /\ (~broken => Silent \/ Asking \/ Answering)

LEMMA MessageTypes ==
    ASSUME NEW m, Message(m)
    PROVE  /\ m \in Seq(Values) /\ Len(m) \in Nat
           /\ \A i \in 1 .. Len(m) : m[i] \in Values /\ Good(m[i]) /\ m[i].t \in Plain
                                     /\ m[i].t # "action" /\ m[i].t # "value"
<1>1. m \in Seq(Values) /\ Len(m) \in Nat /\ \A i \in 1 .. Len(m) : m[i] \in Values
  BY DEF Message
<1>2. \A i \in 1 .. Len(m) : m[i].t \in Plain
  BY <1>1 DEF Values
<1> QED BY <1>1, <1>2 DEF Message, Plain

\* One operation done is one value further on.
LEMMA PlannedTail ==
    ASSUME NEW x, OpsOK(x), x # <<>>, x[1].t \in Plain, NEW m, Message(m), NEW k \in Nat, Planned(x, m, k)
    PROVE  k < Len(m) /\ m[k + 1].t = x[1].t /\ Planned(Tail(x), m, k + 1)
<1> DEFINE n == Len(x)
           l == Len(m)
           y == Tail(x)
<1>0. n \in Nat /\ n >= 1 /\ l \in Nat
  BY MessageTypes DEF OpsOK
<1>1. Len(y) = n - 1 /\ \A i \in 1 .. n - 1 : y[i] = x[i + 1]
  BY OpsTail
<1>2. x[1].t # "value" /\ x[1].t # "action"
  BY DEF Plain
<1>3. CASE Whole(x, m, k)
  <2>1. k + n = l /\ \A i \in 1 .. n : Suits(x[i].t, m, k + i)
    BY <1>3 DEF Whole
  <2> HIDE DEF n, l, y
  <2>2. 1 \in 1 .. n
    BY <1>0
  <2>3. m[k + 1].t = x[1].t
    <3>1. Suits(x[1].t, m, k + 1)
      BY <2>1, <2>2
    <3> QED BY <3>1, <1>2 DEF Suits
  <2>4. (k + 1) + (n - 1) = l /\ k < l
    BY <1>0, <2>1
  <2>5. \A i \in 1 .. n - 1 : Suits(y[i].t, m, (k + 1) + i)
    <3>1. ASSUME NEW i \in 1 .. n - 1 PROVE Suits(y[i].t, m, (k + 1) + i)
      <4>1. i + 1 \in 1 .. n /\ k + (i + 1) = (k + 1) + i
        BY <1>0
      <4>2. Suits(x[i + 1].t, m, k + (i + 1))
        BY <2>1, <4>1
      <4> QED BY <4>1, <4>2, <1>1
    <3> QED BY <3>1
  <2>6. Whole(y, m, k + 1)
    BY <1>1, <2>4, <2>5 DEF Whole, l
  <2> QED BY <2>3, <2>4, <2>6 DEF Planned, y, l
<1>4. CASE UpToAction(x, m, k)
  <2>1. k + n = 5 /\ x[n].t = "action" /\ AfterAction(m) /\ \A i \in 1 .. n - 1 : x[i].t = m[k + i].t
    BY <1>4 DEF UpToAction
  <2>7. l >= 4
    BY <2>1 DEF AfterAction
  <2> HIDE DEF n, l, y
  <2>2. n # 1
    BY <1>2, <2>1
  <2>3. 1 \in 1 .. n - 1 /\ k < l /\ (k + 1) + (n - 1) = 5 /\ n - 1 >= 1
    BY <1>0, <2>1, <2>2, <2>7
  <2>4. m[k + 1].t = x[1].t
    BY <2>1, <2>3
  <2>5. y[n - 1] = x[n]
    <3>1. n - 1 \in 1 .. n - 1 /\ (n - 1) + 1 = n
      BY <1>0, <2>3
    <3> QED BY <3>1, <1>1
  <2>6. \A i \in 1 .. (n - 1) - 1 : y[i].t = m[(k + 1) + i].t
    <3>1. ASSUME NEW i \in 1 .. (n - 1) - 1 PROVE y[i].t = m[(k + 1) + i].t
      <4>1. i + 1 \in 1 .. n - 1 /\ i \in 1 .. n - 1 /\ k + (i + 1) = (k + 1) + i
        BY <1>0
      <4>2. x[i + 1].t = m[k + (i + 1)].t
        BY <2>1, <4>1
      <4> QED BY <4>1, <4>2, <1>1
    <3> QED BY <3>1
  <2>8. y # <<>>
    <3>1. Len(y) # 0
      BY <1>0, <1>1, <2>3
    <3>2. Len(<<>>) = 0
      OBVIOUS
    <3> QED BY <3>1, <3>2
  <2>9. UpToAction(y, m, k + 1)
    BY <1>1, <2>1, <2>3, <2>5, <2>6, <2>8 DEF UpToAction
  <2> QED BY <2>3, <2>4, <2>9 DEF Planned, y, l
<1> QED BY <1>3, <1>4 DEF Planned

LEMMA PlannedSame ==
    ASSUME NEW x, NEW y, x # <<>>, y # <<>>, NEW m, NEW k \in Nat, Planned(x, m, k),
           Len(x) \in Nat, Len(x) >= 1, Len(y) = Len(x), \A i \in 1 .. Len(x) : y[i].t = x[i].t
    PROVE  Planned(y, m, k)
<1>1. CASE Whole(x, m, k)
  BY <1>1 DEF Whole, Planned
<1>2. CASE UpToAction(x, m, k)
  <2> DEFINE n == Len(x)
  <2>1. k + n = 5 /\ x[n].t = "action" /\ AfterAction(m) /\ \A i \in 1 .. n - 1 : x[i].t = m[k + i].t
    BY <1>2 DEF UpToAction
  <2>2. n \in Nat /\ n >= 1 /\ Len(y) = n /\ \A i \in 1 .. n : y[i].t = x[i].t
    OBVIOUS
  <2> HIDE DEF n
  <2>3. n \in 1 .. n /\ \A i \in 1 .. n - 1 : i \in 1 .. n
    BY <2>2
  <2>4. UpToAction(y, m, k)
    BY <2>1, <2>2, <2>3 DEF UpToAction
  <2> QED BY <2>4 DEF Planned
<1> QED BY <1>1, <1>2 DEF Planned

\* What follows an operation, by the message.
Next(m, k, t) ==
    IF t = "action" THEN IF Version < 3 \/ m[k].v[1] # SetAuto THEN <<"word", "word", "value">> ELSE <<>>
    ELSE IF m[k - 1].v[1] = TypeString THEN <<"chars">> ELSE <<"words">>

LEMMA NextTypes ==
    ASSUME NEW m, NEW k, NEW t
    PROVE  Next(m, k, t) \in Seq(AllTypes)
<1>1. <<"word", "word", "value">> \in Seq(AllTypes) /\ <<>> \in Seq(AllTypes) /\ <<"chars">> \in Seq(AllTypes)
        /\ <<"words">> \in Seq(AllTypes)
  BY DEF AllTypes, Plain
<1> QED BY <1>1 DEF Next

\* What the plan has next is the type of the next value of the message.
LEMMA PlannedNext ==
    ASSUME NEW x, OpsOK(x), x # <<>>, x[1].t \in {"action", "value"}, NEW m, Message(m), NEW k \in Nat, Planned(x, m, k)
    PROVE  /\ Planned(Ops(Next(m, k, x[1].t)) \o Tail(x), m, k)
           /\ x[1].t = "action" => k = 4 /\ k <= Len(m)
           /\ x[1].t = "value" => k >= 2 /\ k <= Len(m)
<1> DEFINE n == Len(x)
           l == Len(m)
           r == Tail(x)
           t == x[1].t
           ty == Next(m, k, t)
           y == Ops(ty) \o r
<1>0. n \in Nat /\ n >= 1 /\ l \in Nat /\ 1 \in 1 .. n
  BY MessageTypes DEF OpsOK
<1>1. OpsOK(r) /\ Len(r) = n - 1 /\ \A i \in 1 .. n - 1 : r[i] = x[i + 1] /\ r[i].n = -1
  BY OpsTail
<1>2. ty \in Seq(AllTypes) /\ Len(ty) \in Nat
  <2>1. ty \in Seq(AllTypes)
    BY NextTypes
  <2> QED BY <2>1
<1>3. /\ Len(y) = Len(ty) + (n - 1)
      /\ \A i \in 1 .. Len(ty) : y[i] = Op(ty[i])
      /\ \A i \in 1 .. n - 1 : y[Len(ty) + i] = x[i + 1]
  <2>1. \A i \in 1 .. Len(r) : r[i].n = -1
    BY <1>1
  <2>2. /\ Len(y) = Len(ty) + Len(r)
        /\ \A i \in 1 .. Len(ty) : y[i] = Op(ty[i])
        /\ \A i \in 1 .. Len(r) : y[Len(ty) + i] = r[i]
    <3> HIDE DEF r, ty
    <3> QED BY <1>1, <1>2, <2>1, OpsJoin
  <2> HIDE DEF y, r, ty
  <2> QED BY <1>1, <2>2
<1>4. \A i \in 1 .. Len(ty) : y[i].t = ty[i]
  <2>1. \A i \in 1 .. Len(ty) : ty[i] \in AllTypes
    BY <1>2
  <2> HIDE DEF y, ty
  <2> QED BY <1>3, <2>1, NewOpIs
<1>5. \A i \in 1 .. l : m[i].t # "action" /\ m[i].t # "value"
  BY MessageTypes
<1>6. CASE t = "action"
  <2>1. ~Whole(x, m, k)
    <3>1. SUFFICES ASSUME Whole(x, m, k) PROVE FALSE
      OBVIOUS
    <3>2. k + n = l /\ Suits(t, m, k + 1)
      BY <1>0, <3>1 DEF Whole
    <3> HIDE DEF n, l
    <3>3. k + 1 \in 1 .. l
      BY <1>0, <3>2
    <3> QED BY <1>5, <1>6, <3>2, <3>3 DEF Suits
  <2>2. k + n = 5 /\ AfterAction(m) /\ \A i \in 1 .. n - 1 : x[i].t = m[k + i].t
    BY <2>1 DEF Planned, UpToAction
  <2>3. l >= 4
    BY <2>2 DEF AfterAction
  <2>4. n = 1 /\ k = 4
    <3> HIDE DEF n, l
    <3>1. n # 1 => 1 \in 1 .. n - 1 /\ k + 1 \in 1 .. l
      BY <1>0, <2>2, <2>3
    <3>2. n # 1 => t = m[k + 1].t
      BY <2>2, <3>1
    <3>3. n = 1
      BY <1>5, <1>6, <3>1, <3>2
    <3> QED BY <2>2, <3>3, <1>0
  <2>5. Whole(y, m, k)
    <3>1. CASE Version < 3 \/ m[4].v[1] # SetAuto
      <4>1. ty = <<"word", "word", "value">>
        BY <1>6, <2>4, <3>1 DEF Next
      <4>2. l = 7 /\ m[5].t = "word" /\ m[6].t = "word" /\ ValueAt(m, 7)
        BY <2>2, <3>1 DEF AfterAction
      <4>3. Len(ty) = 3 /\ ty[1] = "word" /\ ty[2] = "word" /\ ty[3] = "value"
        BY <4>1
      <4> HIDE DEF ty, n, l, y
      <4>4. Len(y) = 3 /\ y[1].t = "word" /\ y[2].t = "word" /\ y[3].t = "value"
        BY <1>3, <1>4, <2>4, <4>3
      <4>5. \A i \in 1 .. 3 : Suits(y[i].t, m, k + i)
        <5>1. Suits(y[1].t, m, k + 1) /\ Suits(y[2].t, m, k + 2) /\ Suits(y[3].t, m, k + 3)
          BY <2>4, <4>2, <4>4 DEF Suits
        <5> QED BY <5>1
      <4> QED BY <2>4, <4>2, <4>4, <4>5 DEF Whole, l
    <3>2. CASE ~(Version < 3 \/ m[4].v[1] # SetAuto)
      <4>1. ty = <<>>
        BY <1>6, <2>4, <3>2 DEF Next
      <4>2. l = 4
        BY <2>2, <3>2 DEF AfterAction
      <4>3. Len(ty) = 0
        BY <4>1
      <4> HIDE DEF ty, n, l, y
      <4>4. Len(y) = 0
        BY <1>3, <2>4, <4>3
      <4> QED BY <2>4, <4>2, <4>4 DEF Whole, l
    <3> QED BY <3>1, <3>2
  <2> HIDE DEF n, l, y
  <2> QED BY <1>6, <2>3, <2>4, <2>5 DEF Planned, y, l
<1>7. CASE t = "value"
  <2>1. ~UpToAction(x, m, k)
    <3>1. SUFFICES ASSUME UpToAction(x, m, k) PROVE FALSE
      OBVIOUS
    <3>2. k + n = 5 /\ x[n].t = "action" /\ AfterAction(m) /\ \A i \in 1 .. n - 1 : x[i].t = m[k + i].t
      BY <3>1 DEF UpToAction
    <3>3. l >= 4
      BY <3>2 DEF AfterAction
    <3> HIDE DEF n, l
    <3>4. n # 1
      BY <1>7, <3>2
    <3>5. 1 \in 1 .. n - 1 /\ k + 1 \in 1 .. l
      BY <1>0, <3>2, <3>3, <3>4
    <3>6. t = m[k + 1].t
      BY <3>2, <3>5
    <3> QED BY <1>5, <1>7, <3>5, <3>6
  <2>2. k + n = l /\ \A i \in 1 .. n : Suits(x[i].t, m, k + i)
    BY <2>1 DEF Planned, Whole
  <2>3. ValueAt(m, k + 1) /\ k >= 2 /\ k <= l
    <3> HIDE DEF n, l
    <3>1. Suits(t, m, k + 1) /\ k + 1 \in 1 .. l
      BY <1>0, <2>2
    <3>2. ValueAt(m, k + 1)
      BY <1>5, <1>7, <3>1 DEF Suits
    <3> QED BY <3>1, <3>2, <1>0 DEF ValueAt
  <2>4. Len(ty) = 1 /\ ty[1] = m[k + 1].t
    <3>1. (k + 1) - 2 = k - 1
      OBVIOUS
    <3>2. m[k + 1].t = IF m[k - 1].v[1] = TypeString THEN "chars" ELSE "words"
      BY <2>3, <3>1 DEF ValueAt
    <3> DEFINE z == m[k + 1].t
    <3>3. ty = <<z>>
      BY <1>7, <3>2 DEF Next
    <3>4. Len(<<z>>) = 1 /\ <<z>>[1] = z
      <4> HIDE DEF z
      <4> QED OBVIOUS
    <3> HIDE DEF ty, z
    <3> QED BY <3>3, <3>4 DEF z
  <2>5. Whole(y, m, k)
    <3> HIDE DEF ty, n, l, y
    <3>1. Len(y) = n
      BY <1>0, <1>3, <2>4
    <3>2. ASSUME NEW i \in 1 .. n PROVE Suits(y[i].t, m, k + i)
      <4>1. CASE i = 1
        <5>1. y[1].t = m[k + 1].t
          BY <1>4, <2>4
        <5> QED BY <4>1, <5>1 DEF Suits
      <4>2. CASE i # 1
        <5>1. i - 1 \in 1 .. n - 1 /\ 1 + (i - 1) = i /\ (i - 1) + 1 = i
          BY <1>0, <4>2
        <5>2. y[i] = x[i]
          BY <1>3, <2>4, <5>1
        <5> QED BY <2>2, <5>2
      <4> QED BY <4>1, <4>2
    <3> QED BY <2>2, <3>1, <3>2 DEF Whole, l
  <2> HIDE DEF n, l, y
  <2> QED BY <1>7, <2>3, <2>5 DEF Planned, y, l
<1> QED BY <1>6, <1>7

LEMMA WaitingIs ==
    ASSUME NEW x, Waiting(x)
    PROVE  OpsOK(x) /\ Pending(x) = 0 /\ (x # <<>> => Len(x) = 1 /\ x[1].t = "word" /\ x[1].n = -1)
<1>1. <<"word">> \in Seq(AllTypes) /\ Len(<<"word">>) = 1 /\ <<"word">>[1] = "word" /\ "word" \in AllTypes
  BY DEF AllTypes, Plain
<1>2. LET y == Ops(<<"word">>) IN OpsOK(y) /\ Pending(y) = 0 /\ Len(y) = 1 /\ y[1].t = "word" /\ y[1].n = -1
  <2>1. 1 \in 1 .. Len(<<"word">>)
    BY <1>1
  <2> QED BY <1>1, <2>1, OpsAre, NewOpIs
<1> QED BY <1>2, NoneOK DEF Waiting

\* A value is read that is the next one of the message.
LEMMA ExpectsHead ==
    ASSUME NEW e \in Sides, NEW x, OpsOK(x), x # <<>>, x[1].t \in Plain, NEW m, Message(m), NEW k \in Nat, Expects(e, x, m, k)
    PROVE  k < Len(m) /\ m[k + 1].t = x[1].t /\ Expects(e, Tail(x), m, k + 1)
<1>1. CASE Planned(x, m, k) /\ (e = "server" \/ (k >= 1 /\ Len(m) >= 2 /\ m[1].t = "word"))
  BY <1>1, PlannedTail DEF Expects
<1>2. CASE e # "server" /\ Len(m) >= 2 /\ m[1].t = "word" /\ k = 0 /\ Waiting(x)
  <2>1. Len(x) = 1 /\ x[1].t = "word"
    BY <1>2, WaitingIs
  <2>2. Tail(x) = <<>>
    <3>1. Tail(x) \in Seq(OpSet) /\ Len(Tail(x)) = 0
      BY <2>1, OpsTail DEF OpsOK
    <3> QED BY <3>1, EmptySeq
  <2>3. Len(m) \in Nat
    BY MessageTypes
  <2> QED BY <1>2, <2>1, <2>2, <2>3 DEF Expects
<1> QED BY <1>1, <1>2 DEF Expects

LEMMA ExpectsSame ==
    ASSUME NEW e \in Sides, NEW x, OpsOK(x), x # <<>>, NEW m, NEW k \in Nat, Expects(e, x, m, k),
           NEW o \in OpSet, o.n # -1, o.t = x[1].t, o.t \in Plain \ {"word"}
    PROVE  Expects(e, <<o>> \o Tail(x), m, k)
<1> DEFINE y == <<o>> \o Tail(x)
<1>1. Len(y) = Len(x) /\ y # <<>> /\ y[1] = o /\ \A i \in 2 .. Len(x) : y[i] = x[i]
  BY OpsBegun
<1>2. Len(x) \in Nat /\ Len(x) >= 1
  BY DEF OpsOK
<1> HIDE DEF y
<1>3. \A i \in 1 .. Len(x) : y[i].t = x[i].t
  <2>1. ASSUME NEW i \in 1 .. Len(x) PROVE y[i].t = x[i].t
    <3>1. i = 1 \/ i \in 2 .. Len(x)
      BY <1>2
    <3> QED BY <3>1, <1>1
  <2> QED BY <2>1
<1>4. Planned(x, m, k) => Planned(y, m, k)
  BY <1>1, <1>2, <1>3, PlannedSame
<1>5. ~Waiting(x)
  BY WaitingIs
<1> QED BY <1>4, <1>5 DEF Expects, y

LEMMA ExpectsNext ==
    ASSUME NEW e \in Sides, NEW x, OpsOK(x), x # <<>>, x[1].t \in {"action", "value"}, NEW m, Message(m), NEW k \in Nat,
           Expects(e, x, m, k)
    PROVE  /\ Expects(e, Ops(Next(m, k, x[1].t)) \o Tail(x), m, k)
           /\ x[1].t = "action" => k = 4 /\ k <= Len(m)
           /\ x[1].t = "value" => k >= 2 /\ k <= Len(m)
<1>1. ~Waiting(x)
  BY WaitingIs
<1>2. Planned(x, m, k)
  BY <1>1 DEF Expects
<1> HIDE DEF Next
<1> QED BY <1>1, <1>2, PlannedNext DEF Expects

LEMMA SplitConcat ==
    ASSUME NEW S, NEW h \in Seq(S), NEW r \in Seq(S)
    PROVE  SubSeq(h \o r, 1, Len(h)) = h /\ SubSeq(h \o r, Len(h) + 1, Len(h \o r)) = r
<1> DEFINE z == h \o r
           a == Len(h)
           b == Len(r)
<1>1. a \in Nat /\ b \in Nat
  OBVIOUS
<1>2. z \in Seq(S) /\ Len(z) = a + b /\ \A i \in 1 .. a + b : z[i] = IF i <= a THEN h[i] ELSE r[i - a]
  BY ConcatProperties
<1> HIDE DEF z, a, b
<1>3. \A i \in 1 .. a + b : z[i] \in S
  BY <1>2
<1>4. SubSeq(z, 1, a) = h
  <2> DEFINE u == SubSeq(z, 1, a)
  <2>1. u \in Seq(S) /\ Len(u) = a /\ \A i \in 1 .. a : u[i] = z[i]
    <3>1. \A i \in 1 .. a : z[i] \in S /\ i \in 1 .. a + b
      BY <1>1, <1>3
    <3>2. 1 \in Int /\ a \in Int /\ (IF 1 <= a THEN a - 1 + 1 ELSE 0) = a /\ a - 1 + 1 = a /\ \A i \in 1 .. a : 1 + i - 1 = i
      BY <1>1
    <3>3. /\ u \in Seq(S) /\ Len(u) = IF 1 <= a THEN a - 1 + 1 ELSE 0
          /\ \A i \in 1 .. a - 1 + 1 : u[i] = z[1 + i - 1]
      BY <3>1, <3>2, SubSeqProperties
    <3> HIDE DEF u
    <3> QED BY <3>2, <3>3
  <2> HIDE DEF u
  <2>2. \A i \in 1 .. a : u[i] = h[i]
    BY <1>1, <1>2, <2>1
  <2>3. h \in Seq(S) /\ Len(h) = a
    BY DEF a
  <2>4. u = h
    BY <2>1, <2>2, <2>3, SeqEqual
  <2> QED BY <2>4 DEF u
<1>5. SubSeq(z, a + 1, Len(z)) = r
  <2> DEFINE c == Len(z)
             d == a + 1
             u == SubSeq(z, d, c)
  <2>1. u \in Seq(S) /\ Len(u) = b /\ \A i \in 1 .. b : u[i] = z[a + i]
    <3>1. \A i \in d .. c : z[i] \in S
      BY <1>1, <1>2, <1>3
    <3>2. d \in Int /\ c \in Int /\ (IF d <= c THEN c - d + 1 ELSE 0) = b /\ c - d + 1 = b /\ \A i \in 1 .. b : d + i - 1 = a + i
      BY <1>1, <1>2
    <3> HIDE DEF c, d
    <3>3. /\ u \in Seq(S) /\ Len(u) = IF d <= c THEN c - d + 1 ELSE 0
          /\ \A i \in 1 .. c - d + 1 : u[i] = z[d + i - 1]
      BY <3>1, <3>2, SubSeqProperties
    <3> HIDE DEF u
    <3> QED BY <3>2, <3>3
  <2> HIDE DEF u
  <2>2. \A i \in 1 .. b : u[i] = r[i]
    <3>1. ASSUME NEW i \in 1 .. b PROVE u[i] = r[i]
      <4>1. a + i \in 1 .. a + b /\ ~(a + i <= a) /\ (a + i) - a = i
        BY <1>1
      <4> QED BY <4>1, <1>2, <2>1
    <3> QED BY <3>1
  <2>3. r \in Seq(S) /\ Len(r) = b
    BY DEF b
  <2>4. u = r
    BY <2>1, <2>2, <2>3, SeqEqual
  <2> QED BY <2>4 DEF u
<1> QED BY <1>4, <1>5 DEF z, a

\* A piece that is put into the stream has left the pieces to send.
LEMMA FlowPut ==
    ASSUME NEW m, NEW k, NEW c, NEW f \in Seq(Bytes), NEW l \in Seq(Piece), l # <<>>, Flow(m, f, l, k, c)
    PROVE  Flow(m, f \o l[1], Tail(l), k, c)
<1>1. PICK q \in Seq(Piece) : Cuts(f, q) /\ q \o l = Rest(m, k, c)
  BY DEF Flow
<1>2. l[1] \in Piece
  BY FirstAndRest
<1>3. Append(q, l[1]) \o Tail(l) = q \o l /\ Append(q, l[1]) \in Seq(Piece)
  BY MoveOne
<1>4. Cuts(f \o l[1], Append(q, l[1]))
  BY <1>1, <1>2, CutAppend
<1> QED BY <1>1, <1>3, <1>4 DEF Flow

CanTake(m, k, c, h, r, l) ==
    /\ Message(m) /\ k \in 0 .. Len(m) - 1 /\ c \in 0 .. Len(Pieces(m[k + 1])) - 1
    /\ h \in Seq(Bytes) /\ r \in Seq(Bytes) /\ l \in Seq(Piece)
    /\ Len(h) # 0 /\ Len(Pieces(m[k + 1])[c + 1]) = Len(h)
    /\ Flow(m, h \o r, l, k, c)
HasTaken(m, k, c, h, r, l) == h = Pieces(m[k + 1])[c + 1] /\ Flow(m, r, l, k, c + 1)

\* A piece that is taken off the stream is the next one of the message.
LEMMA FlowTake ==
    ASSUME NEW m, NEW k, NEW c, NEW h, NEW r, NEW l, CanTake(m, k, c, h, r, l)
    PROVE  HasTaken(m, k, c, h, r, l)
<1> SUFFICES ASSUME Message(m), k \in 0 .. Len(m) - 1, c \in 0 .. Len(Pieces(m[k + 1])) - 1,
           h \in Seq(Bytes), r \in Seq(Bytes), Len(h) # 0, Len(Pieces(m[k + 1])[c + 1]) = Len(h),
           l \in Seq(Piece), Flow(m, h \o r, l, k, c)
    PROVE  h = Pieces(m[k + 1])[c + 1] /\ Flow(m, r, l, k, c + 1)
  BY Zenon DEF CanTake, HasTaken
<1> DEFINE f == h \o r
           p == Pieces(m[k + 1])[c + 1]
<1>0. f \in Seq(Bytes) /\ f # <<>>
  <2>1. f \in Seq(Bytes) /\ Len(f) = Len(h) + Len(r) /\ Len(h) \in Nat /\ Len(r) \in Nat
    BY ConcatProperties, LenProperties
  <2> HIDE DEF f
  <2> QED BY <2>1, EmptySeq
<1>1. PICK q \in Seq(Piece) : Cuts(f, q) /\ q \o l = Rest(m, k, c)
  BY DEF Flow
<1> HIDE DEF f
<1>2. q # <<>>
  BY <1>0, <1>1, CutOfNothing
<1>3. /\ q[1] \in Piece /\ SubSeq(f, 1, Len(q[1])) = q[1] /\ Tail(q) \in Seq(Piece)
      /\ Cuts(SubSeq(f, Len(q[1]) + 1, Len(f)), Tail(q))
  BY <1>0, <1>1, <1>2, CutHead
<1>4. (q \o l)[1] = q[1] /\ Tail(q \o l) = Tail(q) \o l
  <2> HIDE DEF p
  <2>1. q = <<q[1]>> \o Tail(q)
    BY <1>2, FirstAndRest
  <2>2. Tail(q) \o l \in Seq(Piece)
    BY <1>3, ConcatProperties
  <2>3. <<q[1]>> \in Seq(Piece)
    BY <1>3
  <2>4. (<<q[1]>> \o Tail(q)) \o l = <<q[1]>> \o (Tail(q) \o l)
    <3>1. <<q[1]>> \in Seq(Piece) /\ Tail(q) \in Seq(Piece) /\ l \in Seq(Piece)
      BY <1>3, <2>3
    <3>9. Associates(<<q[1]>>, Tail(q), l)
      BY <3>1, AssocPieces
    <3> QED BY <3>9, Zenon DEF Associates
  <2>5. (<<q[1]>> \o (Tail(q) \o l))[1] = q[1] /\ Tail(<<q[1]>> \o (Tail(q) \o l)) = Tail(q) \o l
    BY <1>3, <2>2, HeadAndTail
  <2>6. q \o l = <<q[1]>> \o (Tail(q) \o l)
    BY <2>1, <2>4
  <2> QED BY <2>5, <2>6
<1>5. Rest(m, k, c)[1] = p /\ Tail(Rest(m, k, c)) = Rest(m, k, c + 1)
  BY RestStep
<1>6. q[1] = p /\ Tail(q) \o l = Rest(m, k, c + 1)
  BY <1>1, <1>4, <1>5
<1>7. Len(q[1]) = Len(h)
  BY <1>6
<1>8. h = p /\ Cuts(r, Tail(q))
  <2>1. SubSeq(f, 1, Len(h)) = h /\ SubSeq(f, Len(h) + 1, Len(f)) = r
    BY SplitConcat DEF f
  <2> QED BY <1>3, <1>6, <1>7, <2>1
<1> QED BY <1>3, <1>6, <1>8 DEF Flow, p

LEMMA FlowDone ==
    ASSUME NEW m, Message(m), NEW k \in 0 .. Len(m) - 1, NEW f, NEW l, Flow(m, f, l, k, Len(Pieces(m[k + 1])))
    PROVE  Flow(m, f, l, k + 1, 0)
BY RestOfNext DEF Flow

\* No piece is left: the message is over, and no byte is on its way.
LEMMA FlowEnds ==
    ASSUME NEW m, Message(m), NEW f \in Seq(Bytes), NEW l \in Seq(Piece), Flow(m, f, l, Len(m), 0)
    PROVE  f = <<>> /\ l = <<>>
<1>1. PICK q \in Seq(Piece) : Cuts(f, q) /\ q \o l = Rest(m, Len(m), 0)
  BY DEF Flow
<1>2. q \o l = <<>>
  BY <1>1, RestOfNone
<1>3. Len(q \o l) = Len(q) + Len(l) /\ Len(q) \in Nat /\ Len(l) \in Nat /\ Len(<<>>) = 0
  BY ConcatProperties, LenProperties
<1>4. Len(q) = 0 /\ Len(l) = 0
  <2> DEFINE a == Len(q)
             b == Len(l)
  <2>1. 0 = a + b /\ a \in Nat /\ b \in Nat
    BY <1>2, <1>3
  <2> HIDE DEF a, b
  <2>2. a = 0 /\ b = 0
    BY <2>1
  <2> QED BY <2>2 DEF a, b
<1>5. q = <<>> /\ l = <<>>
  BY <1>4, EmptySeq
<1> QED BY <1>1, <1>5, CutOfNothing

\* A message that has not begun is all there is to come.
LEMMA FlowBegins ==
    ASSUME NEW m, Message(m)
    PROVE  Flow(m, <<>>, PiecesOf(m), 0, 0)
<1>1. PiecesOf(m) \in Seq(Piece)
  <2>1. 1 \in 1 .. Len(m) + 1
    BY MessageTypes
  <2> QED BY <2>1, PiecesFromAre DEF PiecesOf
<1>2. <<>> \o PiecesOf(m) = Rest(m, 0, 0)
  <2>1. Rest(m, 0, 0) = PiecesOf(m)
    BY DEF Rest, PiecesOf
  <2> QED BY <1>1, <2>1, ConcatEmptySeq
<1> QED BY <1>2, CutOfNothing, NoneOK DEF Flow

-----------------------------------------------------------------------------
\* What is on its way when a piece is stored, when the buffer goes out, and when
\* the peer takes the first bytes.
Passed(b, c, e, o, w, p) == {b, c, e, o, w, p} \subseteq Seq(Bytes) /\ o \o w = e \o p
Joined(b, c, e, o, w, p) == b \o ((c \o o) \o w) = (b \o (c \o e)) \o p

\* Bytes that are put join the end of the flight.
LEMMA FlightGrows ==
    ASSUME NEW b, NEW c, NEW e, NEW o, NEW w, NEW p, Passed(b, c, e, o, w, p)
    PROVE  Joined(b, c, e, o, w, p)
<1>0. {b, c, e, o, w, p} \subseteq Seq(Bytes) /\ o \o w = e \o p
  BY Zenon DEF Passed
<1>1. (c \o o) \o w = c \o (o \o w)
  <2>1. c \in Seq(Bytes) /\ o \in Seq(Bytes) /\ w \in Seq(Bytes)
    BY <1>0
  <2>9. Associates(c, o, w)
    BY <2>1, Assoc
  <2> QED BY <2>9, Zenon DEF Associates
<1>2. (c \o e) \o p = c \o (e \o p)
  <2>1. c \in Seq(Bytes) /\ e \in Seq(Bytes) /\ p \in Seq(Bytes)
    BY <1>0
  <2>9. Associates(c, e, p)
    BY <2>1, Assoc
  <2> QED BY <2>9, Zenon DEF Associates
<1> DEFINE d == c \o e
<1>3. (b \o d) \o p = b \o (d \o p)
  <2>1. b \in Seq(Bytes) /\ c \in Seq(Bytes) /\ e \in Seq(Bytes) /\ p \in Seq(Bytes)
    BY <1>0
  <2>2. d \in Seq(Bytes)
    BY <2>1, ConcatProperties
  <2> HIDE DEF d
  <2>9. Associates(b, d, p)
    BY <2>1, <2>2, Assoc
  <2> QED BY <2>9, Zenon DEF Associates
<1>4. b \o ((c \o o) \o w) = b \o (c \o (e \o p))
  BY <1>0, <1>1, Zenon
<1>5. b \o ((c \o o) \o w) = (b \o (c \o e)) \o p
  BY <1>2, <1>3, <1>4, Zenon DEF d
<1> QED BY <1>5, Zenon DEF Joined

\* The flight is the same when the writer empties its buffer.
LEMMA FlightTurns ==
    ASSUME NEW b \in Seq(Bytes), NEW c \in Seq(Bytes), NEW e \in Seq(Bytes)
    PROVE  b \o ((c \o e) \o <<>>) = b \o (c \o e)
<1>1. c \o e \in Seq(Bytes)
  BY ConcatProperties
<1> QED BY <1>1, ConcatEmptySeq

Taken(b, c, e, h, b1, c1) == {b, c, e, h, b1, c1} \subseteq Seq(Bytes) /\ h \o (b1 \o c1) = b \o c
Shifted(b, c, e, h, b1, c1) == b \o (c \o e) = h \o (b1 \o (c1 \o e)) /\ b1 \o (c1 \o e) \in Seq(Bytes)

\* Bytes that are taken leave its head.
LEMMA FlightShrinks ==
    ASSUME NEW b, NEW c, NEW e, NEW h, NEW b1, NEW c1, Taken(b, c, e, h, b1, c1)
    PROVE  Shifted(b, c, e, h, b1, c1)
<1>0. {b, c, e, h, b1, c1} \subseteq Seq(Bytes) /\ h \o (b1 \o c1) = b \o c
  BY Zenon DEF Taken
<1>1. (b \o c) \o e = b \o (c \o e)
  <2>1. b \in Seq(Bytes) /\ c \in Seq(Bytes) /\ e \in Seq(Bytes)
    BY <1>0
  <2>9. Associates(b, c, e)
    BY <2>1, Assoc
  <2> QED BY <2>9, Zenon DEF Associates
<1>2. (b1 \o c1) \o e = b1 \o (c1 \o e)
  <2>1. b1 \in Seq(Bytes) /\ c1 \in Seq(Bytes) /\ e \in Seq(Bytes)
    BY <1>0
  <2>9. Associates(b1, c1, e)
    BY <2>1, Assoc
  <2> QED BY <2>9, Zenon DEF Associates
<1> DEFINE d == b1 \o c1
           r == c1 \o e
<1>3. (h \o d) \o e = h \o (d \o e)
  <2>1. b1 \in Seq(Bytes) /\ c1 \in Seq(Bytes) /\ e \in Seq(Bytes) /\ h \in Seq(Bytes)
    BY <1>0
  <2>2. d \in Seq(Bytes)
    BY <2>1, ConcatProperties
  <2> HIDE DEF d
  <2>9. Associates(h, d, e)
    BY <2>1, <2>2, Assoc
  <2> QED BY <2>9, Zenon DEF Associates
<1>4. b1 \o r \in Seq(Bytes)
  <2>1. b1 \in Seq(Bytes) /\ c1 \in Seq(Bytes) /\ e \in Seq(Bytes)
    BY <1>0
  <2>2. r \in Seq(Bytes)
    BY <2>1, ConcatProperties
  <2> HIDE DEF r
  <2> QED BY <2>1, <2>2, ConcatProperties
<1>5. b \o (c \o e) = h \o (b1 \o (c1 \o e))
  BY <1>0, <1>1, <1>2, <1>3, Zenon DEF d
<1> QED BY <1>4, <1>5, Zenon DEF Shifted, r

Prefix(g, m) == Len(g) <= Len(m) /\ \A i \in 1 .. Len(g) : g[i] = m[i]

\* A finished value is the next one of the message.
LEMMA ReadingDone ==
    ASSUME NEW m, Message(m), NEW g \in Seq(Values), Prefix(g, m), Len(g) < Len(m), NEW x, OpsOK(x), x # <<>>
    PROVE  LET r == Append(g, m[Len(g) + 1]) IN
           Reading(Tail(x), r, m) /\ Here(Tail(x)) = 0 /\ r \in Seq(Values) /\ Len(r) = Len(g) + 1
<1> DEFINE k == Len(g)
           l == Len(m)
           f == m[k + 1]
           r == Append(g, f)
<1>1. k \in Nat /\ l \in Nat /\ k < l /\ \A i \in 1 .. l : m[i] \in Values
  BY MessageTypes
<1>2. f \in Values
  <2> HIDE DEF k, l
  <2>1. k + 1 \in 1 .. l
    BY <1>1
  <2> QED BY <1>1, <2>1
<1>3. r \in Seq(Values) /\ Len(r) = k + 1 /\ r[k + 1] = f /\ \A i \in 1 .. k : r[i] = g[i]
  <2> HIDE DEF f
  <2> QED BY <1>2, AppendProperties
<1> HIDE DEF r
<1>4. ~Begun(Tail(x)) /\ Here(Tail(x)) = 0
  <2>1. Len(x) \in Nat /\ \A i \in 1 .. Len(x) - 1 : Tail(x)[i].n = -1
    BY OpsTail DEF OpsOK
  <2>2. Tail(x) \in Seq(OpSet) /\ Len(Tail(x)) = Len(x) - 1
    BY OpsTail DEF OpsOK
  <2>3. Tail(x) # <<>> => 1 \in 1 .. Len(x) - 1
    <3>1. Tail(x) # <<>> => Len(Tail(x)) \in Nat \ {0}
      BY <2>2, EmptySeq
    <3> QED BY <2>1, <2>2, <3>1
  <2>4. ~Begun(Tail(x))
    BY <2>1, <2>3 DEF Begun
  <2> QED BY <2>4 DEF Here
<1>5. \A i \in 1 .. k + 1 : r[i] = m[i]
  <2>1. \A i \in 1 .. k : g[i] = m[i]
    BY DEF Prefix
  <2>2. k \in Nat
    BY <1>1
  <2>3. r[k + 1] = m[k + 1]
    BY <1>3
  <2> HIDE DEF k, f
  <2> QED BY <1>3, <2>1, <2>2, <2>3
<1>6. Len(r) <= Len(m)
  <2> HIDE DEF k
  <2> QED BY <1>1, <1>3 DEF l
<1>7. Reading(Tail(x), r, m)
  BY <1>3, <1>4, <1>5, <1>6 DEF Reading
<1> QED BY <1>3, <1>4, <1>7 DEF r

LEMMA ReadingBegun ==
    ASSUME NEW m, NEW g \in Seq(Values), Prefix(g, m), Len(g) < Len(m), NEW x, OpsOK(x), x # <<>>,
           NEW o \in OpSet, o.n # -1, o.t \in Plain \ {"word"}, Partial(o, m[Len(g) + 1])
    PROVE  LET y == <<o>> \o Tail(x) IN Reading(y, g, m) /\ Here(y) = 1 + Len(o.acc)
<1> DEFINE y == <<o>> \o Tail(x)
<1>1. y # <<>> /\ y[1] = o
  BY OpsBegun
<1> HIDE DEF y
<1>2. Begun(y) /\ Here(y) = 1 + Len(o.acc)
  BY <1>1 DEF Begun, Here
<1>3. Reading(y, g, m)
  BY <1>1 DEF Reading, Prefix
<1> QED BY <1>2, <1>3 DEF y

LEMMA ReadWhole ==
    ASSUME NEW f, Good(f)
    PROVE  /\ f.t = "word" => f = Word(HeadOf(f)) /\ FreedBy(f) = 0 /\ Len(Pieces(f)) = 1
           /\ f.t = "ptr" /\ HeadOf(f) # 0 => f = Ptr(NullPtr) /\ FreedBy(f) = 0 /\ Len(Pieces(f)) = 1
           /\ f.t = "ptr" => HeadOf(f) \in {0, 1}
<1>0. f \in Values /\ f = [t |-> f.t, v |-> f.v] /\ f.v \in Seq(Int)
  BY DEF Good, Values
<1>1. CASE f.t = "word"
  <2>1. Len(f.v) = 1 /\ HeadOf(f) = f.v[1]
    BY <1>1 DEF Good, HeadOf
  <2>2. f.v = <<f.v[1]>>
    <3> DEFINE v == f.v
    <3>1. v \in Seq(Int) /\ Len(v) = 1
      BY <1>0, <2>1
    <3> HIDE DEF v
    <3>2. v = <<v[1]>>
      BY <3>1
    <3> QED BY <3>2 DEF v
  <2>3. f = Word(HeadOf(f))
    BY <1>0, <1>1, <2>1, <2>2 DEF Word
  <2>4. FreedBy(f) = 0
    BY <1>1 DEF FreedBy
  <2>5. Len(ElementsOf(f)) = 0
    BY <1>1 DEF ElementsOf
  <2>6. Len(Pieces(f)) = 1
    <3>1. Len(Pieces(f)) = 1 + Len(ElementsOf(f))
      BY PiecesAre
    <3> QED BY <2>5, <3>1
  <2> QED BY <1>1, <2>3, <2>4, <2>6
<1>2. CASE f.t = "ptr"
  <2>1. HeadOf(f) = IF f.v = NullPtr THEN 1 ELSE 0
    BY <1>2 DEF HeadOf
  <2>2. ASSUME HeadOf(f) # 0 PROVE f = Ptr(NullPtr) /\ FreedBy(f) = 0 /\ Len(Pieces(f)) = 1
    <3>1. f.v = NullPtr
      BY <2>1, <2>2
    <3>2. f = Ptr(NullPtr)
      BY <1>0, <1>2, <3>1 DEF Ptr
    <3>3. FreedBy(f) = 0
      BY <1>2, <3>1 DEF FreedBy
    <3>4. ElementsOf(f) = <<>>
      BY <1>2, <3>1 DEF ElementsOf, NullPtr
    <3>5. Len(Pieces(f)) = 1
      <4>1. Len(Pieces(f)) = 1 + Len(ElementsOf(f))
        BY PiecesAre
      <4>2. Len(<<>>) = 0
        OBVIOUS
      <4> QED BY <3>4, <4>1, <4>2
    <3> QED BY <3>2, <3>3, <3>5
  <2>3. HeadOf(f) \in {0, 1}
    BY <2>1
  <2> QED BY <1>2, <2>2, <2>3
<1>3. CASE f.t \notin {"word", "ptr"}
  BY <1>3
<1> QED BY <1>1, <1>2, <1>3

\* An array that has all its elements is the value that was sent.
LEMMA ReadComplete ==
    ASSUME NEW f, Good(f), NEW o \in OpSet, o.n = 0, o.t \in Plain \ {"word"}, Partial(o, f)
    PROVE  Complete(o) = f /\ FreedBy(f) = Scaled(o.t, o.n + Len(o.acc)) /\ Len(Pieces(f)) = 1 + Len(o.acc)
<1> DEFINE a == o.acc
           b == ElementsOf(f)
<1>1. /\ f = [t |-> f.t, v |-> f.v] /\ f.v \in Seq(Int) /\ o.t = f.t /\ f \in Values
      /\ a \in Seq(Int) /\ Len(a) \in Nat /\ b \in Seq(Int)
  BY ElementsTyped DEF Good, Values, Partial, OpSet
<1>2. Len(a) = Len(b)
  <2>1. o.n + Len(a) = Len(b)
    BY DEF Partial
  <2> DEFINE i == Len(a)
             j == Len(b)
  <2>2. 0 + i = j /\ i \in Nat
    BY <1>1, <2>1
  <2> HIDE DEF i, j
  <2>3. i = j
    BY <2>2
  <2> QED BY <2>3 DEF i, j
<1>3. a = b
  <2>1. \A i \in 1 .. Len(a) : a[i] = b[i]
    BY DEF Partial
  <2> HIDE DEF a, b
  <2> QED BY <1>1, <1>2, <2>1, SeqEqual
<1>4. Len(Pieces(f)) = 1 + Len(a)
  <2>1. Len(Pieces(f)) = 1 + Len(b)
    BY PiecesAre
  <2> QED BY <1>2, <2>1
<1>5. FreedBy(f) = Scaled(o.t, o.n + Len(a))
  <2>1. FreedBy(f) = Scaled(f.t, Len(b))
    BY <1>1, FreedByIs
  <2>2. o.n + Len(a) = Len(b)
    BY DEF Partial
  <2> QED BY <1>1, <2>1, <2>2
<1>6. Complete(o) = f
  <2>1. CASE o.t \in {"words", "chars", "ptr"}
    <3>1. b = f.v
      BY <1>1, <2>1 DEF ElementsOf
    <3>2. Complete(o) = [t |-> o.t, v |-> a]
      BY <2>1 DEF Complete, Words, Chars, Ptr
    <3> HIDE DEF a, b
    <3> QED BY <1>1, <1>3, <3>1, <3>2
  <2>2. CASE o.t = "string"
    <3>1. Complete(o) = [t |-> "string", v |-> IF a = <<>> THEN Null ELSE SubSeq(a, 1, Len(a) - 1)]
      BY <2>2 DEF Complete, String
    <3>2. CASE f.v = Null
      <4>1. b = <<>>
        BY <1>1, <2>2, <3>2 DEF ElementsOf
      <4> HIDE DEF a, b
      <4> QED BY <1>1, <1>3, <2>2, <3>1, <3>2, <4>1
    <3>3. CASE f.v # Null
      <4> DEFINE u == f.v
      <4>1. b = Append(u, 0)
        BY <1>1, <2>2, <3>3 DEF ElementsOf
      <4>2. u \in Seq(Int)
        BY <1>1
      <4> HIDE DEF a, b, u
      <4>3. a # <<>> /\ SubSeq(a, 1, Len(a) - 1) = u
        <5> DEFINE z == <<0>>
                   n == Len(a)
                   j == Len(u)
        <5>1. a = u \o z /\ z \in Seq(Int) /\ a # <<>>
          BY <1>3, <4>1, <4>2, AppendIsConcat, AppendProperties
        <5>2. n = j + 1 /\ j \in Nat
          BY <1>3, <4>1, <4>2, AppendProperties
        <5> HIDE DEF z
        <5>3. SubSeq(a, 1, j) = u
          BY <4>2, <5>1, SplitConcat
        <5> HIDE DEF n
        <5>4. n - 1 = j
          <6> HIDE DEF j
          <6> QED BY <5>2
        <5> QED BY <5>1, <5>3, <5>4 DEF n
      <4> QED BY <1>1, <2>2, <3>1, <4>3 DEF u
    <3> QED BY <3>2, <3>3
  <2> QED BY <2>1, <2>2 DEF Plain
<1> QED BY <1>4, <1>5, <1>6

\* The next element.
LEMMA ReadElement ==
    ASSUME NEW f, Good(f), NEW o \in OpSet, o.n \in Nat, o.n > 0, o.t \in Plain \ {"word"}, Partial(o, f)
    PROVE  LET c == 1 + Len(o.acc)
               h == Pieces(f)[c + 1]
           IN /\ c \in 0 .. Len(Pieces(f)) - 1 /\ Len(h) = BytesOf(o) /\ h \in Seq(Bytes)
              /\ Partial(WithElement(o, h), f)
<1> DEFINE a == o.acc
           b == ElementsOf(f)
           n == Len(a)
           j == Len(b)
           i == n + 1
           c == 1 + n
           h == Pieces(f)[c + 1]
           y == WithElement(o, h)
<1>1. o.t = f.t /\ a \in Seq(Int) /\ n \in Nat /\ b \in Seq(Int) /\ j \in Nat /\ o.n + n = j /\ \A q \in 1 .. n : a[q] = b[q]
  BY ElementsTyped DEF Partial, OpSet
<1> HIDE DEF n, j
<1>2. i \in 1 .. j /\ i + 1 = c + 1 /\ c \in 0 .. (1 + j) - 1
  BY <1>1
<1>3. Len(Pieces(f)) = 1 + j /\ \A q \in 1 .. j : Pieces(f)[q + 1] = PieceOf(f.t, b[q])
  BY PiecesAre DEF j
<1>4. h = PieceOf(f.t, b[i])
  <2> HIDE DEF i, b, c
  <2> QED BY <1>2, <1>3
<1>5. b[i] \in (IF f.t \in {"words", "ptr"} THEN WordRange ELSE Bytes)
  <2>1. \A q \in 1 .. j : b[q] \in (IF f.t \in {"words", "ptr"} THEN WordRange ELSE Bytes)
    BY ElementsTyped DEF j
  <2> HIDE DEF i, b
  <2> QED BY <1>2, <2>1
<1> HIDE DEF h
<1> DEFINE v == b[i]
           e == IF BytesOf(o) = 2 THEN OfBinWord(h) ELSE h[1]
<1>6. Len(h) = BytesOf(o) /\ h \in Seq(Bytes) /\ e = v
  <2>1. CASE f.t \in {"words", "ptr"}
    <3>1. BytesOf(o) = 2 /\ h = BinWord(v) /\ v \in WordRange
      BY <1>1, <1>4, <1>5, <2>1 DEF BytesOf, PieceOf
    <3> HIDE DEF v
    <3>2. v \in Int
      BY <3>1, WordBounds
    <3>3. h \in Piece /\ Len(h) = 2
      BY <3>1, <3>2, WordIsPiece
    <3>4. OfBinWord(h) = v
      BY <3>1, WordAndBack
    <3> QED BY <3>1, <3>3, <3>4 DEF Piece
  <2>2. CASE f.t \notin {"words", "ptr"}
    <3>1. BytesOf(o) = 1 /\ h = <<v>> /\ v \in Bytes
      BY <1>1, <1>4, <1>5, <2>2 DEF BytesOf, PieceOf
    <3> HIDE DEF v
    <3>2. Len(h) = 1 /\ h[1] = v /\ h \in Seq(Bytes)
      BY <3>1
    <3> QED BY <3>1, <3>2
  <2> QED BY <2>1, <2>2
<1>7. y.t = o.t /\ y.n = o.n - 1 /\ y.acc = Append(a, e) /\ e \in Int /\ Len(y.acc) = n + 1
  <2> HIDE DEF y, e
  <2> QED BY <1>6, WithElementIs DEF y, e, n
<1> HIDE DEF y, e, v
<1>8. Partial(y, f)
  <2>1. y.n + Len(y.acc) = j
    <3> DEFINE d == o.n
    <3>1. d \in Nat /\ d + n = j /\ n \in Nat /\ y.n = d - 1 /\ Len(y.acc) = n + 1
      BY <1>1, <1>7
    <3> HIDE DEF d
    <3>2. (d - 1) + (n + 1) = j
      BY <3>1
    <3> QED BY <3>1, <3>2
  <2>2. ASSUME NEW q \in 1 .. n + 1 PROVE y.acc[q] = b[q]
    <3>1. Append(a, e)[n + 1] = e /\ \A r \in 1 .. n : Append(a, e)[r] = a[r]
      <4> HIDE DEF a
      <4> QED BY <1>1, <1>7, AppendProperties DEF n
    <3>2. q = i \/ q \in 1 .. n
      BY <1>1
    <3>3. CASE q = i
      BY <1>6, <1>7, <3>1, <3>3 DEF v
    <3>4. CASE q \in 1 .. n
      BY <1>1, <1>7, <3>1, <3>4
    <3> QED BY <3>2, <3>3, <3>4
  <2> QED BY <1>1, <1>7, <2>1, <2>2 DEF Partial, j
<1> QED BY <1>2, <1>3, <1>6, <1>8 DEF y, h, n

\* The listener is one value further on.
LEMMA ListenDone ==
    ASSUME NEW e \in Sides, NEW m, Message(m), NEW v, NEW x, NEW g \in Seq(Values), Listens(e, m, v, x, g), OpsOK(x), x # <<>>,
           x[1].t \in Plain, NEW w, w.status = 0, w.dir = "decode", w.alloc = Freed(g) + FreedBy(m[Len(g) + 1])
    PROVE  /\ Len(g) \in 0 .. Len(m) - 1 /\ m[Len(g) + 1].t = x[1].t
           /\ Listens(e, m, w, Tail(x), Append(g, m[Len(g) + 1])) /\ Here(Tail(x)) = 0
           /\ Len(Append(g, m[Len(g) + 1])) = Len(g) + 1
<1> DEFINE k == Len(g)
           f == m[k + 1]
           r == Append(g, f)
<1>1. Prefix(g, m) /\ Expects(e, x, m, k) /\ k \in Nat /\ Len(m) \in Nat
  BY MessageTypes DEF Listens, Reading, Prefix
<1>2. k < Len(m) /\ f.t = x[1].t /\ Expects(e, Tail(x), m, k + 1)
  <2> HIDE DEF k
  <2> QED BY <1>1, ExpectsHead
<1>3. Reading(Tail(x), r, m) /\ Here(Tail(x)) = 0 /\ r \in Seq(Values) /\ Len(r) = k + 1
  BY <1>1, <1>2, ReadingDone
<1>4. k + 1 \in 1 .. Len(m) /\ k \in 0 .. Len(m) - 1
  <2> HIDE DEF k
  <2> QED BY <1>1, <1>2
<1>5. f \in Values
  <2> HIDE DEF k
  <2> QED BY <1>4, MessageTypes
<1>6. Freed(r) = Freed(g) + FreedBy(f)
  <2> HIDE DEF f
  <2> QED BY <1>5, FreedIs
<1>7. Pending(Tail(x)) = 0 /\ Freed(r) \in Nat
  BY <1>3, OpsTail, FreedIs
<1>8. w.alloc = Freed(r) + Pending(Tail(x))
  <2>1. w.alloc = Freed(g) + FreedBy(f)
    OBVIOUS
  <2> HIDE DEF r, f, k
  <2> QED BY <1>6, <1>7, <2>1
<1> HIDE DEF r, f, k
<1>9. Listens(e, m, w, Tail(x), r)
  BY <1>2, <1>3, <1>8 DEF Listens
<1> QED BY <1>2, <1>3, <1>4, <1>9 DEF r, f, k

Begins(e, m, v, x, g, o, w) ==
    /\ Message(m) /\ g \in Seq(Values) /\ Listens(e, m, v, x, g) /\ OpsOK(x) /\ x # <<>> /\ Len(g) < Len(m)
    /\ o \in OpSet /\ o.n # -1 /\ o.t = x[1].t /\ o.t \in Plain \ {"word"} /\ Partial(o, m[Len(g) + 1])
    /\ w.status = 0 /\ w.dir = "decode" /\ w.alloc = Freed(g) + Scaled(o.t, o.n + Len(o.acc))
HasBegun(e, m, x, g, o, w) == Listens(e, m, w, <<o>> \o Tail(x), g) /\ Here(<<o>> \o Tail(x)) = 1 + Len(o.acc)

\* The listener has begun the next value.
LEMMA ListenBegun ==
    ASSUME NEW e \in Sides, NEW m, NEW v, NEW x, NEW g, NEW o, NEW w, Begins(e, m, v, x, g, o, w)
    PROVE  HasBegun(e, m, x, g, o, w)
<1> SUFFICES ASSUME Message(m), g \in Seq(Values), Listens(e, m, v, x, g), OpsOK(x), x # <<>>, Len(g) < Len(m),
           o \in OpSet, o.n # -1, o.t = x[1].t, o.t \in Plain \ {"word"}, Partial(o, m[Len(g) + 1]),
           w.status = 0, w.dir = "decode", w.alloc = Freed(g) + Scaled(o.t, o.n + Len(o.acc))
    PROVE  Listens(e, m, w, <<o>> \o Tail(x), g) /\ Here(<<o>> \o Tail(x)) = 1 + Len(o.acc)
  BY Zenon DEF Begins, HasBegun
<1> DEFINE y == <<o>> \o Tail(x)
           k == Len(g)
<1>1. Prefix(g, m) /\ Expects(e, x, m, k) /\ k \in Nat
  BY DEF Listens, Reading, Prefix
<1>2. Reading(y, g, m) /\ Here(y) = 1 + Len(o.acc)
  BY <1>1, ReadingBegun
<1>3. Expects(e, y, m, k)
  <2> HIDE DEF k
  <2> QED BY <1>1, ExpectsSame
<1>4. Pending(y) = Scaled(o.t, o.n + Len(o.acc))
  BY OpsBegun
<1> HIDE DEF y
<1>5. Listens(e, m, w, y, g)
  BY <1>2, <1>3, <1>4 DEF Listens
<1> QED BY <1>2, <1>5 DEF y

LEMMA Changed ==
    ASSUME TypeInv, NEW s \in Sides, NEW w, NEW x, NEW g, Change(s, w, x, g)
    PROVE  /\ wire'[s] = w /\ todo'[s] = x /\ got'[s] = g
           /\ wire'[Peer(s)] = wire[Peer(s)] /\ todo'[Peer(s)] = todo[Peer(s)] /\ got'[Peer(s)] = got[Peer(s)]
<1>1. Peer(s) \in Sides /\ Peer(s) # s
  BY OtherSide
<1>2. DOMAIN wire = Sides /\ DOMAIN todo = Sides /\ DOMAIN got = Sides
  BY DEF TypeInv, WireTyped
<1>3. wire'[s] = w /\ todo'[s] = x /\ got'[s] = g
  BY <1>2 DEF Change
<1>4. wire'[Peer(s)] = wire[Peer(s)] /\ todo'[Peer(s)] = todo[Peer(s)] /\ got'[Peer(s)] = got[Peer(s)]
  BY <1>1, <1>2 DEF Change
<1> QED BY <1>3, <1>4

\* Each step keeps the talk: the speaker puts a piece,
LEMMA TalkPut ==
    ASSUME TypeInv, NEW e \in Sides, NEW p, NEW m, Talk(e, p, m), Put(e), ~broken'
    PROVE  Talk(e, p, m)'
<1> DEFINE d == Peer(e)
           c == chan[d]
           l == todo[e]
           b == wire[d].buf
           k == Len(got[d])
           i == Here(todo[d])
<1>1. PICK w \in WireSet, x \in Seq(Piece), o \in Seq(Bytes) : Puts(e, w, x, o)
  BY PutEffect
<1>2. /\ Change(e, w, x, got[e]) /\ chan' = [chan EXCEPT ![d] = @ \o o] /\ sent' = sent
      /\ w.dir = "encode" /\ w.alloc = wire[e].alloc
      /\ w.status = 0 /\ x = Tail(l) /\ o \o w.buf = wire[e].buf \o l[1] /\ w.buf # <<>>
  BY <1>1 DEF Puts
<1>3. d \in Sides /\ d # e /\ wire[e].dir = "encode" /\ l # <<>> /\ l \in Seq(Piece) /\ wire[e].buf \in Seq(Bytes)
      /\ b \in Seq(Bytes) /\ c \in Seq(Bytes) /\ w.buf \in Seq(Bytes)
  BY OtherSide, SideTyped DEF Put, WireSet
<1>4. chan'[d] = c \o o /\ chan'[e] = chan[e]
  BY <1>2, <1>3 DEF TypeInv, WireTyped
<1>5. /\ wire'[e] = w /\ todo'[e] = x /\ got'[e] = got[e]
      /\ wire'[d] = wire[d] /\ todo'[d] = todo[d] /\ got'[d] = got[d]
  BY <1>2, Changed
<1>6. /\ Message(m) /\ m # <<>> /\ sent[e] = m /\ got[e] = <<>> /\ chan[e] = <<>>
      /\ Speaks(e, p, m, wire[e], todo[e]) /\ Listens(e, m, wire[d], todo[d], got[d])
      /\ Flow(m, Flight(wire[e], chan[d], wire[d]), Left(wire[e], todo[e]), Len(got[d]), Here(todo[d]))
  BY DEF Talk
<1>7. Speaks(e, p, m, w, x)
  BY <1>2, <1>6 DEF Speaks
<1>8. Flow(m, Flight(w, c \o o, wire[d]), Left(w, x), k, i)
  <2>1. Flow(m, b \o (c \o wire[e].buf), l, k, i)
    BY <1>3, <1>6 DEF Flight, Outgoing, Left
  <2>2. l[1] \in Seq(Bytes)
    BY <1>3, FirstAndRest DEF Piece
  <2>3. {b, c, wire[e].buf, o, w.buf, l[1]} \subseteq Seq(Bytes)
    BY <1>3, <2>2
  <2>4. b \o ((c \o o) \o w.buf) = (b \o (c \o wire[e].buf)) \o l[1]
    <3> DEFINE u == wire[e].buf
               v == w.buf
               z == l[1]
    <3>1. o \o v = u \o z
      BY <1>2
    <3>2. {b, c, u, o, v, z} \subseteq Seq(Bytes)
      BY <2>3
    <3> HIDE DEF u, v, z, b, c
    <3>3. Passed(b, c, u, o, v, z)
      BY <3>1, <3>2, Zenon DEF Passed
    <3>4. Joined(b, c, u, o, v, z)
      BY <3>3, FlightGrows
    <3> QED BY <3>4 DEF Joined, u, v, z
  <2>5. b \o (c \o wire[e].buf) \in Seq(Bytes)
    <3> DEFINE u == wire[e].buf
    <3>1. u \in Seq(Bytes) /\ b \in Seq(Bytes) /\ c \in Seq(Bytes)
      BY <1>3
    <3> HIDE DEF u, b, c
    <3>2. c \o u \in Seq(Bytes)
      BY <3>1, ConcatProperties
    <3>3. b \o (c \o u) \in Seq(Bytes)
      BY <3>1, <3>2, ConcatProperties
    <3> QED BY <3>3 DEF u
  <2> DEFINE f == b \o (c \o wire[e].buf)
  <2>6. Flow(m, f \o l[1], Tail(l), k, i)
    <3> HIDE DEF f, l, k, i
    <3> QED BY <1>3, <2>1, <2>5, FlowPut DEF f
  <2>7. Flight(w, c \o o, wire[d]) = f \o l[1] /\ Left(w, x) = Tail(l)
    BY <1>2, <2>4 DEF Flight, Outgoing, Left
  <2> QED BY <2>6, <2>7
<1>9. /\ Message(m) /\ m # <<>> /\ sent'[e] = m /\ got'[e] = <<>> /\ chan'[e] = <<>>
      /\ Speaks(e, p, m, wire'[e], todo'[e]) /\ Listens(e, m, wire'[d], todo'[d], got'[d])
      /\ Flow(m, Flight(wire'[e], chan'[d], wire'[d]), Left(wire'[e], todo'[e]), Len(got'[d]), Here(todo'[d]))
  BY <1>2, <1>4, <1>5, <1>6, <1>7, <1>8
<1> QED BY <1>9 DEF Talk

\* the speaker writes out what it has,
LEMMA TalkTurn ==
    ASSUME TypeInv, NEW e \in Sides, NEW p, NEW m, Talk(e, p, m), Idle(e), wire[e].dir = "encode",
           NEW next \in TodoSet, OpsOK(next), Pending(next) = 0, Waits(e, p, next),
           SetDir(e, "decode", next), UNCHANGED <<got, sent>>, ~broken'
    PROVE  Talk(e, p, m)'
<1> DEFINE d == Peer(e)
           c == chan[d]
           b == wire[d].buf
           u == wire[e].buf
<1>1. PICK w \in WireSet, x \in {<<>>, next}, o \in Seq(Bytes) : Turns(e, "decode", next, w, x, o)
  <2>1. got' = got
    OBVIOUS
  <2> QED BY <2>1, TurnEffect
<1>2. /\ Change(e, w, x, got[e]) /\ chan' = [chan EXCEPT ![d] = @ \o o] /\ sent' = sent
      /\ w.dir = "decode" /\ w.alloc = wire[e].alloc
      /\ w.status = 0 /\ x = next /\ w.buf = <<>> /\ o = u
  BY <1>1 DEF Turns, Outgoing
<1>3. d \in Sides /\ d # e /\ u \in Seq(Bytes) /\ b \in Seq(Bytes) /\ c \in Seq(Bytes) /\ todo[e] = <<>>
  BY OtherSide, SideTyped DEF Idle
<1>4. chan'[d] = c \o u /\ chan'[e] = chan[e]
  BY <1>2, <1>3 DEF TypeInv, WireTyped
<1>5. /\ wire'[e] = w /\ todo'[e] = x /\ got'[e] = got[e]
      /\ wire'[d] = wire[d] /\ todo'[d] = todo[d] /\ got'[d] = got[d]
  BY <1>2, Changed
<1>6. /\ Message(m) /\ m # <<>> /\ sent[e] = m /\ got[e] = <<>> /\ chan[e] = <<>>
      /\ Speaks(e, p, m, wire[e], todo[e]) /\ Listens(e, m, wire[d], todo[d], got[d])
      /\ Flow(m, Flight(wire[e], chan[d], wire[d]), Left(wire[e], todo[e]), Len(got[d]), Here(todo[d]))
  BY DEF Talk
<1>7. Speaks(e, p, m, w, x)
  BY <1>2, <1>6 DEF Speaks
<1>8. Flight(w, c \o u, wire[d]) = Flight(wire[e], c, wire[d]) /\ Left(w, x) = Left(wire[e], todo[e])
  <2>1. b \o ((c \o u) \o <<>>) = b \o (c \o u)
    <3> HIDE DEF b, c, u
    <3> QED BY <1>3, FlightTurns
  <2> QED BY <1>2, <1>3, <2>1 DEF Flight, Outgoing, Left
<1>9. /\ Message(m) /\ m # <<>> /\ sent'[e] = m /\ got'[e] = <<>> /\ chan'[e] = <<>>
      /\ Speaks(e, p, m, wire'[e], todo'[e]) /\ Listens(e, m, wire'[d], todo'[d], got'[d])
      /\ Flow(m, Flight(wire'[e], chan'[d], wire'[d]), Left(wire'[e], todo'[e]), Len(got'[d]), Here(todo'[d]))
  BY <1>2, <1>4, <1>5, <1>6, <1>7, <1>8
<1> QED BY <1>9 DEF Talk

\* A step of the side that reads.
LEMMA TalkReads ==
    ASSUME TypeInv, NEW e \in Sides, NEW p, NEW m, Talk(e, p, m), NEW w, NEW x, NEW g, Change(Peer(e), w, x, g),
           NEW c, chan' = [chan EXCEPT ![Peer(e)] = c], sent' = sent, Listens(e, m, w, x, g),
           Flow(m, Flight(wire[e], c, w), Left(wire[e], todo[e]), Len(g), Here(x))
    PROVE  Talk(e, p, m)'
<1> DEFINE d == Peer(e)
<1>1. d \in Sides /\ d # e /\ Peer(d) = e
  BY OtherSide
<1>2. chan'[d] = c /\ chan'[e] = chan[e]
  BY <1>1 DEF TypeInv, WireTyped
<1>3. /\ wire'[d] = w /\ todo'[d] = x /\ got'[d] = g
      /\ wire'[e] = wire[e] /\ todo'[e] = todo[e] /\ got'[e] = got[e]
  BY <1>1, Changed
<1>4. /\ Message(m) /\ m # <<>> /\ sent[e] = m /\ got[e] = <<>> /\ chan[e] = <<>>
      /\ Speaks(e, p, m, wire[e], todo[e])
  BY DEF Talk
<1>5. /\ Message(m) /\ m # <<>> /\ sent'[e] = m /\ got'[e] = <<>> /\ chan'[e] = <<>>
      /\ Speaks(e, p, m, wire'[e], todo'[e]) /\ Listens(e, m, wire'[d], todo'[d], got'[d])
      /\ Flow(m, Flight(wire'[e], chan'[d], wire'[d]), Left(wire'[e], todo'[e]), Len(got'[d]), Here(todo'[d]))
  BY <1>2, <1>3, <1>4
<1> QED BY <1>5 DEF Talk

\* The reader takes the bytes of the next piece.
Readies(e, d, m, h, c, w, k, i) ==
    /\ d = Peer(e) /\ h \in Seq(Bytes) /\ c \in Seq(Bytes) /\ w \in WireSet /\ Len(h) # 0
    /\ h \o (w.buf \o c) = wire[d].buf \o chan[d]
    /\ k = Len(got[d]) /\ i = Here(todo[d]) /\ k < Len(m) /\ i \in 0 .. Len(Pieces(m[k + 1])) - 1
    /\ Len(Pieces(m[k + 1])[i + 1]) = Len(h)
TakesPiece(e, m, h, c, w, k, i) ==
    h = Pieces(m[k + 1])[i + 1] /\ Flow(m, Flight(wire[e], c, w), Left(wire[e], todo[e]), k, i + 1)

LEMMA TalkTakes ==
    ASSUME TypeInv, NEW e \in Sides, NEW p, NEW m, Talk(e, p, m), NEW d, NEW h, NEW c, NEW w, NEW k, NEW i,
           Readies(e, d, m, h, c, w, k, i)
    PROVE  TakesPiece(e, m, h, c, w, k, i)
<1> DEFINE u == Outgoing(wire[e])
           l == Left(wire[e], todo[e])
           b == wire[d].buf
           b1 == w.buf
           c0 == chan[d]
<1>0. /\ d = Peer(e) /\ h \in Seq(Bytes) /\ c \in Seq(Bytes) /\ w \in WireSet /\ Len(h) # 0
      /\ h \o (b1 \o c) = b \o c0
      /\ k = Len(got[d]) /\ i = Here(todo[d]) /\ k < Len(m) /\ i \in 0 .. Len(Pieces(m[k + 1])) - 1
      /\ Len(Pieces(m[k + 1])[i + 1]) = Len(h)
  BY Zenon DEF Readies
<1>1. Message(m) /\ Flow(m, b \o (c0 \o u), l, k, i)
  BY <1>0 DEF Talk, Flight
<1>2. d \in Sides /\ b \in Seq(Bytes) /\ c0 \in Seq(Bytes) /\ b1 \in Seq(Bytes) /\ got[d] \in Seq(Values)
  BY <1>0, OtherSide, SideTyped DEF WireSet
<1>3. u \in Seq(Bytes) /\ l \in Seq(Piece)
  BY SideTyped, NoneOK, EmptySeq DEF Outgoing, Left
<1>4. k \in 0 .. Len(m) - 1
  <2>1. Len(m) \in Nat /\ k \in Nat
    BY <1>0, <1>1, <1>2, MessageTypes
  <2> QED BY <1>0, <2>1
<1>5. h \o (b1 \o c) = b \o c0
  BY <1>0
<1> HIDE DEF u, l, b, b1, c0
<1>6. {b, c0, u, h, b1, c} \subseteq Seq(Bytes)
  BY <1>0, <1>2, <1>3
<1>7. Shifted(b, c0, u, h, b1, c)
  <2>1. Taken(b, c0, u, h, b1, c)
    BY <1>5, <1>6, Zenon DEF Taken
  <2> QED BY <2>1, FlightShrinks
<1> DEFINE r == b1 \o (c \o u)
<1>8. Flow(m, h \o r, l, k, i) /\ r \in Seq(Bytes)
  BY <1>1, <1>7, Zenon DEF Shifted
<1> HIDE DEF r
<1>9. HasTaken(m, k, i, h, r, l)
  <2>1. CanTake(m, k, i, h, r, l)
    BY <1>0, <1>1, <1>3, <1>4, <1>8, Zenon DEF CanTake
  <2> QED BY <2>1, FlowTake
<1> QED BY <1>9, Zenon DEF HasTaken, TakesPiece, r, b1, u, l, Flight

LEMMA ElementsIs ==
    ASSUME NEW t \in Plain, NEW n \in Nat
    PROVE  LET o == Elements(t, n) IN o \in OpSet /\ o.t = t /\ o.n = n /\ o.n # -1 /\ o.acc = <<>> /\ Len(o.acc) = 0
<1>1. <<>> \in Seq(Int) /\ Len(<<>>) = 0
  OBVIOUS
<1> QED BY <1>1 DEF Elements, OpSet, AllTypes

\* The listener takes the head of a value,
LEMMA TalkGet ==
    ASSUME TypeInv, NEW e \in Sides, NEW p, NEW m, Talk(e, p, m), Get(Peer(e)), ~broken'
    PROVE  Talk(e, p, m)'
<1> DEFINE d == Peer(e)
           y == todo[d]
           r == got[d]
           k == Len(r)
           f == m[k + 1]
           a == HeadOf(f)
<1>0. d \in Sides
  BY OtherSide
<1>1. PICK h \in Seq(Bytes), c \in Seq(Bytes), w \in WireSet, x \in Seq(OpSet), g \in Seq(Values) : Gets(d, h, c, w, x, g)
  BY <1>0, GetEffect
<1>2. /\ Change(d, w, x, g) /\ chan' = [chan EXCEPT ![d] = c] /\ sent' = sent
      /\ Len(h) = 2 /\ h \o (w.buf \o c) = wire[d].buf \o chan[d] /\ w.dir = "decode" /\ w.status = 0
      /\ GetResult(d, y[1].t, OfBinWord(h), w, x, g)
  BY <1>1 DEF Gets
<1>3. y # <<>> /\ y[1].t \in Plain /\ y[1].n = -1 /\ OpsOK(y) /\ r \in Seq(Values) /\ k \in Nat
  <2>1. y # <<>> /\ y[1].t \in Plain /\ y[1].n = -1 /\ wire[d].dir = "decode"
    BY DEF Get, Decoding
  <2> QED BY <1>0, <2>1, SideTyped
<1>4. Message(m) /\ Listens(e, m, wire[d], y, r)
  BY DEF Talk
<1>5. Here(y) = 0 /\ Pending(y) = 0
  BY <1>3 DEF Here, Begun, Pending
<1>6. k < Len(m) /\ f.t = y[1].t /\ k \in 0 .. Len(m) - 1
  <2>1. Expects(e, y, m, k)
    BY <1>4 DEF Listens
  <2>2. k < Len(m) /\ f.t = y[1].t
    <3> HIDE DEF k, y
    <3> QED BY <1>3, <1>4, <2>1, ExpectsHead
  <2>3. Len(m) \in Nat
    BY <1>4, MessageTypes
  <2> HIDE DEF k
  <2> QED BY <1>3, <2>2, <2>3
<1>7. Good(f)
  <2>1. k + 1 \in 1 .. Len(m)
    <3>1. Len(m) \in Nat
      BY <1>4, MessageTypes
    <3> HIDE DEF k
    <3> QED BY <1>3, <1>6, <3>1
  <2> HIDE DEF k
  <2> QED BY <1>4, <2>1, MessageTypes
<1>8. Len(Pieces(f)) \in Nat /\ 0 \in 0 .. Len(Pieces(f)) - 1 /\ Pieces(f)[1] = BinWord(a) /\ a \in WordRange /\ a \in Int
  <2>1. Len(Pieces(f)) = 1 + Len(ElementsOf(f)) /\ Pieces(f)[1] = BinWord(a)
    BY <1>7, PiecesAre
  <2>2. ElementsOf(f) \in Seq(Int) /\ a \in WordRange
    BY <1>7, ElementsTyped
  <2> DEFINE n == Len(ElementsOf(f))
  <2>3. n \in Nat
    BY <2>2
  <2>4. a \in Int
    BY <2>2, WordBounds
  <2> HIDE DEF n, f, a
  <2> QED BY <2>1, <2>2, <2>3, <2>4 DEF n
<1>9. Len(BinWord(a)) = 2 /\ OfBinWord(BinWord(a)) = a
  BY <1>8, WordIsPiece, WordAndBack
<1>10. h = BinWord(a) /\ Flow(m, Flight(wire[e], c, w), Left(wire[e], todo[e]), k, 1)
  <2> DEFINE i == 0
  <2>1. Len(Pieces(m[k + 1])[i + 1]) = Len(h)
    BY <1>2, <1>8, <1>9
  <2>2. i = Here(todo[d]) /\ k = Len(got[d]) /\ i \in 0 .. Len(Pieces(m[k + 1])) - 1 /\ Len(h) # 0
    BY <1>2, <1>5, <1>8
  <2>3. TakesPiece(e, m, h, c, w, k, i)
    <3>1. d = Peer(e) /\ h \o (w.buf \o c) = wire[d].buf \o chan[d] /\ k < Len(m)
      BY <1>2, <1>6
    <3> HIDE DEF d, k, i
    <3>2. Readies(e, d, m, h, c, w, k, i)
      BY <2>1, <2>2, <3>1, Zenon DEF Readies
    <3> QED BY <3>2, TalkTakes
  <2> QED BY <1>8, <2>3 DEF TakesPiece
<1>11. GetResult(d, f.t, a, w, x, g)
  BY <1>2, <1>6, <1>9, <1>10
<1>12. wire[d].alloc = Freed(r) /\ Freed(r) \in Nat
  <2>1. Freed(r) \in Nat
    BY <1>3, FreedIs
  <2>2. wire[d].alloc = Freed(r) + Pending(y)
    BY <1>4 DEF Listens
  <2> HIDE DEF r, d, y
  <2> QED BY <1>5, <2>1, <2>2
<1>13. ASSUME x = Tail(y), g = Append(r, f), w.alloc = Freed(r), FreedBy(f) = 0, Len(Pieces(f)) = 1
       PROVE  Talk(e, p, m)'
  <2>1. w.alloc = Freed(r) + FreedBy(f)
    BY <1>12, <1>13
  <2>2. Listens(e, m, w, x, g) /\ Here(x) = 0 /\ Len(g) = k + 1
    <3>1. y[1].t \in Plain /\ w.alloc = Freed(r) + FreedBy(m[Len(r) + 1])
      BY <1>3, <2>1
    <3> HIDE DEF y, r, d, f
    <3>2. Listens(e, m, w, Tail(y), Append(r, m[Len(r) + 1])) /\ Here(Tail(y)) = 0 /\ Len(Append(r, m[Len(r) + 1])) = Len(r) + 1
      BY <1>2, <1>3, <1>4, <3>1, ListenDone
    <3> QED BY <1>13, <3>2 DEF f, k
  <2>3. Flow(m, Flight(wire[e], c, w), Left(wire[e], todo[e]), k + 1, 0)
    <3>1. Flow(m, Flight(wire[e], c, w), Left(wire[e], todo[e]), k, Len(Pieces(m[k + 1])))
      BY <1>10, <1>13
    <3> HIDE DEF k
    <3> QED BY <1>4, <1>6, <3>1, FlowDone
  <2>4. Flow(m, Flight(wire[e], c, w), Left(wire[e], todo[e]), Len(g), Here(x))
    BY <2>2, <2>3
  <2> QED BY <1>2, <2>2, <2>4, TalkReads
<1>14. ASSUME NEW n \in Nat, n = Len(ElementsOf(f)), f.t # "word", x = <<Elements(f.t, n)>> \o Tail(y), g = r,
              w.alloc = Freed(r) + Scaled(f.t, n)
       PROVE  Talk(e, p, m)'
  <2> DEFINE o == Elements(f.t, n)
  <2>1. o \in OpSet /\ o.t = f.t /\ o.n = n /\ o.n # -1 /\ o.acc = <<>> /\ Len(o.acc) = 0 /\ o.t \in Plain \ {"word"}
    BY <1>3, <1>6, <1>14, ElementsIs
  <2> HIDE DEF o
  <2>2. o.n + Len(o.acc) = n /\ 1 + Len(o.acc) = 1
    BY <2>1
  <2>3. Partial(o, f)
    BY <1>14, <2>1, <2>2 DEF Partial
  <2>4. Listens(e, m, w, x, r) /\ Here(x) = 1
    <3>1. w.alloc = Freed(r) + Scaled(o.t, o.n + Len(o.acc)) /\ o.t = y[1].t /\ Partial(o, m[Len(r) + 1]) /\ Len(r) < Len(m)
      BY <1>6, <1>14, <2>1, <2>2, <2>3
    <3> HIDE DEF y, r, d, f
    <3>2. Listens(e, m, w, <<o>> \o Tail(y), r) /\ Here(<<o>> \o Tail(y)) = 1 + Len(o.acc)
      <4>1. OpsOK(y) /\ y # <<>> /\ r \in Seq(Values) /\ Message(m) /\ Listens(e, m, wire[d], y, r) /\ w.status = 0 /\ w.dir = "decode"
        BY <1>2, <1>3, <1>4
      <4>2. Begins(e, m, wire[d], y, r, o, w)
        BY <2>1, <3>1, <4>1, Zenon DEF Begins
      <4> QED BY <4>2, ListenBegun DEF HasBegun
    <3> QED BY <1>14, <2>2, <3>2 DEF o
  <2>5. Flow(m, Flight(wire[e], c, w), Left(wire[e], todo[e]), Len(g), Here(x))
    BY <1>10, <1>14, <2>4
  <2> QED BY <1>2, <1>14, <2>4, <2>5, TalkReads
<1>15. CASE f.t = "word" \/ (f.t = "ptr" /\ a # 0)
  <2>1. FreedBy(f) = 0 /\ Len(Pieces(f)) = 1 /\ (f.t = "word" => f = Word(a)) /\ (f.t = "ptr" => f = Ptr(NullPtr))
    BY <1>7, <1>15, ReadWhole
  <2>2. x = Tail(y) /\ g = Append(r, f) /\ w.alloc = Freed(r)
    BY <1>11, <1>12, <1>15, <2>1 DEF GetResult
  <2> QED BY <1>13, <2>1, <2>2
<1>16. CASE f.t = "ptr" /\ a = 0
  <2>1. Len(ElementsOf(f)) = 1
    <3>1. Len(ElementsOf(f)) = 1 - a
      BY <1>7, <1>16, ElementsTyped, Zenon
    <3> HIDE DEF a
    <3> QED BY <1>16, <3>1
  <2>2. x = <<Elements(f.t, 1)>> \o Tail(y) /\ g = r /\ w.alloc = Freed(r) + 2 /\ Scaled(f.t, 1) = 2
    BY <1>11, <1>12, <1>16 DEF GetResult, Scaled
  <2> QED BY <1>14, <1>16, <2>1, <2>2
<1>17. CASE f.t \in {"words", "string", "chars"}
  <2>1. a = Len(ElementsOf(f)) /\ a \in Nat
    <3>1. a = Len(ElementsOf(f)) /\ a >= 0
      BY <1>7, <1>17, ElementsTyped
    <3> HIDE DEF a
    <3> QED BY <1>8, <3>1
  <2>2. x = <<Elements(f.t, a)>> \o Tail(y) /\ g = r /\ w.alloc = Freed(r) + Scaled(f.t, a)
    BY <1>11, <1>12, <1>17 DEF GetResult
  <2> HIDE DEF a
  <2> QED BY <1>14, <1>17, <2>1, <2>2
<1> QED BY <1>3, <1>6, <1>15, <1>16, <1>17 DEF Plain

\* The state of a reader whose first operation has begun.
LEMMA ReaderBegun ==
    ASSUME TypeInv, NEW e \in Sides, NEW p, NEW m, Talk(e, p, m), NEW d, d = Peer(e), wire[d].dir = "decode",
           todo[d] # <<>>, todo[d][1].n # -1
    PROVE  LET y == todo[d]
               r == got[d]
               k == Len(r)
               f == m[k + 1]
               o == y[1]
           IN /\ d \in Sides /\ OpsOK(y) /\ o \in OpSet /\ o.t \in Plain \ {"word"} /\ r \in Seq(Values) /\ k \in Nat
              /\ Message(m) /\ Listens(e, m, wire[d], y, r) /\ k < Len(m) /\ k \in 0 .. Len(m) - 1 /\ Good(f) /\ Partial(o, f)
              /\ Here(y) = 1 + Len(o.acc) /\ f.t = o.t
              /\ wire[d].alloc = Freed(r) + Scaled(o.t, o.n + Len(o.acc)) /\ wire[d].status = 0
<1> DEFINE y == todo[d]
           r == got[d]
           k == Len(r)
           f == m[k + 1]
           o == y[1]
<1>1. d \in Sides /\ OpsOK(y) /\ r \in Seq(Values) /\ k \in Nat /\ y # <<>>
  BY OtherSide, SideTyped
<1>2. Message(m) /\ Listens(e, m, wire[d], y, r)
  BY DEF Talk
<1>3. o \in OpSet /\ o.t \in Plain \ {"word"}
  <2>1. 1 \in 1 .. Len(y) /\ y \in Seq(OpSet)
    <3>1. y \in Seq(OpSet)
      BY <1>1 DEF OpsOK
    <3>2. Len(y) \in Nat /\ Len(y) # 0
      BY <1>1, <3>1, EmptySeq
    <3> HIDE DEF y
    <3> QED BY <3>1, <3>2
  <2> QED BY <1>1, <2>1 DEF OpsOK
<1>4. Begun(y) /\ Here(y) = 1 + Len(o.acc) /\ Pending(y) = Scaled(o.t, o.n + Len(o.acc))
  BY <1>1 DEF Begun, Here, Pending
<1>5. k < Len(m) /\ Partial(o, f) /\ f.t = o.t
  BY <1>2, <1>4 DEF Listens, Reading, Partial
<1>6. k \in 0 .. Len(m) - 1 /\ k + 1 \in 1 .. Len(m)
  <2>1. Len(m) \in Nat
    BY <1>2, MessageTypes
  <2> HIDE DEF k
  <2> QED BY <1>1, <1>5, <2>1
<1>7. Good(f)
  <2> HIDE DEF k
  <2> QED BY <1>2, <1>6, MessageTypes
<1>8. wire[d].alloc = Freed(r) + Scaled(o.t, o.n + Len(o.acc)) /\ wire[d].status = 0
  BY <1>2, <1>4 DEF Listens
<1> HIDE DEF y, r, k, f, o
<1>9. /\ d \in Sides /\ OpsOK(y) /\ o \in OpSet /\ o.t \in Plain \ {"word"} /\ r \in Seq(Values) /\ k \in Nat
      /\ Message(m) /\ Listens(e, m, wire[d], y, r) /\ k < Len(m) /\ k \in 0 .. Len(m) - 1 /\ Good(f) /\ Partial(o, f)
      /\ Here(y) = 1 + Len(o.acc) /\ f.t = o.t
      /\ wire[d].alloc = Freed(r) + Scaled(o.t, o.n + Len(o.acc)) /\ wire[d].status = 0
  BY <1>1, <1>2, <1>3, <1>4, <1>5, <1>6, <1>7, <1>8
<1> QED BY <1>9 DEF y, r, k, f, o

\* an element of it,
LEMMA TalkElement ==
    ASSUME TypeInv, NEW e \in Sides, NEW p, NEW m, Talk(e, p, m), GetElement(Peer(e)), ~broken'
    PROVE  Talk(e, p, m)'
<1> DEFINE d == Peer(e)
           y == todo[d]
           r == got[d]
           k == Len(r)
           f == m[k + 1]
           o == y[1]
           i == 1 + Len(o.acc)
<1>0. d \in Sides /\ wire[d].dir = "decode" /\ y # <<>> /\ o.n > 0
  BY OtherSide DEF GetElement, Decoding
<1>1. PICK h \in Seq(Bytes), c \in Seq(Bytes), w \in WireSet, x \in Seq(OpSet) : GetsOne(d, h, c, w, x)
  BY <1>0, GetElementEffect
<1>2. /\ Change(d, w, x, r) /\ chan' = [chan EXCEPT ![d] = c] /\ sent' = sent
      /\ Len(h) = BytesOf(o) /\ h \o (w.buf \o c) = wire[d].buf \o chan[d] /\ w.dir = "decode" /\ w.status = 0
      /\ w.alloc = wire[d].alloc /\ x = <<WithElement(o, h)>> \o Tail(y)
  BY <1>1 DEF GetsOne
<1>3. /\ OpsOK(y) /\ o \in OpSet /\ o.t \in Plain \ {"word"} /\ r \in Seq(Values) /\ k \in Nat
      /\ Message(m) /\ Listens(e, m, wire[d], y, r) /\ k < Len(m) /\ k \in 0 .. Len(m) - 1 /\ Good(f) /\ Partial(o, f)
      /\ Here(y) = i /\ f.t = o.t
      /\ wire[d].alloc = Freed(r) + Scaled(o.t, o.n + Len(o.acc))
  <2>1. o.n # -1
    <3> HIDE DEF o
    <3> QED BY <1>0
  <2> QED BY <1>0, <2>1, ReaderBegun
<1>4. o.n \in Nat /\ o.n > 0 /\ o.acc \in Seq(Int) /\ Len(o.acc) \in Nat
  <2>1. o.n \in Nat \cup {-1} /\ o.acc \in Seq(Int)
    BY <1>3 DEF OpSet
  <2> HIDE DEF o
  <2>2. o.n \in Nat
    BY <1>0, <2>1
  <2> QED BY <1>0, <2>1, <2>2
<1>5. i \in 0 .. Len(Pieces(f)) - 1 /\ Len(Pieces(f)[i + 1]) = BytesOf(o) /\ Partial(WithElement(o, Pieces(f)[i + 1]), f)
  <2> HIDE DEF o, f
  <2> QED BY <1>3, <1>4, ReadElement DEF i
<1>6. BytesOf(o) # 0
  BY DEF BytesOf
<1>7. h = Pieces(f)[i + 1] /\ Flow(m, Flight(wire[e], c, w), Left(wire[e], todo[e]), k, i + 1)
  <2>1. /\ d = Peer(e) /\ h \in Seq(Bytes) /\ c \in Seq(Bytes) /\ w \in WireSet /\ Len(h) # 0
        /\ h \o (w.buf \o c) = wire[d].buf \o chan[d]
        /\ k = Len(got[d]) /\ i = Here(todo[d]) /\ k < Len(m) /\ i \in 0 .. Len(Pieces(m[k + 1])) - 1
        /\ Len(Pieces(m[k + 1])[i + 1]) = Len(h)
    BY <1>2, <1>3, <1>5, <1>6
  <2> HIDE DEF d, k, i
  <2>2. Readies(e, d, m, h, c, w, k, i)
    BY <2>1, Zenon DEF Readies
  <2>3. TakesPiece(e, m, h, c, w, k, i)
    BY <2>2, TalkTakes
  <2> QED BY <2>3 DEF TakesPiece
<1> DEFINE z == WithElement(o, h)
<1>8. z \in OpSet /\ z.t = o.t /\ z.n = o.n - 1 /\ Len(z.acc) = Len(o.acc) + 1
  <2> HIDE DEF o
  <2> QED BY <1>2, <1>3, <1>4, WithElementIs
<1>9. Partial(z, f)
  BY <1>5, <1>7
<1> HIDE DEF z
<1>10. z.n # -1 /\ z.n + Len(z.acc) = o.n + Len(o.acc) /\ 1 + Len(z.acc) = i + 1
  <2> DEFINE a == Len(z.acc)
             b == Len(o.acc)
             n == o.n
  <2>1. n \in Nat /\ n > 0 /\ b \in Nat /\ z.n = n - 1 /\ a = b + 1
    BY <1>4, <1>8
  <2> HIDE DEF a, b, n
  <2>2. z.n # -1 /\ z.n + a = n + b /\ 1 + a = (1 + b) + 1
    BY <2>1
  <2> QED BY <2>2 DEF a, b, n
<1>11. w.alloc = Freed(r) + Scaled(z.t, z.n + Len(z.acc))
  BY <1>2, <1>3, <1>8, <1>10
<1>12. Listens(e, m, w, x, r) /\ Here(x) = i + 1
  <2>1. /\ Message(m) /\ r \in Seq(Values) /\ Listens(e, m, wire[d], y, r) /\ OpsOK(y) /\ y # <<>> /\ Len(r) < Len(m)
        /\ z \in OpSet /\ z.n # -1 /\ z.t = y[1].t /\ z.t \in Plain \ {"word"} /\ Partial(z, m[Len(r) + 1])
        /\ w.status = 0 /\ w.dir = "decode" /\ w.alloc = Freed(r) + Scaled(z.t, z.n + Len(z.acc))
    BY <1>0, <1>2, <1>3, <1>8, <1>9, <1>10, <1>11
  <2> HIDE DEF y, r, d
  <2>2. Begins(e, m, wire[d], y, r, z, w)
    BY <2>1, Zenon DEF Begins
  <2>3. HasBegun(e, m, y, r, z, w)
    BY <2>2, ListenBegun
  <2> HIDE DEF i
  <2> QED BY <1>2, <1>10, <2>3 DEF HasBegun, y, z, o
<1>13. Flow(m, Flight(wire[e], c, w), Left(wire[e], todo[e]), Len(r), Here(x))
  BY <1>7, <1>12
<1> QED BY <1>2, <1>12, <1>13, TalkReads

\* or has all of them,
LEMMA TalkEnd ==
    ASSUME TypeInv, NEW e \in Sides, NEW p, NEW m, Talk(e, p, m), GetEnd(Peer(e))
    PROVE  Talk(e, p, m)'
<1> DEFINE d == Peer(e)
           y == todo[d]
           r == got[d]
           k == Len(r)
           f == m[k + 1]
           o == y[1]
           x == Tail(y)
           g == Append(r, Complete(o))
           w == wire[d]
<1>0. d \in Sides
  BY OtherSide
<1>1. /\ Change(d, w, x, g) /\ UNCHANGED <<wire, chan, sent>> /\ w.dir = "decode" /\ y # <<>> /\ o.n = 0
  BY <1>0, GetEndEffect
<1>2. /\ OpsOK(y) /\ o \in OpSet /\ o.t \in Plain \ {"word"} /\ r \in Seq(Values) /\ k \in Nat
      /\ Message(m) /\ Listens(e, m, w, y, r) /\ k < Len(m) /\ k \in 0 .. Len(m) - 1 /\ Good(f) /\ Partial(o, f)
      /\ Here(y) = 1 + Len(o.acc) /\ f.t = o.t
      /\ w.alloc = Freed(r) + Scaled(o.t, o.n + Len(o.acc)) /\ w.status = 0
  <2>1. o.n # -1
    <3> HIDE DEF o
    <3> QED BY <1>1
  <2> QED BY <1>0, <1>1, <2>1, ReaderBegun
<1>3. Complete(o) = f /\ FreedBy(f) = Scaled(o.t, o.n + Len(o.acc)) /\ Len(Pieces(f)) = 1 + Len(o.acc)
  <2> HIDE DEF o, f
  <2> QED BY <1>1, <1>2, ReadComplete
<1>4. Listens(e, m, w, x, g) /\ Here(x) = 0 /\ Len(g) = k + 1
  <2>1. w.alloc = Freed(r) + FreedBy(m[Len(r) + 1]) /\ y[1].t \in Plain
    BY <1>2, <1>3
  <2> HIDE DEF y, r, w, f, d
  <2>2. Listens(e, m, w, Tail(y), Append(r, m[Len(r) + 1])) /\ Here(Tail(y)) = 0 /\ Len(Append(r, m[Len(r) + 1])) = Len(r) + 1
    BY <1>1, <1>2, <2>1, ListenDone
  <2> QED BY <1>3, <2>2 DEF f, k
<1>5. Flow(m, Flight(wire[e], chan[d], w), Left(wire[e], todo[e]), k + 1, 0)
  <2>1. Flow(m, Flight(wire[e], chan[d], w), Left(wire[e], todo[e]), k, Len(Pieces(m[k + 1])))
    BY <1>2, <1>3 DEF Talk
  <2> HIDE DEF k
  <2> QED BY <1>2, <2>1, FlowDone
<1>6. Flow(m, Flight(wire[e], chan[d], w), Left(wire[e], todo[e]), Len(g), Here(x))
  BY <1>4, <1>5
<1>7. chan' = [chan EXCEPT ![d] = chan[d]]
  BY <1>0, <1>1 DEF TypeInv, WireTyped
<1> HIDE DEF w, x, g
<1> QED BY <1>1, <1>4, <1>6, <1>7, TalkReads

\* or, being the server, learns which procedure it is.
LEMMA TalkDispatch ==
    ASSUME TypeInv, NEW e \in Sides, NEW p, NEW m, Talk(e, p, m), Dispatch(Peer(e))
    PROVE  Talk(e, p, m)'
<1> DEFINE d == Peer(e)
           y == todo[d]
           r == got[d]
           k == Len(r)
           t == y[1].t
           ty == Following(d, t)
           x == Ops(ty) \o Tail(y)
           w == wire[d]
<1>0. d \in Sides /\ r \in Seq(Values) /\ k \in Nat
  BY OtherSide, SideTyped
<1>1. /\ Change(d, w, x, r) /\ UNCHANGED <<wire, chan, sent>> /\ w.dir = "decode" /\ y # <<>> /\ y[1].n = -1
      /\ OpsOK(y) /\ t \in {"action", "value"} /\ ty \in Seq(AllTypes)
  BY <1>0, DispatchEffect
<1>2. Message(m) /\ Listens(e, m, w, y, r)
  BY DEF Talk
<1>3. Reading(y, r, m) /\ Expects(e, y, m, k) /\ w.alloc = Freed(r) + Pending(y) /\ w.status = 0
  BY <1>2 DEF Listens
<1>4. Here(y) = 0 /\ Pending(y) = 0
  BY <1>1 DEF Here, Begun, Pending
<1>5. /\ Expects(e, Ops(Next(m, k, t)) \o Tail(y), m, k)
      /\ t = "action" => k = 4 /\ k <= Len(m)
      /\ t = "value" => k >= 2 /\ k <= Len(m)
  <2> HIDE DEF k, y
  <2> QED BY <1>0, <1>1, <1>2, <1>3, ExpectsNext
<1>6. ty = Next(m, k, t)
  <2>1. \A j \in 1 .. Len(r) : r[j] = m[j]
    BY <1>3 DEF Reading
  <2>2. CASE t = "action"
    <3>1. k \in 1 .. k
      <4> HIDE DEF k
      <4> QED BY <1>0, <1>5, <2>2
    <3>2. LastWord(d) = m[k].v[1]
      BY <2>1, <3>1 DEF LastWord
    <3> QED BY <2>2, <3>2 DEF Following, Next
  <2>3. CASE t = "value"
    <3>1. k - 1 \in 1 .. k
      <4> HIDE DEF k
      <4> QED BY <1>0, <1>5, <2>3
    <3>2. got[d][Len(got[d]) - 1].v[1] = m[k - 1].v[1]
      BY <2>1, <3>1
    <3> QED BY <2>3, <3>2 DEF Following, Next
  <2> QED BY <1>1, <2>2, <2>3
<1>7. OpsOK(x) /\ Pending(x) = 0 /\ (x # <<>> => x[1].n = -1)
  <2>1. OpsOK(Tail(y)) /\ \A j \in 1 .. Len(Tail(y)) : Tail(y)[j].n = -1
    BY <1>1, OpsTail
  <2> DEFINE q == Tail(y)
  <2>2. OpsOK(q) /\ \A j \in 1 .. Len(q) : q[j].n = -1
    BY <2>1
  <2> HIDE DEF ty, q
  <2>3. /\ OpsOK(Ops(ty) \o q) /\ Pending(Ops(ty) \o q) = 0 /\ Len(Ops(ty) \o q) = Len(ty) + Len(q) /\ Len(ty) \in Nat /\ Len(q) \in Nat
        /\ \A j \in 1 .. Len(ty) : (Ops(ty) \o q)[j] = Op(ty[j])
        /\ \A j \in 1 .. Len(q) : (Ops(ty) \o q)[Len(ty) + j] = q[j]
    BY <1>1, <2>2, OpsJoin
  <2>4. /\ OpsOK(x) /\ Pending(x) = 0 /\ Len(x) = Len(ty) + Len(q) /\ Len(ty) \in Nat /\ Len(q) \in Nat
        /\ \A j \in 1 .. Len(ty) : x[j] = Op(ty[j])
        /\ \A j \in 1 .. Len(q) : x[Len(ty) + j] = q[j]
    BY <2>3 DEF q
  <2> HIDE DEF x
  <2>5. ASSUME x # <<>> PROVE x[1].n = -1
    <3>1. Len(x) # 0
      BY <2>4, <2>5, EmptySeq DEF OpsOK
    <3>2. CASE Len(ty) # 0
      <4>1. 1 \in 1 .. Len(ty)
        BY <2>4, <3>2
      <4>2. x[1] = Op(ty[1])
        BY <2>4, <4>1
      <4>3. Op(ty[1]).n = -1
        BY DEF Op
      <4> QED BY <4>2, <4>3
    <3>3. CASE Len(ty) = 0
      <4>1. 1 \in 1 .. Len(q)
        BY <2>4, <3>1, <3>3
      <4> QED BY <2>2, <2>4, <3>3, <4>1
    <3> QED BY <3>2, <3>3
  <2> QED BY <2>4, <2>5
<1> HIDE DEF x
<1>8. ~Begun(x) /\ Here(x) = 0
  BY <1>7 DEF Begun, Here
<1>9. Expects(e, x, m, k)
  BY <1>5, <1>6 DEF x
<1>10. Reading(x, r, m)
  BY <1>3, <1>8 DEF Reading
<1>11. Listens(e, m, w, x, r)
  <2>1. w.alloc = Freed(r) + Pending(x)
    BY <1>3, <1>4, <1>7
  <2> QED BY <1>1, <1>3, <1>9, <1>10, <2>1 DEF Listens
<1>12. Flow(m, Flight(wire[e], chan[d], w), Left(wire[e], todo[e]), Len(r), Here(x))
  BY <1>4, <1>8 DEF Talk
<1>13. chan' = [chan EXCEPT ![d] = chan[d]]
  BY <1>0, <1>1 DEF TypeInv, WireTyped
<1> QED BY <1>1, <1>11, <1>12, <1>13, TalkReads

-----------------------------------------------------------------------------
(* What each side expects is what the other one sends.                     *)

\* A list of types that suit the values is a plan.
LEMMA OpsWhole ==
    ASSUME NEW types \in Seq(AllTypes), NEW m, NEW k \in Nat, k + Len(types) = Len(m),
           \A i \in 1 .. Len(types) : Suits(types[i], m, k + i)
    PROVE  Planned(Ops(types), m, k)
<1>1. Len(Ops(types)) = Len(types) /\ \A i \in 1 .. Len(types) : Ops(types)[i].t = types[i]
  <2>1. ASSUME NEW i \in 1 .. Len(types) PROVE Ops(types)[i].t = types[i]
    <3>1. Ops(types)[i] = Op(types[i]) /\ types[i] \in AllTypes
      BY OpsAre
    <3> QED BY <3>1, NewOpIs
  <2> QED BY <2>1, OpsAre
<1> DEFINE y == Ops(types)
<1> HIDE DEF y
<1>2. Whole(y, m, k)
  BY <1>1 DEF Whole, y
<1> QED BY <1>2 DEF Planned, y

LEMMA WordIs ==
    ASSUME NEW w
    PROVE  /\ Word(w).t = "word" /\ Word(w).v[1] = w /\ String(w).t = "string" /\ Chars(w).t = "chars" /\ Words(w).t = "words"
           /\ Ptr(w).t = "ptr"
BY DEF Word, String, Chars, Words, Ptr

IsPlanned(p, n, m) ==
    /\ Planned(Ops(RequestTypes(p)), m, 1) /\ Message(m)
    /\ Len(m) \in Nat /\ Len(m) >= 2 /\ m[1].t = "word" /\ m[1].v[1] = n

\* What the server expects of a procedure is what a client sends for it,
LEMMA RequestPlanned ==
    ASSUME NEW p, NEW n \in WordRange, NEW w \in WordRange, NEW s \in Strings
    PROVE  IsPlanned(p, n, <<Word(n)>> \o Request(p, w, s))
<1> DEFINE m == <<Word(n)>> \o Request(p, w, s)
           ty == RequestTypes(p)
<1>1. /\ Message(m)
      /\ p = "init" => m = <<Word(n), Word(w), String(s)>>
      /\ p = "control" => m = <<Word(n), Word(w), Word(0), Word(1), Word(TypeString), Word(Len(Text(s))), Chars(Text(s))>>
      /\ p = "auto" /\ Version < 3 => m = <<Word(n), Word(w), Word(0), Word(SetAuto), Word(TypeInt), Word(1), Words(<<w>>)>>
      /\ p = "auto" /\ ~(Version < 3) => m = <<Word(n), Word(w), Word(0), Word(SetAuto)>>
      /\ p = "authorize" => m = <<Word(n), String(s), String(s), String(Null)>>
      /\ p \notin {"init", "control", "auto", "authorize"} => m = <<Word(n), Word(w)>>
  <2>1. IsRequest(p, n, w, s, m)
    BY RequestIs
  <2> HIDE DEF m
  <2> QED BY <2>1, Zenon DEF IsRequest
<1>2. /\ p \in {"control", "auto"} => ty = <<"word", "word", "word", "action">>
      /\ p = "init" => ty = <<"word", "string">>
      /\ p = "authorize" => ty = <<"string", "string", "string">>
      /\ p \notin {"init", "control", "auto", "authorize"} => ty = <<"word">>
      /\ ty \in Seq(AllTypes)
  BY RequestTypesAre
<1> HIDE DEF m, ty
<1>3. ASSUME p \in {"control", "auto"}, Len(m) \in {4, 7}, m[1].t = "word", m[2].t = "word", m[3].t = "word", m[4].t = "word", AfterAction(m)
      PROVE  Planned(Ops(ty), m, 1)
  <2>1. Len(ty) = 4 /\ ty[1] = "word" /\ ty[2] = "word" /\ ty[3] = "word" /\ ty[4] = "action"
    BY <1>2, <1>3
  <2> DEFINE y == Ops(ty)
  <2>2. Len(y) = 4 /\ \A i \in 1 .. 4 : y[i] = Op(ty[i]) /\ ty[i] \in AllTypes
    BY <1>2, <2>1, OpsAre
  <2> HIDE DEF y
  <2>3. y[1].t = "word" /\ y[2].t = "word" /\ y[3].t = "word" /\ y[4].t = "action"
    BY <2>1, <2>2, NewOpIs
  <2>4. \A i \in 1 .. 3 : y[i].t = m[1 + i].t
    <3>1. y[1].t = m[1 + 1].t /\ y[2].t = m[1 + 2].t /\ y[3].t = m[1 + 3].t
      BY <1>3, <2>3
    <3> QED BY <3>1
  <2>5. y # <<>>
    <3>1. Len(<<>>) = 0
      OBVIOUS
    <3>2. Len(y) # Len(<<>>)
      BY <2>2, <3>1
    <3> QED BY <3>2, Zenon
  <2>6. UpToAction(y, m, 1)
    BY <1>3, <2>2, <2>3, <2>4, <2>5 DEF UpToAction
  <2> QED BY <2>6 DEF Planned, y
<1>4. CASE p = "control"
  <2>1. Len(m) = 7 /\ m[1] = Word(n) /\ m[2] = Word(w) /\ m[3] = Word(0) /\ m[4] = Word(1) /\ m[5] = Word(TypeString)
        /\ m[6] = Word(Len(Text(s))) /\ m[7] = Chars(Text(s))
    BY <1>1, <1>4
  <2>2. m[1].t = "word" /\ m[2].t = "word" /\ m[3].t = "word" /\ m[4].t = "word" /\ m[4].v[1] = 1 /\ m[5].t = "word"
        /\ m[5].v[1] = TypeString /\ m[6].t = "word" /\ m[7].t = "chars" /\ m[1].v[1] = n
    BY <2>1, WordIs
  <2>3. ValueAt(m, 7)
    BY <2>2 DEF ValueAt
  <2>4. AfterAction(m)
    BY <2>1, <2>2, <2>3 DEF AfterAction, SetAuto
  <2>5. Planned(Ops(ty), m, 1)
    BY <1>3, <1>4, <2>1, <2>2, <2>4
  <2>6. IsPlanned(p, n, m)
    BY <1>1, <2>1, <2>2, <2>5 DEF IsPlanned, ty
  <2> QED BY <2>6 DEF m
<1>5. CASE p = "auto" /\ Version < 3
  <2>1. Len(m) = 7 /\ m[1] = Word(n) /\ m[2] = Word(w) /\ m[3] = Word(0) /\ m[4] = Word(SetAuto) /\ m[5] = Word(TypeInt)
        /\ m[6] = Word(1) /\ m[7] = Words(<<w>>)
    BY <1>1, <1>5
  <2>2. m[1].t = "word" /\ m[2].t = "word" /\ m[3].t = "word" /\ m[4].t = "word" /\ m[5].t = "word"
        /\ m[5].v[1] = TypeInt /\ m[6].t = "word" /\ m[7].t = "words" /\ m[1].v[1] = n
    BY <2>1, WordIs
  <2>3. ValueAt(m, 7)
    BY <2>2 DEF ValueAt, TypeInt, TypeString
  <2>4. AfterAction(m)
    BY <1>5, <2>1, <2>2, <2>3 DEF AfterAction
  <2>5. Planned(Ops(ty), m, 1)
    BY <1>3, <1>5, <2>1, <2>2, <2>4
  <2>6. IsPlanned(p, n, m)
    BY <1>1, <2>1, <2>2, <2>5 DEF IsPlanned, ty
  <2> QED BY <2>6 DEF m
<1>6. CASE p = "auto" /\ ~(Version < 3)
  <2>1. Len(m) = 4 /\ m[1] = Word(n) /\ m[2] = Word(w) /\ m[3] = Word(0) /\ m[4] = Word(SetAuto)
    BY <1>1, <1>6
  <2>2. m[1].t = "word" /\ m[2].t = "word" /\ m[3].t = "word" /\ m[4].t = "word" /\ m[4].v[1] = SetAuto /\ m[1].v[1] = n
    BY <2>1, WordIs
  <2>4. AfterAction(m)
    BY <1>6, <2>1, <2>2 DEF AfterAction
  <2>5. Planned(Ops(ty), m, 1)
    BY <1>3, <1>6, <2>1, <2>2, <2>4
  <2>6. IsPlanned(p, n, m)
    BY <1>1, <2>1, <2>2, <2>5 DEF IsPlanned, ty
  <2> QED BY <2>6 DEF m
<1>7. CASE p = "init"
  <2>1. Len(m) = 3 /\ m[1] = Word(n) /\ m[2] = Word(w) /\ m[3] = String(s) /\ Len(ty) = 2 /\ ty[1] = "word" /\ ty[2] = "string"
    BY <1>1, <1>2, <1>7
  <2>2. m[1].t = "word" /\ m[2].t = "word" /\ m[3].t = "string" /\ m[1].v[1] = n
    BY <2>1, WordIs
  <2>3. Suits(ty[1], m, 1 + 1) /\ Suits(ty[2], m, 1 + 2)
    BY <2>1, <2>2 DEF Suits
  <2>4. \A i \in 1 .. Len(ty) : Suits(ty[i], m, 1 + i)
    BY <2>1, <2>3
  <2>5. Planned(Ops(ty), m, 1)
    <3>1. 1 + Len(ty) = Len(m) /\ 1 \in Nat
      BY <2>1
    <3> QED BY <1>2, <2>4, <3>1, OpsWhole
  <2>6. IsPlanned(p, n, m)
    BY <1>1, <2>1, <2>2, <2>5 DEF IsPlanned, ty
  <2> QED BY <2>6 DEF m
<1>8. CASE p = "authorize"
  <2>1. Len(m) = 4 /\ m[1] = Word(n) /\ m[2] = String(s) /\ m[3] = String(s) /\ m[4] = String(Null)
        /\ Len(ty) = 3 /\ ty[1] = "string" /\ ty[2] = "string" /\ ty[3] = "string"
    BY <1>1, <1>2, <1>8
  <2>2. m[1].t = "word" /\ m[2].t = "string" /\ m[3].t = "string" /\ m[4].t = "string" /\ m[1].v[1] = n
    BY <2>1, WordIs
  <2>3. Suits(ty[1], m, 1 + 1) /\ Suits(ty[2], m, 1 + 2) /\ Suits(ty[3], m, 1 + 3)
    BY <2>1, <2>2 DEF Suits
  <2>4. \A i \in 1 .. Len(ty) : Suits(ty[i], m, 1 + i)
    BY <2>1, <2>3
  <2>5. Planned(Ops(ty), m, 1)
    <3>1. 1 + Len(ty) = Len(m) /\ 1 \in Nat
      BY <2>1
    <3> QED BY <1>2, <2>4, <3>1, OpsWhole
  <2>6. IsPlanned(p, n, m)
    BY <1>1, <2>1, <2>2, <2>5 DEF IsPlanned, ty
  <2> QED BY <2>6 DEF m
<1>9. CASE p \notin {"init", "control", "auto", "authorize"}
  <2>1. Len(m) = 2 /\ m[1] = Word(n) /\ m[2] = Word(w) /\ Len(ty) = 1 /\ ty[1] = "word"
    BY <1>1, <1>2, <1>9
  <2>2. m[1].t = "word" /\ m[2].t = "word" /\ m[1].v[1] = n
    BY <2>1, WordIs
  <2>3. Suits(ty[1], m, 1 + 1)
    BY <2>1, <2>2 DEF Suits
  <2>4. \A i \in 1 .. Len(ty) : Suits(ty[i], m, 1 + i)
    BY <2>1, <2>3
  <2>5. Planned(Ops(ty), m, 1)
    <3>1. 1 + Len(ty) = Len(m) /\ 1 \in Nat
      BY <2>1
    <3> QED BY <1>2, <2>4, <3>1, OpsWhole
  <2>6. IsPlanned(p, n, m)
    BY <1>1, <2>1, <2>2, <2>5 DEF IsPlanned, ty
  <2> QED BY <2>6 DEF m
<1> QED BY <1>4, <1>5, <1>6, <1>7, <1>8, <1>9

\* and the client expects of the reply what the server sends.
LEMMA ReplyPlanned ==
    ASSUME NEW p, NEW w \in WordRange, NEW s \in Strings
    PROVE  Planned(Ops(ReplyTypes(p)), Reply(p, w, s), 0)
<1> DEFINE m == Reply(p, w, s)
           ty == ReplyTypes(p)
<1>1. /\ p = "init" => m = <<Word(0), Word(w)>>
      /\ p = "control" => m = <<Word(0), Word(w), Word(TypeInt), Word(1), Words(<<w>>), String(s)>>
      /\ p = "auto" => m = <<Word(w), Word(0), Word(TypeInt), Word(0), Words(<<>>), String(Null)>>
      /\ p = "open" => m = <<Word(0), Word(w), String(s)>>
      /\ p = "parameters" => m = <<Word(0), Word(w), Word(1), Word(w), Word(w), Word(w), Word(1)>>
      /\ p = "descriptor" => m = <<Word(0), String(s), Word(w), Words(<<w, 0>>), Ptr(<<w>>), Ptr(NullPtr)>>
      /\ p \notin {"init", "control", "auto", "open", "parameters", "descriptor"} => m = <<Word(0)>>
  BY DEF Reply, OptionValue
<1>2. /\ p \in {"control", "auto"} => ty = <<"word", "word", "word", "word", "value", "string">>
      /\ p = "init" => ty = <<"word", "word">>
      /\ p = "open" => ty = <<"word", "word", "string">>
      /\ p = "parameters" => ty = <<"word", "word", "word", "word", "word", "word", "word">>
      /\ p = "descriptor" => ty = <<"word", "string", "word", "words", "ptr", "ptr">>
      /\ p \notin {"init", "control", "auto", "open", "parameters", "descriptor"} => ty = <<"word">>
      /\ ty \in Seq(AllTypes)
  BY ReplyTypesAre
<1> HIDE DEF m, ty
<1>3. SUFFICES Len(ty) = Len(m) /\ \A i \in 1 .. Len(ty) : Suits(ty[i], m, i)
  <2>1. ASSUME Len(ty) = Len(m), \A i \in 1 .. Len(ty) : Suits(ty[i], m, i) PROVE Planned(Ops(ty), m, 0)
    <3>1. Len(ty) \in Nat
      BY <1>2
    <3>2. 0 + Len(ty) = Len(m) /\ \A i \in 1 .. Len(ty) : Suits(ty[i], m, 0 + i)
      BY <2>1, <3>1
    <3> QED BY <1>2, <3>2, OpsWhole
  <2> QED BY <2>1 DEF m, ty
<1>4. CASE p \in {"control", "auto"}
  <2>1. /\ Len(m) = 6 /\ Len(ty) = 6 /\ ty[1] = "word" /\ ty[2] = "word" /\ ty[3] = "word" /\ ty[4] = "word" /\ ty[5] = "value" /\ ty[6] = "string"
        /\ m[3] = Word(TypeInt)
    BY <1>1, <1>2, <1>4
  <2>2. m[1].t = "word" /\ m[2].t = "word" /\ m[3].t = "word" /\ m[4].t = "word" /\ m[5].t = "words" /\ m[6].t = "string"
    BY <1>1, <1>4, WordIs
  <2>3. ValueAt(m, 5)
    <3>1. m[5 - 2].v[1] = TypeInt
      BY <2>1, WordIs
    <3> QED BY <2>2, <3>1 DEF ValueAt, TypeInt, TypeString
  <2>4. Suits(ty[1], m, 1) /\ Suits(ty[2], m, 2) /\ Suits(ty[3], m, 3) /\ Suits(ty[4], m, 4) /\ Suits(ty[5], m, 5) /\ Suits(ty[6], m, 6)
    BY <2>1, <2>2, <2>3 DEF Suits
  <2> QED BY <2>1, <2>4
<1>5. CASE p = "init"
  <2>1. Len(m) = 2 /\ Len(ty) = 2 /\ ty[1] = "word" /\ ty[2] = "word"
    BY <1>1, <1>2, <1>5
  <2>2. m[1].t = "word" /\ m[2].t = "word"
    BY <1>1, <1>5, WordIs
  <2>3. Suits(ty[1], m, 1) /\ Suits(ty[2], m, 2)
    BY <2>1, <2>2 DEF Suits
  <2> QED BY <2>1, <2>3
<1>6. CASE p = "open"
  <2>1. Len(m) = 3 /\ Len(ty) = 3 /\ ty[1] = "word" /\ ty[2] = "word" /\ ty[3] = "string"
    BY <1>1, <1>2, <1>6
  <2>2. m[1].t = "word" /\ m[2].t = "word" /\ m[3].t = "string"
    BY <1>1, <1>6, WordIs
  <2>3. Suits(ty[1], m, 1) /\ Suits(ty[2], m, 2) /\ Suits(ty[3], m, 3)
    BY <2>1, <2>2 DEF Suits
  <2> QED BY <2>1, <2>3
<1>7. CASE p = "parameters"
  <2>1. Len(m) = 7 /\ Len(ty) = 7 /\ \A i \in 1 .. 7 : ty[i] = "word"
    BY <1>1, <1>2, <1>7
  <2>2. m[1].t = "word" /\ m[2].t = "word" /\ m[3].t = "word" /\ m[4].t = "word" /\ m[5].t = "word" /\ m[6].t = "word" /\ m[7].t = "word"
    BY <1>1, <1>7, WordIs
  <2>3. \A i \in 1 .. 7 : m[i].t = "word"
    BY <2>2
  <2>4. \A i \in 1 .. 7 : Suits(ty[i], m, i)
    BY <2>1, <2>3 DEF Suits
  <2> QED BY <2>1, <2>4
<1>8. CASE p = "descriptor"
  <2>1. /\ Len(m) = 6 /\ Len(ty) = 6 /\ ty[1] = "word" /\ ty[2] = "string" /\ ty[3] = "word" /\ ty[4] = "words" /\ ty[5] = "ptr" /\ ty[6] = "ptr"
    BY <1>1, <1>2, <1>8
  <2>2. m[1].t = "word" /\ m[2].t = "string" /\ m[3].t = "word" /\ m[4].t = "words" /\ m[5].t = "ptr" /\ m[6].t = "ptr"
    BY <1>1, <1>8, WordIs
  <2>4. Suits(ty[1], m, 1) /\ Suits(ty[2], m, 2) /\ Suits(ty[3], m, 3) /\ Suits(ty[4], m, 4) /\ Suits(ty[5], m, 5) /\ Suits(ty[6], m, 6)
    BY <2>1, <2>2 DEF Suits
  <2> QED BY <2>1, <2>4
<1>9. CASE p \notin {"init", "control", "auto", "open", "parameters", "descriptor"}
  <2>1. Len(m) = 1 /\ Len(ty) = 1 /\ ty[1] = "word" /\ m[1] = Word(0)
    BY <1>1, <1>2, <1>9
  <2>2. Suits(ty[1], m, 1)
    BY <2>1, WordIs DEF Suits
  <2> QED BY <2>1, <2>2
<1> QED BY <1>4, <1>5, <1>6, <1>7, <1>8, <1>9

LEMMA ProcIs ==
    ASSUME NEW p \in Procs
    PROVE  ProcOf(ProcNumbers[p]) = p
<1>1. \A q \in Procs : ProcNumbers[q] = ProcNumbers[p] => q = p
  BY WireAssumption
<1> QED BY <1>1 DEF ProcOf

-----------------------------------------------------------------------------
(* Which steps a phase lets a side take.                                   *)

\* Nobody speaks: no byte is in the stream, and no step of reading is possible.
LEMMA NothingIn ==
    ASSUME NEW h \in Seq(Bytes), NEW b \in Seq(Bytes), NEW c \in Seq(Bytes), h \o (b \o c) = <<>>
    PROVE  Len(h) = 0 /\ h = <<>> /\ b = <<>> /\ c = <<>>
<1> DEFINE r == b \o c
<1>1. r \in Seq(Bytes) /\ Len(r) = Len(b) + Len(c)
  BY ConcatProperties
<1>2. Len(b) \in Nat /\ Len(c) \in Nat /\ Len(h) \in Nat /\ Len(r) \in Nat /\ Len(<<>>) = 0
  BY <1>1, LenProperties
<1>3. h \o r = <<>>
  OBVIOUS
<1> HIDE DEF r
<1>4. Len(h \o r) = Len(h) + Len(r)
  BY <1>1, ConcatProperties
<1>5. Len(h) = 0 /\ Len(b) = 0 /\ Len(c) = 0
  BY <1>1, <1>2, <1>3, <1>4
<1> QED BY <1>5, EmptySeq

\* Nothing can be taken from an empty flight.
LEMMA Starved ==
    ASSUME TypeInv, NEW s \in Sides, chan[s] = <<>>, wire[s].buf = <<>>
    PROVE  ~Get(s) /\ ~GetElement(s)
<1>1. <<>> \o <<>> = <<>>
  OBVIOUS
<1>2. ASSUME Get(s) PROVE FALSE
  <2>1. PICK h \in Seq(Bytes), c \in Seq(Bytes), w \in WireSet, x \in Seq(OpSet), g \in Seq(Values) : Gets(s, h, c, w, x, g)
    BY <1>2, GetEffect
  <2>2. Len(h) = 2 /\ h \o (w.buf \o c) = <<>> /\ w.buf \in Seq(Bytes)
    BY <1>1, <2>1 DEF Gets, WireSet
  <2>3. Len(h) = 0
    BY <2>2, NothingIn
  <2> QED BY <2>2, <2>3
<1>3. ASSUME GetElement(s) PROVE FALSE
  <2>1. PICK h \in Seq(Bytes), c \in Seq(Bytes), w \in WireSet, x \in Seq(OpSet) : GetsOne(s, h, c, w, x)
    BY <1>3, GetElementEffect
  <2>2. Len(h) = BytesOf(todo[s][1]) /\ h \o (w.buf \o c) = <<>> /\ w.buf \in Seq(Bytes)
    BY <1>1, <2>1 DEF GetsOne, WireSet
  <2>3. Len(h) = 0
    BY <2>2, NothingIn
  <2> QED BY <2>2, <2>3 DEF BytesOf
<1> QED BY <1>2, <1>3

LEMMA NotYetDecoding ==
    ASSUME NEW s \in Sides, todo[s] # <<>> => todo[s][1].n = -1 /\ todo[s][1].t = "word"
    PROVE  ~GetEnd(s) /\ ~Dispatch(s)
<1>1. ~GetEnd(s)
  BY DEF GetEnd, Decoding
<1>2. ~Dispatch(s)
  BY DEF Dispatch, Decoding
<1> QED BY <1>1, <1>2

LEMMA WaitsIs ==
    ASSUME NEW e \in Sides, NEW p, NEW x, Waits(e, p, x)
    PROVE  /\ OpsOK(x) /\ Pending(x) = 0 /\ (x # <<>> => x[1].n = -1 /\ x[1].t = "word")
           /\ e = "client" => x # <<>>
<1>1. CASE e = "client"
  <2>1. ReplyTypes(p) \in Seq(AllTypes) /\ ReplyTypes(p) # <<>> /\ ReplyTypes(p)[1] = "word"
    BY ReplyTypesAre
  <2> DEFINE ty == ReplyTypes(p)
  <2>2. x = Ops(ty)
    BY <1>1 DEF Waits
  <2> HIDE DEF ty
  <2>3. ty \in Seq(AllTypes) /\ ty # <<>> /\ ty[1] = "word"
    BY <2>1 DEF ty
  <2>4. Len(ty) \in Nat /\ Len(ty) # 0
    BY <2>3, EmptySeq
  <2>5. 1 \in 1 .. Len(ty)
    BY <2>4
  <2>6. OpsOK(x) /\ Pending(x) = 0 /\ Len(x) = Len(ty) /\ x[1] = Op(ty[1]) /\ ty[1] \in AllTypes
    BY <2>2, <2>3, <2>5, OpsAre
  <2>7. x[1].n = -1 /\ x[1].t = "word"
    BY <2>3, <2>6, NewOpIs
  <2>8. x # <<>>
    <3>1. Len(<<>>) = 0
      OBVIOUS
    <3>2. Len(x) # Len(<<>>)
      BY <2>4, <2>6, <3>1
    <3> QED BY <3>2, Zenon
  <2> QED BY <2>6, <2>7, <2>8
<1>2. CASE e # "client"
  <2>1. Waiting(x)
    BY <1>2 DEF Waits
  <2> QED BY <1>2, <2>1, WaitingIs
<1> QED BY <1>1, <1>2

\* The side that sends reads nothing before it has turned, nor then before the
\* peer answers; and its peer writes nothing.
LEMMA SpeakerDeaf ==
    ASSUME TypeInv, NEW e \in Sides, NEW p, NEW m, Talk(e, p, m)
    PROVE  ~Get(e) /\ ~GetElement(e) /\ ~GetEnd(e) /\ ~Dispatch(e) /\ ~Put(Peer(e))
<1>1. chan[e] = <<>> /\ (wire[e].dir = "decode" => wire[e].buf = <<>> /\ Waits(e, p, todo[e])) /\ wire[Peer(e)].dir = "decode"
  BY DEF Talk, Speaks, Listens
<1>2. ~Put(Peer(e))
  BY <1>1 DEF Put
<1>3. CASE wire[e].dir = "decode"
  <2>1. ~Get(e) /\ ~GetElement(e)
    BY <1>1, <1>3, Starved
  <2>2. ~GetEnd(e) /\ ~Dispatch(e)
    BY <1>1, <1>3, WaitsIs, NotYetDecoding
  <2> QED BY <1>2, <2>1, <2>2
<1>4. CASE wire[e].dir # "decode"
  <2>1. ~Decoding(e)
    BY <1>4 DEF Decoding
  <2>2. ~Get(e) /\ ~GetElement(e)
    BY <2>1 DEF Get, GetElement
  <2>3. ~GetEnd(e) /\ ~Dispatch(e)
    BY <2>1 DEF GetEnd, Dispatch
  <2> QED BY <1>2, <2>2, <2>3
<1> QED BY <1>3, <1>4

Moves(s) == Put(s) \/ Get(s) \/ GetElement(s) \/ GetEnd(s) \/ Dispatch(s) \/ ReadFails(s)

\* A piece that is stored or taken: the same message goes on.
LEMMA TalkMoves ==
    ASSUME TypeInv, NEW e \in Sides, NEW p, NEW m, Talk(e, p, m), ~broken', NEW s \in Sides, Moves(s)
    PROVE  Talk(e, p, m)' /\ sent' = sent
<1>1. ~ReadFails(s)
  <2>1. ReadFails(s) => broken' = TRUE
    BY DEF ReadFails
  <2> QED BY <2>1
<1>2. sent' = sent
  <2>1. CASE Put(s)
    BY <2>1 DEF Put
  <2>2. CASE Get(s)
    BY <2>2 DEF Get
  <2>3. CASE GetElement(s)
    BY <2>3 DEF GetElement
  <2>4. CASE GetEnd(s)
    BY <2>4 DEF GetEnd
  <2>5. CASE Dispatch(s)
    BY <2>5 DEF Dispatch
  <2> QED BY <1>1, <2>1, <2>2, <2>3, <2>4, <2>5 DEF Moves
<1>3. s = e \/ s = Peer(e)
  BY OtherSide
<1>4. CASE s = e
  <2>1. Put(e)
    BY <1>1, <1>4, SpeakerDeaf DEF Moves
  <2> QED BY <1>2, <2>1, TalkPut
<1>5. CASE s = Peer(e)
  <2>1. Get(Peer(e)) \/ GetElement(Peer(e)) \/ GetEnd(Peer(e)) \/ Dispatch(Peer(e))
    BY <1>1, <1>5, SpeakerDeaf DEF Moves
  <2> QED BY <1>2, <2>1, TalkGet, TalkElement, TalkEnd, TalkDispatch
<1> QED BY <1>3, <1>4, <1>5

\* A message has pieces.
LEMMA PiecesOfSome ==
    ASSUME NEW m, Message(m), m # <<>>
    PROVE  PiecesOf(m) # <<>>
<1>1. Len(m) \in Nat /\ m \in Seq(Values)
  BY MessageTypes
<1>2. Len(m) # 0
  BY <1>1, EmptySeq
<1>3. 0 \in 0 .. Len(m) - 1 /\ 0 + 1 \in 1 .. Len(m)
  BY <1>1, <1>2
<1>4. Good(m[0 + 1])
  BY <1>3, MessageTypes
<1>5. 0 \in 0 .. Len(Pieces(m[0 + 1])) - 1
  <2> DEFINE f == m[0 + 1]
             n == Len(ElementsOf(f))
  <2>1. n \in Nat
    <3>1. ElementsOf(f) \in Seq(Int)
      BY <1>4, ElementsTyped
    <3> QED BY <3>1, LenProperties
  <2>2. Len(Pieces(f)) = 1 + n
    BY <1>4, PiecesAre
  <2> HIDE DEF n
  <2>3. 0 \in 0 .. (1 + n) - 1
    BY <2>1
  <2> QED BY <2>2, <2>3
<1>6. Rest(m, 0, 0) # <<>>
  BY <1>3, <1>5, RestStep
<1> QED BY <1>6 DEF Rest, PiecesOf

\* The reader has all of the message: it is what was sent, nothing is on its way
\* any more, and the sender waits.
LEMMA TalkOver ==
    ASSUME TypeInv, NEW e \in Sides, NEW p, NEW m, Talk(e, p, m), NEW d, d = Peer(e), todo[d] = <<>>,
           Planned(<<>>, m, Len(got[d]))
    PROVE  /\ got[d] = m /\ chan[d] = <<>> /\ wire[d].buf = <<>> /\ wire[d].alloc = Freed(got[d])
           /\ wire[e].dir = "decode" /\ wire[e].buf = <<>> /\ Waits(e, p, todo[e])
<1> DEFINE k == Len(got[d])
           u == Outgoing(wire[e])
           l == Left(wire[e], todo[e])
           b == wire[d].buf
           c == chan[d]
<1>1. d \in Sides /\ got[d] \in Seq(Values) /\ b \in Seq(Bytes) /\ c \in Seq(Bytes) /\ k \in Nat
      /\ wire[e].dir \in {"encode", "decode"}
  BY OtherSide, SideTyped
<1>2. u \in Seq(Bytes) /\ l \in Seq(Piece)
  BY SideTyped, NoneOK, EmptySeq DEF Outgoing, Left
<1>3. /\ Message(m) /\ m # <<>> /\ Speaks(e, p, m, wire[e], todo[e]) /\ Listens(e, m, wire[d], todo[d], got[d])
      /\ Flow(m, b \o (c \o u), l, k, Here(todo[d]))
  BY DEF Talk, Flight
<1>4. k = Len(m)
  <2>1. Len(<<>>) = 0
    OBVIOUS
  <2>2. Len(m) \in Nat
    BY <1>3, MessageTypes
  <2>3. ~UpToAction(<<>>, m, k)
    BY DEF UpToAction
  <2>4. k + Len(<<>>) = Len(m)
    BY <2>3 DEF Planned, Whole
  <2> HIDE DEF k
  <2> QED BY <1>1, <2>1, <2>2, <2>4
<1>5. got[d] = m
  <2>1. \A i \in 1 .. Len(got[d]) : got[d][i] = m[i]
    BY <1>3 DEF Listens, Reading
  <2>2. m \in Seq(Values)
    BY <1>3, MessageTypes
  <2> QED BY <1>1, <1>4, <2>1, <2>2, SeqEqual
<1>6. Here(todo[d]) = 0 /\ Pending(todo[d]) = 0
  BY DEF Here, Begun, Pending
<1>7. b = <<>> /\ c = <<>> /\ u = <<>> /\ l = <<>>
  <2> DEFINE f == b \o (c \o u)
  <2>1. f \in Seq(Bytes)
    <3> HIDE DEF b, c, u
    <3>1. c \o u \in Seq(Bytes)
      BY <1>1, <1>2, ConcatProperties
    <3> QED BY <1>1, <3>1, ConcatProperties
  <2>2. Flow(m, f, l, Len(m), 0)
    BY <1>3, <1>4, <1>6
  <2>3. f = <<>> /\ l = <<>>
    <3> HIDE DEF f, l
    <3> QED BY <1>2, <1>3, <2>1, <2>2, FlowEnds
  <2>4. b = <<>> /\ c = <<>> /\ u = <<>>
    <3> HIDE DEF b, c, u
    <3> QED BY <1>1, <1>2, <2>3, NothingIn DEF f
  <2> QED BY <2>3, <2>4
<1>8. wire[d].alloc = Freed(got[d])
  <2>1. wire[d].alloc = Freed(got[d]) + Pending(todo[d])
    BY <1>3 DEF Listens
  <2>2. Freed(got[d]) \in Nat
    BY <1>1, FreedIs
  <2> QED BY <1>6, <2>1, <2>2
<1>9. wire[e].dir # "encode"
  <2>1. SUFFICES ASSUME wire[e].dir = "encode" PROVE FALSE
    OBVIOUS
  <2>2. wire[e].buf = <<>> /\ todo[e] = <<>>
    BY <1>7, <2>1 DEF Outgoing, Left
  <2>3. todo[e] = PiecesOf(m)
    BY <1>3, <2>1, <2>2 DEF Speaks
  <2> QED BY <1>3, <2>2, <2>3, PiecesOfSome
<1>10. wire[e].buf = <<>> /\ Waits(e, p, todo[e])
  BY <1>1, <1>3, <1>9 DEF Speaks
<1> QED BY <1>1, <1>5, <1>7, <1>8, <1>9, <1>10

LEMMA TwoSides == "client" \in Sides /\ "server" \in Sides /\ Peer("client") = "server" /\ Peer("server") = "client"
BY DEF Sides, Peer

Phases == Silent \/ Asking \/ Answering

\* The wire begins in silence.
LEMMA PhasesBegin ==
    ASSUME WireInit
    PROVE  Silent
<1>1. /\ wire["client"] = NewWire /\ wire["server"] = [NewWire EXCEPT !.dir = "decode"]
      /\ \A s \in Sides : chan[s] = <<>> /\ todo[s] = <<>> /\ got[s] = <<>> /\ sent[s] = <<>>
  BY TwoSides DEF WireInit
<1>2. \A s \in Sides : wire[s].buf = <<>> /\ wire[s].alloc = 0 /\ wire[s].status = 0
  BY <1>1 DEF Sides, NewWire
<1>3. wire["server"].dir = "decode"
  BY <1>1 DEF NewWire
<1> QED BY <1>1, <1>2, <1>3, TwoSides DEF Silent, Waiting

\* Between calls: the server may come to wait, or the client calls.
LEMMA SilentCalls ==
    ASSUME TypeInv, Silent, ~broken', NEW p \in Procs, NEW n \in WordValues, NEW v \in StringValues, Call(p, n, v)
    PROVE  Asking'
<1> DEFINE m == <<Word(ProcNumbers[p])>> \o Request(p, n, v)
           c == "client"
           d == "server"
<1>1. c \in Sides /\ d \in Sides /\ c # d /\ Peer(c) = d
  BY TwoSides
<1>2. n \in WordRange /\ v \in Strings /\ Message(m) /\ PiecesOf(m) \in Seq(Piece) /\ ProcNumbers[p] \in WordRange
  BY NextMessage
<1>3. Len(m) \in Nat /\ Len(m) >= 2 /\ m[1].t = "word"
  <2>1. IsPlanned(p, ProcNumbers[p], m)
    BY <1>2, RequestPlanned
  <2> HIDE DEF m
  <2> QED BY <2>1 DEF IsPlanned
<1>4. /\ Idle(c) /\ sent' = [sent EXCEPT ![c] = m] /\ SetDir(c, "encode", PiecesOf(m)) /\ got' = got
  BY DEF Call
<1> HIDE DEF m
<1>5. m # <<>> /\ 0 <= Len(m)
  <2>1. Len(<<>>) = 0
    OBVIOUS
  <2>2. Len(m) # Len(<<>>) /\ 0 <= Len(m)
    BY <1>3, <2>1
  <2> QED BY <2>2, Zenon
<1>6. PICK w \in WireSet, x \in {<<>>, PiecesOf(m)}, o \in Seq(Bytes) : Turns(c, "encode", PiecesOf(m), w, x, o)
  <2>1. PiecesOf(m) \in TodoSet
    BY <1>2 DEF TodoSet
  <2> QED BY <1>1, <1>2, <1>4, <2>1, TurnEffect
<1>7. /\ todo[c] = <<>> /\ Waiting(todo[d]) /\ wire[d].dir = "decode"
      /\ chan[c] = <<>> /\ chan[d] = <<>> /\ got[c] = <<>> /\ got[d] = <<>>
      /\ wire[c].buf = <<>> /\ wire[d].buf = <<>> /\ wire[c].alloc = 0 /\ wire[d].alloc = 0 /\ wire[d].status = 0
  BY <1>1 DEF Silent
<1>8. /\ Change(c, w, x, got[c]) /\ chan' = [chan EXCEPT ![d] = chan[d] \o o]
      /\ w.dir = "encode" /\ w.alloc = 0 /\ w.status = 0 /\ x = PiecesOf(m) /\ w.buf = <<>> /\ o = <<>>
  BY <1>1, <1>6, <1>7 DEF Turns, Outgoing
<1>9. <<>> \o <<>> = <<>>
  OBVIOUS
<1>10. /\ wire'[c] = w /\ todo'[c] = PiecesOf(m) /\ got'[c] = <<>> /\ chan'[c] = <<>> /\ chan'[d] = <<>> /\ sent'[c] = m
       /\ wire'[d] = wire[d] /\ todo'[d] = todo[d] /\ got'[d] = <<>>
  <2>1. chan'[c] = <<>> /\ chan'[d] = <<>> /\ sent'[c] = m
    BY <1>1, <1>4, <1>7, <1>8, <1>9 DEF TypeInv, WireTyped
  <2> QED BY <1>1, <1>7, <1>8, <2>1, Changed
<1>11. Speaks(c, p, m, w, PiecesOf(m))
  BY <1>8 DEF Speaks
<1>12. ~Begun(todo[d]) /\ Pending(todo[d]) = 0 /\ Here(todo[d]) = 0
  BY <1>7, WaitingIs DEF Begun, Here
<1>13. Listens(c, m, wire[d], todo[d], <<>>)
  <2>1. Len(<<>>) = 0
    OBVIOUS
  <2>2. Reading(todo[d], <<>>, m)
    BY <1>3, <1>5, <1>12, <2>1 DEF Reading
  <2>3. Expects(c, todo[d], m, 0)
    BY <1>3, <1>7 DEF Expects
  <2>4. Freed(<<>>) = 0
    <3>1. <<>> \in Seq(Values)
      OBVIOUS
    <3> QED BY <3>1, FreedIs
  <2> QED BY <1>7, <1>12, <2>1, <2>2, <2>3, <2>4 DEF Listens
<1>14. Flow(m, Flight(w, <<>>, wire[d]), Left(w, PiecesOf(m)), Len(<<>>), Here(todo[d]))
  <2>1. Flight(w, <<>>, wire[d]) = <<>> /\ Left(w, PiecesOf(m)) = PiecesOf(m) /\ Len(<<>>) = 0
    BY <1>7, <1>8, <1>9 DEF Flight, Outgoing, Left
  <2> QED BY <1>2, <1>12, <2>1, FlowBegins
<1>15. /\ Message(m) /\ m # <<>> /\ sent'[c] = m /\ got'[c] = <<>> /\ chan'[c] = <<>>
       /\ Speaks(c, p, m, wire'[c], todo'[c]) /\ Listens(c, m, wire'[d], todo'[d], got'[d])
       /\ Flow(m, Flight(wire'[c], chan'[d], wire'[d]), Left(wire'[c], todo'[c]), Len(got'[d]), Here(todo'[d]))
  BY <1>2, <1>5, <1>10, <1>11, <1>13, <1>14
<1>16. Talk(c, p, m)'
  BY <1>1, <1>15 DEF Talk
<1> QED BY <1>16 DEF Asking, m

LEMMA SilentStays ==
    ASSUME TypeInv, Silent, Await
    PROVE  Silent'
<1>1. Len(<<>>) = 0
  OBVIOUS
<1>2. got["server"] = <<>>
  BY TwoSides DEF Silent
<1>3. todo' = [todo EXCEPT !["server"] = Ops(<<"word">>)] /\ UNCHANGED <<wire, chan, got, sent>>
  BY <1>2 DEF Await
<1>4. todo'["client"] = todo["client"] /\ todo'["server"] = Ops(<<"word">>)
  BY <1>3, TwoSides DEF TypeInv, WireTyped
<1> QED BY <1>3, <1>4 DEF Silent, Waiting

\* No other step leaves the silence.
LEMMA SilentSteps ==
    ASSUME TypeInv, Silent, ~broken', WireNext
    PROVE  Phases'
<1>1. /\ sent["client"] = <<>> /\ todo["client"] = <<>> /\ Waiting(todo["server"]) /\ wire["server"].dir = "decode"
      /\ \A s \in Sides : chan[s] = <<>> /\ wire[s].buf = <<>> /\ got[s] = <<>>
  BY DEF Silent
<1>2. ~AwaitReply /\ ~CallEnds
  BY <1>1 DEF AwaitReply, CallEnds
<1>3. ~(\E w \in WordValues, v \in StringValues : SendReply(w, v))
  <2>1. Len(got["server"]) = 0
    BY <1>1, TwoSides
  <2>2. ~(Len(got["server"]) > 1)
    BY <2>1
  <2> QED BY <2>2 DEF SendReply
<1>4. ~ReplyFlushed
  BY <1>1 DEF ReplyFlushed
<1>5. ASSUME NEW s \in Sides, Moves(s) PROVE FALSE
  <2>1. ~ReadFails(s)
    <3>1. ReadFails(s) => broken' = TRUE
      BY DEF ReadFails
    <3> QED BY <3>1
  <2>2. ~Get(s) /\ ~GetElement(s)
    BY <1>1, Starved
  <2>3. s = "client" \/ s = "server"
    BY DEF Sides
  <2>4. ~Put(s)
    BY <1>1, <2>3 DEF Put
  <2>5. ~GetEnd(s) /\ ~Dispatch(s)
    BY <1>1, <2>3, WaitingIs, NotYetDecoding
  <2> QED BY <1>5, <2>1, <2>2, <2>4, <2>5 DEF Moves
<1>6. CASE \E p \in Procs, w \in WordValues, v \in StringValues : Call(p, w, v)
  BY <1>6, SilentCalls DEF Phases
<1>7. CASE Await
  BY <1>7, SilentStays DEF Phases
<1> QED BY <1>2, <1>3, <1>4, <1>5, <1>6, <1>7 DEF WireNext, Moves

\* The request goes on while the client sends and turns to listen,
LEMMA AskingTurns ==
    ASSUME TypeInv, ~broken', NEW p \in Procs, NEW m, IsPlanned(p, ProcNumbers[p], m),
           Talk("client", p, m), AwaitReply
    PROVE  Talk("client", p, m)'
<1> DEFINE c == "client"
           next == Ops(ReplyTypes(p))
<1>1. m[1].v[1] = ProcNumbers[p] /\ sent[c] = m
  BY DEF IsPlanned, Talk
<1>2. ProcOf(sent[c][1].v[1]) = p
  BY <1>1, ProcIs
<1>3. Idle(c) /\ wire[c].dir = "encode" /\ SetDir(c, "decode", next) /\ UNCHANGED <<got, sent>>
  BY <1>2 DEF AwaitReply
<1>4. OpsOK(next) /\ Pending(next) = 0 /\ Waits(c, p, next) /\ next \in TodoSet
  <2>1. Waits(c, p, next)
    BY DEF Waits
  <2> HIDE DEF next
  <2>2. OpsOK(next) /\ Pending(next) = 0
    BY <2>1, TwoSides, WaitsIs
  <2> QED BY <2>1, <2>2 DEF OpsOK, TodoSet
<1> HIDE DEF next
<1> QED BY <1>3, <1>4, TwoSides, TalkTurn

\* while it waits,
LEMMA AskingAwaits ==
    ASSUME TypeInv, NEW p \in Procs, NEW m, IsPlanned(p, ProcNumbers[p], m),
           Talk("client", p, m), Await
    PROVE  Talk("client", p, m)'
<1> DEFINE c == "client"
           d == "server"
           r == got[d]
           k == Len(r)
           x == Ops(IF r = <<>> THEN <<"word">> ELSE RequestTypes(ProcOf(r[1].v[1])))
           w == wire[d]
<1>1. d \in Sides /\ c \in Sides /\ Peer(c) = d /\ Peer(d) = c
  BY TwoSides
<1>2. todo[d] = <<>> /\ k <= 1 /\ todo' = [todo EXCEPT ![d] = x] /\ UNCHANGED <<wire, chan, got, sent>>
  BY DEF Await, Idle
<1>3. r \in Seq(Values) /\ k \in Nat
  BY <1>1, SideTyped
<1>4. Message(m) /\ Listens(c, m, w, todo[d], r)
  BY <1>1 DEF Talk
<1>5. Reading(todo[d], r, m) /\ Expects(c, todo[d], m, k) /\ w.alloc = Freed(r) + Pending(todo[d]) /\ w.status = 0 /\ w.dir = "decode"
  BY <1>4 DEF Listens
<1>6. Pending(todo[d]) = 0 /\ Here(todo[d]) = 0
  BY <1>2 DEF Pending, Here, Begun
<1>7. Planned(Ops(RequestTypes(p)), m, 1) /\ Len(m) >= 2 /\ m[1].t = "word" /\ m[1].v[1] = ProcNumbers[p]
  BY DEF IsPlanned
<1>8. OpsOK(x) /\ Pending(x) = 0 /\ (x # <<>> => x[1].n = -1) /\ Expects(c, x, m, k)
  <2>1. CASE r = <<>>
    <3>1. x = Ops(<<"word">>) /\ k = 0
      BY <2>1
    <3> HIDE DEF x, k
    <3>2. Waiting(x)
      BY <3>1 DEF Waiting
    <3> QED BY <1>7, <3>1, <3>2, WaitingIs DEF Expects
  <2>2. CASE r # <<>>
    <3>1. k = 1
      <4>1. k # 0
        BY <1>3, <2>2, EmptySeq
      <4> HIDE DEF k
      <4> QED BY <1>2, <1>3, <4>1
    <3>2. r[1] = m[1]
      <4>1. \A i \in 1 .. k : r[i] = m[i]
        BY <1>5 DEF Reading
      <4> HIDE DEF k
      <4> QED BY <3>1, <4>1
    <3>3. x = Ops(RequestTypes(p))
      BY <1>7, <2>2, <3>2, ProcIs
    <3> DEFINE ty == RequestTypes(p)
    <3>4. ty \in Seq(AllTypes)
      BY RequestTypesAre
    <3> HIDE DEF ty, x, k
    <3>5. OpsOK(x) /\ Pending(x) = 0 /\ Len(x) = Len(ty) /\ \A i \in 1 .. Len(ty) : x[i] = Op(ty[i])
      BY <3>3, <3>4, OpsAre DEF ty
    <3>6. ASSUME x # <<>> PROVE x[1].n = -1
      <4>1. Len(x) \in Nat /\ Len(x) # 0
        BY <3>5, <3>6, EmptySeq DEF OpsOK
      <4>2. 1 \in 1 .. Len(ty)
        BY <3>5, <4>1
      <4>3. x[1] = Op(ty[1])
        BY <3>5, <4>2
      <4>4. Op(ty[1]).n = -1
        BY DEF Op
      <4> QED BY <4>3, <4>4
    <3>7. Expects(c, x, m, k)
      BY <1>7, <3>1, <3>3 DEF Expects
    <3> QED BY <3>5, <3>6, <3>7
  <2> QED BY <2>1, <2>2
<1> HIDE DEF x
<1>9. ~Begun(x) /\ Here(x) = 0
  BY <1>8 DEF Begun, Here
<1>10. Listens(c, m, w, x, r)
  <2>1. Reading(x, r, m)
    BY <1>5, <1>9 DEF Reading
  <2>2. w.alloc = Freed(r) + Pending(x)
    BY <1>5, <1>6, <1>8
  <2> QED BY <1>5, <1>8, <2>1, <2>2 DEF Listens
<1>11. Flow(m, Flight(wire[c], chan[d], w), Left(wire[c], todo[c]), Len(r), Here(x))
  BY <1>1, <1>6, <1>9 DEF Talk
<1>12. chan' = [chan EXCEPT ![d] = chan[d]] /\ Change(d, w, x, r)
  BY <1>1, <1>2 DEF TypeInv, WireTyped, Change
<1> QED BY <1>1, <1>2, <1>10, <1>11, <1>12, TalkReads

\* and until the server, which has all of it, answers.
LEMMA AskingAnswers ==
    ASSUME TypeInv, NEW p \in Procs, NEW m, IsPlanned(p, ProcNumbers[p], m),
           Talk("client", p, m), NEW n2 \in WordValues, NEW v2 \in StringValues, SendReply(n2, v2)
    PROVE  Answering'
<1> DEFINE c == "client"
           d == "server"
           r == got[d]
           m2 == Reply(p, n2, v2)
           w == [wire[d] EXCEPT !.dir = "encode", !.buf = <<>>, !.alloc = @ - Freed(r)]
<1>1. d \in Sides /\ c \in Sides /\ c # d /\ Peer(c) = d /\ Peer(d) = c
  BY TwoSides
<1>2. /\ todo[d] = <<>> /\ Len(r) > 1
      /\ sent' = [sent EXCEPT ![d] = Reply(ProcOf(r[1].v[1]), n2, v2)]
      /\ todo' = [todo EXCEPT ![d] = PiecesOf(Reply(ProcOf(r[1].v[1]), n2, v2))]
      /\ wire' = [wire EXCEPT ![d].dir = "encode", ![d].buf = <<>>, ![d].alloc = @ - Freed(r)]
      /\ got' = [got EXCEPT ![d] = <<>>] /\ chan' = chan
  BY DEF SendReply, Idle
<1>3. /\ Message(m) /\ m # <<>> /\ sent[c] = m /\ got[c] = <<>> /\ chan[c] = <<>> /\ Speaks(c, p, m, wire[c], todo[c])
      /\ Listens(c, m, wire[d], todo[d], r)
  BY <1>1 DEF Talk
<1>4. m[1].v[1] = ProcNumbers[p]
  BY DEF IsPlanned
<1>5. Planned(<<>>, m, Len(r))
  <2>1. Expects(c, <<>>, m, Len(r))
    BY <1>2, <1>3 DEF Listens
  <2>2. Len(r) # 0 /\ Len(r) # 1
    <3>1. r \in Seq(Values)
      BY <1>1, SideTyped
    <3>2. Len(r) \in Nat /\ Len(r) > 1
      BY <1>2, <3>1, LenProperties
    <3> HIDE DEF r
    <3> QED BY <3>2
  <2> HIDE DEF r
  <2> QED BY <2>1, <2>2 DEF Expects
<1>6. /\ r = m /\ chan[d] = <<>> /\ wire[d].buf = <<>> /\ wire[d].alloc = Freed(r)
      /\ wire[c].dir = "decode" /\ wire[c].buf = <<>> /\ Waits(c, p, todo[c])
  <2>1. c \in Sides /\ d = Peer(c) /\ todo[d] = <<>> /\ Planned(<<>>, m, Len(got[d])) /\ Talk(c, p, m)
    BY <1>1, <1>2, <1>5
  <2> HIDE DEF c, d
  <2> QED BY <2>1, TalkOver
<1>7. Reply(ProcOf(r[1].v[1]), n2, v2) = m2
  BY <1>4, <1>6, ProcIs
<1>8. n2 \in WordRange /\ v2 \in Strings /\ Message(m2) /\ PiecesOf(m2) \in Seq(Piece)
  BY NextMessage
<1>9. m2 # <<>> /\ Planned(Ops(ReplyTypes(p)), m2, 0)
  BY <1>8, ReplyIsMessage, ReplyPlanned
<1> HIDE DEF m2
<1>10. /\ sent'[d] = m2 /\ sent'[c] = m /\ todo'[d] = PiecesOf(m2) /\ todo'[c] = todo[c]
       /\ got'[d] = <<>> /\ got'[c] = <<>> /\ chan'[c] = <<>> /\ chan'[d] = <<>>
  BY <1>1, <1>2, <1>3, <1>6, <1>7 DEF TypeInv, WireTyped
<1>11. wire'[d] = w /\ wire'[c] = wire[c]
  BY <1>1, <1>2 DEF TypeInv, WireTyped
<1>12. w.dir = "encode" /\ w.buf = <<>> /\ w.alloc = 0 /\ w.status = 0
  <2>1. wire[d] \in WireSet /\ wire[d].status = 0
    BY <1>1, <1>3, SideTyped DEF Listens
  <2>2. Freed(r) \in Nat
    <3>1. r \in Seq(Values)
      BY <1>1, SideTyped
    <3> QED BY <3>1, FreedIs
  <2>3. w.dir = "encode" /\ w.buf = <<>> /\ w.status = 0 /\ w.alloc = wire[d].alloc - Freed(r)
    BY <2>1 DEF WireSet
  <2>4. wire[d].alloc - Freed(r) = 0
    BY <1>6, <2>2
  <2> QED BY <2>3, <2>4
<1> HIDE DEF w
<1>13. Speaks(d, p, m2, w, PiecesOf(m2))
  BY <1>12 DEF Speaks
<1>14. OpsOK(todo[c]) /\ Pending(todo[c]) = 0 /\ ~Begun(todo[c]) /\ Here(todo[c]) = 0 /\ todo[c] = Ops(ReplyTypes(p))
  <2>1. OpsOK(todo[c]) /\ Pending(todo[c]) = 0 /\ (todo[c] # <<>> => todo[c][1].n = -1)
    BY <1>1, <1>6, WaitsIs
  <2>2. todo[c] = Ops(ReplyTypes(p))
    BY <1>6 DEF Waits
  <2> QED BY <2>1, <2>2 DEF Begun, Here
<1>15. Listens(d, m2, wire[c], todo[c], <<>>)
  <2>1. Len(<<>>) = 0
    OBVIOUS
  <2>2. 0 <= Len(m2)
    <3>1. Len(m2) \in Nat
      BY <1>8, MessageTypes
    <3> QED BY <3>1
  <2>3. Reading(todo[c], <<>>, m2)
    BY <1>14, <2>1, <2>2 DEF Reading
  <2>4. Expects(d, todo[c], m2, 0)
    BY <1>9, <1>14 DEF Expects
  <2>5. Freed(<<>>) = 0
    <3>1. <<>> \in Seq(Values)
      OBVIOUS
    <3> QED BY <3>1, FreedIs
  <2>6. wire[c].status = 0 /\ wire[c].alloc = 0
    BY <1>3 DEF Speaks
  <2> QED BY <1>6, <1>14, <2>1, <2>3, <2>4, <2>5, <2>6 DEF Listens
<1>16. Flow(m2, Flight(w, <<>>, wire[c]), Left(w, PiecesOf(m2)), Len(<<>>), Here(todo[c]))
  <2>1. <<>> \o <<>> = <<>> /\ Len(<<>>) = 0
    OBVIOUS
  <2>2. Flight(w, <<>>, wire[c]) = <<>> /\ Left(w, PiecesOf(m2)) = PiecesOf(m2)
    BY <1>6, <1>12, <2>1 DEF Flight, Outgoing, Left
  <2> QED BY <1>8, <1>14, <2>1, <2>2, FlowBegins
<1>17. /\ Message(m2) /\ m2 # <<>> /\ sent'[d] = m2 /\ got'[d] = <<>> /\ chan'[d] = <<>>
       /\ Speaks(d, p, m2, wire'[d], todo'[d]) /\ Listens(d, m2, wire'[c], todo'[c], got'[c])
       /\ Flow(m2, Flight(wire'[d], chan'[c], wire'[c]), Left(wire'[d], todo'[d]), Len(got'[c]), Here(todo'[c]))
  BY <1>8, <1>9, <1>10, <1>11, <1>13, <1>15, <1>16
<1>18. Talk(d, p, m2)'
  BY <1>1, <1>17 DEF Talk
<1>19. sent'[c] # <<>>
  BY <1>3, <1>10
<1> QED BY <1>18, <1>19 DEF Answering, m2

\* Every step of a request leads on in it or into the reply.
LEMMA AskingSteps ==
    ASSUME TypeInv, Asking, ~broken', WireNext
    PROVE  Phases'
<1>1. PICK p \in Procs, n \in WordValues, v \in StringValues : Talk("client", p, <<Word(ProcNumbers[p])>> \o Request(p, n, v))
  BY DEF Asking
<1> DEFINE m == <<Word(ProcNumbers[p])>> \o Request(p, n, v)
<1>2. IsPlanned(p, ProcNumbers[p], m)
  <2>1. n \in WordRange /\ v \in Strings /\ ProcNumbers[p] \in WordRange
    BY NextMessage
  <2> QED BY <2>1, RequestPlanned
<1>3. Talk("client", p, m)
  BY <1>1
<1>4. SUFFICES ASSUME ~Talk("client", p, m)' PROVE Answering'
  BY DEF Asking, Phases
<1> HIDE DEF m
<1>5. /\ sent["client"] # <<>> /\ wire["server"].dir = "decode" /\ wire["client"].status = 0
      /\ wire["client"].dir = "decode" => Waits("client", p, todo["client"])
  BY <1>3, TwoSides DEF Talk, Speaks, Listens
<1>6. ~(\E q \in Procs, w \in WordValues, u \in StringValues : Call(q, w, u))
  BY <1>5 DEF Call
<1>7. ~CallEnds
  <2>1. wire["client"].dir = "decode" => todo["client"] # <<>>
    BY <1>5, TwoSides, WaitsIs
  <2> QED BY <1>5, <2>1 DEF CallEnds, Idle
<1>8. ~ReplyFlushed
  BY <1>5 DEF ReplyFlushed
<1>9. ~AwaitReply
  BY <1>2, <1>3, <1>4, AskingTurns
<1>10. ~Await
  BY <1>2, <1>3, <1>4, AskingAwaits
<1>11. ASSUME NEW s \in Sides, Moves(s) PROVE FALSE
  BY <1>3, <1>4, <1>11, TwoSides, TalkMoves
<1>12. CASE \E w \in WordValues, u \in StringValues : SendReply(w, u)
  BY <1>2, <1>3, <1>12, AskingAnswers
<1> QED BY <1>6, <1>7, <1>8, <1>9, <1>10, <1>11, <1>12 DEF WireNext, Moves

\* The server has flushed its reply, and waits for the next request already.
LEMMA AnsweringAwaits ==
    ASSUME TypeInv, NEW p, NEW m, Talk("server", p, m), Await
    PROVE  Talk("server", p, m)'
<1> DEFINE c == "client"
           d == "server"
           x == Ops(<<"word">>)
<1>1. d \in Sides /\ c \in Sides /\ c # d /\ Peer(c) = d /\ Peer(d) = c
  BY TwoSides
<1>2. /\ Message(m) /\ m # <<>> /\ sent[d] = m /\ got[d] = <<>> /\ chan[d] = <<>>
      /\ Speaks(d, p, m, wire[d], todo[d]) /\ Listens(d, m, wire[c], todo[c], got[c])
      /\ Flow(m, Flight(wire[d], chan[c], wire[c]), Left(wire[d], todo[d]), Len(got[c]), Here(todo[c]))
  BY <1>1 DEF Talk
<1>3. wire[d].dir = "decode" /\ todo' = [todo EXCEPT ![d] = x] /\ UNCHANGED <<wire, chan, got, sent>>
  BY <1>2 DEF Await
<1> HIDE DEF x
<1>4. todo'[d] = x /\ todo'[c] = todo[c]
  BY <1>1, <1>3 DEF TypeInv, WireTyped
<1>5. Speaks(d, p, m, wire[d], x)
  <2>1. Waits(d, p, x)
    BY DEF Waits, Waiting, x
  <2> QED BY <1>2, <1>3, <2>1 DEF Speaks
<1>6. Left(wire[d], x) = Left(wire[d], todo[d])
  BY <1>3 DEF Left
<1>7. /\ Message(m) /\ m # <<>> /\ sent'[d] = m /\ got'[d] = <<>> /\ chan'[d] = <<>>
      /\ Speaks(d, p, m, wire'[d], todo'[d]) /\ Listens(d, m, wire'[c], todo'[c], got'[c])
      /\ Flow(m, Flight(wire'[d], chan'[c], wire'[c]), Left(wire'[d], todo'[d]), Len(got'[c]), Here(todo'[c]))
  BY <1>2, <1>3, <1>4, <1>5, <1>6
<1> QED BY <1>1, <1>7 DEF Talk

\* and turns,
LEMMA AnsweringTurns ==
    ASSUME TypeInv, ~broken', NEW p, NEW m, Talk("server", p, m), ReplyFlushed
    PROVE  Talk("server", p, m)'
<1>1. Idle("server") /\ wire["server"].dir = "encode" /\ SetDir("server", "decode", <<>>) /\ UNCHANGED <<got, sent>>
  BY DEF ReplyFlushed
<1>2. OpsOK(<<>>) /\ Pending(<<>>) = 0 /\ <<>> \in TodoSet /\ Waits("server", p, <<>>)
  BY NoneOK DEF Waits, Waiting
<1> QED BY <1>1, <1>2, TwoSides, TalkTurn

\* and until the client has all of it and frees what it got.
LEMMA AnsweringEnds ==
    ASSUME TypeInv, NEW p, NEW m, Talk("server", p, m), CallEnds
    PROVE  Silent'
<1> DEFINE c == "client"
           d == "server"
           r == got[c]
           w == [wire[c] EXCEPT !.alloc = @ - Freed(r)]
<1>1. d \in Sides /\ c \in Sides /\ c # d /\ Peer(c) = d /\ Peer(d) = c /\ Sides = {c, d}
  BY TwoSides DEF Sides
<1>2. /\ todo[c] = <<>> /\ wire' = [wire EXCEPT ![c].alloc = @ - Freed(r)]
      /\ sent' = [sent EXCEPT ![c] = <<>>] /\ got' = [got EXCEPT ![c] = <<>>] /\ UNCHANGED <<chan, todo>>
  BY DEF CallEnds, Idle
<1>3. got[d] = <<>> /\ chan[d] = <<>> /\ Speaks(d, p, m, wire[d], todo[d]) /\ Listens(d, m, wire[c], todo[c], r)
  BY <1>1 DEF Talk
<1>4. Planned(<<>>, m, Len(r))
  BY <1>2, <1>3 DEF Listens, Expects
<1>5. /\ chan[c] = <<>> /\ wire[c].buf = <<>> /\ wire[c].alloc = Freed(r)
      /\ wire[d].dir = "decode" /\ wire[d].buf = <<>> /\ Waits(d, p, todo[d])
  BY <1>1, <1>2, <1>4, TalkOver
<1>6. wire'[c] = w /\ wire'[d] = wire[d] /\ sent'[c] = <<>> /\ got'[c] = <<>> /\ got'[d] = <<>>
  BY <1>1, <1>2, <1>3 DEF TypeInv, WireTyped
<1>7. w.buf = <<>> /\ w.alloc = 0 /\ w.status = 0
  <2>1. wire[c] \in WireSet /\ wire[c].status = 0
    BY <1>1, <1>3, SideTyped DEF Listens
  <2>2. Freed(r) \in Nat
    <3>1. r \in Seq(Values)
      BY <1>1, SideTyped
    <3> QED BY <3>1, FreedIs
  <2>3. w.buf = <<>> /\ w.status = 0 /\ w.alloc = wire[c].alloc - Freed(r)
    BY <1>5, <2>1 DEF WireSet
  <2>4. wire[c].alloc - Freed(r) = 0
    BY <1>5, <2>2
  <2> QED BY <2>3, <2>4
<1>8. wire[d].alloc = 0 /\ wire[d].status = 0
  BY <1>3 DEF Speaks
<1>9. Waiting(todo[d])
  BY <1>5 DEF Waits
<1> HIDE DEF w
<1>10. \A s \in Sides : chan'[s] = <<>> /\ wire'[s].buf = <<>> /\ got'[s] = <<>> /\ wire'[s].alloc = 0 /\ wire'[s].status = 0
  <2>1. chan'[c] = <<>> /\ wire'[c].buf = <<>> /\ got'[c] = <<>> /\ wire'[c].alloc = 0 /\ wire'[c].status = 0
    BY <1>2, <1>5, <1>6, <1>7
  <2>2. chan'[d] = <<>> /\ wire'[d].buf = <<>> /\ got'[d] = <<>> /\ wire'[d].alloc = 0 /\ wire'[d].status = 0
    BY <1>2, <1>3, <1>5, <1>6, <1>8
  <2> QED BY <1>1, <2>1, <2>2
<1>11. sent'[c] = <<>> /\ todo'[c] = <<>> /\ Waiting(todo'[d]) /\ wire'[d].dir = "decode"
  BY <1>2, <1>5, <1>6, <1>9
<1> QED BY <1>10, <1>11 DEF Silent

\* Every step of a reply leads on in it or back into silence.
LEMMA AnsweringSteps ==
    ASSUME TypeInv, Answering, ~broken', WireNext
    PROVE  Phases'
<1>1. PICK p \in Procs, n \in WordValues, v \in StringValues : Talk("server", p, Reply(p, n, v))
  BY DEF Answering
<1> DEFINE m == Reply(p, n, v)
<1>2. Talk("server", p, m) /\ sent["client"] # <<>>
  BY <1>1 DEF Answering
<1>3. SUFFICES ASSUME ~(Talk("server", p, m)' /\ sent' = sent) PROVE Silent'
  BY <1>2 DEF Answering, Phases
<1> HIDE DEF m
<1>4. wire["client"].dir = "decode" /\ got["server"] = <<>>
  BY <1>2, TwoSides DEF Talk, Listens
<1>5. ~(\E q \in Procs, w \in WordValues, u \in StringValues : Call(q, w, u))
  BY <1>2 DEF Call
<1>6. ~AwaitReply
  BY <1>4 DEF AwaitReply
<1>7. ~(\E w \in WordValues, u \in StringValues : SendReply(w, u))
  <2>1. Len(got["server"]) = 0
    BY <1>4
  <2>2. ~(Len(got["server"]) > 1)
    BY <2>1
  <2> QED BY <2>2 DEF SendReply
<1>8. ~Await
  <2>1. Await => sent' = sent
    BY DEF Await
  <2> QED BY <1>2, <1>3, <2>1, AnsweringAwaits
<1>9. ~ReplyFlushed
  <2>1. ReplyFlushed => sent' = sent
    BY DEF ReplyFlushed
  <2> QED BY <1>2, <1>3, <2>1, AnsweringTurns
<1>10. ASSUME NEW s \in Sides, Moves(s) PROVE FALSE
  BY <1>2, <1>3, <1>10, TwoSides, TalkMoves
<1>11. CASE CallEnds
  BY <1>2, <1>11, AnsweringEnds
<1> QED BY <1>5, <1>6, <1>7, <1>8, <1>9, <1>10, <1>11 DEF WireNext, Moves

-----------------------------------------------------------------------------
(* The invariant.                                                          *)

\* What has failed is not mended by any step.
LEMMA BrokenStays ==
    ASSUME TypeInv, [WireNext]_wireVars, broken
    PROVE  broken'
<1>1. CASE UNCHANGED wireVars
  BY <1>1 DEF wireVars
<1>2. ASSUME NEW s, NEW dir, NEW next, SetDir(s, dir, next) PROVE broken'
  BY <1>2 DEF SetDir
<1>3. CASE \E p \in Procs, w \in WordValues, v \in StringValues : Call(p, w, v)
  BY <1>2, <1>3 DEF Call
<1>4. CASE AwaitReply
  BY <1>2, <1>4 DEF AwaitReply
<1>5. CASE CallEnds
  BY <1>5 DEF CallEnds
<1>6. CASE Await
  BY <1>6 DEF Await
<1>7. CASE \E w \in WordValues, v \in StringValues : SendReply(w, v)
  BY <1>7 DEF SendReply
<1>8. CASE ReplyFlushed
  BY <1>2, <1>8 DEF ReplyFlushed
<1>9. ASSUME NEW s \in Sides, Moves(s) PROVE broken'
  <2>1. Put(s) => broken'
    BY DEF Put
  <2>2. Get(s) => broken'
    BY DEF Get
  <2>3. GetElement(s) => broken'
    BY DEF GetElement
  <2>4. GetEnd(s) => broken'
    BY DEF GetEnd
  <2>5. Dispatch(s) => broken'
    BY DEF Dispatch
  <2>6. ReadFails(s) => broken'
    BY DEF ReadFails
  <2> QED BY <1>9, <2>1, <2>2, <2>3, <2>4, <2>5, <2>6 DEF Moves
<1> QED BY <1>1, <1>3, <1>4, <1>5, <1>6, <1>7, <1>8, <1>9 DEF WireNext, Moves

LEMMA WireBegins ==
    ASSUME WireInit
    PROVE  WireInv
BY TypesBegin, PhasesBegin DEF WireInv

LEMMA WireStays ==
    ASSUME WireInv, [WireNext]_wireVars
    PROVE  WireInv'
<1>1. TypeInv /\ TypeInv'
  BY TypesStay DEF WireInv
<1>2. SUFFICES ASSUME ~broken' PROVE Phases'
  BY <1>1 DEF WireInv, Phases
<1>3. Silent \/ Asking \/ Answering
  BY <1>1, <1>2, BrokenStays DEF WireInv
<1>4. CASE WireNext
  BY <1>1, <1>2, <1>3, <1>4, SilentSteps, AskingSteps, AnsweringSteps
<1>5. CASE UNCHANGED wireVars
  <2>1. wire' = wire /\ chan' = chan /\ todo' = todo /\ got' = got /\ sent' = sent
    BY <1>5 DEF wireVars
  <2>2. CASE Silent
    BY <2>1, <2>2 DEF Phases, Silent
  <2>3. \A e, p, m : Talk(e, p, m) => Talk(e, p, m)'
    BY <2>1 DEF Talk
  <2>4. CASE Asking
    BY <2>3, <2>4 DEF Phases, Asking
  <2>5. CASE Answering
    BY <2>1, <2>3, <2>5 DEF Phases, Answering
  <2> QED BY <1>3, <2>2, <2>4, <2>5
<1> QED BY <1>4, <1>5

LEMMA PrefixIs ==
    ASSUME NEW g \in Seq(Values), NEW m \in Seq(Values), Len(g) <= Len(m), \A i \in 1 .. Len(g) : g[i] = m[i]
    PROVE  IsPrefix(g, m)
<1>1. Len(g) \in Nat /\ Len(m) \in Nat /\ Len(g) <= Len(m)
  BY LenProperties
<1>2. SubSeq(g, 1, Len(g)) = g
  BY SubSeqFull
<1>3. SubSeq(m, 1, Len(g)) \in Seq(Values) /\ Len(SubSeq(m, 1, Len(g))) = Len(g)
      /\ \A i \in 1 .. Len(g) : SubSeq(m, 1, Len(g))[i] = m[i]
  BY <1>1
<1>4. SubSeq(m, 1, Len(g)) = g
  BY <1>3, SeqEqual
<1> QED BY <1>1, <1>2, <1>4 DEF IsPrefix

\* What a talk says of the values that were read and the memory they took.
LEMMA TalkShows ==
    ASSUME TypeInv, NEW e \in Sides, NEW p, NEW m, Talk(e, p, m)
    PROVE  /\ IsPrefix(got[Peer(e)], sent[e]) /\ got[e] = <<>> /\ sent[e] # <<>>
           /\ wire[e].alloc = 0
           /\ got[Peer(e)] = <<>> /\ todo[Peer(e)] = <<>> => wire[Peer(e)].alloc = 0
<1> DEFINE d == Peer(e)
<1>1. d \in Sides /\ got[d] \in Seq(Values)
  BY OtherSide, SideTyped
<1>2. /\ Message(m) /\ m # <<>> /\ sent[e] = m /\ got[e] = <<>> /\ Speaks(e, p, m, wire[e], todo[e])
      /\ Listens(e, m, wire[d], todo[d], got[d])
  BY DEF Talk
<1>3. IsPrefix(got[d], m)
  BY <1>1, <1>2, MessageTypes, PrefixIs DEF Listens, Reading
<1>4. ASSUME got[d] = <<>>, todo[d] = <<>> PROVE wire[d].alloc = 0
  <2>1. Freed(<<>>) = 0 /\ Pending(<<>>) = 0
    <3>1. <<>> \in Seq(Values)
      OBVIOUS
    <3> QED BY <3>1, FreedIs DEF Pending
  <2>2. wire[d].alloc = Freed(<<>>) + Pending(<<>>)
    BY <1>2, <1>4 DEF Listens
  <2> QED BY <2>1, <2>2
<1> QED BY <1>2, <1>3, <1>4 DEF Speaks

\* The invariant has what WireSafe says: values arrive as they were sent,
\* nothing is left on the stream between calls, and no memory is lost.
LEMMA WireSuffices ==
    ASSUME WireInv
    PROVE  WireSafe
<1> DEFINE c == "client"
           d == "server"
<1>1. TypeInv /\ (~broken => Silent \/ Asking \/ Answering)
  BY DEF WireInv
<1>2. c \in Sides /\ d \in Sides /\ Peer(c) = d /\ Peer(d) = c /\ \A s \in Sides : s = c \/ s = d
  BY TwoSides DEF Sides
<1>3. got[c] \in Seq(Values) /\ got[d] \in Seq(Values) /\ sent[c] \in Seq(Values) /\ sent[d] \in Seq(Values)
  BY <1>1, <1>2, SideTyped
<1>4. \A m \in Seq(Values) : IsPrefix(<<>>, m)
  <2>1. ASSUME NEW m \in Seq(Values) PROVE IsPrefix(<<>>, m)
    <3>1. <<>> \in Seq(Values) /\ Len(<<>>) <= Len(m) /\ \A i \in 1 .. Len(<<>>) : <<>>[i] = m[i]
      OBVIOUS
    <3> QED BY <3>1, PrefixIs
  <2> QED BY <2>1
<1>5. WireTypeOK
  BY <1>1, TypesSuffice
<1>6. SUFFICES ASSUME ~broken PROVE /\ IsPrefix(got[c], sent[d]) /\ (IsPrefix(got[d], sent[c]) \/ sent[c] = <<>>)
                                    /\ (wire[c].dir = "decode" /\ Idle(d) /\ wire[d].dir = "decode" /\ Len(got[d]) > 1 => got[d] = sent[c])
                                    /\ (sent[c] = <<>> => wire[c].alloc = 0)
                                    /\ (got[d] = <<>> /\ Idle(d) => wire[d].alloc = 0)
  <2>1. ASSUME broken PROVE DecodesWhatWasSent /\ NothingLost /\ MemoryBalanced
    BY <2>1 DEF DecodesWhatWasSent, NothingLost, MemoryBalanced
  <2> QED BY <1>2, <1>5, <2>1 DEF WireSafe, DecodesWhatWasSent, NothingLost, MemoryBalanced
<1>7. Len(<<>>) = 0 /\ ~(Len(<<>>) > 1)
  OBVIOUS
<1>8. CASE Silent
  <2>1. got[c] = <<>> /\ got[d] = <<>> /\ wire[c].alloc = 0 /\ wire[d].alloc = 0
    BY <1>2, <1>8 DEF Silent
  <2> QED BY <1>3, <1>4, <1>7, <2>1
<1>9. CASE Asking
  <2>1. PICK p \in Procs, w \in WordValues, v \in StringValues : Talk(c, p, <<Word(ProcNumbers[p])>> \o Request(p, w, v))
    BY <1>9 DEF Asking
  <2> DEFINE m == <<Word(ProcNumbers[p])>> \o Request(p, w, v)
  <2>2. Talk(c, p, m)
    BY <2>1
  <2> HIDE DEF m
  <2>3. got[c] = <<>> /\ IsPrefix(got[d], sent[c]) /\ sent[c] # <<>> /\ wire[c].alloc = 0 /\ (got[d] = <<>> /\ todo[d] = <<>> => wire[d].alloc = 0)
    BY <1>1, <1>2, <2>2, TalkShows
  <2>4. ASSUME Idle(d), Len(got[d]) > 1 PROVE got[d] = sent[c]
    <3> DEFINE k == Len(got[d])
    <3>1. k \in Nat /\ k > 1 /\ todo[d] = <<>>
      BY <1>3, <2>4, LenProperties DEF Idle
    <3>2. Expects(c, <<>>, m, k)
      BY <1>2, <2>2, <3>1 DEF Talk, Listens
    <3> HIDE DEF k
    <3>3. k # 0 /\ k # 1
      BY <3>1
    <3>4. Planned(<<>>, m, k)
      BY <3>2, <3>3 DEF Expects
    <3>5. got[d] = m
      BY <1>1, <1>2, <2>2, <3>1, <3>4, TalkOver DEF k
    <3> QED BY <2>2, <3>5 DEF Talk
  <2> QED BY <1>3, <1>4, <2>3, <2>4 DEF Idle
<1>10. CASE Answering
  <2>1. PICK p \in Procs, w \in WordValues, v \in StringValues : Talk(d, p, Reply(p, w, v))
    BY <1>10 DEF Answering
  <2> DEFINE m == Reply(p, w, v)
  <2>2. Talk(d, p, m) /\ sent[c] # <<>>
    BY <1>10, <2>1 DEF Answering
  <2> HIDE DEF m
  <2>3. got[d] = <<>> /\ IsPrefix(got[c], sent[d]) /\ wire[d].alloc = 0
    BY <1>1, <1>2, <2>2, TalkShows
  <2> QED BY <1>3, <1>4, <1>7, <2>2, <2>3
<1> QED BY <1>1, <1>6, <1>8, <1>9, <1>10

\* On the wire of the network protocol each message arrives as it was sent, value
\* by value, whatever cuts its bytes are read in, as long as nothing has failed
\* (sanei_wire.c, sanei_codec_bin.c); no byte of it is lost where the direction is
\* turned, and between calls no memory is counted.
THEOREM WireIsSafe == WireSpec => []WireSafe
<1>1. WireInit => WireInv
  BY WireBegins
<1>2. WireInv /\ [WireNext]_wireVars => WireInv'
  BY WireStays
<1>3. WireInv => WireSafe
  BY WireSuffices
<1> QED BY <1>1, <1>2, <1>3, PTL DEF WireSpec
===============================================================================
