------------------------------ MODULE AsciiCodec ------------------------------
(***************************************************************************)
(* The ASCII codec of sanei_wire (sanei_codec_ascii.c): bytes, characters, *)
(* strings and words as lines of text.  One side encodes items, the other  *)
(* decodes them in the same order; a character of the text is its code.    *)
(* How the text is cut into buffers is in the module Wire.                 *)
(***************************************************************************)
EXTENDS Integers, Sequences, SequencesExt

CONSTANTS
    WordBits,       \* width of SANE_Word
    AsciiItems,     \* the items that are sent: [t |-> type, v |-> sequence]
    MaxItems        \* bound: items

ASSUME AsciiAssumption == WordBits \in Nat \ {0} /\ MaxItems \in Nat

VARIABLES
    text,           \* encoded and not decoded yet
    put, taken,     \* the items that were encoded, and what became of them
    asciiStatus     \* w->status of the side that decodes

asciiVars == <<text, put, taken, asciiStatus>>

NL == 10
Quote == 34     \* "
Apostrophe == 39
Open == 40      \* (
Close == 41     \* )
Minus == 45
CharZero == 48
Escape == 92    \* \
NilText == <<110, 105, 108>>    \* nil
Space == {9, 10, 11, 12, 13, 32}
Digit == CharZero .. CharZero + 9

NullText == <<-1>>      \* the NULL string

WordMin == -(2 ^ (WordBits - 1))
\* Arithmetic of a SANE_Word wraps around.
Wrap(n) == ((n - WordMin) % (2 ^ WordBits)) + WordMin

-----------------------------------------------------------------------------
(* Encoding.                                                               *)

HexDigit(n) == IF n < 10 THEN CharZero + n ELSE 87 + n

\* The decimal digits of n, as C's / and % give them: of a negative number they
\* are below '0'.
Digits(n) ==
    LET a == IF n < 0 THEN -n ELSE n
        sign == IF n < 0 THEN -1 ELSE 1
        width == CHOOSE k \in 1 .. WordBits : a < 10 ^ k /\ (k = 1 \/ a >= 10 ^ (k - 1))
    IN [i \in 1 .. width |-> CharZero + sign * ((a \div 10 ^ (width - i)) % 10)]

AsciiWord_NoSign(n) == Digits(IF n < 0 THEN Wrap(-n) ELSE n) \o <<NL>>

\* ascii_w_word: the smallest word is its own negation.
AsciiWord(n) ==
    (IF n < 0 THEN <<Minus>> ELSE <<>>) \o Digits(IF n < 0 THEN Wrap(-n) ELSE n) \o <<NL>>

Escaped(c, delimiter) == IF c \in {delimiter, Escape} THEN <<Escape, c>> ELSE <<c>>

Encoded(item) ==
    CASE item.t = "byte" -> <<HexDigit(item.v[1] \div 16), HexDigit(item.v[1] % 16), NL>>
      [] item.t = "char" -> <<Apostrophe>> \o Escaped(item.v[1], Apostrophe) \o <<Apostrophe, NL>>
      [] item.t = "word" -> AsciiWord(item.v[1])
      [] item.t = "string" ->
           IF item.v = NullText THEN <<Open>> \o NilText \o <<Close, NL>>
           ELSE <<Quote>> \o FlattenSeq([i \in DOMAIN item.v |-> Escaped(item.v[i], Quote)])
                \o <<Quote, NL>>

-----------------------------------------------------------------------------
(* Decoding: what is taken, and what is left.                              *)

After(s, n) == SubSeq(s, n + 1, Len(s))
Bad == [ok |-> FALSE, v |-> <<>>, rest |-> <<>>]
Good(v, rest) == [ok |-> TRUE, v |-> v, rest |-> rest]

\* How many characters at the head of s are in S.
Span(s, S) == CHOOSE n \in 0 .. Len(s) :
    /\ \A i \in 1 .. n : s[i] \in S
    /\ n = Len(s) \/ s[n + 1] \notin S

SkipWs(s) == After(s, Span(s, Space))

GetDigit_NoRange(c) ==
    LET d == (IF c \in 65 .. 90 THEN c + 32 ELSE c) - CharZero IN IF d \in 0 .. 9 THEN d ELSE d - 39

\* get_digit: tolower, and one range for all that is above '9'.
GetDigit(c) ==
    LET d == (IF c \in 65 .. 90 THEN c + 32 ELSE c) - CharZero
    IN IF d \in 0 .. 9 THEN d ELSE IF d - 39 \in 0 .. 15 THEN d - 39 ELSE -1

GetByte_OneDigit(s) ==
    IF Len(s) < 2 \/ GetDigit(s[1]) = -1 \/ GetDigit(s[2]) = -1 THEN {Bad}
    ELSE {Good(<<16 * GetDigit(s[1]) + GetDigit(s[1])>>, After(s, 2))}

\* ascii_w_byte.  get_byte calls get_digit twice in one expression: C does not say
\* which of the two digits comes first.
GetByte(s) ==
    IF Len(s) < 2 \/ GetDigit(s[1]) = -1 \/ GetDigit(s[2]) = -1 THEN {Bad}
    ELSE {Good(<<16 * GetDigit(s[1]) + GetDigit(s[2])>>, After(s, 2)),
          Good(<<16 * GetDigit(s[2]) + GetDigit(s[1])>>, After(s, 2))}

GetChar_SkipsWs(t) ==
    LET s == SkipWs(t)
        n == IF Len(s) > 1 /\ s[2] = Escape THEN 4 ELSE 3
    IN IF Len(s) < 4 \/ s[1] # Apostrophe \/ s[n] # Apostrophe THEN Bad
       ELSE Good(<<s[n - 1]>>, After(s, n))

\* ascii_w_char: no white space is skipped in front of it.
GetChar(s) ==
    LET escaped == Len(s) > 1 /\ s[2] = Escape
        n == IF escaped THEN 4 ELSE 3
    IN IF Len(s) < 4 \/ s[1] # Apostrophe \/ s[n] # Apostrophe THEN Bad
       ELSE Good(<<s[n - 1]>>, After(s, n))

\* ascii_w_string: the quote that ends the string is the first that no escape
\* precedes.
GetString(s) ==
    LET quoted == FoldLeft(
          LAMBDA a, c :
            IF a.done THEN [a EXCEPT !.rest = Append(@, c)]
            ELSE IF a.escape THEN [a EXCEPT !.escape = FALSE, !.v = Append(@, c)]
            ELSE IF c = Escape THEN [a EXCEPT !.escape = TRUE]
            ELSE IF c = Quote THEN [a EXCEPT !.done = TRUE]
            ELSE [a EXCEPT !.v = Append(@, c)],
          [done |-> FALSE, escape |-> FALSE, v |-> <<>>, rest |-> <<>>], After(s, 1))
    IN IF s # <<>> /\ s[1] = Quote THEN IF quoted.done THEN Good(quoted.v, quoted.rest) ELSE Bad
       ELSE IF Len(s) > 4 /\ SubSeq(s, 1, 5) = <<Open>> \o NilText \o <<Close>>
       THEN Good(NullText, After(s, 5))
       ELSE Bad

\* ascii_w_word: the text has to go on after the digits, and there may be none.
GetWord(s) ==
    LET negative == s # <<>> /\ s[1] = Minus
        ds == IF negative THEN Tail(s) ELSE s
        n == Span(ds, Digit)
        val == FoldLeft(LAMBDA a, c : Wrap(10 * a + c - CharZero), 0, SubSeq(ds, 1, n))
    IN IF n = Len(ds) THEN Bad
       ELSE Good(<<IF negative THEN Wrap(-val) ELSE val>>, After(ds, n))

Decode(t, s) ==
    CASE t = "byte" -> GetByte(SkipWs(s))
      [] t = "char" -> {GetChar(s)}
      [] t = "string" -> {GetString(SkipWs(s))}
      [] t = "word" -> {GetWord(SkipWs(s))}

-----------------------------------------------------------------------------
AsciiInit == text = <<>> /\ put = <<>> /\ taken = <<>> /\ asciiStatus = 0

AsciiPut(item) ==
    /\ Len(put) < MaxItems
    /\ put' = Append(put, item)
    /\ text' = text \o Encoded(item)
    /\ UNCHANGED <<taken, asciiStatus>>

AsciiGet ==
    /\ Len(taken) < Len(put) /\ asciiStatus = 0
    /\ LET t == put[Len(taken) + 1].t IN
         \E r \in Decode(t, text) :
           /\ asciiStatus' = IF r.ok THEN 0 ELSE 1
           /\ taken' = IF r.ok THEN Append(taken, [t |-> t, v |-> r.v]) ELSE taken
           /\ text' = r.rest
    /\ UNCHANGED put

AsciiNext == (\E item \in AsciiItems : AsciiPut(item)) \/ AsciiGet

AsciiSpec == AsciiInit /\ [][AsciiNext]_asciiVars

-----------------------------------------------------------------------------
(* Properties.                                                             *)

\* The text is characters of eight bits; what is decoded as a byte or as a word has
\* the width of one, whatever the text is.
AsciiTypeOK ==
    /\ asciiStatus \in {0, 1}
    /\ \A i \in DOMAIN text : text[i] \in 0 .. 255
    /\ \A i \in DOMAIN taken :
         /\ taken[i].t = "word" => taken[i].v[1] \in WordMin .. -WordMin - 1
         /\ taken[i].t = "byte" => taken[i].v[1] \in 0 .. 255

\* Words and strings, whatever they are made of - quotes, escapes, NULL - arrive as
\* they were sent, whichever items are around them; only the smallest word does not,
\* nor what comes after it (its negation overflows and leaves characters behind).
TextArrives ==
    \A i \in DOMAIN taken :
      (\A j \in 1 .. i : put[j].v # <<WordMin>>) /\ put[i].t # "byte" => taken[i] = put[i]

\* A byte arrives whole or with its halves exchanged: the standard leaves the order
\* of the two calls in get_byte open.
ByteArrives ==
    \A i \in DOMAIN taken :
      put[i].t = "byte" => taken[i].v[1] \in {put[i].v[1], (put[i].v[1] % 16) * 16 + put[i].v[1] \div 16}

\* A message is cut off at the first character that is not its first item: the line
\* end of the item before it is still there and ascii_w_char does not skip it, so an
\* array of characters never arrives (sanei_codec_ascii.c:127-133).
CharsCutOff ==
    /\ \A i \in DOMAIN taken : i > 1 => put[i].t # "char"
    /\ asciiStatus # 0 => \/ put[Len(taken) + 1].t = "char"
                          \/ \E i \in DOMAIN put : put[i].v = <<WordMin>>

\* What the decoder makes of a text is what was encoded, but for the three kinds of
\* items that the code does get wrong: bytes, characters and the smallest word.
AsciiSafe == AsciiTypeOK /\ TextArrives /\ ByteArrives /\ CharsCutOff
=============================================================================
