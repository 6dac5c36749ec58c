---------------------------- MODULE ConstrainValue ----------------------------
(***************************************************************************)
(* sanei_check_value and sanei_constrain_value (sanei/                     *)
(* sanei_constrain_value.c): whether a value satisfies the constraint of   *)
(* an option, and the value that is taken for one that does not.  A value  *)
(* is a sequence: the elements of an array of words, or the letters of a   *)
(* string, where a negative number is the upper case of a letter.          *)
(***************************************************************************)
EXTENDS Integers, Sequences, FiniteSets

CONSTANTS
    ConstraintBits, \* width of a SANE_Word
    Descriptors,    \* option descriptors: the fields of one kind of constraint
    WordInputs, Letters, \* what values are made of
    MaxLetters      \* bound: length of a string

\* The limits of a range and its quant, the words or the strings of a list, or the
\* number of the elements; a list of words has one at least.
ASSUME ConstrainValueAssumption ==
    /\ ConstraintBits \in Nat \ {0} /\ 2 ^ ConstraintBits \in Nat \ {0} /\ MaxLetters \in Nat
    /\ WordInputs \subseteq Int /\ Letters \subseteq Int
    /\ \A d \in Descriptors :
         /\ d.constraint \in {"range", "words", "strings", "bool"}
         /\ d.constraint = "range" =>
              d.min \in Int /\ d.max \in Int /\ d.quant \in Nat /\ d.count \in Nat
         /\ d.constraint = "words" => d.list \in Seq(Int) /\ d.list # <<>>
         /\ d.constraint = "strings" => d.list \in Seq(Seq(Int))
         /\ d.constraint = "bool" => d.count \in Nat \ {0}

VARIABLES
    option,         \* the descriptor in hand
    value,          \* the caller's value, which constrain_value overwrites
    inexact,        \* SANE_INFO_INEXACT was set
    verdict         \* what the latest call returned

constrainVars == <<option, value, inexact, verdict>>

\* What a SANE_Word keeps of a number, and what an unsigned int does.
Width == 2 ^ ConstraintBits
Unsigned(x) == x % Width
Signed(x) == LET u == Unsigned(x) IN IF 2 * u >= Width THEN u - Width ELSE u

Inputs(d) ==
    CASE d.constraint \in {"range", "bool"} -> [1 .. d.count -> WordInputs]
      [] d.constraint = "words" -> [1 .. 1 -> WordInputs]
      [] d.constraint = "strings" -> UNION {[1 .. n -> Letters] : n \in 0 .. MaxLetters}

ConstrainInit ==
    /\ option \in Descriptors /\ value \in Inputs(option)
    /\ inexact = FALSE /\ verdict = "none"

-----------------------------------------------------------------------------
(* Ranges.                                                                 *)

\* The multiple of quant above min that is nearest, whether max allows it or not.
Quantized(r, a) ==
    Signed((Unsigned(Signed((a - r.min) + (r.quant \div 2))) \div r.quant) * r.quant + r.min)

Clamped_MinOnly(r, a) == IF a < r.min THEN r.min ELSE a

Clamped(r, a) ==
    LET b == IF a < r.min THEN r.min ELSE a IN IF b > r.max THEN r.max ELSE b

InRange(r, a) == r.min <= a /\ a <= r.max /\ (r.quant # 0 => Quantized(r, a) = a)

\* The element that a becomes.
Ranged(r, a) == IF r.quant = 0 THEN Clamped(r, a) ELSE Quantized(r, Clamped(r, a))

Moved_Grid(r, a) == Ranged(r, a) # Clamped(r, a)

\* INEXACT is set when it is clamped, and when quantization moves it once more.
Moved(r, a) == Clamped(r, a) # a \/ Ranged(r, a) # Clamped(r, a)

-----------------------------------------------------------------------------
(* Lists.                                                                  *)

Distance(w, x) == LET d == Signed(w - x) IN IF d < 0 THEN Signed(-d) ELSE d

\* The index of the first word that is nearest.
Nearest(list, w) ==
    CHOOSE i \in DOMAIN list :
      \A j \in DOMAIN list : IF j < i THEN Distance(w, list[i]) < Distance(w, list[j])
                                      ELSE Distance(w, list[i]) <= Distance(w, list[j])

Folded(s) == [i \in DOMAIN s |-> IF s[i] < 0 THEN -s[i] ELSE s[i]]

\* The strings that begin with s, upper or lower case.
Matches(list, s) ==
    {i \in DOMAIN list : /\ Len(s) <= Len(list[i])
                         /\ Folded(s) = Folded(SubSeq(list[i], 1, Len(s)))}

Chosen_NoExact(list, s) == IF Cardinality(Matches(list, s)) = 1 THEN Matches(list, s) ELSE {}

Chosen_First(list, s) ==
    LET M == Matches(list, s) IN {i \in M : \A j \in M : i <= j}

\* The first that is as long as s, or the only one; {} when neither is there.
Chosen(list, s) ==
    LET exact == {i \in Matches(list, s) : Len(list[i]) = Len(s)} IN
    IF exact # {} THEN {i \in exact : \A j \in exact : i <= j}
    ELSE IF Cardinality(Matches(list, s)) = 1 THEN Matches(list, s) ELSE {}

-----------------------------------------------------------------------------
Check(d, v) ==
    IF CASE d.constraint = "range" -> \A i \in DOMAIN v : InRange(d, v[i])
         [] d.constraint = "words" -> \E i \in DOMAIN d.list : d.list[i] = v[1]
         [] d.constraint = "strings" -> \E i \in DOMAIN d.list : d.list[i] = v
         [] d.constraint = "bool" -> \A i \in DOMAIN v : v[i] \in {0, 1}
    THEN "GOOD" ELSE "INVAL"

CheckValue == verdict' = Check(option, value) /\ UNCHANGED <<option, value, inexact>>

ConstrainRange ==
    /\ option.constraint = "range"
    /\ value' = [i \in DOMAIN value |-> Ranged(option, value[i])]
    /\ inexact' = (inexact \/ \E i \in DOMAIN value : Moved(option, value[i]))
    /\ verdict' = "GOOD"

ConstrainWord ==
    /\ option.constraint = "words"
    /\ value' = <<option.list[Nearest(option.list, value[1])]>>
    /\ inexact' = (inexact \/ value' # value)
    /\ verdict' = "GOOD"

\* The string of the list is copied over the value, and INEXACT is not set.
ConstrainString ==
    /\ option.constraint = "strings"
    /\ \/ /\ \E i \in Chosen(option.list, value) : value' = option.list[i]
          /\ verdict' = "GOOD"
       \/ /\ Chosen(option.list, value) = {}
          /\ verdict' = "INVAL" /\ UNCHANGED value
    /\ UNCHANGED inexact

\* Of an array of booleans only the first is looked at.
ConstrainBool ==
    /\ option.constraint = "bool"
    /\ verdict' = (IF value[1] \in {0, 1} THEN "GOOD" ELSE "INVAL")
    /\ UNCHANGED <<value, inexact>>

ConstrainValue ==
    /\ ConstrainRange \/ ConstrainWord \/ ConstrainString \/ ConstrainBool
    /\ UNCHANGED option

ConstrainNext == CheckValue \/ ConstrainValue

ConstrainSpec == ConstrainInit /\ [][ConstrainNext]_constrainVars

-----------------------------------------------------------------------------
(* Properties.  An option is regular for a value v when what its quant is  *)
(* reckoned with, or the distance of v to each of its words, fits into a   *)
(* SANE_Word; max is not below min, and is one of the values that quant    *)
(* admits; its strings differ in more than case; its booleans are no array.*)

Fit(S) == \A x \in S : -Width <= 2 * x /\ 2 * x < Width

Regular(d, v) ==
    CASE d.constraint = "range" ->
           /\ d.min <= d.max
           /\ d.quant # 0 => /\ (d.max - d.min) % d.quant = 0
                             /\ Fit({d.min, d.max, d.max - d.min + (d.quant \div 2)})
      [] d.constraint = "words" ->
           \A i \in DOMAIN d.list : Fit({v[1] - d.list[i], d.list[i] - v[1]})
      [] d.constraint = "strings" ->
           \A i, j \in DOMAIN d.list : Folded(d.list[i]) = Folded(d.list[j]) => i = j
      [] OTHER -> d.count = 1

\* A number that the constraint of d admits.
Admits(d, x) ==
    IF d.constraint = "range" THEN InRange(d, x) ELSE \E i \in DOMAIN d.list : d.list[i] = x

AbsoluteValue(x) == IF x < 0 THEN -x ELSE x

\* What constrain_value makes of a regular option's value, check_value accepts:
\* clamping first and rounding then does not step out of the range again (195-229).
\* Each number is the nearest that the constraint admits.
MadeNearest ==
    ConstrainValue /\ Regular(option, value) /\ verdict' = "GOOD" =>
      /\ Check(option, value') = "GOOD"
      /\ option.constraint \in {"range", "words"} =>
           \A i \in DOMAIN value : \A x \in {w \in WordInputs : Admits(option, w)} :
             AbsoluteValue(value'[i] - value[i]) <= AbsoluteValue(x - value[i])

\* INEXACT is the only sign a frontend gets that a number is not the one it gave.
ChangeTold == ConstrainValue /\ option.constraint # "strings" /\ value' # value => inexact'

\* A string is completed to the one it abbreviates, and refused only when it
\* abbreviates none or several and is the whole of none (253-286).
Resolved ==
    ConstrainValue /\ Regular(option, value) /\ option.constraint = "strings" =>
      IF verdict' = "GOOD"
      THEN /\ Len(value) <= Len(value') /\ \E i \in DOMAIN option.list : option.list[i] = value'
           /\ Folded(SubSeq(value', 1, Len(value))) = Folded(value)
           /\ Folded(value') = Folded(value) \/ Cardinality(Matches(option.list, value)) = 1
      ELSE /\ value' = value /\ Cardinality(Matches(option.list, value)) # 1
           /\ \A i \in DOMAIN option.list : Folded(option.list[i]) # Folded(value)

\* A value that check_value accepts stays as it is: the two functions agree on
\* what satisfies a constraint.
AcceptedKept ==
    ConstrainValue /\ Regular(option, value) /\ Check(option, value) = "GOOD"
      => value' = value /\ verdict' = "GOOD" /\ inexact' = inexact

\* For options that are Regular sanei_constrain_value makes of any value the nearest
\* legal one, completes abbreviations and agrees with sanei_check_value; for all, it
\* says when it changed a number.
ConstrainSafe == [][MadeNearest /\ ChangeTold /\ Resolved /\ AcceptedKept]_constrainVars
=============================================================================
