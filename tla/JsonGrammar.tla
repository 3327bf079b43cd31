----------------------------- MODULE JsonGrammar -----------------------------
(***************************************************************************)
(* Bytes and tokens of JSON text: the classes of bytes that json.hpp tells *)
(* apart, and what a token is by RFC 7159, which the scanner's comments    *)
(* refer to, without any automaton.                                        *)
(***************************************************************************)
EXTENDS Integers, SequencesExt

Byte == 0 .. 255
Digit == 48 .. 57
Exponent == {69, 101}                              \* E e
Hex == Digit \cup 65 .. 70 \cup 97 .. 102
Escapes == {34, 47, 92, 98, 102, 110, 114, 116}    \* " / \ b f n r t
Continuation == 128 .. 191
Space == {9, 10, 13, 32}

-----------------------------------------------------------------------------
(* The tokens.                                                              *)

AllIn(s, bytes) == \A i \in DOMAIN s : s[i] \in bytes

\* an optional minus, an integer without leading zeros, an optional fraction
\* and an optional exponent
IsInteger(s) ==
    /\ s # << >> /\ AllIn(s, Digit)
    /\ s[1] = 48 => Len(s) = 1

IsFraction(s) == Len(s) >= 2 /\ s[1] = 46 /\ AllIn(Tail(s), Digit)

IsExponent(s) ==
    /\ Len(s) >= 2 /\ s[1] \in Exponent
    /\ LET digits == IF s[2] \in {43, 45} THEN SubSeq(s, 3, Len(s)) ELSE Tail(s)
       IN  digits # << >> /\ AllIn(digits, Digit)

IsNumber(s) ==
    LET sign == IF s # << >> /\ s[1] = 45 THEN 1 ELSE 0
    IN  \E i \in sign .. Len(s) : \E j \in i .. Len(s) :
            /\ IsInteger(SubSeq(s, sign + 1, i))
            /\ i < j => IsFraction(SubSeq(s, i + 1, j))
            /\ j < Len(s) => IsExponent(SubSeq(s, j + 1, Len(s)))

\* the code point that a sequence of UTF-8 bytes stands for, or -1
Decoded(s) ==
    LET low(i) == s[i] - 128
        tailed == \A i \in 2 .. Len(s) : s[i] \in Continuation
    IN  CASE Len(s) = 1 /\ s[1] < 128 -> s[1]
          [] Len(s) = 2 /\ s[1] \in 192 .. 223 /\ tailed -> 64 * (s[1] - 192) + low(2)
          [] Len(s) = 3 /\ s[1] \in 224 .. 239 /\ tailed ->
                4096 * (s[1] - 224) + 64 * low(2) + low(3)
          [] Len(s) = 4 /\ s[1] \in 240 .. 247 /\ tailed ->
                262144 * (s[1] - 240) + 4096 * low(2) + 64 * low(3) + low(4)
          [] OTHER -> -1

Shortest == <<0, 128, 2048, 65536>>   \* the first code point that needs so many bytes

IsCharacter(s) ==
    /\ Len(s) \in 1 .. 4
    /\ Shortest[Len(s)] <= Decoded(s) /\ Decoded(s) <= 1114111
    /\ Decoded(s) < 55296 \/ Decoded(s) > 57343   \* no surrogates
    /\ Len(s) = 1 => s[1] >= 32 /\ s[1] \notin {34, 92}

IsEscape(s) ==
    /\ Len(s) \in {2, 6} /\ s[1] = 92
    /\ IF Len(s) = 2 THEN s[2] \in Escapes
       ELSE s[2] = 117 /\ AllIn(SubSeq(s, 3, 6), Hex)

IsUnit(s) == IsCharacter(s) \/ IsEscape(s)

\* s[i] ends a character that begins behind one of the places in cuts
Extended(s, cuts, i) ==
    IF \E k \in 1 .. 6 : i - k \in cuts /\ IsUnit(SubSeq(s, i - k + 1, i))
    THEN cuts \cup {i} ELSE cuts

\* the places i such that s[2], ..., s[i] are complete characters
Cuts(s) == FoldLeft(LAMBDA cuts, i : Extended(s, cuts, i), {1}, [i \in 1 .. Len(s) |-> i])

IsString(s) ==
    /\ Len(s) >= 2 /\ s[1] = 34 /\ s[Len(s)] = 34
    /\ Len(s) - 1 \in Cuts(s)

Fixed(s) ==
    CASE s = <<44>>  -> "value_separator"
      [] s = <<58>>  -> "name_separator"
      [] s = <<91>>  -> "begin_array"
      [] s = <<93>>  -> "end_array"
      [] s = <<123>> -> "begin_object"
      [] s = <<125>> -> "end_object"
      [] s = <<0>>   -> "end_of_input"
      [] s = <<110, 117, 108, 108>> -> "literal_null"
      [] s = <<116, 114, 117, 101>> -> "literal_true"
      [] s = <<102, 97, 108, 115, 101>> -> "literal_false"
      [] OTHER -> "none"

Kind(s) ==
    CASE IsNumber(s) -> "value_number"
      [] IsString(s) -> "value_string"
      [] OTHER       -> Fixed(s)
=============================================================================
