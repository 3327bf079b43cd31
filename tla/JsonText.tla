------------------------------- MODULE JsonText -------------------------------
(***************************************************************************)
(* Strings on their way into JSON text and out of it: escape_string, which *)
(* dump() writes every string and key with, and get_string, which the      *)
(* parser reads every string token with.                                   *)
(*                                                                         *)
(* Strings are sequences of bytes.  Positions in the code count from 0;    *)
(* pos is such a position.                                                 *)
(***************************************************************************)
EXTENDS JsonGrammar

CONSTANTS
    Strings,   \* strings that the program writes
    Tokens     \* string tokens that it is sent

VARIABLES
    phase,    \* "escape", "read", "done" or "thrown"
    chars,    \* what is escaped; history once the token is made
    written,  \* whether the token was made by escape_string
    next,     \* how many of chars have been escaped
    out,      \* result, of either function
    token,    \* the token that get_string reads
    pos       \* pos of escape_string; i - m_start of get_string

vars == <<phase, chars, written, next, out, token, pos>>

-----------------------------------------------------------------------------
(* escape_string.                                                           *)

\* the control characters with an escape of their own, and its letter
Letter == 34 :> 34 @@ 92 :> 92 @@ 8 :> 98 @@ 12 :> 102 @@ 10 :> 110 @@ 13 :> 114 @@ 9 :> 116

\* mutation: the last control character is written as it is
IsControl_Below31(c) == c < 31

\* c >= 0x00 and c <= 0x1f: a char is signed, bytes from 128 are below 0
IsControl(c) == c <= 31

\* mutation: the space for \u00xx is counted as for two characters less
ExtraSpace_Four(c) ==
    IF c \in DOMAIN Letter THEN 1 ELSE IF IsControl(c) THEN 4 ELSE 0

ExtraSpace(c) ==
    IF c \in DOMAIN Letter THEN 1 ELSE IF IsControl(c) THEN 5 ELSE 0

ExtraSpaceOf(s) == FoldLeft(LAMBDA sum, c : sum + ExtraSpace(c), 0, s)

Hexify(n) == IF n < 10 THEN 48 + n ELSE 87 + n

\* result[p + 1], result[p + 2], ... as they are assigned; result was filled
\* with backslashes
Put(result, p, bytes) ==
    [i \in DOMAIN result |-> IF i - p \in DOMAIN bytes THEN bytes[i - p] ELSE result[i]]

\* mutation: the two hexadecimal digits of a control character are swapped
EscapeByte_Swapped ==
    /\ phase = "escape" /\ next < Len(chars)
    /\ LET c == chars[next + 1]
           sequence == IF c \in DOMAIN Letter THEN <<92, Letter[c]>>
                       ELSE IF IsControl(c) THEN <<92, 117, 48, 48, Hexify(c % 16), Hexify(c \div 16)>>
                       ELSE <<c>>
       IN  /\ out' = Put(out, pos, sequence)
           /\ pos' = pos + Len(sequence)
    /\ next' = next + 1
    /\ UNCHANGED <<phase, chars, written, token>>

\* The loop body of escape_string.
EscapeByte ==
    /\ phase = "escape" /\ next < Len(chars)
    /\ LET c == chars[next + 1]
           sequence == IF c \in DOMAIN Letter THEN <<92, Letter[c]>>
                       ELSE IF IsControl(c) THEN <<92, 117, 48, 48, Hexify(c \div 16), Hexify(c % 16)>>
                       ELSE <<c>>
       IN  /\ out' = Put(out, pos, sequence)
           /\ pos' = pos + Len(sequence)
    /\ next' = next + 1
    /\ UNCHANGED <<phase, chars, written, token>>

\* dump() puts the quotes; the client, or the parser itself, reads the token.
Quote ==
    /\ phase = "escape" /\ next = Len(chars)
    /\ token' = <<34>> \o out \o <<34>>
    /\ phase' = "read" /\ pos' = 1 /\ out' = << >>
    /\ UNCHANGED <<chars, written, next>>

-----------------------------------------------------------------------------
(* get_string and to_unicode.                                               *)

\* 0xC0 | ((codepoint >> 6) & 0x1F) and the like; the bits do not overlap
ToUnicode(codepoint) ==
    LET bits(n) == (codepoint \div 2 ^ n) % 64
    IN  IF codepoint < 128 THEN <<codepoint>>
        ELSE IF codepoint <= 2047 THEN <<192 + (bits(6) % 32), 128 + bits(0)>>
        ELSE IF codepoint <= 65535 THEN <<224 + (bits(12) % 16), 128 + bits(6), 128 + bits(0)>>
        ELSE <<240 + (bits(18) % 8), 128 + bits(12), 128 + bits(6), 128 + bits(0)>>

\* (codepoint1 << 10) + codepoint2 - 0x35FDC00
Surrogates(high, low) == high * 1024 + low - 56613888

\* strtoul of the four bytes behind position p
HexValue(s, p) ==
    LET digit(c) == IF c <= 57 THEN c - 48 ELSE IF c <= 70 THEN c - 55 ELSE c - 87
    IN  FoldLeft(LAMBDA sum, c : 16 * sum + digit(c), 0, SubSeq(s, p + 1, p + 4))

IsHigh(codepoint) == codepoint \in 55296 .. 56319
IsLow(codepoint) == codepoint \in 56320 .. 57343

last == Len(token) - 1                  \* m_cursor - 1, the closing quote
At(i) == token[i + 1]                   \* *(m_start + i)
InLoop == phase = "read" /\ pos < last

\* mutation: the closing quote is taken for one of the bytes
CopyRun_ToCursor ==
    /\ InLoop /\ At(pos) # 92
    /\ LET e == CHOOSE e \in pos .. last + 1 :
                    /\ e = last + 1 \/ At(e) = 92
                    /\ \A i \in pos .. e - 1 : At(i) # 92
       IN  out' = out \o SubSeq(token, pos + 1, e) /\ pos' = e
    /\ UNCHANGED <<phase, chars, written, next, token>>

\* The bytes before the next backslash.
CopyRun ==
    /\ InLoop
    /\ LET e == CHOOSE e \in pos .. last :
                    /\ e = last \/ At(e) = 92
                    /\ \A i \in pos .. e - 1 : At(i) # 92
       IN  /\ e # pos
           /\ out' = out \o SubSeq(token, pos + 1, e)
           /\ pos' = e
    /\ UNCHANGED <<phase, chars, written, next, token>>

Unescaped(c) ==
    IF c = 47 THEN 47 ELSE CHOOSE b \in DOMAIN Letter : Letter[b] = c

\* A backslash and a letter.
ReadEscape ==
    /\ InLoop /\ At(pos) = 92
    /\ At(pos + 1) # 117
    /\ out' = Append(out, Unescaped(At(pos + 1)))
    /\ pos' = pos + 2
    /\ UNCHANGED <<phase, chars, written, next, token>>

Throw ==
    /\ phase' = "thrown"
    /\ UNCHANGED <<chars, written, next, out, token, pos>>

\* mutation: whatever follows a high surrogate is taken for its other half
ReadUnicode_AnyLow ==
    /\ InLoop /\ At(pos) = 92 /\ At(pos + 1) = 117
    /\ LET codepoint == HexValue(token, pos + 2)
       IN  \/ ~IsHigh(codepoint) /\ ~IsLow(codepoint)
              /\ out' = out \o ToUnicode(codepoint) /\ pos' = pos + 6
              /\ UNCHANGED <<phase, chars, written, next, token>>
           \/ /\ IsHigh(codepoint) /\ pos + 7 < Len(token)
              /\ At(pos + 6) = 92 /\ At(pos + 7) = 117
              /\ out' = out \o ToUnicode(Surrogates(codepoint, HexValue(token, pos + 8)))
              /\ pos' = pos + 12
              /\ UNCHANGED <<phase, chars, written, next, token>>

\* \uxxxx: a surrogate must be the first of a pair.
ReadUnicode ==
    /\ InLoop /\ At(pos) = 92 /\ At(pos + 1) = 117
    /\ LET codepoint == HexValue(token, pos + 2)
           paired == pos + 7 < Len(token) /\ At(pos + 6) = 92 /\ At(pos + 7) = 117
           second == HexValue(token, pos + 8)
       IN  \/ /\ ~IsHigh(codepoint) /\ ~IsLow(codepoint)
              /\ out' = out \o ToUnicode(codepoint)
              /\ pos' = pos + 6
              /\ UNCHANGED <<phase, chars, written, next, token>>
           \/ /\ IsHigh(codepoint) /\ paired /\ IsLow(second)
              /\ out' = out \o ToUnicode(Surrogates(codepoint, second))
              /\ pos' = pos + 12
              /\ UNCHANGED <<phase, chars, written, next, token>>
           \/ IsHigh(codepoint) /\ ~(paired /\ IsLow(second)) /\ Throw
           \/ IsLow(codepoint) /\ Throw

Finish ==
    /\ phase = "read" /\ pos >= last
    /\ phase' = "done"
    /\ UNCHANGED <<chars, written, next, out, token, pos>>

InitWrite ==
    /\ chars \in Strings /\ written = TRUE /\ phase = "escape"
    /\ out = [i \in 1 .. Len(chars) + ExtraSpaceOf(chars) |-> 92]
    /\ token = << >> /\ pos = 0

InitRead ==
    /\ token \in Tokens /\ written = FALSE /\ phase = "read"
    /\ chars = << >> /\ out = << >> /\ pos = 1

Init == next = 0 /\ (InitWrite \/ InitRead)

Next == EscapeByte \/ Quote \/ CopyRun \/ ReadEscape \/ ReadUnicode \/ Finish

Spec == Init /\ [][Next]_vars

-----------------------------------------------------------------------------
(* What a string token means: the code units of its characters, in which a  *)
(* pair of surrogates is one code point.                                    *)

UnitValue(u) ==
    IF Len(u) = 2 /\ u[1] = 92 THEN Unescaped(u[2])
    ELSE IF u[1] = 92 THEN HexValue(u, 2)
    ELSE Decoded(u)

UnitsFrom(s, first) ==   \* the values of the characters of s from its place first
    LET values[i \in first .. Len(s)] ==
            IF i = Len(s) THEN << >>
            ELSE LET k == CHOOSE k \in 1 .. 6 :
                            /\ i + k <= Len(s)
                            /\ IsUnit(SubSeq(s, i, i + k - 1))
                 IN  <<UnitValue(SubSeq(s, i, i + k - 1))>> \o values[i + k]
    IN  values[first]

Paired(units) ==
    \A i \in DOMAIN units :
        /\ IsHigh(units[i]) => i < Len(units) /\ IsLow(units[i + 1])
        /\ IsLow(units[i]) => i > 1 /\ IsHigh(units[i - 1])

Joined(units) ==   \* RFC 2781
    LET joined[i \in 1 .. Len(units) + 1] ==
            IF i > Len(units) THEN << >>
            ELSE IF IsHigh(units[i])
            THEN <<65536 + 1024 * (units[i] - 55296) + (units[i + 1] - 56320)>> \o joined[i + 2]
            ELSE <<units[i]>> \o joined[i + 1]
    IN  joined[1]

\* whether the bytes are UTF-8; a byte that JSON escapes is one of them
IsUtf8(s) == IsString(<<34>> \o [i \in DOMAIN s |-> IF s[i] < 128 THEN 97 ELSE s[i]] \o <<34>>)

\* the code points of UTF-8 bytes
CodePoints(s) ==
    LET points[i \in 1 .. Len(s) + 1] ==
            IF i > Len(s) THEN << >>
            ELSE LET k == CHOOSE k \in 1 .. 4 :
                            /\ i + k <= Len(s) + 1
                            /\ Decoded(SubSeq(s, i, i + k - 1)) >= Shortest[k]
                 IN  <<Decoded(SubSeq(s, i, i + k - 1))>> \o points[i + k]
    IN  points[1]

-----------------------------------------------------------------------------
(* Properties.                                                              *)

\* The positions stay inside what they index; get_string comes to the
\* closing quote exactly, as the proof in its comment says ("the loop
\* condition will eventually be false").
TypeOK ==
    /\ phase \in {"escape", "read", "done", "thrown"}
    /\ next \in 0 .. Len(chars)
    /\ \A i \in DOMAIN out : out[i] \in Byte
    /\ phase = "escape" => pos <= Len(out)
    /\ phase \in {"read", "thrown"} => pos \in 1 .. last
    /\ phase = "done" => pos = last

\* escape_string writes into a string whose length extra_space has counted,
\* by a switch of its own: what is left of it is what the rest needs.
SpaceFits ==
    phase = "escape" =>
        LET rest == SubSeq(chars, next + 1, Len(chars))
        IN  Len(out) - pos = Len(rest) + ExtraSpaceOf(rest)

\* What is written as a string is a string token for any JSON reader, if and
\* only if the string was UTF-8.
WrittenIsToken == written /\ token # << >> => (IsString(token) <=> IsUtf8(chars))

\* What is written is read back as it was, byte by byte.
RoundTrip == written /\ phase \in {"done", "thrown"} => phase = "done" /\ out = chars

\* What is read of a token that a client sent is UTF-8 for exactly the code
\* points that the token's characters stand for, and it is refused exactly
\* when a surrogate is without its other half.
ReadMeansToken ==
    ~written /\ phase \in {"done", "thrown"} =>
        LET units == UnitsFrom(token, 2)
        IN  /\ (phase = "done") <=> Paired(units)
            /\ phase = "done" => IsUtf8(out) /\ CodePoints(out) = Joined(units)
=============================================================================
