------------------------------ MODULE JsonLexer ------------------------------
(***************************************************************************)
(* The scanner of json.hpp, as json::parse runs it on a string in memory:  *)
(* the automaton that re2c made of the token definitions, with its         *)
(* pointers into the buffer, its checks of the space left, its backtracking *)
(* and the refills that move the rest of the text to a padded buffer.      *)
(*                                                                         *)
(* Positions count from 1, limit is one past the last byte, and a marker   *)
(* of 0 is the null pointer.  The members of m_stream are left out: the    *)
(* program hands the scanner strings only.                                 *)
(***************************************************************************)
EXTENDS JsonGrammar

CONSTANT Texts   \* the texts to scan

ASSUME TextsAssumption == Texts \subseteq Seq(Byte)

VARIABLES
    text,     \* what is scanned, as it was passed
    buf,      \* from m_content to m_limit
    start,    \* m_start
    marker,   \* m_marker
    cursor,   \* m_cursor
    state,    \* the label of scan() from which the byte at m_cursor is read
    token,    \* last_token_type
    offset    \* how much of the text buf has left behind; history

vars == <<text, buf, start, marker, cursor, state, token, offset>>

limit == Len(buf) + 1

-----------------------------------------------------------------------------
(* The automaton.  Each operator holds of a byte c and a state t that it    *)
(* leads to: one that reads the next byte, or a kind of token whose last    *)
(* byte is c.                                                               *)

Begin(c, t) ==
    \/ c = 0         /\ t = "end_of_input"
    \/ c \in Space   /\ t = "space"
    \/ c = 34        /\ t = "quote"
    \/ c = 44        /\ t = "value_separator"
    \/ c = 45        /\ t = "minus"
    \/ c = 48        /\ t = "zero"
    \/ c \in 49 .. 57 /\ t = "int"
    \/ c = 58        /\ t = "name_separator"
    \/ c = 91        /\ t = "begin_array"
    \/ c = 93        /\ t = "end_array"
    \/ c = 102       /\ t = "f"
    \/ c = 110       /\ t = "n"
    \/ c = 116       /\ t = "t"
    \/ c = 123       /\ t = "begin_object"
    \/ c = 125       /\ t = "end_object"

\* What follows the bytes of a string.
InString(c, t) ==
    \/ c = 34           /\ t = "value_string"
    \/ c = 92           /\ t = "escape"
    \/ c \in (32 .. 127) \ {34, 92} /\ t = "string"
    \/ c \in 194 .. 223 /\ t = "tail1"
    \/ c = 224          /\ t = "tailE0"
    \/ c = 237          /\ t = "tailED"
    \/ c \in (225 .. 239) \ {237} /\ t = "tail2"
    \/ c = 240          /\ t = "tailF0"
    \/ c \in 241 .. 243 /\ t = "tail3"
    \/ c = 244          /\ t = "tailF4"

AfterQuote(c, t) == (c \in 32 .. 127 \/ c \in 194 .. 244) /\ InString(c, t)

Escape(c, t) ==
    \/ c \in Escapes /\ t = "string"
    \/ c = 117       /\ t = "hex1"

\* mutation: any continuation byte is taken after E0
MoreBytes_Overlong(s, c, t) ==
    \/ s = "tail1" /\ c \in Continuation /\ t = "string"
    \/ s \in {"tailE0", "tail2"} /\ c \in Continuation /\ t = "tail1"
    \/ s = "tail3" /\ c \in Continuation /\ t = "tail2"

\* The continuation bytes of a character, with the ranges that exclude
\* overlong forms, surrogates and what is beyond U+10FFFF.
MoreBytes(s, c, t) ==
    \/ s = "tail1"  /\ c \in Continuation /\ t = "string"
    \/ s = "tailE0" /\ c \in 160 .. 191   /\ t = "tail1"
    \/ s = "tail2"  /\ c \in Continuation /\ t = "tail1"
    \/ s = "tailED" /\ c \in 128 .. 159   /\ t = "tail1"
    \/ s = "tailF0" /\ c \in 144 .. 191   /\ t = "tail2"
    \/ s = "tail3"  /\ c \in Continuation /\ t = "tail2"
    \/ s = "tailF4" /\ c \in 128 .. 143   /\ t = "tail2"

HexDigit(s, c, t) ==
    /\ c \in Hex
    /\ \/ s = "hex1" /\ t = "hex2"
       \/ s = "hex2" /\ t = "hex3"
       \/ s = "hex3" /\ t = "hex4"
       \/ s = "hex4" /\ t = "string"

AfterMinus(c, t) == \/ c = 48 /\ t = "zero"
                    \/ c \in 49 .. 57 /\ t = "int"

AfterZero(c, t) == \/ c = 46 /\ t = "dot"
                   \/ c \in Exponent /\ t = "exp"

InInt(c, t) == (c \in Digit /\ t = "int") \/ AfterZero(c, t)

AfterDot(c, t) == c \in Digit /\ t = "frac"

InFrac(c, t) == \/ c \in Digit /\ t = "frac"
                \/ c \in Exponent /\ t = "exp"

AfterExp(c, t) == \/ c \in {43, 45} /\ t = "sign"
                  \/ c \in Digit /\ t = "expint"

InExp(c, t) == c \in Digit /\ t = "expint"

\* false, null and true
FirstOfWord(s, c, t) ==
    \/ s = "f" /\ c = 97  /\ t = "fa"
    \/ s = "n" /\ c = 117 /\ t = "nu"
    \/ s = "t" /\ c = 114 /\ t = "tr"

SecondOfWord(s, c, t) ==
    \/ s = "fa" /\ c = 108 /\ t = "fal"
    \/ s = "nu" /\ c = 108 /\ t = "nul"
    \/ s = "tr" /\ c = 117 /\ t = "tru"

ThirdOfWord(s, c, t) ==
    \/ s = "fal" /\ c = 115 /\ t = "fals"
    \/ s = "nul" /\ c = 108 /\ t = "literal_null"
    \/ s = "tru" /\ c = 101 /\ t = "literal_true"

LastOfFalse(c, t) == c = 101 /\ t = "literal_false"

Tails == {"tail1", "tailE0", "tail2", "tailED", "tailF0", "tail3", "tailF4"}
HexDigits == {"hex1", "hex2", "hex3", "hex4"}
Words1 == {"f", "n", "t"}
Words2 == {"fa", "nu", "tr"}
Words3 == {"fal", "nul", "tru"}

Reads(s, c, t) ==
    \/ s = "begin"      /\ Begin(c, t)
    \/ s = "space"      /\ c \in Space /\ t = "space"
    \/ s = "quote"      /\ AfterQuote(c, t)
    \/ s = "string"     /\ InString(c, t)
    \/ s = "escape"     /\ Escape(c, t)
    \/ s \in Tails      /\ MoreBytes(s, c, t)
    \/ s \in HexDigits  /\ HexDigit(s, c, t)
    \/ s = "minus"      /\ AfterMinus(c, t)
    \/ s = "zero"       /\ AfterZero(c, t)
    \/ s = "int"        /\ InInt(c, t)
    \/ s = "dot"        /\ AfterDot(c, t)
    \/ s = "frac"       /\ InFrac(c, t)
    \/ s = "exp"        /\ AfterExp(c, t)
    \/ s \in {"sign", "expint"} /\ InExp(c, t)
    \/ s \in Words1     /\ FirstOfWord(s, c, t)
    \/ s \in Words2     /\ SecondOfWord(s, c, t)
    \/ s \in Words3     /\ ThirdOfWord(s, c, t)
    \/ s = "fals"       /\ LastOfFalse(c, t)

\* mutation: the label behind a quote does not set the marker
Marking_NoQuote == {"zero", "int", "frac"} \cup Words1

\* The states that remember where to come back to, and those whose mark
\* stands behind a number.
Marking == {"quote", "zero", "int", "frac"} \cup Words1
AfterNumber == {"dot", "exp", "sign"}

\* The states in which a token is complete and a byte that does not belong to
\* it is left, in which such a byte is an error, and those that then go back.
Complete == {"zero", "int", "frac", "expint"}
Hopeless == {"begin", "quote", "minus"} \cup Words1
Returning == {"string", "escape", "fals"} \cup AfterNumber \cup Tails \cup HexDigits \cup
             Words2 \cup Words3

Reading == {"space"} \cup Complete \cup Hopeless \cup Returning

\* The states that check for a byte before they read it.
Checking == {"space", "string", "escape", "expint"} \cup Tails \cup HexDigits

\* mutation: four bytes are thought enough for a token without further checks
Need_Four(s) ==
    IF s = "begin" THEN 4
    ELSE IF s \in {"int", "frac"} THEN 3
    ELSE IF s \in Checking THEN 1 ELSE 0

Need(s) ==
    IF s = "begin" THEN 5
    ELSE IF s \in {"int", "frac"} THEN 3
    ELSE IF s \in Checking THEN 1 ELSE 0

Kinds == {"end_of_input", "value_separator", "name_separator", "begin_array",
          "end_array", "begin_object", "end_object", "value_string", "value_number",
          "literal_null", "literal_true", "literal_false", "parse_error"}

\* The parser asks for no token after these.
Final == {"end_of_input", "parse_error"}

-----------------------------------------------------------------------------
(* scan() and fill_line_buffer().                                           *)

\* mutation: what is before the cursor goes, not what is before the token
FillLineBuffer_FromCursor(n, s, m, c) ==
    /\ buf' = SubSeq(buf, c, Len(buf)) \o [i \in 1 .. n |-> IF i = 1 THEN 0 ELSE 1]
    /\ start' = 1
    /\ marker' = IF m = 0 THEN 1 ELSE m - s + 1
    /\ cursor' = c - s + 1
    /\ offset' = offset + s - 1

\* fill_line_buffer(n) when fewer than n bytes are left: what is before the
\* token goes, a NUL and n - 1 other bytes are appended.  A null marker
\* becomes the start of the buffer.
FillLineBuffer(n, s, m, c) ==
    /\ buf' = SubSeq(buf, s, Len(buf)) \o [i \in 1 .. n |-> IF i = 1 THEN 0 ELSE 1]
    /\ start' = 1
    /\ marker' = IF m = 0 THEN 1 ELSE m - s + 1
    /\ cursor' = c - s + 1
    /\ offset' = offset + s - 1

\* State next reads the byte at c; before, it makes sure that it is there.
Enter(next, s, m, c) ==
    /\ state' = next
    /\ IF limit - c < Need(next)
       THEN FillLineBuffer(Need(next), s, m, c)
       ELSE /\ start' = s /\ marker' = m /\ cursor' = c
            /\ UNCHANGED <<buf, offset>>

\* The parser asks for a token, or white space was skipped: the top of the
\* loop in scan().
Scan ==
    /\ state \in {"ready", "skip"}
    /\ Enter("begin", cursor, 0, cursor)
    /\ UNCHANGED <<text, token>>

\* A byte that the token may go on behind.
Advance ==
    /\ state \in Reading
    /\ \E next \in Reading :
        /\ Reads(state, buf[cursor], next)
        /\ Enter(next, start, IF next \in Marking THEN cursor + 1 ELSE marker, cursor + 1)
    /\ UNCHANGED <<text, token>>

Return(kind, c) ==
    /\ token' = kind
    /\ cursor' = c
    /\ state' = IF kind \in Final THEN "done" ELSE "ready"
    /\ UNCHANGED <<text, buf, start, marker, offset>>

\* The last byte of a token.
Accept ==
    /\ state \in Reading
    /\ \E kind \in Kinds : Reads(state, buf[cursor], kind) /\ Return(kind, cursor + 1)

\* The byte is none that the state expects.
Unexpected ==
    /\ state \in Reading
    /\ \A t \in Reading \cup Kinds : ~Reads(state, buf[cursor], t)

\* Behind white space.
SkipSpace ==
    /\ state = "space" /\ Unexpected
    /\ state' = "skip"
    /\ UNCHANGED <<text, buf, start, marker, cursor, token, offset>>

\* Behind a number, or at the wrong byte: the first byte of a token is
\* consumed by the error, a later one is not.
Stop ==
    /\ Unexpected
    /\ \/ state \in Complete /\ Return("value_number", cursor)
       \/ state \in Hopeless /\ Return("parse_error", IF state = "begin" THEN cursor + 1 ELSE cursor)

\* mutation: a token that cannot go on is scanned again from its start
Backtrack_Rescan ==
    /\ Unexpected
    /\ state \in Returning
    /\ state' = "skip"
    /\ cursor' = start
    /\ UNCHANGED <<text, buf, start, marker, token, offset>>

\* The token cannot go on: what was a token at the marker is taken.
Backtrack ==
    /\ Unexpected
    /\ state \in Returning
    /\ Return(IF state \in AfterNumber THEN "value_number" ELSE "parse_error", marker)

Init ==
    /\ text \in Texts
    /\ buf = text
    /\ start = 1 /\ marker = 0 /\ cursor = 1
    /\ state = "ready"
    /\ token = "uninitialized"
    /\ offset = 0

Next == Scan \/ Advance \/ SkipSpace \/ Accept \/ Stop \/ Backtrack

\* The program runs in one thread that does not pause.
Spec == Init /\ [][Next]_vars /\ WF_vars(Next)

-----------------------------------------------------------------------------
(* Properties.                                                              *)

\* What the pointers and the other variables may be; among it the assertions
\* of fill_line_buffer about m_content, m_start, m_cursor, m_marker and
\* m_limit (10602-10612).
TypeOK ==
    /\ text \in Texts
    /\ \A i \in DOMAIN buf : buf[i] \in Byte
    /\ state \in Reading \cup {"ready", "skip", "done"}
    /\ token \in Kinds \cup {"uninitialized"}
    /\ offset \in Nat
    /\ 1 <= start /\ start <= cursor /\ cursor <= limit
    /\ marker \in 0 .. limit

\* Every byte that scan() looks at is in the buffer, although most labels do
\* not check; and of the padding it looks at nothing but the first byte, so
\* that no token depends on what fill_line_buffer appends behind the NUL.
ReadsInside ==
    state \in Reading => cursor < limit /\ offset + cursor <= Len(text) + 1

\* The buffer is the rest of the text and padding that starts with a NUL,
\* however often and wherever fill_line_buffer moved it in the middle of a
\* token.
BufferIsText ==
    /\ offset + Len(buf) >= Len(text)
    /\ \A i \in DOMAIN buf :
           IF offset + i <= Len(text) THEN buf[i] = text[offset + i]
           ELSE offset + i = Len(text) + 1 => buf[i] = 0

\* scan() returns the longest token of RFC 7159 at its place ("the
\* translated regular expressions try to follow RFC 7159"), and leaves the
\* cursor right behind it; nothing else, and no token where there is none.
LongestToken ==
    state \in {"ready", "done"} /\ token # "uninitialized" =>
        LET rest == SubSeq(text, offset + start, Len(text))
            lengths == {n \in 1 .. Len(rest) : Kind(SubSeq(rest, 1, n)) # "none"}
        IN  IF rest = << >> THEN token = "end_of_input"
            ELSE IF lengths = {} THEN token = "parse_error"
            ELSE LET n == cursor - start
                 IN  /\ n \in lengths /\ \A m \in lengths : m <= n
                     /\ token = Kind(SubSeq(rest, 1, n))

\* "The loop below will always terminate for finite input" (9632): each text
\* is scanned to its end or to an error.
ScanTerminates == <>(state = "done")
=============================================================================
