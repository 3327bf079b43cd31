---------------------------- MODULE MCJsonReader ----------------------------
(***************************************************************************)
(* What json.hpp does with a text, part by part: the scanner splits it     *)
(* into tokens, get_string and get_number make values of them, and the     *)
(* parser puts the values together; escape_string and dump write a value.  *)
(* The parts share nothing but the tokens, so a behaviour is one of one    *)
(* part, while the others rest where a call has not begun or is over.      *)
(***************************************************************************)
EXTENDS JsonLexer

VARIABLES
    part,                                               \* which part moves
    phase, chars, written, next, out, stringToken, pos,                \* JsonText
    numberToken, curptr, value, max, type, numberPc, number, exact,    \* JsonNumber
    read, stack, documentPc, document                                  \* JsonDocument

UpTo(n, alphabet) == UNION {[1 .. k -> alphabet] : k \in 0 .. n}

-----------------------------------------------------------------------------
(* The scanner's texts.                                                     *)

\* - + . 0 1 e: every number of up to five bytes, and what is almost one
NumberTexts == UpTo(5, {43, 45, 46, 48, 49, 101})

\* lead and tail bytes at the ends of their ranges
Bytes == {32, 34, 127, 128, 143, 144, 159, 160, 191, 193, 194, 223, 224, 225, 236, 237, 239,
          240, 243, 244, 245}
StringTexts == {<<34>> \o s \o <<34>> : s \in UpTo(2, Bytes)} \cup
               {<<34>> \o s \o <<143, 34>> : s \in [1 .. 2 -> Bytes]} \cup
               {<<34>> \o s \o <<191, 34>> : s \in [1 .. 3 -> Bytes \cap 127 .. 245]}

\* backslash " / u n 0 F a control byte, and no closing quote at times
EscapeTexts == {<<34, 92>> \o s : s \in UpTo(4, {0, 31, 34, 47, 92, 110, 117})} \cup
               {<<34, 92, 117>> \o s \o <<34>> : s \in UpTo(5, {48, 70, 103})}

\* true, null and false with a byte changed or the end missing, after space
\* and before other tokens
Words == {<<116, 114, 117, 101>>, <<110, 117, 108, 108>>, <<102, 97, 108, 115, 101>>}
Broken == {[w EXCEPT ![i] = c] : w \in Words, i \in 1 .. 4, c \in {0, 58, 115}} \cup
          {SubSeq(w, 1, n) : w \in Words, n \in 1 .. 4}
WordTexts == {a \o b \o c : a \in {<< >>, <<32>>, <<9, 10, 13>>, <<91, 123>>},
                            b \in Words \cup Broken,
                            c \in {<< >>, <<44>>, <<93, 125>>, <<32, 32>>, <<49, 46>>}}

MCTexts == NumberTexts \cup StringTexts \cup EscapeTexts \cup WordTexts

-----------------------------------------------------------------------------
(* Strings, and string tokens.                                              *)

\* every control character with an escape of its own, others at the ends of
\* their range, slashes, letters, and bytes of UTF-8 sequences
Alphabet == {0, 8, 9, 10, 12, 13, 31, 32, 34, 47, 92, 117, 127, 169, 195}
MCStrings == UpTo(3, Alphabet)

\* the escapes of get_string and, as \uxxxx in both cases, code units at the
\* ends of the ranges of to_unicode and of the surrogates
Pieces == {<<97>>, <<195, 169>>, <<92, 116>>, <<92, 110>>, <<92, 47>>, <<92, 92>>, <<92, 34>>} \cup
          {<<92, 117>> \o h : h \in {
              <<48, 48, 48, 48>>, <<48, 48, 55, 70>>, <<48, 48, 56, 48>>, <<48, 55, 102, 102>>,
              <<48, 56, 48, 48>>, <<68, 55, 70, 70>>, <<68, 56, 48, 48>>, <<100, 98, 102, 102>>,
              <<68, 67, 48, 48>>, <<68, 70, 70, 70>>, <<69, 48, 48, 48>>, <<70, 70, 70, 70>>}}
MCTokens == {<<34>> \o FlattenSeq(s) \o <<34>> : s \in UpTo(3, Pieces)}

\* With Half = 32, integers of up to three digits are on both sides of every
\* limit.
MCLiterals == {t \in UpTo(4, {43, 45, 46, 101} \cup Digit) : IsNumber(t)}

-----------------------------------------------------------------------------

Text == INSTANCE JsonText WITH
    Strings <- MCStrings, Tokens <- MCTokens, token <- stringToken
Num == INSTANCE JsonNumber WITH
    Literals <- MCLiterals, Half <- 32,
    token <- numberToken, pc <- numberPc, result <- number
Document == INSTANCE JsonDocument WITH
    Strings <- {1, 2}, Numbers <- {7}, MaxTokens <- 9,
    pc <- documentPc, result <- document

\* the scanner at the end of an empty text
ScannerRests ==
    /\ text = << >> /\ buf = << >> /\ start = 1 /\ marker = 0 /\ cursor = 1
    /\ state = "done" /\ token = "end_of_input" /\ offset = 0

\* no string to escape, a number and a document that are not read yet
StringsRest ==
    /\ phase = "escape" /\ chars = << >> /\ written = TRUE /\ next = 0 /\ out = << >>
    /\ stringToken = << >> /\ pos = 0
NumbersRest ==
    /\ numberToken = <<48>> /\ curptr = 0 /\ value = 0 /\ max = 0 /\ type = "null"
    /\ numberPc = "sign" /\ number = 0 /\ exact = 0
DocumentsRest ==
    read = <<Document!Eof>> /\ stack = << >> /\ documentPc = "value" /\ document = Document!Nothing

stringVars   == <<phase, chars, written, next, out, stringToken, pos>>
numberVars   == <<numberToken, curptr, value, max, type, numberPc, number, exact>>
documentVars == <<read, stack, documentPc, document>>
readerVars   == <<part, vars, stringVars, numberVars, documentVars>>

ReaderInit ==
    \/ part = "scan" /\ Init /\ StringsRest /\ NumbersRest /\ DocumentsRest
    \/ part = "string" /\ Text!Init /\ ScannerRests /\ NumbersRest /\ DocumentsRest
    \/ part = "number" /\ Num!Init /\ ScannerRests /\ StringsRest /\ DocumentsRest
    \/ part = "document" /\ Document!Init /\ ScannerRests /\ StringsRest /\ NumbersRest

ScanNext == part = "scan" /\ Next /\ UNCHANGED <<part, stringVars, numberVars, documentVars>>

ReaderNext ==
    \/ ScanNext
    \/ part = "string" /\ Text!Next /\ UNCHANGED <<part, vars, numberVars, documentVars>>
    \/ part = "number" /\ Num!Next /\ UNCHANGED <<part, vars, stringVars, documentVars>>
    \/ part = "document" /\ Document!Next /\ UNCHANGED <<part, vars, stringVars, numberVars>>

\* The program runs in one thread that does not pause.
ReaderSpec == ReaderInit /\ [][ReaderNext]_readerVars /\ WF_readerVars(ScanNext)

-----------------------------------------------------------------------------
(* The properties of the instances, which say in their modules what they    *)
(* are about; those of the scanner are JsonLexer's.                         *)

\* Pointers, positions and the parser's stack stay where they index something.
ReaderTypeOK == TypeOK /\ Text!TypeOK /\ Num!TypeOK /\ Document!TypeOK

\* Tokens mean what they say.  A string of UTF-8, and no other, is written as a
\* token, in the space that was counted for it, and read back as it was; what
\* get_string returns is what the characters stand for, and a surrogate without
\* its other half is refused.  get_number stays in its 64 bits and is exact
\* where one of its types can hold the number.
TokensMeanValues ==
    /\ Text!SpaceFits /\ Text!WrittenIsToken
    /\ Text!RoundTrip /\ Text!ReadMeansToken
    /\ Num!NoOverflow /\ Num!Exact

\* The parser returns what the text means or refuses it at the first token that
\* makes it hopeless, asks for nothing behind the end, and reads back what
\* dump() writes of the value.
DocumentsFaithful ==
    /\ Document!Faithful /\ Document!RefusedAtOnce
    /\ Document!NoScanBehindEnd /\ Document!DumpRoundTrip
=============================================================================
