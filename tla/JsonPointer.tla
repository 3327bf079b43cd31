---------------------------- MODULE JsonPointer ----------------------------
(***************************************************************************)
(* JSON pointers: their text, and the four ways in which a value is        *)
(* reached through one, checked, unchecked, and creating what is missing.  *)
(*                                                                         *)
(* Texts and keys are sequences of characters.  A value is a record of one *)
(* field that is named for its type: nul, num, flt, str, arr or obj; the   *)
(* value of obj is a function of the keys.  The end of a call that may     *)
(* throw is the kind of the exception, "undefined" for undefined           *)
(* behaviour, or "none".                                                   *)
(***************************************************************************)
EXTENDS Integers, SequencesExt

CONSTANTS
    Order,     \* the characters, as a sequence in the order of their codes
    MaxInt     \* INT_MAX

-----------------------------------------------------------------------------
(* The text of a pointer and its reference tokens.                          *)

\* replace_substring: from left to right, not within what was put in
RECURSIVE Replaced(_, _, _)
Replaced(s, f, t) ==
    IF Len(s) < Len(f) THEN s
    ELSE IF IsPrefix(f, s) THEN t \o Replaced(SubSeq(s, Len(f) + 1, Len(s)), f, t)
    ELSE <<Head(s)>> \o Replaced(Tail(s), f, t)

Escape(s) == Replaced(Replaced(s, <<"~">>, <<"~", "0">>), <<"/">>, <<"~", "1">>)

\* mutation: the tildes are restored before the slashes
Unescape_TildeFirst(s) == Replaced(Replaced(s, <<"~", "0">>, <<"~">>), <<"~", "1">>, <<"/">>)

Unescape(s) == Replaced(Replaced(s, <<"~", "1">>, <<"/">>), <<"~", "0">>, <<"~">>)

TextOf(tokens) == FoldLeft(LAMBDA text, token : text \o <<"/">> \o Escape(token), << >>, tokens)

\* the texts behind the slashes
Pieces(text) ==
    LET slash == SelectSeq([i \in DOMAIN text |-> i], LAMBDA i : text[i] = "/")
    IN  [k \in DOMAIN slash |->
            SubSeq(text, slash[k] + 1, IF k = Len(slash) THEN Len(text) ELSE slash[k + 1] - 1)]

\* mutation: the last character is not looked at
BadEscape_NotLast(piece) ==
    \E i \in 1 .. Len(piece) - 1 : piece[i] = "~" /\ piece[i + 1] \notin {"0", "1"}

BadEscape(piece) ==
    \E i \in DOMAIN piece : piece[i] = "~" /\ (i = Len(piece) \/ piece[i + 1] \notin {"0", "1"})

\* split
SplitError(text) ==
    IF text # << >> /\ (Head(text) # "/" \/ \E i \in DOMAIN Pieces(text) : BadEscape(Pieces(text)[i]))
    THEN "domain_error" ELSE "none"

Split(text) == [i \in DOMAIN Pieces(text) |-> Unescape(Pieces(text)[i])]

-----------------------------------------------------------------------------
(* Texts in the order of std::map, and numerals.                            *)

Rank(c) == CHOOSE i \in DOMAIN Order : Order[i] = c

RECURSIVE TextLess(_, _)
TextLess(s, t) ==
    /\ t # << >>
    /\ \/ s = << >>
       \/ Rank(Head(s)) < Rank(Head(t))
       \/ Head(s) = Head(t) /\ TextLess(Tail(s), Tail(t))

Least(texts) == CHOOSE s \in texts : \A t \in texts : ~TextLess(t, s)

RECURSIVE InOrder(_)
InOrder(texts) == IF texts = {} THEN << >> ELSE <<Least(texts)>> \o InOrder(texts \ {Least(texts)})

Digits == <<"0", "1", "2", "3", "4", "5", "6", "7", "8", "9">>
IsDigit(c) == \E d \in DOMAIN Digits : Digits[d] = c
DigitOf(c) == (CHOOSE d \in DOMAIN Digits : Digits[d] = c) - 1

\* std::to_string
RECURSIVE Decimal(_)
Decimal(n) == (IF n < 10 THEN << >> ELSE Decimal(n \div 10)) \o <<Digits[(n % 10) + 1]>>

\* External: std::stoi takes a sign and as many digits as there are, and
\* leaves the rest.
Signed(s) == s # << >> /\ Head(s) \in {"-", "+"}
DigitsOf(s) ==
    LET rest == IF Signed(s) THEN Tail(s) ELSE s
        n == CHOOSE k \in 0 .. Len(rest) :
                /\ \A i \in 1 .. k : IsDigit(rest[i])
                /\ k = Len(rest) \/ ~IsDigit(rest[k + 1])
    IN  SubSeq(rest, 1, n)
Magnitude(s) == FoldLeft(LAMBDA n, c : 10 * n + DigitOf(c), 0, DigitsOf(s))
StoI(s) == IF Signed(s) /\ Head(s) = "-" THEN -Magnitude(s) ELSE Magnitude(s)
StoIError(s) ==
    IF DigitsOf(s) = << >> THEN "invalid_argument"
    ELSE IF StoI(s) \notin -MaxInt - 1 .. MaxInt THEN "out_of_range" ELSE "none"

-----------------------------------------------------------------------------
(* Values.                                                                  *)

Null == [nul |-> 0]
Arr(elements) == [arr |-> elements]
Obj(members) == [obj |-> members]
Is(type, j) == type \in DOMAIN j

\* operator==: a number is converted to a double to be compared with one
RECURSIVE Equal(_, _)
Equal(x, y) ==
    CASE Is("arr", x) /\ Is("arr", y) ->
            Len(x.arr) = Len(y.arr) /\ \A i \in DOMAIN x.arr : Equal(x.arr[i], y.arr[i])
      [] Is("obj", x) /\ Is("obj", y) ->
            DOMAIN x.obj = DOMAIN y.obj /\ \A key \in DOMAIN x.obj : Equal(x.obj[key], y.obj[key])
      [] Is("num", x) /\ Is("flt", y) -> x.num = y.flt
      [] Is("flt", x) /\ Is("num", y) -> x.flt = y.num
      [] OTHER -> x = y

-----------------------------------------------------------------------------
(* Reaching a value.  The mode is "at" for get_checked, "[]" for           *)
(* get_unchecked and "create" for get_and_create.                           *)

IsNumber(token) == \A i \in DOMAIN token : IsDigit(token[i])
LeadingZero(token) == Len(token) > 1 /\ Head(token) = "0"
PastTheEnd == <<"-">>

\* mutation: a primitive value is overwritten in place of an exception
Shape_Overwrites(mode, j, token) ==
    IF Is("arr", j) \/ Is("obj", j) \/ mode = "at" THEN j
    ELSE IF token = <<"0">> \/ token = PastTheEnd THEN Arr(<< >>)
    ELSE Obj(<< >>)

\* What a null becomes before a token is applied to it.
Shape(mode, j, token) ==
    IF ~Is("nul", j) \/ mode = "at" THEN j
    ELSE IF mode = "[]" /\ (IsNumber(token) \/ token = PastTheEnd) THEN Arr(<< >>)
    ELSE IF mode = "create" /\ token = <<"0">> THEN Arr(<< >>)
    ELSE Obj(<< >>)

\* The exception of at(idx), and that of operator[], which adds
\* idx - size + 1 elements of size_type: none of them for the index -1 of an
\* empty array, and more than there can be for every other negative index.
IndexError(mode, j, idx) ==
    IF mode = "at" /\ idx \notin 0 .. Len(j.arr) - 1 THEN "out_of_range"
    ELSE IF idx = -1 /\ j.arr = << >> THEN "undefined"
    ELSE IF idx < 0 THEN "length_error" ELSE "none"

ArrayError(mode, j, token) ==
    IF token = PastTheEnd /\ mode # "create" THEN IF mode = "at" THEN "out_of_range" ELSE "none"
    ELSE IF LeadingZero(token) /\ mode # "create" THEN "domain_error"
    ELSE IF StoIError(token) # "none" THEN StoIError(token)
    ELSE IndexError(mode, j, StoI(token))

TokenError(mode, j, token) ==
    IF Is("obj", j) THEN IF mode = "at" /\ token \notin DOMAIN j.obj THEN "out_of_range" ELSE "none"
    ELSE IF Is("arr", j) THEN ArrayError(mode, j, token)
    ELSE IF mode = "create" THEN "domain_error" ELSE "out_of_range"

\* mutation: "-" is the last element, and an index the element behind it
Index_Shifted(j, token) == IF token = PastTheEnd THEN Len(j.arr) - 1 ELSE StoI(token) + 1

Index(j, token) == IF token = PastTheEnd THEN Len(j.arr) ELSE StoI(token)

Child(j, token) ==
    IF Is("arr", j) THEN IF Index(j, token) < Len(j.arr) THEN j.arr[Index(j, token) + 1] ELSE Null
    ELSE IF token \in DOMAIN j.obj THEN j.obj[token] ELSE Null

\* operator[](size_type), and the assignment to what it returns
WithElement(j, idx, v) ==
    Arr([i \in 1 .. Max({Len(j.arr), idx + 1}) |->
            IF i = idx + 1 THEN v ELSE IF i <= Len(j.arr) THEN j.arr[i] ELSE Null])

WithMember(j, key, v) ==
    Obj([k \in DOMAIN j.obj \cup {key} |-> IF k = key THEN v ELSE j.obj[k]])

With(j, token, v) ==
    IF Is("arr", j) THEN WithElement(j, Index(j, token), v) ELSE WithMember(j, token, v)

RECURSIVE Error(_, _, _), Reach(_, _, _), Put(_, _, _, _)

\* The exception that the walk along tokens ends with.
Error(mode, j, tokens) ==
    IF tokens = << >> THEN "none"
    ELSE LET shaped == Shape(mode, j, Head(tokens))
             error == TokenError(mode, shaped, Head(tokens))
         IN  IF error # "none" THEN error ELSE Error(mode, Child(shaped, Head(tokens)), Tail(tokens))

\* The value that is referred to.
Reach(mode, j, tokens) ==
    IF tokens = << >> THEN j
    ELSE Reach(mode, Child(Shape(mode, j, Head(tokens)), Head(tokens)), Tail(tokens))

\* j once v is assigned to the reference.
Put(mode, j, tokens, v) ==
    IF tokens = << >> THEN v
    ELSE LET shaped == Shape(mode, j, Head(tokens))
         IN  With(shaped, Head(tokens), Put(mode, Child(shaped, Head(tokens)), Tail(tokens), v))
=============================================================================
