---------------------------- MODULE JsonDocument ----------------------------
(***************************************************************************)
(* The parser of a request: the recursive descent of parse_internal over   *)
(* the tokens that the scanner hands out one at a time, and dump(), which  *)
(* writes a value as text.  The calls in progress are an explicit stack.   *)
(*                                                                         *)
(* A token is a record with one field.  The token of a scalar is also its  *)
(* value.  No caller passes a callback, so every value is kept.            *)
(***************************************************************************)
EXTENDS Integers, SequencesExt

CONSTANTS
    Strings,     \* a set of integers, in the order of std::map
    Numbers,
    MaxTokens    \* bound: tokens in a text before its end

Literals == {[lit |-> "null"], [lit |-> "true"], [lit |-> "false"]}
Scalars == Literals \cup {[str |-> s] : s \in Strings} \cup {[num |-> n] : n \in Numbers}
Sep(c) == [sep |-> c]
Eof == Sep("end_of_input")
Tokens == Scalars \cup {Sep(c) : c \in {"{", "}", "[", "]", ":", ",", "parse_error"}} \cup {Eof}
IsString(t) == DOMAIN t = {"str"}

VARIABLES
    read,     \* the tokens so far; the last one is last_token
    stack,    \* one frame for each call of parse_internal that is in a container
    pc,       \* where the innermost call is
    result    \* what the last call that returned has returned

vars == <<read, stack, pc, result>>

-----------------------------------------------------------------------------
LastToken == read[Len(read)]
Top == stack[Len(stack)]
Nothing == [lit |-> "null"]

\* the bracket that ends the frame's container
Closing(frame) == Sep(IF "arr" \in DOMAIN frame.value THEN "]" ELSE "}")

GetToken ==
    \E t \in IF Len(read) < MaxTokens THEN Tokens ELSE {Eof} : read' = Append(read, t)

Throw == pc' = "thrown" /\ UNCHANGED <<read, stack, result>>

\* where a member of the frame's container begins
MemberOf(frame) == IF "arr" \in DOMAIN frame.value THEN "value" ELSE "key"

\* parse_internal, called for last_token.
Scalar ==
    /\ pc = "value" /\ LastToken \in Scalars
    /\ result' = LastToken
    /\ GetToken
    /\ pc' = "return" /\ UNCHANGED stack

Open ==
    /\ pc = "value" /\ LastToken \in {Sep("{"), Sep("[")}
    /\ stack' = Append(stack,
            [value |-> IF LastToken = Sep("[") THEN [arr |-> << >>] ELSE [obj |-> << >>],
             key |-> 0])
    /\ GetToken
    /\ pc' = "first" /\ UNCHANGED result

\* mutation: an unexpected token is skipped
Unexpected_Skip ==
    /\ pc = "value" /\ LastToken \notin Scalars \cup {Sep("{"), Sep("[")}
    /\ GetToken
    /\ UNCHANGED <<stack, pc, result>>

Unexpected ==
    /\ pc = "value" /\ LastToken \notin Scalars \cup {Sep("{"), Sep("[")}
    /\ Throw

Return ==
    /\ result' = Top.value
    /\ stack' = Front(stack)
    /\ GetToken
    /\ pc' = "return"

\* mutation: no comma is unexpected before the first member
First_Comma ==
    /\ pc = "first"
    /\ \/ LastToken = Closing(Top) /\ Return
       \/ /\ LastToken \notin {Closing(Top), Sep(",")}
          /\ pc' = MemberOf(Top) /\ UNCHANGED <<read, stack, result>>
       \/ /\ LastToken = Sep(",")
          /\ GetToken
          /\ pc' = MemberOf(Top) /\ UNCHANGED <<stack, result>>

\* Behind the opening bracket: the closing one, or no comma.
First ==
    /\ pc = "first"
    /\ \/ LastToken = Closing(Top) /\ Return
       \/ LastToken = Sep(",") /\ Throw
       \/ /\ LastToken \notin {Closing(Top), Sep(",")}
          /\ pc' = MemberOf(Top) /\ UNCHANGED <<read, stack, result>>

Key ==
    /\ pc = "key"
    /\ IF ~IsString(LastToken) THEN Throw
       ELSE /\ stack' = [stack EXCEPT ![Len(stack)].key = LastToken.str]
            /\ GetToken
            /\ pc' = "colon" /\ UNCHANGED result

Colon ==
    /\ pc = "colon"
    /\ IF LastToken # Sep(":") THEN Throw
       ELSE GetToken /\ pc' = "value" /\ UNCHANGED <<stack, result>>

\* mutation: a value is inserted, as std::map::insert does, and not assigned
Stored_Insert(frame, value) ==
    IF "arr" \in DOMAIN frame.value
    THEN [frame EXCEPT !.value.arr = Append(@, value)]
    ELSE [frame EXCEPT !.value.obj =
            [k \in DOMAIN @ \cup {frame.key} |-> IF k \in DOMAIN @ THEN @[k] ELSE value]]

\* result[key] = value, result.push_back(value)
Stored(frame, value) ==
    IF "arr" \in DOMAIN frame.value
    THEN [frame EXCEPT !.value.arr = Append(@, value)]
    ELSE [frame EXCEPT !.value.obj =
            [k \in DOMAIN @ \cup {frame.key} |-> IF k = frame.key THEN value ELSE @[k]]]

\* Back in the caller: the value is stored, and another one follows a comma.
Store ==
    /\ pc = "return" /\ stack # << >>
    /\ LET frame == Stored(Top, result)
       IN  \/ /\ LastToken = Sep(",")
              /\ stack' = [stack EXCEPT ![Len(stack)] = frame]
              /\ GetToken
              /\ pc' = MemberOf(frame) /\ UNCHANGED result
           \/ /\ LastToken = Closing(frame)
              /\ result' = frame.value
              /\ stack' = Front(stack)
              /\ GetToken
              /\ UNCHANGED pc
           \/ LastToken \notin {Sep(","), Closing(frame)} /\ Throw

\* parse(): after the outermost value.
Finish ==
    /\ pc = "return" /\ stack = << >>
    /\ IF LastToken # Eof THEN Throw ELSE pc' = "done" /\ UNCHANGED <<read, stack, result>>

Init ==
    /\ \E t \in Tokens : read = <<t>>
    /\ stack = << >> /\ pc = "value" /\ result = Nothing

Next == Scalar \/ Open \/ Unexpected \/ First \/ Key \/ Colon \/ Store \/ Finish

Spec == Init /\ [][Next]_vars

-----------------------------------------------------------------------------
(* dump(): commas between members, the keys of an object in order.          *)

\* mutation: a comma in front of the first member too
Comma_Always(text) == Append(text, Sep(","))

Comma(text) == IF text = << >> THEN text ELSE Append(text, Sep(","))

RECURSIVE Dump(_)
Dump(value) ==
    CASE "arr" \in DOMAIN value ->
            <<Sep("[")>>
            \o FoldLeft(LAMBDA text, item : Comma(text) \o Dump(item), << >>, value.arr)
            \o <<Sep("]")>>
      [] "obj" \in DOMAIN value ->
            <<Sep("{")>>
            \o FoldLeft(LAMBDA text, k : Comma(text) \o <<[str |-> k], Sep(":")>> \o Dump(value.obj[k]),
                        << >>, SetToSortSeq(DOMAIN value.obj, <))
            \o <<Sep("}")>>
      [] OTHER -> <<value>>

-----------------------------------------------------------------------------
(* What a text means, without a parser: its innermost pair of brackets is   *)
(* the text of a container whose members are values already, and is put in  *)
(* place of it; what cannot be reduced is no JSON.                          *)

IsValue(x) == DOMAIN x # {"sep"}
IsOpening(x) == x \in {Sep("["), Sep("{")}
IsClosing(x) == x \in {Sep("]"), Sep("}")}

\* whether x may be the n-th thing behind this bracket, or at the outermost level
Fits(x, bracket, n) ==
    CASE bracket = Sep("[") -> IF n % 2 = 0 THEN x = Sep(",") ELSE IsValue(x) \/ IsOpening(x)
      [] bracket = Sep("{") ->
            \/ n % 4 = 1 /\ IsString(x)
            \/ n % 4 = 2 /\ x = Sep(":")
            \/ n % 4 = 3 /\ (IsValue(x) \/ IsOpening(x))
            \/ n % 4 = 0 /\ x = Sep(",")
      [] OTHER -> IF n = 1 THEN IsValue(x) \/ IsOpening(x) ELSE n = 2 /\ x = Eof

Container(bracket, inside) ==
    IF bracket = Sep("[")
    THEN [arr |-> [i \in 1 .. (Len(inside) + 1) \div 2 |-> inside[2 * i - 1]]]
    ELSE LET places == {i \in DOMAIN inside : i % 4 = 1}
             LastOf(k) == CHOOSE i \in places :
                            /\ inside[i].str = k
                            /\ \A j \in places : inside[j].str = k => j <= i
         IN  [obj |-> [k \in {inside[i].str : i \in places} |-> inside[LastOf(k) + 2]]]

Complete(bracket, inside, closing) ==
    /\ closing = IF bracket = Sep("[") THEN Sep("]") ELSE Sep("}")
    /\ \A n \in DOMAIN inside : Fits(inside[n], bracket, n)
    /\ inside # << >> => Len(inside) % (IF bracket = Sep("[") THEN 2 ELSE 4)
                            = (IF bracket = Sep("[") THEN 1 ELSE 3)

\* the place of the innermost bracket that is open before place j, or 0
OpenBefore(s, j) == LET opens == {i \in 1 .. j - 1 : IsOpening(s[i])}
                    IN  IF opens = {} THEN 0 ELSE CHOOSE i \in opens : \A k \in opens : k <= i

RECURSIVE Reduced(_)
Reduced(s) ==
    LET closings == {i \in DOMAIN s : IsClosing(s[i])}
        j == CHOOSE i \in closings : \A k \in closings : i <= k
        i == OpenBefore(s, j)
    IN  IF closings = {} THEN s
        ELSE IF i = 0 \/ ~Complete(s[i], SubSeq(s, i + 1, j - 1), s[j]) THEN <<Sep("parse_error")>>
        ELSE Reduced(SubSeq(s, 1, i - 1) \o <<Container(s[i], SubSeq(s, i + 1, j - 1))>>
                     \o SubSeq(s, j + 1, Len(s)))

\* whether a text can begin like this
Viable(s) ==
    LET r == Reduced(s)
    IN  \A j \in DOMAIN r :
            LET i == OpenBefore(r, j)
            IN  Fits(r[j], IF i = 0 THEN Eof ELSE r[i], j - i)

-----------------------------------------------------------------------------
(* Properties.                                                              *)

\* There is a call for each bracket that is open before last_token, and the
\* innermost one waits for something that its container can hold.
TypeOK ==
    /\ pc \in {"value", "first", "key", "colon", "return", "done", "thrown"}
    /\ pc = "first" => stack # << >>
    /\ pc \in {"key", "colon"} => stack # << >> /\ MemberOf(Top) = "key"
    /\ pc = "done" => stack = << >>
    /\ Len(stack) = Len(SelectSeq(Reduced(Front(read)), IsOpening))

\* What the parser returns for a request is what its text means, a repeated
\* key with its last value.
Faithful == pc = "done" => Reduced(read) = <<result, Eof>>

\* A request is refused at the first token with which it cannot be JSON any
\* more, never before and never after it.
RefusedAtOnce ==
    /\ pc = "thrown" => ~Viable(read)
    /\ pc = "done" => Viable(read)
    /\ Viable(Front(read))

\* The scanner is not asked for a token behind the end of the text or behind
\* an error, where its cursor may be past the text.
NoScanBehindEnd == \A i \in 1 .. Len(read) - 1 : read[i] \notin {Eof, Sep("parse_error")}

\* What dump() writes for a value that was read is a text for that value.
DumpRoundTrip == pc = "done" => Reduced(Dump(result)) = <<result>>
=============================================================================
