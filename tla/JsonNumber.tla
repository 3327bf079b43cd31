----------------------------- MODULE JsonNumber -----------------------------
(***************************************************************************)
(* lexer::get_number: the value of a number token.  It gathers an unsigned *)
(* integer digit by digit and decides on the way whether the token is an   *)
(* unsigned integer, a signed one, or has to be read as a floating-point   *)
(* number by strtod.                                                       *)
(***************************************************************************)
EXTENDS JsonGrammar

CONSTANTS
    Literals,    \* number tokens
    Half         \* 2^63 in the code: the absolute value of INT64_MIN

VARIABLES
    token,     \* m_start to m_cursor
    curptr,    \* how many of its bytes have been passed
    value,     \* absolute value so far
    max,       \* largest absolute value of the integer type
    type,      \* value_t of the result so far
    pc,        \* "sign", "count", "save" or "done"
    result,    \* m_value of the result, of an integer
    exact      \* history: the integer that the digits passed stand for

vars == <<token, curptr, value, max, type, pc, result, exact>>

-----------------------------------------------------------------------------
Char == token[curptr + 1]

Sign ==
    /\ pc = "sign" /\ pc' = "count"
    /\ IF Char = 45
       THEN type' = "integer" /\ max' = Half /\ curptr' = 1
       ELSE type' = "unsigned" /\ max' = 2 * Half - 1 /\ curptr' = 0
    /\ UNCHANGED <<token, value, result, exact>>

\* mutation: value * 10 + digit > max, in the width of value
Overflows_Wrapped(digit) == (value * 10 + digit) % (2 * Half) > max

Overflows(digit) == value > (max - digit) \div 10

CountDigit ==
    /\ pc = "count" /\ curptr < Len(token) /\ Char \in Digit
    /\ LET digit == Char - 48
       IN  /\ exact' = IF type = "float" /\ 46 \in {token[i] : i \in 1 .. curptr} THEN exact ELSE exact * 10 + digit
           /\ IF type = "float" THEN UNCHANGED <<type, value>>
              ELSE IF Overflows(digit) THEN type' = "float" /\ UNCHANGED value
              ELSE value' = value * 10 + digit /\ UNCHANGED type
    /\ curptr' = curptr + 1
    /\ UNCHANGED <<token, max, pc, result>>

\* A radix point is passed over.
CountPoint ==
    /\ pc = "count" /\ curptr < Len(token) /\ Char = 46
    /\ type' = "float"
    /\ curptr' = curptr + 1
    /\ UNCHANGED <<token, value, max, pc, result, exact>>

\* mutation: an exponent ends the loop and no more
CountDone_KeepsType ==
    /\ pc = "count"
    /\ curptr < Len(token) => Char \notin Digit \cup {46}
    /\ pc' = "save"
    /\ UNCHANGED <<token, curptr, value, max, type, result, exact>>

\* The loop ends with the token, or with an exponent.
CountDone ==
    /\ pc = "count"
    /\ IF curptr = Len(token) THEN UNCHANGED type
       ELSE Char \notin Digit \cup {46} /\ type' = "float"
    /\ pc' = "save"
    /\ UNCHANGED <<token, curptr, value, max, result, exact>>

\* -INT64_MIN is no number_integer_t: it is not negated but set.
SaveInteger ==
    /\ pc = "save" /\ type = "integer"
    /\ result' = IF value = max THEN -Half ELSE -value
    /\ pc' = "done"
    /\ UNCHANGED <<token, curptr, value, max, type, exact>>

SaveUnsigned ==
    /\ pc = "save" /\ type = "unsigned"
    /\ result' = value
    /\ pc' = "done"
    /\ UNCHANGED <<token, curptr, value, max, type, exact>>

\* strtod is external; what it makes of a token may be infinite.
SaveFloat ==
    /\ pc = "save" /\ type = "float"
    /\ type' \in {"float", "null"}
    /\ pc' = "done"
    /\ UNCHANGED <<token, curptr, value, max, result, exact>>

Init ==
    /\ token \in Literals
    /\ curptr = 0 /\ value = 0 /\ max = 0 /\ result = 0 /\ exact = 0
    /\ type = "null" /\ pc = "sign"

Next == Sign \/ CountDigit \/ CountPoint \/ CountDone \/ SaveInteger \/ SaveUnsigned \/ SaveFloat

Spec == Init /\ [][Next]_vars

-----------------------------------------------------------------------------
(* Properties.                                                              *)

Negative == token[1] = 45
Plain == \A i \in 1 .. Len(token) : token[i] \in Digit \cup {45}

\* The position stays in the token, and what is saved is a number of the type
\* that it is saved as.
TypeOK ==
    /\ pc \in {"sign", "count", "save", "done"}
    /\ type \in {"null", "integer", "unsigned", "float"}
    /\ curptr \in 0 .. Len(token)
    /\ value \in Nat /\ max \in {0, Half, 2 * Half - 1} /\ exact \in Nat
    /\ result \in -Half .. 2 * Half - 1
    /\ pc = "done" /\ type = "integer" => result < Half

\* The value never leaves its 64 bits: "no overflow", and the "invariant"
\* that the comments of get_number claim ("the absolute value is between 0
\* (we allow -0) and max").
NoOverflow ==
    /\ value < 2 * Half
    /\ pc # "sign" => value <= max

\* An integer is returned exactly, whatever its size, and a whole number
\* that one of the types can hold is never made a floating-point number.
Exact ==
    pc = "done" =>
        IF type \in {"integer", "unsigned"}
        THEN Plain /\ result = (IF Negative THEN -exact ELSE exact)
        ELSE ~Plain \/ exact > (IF Negative THEN Half ELSE 2 * Half - 1)
=============================================================================
