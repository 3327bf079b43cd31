---------------------------- MODULE JsonFlatten ----------------------------
(***************************************************************************)
(* flatten(), which makes an object of pointers and primitive values of a  *)
(* document, and unflatten(), which makes a document of them one by one,   *)
(* in the order of the pointers' texts.                                    *)
(***************************************************************************)
EXTENDS JsonPointer

CONSTANTS
    Docs,      \* documents that are flattened
    Given      \* values that unflatten is called for that no document was flattened to

VARIABLES
    doc,       \* the document that was flattened; NoDoc if there is none
    value,     \* what unflatten is called for
    todo,      \* the keys of value that the loop has not come to
    result,
    pc         \* "loop", "returned", or the kind of an exception

vars == <<doc, value, todo, result, pc>>

-----------------------------------------------------------------------------
NoDoc == [none |-> 0]

IsPrimitive(j) == ~Is("arr", j) /\ ~Is("obj", j)

\* json_pointer::flatten, with its result as a set of pairs
RECURSIVE Entries(_, _)
Entries(path, j) ==
    IF Is("arr", j) /\ j.arr # << >> THEN
        UNION {Entries(path \o <<"/">> \o Decimal(i - 1), j.arr[i]) : i \in DOMAIN j.arr}
    ELSE IF Is("obj", j) /\ DOMAIN j.obj # {} THEN
        UNION {Entries(path \o <<"/">> \o Escape(key), j.obj[key]) : key \in DOMAIN j.obj}
    ELSE {<<path, IF IsPrimitive(j) THEN j ELSE Null>>}

Flatten(j) ==
    Obj([path \in {e[1] : e \in Entries(<< >>, j)} |-> (CHOOSE e \in Entries(<< >>, j) : e[1] = path)[2]])

Keys(j) == IF Is("obj", j) THEN DOMAIN j.obj ELSE {}

Init ==
    /\ \/ doc \in Docs /\ value = Flatten(doc)
       \/ doc = NoDoc /\ value \in Given
    /\ todo = Keys(value)
    /\ result = Null
    /\ pc = IF Is("obj", value) THEN "loop" ELSE "domain_error"

\* mutation: the order in which the keys are found is not that of std::map
Next_Greatest(keys) == CHOOSE s \in keys : \A t \in keys : ~TextLess(s, t)
NextKey(keys) == Least(keys)

\* The exception in the round of the loop for a key.
RoundError(key) ==
    IF ~IsPrimitive(value.obj[key]) THEN "domain_error"
    ELSE IF SplitError(key) # "none" THEN SplitError(key)
    ELSE Error("create", result, Split(key))

Round ==
    /\ pc = "loop" /\ todo # {} /\ RoundError(NextKey(todo)) = "none"
    /\ result' = Put("create", result, Split(NextKey(todo)), value.obj[NextKey(todo)])
    /\ todo' = todo \ {NextKey(todo)}
    /\ UNCHANGED <<doc, value, pc>>

Throw ==
    /\ pc = "loop" /\ todo # {} /\ RoundError(NextKey(todo)) # "none"
    /\ pc' = RoundError(NextKey(todo))
    /\ UNCHANGED <<doc, value, todo, result>>

Return ==
    /\ pc = "loop" /\ todo = {}
    /\ pc' = "returned"
    /\ UNCHANGED <<doc, value, todo, result>>

Next == Round \/ Throw \/ Return

Spec == Init /\ [][Next]_vars

-----------------------------------------------------------------------------
(* Properties.                                                              *)

\* The document that a flattened one stands for: empty containers are null.
RECURSIVE Emptied(_)
Emptied(j) ==
    IF j \in {Arr(<< >>), Obj(<< >>)} THEN Null
    ELSE IF Is("arr", j) THEN Arr([i \in DOMAIN j.arr |-> Emptied(j.arr[i])])
    ELSE IF Is("obj", j) THEN Obj([key \in DOMAIN j.obj |-> Emptied(j.obj[key])])
    ELSE j

\* An object of j has a key that the text of the first index is.
RECURSIVE HasZeroKey(_)
HasZeroKey(j) ==
    \/ Is("arr", j) /\ \E i \in DOMAIN j.arr : HasZeroKey(j.arr[i])
    \/ Is("obj", j) /\ \E key \in DOMAIN j.obj : key = <<"0">> \/ HasZeroKey(j.obj[key])

\* However deep a document is and whatever its keys are, the object "0"
\* excepted, unflatten puts together what flatten took apart: the first key of
\* every container that the loop comes to tells arrays from objects, and the
\* indices, which it does not come to in order ("/10" is before "/2"), leave
\* no gap in the end.
Restored ==
    doc # NoDoc /\ ~HasZeroKey(doc) => pc \in {"loop", "returned"} /\ (pc = "returned" => result = Emptied(doc))

\* the one text of an index, or a key
Canonical(key) ==
    /\ SplitError(key) = "none"
    /\ \A i \in DOMAIN Split(key) : ~LeadingZero(Split(key)[i]) /\ (IsNumber(Split(key)[i]) \/ StoIError(Split(key)[i]) # "none")

\* Whatever object it is called for, unflatten either throws or returns a
\* document that has every value of the object at its pointer: a later one
\* never overwrites an earlier one.
NothingOverwritten ==
    pc = "returned" /\ (\A key \in Keys(value) : Canonical(key)) =>
        \A key \in Keys(value) :
            value.obj[key] # Null =>
                /\ Error("at", result, Split(key)) = "none"
                /\ Reach("at", result, Split(key)) = value.obj[key]
=============================================================================
