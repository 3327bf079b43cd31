----------------------------- MODULE JsonAccess -----------------------------
(***************************************************************************)
(* How the program reads a JSON value: operator[] with a key, the range of *)
(* a for loop, and the conversions to C++ types (json.hpp), and how it     *)
(* turns strings into numbers (boost::lexical_cast).                       *)
(*                                                                         *)
(* A value is a record of one field, named for its type: obj, arr, str,    *)
(* num, bool or nul.  A reading has one of three ends: a value, an         *)
(* exception ("thrown"), or undefined behaviour ("undefined").             *)
(***************************************************************************)
EXTENDS Integers, SequencesExt

CONSTANTS
    Modulus,     \* 2^w for the unsigned types: a record with uint16, uint32, size_t
    Numerals,    \* the texts that are numbers: text |-> [value, whole]
    Json         \* the values that there are, and the values in them

\* a set of values with all that is in them
AreValues(values) ==
    \A j \in values :
        /\ \E type \in {"obj", "arr", "str", "num", "bool", "nul"} : DOMAIN j = {type}
        /\ "num" \in DOMAIN j => j.num \in Int
        /\ "bool" \in DOMAIN j => j.bool \in BOOLEAN
        /\ "arr" \in DOMAIN j => j.arr \in Seq(values)
        /\ "obj" \in DOMAIN j => IsFiniteSet(DOMAIN j.obj) /\ \A key \in DOMAIN j.obj : j.obj[key] \in values

ASSUME AccessAssumption ==
    /\ Modulus \in [{"uint16", "uint32", "size_t"} -> Nat \ {0, 1}]
    /\ \A text \in DOMAIN Numerals :
          Numerals[text].value \in Int /\ Numerals[text].whole \in BOOLEAN
    /\ AreValues(Json)

-----------------------------------------------------------------------------
Is(type, j) == type \in DOMAIN j

\* The range of a for loop: the elements of an array, the values of an object
\* in some order of the keys, nothing for null, and any other value itself.
Items(j) ==
    IF Is("arr", j) THEN j.arr
    ELSE IF Is("obj", j) THEN FoldSet(LAMBDA key, items : Append(items, j.obj[key]), << >>, DOMAIN j.obj)
    ELSE IF Is("nul", j) THEN << >>
    ELSE <<j>>

\* empty()
IsEmpty(j) == Items(j) = << >>

\* The end of the lookup that j[key] is.
Lookup(j, key) ==
    IF ~Is("obj", j) THEN "thrown"          \* only works for objects
    ELSE IF key \notin DOMAIN j.obj THEN "undefined"
    ELSE "ok"

\* static_cast to an unsigned type
Narrowed(type, n) == n % Modulus[type]

\* The values, one at most, that j is converted to: no value means that the
\* conversion throws.  A conversion to one of the library's own number types
\* takes numbers only; the others take a boolean for 0 or 1 as well.
Bit(b) == IF b THEN 1 ELSE 0
Arithmetic(j) ==
    IF Is("num", j) THEN {j.num} ELSE IF Is("bool", j) THEN {Bit(j.bool)} ELSE {}

Lexical(j) == IF Is("str", j) /\ j.str \in DOMAIN Numerals THEN {Numerals[j.str]} ELSE {}

Converted(as, j) ==
    CASE as = "double" -> IF Is("num", j) THEN {j.num} ELSE {}
      [] as = "size_t" -> IF Is("num", j) THEN {Narrowed(as, j.num)} ELSE {}
      [] as \in {"float", "int"} -> Arithmetic(j)
      [] as \in {"uint16", "uint32"} -> {Narrowed(as, n) : n \in Arithmetic(j)}
      [] as = "bool" -> IF Is("bool", j) THEN {j.bool} ELSE {}
      [] as = "string" -> IF Is("str", j) THEN {j.str} ELSE {}
      [] as = "lexical float" -> {n.value : n \in Lexical(j)}
      [] as = "lexical uint32" -> {Narrowed("uint32", n.value) : n \in {m \in Lexical(j) : m.whole}}

ConvertedTo(as, j) == CHOOSE value \in Converted(as, j) : TRUE

\* a loop that converts each element
AllConverted(as, j) == \A i \in DOMAIN Items(j) : Converted(as, Items(j)[i]) # {}
List(as, j) == [i \in DOMAIN Items(j) |-> ConvertedTo(as, Items(j)[i])]
=============================================================================
