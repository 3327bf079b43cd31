---------------------------- MODULE MCJsonValues ----------------------------
(***************************************************************************)
(* What json.hpp does with values: both binary formats, comparison,        *)
(* pointers and their text, flatten and unflatten, patch and diff.  The    *)
(* functions share no state, so a behaviour is a call of one of them,      *)
(* while the others rest at a call that has not begun or is over.          *)
(***************************************************************************)
EXTENDS JsonBinary

VARIABLES
    part,                                               \* which function is called
    compared,                                           \* JsonCompare
    text, tokens,                                       \* PointerText
    flatDoc, value, keys, nested, flatPc,               \* JsonFlatten
    copy, target, elements, applied, last, patchPc      \* JsonPatch

-----------------------------------------------------------------------------
(* JsonBinary: values at every boundary of the two formats, and short       *)
(* vectors with first bytes of every kind.                                  *)

\* numbers around the ends of the ranges: the lowest bytes, and the byte that
\* fills the places above them
Low(bytes, fill) == [i \in 1 .. 8 - Len(bytes) |-> fill] \o bytes
Lows ==
    {<<0>>, <<23>>, <<24>>, <<31>>, <<127>>, <<128>>, <<224>>, <<223>>, <<231>>, <<232>>, <<255>>,
     <<1, 0>>, <<127, 255>>, <<128, 0>>, <<255, 0>>, <<255, 127>>, <<255, 128>>, <<255, 255>>,
     <<1, 0, 0>>, <<127, 255, 255, 255>>, <<128, 0, 0, 0>>, <<255, 255, 127, 255>>,
     <<255, 255, 255, 255>>, <<1, 0, 0, 0, 0>>, <<254, 255, 255, 255, 255>>,
     <<127, 255, 255, 255, 255, 255, 255, 255>>, <<128, 0, 0, 0, 0, 0, 0, 0>>}
Numbers ==
    {UnsignedNumber(Low(n, fill)) : n \in Lows, fill \in {0, 255}}
        \cup {Integer(Low(n, fill)) : n \in Lows, fill \in {0, 255}}

\* by the bytes of a double, the same number in two and in four bytes
MCNarrow ==
    <<0, 0, 0, 0, 0, 0, 0, 0>> :> {<<249, 0, 0>>, <<250, 0, 0, 0, 0>>, <<202, 0, 0, 0, 0>>} @@
    <<128, 0, 0, 0, 0, 0, 0, 0>> :> {<<249, 128, 0>>, <<250, 128, 0, 0, 0>>, <<202, 128, 0, 0, 0>>} @@
    <<63, 240, 0, 0, 0, 0, 0, 0>> :> {<<249, 60, 0>>, <<250, 63, 128, 0, 0>>, <<202, 63, 128, 0, 0>>} @@
    <<63, 248, 0, 0, 0, 0, 0, 0>> :> {<<249, 62, 0>>, <<250, 63, 192, 0, 0>>, <<202, 63, 192, 0, 0>>} @@
    <<64, 239, 252, 0, 0, 0, 0, 0>> :> {<<249, 123, 255>>, <<250, 71, 127, 224, 0>>, <<202, 71, 127, 224, 0>>} @@
    <<62, 112, 0, 0, 0, 0, 0, 0>> :> {<<249, 0, 1>>, <<250, 51, 128, 0, 0>>, <<202, 51, 128, 0, 0>>} @@
    <<63, 16, 0, 0, 0, 0, 0, 0>> :> {<<249, 4, 0>>, <<250, 56, 128, 0, 0>>, <<202, 56, 128, 0, 0>>} @@
    <<192, 16, 0, 0, 0, 0, 0, 0>> :> {<<249, 196, 0>>, <<250, 192, 128, 0, 0>>, <<202, 192, 128, 0, 0>>} @@
    <<127, 240, 0, 0, 0, 0, 0, 0>> :> {<<249, 124, 0>>, <<250, 127, 128, 0, 0>>, <<202, 127, 128, 0, 0>>} @@
    <<255, 240, 0, 0, 0, 0, 0, 0>> :> {<<249, 252, 0>>, <<250, 255, 128, 0, 0>>, <<202, 255, 128, 0, 0>>} @@
    <<63, 15, 248, 0, 0, 0, 0, 0>> :> {<<249, 3, 255>>, <<250, 56, 127, 192, 0>>, <<202, 56, 127, 192, 0>>} @@
    <<64, 248, 106, 0, 0, 0, 0, 0>> :> {<<250, 71, 195, 80, 0>>, <<202, 71, 195, 80, 0>>} @@
    <<71, 239, 255, 255, 224, 0, 0, 0>> :> {<<250, 127, 127, 255, 255>>, <<202, 127, 127, 255, 255>>} @@
    <<54, 160, 0, 0, 0, 0, 0, 0>> :> {<<250, 0, 0, 0, 1>>, <<202, 0, 0, 0, 1>>} @@
    <<56, 16, 0, 0, 0, 0, 0, 0>> :> {<<250, 0, 128, 0, 0>>, <<202, 0, 128, 0, 0>>} @@
    <<184, 0, 0, 0, 64, 0, 0, 0>> :> {<<250, 128, 64, 0, 1>>, <<202, 128, 64, 0, 1>>} @@
    <<63, 185, 153, 153, 160, 0, 0, 0>> :> {<<250, 61, 204, 204, 205>>, <<202, 61, 204, 204, 205>>}

Floats == {Float(b) : b \in DOMAIN MCNarrow \cup {<<63, 241, 153, 153, 153, 153, 153, 154>>}}

Letters(n) == String([i \in 1 .. n |-> 97])
Lengths == {0, 1, 2, 15, 16, 23, 24, 31, 32}
List(n) == Array([i \in 1 .. n |-> Boolean(TRUE)])
Map(n) == Object([k \in {<<97 + i \div 10, 48 + (i % 10)>> : i \in 0 .. n - 1} |-> Null])
One == UnsignedNumber(Number(1))
Nested ==
    {Array(<<Null, Letters(1), List(2), Integer(Number(300))>>),
     Object(<<97>> :> List(1) @@ <<97, 98>> :> Map(1) @@ << >> :> Letters(2)),
     Array(<<Array(<<Array(<<One>>), One>>), Object(<<255>> :> One @@ <<98>> :> Integer(Complement(Number(0))))>>)}

MCDocs ==
    {Null, Boolean(TRUE), Boolean(FALSE)} \cup Numbers \cup Floats \cup Nested
        \cup {Letters(n) : n \in Lengths \cup {255, 256, 65535, 65536}} \cup {List(n) : n \in Lengths}
        \cup {Map(n) : n \in {0, 1, 2, 15, 16, 23, 24}}

\* a short vector may end anywhere, a long one near its ends
MCCuts(len) == {n \in 0 .. 20 : n < len} \cup {n \in len - 3 .. len - 1 : n >= 0}

\* first bytes of every kind in either format
Firsts == {0, 24, 32, 56, 97, 120, 127, 129, 146, 152, 159, 161, 184, 191, 192, 193, 204, 217, 220, 246, 249, 255}
MCVectors ==
    UNION {[1 .. n -> Firsts] : n \in 0 .. 2}
        \cup {<<a, b, c>> : a \in Firsts, b \in {1, 97, 127, 159, 161, 191}, c \in {0, 97, 246, 255}}
        \cup {<<59, 127>> \o Zeros(7), <<59, 128>> \o Zeros(7), <<161, 97, 97, 129, 246>>, <<161, 1, 246>>,
              <<163, 97, 97, 1, 97, 98, 2, 97, 97, 3>>}

-----------------------------------------------------------------------------
(* JsonCompare: with HalfRange = 8 and Precision = 4 the numbers are on both     *)
(* sides of every conversion that loses something.                          *)

I(n) == [type |-> "number_integer", n |-> n]
U(n) == [type |-> "number_unsigned", n |-> n]
F(n) == [type |-> "number_float", n |-> n]
Bool(b) == [type |-> "boolean", b |-> b]
Str(s) == [type |-> "string", s |-> s]
List1(a) == [type |-> "array", a |-> a]
Record(o) == [type |-> "object", o |-> o]
Of(key, j) == [key |-> key, value |-> j]
NotANumber == [type |-> "number_float"]

MCValues ==
    {Null, Bool(FALSE), Bool(TRUE), Str(1), Str(2), NotANumber, [type |-> "discarded"]}
        \cup {I(n) : n \in {-8, -5, -1, 0, 4, 5, 7}} \cup {U(n) : n \in {0, 4, 5, 8, 11, 15}}
        \cup {F(n) : n \in {-8, -4, 0, 4, 6, 8, 16}}
        \cup {List1(a) : a \in {<< >>, <<I(-1)>>, <<U(15)>>, <<Null, I(5)>>, <<Null, F(4)>>, <<Null, NotANumber>>}}
        \cup {Record(o) : o \in {<< >>, <<Of(1, Null)>>, <<Of(1, I(4))>>, <<Of(1, U(4))>>, <<Of(2, Null)>>,
                                 <<Of(1, F(4)), Of(2, Bool(TRUE))>>}}

-----------------------------------------------------------------------------
(* PointerText: both characters that are escaped, both that they are        *)
(* escaped with, a sign, and one of no meaning.                             *)

MCSigns == <<"-", "/", "0", "1", "a", "~">>

-----------------------------------------------------------------------------
(* JsonFlatten: keys that are escaped, that are indices, and that begin     *)
(* like one; an array whose indices have one digit and two; empty           *)
(* containers at every depth.                                               *)

MCOrder == <<"-", "/", "0", "1", "2", "3", "4", "5", "6", "7", "8", "9", "a", "b", "~">>
P == INSTANCE JsonPointer WITH Order <- MCOrder, MaxInt <- 99

Num(n) == [num |-> n]
Flt(n) == [flt |-> n]
None == P!Null
Names == {<<"a">>, <<"~", "1">>, <<"/">>, <<"0">>, <<"1">>, <<"1", "0">>, <<"-">>, << >>}
Small == {None, Num(1), P!Arr(<< >>), P!Obj(<< >>)}
Alone(values) == {P!Arr(<<x>>) : x \in values} \cup {P!Obj(k :> x) : k \in Names, x \in values}
Both(x, values) ==
    {P!Arr(<<x, w>>) : w \in values} \cup {P!Obj(k :> x @@ l :> w) : k, l \in Names, w \in values}
Shallow == Small \cup Alone(Small) \cup Both(Num(2), Small)
Twelve == P!Arr([i \in 1 .. 12 |-> IF i % 5 = 3 THEN P!Obj(<<"1">> :> Num(i)) ELSE Num(i)])

MCFlatDocs == Shallow \cup Alone(Shallow) \cup Both(Num(3), Shallow) \cup {Twelve, P!Obj(<<"0", "1">> :> Twelve)}

Texts == {<< >>, <<"a">>, <<"/">>, <<"/", "0">>, <<"/", "1">>, <<"/", "0", "1">>, <<"/", "1", "0">>, <<"/", "2">>, <<"/", "-">>,
          <<"/", "-", "1">>, <<"/", "~", "2">>, <<"/", "a">>, <<"/", "a", "/", "0">>, <<"/", "a", "/", "1">>, <<"/", "0", "/", "a">>,
          <<"/", "0", "/", "1">>, <<"/", "~", "1">>}

MCGiven ==
    {Num(1), P!Arr(<<Num(1)>>), P!Obj(<<"/", "a">> :> P!Arr(<< >>))}
        \cup {P!Obj([t \in {p, q, r} |-> IF t = p THEN x ELSE IF t = q THEN Num(2) ELSE Num(3)]) : p, q, r \in Texts, x \in {Num(1), None}}

-----------------------------------------------------------------------------
(* JsonPatch: nested containers with keys that are escaped or look like     *)
(* indices, numbers of two types that are equal, and elements of every      *)
(* operation, complete and not.                                             *)

Key == <<"a">>
Tilde == <<"~", "1">>
Slash == <<"/">>
Zero == <<"0">>

Primitives == {None, Num(1), Flt(1), Num(2)}
Flat ==
    Primitives \cup {P!Arr(<< >>), P!Obj(<< >>)}
        \cup {P!Arr(<<x>>) : x \in Primitives} \cup {P!Arr(<<x, y>>) : x \in {Num(1), Flt(1), None}, y \in {Num(1), Num(2)}}
        \cup {P!Arr(<<Num(2), Num(1), Num(1)>>), P!Arr(<<Num(1), Num(2), Num(3)>>)}
        \cup {P!Obj(k :> x) : k \in {Key, Tilde, Slash, Zero}, x \in {Num(1), Num(2), None}}
Deep ==
    {P!Obj(Key :> x @@ k :> Num(1)) : k \in {Tilde, Slash, Zero, << >>}, x \in {Num(1), P!Arr(<<Num(1), Num(2)>>)}}
        \cup {P!Arr(<<x, y>>) : x \in {P!Arr(<<Num(1)>>), P!Obj(Slash :> Num(1))}, y \in {P!Arr(<<Num(2), Num(3)>>), P!Obj(Tilde :> None)}}
        \cup {P!Obj(Slash :> P!Obj(Tilde :> x)) : x \in {Num(1), P!Arr(<<Num(1), Num(2), Num(3)>>), P!Obj(<< >>)}}
        \cup {P!Arr([i \in 1 .. 12 |-> Num(i)]), P!Arr([i \in 1 .. 10 |-> Num(i % 3)])}

MCPairs == Flat \X Flat \cup Deep \X Deep \cup Flat \X Deep \cup Deep \X Flat

MCPatchDocs ==
    {Num(1), P!Arr(<<Num(1), Num(2)>>), P!Arr(<<P!Arr(<<Num(1)>>), P!Arr(<<Num(2), Num(3)>>)>>),
     P!Obj(Key :> P!Arr(<<Num(1), Num(2), Num(3)>>) @@ Slash :> P!Obj(Key :> Num(4))),
     P!Obj(Key :> P!Obj(Key :> Num(1) @@ Zero :> Num(2)) @@ Zero :> P!Arr(<<Num(5), P!Obj(Key :> None)>>))}

Paths ==
    {<< >>, <<"/", "a">>, <<"/", "0">>, <<"/", "1">>, <<"/", "-">>, <<"/", "~", "1">>, <<"/", "a", "/", "a">>, <<"/", "a", "/", "0">>,
     <<"/", "a", "/", "2">>, <<"/", "0", "/", "a">>, <<"/", "0", "/", "1", "/", "a">>, <<"/", "a", "/", "b", "/", "0">>,
     <<"/", "~", "1", "/", "a">>, <<"/", "0", "1">>, <<"a">>}

Froms == Paths \ {<<"/", "-">>, <<"/", "~", "1">>, <<"/", "a", "/", "2">>, <<"/", "a", "/", "b", "/", "0">>}

Written(s) == [str |-> s]
Operation(op, path) == [obj |-> [op |-> Written(op), path |-> Written(path)]]
WithValue(op, path, j) == [obj |-> [op |-> Written(op), path |-> Written(path), value |-> [val |-> j]]]
WithFrom(op, path, from) == [obj |-> [op |-> Written(op), path |-> Written(path), from |-> Written(from)]]

MCElements ==
    {WithValue(op, path, Num(1)) : op \in {"replace", "test"}, path \in Paths}
        \cup {WithValue("add", path, P!Arr(<<Num(7)>>)) : path \in Paths}
        \cup {Operation(op, path) : op \in {"remove", "add", "replace", "test", "move", "copy"}, path \in Paths}
        \cup {WithFrom(op, path, from) : op \in {"move", "copy"}, path \in Paths, from \in Froms}
        \cup {Operation("swap", << >>), [obj |-> [op |-> Written("remove")]],
              [obj |-> [op |-> [val |-> None], path |-> Written(<< >>)]], [val |-> Num(1)]}

-----------------------------------------------------------------------------

Comparison == INSTANCE JsonCompare WITH
    Values <- MCValues, HalfRange <- 8, Precision <- 4, given <- compared
Pointers == INSTANCE PointerText WITH Order <- MCSigns, MaxInt <- 9, MaxLength <- 6
Flattening == INSTANCE JsonFlatten WITH
    Order <- MCOrder, MaxInt <- 99, Docs <- MCFlatDocs, Given <- MCGiven,
    doc <- flatDoc, todo <- keys, result <- nested, pc <- flatPc
Patching == INSTANCE JsonPatch WITH
    Order <- MCOrder, MaxInt <- 99, Docs <- MCPatchDocs, DocPairs <- MCPairs,
    Elements <- MCElements, MaxElements <- 2,
    result <- copy, todo <- elements, given <- applied, pc <- patchPc

pointerVars == <<text, tokens>>
flatVars    == <<flatDoc, value, keys, nested, flatPc>>
patchVars   == <<copy, target, elements, applied, last, patchPc>>
valuesVars  == <<part, vars, compared, pointerVars, flatVars, patchVars>>

\* a document that is not written yet, nothing to compare, the empty text and
\* pointer, the empty object, and the empty patch
BinaryRests   == format = "cbor" /\ doc = Null /\ v = << >> /\ origin = "writer" /\ pc = "write" /\ answer = Returns(Null, 0)
ComparedRests == compared = << >>
PointersRest  == text = << >> /\ tokens = << >>
FlatRests     == flatDoc = P!Obj(<< >>) /\ value = None /\ keys = {} /\ nested = None /\ flatPc = "returned"
PatchRests    == copy = None /\ target = Patching!NoDoc /\ elements = << >> /\ applied = 0 /\ last = Patching!NoDoc /\ patchPc = "returned"

ValuesInit ==
    \/ part = "binary" /\ Init /\ ComparedRests /\ PointersRest /\ FlatRests /\ PatchRests
    \/ part = "compare" /\ Comparison!Init /\ BinaryRests /\ PointersRest /\ FlatRests /\ PatchRests
    \/ part = "pointer" /\ Pointers!Init /\ BinaryRests /\ ComparedRests /\ FlatRests /\ PatchRests
    \/ part = "flatten" /\ Flattening!Init /\ BinaryRests /\ ComparedRests /\ PointersRest /\ PatchRests
    \/ part = "patch" /\ Patching!Init /\ BinaryRests /\ ComparedRests /\ PointersRest /\ FlatRests

ValuesNext ==
    \/ part = "binary" /\ Next /\ UNCHANGED <<part, compared, pointerVars, flatVars, patchVars>>
    \/ part = "compare" /\ Comparison!Next /\ UNCHANGED <<part, vars, pointerVars, flatVars, patchVars>>
    \/ part = "pointer" /\ Pointers!Next /\ UNCHANGED <<part, vars, compared, flatVars, patchVars>>
    \/ part = "flatten" /\ Flattening!Next /\ UNCHANGED <<part, vars, compared, pointerVars, patchVars>>
    \/ part = "patch" /\ Patching!Next /\ UNCHANGED <<part, vars, compared, pointerVars, flatVars>>

ValuesSpec == ValuesInit /\ [][ValuesNext]_valuesVars

-----------------------------------------------------------------------------
(* The properties of the instances, which say in their modules what they    *)
(* are about; those of the binary formats are JsonBinary's.                 *)

\* Comparison is an order where it can be one: of two values without a NaN one
\* of <, == and > holds, whatever the types of their numbers, the other three
\* operators agree with them, and where every type can hold the numbers, the
\* order is total.
OrderSound == Comparison!Trichotomy /\ Comparison!Derived /\ Comparison!OrderedInRange

\* A pointer and its text are the same thing either way; unflatten restores what
\* flatten took apart, and loses no value of whatever object it is called for.
PointersRestore ==
    /\ Pointers!PointerKept /\ Pointers!TextKept
    /\ Flattening!Restored /\ Flattening!NothingOverwritten

\* A patch does what it says: one that diff made of two documents leads from one
\* to the other; an operation changes what it names and nothing else, what it
\* puts at a path is found there, and a move loses and doubles nothing.
PatchesFit ==
    /\ []Patching!DiffPatches
    /\ Patching!ElsewhereKept
    /\ Patching!FoundThere
    /\ Patching!MoveConserves
=============================================================================
