---------------------------- MODULE JsonCompare ----------------------------
(***************************************************************************)
(* The comparison of JSON values: ==, < and what is made of them.  Numbers *)
(* of three types are converted to one another before they are compared:   *)
(* an unsigned number to a signed one of the same width, both to a double. *)
(***************************************************************************)
EXTENDS Integers, Sequences, FiniteSets

CONSTANTS
    Values,           \* the values that are compared
    HalfRange,        \* 2^63 in the code: unsigned numbers from it on are no signed ones
    Precision         \* 2^53 in the code: doubles are exact up to it

VARIABLE given     \* the values of a chain of comparisons

-----------------------------------------------------------------------------
Null == [type |-> "null"]
Boolean(b) == [type |-> "boolean", b |-> b]
String(s) == [type |-> "string", s |-> s]       \* a number for its place in the order
Integer(n) == [type |-> "number_integer", n |-> n]
Unsigned(n) == [type |-> "number_unsigned", n |-> n]
Float(n) == [type |-> "number_float", n |-> n]
NaN == [type |-> "number_float"]
Array(a) == [type |-> "array", a |-> a]
Object(o) == [type |-> "object", o |-> o]        \* pairs of a key and a value, in the order of the keys
Discarded == [type |-> "discarded"]

IsNaN(j) == j.type = "number_float" /\ DOMAIN j = {"type"}

\* null < boolean < number < object < array < string
Order(type) ==
    CHOOSE i \in 0 .. 5 :
        type \in <<{"null"}, {"boolean"}, {"number_integer", "number_unsigned", "number_float"},
                   {"object"}, {"array"}, {"string"}>>[i + 1]

\* operator<(const value_t, const value_t)
TypeLess(s, t) == s # "discarded" /\ t # "discarded" /\ Order(s) < Order(t)

\* static_cast<number_integer_t>
ToInteger(n) == IF n < HalfRange THEN n ELSE n - 2 * HalfRange

\* static_cast<number_float_t>: the nearest multiple of the unit in the last
\* place, the even one of two
ToFloat(n) ==
    LET abs == IF n < 0 THEN -n ELSE n
        unit == CHOOSE u \in {1, 2, 4, 8} : abs <= Precision * u /\ (u = 1 \/ abs > Precision * (u \div 2))
        below == n \div unit
        up == 2 * (n % unit) > unit \/ (2 * (n % unit) = unit /\ below % 2 = 1)
    IN  (IF up THEN below + 1 ELSE below) * unit

Types(x, y) == {x.type, y.type}

\* x and y as they are compared, when one of them is converted
Converted(x, types) ==
    IF "number_float" \in types /\ x.type # "number_float" THEN ToFloat(x.n)
    ELSE IF types = {"number_unsigned", "number_integer"} /\ x.type = "number_unsigned" THEN ToInteger(x.n)
    ELSE x.n

Numbers == {"number_integer", "number_unsigned", "number_float"}

RECURSIVE Equal(_, _), Less(_, _), AllLess(_, _)

\* operator==
Equal(x, y) ==
    CASE Types(x, y) \subseteq Numbers ->
            ~IsNaN(x) /\ ~IsNaN(y) /\ Converted(x, Types(x, y)) = Converted(y, Types(x, y))
      [] Types(x, y) = {"array"} ->
            Len(x.a) = Len(y.a) /\ \A i \in 1 .. Len(x.a) : Equal(x.a[i], y.a[i])
      [] Types(x, y) = {"object"} ->
            /\ Len(x.o) = Len(y.o)
            /\ \A i \in 1 .. Len(x.o) : x.o[i].key = y.o[i].key /\ Equal(x.o[i].value, y.o[i].value)
      [] OTHER -> x = y /\ x # Discarded

\* External: std::lexicographical_compare of vectors; std::pair compares its
\* second value only where neither of the first ones is less.
ElementLess(x, y) ==
    IF "key" \in DOMAIN x
    THEN x.key < y.key \/ (x.key = y.key /\ Less(x.value, y.value))
    ELSE Less(x, y)

AllLess(s, t) ==
    IF s = << >> \/ t = << >> THEN s = << >> /\ t # << >>
    ELSE \/ ElementLess(Head(s), Head(t))
         \/ ~ElementLess(Head(t), Head(s)) /\ AllLess(Tail(s), Tail(t))

\* mutation: only values of one type have an order
Less_SameType(x, y) ==
    CASE Types(x, y) \subseteq Numbers ->
            ~IsNaN(x) /\ ~IsNaN(y) /\ Converted(x, Types(x, y)) < Converted(y, Types(x, y))
      [] Types(x, y) = {"array"} -> AllLess(x.a, y.a)
      [] Types(x, y) = {"object"} -> AllLess(x.o, y.o)
      [] Types(x, y) = {"string"} -> x.s < y.s
      [] OTHER -> FALSE

\* mutation: an unsigned and a signed number are not converted
Less_NoMixed(x, y) ==
    CASE Types(x, y) \subseteq Numbers /\ Types(x, y) # {"number_unsigned", "number_integer"} ->
            ~IsNaN(x) /\ ~IsNaN(y) /\ Converted(x, Types(x, y)) < Converted(y, Types(x, y))
      [] Types(x, y) = {"array"} -> AllLess(x.a, y.a)
      [] Types(x, y) = {"object"} -> AllLess(x.o, y.o)
      [] Types(x, y) = {"string"} -> x.s < y.s
      [] Types(x, y) = {"boolean"} -> ~x.b /\ y.b
      [] OTHER -> TypeLess(x.type, y.type)

\* operator<
Less(x, y) ==
    CASE Types(x, y) \subseteq Numbers ->
            ~IsNaN(x) /\ ~IsNaN(y) /\ Converted(x, Types(x, y)) < Converted(y, Types(x, y))
      [] Types(x, y) = {"array"} -> AllLess(x.a, y.a)
      [] Types(x, y) = {"object"} -> AllLess(x.o, y.o)
      [] Types(x, y) = {"string"} -> x.s < y.s
      [] Types(x, y) = {"boolean"} -> ~x.b /\ y.b
      [] OTHER -> TypeLess(x.type, y.type)

\* operator<=, operator>, operator>=, operator!=
LessOrEqual(x, y) == ~Less(y, x)
Greater(x, y) == ~LessOrEqual(x, y)
\* mutation: the operands of <= and >= are exchanged
GreaterOrEqual_Swapped(x, y) == ~Less(y, x)

GreaterOrEqual(x, y) == ~Less(x, y)
NotEqual(x, y) == ~Equal(x, y)

-----------------------------------------------------------------------------
Init == given = << >>

Give == Len(given) < 3 /\ \E j \in Values : given' = Append(given, j)

Next == Give

Spec == Init /\ [][Next]_given

-----------------------------------------------------------------------------
(* Properties.                                                              *)

\* a NaN, or a value that was discarded, somewhere in j
RECURSIVE Incomparable(_)
Incomparable(j) ==
    \/ IsNaN(j) \/ j.type = "discarded"
    \/ j.type = "array" /\ \E i \in 1 .. Len(j.a) : Incomparable(j.a[i])
    \/ j.type = "object" /\ \E i \in 1 .. Len(j.o) : Incomparable(j.o[i].value)

\* every number in j is one in each of the types
RECURSIVE Everywhere(_)
Everywhere(j) ==
    /\ j.type \in Numbers => ~IsNaN(j) /\ j.n < HalfRange /\ ToFloat(j.n) = j.n
    /\ j.type = "array" => \A i \in 1 .. Len(j.a) : Everywhere(j.a[i])
    /\ j.type = "object" => \A i \in 1 .. Len(j.o) : Everywhere(j.o[i].value)

Pair == Len(given) = 2
x == given[1]
y == given[2]
z == given[3]

\* Of two values, nested or not, converted or not, exactly one of x < y,
\* x == y and y < x is true, unless a NaN or a discarded value is in them.
Trichotomy ==
    Pair /\ ~Incomparable(x) /\ ~Incomparable(y) =>
        Cardinality({r \in {"less", "equal", "greater"} :
            \/ r = "less" /\ Less(x, y)
            \/ r = "equal" /\ Equal(x, y)
            \/ r = "greater" /\ Less(y, x)}) = 1

\* <=, > and >= are what their names say, where there is an order.
Derived ==
    Pair /\ ~Incomparable(x) /\ ~Incomparable(y) =>
        /\ LessOrEqual(x, y) <=> (Less(x, y) \/ Equal(x, y))
        /\ GreaterOrEqual(x, y) <=> (Greater(x, y) \/ Equal(x, y))
        /\ NotEqual(x, y) <=> (Less(x, y) \/ Greater(x, y))

Transitive(rel(_, _)) == rel(x, y) /\ rel(y, z) => rel(x, z)

\* Values whose numbers all the types can hold are totally ordered, up to
\* equality.
OrderedInRange ==
    Len(given) = 3 /\ (\A i \in 1 .. 3 : Everywhere(given[i]) /\ ~Incomparable(given[i])) =>
        Transitive(Less) /\ Transitive(Equal)
=============================================================================
