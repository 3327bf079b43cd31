----------------------------- MODULE JsonPatch -----------------------------
(***************************************************************************)
(* patch(), which applies the operations of a JSON patch to a copy of a    *)
(* document, and diff(), which makes a patch of two documents.             *)
(*                                                                         *)
(* An element of a patch that is an object is [obj |-> members], with its  *)
(* members under their names; a value is under [val |-> j] whatever its    *)
(* type, a string under [str |-> s].                                       *)
(***************************************************************************)
EXTENDS JsonPointer

CONSTANTS
    Docs,        \* documents that patch is called for
    DocPairs,       \* pairs of documents that diff is called for
    Elements,    \* elements of the patches that a caller writes
    MaxElements  \* bound: elements of such a patch

VARIABLES
    result,      \* the working copy
    target,      \* the document diff was given; NoDoc for a caller's patch
    todo,        \* the elements that diff has made and the loop has not come to
    given,       \* how many elements of a caller's patch the loop has come to
    last,        \* history: the last element that was applied
    pc           \* "loop", "returned", or the kind of an exception

vars == <<result, target, todo, given, last, pc>>

-----------------------------------------------------------------------------
(* diff                                                                      *)

Text(s) == [str |-> s]
Value(j) == [val |-> j]
Element(op, path) == [obj |-> [op |-> Text(op), path |-> Text(path)]]
ElementWith(op, path, j) == [obj |-> [op |-> Text(op), path |-> Text(path), value |-> Value(j)]]

AtIndex(path, i) == path \o <<"/">> \o Decimal(i)
AtKey(path, key) == path \o <<"/">> \o Escape(key)

\* mutation: the elements are removed from the first one on
Removals_Forward(path, from, to) ==
    [i \in 1 .. to - from |-> Element("remove", AtIndex(path, from + i - 1))]

\* each one is inserted before those that were made
Removals(path, from, to) == [i \in 1 .. to - from |-> Element("remove", AtIndex(path, to - i))]

Additions(path, from, target_array) ==
    [i \in 1 .. Len(target_array) - from |->
        ElementWith("add", AtIndex(path, from + i - 1), target_array[from + i])]

RECURSIVE Diff(_, _, _), DiffArray(_, _, _), DiffObject(_, _, _)

Diff(s, t, path) ==
    IF Equal(s, t) THEN << >>
    ELSE IF Is("arr", s) /\ Is("arr", t) THEN DiffArray(s.arr, t.arr, path)
    ELSE IF Is("obj", s) /\ Is("obj", t) THEN DiffObject(s.obj, t.obj, path)
    ELSE <<ElementWith("replace", path, t)>>

DiffArray(s, t, path) ==
    LET common == Min({Len(s), Len(t)})
    IN  FoldLeft(LAMBDA d, i : d \o Diff(s[i], t[i], AtIndex(path, i - 1)), << >>, [i \in 1 .. common |-> i])
            \o Removals(path, common, Len(s))
            \o Additions(path, common, t)

DiffObject(s, t, path) ==
    LET OfKey(key) == IF key \in DOMAIN t THEN Diff(s[key], t[key], AtKey(path, key))
                      ELSE <<Element("remove", AtKey(path, key))>>
        added == InOrder(DOMAIN t \ DOMAIN s)
    IN  FoldLeft(LAMBDA d, key : d \o OfKey(key), << >>, InOrder(DOMAIN s))
            \o [i \in DOMAIN added |-> ElementWith("add", AtKey(path, added[i]), t[added[i]])]

-----------------------------------------------------------------------------
(* The operations: each ends with a document or an exception.               *)

Done(j) == [doc |-> j, error |-> "none"]
Thrown(kind) == [error |-> kind]

\* mutation: an element is put in place of the one at its index
Inserted_Replaces(parent, token, j) ==
    IF Is("nul", parent) THEN Done(WithMember(Obj(<< >>), token, j))
    ELSE IF Is("obj", parent) THEN Done(WithMember(parent, token, j))
    ELSE IF ~Is("arr", parent) THEN Done(parent)
    ELSE IF token = PastTheEnd THEN Done(Arr(Append(parent.arr, j)))
    ELSE IF StoIError(token) # "none" THEN Thrown(StoIError(token))
    ELSE IF StoI(token) \notin 0 .. Len(parent.arr) THEN Thrown("out_of_range")
    ELSE Done(WithElement(parent, StoI(token), j))

\* operation_add, for the parent of what is added.  With assertions off
\* nothing is done for a primitive one.
Inserted(parent, token, j) ==
    IF Is("nul", parent) THEN Done(WithMember(Obj(<< >>), token, j))
    ELSE IF Is("obj", parent) THEN Done(WithMember(parent, token, j))
    ELSE IF ~Is("arr", parent) THEN Done(parent)
    ELSE IF token = PastTheEnd THEN Done(Arr(Append(parent.arr, j)))
    ELSE IF StoIError(token) # "none" THEN Thrown(StoIError(token))
    ELSE IF StoI(token) \notin 0 .. Len(parent.arr) THEN Thrown("out_of_range")
    ELSE Done(Arr(InsertAt(parent.arr, StoI(token) + 1, j)))

\* operation_remove, for the parent of what is removed
Erased(parent, token) ==
    IF Is("obj", parent) THEN
        IF token \notin DOMAIN parent.obj THEN Thrown("out_of_range")
        ELSE Done(Obj([key \in DOMAIN parent.obj \ {token} |-> parent.obj[key]]))
    ELSE IF ~Is("arr", parent) THEN Done(parent)
    ELSE IF StoIError(token) # "none" THEN Thrown(StoIError(token))
    ELSE IF StoI(token) \notin 0 .. Len(parent.arr) - 1 THEN Thrown("out_of_range")
    ELSE Done(Arr(RemoveAt(parent.arr, StoI(token) + 1)))

\* The document in which new is the parent that ptr refers to.
WithParent(mode, j, ptr, new) ==
    IF new.error # "none" THEN new ELSE Done(Put(mode, j, ptr, new.doc))

OpAdd(j, ptr, v) ==
    IF ptr = << >> THEN Done(v)
    ELSE IF Len(ptr) > 1 /\ Error("at", j, <<Head(ptr)>>) # "none" THEN Thrown(Error("at", j, <<Head(ptr)>>))
    ELSE IF Error("[]", j, Front(ptr)) # "none" THEN Thrown(Error("[]", j, Front(ptr)))
    ELSE WithParent("[]", j, Front(ptr), Inserted(Reach("[]", j, Front(ptr)), Last(ptr), v))

OpRemove(j, ptr) ==
    IF ptr = << >> THEN Thrown("domain_error")
    ELSE IF Error("at", j, Front(ptr)) # "none" THEN Thrown(Error("at", j, Front(ptr)))
    ELSE WithParent("at", j, Front(ptr), Erased(Reach("at", j, Front(ptr)), Last(ptr)))

OpReplace(j, ptr, v) ==
    IF Error("at", j, ptr) # "none" THEN Thrown(Error("at", j, ptr)) ELSE Done(Put("at", j, ptr, v))

\* mutation: what is moved is referred to, and not copied before it is removed
OpMove_Stale(j, from, ptr) ==
    IF Error("at", j, from) # "none" THEN Thrown(Error("at", j, from))
    ELSE LET removed == OpRemove(j, from)
         IN  IF removed.error # "none" THEN removed
             ELSE IF Error("at", removed.doc, from) # "none" THEN OpAdd(removed.doc, ptr, Null)
             ELSE OpAdd(removed.doc, ptr, Reach("at", removed.doc, from))

OpMove(j, from, ptr) ==
    IF Error("at", j, from) # "none" THEN Thrown(Error("at", j, from))
    ELSE LET removed == OpRemove(j, from)
         IN  IF removed.error # "none" THEN removed
             ELSE OpAdd(removed.doc, ptr, Reach("at", j, from))

\* The two sides of the assignment are evaluated in either order: what
\* operator[] creates is there to be copied, or not.
OpCopy(j, from, ptr) ==
    LET created == Put("[]", j, ptr, Reach("[]", j, ptr))
        Assigned(source) ==
            IF Error("at", source, from) # "none" THEN Thrown(Error("at", source, from))
            ELSE Done(Put("[]", j, ptr, Reach("at", source, from)))
    IN  IF Error("[]", j, ptr) # "none"
        THEN {Thrown(kind) : kind \in {Error("[]", j, ptr), Error("at", j, from)} \ {"none"}}
        ELSE {Assigned(j), Assigned(created)}

\* An exception that the pointer does not resolve makes the test fail.
OpTest(j, ptr, v) ==
    LET error == Error("at", j, ptr)
    IN  IF error \notin {"none", "out_of_range"} THEN Thrown(error)
        ELSE IF error = "none" /\ Equal(Reach("at", j, ptr), v) THEN Done(j)
        ELSE Thrown("domain_error")

-----------------------------------------------------------------------------
(* The loop of patch.                                                       *)

NoDoc == [none |-> 0]

Init ==
    /\ \/ \E pair \in DocPairs :
            result = pair[1] /\ target = pair[2] /\ todo = Diff(pair[1], pair[2], << >>)
       \/ result \in Docs /\ target = NoDoc /\ todo = << >>
    /\ given = 0
    /\ last = NoDoc
    /\ pc = "loop" \/ (target = NoDoc /\ pc = "invalid_argument")     \* a patch that is no array

\* The element that the loop comes to next.
Coming ==
    IF pc # "loop" THEN {}
    ELSE IF todo # << >> THEN {Head(todo)}
    ELSE IF target = NoDoc /\ given < MaxElements THEN Elements ELSE {}

Missing(e, member) == member \notin DOMAIN e.obj
MissingString(e, member) == Missing(e, member) \/ ~Is("str", e.obj[member])

Op(e) == e.obj["op"].str
Path(e) == Split(e.obj["path"].str)
From(e) == Split(e.obj["from"].str)
ValueOf(e) == e.obj["value"].val

\* The exception before the operation is looked at.
ElementError(e) ==
    IF ~Is("obj", e) THEN "invalid_argument"
    ELSE IF MissingString(e, "op") \/ MissingString(e, "path") THEN "invalid_argument"
    ELSE SplitError(e.obj["path"].str)

FromError(e) == IF MissingString(e, "from") THEN "invalid_argument" ELSE SplitError(e.obj["from"].str)

\* The element e ends in one of the outcomes.
Applied(e, outcomes) ==
    /\ \E outcome \in outcomes :
          IF outcome.error = "none"
          THEN result' = outcome.doc /\ pc' = pc
          ELSE pc' = outcome.error /\ UNCHANGED result
    /\ todo' = IF todo = << >> THEN todo ELSE Tail(todo)
    /\ given' = IF target = NoDoc THEN given + 1 ELSE given
    /\ last' = e
    /\ UNCHANGED target

IsOperation(e, op) == ElementError(e) = "none" /\ Op(e) = op

Malformed == \E e \in Coming : ElementError(e) # "none" /\ Applied(e, {Thrown(ElementError(e))})

Add ==
    \E e \in Coming :
        /\ IsOperation(e, "add")
        /\ Applied(e, {IF Missing(e, "value") THEN Thrown("invalid_argument") ELSE OpAdd(result, Path(e), ValueOf(e))})

RemoveAtPath == \E e \in Coming : IsOperation(e, "remove") /\ Applied(e, {OpRemove(result, Path(e))})

\* In replace and test the value and the place are looked for in either order.
Replace ==
    \E e \in Coming :
        /\ IsOperation(e, "replace")
        /\ Applied(e, IF Missing(e, "value")
                      THEN {Thrown(kind) : kind \in {"invalid_argument", Error("at", result, Path(e))} \ {"none"}}
                      ELSE {OpReplace(result, Path(e), ValueOf(e))})

Move ==
    \E e \in Coming :
        /\ IsOperation(e, "move")
        /\ Applied(e, {IF FromError(e) # "none" THEN Thrown(FromError(e)) ELSE OpMove(result, From(e), Path(e))})

Copy ==
    \E e \in Coming :
        /\ IsOperation(e, "copy")
        /\ Applied(e, IF FromError(e) # "none" THEN {Thrown(FromError(e))} ELSE OpCopy(result, From(e), Path(e)))

Test ==
    \E e \in Coming :
        /\ IsOperation(e, "test")
        /\ Applied(e, IF Missing(e, "value")
                      THEN {Thrown("invalid_argument")}
                              \cup (IF Error("at", result, Path(e)) = "none" THEN {} ELSE {OpTest(result, Path(e), Null)})
                      ELSE {OpTest(result, Path(e), ValueOf(e))})

Operations == {"add", "remove", "replace", "move", "copy", "test"}

Invalid ==
    \E e \in Coming :
        /\ ElementError(e) = "none" /\ Op(e) \notin Operations
        /\ Applied(e, {Thrown("invalid_argument")})

Return ==
    /\ pc = "loop" /\ todo = << >>
    /\ pc' = "returned"
    /\ UNCHANGED <<result, target, todo, given, last>>

Next ==
    \/ Malformed \/ Add \/ RemoveAtPath \/ Replace \/ Move \/ Copy \/ Test \/ Invalid
    \/ Return

Spec == Init /\ [][Next]_vars

-----------------------------------------------------------------------------
(* Properties.                                                              *)

\* "The following code yields always true: source.patch(diff(source, target))
\* == target": the elements diff makes are right for the document that those
\* before them leave, and none of them throws.
DiffPatches ==
    target # NoDoc => pc \in {"loop", "returned"} /\ (pc = "returned" => Equal(result, target))

RECURSIVE Places(_)
Places(j) ==
    {<< >>}
        \cup (IF Is("arr", j) THEN UNION {{<<Decimal(i - 1)>> \o p : p \in Places(j.arr[i])} : i \in DOMAIN j.arr} ELSE {})
        \cup (IF Is("obj", j) THEN UNION {{<<key>> \o p : p \in Places(j.obj[key])} : key \in DOMAIN j.obj} ELSE {})

At(j, ptr) == Reach("at", j, ptr)
IsThere(j, ptr) == Error("at", j, ptr) = "none"

\* An array is touched as a whole, because its indices may move.
Touched(j, ptr) ==
    IF ptr # << >> /\ IsThere(j, Front(ptr)) /\ Is("arr", At(j, Front(ptr))) THEN Front(ptr) ELSE ptr
Pointers(e) == {Path(e)} \cup (IF Op(e) = "move" THEN {From(e)} ELSE {})

\* No operation changes a value that is neither at its pointers nor around
\* them, whatever it has to create on the way and wherever indices move.
ElsewhereKept ==
    [][pc' = "loop" =>
        \A p \in Places(result) :
            (\A ptr \in Pointers(last') : ~IsPrefix(Touched(result, ptr), p) /\ ~IsPrefix(p, ptr))
                => IsThere(result', p) /\ At(result', p) = At(result, p)]_vars

\* The place that operation_add is given in j; the assertion of the code holds.
Container(j, ptr) ==
    ptr # << >> => Error("[]", j, Front(ptr)) = "none" /\ \E type \in {"nul", "arr", "obj"} : Is(type, Reach("[]", j, Front(ptr)))
Index1(ptr) == \A i \in DOMAIN ptr : ~LeadingZero(ptr[i]) /\ ptr[i] # PastTheEnd

\* What add, replace or move puts at a path is found at that path, although
\* it is put there unchecked and looked for with checks.
FoundThere ==
    [][pc' = "loop" /\ Op(last') \in {"add", "replace", "move"} =>
        LET e == last'
            j == IF Op(e) = "move" THEN OpRemove(result, From(e)).doc ELSE result
            put == IF Op(e) = "move" THEN At(result, From(e)) ELSE ValueOf(e)
        IN  Index1(Path(e)) /\ Container(j, Path(e)) =>
                IsThere(result', Path(e)) /\ At(result', Path(e)) = put]_vars

HowMany(j, v) == Cardinality({p \in Places(j) : At(j, p) = v})
Numbers(j) == {v \in {At(j, p) : p \in Places(j)} : Is("num", v) \/ Is("flt", v)}

\* A move that does not end on an existing value loses no number of the
\* document and doubles none, wherever in the moved part, beside it or in the
\* same array it ends.
MoveConserves ==
    [][pc' = "loop" /\ Op(last') = "move" =>
        LET e == last'
            j == OpRemove(result, From(e)).doc
        IN  Path(e) # << >> /\ Container(j, Path(e)) /\ (IsThere(j, Path(e)) => Is("arr", At(j, Front(Path(e))))) =>
                \A v \in Numbers(result) \cup Numbers(result') : HowMany(result', v) = HowMany(result, v)]_vars
=============================================================================
