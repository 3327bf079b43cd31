---------------------------- MODULE PointerText ----------------------------
(***************************************************************************)
(* JSON pointers as text: a caller writes a text character by character,   *)
(* or puts a pointer together from keys.  The constructor json_pointer(s)  *)
(* and to_string() are applied to whatever has been written.               *)
(***************************************************************************)
EXTENDS JsonPointer

CONSTANT MaxLength     \* bound: characters that are written

VARIABLES
    text,      \* what the constructor is given
    tokens     \* reference_tokens of a pointer that was put together

vars == <<text, tokens>>

-----------------------------------------------------------------------------
Init == text = << >> /\ tokens = << >>

Size(keys) == FoldLeft(LAMBDA n, key : n + Len(key) + 1, 0, keys)

Type ==
    /\ tokens = << >> /\ Len(text) < MaxLength
    /\ \E c \in ToSet(Order) : text' = Append(text, c)
    /\ UNCHANGED tokens

Begin ==
    /\ text = << >> /\ Size(tokens) < MaxLength
    /\ tokens' = Append(tokens, << >>)
    /\ UNCHANGED text

Extend ==
    /\ tokens # << >> /\ Size(tokens) < MaxLength
    /\ \E c \in ToSet(Order) :
          tokens' = [tokens EXCEPT ![Len(tokens)] = Append(@, c)]
    /\ UNCHANGED text

Next == Type \/ Begin \/ Extend

Spec == Init /\ [][Next]_vars

-----------------------------------------------------------------------------
(* Properties.                                                              *)

\* "For each JSON pointer ptr, it holds: ptr == json_pointer(ptr.to_string())",
\* whatever tildes, slashes and digits its keys have side by side.
PointerKept == SplitError(TextOf(tokens)) = "none" /\ Split(TextOf(tokens)) = tokens

\* A text the constructor takes is the one text of the pointer it becomes, so
\* that no two texts are accepted for one place of a document.
TextKept == SplitError(text) = "none" => TextOf(Split(text)) = text
=============================================================================
