---------------------------- MODULE WindingNumber ----------------------------
(***************************************************************************)
(* The polygon test of libs/route_solver/src/lib/solve/winding_number.cpp, *)
(* on whole coordinates.                                                   *)
(***************************************************************************)
EXTENDS Integers, Sequences, FiniteSets, FiniteSetsExt

\* positive: P2 is to the left of the line from P0 to P1; zero: on it
IsLeft(P0, P1, P2) ==
    (P1.x - P0.x) * (P2.y - P0.y) - (P2.x - P0.x) * (P1.y - P0.y)

\* mutant of Turn: a downward crossing is not counted
Turn_UpwardOnly(P, A, B) ==
    IF A.y <= P.y /\ B.y > P.y /\ IsLeft(A, B, P) > 0 THEN 1 ELSE 0

\* what the edge from A to B adds to the winding number around P
Turn(P, A, B) ==
    IF      A.y <= P.y /\ B.y > P.y /\ IsLeft(A, B, P) > 0 THEN 1
    ELSE IF A.y > P.y /\ B.y <= P.y /\ IsLeft(A, B, P) < 0 THEN -1
    ELSE 0

\* V[i + 1], which for the last i lies past the end of the vector: "beyond" is
\* what the memory holds there
NextVertex(V, i, beyond) == IF i < Len(V) THEN V[i + 1] ELSE beyond

wn_PnPoly(P, V, beyond) ==
    MapThenSumSet(LAMBDA i : Turn(P, V[i], NextVertex(V, i, beyond)), DOMAIN V)

-----------------------------------------------------------------------------
(* What being inside means, for polygons that do not cross themselves and *)
(* points in general position                                              *)

\* P is on no line through two vertices
General(P, V) ==
    \A i, j \in DOMAIN V : V[i] # V[j] => IsLeft(V[i], V[j], P) # 0

InTriangle(P, A, B, C) ==
    LET sides == {IsLeft(A, B, P) > 0, IsLeft(B, C, P) > 0, IsLeft(C, A, P) > 0}
    IN  Cardinality(sides) = 1

\* P is in an odd number of the triangles that the first vertex spans with
\* each edge of the polygon
Inside(P, V) ==
    Cardinality({i \in 2 .. Len(V) - 1 :
                    V[i] # V[1] /\ V[i + 1] # V[1] /\ InTriangle(P, V[1], V[i], V[i + 1])}) % 2 = 1
=============================================================================
