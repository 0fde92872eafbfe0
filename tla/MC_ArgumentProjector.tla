------------------------ MODULE MC_ArgumentProjector ------------------------
(* A type structure for TLC: an int, two structs, pointers to them and a  *)
(* pointer to a pointer.  struct S1 { S2 *a; int b; }, struct S2 { int c; *)
(* int d; }, so the path {0, 1} from an S1 * reaches S2.d.                 *)
EXTENDS ArgumentProjector

CONSTANTS tI, tS1, tP1, tS2, tP2, tPP1

MCKind == [t \in Types |-> CASE t \in {tI} -> "int"
                             [] t \in {tS1, tS2} -> "struct"
                             [] OTHER -> "ptr"]

MCPointee == [t \in Types |-> CASE t = tP1 -> tS1 [] t = tP2 -> tS2
                                [] t = tPP1 -> tP1 [] OTHER -> NoType]

MCFieldTypes == [t \in Types |-> CASE t = tS1 -> <<tP2, tI>>
                                   [] t = tS2 -> <<tI, tI>>
                                   [] OTHER -> <<>>]

(* vec_selected_fields of runOnModule, lines 517-521.                     *)
MCDefaultIndices == << <<0, 1>> >>

(* A read past the vector: an empty vector, or any short path.            *)
MCGarbagePaths == {<<>>, <<0>>, <<1>>, <<0, 1>>, <<1, 0>>}

=============================================================================
