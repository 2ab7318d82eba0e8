----------------------------- MODULE MCDofCross -----------------------------
(* Four square cells around one vertex, one per rank, with quadratic dofs  *)
(* on two of the faces: the centre is shared by four ranks, of which the   *)
(* opposite ones share no face.                                            *)
EXTENDS DofNumbering

MCCell == 1 .. 4

(* 0: the centre, 1 .. 4: ends of the faces, 5, 6: inside faces, 7: corner *)
MCDof == 0 .. 7
MCCellDof == << {0, 1, 4, 5, 7}, {0, 1, 2, 5}, {0, 2, 3, 6}, {0, 3, 4, 6} >>

MCFace == 1 .. 4
MCFaceCells == << {1, 2}, {2, 3}, {3, 4}, {4, 1} >>
MCFaceDof == << {0, 1, 5}, {0, 2}, {0, 3, 6}, {0, 4} >>
MCPointDof == 0 .. 4

(* The cells of rank 0 and rank 1 are opposite                             *)
MCPart == << 0, 2, 1, 3 >>

MCLocalIndex == [p \in Rank |-> [d \in MCDof |-> IF p % 2 = 0 THEN d ELSE 7 - d]]

(* The theorems on this numbering apply to this instance                   *)
ASSUME RegularInstance == RegularSpace
=============================================================================
