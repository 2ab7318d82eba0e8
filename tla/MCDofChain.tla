----------------------------- MODULE MCDofChain -----------------------------
(* A line of segments with linear elements.  Rank 1 has one segment        *)
(* between two of rank 0, so all its dofs are ghosts, and rank 2 has no    *)
(* segment at all: two ranks in a row own nothing.  Rank 3 asks rank 0 and *)
(* answers rank 4 in the same exchange.                                    *)
EXTENDS DofNumbering

MCCell == 1 .. 5
MCDof == 0 .. 5
MCCellDof == << {0, 1}, {1, 2}, {2, 3}, {3, 4}, {4, 5} >>
MCFace == 1 .. 4
MCFaceCells == << {1, 2}, {2, 3}, {3, 4}, {4, 5} >>
MCFaceDof == << {1}, {2}, {3}, {4} >>
MCPointDof == MCDof
MCPart == << 0, 1, 0, 3, 4 >>
MCLocalIndex == [p \in Rank |-> [d \in MCDof |-> IF p = 3 THEN 5 - d ELSE d]]

(* The theorems on this numbering apply to this instance                   *)
ASSUME RegularInstance == RegularSpace
=============================================================================
