------------------------------ MODULE MCBlocks ------------------------------
(* Five segments on four ranks: linear elements, of which rank 1 owns      *)
(* nothing, a discontinuous space with one or two dofs in a cell, and a    *)
(* multiplier, which appears between two blocks of the linear space.       *)
EXTENDS BlockNumbering

MCCell == 1 .. 5
MCPart == << 0, 1, 0, 2, 3 >>
MCFace == 1 .. 4
MCFaceCells == << {1, 2}, {2, 3}, {3, 4}, {4, 5} >>

MCDof == 0 .. 5
MCCellDof == << {0, 1}, {1, 2}, {2, 3}, {3, 4}, {4, 5} >>
MCFaceDof == << {1}, {2}, {3}, {4} >>
MCPointDof == MCDof
MCLocalIndex == [p \in Rank |-> [d \in MCDof |-> d]]

MCDiscDof == 0 .. 5
MCDiscCellDof == << {0}, {1, 2}, {3}, {4}, {5} >>

MCBlocks == << "continuous", "multiplier", "continuous", "discontinuous" >>

(* The theorems on the numbering apply to the three spaces                 *)
ASSUME RegularInstances ==
  RegularSpace /\ Discontinuous!RegularSpace /\ Multiplier!RegularSpace
=============================================================================
