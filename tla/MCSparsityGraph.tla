--------------------------- MODULE MCSparsityGraph ---------------------------
(* A ring of six cells, a - b - c - d - e - f, on four ranks.  The rows    *)
(* are the vertices (P1), the columns the cells (P0), so that the two have *)
(* the same number of dofs on different ranks.  Ranks 1 and 3 own no row;  *)
(* the vertices they know belong to lower ranks.                           *)
EXTENDS SparsityGraph

CONSTANTS a, b, c, d, e, f

MCCell == {a, b, c, d, e, f}

MCPart == [x \in MCCell |->
  CASE x \in {a, c} -> 0 [] x = b -> 1 [] x \in {d, e} -> 2 [] x = f -> 3]

MCRowDof == [x \in MCCell |->
  CASE x = a -> {2, 3} [] x = b -> {3, 0} [] x = c -> {0, 1}
    [] x = d -> {1, 4} [] x = e -> {4, 5} [] x = f -> {5, 2}]

MCColDof == [x \in MCCell |->
  CASE x = c -> {0} [] x = a -> {1} [] x = b -> {2}
    [] x = e -> {3} [] x = d -> {4} [] x = f -> {5}]

MCNRow == [p \in 0 .. 3 |-> CASE p = 0 -> 4 [] p = 2 -> 2 [] OTHER -> 0]

MCNCol == [p \in 0 .. 3 |-> IF p \in {0, 2} THEN 2 ELSE 1]

MCRowMap == [p \in 0 .. 3 |->
  CASE p = 0 -> <<0, 1, 2, 3>> [] p = 1 -> <<3, 0>>
    [] p = 2 -> <<4, 5, 1>>    [] p = 3 -> <<5, 2>>]

ASSUME RowsCoupled ==
  ZeroPattern \/ (NoRowMissing /\ EveryRowCoupled /\ OwnersHaveColumns)
=============================================================================
