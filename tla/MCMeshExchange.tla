--------------------------- MODULE MCMeshExchange ---------------------------
(* Six square cells in two rows of three,                                  *)
(*     1 2 3                                                               *)
(*     4 5 6                                                               *)
(* on three ranks of four; the fourth rank has nothing.  Cell 4 is in an   *)
(* ignored physical group, so that rank 1 has a ghost of rank 2 and rank 2 *)
(* has none of rank 1.  A face is the set of its two points, the points    *)
(* being numbered 1 .. 4, 5 .. 8, 9 .. 12 on the three lines.              *)
EXTENDS MeshExchange

MCCell == 1 .. 6

MCPartition == << 2, 0, 1, 1, 0, 0 >>

(* The cells that share a point with a cell                                *)
Around == << {2, 4, 5}, {1, 3, 4, 5, 6}, {2, 5, 6}, {1, 2, 5}, {1, 2, 3, 4, 6}, {2, 3, 5} >>

MCGhostTags ==
  [c \in MCCell |-> {MCPartition[d] : d \in Around[c]} \ {MCPartition[c]}]

(* Counterclockwise from the bottom                                        *)
Square(a, b, c, d) == << {a, b}, {b, c}, {c, d}, {d, a} >>

MCCellFaces ==
  << Square(5, 6, 2, 1), Square(6, 7, 3, 2), Square(7, 8, 4, 3),
     Square(9, 10, 6, 5), Square(10, 11, 7, 6), Square(11, 12, 8, 7) >>

(* A boundary line of rank 0, a line of rank 2 along the ignored group,    *)
(* and a line inside rank 0 that the file gives to no partition            *)
MCLine ==
  << [face |-> {11, 12}, partition |-> 0],
     [face |-> {5, 6}, partition |-> 2],
     [face |-> {7, 11}, partition |-> Unpartitioned] >>
=============================================================================
