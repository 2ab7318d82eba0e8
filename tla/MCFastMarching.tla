--------------------------- MODULE MCFastMarching ---------------------------
(* A grid of dofs, three in each column, whose squares are cut into two    *)
(* triangles with legs of length 4.  Lengths are rounded.                  *)
EXTENDS FastMarching

CONSTANTS
  Columns,   \* columns of the grid
  Periodic   \* the last column is the first one, translated

X(d) == d \div 3
Y(d) == d % 3

MCNDof == 3 * Columns

MCCell ==
  UNION {{{d, d + 1, d + 3}, {d + 1, d + 3, d + 4}}
            : d \in {e \in Dof : X(e) < Columns - 1 /\ Y(e) < 2}}

MCLength(p, n) == IF X(p) # X(n) /\ Y(p) # Y(n) THEN 6 ELSE 4

(* The right angle is at n                                                 *)
Legs(dv) ==
  IF dv \in -1 .. 1 THEN 3 + (IF dv < 0 THEN dv ELSE 0)
  ELSE IF dv \in 2 .. 3 THEN 4
  ELSE IF dv \in -3 .. -2 THEN 4 + dv ELSE 0

(* The right angle is at p                                                 *)
Corner(dv) == IF dv \in {-1, 0} THEN 4 ELSE IF dv = -2 THEN 3 ELSE 0

MCThrough(p, q, n, dv) ==
  IF MCLength(p, q) = 6 THEN Legs(dv)
  ELSE IF MCLength(q, n) = 6 THEN Corner(dv)
  ELSE IF Corner(-dv) = 0 THEN 0 ELSE Corner(-dv) + dv

ASSUME SameFront(-20 .. 20)

MCTwin ==
  IF Periodic
  THEN [d \in {e \in Dof : X(e) \in {0, Columns - 1}} |->
          IF X(d) = 0 THEN d + 3 * (Columns - 1) ELSE d - 3 * (Columns - 1)]
  ELSE << >>

(* All combinations of a few values in the first two columns, and one      *)
(* value in the others; a periodic function if the domain is               *)
Near == {-3, -1, 0, 2}

MCLevelSets ==
  {[d \in Dof |-> IF d < 6 THEN f[d]
                    ELSE IF d \in DOMAIN MCTwin THEN f[MCTwin[d]]
                    ELSE 1] : f \in [0 .. 5 -> Near]}
=============================================================================
