-------------------------- MODULE ClusterNumbering --------------------------
(***************************************************************************)
(* What the parallel dof table promises to the rest of the library         *)
(* (vectors, matrices, exporters): every copy of a dof that some rank      *)
(* holds gets a global cluster id, all the copies of a dof get the same    *)
(* one, different dofs get different ones, and an id never changes.  How   *)
(* the ranks find the ids is left open.                                    *)
(***************************************************************************)
EXTENDS Integers

CONSTANTS
  Rank,     \* the processes
  Dof,      \* the degrees of freedom of the whole mesh
  Held,     \* Held[p]: the dofs process p holds a copy of
  Invalid   \* the value of a copy that has no id yet

VARIABLE number   \* number[p][d]: the id of d on process p

Init == number = [p \in Rank |-> [d \in Dof |-> Invalid]]

Numbered(num, p, d) == num[p][d] # Invalid

(* Two copies have the same id exactly when they are copies of one dof     *)
Consistent(num) ==
  \A p, q \in Rank, d, e \in Dof :
     Numbered(num, p, d) /\ Numbered(num, q, e)
       => (num[p][d] = num[q][e] <=> d = e)

(* Process p gives ids to some of its copies that have none                *)
Number(p) ==
  /\ \A q \in Rank \ {p} : number'[q] = number[q]
  /\ \A d \in Dof : Numbered(number, p, d) => number'[p][d] = number[p][d]
  /\ \A d \in Dof \ Held[p] : number'[p][d] = Invalid
  /\ Consistent(number')

Next == \E p \in Rank : Number(p)

Spec == Init /\ [][Next]_number

=============================================================================
