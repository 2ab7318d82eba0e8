---------------------------- MODULE FastMarching ----------------------------
(***************************************************************************)
(* The fast marching reinitialisation of a level set in two dimensions:    *)
(* ReinitializerFMS::operator() (feelpde/reinit_fms.cpp) with its heap     *)
(* (feelpde/fmsheap.hpp).  Dofs of cells that the interface cuts keep      *)
(* their value; from there on the closest dof of the heap is accepted and  *)
(* its neighbours get new candidates, from it alone or from it and another *)
(* accepted dof of their cell.  Values are integers, and the geometry is   *)
(* given by the two tables Length and Through.                             *)
(***************************************************************************)
EXTENDS Integers, Sequences, FiniteSets, SequencesExt

CONSTANTS
  NDof,           \* M_functionspace->dof()->nDof()
  Cell,           \* the triangles, as sets of three dofs
  Length(_, _),   \* length of the edge between two dofs of a cell
  Through(_, _, _, _),
     \* Through(p, q, n, dv): what to add to the distance of p to get that
     \* of n when the front comes between p and q, q being farther than p
     \* by dv; 0 when it does not come between them
  LevelSets,      \* the functions to reinitialise
  Twin,           \* the image of a dof under the periodic translation,
                  \* defined on the dofs that have one
  IndexModulus    \* an index in the heap is a uint16_t

Abs(x) == IF x < 0 THEN -x ELSE x

Dof == 0 .. NDof - 1

(* The dofs that share a cell with d: M_neighbors                          *)
Neighbors == [d \in Dof |-> (UNION {c \in Cell : d \in c}) \ {d}]

(* No angle is obtuse: a front between two dofs reaches both before n      *)
NoObtuseAngle(differences) ==
  \A n \in Dof : \A p \in Neighbors[n] : \A q \in Neighbors[n] \intersect Neighbors[p] :
    \A dv \in differences :
      /\ Through(p, q, n, dv) \in Nat
      /\ Through(p, q, n, dv) = 0 \/ Through(p, q, n, dv) >= dv

(* The front that comes between p and q is that between q and p            *)
SameFront(differences) ==
  \A n \in Dof : \A p \in Neighbors[n] : \A q \in Neighbors[n] \intersect Neighbors[p] :
    \A dv \in differences :
      Through(q, p, n, -dv) =
        IF Through(p, q, n, dv) = 0 THEN 0 ELSE Through(p, q, n, dv) - dv

ASSUME GeometryAssumption ==
  /\ NDof \in Nat
  /\ Cell \subseteq SUBSET Dof
  /\ \A c \in Cell : \A p, n \in c : p # n => Length(p, n) \in Nat \ {0}
  /\ NoObtuseAngle(-20 .. 20)
  /\ LevelSets \subseteq [Dof -> Int]
  /\ DOMAIN Twin \subseteq Dof /\ Twin \in [DOMAIN Twin -> Dof]
  /\ IndexModulus \in Nat \ {0}

DONE == 0
CLOSE == 1
FAR == 2

VARIABLES
  phi,      \* the function to reinitialise
  done,     \* interface dofs whose neighbours are not in the heap yet
  status,   \* status[d]: DONE, CLOSE or FAR
  v,        \* the result
  heap      \* std::vector of pairs <<value, index>>

vars == <<phi, done, status, v, heap>>

(***************************************************************************)
(* The standard heap functions, for the order of the heap: an entry moves  *)
(* up past its parents, or down past its closest children, as long as they *)
(* are out of order.                                                       *)
(***************************************************************************)

(* Mutant: the heap is ordered by signed values                            *)
FartherSigned(a, b) == a[1] > b[1]

(* a comes after b in the heap: fmsheap.hpp farther                        *)
Farther(a, b) == Abs(a[1]) > Abs(b[1])

(* up[j] is the heap when the entry at i has come up to j or above         *)
SiftUp(h, i) ==
  LET up[j \in 1 .. i] ==
        IF j > 1 /\ Farther(h[j \div 2], h[i])
        THEN [up[j \div 2] EXCEPT ![j] = h[j \div 2]]
        ELSE [h EXCEPT ![j] = h[i]]
  IN  up[i]

Children(h, j) == {2 * j, 2 * j + 1} \intersect DOMAIN h

ClosestChild(h, j) ==
  CHOOSE c \in Children(h, j) : \A e \in Children(h, j) : ~Farther(h[c], h[e])

(* down[j] is the heap when the entry at i has come down to j or below     *)
SiftDown(h, i) ==
  LET down[j \in i .. Len(h)] ==
        IF Children(h, j) # {} /\ Farther(h[i], h[ClosestChild(h, j)])
        THEN [down[ClosestChild(h, j)] EXCEPT ![j] = h[ClosestChild(h, j)]]
        ELSE [h EXCEPT ![j] = h[i]]
  IN  down[i]

PushHeap(h) == SiftUp(h, Len(h))

(* Mutant: the last entry goes to the top and stays there                  *)
PopHeapUnsifted(h) == SubSeq([h EXCEPT ![1] = h[Len(h)]], 1, Len(h) - 1)

PopHeap(h) ==
  LET rest == SubSeq([h EXCEPT ![1] = h[Len(h)]], 1, Len(h) - 1)
  IN  IF rest = << >> THEN rest ELSE SiftDown(rest, 1)

(* From the last parent to the first                                       *)
MakeHeap(h) ==
  LET built[k \in 0 .. Len(h) \div 2] ==
        IF k = 0 THEN h ELSE SiftDown(built[k - 1], Len(h) \div 2 + 1 - k)
  IN  built[Len(h) \div 2]

(***************************************************************************)
(* FmsHeap                                                                 *)
(***************************************************************************)

(* Mutant: an index type too narrow for the dofs                           *)
IndexNarrow(d) == d % 8

Index(d) == d % IndexModulus

Push(h, in) == PushHeap(Append(h, in))

(* The first entry with the index of in                                    *)
Find(h, index) == SelectInSeq(h, LAMBDA it : it[2] = index)

(* Mutant: the heap is left as it is when one of its entries gets closer   *)
ChangeInPlace(h, in) ==
  LET it == Find(h, in[2])
  IN  IF it = 0 THEN Push(h, in)
      ELSE IF Farther(h[it], in) THEN [h EXCEPT ![it] = in]
      ELSE h

(* Mutant: an entry that is not found is not pushed                        *)
ChangeKnown(h, in) ==
  LET it == Find(h, in[2])
  IN  IF it # 0 /\ Farther(h[it], in) THEN MakeHeap([h EXCEPT ![it] = in]) ELSE h

(* An entry only gets closer, and then the whole heap is built again       *)
Change(h, in) ==
  LET it == Find(h, in[2])
  IN  IF it = 0 THEN Push(h, in)
      ELSE IF Farther(h[it], in) THEN MakeHeap([h EXCEPT ![it] = in])
      ELSE h

(* Erases from the vector without restoring the order of the heap          *)
RemoveFromHeap(h, index) ==
  LET it == Find(h, index) IN IF it = 0 THEN h ELSE RemoveAt(h, it)

(***************************************************************************)
(* Candidates                                                              *)
(***************************************************************************)

(* Mutant: distances are added on the positive side only                   *)
BeyondPositive(p, w, step) == w[p] + step

(* The new value at n: as far again on the side of p                       *)
Beyond(p, w, step) == IF w[p] < 0 THEN w[p] - step ELSE w[p] + step

(* fmsDistN from one known dof, and from two; 0 stands for none            *)
DistFromOne(p, n, w) == Beyond(p, w, Length(p, n))

DistFromTwo(p, q, n, w) ==
  LET step == Through(p, q, n, IF w[p] < 0 THEN w[p] - w[q] ELSE w[q] - w[p])
  IN  IF step = 0 THEN 0 ELSE Beyond(p, w, step)

(* The closest value at n that dof p allows, alone or with another one     *)
(* that is done: fmsDistRec                                                *)
PhiNew(p, n, w, st) ==
  LET others == {q \in Neighbors[n] \intersect Neighbors[p] : st[q] = DONE}
      candidates == {DistFromOne(p, n, w)}
                      \union ({DistFromTwo(p, q, n, w) : q \in others} \ {0})
  IN  CHOOSE x \in candidates : \A y \in candidates : Abs(x) <= Abs(y)

(* The heap when all of open, in the order of a std::set, got a candidate  *)
Offer(open, p, w, st, h) ==
  LET offered[k \in 0 .. NDof] ==
        IF k = 0 THEN h
        ELSE IF k - 1 \notin open THEN offered[k - 1]
        ELSE Change(offered[k - 1], <<PhiNew(p, k - 1, w, st), Index(k - 1)>>)
  IN  offered[NDof]

(* Mutant: dofs that are close already are not updated again               *)
FmsHeapUpdateFar(p, w, st, h) ==
  LET open == {n \in Neighbors[p] : st[n] = FAR}
  IN  [v |-> w,
       status |-> [n \in Dof |-> IF n \in open THEN CLOSE ELSE st[n]],
       heap |-> Offer(open, p, w, st, h)]

(* The neighbours of p that are not done enter the heap or get closer      *)
FmsHeapUpdate(p, w, st, h) ==
  LET open == {n \in Neighbors[p] : st[n] # DONE}
  IN  [v |-> w,
       status |-> [n \in Dof |-> IF n \in open THEN CLOSE ELSE st[n]],
       heap |-> Offer(open, p, w, st, h)]

(***************************************************************************)
(* operator()                                                              *)
(***************************************************************************)

(* Neither all the values of the cell are positive nor all are negative    *)
Cut(c, f) == (\E d \in c : f[d] <= 0) /\ (\E d \in c : f[d] >= 0)

Interface == UNION {c \in Cell : Cut(c, phi)}

(* The loop over the cells: dofs of cut cells are done                     *)
Init ==
  /\ phi \in LevelSets
  /\ done = Interface
  /\ status = [d \in Dof |-> IF d \in done THEN DONE ELSE FAR]
  /\ v = [d \in Dof |-> IF d \in done THEN phi[d] ELSE 0]
  /\ heap = << >>

(* One turn of the loop over the done points, in the order of a std::set   *)
Seed ==
  /\ done # {}
  /\ LET d == CHOOSE x \in done : \A y \in done : x <= y
         after == FmsHeapUpdate(d, v, status, heap)
     IN  /\ done' = done \ {d}
         /\ status' = after.status
         /\ heap' = after.heap
  /\ UNCHANGED <<phi, v>>

(* What the acceptance of top leaves before its periodic image is treated  *)
Accepted(top) ==
  FmsHeapUpdate(top[2], [v EXCEPT ![top[2]] = top[1]],
                [status EXCEPT ![top[2]] = DONE], PopHeap(heap))

(* updatePeriodicPoint: the image of top gets the same value, leaves the   *)
(* heap, whatever its status was, and its neighbours are updated           *)
UpdatePeriodicPoint(top, s) ==
  IF top[2] \notin DOMAIN Twin THEN s ELSE
  LET t == Twin[top[2]]
  IN  FmsHeapUpdate(t, [s.v EXCEPT ![t] = top[1]],
                    [s.status EXCEPT ![t] = DONE], RemoveFromHeap(s.heap, Index(t)))

(* One turn of the marching loop                                           *)
March ==
  /\ done = {}
  /\ heap # << >>
  /\ LET after == UpdatePeriodicPoint(heap[1], Accepted(heap[1]))
     IN  /\ v' = after.v
         /\ status' = after.status
         /\ heap' = after.heap
  /\ UNCHANGED <<phi, done>>

Finished == done = {} /\ heap = << >>

Next == Seed \/ March \/ (Finished /\ UNCHANGED vars)

Spec == Init /\ [][Next]_vars

(***************************************************************************)
(* Properties                                                              *)
(***************************************************************************)

(* The comment of the marching loop: the smallest value is always at the   *)
(* top of the heap, so the dof that is accepted next is the closest one    *)
TopIsSmallest ==
  \A i \in DOMAIN heap : ~Farther(heap[1], heap[i])

(* The heap holds each close dof once and nothing else, through pushes,    *)
(* changes and rebuilds: no dof is lost and none is accepted twice         *)
HeapHoldsClose ==
  /\ {heap[i][2] : i \in DOMAIN heap} = {Index(d) : d \in {x \in Dof : status[x] = CLOSE}}
  /\ Len(heap) = Cardinality({d \in Dof : status[d] = CLOSE})

(* What the accepted values say n should have                              *)
Solution(n) ==
  LET near == {p \in Neighbors[n] : status[p] = DONE}
  IN  {DistFromOne(p, n, v) : p \in near}
        \union UNION {{DistFromTwo(p, q, n, v) : q \in near \intersect Neighbors[p]} : p \in near}

(* The result does not depend on the order of acceptance: each dof that    *)
(* was marched over has the closest value its neighbours allow, those      *)
(* accepted after it included                                              *)
SolvesDistance ==
  Finished =>
    \A n \in Dof \ Interface :
       status[n] = DONE =>
         LET s == Solution(n) \ {0}
         IN  v[n] \in s /\ \A x \in s : Abs(v[n]) <= Abs(x)

(* The new function is positive and negative where the old one was         *)
SignKept ==
  \A d \in Dof : status[d] = DONE =>
    /\ v[d] > 0 <=> phi[d] > 0
    /\ v[d] < 0 <=> phi[d] < 0

(* When the loop ends, no dof next to an accepted one was left out         *)
AllReached ==
  Finished =>
    \A c \in Cell : (\E d \in c : status[d] = DONE) => \A d \in c : status[d] = DONE

(* The heap is a queue ordered by distance: the loop does what the         *)
(* abstract marching allows                                                *)
CandidateOf(d) ==
  LET i == CHOOSE k \in DOMAIN heap : heap[k][2] = Index(d) IN Abs(heap[i][1])

Abstract == INSTANCE Marching WITH
  Nbr <- Neighbors,
  given <- [d \in Interface |-> Abs(phi[d])],
  seeds <- done,
  accepted <- {d \in Dof : status[d] = DONE},
  dist <- [d \in Dof |-> Abs(v[d])],
  cand <- [d \in {x \in Dof : status[x] = CLOSE} |-> CandidateOf(d)]

ImplementsMarching == Abstract!Init /\ [][Abstract!Next]_(Abstract!vars)

(* Dofs are accepted by increasing distance: a value that is final is      *)
(* never larger than one accepted after it                                 *)
AcceptedInOrder == Abstract!AcceptedInOrder
=============================================================================
