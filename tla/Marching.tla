------------------------------ MODULE Marching ------------------------------
(***************************************************************************)
(* What the fast marching reinitialisation promises: from the dofs next to *)
(* the interface on, the closest candidate is accepted, its distance never *)
(* changes afterwards, and its neighbours get candidates that are no       *)
(* closer than it.  Distances are unsigned.  How candidates are computed   *)
(* and how the closest one is found are left open.                         *)
(***************************************************************************)
EXTENDS Integers

CONSTANTS
  Dof,        \* the dofs of the function to reinitialise
  Nbr         \* Nbr[d]: the dofs that share a cell with d

VARIABLES
  given,     \* distances of the dofs of the cells the interface cuts
  seeds,     \* interface dofs whose neighbours have no candidate yet
  accepted,  \* dofs whose distance is final
  dist,      \* dist[d]: distance of an accepted dof
  cand       \* candidate distances of the close dofs

vars == <<given, seeds, accepted, dist, cand>>

Interface == DOMAIN given

Init ==
  /\ DOMAIN given \subseteq Dof
  /\ given \in [DOMAIN given -> Nat]
  /\ seeds = Interface
  /\ accepted = Interface
  /\ dist = [d \in Dof |-> IF d \in Interface THEN given[d] ELSE 0]
  /\ cand = << >>

(* The neighbours of d get a candidate of at least low, or a closer one    *)
Spread(d, low, close) ==
  /\ DOMAIN cand' = close \union ((Nbr[d] \intersect Dof) \ accepted')
  /\ \A n \in DOMAIN cand' :
       /\ cand'[n] \in Nat
       /\ n \in close => cand'[n] <= cand[n]
       /\ n \in close \ Nbr[d] => cand'[n] = cand[n]
       /\ \/ n \in close /\ cand'[n] = cand[n]
          \/ cand'[n] >= low

Seed(d) ==
  /\ d \in seeds
  /\ seeds' = seeds \ {d}
  /\ Spread(d, 0, DOMAIN cand)
  /\ UNCHANGED <<given, accepted, dist>>

Accept(d) ==
  /\ seeds = {}
  /\ d \in DOMAIN cand
  /\ \A e \in DOMAIN cand : cand[d] <= cand[e]
  /\ accepted' = accepted \union {d}
  /\ dist' = [dist EXCEPT ![d] = cand[d]]
  /\ Spread(d, cand[d], DOMAIN cand \ {d})
  /\ UNCHANGED <<given, seeds>>

Next == \E d \in Dof : Seed(d) \/ Accept(d)

Spec == Init /\ [][Next]_vars

(* The accepted dofs that are not given by the interface                   *)
Marched == accepted \ Interface

(* A dof that is still close is never closer than one that was marched     *)
(* over: a distance that is accepted cannot turn out too large             *)
InOrder == \A e \in Marched, c \in DOMAIN cand : dist[e] <= cand[c]

(* Distances of accepted dofs are final, and the next dof accepted is at   *)
(* least as far as all those marched over before it                        *)
AcceptedInOrder ==
  [][\A e \in Marched :
       /\ e \in accepted'
       /\ dist'[e] = dist[e]
       /\ \A d \in accepted' \ accepted : dist[e] <= dist'[d]]_vars
=============================================================================
