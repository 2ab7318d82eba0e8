-------------------------- MODULE Marching_proofs --------------------------
(***************************************************************************)
(* Marching in order: whatever the graph and the candidates, as long as no *)
(* candidate is closer than the dof it comes from.                         *)
(***************************************************************************)
EXTENDS Marching, TLAPS

TypeOK ==
  /\ DOMAIN given \subseteq Dof
  /\ \A d \in DOMAIN given : given[d] \in Nat
  /\ seeds \subseteq Dof
  /\ accepted \subseteq Dof
  /\ dist \in [Dof -> Nat]
  /\ DOMAIN cand \subseteq Dof
  /\ \A n \in DOMAIN cand : cand[n] \in Nat

(* Candidates are for dofs that are not accepted; marching starts after    *)
(* the neighbours of the interface have theirs                             *)
Apart ==
  /\ DOMAIN cand \intersect accepted = {}
  /\ Interface \subseteq accepted
  /\ seeds # {} => Marched = {}

IInv == TypeOK /\ Apart /\ InOrder

(* The invariant holds before the first seed: nothing is marched over      *)
LEMMA InitInv == ASSUME Init PROVE IInv
<1> USE DEF Init
<1>1. TypeOK
  BY DEF TypeOK, Interface
<1>2. Apart
  BY DEF Apart, Marched, Interface
<1>3. InOrder
  BY <1>2 DEF InOrder
<1> QED  BY <1>1, <1>2, <1>3 DEF IInv

(* Candidates stay numbers of dofs that are not accepted                   *)
LEMMA SpreadCand ==
  ASSUME NEW d \in Dof, NEW low \in Nat, NEW close, close \subseteq DOMAIN cand,
         TypeOK, Spread(d, low, close), close \intersect accepted' = {}
  PROVE  /\ DOMAIN cand' \subseteq Dof
         /\ \A n \in DOMAIN cand' : cand'[n] \in Nat
         /\ DOMAIN cand' \intersect accepted' = {}
BY DEF Spread, TypeOK

(* While seeds are treated nothing is marched over                         *)
LEMMA SeedInv == ASSUME IInv, NEW d \in Dof, Seed(d) PROVE IInv'
<1> USE DEF IInv, Seed
<1>1. /\ DOMAIN cand' \subseteq Dof
      /\ \A n \in DOMAIN cand' : cand'[n] \in Nat
      /\ DOMAIN cand' \intersect accepted' = {}
  BY SpreadCand DEF Apart
<1>2. TypeOK'
  BY <1>1 DEF TypeOK
<1>3. Marched' = {}
  BY DEF Marched, Interface, Apart
<1>4. Apart'
  BY <1>1, <1>3 DEF Apart, Interface
<1>5. InOrder'
  BY <1>3 DEF InOrder
<1> QED  BY <1>2, <1>4, <1>5

(* The dof accepted is the closest, and what it spreads is no closer       *)
LEMMA AcceptInv == ASSUME IInv, NEW d \in Dof, Accept(d) PROVE IInv'
<1> USE DEF IInv
<1>1. cand[d] \in Nat /\ d \in DOMAIN cand
  BY DEF TypeOK, Accept
<1>2. /\ DOMAIN cand' \subseteq Dof
      /\ \A n \in DOMAIN cand' : cand'[n] \in Nat
      /\ DOMAIN cand' \intersect accepted' = {}
  <2>1. (DOMAIN cand \ {d}) \intersect accepted' = {}
    BY DEF Apart, Accept
  <2> QED  BY <1>1, <2>1, SpreadCand DEF Accept
<1>3. TypeOK'
  BY <1>1, <1>2 DEF TypeOK, Accept
<1>4. Apart'
  BY <1>2 DEF Apart, Accept, Interface
<1>5. \A c \in DOMAIN cand' : cand[d] <= cand'[c]
  <2> SUFFICES ASSUME NEW c \in DOMAIN cand' PROVE cand[d] <= cand'[c]
    OBVIOUS
  <2>1. CASE c \in DOMAIN cand \ {d} /\ cand'[c] = cand[c]
    BY <2>1 DEF Accept
  <2>2. CASE cand'[c] >= cand[d]
    BY <1>1, <1>2, <2>2
  <2> QED  BY <2>1, <2>2 DEF Accept, Spread
<1>6. InOrder'
  <2> SUFFICES ASSUME NEW e \in Marched', NEW c \in DOMAIN cand'
               PROVE  dist'[e] <= cand'[c]
    BY DEF InOrder
  <2>1. CASE e = d
    BY <1>5, <2>1 DEF Accept, TypeOK
  <2>2. CASE e # d
    <3>1. e \in Marched /\ dist'[e] = dist[e] /\ dist[e] \in Nat
      BY <2>2 DEF Accept, Marched, Interface, TypeOK
    <3>2. dist[e] <= cand[d]
      BY <1>1, <3>1 DEF InOrder
    <3> QED  BY <1>1, <1>2, <1>5, <3>1, <3>2
  <2> QED  BY <2>1, <2>2
<1> QED  BY <1>3, <1>4, <1>6

LEMMA StutterInv == ASSUME IInv, UNCHANGED vars PROVE IInv'
BY DEF vars, IInv, TypeOK, Apart, InOrder, Marched, Interface

(* The invariant on candidates and accepted dofs is inductive              *)
THEOREM Invariant == Spec => []IInv
<1>1. Init => IInv
  BY InitInv
<1>2. IInv /\ [Next]_vars => IInv'
  BY SeedInv, AcceptInv, StutterInv DEF Next
<1> QED  BY <1>1, <1>2, PTL DEF Spec

(* A dof that is still close is never closer than one marched over         *)
THEOREM InOrderAlways == Spec => []InOrder
<1>1. IInv => InOrder
  BY DEF IInv
<1> QED  BY <1>1, Invariant, PTL

(* What AcceptedInOrder says of one step                                   *)
StepInOrder ==
  \A e \in Marched :
    /\ e \in accepted'
    /\ dist'[e] = dist[e]
    /\ \A d \in accepted' \ accepted : dist[e] <= dist'[d]

(* Distances are final and dofs are accepted by increasing distance        *)
THEOREM AcceptedInOrderAlways == Spec => AcceptedInOrder
<1>1. IInv /\ [Next]_vars => [StepInOrder]_vars
  <2> SUFFICES ASSUME IInv, Next PROVE StepInOrder
    OBVIOUS
  <2>1. ASSUME NEW d \in Dof, Seed(d) PROVE StepInOrder
    BY <2>1 DEF Seed, StepInOrder, Marched
  <2>2. ASSUME NEW d \in Dof, Accept(d) PROVE StepInOrder
    BY <2>2 DEF Accept, StepInOrder, IInv, TypeOK, Apart, InOrder, Marched
  <2> QED  BY <2>1, <2>2 DEF Next
<1> QED  BY <1>1, Invariant, PTL DEF Spec, AcceptedInOrder, StepInOrder
=============================================================================
