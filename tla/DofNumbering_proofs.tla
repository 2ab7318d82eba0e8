------------------------ MODULE DofNumbering_proofs ------------------------
(***************************************************************************)
(* Proofs about DofNumbering, for every mesh and every number of ranks.    *)
(*                                                                         *)
(* The walk of each rank is first shown to compute three sets that depend  *)
(* on the mesh only: the dofs a rank owns are those of which it is the     *)
(* lowest holder (Owned), and it asks another rank exactly for the dofs    *)
(* that one owns (Asks).  From there on the protocol is about constants.   *)
(*                                                                         *)
(* Then the ranges of cluster ids.  Each rank fills its own tables of      *)
(* first and last ids, one rank after the other, from the sizes it         *)
(* gathered.  The invariant says that the sizes are those of the sets      *)
(* Owned and that the ranges follow each other without a hole; two tables  *)
(* filled that way are the same table.                                     *)
(***************************************************************************)
EXTENDS DofNumbering, FiniteSums, FiniteSetTheorems, WellFoundedInduction, TLAPS

(* The other ranks that hold a dof                                         *)
Others(p, d) == Holders[d] \ {p}

Owned(p) == {d \in Held[p] : \A q \in Others(p, d) : p < q}

Asks(p, q) == {d \in Held[p] \ Owned(p) : d \in Owned(q)}

Shared(p) == {d \in Held[p] : Others(p, d) # {}}

Sizes == [q \in Rank |-> Cardinality(Owned(q))]

-----------------------------------------------------------------------------
(* The least element of a set of ranks                                     *)
LEMMA MinRank ==
  ASSUME NEW S \in SUBSET Rank, S # {}
  PROVE  Min(S) \in S /\ \A y \in S : Min(S) <= y
<1>1. S \in SUBSET Nat
  BY MeshAssumption DEF Rank
<1>2. \E x \in S : \A y \in S : x <= y
  BY <1>1, LeastNatural
<1>. QED BY <1>2 DEF Min

(* What a rank holds                                                       *)
LEMMA HeldType ==
  /\ Held \in [Rank -> SUBSET Dof]
  /\ Holders \in [Dof -> SUBSET Rank]
  /\ \A p \in Rank : IsFiniteSet(Held[p]) /\ Cardinality(Held[p]) \in Nat
  /\ \A p \in Rank : \A d \in Held[p] : p \in Holders[d]
  /\ \A d \in Dof : \A p \in Holders[d] : p \in Rank /\ d \in Held[p]
<1>1. Held \in [Rank -> SUBSET Dof]
  BY MeshAssumption DEF Held
<1>2. \A p \in Rank : IsFiniteSet(Held[p]) /\ Cardinality(Held[p]) \in Nat
  BY <1>1, MeshAssumption, FS_Subset, FS_CardinalityType
<1>. QED BY <1>1, <1>2 DEF Holders

(* An interprocess face has one rank on the other side, and both ranks     *)
(* hold its dofs; a dof inside the face is held by these two ranks only.   *)
LEMMA InterProcessFace ==
  ASSUME NEW p \in Rank, NEW f \in InterProcessFaces[p], NEW d \in FaceDof[f]
  PROVE  /\ d \in Held[p]
         /\ OffProc(p, f) \in Others(p, d)
         /\ d \notin PointDof => Others(p, d) = {OffProc(p, f)}
<1>1. f \in Face /\ OffProcs(p, f) # {} /\ \E c \in FaceCells[f] : Part[c] = p
  BY DEF InterProcessFaces
<1>2. PICK c, e \in Cell :
         /\ c # e
         /\ FaceCells[f] = {c, e}
         /\ FaceDof[f] \subseteq CellDof[c] \cap CellDof[e]
         /\ \A x \in FaceDof[f] \ PointDof, b \in Cell :
               x \in CellDof[b] => b \in {c, e}
  BY <1>1, MeshAssumption
<1>3. d \in Dof /\ Part[c] \in Rank /\ Part[e] \in Rank
  BY <1>1, <1>2, MeshAssumption
<1>4. d \in Held[Part[c]] /\ d \in Held[Part[e]]
  BY <1>2, <1>3 DEF Held
<1>5. OffProcs(p, f) = {Part[c], Part[e]} \ {p}
  BY <1>2 DEF OffProcs
<1>6. Part[c] = p \/ Part[e] = p
  BY <1>1, <1>2
<1>7. OffProc(p, f) \in OffProcs(p, f)
  BY <1>1 DEF OffProc
<1>8. Holders[d] = {q \in Rank : d \in Held[q]}
  BY <1>3 DEF Holders
<1>9. ASSUME d \notin PointDof, NEW q \in Others(p, d)
      PROVE  q = OffProc(p, f)
  <2>1. q \in Rank /\ d \in Held[q] /\ q # p
    BY <1>8, <1>9 DEF Others
  <2>2. PICK b \in Cell : Part[b] = q /\ d \in CellDof[b]
    BY <2>1 DEF Held
  <2>3. b \in {c, e}
    BY <2>2, <1>2, <1>9
  <2>. QED BY <2>1, <2>2, <2>3, <1>5, <1>6, <1>7
<1>. QED BY <1>4, <1>5, <1>6, <1>7, <1>8, <1>9, <1>3 DEF Others

(* Vertex, edge or face, the code compares its rank with all the others    *)
LEMMA OwnerDecision ==
  ASSUME NEW p \in Rank, NEW f \in InterProcessFaces[p], NEW d \in FaceDof[f]
  PROVE  /\ ProcMin(p, f, d) = Min(Others(p, d))
         /\ Askers(p, f, d) = Others(p, d)
         /\ d \in Shared(p)
<1>1. d \in Held[p] /\ OffProc(p, f) \in Others(p, d)
  BY InterProcessFace
<1>2. Others(p, d) \in SUBSET Rank
  BY <1>1, HeldType DEF Others
<1>3. d \in Shared(p)
  BY <1>1 DEF Shared
<1>4. CASE d \in PointDof
  <2>1. {OffProc(p, f)} \cup ElementsGhost(p, d) = Others(p, d)
    BY <1>1 DEF ElementsGhost, Others
  <2>. QED BY <1>3, <1>4, <2>1 DEF ProcMin, Askers, ElementsGhost, Others
<1>5. CASE d \notin PointDof
  <2>1. Others(p, d) = {OffProc(p, f)}
    BY <1>5, InterProcessFace
  <2>2. Min(Others(p, d)) = OffProc(p, f)
    BY <2>1, <1>2, MinRank
  <2>. QED BY <1>3, <1>5, <2>1, <2>2 DEF ProcMin, Askers
<1>. QED BY <1>4, <1>5

(* Ownership is decided by the lowest holder, seen from any holder         *)
LEMMA OwnedType ==
  ASSUME NEW p \in Rank
  PROVE  /\ Owned(p) \subseteq Held[p]
         /\ Owned(p) \in SUBSET Dof
         /\ IsFiniteSet(Owned(p))
         /\ Cardinality(Owned(p)) \in Nat
         /\ \A q \in Rank : Asks(p, q) \in SUBSET Dof
<1>1. Owned(p) \subseteq Held[p] /\ Held[p] \in SUBSET Dof /\ IsFiniteSet(Held[p])
  BY HeldType DEF Owned
<1>2. IsFiniteSet(Owned(p))
  BY <1>1, FS_Subset
<1>. QED BY <1>1, <1>2, FS_CardinalityType DEF Asks

LEMMA OneOwner ==
  ASSUME NEW p \in Rank, NEW q \in Rank, p # q
  PROVE  Owned(p) \cap Owned(q) = {}
<1> SUFFICES ASSUME NEW d \in Owned(p), d \in Owned(q)
             PROVE  FALSE
  OBVIOUS
<1>1. q \in Others(p, d) /\ p \in Others(q, d)
  BY HeldType DEF Owned, Others
<1>2. p < q /\ q < p
  BY <1>1 DEF Owned
<1>. QED BY <1>2, MeshAssumption DEF Rank

(* What the walk computes for a shared dof, in terms of ownership          *)
LEMMA WalkDecision ==
  ASSUME NEW p \in Rank, NEW d \in Shared(p)
  PROVE  /\ Min(Others(p, d)) \in Rank
         /\ Min(Others(p, d)) < p <=> d \notin Owned(p)
         /\ p < Min(Others(p, d)) <=> d \in Owned(p)
         /\ \A q \in Rank : d \in Asks(p, q) <=>
               d \notin Owned(p) /\ Min(Others(p, d)) = q
<1>1. d \in Held[p] /\ d \in Dof /\ Others(p, d) \in SUBSET Rank /\ Others(p, d) # {}
  BY HeldType DEF Shared, Others
<1> DEFINE m == Min(Others(p, d))
<1>2. m \in Others(p, d) /\ \A y \in Others(p, d) : m <= y
  BY <1>1, MinRank
<1> HIDE DEF m
<1>3. m \in Rank /\ m # p /\ d \in Held[m]
  BY <1>1, <1>2, HeldType DEF Others
<1>4. \A r \in Rank : r \in Int
  BY MeshAssumption DEF Rank
<1>5. d \in Owned(p) <=> p < m
  <2>1. ASSUME p < m, NEW y \in Others(p, d) PROVE p < y
    BY <2>1, <1>1, <1>2, <1>3, <1>4
  <2>. QED BY <1>1, <1>2, <2>1 DEF Owned
<1>6. m < p <=> d \notin Owned(p)
  BY <1>3, <1>4, <1>5
<1>7. ASSUME d \notin Owned(p) PROVE d \in Owned(m)
  <2>1. ASSUME NEW y \in Others(m, d) PROVE m < y
    <3>1. y \in Rank /\ y # m /\ d \in Held[y]
      BY <1>1, HeldType DEF Others
    <3>2. CASE y = p
      BY <3>2, <1>6, <1>7
    <3>3. CASE y # p
      <4>1. y \in Others(p, d)
        BY <3>1, <3>3, <1>1, HeldType DEF Others
      <4>. QED BY <4>1, <3>1, <1>2, <1>3, <1>4
    <3>. QED BY <3>2, <3>3
  <2>. QED BY <2>1, <1>3 DEF Owned
<1>8. ASSUME NEW q \in Rank
      PROVE  d \in Asks(p, q) <=> d \notin Owned(p) /\ m = q
  <2>1. d \in Asks(p, q) <=> d \notin Owned(p) /\ d \in Owned(q)
    BY <1>1 DEF Asks
  <2>2. ASSUME d \notin Owned(p), d \in Owned(q) PROVE m = q
    BY <2>2, <1>7, <1>3, OneOwner
  <2>. QED BY <2>1, <2>2, <1>7
<1>. QED BY <1>3, <1>5, <1>6, <1>8 DEF m

(* A rank asks only lower ranks, and only for dofs they own                *)
LEMMA AsksDown ==
  ASSUME NEW p \in Rank, NEW q \in Rank, NEW d \in Asks(p, q)
  PROVE  q < p /\ d \in Owned(q) /\ d \in Held[p] /\ d \notin Owned(p)
<1>1. d \in Owned(q) /\ d \in Held[p] /\ d \notin Owned(p)
  BY DEF Asks
<1>2. p # q
  BY <1>1
<1>3. p \in Others(q, d)
  BY <1>1, <1>2, HeldType DEF Others
<1>. QED BY <1>1, <1>3 DEF Owned

(* The ranks that will ask p for a dof it owns are the other holders       *)
LEMMA AskersOfOwned ==
  ASSUME NEW p \in Rank, NEW d \in Owned(p), NEW q \in Rank
  PROVE  q \in Others(p, d) <=> d \in Asks(q, p)
<1>1. d \in Dof
  BY OwnedType
<1>2. ASSUME q \in Others(p, d) PROVE d \in Asks(q, p)
  BY <1>1, <1>2, HeldType, OneOwner DEF Asks, Others
<1>3. ASSUME d \in Asks(q, p) PROVE q \in Others(p, d)
  BY <1>3, HeldType DEF Asks, Others
<1>. QED BY <1>2, <1>3

-----------------------------------------------------------------------------
(* The walk                                                                *)

(* The interprocess faces of a rank carry all the dofs it shares           *)
LEMMA SharedOnFaces ==
  ASSUME Continuous, HasFaceDof, NEW p \in Rank
  PROVE  UNION {FaceDof[f] : f \in InterProcessFaces[p]} = Shared(p)
<1>1. ASSUME NEW f \in InterProcessFaces[p], NEW d \in FaceDof[f]
      PROVE  d \in Shared(p)
  BY OwnerDecision
<1>2. ASSUME NEW d \in Shared(p)
      PROVE  \E f \in InterProcessFaces[p] : d \in FaceDof[f]
  <2>1. d \in Dof /\ p \in Holders[d] /\ Holders[d] # {p}
    BY HeldType DEF Shared, Others
  <2>. QED BY <2>1, SharedDofAssumption
<1>. QED BY <1>1, <1>2

(* No dof of a discontinuous space has two holders                         *)
LEMMA NothingShared ==
  ASSUME ~Continuous, NEW p \in Rank
  PROVE  Shared(p) = {}
<1> SUFFICES ASSUME NEW d \in Held[p], NEW q \in Others(p, d)
             PROVE  FALSE
  BY DEF Shared
<1>1. d \in Dof /\ q \in Rank /\ q # p /\ d \in Held[q]
  BY HeldType DEF Others
<1>2. PICK b \in Cell : Part[b] = p /\ d \in CellDof[b]
  BY DEF Held
<1>3. PICK c \in Cell : Part[c] = q /\ d \in CellDof[c]
  BY <1>1 DEF Held
<1>. QED BY <1>1, <1>2, <1>3, SharedDofAssumption

(* What an interprocess face adds to the lists of the walk                 *)
FaceDecided(p, f, X) ==
  /\ {d \in X : ProcMin(p, f, d) < p} = X \ Owned(p)
  /\ \A q \in Rank : {d \in X \ Owned(p) : ProcMin(p, f, d) = q}
                       = X \cap Asks(p, q)
  /\ UNION {Askers(p, f, d) : d \in {x \in X : p < ProcMin(p, f, x)}}
       = {q \in Rank : X \cap Asks(q, p) # {}}

LEMMA FaceDecisions ==
  ASSUME NEW p \in Rank, NEW f \in InterProcessFaces[p],
         NEW X \in SUBSET FaceDof[f]
  PROVE  FaceDecided(p, f, X)
<1>1. \A d \in X : /\ d \in Shared(p)
                   /\ ProcMin(p, f, d) = Min(Others(p, d))
                   /\ Askers(p, f, d) = Others(p, d)
  BY OwnerDecision
<1>2. {d \in X : ProcMin(p, f, d) < p} = X \ Owned(p)
  BY <1>1, WalkDecision
<1>3. ASSUME NEW q \in Rank
      PROVE  {d \in X \ Owned(p) : ProcMin(p, f, d) = q} = X \cap Asks(p, q)
  BY <1>1, WalkDecision
<1>4. {x \in X : p < ProcMin(p, f, x)} = X \cap Owned(p)
  BY <1>1, WalkDecision
<1>5. UNION {Askers(p, f, d) : d \in X \cap Owned(p)}
        = {q \in Rank : X \cap Asks(q, p) # {}}
  <2>1. ASSUME NEW d \in X \cap Owned(p), NEW q \in Askers(p, f, d)
        PROVE  q \in Rank /\ d \in X \cap Asks(q, p)
    <3>1. q \in Others(p, d) /\ d \in Dof
      BY <1>1, OwnedType
    <3>2. q \in Rank
      BY <3>1, HeldType DEF Others
    <3>. QED BY <3>1, <3>2, AskersOfOwned
  <2>2. ASSUME NEW q \in Rank, NEW d \in X \cap Asks(q, p)
        PROVE  d \in X \cap Owned(p) /\ q \in Askers(p, f, d)
    <3>1. d \in Owned(p)
      BY DEF Asks
    <3>. QED BY <3>1, <1>1, AskersOfOwned
  <2>. QED BY <2>1, <2>2
<1>. QED BY <1>2, <1>3, <1>4, <1>5 DEF FaceDecided

WalkType ==
  /\ pc \in [Rank -> Phase]
  /\ todo \in [Rank -> SUBSET Face]
  /\ dofdone \in [Rank -> SUBSET Dof]
  /\ dofIsGhost \in [Rank -> SUBSET Dof]
  /\ listToSend \in [Rank -> [Rank -> SUBSET Dof]]
  /\ procRecvData \in [Rank -> SUBSET Rank]

(* The lists of the walk hold exactly the decisions about the dofs done,   *)
(* and after the walk these are all the shared ones.                       *)
WalkedFaces(p) ==
  /\ dofdone[p] \subseteq Shared(p)
  /\ dofIsGhost[p] = dofdone[p] \ Owned(p)
  /\ listToSend[p] = [q \in Rank |-> dofdone[p] \cap Asks(p, q)]
  /\ procRecvData[p] = {q \in Rank : dofdone[p] \cap Asks(q, p) # {}}
  /\ pc[p] = "build" => dofdone[p] = {}
  /\ pc[p] \in {"walk", "gather", "post", "waitRequests", "waitAnswers"}
       => Continuous /\ HasFaceDof
  /\ pc[p] = "walk" =>
       /\ todo[p] \subseteq InterProcessFaces[p]
       /\ dofdone[p] = UNION {FaceDof[f] : f \in InterProcessFaces[p] \ todo[p]}
  /\ Walked(p) => dofdone[p] = Shared(p)

(* In a P0 continuous space nobody walks and nobody asks                   *)
NoWalk(p) ==
  /\ pc[p] \in {"build", "done"}
  /\ dofIsGhost[p] = {}
  /\ listToSend[p] = Table({})
  /\ procRecvData[p] = {}

WalkInv ==
  /\ WalkType
  /\ \A p \in Rank : IF LooksP0Continuous THEN NoWalk(p) ELSE WalkedFaces(p)

LEMMA WalkInit ==
  ASSUME RegularSpace, Init PROVE WalkInv
<1>1. WalkType
  BY DEF Init, WalkType, PerRank, Table, Phase
<1>2. ASSUME NEW p \in Rank, LooksP0Continuous PROVE NoWalk(p)
  BY <1>2 DEF Init, NoWalk, PerRank, Table
<1>3. ASSUME NEW p \in Rank, ~LooksP0Continuous PROVE WalkedFaces(p)
  BY <1>3 DEF Init, WalkedFaces, PerRank, Table, Walked
<1>. QED BY <1>1, <1>2, <1>3 DEF WalkInv

LEMMA WalkFaceStep ==
  ASSUME RegularSpace, WalkInv, NEW p \in Rank, NEW f \in Face, WalkFace(p, f)
  PROVE  WalkInv'
<1> DEFINE fresh == FaceDof[f] \ dofdone[p]
<1>0. fresh \in SUBSET FaceDof[f]
  OBVIOUS
<1>1. ~LooksP0Continuous /\ WalkedFaces(p)
  BY DEF WalkInv, NoWalk, WalkFace
<1>2. f \in InterProcessFaces[p] /\ pc[p] = "walk" /\ f \in todo[p]
  BY <1>1 DEF WalkedFaces, WalkFace
<1>3. FaceDecided(p, f, fresh)
  <2> HIDE DEF fresh
  <2>. QED BY <1>0, <1>2, FaceDecisions
<1>4. /\ pc' = pc
      /\ todo' = [todo EXCEPT ![p] = @ \ {f}]
      /\ dofdone' = [dofdone EXCEPT ![p] = @ \cup FaceDof[f]]
      /\ dofIsGhost' = [dofIsGhost EXCEPT ![p] = @ \cup (fresh \ Owned(p))]
      /\ listToSend' = [listToSend EXCEPT ![p] =
           [q \in Rank |-> @[q] \cup (fresh \cap Asks(p, q))]]
      /\ procRecvData' = [procRecvData EXCEPT ![p] =
           @ \cup {q \in Rank : fresh \cap Asks(q, p) # {}}]
  BY <1>3 DEF WalkFace, FaceDecided
<1>5. FaceDof[f] \subseteq Shared(p) /\ FaceDof[f] \in SUBSET Dof
  BY <1>2, OwnerDecision, MeshAssumption
<1>6. WalkType'
  BY <1>4, <1>5, OwnedType DEF WalkInv, WalkType
<1>7. WalkedFaces(p)'
  <2>1. /\ pc[p]' = "walk"
        /\ todo[p]' = todo[p] \ {f}
        /\ dofdone[p]' = dofdone[p] \cup FaceDof[f]
        /\ dofIsGhost[p]' = dofIsGhost[p] \cup (fresh \ Owned(p))
        /\ listToSend[p]' = [q \in Rank |-> listToSend[p][q] \cup (fresh \cap Asks(p, q))]
        /\ procRecvData[p]' = procRecvData[p] \cup {q \in Rank : fresh \cap Asks(q, p) # {}}
    BY <1>2, <1>4 DEF WalkInv, WalkType
  <2>2. dofdone[p]' \subseteq Shared(p)
    BY <1>1, <1>5, <2>1 DEF WalkedFaces
  <2>3. dofIsGhost[p]' = dofdone[p]' \ Owned(p)
    BY <1>1, <2>1 DEF WalkedFaces
  <2>4. listToSend[p]' = [q \in Rank |-> dofdone[p]' \cap Asks(p, q)]
    BY <1>1, <2>1 DEF WalkedFaces
  <2>5. procRecvData[p]' = {q \in Rank : dofdone[p]' \cap Asks(q, p) # {}}
    BY <1>1, <2>1 DEF WalkedFaces
  <2>6. dofdone[p]' = UNION {FaceDof[g] : g \in InterProcessFaces[p] \ todo[p]'}
    BY <1>1, <1>2, <2>1 DEF WalkedFaces
  <2>. QED BY <1>1, <1>2, <2>1, <2>2, <2>3, <2>4, <2>5, <2>6 DEF WalkedFaces, Walked
<1>8. ASSUME NEW q \in Rank, q # p PROVE WalkedFaces(q)'
  <2>1. WalkedFaces(q)
    BY <1>1 DEF WalkInv
  <2>2. /\ pc[q]' = pc[q] /\ todo[q]' = todo[q] /\ dofdone[q]' = dofdone[q]
        /\ dofIsGhost[q]' = dofIsGhost[q] /\ listToSend[q]' = listToSend[q]
        /\ procRecvData[q]' = procRecvData[q]
    BY <1>4, <1>8 DEF WalkInv, WalkType
  <2>. QED BY <2>1, <2>2 DEF WalkedFaces, Walked
<1>. QED BY <1>1, <1>6, <1>7, <1>8 DEF WalkInv

(* A rank that only moves on in its program keeps its lists                *)
LEMMA WalkMove ==
  ASSUME WalkInv, NEW p \in Rank, NEW to \in Phase,
         pc' = [pc EXCEPT ![p] = to],
         UNCHANGED <<dofdone, dofIsGhost, listToSend, procRecvData>>,
         todo' \in [Rank -> SUBSET Face],
         \A q \in Rank \ {p} : todo'[q] = todo[q],
         IF LooksP0Continuous THEN NoWalk(p)' ELSE WalkedFaces(p)'
  PROVE  WalkInv'
<1>1. WalkType'
  BY DEF WalkInv, WalkType
<1>2. ASSUME NEW q \in Rank, q # p
      PROVE  IF LooksP0Continuous THEN NoWalk(q)' ELSE WalkedFaces(q)'
  <2>1. /\ pc[q]' = pc[q] /\ todo[q]' = todo[q] /\ dofdone[q]' = dofdone[q]
        /\ dofIsGhost[q]' = dofIsGhost[q] /\ listToSend[q]' = listToSend[q]
        /\ procRecvData[q]' = procRecvData[q]
    BY <1>2 DEF WalkInv, WalkType
  <2>2. CASE LooksP0Continuous
    <3>1. NoWalk(q)
      BY <2>2 DEF WalkInv
    <3>. QED BY <2>1, <2>2, <3>1 DEF NoWalk, Table
  <2>3. CASE ~LooksP0Continuous
    <3>1. WalkedFaces(q)
      BY <2>3 DEF WalkInv
    <3>. QED BY <2>1, <2>3, <3>1 DEF WalkedFaces, Walked
  <2>. QED BY <2>2, <2>3
<1>. QED BY <1>1, <1>2 DEF WalkInv

(* After the walk nothing but the place in the program changes             *)
LEMMA WalkPast ==
  ASSUME WalkInv, NEW p \in Rank, Walked(p), pc[p] # "done",
         NEW to \in Phase \ {"build", "walk"},
         to \in {"gather", "post", "waitRequests", "waitAnswers"}
           => Continuous /\ HasFaceDof,
         pc' = [pc EXCEPT ![p] = to],
         UNCHANGED walkVars
  PROVE  WalkInv'
<1>1. ~LooksP0Continuous /\ WalkedFaces(p)
  BY DEF WalkInv, NoWalk, Walked
<1>2. pc[p]' = to /\ to \in Phase
  BY DEF WalkInv, WalkType
<1>3. WalkedFaces(p)'
  BY <1>1, <1>2 DEF WalkedFaces, walkVars, Walked
<1>4. /\ UNCHANGED <<dofdone, dofIsGhost, listToSend, procRecvData>>
      /\ todo' \in [Rank -> SUBSET Face]
      /\ \A q \in Rank \ {p} : todo'[q] = todo[q]
  BY DEF walkVars, WalkInv, WalkType
<1>. QED BY <1>1, <1>2, <1>3, <1>4, WalkMove

LEMMA WalkStutter ==
  ASSUME WalkInv, UNCHANGED <<pc, walkVars>> PROVE WalkInv'
<1>1. WalkType'
  BY DEF WalkInv, WalkType, walkVars
<1>2. ASSUME NEW p \in Rank, LooksP0Continuous PROVE NoWalk(p)'
  <2>1. NoWalk(p)
    BY <1>2 DEF WalkInv
  <2>. QED BY <2>1 DEF NoWalk, walkVars, Table
<1>3. ASSUME NEW p \in Rank, ~LooksP0Continuous PROVE WalkedFaces(p)'
  <2>1. WalkedFaces(p)
    BY <1>3 DEF WalkInv
  <2>. QED BY <2>1 DEF WalkedFaces, walkVars, Walked
<1>. QED BY <1>1, <1>2, <1>3 DEF WalkInv

LEMMA WalkNext ==
  ASSUME RegularSpace, WalkInv, [Next]_vars PROVE WalkInv'
<1>1. CASE UNCHANGED vars
  BY <1>1, WalkStutter DEF vars
<1>2. ASSUME NEW p \in Rank, Step(p) PROVE WalkInv'
  <2>1. CASE LooksP0Continuous /\ BuildP0Continuous(p)
    <3>1. NoWalk(p)'
      BY <2>1 DEF BuildP0Continuous, Go, WalkInv, NoWalk, walkVars, Table, WalkType
    <3>. QED BY <2>1, <3>1, WalkMove
         DEF BuildP0Continuous, Go, walkVars, Phase, WalkInv, WalkType
  <2>2. CASE ~LooksP0Continuous /\ Continuous /\ BuildContinuous(p)
    <3>1. ~LooksP0Continuous /\ Continuous /\ HasFaceDof /\ pc' = [pc EXCEPT ![p] = "walk"]
          /\ pc[p] = "build"
      BY <2>2 DEF BuildContinuous, Go, RegularSpace
    <3>2. WalkedFaces(p) /\ WalkType
      BY <3>1 DEF WalkInv
    <3>3. /\ pc[p]' = "walk"
          /\ todo[p]' = InterProcessFaces[p]
          /\ UNCHANGED <<dofdone, dofIsGhost, listToSend, procRecvData>>
          /\ dofdone[p]' = {}
      BY <2>2, <3>1, <3>2 DEF BuildContinuous, WalkType, WalkedFaces
    <3>4. dofdone[p]' = UNION {FaceDof[f] : f \in InterProcessFaces[p] \ todo[p]'}
      BY <3>3
    <3>5. WalkedFaces(p)'
      BY <3>1, <3>2, <3>3, <3>4 DEF WalkedFaces, Walked
    <3>6. todo' \in [Rank -> SUBSET Face] /\ \A q \in Rank \ {p} : todo'[q] = todo[q]
      BY <2>2, <3>2 DEF BuildContinuous, WalkType, InterProcessFaces
    <3>. QED BY <3>1, <3>3, <3>5, <3>6, WalkMove DEF Phase
  <2>3. CASE ~LooksP0Continuous /\ ~Continuous /\ BuildDiscontinuous(p)
    <3>1. /\ ~LooksP0Continuous /\ ~Continuous
          /\ pc' = [pc EXCEPT ![p] = "ranges"] /\ pc[p] = "build"
          /\ UNCHANGED walkVars
      BY <2>3 DEF BuildDiscontinuous, Go
    <3>2. WalkedFaces(p) /\ WalkType
      BY <3>1 DEF WalkInv
    <3>3. pc[p]' = "ranges" /\ dofdone[p] = {} /\ Shared(p) = {}
      BY <3>1, <3>2, NothingShared DEF WalkType, WalkedFaces
    <3>4. WalkedFaces(p)'
      BY <3>1, <3>2, <3>3 DEF WalkedFaces, walkVars, Walked
    <3>5. /\ UNCHANGED <<dofdone, dofIsGhost, listToSend, procRecvData>>
          /\ todo' \in [Rank -> SUBSET Face]
          /\ \A q \in Rank \ {p} : todo'[q] = todo[q]
      BY <3>1, <3>2 DEF walkVars, WalkType
    <3>. QED BY <3>1, <3>4, <3>5, WalkMove DEF Phase
  <2>4. CASE \E f \in Face : WalkFace(p, f)
    BY <2>4, WalkFaceStep
  <2>5. CASE EnterGather(p)
    <3>1. /\ todo[p] = {} /\ pc[p] = "walk"
          /\ pc' = [pc EXCEPT ![p] = "gather"]
          /\ UNCHANGED walkVars
      BY <2>5 DEF EnterGather, Go
    <3>2. ~LooksP0Continuous /\ WalkedFaces(p) /\ WalkType
      BY <3>1 DEF WalkInv, NoWalk
    <3>3. pc[p]' = "gather" /\ Continuous /\ HasFaceDof
          /\ dofdone[p] = UNION {FaceDof[f] : f \in InterProcessFaces[p]}
      BY <3>1, <3>2 DEF WalkType, WalkedFaces
    <3>4. dofdone[p] = Shared(p)
      BY <3>3, SharedOnFaces
    <3>5. WalkedFaces(p)'
      BY <3>1, <3>2, <3>3, <3>4 DEF WalkedFaces, walkVars, Walked
    <3>6. /\ UNCHANGED <<dofdone, dofIsGhost, listToSend, procRecvData>>
          /\ todo' \in [Rank -> SUBSET Face]
          /\ \A q \in Rank \ {p} : todo'[q] = todo[q]
      BY <3>1, <3>2 DEF walkVars, WalkType
    <3>. QED BY <3>1, <3>2, <3>5, <3>6, WalkMove DEF Phase
  <2>6. CASE LeaveGather(p)
    BY <2>6, WalkPast DEF LeaveGather, Go, Phase, Walked
  <2>7. CASE RangeStep(p)
    BY <2>7, WalkStutter DEF RangeStep
  <2>8. CASE NumberActif(p)
    <3>1. ~LooksP0Continuous
      BY <2>8 DEF NumberActif, Go, WalkInv, NoWalk
    <3>. QED BY <2>8, <3>1, WalkPast DEF NumberActif, Go, Phase, Walked, RegularSpace
  <2>9. CASE NothingToExchange(p)
    BY <2>9, WalkPast DEF NothingToExchange, Go, Phase, Walked
  <2>10. CASE PostRequests(p)
    <3>1. Continuous /\ HasFaceDof
      BY <2>10 DEF PostRequests, Go, WalkInv, NoWalk, WalkedFaces
    <3>. QED BY <2>10, <3>1, WalkPast DEF PostRequests, Go, Phase, Walked
  <2>11. CASE \E q \in Rank : RecvRequest(p, q)
    BY <2>11, WalkStutter DEF RecvRequest
  <2>12. CASE SendAnswers(p)
    <3>1. Continuous /\ HasFaceDof
      BY <2>12 DEF SendAnswers, Go, WalkInv, NoWalk, WalkedFaces
    <3>. QED BY <2>12, <3>1, WalkPast DEF SendAnswers, Go, Phase, Walked
  <2>13. CASE \E q \in Rank : RecvAnswer(p, q)
    BY <2>13, WalkStutter DEF RecvAnswer
  <2>14. CASE UpdateGhosts(p)
    BY <2>14, WalkPast DEF UpdateGhosts, Go, Phase, Walked
  <2>15. CASE LocalToGlobalOnCluster(p)
    BY <2>15, WalkPast DEF LocalToGlobalOnCluster, Go, Phase, Walked
  <2>. QED BY <1>2, <2>1, <2>2, <2>3, <2>4, <2>5, <2>6, <2>7, <2>8, <2>9,
              <2>10, <2>11, <2>12, <2>13, <2>14, <2>15 DEF Step, Build
<1>. QED BY <1>1, <1>2 DEF Next, Finished

(* What the lists of a rank are once it has left the walk                  *)
LEMMA WalkLists ==
  ASSUME WalkInv, ~LooksP0Continuous, NEW p \in Rank, Walked(p)
  PROVE  /\ dofIsGhost[p] = Held[p] \ Owned(p)
         /\ Actif(p) = Owned(p)
         /\ listToSend[p] = [q \in Rank |-> Asks(p, q)]
         /\ Owners(p) = {q \in Rank : Asks(p, q) # {}}
         /\ procRecvData[p] = {q \in Rank : Asks(q, p) # {}}
<1>1. /\ dofIsGhost[p] = Shared(p) \ Owned(p)
      /\ listToSend[p] = [q \in Rank |-> Shared(p) \cap Asks(p, q)]
      /\ procRecvData[p] = {q \in Rank : Shared(p) \cap Asks(q, p) # {}}
  <2>1. WalkedFaces(p)
    BY DEF WalkInv
  <2>. QED BY <2>1 DEF WalkedFaces
<1>2. Held[p] \ Owned(p) = Shared(p) \ Owned(p)
  BY DEF Shared, Owned
<1>3. ASSUME NEW q \in Rank PROVE Asks(p, q) \subseteq Shared(p)
  BY <1>2 DEF Asks
<1>4. ASSUME NEW q \in Rank, NEW d \in Asks(q, p) PROVE d \in Shared(p)
  <2>1. d \in Owned(p) /\ q \in Others(p, d)
    BY AsksDown, AskersOfOwned
  <2>. QED BY <2>1, OwnedType DEF Shared
<1>5. listToSend[p] = [q \in Rank |-> Asks(p, q)]
  <2>1. \A q \in Rank : Shared(p) \cap Asks(p, q) = Asks(p, q)
    BY <1>3
  <2>. QED BY <1>1, <2>1
<1>6. procRecvData[p] = {q \in Rank : Asks(q, p) # {}}
  <2>1. \A q \in Rank : Shared(p) \cap Asks(q, p) = Asks(q, p)
    BY <1>4
  <2>. QED BY <1>1, <2>1
<1>7. dofIsGhost[p] = Held[p] \ Owned(p)
  BY <1>1, <1>2
<1>8. Actif(p) = Owned(p)
  BY <1>7, OwnedType DEF Actif
<1>. QED BY <1>5, <1>6, <1>7, <1>8 DEF Owners

(* Every shared dof has one owner, the same for all the ranks that hold it *)
THEOREM OwnersAgreeAlways ==
  ASSUME RegularSpace PROVE Spec => []OwnersAgree
<1>1. WalkInv => OwnersAgree
  <2> SUFFICES ASSUME WalkInv, NEW p \in Rank, NEW q \in Rank, p # q,
                      Walked(p), Walked(q), ~LooksP0Continuous
               PROVE  /\ Actif(p) \cap Actif(q) = {}
                      /\ listToSend[p][q] \subseteq Actif(q)
    BY DEF OwnersAgree
  <2>1. Actif(p) = Owned(p) /\ Actif(q) = Owned(q) /\ listToSend[p][q] = Asks(p, q)
    BY WalkLists
  <2>. QED BY <2>1, OneOwner, AsksDown
<1>2. Init => WalkInv
  BY WalkInit
<1>3. WalkInv /\ [Next]_vars => WalkInv'
  BY WalkNext
<1>. QED BY <1>1, <1>2, <1>3, PTL DEF Spec

(* Requests and the receives posted for them match, pair by pair           *)
THEOREM RequestsExpectedAlways ==
  ASSUME RegularSpace PROVE Spec => []RequestsExpected
<1>1. WalkInv => RequestsExpected
  <2> SUFFICES ASSUME WalkInv, NEW p \in Rank, NEW q \in Rank, Walked(p), Walked(q)
               PROVE  q \in Owners(p) <=> p \in procRecvData[q]
    BY DEF RequestsExpected
  <2>1. CASE LooksP0Continuous
    BY <2>1 DEF WalkInv, NoWalk, Owners, Table
  <2>2. CASE ~LooksP0Continuous
    <3>1. /\ Owners(p) = {r \in Rank : Asks(p, r) # {}}
          /\ procRecvData[q] = {r \in Rank : Asks(r, q) # {}}
      BY <2>2, WalkLists
    <3>. QED BY <3>1
  <2>. QED BY <2>1, <2>2
<1>2. Init => WalkInv
  BY WalkInit
<1>3. WalkInv /\ [Next]_vars => WalkInv'
  BY WalkNext
<1>. QED BY <1>1, <1>2, <1>3, PTL DEF Spec

-----------------------------------------------------------------------------
(* The ranges of cluster ids                                               *)

(* The rank fills its ranges, or has filled them                           *)
Ranged(p) == pc[p] \notin {"build", "walk", "gather"}

(* The rank has numbered the dofs it owns                                  *)
Numbered(p) == pc[p] \in {"post", "waitRequests", "waitAnswers", "cluster", "done"}

(* Ranges of these first ids follow each other up to rank n                *)
Stacked(first, n) ==
  /\ first[0] = 0
  /\ \A i \in 1 .. n : first[i] = first[i-1] + Sizes[i-1]

LEMMA SizesType ==
  /\ Sizes \in [Rank -> Nat]
  /\ NProc \in Nat /\ NProc > 1
  /\ 0 \in Rank /\ NProc - 1 \in Rank
  /\ \A p \in Rank : p \in Nat /\ p < NProc
  /\ \A i \in 1 .. NProc - 1 : i \in Rank /\ i - 1 \in Rank
<1>1. \A q \in Rank : Cardinality(Owned(q)) \in Nat
  BY OwnedType
<1>2. NProc \in Nat /\ NProc > 1
  BY MeshAssumption
<1>. QED BY <1>1, <1>2 DEF Sizes, Rank

(* Every rank computes the same first ids                                  *)
LEMMA StackedAgree ==
  ASSUME NEW g \in [Rank -> Nat], NEW h \in [Rank -> Nat],
         Stacked(g, NProc - 1), Stacked(h, NProc - 1)
  PROVE  g = h
<1> DEFINE S == {i \in Rank : g[i] # h[i]}
<1>1. S \in SUBSET Nat
  BY SizesType
<1>2. ASSUME S # {} PROVE FALSE
  <2>1. PICK i \in S : \A j \in S : i <= j
    <3> HIDE DEF S
    <3>. QED BY <1>1, <1>2, LeastNatural
  <2>2. i \in Rank /\ g[i] # h[i]
    BY <2>1
  <2>3. i # 0
    BY <2>2 DEF Stacked
  <2>4. i \in 1 .. NProc - 1 /\ i - 1 \in Rank /\ i \in Nat
    BY <2>2, <2>3, SizesType DEF Rank
  <2>5. i - 1 \notin S
    BY <2>1, <2>4
  <2>6. g[i-1] = h[i-1]
    BY <2>4, <2>5
  <2>7. g[i] = g[i-1] + Sizes[i-1] /\ h[i] = h[i-1] + Sizes[i-1]
    BY <2>4 DEF Stacked
  <2>. QED BY <2>2, <2>6, <2>7
<1>. QED BY <1>2

(* The range of a rank ends before those of the higher ranks start         *)
LEMMA StackedOrder ==
  ASSUME NEW g \in [Rank -> Nat], Stacked(g, NProc - 1),
         NEW r \in Rank, NEW s \in Rank, r < s
  PROVE  g[r] + Sizes[r] <= g[s]
<1> DEFINE S == {i \in Rank : r < i /\ ~ (g[r] + Sizes[r] <= g[i])}
<1>1. S \in SUBSET Nat
  BY SizesType
<1>2. ASSUME S # {} PROVE FALSE
  <2>1. PICK i \in S : \A j \in S : i <= j
    <3> HIDE DEF S
    <3>. QED BY <1>1, <1>2, LeastNatural
  <2>2. i \in Rank /\ r < i /\ ~ (g[r] + Sizes[r] <= g[i])
    BY <2>1
  <2>3. i \in 1 .. NProc - 1 /\ i - 1 \in Rank /\ i \in Nat /\ r \in Nat
    BY <2>2, SizesType DEF Rank
  <2>4. g[i] = g[i-1] + Sizes[i-1]
    BY <2>3 DEF Stacked
  <2>5. /\ g[r] \in Nat /\ g[i-1] \in Nat /\ g[i] \in Nat
        /\ Sizes[r] \in Nat /\ Sizes[i-1] \in Nat
    BY <2>3, <2>2, SizesType
  <2>6. r # i - 1
    BY <2>2, <2>4, <2>5
  <2>7. i - 1 \notin S
    BY <2>1, <2>3
  <2>8. g[r] + Sizes[r] <= g[i-1]
    BY <2>2, <2>3, <2>6, <2>7
  <2>. QED BY <2>2, <2>4, <2>5, <2>8
<1>. QED BY <1>2

-----------------------------------------------------------------------------
RangeType ==
  /\ gathered \in [Rank -> Id]
  /\ nWithoutGhost \in [Rank -> [Rank -> Nat]]
  /\ nDofs \in [Rank -> Nat]
  /\ firstDf \in [Rank -> [Rank -> Nat]]
  /\ lastDf \in [Rank -> [Rank -> Nat]]
  /\ cpt \in [Rank -> 0 .. NProc]

(* The tables of a rank that fills its ranges                              *)
Ranges(p) ==
  /\ nWithoutGhost[p] = Sizes
  /\ cpt[p] \in 1 .. NProc
  /\ Stacked(firstDf[p], cpt[p] - 1)
  /\ \A i \in 0 .. cpt[p] - 1 : lastDf[p][i] = LastFrom(Sizes, firstDf[p][i], i)
  /\ nDofs[p] = firstDf[p][cpt[p] - 1] + Sizes[cpt[p] - 1]
  /\ Continuous => \A q \in Rank : Walked(q)

RankRange(p) ==
  /\ gathered[p] # Invalid => Walked(p) /\ gathered[p] = Sizes[p]
  /\ Ranged(p) => Ranges(p)
  /\ Numbered(p) => cpt[p] = NProc

RangeInv ==
  /\ RangeType
  /\ ~LooksP0Continuous => \A p \in Rank : RankRange(p)

LEMMA RangeInit == ASSUME Init PROVE RangeInv
<1>1. RangeType
  <2>1. HeldCount \in [Rank -> Nat]
    BY HeldType DEF HeldCount
  <2>2. HeldLast \in [Rank -> Nat]
    BY <2>1 DEF HeldLast
  <2>3. /\ OfItself(HeldCount) \in [Rank -> [Rank -> Nat]]
        /\ OfItself(HeldLast) \in [Rank -> [Rank -> Nat]]
    BY <2>1, <2>2 DEF OfItself
  <2>4. nWithoutGhost = OfItself(HeldCount) /\ nDofs = HeldCount /\ lastDf = OfItself(HeldLast)
    BY DEF Init
  <2>5. /\ gathered \in [Rank -> Id] /\ firstDf \in [Rank -> [Rank -> Nat]]
        /\ cpt \in [Rank -> 0 .. NProc]
    BY SizesType DEF Init, PerRank, Table, Id, Invalid
  <2>. QED
    BY <2>1, <2>3, <2>4, <2>5, Zenon DEF RangeType
<1>2. ASSUME NEW p \in Rank PROVE RankRange(p)
  BY DEF Init, RankRange, PerRank, Ranged, Numbered
<1>. QED BY <1>1, <1>2 DEF RangeInv

(* The sizes that a discontinuous space, or the all_gather, is given       *)
LEMMA HeldSizes ==
  ASSUME ~Continuous
  PROVE  [q \in Rank |-> Cardinality(Held[q])] = Sizes
<1>1. ASSUME NEW q \in Rank PROVE Held[q] = Owned(q)
  BY NothingShared DEF Owned, Shared
<1>. QED BY <1>1 DEF Sizes

LEMMA GatheredSize ==
  ASSUME WalkInv, ~LooksP0Continuous, NEW p \in Rank, pc[p] = "walk", todo[p] = {}
  PROVE  Cardinality(Held[p]) - Cardinality(dofIsGhost[p]) = Sizes[p]
<1>1. WalkedFaces(p)
  BY DEF WalkInv
<1>2. dofdone[p] = Shared(p) /\ dofIsGhost[p] = dofdone[p] \ Owned(p)
  BY <1>1, SharedOnFaces DEF WalkedFaces
<1>3. dofIsGhost[p] = Held[p] \ Owned(p) /\ Owned(p) \subseteq Held[p]
  BY <1>2 DEF Shared, Owned
<1>4. /\ IsFiniteSet(Held[p]) /\ IsFiniteSet(Owned(p)) /\ IsFiniteSet(Held[p] \ Owned(p))
      /\ Cardinality(Owned(p)) \in Nat /\ Cardinality(Held[p] \ Owned(p)) \in Nat
  BY HeldType, OwnedType, FS_Subset, FS_CardinalityType
<1>5. Cardinality(Held[p]) = Cardinality(Owned(p)) + Cardinality(Held[p] \ Owned(p))
  <2>1. Held[p] = Owned(p) \cup (Held[p] \ Owned(p))
        /\ Owned(p) \cap (Held[p] \ Owned(p)) = {}
    BY <1>3
  <2>2. Cardinality(Owned(p) \cup (Held[p] \ Owned(p)))
          = Cardinality(Owned(p)) + Cardinality(Held[p] \ Owned(p))
              - Cardinality(Owned(p) \cap (Held[p] \ Owned(p)))
    BY <1>4, FS_Union
  <2>3. Cardinality(Owned(p) \cap (Held[p] \ Owned(p))) = 0
    BY <2>1, FS_EmptySet, Zenon
  <2>4. Cardinality(Held[p]) = Cardinality(Owned(p) \cup (Held[p] \ Owned(p)))
    BY <2>1, Zenon
  <2> DEFINE a == Cardinality(Owned(p))
             b == Cardinality(Held[p] \ Owned(p))
  <2>5. a \in Nat /\ b \in Nat /\ Cardinality(Held[p]) = a + b - 0
    BY <2>2, <2>3, <2>4, <1>4, Zenon
  <2> HIDE DEF a, b
  <2>6. Cardinality(Held[p]) = a + b
    BY <2>5
  <2>. QED BY <2>6 DEF a, b
<1>. QED BY <1>3, <1>4, <1>5 DEF Sizes

(* The other ranks keep their tables and no rank goes back to its walk     *)
LEMMA RangeMove ==
  ASSUME RangeInv, NEW p \in Rank,
         \A q \in Rank : Walked(q) => Walked(q)',
         \A q \in Rank \ {p} : pc'[q] = pc[q] /\ gathered'[q] = gathered[q],
         \A q \in Rank \ {p} :
            /\ nWithoutGhost'[q] = nWithoutGhost[q] /\ nDofs'[q] = nDofs[q]
            /\ firstDf'[q] = firstDf[q] /\ lastDf'[q] = lastDf[q] /\ cpt'[q] = cpt[q],
         RangeType', ~LooksP0Continuous => RankRange(p)'
  PROVE  RangeInv'
<1> SUFFICES ASSUME ~LooksP0Continuous, NEW q \in Rank \ {p}
             PROVE  RankRange(q)'
  BY DEF RangeInv
<1>1. RankRange(q)
  BY DEF RangeInv
<1>2. Ranged(q)' => Ranges(q)'
  BY <1>1 DEF RankRange, Ranged, Ranges, Stacked
<1>. QED BY <1>1, <1>2 DEF RankRange, Numbered

(* The tables of a rank whose place in the program alone changes           *)
LEMMA RangeStutter ==
  ASSUME RangeInv, NEW p \in Rank, NEW to \in Phase,
         pc' = pc \/ (~LooksP0Continuous /\ Numbered(p)
                         /\ to \notin {"build", "walk", "gather", "ranges"}
                         /\ pc' = [pc EXCEPT ![p] = to]),
         pc \in [Rank -> Phase],
         UNCHANGED rangeVars
  PROVE  RangeInv'
<1>1. RangeType'
  BY DEF RangeInv, RangeType, rangeVars
<1>2. ASSUME NEW q \in Rank
      PROVE  /\ Walked(q) => Walked(q)'
             /\ Ranged(q)' <=> Ranged(q)
             /\ Numbered(q)' <=> Numbered(q)
  BY DEF Walked, Ranged, Numbered, Phase
<1>3. ASSUME ~LooksP0Continuous, NEW q \in Rank PROVE RankRange(q)'
  <2>1. RankRange(q)
    BY <1>3 DEF RangeInv
  <2>2. Ranged(q)' => Ranges(q)'
    BY <2>1, <1>2 DEF RankRange, Ranges, Stacked, rangeVars
  <2>. QED BY <2>1, <2>2, <1>2 DEF RankRange, rangeVars
<1>. QED BY <1>1, <1>3 DEF RangeInv

(* The first turn of the loop, from a table of the sizes                   *)
LEMMA RangesStart ==
  ASSUME RangeInv, WalkType, NEW p \in Rank, ~LooksP0Continuous,
         pc' = [pc EXCEPT ![p] = "ranges"],
         pc[p] \in {"build", "gather"},
         UNCHANGED gathered,
         StartRanges(p, Sizes),
         Continuous => \A q \in Rank : Walked(q)
  PROVE  RangeInv'
<1>1. /\ nWithoutGhost' = [nWithoutGhost EXCEPT ![p] = Sizes]
      /\ nDofs' = [nDofs EXCEPT ![p] = Sizes[0]]
      /\ firstDf' = [firstDf EXCEPT ![p][0] = 0]
      /\ lastDf' = [lastDf EXCEPT ![p][0] = IF Sizes[0] > 0 THEN Sizes[0] - 1 ELSE 0]
      /\ cpt' = [cpt EXCEPT ![p] = 1]
  BY DEF StartRanges
<1>2. RangeType
  BY DEF RangeInv
<1>3. Sizes \in [Rank -> Nat] /\ 0 \in Rank /\ NProc \in Nat /\ NProc > 1
  BY SizesType
<1>4. RangeType'
  <2>1. (IF Sizes[0] > 0 THEN Sizes[0] - 1 ELSE 0) \in Nat /\ Sizes[0] \in Nat
    BY <1>3
  <2>2. nWithoutGhost' \in [Rank -> [Rank -> Nat]] /\ nDofs' \in [Rank -> Nat]
        /\ cpt' \in [Rank -> 0 .. NProc] /\ gathered' \in [Rank -> Id]
    BY <1>1, <1>2, <1>3, <2>1 DEF RangeType
  <2>3. firstDf' \in [Rank -> [Rank -> Nat]]
    BY <1>1, <1>2, <1>3 DEF RangeType
  <2>4. lastDf' \in [Rank -> [Rank -> Nat]]
    BY <1>1, <1>2, <1>3, <2>1 DEF RangeType
  <2>. QED BY <2>2, <2>3, <2>4 DEF RangeType
<1>5. \A q \in Rank : Walked(q) => Walked(q)'
  BY DEF WalkType, Walked
<1>6. /\ pc'[p] = "ranges" /\ nWithoutGhost'[p] = Sizes /\ nDofs'[p] = Sizes[0]
      /\ firstDf'[p][0] = 0 /\ cpt'[p] = 1
      /\ lastDf'[p][0] = IF Sizes[0] > 0 THEN Sizes[0] - 1 ELSE 0
  BY <1>1, <1>2, <1>3 DEF WalkType, RangeType
<1>7. RankRange(p)'
  <2>1. Stacked(firstDf[p], cpt[p] - 1)'
    BY <1>6 DEF Stacked
  <2>2. \A i \in 0 .. 0 : lastDf'[p][i] = LastFrom(Sizes, firstDf'[p][i], i)
    BY <1>3, <1>6 DEF LastFrom
  <2>3. Ranges(p)'
    BY <1>3, <1>5, <1>6, <2>1, <2>2 DEF Ranges
  <2>4. gathered[p] # Invalid => Walked(p) /\ gathered[p] = Sizes[p]
    BY DEF RangeInv, RankRange
  <2>. QED BY <1>5, <1>6, <2>3, <2>4 DEF RankRange, Numbered
<1>8. \A q \in Rank \ {p} :
         /\ pc'[q] = pc[q] /\ gathered'[q] = gathered[q]
         /\ nWithoutGhost'[q] = nWithoutGhost[q] /\ nDofs'[q] = nDofs[q]
         /\ firstDf'[q] = firstDf[q] /\ lastDf'[q] = lastDf[q] /\ cpt'[q] = cpt[q]
  BY <1>1, <1>2 DEF WalkType, RangeType
<1>. QED BY <1>4, <1>5, <1>7, <1>8, RangeMove

(* One more turn                                                           *)
LEMMA RangesContinue ==
  ASSUME RangeInv, WalkInv, NEW p \in Rank, RangeStep(p) PROVE RangeInv'
<1> DEFINE i == cpt[p]
           first == FirstAfter(nWithoutGhost[p], lastDf[p], i)
           last == LastFrom(nWithoutGhost[p], first, i)
<1>1. /\ pc[p] = "ranges" /\ i < NProc
      /\ firstDf' = [firstDf EXCEPT ![p][i] = first]
      /\ lastDf' = [lastDf EXCEPT ![p][i] = last]
      /\ nDofs' = [nDofs EXCEPT ![p] = @ + nWithoutGhost[p][i]]
      /\ cpt' = [cpt EXCEPT ![p] = i + 1]
      /\ UNCHANGED <<pc, gathered, nWithoutGhost>>
  BY DEF RangeStep
<1>2. RangeType /\ ~LooksP0Continuous /\ RankRange(p) /\ WalkType
  BY <1>1 DEF RangeInv, WalkInv, NoWalk
<1>3. Ranges(p) /\ Ranged(p)
  BY <1>1, <1>2 DEF RankRange, Ranged
<1>4. i \in 1 .. NProc - 1 /\ i \in Rank /\ i - 1 \in Rank /\ i \in Nat
  BY <1>1, <1>3, SizesType DEF Ranges
<1>5. /\ nWithoutGhost[p] = Sizes
      /\ lastDf[p][i-1] = LastFrom(Sizes, firstDf[p][i-1], i-1)
      /\ Sizes[i] \in Nat /\ Sizes[i-1] \in Nat /\ firstDf[p][i-1] \in Nat
  <2>1. nWithoutGhost[p] = Sizes
    BY <1>3 DEF Ranges
  <2>2. i - 1 \in 0 .. cpt[p] - 1
    BY <1>4
  <2>3. lastDf[p][i-1] = LastFrom(Sizes, firstDf[p][i-1], i-1)
    BY <1>3, <2>2 DEF Ranges
  <2>4. Sizes[i] \in Nat /\ Sizes[i-1] \in Nat
    BY <1>4, SizesType
  <2>5. firstDf[p][i-1] \in Nat
    BY <1>2, <1>4 DEF RangeType
  <2>. QED BY <2>1, <2>3, <2>4, <2>5
<1>6. first = firstDf[p][i-1] + Sizes[i-1] /\ first \in Nat
  BY <1>5 DEF FirstAfter, LastFrom
<1>7. last = LastFrom(Sizes, first, i) /\ last \in Nat
  BY <1>5, <1>6 DEF LastFrom
<1> HIDE DEF first, last
<1>8. /\ firstDf'[p] = [firstDf[p] EXCEPT ![i] = first]
      /\ lastDf'[p] = [lastDf[p] EXCEPT ![i] = last]
      /\ nDofs'[p] = nDofs[p] + Sizes[i]
      /\ cpt'[p] = i + 1
      /\ pc'[p] = "ranges" /\ gathered'[p] = gathered[p] /\ nWithoutGhost'[p] = Sizes
  BY <1>1, <1>2, <1>5 DEF RangeType
<1>9. firstDf[p] \in [Rank -> Nat] /\ lastDf[p] \in [Rank -> Nat] /\ nDofs[p] \in Nat
  BY <1>2 DEF RangeType
<1>10. RangeType'
  <2>1. firstDf' \in [Rank -> [Rank -> Nat]]
    BY <1>1, <1>2, <1>4, <1>6 DEF RangeType
  <2>2. lastDf' \in [Rank -> [Rank -> Nat]]
    BY <1>1, <1>2, <1>4, <1>7 DEF RangeType
  <2>3. i + 1 \in 0 .. NProc /\ nDofs[p] + nWithoutGhost[p][i] \in Nat
    BY <1>4, <1>5, <1>9, SizesType
  <2>4. nDofs' \in [Rank -> Nat] /\ cpt' \in [Rank -> 0 .. NProc]
    BY <1>1, <1>2, <2>3 DEF RangeType
  <2>. QED BY <1>1, <1>2, <2>1, <2>2, <2>4 DEF RangeType
<1>11. Stacked(firstDf'[p], i)
  <2>1. firstDf'[p][0] = 0
    BY <1>3, <1>4, <1>8, <1>9, SizesType DEF Ranges, Stacked
  <2>2. ASSUME NEW j \in 1 .. i
        PROVE  firstDf'[p][j] = firstDf'[p][j-1] + Sizes[j-1]
    <3>1. CASE j = i
      BY <3>1, <1>4, <1>6, <1>8, <1>9
    <3>2. CASE j # i
      <4>1. j \in 1 .. i - 1 /\ j \in Rank /\ j - 1 \in Rank /\ j # i /\ j - 1 # i
        BY <3>2, <1>4, SizesType DEF Rank
      <4>2. firstDf[p][j] = firstDf[p][j-1] + Sizes[j-1]
        BY <4>1, <1>3 DEF Ranges, Stacked
      <4>. QED BY <4>1, <4>2, <1>8, <1>9
    <3>. QED BY <3>1, <3>2
  <2>. QED BY <2>1, <2>2 DEF Stacked
<1>12. \A j \in 0 .. i : lastDf'[p][j] = LastFrom(Sizes, firstDf'[p][j], j)
  <2> SUFFICES ASSUME NEW j \in 0 .. i
               PROVE  lastDf'[p][j] = LastFrom(Sizes, firstDf'[p][j], j)
    OBVIOUS
  <2>1. CASE j = i
    BY <2>1, <1>4, <1>7, <1>8, <1>9
  <2>2. CASE j # i
    <3>1. j \in 0 .. i - 1 /\ j \in Rank
      BY <2>2, <1>4, SizesType DEF Rank
    <3>2. lastDf[p][j] = LastFrom(Sizes, firstDf[p][j], j)
      BY <3>1, <1>3 DEF Ranges
    <3>3. lastDf'[p][j] = lastDf[p][j] /\ firstDf'[p][j] = firstDf[p][j]
      BY <3>1, <2>2, <1>8, <1>9
    <3>. QED BY <3>2, <3>3
  <2>. QED BY <2>1, <2>2
<1>13. nDofs'[p] = firstDf'[p][i] + Sizes[i]
  <2>1. nDofs[p] = first
    BY <1>3, <1>6 DEF Ranges
  <2>. QED BY <2>1, <1>4, <1>8, <1>9
<1>14. \A q \in Rank : Walked(q) => Walked(q)'
  BY <1>1 DEF Walked
<1>15. cpt'[p] - 1 = i /\ cpt'[p] \in 1 .. NProc
  BY <1>4, <1>8, SizesType
<1>16. Ranges(p)'
  <2> HIDE DEF i
  <2>. QED BY <1>3, <1>8, <1>11, <1>12, <1>13, <1>14, <1>15 DEF Ranges
<1>17. RankRange(p)'
  BY <1>2, <1>8, <1>14, <1>16 DEF RankRange, Numbered
<1>18. \A q \in Rank \ {p} :
          /\ pc'[q] = pc[q] /\ gathered'[q] = gathered[q]
          /\ nWithoutGhost'[q] = nWithoutGhost[q] /\ nDofs'[q] = nDofs[q]
          /\ firstDf'[q] = firstDf[q] /\ lastDf'[q] = lastDf[q] /\ cpt'[q] = cpt[q]
  BY <1>1, <1>2 DEF RangeType
<1>. QED BY <1>10, <1>14, <1>17, <1>18, RangeMove

LEMMA RangeNext ==
  ASSUME RegularSpace, WalkInv, RangeInv, [Next]_vars PROVE RangeInv'
<1>0. pc \in [Rank -> Phase] /\ WalkType
  BY DEF WalkInv, WalkType
<1>1. CASE UNCHANGED vars
  <2>1. 0 \in Rank /\ "done" \in Phase /\ pc' = pc /\ UNCHANGED rangeVars
    BY <1>1, SizesType DEF vars, Phase
  <2>. QED BY <2>1, <1>0, RangeStutter
<1>2. ASSUME NEW p \in Rank, Step(p) PROVE RangeInv'
  <2>1. CASE LooksP0Continuous /\ BuildP0Continuous(p)
    <3>1. /\ LooksP0Continuous /\ UNCHANGED <<gathered, nDofs, cpt>>
          /\ nWithoutGhost' =
               [nWithoutGhost EXCEPT ![p] = [q \in Rank |-> IF q = 0 THEN 1 ELSE 0]]
          /\ firstDf' = [firstDf EXCEPT ![p] = [q \in Rank |-> IF q = 0 THEN 0 ELSE 25]]
          /\ lastDf' = [lastDf EXCEPT ![p] = [q \in Rank |-> IF q = 0 THEN 0 ELSE 25]]
      BY <2>1 DEF BuildP0Continuous
    <3>2. RangeType
      BY DEF RangeInv
    <3>. QED BY <3>1, <3>2 DEF RangeInv, RangeType
  <2>2. CASE ~LooksP0Continuous /\ Continuous /\ BuildContinuous(p)
    <3>1. ~LooksP0Continuous /\ pc[p] = "build" /\ UNCHANGED rangeVars
          /\ pc' = [pc EXCEPT ![p] = "walk"]
      BY <2>2 DEF BuildContinuous, Go, RegularSpace
    <3>2. RangeType'
      BY <3>1 DEF RangeInv, RangeType, rangeVars
    <3>3. RankRange(p)'
      BY <1>0, <3>1 DEF RangeInv, RankRange, Ranged, Numbered, Walked, rangeVars
    <3>4. \A q \in Rank : Walked(q) => Walked(q)'
      BY <1>0, <3>1 DEF Walked
    <3>. QED BY <1>0, <3>1, <3>2, <3>3, <3>4, RangeMove DEF rangeVars
  <2>3. CASE ~LooksP0Continuous /\ ~Continuous /\ BuildDiscontinuous(p)
    <3>1. /\ ~LooksP0Continuous /\ ~Continuous
          /\ pc' = [pc EXCEPT ![p] = "ranges"] /\ pc[p] = "build"
          /\ UNCHANGED gathered
          /\ StartRanges(p, Sizes)
      BY <2>3, HeldSizes DEF BuildDiscontinuous, Go
    <3>. QED BY <1>0, <3>1, RangesStart
  <2>4. CASE \E f \in Face : WalkFace(p, f)
    BY <2>4, <1>0, RangeStutter DEF WalkFace, Phase
  <2>5. CASE EnterGather(p)
    <3>1. /\ todo[p] = {} /\ pc[p] = "walk"
          /\ pc' = [pc EXCEPT ![p] = "gather"]
          /\ gathered' = [gathered EXCEPT ![p] =
               Cardinality(Held[p]) - Cardinality(dofIsGhost[p])]
          /\ UNCHANGED <<nWithoutGhost, nDofs, firstDf, lastDf, cpt>>
      BY <2>5 DEF EnterGather, Go
    <3>2. ~LooksP0Continuous
      BY <3>1 DEF WalkInv, NoWalk
    <3>3. gathered' = [gathered EXCEPT ![p] = Sizes[p]] /\ Sizes[p] \in Nat
      BY <3>1, <3>2, GatheredSize, SizesType
    <3>4. RangeType'
      BY <3>1, <3>3 DEF RangeInv, RangeType, Id
    <3>5. pc'[p] = "gather" /\ gathered'[p] = Sizes[p]
      BY <1>0, <3>1, <3>3 DEF RangeInv, RangeType
    <3>6. RankRange(p)'
      BY <3>5 DEF RankRange, Ranged, Numbered, Walked
    <3>7. \A q \in Rank : Walked(q) => Walked(q)'
      BY <1>0, <3>1 DEF Walked
    <3>8. \A q \in Rank \ {p} : gathered'[q] = gathered[q] /\ pc'[q] = pc[q]
      BY <1>0, <3>1, <3>3 DEF RangeInv, RangeType
    <3>. QED BY <3>1, <3>4, <3>6, <3>7, <3>8, RangeMove
  <2>6. CASE LeaveGather(p)
    <3>1. /\ pc[p] = "gather" /\ pc' = [pc EXCEPT ![p] = "ranges"]
          /\ \A q \in Rank : gathered[q] # Invalid
          /\ StartRanges(p, gathered)
          /\ UNCHANGED gathered
      BY <2>6 DEF LeaveGather, Go
    <3>2. ~LooksP0Continuous
      BY <3>1 DEF WalkInv, NoWalk
    <3>3. \A q \in Rank : Walked(q) /\ gathered[q] = Sizes[q]
      BY <3>1, <3>2 DEF RangeInv, RankRange
    <3>4. gathered = Sizes
      <4>1. gathered = [q \in Rank |-> gathered[q]]
        BY DEF RangeInv, RangeType
      <4>2. Sizes = [q \in Rank |-> Sizes[q]]
        BY DEF Sizes
      <4>. QED BY <3>3, <4>1, <4>2
    <3>. QED BY <1>0, <3>1, <3>2, <3>3, <3>4, RangesStart
  <2>7. CASE RangeStep(p)
    BY <2>7, RangesContinue
  <2>8. CASE NumberActif(p)
    <3>1. /\ pc[p] = "ranges" /\ cpt[p] = NProc /\ UNCHANGED rangeVars
          /\ pc' = [pc EXCEPT ![p] = IF Continuous THEN "post" ELSE "cluster"]
      BY <2>8 DEF NumberActif, Go
    <3>2. ~LooksP0Continuous
      BY <3>1 DEF WalkInv, NoWalk
    <3>3. RangeType'
      BY <3>1 DEF RangeInv, RangeType, rangeVars
    <3>4. \A q \in Rank : Walked(q) => Walked(q)'
      BY <1>0, <3>1 DEF Walked
    <3>5. RankRange(p) /\ Ranges(p)
      BY <3>1, <3>2 DEF RangeInv, RankRange, Ranged
    <3>6. Ranges(p)'
      BY <3>1, <3>4, <3>5 DEF Ranges, Stacked, rangeVars
    <3>7. Walked(p)'
      BY <1>0, <3>1 DEF Walked
    <3>8. RankRange(p)'
      BY <3>1, <3>5, <3>6, <3>7 DEF RankRange, rangeVars
    <3>9. \A q \in Rank \ {p} : pc'[q] = pc[q]
      BY <1>0, <3>1
    <3>. QED BY <3>1, <3>3, <3>4, <3>8, <3>9, RangeMove DEF rangeVars
  <2>9. CASE NothingToExchange(p) \/ PostRequests(p) \/ SendAnswers(p)
             \/ UpdateGhosts(p) \/ LocalToGlobalOnCluster(p)
    <3>1. PICK to \in {"cluster", "waitRequests", "waitAnswers", "done"} :
             pc' = [pc EXCEPT ![p] = to]
      BY <2>9 DEF NothingToExchange, PostRequests, SendAnswers, UpdateGhosts,
                  LocalToGlobalOnCluster, Go
    <3>2. pc[p] \in {"post", "waitRequests", "waitAnswers", "cluster"}
          /\ UNCHANGED rangeVars
      BY <2>9 DEF NothingToExchange, PostRequests, SendAnswers, UpdateGhosts,
                  LocalToGlobalOnCluster, Go
    <3>3. ~LooksP0Continuous /\ Numbered(p)
      BY <3>2 DEF WalkInv, NoWalk, Numbered
    <3>. QED BY <1>0, <3>1, <3>2, <3>3, RangeStutter DEF Phase
  <2>10. CASE \E q \in Rank : RecvRequest(p, q) \/ RecvAnswer(p, q)
    <3>1. pc' = pc /\ UNCHANGED rangeVars /\ "done" \in Phase
      BY <2>10 DEF RecvRequest, RecvAnswer, Phase
    <3>. QED BY <1>0, <3>1, RangeStutter
  <2>. QED BY <1>2, <2>1, <2>2, <2>3, <2>4, <2>5, <2>6, <2>7, <2>8, <2>9, <2>10 DEF Step, Build
<1>. QED BY <1>1, <1>2 DEF Next, Finished

(* What is known of the ranges of a rank that has numbered its dofs        *)
LEMMA NumberedRanges ==
  ASSUME RangeInv, ~LooksP0Continuous, NEW p \in Rank, Numbered(p)
  PROVE  /\ nWithoutGhost[p] = Sizes
         /\ firstDf[p] \in [Rank -> Nat]
         /\ Stacked(firstDf[p], NProc - 1)
         /\ \A i \in Rank : lastDf[p][i] = LastFrom(Sizes, firstDf[p][i], i)
         /\ Continuous => \A q \in Rank : Walked(q)
<1>1. RankRange(p) /\ Ranged(p) /\ RangeType
  BY DEF RangeInv, Ranged, Numbered
<1>2. Ranges(p) /\ cpt[p] = NProc
  BY <1>1 DEF RankRange
<1>3. firstDf[p] \in [Rank -> Nat]
  BY <1>1 DEF RangeType
<1>. QED BY <1>2, <1>3 DEF Ranges, Rank

=============================================================================
