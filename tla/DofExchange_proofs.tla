------------------------- MODULE DofExchange_proofs -------------------------
(***************************************************************************)
(* The exchange of DofNumbering, for every mesh and number of ranks: the   *)
(* messages on each channel, the numbers each rank holds, and from them    *)
(* the safety properties of the protocol and the refinement.               *)
(***************************************************************************)
EXTENDS DofNumbering_proofs

(* Rank in the numbering of the dofs that p owns                           *)
Pos(p, d) == Cardinality({e \in Owned(p) : LocalIndex[p][e] < LocalIndex[p][d]})

LEMMA PosBound ==
  ASSUME NEW p \in Rank, NEW d \in Dof
  PROVE  Pos(p, d) \in Nat /\ (d \in Owned(p) => Pos(p, d) < Sizes[p])
<1> DEFINE S == {e \in Owned(p) : LocalIndex[p][e] < LocalIndex[p][d]}
<1>1. LocalIndex[p][d] \in Nat
  BY MeshAssumption
<1>2. IsFiniteSet(Owned(p)) /\ Cardinality(Owned(p)) \in Nat /\ S \in SUBSET Owned(p)
  BY OwnedType
<1>3. d \notin S
  BY <1>1
<1> HIDE DEF S
<1>4. /\ IsFiniteSet(S) /\ Cardinality(S) <= Cardinality(Owned(p))
      /\ Cardinality(Owned(p)) = Cardinality(S) => Owned(p) = S
  BY <1>2, FS_Subset
<1>5. Cardinality(S) \in Nat
  BY <1>4, FS_CardinalityType
<1>6. d \in Owned(p) => Cardinality(S) < Cardinality(Owned(p))
  BY <1>2, <1>3, <1>4, <1>5
<1>7. Pos(p, d) = Cardinality(S) /\ Sizes[p] = Cardinality(Owned(p))
  BY DEF Pos, S, Sizes
<1>. QED BY <1>5, <1>6, <1>7

LEMMA PosOrder ==
  ASSUME NEW p \in Rank, NEW d \in Owned(p), NEW e \in Dof,
         LocalIndex[p][d] < LocalIndex[p][e]
  PROVE  Pos(p, d) < Pos(p, e)
<1> DEFINE S == {x \in Owned(p) : LocalIndex[p][x] < LocalIndex[p][d]}
           T == {x \in Owned(p) : LocalIndex[p][x] < LocalIndex[p][e]}
<1>1. /\ Owned(p) \in SUBSET Dof
      /\ \A x \in Dof : LocalIndex[p][x] \in Nat
  BY OwnedType, MeshAssumption
<1>2. S \in SUBSET T /\ d \in T /\ d \notin S
  <2>1. ASSUME NEW x \in Owned(p), LocalIndex[p][x] < LocalIndex[p][d]
        PROVE  LocalIndex[p][x] < LocalIndex[p][e]
    BY <1>1, <2>1
  <2>. QED BY <1>1, <2>1
<1>3. T \in SUBSET Owned(p) /\ IsFiniteSet(Owned(p))
  BY OwnedType
<1> HIDE DEF S, T
<1>4. IsFiniteSet(T) /\ Cardinality(T) \in Nat
  BY <1>3, FS_Subset, FS_CardinalityType
<1>5. /\ IsFiniteSet(S) /\ Cardinality(S) <= Cardinality(T)
      /\ Cardinality(T) = Cardinality(S) => T = S
  BY <1>2, <1>4, FS_Subset
<1>6. Cardinality(S) \in Nat
  BY <1>5, FS_CardinalityType
<1>7. Cardinality(S) < Cardinality(T)
  BY <1>2, <1>4, <1>5, <1>6
<1>. QED BY <1>7 DEF Pos, S, T

LEMMA PosInjective ==
  ASSUME NEW p \in Rank, NEW d \in Owned(p), NEW e \in Owned(p), d # e
  PROVE  Pos(p, d) # Pos(p, e)
<1>1. d \in Dof /\ e \in Dof
  BY OwnedType
<1>2. LocalIndex[p][d] \in Nat /\ LocalIndex[p][e] \in Nat
  BY <1>1, MeshAssumption
<1>3. LocalIndex[p][d] # LocalIndex[p][e]
  BY <1>1, MeshAssumption
<1>4. Pos(p, d) \in Nat /\ Pos(p, e) \in Nat
  BY <1>1, PosBound
<1>5. CASE LocalIndex[p][d] < LocalIndex[p][e]
  BY <1>1, <1>4, <1>5, PosOrder
<1>6. CASE LocalIndex[p][e] < LocalIndex[p][d]
  BY <1>1, <1>4, <1>6, PosOrder
<1>. QED BY <1>2, <1>3, <1>5, <1>6

-----------------------------------------------------------------------------
IdMap == UNION {[S -> Id] : S \in SUBSET Dof}

Message == [kind : {"request"}, dofs : SUBSET Dof]
             \cup [kind : {"answer"}, ids : IdMap]

ExchangeType ==
  /\ toCluster \in [Rank -> [Dof -> Id]]
  /\ onCluster \in [Rank -> [Dof -> Id]]
  /\ chan \in [Rank -> [Rank -> Seq(Message)]]
  /\ pending \in [Rank -> SUBSET Rank]
  /\ dataToRecv \in [Rank -> [Rank -> SUBSET Dof]]
  /\ finalDataToRecv \in [Rank -> [Rank -> IdMap]]

Posted(p) == pc[p] \in {"waitRequests", "waitAnswers", "cluster", "done"}

Answered(p) == pc[p] \in {"waitAnswers", "cluster", "done"}

(* The numbers that q gives to the dofs p asks it for                      *)
OwnerIds(p, q) == [d \in Asks(p, q) |-> toCluster[q][d]]

(* The numbers of a rank at each stage                                     *)
RankNumbers(p) ==
  /\ ~Numbered(p) => toCluster[p] = NothingNumbered
  /\ Numbered(p) => \A d \in Owned(p) : toCluster[p][d] = firstDf[p][p] + Pos(p, d)
  /\ pc[p] \in {"post", "waitRequests", "waitAnswers"} =>
       \A d \in Dof \ Owned(p) : toCluster[p][d] = Invalid
  /\ pc[p] \in {"cluster", "done"} =>
       /\ \A d \in Dof \ Held[p] : toCluster[p][d] = Invalid
       /\ \A q \in Rank : \A d \in Asks(p, q) :
             Numbered(q) /\ toCluster[p][d] = toCluster[q][d]
  /\ onCluster[p] = IF pc[p] = "done" THEN toCluster[p] ELSE NothingNumbered

(* What a rank still waits for, and what it has received                   *)
RankReceives(p) ==
  /\ pc[p] = "waitRequests" =>
       \A r \in Rank : /\ r \in pending[p] => Asks(r, p) # {}
                       /\ Asks(r, p) # {} /\ r \notin pending[p]
                            => dataToRecv[p][r] = Asks(r, p)
  /\ pc[p] = "waitAnswers" =>
       \A r \in Rank : /\ r \in pending[p] => Asks(p, r) # {}
                       /\ Asks(p, r) # {} /\ r \notin pending[p]
                            => Answered(r) /\ finalDataToRecv[p][r] = OwnerIds(p, r)
  /\ pc[p] \notin {"waitRequests", "waitAnswers"} => pending[p] = {}

(* A channel carries one request, or one answer, or nothing                *)
Channel(p, q) ==
  \/ chan[p][q] = <<>>
  \/ Asks(p, q) # {} /\ Posted(p) /\ chan[p][q] = <<Request(Asks(p, q))>>
  \/ Asks(q, p) # {} /\ Answered(p) /\ chan[p][q] = <<Answer(OwnerIds(q, p))>>

(* In a P0 continuous space nobody sends anything                          *)
Alone(p) ==
  /\ pc[p] \in {"build", "done"}
  /\ toCluster[p] = IF pc[p] = "done"
                    THEN [d \in Dof |-> IF d \in Held[p] THEN 0 ELSE Invalid]
                    ELSE NothingNumbered
  /\ pending[p] = {}
  /\ \A q \in Rank : chan[p][q] = <<>>

ExchangeInv ==
  /\ ExchangeType
  /\ IF LooksP0Continuous
     THEN \A p \in Rank : Alone(p)
     ELSE \A p \in Rank : /\ RankNumbers(p)
                          /\ RankReceives(p)
                          /\ \A q \in Rank : Channel(p, q)

IInv == WalkInv /\ RangeInv /\ ExchangeInv

(* Messages are what the channels hold                                     *)
LEMMA MessageType ==
  ASSUME toCluster \in [Rank -> [Dof -> Id]], NEW p \in Rank, NEW q \in Rank
  PROVE  /\ Request(Asks(p, q)) \in Message
         /\ OwnerIds(p, q) \in IdMap
         /\ Answer(OwnerIds(p, q)) \in Message
<1>1. Asks(p, q) \in SUBSET Dof
  BY OwnedType
<1>2. OwnerIds(p, q) \in [Asks(p, q) -> Id]
  BY <1>1 DEF OwnerIds
<1>3. OwnerIds(p, q) \in IdMap
  BY <1>1, <1>2 DEF IdMap
<1>. QED BY <1>1, <1>3 DEF Request, Answer, Message

LEMMA ExchangeInit == ASSUME Init PROVE ExchangeInv
<1>1. NothingNumbered \in [Dof -> Id]
  BY DEF NothingNumbered, Id
<1>2. NoAnswer \in IdMap
  BY DEF NoAnswer, IdMap
<1>3. ExchangeType
  BY <1>1, <1>2 DEF Init, ExchangeType, PerRank, Table
<1>4. ASSUME NEW p \in Rank
      PROVE  Alone(p) /\ RankNumbers(p) /\ RankReceives(p) /\ \A q \in Rank : Channel(p, q)
  BY DEF Init, PerRank, Table, Alone, RankNumbers, RankReceives, Channel, Numbered
<1>. QED BY <1>3, <1>4 DEF ExchangeInv

(***************************************************************************)
(* A step of one rank, seen from the others: nobody goes back, the numbers *)
(* of the owners stay, and the messages on the way stay or arrive.         *)
(***************************************************************************)
Forward(q) ==
  /\ Numbered(q) => Numbered(q)' /\ \A d \in Owned(q) : toCluster'[q][d] = toCluster[q][d]
  /\ Posted(q) => Posted(q)'
  /\ Answered(q) => Answered(q)'

Untouched(q) ==
  /\ pc'[q] = pc[q] /\ toCluster'[q] = toCluster[q] /\ onCluster'[q] = onCluster[q]
  /\ firstDf'[q] = firstDf[q] /\ pending'[q] = pending[q]
  /\ dataToRecv'[q] = dataToRecv[q] /\ finalDataToRecv'[q] = finalDataToRecv[q]

LEMMA OwnerIdsStable ==
  ASSUME NEW p \in Rank, NEW q \in Rank, Forward(q), Numbered(q)
  PROVE  OwnerIds(p, q)' = OwnerIds(p, q)
<1>1. \A d \in Asks(p, q) : toCluster'[q][d] = toCluster[q][d]
  BY AsksDown DEF Forward
<1>. QED BY <1>1 DEF OwnerIds

LEMMA ExchangeMove ==
  ASSUME ExchangeInv, ~LooksP0Continuous, NEW p \in Rank,
         Forward(p),
         \A q \in Rank \ {p} : Untouched(q),
         ExchangeType', RankNumbers(p)', RankReceives(p)',
         \A a, b \in Rank : chan'[a][b] = chan[a][b] \/ Channel(a, b)'
  PROVE  ExchangeInv'
<1>1. ASSUME NEW q \in Rank PROVE Forward(q)
  BY DEF Forward, Untouched, Numbered, Posted, Answered
<1>2. ASSUME NEW q \in Rank, Answered(q) PROVE Numbered(q)
  BY <1>2 DEF Answered, Numbered
<1>3. ASSUME NEW q \in Rank \ {p} PROVE RankNumbers(q)'
  <2>1. RankNumbers(q) /\ Untouched(q)
    BY DEF ExchangeInv
  <2>2. ASSUME pc[q] \in {"cluster", "done"}, NEW r \in Rank, NEW d \in Asks(q, r)
        PROVE  Numbered(r)' /\ toCluster'[q][d] = toCluster'[r][d]
    <3>1. Numbered(r) /\ toCluster[q][d] = toCluster[r][d]
      BY <2>1, <2>2 DEF RankNumbers
    <3>2. Numbered(r)' /\ toCluster'[r][d] = toCluster[r][d]
      BY <3>1, <1>1, AsksDown DEF Forward
    <3>. QED BY <2>1, <3>1, <3>2 DEF Untouched
  <2>. QED BY <2>1, <2>2 DEF RankNumbers, Untouched, Numbered
<1>4. ASSUME NEW q \in Rank \ {p} PROVE RankReceives(q)'
  <2>1. RankReceives(q) /\ Untouched(q)
    BY DEF ExchangeInv
  <2>2. ASSUME NEW r \in Rank, pc[q] = "waitAnswers", Asks(q, r) # {}, r \notin pending[q]
        PROVE  Answered(r)' /\ finalDataToRecv'[q][r] = OwnerIds(q, r)'
    <3>1. Answered(r) /\ finalDataToRecv[q][r] = OwnerIds(q, r)
      BY <2>1, <2>2 DEF RankReceives
    <3>2. OwnerIds(q, r)' = OwnerIds(q, r) /\ Answered(r)'
      BY <3>1, <1>1, <1>2, OwnerIdsStable DEF Forward
    <3>. QED BY <2>1, <3>1, <3>2 DEF Untouched
  <2>. QED BY <2>1, <2>2 DEF RankReceives, Untouched
<1>5. ASSUME NEW a \in Rank, NEW b \in Rank, chan'[a][b] = chan[a][b]
      PROVE  Channel(a, b)'
  <2>1. Channel(a, b)
    BY DEF ExchangeInv
  <2>2. Answered(a) => OwnerIds(b, a)' = OwnerIds(b, a) /\ Answered(a)'
    BY <1>1, <1>2, OwnerIdsStable DEF Forward
  <2>3. Posted(a) => Posted(a)'
    BY <1>1 DEF Forward
  <2>. QED BY <1>5, <2>1, <2>2, <2>3 DEF Channel
<1>. QED BY <1>3, <1>4, <1>5 DEF ExchangeInv

(* A step that only moves p on, before it posts or with nothing to ask     *)
LEMMA ExchangeMoveOn ==
  ASSUME ExchangeInv, ~LooksP0Continuous, pc \in [Rank -> Phase],
         NEW p \in Rank, NEW to \in Phase,
         pc' = [pc EXCEPT ![p] = to],
         UNCHANGED <<toCluster, onCluster, commVars>>,
         \A q \in Rank : (q = p /\ ~Numbered(p)) \/ firstDf'[q] = firstDf[q],
         \/ pc[p] \in {"build", "walk", "gather", "ranges"}
               /\ to \in {"walk", "gather", "ranges"}
         \/ pc[p] = "post" /\ to = "cluster" /\ \A q \in Rank : Asks(p, q) = {}
  PROVE  ExchangeInv'
<1>1. pc'[p] = to /\ RankNumbers(p) /\ RankReceives(p)
  BY DEF ExchangeInv
<1>2. ExchangeType'
  BY DEF ExchangeInv, ExchangeType, commVars
<1>3. Forward(p)
  BY <1>1 DEF Forward, Numbered, Posted, Answered
<1>4. \A q \in Rank \ {p} : Untouched(q)
  BY DEF Untouched, commVars
<1>5. RankReceives(p)'
  BY <1>1 DEF RankReceives, commVars
<1>6. RankNumbers(p)'
  <2>1. CASE to \in {"walk", "gather", "ranges"} /\ pc[p] # "post"
    BY <1>1, <2>1 DEF RankNumbers, Numbered
  <2>2. CASE pc[p] = "post" /\ to = "cluster" /\ \A q \in Rank : Asks(p, q) = {}
    <3>1. firstDf'[p] = firstDf[p] /\ Numbered(p)
      BY <2>2 DEF Numbered
    <3>2. \A d \in Dof \ Held[p] : toCluster[p][d] = Invalid
      BY <1>1, <2>2, OwnedType DEF RankNumbers
    <3>. QED BY <1>1, <2>2, <3>1, <3>2 DEF RankNumbers, Numbered
  <2>. QED BY <2>1, <2>2
<1>7. \A a, b \in Rank : chan'[a][b] = chan[a][b]
  BY DEF commVars
<1>. QED BY <1>2, <1>3, <1>4, <1>5, <1>6, <1>7, ExchangeMove

(* A step that leaves the numbers and the exchange alone                   *)
LEMMA ExchangeStutter ==
  ASSUME ExchangeInv, pc' = pc, UNCHANGED <<toCluster, onCluster, commVars>>,
         \A q \in Rank : Numbered(q) => firstDf'[q] = firstDf[q]
  PROVE  ExchangeInv'
<1>1. ExchangeType'
  BY DEF ExchangeInv, ExchangeType, commVars
<1>2. ASSUME LooksP0Continuous, NEW p \in Rank PROVE Alone(p)'
  <2>1. Alone(p)
    BY <1>2 DEF ExchangeInv
  <2>. QED BY <2>1 DEF Alone, commVars, NothingNumbered
<1>3. ASSUME ~LooksP0Continuous, NEW p \in Rank
      PROVE  RankNumbers(p)' /\ RankReceives(p)' /\ \A q \in Rank : Channel(p, q)'
  <2>1. RankNumbers(p) /\ RankReceives(p) /\ \A q \in Rank : Channel(p, q)
    BY <1>3 DEF ExchangeInv
  <2>2. RankNumbers(p)'
    BY <2>1 DEF RankNumbers, Numbered, NothingNumbered
  <2>3. \A a, b \in Rank : OwnerIds(a, b)' = OwnerIds(a, b)
    BY DEF OwnerIds
  <2>4. RankReceives(p)'
    BY <2>1, <2>3 DEF RankReceives, Answered, commVars
  <2>5. \A q \in Rank : Channel(p, q)'
    BY <2>1, <2>3 DEF Channel, Answered, Posted, commVars
  <2>. QED BY <2>2, <2>4, <2>5
<1>. QED BY <1>1, <1>2, <1>3 DEF ExchangeInv

LEMMA NumberActifStep ==
  ASSUME RegularSpace, IInv, NEW p \in Rank, NumberActif(p) PROVE ExchangeInv'
<1>1. /\ pc[p] = "ranges" /\ cpt[p] = NProc
      /\ pc' = [pc EXCEPT ![p] = IF Continuous THEN "post" ELSE "cluster"]
      /\ toCluster' = [toCluster EXCEPT ![p] =
           [d \in Dof |-> IF d \in Actif(p) THEN firstDf[p][p] + Position(p, d)
                                            ELSE Invalid]]
      /\ UNCHANGED <<rangeVars, commVars, onCluster>>
  BY DEF NumberActif, Go
<1>2. ~LooksP0Continuous /\ WalkType /\ RangeType /\ ExchangeType
  BY <1>1 DEF IInv, WalkInv, NoWalk, RangeInv, ExchangeInv
<1>3. Actif(p) = Owned(p)
  BY <1>1, <1>2, WalkLists DEF IInv, Walked
<1>4. \A d \in Dof : Position(p, d) = Pos(p, d) /\ Pos(p, d) \in Nat
  BY <1>3, PosBound DEF Position, Pos
<1>5. /\ pc'[p] \in {"post", "cluster"}
      /\ pc'[p] = "cluster" => ~Continuous
      /\ toCluster'[p] = [d \in Dof |-> IF d \in Owned(p) THEN firstDf[p][p] + Pos(p, d)
                                                         ELSE Invalid]
  BY <1>1, <1>2, <1>3, <1>4 DEF WalkType, ExchangeType
<1>6. RankNumbers(p) /\ RankReceives(p)
  BY <1>2 DEF IInv, ExchangeInv
<1>7. ~Numbered(p) /\ ~Posted(p) /\ ~Answered(p)
  BY <1>1 DEF Numbered, Posted, Answered
<1>8. toCluster'[p] \in [Dof -> Id]
  <2>1. firstDf[p][p] \in Nat
    BY <1>2 DEF RangeType
  <2>2. ASSUME NEW d \in Dof
        PROVE  (IF d \in Owned(p) THEN firstDf[p][p] + Pos(p, d) ELSE Invalid) \in Id
    BY <1>4, <2>1 DEF Id
  <2>. QED BY <1>5, <2>2
<1>9. ExchangeType'
  BY <1>1, <1>2, <1>5, <1>8 DEF ExchangeType, commVars
<1>10. Forward(p)
  BY <1>7 DEF Forward
<1>11. \A q \in Rank \ {p} : Untouched(q)
  BY <1>1, <1>2 DEF Untouched, commVars, rangeVars, WalkType, ExchangeType
<1>12. RankReceives(p)'
  BY <1>1, <1>5, <1>6 DEF RankReceives, commVars
<1>13. RankNumbers(p)'
  <2>1. \A d \in Owned(p) : d \in Dof /\ d \in Held[p]
    BY OwnedType
  <2>2. firstDf'[p] = firstDf[p] /\ onCluster'[p] = onCluster[p]
    BY <1>1 DEF rangeVars
  <2>3. \A d \in Owned(p) : toCluster'[p][d] = firstDf'[p][p] + Pos(p, d)
    BY <1>5, <2>1, <2>2
  <2>4. \A d \in Dof \ Owned(p) : toCluster'[p][d] = Invalid
    BY <1>5
  <2>5. ~Continuous => \A q \in Rank : Asks(p, q) = {}
    BY NothingShared DEF Asks, Owned, Shared
  <2>6. onCluster'[p] = NothingNumbered
    BY <1>1, <1>6, <2>2 DEF RankNumbers
  <2>7. Numbered(p)' /\ pc'[p] # "done"
    BY <1>5 DEF Numbered
  <2>. QED BY <1>5, <2>1, <2>3, <2>4, <2>5, <2>6, <2>7 DEF RankNumbers, NothingNumbered
<1>14. \A a, b \in Rank : chan'[a][b] = chan[a][b]
  BY <1>1 DEF commVars
<1>. QED BY <1>2, <1>9, <1>10, <1>11, <1>12, <1>13, <1>14, ExchangeMove DEF IInv

(* Channels between two ranks that exchange nothing, or not yet            *)
LEMMA EmptyChannel ==
  ASSUME ExchangeInv, ~LooksP0Continuous, NEW p \in Rank, NEW q \in Rank
  PROVE  /\ ~Posted(p) => chan[p][q] = <<>>
         /\ Asks(q, p) # {} /\ ~Answered(p) => chan[p][q] = <<>>
         /\ Asks(p, q) # {} => Asks(q, p) = {}
<1>1. Channel(p, q)
  BY DEF ExchangeInv
<1>2. Answered(p) => Posted(p)
  BY DEF Answered, Posted
<1>3. Asks(p, q) # {} => Asks(q, p) = {}
  <2> SUFFICES ASSUME NEW d \in Asks(p, q), NEW e \in Asks(q, p) PROVE FALSE
    OBVIOUS
  <2>1. q < p /\ p < q
    BY AsksDown
  <2>. QED BY <2>1, SizesType
<1>. QED BY <1>1, <1>2, <1>3 DEF Channel

(* The channels of p after it sent one message to each rank of a set       *)
LEMMA SentChannels ==
  ASSUME NEW p \in Rank, NEW to \in SUBSET Rank, NEW m,
         chan \in [Rank -> [Rank -> Seq(Message)]],
         \A q \in to : chan[p][q] = <<>> /\ m[q] \in Message,
         chan' = [chan EXCEPT ![p] = [q \in Rank |->
                    IF q \in to THEN Append(chan[p][q], m[q]) ELSE chan[p][q]]]
  PROVE  /\ chan' \in [Rank -> [Rank -> Seq(Message)]]
         /\ \A q \in to : chan'[p][q] = <<m[q]>>
         /\ \A q \in Rank \ to : chan'[p][q] = chan[p][q]
         /\ \A r \in Rank \ {p} : chan'[r] = chan[r]
<1>2. ASSUME NEW q \in to
      PROVE  Append(chan[p][q], m[q]) = <<m[q]>> /\ <<m[q]>> \in Seq(Message)
  <2>1. chan[p][q] = <<>> /\ m[q] \in Message
    OBVIOUS
  <2>2. \A x \in Message : Append(<<>>, x) = <<x>> /\ <<x>> \in Seq(Message)
    OBVIOUS
  <2>. QED BY <2>1, <2>2
<1>3. chan'[p] = [q \in Rank |-> IF q \in to THEN <<m[q]>> ELSE chan[p][q]]
  BY <1>2
<1>4. chan'[p] \in [Rank -> Seq(Message)]
  BY <1>2, <1>3
<1>5. chan' \in [Rank -> [Rank -> Seq(Message)]]
  BY <1>4
<1>6. \A r \in Rank \ {p} : chan'[r] = chan[r]
  OBVIOUS
<1>. QED BY <1>3, <1>5, <1>6

LEMMA PostRequestsStep ==
  ASSUME IInv, NEW p \in Rank, PostRequests(p) PROVE ExchangeInv'
<1> DEFINE m == [q \in Rank |-> Request(Asks(p, q))]
           to == {q \in Rank : Asks(p, q) # {}}
<1>1. /\ pc[p] = "post" /\ pc' = [pc EXCEPT ![p] = "waitRequests"]
      /\ chan' = Sent(p, Owners(p), LAMBDA q : Request(listToSend[p][q]))
      /\ pending' = [pending EXCEPT ![p] = procRecvData[p]]
      /\ UNCHANGED <<rangeVars, toCluster, dataToRecv, finalDataToRecv, onCluster>>
  BY DEF PostRequests, Go
<1>2. ~LooksP0Continuous /\ WalkType /\ ExchangeType /\ ExchangeInv
  BY <1>1 DEF IInv, WalkInv, NoWalk, ExchangeInv
<1>3. /\ Owners(p) = to
      /\ listToSend[p] = [q \in Rank |-> Asks(p, q)]
      /\ procRecvData[p] = {q \in Rank : Asks(q, p) # {}}
  BY <1>1, <1>2, WalkLists DEF IInv, Walked
<1>4. chan' = [chan EXCEPT ![p] = [q \in Rank |->
                 IF q \in to THEN Append(chan[p][q], m[q]) ELSE chan[p][q]]]
  BY <1>1, <1>3 DEF Sent
<1>5. ~Posted(p) /\ Numbered(p)
  BY <1>1 DEF Posted, Numbered
<1>6. \A q \in to : chan[p][q] = <<>> /\ m[q] \in Message
  BY <1>2, <1>5, EmptyChannel, MessageType DEF ExchangeType
<1>7. /\ chan' \in [Rank -> [Rank -> Seq(Message)]]
      /\ \A q \in to : chan'[p][q] = <<m[q]>>
      /\ \A q \in Rank \ to : chan'[p][q] = chan[p][q]
      /\ \A r \in Rank \ {p} : chan'[r] = chan[r]
  <2> HIDE DEF m
  <2>. QED BY <1>2, <1>4, <1>6, SentChannels DEF ExchangeType
<1>8. pc'[p] = "waitRequests" /\ pending'[p] = {q \in Rank : Asks(q, p) # {}}
  BY <1>1, <1>2, <1>3 DEF WalkType, ExchangeType
<1>9. ExchangeType'
  BY <1>1, <1>2, <1>3, <1>7 DEF ExchangeType
<1>10. Forward(p)
  BY <1>1, <1>8 DEF Forward, Numbered, Posted, Answered
<1>11. \A q \in Rank \ {p} : Untouched(q)
  BY <1>1, <1>2 DEF Untouched, rangeVars, WalkType, ExchangeType
<1>12. RankReceives(p)'
  BY <1>8 DEF RankReceives
<1>13. RankNumbers(p)'
  <2>1. RankNumbers(p)
    BY <1>2 DEF ExchangeInv
  <2>. QED BY <1>1, <1>5, <1>8, <2>1 DEF RankNumbers, Numbered, rangeVars, NothingNumbered
<1>14. ASSUME NEW a \in Rank, NEW b \in Rank
       PROVE  chan'[a][b] = chan[a][b] \/ Channel(a, b)'
  <2>1. CASE a = p /\ b \in to
    <3>1. Posted(p)' /\ Asks(p, b) # {}
      BY <1>8, <2>1 DEF Posted
    <3>. QED BY <1>7, <2>1, <3>1 DEF Channel
  <2>. QED BY <1>7, <2>1
<1>. QED BY <1>2, <1>9, <1>10, <1>11, <1>12, <1>13, <1>14, ExchangeMove

(* A message received by p is the only one of its channel                  *)
LEMMA ReceiveOne ==
  ASSUME ExchangeInv, ~LooksP0Continuous, NEW p \in Rank, NEW q \in Rank, Receive(p, q)
  PROVE  /\ chan' \in [Rank -> [Rank -> Seq(Message)]]
         /\ chan'[q][p] = <<>>
         /\ \A a, b \in Rank : <<a, b>> # <<q, p>> => chan'[a][b] = chan[a][b]
         /\ pending'[p] = pending[p] \ {q}
         /\ pending' \in [Rank -> SUBSET Rank]
         /\ \A r \in Rank \ {p} : pending'[r] = pending[r]
         /\ \/ Asks(q, p) # {} /\ Head(chan[q][p]) = Request(Asks(q, p))
            \/ /\ Asks(p, q) # {} /\ Answered(q)
               /\ Head(chan[q][p]) = Answer(OwnerIds(p, q))
<1>1. /\ q \in pending[p] /\ chan[q][p] # <<>>
      /\ chan' = [chan EXCEPT ![q][p] = Tail(@)]
      /\ pending' = [pending EXCEPT ![p] = @ \ {q}]
  BY DEF Receive
<1>2. ExchangeType /\ Channel(q, p)
  BY DEF ExchangeInv
<1>3. \/ Asks(q, p) # {} /\ chan[q][p] = <<Request(Asks(q, p))>>
      \/ Asks(p, q) # {} /\ Answered(q) /\ chan[q][p] = <<Answer(OwnerIds(p, q))>>
  BY <1>1, <1>2 DEF Channel
<1>4. \A x : Tail(<<x>>) = <<>> /\ Head(<<x>>) = x
  OBVIOUS
<1>5. Tail(chan[q][p]) = <<>>
  BY <1>3, <1>4
<1>6. chan' = [chan EXCEPT ![q] = [chan[q] EXCEPT ![p] = <<>>]]
  BY <1>1, <1>2, <1>5 DEF ExchangeType
<1>7. <<>> \in Seq(Message) /\ chan[q] \in [Rank -> Seq(Message)]
  BY <1>2 DEF ExchangeType
<1>8. chan' \in [Rank -> [Rank -> Seq(Message)]]
  BY <1>2, <1>6, <1>7 DEF ExchangeType
<1>9. /\ chan'[q][p] = <<>>
      /\ \A a, b \in Rank : <<a, b>> # <<q, p>> => chan'[a][b] = chan[a][b]
  BY <1>2, <1>6, <1>7 DEF ExchangeType
<1>10. /\ pending'[p] = pending[p] \ {q}
       /\ pending' \in [Rank -> SUBSET Rank]
       /\ \A r \in Rank \ {p} : pending'[r] = pending[r]
  BY <1>1, <1>2 DEF ExchangeType
<1>. QED BY <1>3, <1>4, <1>8, <1>9, <1>10

LEMMA RecvRequestStep ==
  ASSUME IInv, NEW p \in Rank, NEW q \in Rank, RecvRequest(p, q) PROVE ExchangeInv'
<1>1. /\ pc[p] = "waitRequests" /\ pc' = pc /\ Receive(p, q)
      /\ dataToRecv' = [dataToRecv EXCEPT ![p][q] = Head(chan[q][p]).dofs]
      /\ UNCHANGED <<rangeVars, toCluster, finalDataToRecv, onCluster>>
  BY DEF RecvRequest
<1>2. ~LooksP0Continuous /\ WalkType /\ ExchangeType /\ ExchangeInv
  BY <1>1 DEF IInv, WalkInv, NoWalk, ExchangeInv
<1>3. RankReceives(p) /\ RankNumbers(p)
  BY <1>2 DEF ExchangeInv
<1>4. q \in pending[p] /\ Asks(q, p) # {}
  BY <1>1, <1>3 DEF RankReceives, Receive
<1>5. Asks(p, q) = {}
  BY <1>2, <1>4, EmptyChannel
<1>6. /\ chan' \in [Rank -> [Rank -> Seq(Message)]]
      /\ chan'[q][p] = <<>>
      /\ \A a, b \in Rank : <<a, b>> # <<q, p>> => chan'[a][b] = chan[a][b]
      /\ pending'[p] = pending[p] \ {q}
      /\ pending' \in [Rank -> SUBSET Rank]
      /\ \A r \in Rank \ {p} : pending'[r] = pending[r]
      /\ Head(chan[q][p]) = Request(Asks(q, p))
  BY <1>1, <1>2, <1>5, ReceiveOne
<1>7. Asks(q, p) \in SUBSET Dof /\ Head(chan[q][p]).dofs = Asks(q, p)
  BY <1>6, OwnedType DEF Request
<1>8. dataToRecv' = [dataToRecv EXCEPT ![p] = [dataToRecv[p] EXCEPT ![q] = Asks(q, p)]]
  BY <1>1, <1>2, <1>7 DEF ExchangeType
<1>9. /\ dataToRecv' \in [Rank -> [Rank -> SUBSET Dof]]
      /\ dataToRecv'[p] = [dataToRecv[p] EXCEPT ![q] = Asks(q, p)]
      /\ \A r \in Rank \ {p} : dataToRecv'[r] = dataToRecv[r]
  BY <1>2, <1>7, <1>8 DEF ExchangeType
<1>10. ExchangeType'
  BY <1>1, <1>2, <1>6, <1>9 DEF ExchangeType
<1>11. Forward(p)
  BY <1>1 DEF Forward, Numbered, Posted, Answered
<1>12. \A r \in Rank \ {p} : Untouched(r)
  BY <1>1, <1>6, <1>9 DEF Untouched, rangeVars
<1>13. RankReceives(p)'
  <2>1. ASSUME NEW r \in Rank, Asks(r, p) # {}, r \notin pending'[p]
        PROVE  dataToRecv'[p][r] = Asks(r, p)
    <3>1. dataToRecv[p] \in [Rank -> SUBSET Dof]
      BY <1>2 DEF ExchangeType
    <3>2. CASE r = q
      BY <3>1, <3>2, <1>9
    <3>3. CASE r # q
      <4>1. r \notin pending[p]
        BY <2>1, <3>3, <1>6
      <4>2. dataToRecv[p][r] = Asks(r, p)
        BY <4>1, <2>1, <1>1, <1>3 DEF RankReceives
      <4>. QED BY <3>1, <3>3, <4>2, <1>9
    <3>. QED BY <3>2, <3>3
  <2>2. \A r \in pending'[p] : Asks(r, p) # {}
    BY <1>1, <1>2, <1>3, <1>6 DEF RankReceives, ExchangeType
  <2>. QED BY <1>1, <2>1, <2>2 DEF RankReceives
<1>14. RankNumbers(p)'
  BY <1>1, <1>3 DEF RankNumbers, Numbered, rangeVars, NothingNumbered
<1>15. ASSUME NEW a \in Rank, NEW b \in Rank
       PROVE  chan'[a][b] = chan[a][b] \/ Channel(a, b)'
  BY <1>6 DEF Channel
<1>. QED BY <1>2, <1>10, <1>11, <1>12, <1>13, <1>14, <1>15, ExchangeMove

LEMMA SendAnswersStep ==
  ASSUME IInv, NEW p \in Rank, SendAnswers(p) PROVE ExchangeInv'
<1> DEFINE m == [q \in Rank |-> Answer(OwnerIds(q, p))]
           to == {q \in Rank : Asks(q, p) # {}}
<1>1. /\ pc[p] = "waitRequests" /\ pc' = [pc EXCEPT ![p] = "waitAnswers"]
      /\ pending[p] = {}
      /\ chan' = Sent(p, procRecvData[p],
               LAMBDA q : Answer([d \in dataToRecv[p][q] |-> toCluster[p][d]]))
      /\ pending' = [pending EXCEPT ![p] = Owners(p)]
      /\ UNCHANGED <<rangeVars, toCluster, dataToRecv, finalDataToRecv, onCluster>>
  BY DEF SendAnswers, Go, AllComplete
<1>2. ~LooksP0Continuous /\ WalkType /\ ExchangeType /\ ExchangeInv
  BY <1>1 DEF IInv, WalkInv, NoWalk, ExchangeInv
<1>3. /\ Owners(p) = {q \in Rank : Asks(p, q) # {}}
      /\ procRecvData[p] = to
  BY <1>1, <1>2, WalkLists DEF IInv, Walked
<1>4. RankReceives(p) /\ RankNumbers(p)
  BY <1>2 DEF ExchangeInv
<1>5. \A q \in to : dataToRecv[p][q] = Asks(q, p)
  BY <1>1, <1>4 DEF RankReceives
<1>6. \A q \in to : Answer([d \in dataToRecv[p][q] |-> toCluster[p][d]]) = m[q]
  BY <1>5 DEF OwnerIds
<1>7. chan' = [chan EXCEPT ![p] = [q \in Rank |->
                 IF q \in to THEN Append(chan[p][q], m[q]) ELSE chan[p][q]]]
  <2>1. chan' = [chan EXCEPT ![p] = [q \in Rank |->
                  IF q \in to
                  THEN Append(chan[p][q],
                              Answer([d \in dataToRecv[p][q] |-> toCluster[p][d]]))
                  ELSE chan[p][q]]]
    BY <1>1, <1>3 DEF Sent
  <2>2. ASSUME NEW q \in Rank
        PROVE (IF q \in to
                  THEN Append(chan[p][q],
                              Answer([d \in dataToRecv[p][q] |-> toCluster[p][d]]))
                  ELSE chan[p][q]) = IF q \in to THEN Append(chan[p][q], m[q]) ELSE chan[p][q]
    <3> HIDE DEF m
    <3>. QED BY <1>6
  <2> HIDE DEF m, to
  <2>. QED BY <2>1, <2>2
<1>8. ~Answered(p) /\ Numbered(p)
  BY <1>1 DEF Answered, Numbered
<1>9. \A q \in to : chan[p][q] = <<>> /\ m[q] \in Message
  BY <1>2, <1>8, EmptyChannel, MessageType DEF ExchangeType
<1>10. /\ chan' \in [Rank -> [Rank -> Seq(Message)]]
       /\ \A q \in to : chan'[p][q] = <<m[q]>>
       /\ \A q \in Rank \ to : chan'[p][q] = chan[p][q]
       /\ \A r \in Rank \ {p} : chan'[r] = chan[r]
  <2> HIDE DEF m
  <2>. QED BY <1>2, <1>7, <1>9, SentChannels DEF ExchangeType
<1>11. pc'[p] = "waitAnswers" /\ pending'[p] = {q \in Rank : Asks(p, q) # {}}
  BY <1>1, <1>2, <1>3 DEF WalkType, ExchangeType
<1>12. ExchangeType'
  BY <1>1, <1>2, <1>3, <1>10 DEF ExchangeType
<1>13. Forward(p)
  BY <1>1, <1>11 DEF Forward, Numbered, Posted, Answered
<1>14. \A q \in Rank \ {p} : Untouched(q)
  BY <1>1, <1>2 DEF Untouched, rangeVars, WalkType, ExchangeType
<1>15. RankReceives(p)'
  BY <1>11 DEF RankReceives
<1>16. RankNumbers(p)'
  BY <1>1, <1>4, <1>8, <1>11 DEF RankNumbers, Numbered, rangeVars, NothingNumbered
<1>17. ASSUME NEW a \in Rank, NEW b \in Rank
       PROVE  chan'[a][b] = chan[a][b] \/ Channel(a, b)'
  <2>1. CASE a = p /\ b \in to
    <3>1. Answered(p)' /\ Asks(b, p) # {}
      BY <1>11, <2>1 DEF Answered
    <3>2. OwnerIds(b, p)' = OwnerIds(b, p)
      BY <1>1 DEF OwnerIds
    <3>. QED BY <1>10, <2>1, <3>1, <3>2 DEF Channel
  <2>. QED BY <1>10, <2>1
<1>. QED BY <1>2, <1>12, <1>13, <1>14, <1>15, <1>16, <1>17, ExchangeMove

LEMMA RecvAnswerStep ==
  ASSUME IInv, NEW p \in Rank, NEW q \in Rank, RecvAnswer(p, q) PROVE ExchangeInv'
<1>1. /\ pc[p] = "waitAnswers" /\ pc' = pc /\ Receive(p, q)
      /\ finalDataToRecv' = [finalDataToRecv EXCEPT ![p][q] = Head(chan[q][p]).ids]
      /\ UNCHANGED <<rangeVars, toCluster, dataToRecv, onCluster>>
  BY DEF RecvAnswer
<1>2. ~LooksP0Continuous /\ WalkType /\ ExchangeType /\ ExchangeInv
  BY <1>1 DEF IInv, WalkInv, NoWalk, ExchangeInv
<1>3. RankReceives(p) /\ RankNumbers(p)
  BY <1>2 DEF ExchangeInv
<1>4. q \in pending[p] /\ Asks(p, q) # {}
  BY <1>1, <1>3 DEF RankReceives, Receive
<1>5. Asks(q, p) = {}
  BY <1>2, <1>4, EmptyChannel
<1>6. /\ chan' \in [Rank -> [Rank -> Seq(Message)]]
      /\ chan'[q][p] = <<>>
      /\ \A a, b \in Rank : <<a, b>> # <<q, p>> => chan'[a][b] = chan[a][b]
      /\ pending'[p] = pending[p] \ {q}
      /\ pending' \in [Rank -> SUBSET Rank]
      /\ \A r \in Rank \ {p} : pending'[r] = pending[r]
      /\ Answered(q) /\ Head(chan[q][p]) = Answer(OwnerIds(p, q))
  BY <1>1, <1>2, <1>5, ReceiveOne
<1>7. OwnerIds(p, q) \in IdMap /\ Head(chan[q][p]).ids = OwnerIds(p, q)
  BY <1>2, <1>6, MessageType DEF Answer, ExchangeType
<1>8. finalDataToRecv' =
        [finalDataToRecv EXCEPT ![p] = [finalDataToRecv[p] EXCEPT ![q] = OwnerIds(p, q)]]
  BY <1>1, <1>2, <1>7 DEF ExchangeType
<1>9. /\ finalDataToRecv' \in [Rank -> [Rank -> IdMap]]
      /\ finalDataToRecv'[p] = [finalDataToRecv[p] EXCEPT ![q] = OwnerIds(p, q)]
      /\ \A r \in Rank \ {p} : finalDataToRecv'[r] = finalDataToRecv[r]
  BY <1>2, <1>7, <1>8 DEF ExchangeType
<1>10. ExchangeType'
  BY <1>1, <1>2, <1>6, <1>9 DEF ExchangeType
<1>11. Forward(p)
  BY <1>1 DEF Forward, Numbered, Posted, Answered
<1>12. \A r \in Rank \ {p} : Untouched(r)
  BY <1>1, <1>6, <1>9 DEF Untouched, rangeVars
<1>13. RankReceives(p)'
  <2>1. ASSUME NEW r \in Rank, Asks(p, r) # {}, r \notin pending'[p]
        PROVE  Answered(r)' /\ finalDataToRecv'[p][r] = OwnerIds(p, r)'
    <3>1. finalDataToRecv[p] \in [Rank -> IdMap]
      BY <1>2 DEF ExchangeType
    <3>2. OwnerIds(p, r)' = OwnerIds(p, r) /\ Answered(r)' = Answered(r)
      BY <1>1 DEF OwnerIds, Answered
    <3>3. CASE r = q
      BY <3>1, <3>2, <3>3, <1>6, <1>9
    <3>4. CASE r # q
      <4>1. r \notin pending[p]
        BY <2>1, <3>4, <1>6
      <4>2. Answered(r) /\ finalDataToRecv[p][r] = OwnerIds(p, r)
        BY <4>1, <2>1, <1>1, <1>3 DEF RankReceives
      <4>. QED BY <3>1, <3>2, <3>4, <4>2, <1>9
    <3>. QED BY <3>3, <3>4
  <2>2. \A r \in pending'[p] : Asks(p, r) # {}
    BY <1>1, <1>2, <1>3, <1>6 DEF RankReceives, ExchangeType
  <2>. QED BY <1>1, <2>1, <2>2 DEF RankReceives
<1>14. RankNumbers(p)'
  BY <1>1, <1>3 DEF RankNumbers, Numbered, rangeVars, NothingNumbered
<1>15. ASSUME NEW a \in Rank, NEW b \in Rank
       PROVE  chan'[a][b] = chan[a][b] \/ Channel(a, b)'
  BY <1>6 DEF Channel
<1>. QED BY <1>2, <1>10, <1>11, <1>12, <1>13, <1>14, <1>15, ExchangeMove

LEMMA UpdateGhostsStep ==
  ASSUME IInv, NEW p \in Rank, UpdateGhosts(p) PROVE ExchangeInv'
<1>1. /\ pc[p] = "waitAnswers" /\ pc' = [pc EXCEPT ![p] = "cluster"]
      /\ pending[p] = {}
      /\ toCluster' = [toCluster EXCEPT ![p] =
           [d \in Dof |-> IF \E q \in Owners(p) : d \in listToSend[p][q]
                          THEN finalDataToRecv[p][CHOOSE q \in Owners(p) :
                                                    d \in listToSend[p][q]][d]
                          ELSE toCluster[p][d]]]
      /\ UNCHANGED <<rangeVars, commVars, onCluster>>
  BY DEF UpdateGhosts, Go, AllComplete
<1>2. ~LooksP0Continuous /\ WalkType /\ ExchangeType /\ ExchangeInv
  BY <1>1 DEF IInv, WalkInv, NoWalk, ExchangeInv
<1>3. /\ Owners(p) = {q \in Rank : Asks(p, q) # {}}
      /\ listToSend[p] = [q \in Rank |-> Asks(p, q)]
  BY <1>1, <1>2, WalkLists DEF IInv, Walked
<1>4. RankReceives(p) /\ RankNumbers(p)
  BY <1>2 DEF ExchangeInv
<1>5. \A q \in Rank : Asks(p, q) # {} =>
         Answered(q) /\ finalDataToRecv[p][q] = OwnerIds(p, q)
  BY <1>1, <1>4 DEF RankReceives
<1>6. toCluster'[p] =
        [d \in Dof |-> IF \E q \in Owners(p) : d \in listToSend[p][q]
                       THEN finalDataToRecv[p][CHOOSE q \in Owners(p) :
                                                 d \in listToSend[p][q]][d]
                       ELSE toCluster[p][d]]
  BY <1>1, <1>2 DEF ExchangeType
<1>7. ASSUME NEW q \in Rank, NEW d \in Asks(p, q)
      PROVE  d \in Dof /\ Answered(q) /\ q # p /\ toCluster'[p][d] = toCluster[q][d]
  <2>1. d \in Dof /\ q # p /\ q \in Owners(p) /\ d \in listToSend[p][q]
    BY <1>3, AsksDown, OwnedType, SizesType
  <2> DEFINE r == CHOOSE x \in Owners(p) : d \in listToSend[p][x]
  <2>2. r \in Owners(p) /\ d \in listToSend[p][r]
    BY <2>1
  <2>3. toCluster'[p][d] = finalDataToRecv[p][r][d]
    BY <1>6, <2>1
  <2> HIDE DEF r
  <2>4. r \in Rank /\ d \in Asks(p, r)
    BY <2>2, <1>3
  <2>5. r = q
    BY <2>4, AsksDown, OneOwner
  <2>. QED BY <1>5, <2>1, <2>3, <2>4, <2>5 DEF OwnerIds
<1>8. ASSUME NEW d \in Dof, \A q \in Rank : d \notin Asks(p, q)
      PROVE  toCluster'[p][d] = toCluster[p][d]
  BY <1>3, <1>6, <1>8
<1>9. \A d \in Owned(p) : d \in Dof /\ toCluster'[p][d] = toCluster[p][d]
  BY <1>8, AsksDown, OwnedType
<1>10. toCluster'[p] \in [Dof -> Id]
  <2>1. ASSUME NEW d \in Dof PROVE toCluster'[p][d] \in Id
    <3>1. CASE \E q \in Rank : d \in Asks(p, q)
      BY <3>1, <1>2, <1>7 DEF ExchangeType
    <3>2. CASE \A q \in Rank : d \notin Asks(p, q)
      <4>1. toCluster'[p][d] = toCluster[p][d]
        BY <3>2, <1>8
      <4>. QED BY <4>1, <1>2 DEF ExchangeType
    <3>. QED BY <3>1, <3>2
  <2>2. toCluster'[p] = [d \in Dof |-> toCluster'[p][d]]
    BY <1>6
  <2>. QED BY <2>1, <2>2
<1>11. \A q \in Rank \ {p} : toCluster'[q] = toCluster[q]
  BY <1>1, <1>2 DEF ExchangeType
<1>12. toCluster' \in [Rank -> [Dof -> Id]]
  <2>1. toCluster' = [toCluster EXCEPT ![p] = toCluster'[p]]
    BY <1>1, <1>6
  <2>. QED BY <1>2, <1>10, <2>1 DEF ExchangeType
<1>13. pc'[p] = "cluster" /\ \A q \in Rank \ {p} : pc'[q] = pc[q]
  BY <1>1, <1>2 DEF WalkType
<1>14. ExchangeType'
  BY <1>1, <1>2, <1>12 DEF ExchangeType, commVars
<1>15. Forward(p)
  BY <1>1, <1>9, <1>13 DEF Forward, Numbered, Posted, Answered
<1>16. \A q \in Rank \ {p} : Untouched(q)
  BY <1>1, <1>11, <1>13 DEF Untouched, rangeVars, commVars
<1>17. RankReceives(p)'
  BY <1>1, <1>13 DEF RankReceives, commVars
<1>18. RankNumbers(p)'
  <2>1. Numbered(p) /\ Numbered(p)'
    BY <1>1, <1>13 DEF Numbered
  <2>2. \A d \in Owned(p) : toCluster'[p][d] = firstDf'[p][p] + Pos(p, d)
    BY <1>1, <1>4, <1>9, <2>1 DEF RankNumbers, rangeVars
  <2>3. \A d \in Dof \ Held[p] : toCluster'[p][d] = Invalid
    BY <1>1, <1>4, <1>8, AsksDown, OwnedType DEF RankNumbers
  <2>4. ASSUME NEW q \in Rank, NEW d \in Asks(p, q)
        PROVE  Numbered(q)' /\ toCluster'[p][d] = toCluster'[q][d]
    BY <1>7, <1>11, <1>13 DEF Answered, Numbered
  <2>5. onCluster'[p] = NothingNumbered
    BY <1>1, <1>4 DEF RankNumbers
  <2>. QED BY <1>13, <2>1, <2>2, <2>3, <2>4, <2>5 DEF RankNumbers, NothingNumbered
<1>19. \A a, b \in Rank : chan'[a][b] = chan[a][b]
  BY <1>1 DEF commVars
<1>. QED BY <1>2, <1>14, <1>15, <1>16, <1>17, <1>18, <1>19, ExchangeMove

LEMMA OnClusterStep ==
  ASSUME IInv, NEW p \in Rank, LocalToGlobalOnCluster(p) PROVE ExchangeInv'
<1>1. /\ pc[p] = "cluster" /\ pc' = [pc EXCEPT ![p] = "done"]
      /\ onCluster' = [onCluster EXCEPT ![p] = toCluster[p]]
      /\ UNCHANGED <<rangeVars, toCluster, commVars>>
  BY DEF LocalToGlobalOnCluster, Go
<1>2. ~LooksP0Continuous /\ WalkType /\ ExchangeType /\ ExchangeInv
  BY <1>1 DEF IInv, WalkInv, NoWalk, ExchangeInv
<1>3. RankReceives(p) /\ RankNumbers(p)
  BY <1>2 DEF ExchangeInv
<1>4. /\ pc'[p] = "done" /\ onCluster'[p] = toCluster[p]
      /\ \A q \in Rank \ {p} : pc'[q] = pc[q] /\ onCluster'[q] = onCluster[q]
  BY <1>1, <1>2 DEF WalkType, ExchangeType
<1>5. ExchangeType'
  BY <1>1, <1>2 DEF ExchangeType, commVars
<1>6. Forward(p)
  BY <1>1, <1>4 DEF Forward, Numbered, Posted, Answered
<1>7. \A q \in Rank \ {p} : Untouched(q)
  BY <1>1, <1>4 DEF Untouched, rangeVars, commVars
<1>8. RankReceives(p)'
  BY <1>1, <1>3, <1>4 DEF RankReceives, commVars
<1>9. RankNumbers(p)'
  <2>1. Numbered(p) /\ Numbered(p)'
    BY <1>1, <1>4 DEF Numbered
  <2>2. ASSUME NEW q \in Rank, Numbered(q) PROVE Numbered(q)'
    BY <2>1, <2>2, <1>4 DEF Numbered
  <2>. QED BY <1>1, <1>3, <1>4, <2>1, <2>2 DEF RankNumbers, rangeVars
<1>10. \A a, b \in Rank : chan'[a][b] = chan[a][b]
  BY <1>1 DEF commVars
<1>. QED BY <1>2, <1>5, <1>6, <1>7, <1>8, <1>9, <1>10, ExchangeMove

LEMMA P0ContinuousStep ==
  ASSUME IInv, NEW p \in Rank, LooksP0Continuous, BuildP0Continuous(p)
  PROVE  ExchangeInv'
<1>1. /\ LooksP0Continuous /\ pc[p] = "build" /\ pc' = [pc EXCEPT ![p] = "done"]
      /\ toCluster' = [toCluster EXCEPT ![p] =
                         [d \in Dof |-> IF d \in Held[p] THEN 0 ELSE Invalid]]
      /\ UNCHANGED <<commVars, onCluster>>
  BY DEF BuildP0Continuous, Go
<1>2. ExchangeType /\ WalkType /\ \A q \in Rank : Alone(q)
  BY <1>1 DEF IInv, WalkInv, ExchangeInv
<1>3. [d \in Dof |-> IF d \in Held[p] THEN 0 ELSE Invalid] \in [Dof -> Id]
  BY DEF Id
<1>4. ExchangeType'
  BY <1>1, <1>2, <1>3 DEF ExchangeType, commVars
<1>5. /\ pc'[p] = "done"
      /\ toCluster'[p] = [d \in Dof |-> IF d \in Held[p] THEN 0 ELSE Invalid]
      /\ \A q \in Rank \ {p} : pc'[q] = pc[q] /\ toCluster'[q] = toCluster[q]
  BY <1>1, <1>2 DEF WalkType, ExchangeType
<1>6. ASSUME NEW q \in Rank PROVE Alone(q)'
  <2>1. Alone(q)
    BY <1>2
  <2>. QED BY <1>1, <1>5, <2>1 DEF Alone, commVars, NothingNumbered
<1>. QED BY <1>1, <1>4, <1>6 DEF ExchangeInv

LEMMA ExchangeNext ==
  ASSUME RegularSpace, IInv, [Next]_vars PROVE ExchangeInv'
<1>0. ExchangeInv /\ RangeType /\ pc \in [Rank -> Phase]
  BY DEF IInv, RangeInv, WalkInv, WalkType
<1>1. CASE UNCHANGED vars
  BY <1>0, <1>1, ExchangeStutter DEF vars, rangeVars, commVars
<1>2. ASSUME NEW p \in Rank, Step(p) PROVE ExchangeInv'
  <2>0. pc[p] \notin {"build", "done"} => ~LooksP0Continuous
    BY DEF IInv, WalkInv, NoWalk
  <2>1. CASE LooksP0Continuous /\ BuildP0Continuous(p)
    BY <2>1, P0ContinuousStep
  <2>2. CASE ~LooksP0Continuous /\ Continuous /\ BuildContinuous(p)
    <3>1. /\ ~LooksP0Continuous /\ pc[p] = "build" /\ pc' = [pc EXCEPT ![p] = "walk"]
          /\ "walk" \in Phase
          /\ UNCHANGED <<toCluster, onCluster, commVars, firstDf>>
      BY <2>2 DEF BuildContinuous, Go, RegularSpace, rangeVars, Phase
    <3>. QED BY <1>0, <3>1, ExchangeMoveOn
  <2>3. CASE ~LooksP0Continuous /\ ~Continuous /\ BuildDiscontinuous(p)
    <3>1. /\ ~LooksP0Continuous /\ pc[p] = "build" /\ pc' = [pc EXCEPT ![p] = "ranges"]
          /\ "ranges" \in Phase
          /\ firstDf' = [firstDf EXCEPT ![p][0] = 0]
          /\ UNCHANGED <<toCluster, onCluster, commVars>>
      BY <2>3 DEF BuildDiscontinuous, StartRanges, Go, Phase
    <3>2. \A q \in Rank : (q = p /\ ~Numbered(p)) \/ firstDf'[q] = firstDf[q]
      BY <1>0, <3>1 DEF RangeType, Numbered
    <3>. QED BY <1>0, <3>1, <3>2, ExchangeMoveOn
  <2>4. CASE \E f \in Face : WalkFace(p, f)
    BY <1>0, <2>4, ExchangeStutter DEF WalkFace, rangeVars
  <2>5. CASE EnterGather(p)
    <3>1. /\ pc[p] = "walk" /\ pc' = [pc EXCEPT ![p] = "gather"] /\ "gather" \in Phase
          /\ UNCHANGED <<toCluster, onCluster, commVars, firstDf>>
      BY <2>5 DEF EnterGather, Go, Phase
    <3>. QED BY <1>0, <2>0, <3>1, ExchangeMoveOn
  <2>6. CASE LeaveGather(p)
    <3>1. /\ pc[p] = "gather" /\ pc' = [pc EXCEPT ![p] = "ranges"] /\ "ranges" \in Phase
          /\ firstDf' = [firstDf EXCEPT ![p][0] = 0]
          /\ UNCHANGED <<toCluster, onCluster, commVars>>
      BY <2>6 DEF LeaveGather, StartRanges, Go, Phase
    <3>2. \A q \in Rank : (q = p /\ ~Numbered(p)) \/ firstDf'[q] = firstDf[q]
      BY <1>0, <3>1 DEF RangeType, Numbered
    <3>. QED BY <1>0, <2>0, <3>1, <3>2, ExchangeMoveOn
  <2>7. CASE RangeStep(p)
    <3>1. /\ pc[p] = "ranges" /\ pc' = pc
          /\ UNCHANGED <<toCluster, onCluster, commVars>>
      BY <2>7 DEF RangeStep
    <3>2. PICK x : firstDf' = [firstDf EXCEPT ![p][cpt[p]] = x]
      BY <2>7 DEF RangeStep
    <3>3. \A q \in Rank : Numbered(q) => firstDf'[q] = firstDf[q]
      BY <1>0, <3>1, <3>2 DEF RangeType, Numbered
    <3>. QED BY <1>0, <3>1, <3>3, ExchangeStutter
  <2>8. CASE NumberActif(p)
    BY <2>8, NumberActifStep
  <2>9. CASE NothingToExchange(p)
    <3>1. /\ pc[p] = "post" /\ pc' = [pc EXCEPT ![p] = "cluster"] /\ "cluster" \in Phase
          /\ Owners(p) = {}
          /\ UNCHANGED <<toCluster, onCluster, commVars, firstDf>>
      BY <2>9 DEF NothingToExchange, Go, rangeVars, Phase
    <3>2. \A q \in Rank : Asks(p, q) = {}
      BY <2>0, <3>1, WalkLists DEF IInv, Walked
    <3>. QED BY <1>0, <2>0, <3>1, <3>2, ExchangeMoveOn
  <2>10. CASE PostRequests(p)
    BY <2>10, PostRequestsStep
  <2>11. CASE \E q \in Rank : RecvRequest(p, q)
    BY <2>11, RecvRequestStep
  <2>12. CASE SendAnswers(p)
    BY <2>12, SendAnswersStep
  <2>13. CASE \E q \in Rank : RecvAnswer(p, q)
    BY <2>13, RecvAnswerStep
  <2>14. CASE UpdateGhosts(p)
    BY <2>14, UpdateGhostsStep
  <2>15. CASE LocalToGlobalOnCluster(p)
    BY <2>15, OnClusterStep
  <2>. QED BY <1>2, <2>1, <2>2, <2>3, <2>4, <2>5, <2>6, <2>7, <2>8, <2>9,
              <2>10, <2>11, <2>12, <2>13, <2>14, <2>15 DEF Step, Build
<1>. QED BY <1>1, <1>2 DEF Next, Finished

(* The inductive invariant of the numbering                                *)
THEOREM Invariant == ASSUME RegularSpace PROVE Spec => []IInv
<1>1. Init => IInv
  BY WalkInit, RangeInit, ExchangeInit DEF IInv
<1>2. IInv /\ [Next]_vars => IInv'
  BY WalkNext, RangeNext, ExchangeNext DEF IInv
<1>. QED BY <1>1, <1>2, PTL DEF Spec

-----------------------------------------------------------------------------
(* Consequences of the invariant                                           *)

LEMMA HasOwner ==
  ASSUME NEW p \in Rank, NEW d \in Held[p], d \notin Owned(p)
  PROVE  \E q \in Rank : d \in Asks(p, q)
<1>1. d \in Shared(p)
  BY DEF Owned, Shared
<1>. QED BY <1>1, WalkDecision

LEMMA FirstsAgree ==
  ASSUME RangeInv, ~LooksP0Continuous,
         NEW p \in Rank, NEW q \in Rank, Numbered(p), Numbered(q)
  PROVE  firstDf[p] = firstDf[q]
BY NumberedRanges, StackedAgree

(* A number comes from the owner of its dof                                *)
FromOwner(p, d) ==
  \E r \in Rank : /\ d \in Owned(r) /\ Numbered(r)
                  /\ toCluster[p][d] = firstDf[r][r] + Pos(r, d)

LEMMA NumberOfOwner ==
  ASSUME IInv, ~LooksP0Continuous, NEW p \in Rank, NEW d \in Dof,
         toCluster[p][d] # Invalid \/ (pc[p] = "done" /\ d \in Held[p])
  PROVE  FromOwner(p, d)
<1>1. RankNumbers(p) /\ \A r \in Rank : RankNumbers(r)
  BY DEF IInv, ExchangeInv
<1>2. Numbered(p)
  BY <1>1 DEF RankNumbers, NothingNumbered, Numbered
<1>3. CASE d \in Owned(p)
  BY <1>1, <1>2, <1>3 DEF RankNumbers, FromOwner
<1>4. CASE d \notin Owned(p)
  <2>1. pc[p] \in {"cluster", "done"} /\ d \in Held[p]
    BY <1>1, <1>2, <1>4 DEF RankNumbers, Numbered
  <2>2. PICK r \in Rank : d \in Asks(p, r)
    BY <1>4, <2>1, HasOwner
  <2>3. d \in Owned(r) /\ Numbered(r) /\ toCluster[p][d] = toCluster[r][d]
    BY <1>1, <2>1, <2>2, AsksDown DEF RankNumbers
  <2>. QED BY <1>1, <2>3 DEF RankNumbers, FromOwner
<1>. QED BY <1>3, <1>4

(* The numbers of two owners lie in the ranges of these owners             *)
LEMMA DifferentNumbers ==
  ASSUME RangeInv, ~LooksP0Continuous,
         NEW r \in Rank, NEW s \in Rank, Numbered(r), Numbered(s),
         NEW d \in Owned(r), NEW e \in Owned(s), d # e
  PROVE  firstDf[r][r] + Pos(r, d) # firstDf[s][s] + Pos(s, e)
<1>1. /\ Pos(r, d) \in Nat /\ Pos(r, d) < Sizes[r]
      /\ Pos(s, e) \in Nat /\ Pos(s, e) < Sizes[s]
  BY PosBound, OwnedType
<1>2. /\ firstDf[r] = firstDf[s] /\ firstDf[r] \in [Rank -> Nat]
      /\ Stacked(firstDf[r], NProc - 1)
  BY FirstsAgree, NumberedRanges
<1>3. firstDf[r][r] \in Nat /\ firstDf[s][s] \in Nat /\ Sizes[r] \in Nat /\ Sizes[s] \in Nat
  BY <1>2, SizesType
<1>4. CASE r = s
  BY <1>1, <1>3, <1>4, PosInjective
<1>5. CASE r < s
  <2>1. firstDf[r][r] + Sizes[r] <= firstDf[s][s]
    BY <1>2, <1>5, StackedOrder
  <2>. QED BY <1>1, <1>3, <2>1
<1>6. CASE s < r
  <2>1. firstDf[s][s] + Sizes[s] <= firstDf[r][r]
    BY <1>2, <1>6, StackedOrder
  <2>. QED BY <1>1, <1>3, <2>1
<1>. QED BY <1>4, <1>5, <1>6, SizesType

(* In a P0 continuous space there is one dof, and it is on all the ranks   *)
LEMMA OneDof ==
  ASSUME RegularSpace, LooksP0Continuous, NEW p \in Rank, NEW q \in Rank,
         NEW d \in Held[p], NEW e \in Held[q]
  PROVE  d = e
<1>1. Held[p] = Held[q] /\ Cardinality(Held[p]) = 1 /\ IsFiniteSet(Held[p])
  BY HeldType DEF RegularSpace, LooksP0Continuous
<1>2. PICK x : Held[p] = {x}
  BY <1>1, FS_Singleton
<1>. QED BY <1>1, <1>2

LEMMA UniqueFromInv ==
  ASSUME RegularSpace, IInv PROVE UniqueNumbers
<1> SUFFICES ASSUME NEW p \in Rank, NEW q \in Rank, NEW d \in Dof, NEW e \in Dof,
                    d # e, toCluster[p][d] # Invalid
             PROVE  toCluster[p][d] # toCluster[q][e]
  BY DEF UniqueNumbers
<1>1. CASE toCluster[q][e] = Invalid
  BY <1>1
<1>2. CASE toCluster[q][e] # Invalid
  <2>1. CASE LooksP0Continuous
    <3>1. Alone(p) /\ Alone(q)
      BY <2>1 DEF IInv, ExchangeInv
    <3>2. d \in Held[p] /\ e \in Held[q]
      BY <1>2, <3>1 DEF Alone, NothingNumbered
    <3>. QED BY <2>1, <3>2, OneDof
  <2>2. CASE ~LooksP0Continuous
    <3>1. PICK r \in Rank : /\ d \in Owned(r) /\ Numbered(r)
                            /\ toCluster[p][d] = firstDf[r][r] + Pos(r, d)
      BY <2>2, NumberOfOwner DEF FromOwner
    <3>2. PICK s \in Rank : /\ e \in Owned(s) /\ Numbered(s)
                            /\ toCluster[q][e] = firstDf[s][s] + Pos(s, e)
      BY <1>2, <2>2, NumberOfOwner DEF FromOwner
    <3>. QED BY <2>2, <3>1, <3>2, DifferentNumbers DEF IInv
  <2>. QED BY <2>1, <2>2
<1>. QED BY <1>1, <1>2

LEMMA SameFromInv ==
  ASSUME IInv PROVE SameNumber
<1> SUFFICES ASSUME NEW p \in Rank, NEW q \in Rank, NEW d \in Dof,
                    toCluster[p][d] # Invalid, toCluster[q][d] # Invalid
             PROVE  toCluster[p][d] = toCluster[q][d]
  BY DEF SameNumber
<1>1. CASE LooksP0Continuous
  <2>1. Alone(p) /\ Alone(q)
    BY <1>1 DEF IInv, ExchangeInv
  <2>. QED BY <2>1 DEF Alone, NothingNumbered
<1>2. CASE ~LooksP0Continuous
  <2>1. PICK r \in Rank : /\ d \in Owned(r) /\ Numbered(r)
                          /\ toCluster[p][d] = firstDf[r][r] + Pos(r, d)
    BY <1>2, NumberOfOwner DEF FromOwner
  <2>2. PICK s \in Rank : /\ d \in Owned(s) /\ Numbered(s)
                          /\ toCluster[q][d] = firstDf[s][s] + Pos(s, d)
    BY <1>2, NumberOfOwner DEF FromOwner
  <2>. QED BY <2>1, <2>2, OneOwner
<1>. QED BY <1>1, <1>2

(* Different dofs never get the same cluster id                            *)
THEOREM UniqueNumbersAlways == ASSUME RegularSpace PROVE Spec => []UniqueNumbers
<1>1. IInv => UniqueNumbers
  BY UniqueFromInv
<1>. QED BY <1>1, Invariant, PTL

(* All the ranks number a shared dof alike                                 *)
THEOREM SameNumberAlways == ASSUME RegularSpace PROVE Spec => []SameNumber
<1>1. IInv => SameNumber
  BY SameFromInv
<1>. QED BY <1>1, Invariant, PTL

(* No receive completes with a message of the other exchange               *)
THEOREM NoCrossedMessagesAlways ==
  ASSUME RegularSpace PROVE Spec => []NoCrossedMessages
<1>1. IInv => NoCrossedMessages
  <2> SUFFICES ASSUME IInv, NEW p \in Rank, NEW q \in Rank,
                      q \in pending[p], chan[q][p] # <<>>
               PROVE  Head(chan[q][p]).kind =
                        IF pc[p] = "waitRequests" THEN "request" ELSE "answer"
    BY DEF NoCrossedMessages
  <2>1. ~LooksP0Continuous
    BY DEF IInv, ExchangeInv, Alone
  <2>2. RankReceives(p) /\ Channel(q, p)
    BY <2>1 DEF IInv, ExchangeInv
  <2>3. pc[p] \in {"waitRequests", "waitAnswers"}
    BY <2>2 DEF RankReceives
  <2>4. ~ (Asks(p, q) # {} /\ Asks(q, p) # {})
    BY <2>1, EmptyChannel DEF IInv
  <2>5. \/ pc[p] = "waitRequests" /\ chan[q][p] = <<Request(Asks(q, p))>>
        \/ pc[p] = "waitAnswers" /\ chan[q][p] = <<Answer(OwnerIds(p, q))>>
    BY <2>2, <2>3, <2>4 DEF RankReceives, Channel
  <2>6. \A x : Head(<<x>>) = x
    OBVIOUS
  <2>. QED BY <2>5, <2>6 DEF Request, Answer
<1>. QED BY <1>1, Invariant, PTL

(* The owners answer with the numbers they gave                            *)
THEOREM AnswersNumberedAlways ==
  ASSUME RegularSpace PROVE Spec => []AnswersNumbered
<1>1. IInv => AnswersNumbered
  <2> SUFFICES ASSUME IInv, NEW p \in Rank, NEW q \in Rank,
                      NEW i \in 1 .. Len(chan[q][p]),
                      chan[q][p][i].kind = "answer",
                      NEW d \in DOMAIN chan[q][p][i].ids
               PROVE  chan[q][p][i].ids[d] # Invalid
    BY DEF AnswersNumbered
  <2>1. chan[q][p] # <<>>
    OBVIOUS
  <2>2. ~LooksP0Continuous
    BY <2>1 DEF IInv, ExchangeInv, Alone
  <2>3. Channel(q, p) /\ RankNumbers(q) /\ RangeType
    BY <2>2 DEF IInv, ExchangeInv, RangeInv
  <2>4. \A x : Len(<<x>>) = 1 /\ <<x>>[1] = x
    OBVIOUS
  <2>5. Answered(q) /\ chan[q][p][i] = Answer(OwnerIds(p, q))
    BY <2>1, <2>3, <2>4 DEF Channel, Request
  <2>6. chan[q][p][i].ids = OwnerIds(p, q)
    BY <2>5 DEF Answer
  <2>7. d \in Asks(p, q) /\ chan[q][p][i].ids[d] = toCluster[q][d]
    BY <2>6 DEF OwnerIds
  <2>8. d \in Owned(q) /\ d \in Dof /\ Numbered(q)
    BY <2>5, <2>7, AsksDown, OwnedType DEF Answered, Numbered
  <2>9. toCluster[q][d] = firstDf[q][q] + Pos(q, d) /\ firstDf[q][q] \in Nat
    BY <2>3, <2>8 DEF RankNumbers, RangeType
  <2>. QED BY <2>7, <2>8, <2>9, PosBound DEF Invalid
<1>. QED BY <1>1, Invariant, PTL

(* The range test finds the owner of every id, and no other rank           *)
THEOREM RangesMatchOwnershipAlways ==
  ASSUME RegularSpace PROVE Spec => []RangesMatchOwnership
<1>1. IInv => RangesMatchOwnership
  <2> SUFFICES ASSUME IInv, NEW p \in Rank, pc[p] = "done", ~LooksP0Continuous,
                      NEW d \in Held[p], NEW q \in Rank
               PROVE  DofGlobalClusterIsOnProc(p, onCluster[p][d], q)
                        <=> d \in Held[q] /\ d \notin dofIsGhost[q]
    BY DEF RangesMatchOwnership
  <2>1. d \in Dof /\ RangeInv /\ WalkInv
    BY HeldType DEF IInv
  <2>2. onCluster[p] = toCluster[p] /\ Numbered(p)
    BY DEF IInv, ExchangeInv, RankNumbers, Numbered
  <2>3. PICK r \in Rank : /\ d \in Owned(r) /\ Numbered(r)
                          /\ toCluster[p][d] = firstDf[r][r] + Pos(r, d)
    BY <2>1, NumberOfOwner DEF FromOwner
  <2> DEFINE g == firstDf[p]
             id == g[r] + Pos(r, d)
  <2>4. /\ nWithoutGhost[p] = Sizes /\ g \in [Rank -> Nat] /\ Stacked(g, NProc - 1)
        /\ lastDf[p][q] = LastFrom(Sizes, g[q], q)
        /\ Continuous => \A x \in Rank : Walked(x)
    BY <2>1, <2>2, NumberedRanges
  <2>5. onCluster[p][d] = id
    BY <2>1, <2>2, <2>3, FirstsAgree
  <2>6. /\ Pos(r, d) \in Nat /\ Pos(r, d) < Sizes[r]
        /\ g[r] \in Nat /\ g[q] \in Nat /\ Sizes[r] \in Nat /\ Sizes[q] \in Nat
    BY <2>1, <2>3, <2>4, PosBound, SizesType
  <2>7. DofGlobalClusterIsOnProc(p, id, q)
          <=> Sizes[q] > 0 /\ g[q] <= id /\ id <= LastFrom(Sizes, g[q], q)
    BY <2>4 DEF DofGlobalClusterIsOnProc
  <2>8. r < q => g[r] + Sizes[r] <= g[q]
    <3> HIDE DEF g
    <3>. QED BY <2>4, StackedOrder
  <2>9. q < r => g[q] + Sizes[q] <= g[r]
    <3> HIDE DEF g
    <3>. QED BY <2>4, StackedOrder
  <2>10. Sizes[q] > 0 /\ g[q] <= id /\ id <= LastFrom(Sizes, g[q], q) <=> q = r
    <3>1. q \in Nat /\ r \in Nat
      BY SizesType
    <3> HIDE DEF g
    <3>2. CASE q = r
      BY <2>6, <3>2 DEF LastFrom
    <3>3. CASE r < q
      BY <2>6, <2>8, <3>1, <3>3
    <3>4. CASE q < r
      BY <2>6, <2>9, <3>1, <3>4 DEF LastFrom
    <3>. QED BY <3>1, <3>2, <3>3, <3>4
  <2>11. d \in Held[q] /\ d \notin dofIsGhost[q] <=> d \in Owned(q)
    <3>1. CASE Continuous
      <4>1. dofIsGhost[q] = Held[q] \ Owned(q)
        BY <2>1, <2>4, <3>1, WalkLists
      <4>. QED BY <4>1, OwnedType
    <3>2. CASE ~Continuous
      <4>1. WalkedFaces(q)
        BY <2>1 DEF WalkInv
      <4>2. dofIsGhost[q] = {}
        BY <4>1, <3>2, NothingShared DEF WalkedFaces
      <4>3. Held[q] = Owned(q)
        BY <3>2, NothingShared DEF Owned, Shared
      <4>. QED BY <4>2, <4>3
    <3>. QED BY <3>1, <3>2
  <2>12. d \in Owned(q) <=> q = r
    BY <2>3, OneOwner
  <2> HIDE DEF g, id
  <2>. QED BY <2>5, <2>7, <2>10, <2>11, <2>12
<1>. QED BY <1>1, Invariant, PTL

(* Every variable keeps its type                                           *)
THEOREM TypeCorrect == ASSUME RegularSpace PROVE Spec => []TypeOK
<1>1. ASSUME NEW m \in Message PROVE IsMessage(m)
  <2>1. CASE m \in [kind : {"request"}, dofs : SUBSET Dof]
    BY <2>1 DEF IsMessage, Request
  <2>2. CASE m \in [kind : {"answer"}, ids : IdMap]
    BY <2>2 DEF IsMessage, Answer, IdMap, IsIdMap
  <2>. QED BY <2>1, <2>2 DEF Message
<1>2. ASSUME NEW f \in IdMap PROVE IsIdMap(f)
  BY DEF IdMap, IsIdMap
<1>3. IInv => TypeOK
  <2> SUFFICES ASSUME IInv PROVE TypeOK
    OBVIOUS
  <2>1. WalkType /\ RangeType /\ ExchangeType
    BY DEF IInv, WalkInv, RangeInv, ExchangeInv
  <2>2. /\ DOMAIN chan = Rank
        /\ \A p \in Rank : DOMAIN chan[p] = Rank
    BY <2>1 DEF ExchangeType
  <2>3. ASSUME NEW p \in Rank, NEW q \in Rank, NEW i \in 1 .. Len(chan[p][q])
        PROVE  IsMessage(chan[p][q][i])
    <3>1. chan[p][q] \in Seq(Message)
      BY <2>1 DEF ExchangeType
    <3>2. chan[p][q][i] \in Message
      BY <3>1
    <3>. QED BY <1>1, <3>2
  <2>4. /\ DOMAIN finalDataToRecv = Rank
        /\ \A p \in Rank : /\ DOMAIN finalDataToRecv[p] = Rank
                            /\ \A q \in Rank : IsIdMap(finalDataToRecv[p][q])
    BY <1>2, <2>1 DEF ExchangeType
  <2>. QED BY <2>1, <2>2, <2>3, <2>4 DEF TypeOK, WalkType, RangeType, ExchangeType
<1>. QED BY <1>3, Invariant, PTL

-----------------------------------------------------------------------------
(* The refinement: a step of the protocol gives numbers to copies that     *)
(* have none, or gives none.                                               *)

LEMMA ConsistentFromInv ==
  ASSUME RegularSpace, IInv PROVE Numbering!Consistent(toCluster)
<1> SUFFICES ASSUME NEW p \in Rank, NEW q \in Rank, NEW d \in Dof, NEW e \in Dof,
                    toCluster[p][d] # Invalid, toCluster[q][e] # Invalid
             PROVE  toCluster[p][d] = toCluster[q][e] <=> d = e
  BY DEF Numbering!Consistent, Numbering!Numbered
<1>1. CASE d = e
  BY <1>1, SameFromInv DEF SameNumber
<1>2. CASE d # e
  BY <1>2, UniqueFromInv DEF UniqueNumbers
<1>. QED BY <1>1, <1>2

OnlyHeldNumbered == \A p \in Rank : \A d \in Dof \ Held[p] : toCluster[p][d] = Invalid

LEMMA HeldNumbers ==
  ASSUME IInv PROVE OnlyHeldNumbered
<1> SUFFICES ASSUME NEW p \in Rank, NEW d \in Dof \ Held[p]
             PROVE  toCluster[p][d] = Invalid
  BY DEF OnlyHeldNumbered
<1>1. CASE LooksP0Continuous
  <2>1. Alone(p)
    BY <1>1 DEF IInv, ExchangeInv
  <2>. QED BY <2>1 DEF Alone, NothingNumbered
<1>2. CASE ~LooksP0Continuous
  <2>1. RankNumbers(p)
    BY <1>2 DEF IInv, ExchangeInv
  <2>2. d \notin Owned(p)
    BY OwnedType
  <2>. QED BY <2>1, <2>2 DEF RankNumbers, NothingNumbered, Numbered
<1>. QED BY <1>1, <1>2

LEMMA StepNumbers ==
  ASSUME RegularSpace, IInv, IInv', [Next]_vars
  PROVE  [Numbering!Next]_toCluster
<1>0. ExchangeType /\ WalkInv
  BY DEF IInv, ExchangeInv
<1>1. ASSUME NEW p \in Rank, BuildP0Continuous(p) \/ NumberActif(p) \/ UpdateGhosts(p),
             \A d \in Dof : toCluster[p][d] # Invalid => toCluster'[p][d] = toCluster[p][d]
      PROVE  Numbering!Next
  <2>1. \A q \in Rank \ {p} : toCluster'[q] = toCluster[q]
    BY <1>0, <1>1 DEF BuildP0Continuous, NumberActif, UpdateGhosts, ExchangeType
  <2>2. \A d \in Dof \ Held[p] : toCluster'[p][d] = Invalid
    <3>1. OnlyHeldNumbered'
      BY HeldNumbers, PTL
    <3>. QED BY <3>1 DEF OnlyHeldNumbered
  <2>3. Numbering!Consistent(toCluster')
    <3>1. Numbering!Consistent(toCluster)'
      BY ConsistentFromInv, PTL
    <3>. QED BY <3>1 DEF Numbering!Consistent, Numbering!Numbered
  <2>. QED BY <1>1, <2>1, <2>2, <2>3 DEF Numbering!Next, Numbering!Number, Numbering!Numbered
<1>2. ASSUME NEW p \in Rank, BuildP0Continuous(p) \/ NumberActif(p)
      PROVE  \A d \in Dof : toCluster[p][d] # Invalid => toCluster'[p][d] = toCluster[p][d]
  <2>1. pc[p] \in {"build", "ranges"}
    BY <1>2 DEF BuildP0Continuous, NumberActif, Go
  <2>2. toCluster[p] = NothingNumbered
    BY <2>1 DEF IInv, ExchangeInv, Alone, RankNumbers, Numbered
  <2>. QED BY <2>2 DEF NothingNumbered
<1>3. ASSUME NEW p \in Rank, UpdateGhosts(p)
      PROVE  \A d \in Dof : toCluster[p][d] # Invalid => toCluster'[p][d] = toCluster[p][d]
  <2>1. pc[p] = "waitAnswers" /\ ~LooksP0Continuous
    BY <1>0, <1>3 DEF UpdateGhosts, Go, WalkInv, NoWalk
  <2>2. RankNumbers(p) /\ Owners(p) \subseteq Rank
        /\ listToSend[p] = [q \in Rank |-> Asks(p, q)]
    BY <1>0, <2>1, WalkLists DEF IInv, ExchangeInv, Walked, Owners
  <2>3. ASSUME NEW d \in Dof, toCluster[p][d] # Invalid PROVE toCluster'[p][d] = toCluster[p][d]
    <3>1. d \in Owned(p)
      BY <2>1, <2>2, <2>3 DEF RankNumbers
    <3>2. ~ \E q \in Owners(p) : d \in listToSend[p][q]
      BY <2>2, <3>1, AsksDown
    <3>. QED BY <1>0, <1>3, <3>2 DEF UpdateGhosts, ExchangeType
  <2>. QED BY <2>3
<1>4. ASSUME NEW p \in Rank, Step(p),
             ~BuildP0Continuous(p), ~NumberActif(p), ~UpdateGhosts(p)
      PROVE  UNCHANGED toCluster
  BY <1>4 DEF Step, Build, BuildContinuous, BuildDiscontinuous, WalkFace, EnterGather, LeaveGather,
     RangeStep, NothingToExchange, PostRequests, RecvRequest, SendAnswers, RecvAnswer,
     LocalToGlobalOnCluster
<1>5. ASSUME NEW p \in Rank, Step(p) PROVE [Numbering!Next]_toCluster
  BY <1>1, <1>2, <1>3, <1>4, <1>5
<1>6. ASSUME UNCHANGED vars PROVE [Numbering!Next]_toCluster
  BY <1>6 DEF vars
<1>. QED BY <1>5, <1>6 DEF Next, Finished

(* The protocol implements the abstract numbering                          *)
THEOREM Refinement == ASSUME RegularSpace PROVE Spec => ImplementsNumbering
<1>1. Init => Numbering!Init
  BY DEF Init, PerRank, NothingNumbered, Numbering!Init
<1>2. IInv /\ IInv' /\ [Next]_vars => [Numbering!Next]_toCluster
  BY StepNumbers
<1>. QED BY <1>1, <1>2, Invariant, PTL DEF Spec, ImplementsNumbering, Numbering!Spec

-----------------------------------------------------------------------------
(* All the ids of the ranges are given                                     *)

(* Numbers that are different and below the size of the set are all those  *)
(* below the size: every position is taken                                 *)
LEMMA PosOnto ==
  ASSUME NEW r \in Rank, NEW k \in 0 .. Sizes[r] - 1
  PROVE  \E d \in Owned(r) : Pos(r, d) = k
<1> DEFINE f == [d \in Owned(r) |-> Pos(r, d)]
           T == 0 .. Sizes[r] - 1
<1>1. \A d \in Owned(r) : d \in Dof /\ Pos(r, d) \in T
  <2>1. ASSUME NEW d \in Owned(r) PROVE d \in Dof /\ Pos(r, d) \in T
    <3>1. d \in Dof
      BY OwnedType
    <3>2. Pos(r, d) \in Nat /\ Pos(r, d) < Sizes[r] /\ Sizes[r] \in Nat
      BY <3>1, PosBound, SizesType
    <3>. QED BY <3>1, <3>2
  <2>. QED BY <2>1
<1>2. f \in Injection(Owned(r), T)
  <2>1. f \in [Owned(r) -> T]
    BY <1>1
  <2>2. \A d, e \in Owned(r) : f[d] = f[e] => d = e
    BY PosInjective
  <2> HIDE DEF f, T
  <2>. QED BY <2>1, <2>2 DEF Injection, IsInjective
<1>3. IsFiniteSet(T) /\ Cardinality(T) = Sizes[r]
  <2>1. PICK n \in Nat : n = Sizes[r]
    BY SizesType
  <2>2. /\ IsFiniteSet(0 .. n - 1)
        /\ Cardinality(0 .. n - 1) = IF 0 > n - 1 THEN 0 ELSE n - 1 - 0 + 1
    BY FS_Interval
  <2>3. Cardinality(0 .. n - 1) = n
    BY <2>2
  <2>. QED BY <2>1, <2>2, <2>3
<1>4. Sizes[r] = Cardinality(Owned(r))
  BY DEF Sizes
<1>5. f \in Surjection(Owned(r), T)
  <2> HIDE DEF f, T
  <2>. QED BY <1>2, <1>3, <1>4, FS_Injection
<1>6. \E d \in Owned(r) : f[d] = k
  <2>1. k \in T
    OBVIOUS
  <2> HIDE DEF f, T
  <2>. QED BY <1>5, <2>1 DEF Surjection
<1>. QED BY <1>6

(* The range that an id falls in                                           *)
LEMMA InSomeRange ==
  ASSUME NEW g \in [Rank -> Nat], Stacked(g, NProc - 1),
         NEW n \in 0 .. g[NProc - 1] + Sizes[NProc - 1] - 1
  PROVE  \E r \in Rank : g[r] <= n /\ n < g[r] + Sizes[r]
<1> DEFINE S == {i \in Rank : n < g[i] + Sizes[i]}
<1>1. S \in SUBSET Nat /\ NProc - 1 \in S
  <2>1. NProc - 1 \in Rank /\ g[NProc - 1] \in Nat /\ Sizes[NProc - 1] \in Nat
    BY SizesType
  <2>. QED BY <2>1, SizesType
<1>2. PICK r \in S : \A i \in S : r <= i
  <2> HIDE DEF S
  <2>. QED BY <1>1, LeastNatural
<1>3. r \in Rank /\ n < g[r] + Sizes[r] /\ n \in Int /\ 0 <= n
  BY <1>2, SizesType
<1>4. CASE r = 0
  BY <1>3, <1>4 DEF Stacked
<1>5. CASE r # 0
  <2>1. r \in 1 .. NProc - 1 /\ r - 1 \in Rank /\ r \in Nat
    BY <1>3, <1>5, SizesType DEF Rank
  <2>2. g[r] = g[r-1] + Sizes[r-1]
    BY <2>1 DEF Stacked
  <2>3. r - 1 \notin S
    BY <1>2, <2>1
  <2>4. g[r-1] \in Nat /\ Sizes[r-1] \in Nat
    BY <2>1, SizesType
  <2>. QED BY <1>3, <2>1, <2>2, <2>3, <2>4
<1>. QED BY <1>4, <1>5

LEMMA CompleteRanges ==
  ASSUME IInv, ~LooksP0Continuous, \A p \in Rank : pc[p] = "done", NEW q \in Rank
  PROVE  UNION {{toCluster[p][d] : d \in Held[p]} : p \in Rank} = 0 .. nDofs[q] - 1
<1> DEFINE g == firstDf[q]
           N == NProc - 1
<1>1. \A p \in Rank : Numbered(p)
  BY DEF Numbered
<1>2. /\ g \in [Rank -> Nat] /\ Stacked(g, N) /\ \A p \in Rank : firstDf[p] = g
  BY <1>1, NumberedRanges, FirstsAgree DEF IInv
<1>3. N \in Rank /\ Sizes \in [Rank -> Nat] /\ NProc \in Nat
      /\ \A r \in Rank : r \in Nat /\ r < NProc
  BY SizesType
<1>4. nDofs[q] = g[N] + Sizes[N]
  <2>1. RankRange(q) /\ Ranged(q) /\ Numbered(q)
    BY <1>1 DEF IInv, RangeInv, Ranged, Numbered
  <2>. QED BY <2>1 DEF RankRange, Ranges
<1>5. \A p \in Rank : \A d \in Owned(p) : toCluster[p][d] = g[p] + Pos(p, d)
  BY <1>1, <1>2 DEF IInv, ExchangeInv, RankNumbers
<1> HIDE DEF g
<1>6. ASSUME NEW p \in Rank, NEW d \in Held[p]
      PROVE  toCluster[p][d] \in 0 .. nDofs[q] - 1
  <2>1. d \in Dof
    BY HeldType
  <2>2. PICK r \in Rank : d \in Owned(r) /\ toCluster[p][d] = g[r] + Pos(r, d)
    BY <1>2, <2>1, NumberOfOwner DEF FromOwner
  <2>3. Pos(r, d) \in Nat /\ Pos(r, d) < Sizes[r]
    BY <2>1, <2>2, PosBound
  <2>4. g[r] \in Nat /\ Sizes[r] \in Nat /\ g[N] \in Nat /\ Sizes[N] \in Nat
    BY <1>2, <1>3
  <2>5. g[r] + Sizes[r] <= g[N] + Sizes[N]
    <3>1. CASE r = N
      BY <2>4, <3>1
    <3>2. CASE r # N
      <4>1. r < N
        BY <1>3, <3>2
      <4>2. g[r] + Sizes[r] <= g[N]
        BY <1>2, <1>3, <4>1, StackedOrder
      <4>. QED BY <2>4, <4>2
    <3>. QED BY <3>1, <3>2
  <2>6. g[r] + Pos(r, d) \in 0 .. g[N] + Sizes[N] - 1
    BY <2>3, <2>4, <2>5
  <2>7. nDofs[q] - 1 = g[N] + Sizes[N] - 1
    BY <1>4, <2>4
  <2> HIDE DEF N
  <2>. QED BY <2>2, <2>6, <2>7, Zenon
<1>7. ASSUME NEW n \in 0 .. nDofs[q] - 1
      PROVE  \E p \in Rank : \E d \in Held[p] : toCluster[p][d] = n
  <2>1. PICK r \in Rank : g[r] <= n /\ n < g[r] + Sizes[r]
    <3>1. \A k \in 0 .. g[N] + Sizes[N] - 1 : \E i \in Rank : g[i] <= k /\ k < g[i] + Sizes[i]
      BY <1>2, InSomeRange
    <3> HIDE DEF N
    <3>2. n \in 0 .. nDofs[q] - 1
      OBVIOUS
    <3>3. nDofs[q] - 1 = g[N] + Sizes[N] - 1
      <4>1. g[N] \in Nat /\ Sizes[N] \in Nat
        BY <1>2, <1>3
      <4>. QED BY <1>4, <4>1
    <3>4. n \in 0 .. g[N] + Sizes[N] - 1
      BY <3>2, <3>3, Zenon
    <3>. QED BY <3>1, <3>4
  <2>2. g[r] \in Nat /\ Sizes[r] \in Nat /\ n \in Int
    BY <1>2, <1>3
  <2>3. n - g[r] \in 0 .. Sizes[r] - 1
    BY <2>1, <2>2
  <2>4. PICK d \in Owned(r) : Pos(r, d) = n - g[r]
    BY <2>3, PosOnto
  <2>5. toCluster[r][d] = g[r] + (n - g[r])
    BY <1>5, <2>4
  <2>6. g[r] + (n - g[r]) = n
    BY <2>2
  <2>7. d \in Held[r]
    BY OwnedType
  <2>. QED BY <2>5, <2>6, <2>7
<1> HIDE DEF N
<1>. QED BY <1>6, <1>7

(* The one dof of a P0 continuous space is counted from the beginning      *)
P0Count == LooksP0Continuous => nDofs = HeldCount

LEMMA P0CountStep ==
  ASSUME IInv, P0Count, [Next]_vars PROVE P0Count'
<1> SUFFICES ASSUME LooksP0Continuous PROVE nDofs' = nDofs
  BY DEF P0Count
<1>1. \A p \in Rank : pc[p] \in {"build", "done"} /\ pending[p] = {}
  BY DEF IInv, ExchangeInv, Alone
<1>2. CASE UNCHANGED vars
  BY <1>2 DEF vars, rangeVars
<1>3. ASSUME NEW p \in Rank, Step(p) PROVE nDofs' = nDofs
  BY <1>1, <1>3 DEF Step, Build, Go, Receive, BuildP0Continuous, BuildContinuous,
       BuildDiscontinuous, WalkFace, EnterGather, LeaveGather, RangeStep, NumberActif,
       NothingToExchange, PostRequests, RecvRequest, SendAnswers, RecvAnswer,
       UpdateGhosts, LocalToGlobalOnCluster
<1>. QED BY <1>2, <1>3 DEF Next, Finished

LEMMA CompleteP0 ==
  ASSUME IInv, P0Count, RegularSpace, LooksP0Continuous,
         \A p \in Rank : pc[p] = "done", NEW q \in Rank
  PROVE  UNION {{toCluster[p][d] : d \in Held[p]} : p \in Rank} = 0 .. nDofs[q] - 1
<1>1. nDofs[q] = 1
  BY DEF P0Count, HeldCount, LooksP0Continuous
<1>2. \A p \in Rank : \A d \in Held[p] : d \in Dof /\ toCluster[p][d] = 0
  BY HeldType DEF IInv, ExchangeInv, Alone
<1>3. \E d : d \in Held[q]
  <2>1. Cardinality(Held[q]) = 1
    BY DEF LooksP0Continuous
  <2>. QED BY <2>1, FS_EmptySet
<1>4. 0 .. nDofs[q] - 1 = {0}
  BY <1>1
<1>. QED BY <1>2, <1>3, <1>4

(* When all the ranks have returned the ids are 0 .. M_n_dofs-1, without   *)
(* holes, and every copy of every dof has one of them.                     *)
THEOREM CompleteAlways == ASSUME RegularSpace PROVE Spec => []Complete
<1>1. Init => P0Count
  BY DEF Init, P0Count
<1>2. IInv /\ P0Count /\ [Next]_vars => P0Count'
  BY P0CountStep
<1>3. IInv /\ P0Count => Complete
  BY CompleteRanges, CompleteP0 DEF Complete
<1>. QED BY <1>1, <1>2, <1>3, Invariant, PTL DEF Spec

=============================================================================
