------------------------ MODULE MeshExchange_proofs ------------------------
(***************************************************************************)
(* The exchanges of MeshExchange, for every file and number of ranks: what *)
(* a rank knows is a function of where it is, every channel holds the      *)
(* messages that were posted and not received, in the order of their kind, *)
(* and from this the safety properties.                                    *)
(***************************************************************************)
EXTENDS MeshExchange, FiniteSums, FiniteSetTheorems, SequenceTheorems, TLAPS

-----------------------------------------------------------------------------
(* Numbering a finite set of numbers by how many are smaller               *)

Below(S, c) == Cardinality({e \in S : e < c})

LEMMA BelowBound ==
  ASSUME NEW S \in SUBSET Nat, IsFiniteSet(S), NEW c \in Nat
  PROVE  /\ Below(S, c) \in Nat /\ Cardinality(S) \in Nat
         /\ c \in S => Below(S, c) < Cardinality(S)
<1> DEFINE T == {e \in S : e < c}
<1>1. T \in SUBSET S /\ c \notin T
  OBVIOUS
<1> HIDE DEF T
<1>2. /\ IsFiniteSet(T) /\ Cardinality(T) <= Cardinality(S)
      /\ Cardinality(S) = Cardinality(T) => S = T
  BY <1>1, FS_Subset
<1>3. Cardinality(T) \in Nat /\ Cardinality(S) \in Nat
  BY <1>2, FS_CardinalityType
<1>4. Below(S, c) = Cardinality(T)
  BY DEF Below, T
<1>. QED BY <1>1, <1>2, <1>3, <1>4

LEMMA BelowOrder ==
  ASSUME NEW S \in SUBSET Nat, IsFiniteSet(S), NEW c \in S, NEW d \in S, c < d
  PROVE  Below(S, c) < Below(S, d)
<1> DEFINE T == {e \in S : e < d}
           U == {e \in S : e < c}
<1>1. U \in SUBSET T /\ c \in T /\ c \notin U /\ T \in SUBSET S
  <2>1. ASSUME NEW e \in S, e < c PROVE e < d
    <3>1. e \in Nat /\ c \in Nat /\ d \in Nat
      OBVIOUS
    <3>. QED BY <2>1, <3>1
  <2>2. c \in Nat /\ ~(c < c)
    <3>1. c \in Nat
      OBVIOUS
    <3>. QED BY <3>1
  <2>3. U \in SUBSET T
    BY <2>1
  <2>4. c \in T /\ T \in SUBSET S
    OBVIOUS
  <2>5. c \notin U
    BY <2>2
  <2>. QED BY <2>3, <2>4, <2>5
<1> HIDE DEF T, U
<1>2. IsFiniteSet(T) /\ Cardinality(T) \in Nat
  BY <1>1, FS_Subset, FS_CardinalityType
<1>3. /\ IsFiniteSet(U) /\ Cardinality(U) <= Cardinality(T)
      /\ Cardinality(T) = Cardinality(U) => T = U
  BY <1>1, <1>2, FS_Subset
<1>4. Cardinality(U) \in Nat
  BY <1>3, FS_CardinalityType
<1>5. Below(S, c) = Cardinality(U) /\ Below(S, d) = Cardinality(T)
  BY DEF Below, T, U
<1>. QED BY <1>1, <1>2, <1>3, <1>4, <1>5

LEMMA BelowInjective ==
  ASSUME NEW S \in SUBSET Nat, IsFiniteSet(S), NEW c \in S, NEW d \in S,
         Below(S, c) = Below(S, d)
  PROVE  c = d
<1>1. Below(S, c) \in Nat /\ Below(S, d) \in Nat
  BY BelowBound
<1>2. CASE c < d
  BY <1>1, <1>2, BelowOrder
<1>3. CASE d < c
  BY <1>1, <1>3, BelowOrder
<1>. QED BY <1>2, <1>3

-----------------------------------------------------------------------------
(* What the file says                                                      *)

GhostOf(p) == Kept[p] \ Active[p]

(* p has a ghost that q owns                                               *)
Asks(p, q) == \E c \in GhostOf(p) : Owner(c) = q

LEMMA RankType == 0 \in Rank /\ \A c \in Cell : Owner(c) \in Rank
BY FileAssumption DEF Rank, Owner

LEMMA KeptType ==
  ASSUME NEW p \in Rank
  PROVE  /\ Kept[p] \in SUBSET Nat /\ Kept[p] \subseteq Cell \ Ignored
         /\ IsFiniteSet(Kept[p])
         /\ Active[p] = {c \in Cell \ Ignored : Owner(c) = p}
         /\ Active[p] \in SUBSET Kept[p] /\ IsFiniteSet(Active[p])
         /\ GhostOf(p) = {c \in Cell \ Ignored : Owner(c) # p /\ p \in Ghosts(c)}
         /\ GhostOf(p) \in SUBSET Kept[p] /\ IsFiniteSet(GhostOf(p))
<1>1. Kept[p] = {c \in Cell \ Ignored : Owner(c) = p \/ p \in Ghosts(c)}
  BY DEF Kept
<1>2. Active[p] = {c \in Kept[p] : Owner(c) = p}
  BY DEF Active
<1>3. IsFiniteSet(Kept[p])
  BY <1>1, FileAssumption, FS_Subset
<1>4. Active[p] \in SUBSET Kept[p] /\ GhostOf(p) \in SUBSET Kept[p]
  BY <1>2 DEF GhostOf
<1>5. IsFiniteSet(Active[p]) /\ IsFiniteSet(GhostOf(p))
  BY <1>3, <1>4, FS_Subset
<1>. QED BY <1>1, <1>2, <1>3, <1>4, <1>5, FileAssumption DEF GhostOf

(* The owner of a ghost is another rank, which keeps the cell              *)
LEMMA GhostOwner ==
  ASSUME NEW p \in Rank, NEW c \in GhostOf(p)
  PROVE  /\ Owner(c) \in Rank /\ Owner(c) # p
         /\ c \in Kept[p] /\ c \in Active[Owner(c)] /\ c \in Kept[Owner(c)]
         /\ Asks(p, Owner(c))
<1>1. c \in Cell \ Ignored /\ Owner(c) # p /\ c \in Kept[p]
  BY KeptType
<1>2. Owner(c) \in Rank
  BY <1>1, RankType
<1>3. c \in Active[Owner(c)]
  BY <1>1, <1>2, KeptType
<1>. QED BY <1>1, <1>2, <1>3, KeptType DEF Asks

(* Seen from the owner                                                     *)
LEMMA AskedBy ==
  ASSUME NEW p \in Rank, NEW q \in Rank
  PROVE  /\ Asks(p, q) <=> \E c \in Active[q] : p \in Ghosts(c)
         /\ Asks(p, q) <=> AskedOf(q, p) > 0
<1>1. Asks(p, q) => \E c \in Active[q] : p \in Ghosts(c)
  BY KeptType DEF Asks
<1>2. ASSUME NEW c \in Active[q], p \in Ghosts(c) PROVE Asks(p, q)
  <2>1. c \in Cell \ Ignored /\ Owner(c) = q
    BY KeptType
  <2>2. Owner(c) # p
    BY <1>2, <2>1, FileAssumption
  <2>. QED BY <1>2, <2>1, <2>2, KeptType DEF Asks
<1> DEFINE S == {c \in Active[q] : p \in Ghosts(c)}
<1>3. IsFiniteSet(S)
  BY KeptType, FS_Subset
<1>4. Cardinality(S) \in Nat /\ (Cardinality(S) = 0 <=> S = {})
  BY <1>3, FS_CardinalityType, FS_EmptySet
<1>5. AskedOf(q, p) = Cardinality(S)
  BY DEF AskedOf
<1>6. S # {} <=> \E c \in Active[q] : p \in Ghosts(c)
  OBVIOUS
<1> HIDE DEF S
<1>. QED BY <1>1, <1>2, <1>4, <1>5, <1>6

-----------------------------------------------------------------------------
(* The data of the messages, which the file determines                     *)

(* The ghosts of p that q owns, in increasing number                       *)
List(p, q) ==
  LET G == {c \in GhostOf(p) : Owner(c) = q} IN
  [k \in 1 .. Cardinality(G) |-> CHOOSE c \in G : Cardinality({e \in G : e < c}) = k - 1]

(* Every ghost is in the list for its owner                                *)
LEMMA ListFinds ==
  ASSUME NEW p \in Rank, NEW c \in GhostOf(p)
  PROVE  \E k \in DOMAIN List(p, Owner(c)) : List(p, Owner(c))[k] = c
<1> DEFINE G == {d \in GhostOf(p) : Owner(d) = Owner(c)}
           k == Below(G, c) + 1
<1>1. G \in SUBSET Nat /\ IsFiniteSet(G) /\ c \in G
  BY KeptType, FS_Subset
<1>2. List(p, Owner(c)) =
        [i \in 1 .. Cardinality(G) |-> CHOOSE d \in G : Below(G, d) = i - 1]
  BY DEF List, Below
<1> HIDE DEF G
<1>3. Below(G, c) \in Nat /\ Cardinality(G) \in Nat /\ Below(G, c) < Cardinality(G)
  BY <1>1, BelowBound
<1>4. k \in 1 .. Cardinality(G) /\ k - 1 = Below(G, c)
  BY <1>3
<1>5. (CHOOSE d \in G : Below(G, d) = k - 1) = c
  <2>1. \A d \in G : Below(G, d) = k - 1 => d = c
    BY <1>1, <1>4, BelowInjective
  <2>2. Below(G, c) = k - 1
    BY <1>4
  <2> HIDE DEF k
  <2>. QED BY <1>1, <2>1, <2>2
<1>. QED BY <1>2, <1>4, <1>5

CellIds(p) == [c \in Kept[p] |-> FeelId(p, c)]

CellsLinked(p) ==
  [c \in Kept[p] |-> IF c \in GhostOf(p) THEN FeelId(Owner(c), c) ELSE Invalid]

FaceIds(p) == [f \in KeptFaces[p] |-> FaceNumber(p, f)]

FacesLinked(p) ==
  [f \in KeptFaces[p] |-> [q \in Rank |->
     IF \E c \in GhostOf(p) : f \in FacesOf[c] /\ Owner(c) = q
     THEN FaceNumber(q, f) ELSE Invalid]]

CellReply(p, q) == [k \in DOMAIN List(q, p) |-> CellIds(p)[List(q, p)[k]]]

FaceRequest(p, q) == [k \in DOMAIN List(p, q) |-> CellsLinked(p)[List(p, q)[k]]]

ElementOf(p, id) == CHOOSE c \in Active[p] : CellIds(p)[c] = id

FaceReply(p, q) ==
  [k \in DOMAIN FaceRequest(q, p) |->
     [f \in FacesOf[ElementOf(p, FaceRequest(q, p)[k])] |-> FaceIds(p)[f]]]

(* The message number n that p sends to q, if it sends one                 *)
Sends(n, p, q) == IF n \in {1, 3} THEN Asks(p, q) ELSE Asks(q, p)

Msg(n, p, q) ==
  CASE n = 1 -> [kind |-> "askCells", data |-> List(p, q)]
    [] n = 2 -> [kind |-> "cellIds", data |-> CellReply(p, q)]
    [] n = 3 -> [kind |-> "askFaces", data |-> FaceRequest(p, q)]
    [] n = 4 -> [kind |-> "faceIds", data |-> FaceReply(p, q)]

(* A rank finds the cell another one asks for by the number it gave        *)
LEMMA ElementFound ==
  ASSUME NEW p \in Rank, NEW c \in Active[p]
  PROVE  ElementOf(p, FeelId(p, c)) = c
<1>1. /\ Kept[p] \in SUBSET Nat /\ IsFiniteSet(Kept[p])
      /\ Active[p] \in SUBSET Kept[p]
  BY KeptType
<1>2. \A d \in Active[p] : CellIds(p)[d] = Below(Kept[p], d)
  BY <1>1 DEF CellIds, FeelId, Below
<1>3. FeelId(p, c) = Below(Kept[p], c)
  BY DEF FeelId, Below
<1>4. \A d \in Active[p] : CellIds(p)[d] = FeelId(p, c) => d = c
  BY <1>1, <1>2, <1>3, BelowInjective
<1>5. CellIds(p)[c] = FeelId(p, c)
  BY <1>2, <1>3
<1>. QED BY <1>4, <1>5 DEF ElementOf

(* What the answers say, at the place of the ghost in the request          *)
LEMMA Answers ==
  ASSUME NEW p \in Rank, NEW c \in GhostOf(p),
         NEW k \in DOMAIN List(p, Owner(c)), List(p, Owner(c))[k] = c
  PROVE  /\ CellReply(Owner(c), p)[k] = FeelId(Owner(c), c)
         /\ FaceReply(Owner(c), p)[k] =
              [f \in FacesOf[c] |-> FaceIds(Owner(c))[f]]
<1> DEFINE q == Owner(c)
<1>1. q \in Rank /\ c \in Kept[p] /\ c \in Kept[q] /\ c \in Active[q]
  BY GhostOwner
<1>2. CellReply(q, p)[k] = CellIds(q)[c] /\ CellIds(q)[c] = FeelId(q, c)
  BY <1>1 DEF CellReply, CellIds
<1>3. FaceRequest(p, q)[k] = FeelId(q, c) /\ k \in DOMAIN FaceRequest(p, q)
  <2>1. CellsLinked(p)[c] = FeelId(q, c)
    BY <1>1 DEF CellsLinked
  <2>. QED BY <2>1 DEF FaceRequest
<1>4. ElementOf(q, FaceRequest(p, q)[k]) = c
  BY <1>1, <1>3, ElementFound
<1>. QED BY <1>2, <1>3, <1>4 DEF FaceReply

-----------------------------------------------------------------------------
(* How far a rank is: the number of sends it has made or passed by         *)

Stage(p) ==
  CASE pc[p] \in {"read", "askCells"} -> 0
    [] pc[p] = "answerCells" -> 1
    [] pc[p] \in {"setCells", "faces", "askFaces"} -> 2
    [] pc[p] = "answerFaces" -> 3
    [] OTHER -> 4

Waits(p) == pc[p] \in {"answerCells", "setCells", "answerFaces", "setFaces"}

(* p has sent its n-th message to q; p has received the n-th one of q      *)
Posted(n, p, q) == Sends(n, p, q) /\ Stage(p) >= n

Got(n, p, q) ==
  Sends(n, q, p) /\ (Stage(p) > n \/ (Stage(p) = n /\ q \notin pending[p]))

InFlight(n, p, q) == Posted(n, p, q) /\ ~Got(n, q, p)

Then(b, m, s) == IF b = 1 THEN <<m>> \o s ELSE s

(* The messages of m that are on the way, those with 1 in b, oldest first  *)
FlowOf(b, m) ==
  Then(b[1], m[1], Then(b[2], m[2], Then(b[3], m[3], Then(b[4], m[4], <<>>))))

OnTheWay(p, q) == [n \in 1 .. 4 |-> IF InFlight(n, p, q) THEN 1 ELSE 0]

Messages(p, q) == [n \in 1 .. 4 |-> Msg(n, p, q)]

Flow(p, q) == FlowOf(OnTheWay(p, q), Messages(p, q))

(* A rank waits for those that will send to it                             *)
Waiting(p) ==
  /\ pending[p] \in SUBSET {q \in Rank : Sends(Stage(p), q, p)}
  /\ ~Waits(p) => pending[p] = {}

(* What has been received was sent, and is kept until it is used           *)
Arrived(p, q) ==
  \A n \in 1 .. 4 : Got(n, p, q) =>
     /\ Posted(n, q, p)
     /\ Stage(p) = n => received[p][q] = Msg(n, q, p)

Tables ==
  /\ pc \in [Rank -> Phase]
  /\ DOMAIN pending = Rank
  /\ DOMAIN chan = Rank /\ \A p \in Rank : DOMAIN chan[p] = Rank
  /\ DOMAIN received = Rank /\ \A p \in Rank : DOMAIN received[p] = Rank

ExchangeInv ==
  /\ Tables
  /\ \A p \in Rank : Waiting(p)
  /\ \A p, q \in Rank : Arrived(p, q) /\ chan[p][q] = Flow(p, q)

LEMMA StageType ==
  ASSUME NEW p \in Rank PROVE Stage(p) \in 0 .. 4
BY DEF Stage

LEMMA ThenAppend ==
  ASSUME NEW S, NEW b \in {0, 1}, NEW m \in S, NEW s \in Seq(S), NEW x \in S
  PROVE  /\ Then(b, m, s) \in Seq(S)
         /\ Append(Then(b, m, s), x) = Then(b, m, Append(s, x))
BY DEF Then

LEMMA ThenHead ==
  ASSUME NEW S, NEW m \in S, NEW s \in Seq(S)
  PROVE  /\ Then(1, m, s) # <<>>
         /\ Head(Then(1, m, s)) = m /\ Tail(Then(1, m, s)) = s
BY DEF Then

(* A message goes to the end if none is on the way that comes after it     *)
LEMMA FlowAppend ==
  ASSUME NEW b1 \in {0, 1}, NEW b2 \in {0, 1}, NEW b3 \in {0, 1}, NEW b4 \in {0, 1},
         NEW m1, NEW m2, NEW m3, NEW m4
  PROVE  /\ b1 = 0 /\ b2 = 0 /\ b3 = 0 /\ b4 = 0 =>
              Append(Then(b1, m1, Then(b2, m2, Then(b3, m3, Then(b4, m4, <<>>)))), m1)
                = Then(1, m1, Then(b2, m2, Then(b3, m3, Then(b4, m4, <<>>))))
         /\ b2 = 0 /\ b3 = 0 /\ b4 = 0 =>
              Append(Then(b1, m1, Then(b2, m2, Then(b3, m3, Then(b4, m4, <<>>)))), m2)
                = Then(b1, m1, Then(1, m2, Then(b3, m3, Then(b4, m4, <<>>))))
         /\ b3 = 0 /\ b4 = 0 =>
              Append(Then(b1, m1, Then(b2, m2, Then(b3, m3, Then(b4, m4, <<>>)))), m3)
                = Then(b1, m1, Then(b2, m2, Then(1, m3, Then(b4, m4, <<>>))))
         /\ b4 = 0 =>
              Append(Then(b1, m1, Then(b2, m2, Then(b3, m3, Then(b4, m4, <<>>)))), m4)
                = Then(b1, m1, Then(b2, m2, Then(b3, m3, Then(1, m4, <<>>))))
<1> DEFINE S == {m1, m2, m3, m4}
<1>1. \A x \in S : Append(<<>>, x) = Then(1, x, <<>>) /\ Append(<<>>, x) \in Seq(S)
  BY DEF Then
<1>2. \A x : Then(0, x, <<>>) = <<>>
  BY DEF Then
<1>3. m1 \in S /\ m2 \in S /\ m3 \in S /\ m4 \in S /\ <<>> \in Seq(S)
  OBVIOUS
<1> HIDE DEF S
<1>4. Then(b4, m4, <<>>) \in Seq(S)
  BY <1>3, ThenAppend
<1>5. Then(b3, m3, Then(b4, m4, <<>>)) \in Seq(S)
  BY <1>3, <1>4, ThenAppend
<1>6. Then(b2, m2, Then(b3, m3, Then(b4, m4, <<>>))) \in Seq(S)
  BY <1>3, <1>5, ThenAppend
<1>7. \A x \in S :
        Append(Then(b1, m1, Then(b2, m2, Then(b3, m3, Then(b4, m4, <<>>)))), x)
          = Then(b1, m1, Append(Then(b2, m2, Then(b3, m3, Then(b4, m4, <<>>))), x))
  BY <1>3, <1>6, ThenAppend
<1>8. \A x \in S :
        Append(Then(b2, m2, Then(b3, m3, Then(b4, m4, <<>>))), x)
          = Then(b2, m2, Append(Then(b3, m3, Then(b4, m4, <<>>)), x))
  BY <1>3, <1>5, ThenAppend
<1>9. \A x \in S :
        Append(Then(b3, m3, Then(b4, m4, <<>>)), x)
          = Then(b3, m3, Append(Then(b4, m4, <<>>), x))
  BY <1>3, <1>4, ThenAppend
<1>10. \A x \in S : Append(Then(b4, m4, <<>>), x) = Then(b4, m4, Append(<<>>, x))
  <2>1. ASSUME NEW x \in S
        PROVE  Append(Then(b4, m4, <<>>), x) = Then(b4, m4, Append(<<>>, x))
    <3>1. \A t \in Seq(S) : Append(Then(b4, m4, t), x) = Then(b4, m4, Append(t, x))
      BY <1>3, ThenAppend
    <3>. QED BY <1>3, <3>1, Zenon
  <2>. QED BY <2>1
<1>11. /\ b1 = 0 => \A x, s : Then(b1, x, s) = s
       /\ b2 = 0 => \A x, s : Then(b2, x, s) = s
       /\ b3 = 0 => \A x, s : Then(b3, x, s) = s
       /\ b4 = 0 => \A x, s : Then(b4, x, s) = s
  BY DEF Then
<1> DEFINE T4 == Then(b4, m4, <<>>)
           T3 == Then(b3, m3, T4)
           T2 == Then(b2, m2, T3)
           T1 == Then(b1, m1, T2)
<1>12. /\ Append(T1, m4) = Then(b1, m1, Append(T2, m4))
       /\ Append(T1, m3) = Then(b1, m1, Append(T2, m3))
       /\ Append(T1, m2) = Then(b1, m1, Append(T2, m2))
       /\ Append(T2, m4) = Then(b2, m2, Append(T3, m4))
       /\ Append(T2, m3) = Then(b2, m2, Append(T3, m3))
       /\ Append(T3, m4) = Then(b3, m3, Append(T4, m4))
       /\ Append(T4, m4) = Then(b4, m4, Append(<<>>, m4))
  BY <1>3, <1>7, <1>8, <1>9, <1>10
<1>13. /\ b1 = 0 => T1 = T2
       /\ b2 = 0 => T2 = T3
       /\ b3 = 0 => T3 = T4
       /\ b4 = 0 => T4 = <<>> /\ \A s : Then(b4, m4, s) = s
  BY <1>11
<1>14. /\ Append(<<>>, m1) = Then(1, m1, <<>>)
       /\ Append(<<>>, m2) = Then(1, m2, <<>>)
       /\ Append(<<>>, m3) = Then(1, m3, <<>>)
       /\ Append(<<>>, m4) = Then(1, m4, <<>>)
  BY <1>1, <1>3
<1>15. /\ b1 = 0 /\ b2 = 0 /\ b3 = 0 /\ b4 = 0 => Append(T1, m1) = Then(1, m1, T2)
       /\ b2 = 0 /\ b3 = 0 /\ b4 = 0 => Append(T1, m2) = Then(b1, m1, Then(1, m2, T3))
       /\ b3 = 0 /\ b4 = 0 => Append(T1, m3) = Then(b1, m1, Then(b2, m2, Then(1, m3, T4)))
       /\ b4 = 0 => Append(T1, m4)
                   = Then(b1, m1, Then(b2, m2, Then(b3, m3, Then(1, m4, <<>>))))
  <2> HIDE DEF T1, T2, T3, T4
  <2>1. ASSUME b1 = 0, b2 = 0, b3 = 0, b4 = 0 PROVE Append(T1, m1) = Then(1, m1, T2)
    BY <1>13, <1>14, <2>1
  <2>2. ASSUME b2 = 0, b3 = 0, b4 = 0 PROVE Append(T1, m2) = Then(b1, m1, Then(1, m2, T3))
    <3>1. T2 = <<>>
      BY <1>13, <2>2
    <3>2. Append(T1, m2) = Then(b1, m1, Append(<<>>, m2)) /\ T3 = <<>>
      BY <1>12, <1>13, <2>2, <3>1
    <3>. QED BY <1>14, <3>2
  <2>3. ASSUME b3 = 0, b4 = 0
        PROVE  Append(T1, m3) = Then(b1, m1, Then(b2, m2, Then(1, m3, T4)))
    BY <1>12, <1>13, <1>14, <2>3
  <2>4. ASSUME b4 = 0
        PROVE  Append(T1, m4)
                 = Then(b1, m1, Then(b2, m2, Then(b3, m3, Then(1, m4, <<>>))))
    <3>1. Append(T4, m4) = Then(1, m4, <<>>)
      BY <1>13, <1>14, <2>4
    <3>2. Append(T1, m4) = Then(b1, m1, Then(b2, m2, Then(b3, m3, Append(T4, m4))))
      BY <1>12
    <3>. QED BY <3>1, <3>2
  <2>. QED BY <2>1, <2>2, <2>3, <2>4
<1>. QED BY <1>15

(* The oldest message leaves                                               *)
LEMMA FlowHead ==
  ASSUME NEW b1 \in {0, 1}, NEW b2 \in {0, 1}, NEW b3 \in {0, 1}, NEW b4 \in {0, 1},
         NEW m1, NEW m2, NEW m3, NEW m4,
         NEW F, F = Then(b1, m1, Then(b2, m2, Then(b3, m3, Then(b4, m4, <<>>))))
  PROVE  /\ b1 = 1 => /\ Head(F) = m1
                  /\ Tail(F) = Then(0, m1, Then(b2, m2, Then(b3, m3, Then(b4, m4, <<>>))))
         /\ b1 = 0 /\ b2 = 1 =>
                  /\ Head(F) = m2
                  /\ Tail(F) = Then(b1, m1, Then(0, m2, Then(b3, m3, Then(b4, m4, <<>>))))
         /\ b1 = 0 /\ b2 = 0 /\ b3 = 1 =>
                  /\ Head(F) = m3
                  /\ Tail(F) = Then(b1, m1, Then(b2, m2, Then(0, m3, Then(b4, m4, <<>>))))
         /\ b1 = 0 /\ b2 = 0 /\ b3 = 0 /\ b4 = 1 =>
                  /\ Head(F) = m4
                  /\ Tail(F) = Then(b1, m1, Then(b2, m2, Then(b3, m3, Then(0, m4, <<>>))))
         /\ b1 = 0 /\ b2 = 0 /\ b3 = 0 /\ b4 = 0 => F = <<>>
<1> DEFINE S == {m1, m2, m3, m4}
           T4 == Then(b4, m4, <<>>)
           T3 == Then(b3, m3, T4)
           T2 == Then(b2, m2, T3)
<1>1. m1 \in S /\ m2 \in S /\ m3 \in S /\ m4 \in S /\ <<>> \in Seq(S)
  OBVIOUS
<1>2. F = Then(b1, m1, T2)
  OBVIOUS
<1> HIDE DEF S
<1>3. T4 \in Seq(S)
  BY <1>1, ThenAppend
<1>4. T3 \in Seq(S)
  BY <1>1, <1>3, ThenAppend
<1>5. T2 \in Seq(S)
  BY <1>1, <1>4, ThenAppend
<1>6. /\ \A x, s : Then(0, x, s) = s
      /\ b1 = 0 => \A x, s : Then(b1, x, s) = s
      /\ b2 = 0 => \A x, s : Then(b2, x, s) = s
      /\ b3 = 0 => \A x, s : Then(b3, x, s) = s
      /\ b4 = 0 => \A x, s : Then(b4, x, s) = s
  BY DEF Then
<1>7. /\ b1 = 1 => \A x, s : Then(b1, x, s) = Then(1, x, s)
      /\ b2 = 1 => \A x, s : Then(b2, x, s) = Then(1, x, s)
      /\ b3 = 1 => \A x, s : Then(b3, x, s) = Then(1, x, s)
      /\ b4 = 1 => \A x, s : Then(b4, x, s) = Then(1, x, s)
  BY DEF Then
<1>8. \A x \in S : \A s \in Seq(S) :
         Head(Then(1, x, s)) = x /\ Tail(Then(1, x, s)) = s
  BY ThenHead
<1>9. \A x \in S : Head(Then(1, x, <<>>)) = x /\ Tail(Then(1, x, <<>>)) = <<>>
  BY <1>1, <1>8, Zenon
<1>10. /\ b1 = 1 => F = Then(1, m1, T2)
       /\ b1 = 0 => F = T2
       /\ b2 = 1 => T2 = Then(1, m2, T3)
       /\ b2 = 0 => T2 = T3
       /\ b3 = 1 => T3 = Then(1, m3, T4)
       /\ b3 = 0 => T3 = T4
       /\ b4 = 1 => T4 = Then(1, m4, <<>>)
       /\ b4 = 0 => T4 = <<>>
  BY <1>2, <1>6, <1>7
<1>11. /\ Then(0, m1, T2) = T2 /\ Then(0, m2, T3) = T3
       /\ Then(0, m3, T4) = T4 /\ Then(0, m4, <<>>) = <<>>
  BY <1>6
<1>12. /\ b1 = 0 => Then(b1, m1, T3) = T3 /\ Then(b1, m1, Then(b2, m2, T4)) = Then(b2, m2, T4)
                 /\ Then(b1, m1, Then(b2, m2, Then(b3, m3, <<>>)))
                      = Then(b2, m2, Then(b3, m3, <<>>))
       /\ b2 = 0 => Then(b2, m2, T4) = T4
                 /\ Then(b2, m2, Then(b3, m3, <<>>)) = Then(b3, m3, <<>>)
       /\ b3 = 0 => Then(b3, m3, <<>>) = <<>>
  BY <1>6
<1>13. b1 = 0 /\ b2 = 0 /\ b3 = 0 /\ b4 = 0 => F = <<>>
  BY <1>10
<1> HIDE DEF T2, T3, T4
<1>14. b1 = 1 => Head(F) = m1 /\ Tail(F) = Then(0, m1, T2)
  BY <1>1, <1>5, <1>8, <1>10, <1>11
<1>15. b1 = 0 /\ b2 = 1 => Head(F) = m2 /\ Tail(F) = Then(b1, m1, Then(0, m2, T3))
  BY <1>1, <1>4, <1>8, <1>10, <1>11, <1>12
<1>16. b1 = 0 /\ b2 = 0 /\ b3 = 1 =>
         Head(F) = m3 /\ Tail(F) = Then(b1, m1, Then(b2, m2, Then(0, m3, T4)))
  BY <1>1, <1>3, <1>8, <1>10, <1>11, <1>12
<1>17. b1 = 0 /\ b2 = 0 /\ b3 = 0 /\ b4 = 1 =>
         Head(F) = m4
         /\ Tail(F) = Then(b1, m1, Then(b2, m2, Then(b3, m3, Then(0, m4, <<>>))))
  BY <1>1, <1>9, <1>10, <1>11, <1>12
<1>. QED BY <1>13, <1>14, <1>15, <1>16, <1>17 DEF T2, T3, T4

(* The same of the flow between two ranks                                  *)
LEMMA FlowPosts ==
  \A b, c \in [1 .. 4 -> {0, 1}], n \in 1 .. 4 :
     (\A i \in 1 .. 4 : i # n => c[i] = b[i]) /\ (\A i \in 1 .. 4 : i >= n => b[i] = 0)
       /\ c[n] = 1
     => \A m : FlowOf(c, m) = Append(FlowOf(b, m), m[n])
<1> TAKE b, c \in [1 .. 4 -> {0, 1}], n \in 1 .. 4
<1> HAVE (\A i \in 1 .. 4 : i # n => c[i] = b[i]) /\ (\A i \in 1 .. 4 : i >= n => b[i] = 0)
           /\ c[n] = 1
<1> TAKE m
<1>1. b[1] \in {0, 1} /\ b[2] \in {0, 1} /\ b[3] \in {0, 1} /\ b[4] \in {0, 1}
  OBVIOUS
<1>2. CASE n = 1
  <2>1. b[1] = 0 /\ b[2] = 0 /\ b[3] = 0 /\ b[4] = 0
    BY <1>2
  <2>2. c[1] = 1 /\ c[2] = b[2] /\ c[3] = b[3] /\ c[4] = b[4]
    BY <1>2
  <2>. QED BY <1>1, <1>2, <2>1, <2>2, FlowAppend DEF FlowOf
<1>3. CASE n = 2
  <2>1. b[2] = 0 /\ b[3] = 0 /\ b[4] = 0
    BY <1>3
  <2>2. c[1] = b[1] /\ c[2] = 1 /\ c[3] = b[3] /\ c[4] = b[4]
    BY <1>3
  <2>. QED BY <1>1, <1>3, <2>1, <2>2, FlowAppend DEF FlowOf
<1>4. CASE n = 3
  <2>1. b[3] = 0 /\ b[4] = 0
    BY <1>4
  <2>2. c[1] = b[1] /\ c[2] = b[2] /\ c[3] = 1 /\ c[4] = b[4]
    BY <1>4
  <2>3. Append(Then(b[1], m[1], Then(b[2], m[2], Then(b[3], m[3], Then(b[4], m[4], <<>>)))), m[3])
          = Then(b[1], m[1], Then(b[2], m[2], Then(1, m[3], Then(b[4], m[4], <<>>))))
    BY <1>1, <2>1, FlowAppend
  <2>. QED BY <1>4, <2>2, <2>3 DEF FlowOf
<1>5. CASE n = 4
  <2>1. b[4] = 0
    BY <1>5
  <2>2. c[1] = b[1] /\ c[2] = b[2] /\ c[3] = b[3] /\ c[4] = 1
    BY <1>5
  <2>3. Append(Then(b[1], m[1], Then(b[2], m[2], Then(b[3], m[3], Then(b[4], m[4], <<>>)))), m[4])
          = Then(b[1], m[1], Then(b[2], m[2], Then(b[3], m[3], Then(1, m[4], <<>>))))
    BY <1>1, <2>1, FlowAppend, SMTT(60)
  <2>. QED BY <1>5, <2>2, <2>3 DEF FlowOf
<1>. QED BY <1>2, <1>3, <1>4, <1>5

LEMMA FlowTakes ==
  \A b, c \in [1 .. 4 -> {0, 1}], n \in 1 .. 4 :
     (\A i \in 1 .. 4 : i # n => c[i] = b[i]) /\ (\A i \in 1 .. 4 : i < n => b[i] = 0)
       /\ b[n] = 1 /\ c[n] = 0
     => \A m : Head(FlowOf(b, m)) = m[n] /\ Tail(FlowOf(b, m)) = FlowOf(c, m)
<1> SUFFICES ASSUME NEW b \in [1 .. 4 -> {0, 1}], NEW c \in [1 .. 4 -> {0, 1}],
                    NEW n \in 1 .. 4, NEW m,
                    /\ \A i \in 1 .. 4 : i # n => c[i] = b[i]
                    /\ \A i \in 1 .. 4 : i < n => b[i] = 0
                    /\ b[n] = 1 /\ c[n] = 0
             PROVE  Head(FlowOf(b, m)) = m[n] /\ Tail(FlowOf(b, m)) = FlowOf(c, m)
  OBVIOUS
<1>1. b[1] \in {0, 1} /\ b[2] \in {0, 1} /\ b[3] \in {0, 1} /\ b[4] \in {0, 1}
  OBVIOUS
<1> DEFINE F == FlowOf(b, m)
<1>2. F = Then(b[1], m[1], Then(b[2], m[2], Then(b[3], m[3], Then(b[4], m[4], <<>>))))
  BY DEF FlowOf
<1> HIDE DEF F
<1>3. CASE n = 1
  <2>1. c[1] = 0 /\ c[2] = b[2] /\ c[3] = b[3] /\ c[4] = b[4] /\ b[1] = 1
    BY <1>3
  <2>. QED BY <1>1, <1>2, <1>3, <2>1, FlowHead DEF FlowOf, F
<1>4. CASE n = 2
  <2>1. c[1] = b[1] /\ c[2] = 0 /\ c[3] = b[3] /\ c[4] = b[4] /\ b[1] = 0 /\ b[2] = 1
    BY <1>4
  <2>. QED BY <1>1, <1>2, <1>4, <2>1, FlowHead DEF FlowOf, F
<1>5. CASE n = 3
  <2>1. /\ c[1] = b[1] /\ c[2] = b[2] /\ c[3] = 0 /\ c[4] = b[4]
        /\ b[1] = 0 /\ b[2] = 0 /\ b[3] = 1
    BY <1>5
  <2>. QED BY <1>1, <1>2, <1>5, <2>1, FlowHead DEF FlowOf, F
<1>6. CASE n = 4
  <2>1. /\ c[1] = b[1] /\ c[2] = b[2] /\ c[3] = b[3] /\ c[4] = 0
        /\ b[1] = 0 /\ b[2] = 0 /\ b[3] = 0 /\ b[4] = 1
    BY <1>6
  <2>. QED BY <1>1, <1>2, <1>6, <2>1, FlowHead DEF FlowOf, F
<1>. QED BY <1>3, <1>4, <1>5, <1>6 DEF F

LEMMA FlowEmpty ==
  ASSUME NEW b \in [1 .. 4 -> {0, 1}], NEW m, \A i \in 1 .. 4 : b[i] = 0
  PROVE  FlowOf(b, m) = <<>>
BY DEF FlowOf, Then

LEMMA WayType ==
  ASSUME NEW p \in Rank, NEW q \in Rank
  PROVE  /\ OnTheWay(p, q) \in [1 .. 4 -> {0, 1}]
         /\ OnTheWay(p, q)' \in [1 .. 4 -> {0, 1}]
BY DEF OnTheWay

-----------------------------------------------------------------------------
(* The exchange goes on                                                    *)

LEMMA FlowSame ==
  ASSUME NEW p \in Rank, NEW q \in Rank,
         \A n \in 1 .. 4 : InFlight(n, p, q)' <=> InFlight(n, p, q)
  PROVE  Flow(p, q)' = Flow(p, q)
<1>1. OnTheWay(p, q)' = OnTheWay(p, q)
  BY DEF OnTheWay
<1>. QED BY <1>1 DEF Flow

LEMMA Advances ==
  ASSUME NEW p \in Rank, pc \in [Rank -> Phase], NEW a, NEW b \in Phase, Go(p, a, b)
  PROVE  /\ pc' \in [Rank -> Phase] /\ pc[p] = a /\ pc'[p] = b
         /\ \A q \in Rank \ {p} : pc'[q] = pc[q] /\ Stage(q)' = Stage(q)
                                  /\ (Waits(q)' <=> Waits(q))
BY DEF Go, Stage, Waits

(* A step that neither sends nor receives                                  *)
LEMMA QuietExchange ==
  ASSUME ExchangeInv, NEW p \in Rank, pc' \in [Rank -> Phase],
         \A q \in Rank \ {p} : pc'[q] = pc[q],
         Stage(p)' = Stage(p), pending[p] = {},
         UNCHANGED <<chan, pending, received>>
  PROVE  ExchangeInv'
<1>1. \A q \in Rank : Stage(q)' = Stage(q)
  BY DEF Stage
<1>2. \A q \in Rank : Waiting(q)'
  BY <1>1 DEF ExchangeInv, Waiting, Waits
<1>3. \A n \in 1 .. 4 : \A q, r \in Rank :
        (Posted(n, q, r)' <=> Posted(n, q, r)) /\ (Got(n, q, r)' <=> Got(n, q, r))
  BY <1>1 DEF Posted, Got
<1>4. \A q, r \in Rank : Arrived(q, r)'
  BY <1>1, <1>3 DEF ExchangeInv, Arrived
<1>5. \A q, r \in Rank : chan'[q][r] = Flow(q, r)'
  BY <1>3, FlowSame DEF ExchangeInv, InFlight
<1>6. Tables'
  BY DEF ExchangeInv, Tables
<1>. QED BY <1>2, <1>4, <1>5, <1>6 DEF ExchangeInv

(* A rank that asks nobody and that nobody asks passes by an exchange      *)
LEMMA SkipExchange ==
  ASSUME ExchangeInv, NEW p \in Rank, pc' \in [Rank -> Phase],
         \A q \in Rank \ {p} : pc'[q] = pc[q],
         \A q \in Rank : ~Asks(p, q) /\ ~Asks(q, p),
         pending[p] = {},
         UNCHANGED <<chan, pending, received>>
  PROVE  ExchangeInv'
<1>1. \A q \in Rank \ {p} : Stage(q)' = Stage(q)
  BY DEF Stage
<1>2. \A q \in Rank : Waiting(q)'
  BY <1>1 DEF ExchangeInv, Waiting, Waits
<1>3. \A n \in 1 .. 4 : \A q \in Rank : ~Sends(n, p, q) /\ ~Sends(n, q, p)
  BY DEF Sends
<1>4. \A n \in 1 .. 4 : \A q, r \in Rank :
        (Posted(n, q, r)' <=> Posted(n, q, r)) /\ (Got(n, q, r)' <=> Got(n, q, r))
  BY <1>1, <1>3 DEF Posted, Got
<1>5. \A q, r \in Rank : Arrived(q, r)'
  BY <1>1, <1>3, <1>4 DEF ExchangeInv, Arrived, Got
<1>6. \A q, r \in Rank : chan'[q][r] = Flow(q, r)'
  BY <1>4, FlowSame DEF ExchangeInv, InFlight
<1>7. Tables'
  BY DEF ExchangeInv, Tables
<1>. QED BY <1>2, <1>5, <1>6, <1>7 DEF ExchangeInv

(* A rank that has received everything sends its next messages and posts   *)
(* the receives of what will be sent to it in turn                         *)
LEMMA PostExchange ==
  ASSUME ExchangeInv, NEW p \in Rank, pc' \in [Rank -> Phase],
         \A q \in Rank \ {p} : pc'[q] = pc[q],
         NEW n \in 1 .. 4, Stage(p) = n - 1, Stage(p)' = n, Waits(p)',
         pending[p] = {},
         pending' = [pending EXCEPT ![p] = {q \in Rank : Sends(n, q, p)}],
         chan' = [chan EXCEPT ![p] = [q \in Rank |->
                    IF Sends(n, p, q) THEN Append(@[q], Msg(n, p, q)) ELSE @[q]]],
         UNCHANGED received
  PROVE  ExchangeInv'
<1>1. /\ \A q \in Rank \ {p} : Stage(q)' = Stage(q) /\ (Waits(q)' <=> Waits(q))
      /\ \A q \in Rank \ {p} : pending'[q] = pending[q]
      /\ pending'[p] = {q \in Rank : Sends(n, q, p)}
  BY DEF Stage, Waits, ExchangeInv, Tables
<1>2. /\ \A q, r \in Rank : q # p => chan'[q][r] = chan[q][r]
      /\ \A r \in Rank : chan'[p][r] =
           IF Sends(n, p, r) THEN Append(chan[p][r], Msg(n, p, r)) ELSE chan[p][r]
  BY DEF ExchangeInv, Tables
<1>3. \A q \in Rank : Waiting(q)'
  BY <1>1 DEF ExchangeInv, Waiting
<1>4. \A m \in 1 .. 4 : \A q, r \in Rank : Got(m, q, r)' <=> Got(m, q, r)
  <2>1. ASSUME NEW m \in 1 .. 4, NEW r \in Rank PROVE Got(m, p, r)' <=> Got(m, p, r)
    <3>1. CASE m < n
      BY <1>1, <3>1 DEF Got
    <3>2. CASE m = n
      BY <1>1, <3>2 DEF Got
    <3>3. CASE m > n
      BY <3>3 DEF Got
    <3>. QED BY <3>1, <3>2, <3>3
  <2>2. ASSUME NEW m \in 1 .. 4, NEW q \in Rank, NEW r \in Rank, q # p
        PROVE Got(m, q, r)' <=> Got(m, q, r)
    BY <1>1, <2>2 DEF Got
  <2>. QED BY <2>1, <2>2
<1>5. \A m \in 1 .. 4 : \A r \in Rank :
         Posted(m, p, r)' <=> Posted(m, p, r) \/ (m = n /\ Sends(n, p, r))
  BY DEF Posted
<1>6. \A m \in 1 .. 4 : \A q, r \in Rank : q # p => (Posted(m, q, r)' <=> Posted(m, q, r))
  BY <1>1 DEF Posted
<1>7. \A q, r \in Rank : Arrived(q, r)'
  <2>1. ASSUME NEW q \in Rank, NEW r \in Rank, NEW m \in 1 .. 4, Got(m, q, r)'
        PROVE  Posted(m, r, q)' /\ (Stage(q)' = m => received'[q][r] = Msg(m, r, q))
    <3>1. Got(m, q, r)
      BY <1>4, <2>1
    <3>2. Posted(m, r, q) /\ (Stage(q) = m => received[q][r] = Msg(m, r, q))
      BY <3>1 DEF ExchangeInv, Arrived
    <3>3. Posted(m, r, q)'
      BY <1>5, <1>6, <3>2
    <3>4. q = p => m < n
      BY <3>1 DEF Got
    <3>. QED BY <1>1, <3>2, <3>3, <3>4
  <2>. QED BY <2>1 DEF Arrived
<1>8. \A q, r \in Rank : q # p => chan'[q][r] = Flow(q, r)'
  BY <1>2, <1>4, <1>6, FlowSame DEF ExchangeInv, InFlight
<1>9. ASSUME NEW r \in Rank PROVE chan'[p][r] = Flow(p, r)'
  <2>1. chan[p][r] = Flow(p, r)
    BY DEF ExchangeInv
  <2>2. \A m \in 1 .. 4 : m # n => (InFlight(m, p, r)' <=> InFlight(m, p, r))
    BY <1>4, <1>5 DEF InFlight
  <2>3. \A m \in 1 .. 4 : m >= n => ~InFlight(m, p, r)
    BY DEF InFlight, Posted
  <2>4. InFlight(n, p, r)' <=> Sends(n, p, r)
    <3>1. ~Posted(n, p, r)
      BY DEF Posted
    <3>2. ~Got(n, r, p)
      BY <3>1 DEF ExchangeInv, Arrived
    <3>. QED BY <1>4, <1>5, <3>1, <3>2 DEF InFlight
  <2>5. CASE ~Sends(n, p, r)
    <3>1. \A m \in 1 .. 4 : InFlight(m, p, r)' <=> InFlight(m, p, r)
      BY <2>2, <2>3, <2>4, <2>5
    <3>. QED BY <1>2, <2>1, <2>5, <3>1, FlowSame
  <2>6. CASE Sends(n, p, r)
    <3>1. chan'[p][r] = Append(Flow(p, r), Msg(n, p, r))
      BY <1>2, <2>1, <2>6
    <3>2. OnTheWay(p, r) \in [1 .. 4 -> {0, 1}] /\ OnTheWay(p, r)' \in [1 .. 4 -> {0, 1}]
      BY WayType
    <3>3. PICK b \in [1 .. 4 -> {0, 1}], c \in [1 .. 4 -> {0, 1}] :
             b = OnTheWay(p, r) /\ c = OnTheWay(p, r)'
      BY <3>2
    <3>4. /\ \A i \in 1 .. 4 : i # n => c[i] = b[i]
          /\ \A i \in 1 .. 4 : i >= n => b[i] = 0
          /\ c[n] = 1
      BY <2>2, <2>3, <2>4, <2>6, <3>3 DEF OnTheWay
    <3>5. \A m : FlowOf(c, m) = Append(FlowOf(b, m), m[n])
      BY <3>3, <3>4, FlowPosts
    <3>6. Flow(p, r) = FlowOf(b, Messages(p, r)) /\ Flow(p, r)' = FlowOf(c, Messages(p, r))
      BY <3>3 DEF Flow
    <3>. QED BY <3>1, <3>5, <3>6 DEF Messages
  <2>. QED BY <2>5, <2>6
<1>10. Tables'
  BY DEF ExchangeInv, Tables
<1>. QED BY <1>3, <1>7, <1>8, <1>9, <1>10 DEF ExchangeInv

(* What a rank receives is what it waits for                               *)
LEMMA NextMessage ==
  ASSUME ExchangeInv, NEW p \in Rank, NEW q \in Rank, q \in pending[p], chan[q][p] # <<>>
  PROVE  /\ Stage(p) \in 1 .. 4 /\ Waits(p)
         /\ InFlight(Stage(p), q, p)
         /\ \A i \in 1 .. 4 : i < Stage(p) => ~InFlight(i, q, p)
         /\ Head(chan[q][p]) = Msg(Stage(p), q, p)
<1>1. Waits(p) /\ Sends(Stage(p), q, p)
  BY DEF ExchangeInv, Waiting
<1>2. Stage(p) \in 1 .. 4
  BY <1>1 DEF Stage, Waits
<1>3. PICK n \in 1 .. 4 : n = Stage(p)
  BY <1>2
<1>4. \A i \in 1 .. 4 : i < n => ~InFlight(i, q, p)
  BY <1>3 DEF InFlight, Got, Posted
<1>5. PICK b \in [1 .. 4 -> {0, 1}] : b = OnTheWay(q, p)
  BY WayType
<1>6. chan[q][p] = FlowOf(b, Messages(q, p))
  BY <1>5 DEF ExchangeInv, Flow
<1>7. InFlight(n, q, p)
  <2>1. SUFFICES ASSUME ~InFlight(n, q, p) PROVE FALSE
    OBVIOUS
  <2>2. ~Posted(n, q, p)
    BY <1>3, <2>1 DEF InFlight, Got
  <2>3. Stage(q) < n
    BY <1>1, <1>3, <2>2, StageType DEF Posted
  <2>4. \A i \in 1 .. 4 : i >= n => ~InFlight(i, q, p)
    BY <2>3, StageType DEF InFlight, Posted
  <2>5. \A i \in 1 .. 4 : b[i] = 0
    <3>1. \A i \in 1 .. 4 : ~InFlight(i, q, p)
      BY <1>4, <2>4
    <3>. QED BY <1>5, <3>1 DEF OnTheWay
  <2>6. FlowOf(b, Messages(q, p)) = <<>>
    BY <1>5, <2>5, FlowEmpty
  <2>. QED BY <1>6, <2>6
<1>8. b[n] = 1 /\ \A i \in 1 .. 4 : i < n => b[i] = 0
  BY <1>4, <1>5, <1>7 DEF OnTheWay
<1> DEFINE c == [b EXCEPT ![n] = 0]
<1>9. /\ c \in [1 .. 4 -> {0, 1}] /\ c[n] = 0
      /\ \A i \in 1 .. 4 : i # n => c[i] = b[i]
  BY <1>5
<1> HIDE DEF c
<1>10. Head(FlowOf(b, Messages(q, p))) = Messages(q, p)[n]
  BY <1>5, <1>8, <1>9, FlowTakes
<1>. QED BY <1>1, <1>3, <1>4, <1>6, <1>7, <1>10 DEF Messages

LEMMA ReceiveExchange ==
  ASSUME ExchangeInv, NEW p \in Rank, NEW q \in Rank, Receive(p, q)
  PROVE  ExchangeInv'
<1>1. /\ q \in pending[p] /\ chan[q][p] # <<>> /\ pc' = pc
      /\ \A r, t \in Rank : received'[r][t] =
           IF r = p /\ t = q THEN Head(chan[q][p]) ELSE received[r][t]
      /\ \A r, t \in Rank : chan'[r][t] =
           IF r = q /\ t = p THEN Tail(chan[q][p]) ELSE chan[r][t]
      /\ \A r \in Rank : pending'[r] = IF r = p THEN pending[p] \ {q} ELSE pending[r]
  BY DEF Receive, ExchangeInv, Tables
<1>2. Tables'
  BY DEF Receive, ExchangeInv, Tables
<1>3. PICK n \in 1 .. 4 :
        /\ n = Stage(p) /\ InFlight(n, q, p) /\ Waits(p)
        /\ \A i \in 1 .. 4 : i < n => ~InFlight(i, q, p)
        /\ Head(chan[q][p]) = Msg(n, q, p)
  BY <1>1, NextMessage
<1>4. \A r \in Rank : Stage(r)' = Stage(r) /\ (Waits(r)' <=> Waits(r))
  BY <1>1 DEF Stage, Waits
<1>5. \A r \in Rank : Waiting(r)'
  BY <1>1, <1>4 DEF ExchangeInv, Waiting
<1>6. \A m \in 1 .. 4 : \A r, t \in Rank : Posted(m, r, t)' <=> Posted(m, r, t)
  BY <1>4 DEF Posted
<1>7. \A m \in 1 .. 4 : \A r, t \in Rank :
        Got(m, r, t)' <=> Got(m, r, t) \/ (m = n /\ r = p /\ t = q)
  <2>1. Sends(n, q, p)
    BY <1>3 DEF InFlight, Posted
  <2>2. ASSUME NEW m \in 1 .. 4, NEW r \in Rank, NEW t \in Rank, ~(r = p /\ t = q)
        PROVE  Got(m, r, t)' <=> Got(m, r, t)
    BY <1>1, <1>4, <2>2 DEF Got
  <2>3. ASSUME NEW m \in 1 .. 4 PROVE Got(m, p, q)' <=> Got(m, p, q) \/ m = n
    BY <1>1, <1>3, <1>4, <2>1 DEF Got
  <2>. QED BY <2>2, <2>3
<1>8. ASSUME NEW r \in Rank, NEW t \in Rank, NEW m \in 1 .. 4, Got(m, r, t)'
      PROVE  Posted(m, t, r)' /\ (Stage(r)' = m => received'[r][t] = Msg(m, t, r))
  <2>1. CASE m = n /\ r = p /\ t = q
    BY <1>1, <1>3, <1>6, <2>1 DEF InFlight
  <2>2. CASE ~(m = n /\ r = p /\ t = q)
    <3>1. Got(m, r, t)
      BY <1>7, <1>8, <2>2
    <3>2. Posted(m, t, r) /\ (Stage(r) = m => received[r][t] = Msg(m, t, r))
      BY <3>1 DEF ExchangeInv, Arrived
    <3>3. r = p /\ t = q => Stage(r) # m
      BY <1>3, <2>2
    <3>. QED BY <1>1, <1>4, <1>6, <3>2, <3>3
  <2>. QED BY <2>1, <2>2
<1>9. \A r, t \in Rank : Arrived(r, t)'
  BY <1>8 DEF Arrived
<1>10. ASSUME NEW r \in Rank, NEW t \in Rank, ~(r = q /\ t = p)
       PROVE  chan'[r][t] = Flow(r, t)'
  <2>1. \A m \in 1 .. 4 : InFlight(m, r, t)' <=> InFlight(m, r, t)
    BY <1>6, <1>7, <1>10 DEF InFlight
  <2>. QED BY <1>1, <1>10, <2>1, FlowSame DEF ExchangeInv
<1>11. chan'[q][p] = Flow(q, p)'
  <2>1. \A m \in 1 .. 4 : InFlight(m, q, p)' <=> (InFlight(m, q, p) /\ m # n)
    BY <1>6, <1>7 DEF InFlight
  <2>2. OnTheWay(q, p) \in [1 .. 4 -> {0, 1}] /\ OnTheWay(q, p)' \in [1 .. 4 -> {0, 1}]
    BY WayType
  <2>3. PICK b \in [1 .. 4 -> {0, 1}], c \in [1 .. 4 -> {0, 1}] :
           b = OnTheWay(q, p) /\ c = OnTheWay(q, p)'
    BY <2>2
  <2>4. /\ \A i \in 1 .. 4 : i # n => c[i] = b[i]
        /\ \A i \in 1 .. 4 : i < n => b[i] = 0
        /\ b[n] = 1 /\ c[n] = 0
    BY <1>3, <2>1, <2>3 DEF OnTheWay
  <2>5. \A m : Tail(FlowOf(b, m)) = FlowOf(c, m)
    BY <2>3, <2>4, FlowTakes
  <2>6. chan[q][p] = FlowOf(b, Messages(q, p)) /\ Flow(q, p)' = FlowOf(c, Messages(q, p))
    BY <2>3 DEF Flow, ExchangeInv
  <2>. QED BY <1>1, <2>5, <2>6
<1>12. \A r, t \in Rank : chan'[r][t] = Flow(r, t)'
  BY <1>10, <1>11
<1>. QED BY <1>2, <1>5, <1>9, <1>12 DEF ExchangeInv

-----------------------------------------------------------------------------
(* What a rank knows, by where it is                                       *)

FaceRanks(p) == [f \in KeptFaces[p] |-> FaceProcessId(p, f)]

(* The faces of cells of p that a cell of another rank has too             *)
CutFaces(p) ==
  {f \in KeptFaces[p] : \E c, d \in Cell \ Ignored :
      f \in FacesOf[c] \cap FacesOf[d] /\ Owner(c) = p /\ Owner(d) # p}

CellsRead(p) ==
  /\ idGmshToFeel[p] = CellIds(p)
  /\ mapGhostElt[p] = GhostOf(p)
  /\ nbMsgToRecv[p] = [q \in Rank |-> AskedOf(p, q)]

FacesNumbered(p) == faceId[p] = FaceIds(p) /\ faceProcessId[p] = FaceRanks(p)

MeshMade(p) ==
  /\ faceInOthers[p] = FacesLinked(p)
  /\ neighborSubdomain[p] = {Partition2(p, f) : f \in CutFaces(p)}

LocalInv(p) ==
  /\ pc[p] = "read" => mapGhostElt[p] = {}
  /\ pc[p] # "read" => CellsRead(p)
  /\ pc[p] \in {"askCells", "answerCells", "setCells"} =>
        cellInOthers[p] = [c \in Kept[p] |-> Invalid]
  /\ pc[p] \in {"faces", "askFaces", "answerFaces", "setFaces", "reduce",
                "waitReduce", "done"} =>
        cellInOthers[p] = CellsLinked(p)
  /\ pc[p] \in {"read", "askCells", "answerCells", "setCells", "faces"} =>
        faceInOthers[p] = Nothing
  /\ pc[p] \in {"askFaces", "answerFaces", "setFaces", "reduce", "waitReduce",
                "done"} =>
        FacesNumbered(p)
  /\ pc[p] \in {"askFaces", "answerFaces", "setFaces"} =>
        faceInOthers[p] = [f \in KeptFaces[p] |-> [q \in Rank |-> Invalid]]
  /\ HasMesh(p) => MeshMade(p)

LocalTables ==
  /\ DOMAIN idGmshToFeel = Rank /\ DOMAIN mapGhostElt = Rank
  /\ DOMAIN nbMsgToRecv = Rank /\ DOMAIN cellInOthers = Rank
  /\ DOMAIN faceId = Rank /\ DOMAIN faceProcessId = Rank
  /\ DOMAIN faceInOthers = Rank /\ DOMAIN neighborSubdomain = Rank

IInv == ExchangeInv /\ LocalTables /\ \A p \in Rank : LocalInv(p)

(* Who is asked, and for what, is what the file says                       *)
LEMMA Partners ==
  ASSUME NEW p \in Rank, CellsRead(p)
  PROVE  /\ Owners(p) = {q \in Rank : Asks(p, q)}
         /\ CellAskers(p) = {q \in Rank : Asks(q, p)}
         /\ FaceAskers(p) = {q \in Rank : Asks(q, p)}
         /\ \A q \in Rank : Wanted(p, q) = List(p, q)
<1>1. Owners(p) = {q \in Rank : Asks(p, q)}
  BY GhostOwner DEF CellsRead, Owners, Asks
<1>2. \A q \in Rank : q \in CellAskers(p) <=> Asks(q, p)
  BY AskedBy DEF CellsRead, CellAskers
<1>3. FaceAskers(p) \subseteq Rank
  <2>1. \A c \in Cell : Ghosts(c) \subseteq Rank
    <3>1. \A g \in Nat : g % NProc \in Rank
      BY FileAssumption DEF Rank
    <3>. QED BY <3>1, FileAssumption DEF Ghosts
  <2>. QED BY <2>1, KeptType DEF FaceAskers
<1>4. \A q \in Rank : q \in FaceAskers(p) <=> Asks(q, p)
  BY AskedBy DEF FaceAskers
<1>5. \A q \in Rank : Wanted(p, q) = List(p, q)
  BY DEF CellsRead, Wanted, List
<1>6. CellAskers(p) \subseteq Rank
  BY DEF CellAskers
<1>. QED BY <1>1, <1>2, <1>3, <1>4, <1>5, <1>6

(* A rank with neither ghosts nor cells that are ghosts elsewhere          *)
LEMMA NoPartner ==
  ASSUME NEW p \in Rank, CellsRead(p), Owners(p) = {}, CellAskers(p) = {} \/ FaceAskers(p) = {}
  PROVE  /\ \A q \in Rank : ~Asks(p, q) /\ ~Asks(q, p)
         /\ GhostOf(p) = {}
         /\ CellsLinked(p) = [c \in Kept[p] |-> Invalid]
         /\ FacesLinked(p) = [f \in KeptFaces[p] |-> [q \in Rank |-> Invalid]]
<1>1. \A q \in Rank : ~Asks(p, q) /\ ~Asks(q, p)
  BY Partners
<1>2. GhostOf(p) = {}
  BY <1>1, GhostOwner
<1>3. CellsLinked(p) = [c \in Kept[p] |-> Invalid]
  BY <1>2 DEF CellsLinked
<1>4. FacesLinked(p) = [f \in KeptFaces[p] |-> [q \in Rank |-> Invalid]]
  BY <1>2 DEF FacesLinked
<1>. QED BY <1>1, <1>2, <1>3, <1>4

(* A ghost is at a place of the request that names it                      *)
LEMMA GhostPlace ==
  ASSUME NEW p \in Rank, CellsRead(p), NEW c \in GhostOf(p)
  PROVE  Place(p, c) \in DOMAIN List(p, Owner(c)) /\ List(p, Owner(c))[Place(p, c)] = c
<1>1. Owner(c) \in Rank
  BY GhostOwner
<1>2. Wanted(p, Owner(c)) = List(p, Owner(c))
  BY <1>1, Partners
<1>. QED BY <1>2, ListFinds DEF Place

(* What has been received when all receives have completed                 *)
LEMMA AllArrived ==
  ASSUME ExchangeInv, NEW p \in Rank, pending[p] = {}, NEW n \in 1 .. 4, Stage(p) = n,
         NEW q \in Rank, Sends(n, q, p)
  PROVE  received[p][q] = Msg(n, q, p)
BY DEF ExchangeInv, Arrived, Got

-----------------------------------------------------------------------------
(* What the ranks know is kept                                             *)

LEMMA InitInv == Init => IInv
<1> SUFFICES ASSUME Init PROVE IInv
  OBVIOUS
<1>1. \A p \in Rank : pc[p] = "read" /\ pending[p] = {} /\ mapGhostElt[p] = {}
                      /\ faceInOthers[p] = Nothing /\ Stage(p) = 0
  BY DEF Init, Stage
<1>2. Tables /\ LocalTables
  BY DEF Init, Tables, LocalTables, Phase
<1>3. \A p \in Rank : Waiting(p)
  BY <1>1 DEF Waiting
<1>4. \A n \in 1 .. 4 : \A p, q \in Rank : ~Posted(n, p, q) /\ ~Got(n, p, q)
  BY <1>1 DEF Posted, Got
<1>5. ASSUME NEW p \in Rank, NEW q \in Rank PROVE Arrived(p, q) /\ chan[p][q] = Flow(p, q)
  <2>1. \A i \in 1 .. 4 : OnTheWay(p, q)[i] = 0
    BY <1>4 DEF OnTheWay, InFlight
  <2>2. Flow(p, q) = <<>>
    BY <2>1, WayType, FlowEmpty DEF Flow
  <2>. QED BY <1>4, <2>2 DEF Arrived, Init
<1>6. \A p \in Rank : LocalInv(p)
  BY <1>1 DEF LocalInv, HasMesh
<1>. QED BY <1>2, <1>3, <1>5, <1>6 DEF IInv, ExchangeInv

LEMMA LocalKept ==
  ASSUME NEW q \in Rank, LocalInv(q), pc'[q] = pc[q],
         UNCHANGED <<idGmshToFeel[q], mapGhostElt[q], nbMsgToRecv[q], cellInOthers[q]>>,
         UNCHANGED <<faceId[q], faceProcessId[q], faceInOthers[q], neighborSubdomain[q]>>
  PROVE  LocalInv(q)'
BY DEF LocalInv, HasMesh, CellsRead, FacesNumbered, MeshMade

(* A rank that goes on and changes nothing of what is known                *)
LEMMA LocalGoes ==
  ASSUME IInv, NEW p \in Rank, NEW a, NEW b \in Phase, Go(p, a, b),
         UNCHANGED <<cellVars, faceVars>>,
         \/ a = "askCells" /\ b = "answerCells"
         \/ a = "answerCells" /\ b = "setCells"
         \/ a = "askFaces" /\ b = "answerFaces"
         \/ a = "answerFaces" /\ b = "setFaces"
         \/ a = "reduce" /\ b = "waitReduce"
         \/ a = "waitReduce" /\ b = "done"
  PROVE  LocalTables' /\ \A q \in Rank : LocalInv(q)'
<1>1. pc' \in [Rank -> Phase] /\ pc[p] = a /\ pc'[p] = b
  BY Advances DEF IInv, ExchangeInv, Tables
<1>2. \A q \in Rank \ {p} : pc'[q] = pc[q]
  BY Advances DEF IInv, ExchangeInv, Tables
<1>3. \A q \in Rank : LocalInv(q)
  BY DEF IInv
<1>4. ASSUME NEW q \in Rank, q # p PROVE LocalInv(q)'
  BY <1>2, <1>3, <1>4, LocalKept DEF cellVars, faceVars
<1>5. LocalInv(p)'
  <2>1. LocalInv(p)
    BY <1>3
  <2>. QED BY <1>1, <2>1 DEF LocalInv, HasMesh, CellsRead, FacesNumbered, MeshMade,
                             cellVars, faceVars
<1>6. LocalTables'
  BY DEF IInv, LocalTables, cellVars, faceVars
<1>. QED BY <1>4, <1>5, <1>6

LEMMA ReceiveInv ==
  ASSUME IInv, NEW p \in Rank, NEW q \in Rank, Receive(p, q) PROVE IInv'
<1>1. ExchangeInv'
  BY ReceiveExchange DEF IInv
<1>2. pc' = pc /\ UNCHANGED cellVars /\ UNCHANGED faceVars
  BY DEF Receive
<1>3. ASSUME NEW r \in Rank PROVE LocalInv(r)'
  BY <1>2, LocalKept DEF IInv, cellVars, faceVars
<1>4. LocalTables'
  BY <1>2 DEF IInv, LocalTables, cellVars, faceVars
<1>. QED BY <1>1, <1>3, <1>4 DEF IInv

LEMMA ReadInv ==
  ASSUME IInv, NEW p \in Rank, Read(p) PROVE IInv'
<1>1. Go(p, "read", "askCells") /\ "askCells" \in Phase
  BY DEF Read, Phase
<1>2. /\ pc' \in [Rank -> Phase] /\ pc[p] = "read" /\ pc'[p] = "askCells"
      /\ \A q \in Rank \ {p} : pc'[q] = pc[q]
  BY <1>1, Advances DEF IInv, ExchangeInv, Tables
<1>3. pending[p] = {} /\ Stage(p)' = Stage(p)
  BY <1>2 DEF IInv, ExchangeInv, Waiting, Waits, Stage
<1>4. ExchangeInv'
  BY <1>2, <1>3, QuietExchange DEF IInv, Read, commVars
<1>5. /\ idGmshToFeel'[p] = CellIds(p) /\ mapGhostElt'[p] = GhostOf(p)
      /\ nbMsgToRecv'[p] = [q \in Rank |-> AskedOf(p, q)]
      /\ cellInOthers'[p] = [c \in Kept[p] |-> Invalid]
      /\ UNCHANGED <<faceId, faceProcessId, faceInOthers, neighborSubdomain>>
  BY DEF Read, IInv, LocalTables, faceVars, GhostOf, CellIds
<1>6. /\ \A q \in Rank \ {p} : UNCHANGED <<idGmshToFeel[q], mapGhostElt[q],
                                           nbMsgToRecv[q], cellInOthers[q]>>
      /\ LocalTables'
  BY DEF Read, IInv, LocalTables, faceVars
<1>7. ASSUME NEW q \in Rank, q # p PROVE LocalInv(q)'
  BY <1>2, <1>5, <1>6, <1>7, LocalKept DEF IInv
<1>8. LocalInv(p)'
  BY <1>2, <1>5 DEF IInv, LocalInv, HasMesh, CellsRead
<1>. QED BY <1>4, <1>6, <1>7, <1>8 DEF IInv

LEMMA NoCellRequestInv ==
  ASSUME IInv, NEW p \in Rank, NoCellRequest(p) PROVE IInv'
<1>1. Go(p, "askCells", "faces") /\ "faces" \in Phase
  BY DEF NoCellRequest, Phase
<1>2. /\ pc' \in [Rank -> Phase] /\ pc[p] = "askCells" /\ pc'[p] = "faces"
      /\ \A q \in Rank \ {p} : pc'[q] = pc[q]
  BY <1>1, Advances DEF IInv, ExchangeInv, Tables
<1>3. pending[p] = {}
  BY <1>2 DEF IInv, ExchangeInv, Waiting, Waits
<1>4. LocalInv(p) /\ CellsRead(p) /\ cellInOthers[p] = [c \in Kept[p] |-> Invalid]
  BY <1>2 DEF IInv, LocalInv
<1>5. /\ \A q \in Rank : ~Asks(p, q) /\ ~Asks(q, p)
      /\ CellsLinked(p) = [c \in Kept[p] |-> Invalid]
  BY <1>4, NoPartner DEF NoCellRequest
<1>6. ExchangeInv'
  BY <1>2, <1>3, <1>5, SkipExchange DEF IInv, NoCellRequest, commVars
<1>7. UNCHANGED <<cellVars, faceVars>>
  BY DEF NoCellRequest
<1>8. ASSUME NEW q \in Rank, q # p PROVE LocalInv(q)'
  BY <1>2, <1>7, <1>8, LocalKept DEF IInv, cellVars, faceVars
<1>9. LocalInv(p)'
  BY <1>2, <1>4, <1>5, <1>7 DEF LocalInv, HasMesh, CellsRead, cellVars, faceVars
<1>10. LocalTables'
  BY <1>7 DEF IInv, LocalTables, cellVars, faceVars
<1>. QED BY <1>6, <1>8, <1>9, <1>10 DEF IInv

LEMMA AskCellsInv ==
  ASSUME IInv, NEW p \in Rank, AskCells(p) PROVE IInv'
<1>1. Go(p, "askCells", "answerCells") /\ "answerCells" \in Phase
      /\ UNCHANGED <<cellVars, faceVars>>
  BY DEF AskCells, Phase
<1>2. /\ pc' \in [Rank -> Phase] /\ pc[p] = "askCells" /\ pc'[p] = "answerCells"
      /\ \A q \in Rank \ {p} : pc'[q] = pc[q]
  BY <1>1, Advances DEF IInv, ExchangeInv, Tables
<1>3. pending[p] = {} /\ Stage(p) = 0 /\ Stage(p)' = 1 /\ Waits(p)'
  BY <1>2 DEF IInv, ExchangeInv, Waiting, Waits, Stage
<1>4. CellsRead(p)
  BY <1>2 DEF IInv, LocalInv
<1>5. /\ \A q \in Rank : q \in Owners(p) <=> Sends(1, p, q)
      /\ \A q \in Rank : [kind |-> "askCells", data |-> Wanted(p, q)] = Msg(1, p, q)
      /\ CellAskers(p) = {q \in Rank : Sends(1, q, p)}
  BY <1>4, Partners DEF Sends, Msg
<1>6. chan' = [chan EXCEPT ![p] = [q \in Rank |->
                 IF Sends(1, p, q) THEN Append(@[q], Msg(1, p, q)) ELSE @[q]]]
  BY <1>5 DEF AskCells, Sent
<1>7. pending' = [pending EXCEPT ![p] = {q \in Rank : Sends(1, q, p)}] /\ UNCHANGED received
  BY <1>5 DEF AskCells
<1>8. ExchangeInv'
  <2>1. PICK n \in 1 .. 4 : n = 1
    OBVIOUS
  <2>2. Stage(p) = n - 1 /\ Stage(p)' = n
    BY <1>3, <2>1
  <2>3. pending' = [pending EXCEPT ![p] = {q \in Rank : Sends(n, q, p)}]
    BY <1>7, <2>1
  <2>4. chan' = [chan EXCEPT ![p] = [q \in Rank |->
                   IF Sends(n, p, q) THEN Append(@[q], Msg(n, p, q)) ELSE @[q]]]
    BY <1>6, <2>1
  <2>5. ExchangeInv /\ UNCHANGED received
    BY <1>7 DEF IInv
  <2>. QED BY <1>2, <1>3, <2>2, <2>3, <2>4, <2>5, PostExchange
<1>. QED BY <1>1, <1>8, LocalGoes DEF IInv

LEMMA AnswerCellsInv ==
  ASSUME IInv, NEW p \in Rank, AnswerCells(p) PROVE IInv'
<1>1. Go(p, "answerCells", "setCells") /\ "setCells" \in Phase
      /\ UNCHANGED <<cellVars, faceVars>>
  BY DEF AnswerCells, Phase
<1>2. /\ pc' \in [Rank -> Phase] /\ pc[p] = "answerCells" /\ pc'[p] = "setCells"
      /\ \A q \in Rank \ {p} : pc'[q] = pc[q]
  BY <1>1, Advances DEF IInv, ExchangeInv, Tables
<1>3. pending[p] = {} /\ Stage(p) = 1 /\ Stage(p)' = 2 /\ Waits(p)'
  BY <1>2 DEF AnswerCells, AllComplete, Waits, Stage
<1>4. CellsRead(p)
  BY <1>2 DEF IInv, LocalInv
<1>5. /\ \A q \in Rank : q \in CellAskers(p) <=> Sends(2, p, q)
      /\ Owners(p) = {q \in Rank : Sends(2, q, p)}
      /\ \A q \in Rank : Sends(2, p, q) => Sends(1, q, p)
  BY <1>4, Partners DEF Sends
<1>6. ASSUME NEW q \in Rank, Sends(2, p, q)
      PROVE  [kind |-> "cellIds", data |-> CellAnswer(p, received[p][q].data)] = Msg(2, p, q)
  <2>1. received[p][q] = Msg(1, q, p)
    BY <1>3, <1>5, <1>6, AllArrived DEF IInv
  <2>2. received[p][q].data = List(q, p)
    BY <2>1 DEF Msg
  <2>. QED BY <1>4, <2>2 DEF CellsRead, CellAnswer, CellReply, Msg
<1>7. chan' = [chan EXCEPT ![p] = [q \in Rank |->
                 IF Sends(2, p, q) THEN Append(@[q], Msg(2, p, q)) ELSE @[q]]]
  BY <1>5, <1>6 DEF AnswerCells, Sent
<1>8. pending' = [pending EXCEPT ![p] = {q \in Rank : Sends(2, q, p)}] /\ UNCHANGED received
  BY <1>5 DEF AnswerCells
<1>9. ExchangeInv'
  <2>1. PICK n \in 1 .. 4 : n = 2
    OBVIOUS
  <2>2. Stage(p) = n - 1 /\ Stage(p)' = n
    BY <1>3, <2>1
  <2>3. pending' = [pending EXCEPT ![p] = {q \in Rank : Sends(n, q, p)}]
    BY <1>8, <2>1
  <2>4. chan' = [chan EXCEPT ![p] = [q \in Rank |->
                   IF Sends(n, p, q) THEN Append(@[q], Msg(n, p, q)) ELSE @[q]]]
    BY <1>7, <2>1
  <2>5. ExchangeInv /\ UNCHANGED received
    BY <1>8 DEF IInv
  <2>. QED BY <1>2, <1>3, <2>2, <2>3, <2>4, <2>5, PostExchange
<1>. QED BY <1>1, <1>9, LocalGoes DEF IInv

LEMMA AskFacesInv ==
  ASSUME IInv, NEW p \in Rank, AskFaces(p) PROVE IInv'
<1>1. Go(p, "askFaces", "answerFaces") /\ "answerFaces" \in Phase
      /\ UNCHANGED <<cellVars, faceVars>>
  BY DEF AskFaces, Phase
<1>2. /\ pc' \in [Rank -> Phase] /\ pc[p] = "askFaces" /\ pc'[p] = "answerFaces"
      /\ \A q \in Rank \ {p} : pc'[q] = pc[q]
  BY <1>1, Advances DEF IInv, ExchangeInv, Tables
<1>3. pending[p] = {} /\ Stage(p) = 2 /\ Stage(p)' = 3 /\ Waits(p)'
  BY <1>2 DEF IInv, ExchangeInv, Waiting, Waits, Stage
<1>4. CellsRead(p) /\ cellInOthers[p] = CellsLinked(p)
  BY <1>2 DEF IInv, LocalInv
<1>5. /\ \A q \in Rank : q \in Owners(p) <=> Sends(3, p, q)
      /\ FaceAskers(p) = {q \in Rank : Sends(3, q, p)}
      /\ \A q \in Rank : Wanted(p, q) = List(p, q)
  BY <1>4, Partners DEF Sends
<1>6. \A q \in Rank :
        [kind |-> "askFaces",
         data |-> [k \in DOMAIN Wanted(p, q) |-> cellInOthers[p][Wanted(p, q)[k]]]]
          = Msg(3, p, q)
  BY <1>4, <1>5 DEF FaceRequest, Msg
<1>7. chan' = [chan EXCEPT ![p] = [q \in Rank |->
                 IF Sends(3, p, q) THEN Append(@[q], Msg(3, p, q)) ELSE @[q]]]
  BY <1>5, <1>6 DEF AskFaces, Sent
<1>8. pending' = [pending EXCEPT ![p] = {q \in Rank : Sends(3, q, p)}] /\ UNCHANGED received
  BY <1>5 DEF AskFaces
<1>9. ExchangeInv'
  <2>1. PICK n \in 1 .. 4 : n = 3
    OBVIOUS
  <2>2. Stage(p) = n - 1 /\ Stage(p)' = n
    BY <1>3, <2>1
  <2>3. pending' = [pending EXCEPT ![p] = {q \in Rank : Sends(n, q, p)}]
    BY <1>8, <2>1
  <2>4. chan' = [chan EXCEPT ![p] = [q \in Rank |->
                   IF Sends(n, p, q) THEN Append(@[q], Msg(n, p, q)) ELSE @[q]]]
    BY <1>7, <2>1
  <2>5. ExchangeInv /\ UNCHANGED received
    BY <1>8 DEF IInv
  <2>. QED BY <1>2, <1>3, <2>2, <2>3, <2>4, <2>5, PostExchange
<1>. QED BY <1>1, <1>9, LocalGoes DEF IInv

LEMMA AnswerFacesInv ==
  ASSUME IInv, NEW p \in Rank, AnswerFaces(p) PROVE IInv'
<1>1. Go(p, "answerFaces", "setFaces") /\ "setFaces" \in Phase
      /\ UNCHANGED <<cellVars, faceVars>>
  BY DEF AnswerFaces, Phase
<1>2. /\ pc' \in [Rank -> Phase] /\ pc[p] = "answerFaces" /\ pc'[p] = "setFaces"
      /\ \A q \in Rank \ {p} : pc'[q] = pc[q]
  BY <1>1, Advances DEF IInv, ExchangeInv, Tables
<1>3. pending[p] = {} /\ Stage(p) = 3 /\ Stage(p)' = 4 /\ Waits(p)'
  BY <1>2 DEF AnswerFaces, AllComplete, Waits, Stage
<1>4. CellsRead(p) /\ FacesNumbered(p)
  BY <1>2 DEF IInv, LocalInv
<1>5. /\ \A q \in Rank : q \in FaceAskers(p) <=> Sends(4, p, q)
      /\ Owners(p) = {q \in Rank : Sends(4, q, p)}
      /\ \A q \in Rank : Sends(4, p, q) => Sends(3, q, p)
  BY <1>4, Partners DEF Sends
<1>6. ASSUME NEW q \in Rank, Sends(4, p, q)
      PROVE  [kind |-> "faceIds", data |-> FaceAnswer(p, received[p][q].data)] = Msg(4, p, q)
  <2>1. received[p][q] = Msg(3, q, p)
    BY <1>3, <1>5, <1>6, AllArrived DEF IInv
  <2>2. received[p][q].data = FaceRequest(q, p)
    BY <2>1 DEF Msg
  <2>3. \A id : Element(p, id) = ElementOf(p, id)
    BY <1>4 DEF CellsRead, Element, ElementOf
  <2>4. FaceAnswer(p, FaceRequest(q, p)) = FaceReply(p, q)
    BY <1>4, <2>3 DEF FacesNumbered, FaceAnswer, FaceReply
  <2>. QED BY <2>2, <2>4 DEF Msg
<1>7. chan' = [chan EXCEPT ![p] = [q \in Rank |->
                 IF Sends(4, p, q) THEN Append(@[q], Msg(4, p, q)) ELSE @[q]]]
  BY <1>5, <1>6 DEF AnswerFaces, Sent
<1>8. pending' = [pending EXCEPT ![p] = {q \in Rank : Sends(4, q, p)}] /\ UNCHANGED received
  BY <1>5 DEF AnswerFaces
<1>9. ExchangeInv'
  <2>1. PICK n \in 1 .. 4 : n = 4
    OBVIOUS
  <2>2. Stage(p) = n - 1 /\ Stage(p)' = n
    BY <1>3, <2>1
  <2>3. pending' = [pending EXCEPT ![p] = {q \in Rank : Sends(n, q, p)}]
    BY <1>8, <2>1
  <2>4. chan' = [chan EXCEPT ![p] = [q \in Rank |->
                   IF Sends(n, p, q) THEN Append(@[q], Msg(n, p, q)) ELSE @[q]]]
    BY <1>7, <2>1
  <2>5. ExchangeInv /\ UNCHANGED received
    BY <1>8 DEF IInv
  <2>. QED BY <1>2, <1>3, <2>2, <2>3, <2>4, <2>5, PostExchange
<1>. QED BY <1>1, <1>9, LocalGoes DEF IInv

LEMMA ReduceInv ==
  ASSUME IInv, NEW p \in Rank, EnterReduce(p) \/ LeaveReduce(p) PROVE IInv'
<1>1. PICK a \in Phase, b \in Phase :
        /\ Go(p, a, b)
        /\ \/ a = "reduce" /\ b = "waitReduce"
           \/ a = "waitReduce" /\ b = "done"
  BY DEF EnterReduce, LeaveReduce, Phase
<1>2. UNCHANGED <<cellVars, faceVars>> /\ UNCHANGED <<chan, pending, received>>
  BY DEF EnterReduce, LeaveReduce, commVars
<1>3. /\ pc' \in [Rank -> Phase] /\ pc[p] = a /\ pc'[p] = b
      /\ \A q \in Rank \ {p} : pc'[q] = pc[q]
  BY <1>1, Advances DEF IInv, ExchangeInv, Tables
<1>4. pending[p] = {} /\ Stage(p)' = Stage(p)
  BY <1>1, <1>3 DEF IInv, ExchangeInv, Waiting, Waits, Stage
<1>5. ExchangeInv'
  BY <1>2, <1>3, <1>4, QuietExchange DEF IInv
<1>. QED BY <1>1, <1>2, <1>5, LocalGoes DEF IInv

(* The other cell of a face the partition cuts is a ghost                  *)
LEMMA CutFacesSeen ==
  ASSUME NEW p \in Rank, faceProcessId[p] = FaceRanks(p)
  PROVE  InterProcessFaces(p) = CutFaces(p)
<1>1. DOMAIN faceProcessId[p] = KeptFaces[p]
  BY DEF FaceRanks
<1>2. ASSUME NEW f \in KeptFaces[p], NEW c \in Cell \ Ignored, NEW d \in Cell \ Ignored,
             f \in FacesOf[c] \cap FacesOf[d], Owner(c) = p, Owner(d) # p
      PROVE  c \in Active[p] /\ c \in Kept[p] /\ d \in Kept[p] /\ faceProcessId[p][f] = p
  <2>1. c \in Active[p] /\ c \in Kept[p]
    BY <1>2, KeptType
  <2>2. Owner(c) \in Ghosts(d)
    BY <1>2, FileAssumption
  <2>3. d \in Kept[p]
    BY <1>2, <2>2, KeptType
  <2>4. faceProcessId[p][f] = p
    BY <1>2, <2>1 DEF FaceRanks, FaceProcessId
  <2>. QED BY <2>1, <2>3, <2>4
<1>3. \A f \in KeptFaces[p] : f \in InterProcessFaces(p) => f \in CutFaces(p)
  BY <1>1, KeptType DEF InterProcessFaces, CutFaces
<1>4. \A f \in KeptFaces[p] : f \in CutFaces(p) => f \in InterProcessFaces(p)
  BY <1>1, <1>2 DEF InterProcessFaces, CutFaces
<1>5. InterProcessFaces(p) \subseteq KeptFaces[p] /\ CutFaces(p) \subseteq KeptFaces[p]
  BY <1>1 DEF InterProcessFaces, CutFaces
<1>. QED BY <1>3, <1>4, <1>5

LEMMA SetCellsInv ==
  ASSUME IInv, NEW p \in Rank, SetCells(p) PROVE IInv'
<1>1. Go(p, "setCells", "faces") /\ "faces" \in Phase
  BY DEF SetCells, Phase
<1>2. /\ pc' \in [Rank -> Phase] /\ pc[p] = "setCells" /\ pc'[p] = "faces"
      /\ \A q \in Rank \ {p} : pc'[q] = pc[q]
  BY <1>1, Advances DEF IInv, ExchangeInv, Tables
<1>3. pending[p] = {} /\ Stage(p) = 2 /\ Stage(p)' = 2
  BY <1>2 DEF SetCells, AllComplete, Stage
<1>4. ExchangeInv'
  BY <1>2, <1>3, QuietExchange DEF IInv, SetCells, commVars
<1>5. CellsRead(p) /\ cellInOthers[p] = [c \in Kept[p] |-> Invalid] /\ LocalInv(p)
  BY <1>2 DEF IInv, LocalInv
<1>6. ASSUME NEW c \in GhostOf(p)
      PROVE  received[p][Owner(c)].data[Place(p, c)] = FeelId(Owner(c), c)
  <2>1. Owner(c) \in Rank /\ Sends(2, Owner(c), p)
    BY GhostOwner DEF Sends
  <2>2. received[p][Owner(c)] = Msg(2, Owner(c), p)
    BY <1>3, <2>1, AllArrived DEF IInv
  <2>3. received[p][Owner(c)].data = CellReply(Owner(c), p)
    BY <2>2 DEF Msg
  <2>4. PICK k \in DOMAIN List(p, Owner(c)) : k = Place(p, c) /\ List(p, Owner(c))[k] = c
    BY <1>5, GhostPlace
  <2>5. CellReply(Owner(c), p)[k] = FeelId(Owner(c), c)
    BY <2>4, Answers
  <2>. QED BY <2>3, <2>4, <2>5
<1>7. cellInOthers'[p] = CellsLinked(p)
  BY <1>5, <1>6 DEF SetCells, IInv, LocalTables, CellsRead, CellsLinked
<1>8. /\ UNCHANGED <<idGmshToFeel, mapGhostElt, nbMsgToRecv>> /\ UNCHANGED faceVars
      /\ \A q \in Rank \ {p} : cellInOthers'[q] = cellInOthers[q]
  BY DEF SetCells, IInv, LocalTables
<1>9. ASSUME NEW q \in Rank, q # p PROVE LocalInv(q)'
  BY <1>2, <1>8, <1>9, LocalKept DEF IInv, faceVars
<1>10. LocalInv(p)'
  BY <1>2, <1>5, <1>7, <1>8 DEF LocalInv, HasMesh, CellsRead, faceVars
<1>11. LocalTables'
  BY <1>8 DEF IInv, LocalTables, SetCells, faceVars
<1>. QED BY <1>4, <1>9, <1>10, <1>11 DEF IInv

LEMMA UpdateFacesInv ==
  ASSUME IInv, NEW p \in Rank, UpdateFaces(p) PROVE IInv'
<1>1. Go(p, "faces", "askFaces") /\ "askFaces" \in Phase
  BY DEF UpdateFaces, Phase
<1>2. /\ pc' \in [Rank -> Phase] /\ pc[p] = "faces" /\ pc'[p] = "askFaces"
      /\ \A q \in Rank \ {p} : pc'[q] = pc[q]
  BY <1>1, Advances DEF IInv, ExchangeInv, Tables
<1>3. pending[p] = {} /\ Stage(p)' = Stage(p)
  BY <1>2 DEF IInv, ExchangeInv, Waiting, Waits, Stage
<1>4. ExchangeInv'
  BY <1>2, <1>3, QuietExchange DEF IInv, UpdateFaces, commVars
<1>5. /\ faceId'[p] = FaceIds(p) /\ faceProcessId'[p] = FaceRanks(p)
      /\ faceInOthers'[p] = [f \in KeptFaces[p] |-> [q \in Rank |-> Invalid]]
      /\ UNCHANGED cellVars /\ UNCHANGED neighborSubdomain
  BY DEF UpdateFaces, IInv, LocalTables, FaceIds, FaceRanks
<1>6. /\ \A q \in Rank \ {p} : UNCHANGED <<faceId[q], faceProcessId[q], faceInOthers[q]>>
      /\ LocalTables'
  BY DEF UpdateFaces, IInv, LocalTables, cellVars
<1>7. ASSUME NEW q \in Rank, q # p PROVE LocalInv(q)'
  BY <1>2, <1>5, <1>6, <1>7, LocalKept DEF IInv, cellVars
<1>8. LocalInv(p)'
  BY <1>2, <1>5 DEF IInv, LocalInv, HasMesh, CellsRead, FacesNumbered, cellVars
<1>. QED BY <1>4, <1>6, <1>7, <1>8 DEF IInv

LEMMA NoFaceRequestInv ==
  ASSUME IInv, NEW p \in Rank, NoFaceRequest(p) PROVE IInv'
<1>1. Go(p, "askFaces", "reduce") /\ "reduce" \in Phase
  BY DEF NoFaceRequest, Phase
<1>2. /\ pc' \in [Rank -> Phase] /\ pc[p] = "askFaces" /\ pc'[p] = "reduce"
      /\ \A q \in Rank \ {p} : pc'[q] = pc[q]
  BY <1>1, Advances DEF IInv, ExchangeInv, Tables
<1>3. pending[p] = {}
  BY <1>2 DEF IInv, ExchangeInv, Waiting, Waits
<1>4. /\ LocalInv(p) /\ CellsRead(p) /\ FacesNumbered(p) /\ cellInOthers[p] = CellsLinked(p)
      /\ faceInOthers[p] = [f \in KeptFaces[p] |-> [q \in Rank |-> Invalid]]
  BY <1>2 DEF IInv, LocalInv
<1>5. /\ \A q \in Rank : ~Asks(p, q) /\ ~Asks(q, p)
      /\ FacesLinked(p) = [f \in KeptFaces[p] |-> [q \in Rank |-> Invalid]]
  BY <1>4, NoPartner DEF NoFaceRequest
<1>6. ExchangeInv'
  BY <1>2, <1>3, <1>5, SkipExchange DEF IInv, NoFaceRequest, commVars
<1>7. neighborSubdomain'[p] = {Partition2(p, f) : f \in CutFaces(p)}
  <2>1. InterProcessFaces(p) = CutFaces(p)
    BY <1>4, CutFacesSeen DEF FacesNumbered
  <2>2. neighborSubdomain'[p] = NeighborSubdomains(p)
    BY DEF NoFaceRequest, IInv, LocalTables
  <2>. QED BY <2>1, <2>2 DEF NeighborSubdomains
<1>8. /\ UNCHANGED cellVars /\ UNCHANGED <<faceId, faceProcessId, faceInOthers>>
      /\ \A q \in Rank \ {p} : neighborSubdomain'[q] = neighborSubdomain[q]
      /\ LocalTables'
  BY DEF NoFaceRequest, IInv, LocalTables, cellVars
<1>9. ASSUME NEW q \in Rank, q # p PROVE LocalInv(q)'
  BY <1>2, <1>8, <1>9, LocalKept DEF IInv, cellVars
<1>10. LocalInv(p)'
  BY <1>2, <1>4, <1>5, <1>7, <1>8
     DEF LocalInv, HasMesh, CellsRead, FacesNumbered, MeshMade, cellVars
<1>. QED BY <1>6, <1>8, <1>9, <1>10 DEF IInv

LEMMA SetFacesInv ==
  ASSUME IInv, NEW p \in Rank, SetFaces(p) PROVE IInv'
<1>1. Go(p, "setFaces", "reduce") /\ "reduce" \in Phase
  BY DEF SetFaces, Phase
<1>2. /\ pc' \in [Rank -> Phase] /\ pc[p] = "setFaces" /\ pc'[p] = "reduce"
      /\ \A q \in Rank \ {p} : pc'[q] = pc[q]
  BY <1>1, Advances DEF IInv, ExchangeInv, Tables
<1>3. pending[p] = {} /\ Stage(p) = 4 /\ Stage(p)' = 4
  BY <1>2 DEF SetFaces, AllComplete, Stage
<1>4. ExchangeInv'
  BY <1>2, <1>3, QuietExchange DEF IInv, SetFaces, commVars
<1>5. /\ LocalInv(p) /\ CellsRead(p) /\ FacesNumbered(p) /\ cellInOthers[p] = CellsLinked(p)
      /\ faceInOthers[p] = [f \in KeptFaces[p] |-> [q \in Rank |-> Invalid]]
  BY <1>2 DEF IInv, LocalInv
<1>6. ASSUME NEW c \in GhostOf(p), NEW f \in FacesOf[c]
      PROVE  FacesReceived(p, c)[f] = FaceNumber(Owner(c), f)
  <2>1. Owner(c) \in Rank /\ Sends(4, Owner(c), p) /\ c \in Kept[Owner(c)]
    BY GhostOwner DEF Sends
  <2>2. received[p][Owner(c)] = Msg(4, Owner(c), p)
    BY <1>3, <2>1, AllArrived DEF IInv
  <2>3. FacesReceived(p, c) = FaceReply(Owner(c), p)[Place(p, c)]
    BY <2>2 DEF Msg, FacesReceived
  <2>4. FacesReceived(p, c)[f] = FaceIds(Owner(c))[f]
    <3>1. PICK k \in DOMAIN List(p, Owner(c)) : k = Place(p, c) /\ List(p, Owner(c))[k] = c
      BY <1>5, GhostPlace
    <3>2. FaceReply(Owner(c), p)[k] = [g \in FacesOf[c] |-> FaceIds(Owner(c))[g]]
      BY <3>1, Answers
    <3>. QED BY <2>3, <3>1, <3>2
  <2>5. f \in KeptFaces[Owner(c)]
    BY <2>1 DEF KeptFaces
  <2>. QED BY <2>4, <2>5 DEF FaceIds
<1> DEFINE From(f, q) == {c \in GhostOf(p) : f \in FacesOf[c] /\ Owner(c) = q}
<1>7. faceInOthers'[p] = [f \in KeptFaces[p] |-> [q \in Rank |->
         IF From(f, q) = {} THEN Invalid
         ELSE FacesReceived(p, CHOOSE c \in From(f, q) : TRUE)[f]]]
  BY <1>5 DEF SetFaces, IInv, LocalTables, CellsRead
<1>8. ASSUME NEW f \in KeptFaces[p], NEW q \in Rank
      PROVE  (IF From(f, q) = {} THEN Invalid
              ELSE FacesReceived(p, CHOOSE c \in From(f, q) : TRUE)[f])
                = IF \E c \in GhostOf(p) : f \in FacesOf[c] /\ Owner(c) = q
                  THEN FaceNumber(q, f) ELSE Invalid
  <2>1. CASE From(f, q) = {}
    BY <2>1
  <2>2. CASE From(f, q) # {}
    <3>1. PICK c : c = CHOOSE d \in From(f, q) : TRUE
      OBVIOUS
    <3>2. c \in GhostOf(p) /\ f \in FacesOf[c] /\ Owner(c) = q
      BY <2>2, <3>1
    <3>3. FacesReceived(p, c)[f] = FaceNumber(q, f)
      BY <1>6, <3>2
    <3>. QED BY <2>2, <3>1, <3>2, <3>3
  <2>. QED BY <2>1, <2>2
<1>9. faceInOthers'[p] = FacesLinked(p)
  <2> HIDE DEF From
  <2>. QED BY <1>7, <1>8 DEF FacesLinked
<1>10. neighborSubdomain'[p] = {Partition2(p, f) : f \in CutFaces(p)}
  <2>1. InterProcessFaces(p) = CutFaces(p)
    BY <1>5, CutFacesSeen DEF FacesNumbered
  <2>2. neighborSubdomain'[p] = NeighborSubdomains(p)
    BY DEF SetFaces, IInv, LocalTables
  <2>. QED BY <2>1, <2>2 DEF NeighborSubdomains
<1>11. /\ UNCHANGED cellVars /\ UNCHANGED <<faceId, faceProcessId>>
       /\ \A q \in Rank \ {p} : UNCHANGED <<faceInOthers[q], neighborSubdomain[q]>>
       /\ LocalTables'
  BY DEF SetFaces, IInv, LocalTables, cellVars
<1>12. ASSUME NEW q \in Rank, q # p PROVE LocalInv(q)'
  BY <1>2, <1>11, <1>12, LocalKept DEF IInv, cellVars
<1>13. LocalInv(p)'
  BY <1>2, <1>5, <1>9, <1>10, <1>11
     DEF LocalInv, HasMesh, CellsRead, FacesNumbered, MeshMade, cellVars
<1>. QED BY <1>4, <1>11, <1>12, <1>13 DEF IInv

-----------------------------------------------------------------------------
LEMMA StepInv ==
  ASSUME IInv, NEW p \in Rank, Step(p) PROVE IInv'
<1>1. CASE Read(p)
  BY <1>1, ReadInv
<1>2. CASE NoCellRequest(p)
  BY <1>2, NoCellRequestInv
<1>3. CASE AskCells(p)
  BY <1>3, AskCellsInv
<1>4. CASE AnswerCells(p)
  BY <1>4, AnswerCellsInv
<1>5. CASE SetCells(p)
  BY <1>5, SetCellsInv
<1>6. CASE UpdateFaces(p)
  BY <1>6, UpdateFacesInv
<1>7. CASE NoFaceRequest(p)
  BY <1>7, NoFaceRequestInv
<1>8. CASE AskFaces(p)
  BY <1>8, AskFacesInv
<1>9. CASE AnswerFaces(p)
  BY <1>9, AnswerFacesInv
<1>10. CASE SetFaces(p)
  BY <1>10, SetFacesInv
<1>11. CASE EnterReduce(p) \/ LeaveReduce(p)
  BY <1>11, ReduceInv
<1>12. CASE \E q \in Rank : Receive(p, q)
  BY <1>12, ReceiveInv
<1>. QED BY <1>1, <1>2, <1>3, <1>4, <1>5, <1>6, <1>7, <1>8, <1>9, <1>10, <1>11, <1>12
         DEF Step

(* A step that changes nothing                                             *)
LEMMA StutterInv ==
  ASSUME IInv, UNCHANGED vars PROVE IInv'
<1>1. /\ pc' = pc /\ pending' = pending /\ chan' = chan /\ received' = received
      /\ UNCHANGED cellVars /\ UNCHANGED faceVars
  BY DEF vars, commVars
<1>2. \A p \in Rank : Stage(p)' = Stage(p) /\ (Waits(p)' <=> Waits(p))
  BY <1>1 DEF Stage, Waits
<1>3. \A n \in 1 .. 4 : \A p, q \in Rank :
        (Posted(n, p, q)' <=> Posted(n, p, q)) /\ (Got(n, p, q)' <=> Got(n, p, q))
  BY <1>1, <1>2 DEF Posted, Got
<1>4. \A p, q \in Rank : Arrived(p, q)' /\ chan'[p][q] = Flow(p, q)'
  BY <1>1, <1>2, <1>3, FlowSame DEF IInv, ExchangeInv, Arrived, InFlight
<1>5. Tables' /\ LocalTables' /\ \A p \in Rank : Waiting(p)'
  BY <1>1, <1>2 DEF IInv, ExchangeInv, Tables, LocalTables, Waiting, cellVars, faceVars
<1>6. \A p \in Rank : LocalInv(p)'
  BY <1>1, LocalKept DEF IInv, cellVars, faceVars
<1>. QED BY <1>4, <1>5, <1>6 DEF IInv, ExchangeInv

(* What a rank knows is a function of where it is, and what is on the way  *)
(* is what was posted and not received, in order.                          *)
THEOREM Invariant == Spec => []IInv
<1>1. IInv /\ [Next]_vars => IInv'
  BY StepInv, StutterInv DEF Next, Finished
<1>. QED BY InitInv, <1>1, PTL DEF Spec

(* A rank expects the requests of exactly the ranks that ask it.           *)
THEOREM RequestsExpectedAlways == Spec => []RequestsExpected
<1>1. ASSUME IInv, NEW p \in Rank, NEW q \in Rank, pc[p] # "read", pc[q] # "read"
      PROVE  /\ q \in Owners(p) <=> p \in CellAskers(q)
             /\ q \in Owners(p) <=> p \in FaceAskers(q)
  <2>1. CellsRead(p) /\ CellsRead(q)
    BY <1>1 DEF IInv, LocalInv
  <2>. QED BY <2>1, Partners
<1>2. IInv => RequestsExpected
  BY <1>1 DEF RequestsExpected
<1>. QED BY Invariant, <1>2, PTL

(* A receive never completes with a message meant for another one.         *)
THEOREM NoCrossedMessagesAlways == Spec => []NoCrossedMessages
<1>1. ASSUME IInv, NEW p \in Rank, NEW q \in Rank, q \in pending[p], chan[q][p] # <<>>
      PROVE  Head(chan[q][p]).kind = CASE pc[p] = "answerCells" -> "askCells"
                                       [] pc[p] = "setCells" -> "cellIds"
                                       [] pc[p] = "answerFaces" -> "askFaces"
                                       [] pc[p] = "setFaces" -> "faceIds"
  <2>1. Waits(p) /\ Head(chan[q][p]) = Msg(Stage(p), q, p)
    BY <1>1, NextMessage DEF IInv
  <2>2. CASE pc[p] = "answerCells"
    BY <2>1, <2>2 DEF Stage, Msg
  <2>3. CASE pc[p] = "setCells"
    BY <2>1, <2>3 DEF Stage, Msg
  <2>4. CASE pc[p] = "answerFaces"
    BY <2>1, <2>4 DEF Stage, Msg
  <2>5. CASE pc[p] = "setFaces"
    BY <2>1, <2>5 DEF Stage, Msg
  <2>. QED BY <2>1, <2>2, <2>3, <2>4, <2>5 DEF Waits
<1>2. IInv => NoCrossedMessages
  BY <1>1 DEF NoCrossedMessages
<1>. QED BY Invariant, <1>2, PTL

(* A rank that used the answer of another one left that one behind its     *)
(* own use of the answer of the first                                      *)
LEMMA AnswererHasRead ==
  ASSUME IInv, NEW p \in Rank, NEW c \in GhostOf(p)
  PROVE  /\ pc[p] \in {"faces", "askFaces", "answerFaces", "setFaces", "reduce",
                       "waitReduce", "done"} => CellsRead(Owner(c))
         /\ HasMesh(p) => FacesNumbered(Owner(c))
<1>1. Owner(c) \in Rank /\ \A n \in {2, 4} : Sends(n, Owner(c), p)
  BY GhostOwner DEF Sends
<1>2. \A n \in 1 .. 4 : Got(n, p, Owner(c)) => Stage(Owner(c)) >= n
  BY <1>1 DEF IInv, ExchangeInv, Arrived, Posted
<1>3. LocalInv(Owner(c)) /\ Waiting(p) /\ pc[Owner(c)] \in Phase
  BY <1>1 DEF IInv, ExchangeInv, Tables
<1>4. ASSUME pc[p] \in {"faces", "askFaces", "answerFaces", "setFaces", "reduce",
                        "waitReduce", "done"}
      PROVE  CellsRead(Owner(c))
  <2>1. Got(2, p, Owner(c))
    BY <1>1, <1>3, <1>4 DEF Got, Stage, Waiting, Waits
  <2>2. Stage(Owner(c)) >= 2
    BY <1>2, <2>1
  <2>. QED BY <1>3, <2>2 DEF Stage, LocalInv
<1>5. ASSUME HasMesh(p) PROVE FacesNumbered(Owner(c))
  <2>1. Got(4, p, Owner(c))
    BY <1>1, <1>3, <1>5 DEF HasMesh, Got, Stage, Waiting, Waits
  <2>2. Stage(Owner(c)) >= 4
    BY <1>2, <2>1
  <2>3. pc[Owner(c)] \in {"setFaces", "reduce", "waitReduce", "done"}
    BY <1>3, <2>2 DEF Stage, Phase
  <2>. QED BY <1>3, <2>3 DEF LocalInv
<1>. QED BY <1>4, <1>5

(* The numbers learnt of the entities of another rank are those it uses.   *)
THEOREM LinksRightAlways == Spec => []LinksRight
<1>1. ASSUME IInv, NEW p \in Rank, NEW c \in mapGhostElt[p], cellInOthers[p][c] # Invalid
      PROVE  c \in Active[Owner(c)] /\ cellInOthers[p][c] = idGmshToFeel[Owner(c)][c]
  <2>1. LocalInv(p) /\ pc[p] \in Phase
    BY <1>1 DEF IInv, ExchangeInv, Tables
  <2>2. pc[p] # "read" /\ c \in GhostOf(p) /\ c \in Kept[p]
    BY <1>1, <2>1, KeptType DEF LocalInv, CellsRead
  <2>3. c \in Active[Owner(c)] /\ c \in Kept[Owner(c)] /\ Owner(c) \in Rank
    BY <2>2, GhostOwner
  <2>4. /\ cellInOthers[p] = CellsLinked(p)
        /\ pc[p] \in {"faces", "askFaces", "answerFaces", "setFaces", "reduce",
                      "waitReduce", "done"}
    BY <1>1, <2>1, <2>2 DEF LocalInv, Phase
  <2>5. cellInOthers[p][c] = FeelId(Owner(c), c)
    BY <2>2, <2>4 DEF CellsLinked
  <2>6. idGmshToFeel[Owner(c)] = CellIds(Owner(c))
    BY <1>1, <2>2, <2>4, AnswererHasRead DEF CellsRead
  <2>. QED BY <2>3, <2>5, <2>6 DEF CellIds
<1>2. ASSUME IInv, NEW p \in Rank, NEW f \in DOMAIN faceInOthers[p], NEW q \in Rank,
             faceInOthers[p][f][q] # Invalid
      PROVE  f \in DOMAIN faceId[q] /\ faceInOthers[p][f][q] = faceId[q][f]
  <2>1. LocalInv(p) /\ pc[p] \in Phase
    BY <1>2 DEF IInv, ExchangeInv, Tables
  <2>2. HasMesh(p) /\ faceInOthers[p] = FacesLinked(p) /\ f \in KeptFaces[p]
    BY <1>2, <2>1 DEF LocalInv, HasMesh, MeshMade, Phase, FacesLinked, Nothing
  <2>3. PICK c \in GhostOf(p) : f \in FacesOf[c] /\ Owner(c) = q
    BY <1>2, <2>2 DEF FacesLinked
  <2>4. faceInOthers[p][f][q] = FaceNumber(q, f)
    BY <2>2, <2>3 DEF FacesLinked
  <2>5. c \in Kept[q] /\ faceId[q] = FaceIds(q)
    BY <1>2, <2>2, <2>3, GhostOwner, AnswererHasRead DEF FacesNumbered
  <2>6. f \in KeptFaces[q]
    BY <2>3, <2>5 DEF KeptFaces
  <2>. QED BY <2>4, <2>5, <2>6 DEF FaceIds
<1>3. IInv => LinksRight
  BY <1>1, <1>2 DEF LinksRight
<1>. QED BY Invariant, <1>3, PTL

(* A rank that has its mesh has all the faces the partition cuts.          *)
THEOREM CutFacesFoundAlways == Spec => []CutFacesFound
<1>1. ASSUME IInv, NEW p \in Rank, HasMesh(p) PROVE InterProcessFaces(p) = CutFaces(p)
  <2>1. faceProcessId[p] = FaceRanks(p)
    BY <1>1 DEF IInv, LocalInv, HasMesh, FacesNumbered
  <2>. QED BY <2>1, CutFacesSeen
<1>2. IInv => CutFacesFound
  BY <1>1 DEF CutFacesFound, CutFaces
<1>. QED BY Invariant, <1>2, PTL

LEMMA ThreeCells ==
  ASSUME NEW c, NEW d, NEW e, c # d, c # e, d # e
  PROVE  Cardinality({c, d, e}) = 3
<1>1. IsFiniteSet({}) /\ Cardinality({}) = 0
  BY FS_EmptySet
<1>2. IsFiniteSet({c}) /\ Cardinality({c}) = 1
  BY FS_Singleton
<1>3. IsFiniteSet({c} \cup {d}) /\ Cardinality({c} \cup {d}) = 2
  BY <1>2, FS_AddElement
<1>4. Cardinality(({c} \cup {d}) \cup {e}) = 3
  BY <1>3, FS_AddElement
<1>5. ({c} \cup {d}) \cup {e} = {c, d, e}
  OBVIOUS
<1>. QED BY <1>4, <1>5

(* A cut face has one rank on the other side, for which it is cut too      *)
LEMMA OtherSide ==
  ASSUME NEW p \in Rank, NEW f \in CutFaces(p)
  PROVE  \E q \in Rank, d \in GhostOf(p) :
            /\ Partition2(p, f) = q /\ q # p /\ Owner(d) = q /\ f \in FacesOf[d]
            /\ f \in CutFaces(q) /\ Partition2(q, f) = p
<1>1. PICK c \in Cell \ Ignored, d \in Cell \ Ignored :
         f \in FacesOf[c] \cap FacesOf[d] /\ Owner(c) = p /\ Owner(d) # p
  BY DEF CutFaces
<1>2. PICK q \in Rank : q = Owner(d) /\ q # p
  BY <1>1, RankType
<1>3. ASSUME NEW e \in Cell, f \in FacesOf[e] PROVE Owner(e) \in {p, q}
  <2>1. SUFFICES ASSUME Owner(e) # p, Owner(e) # q PROVE FALSE
    OBVIOUS
  <2>2. c # d /\ c # e /\ d # e
    BY <1>1, <1>2, <2>1
  <2>3. FacesOf[c] \cap FacesOf[d] \cap FacesOf[e] # {}
    BY <1>1, <1>3
  <2>4. c \in Cell /\ d \in Cell /\ Cardinality({c, d, e}) < 3
    BY <1>1, <2>3, FileAssumption
  <2>5. Cardinality({c, d, e}) = 3
    BY <2>2, ThreeCells
  <2>6. ~(3 < 3)
    OBVIOUS
  <2>. QED BY <2>4, <2>5, <2>6, Zenon
<1>4. p \in Ghosts(d) /\ q \in Ghosts(c)
  BY <1>1, <1>2, FileAssumption
<1>5. d \in GhostOf(p) /\ c \in GhostOf(q) /\ c \in Kept[q] /\ d \in Kept[p] /\ d \in Kept[q]
  BY <1>1, <1>2, <1>4, KeptType
<1>6. Partition2(p, f) = q
  <2>1. \E e \in Kept[p] : q # p /\ f \in FacesOf[e] /\ Owner(e) = q
    BY <1>1, <1>2, <1>5
  <2>2. \A r \in Rank : (\E e \in Kept[p] : r # p /\ f \in FacesOf[e] /\ Owner(e) = r)
           => r = q
    BY <1>3, KeptType
  <2>. QED BY <2>1, <2>2 DEF Partition2
<1>7. Partition2(q, f) = p
  <2>1. \E e \in Kept[q] : p # q /\ f \in FacesOf[e] /\ Owner(e) = p
    BY <1>1, <1>2, <1>5
  <2>2. \A r \in Rank : (\E e \in Kept[q] : r # q /\ f \in FacesOf[e] /\ Owner(e) = r)
           => r = p
    BY <1>3, KeptType
  <2>. QED BY <2>1, <2>2 DEF Partition2
<1>8. f \in CutFaces(q)
  BY <1>1, <1>2, <1>5 DEF CutFaces, KeptFaces
<1>. QED BY <1>1, <1>2, <1>5, <1>6, <1>7, <1>8

(* Two ranks agree on the faces between them, and on their numbers.        *)
THEOREM InterProcessFacesAgreeAlways == Spec => []InterProcessFacesAgree
<1>1. ASSUME IInv, NEW p \in Rank, HasMesh(p)
      PROVE  /\ InterProcessFaces(p) = CutFaces(p)
             /\ neighborSubdomain[p] = {Partition2(p, f) : f \in CutFaces(p)}
             /\ faceInOthers[p] = FacesLinked(p) /\ faceId[p] = FaceIds(p)
  <2>1. FacesNumbered(p) /\ MeshMade(p)
    BY <1>1 DEF IInv, LocalInv, HasMesh
  <2>. QED BY <2>1, CutFacesSeen DEF FacesNumbered, MeshMade
<1>2. ASSUME IInv, NEW p \in Rank, NEW q \in Rank, HasMesh(p), HasMesh(q),
             q \in neighborSubdomain[p]
      PROVE  p \in neighborSubdomain[q]
  <2>1. PICK f \in CutFaces(p) : Partition2(p, f) = q
    BY <1>1, <1>2
  <2>2. f \in CutFaces(q) /\ Partition2(q, f) = p
    BY <2>1, OtherSide
  <2>. QED BY <1>1, <1>2, <2>2
<1>3. ASSUME IInv, NEW p \in Rank, NEW q \in Rank, HasMesh(p), HasMesh(q),
             NEW f \in InterProcessFaces(p), Partition2(p, f) = q
      PROVE  f \in InterProcessFaces(q) /\ faceInOthers[p][f][q] = faceId[q][f]
  <2>1. f \in CutFaces(p)
    BY <1>1, <1>3
  <2>2. PICK d \in GhostOf(p) : Owner(d) = q /\ f \in FacesOf[d] /\ f \in CutFaces(q)
    BY <1>3, <2>1, OtherSide
  <2>3. f \in KeptFaces[p] /\ f \in KeptFaces[q]
    BY <2>1, <2>2 DEF CutFaces
  <2>4. faceInOthers[p][f][q] = FaceNumber(q, f)
    <3>1. faceInOthers[p] = FacesLinked(p)
      BY <1>1, <1>3
    <3>2. \E c \in GhostOf(p) : f \in FacesOf[c] /\ Owner(c) = q
      BY <2>2
    <3>3. FacesLinked(p)[f][q] = FaceNumber(q, f)
      BY <2>3, <3>2 DEF FacesLinked
    <3>. QED BY <3>1, <3>3
  <2>. QED BY <1>1, <1>3, <2>2, <2>3, <2>4 DEF FaceIds
<1>4. IInv => InterProcessFacesAgree
  BY <1>2, <1>3 DEF InterProcessFacesAgree
<1>. QED BY Invariant, <1>4, PTL

-----------------------------------------------------------------------------
(* Counting the cells                                                      *)

CountInv ==
  /\ pc \in [Rank -> Phase] /\ reduced \in [Rank -> Id]
  /\ numGlobalElements \in [Rank -> Nat]
  /\ \A p \in Rank :
       /\ pc[p] \notin {"waitReduce", "done"} => reduced[p] = Invalid
       /\ pc[p] \in {"waitReduce", "done"} => reduced[p] = Cardinality(Active[p])
       /\ pc[p] = "done" => numGlobalElements[p] = Cardinality(Cell \ Ignored)

LEMMA RankFinite == IsFiniteSet(Rank)
BY FileAssumption, FS_Interval DEF Rank

(* Every cell that is read is active on the rank of its owner and on no    *)
(* other one                                                               *)
LEMMA ActivePartition ==
  /\ Cardinality(Cell \ Ignored) \in Nat
  /\ Cardinality(Cell \ Ignored)
       = SumFunctionOnSet([p \in Rank |-> Cardinality(Active[p])], Rank)
<1>1. UNION {Active[p] : p \in Rank} = Cell \ Ignored
  <2>1. \A p \in Rank : Active[p] = {c \in Cell \ Ignored : Owner(c) = p}
    BY KeptType
  <2>. QED BY <2>1, RankType
<1>2. \A p \in Rank : IsFiniteSet(Active[p])
  BY KeptType
<1>3. \A p, q \in Rank : p # q => Active[p] \cap Active[q] = {}
  BY KeptType
<1>4. /\ IsFiniteSet(UNION {Active[p] : p \in Rank})
      /\ Cardinality(UNION {Active[p] : p \in Rank})
           = SumFunctionOnSet([p \in Rank |-> Cardinality(Active[p])], Rank)
  BY <1>2, <1>3, RankFinite, CountParts
<1>. QED BY <1>1, <1>4, FS_CardinalityType

LEMMA CountStep ==
  ASSUME CountInv, [Next]_vars PROVE CountInv'
<1>1. CASE UNCHANGED vars
  BY <1>1 DEF CountInv, vars, reduceVars
<1>2. ASSUME NEW p \in Rank, UNCHANGED reduceVars,
             UNCHANGED pc
               \/ \E a, b \in Phase \ {"waitReduce", "done"} : Go(p, a, b)
      PROVE  CountInv'
  BY <1>2 DEF CountInv, reduceVars, Go
<1>3. ASSUME NEW p \in Rank, EnterReduce(p) PROVE CountInv'
  <2>1. /\ pc[p] = "reduce" /\ pc' = [pc EXCEPT ![p] = "waitReduce"]
        /\ reduced' = [reduced EXCEPT ![p] = Cardinality(Active[p])]
        /\ numGlobalElements' = numGlobalElements
    BY <1>3 DEF EnterReduce, Go
  <2>2. Cardinality(Active[p]) \in Nat
    BY KeptType, FS_CardinalityType
  <2>. QED BY <2>1, <2>2 DEF CountInv, Phase, Id
<1>4. ASSUME NEW p \in Rank, LeaveReduce(p) PROVE CountInv'
  <2>1. /\ pc[p] = "waitReduce" /\ pc' = [pc EXCEPT ![p] = "done"]
        /\ \A q \in Rank : reduced[q] # Invalid
        /\ reduced' = reduced
        /\ numGlobalElements' = [numGlobalElements EXCEPT ![p] = SumFunction(reduced)]
    BY <1>4 DEF LeaveReduce, Go
  <2>2. \A q \in Rank : reduced[q] = Cardinality(Active[q])
    BY <2>1 DEF CountInv
  <2>3. reduced = [q \in Rank |-> Cardinality(Active[q])]
    BY <2>2 DEF CountInv
  <2>4. SumFunction(reduced) = Cardinality(Cell \ Ignored)
    BY <2>3, ActivePartition DEF SumFunction
  <2>. QED BY <2>1, <2>4, ActivePartition DEF CountInv, Phase
<1>5. ASSUME NEW p \in Rank, Step(p), ~EnterReduce(p), ~LeaveReduce(p) PROVE CountInv'
  <2>1. UNCHANGED reduceVars
    BY <1>5 DEF Step, Read, NoCellRequest, AskCells, AnswerCells, SetCells, UpdateFaces,
                NoFaceRequest, AskFaces, AnswerFaces, SetFaces, Receive
  <2>2. UNCHANGED pc
          \/ \E a, b \in Phase \ {"waitReduce", "done"} : Go(p, a, b)
    BY <1>5 DEF Step, Read, NoCellRequest, AskCells, AnswerCells, SetCells, UpdateFaces,
                NoFaceRequest, AskFaces, AnswerFaces, SetFaces, Receive, Phase
  <2>. QED BY <1>2, <2>1, <2>2
<1>. QED BY <1>1, <1>3, <1>4, <1>5 DEF Next, Finished

(* The number of elements of the whole mesh counts every cell once, on all *)
(* ranks: the all_reduce of updateNumGlobalElements adds the active cells. *)
THEOREM EachCellCountedOnceAlways == Spec => []EachCellCountedOnce
<1>1. Init => CountInv
  BY DEF Init, CountInv, Phase, Id
<1>2. CountInv /\ [Next]_vars => CountInv'
  BY CountStep
<1>3. CountInv => EachCellCountedOnce
  BY DEF CountInv, EachCellCountedOnce
<1>. QED BY <1>1, <1>2, <1>3, PTL DEF Spec

-----------------------------------------------------------------------------
(* The types                                                               *)

(* What is not known yet                                                   *)
Unknown(p) ==
  /\ pc[p] = "read" =>
        /\ idGmshToFeel[p] = Nothing /\ cellInOthers[p] = Nothing
        /\ nbMsgToRecv[p] = [q \in Rank |-> 0]
  /\ pc[p] \in {"read", "askCells", "answerCells", "setCells", "faces"} =>
        faceId[p] = Nothing /\ faceProcessId[p] = Nothing
  /\ ~HasMesh(p) => neighborSubdomain[p] = {}

UnknownInv == rendezvous \in BOOLEAN /\ \A p \in Rank : Unknown(p)

LEMMA UnknownKept ==
  ASSUME NEW q \in Rank, Unknown(q), pc'[q] = pc[q],
         UNCHANGED <<idGmshToFeel[q], cellInOthers[q], nbMsgToRecv[q]>>,
         UNCHANGED <<faceId[q], faceProcessId[q], neighborSubdomain[q]>>
  PROVE  Unknown(q)'
BY DEF Unknown, HasMesh

LEMMA UnknownStep ==
  ASSUME IInv, UnknownInv, [Next]_vars PROVE UnknownInv'
<1>1. rendezvous' = rendezvous
  BY DEF Next, Finished, Step, Read, NoCellRequest, AskCells, AnswerCells, SetCells,
         UpdateFaces, NoFaceRequest, AskFaces, AnswerFaces, SetFaces, EnterReduce,
         LeaveReduce, Receive, vars, commVars
<1>2. CASE UNCHANGED vars
  <2>1. \A p \in Rank : Unknown(p)'
    BY <1>2, UnknownKept DEF UnknownInv, vars, cellVars, faceVars
  <2>. QED BY <1>1, <2>1 DEF UnknownInv
<1>3. ASSUME NEW p \in Rank, Step(p) PROVE \A q \in Rank : Unknown(q)'
  <2>1. LocalTables /\ pc \in [Rank -> Phase] /\ Unknown(p)
    BY DEF IInv, ExchangeInv, Tables, UnknownInv
  <2>2. ASSUME NEW q \in Rank, q # p PROVE Unknown(q)'
    <3>1. pc'[q] = pc[q]
      BY <1>3, <2>1, <2>2 DEF Step, Read, NoCellRequest, AskCells, AnswerCells, SetCells,
         UpdateFaces, NoFaceRequest, AskFaces, AnswerFaces, SetFaces, EnterReduce,
         LeaveReduce, Receive, Go
    <3>2. UNCHANGED <<idGmshToFeel[q], cellInOthers[q], nbMsgToRecv[q]>>
      BY <1>3, <2>1, <2>2 DEF Step, Read, NoCellRequest, AskCells, AnswerCells, SetCells,
         UpdateFaces, NoFaceRequest, AskFaces, AnswerFaces, SetFaces, EnterReduce,
         LeaveReduce, Receive, cellVars, LocalTables
    <3>3. UNCHANGED <<faceId[q], faceProcessId[q], neighborSubdomain[q]>>
      BY <1>3, <2>1, <2>2 DEF Step, Read, NoCellRequest, AskCells, AnswerCells, SetCells,
         UpdateFaces, NoFaceRequest, AskFaces, AnswerFaces, SetFaces, EnterReduce,
         LeaveReduce, Receive, faceVars, LocalTables
    <3>. QED BY <3>1, <3>2, <3>3, UnknownKept DEF UnknownInv
  <2>3. ASSUME Read(p) PROVE Unknown(p)'
    BY <2>1, <2>3 DEF Read, Go, Unknown, HasMesh, LocalTables, faceVars
  <2>4. ASSUME NoCellRequest(p) \/ AskCells(p) \/ AnswerCells(p) PROVE Unknown(p)'
    BY <2>1, <2>4 DEF NoCellRequest, AskCells, AnswerCells, Go, Unknown, HasMesh,
                      cellVars, faceVars
  <2>5. ASSUME SetCells(p) PROVE Unknown(p)'
    BY <2>1, <2>5 DEF SetCells, Go, Unknown, HasMesh, faceVars
  <2>6. ASSUME UpdateFaces(p) PROVE Unknown(p)'
    BY <2>1, <2>6 DEF UpdateFaces, Go, Unknown, HasMesh, cellVars
  <2>7. ASSUME AskFaces(p) \/ AnswerFaces(p) PROVE Unknown(p)'
    BY <2>1, <2>7 DEF AskFaces, AnswerFaces, Go, Unknown, HasMesh, cellVars, faceVars
  <2>8. ASSUME NoFaceRequest(p) \/ SetFaces(p) \/ EnterReduce(p) \/ LeaveReduce(p) PROVE Unknown(p)'
    <3>1. pc'[p] \in {"reduce", "waitReduce", "done"}
      BY <2>1, <2>8 DEF NoFaceRequest, SetFaces, EnterReduce, LeaveReduce, Go
    <3>. QED BY <3>1 DEF Unknown, HasMesh
  <2>9. ASSUME \E q \in Rank : Receive(p, q) PROVE Unknown(p)'
    BY <2>1, <2>9 DEF Receive, Unknown, HasMesh, cellVars, faceVars
  <2>. QED BY <1>3, <2>2, <2>3, <2>4, <2>5, <2>6, <2>7, <2>8, <2>9 DEF Step
<1>. QED BY <1>1, <1>2, <1>3 DEF Next, Finished, UnknownInv

LEMMA SmallestNumber ==
  ASSUME NEW S \in SUBSET Nat, S # {}
  PROVE  \E x \in S : \A y \in S : x <= y
<1>1. PICK x \in S : \A y \in S : <<y, x>> \notin OpToRel(<, Nat)
  BY NatLessThanWellFounded, WFMin
<1>2. \A y \in S : ~(y < x)
  BY <1>1 DEF OpToRel
<1>. QED BY <1>2

(* The walk meets first one of the cells that have a face                  *)
LEMMA FirstCell ==
  ASSUME NEW p \in Rank, NEW f \in KeptFaces[p]
  PROVE  Element0[p][f] \in Kept[p]
<1> DEFINE T == {c \in Kept[p] : f \in FacesOf[c]}
<1>1. T # {} /\ T \in SUBSET Kept[p] /\ Kept[p] \in SUBSET Cell /\ Kept[p] \in SUBSET Nat
  <2>1. T # {}
    BY DEF KeptFaces
  <2>. QED BY <2>1, KeptType
<1>2. \A c \in Cell : Owner(c) \in Nat
  BY RankType DEF Rank
<1>3. PICK d \in T : \A e \in T : Owner(d) <= Owner(e)
  <2>1. {Owner(e) : e \in T} \in SUBSET Nat /\ {Owner(e) : e \in T} # {}
    BY <1>1, <1>2
  <2>2. PICK o \in {Owner(e) : e \in T} : \A n \in {Owner(e) : e \in T} : o <= n
    BY <2>1, SmallestNumber
  <2>. QED BY <2>2
<1>4. PICK c \in T : Owner(c) = Owner(d) /\ \A e \in T : Owner(e) = Owner(d) => c <= e
  <2> DEFINE U == {e \in T : Owner(e) = Owner(d)}
  <2>1. U \in SUBSET Nat /\ U # {}
    BY <1>1
  <2>2. PICK c \in U : \A e \in U : c <= e
    <3> HIDE DEF U
    <3>. QED BY <2>1, SmallestNumber
  <2>. QED BY <2>2
<1>5. ASSUME NEW e \in T PROVE ~WalkedBefore(e, c)
  <2>1. Owner(c) \in Nat /\ Owner(e) \in Nat /\ c \in Nat /\ e \in Nat
    BY <1>1, <1>2
  <2>2. Owner(c) <= Owner(e) /\ (Owner(e) = Owner(c) => c <= e)
    BY <1>3, <1>4
  <2>. QED BY <2>1, <2>2 DEF WalkedBefore
<1>6. c \in Kept[p] /\ f \in FacesOf[c]
      /\ \A e \in Kept[p] : f \in FacesOf[e] => ~WalkedBefore(e, c)
  BY <1>5
<1> HIDE DEF T
<1>. QED BY <1>6 DEF Element0

LEMMA FaceTypes ==
  ASSUME NEW p \in Rank
  PROVE  /\ \A f : FaceNumber(p, f) \in Nat
         /\ FaceIds(p) \in [KeptFaces[p] -> Nat]
         /\ FaceRanks(p) \in [KeptFaces[p] -> Rank]
<1>1. \A c \in Cell : IsFiniteSet(FacesOf[c])
  <2>1. ASSUME NEW c \in Cell PROVE IsFiniteSet(FacesOf[c])
    <3>1. IsFiniteSet(DOMAIN CellFaces[c])
      BY FileAssumption
    <3>2. IsFiniteSet({CellFaces[c][j] : j \in DOMAIN CellFaces[c]})
      BY <3>1, FiniteImage
    <3>. QED BY <3>2 DEF FacesOf
  <2>. QED BY <2>1
<1>2. IsFiniteSet(KeptFaces[p])
  <2>1. IsFiniteSet({FacesOf[c] : c \in Kept[p]})
    <3>1. IsFiniteSet(Kept[p])
      BY KeptType
    <3>. QED BY <3>1, FiniteImage
  <2>2. \A T \in {FacesOf[c] : c \in Kept[p]} : IsFiniteSet(T)
    BY <1>1, KeptType
  <2>3. IsFiniteSet(UNION {FacesOf[c] : c \in Kept[p]})
    BY <2>1, <2>2, FS_UNION
  <2>. QED BY <2>3 DEF KeptFaces
<1>3. IsFiniteSet({Line[i].face : i \in KeptLines[p]})
  <2>1. KeptLines[p] \in SUBSET DOMAIN Line
    BY DEF KeptLines
  <2>2. IsFiniteSet(KeptLines[p])
    BY <2>1, FileAssumption, FS_Subset
  <2> DEFINE F == [i \in KeptLines[p] |-> Line[i].face]
  <2>3. {Line[i].face : i \in KeptLines[p]} = {F[i] : i \in KeptLines[p]}
    OBVIOUS
  <2>4. IsFiniteSet({F[i] : i \in KeptLines[p]})
    <3> HIDE DEF F
    <3>. QED BY <2>2, FiniteImage
  <2>. QED BY <2>3, <2>4
<1>4. IsFiniteSet(NumberedFaces[p])
  BY <1>2, <1>3, FS_Union DEF NumberedFaces
<1>5. ASSUME NEW f PROVE FaceNumber(p, f) \in Nat
  <2>1. {g \in NumberedFaces[p] : SeenBefore(p, g, f)} \in SUBSET NumberedFaces[p]
    OBVIOUS
  <2>2. IsFiniteSet({g \in NumberedFaces[p] : SeenBefore(p, g, f)})
    BY <1>4, <2>1, FS_Subset
  <2>. QED BY <2>2, FS_CardinalityType DEF FaceNumber
<1>6. ASSUME NEW f \in KeptFaces[p] PROVE FaceProcessId(p, f) \in Rank
  <2>1. Element0[p][f] \in Cell
    BY FirstCell, KeptType
  <2>. QED BY <2>1, RankType DEF FaceProcessId
<1>. QED BY <1>5, <1>6 DEF FaceIds, FaceRanks

LEMMA ThenType ==
  ASSUME NEW S, NEW b \in {0, 1}, NEW m \in S, NEW s \in Seq(S)
  PROVE  Then(b, m, s) \in Seq(S)
BY DEF Then

LEMMA FlowKinds ==
  ASSUME NEW p \in Rank, NEW q \in Rank
  PROVE  \A i \in 1 .. Len(Flow(p, q)) : Flow(p, q)[i].kind \in Kind
<1> DEFINE S == {Msg(n, p, q) : n \in 1 .. 4}
           b == OnTheWay(p, q)
           m == Messages(p, q)
<1>1. b \in [1 .. 4 -> {0, 1}]
  BY WayType
<1>2. \A n \in 1 .. 4 : m[n] \in S
  BY DEF Messages
<1>3. \A x \in S : x.kind \in Kind
  <2>1. ASSUME NEW n \in 1 .. 4 PROVE Msg(n, p, q).kind \in Kind
    BY DEF Msg, Kind
  <2>. QED BY <2>1
<1>4. /\ b[1] \in {0, 1} /\ b[2] \in {0, 1} /\ b[3] \in {0, 1} /\ b[4] \in {0, 1}
      /\ m[1] \in S /\ m[2] \in S /\ m[3] \in S /\ m[4] \in S
  BY <1>1, <1>2
<1> HIDE DEF S, b, m
<1>5. <<>> \in Seq(S)
  OBVIOUS
<1>6. Then(b[4], m[4], <<>>) \in Seq(S)
  BY <1>4, <1>5, ThenType
<1>7. Then(b[3], m[3], Then(b[4], m[4], <<>>)) \in Seq(S)
  BY <1>4, <1>6, ThenType
<1>8. Then(b[2], m[2], Then(b[3], m[3], Then(b[4], m[4], <<>>))) \in Seq(S)
  BY <1>4, <1>7, ThenType
<1>9. FlowOf(b, m) \in Seq(S)
  BY <1>4, <1>8, ThenType DEF FlowOf
<1>10. Flow(p, q) \in Seq(S)
  BY <1>9 DEF Flow, b, m
<1>11. \A i \in 1 .. Len(Flow(p, q)) : Flow(p, q)[i] \in S
  BY <1>10
<1>. QED BY <1>3, <1>11

LEMMA FeelIdType ==
  ASSUME NEW p \in Rank, NEW c \in Cell
  PROVE  FeelId(p, c) \in Nat
<1>1. Kept[p] \in SUBSET Nat /\ IsFiniteSet(Kept[p]) /\ c \in Nat
  BY KeptType, FileAssumption
<1>2. FeelId(p, c) = Below(Kept[p], c)
  BY DEF FeelId, Below
<1>. QED BY <1>1, <1>2, BelowBound

LEMMA AskedType ==
  ASSUME NEW p \in Rank, NEW q \in Rank
  PROVE  AskedOf(p, q) \in Nat
<1>1. {c \in Active[p] : q \in Ghosts(c)} \in SUBSET Active[p] /\ IsFiniteSet(Active[p])
  BY KeptType
<1>2. IsFiniteSet({c \in Active[p] : q \in Ghosts(c)})
  BY <1>1, FS_Subset
<1>. QED BY <1>2, FS_CardinalityType DEF AskedOf

(* The types of what a rank knows, from where it is                        *)
LEMMA LocalTypes ==
  ASSUME IInv, UnknownInv, NEW p \in Rank
  PROVE  LET has == IF pc[p] = "read" THEN {} ELSE Kept[p]
             faces == IF faceId[p] = Nothing THEN {} ELSE KeptFaces[p] IN
         /\ idGmshToFeel[p] \in [has -> Nat]
         /\ mapGhostElt[p] \in SUBSET has
         /\ nbMsgToRecv[p] \in [Rank -> Nat]
         /\ cellInOthers[p] \in [has -> Id]
         /\ faceId[p] \in [faces -> Nat]
         /\ faceProcessId[p] \in [faces -> Rank]
         /\ faceInOthers[p] \in [faces -> [Rank -> Id]]
         /\ neighborSubdomain[p] \in SUBSET (Rank \ {p})
<1> DEFINE has == IF pc[p] = "read" THEN {} ELSE Kept[p]
           faces == IF faceId[p] = Nothing THEN {} ELSE KeptFaces[p]
<1>1. LocalInv(p) /\ Unknown(p) /\ pc[p] \in Phase
  BY DEF IInv, UnknownInv, ExchangeInv, Tables
<1>2. \A T : <<>> \in [{} -> T]
  OBVIOUS
<1>3. /\ idGmshToFeel[p] \in [has -> Nat] /\ mapGhostElt[p] \in SUBSET has
      /\ nbMsgToRecv[p] \in [Rank -> Nat] /\ cellInOthers[p] \in [has -> Id]
  <2>1. CASE pc[p] = "read"
    <3>1. /\ idGmshToFeel[p] = <<>> /\ cellInOthers[p] = <<>> /\ mapGhostElt[p] = {}
          /\ nbMsgToRecv[p] = [q \in Rank |-> 0]
      BY <1>1, <2>1 DEF LocalInv, Unknown, Nothing
    <3>2. has = {}
      BY <2>1
    <3>. QED BY <1>2, <3>1, <3>2
  <2>2. CASE pc[p] # "read"
    <3>1. CellsRead(p) /\ has = Kept[p] /\ Kept[p] \in SUBSET Cell
          /\ GhostOf(p) \in SUBSET Kept[p]
      BY <1>1, <2>2, KeptType DEF LocalInv
    <3>2. idGmshToFeel[p] \in [Kept[p] -> Nat]
      BY <3>1, FeelIdType DEF CellsRead, CellIds
    <3>3. nbMsgToRecv[p] \in [Rank -> Nat]
      BY <3>1, AskedType DEF CellsRead
    <3>4. CellsLinked(p) \in [Kept[p] -> Id]
      <4>1. \A c \in GhostOf(p) : FeelId(Owner(c), c) \in Nat
        BY <3>1, RankType, FeelIdType
      <4>. QED BY <4>1 DEF CellsLinked, Id
    <3>5. cellInOthers[p] \in [Kept[p] -> Id]
      BY <1>1, <2>2, <3>4 DEF LocalInv, Phase, Id
    <3>. QED BY <3>1, <3>2, <3>3, <3>5 DEF CellsRead
  <2>. QED BY <2>1, <2>2
<1>4. /\ faceId[p] \in [faces -> Nat] /\ faceProcessId[p] \in [faces -> Rank]
      /\ faceInOthers[p] \in [faces -> [Rank -> Id]]
  <2>1. CASE pc[p] \in {"read", "askCells", "answerCells", "setCells", "faces"}
    <3>1. faceId[p] = <<>> /\ faceProcessId[p] = <<>> /\ faceInOthers[p] = <<>>
      BY <1>1, <2>1 DEF LocalInv, Unknown, Nothing
    <3>2. faces = {}
      BY <3>1 DEF Nothing
    <3>. QED BY <1>2, <3>1, <3>2
  <2>2. CASE pc[p] \in {"askFaces", "answerFaces", "setFaces", "reduce", "waitReduce",
                        "done"}
    <3>1. FacesNumbered(p)
      BY <1>1, <2>2 DEF LocalInv
    <3>2. faceId[p] \in [KeptFaces[p] -> Nat] /\ faceProcessId[p] \in [KeptFaces[p] -> Rank]
      BY <3>1, FaceTypes DEF FacesNumbered
    <3>3. faces = KeptFaces[p]
      BY <3>2 DEF Nothing
    <3>4. FacesLinked(p) \in [KeptFaces[p] -> [Rank -> Id]]
      BY FaceTypes DEF FacesLinked, Id
    <3>5. faceInOthers[p] \in [KeptFaces[p] -> [Rank -> Id]]
      BY <1>1, <2>2, <3>4 DEF LocalInv, HasMesh, MeshMade, Id
    <3>. QED BY <3>2, <3>3, <3>5
  <2>. QED BY <1>1, <2>1, <2>2 DEF Phase
<1>5. neighborSubdomain[p] \in SUBSET (Rank \ {p})
  <2>1. CASE HasMesh(p)
    <3>1. neighborSubdomain[p] = {Partition2(p, f) : f \in CutFaces(p)}
      BY <1>1, <2>1 DEF LocalInv, MeshMade
    <3>2. \A f \in CutFaces(p) : Partition2(p, f) \in Rank \ {p}
      BY OtherSide
    <3>. QED BY <3>1, <3>2
  <2>2. CASE ~HasMesh(p)
    BY <1>1, <2>2 DEF Unknown
  <2>. QED BY <2>1, <2>2
<1>. QED BY <1>3, <1>4, <1>5

(* Every variable keeps its type: what a rank knows of its mesh has the    *)
(* cells and faces it kept for keys, at every stage of reading it.         *)
THEOREM TypeOKAlways == Spec => []TypeOK
<1>1. Init => CountInv /\ UnknownInv
  BY DEF Init, CountInv, UnknownInv, Unknown, HasMesh, Phase, Id
<1>2. CountInv /\ [Next]_vars => CountInv'
  BY CountStep
<1>3. IInv /\ UnknownInv /\ [Next]_vars => UnknownInv'
  BY UnknownStep
<1>4. ASSUME IInv, UnknownInv, CountInv PROVE TypeOK
  <2>1. pc \in [Rank -> Phase] /\ rendezvous \in BOOLEAN
    BY <1>4 DEF CountInv, UnknownInv
  <2>2. ASSUME NEW p \in Rank
        PROVE  /\ reduced[p] \in Id /\ numGlobalElements[p] \in Nat
               /\ pending[p] \in SUBSET Rank
               /\ \A q \in Rank : \A i \in 1 .. Len(chan[p][q]) : chan[p][q][i].kind \in Kind
    <3>1. \A q \in Rank : chan[p][q] = Flow(p, q)
      BY <1>4 DEF IInv, ExchangeInv
    <3>2. pending[p] \in SUBSET Rank
      BY <1>4 DEF IInv, ExchangeInv, Waiting
    <3>. QED BY <1>4, <3>1, <3>2, FlowKinds DEF CountInv
  <2>. QED BY <1>4, <2>1, <2>2, LocalTypes DEF TypeOK
<1>. QED BY <1>1, <1>2, <1>3, <1>4, Invariant, PTL DEF Spec

=============================================================================
