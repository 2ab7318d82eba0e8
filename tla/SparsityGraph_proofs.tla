------------------------ MODULE SparsityGraph_proofs ------------------------
(***************************************************************************)
(* The rows that GraphCSR::close exchanges, for every mesh, pair of spaces *)
(* and number of ranks: a rank receives rows of its own only, as the other *)
(* rank has them.  What two messages of a pair say is a function of the    *)
(* rows of the sender, which nothing changes from the first send on: when  *)
(* the sender merges before its messages are received, it merges rows of   *)
(* its own, and those it sent were not.                                    *)
(***************************************************************************)
EXTENDS SparsityGraph, FiniteSums, FiniteSetTheorems, SequenceTheorems, TLAPS

-----------------------------------------------------------------------------
(* Taking an element out of a sequence                                     *)

LEMMA WithoutType ==
  ASSUME NEW S, NEW s \in Seq(S), NEW i \in DOMAIN s
  PROVE  Without(s, i) \in Seq(S)
<1>1. i \in 1 .. Len(s) /\ Len(s) \in Nat
  OBVIOUS
<1>2. SubSeq(s, 1, i - 1) \in Seq(S)
  BY <1>1
<1>3. SubSeq(s, i + 1, Len(s)) \in Seq(S)
  BY <1>1
<1>. QED BY <1>2, <1>3 DEF Without

LEMMA OwnerFound ==
  ASSUME NEW r \in Rows
  PROVE  OwnerOfRow(r) \in Rank /\ r \in OwnRows[OwnerOfRow(r)]
<1>1. \E p \in Rank : r \in OwnRows[p]
  BY DEF Rows
<1>. QED BY <1>1 DEF OwnerOfRow

-----------------------------------------------------------------------------
(* The invariant                                                           *)

(* The rows of the rank that others have are what they will be             *)
Sealed(p) == pc[p] \notin {"compute", "diagonal", "count"}

(* A row is marked with its owner                                          *)
RowsMarked(p) ==
  /\ \A r \in DOMAIN storage[p] : r \in Rows /\ storage[p][r].rank = OwnerOfRow(r)
  /\ pc[p] = "diagonal" => DiagIsNonZero /\ OwnRows[p] \subseteq DOMAIN storage[p]

(* What p may send to q                                                    *)
Sendable(p, q) == {Message(0, SizesToSend(p, q)), Message(1, ToSend(p, q))}

OnTheWay(p, q) ==
  /\ chan[p][q] \in Seq(Sendable(p, q))
  /\ chan[p][q] # <<>> => Sealed(p)

(* What p has of q is what q sent                                          *)
Arrived(p, q) ==
  recvRows[p][q] # Nothing =>
    /\ Sealed(q)
    /\ recvRows[p][q] = ToSend(q, p) /\ recvSizes[p][q] = SizesToSend(q, p)

(* Between the two receives                                                *)
HalfArrived(p) ==
  pc[p] = "recvRows" =>
    /\ Sealed(proc2[p])
    /\ recvSizes[p][proc2[p]] = SizesToSend(proc2[p], p)

Tables ==
  /\ pc \in [Rank -> Phase] /\ proc2 \in [Rank -> Rank]
  /\ DOMAIN storage = Rank
  /\ DOMAIN chan = Rank /\ \A p \in Rank : DOMAIN chan[p] = Rank
  /\ DOMAIN recvSizes = Rank /\ \A p \in Rank : DOMAIN recvSizes[p] = Rank
  /\ DOMAIN recvRows = Rank /\ \A p \in Rank : DOMAIN recvRows[p] = Rank

PairInv ==
  /\ \A p, q \in Rank : OnTheWay(p, q) /\ Arrived(p, q)
  /\ \A p \in Rank : HalfArrived(p)

IInv == Tables /\ PairInv /\ \A p \in Rank : RowsMarked(p)

(* A row sent to a rank is owned by it                                     *)
LEMMA SentRowsOwned ==
  ASSUME NEW p \in Rank, NEW q \in Rank, RowsMarked(q), NEW r \in DOMAIN ToSend(q, p)
  PROVE  q # p /\ OwnerOfRow(r) = p /\ r \in Rows /\ r \in OwnRows[p]
<1>1. r \in RowsFor(q, p)
  BY DEF ToSend
<1>2. q # p /\ r \in DOMAIN storage[q] /\ storage[q][r].rank = p
  BY <1>1 DEF RowsFor, RowsOf
<1>3. r \in Rows /\ OwnerOfRow(r) = p
  BY <1>2 DEF RowsMarked
<1>. QED BY <1>2, <1>3, OwnerFound

LEMMA InitInv == Init => IInv
<1> SUFFICES ASSUME Init PROVE IInv
  OBVIOUS
<1>1. 0 \in Rank
  BY GraphAssumption DEF Rank
<1>2. Tables
  BY <1>1 DEF Init, Tables, Phase
<1>3. ASSUME NEW p \in Rank, NEW q \in Rank PROVE OnTheWay(p, q) /\ Arrived(p, q)
  BY DEF Init, OnTheWay, Arrived
<1>4. ASSUME NEW p \in Rank PROVE HalfArrived(p) /\ RowsMarked(p)
  BY DEF Init, HalfArrived, RowsMarked, Nothing
<1>. QED BY <1>2, <1>3, <1>4 DEF IInv, PairInv

-----------------------------------------------------------------------------
(* What a rank would send depends on its rows alone                        *)
LEMMA SameRows ==
  ASSUME NEW p \in Rank, NEW q \in Rank, storage'[p] = storage[p]
  PROVE  /\ ToSend(p, q)' = ToSend(p, q) /\ SizesToSend(p, q)' = SizesToSend(p, q)
         /\ Sendable(p, q)' = Sendable(p, q)
<1>1. RowsFor(p, q)' = RowsFor(p, q)
  BY DEF RowsFor, RowsOf
<1>2. ToSend(p, q)' = ToSend(p, q) /\ SizesToSend(p, q)' = SizesToSend(p, q)
  BY <1>1 DEF ToSend, SizesToSend, Width
<1>. QED BY <1>2 DEF Sendable, Message

LEMMA SamePairs ==
  ASSUME NEW p \in Rank, NEW q \in Rank,
         ToSend(p, q)' = ToSend(p, q), SizesToSend(p, q)' = SizesToSend(p, q)
  PROVE  Sendable(p, q)' = Sendable(p, q)
BY DEF Sendable, Message

LEMMA RowsKept ==
  ASSUME NEW q \in Rank, RowsMarked(q), storage'[q] = storage[q],
         pc'[q] = "diagonal" => pc[q] = "diagonal"
  PROVE  RowsMarked(q)'
BY DEF RowsMarked

(* A step of p that neither sends nor receives                             *)
LEMMA QuietPairs ==
  ASSUME Tables, PairInv, NEW p \in Rank,
         pc' \in [Rank -> Phase], proc2' \in [Rank -> Rank], DOMAIN storage' = Rank,
         \A q \in Rank \ {p} : /\ pc'[q] = pc[q] /\ proc2'[q] = proc2[q]
                                /\ storage'[q] = storage[q],
         Sealed(p) => Sealed(p)' /\ \A q \in Rank : ToSend(p, q)' = ToSend(p, q)
                                      /\ SizesToSend(p, q)' = SizesToSend(p, q),
         pc'[p] # "recvRows",
         UNCHANGED <<chan, recvSizes, recvRows>>
  PROVE  Tables' /\ PairInv'
<1>1. ASSUME NEW q \in Rank, Sealed(q)
      PROVE  /\ Sealed(q)'
             /\ \A r \in Rank : ToSend(q, r)' = ToSend(q, r)
                                /\ SizesToSend(q, r)' = SizesToSend(q, r)
  <2>1. CASE q = p
    BY <1>1, <2>1
  <2>2. CASE q # p
    <3>1. pc'[q] = pc[q] /\ storage'[q] = storage[q]
      BY <2>2
    <3>2. \A r \in Rank : ToSend(q, r)' = ToSend(q, r) /\ SizesToSend(q, r)' = SizesToSend(q, r)
      BY <3>1, SameRows
    <3>. QED BY <1>1, <3>1, <3>2 DEF Sealed
  <2>. QED BY <2>1, <2>2
<1>2. ASSUME NEW q \in Rank, NEW r \in Rank PROVE OnTheWay(q, r)'
  <2>1. chan'[q][r] = chan[q][r] /\ OnTheWay(q, r)
    BY DEF PairInv
  <2>2. CASE Sealed(q)
    <3>1. Sendable(q, r)' = Sendable(q, r)
      BY <1>1, <2>2, SamePairs
    <3>. QED BY <1>1, <2>1, <2>2, <3>1 DEF OnTheWay
  <2>3. CASE ~Sealed(q)
    <3>1. chan'[q][r] = <<>>
      BY <2>1, <2>3 DEF OnTheWay
    <3>. QED BY <3>1 DEF OnTheWay
  <2>. QED BY <2>2, <2>3
<1>3. ASSUME NEW q \in Rank, NEW r \in Rank PROVE Arrived(q, r)'
  <2>1. Arrived(q, r) /\ recvRows'[q][r] = recvRows[q][r] /\ recvSizes'[q][r] = recvSizes[q][r]
    BY DEF PairInv
  <2>. QED BY <1>1, <2>1 DEF Arrived
<1>4. ASSUME NEW q \in Rank PROVE HalfArrived(q)'
  <2>1. CASE q = p
    BY <2>1 DEF HalfArrived
  <2>2. CASE q # p
    <3>1. pc'[q] = pc[q] /\ proc2'[q] = proc2[q] /\ HalfArrived(q) /\ proc2[q] \in Rank
      BY <2>2 DEF PairInv, Tables
    <3>. QED BY <1>1, <3>1 DEF HalfArrived
  <2>. QED BY <2>1, <2>2
<1>5. Tables'
  BY DEF Tables
<1>. QED BY <1>2, <1>3, <1>4, <1>5 DEF PairInv

(* A quiet step that leaves the rows as they are                           *)
LEMMA QuietStep ==
  ASSUME IInv, NEW p \in Rank,
         pc' \in [Rank -> Phase], proc2' \in [Rank -> Rank],
         \A q \in Rank \ {p} : pc'[q] = pc[q] /\ proc2'[q] = proc2[q],
         Sealed(p)', pc'[p] # "recvRows",
         UNCHANGED <<storage, chan, recvSizes, recvRows>>
  PROVE  IInv'
<1>1. \A q \in Rank : ToSend(p, q)' = ToSend(p, q) /\ SizesToSend(p, q)' = SizesToSend(p, q)
  BY SameRows
<1>2. Tables' /\ PairInv'
  BY <1>1, QuietPairs DEF IInv, Tables
<1>3. ASSUME NEW q \in Rank PROVE RowsMarked(q)'
  BY RowsKept DEF IInv, Sealed
<1>. QED BY <1>2, <1>3 DEF IInv

LEMMA Advances ==
  ASSUME NEW p \in Rank, pc \in [Rank -> Phase], NEW a, NEW b \in Phase, Go(p, a, b)
  PROVE  /\ pc' \in [Rank -> Phase] /\ pc[p] = a /\ pc'[p] = b
         /\ \A q \in Rank \ {p} : pc'[q] = pc[q]
BY DEF Go

LEMMA NextPairGoes ==
  ASSUME Tables, NEW p \in Rank, NextPair(p)
  PROVE  /\ pc' \in [Rank -> Phase] /\ pc'[p] \in {"pair", "gather", "merge"}
         /\ proc2' \in [Rank -> Rank]
         /\ \A q \in Rank \ {p} : pc'[q] = pc[q] /\ proc2'[q] = proc2[q]
<1>1. proc2[p] \in Rank /\ NProc \in Nat
  BY GraphAssumption DEF Tables
<1>2. proc2[p] < NProc - 1 => proc2[p] + 1 \in Rank
  BY <1>1 DEF Rank
<1>3. {"pair", "gather", "merge"} \subseteq Phase
  BY DEF Phase
<1>. QED BY <1>1, <1>2, <1>3 DEF NextPair, Tables

-----------------------------------------------------------------------------
(* The steps                                                               *)

LEMMA RowType ==
  ASSUME NEW c \in Cell
  PROVE  RowDof[c] \subseteq Rows /\ Part[c] \in Rank
BY GraphAssumption

LEMMA ComputeGraphInv ==
  ASSUME NoRowMissing, IInv, NEW p \in Rank, ComputeGraph(p) PROVE IInv'
<1>1. PICK b \in Phase : Go(p, "compute", b)
         /\ b \in {"diagonal", "count"} /\ (b = "diagonal" => DiagIsNonZero)
  BY DEF ComputeGraph, Phase
<1>2. /\ pc' \in [Rank -> Phase] /\ pc[p] = "compute" /\ pc'[p] = b
      /\ \A q \in Rank \ {p} : pc'[q] = pc[q]
  BY <1>1, Advances DEF IInv, Tables
<1>3. /\ DOMAIN storage' = Rank
      /\ \A q \in Rank \ {p} : storage'[q] = storage[q]
      /\ storage'[p] = CASE ZeroPattern -> Nothing
                         [] ~ZeroPattern /\ buildGraphWithTranspose -> Transpose(p)
                         [] OTHER -> Coupled(p)
      /\ UNCHANGED <<chan, recvSizes, recvRows, proc2>>
  BY DEF ComputeGraph, IInv, Tables, loopVars, commVars
<1>4. Tables' /\ PairInv'
  <2>1. ~Sealed(p)
    BY <1>2 DEF Sealed
  <2>2. proc2' \in [Rank -> Rank]
    BY <1>3 DEF IInv, Tables
  <2>. QED BY <1>1, <1>2, <1>3, <2>1, <2>2, QuietPairs DEF IInv
<1>5. CASE storage'[p] = Nothing /\ ZeroPattern
  <2>1. DOMAIN storage'[p] = {}
    BY <1>5 DEF Nothing
  <2>2. pc'[p] # "diagonal"
    BY <1>1, <1>2, <1>5 DEF NoRowMissing
  <2>3. RowsMarked(p)'
    BY <2>1, <2>2 DEF RowsMarked
  <2>. QED BY <1>2, <1>3, <1>4, <2>3, RowsKept DEF IInv
<1>6. CASE storage'[p] = Coupled(p)
  <2>1. DOMAIN Coupled(p) = UNION {RowDof[c] : c \in CellsOf(p)}
    BY DEF Coupled
  <2>2. ASSUME NEW r \in DOMAIN Coupled(p)
        PROVE  r \in Rows /\ Coupled(p)[r].rank = OwnerOfRow(r)
    <3>1. r \in Rows
      BY <2>1, RowType DEF CellsOf
    <3>. QED BY <3>1 DEF Coupled, Row
  <2>3. DiagIsNonZero => OwnRows[p] \subseteq DOMAIN Coupled(p)
    BY <2>1 DEF NoRowMissing
  <2>4. RowsMarked(p)'
    BY <1>1, <1>2, <1>6, <2>2, <2>3 DEF RowsMarked
  <2>. QED BY <1>2, <1>3, <1>4, <2>4, RowsKept DEF IInv
<1>7. CASE storage'[p] = Transpose(p)
  <2> DEFINE g == CoupledColumns(p)
             found == {r \in UNION {g[c] : c \in DOMAIN g} : r \in ToSet(RowMap[p])}
  <2>1. DOMAIN Transpose(p) = found
    BY DEF Transpose
  <2>2. ASSUME NEW r \in found PROVE r \in Rows /\ Transpose(p)[r].rank = OwnerOfRow(r)
    <3>1. PICK c \in DOMAIN g : r \in g[c]
      OBVIOUS
    <3>2. g[c] = UNION {RowDof[e] : e \in {d \in CellsOf(p) : c \in ColDof[d]}}
      BY DEF CoupledColumns
    <3>3. PICK e \in CellsOf(p) : r \in RowDof[e]
      BY <3>1, <3>2
    <3>4. r \in Rows
      BY <3>3, RowType DEF CellsOf
    <3>. QED BY <3>4 DEF Transpose, Row
  <2>3. ASSUME DiagIsNonZero, NEW r \in OwnRows[p] PROVE r \in found
    <3>1. PICK e \in CellsOf(p) : r \in RowDof[e] /\ ColDof[e] # {}
      BY <2>3 DEF NoRowMissing
    <3>2. PICK c \in ColDof[e] : TRUE
      BY <3>1
    <3>3. c \in DOMAIN g /\ r \in g[c]
      BY <3>1, <3>2 DEF CoupledColumns
    <3>4. r \in ToSet(RowMap[p])
      BY GraphAssumption
    <3>. QED BY <3>3, <3>4
  <2> HIDE DEF found
  <2>4. RowsMarked(p)'
    BY <1>1, <1>2, <1>7, <2>1, <2>2, <2>3 DEF RowsMarked
  <2>. QED BY <1>2, <1>3, <1>4, <2>4, RowsKept DEF IInv
<1>. QED BY <1>3, <1>5, <1>6, <1>7

LEMMA DiagonalInv ==
  ASSUME NoRowMissing, IInv, NEW p \in Rank, AddMissingZeroEntriesDiagonal(p) PROVE IInv'
<1>1. Go(p, "diagonal", "count") /\ "count" \in Phase
  BY DEF AddMissingZeroEntriesDiagonal, Phase
<1>2. /\ pc' \in [Rank -> Phase] /\ pc[p] = "diagonal" /\ pc'[p] = "count"
      /\ \A q \in Rank \ {p} : pc'[q] = pc[q]
  BY <1>1, Advances DEF IInv, Tables
<1>3. UNCHANGED <<chan, recvSizes, recvRows, proc2>>
  BY DEF AddMissingZeroEntriesDiagonal, loopVars, commVars
<1>4. RowsMarked(p) /\ OwnRows[p] \subseteq DOMAIN storage[p]
  BY <1>2 DEF IInv, RowsMarked
<1> DEFINE diag == {r \in OwnRows[p] : r - FirstRow[p] < NCol[p]}
<1> DEFINE row(r) == IF r \notin DOMAIN storage[p] THEN MissingRow(p, r)
                     ELSE IF r \in diag THEN With(storage[p][r], {DiagonalEntry(p, r)})
                     ELSE storage[p][r]
           rows == [r \in DOMAIN storage[p] \cup diag |-> row(r)]
<1>5. \/ storage' = storage
      \/ storage' = [storage EXCEPT ![p] = rows]
  BY DEF AddMissingZeroEntriesDiagonal
<1>6. diag \subseteq DOMAIN storage[p]
  BY <1>4
<1>7. /\ DOMAIN storage' = Rank /\ \A q \in Rank \ {p} : storage'[q] = storage[q]
      /\ storage'[p] = storage[p] \/ storage'[p] = rows
  <2> HIDE DEF rows
  <2>. QED BY <1>5 DEF IInv, Tables
<1> HIDE DEF diag
<1>8. Tables' /\ PairInv'
  <2>1. ~Sealed(p)
    BY <1>2 DEF Sealed
  <2>2. proc2' \in [Rank -> Rank]
    BY <1>3 DEF IInv, Tables
  <2>. QED BY <1>2, <1>3, <1>7, <2>1, <2>2, QuietPairs DEF IInv
<1>9. RowsMarked(p)'
  <2>1. ASSUME NEW r \in DOMAIN storage'[p]
        PROVE  r \in Rows /\ storage'[p][r].rank = OwnerOfRow(r)
    <3>1. r \in DOMAIN storage[p] /\ r \in Rows /\ storage[p][r].rank = OwnerOfRow(r)
      BY <1>4, <1>6, <1>7 DEF RowsMarked
    <3>2. With(storage[p][r], {DiagonalEntry(p, r)}).rank = storage[p][r].rank
      BY DEF With
    <3>3. r \in DOMAIN rows => rows[r] = row(r)
      OBVIOUS
    <3>. QED BY <1>7, <3>1, <3>2, <3>3
  <2>. QED BY <1>2, <2>1 DEF RowsMarked
<1>. QED BY <1>2, <1>7, <1>8, <1>9, RowsKept DEF IInv

LEMMA QuietInv ==
  ASSUME IInv, NEW p \in Rank,
         \/ CountOwnRows(p) \/ EnterGather(p) \/ LeaveGather(p) \/ SkipPair(p)
         \/ Sent(p) \/ BuildIndex(p)
  PROVE  IInv'
<1>1. Tables /\ 0 \in Rank
  BY GraphAssumption DEF IInv, Rank
<1>2. CASE CountOwnRows(p)
  <2>1. Go(p, "count", "gather") /\ "gather" \in Phase
        /\ UNCHANGED <<storage, proc2, chan, recvSizes, recvRows>>
    BY <1>2 DEF CountOwnRows, Phase, loopVars, commVars
  <2>2. pc' \in [Rank -> Phase] /\ pc'[p] = "gather" /\ \A q \in Rank \ {p} : pc'[q] = pc[q]
    BY <1>1, <2>1, Advances DEF Tables
  <2>. QED BY <1>1, <2>1, <2>2, QuietStep DEF Tables, Sealed
<1>3. CASE EnterGather(p)
  <2>1. Go(p, "gather", "leave") /\ "leave" \in Phase
        /\ UNCHANGED <<storage, proc2, chan, recvSizes, recvRows>>
    BY <1>3 DEF EnterGather, Phase, commVars
  <2>2. pc' \in [Rank -> Phase] /\ pc'[p] = "leave" /\ \A q \in Rank \ {p} : pc'[q] = pc[q]
    BY <1>1, <2>1, Advances DEF Tables
  <2>. QED BY <1>1, <2>1, <2>2, QuietStep DEF Tables, Sealed
<1>4. CASE LeaveGather(p)
  <2>1. Go(p, "leave", "pair") /\ "pair" \in Phase
        /\ UNCHANGED <<storage, chan, recvSizes, recvRows>>
    BY <1>4 DEF LeaveGather, Phase, commVars
  <2>2. pc' \in [Rank -> Phase] /\ pc'[p] = "pair" /\ \A q \in Rank \ {p} : pc'[q] = pc[q]
    BY <1>1, <2>1, Advances DEF Tables
  <2>3. proc2' \in [Rank -> Rank] /\ \A q \in Rank \ {p} : proc2'[q] = proc2[q]
    BY <1>1, <1>4 DEF LeaveGather, Tables
  <2>. QED BY <2>1, <2>2, <2>3, QuietStep DEF Sealed
<1>5. CASE SkipPair(p) \/ Sent(p)
  <2>1. NextPair(p) /\ UNCHANGED <<storage, chan, recvSizes, recvRows>>
    BY <1>5 DEF SkipPair, Sent, commVars
  <2>. QED BY <1>1, <2>1, NextPairGoes, QuietStep DEF Sealed
<1>6. CASE BuildIndex(p)
  <2>1. Go(p, "index", "done") /\ "done" \in Phase
        /\ UNCHANGED <<storage, proc2, chan, recvSizes, recvRows>>
    BY <1>6 DEF BuildIndex, Phase, loopVars, commVars
  <2>2. pc' \in [Rank -> Phase] /\ pc'[p] = "done" /\ \A q \in Rank \ {p} : pc'[q] = pc[q]
    BY <1>1, <2>1, Advances DEF Tables
  <2>. QED BY <1>1, <2>1, <2>2, QuietStep DEF Tables, Sealed
<1>. QED BY <1>2, <1>3, <1>4, <1>5, <1>6

(* Merging leaves the rows of the others as they were sent                 *)
LEMMA MergeInv ==
  ASSUME IInv, NEW p \in Rank, Merge(p)
  PROVE  /\ IInv'
         /\ \A q \in Rank : /\ ToSend(p, q)' = ToSend(p, q)
                            /\ SizesToSend(p, q)' = SizesToSend(p, q)
<1>1. Go(p, "merge", "index") /\ "index" \in Phase
  BY DEF Merge, Phase
<1>2. /\ pc' \in [Rank -> Phase] /\ pc[p] = "merge" /\ pc'[p] = "index"
      /\ \A q \in Rank \ {p} : pc'[q] = pc[q]
  BY <1>1, Advances DEF IInv, Tables
<1>3. UNCHANGED <<chan, recvSizes, recvRows, proc2>>
  BY DEF Merge, loopVars, commVars
<1> DEFINE rows == UNION {DOMAIN recvRows[p][q] : q \in Rank}
           row(r) == IF r \notin rows THEN storage[p][r]
                     ELSE IF r \in DOMAIN storage[p] THEN With(storage[p][r], Received(p, r))
                     ELSE [rank |-> p, cols |-> Received(p, r),
                           local |-> IF r \in OwnRows[p] THEN LocalOf(p, r) ELSE 0]
           merged == [r \in DOMAIN storage[p] \cup rows |-> row(r)]
<1>4. storage' = [storage EXCEPT ![p] = merged]
  BY DEF Merge
<1>5. /\ DOMAIN storage' = Rank /\ \A q \in Rank \ {p} : storage'[q] = storage[q]
      /\ storage'[p] = merged
  <2> HIDE DEF merged
  <2>. QED BY <1>4 DEF IInv, Tables
<1>6. ASSUME NEW r \in rows PROVE r \in Rows /\ OwnerOfRow(r) = p
  <2>1. PICK q \in Rank : r \in DOMAIN recvRows[p][q]
    OBVIOUS
  <2>2. Arrived(p, q) /\ RowsMarked(q)
    BY DEF IInv, PairInv
  <2>3. recvRows[p][q] # Nothing
    BY <2>1 DEF Nothing
  <2>4. r \in DOMAIN ToSend(q, p)
    BY <2>1, <2>2, <2>3 DEF Arrived
  <2>. QED BY <2>2, <2>4, SentRowsOwned
<1>7. ASSUME NEW r \in DOMAIN storage[p]
      PROVE  /\ r \in Rows /\ storage[p][r].rank = OwnerOfRow(r)
             /\ row(r).rank = storage[p][r].rank
             /\ OwnerOfRow(r) # p => row(r) = storage[p][r]
  <2>1. r \in Rows /\ storage[p][r].rank = OwnerOfRow(r)
    BY DEF IInv, RowsMarked
  <2>2. With(storage[p][r], Received(p, r)).rank = storage[p][r].rank
    BY DEF With
  <2>3. OwnerOfRow(r) # p => r \notin rows
    BY <1>6
  <2> HIDE DEF rows
  <2>. QED BY <2>1, <2>2, <2>3
<1>8. ASSUME NEW r \in rows, r \notin DOMAIN storage[p] PROVE row(r).rank = p
  <2> HIDE DEF rows
  <2>. QED BY <1>8
<1> HIDE DEF rows, row
<1>9. ASSUME NEW r \in DOMAIN merged
      PROVE  r \in Rows /\ merged[r].rank = OwnerOfRow(r)
  <2>1. merged[r] = row(r)
    OBVIOUS
  <2>2. CASE r \in DOMAIN storage[p]
    BY <1>7, <2>1, <2>2
  <2>3. CASE r \notin DOMAIN storage[p]
    BY <1>6, <1>8, <2>1, <2>3
  <2>. QED BY <2>2, <2>3
<1>10. RowsMarked(p)'
  BY <1>2, <1>5, <1>9 DEF RowsMarked
<1>11. ASSUME NEW q \in Rank
       PROVE  ToSend(p, q)' = ToSend(p, q) /\ SizesToSend(p, q)' = SizesToSend(p, q)
  <2>1. CASE q = p
    <3>1. RowsFor(p, q) = {} /\ RowsFor(p, q)' = {}
      BY <2>1 DEF RowsFor
    <3>. QED BY <3>1 DEF ToSend, SizesToSend
  <2>2. CASE q # p
    <3>1. ASSUME NEW r \in RowsFor(p, q)
          PROVE  r \in DOMAIN storage[p] /\ OwnerOfRow(r) = q /\ merged[r] = storage[p][r]
                 /\ r \in DOMAIN merged
      <4>1. r \in DOMAIN storage[p] /\ storage[p][r].rank = q
        BY <2>2 DEF RowsFor, RowsOf
      <4>. QED BY <1>7, <2>2, <4>1
    <3>2. ASSUME NEW r \in DOMAIN merged, merged[r].rank = q
          PROVE  r \in DOMAIN storage[p] /\ storage[p][r].rank = q
      <4>1. OwnerOfRow(r) = q
        BY <1>9, <3>2
      <4>2. r \notin rows
        BY <1>6, <2>2, <4>1
      <4>3. r \in DOMAIN storage[p]
        BY <4>2
      <4>. QED BY <1>7, <4>1, <4>3
    <3> HIDE DEF merged
    <3>3. RowsFor(p, q)' = {r \in DOMAIN merged : merged[r].rank = q}
      BY <1>5, <2>2 DEF RowsFor, RowsOf
    <3>4. RowsFor(p, q) = {r \in DOMAIN storage[p] : storage[p][r].rank = q}
      BY <2>2 DEF RowsFor, RowsOf
    <3>5. RowsFor(p, q)' = RowsFor(p, q)
      <4>1. \A r \in RowsFor(p, q) : r \in DOMAIN merged /\ merged[r].rank = q
        BY <3>1, <3>4
      <4>2. \A r \in DOMAIN merged : merged[r].rank = q => r \in RowsFor(p, q)
        BY <3>2, <3>4
      <4>. QED BY <3>3, <4>1, <4>2
    <3>6. \A r \in RowsFor(p, q) : storage'[p][r] = storage[p][r]
      BY <1>5, <3>1
    <3>. QED BY <3>5, <3>6 DEF ToSend, SizesToSend, Width
  <2>. QED BY <2>1, <2>2
<1>12. Tables' /\ PairInv'
  <2>1. Sealed(p)' /\ proc2' \in [Rank -> Rank]
    BY <1>2, <1>3 DEF IInv, Tables, Sealed
  <2>. QED BY <1>2, <1>3, <1>5, <1>11, <2>1, QuietPairs DEF IInv
<1>13. IInv'
  BY <1>2, <1>5, <1>10, <1>12, RowsKept DEF IInv
<1>. QED BY <1>11, <1>13

(* A message is sent                                                       *)
LEMMA SendInv ==
  ASSUME IInv, NEW p \in Rank, SendSizes(p) \/ SendRows(p) PROVE IInv'
<1>1. PICK a \in Phase, b \in Phase :
         Go(p, a, b) /\ a \in {"pair", "sendRows"} /\ b \in {"sendRows", "sent"}
  BY DEF SendSizes, SendRows, Phase
<1>2. /\ pc' \in [Rank -> Phase] /\ pc[p] = a /\ pc'[p] = b
      /\ \A q \in Rank \ {p} : pc'[q] = pc[q]
  BY <1>1, Advances DEF IInv, Tables
<1>3. UNCHANGED <<storage, proc2, recvSizes, recvRows>>
  BY DEF SendSizes, SendRows, loopVars
<1>4. \A q \in Rank : Sealed(q)' <=> Sealed(q)
  BY <1>1, <1>2 DEF Sealed
<1>5. Sealed(p) /\ b # "recvRows" /\ b # "diagonal"
  BY <1>1, <1>2 DEF Sealed
<1>6. \A q, r \in Rank : /\ ToSend(q, r)' = ToSend(q, r)
                         /\ SizesToSend(q, r)' = SizesToSend(q, r)
                         /\ Sendable(q, r)' = Sendable(q, r)
  BY <1>3, SameRows
<1>7. PICK m \in Sendable(p, proc[p]) : chan' = [chan EXCEPT ![p][proc[p]] = Append(@, m)]
  BY DEF SendSizes, SendRows, SendMessage, Sendable
<1>8. /\ \A q, r \in Rank : ~(q = p /\ r = proc[p]) => chan'[q][r] = chan[q][r]
      /\ proc[p] \in Rank => chan'[p][proc[p]] = Append(chan[p][proc[p]], m)
      /\ DOMAIN chan' = Rank /\ \A q \in Rank : DOMAIN chan'[q] = Rank
  BY <1>7 DEF IInv, Tables
<1>9. ASSUME NEW q \in Rank, NEW r \in Rank PROVE OnTheWay(q, r)'
  <2>1. OnTheWay(q, r)
    BY DEF IInv, PairInv
  <2>2. CASE q = p /\ r = proc[p]
    <3>1. chan'[q][r] \in Seq(Sendable(q, r))
      <4>1. chan[q][r] \in Seq(Sendable(q, r)) /\ m \in Sendable(q, r)
        BY <1>7, <2>1, <2>2 DEF OnTheWay
      <4>2. chan'[q][r] = Append(chan[q][r], m)
        BY <1>8, <2>2
      <4>. QED BY <4>1, <4>2
    <3>. QED BY <1>4, <1>5, <1>6, <2>2, <3>1 DEF OnTheWay
  <2>3. CASE ~(q = p /\ r = proc[p])
    BY <1>4, <1>6, <1>8, <2>1, <2>3 DEF OnTheWay
  <2>. QED BY <2>2, <2>3
<1>10. \A q, r \in Rank : Arrived(q, r)'
  BY <1>3, <1>4, <1>6 DEF IInv, PairInv, Arrived
<1>11. ASSUME NEW q \in Rank PROVE HalfArrived(q)'
  <2>1. HalfArrived(q) /\ proc2[q] \in Rank
    BY DEF IInv, PairInv, Tables
  <2>2. CASE q = p
    BY <1>2, <1>5, <2>2 DEF HalfArrived
  <2>3. CASE q # p
    BY <1>2, <1>3, <1>4, <1>6, <2>1, <2>3 DEF HalfArrived
  <2>. QED BY <2>2, <2>3
<1>12. \A q \in Rank : RowsMarked(q)'
  BY <1>2, <1>3, <1>5, RowsKept DEF IInv
<1>13. Tables'
  BY <1>2, <1>3, <1>8 DEF IInv, Tables
<1>. QED BY <1>9, <1>10, <1>11, <1>12, <1>13 DEF IInv, PairInv

(* The first message of a tag says what the rank it is from would say      *)
LEMMA Found ==
  ASSUME IInv, NEW p \in Rank, NEW q \in Rank, NEW tag \in {0, 1},
         NEW i \in FirstTagged(p, q, tag)
  PROVE  /\ i \in DOMAIN chan[q][p] /\ Sealed(q)
         /\ tag = 0 => chan[q][p][i].data = SizesToSend(q, p)
         /\ tag = 1 => chan[q][p][i].data = ToSend(q, p)
         /\ Without(chan[q][p], i) \in Seq(Sendable(q, p))
<1>1. i \in DOMAIN chan[q][p] /\ chan[q][p][i].tag = tag
  BY DEF FirstTagged
<1>2. OnTheWay(q, p)
  BY DEF IInv, PairInv
<1>3. chan[q][p] \in Seq(Sendable(q, p)) /\ chan[q][p] # <<>>
  BY <1>1, <1>2 DEF OnTheWay
<1>4. chan[q][p][i] \in Sendable(q, p)
  BY <1>1, <1>3
<1>5. \/ chan[q][p][i].tag = 0 /\ chan[q][p][i].data = SizesToSend(q, p)
      \/ chan[q][p][i].tag = 1 /\ chan[q][p][i].data = ToSend(q, p)
  BY <1>4 DEF Sendable, Message
<1>6. Without(chan[q][p], i) \in Seq(Sendable(q, p))
  BY <1>1, <1>3, WithoutType
<1>. QED BY <1>1, <1>2, <1>3, <1>5, <1>6 DEF OnTheWay

(* A message taken out                                                     *)
LEMMA TakenOut ==
  ASSUME IInv, NEW p \in Rank, NEW q \in Rank, NEW tag \in {0, 1},
         NEW i \in FirstTagged(p, q, tag),
         chan' = [chan EXCEPT ![q][p] = Without(@, i)],
         storage' = storage,
         \A r \in Rank : Sealed(r) => Sealed(r)'
  PROVE  /\ DOMAIN chan' = Rank /\ \A r \in Rank : DOMAIN chan'[r] = Rank
         /\ \A r, t \in Rank : OnTheWay(r, t)'
<1>1. /\ \A r, t \in Rank : ~(r = q /\ t = p) => chan'[r][t] = chan[r][t]
      /\ chan'[q][p] = Without(chan[q][p], i)
      /\ DOMAIN chan' = Rank /\ \A r \in Rank : DOMAIN chan'[r] = Rank
  BY DEF IInv, Tables
<1>2. ASSUME NEW r \in Rank, NEW t \in Rank PROVE OnTheWay(r, t)'
  <2>1. OnTheWay(r, t) /\ Sendable(r, t)' = Sendable(r, t)
    BY SameRows DEF IInv, PairInv
  <2>2. CASE r = q /\ t = p
    <3>1. Sealed(q)' /\ Without(chan[q][p], i) \in Seq(Sendable(q, p))
      BY Found
    <3>. QED BY <1>1, <2>1, <2>2, <3>1 DEF OnTheWay
  <2>3. CASE ~(r = q /\ t = p)
    BY <1>1, <2>1, <2>3 DEF OnTheWay
  <2>. QED BY <2>2, <2>3
<1>. QED BY <1>1, <1>2

LEMMA RecvSizesInv ==
  ASSUME IInv, NEW p \in Rank, RecvSizes(p) PROVE IInv'
<1>1. Go(p, "pair", "recvRows") /\ "recvRows" \in Phase
  BY DEF RecvSizes, Phase
<1>2. /\ pc' \in [Rank -> Phase] /\ pc[p] = "pair" /\ pc'[p] = "recvRows"
      /\ \A q \in Rank \ {p} : pc'[q] = pc[q]
  BY <1>1, Advances DEF IInv, Tables
<1>3. UNCHANGED <<storage, proc2, recvRows>>
  BY DEF RecvSizes, loopVars
<1>4. \A r \in Rank : Sealed(r)' <=> Sealed(r)
  BY <1>2 DEF Sealed
<1>5. PICK q \in Rank : q = proc2[p]
  BY DEF IInv, Tables
<1>6. PICK i \in FirstTagged(p, q, 0) :
        /\ recvSizes' = [recvSizes EXCEPT ![p][q] = chan[q][p][i].data]
        /\ chan' = [chan EXCEPT ![q][p] = Without(@, i)]
  BY <1>5 DEF RecvSizes
<1>7. Sealed(q) /\ chan[q][p][i].data = SizesToSend(q, p)
  BY <1>6, Found
<1>8. /\ recvSizes'[p][q] = SizesToSend(q, p)
      /\ \A r, t \in Rank : ~(r = p /\ t = q) => recvSizes'[r][t] = recvSizes[r][t]
      /\ DOMAIN recvSizes' = Rank /\ \A r \in Rank : DOMAIN recvSizes'[r] = Rank
  BY <1>6, <1>7 DEF IInv, Tables
<1>9. \A r, t \in Rank : /\ ToSend(r, t)' = ToSend(r, t)
                         /\ SizesToSend(r, t)' = SizesToSend(r, t)
  BY <1>3, SameRows
<1>10. /\ DOMAIN chan' = Rank /\ \A r \in Rank : DOMAIN chan'[r] = Rank
       /\ \A r, t \in Rank : OnTheWay(r, t)'
  BY <1>3, <1>4, <1>6, TakenOut
<1>11. ASSUME NEW r \in Rank, NEW t \in Rank PROVE Arrived(r, t)'
  <2>1. Arrived(r, t) /\ recvRows'[r][t] = recvRows[r][t]
    BY <1>3 DEF IInv, PairInv
  <2>2. CASE r = p /\ t = q
    BY <1>4, <1>8, <1>9, <2>1, <2>2 DEF Arrived
  <2>3. CASE ~(r = p /\ t = q)
    BY <1>4, <1>8, <1>9, <2>1, <2>3 DEF Arrived
  <2>. QED BY <2>2, <2>3
<1>12. ASSUME NEW r \in Rank PROVE HalfArrived(r)'
  <2>1. HalfArrived(r) /\ proc2[r] \in Rank /\ proc2'[r] = proc2[r]
    BY <1>3 DEF IInv, PairInv, Tables
  <2>2. CASE r = p
    BY <1>4, <1>5, <1>7, <1>8, <1>9, <2>1, <2>2 DEF HalfArrived
  <2>3. CASE r # p
    BY <1>2, <1>4, <1>8, <1>9, <2>1, <2>3 DEF HalfArrived
  <2>. QED BY <2>2, <2>3
<1>13. \A r \in Rank : RowsMarked(r)'
  BY <1>2, <1>3, RowsKept DEF IInv
<1>14. Tables'
  BY <1>2, <1>3, <1>8, <1>10 DEF IInv, Tables
<1>. QED BY <1>10, <1>11, <1>12, <1>13, <1>14 DEF IInv, PairInv

LEMMA RecvRowsInv ==
  ASSUME IInv, NEW p \in Rank, RecvRows(p) PROVE IInv'
<1>1. pc[p] = "recvRows" /\ NextPair(p) /\ UNCHANGED <<storage, recvSizes>>
  BY DEF RecvRows
<1>2. /\ pc' \in [Rank -> Phase] /\ pc'[p] \in {"pair", "gather", "merge"}
      /\ proc2' \in [Rank -> Rank]
      /\ \A q \in Rank \ {p} : pc'[q] = pc[q] /\ proc2'[q] = proc2[q]
  BY <1>1, NextPairGoes DEF IInv
<1>3. \A r \in Rank : Sealed(r)' <=> Sealed(r)
  BY <1>1, <1>2 DEF Sealed
<1>4. PICK q \in Rank : q = proc2[p]
  BY DEF IInv, Tables
<1>5. PICK i \in FirstTagged(p, q, 1) :
        /\ recvRows' = [recvRows EXCEPT ![p][q] = chan[q][p][i].data]
        /\ chan' = [chan EXCEPT ![q][p] = Without(@, i)]
  BY <1>4 DEF RecvRows
<1>6. Sealed(q) /\ chan[q][p][i].data = ToSend(q, p)
  BY <1>5, Found
<1>7. /\ recvRows'[p][q] = ToSend(q, p)
      /\ \A r, t \in Rank : ~(r = p /\ t = q) => recvRows'[r][t] = recvRows[r][t]
      /\ DOMAIN recvRows' = Rank /\ \A r \in Rank : DOMAIN recvRows'[r] = Rank
  BY <1>5, <1>6 DEF IInv, Tables
<1>8. \A r, t \in Rank : /\ ToSend(r, t)' = ToSend(r, t)
                         /\ SizesToSend(r, t)' = SizesToSend(r, t)
  BY <1>1, SameRows
<1>9. /\ DOMAIN chan' = Rank /\ \A r \in Rank : DOMAIN chan'[r] = Rank
      /\ \A r, t \in Rank : OnTheWay(r, t)'
  BY <1>1, <1>3, <1>5, TakenOut
<1>10. recvSizes[p][q] = SizesToSend(q, p)
  BY <1>1, <1>4 DEF IInv, PairInv, HalfArrived
<1>11. ASSUME NEW r \in Rank, NEW t \in Rank PROVE Arrived(r, t)'
  <2>1. Arrived(r, t) /\ recvSizes'[r][t] = recvSizes[r][t]
    BY <1>1 DEF IInv, PairInv
  <2>2. CASE r = p /\ t = q
    BY <1>3, <1>6, <1>7, <1>8, <1>10, <2>1, <2>2 DEF Arrived
  <2>3. CASE ~(r = p /\ t = q)
    BY <1>3, <1>7, <1>8, <2>1, <2>3 DEF Arrived
  <2>. QED BY <2>2, <2>3
<1>12. ASSUME NEW r \in Rank PROVE HalfArrived(r)'
  <2>1. HalfArrived(r) /\ proc2[r] \in Rank
    BY DEF IInv, PairInv, Tables
  <2>2. CASE r = p
    BY <1>2, <2>2 DEF HalfArrived
  <2>3. CASE r # p
    BY <1>1, <1>2, <1>3, <1>8, <2>1, <2>3 DEF HalfArrived
  <2>. QED BY <2>2, <2>3
<1>13. \A r \in Rank : RowsMarked(r)'
  BY <1>1, <1>2, RowsKept DEF IInv
<1>14. Tables'
  BY <1>1, <1>2, <1>7, <1>9 DEF IInv, Tables
<1>. QED BY <1>9, <1>11, <1>12, <1>13, <1>14 DEF IInv, PairInv

-----------------------------------------------------------------------------
LEMMA StutterInv ==
  ASSUME IInv, UNCHANGED vars PROVE IInv'
<1>1. /\ pc' = pc /\ proc2' = proc2 /\ storage' = storage
      /\ UNCHANGED <<chan, recvSizes, recvRows>>
  BY DEF vars, loopVars, commVars
<1>2. \A p, q \in Rank : /\ ToSend(p, q)' = ToSend(p, q)
                         /\ SizesToSend(p, q)' = SizesToSend(p, q)
                         /\ Sendable(p, q)' = Sendable(p, q)
  BY <1>1, SameRows
<1>3. \A p, q \in Rank : OnTheWay(p, q)' /\ Arrived(p, q)'
  BY <1>1, <1>2 DEF IInv, PairInv, OnTheWay, Arrived, Sealed
<1>4. \A p \in Rank : HalfArrived(p)'
  BY <1>1, <1>2 DEF IInv, PairInv, Tables, HalfArrived, Sealed
<1>5. \A p \in Rank : RowsMarked(p)'
  BY <1>1, RowsKept DEF IInv
<1>6. Tables'
  BY <1>1 DEF IInv, Tables
<1>. QED BY <1>3, <1>4, <1>5, <1>6 DEF IInv, PairInv

LEMMA NextInv == NoRowMissing /\ IInv /\ [Next]_vars => IInv'
<1>1. ASSUME NoRowMissing, IInv, NEW p \in Rank, Step(p) PROVE IInv'
  <2>1. CASE ComputeGraph(p)
    BY <1>1, <2>1, ComputeGraphInv
  <2>2. CASE AddMissingZeroEntriesDiagonal(p)
    BY <1>1, <2>2, DiagonalInv
  <2>3. CASE \/ CountOwnRows(p) \/ EnterGather(p) \/ LeaveGather(p) \/ SkipPair(p)
             \/ Sent(p) \/ BuildIndex(p)
    BY <1>1, <2>3, QuietInv
  <2>4. CASE SendSizes(p) \/ SendRows(p)
    BY <1>1, <2>4, SendInv
  <2>5. CASE RecvSizes(p)
    BY <1>1, <2>5, RecvSizesInv
  <2>6. CASE RecvRows(p)
    BY <1>1, <2>6, RecvRowsInv
  <2>7. CASE Merge(p)
    BY <1>1, <2>7, MergeInv
  <2>. QED BY <1>1, <2>1, <2>2, <2>3, <2>4, <2>5, <2>6, <2>7 DEF Step
<1>. QED BY <1>1, StutterInv DEF Next, Finished

(* Every message of a pair, on the way or received, says what the sender   *)
(* would still say: merging does not change it.                            *)
THEOREM Invariant ==
  ASSUME NoRowMissing
  PROVE  Spec => []IInv
<1>1. IInv /\ [Next]_vars => IInv'
  BY NextInv
<1>. QED BY InitInv, <1>1, PTL DEF Spec

(* A rank receives rows of its own only, whole, and with their lengths.    *)
THEOREM ReceivedRowsOwnedAlways ==
  ASSUME NoRowMissing
  PROVE  Spec => []ReceivedRowsOwned
<1>1. ASSUME IInv, NEW p \in Rank, NEW q \in Rank, recvRows[p][q] # Nothing
      PROVE  /\ DOMAIN recvRows[p][q] \subseteq OwnRows[p]
             /\ recvSizes[p][q] =
                  [r \in DOMAIN recvRows[p][q] |-> Cardinality(recvRows[p][q][r]) + 2]
  <2>1. recvRows[p][q] = ToSend(q, p) /\ recvSizes[p][q] = SizesToSend(q, p)
    BY <1>1 DEF IInv, PairInv, Arrived
  <2>2. DOMAIN ToSend(q, p) \subseteq OwnRows[p]
    BY <1>1, SentRowsOwned DEF IInv
  <2>3. SizesToSend(q, p) = [r \in DOMAIN ToSend(q, p) |-> Cardinality(ToSend(q, p)[r]) + 2]
    BY DEF SizesToSend, ToSend, Width
  <2>. QED BY <2>1, <2>2, <2>3
<1>2. IInv => ReceivedRowsOwned
  BY <1>1 DEF ReceivedRowsOwned
<1>. QED BY Invariant, <1>2, PTL

-----------------------------------------------------------------------------
(* The ranges of the ranks follow each other                               *)

LEMMA Ranks ==
  /\ NProc \in Nat /\ IsFiniteSet(Rank)
  /\ \A p \in Rank : p \in Nat /\ p < NProc
  /\ NRow \in [Rank -> Nat] /\ NCol \in [Rank -> Nat]
<1>1. NProc \in Nat
  BY GraphAssumption
<1>2. IsFiniteSet(Rank)
  BY <1>1, FS_Interval DEF Rank
<1>. QED BY <1>1, <1>2, GraphAssumption DEF Rank

LEMMA BeforeType ==
  ASSUME NEW n \in [Rank -> Nat], NEW i \in 0 .. NProc
  PROVE  Before(n, i) \in Nat /\ Before(n, 0) = 0
<1>1. 0 .. i - 1 \in SUBSET Rank
  BY Ranks DEF Rank
<1>2. IsFiniteSet(0 .. i - 1) /\ \A x \in 0 .. i - 1 : n[x] \in Nat
  BY <1>1, Ranks, FS_Subset
<1>3. 0 .. 0 - 1 = {}
  OBVIOUS
<1>4. Before(n, 0) = 0
  BY <1>3, SumEmpty DEF Before
<1>5. Before(n, i) \in Nat
  BY <1>2, SumNat DEF Before
<1>. QED BY <1>4, <1>5

LEMMA BeforeNext ==
  ASSUME NEW n \in [Rank -> Nat], NEW i \in Rank
  PROVE  Before(n, i + 1) = Before(n, i) + n[i]
<1>1. /\ IsFiniteSet(0 .. i - 1) /\ i \notin 0 .. i - 1 /\ n[i] \in Int
      /\ \A x \in 0 .. i - 1 : n[x] \in Int
  <2>1. 0 .. i - 1 \in SUBSET Rank /\ i \in Nat
    BY Ranks DEF Rank
  <2>. QED BY <2>1, Ranks, FS_Subset
<1>2. SumFunctionOnSet(n, (0 .. i - 1) \cup {i}) = n[i] + SumFunctionOnSet(n, 0 .. i - 1)
  BY <1>1, SumAddTo
<1>3. (0 .. i - 1) \cup {i} = 0 .. (i + 1) - 1
  BY Ranks
<1>4. SumFunctionOnSet(n, 0 .. i - 1) \in Int
  BY <1>1, SumInt
<1>5. SumFunctionOnSet(n, 0 .. (i + 1) - 1) = n[i] + SumFunctionOnSet(n, 0 .. i - 1)
  BY <1>2, <1>3
<1>. QED BY <1>1, <1>4, <1>5 DEF Before

LEMMA BeforeGrows ==
  ASSUME NEW n \in [Rank -> Nat], NEW i \in Rank, NEW j \in 0 .. NProc, i < j
  PROVE  Before(n, i) + n[i] <= Before(n, j)
<1>1. i + 1 \in 0 .. NProc
  BY Ranks
<1>2. /\ IsFiniteSet(0 .. j - 1) /\ \A x \in 0 .. j - 1 : n[x] \in Nat
      /\ 0 .. (i + 1) - 1 \in SUBSET (0 .. j - 1)
  <2>1. 0 .. j - 1 \in SUBSET Rank
    BY Ranks DEF Rank
  <2>2. 0 .. (i + 1) - 1 \in SUBSET (0 .. j - 1)
    BY Ranks
  <2>. QED BY <2>1, <2>2, Ranks, FS_Subset
<1>3. Before(n, i + 1) <= Before(n, j)
  BY <1>2, SumGrows DEF Before
<1>. QED BY <1>3, BeforeNext

(* The range of a rank of which n gives the lengths                        *)
RangeOf(n, p) == Before(n, p) .. Before(n, p) + n[p] - 1

(* Every number below the total is in a range                              *)
LEMMA InARange ==
  ASSUME NEW n \in [Rank -> Nat], NEW k \in 0 .. Before(n, NProc) - 1
  PROVE  \E p \in Rank : k \in RangeOf(n, p)
<1> DEFINE S == {i \in 0 .. NProc : k < Before(n, i)}
<1>1. NProc \in 0 .. NProc /\ NProc \in Nat
  BY Ranks
<1>2. Before(n, NProc) \in Nat
  BY <1>1, BeforeType
<1>3. S \in SUBSET Nat /\ NProc \in S
  BY <1>1, <1>2
<1>4. PICK i \in S : \A j \in S : i <= j
  <2> HIDE DEF S
  <2>. QED BY <1>3, LeastNatural
<1>5. i \in 0 .. NProc /\ i \in Nat /\ k < Before(n, i)
  BY <1>4
<1>6. i # 0
  BY <1>2, <1>5, BeforeType
<1>7. i - 1 \in Rank /\ i - 1 \in 0 .. NProc /\ i - 1 < i /\ (i - 1) + 1 = i
  BY <1>1, <1>5, <1>6 DEF Rank
<1>8. i - 1 \notin S
  BY <1>4, <1>5, <1>7
<1>9. Before(n, i) = Before(n, i - 1) + n[i - 1]
  <2>1. Before(n, (i - 1) + 1) = Before(n, i - 1) + n[i - 1]
    BY <1>7, BeforeNext
  <2>. QED BY <1>7, <2>1
<1>10. Before(n, i - 1) \in Nat /\ n[i - 1] \in Nat
  BY <1>7, BeforeType
<1>11. k \in RangeOf(n, i - 1)
  BY <1>2, <1>5, <1>7, <1>8, <1>9, <1>10 DEF RangeOf
<1>. QED BY <1>7, <1>11

(* The ranges are disjoint and make up an interval                         *)
LEMMA RangesTile ==
  ASSUME NEW n \in [Rank -> Nat]
  PROVE  /\ \A p \in Rank : RangeOf(n, p) \in SUBSET (0 .. Before(n, NProc) - 1)
         /\ \A p, q \in Rank : p # q => RangeOf(n, p) \cap RangeOf(n, q) = {}
         /\ UNION {RangeOf(n, p) : p \in Rank} = 0 .. Before(n, NProc) - 1
<1>1. NProc \in 0 .. NProc /\ \A p \in Rank : p \in 0 .. NProc /\ p < NProc
  BY Ranks
<1>2. Before(n, NProc) \in Nat
  BY <1>1, BeforeType
<1>3. ASSUME NEW p \in Rank
      PROVE  /\ Before(n, p) \in Nat /\ n[p] \in Nat
             /\ RangeOf(n, p) \in SUBSET (0 .. Before(n, NProc) - 1)
  <2>1. Before(n, p) \in Nat /\ n[p] \in Nat
    BY <1>1, BeforeType
  <2>2. Before(n, p) + n[p] <= Before(n, NProc)
    BY <1>1, BeforeGrows
  <2>. QED BY <1>2, <2>1, <2>2 DEF RangeOf
<1>4. ASSUME NEW p \in Rank, NEW q \in Rank, p < q
      PROVE  RangeOf(n, p) \cap RangeOf(n, q) = {}
  <2>1. Before(n, p) + n[p] <= Before(n, q)
    BY <1>1, <1>4, BeforeGrows
  <2>2. Before(n, p) \in Nat /\ n[p] \in Nat /\ Before(n, q) \in Nat
    BY <1>3
  <2>. QED BY <2>1, <2>2 DEF RangeOf
<1>5. ASSUME NEW p \in Rank, NEW q \in Rank, p # q
      PROVE  RangeOf(n, p) \cap RangeOf(n, q) = {}
  <2>1. p < q \/ q < p
    BY <1>5, Ranks
  <2>2. q < p => RangeOf(n, q) \cap RangeOf(n, p) = {}
    BY <1>4
  <2>. QED BY <1>4, <2>1, <2>2
<1>6. \A k \in 0 .. Before(n, NProc) - 1 : \E p \in Rank : k \in RangeOf(n, p)
  BY InARange
<1>7. UNION {RangeOf(n, p) : p \in Rank} = 0 .. Before(n, NProc) - 1
  BY <1>3, <1>6
<1>. QED BY <1>3, <1>5, <1>7

LEMMA RowRanges ==
  /\ \A p \in Rank : /\ OwnRows[p] = RangeOf(NRow, p) /\ OwnCols[p] = RangeOf(NCol, p)
                     /\ FirstRow[p] = Before(NRow, p) /\ FirstCol[p] = Before(NCol, p)
                     /\ FirstRow[p] \in Nat /\ FirstCol[p] \in Nat
                     /\ NRow[p] \in Nat /\ NCol[p] \in Nat
                     /\ OwnRows[p] \in SUBSET Rows /\ IsFiniteSet(OwnRows[p])
                     /\ OwnCols[p] \in SUBSET Cols
  /\ \A p, q \in Rank : p # q => OwnRows[p] \cap OwnRows[q] = {}
  /\ Rows = 0 .. Before(NRow, NProc) - 1 /\ Cols = 0 .. Before(NCol, NProc) - 1
  /\ IsFiniteSet(Rows) /\ IsFiniteSet(Cols)
  /\ Cardinality(Rows) = Cardinality(Cols) => Rows = Cols
<1>1. NRow \in [Rank -> Nat] /\ NCol \in [Rank -> Nat]
  BY Ranks
<1>2. \A p \in Rank : p \in 0 .. NProc
  BY Ranks
<1>3. \A p \in Rank : /\ OwnRows[p] = RangeOf(NRow, p) /\ OwnCols[p] = RangeOf(NCol, p)
                      /\ FirstRow[p] = Before(NRow, p) /\ FirstCol[p] = Before(NCol, p)
  BY DEF OwnRows, OwnCols, RangeOf, FirstRow, FirstCol
<1>4. \A p \in Rank : FirstRow[p] \in Nat /\ FirstCol[p] \in Nat
  BY <1>1, <1>2, <1>3, BeforeType
<1>5. Rows = UNION {RangeOf(NRow, p) : p \in Rank} /\ Cols = UNION {RangeOf(NCol, p) : p \in Rank}
  BY <1>3 DEF Rows, Cols
<1>6. Rows = 0 .. Before(NRow, NProc) - 1 /\ Cols = 0 .. Before(NCol, NProc) - 1
  BY <1>1, <1>5, RangesTile
<1>7. \A p, q \in Rank : p # q => OwnRows[p] \cap OwnRows[q] = {}
  BY <1>1, <1>3, RangesTile
<1>8. PICK a \in Nat, b \in Nat : a = Before(NRow, NProc) /\ b = Before(NCol, NProc)
  BY <1>1, Ranks, BeforeType
<1>9. Rows = 0 .. a - 1 /\ Cols = 0 .. b - 1
  BY <1>6, <1>8
<1>10. /\ IsFiniteSet(0 .. a - 1) /\ IsFiniteSet(0 .. b - 1)
       /\ Cardinality(0 .. a - 1) = a /\ Cardinality(0 .. b - 1) = b
  <2>1. \A k \in Nat : /\ IsFiniteSet(0 .. k - 1)
                       /\ Cardinality(0 .. k - 1) = IF 0 > k - 1 THEN 0 ELSE k - 1 - 0 + 1
    BY FS_Interval
  <2>2. \A k \in Nat : IsFiniteSet(0 .. k - 1) /\ Cardinality(0 .. k - 1) = k
    BY <2>1
  <2>. QED BY <2>2
<1>11. IsFiniteSet(Rows) /\ IsFiniteSet(Cols) /\ (Cardinality(Rows) = Cardinality(Cols) => Rows = Cols)
  BY <1>9, <1>10
<1>12. \A p \in Rank : OwnRows[p] \in SUBSET Rows /\ OwnCols[p] \in SUBSET Cols
  BY DEF Rows, Cols
<1>13. \A p \in Rank : IsFiniteSet(OwnRows[p])
  BY <1>11, <1>12, FS_Subset
<1>. QED BY <1>1, <1>3, <1>4, <1>6, <1>7, <1>11, <1>12, <1>13

LEMMA OwnerUnique ==
  ASSUME NEW p \in Rank, NEW r \in OwnRows[p]
  PROVE  OwnerOfRow(r) = p /\ r \in Rows
<1>1. r \in Rows
  BY RowRanges
<1>2. OwnerOfRow(r) \in Rank /\ r \in OwnRows[OwnerOfRow(r)]
  BY <1>1, OwnerFound
<1>. QED BY <1>1, <1>2, RowRanges

LEMMA KnownRow ==
  ASSUME NEW p \in Rank
  PROVE  /\ OwnRows[p] \in SUBSET ToSet(RowMap[p])
         /\ ToSet(RowMap[p]) \in SUBSET Rows
         /\ \A c \in CellsOf(p) : RowDof[c] \in SUBSET ToSet(RowMap[p])
<1>1. ToSet(RowMap[p]) = OwnRows[p] \cup UNION {RowDof[c] : c \in CellsOf(p)}
  BY GraphAssumption DEF CellsOf
<1>2. \A c \in CellsOf(p) : RowDof[c] \in SUBSET Rows
  BY GraphAssumption DEF CellsOf
<1>. QED BY <1>1, <1>2, RowRanges

LEMMA LocalFound ==
  ASSUME NEW p \in Rank, NEW r \in ToSet(RowMap[p])
  PROVE  LocalOf(p, r) \in Local[p] /\ RowMap[p][LocalOf(p, r) + 1] = r
<1>1. RowMap[p] \in Seq(Rows)
  BY GraphAssumption
<1>2. PICK i \in DOMAIN RowMap[p] : RowMap[p][i] = r
  BY DEF ToSet
<1>3. i \in 1 .. Len(RowMap[p]) /\ Len(RowMap[p]) \in Nat
  BY <1>1, <1>2
<1>4. i - 1 \in Local[p] /\ (i - 1) + 1 = i
  BY <1>3 DEF Local
<1>5. \E l \in Local[p] : RowMap[p][l + 1] = r
  BY <1>2, <1>4
<1>. QED BY <1>5 DEF LocalOf

LEMMA OneRowPerNumber ==
  ASSUME NEW p \in Rank, NEW r \in ToSet(RowMap[p]), NEW s \in ToSet(RowMap[p]),
         LocalOf(p, r) = LocalOf(p, s)
  PROVE  r = s
BY LocalFound

(* The two tests of a column are those of the range of the rank            *)
LEMMA ColumnTests ==
  ASSUME NEW p \in Rank, NEW c \in Cols
  PROVE  /\ DofGlobalClusterIsOnProc(p, c) <=> c \in OwnCols[p]
         /\ NCol[p] > 0 => (OnBlockDiagonal(p, c) <=> c \in OwnCols[p])
<1>1. /\ FirstCol[p] \in Nat /\ NCol[p] \in Nat /\ c \in Int
      /\ OwnCols[p] = FirstCol[p] .. FirstCol[p] + NCol[p] - 1
      /\ LastCol[p] = IF NCol[p] > 0 THEN FirstCol[p] + NCol[p] - 1 ELSE FirstCol[p]
  BY RowRanges DEF OwnCols, LastCol, LastOf
<1>. QED BY <1>1 DEF DofGlobalClusterIsOnProc, OnBlockDiagonal

-----------------------------------------------------------------------------
(* What a rank computes is the same in both ways                           *)

CellCols(p, r) == UNION {ColDof[c] : c \in {e \in CellsOf(p) : r \in RowDof[e]}}

RowCols(p, r) == IF ZeroPattern THEN {} ELSE CellCols(p, r)

(* T is a graph of the cells of p                                          *)
Computed(T, p) ==
  /\ \A r \in DOMAIN T : r \in ToSet(RowMap[p]) /\ T[r] = Row(p, r, CellCols(p, r))
  /\ \A r \in Rows \ DOMAIN T : CellCols(p, r) = {}

LEMMA CoupledComputed ==
  ASSUME NEW p \in Rank PROVE Computed(Coupled(p), p)
<1>1. DOMAIN Coupled(p) = UNION {RowDof[c] : c \in CellsOf(p)}
  BY DEF Coupled
<1>2. ASSUME NEW r \in DOMAIN Coupled(p)
      PROVE  r \in ToSet(RowMap[p]) /\ Coupled(p)[r] = Row(p, r, CellCols(p, r))
  BY <1>1, KnownRow DEF Coupled, CellCols
<1>3. ASSUME NEW r \in Rows \ DOMAIN Coupled(p) PROVE CellCols(p, r) = {}
  BY <1>1 DEF CellCols
<1>. QED BY <1>2, <1>3 DEF Computed

LEMMA TransposeComputed ==
  ASSUME NEW p \in Rank PROVE Computed(Transpose(p), p)
<1> DEFINE g == CoupledColumns(p)
           found == {r \in UNION {g[c] : c \in DOMAIN g} : r \in ToSet(RowMap[p])}
<1>1. DOMAIN g = UNION {ColDof[e] : e \in CellsOf(p)}
  BY DEF CoupledColumns
<1>2. \A c \in DOMAIN g : g[c] = UNION {RowDof[e] : e \in {d \in CellsOf(p) : c \in ColDof[d]}}
  BY DEF CoupledColumns
<1>3. ASSUME NEW r PROVE {c \in DOMAIN g : r \in g[c]} = CellCols(p, r)
  BY <1>1, <1>2 DEF CellCols
<1>4. DOMAIN Transpose(p) = found
  BY DEF Transpose
<1>5. \A r \in found : Transpose(p)[r] = Row(p, r, {c \in DOMAIN g : r \in g[c]})
  BY DEF Transpose
<1>6. ASSUME NEW r \in Rows, CellCols(p, r) # {} PROVE r \in found
  <2>1. PICK e \in CellsOf(p) : r \in RowDof[e] /\ ColDof[e] # {}
    BY <1>6 DEF CellCols
  <2>2. PICK c \in DOMAIN g : r \in g[c]
    BY <2>1, <1>1, <1>2
  <2>3. r \in ToSet(RowMap[p])
    BY <2>1, KnownRow
  <2>. QED BY <2>2, <2>3
<1>7. \A r \in found : r \in ToSet(RowMap[p])
  OBVIOUS
<1> HIDE DEF g, found
<1>. QED BY <1>3, <1>4, <1>5, <1>6, <1>7 DEF Computed

LEMMA CellColsType ==
  ASSUME NEW p, NEW r PROVE CellCols(p, r) \in SUBSET Cols
BY GraphAssumption DEF CellCols, CellsOf

-----------------------------------------------------------------------------
(* A rank has rows of dofs it knows, under their numbers                   *)

RowRecord(p) == [rank : Rank, local : Local[p], cols : SUBSET Cols]

KnownIn(T, p) ==
  \A r \in DOMAIN T :
     /\ r \in ToSet(RowMap[p]) /\ T[r] \in RowRecord(p) /\ T[r].local = LocalOf(p, r)

Known(p) == KnownIn(storage[p], p)

LEMMA ComputedKnown ==
  ASSUME NEW p \in Rank, NEW T, Computed(T, p) PROVE KnownIn(T, p)
<1>1. ASSUME NEW r \in DOMAIN T
      PROVE  /\ r \in ToSet(RowMap[p]) /\ T[r] \in RowRecord(p)
             /\ T[r].local = LocalOf(p, r)
  <2>1. r \in ToSet(RowMap[p]) /\ T[r] = Row(p, r, CellCols(p, r))
    BY DEF Computed
  <2>2. r \in Rows /\ OwnerOfRow(r) \in Rank /\ LocalOf(p, r) \in Local[p]
    BY <2>1, KnownRow, OwnerFound, LocalFound
  <2>. QED BY <2>1, <2>2, CellColsType DEF Row, RowRecord
<1>. QED BY <1>1 DEF KnownIn

LEMMA Widened ==
  ASSUME NEW p \in Rank, NEW row \in RowRecord(p), NEW cs \in SUBSET Cols
  PROVE  /\ With(row, cs) \in RowRecord(p)
         /\ With(row, cs).local = row.local /\ With(row, cs).rank = row.rank
         /\ With(row, cs).cols = row.cols \cup cs
BY DEF With, RowRecord

(* What addMissingZeroEntriesDiagonal adds to the row r                    *)
Diagonal(p, r) ==
  {d \in {r} : /\ DiagIsNonZero /\ Cardinality(Rows) = Cardinality(Cols)
               /\ r \in OwnRows[p] /\ r - FirstRow[p] < NCol[p]}

LEMMA DiagonalType ==
  ASSUME NEW p \in Rank, NEW r PROVE Diagonal(p, r) \in SUBSET Cols
BY RowRanges DEF Diagonal

LEMMA DiagonalStep ==
  ASSUME IInv, NEW p \in Rank, Known(p), AddMissingZeroEntriesDiagonal(p)
  PROVE  /\ DOMAIN storage'[p] = DOMAIN storage[p]
         /\ \A r \in DOMAIN storage[p] :
              storage'[p][r] = With(storage[p][r], Diagonal(p, r))
         /\ DiagIsNonZero
<1>1. RowsMarked(p) /\ pc[p] = "diagonal" /\ p \in DOMAIN storage
  BY DEF IInv, Tables, AddMissingZeroEntriesDiagonal, Go
<1>2. DiagIsNonZero /\ OwnRows[p] \subseteq DOMAIN storage[p]
  BY <1>1 DEF RowsMarked
<1> DEFINE diag == {r \in OwnRows[p] : r - FirstRow[p] < NCol[p]}
           square == Cardinality(Rows) = Cardinality(Cols)
           row(r) == IF r \notin DOMAIN storage[p] THEN MissingRow(p, r)
                     ELSE IF r \in diag THEN With(storage[p][r], {DiagonalEntry(p, r)})
                     ELSE storage[p][r]
           rows == [r \in DOMAIN storage[p] \cup diag |-> row(r)]
<1>3. storage' = IF ~square THEN storage ELSE [storage EXCEPT ![p] = rows]
  BY DEF AddMissingZeroEntriesDiagonal
<1>4. \A r : Diagonal(p, r) = IF square /\ r \in diag THEN {r} ELSE {}
  BY <1>2 DEF Diagonal
<1>5. DOMAIN storage[p] \cup diag = DOMAIN storage[p]
  BY <1>2
<1>6. \A r \in DOMAIN storage[p] : With(storage[p][r], {}) = storage[p][r]
  <2>1. ASSUME NEW r \in DOMAIN storage[p] PROVE With(storage[p][r], {}) = storage[p][r]
    <3>1. storage[p][r] \in RowRecord(p)
      BY DEF Known, KnownIn
    <3>. QED BY <3>1 DEF With, RowRecord
  <2>. QED BY <2>1
<1>7. \A r : DiagonalEntry(p, r) = r
  BY DEF DiagonalEntry
<1>8. CASE ~square
  BY <1>2, <1>3, <1>4, <1>6, <1>8
<1>9. CASE square
  <2>1. storage'[p] = rows
    <3> HIDE DEF rows
    <3>. QED BY <1>1, <1>3, <1>9
  <2>2. \A r \in DOMAIN storage[p] : rows[r] = With(storage[p][r], Diagonal(p, r))
    <3> HIDE DEF diag, square
    <3>. QED BY <1>4, <1>5, <1>6, <1>7, <1>9
  <2>3. DOMAIN rows = DOMAIN storage[p]
    <3> HIDE DEF diag
    <3>. QED BY <1>5
  <2> HIDE DEF rows
  <2>. QED BY <1>2, <2>1, <2>2, <2>3
<1>. QED BY <1>8, <1>9

-----------------------------------------------------------------------------
(* Merging                                                                 *)

GotRows(p) == UNION {DOMAIN recvRows[p][q] : q \in Rank}

LEMMA RowReceived ==
  ASSUME IInv, NEW p \in Rank, NEW q \in Rank, NEW r \in DOMAIN recvRows[p][q]
  PROVE  /\ q # p /\ r \in OwnRows[p] /\ r \in DOMAIN storage[q]
         /\ recvRows[p][q] = ToSend(q, p)
         /\ recvRows[p][q][r] = storage[q][r].cols
<1>1. recvRows[p][q] # Nothing
  BY DEF Nothing
<1>2. recvRows[p][q] = ToSend(q, p) /\ RowsMarked(q)
  BY <1>1 DEF IInv, PairInv, Arrived
<1>3. q # p /\ r \in OwnRows[p]
  BY <1>2, SentRowsOwned
<1>4. r \in RowsFor(q, p)
  BY <1>2 DEF ToSend
<1>5. r \in DOMAIN storage[q] /\ ToSend(q, p)[r] = storage[q][r].cols
  BY <1>4 DEF RowsFor, RowsOf, ToSend
<1>. QED BY <1>2, <1>3, <1>5

LEMMA GotOwnRows ==
  ASSUME IInv, NEW p \in Rank PROVE GotRows(p) \in SUBSET OwnRows[p]
BY RowReceived DEF GotRows

LEMMA ReceivedType ==
  ASSUME IInv, \A q \in Rank : Known(q), NEW p \in Rank, NEW r
  PROVE  /\ Received(p, r) \in SUBSET Cols
         /\ r \notin GotRows(p) => Received(p, r) = {}
<1>1. ASSUME NEW q \in Rank, r \in DOMAIN recvRows[p][q]
      PROVE  recvRows[p][q][r] \in SUBSET Cols
  <2>1. r \in DOMAIN storage[q] /\ recvRows[p][q][r] = storage[q][r].cols
    BY <1>1, RowReceived
  <2>2. storage[q][r] \in RowRecord(q)
    BY <2>1 DEF Known, KnownIn
  <2>. QED BY <2>1, <2>2 DEF RowRecord
<1>. QED BY <1>1 DEF Received, GotRows

LEMMA MergeStep ==
  ASSUME IInv, \A q \in Rank : Known(q), NEW p \in Rank, Merge(p)
  PROVE  /\ DOMAIN storage'[p] = DOMAIN storage[p] \cup GotRows(p)
         /\ KnownIn(storage'[p], p)
         /\ \A r \in DOMAIN storage'[p] :
              storage'[p][r].cols = Held(p, r) \cup Received(p, r)
<1> DEFINE rows == GotRows(p)
           row(r) == IF r \notin rows THEN storage[p][r]
                     ELSE IF r \in DOMAIN storage[p] THEN With(storage[p][r], Received(p, r))
                     ELSE [rank |-> p, cols |-> Received(p, r),
                           local |-> IF r \in OwnRows[p] THEN LocalOf(p, r) ELSE 0]
           merged == [r \in DOMAIN storage[p] \cup rows |-> row(r)]
<1>1. storage' = [storage EXCEPT ![p] = merged]
  BY DEF Merge, GotRows
<1>2. storage'[p] = merged
  <2> HIDE DEF merged
  <2>. QED BY <1>1 DEF IInv, Tables
<1>3. \A r \in rows : r \in OwnRows[p]
  BY GotOwnRows
<1>4. \A r : Received(p, r) \in SUBSET Cols /\ (r \notin rows => Received(p, r) = {})
  BY ReceivedType
<1> HIDE DEF rows
<1>5. DOMAIN merged = DOMAIN storage[p] \cup rows
  OBVIOUS
<1>6. ASSUME NEW r \in DOMAIN storage[p]
      PROVE  /\ r \in ToSet(RowMap[p]) /\ row(r) \in RowRecord(p)
             /\ row(r).local = LocalOf(p, r)
             /\ row(r).cols = Held(p, r) \cup Received(p, r)
  <2>1. /\ r \in ToSet(RowMap[p]) /\ storage[p][r] \in RowRecord(p)
        /\ storage[p][r].local = LocalOf(p, r) /\ Held(p, r) = storage[p][r].cols
    BY DEF Known, KnownIn, Held
  <2>2. /\ With(storage[p][r], Received(p, r)) \in RowRecord(p)
        /\ With(storage[p][r], Received(p, r)).local = storage[p][r].local
        /\ With(storage[p][r], Received(p, r)).cols = storage[p][r].cols \cup Received(p, r)
    BY <1>4, <2>1, Widened
  <2>3. CASE r \in rows
    BY <2>1, <2>2, <2>3
  <2>4. CASE r \notin rows
    BY <1>4, <2>1, <2>4
  <2>. QED BY <2>3, <2>4
<1>7. ASSUME NEW r \in rows, r \notin DOMAIN storage[p]
      PROVE  /\ r \in ToSet(RowMap[p]) /\ row(r) \in RowRecord(p)
             /\ row(r).local = LocalOf(p, r)
             /\ row(r).cols = Held(p, r) \cup Received(p, r)
  <2>1. r \in OwnRows[p] /\ r \in ToSet(RowMap[p]) /\ LocalOf(p, r) \in Local[p]
    BY <1>3, KnownRow, LocalFound
  <2>2. row(r) = [rank |-> p, cols |-> Received(p, r), local |-> LocalOf(p, r)]
    BY <1>7, <2>1
  <2>3. row(r) \in RowRecord(p)
    BY <1>4, <2>1, <2>2 DEF RowRecord
  <2>4. Held(p, r) = {}
    BY <1>7 DEF Held
  <2> HIDE DEF row
  <2>. QED BY <2>1, <2>2, <2>3, <2>4
<1>8. \A r \in DOMAIN merged : merged[r] = row(r)
  OBVIOUS
<1> HIDE DEF row, merged
<1>9. \A r \in DOMAIN merged :
        /\ r \in ToSet(RowMap[p]) /\ merged[r] \in RowRecord(p)
        /\ merged[r].local = LocalOf(p, r)
        /\ merged[r].cols = Held(p, r) \cup Received(p, r)
  BY <1>5, <1>6, <1>7, <1>8
<1>. QED BY <1>2, <1>5, <1>9 DEF KnownIn, rows

-----------------------------------------------------------------------------
(* A step of a rank leaves what the others have                            *)

Shapes ==
  /\ DOMAIN nNz = Rank /\ DOMAIN nOz = Rank /\ DOMAIN sumNz = Rank /\ DOMAIN ia = Rank
  /\ DOMAIN proc = Rank /\ DOMAIN gathered = Rank

Untouched(q) ==
  /\ pc'[q] = pc[q] /\ storage'[q] = storage[q] /\ nNz'[q] = nNz[q] /\ nOz'[q] = nOz[q]
  /\ sumNz'[q] = sumNz[q] /\ ia'[q] = ia[q] /\ proc'[q] = proc[q] /\ proc2'[q] = proc2[q]
  /\ gathered'[q] = gathered[q]
  /\ recvSizes'[q] = recvSizes[q] /\ recvRows'[q] = recvRows[q]

(* The steps of the loops, which change no row and no count                *)
LoopStep(p) ==
  \/ EnterGather(p) \/ LeaveGather(p) \/ SkipPair(p) \/ SendSizes(p) \/ SendRows(p)
  \/ Sent(p) \/ RecvSizes(p) \/ RecvRows(p)

InLoops == {"gather", "leave", "pair", "sendRows", "sent", "recvRows"}

LEMMA LoopFrame ==
  ASSUME Tables, Shapes, NEW p \in Rank, LoopStep(p)
  PROVE  /\ Shapes' /\ UNCHANGED <<storage, nNz, nOz, sumNz, ia>>
         /\ \A q \in Rank \ {p} : Untouched(q)
         /\ pc[p] \in InLoops /\ pc'[p] \in InLoops \cup {"merge"}
<1>1. CASE EnterGather(p)
  BY <1>1 DEF EnterGather, Go, Tables, Shapes, Untouched, InLoops, countVars, commVars
<1>2. CASE LeaveGather(p)
  BY <1>2 DEF LeaveGather, Go, Tables, Shapes, Untouched, InLoops, countVars, commVars
<1>3. CASE SkipPair(p)
  BY <1>3 DEF SkipPair, NextPair, Tables, Shapes, Untouched, InLoops, countVars, commVars
<1>4. CASE SendSizes(p)
  BY <1>4 DEF SendSizes, Go, Tables, Shapes, Untouched, InLoops, countVars, loopVars
<1>5. CASE SendRows(p)
  BY <1>5 DEF SendRows, Go, Tables, Shapes, Untouched, InLoops, countVars, loopVars
<1>6. CASE Sent(p)
  BY <1>6 DEF Sent, NextPair, Tables, Shapes, Untouched, InLoops, countVars, commVars
<1>7. CASE RecvSizes(p)
  <2> DEFINE q == proc2[p]
  <2>1. q \in Rank
    BY DEF Tables
  <2>2. PICK x : recvSizes' = [recvSizes EXCEPT ![p][q] = x]
    BY <1>7 DEF RecvSizes
  <2>. QED BY <1>7, <2>2 DEF RecvSizes, Go, Tables, Shapes, Untouched, InLoops, countVars, loopVars
<1>8. CASE RecvRows(p)
  <2> DEFINE q == proc2[p]
  <2>1. PICK x : recvRows' = [recvRows EXCEPT ![p][q] = x]
    BY <1>8 DEF RecvRows
  <2>. QED BY <1>8, <2>1 DEF RecvRows, NextPair, Tables, Shapes, Untouched, InLoops, countVars
<1>. QED BY <1>1, <1>2, <1>3, <1>4, <1>5, <1>6, <1>7, <1>8 DEF LoopStep

(* The other steps, which change no message and not the loops              *)
LEMMA RowFrame ==
  ASSUME Tables, Shapes, NEW p \in Rank,
         \/ ComputeGraph(p) \/ AddMissingZeroEntriesDiagonal(p) \/ CountOwnRows(p)
         \/ Merge(p) \/ BuildIndex(p)
  PROVE  /\ Shapes' /\ UNCHANGED <<proc, proc2, gathered, recvSizes, recvRows>>
         /\ \A q \in Rank \ {p} : Untouched(q)
         /\ pc[p] \notin InLoops
<1>1. CASE ComputeGraph(p)
  BY <1>1 DEF ComputeGraph, Go, Tables, Shapes, Untouched, InLoops, countVars, loopVars, commVars
<1>2. CASE AddMissingZeroEntriesDiagonal(p)
  <2>1. PICK x : storage' = storage \/ storage' = [storage EXCEPT ![p] = x]
    BY <1>2 DEF AddMissingZeroEntriesDiagonal
  <2>. QED BY <1>2, <2>1 DEF AddMissingZeroEntriesDiagonal, Go, Tables, Shapes, Untouched,
                InLoops, countVars, loopVars, commVars
<1>3. CASE CountOwnRows(p)
  BY <1>3 DEF CountOwnRows, Go, Tables, Shapes, Untouched, InLoops, loopVars, commVars
<1>4. CASE Merge(p)
  <2>1. PICK x, y, z, w : /\ storage' = [storage EXCEPT ![p] = x]
                          /\ nNz' = [nNz EXCEPT ![p] = y] /\ nOz' = [nOz EXCEPT ![p] = z]
                          /\ sumNz' = [sumNz EXCEPT ![p] = w]
    BY <1>4 DEF Merge
  <2>. QED BY <1>4, <2>1 DEF Merge, Go, Tables, Shapes, Untouched, InLoops, loopVars, commVars
<1>5. CASE BuildIndex(p)
  BY <1>5 DEF BuildIndex, Go, Tables, Shapes, Untouched, InLoops, countVars, loopVars, commVars
<1>. QED BY <1>1, <1>2, <1>3, <1>4, <1>5

(* The rows a rank knows, at any time                                      *)
RowsInv == Shapes /\ \A p \in Rank : Known(p)

LEMMA RowsInit == Init => RowsInv
<1> SUFFICES ASSUME Init PROVE RowsInv
  OBVIOUS
<1>1. Shapes
  BY DEF Init, Shapes, Zeros
<1>2. ASSUME NEW p \in Rank PROVE Known(p)
  BY DEF Init, Known, KnownIn, Nothing
<1>. QED BY <1>1, <1>2 DEF RowsInv

LEMMA RowsStep ==
  ASSUME IInv, RowsInv, NEW p \in Rank, Step(p)
  PROVE  RowsInv' /\ \A q \in Rank \ {p} : Untouched(q)
<1>1. Tables /\ Shapes /\ p \in DOMAIN storage /\ Known(p)
  BY DEF IInv, RowsInv, Tables
<1>2. CASE LoopStep(p)
  BY <1>1, <1>2, LoopFrame DEF RowsInv, Known
<1>3. CASE \/ ComputeGraph(p) \/ AddMissingZeroEntriesDiagonal(p) \/ CountOwnRows(p)
           \/ Merge(p) \/ BuildIndex(p)
  <2>1. Shapes' /\ \A q \in Rank \ {p} : Untouched(q)
    BY <1>1, <1>3, RowFrame
  <2>2. ASSUME KnownIn(storage'[p], p) PROVE RowsInv'
    <3>1. ASSUME NEW q \in Rank PROVE Known(q)'
      <4>1. CASE q = p
        BY <2>2, <4>1 DEF Known
      <4>2. CASE q # p
        BY <2>1, <4>2 DEF RowsInv, Known, Untouched
      <4>. QED BY <4>1, <4>2
    <3>. QED BY <2>1, <3>1 DEF RowsInv
  <2>3. CASE ComputeGraph(p)
    <3>1. \/ storage'[p] = Nothing \/ storage'[p] = Coupled(p) \/ storage'[p] = Transpose(p)
      BY <1>1, <2>3 DEF ComputeGraph
    <3>2. KnownIn(Nothing, p)
      BY DEF KnownIn, Nothing
    <3>. QED BY <2>1, <2>2, <3>1, <3>2, CoupledComputed, TransposeComputed, ComputedKnown
  <2>4. CASE AddMissingZeroEntriesDiagonal(p)
    <3>1. /\ DOMAIN storage'[p] = DOMAIN storage[p]
          /\ \A r \in DOMAIN storage[p] :
               storage'[p][r] = With(storage[p][r], Diagonal(p, r))
      BY <1>1, <2>4, DiagonalStep
    <3>2. ASSUME NEW r \in DOMAIN storage[p]
          PROVE  /\ r \in ToSet(RowMap[p]) /\ storage'[p][r] \in RowRecord(p)
                 /\ storage'[p][r].local = LocalOf(p, r)
      <4>1. /\ r \in ToSet(RowMap[p]) /\ storage[p][r] \in RowRecord(p)
            /\ storage[p][r].local = LocalOf(p, r)
        BY <1>1 DEF Known, KnownIn
      <4>2. Diagonal(p, r) \in SUBSET Cols
        BY DiagonalType
      <4>. QED BY <3>1, <4>1, <4>2, Widened
    <3>3. KnownIn(storage'[p], p)
      BY <3>1, <3>2 DEF KnownIn
    <3>. QED BY <2>1, <2>2, <3>3
  <2>5. CASE CountOwnRows(p) \/ BuildIndex(p)
    <3>1. storage' = storage
      BY <2>5 DEF CountOwnRows, BuildIndex
    <3>. QED BY <1>1, <2>1, <2>2, <3>1 DEF Known
  <2>6. CASE Merge(p)
    BY <2>1, <2>2, <2>6, MergeStep DEF RowsInv
  <2>. QED BY <1>3, <2>1, <2>3, <2>4, <2>5, <2>6
<1>. QED BY <1>2, <1>3 DEF Step, LoopStep

(* They are finite, and so are the messages they are sent in               *)
LEMMA KnownFinite ==
  ASSUME NEW p \in Rank, Known(p)
  PROVE  /\ IsFiniteSet(DOMAIN storage[p])
         /\ \A r : IsFiniteSet(Held(p, r)) /\ Held(p, r) \in SUBSET Cols
         /\ \A r \in DOMAIN storage[p] : Width(p, r) \in Nat /\ r \in Rows
<1>1. \A r \in DOMAIN storage[p] : r \in Rows /\ storage[p][r].cols \in SUBSET Cols
  BY KnownRow DEF Known, KnownIn, RowRecord
<1>2. IsFiniteSet(DOMAIN storage[p])
  <2>1. DOMAIN storage[p] \in SUBSET Rows
    BY <1>1
  <2>. QED BY <2>1, RowRanges, FS_Subset
<1>3. \A r : Held(p, r) \in SUBSET Cols
  BY <1>1 DEF Held
<1>4. \A r : IsFiniteSet(Held(p, r))
  BY <1>3, RowRanges, FS_Subset
<1>5. \A r \in DOMAIN storage[p] : Width(p, r) = Cardinality(Held(p, r))
  BY DEF Width, Held
<1>6. \A r \in DOMAIN storage[p] : Width(p, r) \in Nat
  BY <1>4, <1>5, FS_CardinalityType
<1>. QED BY <1>1, <1>2, <1>3, <1>4, <1>6

LEMMA DataSizeType ==
  ASSUME NEW p \in Rank, NEW q \in Rank, Known(p)
  PROVE  /\ SizesToSend(p, q) \in [RowsFor(p, q) -> Nat]
         /\ DataSize(p, q) \in Nat
         /\ ~(DataSize(p, q) > 0) => RowsFor(p, q) = {}
<1> DEFINE S == RowsFor(p, q)
           F == SizesToSend(p, q)
<1>1. S \in SUBSET DOMAIN storage[p]
  BY DEF RowsFor, RowsOf
<1>2. F \in [S -> Nat] /\ \A r \in S : F[r] >= 2
  BY <1>1, KnownFinite DEF SizesToSend
<1>3. IsFiniteSet(S)
  BY <1>1, KnownFinite, FS_Subset
<1>4. DataSize(p, q) = SumFunctionOnSet(F, S)
  BY DEF DataSize, SumFunction, SizesToSend
<1> HIDE DEF S, F
<1>5. DataSize(p, q) \in Nat
  BY <1>2, <1>3, <1>4, SumNat
<1>6. ASSUME NEW z \in S PROVE DataSize(p, q) > 0
  <2>1. SumFunctionOnSet(F, S) = F[z] + SumFunctionOnSet(F, S \ {z})
    BY <1>2, <1>3, SumTakeOut
  <2>2. IsFiniteSet(S \ {z}) /\ \A x \in S \ {z} : F[x] \in Nat
    BY <1>2, <1>3, FS_Subset
  <2>3. SumFunctionOnSet(F, S \ {z}) \in Nat
    BY <2>2, SumNat
  <2>. QED BY <1>2, <1>4, <2>1, <2>3
<1>. QED BY <1>2, <1>5, <1>6 DEF S, F

-----------------------------------------------------------------------------
(* The loops: a rank that merges has all that the others have for it       *)

LEMMA SealedKept ==
  ASSUME IInv, NEW p \in Rank, Step(p), NEW q \in Rank, Sealed(q)
  PROVE  /\ Sealed(q)'
         /\ \A r \in Rank : /\ ToSend(q, r)' = ToSend(q, r)
                            /\ SizesToSend(q, r)' = SizesToSend(q, r)
                            /\ DataSize(q, r)' = DataSize(q, r)
<1>1. pc \in [Rank -> Phase] /\ DOMAIN storage = Rank
  BY DEF IInv, Tables
<1>2. Sealed(q)' /\ (q = p => ~ComputeGraph(p) /\ ~AddMissingZeroEntriesDiagonal(p))
  BY <1>1 DEF Step, Go, Sealed, ComputeGraph, AddMissingZeroEntriesDiagonal, CountOwnRows,
     EnterGather, LeaveGather, SkipPair, SendSizes, SendRows, Sent, RecvSizes, RecvRows,
     NextPair, Merge, BuildIndex
<1>3. ASSUME NEW r \in Rank
      PROVE  ToSend(q, r)' = ToSend(q, r) /\ SizesToSend(q, r)' = SizesToSend(q, r)
  <2>1. CASE Merge(p) /\ q = p
    BY <2>1, MergeInv
  <2>2. CASE ~(Merge(p) /\ q = p)
    <3>1. storage'[q] = storage[q]
      <4>1. CASE ComputeGraph(p)
        BY <1>1, <1>2, <4>1 DEF ComputeGraph
      <4>2. CASE AddMissingZeroEntriesDiagonal(p)
        <5>1. PICK x : storage' = storage \/ storage' = [storage EXCEPT ![p] = x]
          BY <4>2 DEF AddMissingZeroEntriesDiagonal
        <5>. QED BY <1>1, <1>2, <4>2, <5>1
      <4>3. CASE Merge(p)
        <5>1. PICK x : storage' = [storage EXCEPT ![p] = x]
          BY <4>3 DEF Merge
        <5>. QED BY <1>1, <2>2, <4>3, <5>1
      <4>4. CASE ~(ComputeGraph(p) \/ AddMissingZeroEntriesDiagonal(p) \/ Merge(p))
        BY <4>4 DEF Step, CountOwnRows, EnterGather, LeaveGather, SkipPair, SendSizes,
           SendRows, Sent, RecvSizes, RecvRows, BuildIndex
      <4>. QED BY <4>1, <4>2, <4>3, <4>4
    <3>. QED BY <3>1, SameRows
  <2>. QED BY <2>1, <2>2
<1>4. \A r \in Rank : DataSize(q, r)' = DataSize(q, r)
  BY <1>3 DEF DataSize
<1>. QED BY <1>2, <1>3, <1>4

InPairs == {"pair", "sendRows", "sent", "recvRows"}

(* The turn of the outer loop a rank is in                                 *)
Turn(p) ==
  /\ proc[p] \in 0 .. NProc
  /\ pc[p] \in {"compute", "diagonal", "count"} => proc[p] = 0
  /\ pc[p] \in InLoops => proc[p] < NProc
  /\ pc[p] \in {"merge", "index", "done"} => proc[p] = NProc
  /\ pc[p] \in {"sendRows", "sent"} => proc[p] # p
  /\ pc[p] = "recvRows" => proc[p] = p

(* What a rank said in the all_gathers is what it has for the others       *)
Said(p) ==
  /\ gathered[p] \in Seq(Nat)
  /\ Len(gathered[p]) = proc[p] + (IF pc[p] \in InPairs \cup {"leave"} THEN 1 ELSE 0)
  /\ \A i \in DOMAIN gathered[p] : gathered[p][i] = DataSize(p, i - 1)

(* A rank heard the others in each all_gather it left                      *)
Heard(p) ==
  \A q \in Rank :
     Len(gathered[q]) >= proc[p] + (IF pc[p] \in InPairs THEN 1 ELSE 0)

(* The turns in which p receives from q are over                           *)
Past(p, q) ==
  \/ proc[p] > p
  \/ proc[p] = p /\ pc[p] \in {"pair", "recvRows"} /\ q < proc2[p]

Got(p, q) == recvRows[p][q] = ToSend(q, p)

LoopInv ==
  \A p \in Rank : /\ Turn(p) /\ Said(p) /\ Heard(p)
                  /\ \A q \in Rank : Past(p, q) => Got(p, q)

LEMMA LoopInit == Init => LoopInv
<1> SUFFICES ASSUME Init, NEW p \in Rank
             PROVE  /\ Turn(p) /\ Said(p) /\ Heard(p)
                    /\ \A q \in Rank : Past(p, q) => Got(p, q)
  BY DEF LoopInv
<1>1. /\ pc[p] = "compute" /\ proc[p] = 0
      /\ \A q \in Rank : gathered[q] = <<>>
  BY DEF Init
<1>2. p \in Nat /\ NProc \in Nat
  BY Ranks
<1>3. Turn(p)
  BY <1>1, <1>2 DEF Turn, InLoops
<1>4. Said(p) /\ Heard(p)
  <2>1. "compute" \notin InPairs \cup {"leave"}
    BY DEF InPairs
  <2>2. \A q \in Rank : gathered[q] \in Seq(Nat) /\ Len(gathered[q]) = 0 /\ DOMAIN gathered[q] = {}
    <3>1. <<>> \in Seq(Nat) /\ Len(<<>>) = 0
      OBVIOUS
    <3>2. DOMAIN <<>> = {}
      OBVIOUS
    <3>. QED BY <1>1, <3>1, <3>2
  <2>. QED BY <1>1, <2>1, <2>2 DEF Said, Heard
<1>5. \A q \in Rank : ~Past(p, q)
  BY <1>1, <1>2 DEF Past
<1>. QED BY <1>3, <1>4, <1>5

(* How a rank goes from one pair to the next                               *)
LEMMA NextPairLoop ==
  ASSUME Tables, Shapes, NEW p \in Rank, NextPair(p), proc[p] \in 0 .. NProc, proc[p] < NProc
  PROVE  /\ gathered' = gathered
         /\ \/ /\ proc2[p] < NProc - 1 /\ proc2'[p] = proc2[p] + 1
               /\ pc'[p] = "pair" /\ proc'[p] = proc[p]
            \/ /\ proc2[p] = NProc - 1 /\ proc2'[p] = proc2[p]
               /\ proc'[p] = proc[p] + 1
               /\ \/ proc[p] < NProc - 1 /\ pc'[p] = "gather"
                  \/ proc[p] = NProc - 1 /\ pc'[p] = "merge"
<1>1. proc2[p] \in Rank /\ NProc \in Nat /\ proc2[p] \in Nat /\ proc2[p] < NProc
  BY Ranks DEF Tables
<1>2. CASE proc2[p] < NProc - 1
  BY <1>2 DEF NextPair, Tables
<1>3. CASE ~(proc2[p] < NProc - 1)
  BY <1>1, <1>3 DEF NextPair, Tables, Shapes
<1>. QED BY <1>2, <1>3

LEMMA TurnStep ==
  ASSUME Tables, Shapes, NEW p \in Rank, Turn(p), Step(p)
  PROVE  Turn(p)' /\ proc'[p] \in {proc[p], proc[p] + 1}
<1>1. NProc \in Nat /\ NProc > 0 /\ p \in Nat /\ proc[p] \in 0 .. NProc /\ pc[p] \in Phase
  BY Ranks DEF Turn, Tables
<1>2. CASE \/ ComputeGraph(p) \/ AddMissingZeroEntriesDiagonal(p) \/ CountOwnRows(p)
           \/ Merge(p) \/ BuildIndex(p)
  <2>1. proc' = proc
    BY <1>2 DEF ComputeGraph, AddMissingZeroEntriesDiagonal, CountOwnRows, Merge, BuildIndex,
       loopVars
  <2>2. \/ pc[p] = "compute" /\ pc'[p] \in {"diagonal", "count"}
        \/ pc[p] = "diagonal" /\ pc'[p] = "count"
        \/ pc[p] = "count" /\ pc'[p] = "gather"
        \/ pc[p] = "merge" /\ pc'[p] = "index"
        \/ pc[p] = "index" /\ pc'[p] = "done"
    BY <1>2 DEF ComputeGraph, AddMissingZeroEntriesDiagonal, CountOwnRows, Merge, BuildIndex,
       Go, Tables
  <2>. QED BY <1>1, <2>1, <2>2 DEF Turn, InLoops
<1>3. CASE EnterGather(p) \/ LeaveGather(p) \/ SendRows(p)
  <2>1. proc' = proc
    BY <1>3 DEF EnterGather, LeaveGather, SendRows, loopVars
  <2>2. \/ pc[p] = "gather" /\ pc'[p] = "leave"
        \/ pc[p] = "leave" /\ pc'[p] = "pair"
        \/ pc[p] = "sendRows" /\ pc'[p] = "sent"
    BY <1>3 DEF EnterGather, LeaveGather, SendRows, Go, Tables
  <2>. QED BY <1>1, <2>1, <2>2 DEF Turn, InLoops
<1>4. CASE SendSizes(p)
  <2>1. proc' = proc /\ pc[p] = "pair" /\ pc'[p] = "sendRows" /\ proc[p] # p
    BY <1>4 DEF SendSizes, Go, Tables, loopVars, Transfer
  <2>. QED BY <1>1, <2>1 DEF Turn, InLoops
<1>5. CASE RecvSizes(p)
  <2>1. proc' = proc /\ pc[p] = "pair" /\ pc'[p] = "recvRows" /\ proc[p] = p
    BY <1>5 DEF RecvSizes, Go, Tables, loopVars
  <2>. QED BY <1>1, <2>1 DEF Turn, InLoops
<1>6. CASE SkipPair(p) \/ Sent(p) \/ RecvRows(p)
  <2>1. NextPair(p) /\ pc[p] \in InLoops
    BY <1>6 DEF SkipPair, Sent, RecvRows, InLoops
  <2>2. proc[p] < NProc
    BY <2>1 DEF Turn
  <2>3. \/ pc'[p] = "pair" /\ proc'[p] = proc[p]
        \/ /\ proc'[p] = proc[p] + 1
           /\ \/ proc[p] < NProc - 1 /\ pc'[p] = "gather"
              \/ proc[p] = NProc - 1 /\ pc'[p] = "merge"
    BY <1>1, <2>1, <2>2, NextPairLoop
  <2>. QED BY <1>1, <2>2, <2>3 DEF Turn, InLoops
<1>. QED BY <1>2, <1>3, <1>4, <1>5, <1>6 DEF Step

(* A rank that said something has its rows                                 *)
LEMMA SaidSealed ==
  ASSUME NEW p \in Rank, Turn(p), Said(p), NEW i \in DOMAIN gathered[p]
  PROVE  Sealed(p) /\ i - 1 \in Rank
<1>1. i \in 1 .. Len(gathered[p]) /\ Len(gathered[p]) \in Nat
  BY DEF Said
<1>2. NProc \in Nat /\ proc[p] \in 0 .. NProc
  BY Ranks DEF Turn
<1>3. CASE pc[p] \in InPairs \cup {"leave"}
  <2>1. Len(gathered[p]) = proc[p] + 1 /\ proc[p] < NProc
    BY <1>3 DEF Said, Turn, InPairs, InLoops
  <2>. QED BY <1>1, <1>2, <1>3, <2>1 DEF Sealed, Rank, InPairs
<1>4. CASE pc[p] \notin InPairs \cup {"leave"}
  <2>1. Len(gathered[p]) = proc[p]
    BY <1>2, <1>4 DEF Said
  <2>. QED BY <1>1, <1>2, <2>1 DEF Sealed, Turn, Rank
<1>. QED BY <1>3, <1>4

LEMMA SaidKept ==
  ASSUME IInv, NEW p \in Rank, Step(p), NEW q \in Rank, Turn(q), Said(q),
         NEW i \in DOMAIN gathered[q]
  PROVE  gathered[q][i] = DataSize(q, i - 1)'
<1>1. Sealed(q) /\ i - 1 \in Rank
  BY SaidSealed
<1>2. DataSize(q, i - 1)' = DataSize(q, i - 1)
  BY <1>1, SealedKept
<1>. QED BY <1>2 DEF Said

LEMMA SaidStep ==
  ASSUME IInv, RowsInv, NEW p \in Rank, Turn(p), Said(p), Step(p)
  PROVE  /\ Said(p)' /\ gathered[p] \in Seq(Nat) /\ gathered'[p] \in Seq(Nat)
         /\ Len(gathered'[p]) >= Len(gathered[p])
<1>1. Tables /\ Shapes /\ NProc \in Nat /\ proc[p] \in 0 .. NProc
      /\ gathered[p] \in Seq(Nat) /\ Len(gathered[p]) \in Nat
  BY Ranks DEF IInv, RowsInv, Turn, Said
<1>2. \A i \in DOMAIN gathered[p] : gathered[p][i] = DataSize(p, i - 1)'
  BY SaidKept
<1>3. CASE EnterGather(p)
  <2>1. pc[p] = "gather" /\ pc'[p] = "leave" /\ proc' = proc
        /\ gathered'[p] = Append(gathered[p], DataSize(p, proc[p]))
    BY <1>1, <1>3 DEF EnterGather, Go, Tables, Shapes
  <2>2. Len(gathered[p]) = proc[p] /\ Sealed(p) /\ proc[p] \in Rank
    BY <1>1, <2>1 DEF Said, Turn, Sealed, InPairs, InLoops, Rank
  <2>3. DataSize(p, proc[p]) \in Nat
    BY <2>2, DataSizeType DEF RowsInv
  <2>4. /\ gathered'[p] \in Seq(Nat) /\ Len(gathered'[p]) = Len(gathered[p]) + 1
        /\ \A i \in DOMAIN gathered[p] : gathered'[p][i] = gathered[p][i]
        /\ gathered'[p][Len(gathered[p]) + 1] = DataSize(p, proc[p])
        /\ DOMAIN gathered'[p] = DOMAIN gathered[p] \cup {Len(gathered[p]) + 1}
    BY <1>1, <2>1, <2>3
  <2>5. \A i \in DOMAIN gathered'[p] : gathered'[p][i] = DataSize(p, i - 1)'
    <3>1. PICK k \in Rank : k = proc[p] /\ (Len(gathered[p]) + 1) - 1 = k
      BY <1>1, <2>2
    <3>2. DataSize(p, k)' = DataSize(p, k)
      BY <2>2, SealedKept
    <3>3. ASSUME NEW i \in DOMAIN gathered'[p] PROVE gathered'[p][i] = DataSize(p, i - 1)'
      <4>1. CASE i \in DOMAIN gathered[p]
        BY <1>2, <2>4, <4>1
      <4>2. CASE i = Len(gathered[p]) + 1
        <5>1. i - 1 = k
          BY <3>1, <4>2
        <5>2. gathered'[p][i] = DataSize(p, k)
          BY <2>4, <3>1, <4>2
        <5>. QED BY <3>2, <5>1, <5>2
      <4>. QED BY <2>4, <4>1, <4>2
    <3>. QED BY <3>3
  <2>. QED BY <1>1, <2>1, <2>2, <2>4, <2>5 DEF Said, InPairs
<1>4. CASE ~EnterGather(p)
  <2>1. gathered'[p] = gathered[p]
    BY <1>4 DEF Step, ComputeGraph, AddMissingZeroEntriesDiagonal, CountOwnRows, LeaveGather,
       SkipPair, SendSizes, SendRows, Sent, RecvSizes, RecvRows, NextPair, Merge, BuildIndex,
       loopVars
  <2>2. Len(gathered'[p]) = proc'[p] + (IF pc'[p] \in InPairs \cup {"leave"} THEN 1 ELSE 0)
    <3>1. Len(gathered[p]) = proc[p] + (IF pc[p] \in InPairs \cup {"leave"} THEN 1 ELSE 0)
      BY DEF Said
    <3>2. CASE \/ ComputeGraph(p) \/ AddMissingZeroEntriesDiagonal(p) \/ CountOwnRows(p)
               \/ Merge(p) \/ BuildIndex(p)
      <4>1. proc' = proc /\ pc[p] \notin InPairs \cup {"leave"}
            /\ pc'[p] \notin InPairs \cup {"leave"}
        BY <1>1, <3>2 DEF ComputeGraph, AddMissingZeroEntriesDiagonal, CountOwnRows, Merge,
           BuildIndex, loopVars, Go, Tables, InPairs
      <4>. QED BY <2>1, <3>1, <4>1
    <3>3. CASE LeaveGather(p) \/ SendSizes(p) \/ SendRows(p) \/ RecvSizes(p)
      <4>1. proc' = proc /\ pc[p] \in InPairs \cup {"leave"}
            /\ pc'[p] \in InPairs \cup {"leave"}
        BY <1>1, <3>3 DEF LeaveGather, SendSizes, SendRows, RecvSizes, loopVars, Go, Tables,
           InPairs
      <4>. QED BY <2>1, <3>1, <4>1
    <3>4. CASE SkipPair(p) \/ Sent(p) \/ RecvRows(p)
      <4>1. NextPair(p) /\ pc[p] \in InPairs /\ pc[p] \in InLoops
        BY <3>4 DEF SkipPair, Sent, RecvRows, InPairs, InLoops
      <4>2. proc[p] < NProc
        BY <4>1 DEF Turn
      <4>3. \/ pc'[p] = "pair" /\ proc'[p] = proc[p]
            \/ pc'[p] \in {"gather", "merge"} /\ proc'[p] = proc[p] + 1
        BY <1>1, <4>1, <4>2, NextPairLoop
      <4>. QED BY <1>1, <2>1, <3>1, <4>1, <4>3 DEF InPairs
    <3>. QED BY <1>4, <3>2, <3>3, <3>4 DEF Step
  <2>. QED BY <1>1, <1>2, <2>1, <2>2 DEF Said
<1>. QED BY <1>3, <1>4

(* No rank takes back what it said                                         *)
LEMMA HeardStep ==
  ASSUME IInv, RowsInv, LoopInv, NEW p \in Rank, Step(p)
  PROVE  \A q \in Rank : Heard(q)'
<1>1. \A q \in Rank \ {p} : Untouched(q)
  BY RowsStep
<1>2. ASSUME NEW q \in Rank
      PROVE  /\ Len(gathered[q]) \in Nat /\ Len(gathered'[q]) \in Nat
             /\ Len(gathered'[q]) >= Len(gathered[q])
  <2>1. CASE q = p
    <3>1. gathered[p] \in Seq(Nat) /\ gathered'[p] \in Seq(Nat)
          /\ Len(gathered'[p]) >= Len(gathered[p])
      BY SaidStep DEF LoopInv
    <3>. QED BY <2>1, <3>1
  <2>2. CASE q # p
    BY <1>1, <2>2 DEF LoopInv, Said, Untouched
  <2>. QED BY <2>1, <2>2
<1>3. ASSUME NEW q \in Rank \ {p} PROVE Heard(q)'
  <2>1. Heard(q) /\ proc'[q] = proc[q] /\ pc'[q] = pc[q] /\ proc[q] \in Nat
    BY <1>1 DEF LoopInv, Untouched, Turn
  <2>. QED BY <1>2, <2>1 DEF Heard
<1>4. Heard(p)'
  <2>1. Heard(p) /\ proc[p] \in Nat /\ Tables /\ Shapes /\ proc[p] \in 0 .. NProc
    BY DEF LoopInv, Turn, IInv, RowsInv
  <2>2. CASE LeaveGather(p)
    <3>1. proc' = proc /\ gathered' = gathered /\ \A q \in Rank : Len(gathered[q]) > proc[p]
      BY <2>2 DEF LeaveGather
    <3>. QED BY <1>2, <2>1, <3>1 DEF Heard
  <2>3. CASE \/ ComputeGraph(p) \/ AddMissingZeroEntriesDiagonal(p) \/ CountOwnRows(p)
             \/ Merge(p) \/ BuildIndex(p) \/ EnterGather(p)
    <3>1. proc' = proc /\ pc'[p] \notin InPairs
      BY <2>1, <2>3 DEF ComputeGraph, AddMissingZeroEntriesDiagonal, CountOwnRows, Merge,
         BuildIndex, EnterGather, loopVars, Go, Tables, InPairs
    <3>. QED BY <1>2, <2>1, <3>1 DEF Heard
  <2>4. CASE SendSizes(p) \/ SendRows(p) \/ RecvSizes(p)
    <3>1. proc' = proc /\ pc[p] \in InPairs
      BY <2>1, <2>4 DEF SendSizes, SendRows, RecvSizes, loopVars, Go, Tables, InPairs
    <3>. QED BY <1>2, <2>1, <3>1 DEF Heard
  <2>5. CASE SkipPair(p) \/ Sent(p) \/ RecvRows(p)
    <3>1. NextPair(p) /\ pc[p] \in InPairs /\ pc[p] \in InLoops
      BY <2>5 DEF SkipPair, Sent, RecvRows, InPairs, InLoops
    <3>2. proc[p] < NProc
      BY <3>1 DEF LoopInv, Turn
    <3>3. \/ pc'[p] = "pair" /\ proc'[p] = proc[p]
          \/ pc'[p] \in {"gather", "merge"} /\ proc'[p] = proc[p] + 1
      BY <2>1, <3>1, <3>2, NextPairLoop
    <3>. QED BY <1>2, <2>1, <3>1, <3>3 DEF Heard, InPairs
  <2>. QED BY <2>2, <2>3, <2>4, <2>5 DEF Step
<1>. QED BY <1>3, <1>4

(* Only the pair a rank leaves becomes past                                *)
LEMMA PastStep ==
  ASSUME Tables, Shapes, NEW p \in Rank, Turn(p), Step(p), NEW q \in Rank, Past(p, q)',
         ~Past(p, q)
  PROVE  proc[p] = p /\ q = proc2[p] /\ (SkipPair(p) \/ RecvRows(p))
<1>1. NProc \in Nat /\ p \in Nat /\ q \in Nat /\ q < NProc /\ proc[p] \in 0 .. NProc
      /\ proc2[p] \in Nat /\ proc2[p] < NProc
  BY Ranks DEF Turn, Tables
<1>2. \/ proc'[p] > p
      \/ proc'[p] = p /\ pc'[p] \in {"pair", "recvRows"} /\ q < proc2'[p]
  BY DEF Past
<1>3. /\ ~(proc[p] > p)
      /\ ~(proc[p] = p /\ pc[p] \in {"pair", "recvRows"} /\ q < proc2[p])
  BY DEF Past
<1>4. CASE \/ ComputeGraph(p) \/ AddMissingZeroEntriesDiagonal(p) \/ CountOwnRows(p)
           \/ Merge(p) \/ BuildIndex(p) \/ EnterGather(p)
  <2>1. proc' = proc /\ pc'[p] \notin {"pair", "recvRows"}
    BY <1>4 DEF ComputeGraph, AddMissingZeroEntriesDiagonal, CountOwnRows, Merge,
       BuildIndex, EnterGather, loopVars, Go, Tables
  <2>. QED BY <1>2, <1>3, <2>1
<1>5. CASE LeaveGather(p)
  <2>1. proc' = proc /\ proc2'[p] = 0
    BY <1>5 DEF LeaveGather, Tables
  <2>. QED BY <1>1, <1>2, <1>3, <2>1
<1>6. CASE SendSizes(p) \/ SendRows(p)
  <2>1. proc' = proc /\ pc'[p] \notin {"pair", "recvRows"}
    BY <1>6 DEF SendSizes, SendRows, loopVars, Go, Tables
  <2>. QED BY <1>2, <1>3, <2>1
<1>7. CASE RecvSizes(p)
  <2>1. proc' = proc /\ proc2' = proc2 /\ pc[p] = "pair"
    BY <1>7 DEF RecvSizes, loopVars, Go, Tables
  <2>. QED BY <1>2, <1>3, <2>1
<1>8. CASE SkipPair(p) \/ Sent(p) \/ RecvRows(p)
  <2>1. NextPair(p) /\ pc[p] \in InLoops /\ pc[p] \in {"pair", "sent", "recvRows"}
        /\ (pc[p] = "sent" => proc[p] # p)
    BY <1>8 DEF SkipPair, Sent, RecvRows, InLoops, Turn
  <2>2. proc[p] < NProc
    BY <2>1 DEF Turn
  <2>3. \/ /\ proc2[p] < NProc - 1 /\ proc2'[p] = proc2[p] + 1
           /\ pc'[p] = "pair" /\ proc'[p] = proc[p]
        \/ /\ proc2[p] = NProc - 1 /\ proc2'[p] = proc2[p]
           /\ proc'[p] = proc[p] + 1 /\ pc'[p] \in {"gather", "merge"}
    BY <1>1, <2>1, <2>2, NextPairLoop
  <2>4. proc[p] = p /\ pc[p] \in {"pair", "recvRows"} /\ ~(q < proc2[p])
    BY <1>1, <1>2, <1>3, <2>1, <2>3
  <2>5. q = proc2[p]
    BY <1>1, <1>2, <2>3, <2>4
  <2>6. ~Sent(p)
    BY <2>4 DEF Sent
  <2>. QED BY <1>8, <2>4, <2>5, <2>6
<1>. QED BY <1>4, <1>5, <1>6, <1>7, <1>8 DEF Step

LEMMA NothingFor ==
  ASSUME NEW p \in Rank, NEW q \in Rank, RowsFor(q, p) = {}
  PROVE  ToSend(q, p) = Nothing
<1>1. ToSend(q, p) = [r \in {} |-> storage[q][r].cols]
  BY DEF ToSend
<1>. QED BY <1>1 DEF Nothing

LEMMA GotStep ==
  ASSUME IInv, RowsInv, LoopInv, NEW p \in Rank, Step(p), NEW t \in Rank, NEW q \in Rank,
         Past(t, q)'
  PROVE  Got(t, q)'
<1>1. Tables /\ Shapes /\ Turn(t) /\ Turn(q) /\ Said(q) /\ Heard(t) /\ t \in Nat
      /\ \A r \in Rank \ {p} : Untouched(r)
  BY Ranks, RowsStep DEF IInv, RowsInv, LoopInv
<1>2. ASSUME proc[t] >= t, proc[t] = t => pc[t] \in InPairs
      PROVE  Sealed(q) /\ t + 1 \in DOMAIN gathered[q]
  <2>1. Len(gathered[q]) >= t + 1 /\ Len(gathered[q]) \in Nat
    BY <1>1, <1>2 DEF Heard, Said, Turn
  <2>2. t + 1 \in DOMAIN gathered[q]
    BY <1>1, <2>1 DEF Said
  <2>. QED BY <1>1, <2>2, SaidSealed
<1>3. CASE Past(t, q)
  <2>1. proc[t] >= t /\ (proc[t] = t => pc[t] \in InPairs)
    BY <1>1, <1>3 DEF Past, InPairs, Turn
  <2>2. Sealed(q) /\ ToSend(q, t)' = ToSend(q, t)
    BY <1>2, <2>1, SealedKept
  <2>3. recvRows[t][q] = ToSend(q, t)
    BY <1>3 DEF LoopInv, Got
  <2>4. recvRows'[t][q] \in {recvRows[t][q], ToSend(q, t)}
    <3>1. CASE t # p
      BY <1>1, <3>1 DEF Untouched
    <3>2. CASE t = p /\ RecvRows(p)
      <4>1. PICK s \in Rank : s = proc2[p]
        BY <1>1 DEF Tables
      <4>2. PICK i \in FirstTagged(p, s, 1) :
              recvRows' = [recvRows EXCEPT ![p][s] = chan[s][p][i].data]
        BY <3>2, <4>1 DEF RecvRows
      <4>3. chan[s][p][i].data = ToSend(s, p)
        BY <4>2, Found
      <4>. QED BY <1>1, <3>2, <4>2, <4>3 DEF Tables
    <3>3. CASE t = p /\ ~RecvRows(p)
      <4>1. recvRows' = recvRows
        BY <3>3 DEF Step, ComputeGraph, AddMissingZeroEntriesDiagonal, CountOwnRows,
           EnterGather, LeaveGather, SkipPair, SendSizes, SendRows, Sent, RecvSizes, Merge,
           BuildIndex, commVars
      <4>. QED BY <4>1
    <3>. QED BY <3>1, <3>2, <3>3
  <2>. QED BY <2>2, <2>3, <2>4 DEF Got
<1>4. CASE ~Past(t, q)
  <2>1. t = p
    BY <1>1, <1>4 DEF Past, Untouched
  <2>2. proc[p] = p /\ q = proc2[p] /\ (SkipPair(p) \/ RecvRows(p))
    BY <1>1, <1>4, <2>1, PastStep
  <2>3. pc[p] \in InPairs
    BY <2>2 DEF SkipPair, RecvRows, InPairs
  <2>4. Sealed(q) /\ p + 1 \in DOMAIN gathered[q] /\ p \in Int
    BY <1>1, <1>2, <2>1, <2>2, <2>3
  <2>5. ToSend(q, p)' = ToSend(q, p)
    BY <2>4, SealedKept
  <2>6. CASE RecvRows(p)
    <3>1. PICK i \in FirstTagged(p, q, 1) :
            recvRows' = [recvRows EXCEPT ![p][q] = chan[q][p][i].data]
      BY <2>2, <2>6 DEF RecvRows
    <3>2. chan[q][p][i].data = ToSend(q, p)
      BY <3>1, Found
    <3>3. recvRows'[p][q] = ToSend(q, p)
      BY <1>1, <3>1, <3>2 DEF Tables
    <3>. QED BY <2>1, <2>5, <3>3 DEF Got
  <2>7. CASE SkipPair(p)
    <3>1. recvRows' = recvRows
      BY <2>7 DEF SkipPair, commVars
    <3>2. RowsFor(q, p) = {}
      <4>1. CASE q = p
        BY <4>1 DEF RowsFor
      <4>2. CASE q # p
        <5>1. ~(gathered[q][p + 1] > 0)
          BY <2>2, <2>7, <4>2 DEF SkipPair, Transfer
        <5>2. gathered[q][p + 1] = DataSize(q, p)
          <6>1. gathered[q][p + 1] = DataSize(q, (p + 1) - 1)
            BY <1>1, <2>4 DEF Said
          <6>2. (p + 1) - 1 = p
            BY <2>4
          <6>. QED BY <6>1, <6>2
        <5>3. Known(q)
          BY DEF RowsInv
        <5>. QED BY <5>1, <5>2, <5>3, DataSizeType
      <4>. QED BY <4>1, <4>2
    <3>3. ToSend(q, p) = Nothing
      BY <3>2, NothingFor
    <3>4. recvRows[p][q] = Nothing \/ recvRows[p][q] = ToSend(q, p)
      BY DEF IInv, PairInv, Arrived
    <3>. QED BY <2>1, <2>5, <3>1, <3>3, <3>4 DEF Got
  <2>. QED BY <2>2, <2>6, <2>7
<1>. QED BY <1>3, <1>4

LEMMA LoopInvStep ==
  ASSUME IInv, RowsInv, LoopInv, NEW p \in Rank, Step(p) PROVE LoopInv'
<1>1. \A q \in Rank \ {p} : Untouched(q)
  BY RowsStep
<1>2. Tables /\ Shapes
  BY DEF IInv, RowsInv
<1>3. Turn(p)' /\ Said(p)'
  BY <1>2, TurnStep, SaidStep DEF LoopInv
<1>4. ASSUME NEW q \in Rank \ {p} PROVE Turn(q)' /\ Said(q)'
  <2>1. Turn(q) /\ Said(q) /\ Untouched(q)
    BY <1>1 DEF LoopInv
  <2>2. \A i \in DOMAIN gathered[q] : gathered[q][i] = DataSize(q, i - 1)'
    BY <2>1, SaidKept
  <2>. QED BY <2>1, <2>2 DEF Turn, Said, Untouched
<1>5. \A q \in Rank : Heard(q)'
  BY HeardStep
<1>6. \A t, q \in Rank : Past(t, q)' => Got(t, q)'
  BY GotStep
<1>. QED BY <1>3, <1>4, <1>5, <1>6 DEF LoopInv

-----------------------------------------------------------------------------
(* The columns of every row, at any time                                   *)

Merged(p) == pc[p] \in {"index", "done"}

Expected(p, r) ==
  IF pc[p] = "compute" THEN {}
  ELSE IF pc[p] = "diagonal" THEN RowCols(p, r)
  ELSE IF Merged(p) /\ r \in OwnRows[p] THEN WholeRow(p, r)
  ELSE RowCols(p, r) \cup Diagonal(p, r)

ContentsInv == \A p \in Rank : \A r \in Rows : Held(p, r) = Expected(p, r)

(* A whole row is made of what the ranks couple and the diagonal           *)
LEMMA WholeParts ==
  ASSUME NEW p \in Rank, NEW r \in OwnRows[p]
  PROVE  WholeRow(p, r) = (UNION {RowCols(q, r) : q \in Rank}) \cup Diagonal(p, r)
<1> DEFINE all == UNION {ColDof[c] : c \in {e \in Cell : r \in RowDof[e]}}
<1>1. ASSUME NEW x PROVE x \in all <=> \E q \in Rank : x \in CellCols(q, r)
  <2>1. ASSUME x \in all PROVE \E q \in Rank : x \in CellCols(q, r)
    <3>1. PICK c \in Cell : r \in RowDof[c] /\ x \in ColDof[c]
      BY <2>1
    <3>2. Part[c] \in Rank /\ c \in CellsOf(Part[c])
      BY GraphAssumption DEF CellsOf
    <3>3. x \in CellCols(Part[c], r)
      BY <3>1, <3>2 DEF CellCols
    <3>. QED BY <3>2, <3>3
  <2>2. ASSUME NEW q \in Rank, x \in CellCols(q, r) PROVE x \in all
    BY <2>2 DEF CellCols, CellsOf
  <2>. QED BY <2>1, <2>2
<1>2. WholeRow(p, r) = (IF ZeroPattern THEN {} ELSE all) \cup Diagonal(p, r)
  BY DEF WholeRow, Diagonal
<1>3. UNION {RowCols(q, r) : q \in Rank} = IF ZeroPattern THEN {} ELSE all
  <2> HIDE DEF all
  <2>. QED BY <1>1 DEF RowCols
<1>. QED BY <1>2, <1>3

LEMMA NoDiagonal ==
  ASSUME NEW p \in Rank, NEW r, ~(DiagIsNonZero /\ NRow[p] > 0 /\ NCol[p] > 0)
                                \/ r \notin OwnRows[p]
  PROVE  Diagonal(p, r) = {}
<1>1. CASE r \in OwnRows[p]
  <2>1. r \in FirstRow[p] .. FirstRow[p] + NRow[p] - 1
    BY <1>1 DEF OwnRows
  <2>2. FirstRow[p] \in Nat /\ NRow[p] \in Nat /\ NCol[p] \in Nat
    BY RowRanges
  <2>3. r - FirstRow[p] < NCol[p] => NRow[p] > 0 /\ NCol[p] > 0
    BY <2>1, <2>2
  <2>. QED BY <1>1, <2>3 DEF Diagonal
<1>2. CASE r \notin OwnRows[p]
  BY <1>2 DEF Diagonal
<1>. QED BY <1>1, <1>2

(* What a rank receives for its row is what the others couple              *)
LEMMA ReceivedWhole ==
  ASSUME IInv, RowsInv, LoopInv, ContentsInv, NEW p \in Rank, pc[p] = "merge",
         NEW r \in OwnRows[p]
  PROVE  Received(p, r) = UNION {RowCols(q, r) : q \in Rank \ {p}}
<1>1. r \in Rows /\ OwnerOfRow(r) = p
  BY OwnerUnique
<1>2. ASSUME NEW q \in Rank PROVE Sealed(q) /\ recvRows[p][q] = ToSend(q, p)
  <2>1. proc[p] = NProc /\ p \in Nat /\ p < NProc /\ NProc \in Nat
    BY Ranks DEF LoopInv, Turn
  <2>2. Past(p, q)
    BY <2>1 DEF Past
  <2>3. Len(gathered[q]) >= NProc /\ Len(gathered[q]) \in Nat
    <3>1. Heard(p) /\ gathered[q] \in Seq(Nat) /\ pc[p] \notin InPairs
      BY DEF LoopInv, Said, InPairs
    <3>2. Len(gathered[q]) >= proc[p] + 0
      BY <3>1 DEF Heard
    <3>. QED BY <2>1, <3>1, <3>2
  <2>4. 1 \in DOMAIN gathered[q]
    BY <2>1, <2>3 DEF LoopInv, Said
  <2>. QED BY <2>2, <2>4, SaidSealed DEF LoopInv, Got
<1>3. ASSUME NEW q \in Rank \ {p}
      PROVE  /\ r \in DOMAIN recvRows[p][q] => recvRows[p][q][r] = RowCols(q, r)
             /\ r \notin DOMAIN recvRows[p][q] => RowCols(q, r) = {}
  <2>1. r \notin OwnRows[q]
    BY RowRanges
  <2>2. Held(q, r) = RowCols(q, r)
    <3>1. Held(q, r) = Expected(q, r) /\ Diagonal(q, r) = {}
      BY <1>1, <2>1, NoDiagonal DEF ContentsInv
    <3>. QED BY <1>2, <2>1, <3>1 DEF Expected, Sealed
  <2>3. r \in DOMAIN recvRows[p][q] <=> r \in DOMAIN storage[q]
    <3>1. DOMAIN recvRows[p][q] = {s \in DOMAIN storage[q] : storage[q][s].rank = p}
      BY <1>2 DEF ToSend, RowsFor, RowsOf
    <3>2. \A s \in DOMAIN storage[q] : storage[q][s].rank = OwnerOfRow(s)
      BY DEF IInv, RowsMarked
    <3>. QED BY <1>1, <3>1, <3>2
  <2>4. r \in DOMAIN recvRows[p][q] => recvRows[p][q][r] = storage[q][r].cols
    BY RowReceived
  <2>. QED BY <2>2, <2>3, <2>4 DEF Held
<1>4. r \notin DOMAIN recvRows[p][p]
  BY RowReceived
<1>5. ASSUME NEW x PROVE x \in Received(p, r) <=> \E q \in Rank \ {p} : x \in RowCols(q, r)
  <2>1. x \in Received(p, r) <=> \E q \in Rank : r \in DOMAIN recvRows[p][q] /\ x \in recvRows[p][q][r]
    BY DEF Received
  <2>. QED BY <1>3, <1>4, <2>1
<1>. QED BY <1>5

LEMMA MergedRow ==
  ASSUME IInv, RowsInv, NEW p \in Rank, Merge(p), NEW r
  PROVE  Held(p, r)' = Held(p, r) \cup Received(p, r)
<1>1. /\ DOMAIN storage'[p] = DOMAIN storage[p] \cup GotRows(p)
      /\ \A s \in DOMAIN storage'[p] : storage'[p][s].cols = Held(p, s) \cup Received(p, s)
  BY MergeStep DEF RowsInv
<1>2. r \notin GotRows(p) => Received(p, r) = {}
  BY ReceivedType DEF RowsInv
<1>3. r \notin DOMAIN storage'[p] => Held(p, r) = {} /\ Received(p, r) = {}
  BY <1>1, <1>2 DEF Held
<1>4. Held(p, r)' = IF r \in DOMAIN storage'[p] THEN storage'[p][r].cols ELSE {}
  BY DEF Held
<1>. QED BY <1>1, <1>3, <1>4

LEMMA ContentsInit == Init => ContentsInv
<1> SUFFICES ASSUME Init, NEW p \in Rank, NEW r \in Rows PROVE Held(p, r) = Expected(p, r)
  BY DEF ContentsInv
<1>. QED BY DEF Init, Held, Nothing, Expected

LEMMA ContentsStep ==
  ASSUME NoRowMissing, IInv, RowsInv, LoopInv, ContentsInv, NEW p \in Rank, Step(p)
  PROVE  ContentsInv'
<1>1. Tables /\ Shapes /\ p \in DOMAIN storage /\ p \in DOMAIN pc /\ Known(p)
  BY DEF IInv, RowsInv, Tables
<1>2. \A q \in Rank \ {p} : Untouched(q)
  BY RowsStep
<1>3. \A r \in Rows : Held(p, r) = Expected(p, r)
  BY DEF ContentsInv
<1>4. SUFFICES ASSUME NEW r \in Rows PROVE Held(p, r)' = Expected(p, r)'
  <2>1. ASSUME NEW q \in Rank \ {p}, NEW r \in Rows PROVE Held(q, r)' = Expected(q, r)'
    <3>1. Held(q, r) = Expected(q, r) /\ storage'[q] = storage[q] /\ pc'[q] = pc[q]
      BY <1>2 DEF ContentsInv, Untouched
    <3>. QED BY <3>1 DEF Held, Expected, Merged
  <2>. QED BY <1>4, <2>1 DEF ContentsInv
<1>5. CASE LoopStep(p)
  <2>1. storage' = storage /\ pc[p] \in InLoops /\ pc'[p] \in InLoops \cup {"merge"}
    BY <1>1, <1>5, LoopFrame
  <2>. QED BY <1>3, <2>1 DEF Held, Expected, Merged, InLoops
<1>6. CASE ComputeGraph(p)
  <2>1. /\ pc'[p] = IF DiagIsNonZero /\ NRow[p] > 0 /\ NCol[p] > 0 THEN "diagonal" ELSE "count"
        /\ storage'[p] = CASE ZeroPattern -> Nothing
                           [] ~ZeroPattern /\ buildGraphWithTranspose -> Transpose(p)
                           [] OTHER -> Coupled(p)
    BY <1>1, <1>6 DEF ComputeGraph, Go
  <2>2. Held(p, r)' = RowCols(p, r)
    <3>1. CASE ZeroPattern
      BY <2>1, <3>1 DEF Held, RowCols, Nothing
    <3>2. CASE ~ZeroPattern
      <4>1. Computed(storage'[p], p)
        BY <2>1, <3>2, CoupledComputed, TransposeComputed
      <4>2. r \in DOMAIN storage'[p] => storage'[p][r].cols = CellCols(p, r)
        <5>1. Row(p, r, CellCols(p, r)).cols = CellCols(p, r)
          BY DEF Row
        <5>. QED BY <4>1, <5>1 DEF Computed
      <4>3. r \notin DOMAIN storage'[p] => CellCols(p, r) = {}
        BY <4>1 DEF Computed
      <4>. QED BY <3>2, <4>2, <4>3 DEF Held, RowCols
    <3>. QED BY <3>1, <3>2
  <2>3. pc'[p] = "count" => Diagonal(p, r) = {}
    BY <2>1, NoDiagonal
  <2>. QED BY <2>1, <2>2, <2>3 DEF Expected, Merged
<1>7. CASE AddMissingZeroEntriesDiagonal(p)
  <2>1. pc[p] = "diagonal" /\ pc'[p] = "count"
    BY <1>1, <1>7 DEF AddMissingZeroEntriesDiagonal, Go
  <2>2. Held(p, r) = RowCols(p, r)
    BY <1>3, <2>1 DEF Expected
  <2>3. /\ DOMAIN storage'[p] = DOMAIN storage[p]
        /\ \A s \in DOMAIN storage[p] : storage'[p][s] = With(storage[p][s], Diagonal(p, s))
    BY <1>1, <1>7, DiagonalStep
  <2>4. Held(p, r)' = RowCols(p, r) \cup Diagonal(p, r)
    <3>1. CASE r \in DOMAIN storage[p]
      <4>1. storage[p][r] \in RowRecord(p) /\ Diagonal(p, r) \in SUBSET Cols
        BY <1>1, <3>1, DiagonalType DEF Known, KnownIn
      <4>2. storage'[p][r].cols = storage[p][r].cols \cup Diagonal(p, r)
        BY <2>3, <3>1, <4>1, Widened
      <4>. QED BY <2>2, <2>3, <3>1, <4>2 DEF Held
    <3>2. CASE r \notin DOMAIN storage[p]
      <4>1. OwnRows[p] \subseteq DOMAIN storage[p]
        BY <2>1 DEF IInv, RowsMarked
      <4>2. Diagonal(p, r) = {}
        BY <3>2, <4>1, NoDiagonal
      <4>. QED BY <2>2, <2>3, <3>2, <4>2 DEF Held
    <3>. QED BY <3>1, <3>2
  <2>. QED BY <2>1, <2>4 DEF Expected, Merged
<1>8. CASE CountOwnRows(p) \/ BuildIndex(p)
  <2>1. storage' = storage /\ \/ pc[p] = "count" /\ pc'[p] = "gather"
                              \/ pc[p] = "index" /\ pc'[p] = "done"
    BY <1>1, <1>8 DEF CountOwnRows, BuildIndex, Go
  <2>. QED BY <1>3, <2>1 DEF Held, Expected, Merged
<1>9. CASE Merge(p)
  <2>1. pc[p] = "merge" /\ pc'[p] = "index"
    BY <1>1, <1>9 DEF Merge, Go
  <2>3. Held(p, r)' = Held(p, r) \cup Received(p, r)
    BY <1>9, MergedRow
  <2>4. Held(p, r) = RowCols(p, r) \cup Diagonal(p, r)
    BY <1>3, <2>1 DEF Expected, Merged
  <2>5. CASE r \in OwnRows[p]
    <3>1. Received(p, r) = UNION {RowCols(q, r) : q \in Rank \ {p}}
      BY <2>1, <2>5, ReceivedWhole
    <3>2. WholeRow(p, r) = (UNION {RowCols(q, r) : q \in Rank}) \cup Diagonal(p, r)
      BY <2>5, WholeParts
    <3>3. UNION {RowCols(q, r) : q \in Rank}
            = RowCols(p, r) \cup UNION {RowCols(q, r) : q \in Rank \ {p}}
      OBVIOUS
    <3>4. Held(p, r)' = WholeRow(p, r)
      BY <2>3, <2>4, <3>1, <3>2, <3>3
    <3>. QED BY <2>1, <2>5, <3>4 DEF Expected, Merged
  <2>6. CASE r \notin OwnRows[p]
    <3>1. r \notin GotRows(p)
      BY <2>6, GotOwnRows
    <3>2. Received(p, r) = {}
      BY <3>1, ReceivedType DEF RowsInv
    <3>. QED BY <2>1, <2>3, <2>4, <2>6, <3>2 DEF Expected, Merged
  <2>. QED BY <2>5, <2>6
<1>. QED BY <1>5, <1>6, <1>7, <1>8, <1>9 DEF Step, LoopStep

-----------------------------------------------------------------------------
(* The counts                                                              *)

LEMMA SumOfOne ==
  ASSUME NEW F, NEW r, F[r] \in Int, DOMAIN F \in {{}, {r}}
  PROVE  SumFunction(F) = IF r \in DOMAIN F THEN F[r] ELSE 0
<1>1. CASE DOMAIN F = {}
  BY <1>1, SumEmpty DEF SumFunction
<1>2. CASE DOMAIN F = {r}
  <2>1. IsFiniteSet({}) /\ r \notin {} /\ {} \cup {r} = {r}
    BY FS_EmptySet
  <2>2. SumFunctionOnSet(F, {} \cup {r}) = F[r] + SumFunctionOnSet(F, {})
    BY <2>1, SumAddTo
  <2>3. SumFunctionOnSet(F, {}) = 0
    BY SumEmpty
  <2>4. SumFunctionOnSet(F, {r}) = F[r]
    <3>1. SumFunctionOnSet(F, {r}) = SumFunctionOnSet(F, {} \cup {r})
      BY <2>1, Zenon
    <3>. QED BY <2>2, <2>3, <3>1
  <2>. QED BY <1>2, <2>4 DEF SumFunction
<1>. QED BY <1>1, <1>2

LEMMA SumType ==
  ASSUME NEW F, IsFiniteSet(DOMAIN F), \A r \in DOMAIN F : F[r] \in Nat
  PROVE  SumFunction(F) \in Nat
BY SumNat DEF SumFunction

LEMMA SplitCard ==
  ASSUME NEW S, NEW T, IsFiniteSet(S), IsFiniteSet(T), S \cap T = {}
  PROVE  /\ Cardinality(S \cup T) = Cardinality(S) + Cardinality(T)
         /\ Cardinality(S) \in Nat /\ Cardinality(T) \in Nat
<1>1. Cardinality(S \cup T) = Cardinality(S) + Cardinality(T) - Cardinality(S \cap T)
  BY FS_Union
<1>2. Cardinality(S \cap T) = 0
  BY FS_EmptySet
<1>3. Cardinality(S) \in Nat /\ Cardinality(T) \in Nat
  BY FS_CardinalityType
<1>. QED BY <1>1, <1>2, <1>3

(* The rows of the rank with the number of r: r, if the rank has it        *)
LEMMA RowsAtNumber ==
  ASSUME IInv, NEW p \in Rank, Known(p), NEW r \in OwnRows[p]
  PROVE  RowsAt(p, LocalOf(p, r)) = {s \in {r} : r \in DOMAIN storage[p]}
<1>1. r \in ToSet(RowMap[p]) /\ OwnerOfRow(r) = p
  BY KnownRow, OwnerUnique
<1>2. ASSUME NEW s \in RowsAt(p, LocalOf(p, r)) PROVE s = r /\ r \in DOMAIN storage[p]
  <2>1. s \in DOMAIN storage[p] /\ storage[p][s].local = LocalOf(p, r)
    BY DEF RowsAt, RowsOf
  <2>2. s \in ToSet(RowMap[p]) /\ LocalOf(p, s) = LocalOf(p, r)
    BY <2>1 DEF Known, KnownIn
  <2>. QED BY <1>1, <2>1, <2>2, OneRowPerNumber
<1>3. ASSUME r \in DOMAIN storage[p] PROVE r \in RowsAt(p, LocalOf(p, r))
  <2>1. storage[p][r].rank = p
    BY <1>1, <1>3 DEF IInv, RowsMarked
  <2>2. storage[p][r].local = LocalOf(p, r)
    BY <1>3 DEF Known, KnownIn
  <2>. QED BY <1>3, <2>1, <2>2 DEF RowsAt, RowsOf
<1>. QED BY <1>2, <1>3

Widths(p) == [r \in OwnRows[p] |-> Cardinality(Held(p, r))]

(* The rows of the rank of any marked set have the sum of all its rows     *)
LEMMA OwnWidths ==
  ASSUME IInv, NEW p \in Rank, Known(p)
  PROVE  /\ RowsOf(p, p) = OwnRows[p] \cap DOMAIN storage[p]
         /\ SumFunction(Widths(p)) \in Nat
         /\ SumFunction([r \in RowsOf(p, p) |-> Width(p, r)]) = SumFunction(Widths(p))
<1> DEFINE S == OwnRows[p]
           T == OwnRows[p] \cap DOMAIN storage[p]
           F == Widths(p)
           G == [r \in T |-> Width(p, r)]
<1>1. RowsOf(p, p) = T
  <2>1. \A r \in DOMAIN storage[p] : r \in Rows /\ storage[p][r].rank = OwnerOfRow(r)
    BY DEF IInv, RowsMarked
  <2>2. \A r \in DOMAIN storage[p] : OwnerOfRow(r) = p <=> r \in OwnRows[p]
    BY <2>1, OwnerUnique, OwnerFound
  <2>. QED BY <2>1, <2>2 DEF RowsOf
<1>2. IsFiniteSet(S) /\ T \in SUBSET S /\ IsFiniteSet(T)
  BY RowRanges, FS_Subset
<1>3. DOMAIN F = S /\ DOMAIN G = T
  BY DEF Widths
<1>4. \A r \in S : F[r] \in Nat /\ (r \notin T => F[r] = 0)
  <2>1. ASSUME NEW r \in S PROVE F[r] \in Nat /\ (r \notin T => F[r] = 0)
    <3>1. F[r] = Cardinality(Held(p, r))
      BY DEF Widths
    <3>2. Cardinality(Held(p, r)) \in Nat
      BY KnownFinite, FS_CardinalityType
    <3>3. r \notin T => Held(p, r) = {}
      BY DEF Held
    <3>. QED BY <3>1, <3>2, <3>3, FS_EmptySet
  <2>. QED BY <2>1
<1>5. \A r \in T : G[r] = F[r]
  BY DEF Widths, Width, Held
<1>10. F = Widths(p) /\ G = [r \in RowsOf(p, p) |-> Width(p, r)]
  BY <1>1
<1> HIDE DEF S, T, F, G
<1>6. SumFunctionOnSet(F, S) = SumFunctionOnSet(F, T)
  BY <1>2, <1>4, SumOnPart
<1>7. SumFunctionOnSet(F, T) = SumFunctionOnSet(G, T)
  BY <1>2, <1>4, <1>5, SumSame
<1>8. SumFunctionOnSet(F, S) \in Nat
  BY <1>2, <1>4, SumNat
<1>9. SumFunction(F) = SumFunctionOnSet(F, S) /\ SumFunction(G) = SumFunctionOnSet(G, T)
  BY <1>3 DEF SumFunction
<1>11. SumFunction(F) \in Nat /\ SumFunction(G) = SumFunction(F)
  BY <1>6, <1>7, <1>8, <1>9
<1>12. RowsOf(p, p) = OwnRows[p] \cap DOMAIN storage[p]
  BY <1>1 DEF T
<1>. QED BY <1>10, <1>11, <1>12, Zenon

Counted(p) ==
  /\ OwnersHaveColumns => \A r \in OwnRows[p] :
       /\ nNz[p][LocalOf(p, r)] = Cardinality(Held(p, r) \cap OwnCols[p])
       /\ nOz[p][LocalOf(p, r)] = Cardinality(Held(p, r) \ OwnCols[p])
  /\ sumNz[p] = SumFunction(Widths(p))

Indexed(p) == ia[p].last = sumNz[p] /\ ia[p].filled = sumNz[p]

CountsInv ==
  \A p \in Rank : (Sealed(p) => Counted(p)) /\ (pc[p] = "done" => Indexed(p))

(* The first count                                                         *)
LEMMA CountStep ==
  ASSUME IInv, RowsInv, NEW p \in Rank, CountOwnRows(p)
  PROVE  Counted(p)'
<1>1. Known(p) /\ Shapes
  BY DEF RowsInv
<1> DEFINE A(s) == {c \in storage[p][s].cols : OnBlockDiagonal(p, c)}
           B(s) == {c \in storage[p][s].cols : ~OnBlockDiagonal(p, c)}
           FA(l) == [s \in RowsAt(p, l) |-> Cardinality(A(s))]
           FB(l) == [s \in RowsAt(p, l) |-> Cardinality(B(s))]
<1>2. /\ storage' = storage
      /\ nNz'[p] = [l \in Local[p] |-> SumFunction(FA(l))]
      /\ nOz'[p] = [l \in Local[p] |-> SumFunction(FB(l))]
      /\ sumNz'[p] = SumFunction([r \in RowsOf(p, p) |-> Width(p, r)])
  BY <1>1 DEF CountOwnRows, Shapes
<1>3. ASSUME OwnersHaveColumns, NEW r \in OwnRows[p]
      PROVE  /\ nNz'[p][LocalOf(p, r)] = Cardinality(Held(p, r) \cap OwnCols[p])
             /\ nOz'[p][LocalOf(p, r)] = Cardinality(Held(p, r) \ OwnCols[p])
  <2>1. PICK l \in Local[p] : l = LocalOf(p, r)
    BY KnownRow, LocalFound
  <2>2. RowsAt(p, l) = {s \in {r} : r \in DOMAIN storage[p]}
    BY <1>1, <2>1, RowsAtNumber
  <2>3. NCol[p] > 0
    <3>1. r \in FirstRow[p] .. FirstRow[p] + NRow[p] - 1 /\ FirstRow[p] \in Nat /\ NRow[p] \in Nat
      BY RowRanges DEF OwnRows
    <3>2. NRow[p] > 0
      BY <3>1
    <3>. QED BY <1>3, <3>2 DEF OwnersHaveColumns
  <2>4. CASE r \in DOMAIN storage[p]
    <3>1. Held(p, r) = storage[p][r].cols /\ Held(p, r) \in SUBSET Cols /\ IsFiniteSet(Held(p, r))
      BY <1>1, <2>4, KnownFinite DEF Held
    <3>2. A(r) = Held(p, r) \cap OwnCols[p] /\ B(r) = Held(p, r) \ OwnCols[p]
      BY <2>3, <3>1, ColumnTests
    <3>3. Cardinality(A(r)) \in Int /\ Cardinality(B(r)) \in Int
      <4>1. IsFiniteSet(A(r)) /\ IsFiniteSet(B(r))
        BY <3>1, FS_Subset
      <4>. QED BY <4>1, FS_CardinalityType
    <3>4. RowsAt(p, l) = {r}
      BY <2>2, <2>4
    <3>5. /\ DOMAIN FA(l) = {r} /\ FA(l)[r] = Cardinality(A(r))
          /\ DOMAIN FB(l) = {r} /\ FB(l)[r] = Cardinality(B(r))
      BY <3>4
    <3> HIDE DEF A, B, FA, FB
    <3>6. SumFunction(FA(l)) = Cardinality(A(r)) /\ SumFunction(FB(l)) = Cardinality(B(r))
      BY <3>3, <3>5, SumOfOne
    <3>. QED BY <1>2, <2>1, <3>2, <3>6
  <2>5. CASE r \notin DOMAIN storage[p]
    <3>1. DOMAIN FA(l) = {} /\ DOMAIN FB(l) = {}
      BY <2>2, <2>5
    <3>2. Held(p, r) \cap OwnCols[p] = {} /\ Held(p, r) \ OwnCols[p] = {}
      BY <2>5 DEF Held
    <3> HIDE DEF FA, FB
    <3>3. SumFunction(FA(l)) = 0 /\ SumFunction(FB(l)) = 0
      BY <3>1, SumEmpty DEF SumFunction
    <3>. QED BY <1>2, <2>1, <3>2, <3>3, FS_EmptySet
  <2>. QED BY <2>4, <2>5
<1>4. sumNz'[p] = SumFunction(Widths(p))
  BY <1>1, <1>2, OwnWidths
<1>5. Widths(p)' = Widths(p) /\ \A r : Held(p, r)' = Held(p, r)
  BY <1>2 DEF Widths, Held
<1>. QED BY <1>3, <1>4, <1>5 DEF Counted

(* The columns that come in, split by their owner and counted              *)
LEMMA InsertedSplit ==
  ASSUME IInv, RowsInv, NEW p \in Rank, Merge(p), NEW r
  PROVE  /\ r \notin GotRows(p) => Inserted(p, r) = {}
         /\ IsFiniteSet(Inserted(p, r)) /\ Cardinality(Inserted(p, r)) \in Nat
         /\ Cardinality(Held(p, r)') = Cardinality(Held(p, r)) + Cardinality(Inserted(p, r))
         /\ LET A == {c \in Inserted(p, r) : DofGlobalClusterIsOnProc(p, c)}
                B == {c \in Inserted(p, r) : ~DofGlobalClusterIsOnProc(p, c)}
            IN  /\ Cardinality(A) \in Nat /\ Cardinality(B) \in Nat
                /\ Cardinality(Held(p, r)' \cap OwnCols[p])
                     = Cardinality(Held(p, r) \cap OwnCols[p]) + Cardinality(A)
                /\ Cardinality(Held(p, r)' \ OwnCols[p])
                     = Cardinality(Held(p, r) \ OwnCols[p]) + Cardinality(B)
<1> DEFINE H == Held(p, r)
           I == Inserted(p, r)
           O == OwnCols[p]
           A == {c \in I : DofGlobalClusterIsOnProc(p, c)}
           B == {c \in I : ~DofGlobalClusterIsOnProc(p, c)}
<1>1. IsFiniteSet(H)
  BY KnownFinite DEF RowsInv
<1>2. Received(p, r) \in SUBSET Cols /\ (r \notin GotRows(p) => Received(p, r) = {})
  BY ReceivedType DEF RowsInv
<1>3. I \in SUBSET Cols /\ IsFiniteSet(I) /\ H \cap I = {}
  <2>1. I \in SUBSET Cols /\ H \cap I = {}
    BY <1>2 DEF Inserted
  <2>. QED BY <2>1, RowRanges, FS_Subset
<1>4. Held(p, r)' = H \cup I
  BY MergedRow DEF Inserted
<1>5. A = I \cap O /\ B = I \ O
  BY <1>3, ColumnTests
<1>6. r \notin GotRows(p) => I = {}
  BY <1>2 DEF Inserted
<1> HIDE DEF H, I, O, A, B
<1>7. /\ IsFiniteSet(H \cap O) /\ IsFiniteSet(A) /\ IsFiniteSet(H \ O) /\ IsFiniteSet(B)
      /\ (H \cap O) \cap A = {} /\ (H \ O) \cap B = {}
      /\ (H \cup I) \cap O = (H \cap O) \cup A /\ (H \cup I) \ O = (H \ O) \cup B
  <2>1. H \cap O \in SUBSET H /\ H \ O \in SUBSET H /\ A \in SUBSET I /\ B \in SUBSET I
    BY <1>5
  <2>2. IsFiniteSet(H \cap O) /\ IsFiniteSet(A) /\ IsFiniteSet(H \ O) /\ IsFiniteSet(B)
    BY <1>1, <1>3, <2>1, FS_Subset
  <2>3. (H \cap O) \cap A = {} /\ (H \ O) \cap B = {}
    BY <1>3, <1>5
  <2>4. (H \cup I) \cap O = (H \cap O) \cup A /\ (H \cup I) \ O = (H \ O) \cup B
    BY <1>5
  <2>. QED BY <2>2, <2>3, <2>4
<1>8. /\ Cardinality(H \cup I) = Cardinality(H) + Cardinality(I) /\ Cardinality(I) \in Nat
      /\ Cardinality((H \cap O) \cup A) = Cardinality(H \cap O) + Cardinality(A)
      /\ Cardinality((H \ O) \cup B) = Cardinality(H \ O) + Cardinality(B)
      /\ Cardinality(A) \in Nat /\ Cardinality(B) \in Nat
  BY <1>1, <1>3, <1>7, SplitCard
<1>9. /\ Cardinality(H \cup I) = Cardinality(H) + Cardinality(I)
      /\ Cardinality((H \cup I) \cap O) = Cardinality(H \cap O) + Cardinality(A)
      /\ Cardinality((H \cup I) \ O) = Cardinality(H \ O) + Cardinality(B)
  BY <1>7, <1>8, Zenon
<1>10. (r \notin GotRows(p) => I = {}) /\ IsFiniteSet(I) /\ Cardinality(I) \in Nat
       /\ Cardinality(A) \in Nat /\ Cardinality(B) \in Nat
  BY <1>3, <1>6, <1>8
<1>. QED BY <1>4, <1>9, <1>10, Zenon DEF H, I, O, A, B

(* The counts made while rows are merged                                   *)
LEMMA MergeCount ==
  ASSUME IInv, RowsInv, NEW p \in Rank, Merge(p), Counted(p)
  PROVE  Counted(p)'
<1> DEFINE A(s) == {c \in Inserted(p, s) : DofGlobalClusterIsOnProc(p, c)}
           B(s) == {c \in Inserted(p, s) : ~DofGlobalClusterIsOnProc(p, c)}
           at(l) == {r \in GotRows(p) : r \in OwnRows[p] /\ LocalOf(p, r) = l}
           FA(l) == [s \in at(l) |-> Cardinality(A(s))]
           FB(l) == [s \in at(l) |-> Cardinality(B(s))]
           FI == [s \in GotRows(p) |-> Cardinality(Inserted(p, s))]
<1>1. Known(p) /\ Shapes
  BY DEF RowsInv
<1>2. /\ nNz'[p] = [l \in Local[p] |-> nNz[p][l] + SumFunction(FA(l))]
      /\ nOz'[p] = [l \in Local[p] |-> nOz[p][l] + SumFunction(FB(l))]
      /\ sumNz'[p] = sumNz[p] + SumFunction(FI)
  BY <1>1 DEF Merge, Shapes, GotRows
<1>3. ASSUME OwnersHaveColumns, NEW r \in OwnRows[p]
      PROVE  /\ nNz'[p][LocalOf(p, r)] = Cardinality(Held(p, r)' \cap OwnCols[p])
             /\ nOz'[p][LocalOf(p, r)] = Cardinality(Held(p, r)' \ OwnCols[p])
  <2>1. PICK l \in Local[p] : l = LocalOf(p, r)
    BY KnownRow, LocalFound
  <2>2. /\ nNz[p][l] = Cardinality(Held(p, r) \cap OwnCols[p])
        /\ nOz[p][l] = Cardinality(Held(p, r) \ OwnCols[p])
    BY <1>3, <2>1 DEF Counted
  <2>3. at(l) = {s \in {r} : r \in GotRows(p)}
    <3>1. ASSUME NEW s \in OwnRows[p], LocalOf(p, s) = LocalOf(p, r) PROVE s = r
      BY <3>1, KnownRow, OneRowPerNumber
    <3>. QED BY <2>1, <3>1
  <2>4. /\ Cardinality(A(r)) \in Nat /\ Cardinality(B(r)) \in Nat
        /\ Cardinality(Held(p, r)' \cap OwnCols[p])
             = Cardinality(Held(p, r) \cap OwnCols[p]) + Cardinality(A(r))
        /\ Cardinality(Held(p, r)' \ OwnCols[p])
             = Cardinality(Held(p, r) \ OwnCols[p]) + Cardinality(B(r))
        /\ r \notin GotRows(p) => Inserted(p, r) = {}
    BY InsertedSplit
  <2>5. r \notin GotRows(p) => Cardinality(A(r)) = 0 /\ Cardinality(B(r)) = 0
    BY <2>4, FS_EmptySet
  <2>6. SumFunction(FA(l)) = Cardinality(A(r)) /\ SumFunction(FB(l)) = Cardinality(B(r))
    <3>1. CASE r \in GotRows(p)
      <4>1. at(l) = {r}
        BY <2>3, <3>1
      <4>2. /\ DOMAIN FA(l) = {r} /\ FA(l)[r] = Cardinality(A(r))
            /\ DOMAIN FB(l) = {r} /\ FB(l)[r] = Cardinality(B(r))
        BY <4>1
      <4> HIDE DEF A, B, at, FA, FB
      <4>3. Cardinality(A(r)) \in Int /\ Cardinality(B(r)) \in Int
        BY <2>4
      <4>. QED BY <4>2, <4>3, SumOfOne
    <3>2. CASE r \notin GotRows(p)
      <4>1. DOMAIN FA(l) = {} /\ DOMAIN FB(l) = {}
        BY <2>3, <3>2
      <4> HIDE DEF A, B, at, FA, FB
      <4>2. SumFunction(FA(l)) = 0 /\ SumFunction(FB(l)) = 0
        BY <4>1, SumEmpty DEF SumFunction
      <4>. QED BY <2>5, <3>2, <4>2
    <3>. QED BY <3>1, <3>2
  <2> HIDE DEF A, B, at, FA, FB
  <2>7. nNz'[p][l] = nNz[p][l] + SumFunction(FA(l)) /\ nOz'[p][l] = nOz[p][l] + SumFunction(FB(l))
    BY <1>2
  <2>8. /\ nNz'[p][l] = Cardinality(Held(p, r)' \cap OwnCols[p])
        /\ nOz'[p][l] = Cardinality(Held(p, r)' \ OwnCols[p])
    BY <2>2, <2>4, <2>6, <2>7, Zenon
  <2>. QED BY <2>1, <2>8
<1>4. sumNz'[p] = SumFunction(Widths(p)')
  <2> DEFINE S == OwnRows[p]
             T == GotRows(p)
             W == Widths(p)
             V == [r \in S |-> Cardinality(Held(p, r)')]
             I == [r \in S |-> Cardinality(Inserted(p, r))]
  <2>1. T \in SUBSET S /\ IsFiniteSet(S) /\ IsFiniteSet(T)
    BY GotOwnRows, RowRanges, FS_Subset
  <2>2. DOMAIN W = S /\ DOMAIN V = S /\ DOMAIN FI = T /\ Widths(p)' = V
    BY DEF Widths
  <2>3. \A r \in S : /\ W[r] \in Int /\ I[r] \in Int /\ V[r] = W[r] + I[r]
                     /\ r \notin T => I[r] = 0
    <3>1. ASSUME NEW r \in S
          PROVE  /\ W[r] \in Int /\ I[r] \in Int /\ V[r] = W[r] + I[r]
                 /\ r \notin T => I[r] = 0
      <4>1. Cardinality(Held(p, r)') = Cardinality(Held(p, r)) + Cardinality(Inserted(p, r))
            /\ Cardinality(Inserted(p, r)) \in Nat /\ (r \notin T => Inserted(p, r) = {})
        BY InsertedSplit
      <4>2. W[r] = Cardinality(Held(p, r)) /\ I[r] = Cardinality(Inserted(p, r))
            /\ V[r] = Cardinality(Held(p, r)')
        BY DEF Widths
      <4>3. Cardinality(Held(p, r)) \in Nat
        BY <1>1, KnownFinite, FS_CardinalityType
      <4>4. r \notin T => Cardinality(Inserted(p, r)) = 0
        BY <4>1, FS_EmptySet
      <4> HIDE DEF W, V, I, T
      <4>5. W[r] \in Int /\ I[r] \in Int /\ (r \notin T => I[r] = 0)
        BY <4>1, <4>2, <4>3, <4>4
      <4>6. V[r] = W[r] + I[r]
        BY <4>1, <4>2, Zenon
      <4>. QED BY <4>5, <4>6
    <3>. QED BY <3>1
  <2>4. \A r \in T : FI[r] = I[r]
    BY <2>1
  <2> HIDE DEF S, T, W, V, I, FI
  <2>5. SumFunctionOnSet(V, S) = SumFunctionOnSet(W, S) + SumFunctionOnSet(I, S)
    BY <2>1, <2>3, SumPlus
  <2>6. SumFunctionOnSet(I, S) = SumFunctionOnSet(I, T)
    BY <2>1, <2>3, SumOnPart
  <2>7. SumFunctionOnSet(I, T) = SumFunctionOnSet(FI, T)
    BY <2>1, <2>3, <2>4, SumSame
  <2>8. /\ SumFunction(V) = SumFunctionOnSet(V, S) /\ SumFunction(W) = SumFunctionOnSet(W, S)
        /\ SumFunction(FI) = SumFunctionOnSet(FI, T)
    BY <2>2 DEF SumFunction
  <2>9. SumFunction(V) = SumFunction(W) + SumFunction(FI)
    BY <2>5, <2>6, <2>7, <2>8, Zenon
  <2>10. sumNz[p] = SumFunction(W)
    BY DEF Counted, W
  <2>. QED BY <1>2, <2>2, <2>9, <2>10, Zenon
<1>. QED BY <1>3, <1>4 DEF Counted

(* The index arrays end where the sum of the rows of the rank is           *)
LEMMA IndexStep ==
  ASSUME IInv, RowsInv, NEW p \in Rank, BuildIndex(p), Counted(p)
  PROVE  Indexed(p)'
<1> DEFINE range == FirstRow[p] .. LastRow[p]
           G == [r \in range \cap DOMAIN storage[p] |-> Width(p, r)]
           new == [last |-> sumNz[p], filled |-> SumFunction(G)]
<1>1. Known(p) /\ Shapes
  BY DEF RowsInv
<1>2. /\ ia'[p] = IF Cardinality(range) > 1 \/ sumNz[p] > 0 THEN new ELSE NoIndex
      /\ sumNz' = sumNz
  BY <1>1 DEF BuildIndex, Shapes, countVars
<1>3. /\ FirstRow[p] \in Nat /\ NRow[p] \in Nat
      /\ OwnRows[p] = FirstRow[p] .. FirstRow[p] + NRow[p] - 1
      /\ LastRow[p] = IF NRow[p] > 0 THEN FirstRow[p] + NRow[p] - 1 ELSE FirstRow[p]
  BY RowRanges DEF OwnRows, LastRow, LastOf
<1>4. /\ sumNz[p] = SumFunction(Widths(p)) /\ SumFunction(Widths(p)) \in Nat
      /\ RowsOf(p, p) = OwnRows[p] \cap DOMAIN storage[p]
      /\ SumFunction([r \in RowsOf(p, p) |-> Width(p, r)]) = SumFunction(Widths(p))
  BY <1>1, OwnWidths DEF Counted
<1>5. CASE NRow[p] > 0
  <2>1. range = OwnRows[p]
    BY <1>3, <1>5
  <2>2. G = [r \in RowsOf(p, p) |-> Width(p, r)]
    BY <1>4, <2>1
  <2> HIDE DEF G
  <2>3. SumFunction(G) = sumNz[p]
    BY <1>4, <2>2, Zenon
  <2>4. NoIndex.last = 0 /\ NoIndex.filled = 0 /\ new.last = sumNz[p] /\ new.filled = sumNz[p]
    BY <2>3 DEF NoIndex
  <2> HIDE DEF new, range
  <2>5. ~(sumNz[p] > 0) => sumNz[p] = 0
    BY <1>4
  <2>. QED BY <1>2, <2>4, <2>5 DEF Indexed
<1>6. CASE NRow[p] = 0
  <2>1. OwnRows[p] = {}
    BY <1>3, <1>6
  <2>2. sumNz[p] = 0
    <3>1. DOMAIN Widths(p) = {}
      BY <2>1 DEF Widths
    <3>2. SumFunction(Widths(p)) = 0
      BY <3>1, SumEmpty DEF SumFunction
    <3>. QED BY <1>4, <3>2
  <2>3. Cardinality(range) = 1
    <3>1. range = {FirstRow[p]}
      BY <1>3, <1>6
    <3>. QED BY <3>1, FS_Singleton
  <2> HIDE DEF range, new
  <2>4. ia'[p] = NoIndex
    BY <1>2, <2>2, <2>3
  <2>. QED BY <1>2, <2>2, <2>4 DEF Indexed, NoIndex
<1>. QED BY <1>3, <1>5, <1>6

(* What the counts of a rank are read from                                 *)
LEMMA CountsKept ==
  ASSUME NEW q \in Rank,
         storage'[q] = storage[q] /\ nNz'[q] = nNz[q] /\ nOz'[q] = nOz[q] /\ sumNz'[q] = sumNz[q]
  PROVE  Counted(q) => Counted(q)'
<1>1. \A r : Held(q, r)' = Held(q, r)
  BY DEF Held
<1>2. Widths(q)' = Widths(q)
  BY <1>1 DEF Widths
<1>. QED BY <1>1, <1>2 DEF Counted

LEMMA CountsInit == Init => CountsInv
BY DEF Init, CountsInv, Sealed

LEMMA CountsStep ==
  ASSUME IInv, RowsInv, CountsInv, NEW p \in Rank, Step(p)
  PROVE  CountsInv'
<1>1. Tables /\ Shapes /\ p \in DOMAIN pc
  BY DEF IInv, RowsInv, Tables
<1>2. \A q \in Rank \ {p} : Untouched(q)
  BY RowsStep
<1>3. ASSUME NEW q \in Rank \ {p}
      PROVE  (Sealed(q)' => Counted(q)') /\ (pc'[q] = "done" => Indexed(q)')
  <2>1. Untouched(q)
    BY <1>2
  <2>2. (Sealed(q)' => Sealed(q)) /\ (pc'[q] = "done" => pc[q] = "done")
    BY <2>1 DEF Untouched, Sealed
  <2>3. (Sealed(q) => Counted(q)) /\ (pc[q] = "done" => Indexed(q))
    BY DEF CountsInv
  <2>4. (Counted(q) => Counted(q)') /\ (Indexed(q) => Indexed(q)')
    BY <2>1, CountsKept DEF Untouched, Indexed
  <2>. QED BY <2>2, <2>3, <2>4
<1>4. SUFFICES (Sealed(p)' => Counted(p)') /\ (pc'[p] = "done" => Indexed(p)')
  BY <1>3 DEF CountsInv
<1>5. CASE LoopStep(p)
  <2>1. UNCHANGED <<storage, nNz, nOz, sumNz>> /\ pc[p] \in InLoops /\ pc'[p] \in InLoops \cup {"merge"}
    BY <1>1, <1>5, LoopFrame
  <2>2. Counted(p)
    BY <2>1 DEF CountsInv, Sealed, InLoops
  <2>3. Counted(p)'
    BY <2>1, <2>2, CountsKept
  <2>. QED BY <2>1, <2>3 DEF InLoops
<1>6. CASE ComputeGraph(p) \/ AddMissingZeroEntriesDiagonal(p)
  <2>1. pc'[p] \in {"diagonal", "count"}
    BY <1>1, <1>6 DEF ComputeGraph, AddMissingZeroEntriesDiagonal, Go
  <2>. QED BY <2>1 DEF Sealed
<1>7. CASE CountOwnRows(p)
  <2>1. pc'[p] = "gather"
    BY <1>1, <1>7 DEF CountOwnRows, Go
  <2>. QED BY <1>7, <2>1, CountStep
<1>8. CASE Merge(p)
  <2>1. pc[p] = "merge" /\ pc'[p] = "index"
    BY <1>1, <1>8 DEF Merge, Go
  <2>2. Counted(p)
    BY <2>1 DEF CountsInv, Sealed
  <2>. QED BY <1>8, <2>1, <2>2, MergeCount
<1>9. CASE BuildIndex(p)
  <2>1. pc[p] = "index" /\ UNCHANGED <<storage, nNz, nOz, sumNz>>
    BY <1>9 DEF BuildIndex, Go, countVars
  <2>2. Counted(p)
    BY <2>1 DEF CountsInv, Sealed
  <2>. QED BY <1>9, <2>1, <2>2, CountsKept, IndexStep
<1>. QED BY <1>5, <1>6, <1>7, <1>8, <1>9 DEF Step, LoopStep

-----------------------------------------------------------------------------
(* The invariants together                                                 *)

AllInv == IInv /\ RowsInv /\ LoopInv /\ ContentsInv /\ CountsInv

(* What the invariants say is read from the variables                      *)
LEMMA AllInvStays == AllInv /\ UNCHANGED vars => AllInv'
<1> SUFFICES ASSUME AllInv, UNCHANGED vars PROVE AllInv'
  OBVIOUS
<1>1. UNCHANGED <<pc, storage, nNz, nOz, sumNz, ia, proc, proc2, gathered, choices,
                  chan, recvSizes, recvRows>>
  BY DEF vars, countVars, loopVars, commVars
<1>2. IInv'
  BY StutterInv DEF AllInv
<1>3. RowsInv'
  BY <1>1 DEF AllInv, RowsInv, Shapes, Known
<1>4. LoopInv'
  <2>1. \A p, q \in Rank : ToSend(p, q)' = ToSend(p, q)
    BY <1>1 DEF ToSend, RowsFor, RowsOf
  <2>2. \A p : \A k : DataSize(p, k)' = DataSize(p, k)
    BY <1>1 DEF DataSize, SizesToSend, RowsFor, RowsOf, Width
  <2>3. ASSUME NEW p \in Rank PROVE Turn(p)' /\ Said(p)' /\ Heard(p)'
    BY <1>1, <2>2 DEF AllInv, LoopInv, Turn, Said, Heard
  <2>4. ASSUME NEW p \in Rank, NEW q \in Rank PROVE Past(p, q)' => Got(p, q)'
    BY <1>1, <2>1 DEF AllInv, LoopInv, Past, Got
  <2>. QED BY <2>3, <2>4 DEF LoopInv
<1>5. ContentsInv'
  BY <1>1 DEF AllInv, ContentsInv, Held, Expected, Merged
<1>6. CountsInv'
  <2>1. ASSUME NEW p \in Rank
        PROVE  (Sealed(p)' => Counted(p)') /\ (pc'[p] = "done" => Indexed(p)')
    <3>1. Counted(p) => Counted(p)'
      BY <1>1, CountsKept
    <3>. QED BY <1>1, <3>1 DEF AllInv, CountsInv, Sealed, Indexed
  <2>. QED BY <2>1 DEF CountsInv
<1>. QED BY <1>2, <1>3, <1>4, <1>5, <1>6 DEF AllInv

THEOREM AllInvariant ==
  ASSUME NoRowMissing
  PROVE  Spec => []AllInv
<1>1. Init => AllInv
  BY InitInv, RowsInit, LoopInit, ContentsInit, CountsInit DEF AllInv
<1>2. AllInv /\ [Next]_vars => AllInv'
  <2> SUFFICES ASSUME AllInv, [Next]_vars PROVE AllInv'
    OBVIOUS
  <2>1. IInv'
    BY NextInv DEF AllInv
  <2>2. ASSUME NEW p \in Rank, Step(p) PROVE AllInv'
    <3>1. RowsInv'
      BY <2>2, RowsStep DEF AllInv
    <3>2. LoopInv'
      BY <2>2, LoopInvStep DEF AllInv
    <3>3. ContentsInv'
      BY <2>2, ContentsStep DEF AllInv
    <3>4. CountsInv'
      BY <2>2, CountsStep DEF AllInv
    <3>. QED BY <2>1, <3>1, <3>2, <3>3, <3>4 DEF AllInv
  <2>3. CASE UNCHANGED vars
    BY <2>3, AllInvStays
  <2>. QED BY <2>2, <2>3 DEF Next, Finished
<1>. QED BY <1>1, <1>2, PTL DEF Spec

(* When close has returned, each owner has the whole of its rows: what the *)
(* cells of all ranks couple them with, sent and merged, and nothing else. *)
THEOREM RowsCompleteAlways ==
  ASSUME NoRowMissing, EveryRowCoupled
  PROVE  Spec => []RowsComplete
<1>1. AllInv => RowsComplete
  <2> SUFFICES ASSUME AllInv, NEW p \in Rank, pc[p] = "done", NEW r \in OwnRows[p]
               PROVE  r \in DOMAIN storage[p] /\ storage[p][r].cols = WholeRow(p, r)
    BY DEF RowsComplete, Done
  <2>1. r \in Rows
    BY RowRanges
  <2>2. Held(p, r) = WholeRow(p, r)
    BY <2>1 DEF AllInv, ContentsInv, Expected, Merged
  <2>3. WholeRow(p, r) # {}
    <3>1. PICK c \in Cell : r \in RowDof[c] /\ ColDof[c] # {}
      BY <2>1 DEF EveryRowCoupled
    <3>. QED BY <3>1 DEF EveryRowCoupled, WholeRow
  <2>. QED BY <2>2, <2>3 DEF Held
<1>. QED BY AllInvariant, <1>1, PTL

(* The counts of a rank, made in part before the exchange and in part as   *)
(* rows are merged, are those of its rows in the end.                      *)
THEOREM SplitMatchesOwnershipAlways ==
  ASSUME NoRowMissing, OwnersHaveColumns
  PROVE  Spec => []SplitMatchesOwnership
<1>1. AllInv => SplitMatchesOwnership
  <2> SUFFICES ASSUME AllInv, NEW p \in Rank, pc[p] = "done", NEW r \in OwnRows[p]
               PROVE  /\ nNz[p][LocalOf(p, r)] = Cardinality(WholeRow(p, r) \cap OwnCols[p])
                      /\ nOz[p][LocalOf(p, r)] = Cardinality(WholeRow(p, r) \ OwnCols[p])
    BY DEF SplitMatchesOwnership, Done
  <2>1. Held(p, r) = WholeRow(p, r)
    BY RowRanges DEF AllInv, ContentsInv, Expected, Merged
  <2>2. Counted(p)
    BY DEF AllInv, CountsInv, Sealed
  <2>. QED BY <2>1, <2>2 DEF Counted
<1>. QED BY AllInvariant, <1>1, PTL

(* The index arrays hold the rows of the rank and nothing else: what was   *)
(* counted while merging is where the columns end.                         *)
THEOREM IndexConsistentAlways ==
  ASSUME NoRowMissing
  PROVE  Spec => []IndexConsistent
<1>1. AllInv => IndexConsistent
  <2> SUFFICES ASSUME AllInv, NEW p \in Rank, pc[p] = "done"
               PROVE  /\ ia[p].last = ia[p].filled
                      /\ ia[p].filled =
                           SumFunction([r \in OwnRows[p] |-> Cardinality(WholeRow(p, r))])
    BY DEF IndexConsistent, Done
  <2>1. \A r \in OwnRows[p] : Held(p, r) = WholeRow(p, r)
    BY RowRanges DEF AllInv, ContentsInv, Expected, Merged
  <2>2. Widths(p) = [r \in OwnRows[p] |-> Cardinality(WholeRow(p, r))]
    BY <2>1 DEF Widths
  <2>3. Counted(p) /\ Indexed(p)
    BY DEF AllInv, CountsInv, Sealed
  <2>. QED BY <2>2, <2>3 DEF Counted, Indexed
<1>. QED BY AllInvariant, <1>1, PTL

-----------------------------------------------------------------------------
(* The types                                                               *)

NatMap(f) == f = Nothing \/ f \in [DOMAIN f -> Nat]

CountTypes(p) ==
  /\ nNz[p] \in [Local[p] -> Nat] /\ nOz[p] \in [Local[p] -> Nat]
  /\ sumNz[p] \in Nat /\ ia[p] \in [last : Nat, filled : Nat]

TypeInv ==
  /\ choices \in BOOLEAN \X BOOLEAN /\ proc \in [Rank -> 0 .. NProc]
  /\ \A p \in Rank : CountTypes(p) /\ \A q \in Rank : NatMap(recvSizes[p][q])

LEMMA TypeInit == Init => TypeInv
<1> SUFFICES ASSUME Init PROVE TypeInv
  OBVIOUS
<1>1. choices \in BOOLEAN \X BOOLEAN /\ proc \in [Rank -> 0 .. NProc]
  BY Ranks DEF Init, choices
<1>2. ASSUME NEW p \in Rank PROVE CountTypes(p)
  BY DEF Init, Zeros, NoIndex, CountTypes
<1>3. \A p, q \in Rank : NatMap(recvSizes[p][q])
  BY DEF Init, NatMap
<1>. QED BY <1>1, <1>2, <1>3 DEF TypeInv

LEMMA CountTypesStep ==
  ASSUME IInv, RowsInv, NEW p \in Rank, Step(p), CountTypes(p)
  PROVE  CountTypes(p)'
<1>1. Tables /\ Shapes /\ Known(p)
  BY DEF IInv, RowsInv
<1>2. IsFiniteSet(DOMAIN storage[p]) /\ \A r \in DOMAIN storage[p] : Width(p, r) \in Nat
  BY <1>1, KnownFinite
<1>3. CASE LoopStep(p)
  BY <1>1, <1>3, LoopFrame DEF CountTypes
<1>4. CASE ComputeGraph(p) \/ AddMissingZeroEntriesDiagonal(p)
  <2>1. UNCHANGED <<nNz, nOz, sumNz, ia>>
    BY <1>4 DEF ComputeGraph, AddMissingZeroEntriesDiagonal, countVars
  <2>. QED BY <2>1 DEF CountTypes
<1>5. CASE CountOwnRows(p)
  <2> DEFINE A(s) == {c \in storage[p][s].cols : OnBlockDiagonal(p, c)}
             B(s) == {c \in storage[p][s].cols : ~OnBlockDiagonal(p, c)}
             FA(l) == [s \in RowsAt(p, l) |-> Cardinality(A(s))]
             FB(l) == [s \in RowsAt(p, l) |-> Cardinality(B(s))]
             W == [r \in RowsOf(p, p) |-> Width(p, r)]
  <2>1. /\ nNz'[p] = [l \in Local[p] |-> SumFunction(FA(l))]
        /\ nOz'[p] = [l \in Local[p] |-> SumFunction(FB(l))]
        /\ sumNz'[p] = SumFunction(W) /\ ia'[p] = ia[p]
    BY <1>1, <1>5 DEF CountOwnRows, Shapes
  <2>2. \A s \in DOMAIN storage[p] : Cardinality(A(s)) \in Nat /\ Cardinality(B(s)) \in Nat
    <3>1. ASSUME NEW s \in DOMAIN storage[p]
          PROVE  Cardinality(A(s)) \in Nat /\ Cardinality(B(s)) \in Nat
      <4>1. IsFiniteSet(storage[p][s].cols)
        BY <1>1, KnownFinite DEF Held
      <4>2. IsFiniteSet(A(s)) /\ IsFiniteSet(B(s))
        BY <4>1, FS_Subset
      <4>. QED BY <4>2, FS_CardinalityType
    <3>. QED BY <3>1
  <2>3. ASSUME NEW l \in Local[p]
        PROVE  SumFunction(FA(l)) \in Nat /\ SumFunction(FB(l)) \in Nat
    <3>1. RowsAt(p, l) \in SUBSET DOMAIN storage[p]
      BY DEF RowsAt, RowsOf
    <3>2. IsFiniteSet(RowsAt(p, l))
      BY <1>2, <3>1, FS_Subset
    <3>3. /\ DOMAIN FA(l) = RowsAt(p, l) /\ \A s \in RowsAt(p, l) : FA(l)[s] \in Nat
          /\ DOMAIN FB(l) = RowsAt(p, l) /\ \A s \in RowsAt(p, l) : FB(l)[s] \in Nat
      BY <2>2, <3>1
    <3> HIDE DEF FA, FB
    <3>. QED BY <3>2, <3>3, SumType
  <2>4. SumFunction(W) \in Nat
    <3>1. DOMAIN W \in SUBSET DOMAIN storage[p] /\ \A r \in DOMAIN W : W[r] \in Nat
      BY <1>2 DEF RowsOf
    <3>2. IsFiniteSet(DOMAIN W)
      BY <1>2, <3>1, FS_Subset
    <3> HIDE DEF W
    <3>. QED BY <3>1, <3>2, SumType
  <2> HIDE DEF FA, FB, W
  <2>. QED BY <2>1, <2>3, <2>4 DEF CountTypes
<1>6. CASE Merge(p)
  <2> DEFINE A(s) == {c \in Inserted(p, s) : DofGlobalClusterIsOnProc(p, c)}
             B(s) == {c \in Inserted(p, s) : ~DofGlobalClusterIsOnProc(p, c)}
             at(l) == {r \in GotRows(p) : r \in OwnRows[p] /\ LocalOf(p, r) = l}
             FA(l) == [s \in at(l) |-> Cardinality(A(s))]
             FB(l) == [s \in at(l) |-> Cardinality(B(s))]
             FI == [s \in GotRows(p) |-> Cardinality(Inserted(p, s))]
  <2>1. /\ nNz'[p] = [l \in Local[p] |-> nNz[p][l] + SumFunction(FA(l))]
        /\ nOz'[p] = [l \in Local[p] |-> nOz[p][l] + SumFunction(FB(l))]
        /\ sumNz'[p] = sumNz[p] + SumFunction(FI) /\ ia'[p] = ia[p]
    BY <1>1, <1>6 DEF Merge, Shapes, GotRows
  <2>2. /\ \A s : Cardinality(A(s)) \in Nat /\ Cardinality(B(s)) \in Nat
        /\ \A s : Cardinality(Inserted(p, s)) \in Nat
    BY <1>6, InsertedSplit
  <2>3. IsFiniteSet(GotRows(p))
    BY GotOwnRows, RowRanges, FS_Subset
  <2>4. ASSUME NEW l \in Local[p]
        PROVE  SumFunction(FA(l)) \in Nat /\ SumFunction(FB(l)) \in Nat
    <3>1. IsFiniteSet(at(l))
      BY <2>3, FS_Subset
    <3>2. /\ DOMAIN FA(l) = at(l) /\ \A s \in at(l) : FA(l)[s] \in Nat
          /\ DOMAIN FB(l) = at(l) /\ \A s \in at(l) : FB(l)[s] \in Nat
      BY <2>2
    <3> HIDE DEF at, FA, FB
    <3>. QED BY <3>1, <3>2, SumType
  <2>5. SumFunction(FI) \in Nat
    <3>1. DOMAIN FI = GotRows(p) /\ \A r \in GotRows(p) : FI[r] \in Nat
      BY <2>2
    <3> HIDE DEF FI
    <3>. QED BY <2>3, <3>1, SumType
  <2> HIDE DEF FA, FB, FI
  <2>6. /\ \A l \in Local[p] : nNz[p][l] + SumFunction(FA(l)) \in Nat
        /\ \A l \in Local[p] : nOz[p][l] + SumFunction(FB(l)) \in Nat
        /\ sumNz[p] + SumFunction(FI) \in Nat
    BY <2>4, <2>5 DEF CountTypes
  <2>. QED BY <2>1, <2>6 DEF CountTypes
<1>7. CASE BuildIndex(p)
  <2> DEFINE G == [r \in (FirstRow[p] .. LastRow[p]) \cap DOMAIN storage[p] |-> Width(p, r)]
  <2>1. /\ ia'[p] \in {[last |-> sumNz[p], filled |-> SumFunction(G)], NoIndex}
        /\ UNCHANGED <<nNz, nOz, sumNz>>
    BY <1>1, <1>7 DEF BuildIndex, Shapes, countVars
  <2>2. SumFunction(G) \in Nat
    <3>1. DOMAIN G \in SUBSET DOMAIN storage[p] /\ \A r \in DOMAIN G : G[r] \in Nat
      BY <1>2
    <3>2. IsFiniteSet(DOMAIN G)
      BY <1>2, <3>1, FS_Subset
    <3> HIDE DEF G
    <3>. QED BY <3>1, <3>2, SumType
  <2> HIDE DEF G
  <2>. QED BY <2>1, <2>2 DEF CountTypes, NoIndex
<1>. QED BY <1>3, <1>4, <1>5, <1>6, <1>7 DEF Step, LoopStep

LEMMA TypeStep ==
  ASSUME IInv, RowsInv, LoopInv, TypeInv, NEW p \in Rank, Step(p)
  PROVE  TypeInv'
<1>1. \A q \in Rank : CountTypes(q) /\ \A r \in Rank : NatMap(recvSizes[q][r])
  BY DEF TypeInv
<1>2. choices' = choices
  BY DEF Step, ComputeGraph, AddMissingZeroEntriesDiagonal, CountOwnRows, EnterGather,
         LeaveGather, SkipPair, SendSizes, SendRows, Sent, RecvSizes, RecvRows, Merge,
         BuildIndex, commVars
<1>3. ASSUME NEW q \in Rank PROVE CountTypes(q)'
  <2>1. CASE q = p
    BY <1>1, <2>1, CountTypesStep
  <2>2. CASE q # p
    <3>1. Untouched(q)
      BY <2>2, RowsStep
    <3>. QED BY <1>1, <3>1 DEF Untouched, CountTypes
  <2>. QED BY <2>1, <2>2
<1>4. ASSUME NEW q \in Rank, NEW r \in Rank PROVE NatMap(recvSizes[q][r])'
  <2>1. CASE RecvSizes(p)
    <3>1. PICK t \in Rank : t = proc2[p]
      BY DEF IInv, Tables
    <3>2. PICK i \in FirstTagged(p, t, 0) :
            recvSizes' = [recvSizes EXCEPT ![p][t] = chan[t][p][i].data]
      BY <2>1, <3>1 DEF RecvSizes
    <3>3. chan[t][p][i].data = SizesToSend(t, p)
      BY <3>2, Found
    <3>4. SizesToSend(t, p) \in [RowsFor(t, p) -> Nat]
      BY DataSizeType DEF RowsInv
    <3>5. recvSizes'[q][r] = recvSizes[q][r] \/ recvSizes'[q][r] = SizesToSend(t, p)
      BY <3>2, <3>3 DEF IInv, Tables
    <3>. QED BY <1>1, <3>4, <3>5 DEF NatMap
  <2>2. CASE ~RecvSizes(p)
    <3>1. recvSizes' = recvSizes
      BY <2>2 DEF Step, ComputeGraph, AddMissingZeroEntriesDiagonal, CountOwnRows, EnterGather,
             LeaveGather, SkipPair, SendSizes, SendRows, Sent, RecvRows, Merge,
             BuildIndex, commVars
    <3>. QED BY <1>1, <3>1 DEF NatMap
  <2>. QED BY <2>1, <2>2
<1>5. proc' \in [Rank -> 0 .. NProc]
  <2>1. proc' = proc \/ proc' = [proc EXCEPT ![p] = proc[p] + 1]
    BY DEF Step, ComputeGraph, AddMissingZeroEntriesDiagonal, CountOwnRows, EnterGather,
           LeaveGather, SkipPair, SendSizes, SendRows, Sent, RecvSizes, RecvRows, Merge,
           BuildIndex, NextPair, loopVars
  <2>2. proc'[p] \in 0 .. NProc
    BY LoopInvStep DEF LoopInv, Turn
  <2>. QED BY <2>1, <2>2 DEF TypeInv
<1>. QED BY <1>2, <1>3, <1>4, <1>5 DEF TypeInv

(* Every variable keeps its type; in particular the rows of a rank are     *)
(* dofs it knows, and the sizes it got are those of the rows it got.       *)
THEOREM TypeOKAlways ==
  ASSUME NoRowMissing
  PROVE  Spec => []TypeOK
<1>1. TypeInv /\ AllInv /\ [Next]_vars => TypeInv'
  <2> SUFFICES ASSUME TypeInv, AllInv, [Next]_vars PROVE TypeInv'
    OBVIOUS
  <2>1. ASSUME NEW p \in Rank, Step(p) PROVE TypeInv'
    BY <2>1, TypeStep DEF AllInv
  <2>2. CASE UNCHANGED vars
    <3>1. UNCHANGED <<choices, proc, nNz, nOz, sumNz, ia, recvSizes>>
      BY <2>2 DEF vars, countVars, loopVars, commVars
    <3>. QED BY <3>1 DEF TypeInv, CountTypes, NatMap
  <2>. QED BY <2>1, <2>2 DEF Next, Finished
<1>2. TypeInv /\ AllInv => TypeOK
  <2> SUFFICES ASSUME TypeInv, AllInv PROVE TypeOK
    OBVIOUS
  <2>1. pc \in [Rank -> Phase] /\ proc2 \in [Rank -> Rank] /\ choices \in BOOLEAN \X BOOLEAN
    BY DEF AllInv, IInv, Tables, TypeInv
  <2>2. proc \in [Rank -> 0 .. NProc]
    BY DEF TypeInv
  <2>3. ASSUME NEW p \in Rank
        PROVE  /\ DOMAIN storage[p] \subseteq ToSet(RowMap[p])
               /\ \A r \in DOMAIN storage[p] :
                    storage[p][r] \in [rank : Rank, local : Local[p], cols : SUBSET Cols]
               /\ {nNz[p], nOz[p]} \subseteq [Local[p] -> Nat]
               /\ sumNz[p] \in Nat /\ ia[p] \in [last : Nat, filled : Nat]
               /\ gathered[p] \in Seq(Nat)
    BY DEF AllInv, RowsInv, Known, KnownIn, RowRecord, TypeInv, CountTypes, LoopInv, Said
  <2>4. ASSUME NEW p \in Rank, NEW q \in Rank
        PROVE  /\ recvSizes[p][q] = Nothing \/ recvSizes[p][q] \in [DOMAIN recvSizes[p][q] -> Nat]
               /\ DOMAIN recvRows[p][q] \subseteq DOMAIN recvSizes[p][q]
               /\ \A i \in DOMAIN chan[p][q] : chan[p][q][i].tag \in {0, 1}
    <3>1. NatMap(recvSizes[p][q]) /\ OnTheWay(p, q) /\ Arrived(p, q)
      BY DEF AllInv, IInv, PairInv, TypeInv
    <3>2. DOMAIN recvRows[p][q] \subseteq DOMAIN recvSizes[p][q]
      <4>1. CASE recvRows[p][q] = Nothing
        BY <4>1 DEF Nothing
      <4>2. CASE recvRows[p][q] # Nothing
        BY <3>1, <4>2 DEF Arrived, ToSend, SizesToSend
      <4>. QED BY <4>1, <4>2
    <3>3. ASSUME NEW i \in DOMAIN chan[p][q] PROVE chan[p][q][i].tag \in {0, 1}
      <4>1. chan[p][q][i] \in Sendable(p, q)
        BY <3>1 DEF OnTheWay
      <4>. QED BY <4>1 DEF Sendable, Message
    <3>. QED BY <3>1, <3>2, <3>3 DEF NatMap
  <2>. QED BY <2>1, <2>2, <2>3, <2>4 DEF TypeOK
<1>. QED BY TypeInit, AllInvariant, <1>1, <1>2, PTL DEF Spec

=============================================================================
