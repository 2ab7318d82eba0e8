--------------------------- MODULE SparsityGraph ---------------------------
(***************************************************************************)
(* The sparsity pattern of a distributed matrix: Stencil::computeGraph     *)
(* (feel/feeldiscr/stencil.hpp) and GraphCSR (feel/feelalg/graphcsr.cpp).  *)
(*                                                                         *)
(* Every rank couples the dofs of its own cells.  A row it does not own is *)
(* sent to its owner by GraphCSR::close, which counts the entries of the   *)
(* rows of the rank, exchanges the rows of others in two nested loops with *)
(* an all_gather and blocking sends, merges what it received into its rows *)
(* and goes on counting, and builds the index arrays.                      *)
(*                                                                         *)
(* Rows and columns are the cluster ids of the dofs of two spaces, each    *)
(* rank owning a range of them (DofNumbering).  The local index of a row   *)
(* is the number of the dof on the rank, dofs of other ranks included.     *)
(***************************************************************************)
EXTENDS Integers, FiniteSets, SequencesExt, FiniteSetsExt

CONSTANTS
  NProc,          \* worldComm().globalSize()
  Cell,           \* the cells of the mesh
  Part,           \* the rank of a cell
  RowDof,         \* the dofs of the test space on a cell
  ColDof,         \* the dofs of the trial space on a cell
  NRow,           \* per rank, mapRow().nLocalDofWithoutGhost
  NCol,           \* per rank, mapCol().nLocalDofWithoutGhost
  RowMap,         \* per rank, mapRow().mapGlobalProcessToGlobalCluster
  DiagIsNonZero,  \* diag_is_nonzero of the stencil
  ZeroPattern     \* Pattern::ZERO

Rank == 0 .. NProc - 1

-----------------------------------------------------------------------------
(* The ranges of DataMap, as the dof numbering fills them                  *)

Before(n, p) == SumFunctionOnSet(n, 0 .. p - 1)

FirstRow == [p \in Rank |-> Before(NRow, p)]
FirstCol == [p \in Rank |-> Before(NCol, p)]

(* A rank without dofs has last = first                                    *)
LastOf(first, n) == IF n > 0 THEN first + n - 1 ELSE first

LastRow == [p \in Rank |-> LastOf(FirstRow[p], NRow[p])]
LastCol == [p \in Rank |-> LastOf(FirstCol[p], NCol[p])]

OwnRows == [p \in Rank |-> FirstRow[p] .. FirstRow[p] + NRow[p] - 1]
OwnCols == [p \in Rank |-> FirstCol[p] .. FirstCol[p] + NCol[p] - 1]

(* Mutant: ranks without dofs are not passed over                          *)
OwnerInRange(r) ==
  Min({p \in Rank : FirstRow[p] <= r /\ r <= LastRow[p]})

(* procOnGlobalCluster of the rows                                         *)
OwnerOfRow(r) == CHOOSE p \in Rank : r \in OwnRows[p]

Rows == UNION {OwnRows[p] : p \in Rank}
Cols == UNION {OwnCols[p] : p \in Rank}

Local == [p \in Rank |-> 0 .. Len(RowMap[p]) - 1]

(* Mutant: the place of the row in the range of the rank                   *)
LocalOffset(p, r) == r - FirstRow[p]

(* The number of the row r on the rank p                                   *)
LocalOf(p, r) == CHOOSE l \in Local[p] : RowMap[p][l + 1] = r

ASSUME GraphAssumption ==
  /\ NProc \in Nat /\ NProc > 1
  /\ Part \in [Cell -> Rank]
  /\ NRow \in [Rank -> Nat] /\ NCol \in [Rank -> Nat]
  /\ RowMap \in [Rank -> Seq(Rows)]
  /\ \A p \in Rank : ToSet(RowMap[p]) =
       OwnRows[p] \cup UNION {RowDof[c] : c \in {e \in Cell : Part[e] = p}}
  /\ RowDof \in [Cell -> SUBSET Rows] /\ ColDof \in [Cell -> SUBSET Cols]
  /\ DiagIsNonZero \in BOOLEAN /\ ZeroPattern \in BOOLEAN

-----------------------------------------------------------------------------
VARIABLES
  pc,         \* where each rank is
  storage,    \* M_storage: per row, its rank, local index and columns
  nNz,        \* M_n_nz: entries in the columns of the rank
  nOz,        \* M_n_oz: entries in the columns of other ranks
  sumNz,      \* sum_nz
  ia,         \* M_ia: [last, filled], its last value and where ja ends
  proc,       \* the outer loop: the rank that receives
  proc2,      \* the inner loop: the rank that sends
  gathered,   \* the sizes a rank gave to the all_gathers so far
  buildGraphWithTranspose, \* is it the transpose of the graph of the transpose?
  rendezvous, \* does a blocking send wait for the receiver?
  chan,       \* chan[p][q]: messages from p to q, in order
  recvSizes,  \* vecToRecv_nElt
  recvRows    \* vecToRecv

countVars == <<nNz, nOz, sumNz>>
loopVars  == <<proc, proc2, gathered>>
choices   == <<buildGraphWithTranspose, rendezvous>>
commVars  == <<choices, chan, recvSizes, recvRows>>
vars == <<pc, storage, countVars, ia, loopVars, commVars>>

(* No row, no message                                                      *)
Nothing == <<>>

NoIndex == [last |-> 0, filled |-> 0]

Zeros == [p \in Rank |-> [l \in Local[p] |-> 0]]

Init ==
  /\ pc = [p \in Rank |-> "compute"]
  /\ storage = [p \in Rank |-> Nothing]
  /\ nNz = Zeros /\ nOz = Zeros
  /\ sumNz = [p \in Rank |-> 0]
  /\ ia = [p \in Rank |-> NoIndex]
  /\ proc = [p \in Rank |-> 0]
  /\ proc2 = [p \in Rank |-> 0]
  /\ gathered = [p \in Rank |-> <<>>]
  /\ buildGraphWithTranspose \in BOOLEAN
  /\ rendezvous \in BOOLEAN
  /\ chan = [p \in Rank |-> [q \in Rank |-> <<>>]]
  /\ recvSizes = [p \in Rank |-> [q \in Rank |-> Nothing]]
  /\ recvRows = [p \in Rank |-> [q \in Rank |-> Nothing]]

Go(p, from, to) == pc[p] = from /\ pc' = [pc EXCEPT ![p] = to]

-----------------------------------------------------------------------------
(* Stencil                                                                 *)

CellsOf(p) == {c \in Cell : Part[c] = p}

Row(p, r, cols) == [rank |-> OwnerOfRow(r), local |-> LocalOf(p, r), cols |-> cols]

(* Columns are inserted in the set of the row                              *)
With(row, cols) == [row EXCEPT !.cols = @ \cup cols]

(* computeGraph: the dofs of the cells of p are coupled                    *)
Coupled(p) ==
  [r \in UNION {RowDof[c] : c \in CellsOf(p)} |->
     Row(p, r, UNION {ColDof[c] : c \in {e \in CellsOf(p) : r \in RowDof[e]}})]

(* The columns of the graph computed with the two spaces exchanged         *)
CoupledColumns(p) ==
  [c \in UNION {ColDof[e] : e \in CellsOf(p)} |->
     UNION {RowDof[e] : e \in {d \in CellsOf(p) : c \in ColDof[d]}}]

(* transpose: a column becomes a row if the rank has the dof               *)
Transpose(p) ==
  LET g == CoupledColumns(p)
      found == {r \in UNION {g[c] : c \in DOMAIN g} : r \in ToSet(RowMap[p])}
  IN [r \in found |-> Row(p, r, {c \in DOMAIN g : r \in g[c]})]

ComputeGraph(p) ==
  /\ Go(p, "compute", IF DiagIsNonZero /\ NRow[p] > 0 /\ NCol[p] > 0
                      THEN "diagonal" ELSE "count")
  /\ storage' = [storage EXCEPT ![p] =
       CASE ZeroPattern -> Nothing
         [] ~ZeroPattern /\ buildGraphWithTranspose -> Transpose(p)
         [] OTHER -> Coupled(p)]
  /\ UNCHANGED <<countVars, ia, loopVars, commVars>>

(* Mutant: the first column of the rank, as a comment in the code has it   *)
ShiftedEntry(p, r) == FirstCol[p] + (r - FirstRow[p])

(* The entry added to the row r                                            *)
DiagonalEntry(p, r) == r

(* The row a rank creates.  Only the first row is looked up: the others    *)
(* are taken to exist, and operator[] of the map makes them of zeros.      *)
MissingRow(p, r) ==
  LET first == r = FirstRow[p] IN
  [rank |-> IF first THEN p ELSE 0, local |-> IF first THEN LocalOf(p, r) ELSE 0,
   cols |-> {DiagonalEntry(p, r)}]

AddMissingZeroEntriesDiagonal(p) ==
  LET square == Cardinality(Rows) = Cardinality(Cols)
      diag == {r \in OwnRows[p] : r - FirstRow[p] < NCol[p]}
  IN /\ Go(p, "diagonal", "count")
     /\ storage' =
          IF ~square THEN storage
          ELSE [storage EXCEPT ![p] = [r \in DOMAIN @ \cup diag |->
                  IF r \notin DOMAIN @ THEN MissingRow(p, r)
                  ELSE IF r \in diag THEN With(@[r], {DiagonalEntry(p, r)})
                  ELSE @[r]]]
     /\ UNCHANGED <<countVars, ia, loopVars, commVars>>

-----------------------------------------------------------------------------
(* GraphCSR::close                                                         *)

RowsOf(p, q) == {r \in DOMAIN storage[p] : storage[p][r].rank = q}

RowsAt(p, l) == {r \in RowsOf(p, p) : storage[p][r].local = l}

Width(p, r) == Cardinality(storage[p][r].cols)

(* Mutant: the last column of the rank is left out                         *)
BeforeLast(p, c) == FirstCol[p] <= c /\ c < LastCol[p]

(* The test by which close tells the columns of the rank                   *)
OnBlockDiagonal(p, c) == FirstCol[p] <= c /\ c <= LastCol[p]

(* The entries of the rows of the rank are counted                         *)
CountOwnRows(p) ==
  /\ Go(p, "count", "gather")
  /\ nNz' = [nNz EXCEPT ![p] = [l \in Local[p] |-> SumFunction([r \in RowsAt(p, l) |->
       Cardinality({c \in storage[p][r].cols : OnBlockDiagonal(p, c)})])]]
  /\ nOz' = [nOz EXCEPT ![p] = [l \in Local[p] |-> SumFunction([r \in RowsAt(p, l) |->
       Cardinality({c \in storage[p][r].cols : ~OnBlockDiagonal(p, c)})])]]
  /\ sumNz' = [sumNz EXCEPT ![p] = SumFunction([r \in RowsOf(p, p) |-> Width(p, r)])]
  /\ UNCHANGED <<storage, ia, loopVars, commVars>>

(* The rows p has for q, each sent with the two indices before its columns *)
RowsFor(p, q) == IF q = p THEN {} ELSE RowsOf(p, q)

ToSend(p, q) == [r \in RowsFor(p, q) |-> storage[p][r].cols]

SizesToSend(p, q) == [r \in RowsFor(p, q) |-> Width(p, r) + 2]

DataSize(p, q) == SumFunction(SizesToSend(p, q))

(* One all_gather per turn of the outer loop: each rank says how much it   *)
(* has for proc.  It returns when all have said it.                        *)
EnterGather(p) ==
  /\ Go(p, "gather", "leave")
  /\ gathered' = [gathered EXCEPT ![p] = Append(@, DataSize(p, proc[p]))]
  /\ UNCHANGED <<storage, countVars, ia, proc, proc2, commVars>>

LeaveGather(p) ==
  /\ Go(p, "leave", "pair")
  /\ \A q \in Rank : Len(gathered[q]) > proc[p]
  /\ proc2' = [proc2 EXCEPT ![p] = 0]
  /\ UNCHANGED <<storage, countVars, ia, proc, gathered, commVars>>

(* nDataSize_vec[proc2] > 0 && proc != proc2                               *)
Transfer(p) ==
  /\ gathered[proc2[p]][proc[p] + 1] > 0
  /\ proc[p] # proc2[p]

(* To the next sender, or to the next receiver after the last one          *)
NextPair(p) ==
  IF proc2[p] < NProc - 1
  THEN /\ proc2' = [proc2 EXCEPT ![p] = @ + 1]
       /\ pc' = [pc EXCEPT ![p] = "pair"]
       /\ UNCHANGED <<proc, gathered>>
  ELSE /\ proc' = [proc EXCEPT ![p] = @ + 1]
       /\ pc' = [pc EXCEPT ![p] = IF proc[p] < NProc - 1 THEN "gather" ELSE "merge"]
       /\ UNCHANGED <<proc2, gathered>>

SkipPair(p) ==
  /\ pc[p] = "pair"
  /\ ~Transfer(p) \/ p \notin {proc[p], proc2[p]}
  /\ NextPair(p)
  /\ UNCHANGED <<storage, countVars, ia, commVars>>

Message(tag, data) == [tag |-> tag, data |-> data]

SendMessage(p, m) == chan' = [chan EXCEPT ![p][proc[p]] = Append(@, m)]

(* A blocking send returns when the message left, or was received          *)
Returned(p) == rendezvous => chan[p][proc[p]] = <<>>

SendSizes(p) ==
  /\ Go(p, "pair", "sendRows")
  /\ Transfer(p) /\ p = proc2[p]
  /\ SendMessage(p, Message(0, SizesToSend(p, proc[p])))
  /\ UNCHANGED <<storage, countVars, ia, loopVars, choices, recvSizes, recvRows>>

SendRows(p) ==
  /\ Go(p, "sendRows", "sent")
  /\ Returned(p)
  /\ SendMessage(p, Message(1, ToSend(p, proc[p])))
  /\ UNCHANGED <<storage, countVars, ia, loopVars, choices, recvSizes, recvRows>>

Sent(p) ==
  /\ pc[p] = "sent"
  /\ Returned(p)
  /\ NextPair(p)
  /\ UNCHANGED <<storage, countVars, ia, commVars>>

(* The oldest message with this tag is received, whatever is before it     *)
FirstTagged(p, q, tag) ==
  {i \in DOMAIN chan[q][p] : /\ chan[q][p][i].tag = tag
                             /\ \A j \in 1 .. i - 1 : chan[q][p][j].tag # tag}

Without(s, i) == SubSeq(s, 1, i - 1) \o SubSeq(s, i + 1, Len(s))

RecvSizes(p) ==
  LET q == proc2[p] IN
  /\ Go(p, "pair", "recvRows")
  /\ Transfer(p) /\ p = proc[p]
  /\ \E i \in FirstTagged(p, q, 0) :
        /\ recvSizes' = [recvSizes EXCEPT ![p][q] = chan[q][p][i].data]
        /\ chan' = [chan EXCEPT ![q][p] = Without(@, i)]
  /\ UNCHANGED <<storage, countVars, ia, loopVars, choices, recvRows>>

(* Mutant: the receive is tested and not completed                         *)
RecvRowsTested(p) ==
  /\ pc[p] = "recvRows"
  /\ FirstTagged(p, proc2[p], 1) # {}
  /\ UNCHANGED vars

RecvRows(p) ==
  LET q == proc2[p] IN
  /\ pc[p] = "recvRows"
  /\ \E i \in FirstTagged(p, q, 1) :
        /\ recvRows' = [recvRows EXCEPT ![p][q] = chan[q][p][i].data]
        /\ chan' = [chan EXCEPT ![q][p] = Without(@, i)]
  /\ NextPair(p)
  /\ UNCHANGED <<storage, countVars, ia, choices, recvSizes>>

(* The columns received for the row r                                      *)
Received(p, r) ==
  UNION {recvRows[p][q][r] : q \in {s \in Rank : r \in DOMAIN recvRows[p][s]}}

Held(p, r) == IF r \in DOMAIN storage[p] THEN storage[p][r].cols ELSE {}

(* Mutant: every column received is counted                                *)
AllReceived(p, r) == Received(p, r)

(* The columns that were inserted in the rows with this local index        *)
Inserted(p, r) == Received(p, r) \ Held(p, r)

(* DataMap::dofGlobalClusterIsOnProc of the columns                        *)
DofGlobalClusterIsOnProc(p, c) == NCol[p] > 0 /\ FirstCol[p] <= c /\ c <= LastCol[p]

(* What was received goes into the rows of the rank and each insertion is  *)
(* counted.  The local index of a row that is not one of the rank is read  *)
(* past the end of a vector: it counts nowhere.                            *)
Merge(p) ==
  LET rows == UNION {DOMAIN recvRows[p][q] : q \in Rank}
      at(l) == {r \in rows : r \in OwnRows[p] /\ LocalOf(p, r) = l}
  IN /\ Go(p, "merge", "index")
     /\ storage' = [storage EXCEPT ![p] = [r \in DOMAIN @ \cup rows |->
          IF r \notin rows THEN @[r]
          ELSE IF r \in DOMAIN @ THEN With(@[r], Received(p, r))
          ELSE [rank |-> p, cols |-> Received(p, r),
                local |-> IF r \in OwnRows[p] THEN LocalOf(p, r) ELSE 0]]]
     /\ nNz' = [nNz EXCEPT ![p] = [l \in Local[p] |-> @[l] + SumFunction([r \in at(l) |->
          Cardinality({c \in Inserted(p, r) : DofGlobalClusterIsOnProc(p, c)})])]]
     /\ nOz' = [nOz EXCEPT ![p] = [l \in Local[p] |-> @[l] + SumFunction([r \in at(l) |->
          Cardinality({c \in Inserted(p, r) : ~DofGlobalClusterIsOnProc(p, c)})])]]
     /\ sumNz' = [sumNz EXCEPT ![p] = @ + SumFunction([r \in rows |-> Cardinality(Inserted(p, r))])]
     /\ UNCHANGED <<ia, loopVars, commVars>>

(* M_ia and M_ja: the rows of the range, one after the other               *)
BuildIndex(p) ==
  LET range == FirstRow[p] .. LastRow[p] IN
  /\ Go(p, "index", "done")
  /\ ia' = [ia EXCEPT ![p] =
       IF Cardinality(range) > 1 \/ sumNz[p] > 0
       THEN [last |-> sumNz[p],
             filled |-> SumFunction([r \in range \cap DOMAIN storage[p] |-> Width(p, r)])]
       ELSE NoIndex]
  /\ UNCHANGED <<storage, countVars, loopVars, commVars>>

-----------------------------------------------------------------------------
Step(p) ==
  \/ ComputeGraph(p)
  \/ AddMissingZeroEntriesDiagonal(p)
  \/ CountOwnRows(p)
  \/ EnterGather(p)
  \/ LeaveGather(p)
  \/ SkipPair(p)
  \/ SendSizes(p)
  \/ SendRows(p)
  \/ Sent(p)
  \/ RecvSizes(p)
  \/ RecvRows(p)
  \/ Merge(p)
  \/ BuildIndex(p)

(* All graphs are closed: the only state in which nothing happens          *)
Finished == (\A p \in Rank : pc[p] = "done") /\ UNCHANGED vars

Next == (\E p \in Rank : Step(p)) \/ Finished

Spec == Init /\ [][Next]_vars

(* MPI makes progress and every rank keeps running                         *)
FairSpec == Spec /\ \A p \in Rank : WF_vars(Step(p))

-----------------------------------------------------------------------------
(* Properties                                                              *)

Phase == {"compute", "diagonal", "count", "gather", "leave", "pair", "sendRows",
          "sent", "recvRows", "merge", "index", "done"}

(* Every variable keeps its type; in particular the rows of a rank are     *)
(* dofs it knows                                                           *)
TypeOK ==
  /\ pc \in [Rank -> Phase]
  /\ choices \in BOOLEAN \X BOOLEAN
  /\ proc \in [Rank -> 0 .. NProc] /\ proc2 \in [Rank -> Rank]
  /\ \A p \in Rank :
       /\ DOMAIN storage[p] \subseteq ToSet(RowMap[p])
       /\ \A r \in DOMAIN storage[p] :
            storage[p][r] \in [rank : Rank, local : Local[p], cols : SUBSET Cols]
       /\ {nNz[p], nOz[p]} \subseteq [Local[p] -> Nat]
       /\ sumNz[p] \in Nat /\ ia[p] \in [last : Nat, filled : Nat]
       /\ gathered[p] \in Seq(Nat)
       /\ \A q \in Rank :
            /\ recvSizes[p][q] = Nothing \/ recvSizes[p][q] \in [DOMAIN recvSizes[p][q] -> Nat]
            /\ DOMAIN recvRows[p][q] \subseteq DOMAIN recvSizes[p][q]
            /\ \A i \in DOMAIN chan[p][q] : chan[p][q][i].tag \in {0, 1}

(* A rank couples all the rows it owns by its own cells: the diagonal adds *)
(* no row                                                                  *)
NoRowMissing ==
  DiagIsNonZero =>
    /\ ~ZeroPattern
    /\ \A p \in Rank : \A r \in OwnRows[p] :
         \E c \in CellsOf(p) : r \in RowDof[c] /\ ColDof[c] # {}

(* Every row is coupled by some cell, wherever it is                       *)
EveryRowCoupled ==
  ~ZeroPattern /\ \A r \in Rows : \E c \in Cell : r \in RowDof[c] /\ ColDof[c] # {}

(* A rank that owns rows owns a column.  Without one its range of columns  *)
(* is taken for [first, first] by the test of the counts made before the   *)
(* exchange, and a column of the next rank is counted as one of the rank.  *)
OwnersHaveColumns == \A p \in Rank : NRow[p] > 0 => NCol[p] > 0

Done(p) == pc[p] = "done"

(* A row in the end: what the cells of any rank couple it with, and the    *)
(* diagonal, which a rank adds to as many rows as it has columns           *)
WholeRow(p, r) ==
  (IF ZeroPattern THEN {} ELSE UNION {ColDof[c] : c \in {e \in Cell : r \in RowDof[e]}})
    \cup {d \in {r} : /\ DiagIsNonZero /\ Cardinality(Rows) = Cardinality(Cols)
                       /\ r - FirstRow[p] < NCol[p]}

(* When close has returned, each owner has the whole of its rows: nothing  *)
(* that a cell of another rank contributes is lost, whether the graph was  *)
(* computed or transposed, and nothing else came in.                       *)
RowsComplete ==
  \A p \in Rank : Done(p) => \A r \in OwnRows[p] :
     /\ r \in DOMAIN storage[p]
     /\ storage[p][r].cols = WholeRow(p, r)

(* The counts by which a matrix is allocated, made in part before and in   *)
(* part while rows are merged, are those of the rows in the end: the       *)
(* columns of the rank and the others.                                     *)
SplitMatchesOwnership ==
  \A p \in Rank : Done(p) => \A r \in OwnRows[p] :
     LET l == LocalOf(p, r) IN
     /\ nNz[p][l] = Cardinality(WholeRow(p, r) \cap OwnCols[p])
     /\ nOz[p][l] = Cardinality(WholeRow(p, r) \ OwnCols[p])

(* The index arrays hold the rows of the rank and nothing else: the last   *)
(* value of M_ia, counted while merging, is where the columns really end.  *)
IndexConsistent ==
  \A p \in Rank : Done(p) =>
     /\ ia[p].last = ia[p].filled
     /\ ia[p].filled = SumFunction([r \in OwnRows[p] |-> Cardinality(WholeRow(p, r))])

(* A row a rank receives is one of its own, whole, and with its length: the *)
(* DCHECK of close, which is not compiled in an optimised build.           *)
ReceivedRowsOwned ==
  \A p, q \in Rank : recvRows[p][q] # Nothing =>
     /\ DOMAIN recvRows[p][q] \subseteq OwnRows[p]
     /\ recvSizes[p][q] = [r \in DOMAIN recvRows[p][q] |-> Cardinality(recvRows[p][q][r]) + 2]

(* Every rank gets its graph, whether or not a send waits for its receiver *)
Completion == <>(\A p \in Rank : Done(p))

=============================================================================
