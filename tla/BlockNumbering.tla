--------------------------- MODULE BlockNumbering ---------------------------
(***************************************************************************)
(* Several spaces on one mesh in one numbering: the vector of blocks of    *)
(* feel/feelalg/vectorblock.cpp and the composite space of                 *)
(* feel/feeldiscr/functionspace.hpp.                                       *)
(*                                                                         *)
(* Every rank numbers three spaces one after the other, a continuous one,  *)
(* a discontinuous one and a continuous P0 one, the multiplier.  Each is   *)
(* an instance of DofNumbering with its own variables.  Then every rank    *)
(* lays the data maps of the blocks out behind each other, alone: what     *)
(* belongs to the same rank is consecutive, block after block, and the     *)
(* number of a ghost follows from what the rank knows of the owner.        *)
(***************************************************************************)
EXTENDS DofNumbering

CONSTANTS
  DiscDof,      \* the dofs of the discontinuous space
  DiscCellDof,  \* its dofs of a cell
  Blocks        \* the order of the spaces in the vector of blocks

(* Every rank has a cell, so that each holds the dof of the multiplier     *)
ASSUME BlocksAssumption ==
  /\ \A p \in Rank : \E c \in Cell : Part[c] = p
  /\ DiscDof \in SUBSET Nat
  /\ Blocks \in Seq({"continuous", "discontinuous", "multiplier"})
  /\ Blocks # <<>>

VARIABLES
  discPc, discWithoutGhost, discNDofs, discFirstDf, discLastDf, discCpt,
  discToCluster, discOnCluster,
  multPc, multWithoutGhost, multFirstDf, multLastDf, multToCluster,
  blockMap,      \* the DataMap of the vector of blocks, on each rank
  compositeMap   \* the DataMap of the composite space, on each rank

discVars == <<discPc, discWithoutGhost, discNDofs, discFirstDf, discLastDf,
              discCpt, discToCluster, discOnCluster>>
multVars == <<multPc, multWithoutGhost, multFirstDf, multLastDf, multToCluster>>
blockVars == <<blockMap, compositeMap>>
allVars == <<vars, discVars, multVars, blockVars>>

(* A space that shares no dof: nothing of the walk and the exchange moves  *)
Discontinuous ==
  INSTANCE DofNumbering WITH
    Continuous <- FALSE, Dof <- DiscDof, CellDof <- DiscCellDof,
    FaceDof <- [f \in Face |-> {}], PointDof <- {},
    LocalIndex <- [p \in Rank |-> [d \in DiscDof |-> d]],
    pc <- discPc, nWithoutGhost <- discWithoutGhost, nDofs <- discNDofs,
    firstDf <- discFirstDf, lastDf <- discLastDf, cpt <- discCpt,
    toCluster <- discToCluster, onCluster <- discOnCluster,
    todo <- PerRank({}), dofdone <- PerRank({}), dofIsGhost <- PerRank({}),
    listToSend <- PerRank(Table({})), procRecvData <- PerRank({}),
    gathered <- PerRank(Invalid), chan <- PerRank(Table(<<>>)),
    pending <- PerRank({}), dataToRecv <- PerRank(Table({})),
    finalDataToRecv <- PerRank(Table(NoAnswer))

(* The multiplier: one dof, 0, held by all ranks                           *)
Multiplier ==
  INSTANCE DofNumbering WITH
    Continuous <- TRUE, Dof <- {0}, CellDof <- [c \in Cell |-> {0}],
    FaceDof <- [f \in Face |-> {}], PointDof <- {},
    LocalIndex <- [p \in Rank |-> [d \in {0} |-> 0]],
    pc <- multPc, nWithoutGhost <- multWithoutGhost, firstDf <- multFirstDf,
    lastDf <- multLastDf, toCluster <- multToCluster,
    nDofs <- PerRank(1), cpt <- PerRank(0), onCluster <- PerRank([d \in {0} |-> Invalid]),
    todo <- PerRank({}), dofdone <- PerRank({}), dofIsGhost <- PerRank({}),
    listToSend <- PerRank(Table({})), procRecvData <- PerRank({}),
    gathered <- PerRank(Invalid), chan <- PerRank(Table(<<>>)),
    pending <- PerRank({}), dataToRecv <- PerRank(Table({})),
    finalDataToRecv <- PerRank(Table(NoAnswer))

NotBuilt == [built |-> FALSE]

BlocksInit ==
  /\ Init
  /\ Discontinuous!Init
  /\ Multiplier!Init
  /\ blockMap = PerRank(NotBuilt)
  /\ compositeMap = PerRank(NotBuilt)

-----------------------------------------------------------------------------
(* The spaces of the blocks, as rank p knows them                          *)

DataMap(p, space) ==
  CASE space = "continuous" ->
         [count |-> nWithoutGhost[p], first |-> firstDf[p], last |-> lastDf[p],
          nDof |-> nDofs[p], id |-> [d \in Held[p] |-> toCluster[p][d]]]
    [] space = "discontinuous" ->
         [count |-> discWithoutGhost[p], first |-> discFirstDf[p],
          last |-> discLastDf[p], nDof |-> discNDofs[p],
          id |-> [d \in Discontinuous!Held[p] |-> discToCluster[p][d]]]
    [] space = "multiplier" ->
         [count |-> multWithoutGhost[p], first |-> multFirstDf[p],
          last |-> multLastDf[p], nDof |-> 1,
          id |-> [d \in Multiplier!Held[p] |-> multToCluster[p][d]]]

(* DataMap::dofGlobalClusterIsOnProc and procOnGlobalCluster, which        *)
(* returns 0 when it finds no rank                                         *)
IsOnProc(m, id, q) == m.count[q] > 0 /\ m.first[q] <= id /\ id <= m.last[q]

ProcOnGlobalCluster(m, id) ==
  LET found == {q \in Rank : IsOnProc(m, id, q)}
  IN IF found = {} THEN 0 ELSE Min(found)

(* The dofs rank q owns in the first n blocks                              *)
OwnedBefore(p, n, q) ==
  MapThenSumSet(LAMBDA i : DataMap(p, Blocks[i]).count[q], 1 .. n)

FirstOfRank(p, q) ==
  MapThenSumSet(LAMBDA r : OwnedBefore(p, Len(Blocks), r), 0 .. q - 1)

(* Mutant: a ghost is placed from the range of the rank itself             *)
BlockIdFromOwnRange(p, i, id) ==
  LET m == DataMap(p, Blocks[i])
      q == IF IsOnProc(m, id, p) THEN p ELSE ProcOnGlobalCluster(m, id)
  IN FirstOfRank(p, q) + OwnedBefore(p, i - 1, q) + (id - m.first[p])

(* The number in the layout of the dof that has number id in block i       *)
BlockId(p, i, id) ==
  LET m == DataMap(p, Blocks[i])
      q == IF IsOnProc(m, id, p) THEN p ELSE ProcOnGlobalCluster(m, id)
  IN FirstOfRank(p, q) + OwnedBefore(p, i - 1, q) + (id - m.first[q])

Unknown(p) ==
  UNION {{<<i, d>> : d \in DOMAIN DataMap(p, Blocks[i]).id} : i \in DOMAIN Blocks}

Layout(p, last) ==
  [built |-> TRUE,
   count |-> [q \in Rank |-> OwnedBefore(p, Len(Blocks), q)],
   first |-> [q \in Rank |-> FirstOfRank(p, q)],
   last  |-> last,
   nDof  |-> MapThenSumSet(LAMBDA i : DataMap(p, Blocks[i]).nDof, DOMAIN Blocks),
   id    |-> [u \in Unknown(p) |->
                BlockId(p, u[1], DataMap(p, Blocks[u[1]]).id[u[2]])]]

(* VectorBlockBase::VectorBlockBase                                        *)
BlockLast(p, q) ==
  LET n == OwnedBefore(p, Len(Blocks), q)
  IN IF n = 0 THEN FirstOfRank(p, q) ELSE FirstOfRank(p, q) + n - 1

BuildBlockVector(p) ==
  /\ multPc[p] = "done"
  /\ ~blockMap[p].built
  /\ blockMap' = [blockMap EXCEPT ![p] =
                    Layout(p, [q \in Rank |-> BlockLast(p, q)])]
  /\ UNCHANGED <<vars, discVars, multVars, compositeMap>>

(* updateDataMapProcessStandard: the first space sets the last number of a *)
(* rank, the others add what they own to it                                *)
CompositeLast(p, q) ==
  LET n == OwnedBefore(p, Len(Blocks), q)
  IN IF OwnedBefore(p, 1, q) = 0 THEN FirstOfRank(p, q) + n
                                 ELSE FirstOfRank(p, q) + n - 1

BuildComposite(p) ==
  /\ multPc[p] = "done"
  /\ ~compositeMap[p].built
  /\ compositeMap' = [compositeMap EXCEPT ![p] =
                        Layout(p, [q \in Rank |-> CompositeLast(p, q)])]
  /\ UNCHANGED <<vars, discVars, multVars, blockMap>>

-----------------------------------------------------------------------------
NumberContinuous(p) ==
  Step(p) /\ UNCHANGED <<discVars, multVars, blockVars>>

NumberDiscontinuous(p) ==
  /\ pc[p] = "done"
  /\ Discontinuous!Step(p)
  /\ UNCHANGED <<vars, multVars, blockVars>>

NumberMultiplier(p) ==
  /\ discPc[p] = "done"
  /\ Multiplier!Step(p)
  /\ UNCHANGED <<vars, discVars, blockVars>>

BlocksFinished ==
  /\ \A p \in Rank : blockMap[p].built /\ compositeMap[p].built
  /\ UNCHANGED allVars

BlocksNext ==
  \/ \E p \in Rank : \/ NumberContinuous(p)
                     \/ NumberDiscontinuous(p)
                     \/ NumberMultiplier(p)
                     \/ BuildBlockVector(p)
                     \/ BuildComposite(p)
  \/ BlocksFinished

BlocksSpec == BlocksInit /\ [][BlocksNext]_allVars

-----------------------------------------------------------------------------
(* The rank that owns an unknown, by what each rank decided for itself     *)
OwnsUnknown(q, u) ==
  CASE Blocks[u[1]] = "continuous"    -> u[2] \in Actif(q)
    [] Blocks[u[1]] = "discontinuous" -> u[2] \in Discontinuous!Held[q]
    [] Blocks[u[1]] = "multiplier"    -> q = 0

(* Of the ranks that have laid a set of blocks out: copies of an unknown   *)
(* have the same number on all of them, different unknowns (the same dof   *)
(* in two blocks included) have different ones, and all are below nDof.    *)
IdsMatch(map) ==
  \A p, q \in Rank : map[p].built /\ map[q].built =>
     \A u \in Unknown(p), v \in Unknown(q) :
        /\ map[p].id[u] = map[q].id[v] <=> u = v
        /\ map[p].id[u] \in 0 .. map[q].nDof - 1

(* The range test on the layout names the owner of an unknown and no other *)
(* rank.                                                                   *)
RangesMatch(map) ==
  \A p, q \in Rank : map[p].built =>
     \A u \in Unknown(p) : IsOnProc(map[p], map[p].id[u], q) <=> OwnsUnknown(q, u)

(* The numbers of a vector of blocks and those of a composite space agree  *)
(* between the ranks, although each rank lays the blocks out alone, some   *)
(* of them blocks in which it owns nothing (vectorblock.cpp:74-104,        *)
(* functionspace.hpp:685-697).                                             *)
NumbersMatch == IdsMatch(blockMap) /\ IdsMatch(compositeMap)

(* The owner test on a vector of blocks finds the owner of every unknown,  *)
(* whichever ranks own nothing in some of the blocks (vectorblock.cpp:71). *)
BlockRangesMatch == RangesMatch(blockMap)

(* "Last globalcluster DOF index on processor p" (datamap.hpp:472): on the *)
(* data map of a composite space it is the largest number of an unknown    *)
(* that rank owns, if it owns one.  The code of functionspace.hpp:665-673  *)
(* breaks this.                                                            *)
LastIsLastOwned ==
  \A p, q \in Rank : compositeMap[p].built /\ compositeMap[p].count[q] > 0 =>
     compositeMap[p].last[q] = compositeMap[p].first[q] + compositeMap[p].count[q] - 1

=============================================================================
