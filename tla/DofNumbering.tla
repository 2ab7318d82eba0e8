---------------------------- MODULE DofNumbering ----------------------------
(***************************************************************************)
(* The parallel numbering of the degrees of freedom of a finite element    *)
(* space: DofTable::build and DofTable::buildGhostDofMap of                *)
(* feel/feeldiscr/doftable.hpp and doftablempi.hpp.                        *)
(*                                                                         *)
(* Every MPI rank holds a part of the mesh and the dofs of its cells.  A   *)
(* dof on an interprocess face is held by several ranks: each of them      *)
(* decides, alone, which rank owns it.  The ranks then gather how many     *)
(* dofs each owns, number the dofs they own in consecutive ranges, and     *)
(* ask the owners for the numbers of the ghosts: one request and one       *)
(* answer per pair of ranks, both sent with isend/irecv under tag 0.       *)
(*                                                                         *)
(* A dof is a point of the whole mesh (the code matches dofs of two ranks  *)
(* by their coordinates); the id a rank gives it locally is LocalIndex.    *)
(***************************************************************************)
EXTENDS Integers, FiniteSets, FiniteSetsExt, Sequences

CONSTANTS
  NProc,       \* worldComm().size()
  Continuous,  \* is_continuous of the space
  Rendezvous,  \* does an isend complete only when it is received?
  Dof,         \* the dofs of the whole mesh
  Cell,        \* the cells of the whole mesh
  CellDof,     \* the dofs of a cell
  Face,        \* the faces between two cells
  FaceCells,   \* the two cells of a face
  FaceDof,     \* the dofs of a face, {} when the element has none on faces
  PointDof,    \* the dofs that sit on a vertex (or an edge, in 3D)
  Part,        \* the partition: the rank of a cell
  LocalIndex   \* the index of a dof in the local numbering of a rank

Rank == 0 .. NProc - 1

(* invalid_size_type_value                                                 *)
Invalid == -1

-----------------------------------------------------------------------------
(* What a rank knows of the mesh: its own cells and one layer of ghost     *)
(* cells, those that share at least a vertex with one of its cells.        *)

Held == [p \in Rank |-> UNION {CellDof[c] : c \in {e \in Cell : Part[e] = p}}]

Holders == [d \in Dof |-> {p \in Rank : d \in Held[p]}]

OffProcs(p, f) == {Part[c] : c \in FaceCells[f]} \ {p}

InterProcessFaces ==
  [p \in Rank |-> {f \in Face : /\ \E c \in FaceCells[f] : Part[c] = p
                                /\ OffProcs(p, f) # {}}]

(* The rank of the cell on the other side of an interprocess face          *)
OffProc(p, f) == CHOOSE q \in OffProcs(p, f) : TRUE

(* The ranks of the ghost cells that touch the vertex or edge of a dof     *)
ElementsGhost(p, d) == Holders[d] \ {p}

HasFaceDof == \E f \in Face : FaceDof[f] # {}

(* DofTable::build takes a space for a continuous P0 one by this test      *)
LooksP0Continuous == \A p \in Rank : Cardinality(Held[p]) = 1

(***************************************************************************)
(* What the mesh and the partitioner guarantee.  Two cells meet in a face, *)
(* and a dof inside a face belongs to its two cells only; a dof of a       *)
(* continuous space that several ranks hold is, for each of them, on one   *)
(* of its interprocess faces (the cells around a vertex are connected      *)
(* through faces); a discontinuous space shares nothing.                   *)
(***************************************************************************)
ASSUME MeshAssumption ==
  /\ NProc \in Nat /\ NProc > 1
  /\ Continuous \in BOOLEAN
  /\ Rendezvous \in BOOLEAN
  /\ IsFiniteSet(Dof)
  /\ CellDof \in [Cell -> SUBSET Dof]
  /\ Part \in [Cell -> Rank]
  /\ FaceDof \in [Face -> SUBSET Dof]
  /\ \A f \in Face : \E c, e \in Cell :
        /\ c # e
        /\ FaceCells[f] = {c, e}
        /\ FaceDof[f] \subseteq CellDof[c] \cap CellDof[e]
        /\ \A d \in FaceDof[f] \ PointDof, b \in Cell :
              d \in CellDof[b] => b \in {c, e}
  /\ LocalIndex \in [Rank -> [Dof -> Nat]]
  /\ \A p \in Rank, d, e \in Dof :
        LocalIndex[p][d] = LocalIndex[p][e] => d = e

ASSUME SharedDofAssumption ==
  /\ Continuous /\ HasFaceDof =>
       \A d \in Dof : \A p \in Holders[d] :
          Holders[d] # {p} => \E f \in InterProcessFaces[p] : d \in FaceDof[f]
  /\ ~Continuous => \A b, c \in Cell : b # c => CellDof[b] \cap CellDof[c] = {}

-----------------------------------------------------------------------------
VARIABLES
  pc,               \* where each rank is
  todo,             \* interprocess faces the walk has not visited
  dofdone,          \* dofs the walk has treated
  dofIsGhost,       \* dofs another rank owns
  listToSend,       \* per owner, the dofs to ask it for
  procRecvData,     \* the ranks that will ask
  gathered,         \* contribution of a rank to the all_gather
  nWithoutGhost,    \* M_n_localWithoutGhost_df, on each rank
  nDofs,            \* M_n_dofs, on each rank
  firstDf,          \* M_first_df_globalcluster, on each rank
  lastDf,           \* M_last_df_globalcluster, on each rank
  cpt,              \* index of the loop that fills the two ranges
  toCluster,        \* M_mapGlobalProcessToGlobalCluster
  chan,             \* chan[p][q]: messages from p to q, in order (tag 0)
  pending,          \* irecv requests not completed
  dataToRecv,       \* the dofs asked by each rank
  finalDataToRecv,  \* the answers received from each owner
  onCluster         \* M_locglobOnCluster_indices

walkVars  == <<todo, dofdone, dofIsGhost, listToSend, procRecvData>>
rangeVars == <<gathered, nWithoutGhost, nDofs, firstDf, lastDf, cpt>>
commVars  == <<chan, pending, dataToRecv, finalDataToRecv>>
vars == <<pc, walkVars, rangeVars, toCluster, commVars, onCluster>>

Table(x) == [q \in Rank |-> x]
PerRank(x) == [p \in Rank |-> x]

(* buildDofMap only knows the range of the rank itself                     *)
OfItself(x) == [p \in Rank |-> [q \in Rank |-> IF q = p THEN x[p] ELSE 0]]

HeldCount == [p \in Rank |-> Cardinality(Held[p])]

HeldLast == [p \in Rank |-> IF HeldCount[p] > 0 THEN HeldCount[p] - 1 ELSE 0]

NothingNumbered == [d \in Dof |-> Invalid]
NoAnswer == [d \in {} |-> Invalid]

Init ==
  /\ pc = PerRank("build")
  /\ todo = PerRank({})
  /\ dofdone = PerRank({})
  /\ dofIsGhost = PerRank({})
  /\ listToSend = PerRank(Table({}))
  /\ procRecvData = PerRank({})
  /\ gathered = PerRank(Invalid)
  /\ nWithoutGhost = OfItself(HeldCount)
  /\ nDofs = HeldCount
  /\ firstDf = PerRank(Table(0))
  /\ lastDf = OfItself(HeldLast)
  /\ cpt = PerRank(0)
  /\ toCluster = PerRank(NothingNumbered)
  /\ chan = PerRank(Table(<<>>))
  /\ pending = PerRank({})
  /\ dataToRecv = PerRank(Table({}))
  /\ finalDataToRecv = PerRank(Table(NoAnswer))
  /\ onCluster = PerRank(NothingNumbered)

Go(p, from, to) ==
  /\ pc[p] = from
  /\ pc' = [pc EXCEPT ![p] = to]

-----------------------------------------------------------------------------
(* DofTable::build: which numbering a space gets                           *)

(* Mutant: every rank counts its copy of the dof as its own                *)
BuildP0PerRank(p) ==
  /\ Go(p, "build", "done")
  /\ nWithoutGhost' = [nWithoutGhost EXCEPT ![p] = Table(1)]
  /\ firstDf' = [firstDf EXCEPT ![p] = Table(0)]
  /\ lastDf' = [lastDf EXCEPT ![p] = Table(0)]
  /\ toCluster' = [toCluster EXCEPT ![p] =
                     [d \in Dof |-> IF d \in Held[p] THEN 0 ELSE Invalid]]
  /\ UNCHANGED <<walkVars, gathered, nDofs, cpt, commVars, onCluster>>

BuildP0Continuous(p) ==
  /\ Go(p, "build", "done")
  /\ nWithoutGhost' =
       [nWithoutGhost EXCEPT ![p] = [q \in Rank |-> IF q = 0 THEN 1 ELSE 0]]
  /\ firstDf' = [firstDf EXCEPT ![p] = [q \in Rank |-> IF q = 0 THEN 0 ELSE 25]]
  /\ lastDf' = [lastDf EXCEPT ![p] = [q \in Rank |-> IF q = 0 THEN 0 ELSE 25]]
  /\ toCluster' = [toCluster EXCEPT ![p] =
                     [d \in Dof |-> IF d \in Held[p] THEN 0 ELSE Invalid]]
  /\ UNCHANGED <<walkVars, gathered, nDofs, cpt, commVars, onCluster>>

(* A space without dofs on faces (nbFaceDof == 0) leaves the maps as they  *)
(* are and goes straight to the copy into the element table                *)
BuildContinuous(p) ==
  /\ Go(p, "build", IF HasFaceDof THEN "walk" ELSE "cluster")
  /\ todo' = [todo EXCEPT ![p] = InterProcessFaces[p]]
  /\ UNCHANGED <<dofdone, dofIsGhost, listToSend, procRecvData, rangeVars,
                 toCluster, commVars, onCluster>>

(* The loop over the other ranks starts from the range of rank 0.  The     *)
(* loop that adds up M_n_dofs runs along with it.                          *)
StartRanges(p, table) ==
  /\ nWithoutGhost' = [nWithoutGhost EXCEPT ![p] = table]
  /\ nDofs' = [nDofs EXCEPT ![p] = table[0]]
  /\ firstDf' = [firstDf EXCEPT ![p][0] = 0]
  /\ lastDf' = [lastDf EXCEPT ![p][0] = IF table[0] > 0 THEN table[0] - 1 ELSE 0]
  /\ cpt' = [cpt EXCEPT ![p] = 1]

BuildDiscontinuous(p) ==
  /\ Go(p, "build", "ranges")
  /\ StartRanges(p, [q \in Rank |-> Cardinality(Held[q])])
  /\ UNCHANGED <<walkVars, gathered, toCluster, commVars, onCluster>>

Build(p) ==
  IF LooksP0Continuous THEN BuildP0Continuous(p)
  ELSE IF Continuous THEN BuildContinuous(p) ELSE BuildDiscontinuous(p)

-----------------------------------------------------------------------------
(* buildGlobalProcessToGlobalClusterDofMapContinuousActifDof               *)

(* Mutant: the rank on the other side of the face decides alone            *)
ProcMinOfFace(p, f, d) == OffProc(p, f)

(* detail::updateDofOnVertices, updateDofOnEdges: the lowest other rank    *)
ProcMin(p, f, d) ==
  IF d \in PointDof
  THEN Min({OffProc(p, f)} \cup ElementsGhost(p, d))
  ELSE OffProc(p, f)

(* Mutant: only the rank on the other side of the face is expected         *)
AskersOfFace(p, f, d) == {OffProc(p, f)}

(* The ranks that will ask p for a dof it owns                             *)
Askers(p, f, d) ==
  IF d \in PointDof THEN ElementsGhost(p, d) ELSE {OffProc(p, f)}

(* One interprocess face: its dofs that an earlier face has not treated    *)
WalkFace(p, f) ==
  LET fresh == FaceDof[f] \ dofdone[p]
      ghosts == {d \in fresh : ProcMin(p, f, d) < p}
      actifs == {d \in fresh : p < ProcMin(p, f, d)}
  IN /\ pc[p] = "walk"
     /\ f \in todo[p]
     /\ todo' = [todo EXCEPT ![p] = @ \ {f}]
     /\ dofdone' = [dofdone EXCEPT ![p] = @ \cup FaceDof[f]]
     /\ dofIsGhost' = [dofIsGhost EXCEPT ![p] = @ \cup ghosts]
     /\ listToSend' = [listToSend EXCEPT ![p] =
          [q \in Rank |-> @[q] \cup {d \in ghosts : ProcMin(p, f, d) = q}]]
     /\ procRecvData' = [procRecvData EXCEPT ![p] =
          @ \cup UNION {Askers(p, f, d) : d \in actifs}]
     /\ UNCHANGED <<pc, rangeVars, toCluster, commVars, onCluster>>

(* The walk ends and the rank enters the all_gather of the sizes           *)
EnterGather(p) ==
  /\ Go(p, "walk", "gather")
  /\ todo[p] = {}
  /\ gathered' = [gathered EXCEPT ![p] =
                    Cardinality(Held[p]) - Cardinality(dofIsGhost[p])]
  /\ UNCHANGED <<walkVars, nWithoutGhost, nDofs, firstDf, lastDf, cpt,
                 toCluster, commVars, onCluster>>

(* Mutant: the gather does not wait for all the ranks                      *)
LeaveGatherEarly(p) ==
  /\ Go(p, "gather", "ranges")
  /\ StartRanges(p, gathered)
  /\ UNCHANGED <<walkVars, gathered, toCluster, commVars, onCluster>>

LeaveGather(p) ==
  /\ Go(p, "gather", "ranges")
  /\ \A q \in Rank : gathered[q] # Invalid
  /\ StartRanges(p, gathered)
  /\ UNCHANGED <<walkVars, gathered, toCluster, commVars, onCluster>>

(* Mutants: a range starts at the end of the one before, even when that    *)
(* one is not empty; or after it, even when it is empty; the end of an     *)
(* empty range is before its start                                         *)
FirstAtLast(table, last, i) == last[i-1]

FirstAlwaysAfter(table, last, i) == last[i-1] + 1

LastBeforeFirst(table, first, i) == first + table[i] - 1

(* One turn of the loop that fills the ranges of the other ranks           *)
FirstAfter(table, last, i) == IF table[i-1] > 0 THEN last[i-1] + 1 ELSE last[i-1]

LastFrom(table, first, i) == IF table[i] > 0 THEN first + table[i] - 1 ELSE first

RangeStep(p) ==
  LET i == cpt[p]
      first == FirstAfter(nWithoutGhost[p], lastDf[p], i)
  IN /\ pc[p] = "ranges"
     /\ i < NProc
     /\ firstDf' = [firstDf EXCEPT ![p][i] = first]
     /\ lastDf' = [lastDf EXCEPT ![p][i] = LastFrom(nWithoutGhost[p], first, i)]
     /\ nDofs' = [nDofs EXCEPT ![p] = @ + nWithoutGhost[p][i]]
     /\ cpt' = [cpt EXCEPT ![p] = i + 1]
     /\ UNCHANGED <<pc, walkVars, gathered, nWithoutGhost, toCluster,
                    commVars, onCluster>>

(* Mutant: every dof of an interprocess face is taken for a ghost          *)
InnerDofs(p) == Held[p] \ dofdone[p]

Actif(p) == Held[p] \ dofIsGhost[p]

(* nextGlobIndex - firstGlobIndex when the loop over local dofs reaches d  *)
Position(p, d) ==
  Cardinality({e \in Actif(p) : LocalIndex[p][e] < LocalIndex[p][d]})

NumberActif(p) ==
  /\ Go(p, "ranges", IF Continuous THEN "post" ELSE "cluster")
  /\ cpt[p] = NProc
  /\ toCluster' = [toCluster EXCEPT ![p] =
       [d \in Dof |-> IF d \in Actif(p) THEN firstDf[p][p] + Position(p, d)
                                        ELSE Invalid]]
  /\ UNCHANGED <<walkVars, rangeVars, commVars, onCluster>>

-----------------------------------------------------------------------------
(* buildGlobalProcessToGlobalClusterDofMapContinuousGhostDofNonBlockingComm *)

Owners(p) == {q \in Rank : listToSend[p][q] # {}}

(* chan[p] after p has sent a message to each rank of a set                *)
Sent(p, to, Msg(_)) ==
  [chan EXCEPT ![p] = [q \in Rank |-> IF q \in to THEN Append(@[q], Msg(q))
                                                  ELSE @[q]]]

Request(dofs) == [kind |-> "request", dofs |-> dofs]
Answer(ids)   == [kind |-> "answer", ids |-> ids]

NothingToExchange(p) ==
  /\ Go(p, "post", "cluster")
  /\ Owners(p) = {} /\ procRecvData[p] = {}
  /\ UNCHANGED <<walkVars, rangeVars, toCluster, commVars, onCluster>>

(* Mutant: the receives of the answers are posted with those of the        *)
(* requests                                                                *)
PostAllReceives(p) ==
  /\ Go(p, "post", "waitRequests")
  /\ Owners(p) # {} \/ procRecvData[p] # {}
  /\ chan' = Sent(p, Owners(p), LAMBDA q : Request(listToSend[p][q]))
  /\ pending' = [pending EXCEPT ![p] = procRecvData[p] \cup Owners(p)]
  /\ UNCHANGED <<walkVars, rangeVars, toCluster, dataToRecv, finalDataToRecv,
                 onCluster>>

PostRequests(p) ==
  /\ Go(p, "post", "waitRequests")
  /\ Owners(p) # {} \/ procRecvData[p] # {}
  /\ chan' = Sent(p, Owners(p), LAMBDA q : Request(listToSend[p][q]))
  /\ pending' = [pending EXCEPT ![p] = procRecvData[p]]
  /\ UNCHANGED <<walkVars, rangeVars, toCluster, dataToRecv, finalDataToRecv,
                 onCluster>>

(* Mutant: the completion of a receive is tested and not recorded          *)
ReceiveTested(p, q) ==
  /\ q \in pending[p]
  /\ chan[q][p] # <<>>
  /\ UNCHANGED <<chan, pending>>

(* The oldest message from q completes an irecv of p                       *)
Receive(p, q) ==
  /\ q \in pending[p]
  /\ chan[q][p] # <<>>
  /\ chan' = [chan EXCEPT ![q][p] = Tail(@)]
  /\ pending' = [pending EXCEPT ![p] = @ \ {q}]

RecvRequest(p, q) ==
  /\ pc[p] = "waitRequests"
  /\ Receive(p, q)
  /\ dataToRecv' = [dataToRecv EXCEPT ![p][q] = Head(chan[q][p]).dofs]
  /\ UNCHANGED <<pc, walkVars, rangeVars, toCluster, finalDataToRecv, onCluster>>

(* wait_all: the receives of p have completed, and its isends too          *)
AllComplete(p, to) ==
  /\ pending[p] = {}
  /\ Rendezvous => \A q \in to : chan[p][q] = <<>>

(* After the first wait_all p answers from its own map and posts the       *)
(* receives of the answers to its requests.                                *)
SendAnswers(p) ==
  /\ Go(p, "waitRequests", "waitAnswers")
  /\ AllComplete(p, Owners(p))
  /\ chan' = Sent(p, procRecvData[p],
               LAMBDA q : Answer([d \in dataToRecv[p][q] |-> toCluster[p][d]]))
  /\ pending' = [pending EXCEPT ![p] = Owners(p)]
  /\ UNCHANGED <<walkVars, rangeVars, toCluster, dataToRecv, finalDataToRecv,
                 onCluster>>

RecvAnswer(p, q) ==
  /\ pc[p] = "waitAnswers"
  /\ Receive(p, q)
  /\ finalDataToRecv' = [finalDataToRecv EXCEPT ![p][q] = Head(chan[q][p]).ids]
  /\ UNCHANGED <<pc, walkVars, rangeVars, toCluster, dataToRecv, onCluster>>

(* After the second wait_all the ghosts take the numbers received          *)
UpdateGhosts(p) ==
  /\ Go(p, "waitAnswers", "cluster")
  /\ AllComplete(p, procRecvData[p])
  /\ toCluster' = [toCluster EXCEPT ![p] =
       [d \in Dof |-> IF \E q \in Owners(p) : d \in listToSend[p][q]
                      THEN finalDataToRecv[p][CHOOSE q \in Owners(p) :
                                                d \in listToSend[p][q]][d]
                      ELSE @[d]]]
  /\ UNCHANGED <<walkVars, rangeVars, commVars, onCluster>>

(* buildGhostDofMap ends by copying the numbers into the element table     *)
LocalToGlobalOnCluster(p) ==
  /\ Go(p, "cluster", "done")
  /\ onCluster' = [onCluster EXCEPT ![p] = toCluster[p]]
  /\ UNCHANGED <<walkVars, rangeVars, toCluster, commVars>>

-----------------------------------------------------------------------------
Step(p) ==
  \/ Build(p)
  \/ \E f \in Face : WalkFace(p, f)
  \/ EnterGather(p)
  \/ LeaveGather(p)
  \/ RangeStep(p)
  \/ NumberActif(p)
  \/ NothingToExchange(p)
  \/ PostRequests(p)
  \/ \E q \in Rank : RecvRequest(p, q)
  \/ SendAnswers(p)
  \/ \E q \in Rank : RecvAnswer(p, q)
  \/ UpdateGhosts(p)
  \/ LocalToGlobalOnCluster(p)

(* All ranks have returned: the only state in which nothing happens        *)
Finished == (\A p \in Rank : pc[p] = "done") /\ UNCHANGED vars

Next == (\E p \in Rank : Step(p)) \/ Finished

(* MPI makes progress and every rank keeps running                         *)
Fairness == \A p \in Rank : WF_vars(Step(p))

Spec == Init /\ [][Next]_vars

FairSpec == Spec /\ Fairness

-----------------------------------------------------------------------------
(* Properties                                                              *)

Phase == {"build", "walk", "gather", "ranges", "post", "waitRequests",
          "waitAnswers", "cluster", "done"}

Id == Nat \cup {Invalid}

(* A map from some dofs to ids                                             *)
IsIdMap(f) == DOMAIN f \in SUBSET Dof /\ f \in [DOMAIN f -> Id]

IsMessage(m) ==
  \/ m.kind = "request" /\ m = Request(m.dofs) /\ m.dofs \in SUBSET Dof
  \/ m.kind = "answer" /\ m = Answer(m.ids) /\ IsIdMap(m.ids)

(* Every variable keeps its type                                           *)
TypeOK ==
  /\ pc \in [Rank -> Phase]
  /\ todo \in [Rank -> SUBSET Face]
  /\ dofdone \in [Rank -> SUBSET Dof]
  /\ dofIsGhost \in [Rank -> SUBSET Dof]
  /\ listToSend \in [Rank -> [Rank -> SUBSET Dof]]
  /\ procRecvData \in [Rank -> SUBSET Rank]
  /\ gathered \in [Rank -> Id]
  /\ nWithoutGhost \in [Rank -> [Rank -> Nat]]
  /\ nDofs \in [Rank -> Nat]
  /\ firstDf \in [Rank -> [Rank -> Nat]]
  /\ lastDf \in [Rank -> [Rank -> Nat]]
  /\ cpt \in [Rank -> 0 .. NProc]
  /\ toCluster \in [Rank -> [Dof -> Id]]
  /\ DOMAIN chan = Rank
  /\ \A p \in Rank : /\ DOMAIN chan[p] = Rank
                      /\ \A q \in Rank : \A i \in 1 .. Len(chan[p][q]) :
                            IsMessage(chan[p][q][i])
  /\ pending \in [Rank -> SUBSET Rank]
  /\ dataToRecv \in [Rank -> [Rank -> SUBSET Dof]]
  /\ DOMAIN finalDataToRecv = Rank
  /\ \A p \in Rank : /\ DOMAIN finalDataToRecv[p] = Rank
                      /\ \A q \in Rank : IsIdMap(finalDataToRecv[p][q])
  /\ onCluster \in [Rank -> [Dof -> Id]]

(* The rank has left the walk over its interprocess faces                  *)
Walked(p) == pc[p] \notin {"build", "walk"}

(***************************************************************************)
(* The spaces the numbering is written for: the test of DofTable::build    *)
(* recognises the continuous P0 space and no other, and every other        *)
(* continuous space has dofs on faces.                                     *)
(***************************************************************************)
RegularSpace ==
  IF LooksP0Continuous
  THEN \A p, q \in Rank : Held[p] = Held[q]
  ELSE Continuous => HasFaceDof

(* The ranks decide separately who owns a shared dof, and they decide the  *)
(* same: of two ranks that hold a dof at most one owns it, and the rank a  *)
(* ghost will be asked from holds that dof and owns it.                    *)
OwnersAgree ==
  \A p, q \in Rank : p # q /\ Walked(p) /\ Walked(q) /\ ~LooksP0Continuous =>
     /\ Actif(p) \cap Actif(q) = {}
     /\ listToSend[p][q] \subseteq Actif(q)

(* A rank asks exactly the ranks that wait for its request: a request      *)
(* nobody receives, or a receive nobody answers, would block wait_all.     *)
RequestsExpected ==
  \A p, q \in Rank : Walked(p) /\ Walked(q) =>
     (q \in Owners(p) <=> p \in procRecvData[q])

(* Requests and answers travel under the same tag: a receive never         *)
(* completes with a message of the other exchange.                         *)
NoCrossedMessages ==
  \A p, q \in Rank : q \in pending[p] /\ chan[q][p] # <<>> =>
     Head(chan[q][p]).kind = IF pc[p] = "waitRequests" THEN "request" ELSE "answer"

(* The owner answers with real numbers: every dof asked is one it numbered *)
(* before the request was answered, never a ghost still without a number.  *)
AnswersNumbered ==
  \A p, q \in Rank : \A i \in 1 .. Len(chan[q][p]) :
     chan[q][p][i].kind = "answer" =>
        \A d \in DOMAIN chan[q][p][i].ids : chan[q][p][i].ids[d] # Invalid

(* Two different dofs never get the same cluster id, on whatever ranks     *)
UniqueNumbers ==
  \A p, q \in Rank, d, e \in Dof :
     d # e /\ toCluster[p][d] # Invalid => toCluster[p][d] # toCluster[q][e]

(* A shared dof has the same cluster id on all the ranks that number it    *)
SameNumber ==
  \A p, q \in Rank, d \in Dof :
     toCluster[p][d] # Invalid /\ toCluster[q][d] # Invalid
       => toCluster[p][d] = toCluster[q][d]

(* DataMap::dofGlobalClusterIsOnProc                                       *)
DofGlobalClusterIsOnProc(p, id, q) ==
  /\ nWithoutGhost[p][q] > 0
  /\ firstDf[p][q] <= id /\ id <= lastDf[p][q]

(* The range test by which the rest of the library finds the owner of a    *)
(* cluster id names, on every rank, the rank that owns the dof and no      *)
(* other, even when some ranks own nothing.                                *)
RangesMatchOwnership ==
  \A p \in Rank : pc[p] = "done" /\ ~LooksP0Continuous =>
     \A d \in Held[p], q \in Rank :
        DofGlobalClusterIsOnProc(p, onCluster[p][d], q)
          <=> d \in Held[q] /\ d \notin dofIsGhost[q]

(* When all ranks have returned, the ids are 0 .. M_n_dofs-1 without holes *)
(* and every copy of every dof has one.                                    *)
Complete ==
  (\A p \in Rank : pc[p] = "done") =>
     \A q \in Rank : UNION {{toCluster[p][d] : d \in Held[p]} : p \in Rank}
                     = 0 .. nDofs[q] - 1

(* Every rank returns from the numbering                                   *)
Completion == <>(\A p \in Rank : pc[p] = "done")

(* The protocol implements the abstract numbering                          *)
Numbering == INSTANCE ClusterNumbering WITH number <- toCluster

ImplementsNumbering == Numbering!Spec

=============================================================================
