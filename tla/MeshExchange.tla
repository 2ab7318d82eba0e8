---------------------------- MODULE MeshExchange ----------------------------
(***************************************************************************)
(* How the ranks of a partitioned mesh learn the names of each other's     *)
(* entities: ImporterGmsh (feel/feelfilters/importergmsh.hpp) and          *)
(* Mesh::updateForUse (feel/feeldiscr/meshimpl.hpp).                       *)
(*                                                                         *)
(* Every rank reads the whole gmsh file and keeps its own cells and the    *)
(* ghost cells the file lists for it, numbered in the order of the file.   *)
(* It asks the owners of its ghosts for their number of those cells, then  *)
(* numbers the faces of what it kept and asks the owners, by the numbers   *)
(* just learnt, for their numbers of the faces.  Both exchanges use        *)
(* isend/irecv under tag 0 and no collective call separates them.          *)
(*                                                                         *)
(* A cell is its number in the file, a face is its set of vertices (the    *)
(* code recognises the faces of another rank by their barycentre).  The    *)
(* points keep the numbers of the file on all ranks: nothing is learnt.    *)
(***************************************************************************)
EXTENDS Integers, FiniteSets, Functions, Sequences

CONSTANTS
  NProc,       \* worldComm().localSize()
  Cell,        \* the cells of the file, by their number in it
  Partition,   \* the partition tag of a cell
  GhostTags,   \* the partitions the file lists as having the cell for ghost
  Ignored,     \* the cells of the ignored physical groups
  CellFaces,   \* the faces of a cell, in their local order
  Line         \* the marked faces of the file: [face, partition]

Rank == 0 .. NProc - 1

(* invalid_size_type_value                                                 *)
Invalid == -1

(* The partition of a line for which the file gives none: every reader     *)
(* takes it for its own                                                    *)
Unpartitioned == -1

-----------------------------------------------------------------------------
(* GMSHElement: the tags of the file, folded on the ranks there are        *)
Owner(c) == Partition[c] % NProc

Ghosts(c) == {g % NProc : g \in GhostTags[c]}

(* isOnProcessor, and not isIgnored                                        *)
Kept ==
  [p \in Rank |-> {c \in Cell \ Ignored : Owner(c) = p \/ p \in Ghosts(c)}]

Active == [p \in Rank |-> {c \in Kept[p] : Owner(c) = p}]

KeptLines ==
  [p \in Rank |-> {i \in DOMAIN Line : Line[i].partition = Unpartitioned
                                         \/ Line[i].partition % NProc = p}]

FacesOf ==
  [c \in Cell |-> {CellFaces[c][j] : j \in DOMAIN CellFaces[c]}]

KeptFaces == [p \in Rank |-> UNION {FacesOf[c] : c \in Kept[p]}]

(***************************************************************************)
(* What the file guarantees: it is finite, a face has at most two cells, a *)
(* cell is never a ghost of its own rank (there are no more partitions     *)
(* than ranks), and two cells of different ranks that share a face are     *)
(* ghosts of each other's rank.  A line of a partition is a face of a cell *)
(* of that rank.                                                           *)
(***************************************************************************)
ASSUME FileAssumption ==
  /\ NProc \in Nat /\ NProc > 1
  /\ Cell \subseteq Nat /\ IsFiniteSet(Cell)
  /\ Partition \in [Cell -> Nat]
  /\ GhostTags \in [Cell -> SUBSET Nat]
  /\ Ignored \subseteq Cell
  /\ \A c \in Cell : IsFiniteSet(DOMAIN CellFaces[c])
  /\ IsFiniteSet(DOMAIN Line)
  /\ \A c \in Cell : Owner(c) \notin Ghosts(c)
  /\ \A c, d, e \in Cell :
        FacesOf[c] \cap FacesOf[d] \cap FacesOf[e] # {} => Cardinality({c, d, e}) < 3
  /\ \A c, d \in Cell : FacesOf[c] \cap FacesOf[d] # {} /\ Owner(c) # Owner(d)
        => Owner(c) \in Ghosts(d)
  /\ \A p \in Rank : \A i \in KeptLines[p] :
        Line[i].partition # Unpartitioned =>
          \E c \in Cell : Owner(c) = p /\ Line[i].face \in FacesOf[c]

-----------------------------------------------------------------------------
VARIABLES
  pc,                 \* where each rank is
  idGmshToFeel,       \* __idGmshToFeel, for the cells: their number on the rank
  mapGhostElt,        \* __mapGhostElt: the ghost cells of the rank
  nbMsgToRecv,        \* per rank, how many cells it will ask for
  cellInOthers,       \* number of a ghost cell on its owner
  faceId,             \* the number of a face on the rank
  faceProcessId,      \* the rank a face is said to belong to
  faceInOthers,       \* per other rank, the number of the face there
  neighborSubdomain,  \* M_face_neighbor_processors
  reduced,            \* contribution of a rank to the all_reduce
  numGlobalElements,  \* M_numGlobalElements
  rendezvous,         \* does an isend complete only when it is received?
  chan,               \* chan[p][q]: messages from p to q, in order (tag 0)
  pending,            \* irecv requests not completed
  received            \* the last message received from each rank

cellVars   == <<idGmshToFeel, mapGhostElt, nbMsgToRecv, cellInOthers>>
faceVars   == <<faceId, faceProcessId, faceInOthers, neighborSubdomain>>
reduceVars == <<reduced, numGlobalElements>>
commVars   == <<rendezvous, chan, pending, received>>
vars == <<pc, cellVars, faceVars, reduceVars, commVars>>

Nothing == <<>>

NoMessage == [kind |-> "none", data |-> <<>>]

Init ==
  /\ pc = [p \in Rank |-> "read"]
  /\ idGmshToFeel = [p \in Rank |-> Nothing]
  /\ mapGhostElt = [p \in Rank |-> {}]
  /\ nbMsgToRecv = [p \in Rank |-> [q \in Rank |-> 0]]
  /\ cellInOthers = [p \in Rank |-> Nothing]
  /\ faceId = [p \in Rank |-> Nothing]
  /\ faceProcessId = [p \in Rank |-> Nothing]
  /\ faceInOthers = [p \in Rank |-> Nothing]
  /\ neighborSubdomain = [p \in Rank |-> {}]
  /\ reduced = [p \in Rank |-> Invalid]
  /\ numGlobalElements = [p \in Rank |-> 0]
  /\ rendezvous \in BOOLEAN
  /\ chan = [p \in Rank |-> [q \in Rank |-> <<>>]]
  /\ pending = [p \in Rank |-> {}]
  /\ received = [p \in Rank |-> [q \in Rank |-> NoMessage]]

Go(p, from, to) == pc[p] = from /\ pc' = [pc EXCEPT ![p] = to]

-----------------------------------------------------------------------------
(* Reading                                                                 *)

(* addElement numbers a cell by how many the rank has already              *)
FeelId(p, c) == Cardinality({e \in Kept[p] : e < c})

(* Mutant: the ignored cells are expected, though nobody keeps them        *)
AskedOfIgnored(p, q) ==
  Cardinality({c \in Cell : Owner(c) = p /\ q \in Ghosts(c)})

(* How many cells of p the rank q has for ghosts                           *)
AskedOf(p, q) == Cardinality({c \in Active[p] : q \in Ghosts(c)})

Read(p) ==
  /\ Go(p, "read", "askCells")
  /\ idGmshToFeel' = [idGmshToFeel EXCEPT ![p] = [c \in Kept[p] |-> FeelId(p, c)]]
  /\ mapGhostElt' = [mapGhostElt EXCEPT ![p] = Kept[p] \ Active[p]]
  /\ nbMsgToRecv' = [nbMsgToRecv EXCEPT ![p] = [q \in Rank |-> AskedOf(p, q)]]
  /\ cellInOthers' = [cellInOthers EXCEPT ![p] = [c \in Kept[p] |-> Invalid]]
  /\ UNCHANGED <<faceVars, reduceVars, commVars>>

-----------------------------------------------------------------------------
(* One exchange: requests to the owners, answers to the askers             *)

Owners(p) == {Owner(c) : c \in mapGhostElt[p]}

(* The ghosts of p that q owns, in increasing number                       *)
Wanted(p, q) ==
  LET G == {c \in mapGhostElt[p] : Owner(c) = q} IN
  [k \in 1 .. Cardinality(G) |-> CHOOSE c \in G : Cardinality({e \in G : e < c}) = k - 1]

(* Where c is in the request that names it                                 *)
Place(p, c) ==
  CHOOSE k \in DOMAIN Wanted(p, Owner(c)) : Wanted(p, Owner(c))[k] = c

CellAskers(p) == {q \in Rank : nbMsgToRecv[p][q] > 0}

(* The neighbor partitions of the active cells                             *)
FaceAskers(p) == UNION {Ghosts(c) : c \in Active[p]}

(* The isends of p: one message to each rank of to                         *)
Sent(p, kind, to, data(_)) ==
  [chan EXCEPT ![p] = [q \in Rank |->
     IF q \in to THEN Append(@[q], [kind |-> kind, data |-> data(q)]) ELSE @[q]]]

(* wait_all: the receives of p have completed, and its isends too          *)
AllComplete(p, to) ==
  /\ pending[p] = {}
  /\ rendezvous => \A q \in to : chan[p][q] = <<>>

(* Mutant: the completion of a receive is tested and not recorded          *)
ReceiveTested(p, q) ==
  /\ q \in pending[p]
  /\ chan[q][p] # <<>>
  /\ UNCHANGED vars

(* The oldest message from q completes an irecv of p                       *)
Receive(p, q) ==
  /\ q \in pending[p]
  /\ chan[q][p] # <<>>
  /\ received' = [received EXCEPT ![p][q] = Head(chan[q][p])]
  /\ chan' = [chan EXCEPT ![q][p] = Tail(@)]
  /\ pending' = [pending EXCEPT ![p] = @ \ {q}]
  /\ UNCHANGED <<pc, cellVars, faceVars, reduceVars, rendezvous>>

-----------------------------------------------------------------------------
(* updateGhostCellInfoByUsingNonBlockingComm                               *)

NoCellRequest(p) ==
  /\ Go(p, "askCells", "faces")
  /\ Owners(p) = {} /\ CellAskers(p) = {}
  /\ UNCHANGED <<cellVars, faceVars, reduceVars, commVars>>

(* Mutant: the receives of the answers are posted with those of the        *)
(* requests                                                                *)
AskCellsAtOnce(p) ==
  /\ Go(p, "askCells", "answerCells")
  /\ Owners(p) # {} \/ CellAskers(p) # {}
  /\ chan' = Sent(p, "askCells", Owners(p), LAMBDA q : Wanted(p, q))
  /\ pending' = [pending EXCEPT ![p] = CellAskers(p) \cup Owners(p)]
  /\ UNCHANGED <<cellVars, faceVars, reduceVars, rendezvous, received>>

AskCells(p) ==
  /\ Go(p, "askCells", "answerCells")
  /\ Owners(p) # {} \/ CellAskers(p) # {}
  /\ chan' = Sent(p, "askCells", Owners(p), LAMBDA q : Wanted(p, q))
  /\ pending' = [pending EXCEPT ![p] = CellAskers(p)]
  /\ UNCHANGED <<cellVars, faceVars, reduceVars, rendezvous, received>>

(* Mutant: the numbers are sent back as they came                          *)
CellEcho(p, numbers) == numbers

(* The numbers of the file are translated into those of p                  *)
CellAnswer(p, numbers) ==
  [k \in DOMAIN numbers |-> idGmshToFeel[p][numbers[k]]]

AnswerCells(p) ==
  /\ Go(p, "answerCells", "setCells")
  /\ AllComplete(p, Owners(p))
  /\ chan' = Sent(p, "cellIds", CellAskers(p),
                  LAMBDA q : CellAnswer(p, received[p][q].data))
  /\ pending' = [pending EXCEPT ![p] = Owners(p)]
  /\ UNCHANGED <<cellVars, faceVars, reduceVars, rendezvous, received>>

SetCells(p) ==
  /\ Go(p, "setCells", "faces")
  /\ AllComplete(p, CellAskers(p))
  /\ cellInOthers' = [cellInOthers EXCEPT ![p] =
       [c \in Kept[p] |-> IF c \in mapGhostElt[p]
                          THEN received[p][Owner(c)].data[Place(p, c)]
                          ELSE @[c]]]
  /\ UNCHANGED <<idGmshToFeel, mapGhostElt, nbMsgToRecv, faceVars, reduceVars,
                 commVars>>

-----------------------------------------------------------------------------
(* updateEntitiesCoDimensionOne                                            *)

(* The cells are walked by rank of their owner, then by number             *)
WalkedBefore(c, d) == Owner(c) < Owner(d) \/ (Owner(c) = Owner(d) /\ c < d)

(* The first cell of p the walk meets that has the face                    *)
Element0 ==
  [p \in Rank |-> [f \in KeptFaces[p] |->
     CHOOSE c \in Kept[p] : /\ f \in FacesOf[c]
                            /\ \A d \in Kept[p] : f \in FacesOf[d] => ~WalkedBefore(d, c)]]

(* The lines of the file are numbered even when they touch no cell of p:   *)
(* such a face is erased after the walk and leaves a hole in the numbers.  *)
NumberedFaces ==
  [p \in Rank |-> KeptFaces[p] \cup {Line[i].face : i \in KeptLines[p]}]

(* Where the walk first meets the face; the lines of the file come first   *)
FirstSeen ==
  [p \in Rank |-> [f \in NumberedFaces[p] |->
     IF \E i \in KeptLines[p] : Line[i].face = f
     THEN <<0, CHOOSE i \in KeptLines[p] : Line[i].face = f>>
     ELSE LET c == Element0[p][f] IN
          <<1 + Cardinality({d \in Kept[p] : WalkedBefore(d, c)}),
            CHOOSE j \in DOMAIN CellFaces[c] : CellFaces[c][j] = f>>]]

SeenBefore(p, f, g) ==
  LET s == FirstSeen[p][f]
      t == FirstSeen[p][g]
  IN s[1] < t[1] \/ (s[1] = t[1] /\ s[2] < t[2])

FaceNumber(p, f) == Cardinality({g \in NumberedFaces[p] : SeenBefore(p, g, f)})

(* Mutant: the face keeps the rank of the first cell                       *)
OwnerOfFirst(p, f) == Owner(Element0[p][f])

(* The rank of its first cell, forced to be p when the second one is p's   *)
FaceProcessId(p, f) ==
  IF \E c \in Active[p] : f \in FacesOf[c] THEN p ELSE Owner(Element0[p][f])

UpdateFaces(p) ==
  /\ Go(p, "faces", "askFaces")
  /\ faceId' = [faceId EXCEPT ![p] = [f \in KeptFaces[p] |-> FaceNumber(p, f)]]
  /\ faceProcessId' = [faceProcessId EXCEPT ![p] =
                         [f \in KeptFaces[p] |-> FaceProcessId(p, f)]]
  /\ faceInOthers' = [faceInOthers EXCEPT ![p] =
                        [f \in KeptFaces[p] |-> [q \in Rank |-> Invalid]]]
  /\ UNCHANGED <<cellVars, neighborSubdomain, reduceVars, commVars>>

(* Mutant: only the faces on a lower rank, as isGhostFace tells them       *)
GhostFaces(p) ==
  {f \in DOMAIN faceProcessId[p] :
     /\ faceProcessId[p][f] = p
     /\ \E c, d \in Kept[p] : /\ f \in FacesOf[c] \cap FacesOf[d]
                               /\ Owner(c) = p /\ Owner(d) < p}

(* The faces of p between a cell of their rank and one of another          *)
InterProcessFaces(p) ==
  {f \in DOMAIN faceProcessId[p] :
     /\ faceProcessId[p][f] = p
     /\ \E c, d \in Kept[p] : /\ f \in FacesOf[c] \cap FacesOf[d]
                               /\ Owner(c) = p /\ Owner(d) # p}

(* Mutant: partition1 for partition2                                       *)
Partition1(p, f) == p

(* partition2: the rank on the other side of an interprocess face          *)
Partition2(p, f) ==
  CHOOSE q \in Rank : \E d \in Kept[p] : q # p /\ f \in FacesOf[d] /\ Owner(d) = q

NeighborSubdomains(p) == {Partition2(p, f) : f \in InterProcessFaces(p)}

-----------------------------------------------------------------------------
(* updateEntitiesCoDimensionOneGhostCellByUsingNonBlockingComm             *)

NoFaceRequest(p) ==
  /\ Go(p, "askFaces", "reduce")
  /\ Owners(p) = {} /\ FaceAskers(p) = {}
  /\ neighborSubdomain' = [neighborSubdomain EXCEPT ![p] = NeighborSubdomains(p)]
  /\ UNCHANGED <<cellVars, faceId, faceProcessId, faceInOthers, reduceVars, commVars>>

AskFaces(p) ==
  /\ Go(p, "askFaces", "answerFaces")
  /\ Owners(p) # {} \/ FaceAskers(p) # {}
  /\ chan' = Sent(p, "askFaces", Owners(p),
                  LAMBDA q : [k \in DOMAIN Wanted(p, q) |->
                                cellInOthers[p][Wanted(p, q)[k]]])
  /\ pending' = [pending EXCEPT ![p] = FaceAskers(p)]
  /\ UNCHANGED <<cellVars, faceVars, reduceVars, rendezvous, received>>

(* The active cell of p with this number                                   *)
Element(p, id) == CHOOSE c \in Active[p] : idGmshToFeel[p][c] = id

(* Of every cell asked, the faces (their barycentres) and their numbers    *)
FaceAnswer(p, ids) ==
  [k \in DOMAIN ids |-> [f \in FacesOf[Element(p, ids[k])] |-> faceId[p][f]]]

AnswerFaces(p) ==
  /\ Go(p, "answerFaces", "setFaces")
  /\ AllComplete(p, Owners(p))
  /\ chan' = Sent(p, "faceIds", FaceAskers(p),
                  LAMBDA q : FaceAnswer(p, received[p][q].data))
  /\ pending' = [pending EXCEPT ![p] = Owners(p)]
  /\ UNCHANGED <<cellVars, faceVars, reduceVars, rendezvous, received>>

(* What the owner of the ghost c said of the faces of c                    *)
FacesReceived(p, c) == received[p][Owner(c)].data[Place(p, c)]

(* setIdInOthersPartitions inserts and never replaces; a face that is not  *)
(* found ends the program (CHECK hasFind).                                 *)
SetFaces(p) ==
  /\ Go(p, "setFaces", "reduce")
  /\ AllComplete(p, FaceAskers(p))
  /\ \A c \in mapGhostElt[p] : DOMAIN FacesReceived(p, c) = FacesOf[c]
  /\ faceInOthers' = [faceInOthers EXCEPT ![p] =
       [f \in KeptFaces[p] |-> [q \in Rank |->
          LET from == {c \in mapGhostElt[p] : f \in FacesOf[c] /\ Owner(c) = q} IN
          IF @[f][q] # Invalid \/ from = {} THEN @[f][q]
          ELSE FacesReceived(p, CHOOSE c \in from : TRUE)[f]]]]
  /\ neighborSubdomain' = [neighborSubdomain EXCEPT ![p] = NeighborSubdomains(p)]
  /\ UNCHANGED <<cellVars, faceId, faceProcessId, reduceVars, commVars>>

-----------------------------------------------------------------------------
(* updateNumGlobalElements                                                 *)

(* Mutant: the ghosts are counted, as a line commented out did             *)
ReduceNumElements(p) ==
  /\ Go(p, "reduce", "waitReduce")
  /\ reduced' = [reduced EXCEPT ![p] = Cardinality(Kept[p])]
  /\ UNCHANGED <<cellVars, faceVars, numGlobalElements, commVars>>

EnterReduce(p) ==
  /\ Go(p, "reduce", "waitReduce")
  /\ reduced' = [reduced EXCEPT ![p] = Cardinality(Active[p])]
  /\ UNCHANGED <<cellVars, faceVars, numGlobalElements, commVars>>

LeaveReduce(p) ==
  /\ Go(p, "waitReduce", "done")
  /\ \A q \in Rank : reduced[q] # Invalid
  /\ numGlobalElements' =
       [numGlobalElements EXCEPT ![p] = SumFunction(reduced)]
  /\ UNCHANGED <<cellVars, faceVars, reduced, commVars>>

-----------------------------------------------------------------------------
Step(p) ==
  \/ Read(p)
  \/ NoCellRequest(p)
  \/ AskCells(p)
  \/ AnswerCells(p)
  \/ SetCells(p)
  \/ UpdateFaces(p)
  \/ NoFaceRequest(p)
  \/ AskFaces(p)
  \/ AnswerFaces(p)
  \/ SetFaces(p)
  \/ EnterReduce(p)
  \/ LeaveReduce(p)
  \/ \E q \in Rank : Receive(p, q)

(* All ranks have the mesh: the only state in which nothing happens        *)
Finished == (\A p \in Rank : pc[p] = "done") /\ UNCHANGED vars

Next == (\E p \in Rank : Step(p)) \/ Finished

Spec == Init /\ [][Next]_vars

(* MPI makes progress and every rank keeps running                         *)
FairSpec == Spec /\ \A p \in Rank : WF_vars(Step(p))

-----------------------------------------------------------------------------
(* Properties                                                              *)

Phase == {"read", "askCells", "answerCells", "setCells", "faces", "askFaces",
          "answerFaces", "setFaces", "reduce", "waitReduce", "done"}

Kind == {"askCells", "cellIds", "askFaces", "faceIds"}

Id == Nat \cup {Invalid}

(* Every variable keeps its type; in particular a rank that has read the   *)
(* mesh knows of no other cell than those it kept                          *)
TypeOK ==
  /\ pc \in [Rank -> Phase]
  /\ rendezvous \in BOOLEAN
  /\ \A p \in Rank :
       LET has == IF pc[p] = "read" THEN {} ELSE Kept[p]
           faces == IF faceId[p] = Nothing THEN {} ELSE KeptFaces[p] IN
       /\ idGmshToFeel[p] \in [has -> Nat]
       /\ mapGhostElt[p] \in SUBSET has
       /\ nbMsgToRecv[p] \in [Rank -> Nat]
       /\ cellInOthers[p] \in [has -> Id]
       /\ faceId[p] \in [faces -> Nat]
       /\ faceProcessId[p] \in [faces -> Rank]
       /\ faceInOthers[p] \in [faces -> [Rank -> Id]]
       /\ neighborSubdomain[p] \in SUBSET (Rank \ {p})
       /\ reduced[p] \in Id /\ numGlobalElements[p] \in Nat
       /\ pending[p] \in SUBSET Rank
       /\ \A q \in Rank : \A i \in 1 .. Len(chan[p][q]) : chan[p][q][i].kind \in Kind

HasMesh(p) == pc[p] \in {"reduce", "waitReduce", "done"}

(* The numbers a rank has for the entities of another rank are those that  *)
(* other rank uses: of a ghost cell on its owner, of a face on every rank  *)
(* it has a ghost of.  The dof numbering matches dofs by these numbers.    *)
LinksRight ==
  \A p \in Rank :
     /\ \A c \in mapGhostElt[p] : cellInOthers[p][c] # Invalid =>
           /\ c \in Active[Owner(c)]
           /\ cellInOthers[p][c] = idGmshToFeel[Owner(c)][c]
     /\ \A f \in DOMAIN faceInOthers[p], q \in Rank : faceInOthers[p][f][q] # Invalid =>
           /\ f \in DOMAIN faceId[q]
           /\ faceInOthers[p][f][q] = faceId[q][f]

(* Two ranks that have their mesh agree on the faces between them: each of *)
(* the two takes the face for an interprocess face of its own, whichever   *)
(* cell the walk met first, and has the number the other gives it.         *)
InterProcessFacesAgree ==
  \A p, q \in Rank : p # q /\ HasMesh(p) /\ HasMesh(q) =>
     /\ q \in neighborSubdomain[p] <=> p \in neighborSubdomain[q]
     /\ \A f \in InterProcessFaces(p) : Partition2(p, f) = q =>
           f \in InterProcessFaces(q) /\ faceInOthers[p][f][q] = faceId[q][f]

(* The faces the partition cuts are all found, on both sides               *)
CutFacesFound ==
  \A p \in Rank : HasMesh(p) =>
     InterProcessFaces(p) =
       {f \in KeptFaces[p] : \E c, d \in Cell \ Ignored :
           f \in FacesOf[c] \cap FacesOf[d] /\ Owner(c) = p /\ Owner(d) # p}

(* A rank waits for a request of exactly the ranks that will ask it, in    *)
(* both exchanges: it counts the ghosts in the first and takes neighbor    *)
(* partitions in the second, and the asker decides from its own cells.     *)
RequestsExpected ==
  \A p, q \in Rank : pc[p] # "read" /\ pc[q] # "read" =>
     /\ q \in Owners(p) <=> p \in CellAskers(q)
     /\ q \in Owners(p) <=> p \in FaceAskers(q)

(* Requests and answers of both exchanges travel under the same tag and no *)
(* collective call separates the exchanges: a receive never completes with *)
(* a message meant for another one.                                        *)
NoCrossedMessages ==
  \A p, q \in Rank : q \in pending[p] /\ chan[q][p] # <<>> =>
     Head(chan[q][p]).kind = CASE pc[p] = "answerCells" -> "askCells"
                               [] pc[p] = "setCells" -> "cellIds"
                               [] pc[p] = "answerFaces" -> "askFaces"
                               [] pc[p] = "setFaces" -> "faceIds"

(* The number of elements of the whole mesh counts every cell once, though *)
(* ranks hold copies of the cells of others, and is the same on all ranks. *)
EachCellCountedOnce ==
  \A p \in Rank : pc[p] = "done" =>
     numGlobalElements[p] = Cardinality(Cell \ Ignored)

(* Every rank gets its mesh                                                *)
Completion == <>(\A p \in Rank : pc[p] = "done")

=============================================================================
