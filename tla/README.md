# Feel++: specifications in TLA+

Feel++ is a C++ library for finite element methods on parallel computers. Most of it is
numerics and compile-time composition. What a model checker and a prover can say something
about is the part that coordinates: MPI ranks that number degrees of freedom (dofs)
together, time loops that save states and restart from them, exchanges of mesh and matrix
data. This directory specifies that part, starting from the parallel numbering on which
every vector, matrix and exporter rests.

## 1. Inventory of the system

| component | state it keeps | operations | interacts with | what is hard | what makes it correct |
|---|---|---|---|---|---|
| Parallel dof numbering (`feeldiscr/doftablempi.hpp`) | owner, range and cluster id of each dof, on each rank; requests in flight | walk over interprocess faces, `all_gather`, isend/irecv of requests and answers | mesh (ghost cells), DataMap | ranks decide owners separately; two exchanges under one tag; `wait_all` | one owner per dof, one id per dof, ranges without holes, no rank waits for ever |
| Local dof table (`feeldiscr/doftable.hpp`) | local number of each dof of each cell | `build`, `buildDofMap` | calls the parallel numbering | which of three numberings a space gets | every local dof numbered once |
| DataMap (`feelalg/datamap.hpp`) | ranges per rank, maps local <-> cluster | `dofGlobalClusterIsOnProc`, `nDof`, show functions with barriers | read by vectors, matrices, graphs | ranks that own nothing | the range test finds the owner |
| Vectors of blocks, composite spaces (`feelalg/vectorblock.cpp`, `feeldiscr/functionspace.hpp`) | one DataMap made of those of several spaces | lay out the blocks, on each rank alone | DataMaps of the spaces | ranks that own nothing in some of the blocks, ghosts of other owners | all ranks give an unknown the same number; the range test finds its owner |
| BDF time loop (`feeldiscr/bdf2.hpp`) | iteration, order, times, last states; files on disk | `start`, `restart`, `isFinished`, `next`, `shiftRight`, `saveCurrent` | the application's loop, files | a kill between any two writes; order ramp against save frequency | a restart finds its files and goes on as the run would have |
| Mesh (`feelfilters/importergmsh.hpp`, `feeldiscr/meshimpl.hpp`) | cells, faces, ghost cells, numbers of ghosts on their owner, neighbor partitions | reading a partitioned file; exchange of the numbers of ghost cells, then of their faces; count of the cells | feeds the dof numbering | who asks and who waits are computed from different data; four messages under one tag; answers matched by place | the number a rank has for a ghost is the one the owner uses; both sides see the same cut |
| Sparsity graph (`feeldiscr/stencil.hpp`, `feelalg/graphcsr.cpp`) | rows, some of them of other ranks; counts; index arrays | coupling of cells, transpose, diagonal, `close`: blocking sends ordered by two loops | DataMap ranges | everyone sends to everyone; counts made in part before and in part after the exchange | no deadlock, rows end whole at their owner, with the right counts |
| Fast marching (`feelpde/reinit_fms.*`, `feelpde/fmsheap.hpp`) | heap of close dofs, status and value of dofs | accept the closest, update its neighbors, treat its periodic image | dof table | heap order after a change or a removal, two signs in one heap, 16-bit indices | dofs are accepted by increasing distance; the result does not depend on the order |
| Backends (`feelalg/backend.cpp`) | preconditioner structure, reuse flags | `solve`, `nlSolve` with retry | PETSc, Trilinos | failure with a reused preconditioner | the retry starts from the saved solution |
| Time sets, exporters | steps in memory or on disk | add, save, load | files | which step is where | - |
| Environment, communicators | active ranks | start-up, shut-down | MPI | barriers | - |
| Reduced basis, forms, polynomials, import, sub-meshes | numerical | numerical | - | floating point | outside TLA+ |

`PROJECT.json` lists the same components with their files, and the hazards at their lines.

## 2. Plan

1. `DofNumbering` with its abstract specification `ClusterNumbering`, and its proofs. Done.
   `BlockNumbering`: three numberings composed, and the layouts made of them; not yet proved.
2. `BdfCheckpoint`: the time loop with kills and restarts, and its proofs. Done.
3. `MeshExchange`: the exchanges that give a rank the numbers of its ghosts, and the proofs of
   its safety properties. Done.
4. `SparsityGraph`: the coupled pattern and the ordered blocking exchange of
   `GraphCSR::close`, and the proofs of its safety properties. Done.
5. `FastMarching` with its abstract specification `Marching`, the proofs of both, and of the
   refinement between them. Done.
6. Retry of a solve with a reused preconditioner (`Backend::solve`): looked at and left. The
   retry is a sequence of calls of one solver object; whether a solve fails, and what a
   preconditioner is worth afterwards, is inside PETSc, so that a model would restate the
   `if` and nothing else.

Still worth doing: proofs of the two properties of `BlockNumbering` from the invariants of the
numbering; the columns of merged block graphs; a proof that `SparsityGraph` does not deadlock by an argument on the
order of the two loops; three-dimensional fast marching; copies of a running `Bdf` and the
loop of post-processing programs (`loadCurrent`); the extended pattern of the stencil.

## 3. The modules

### DofNumbering

One module for `DofTable::build` and `buildGhostDofMap`. A dof is a point of the whole mesh:
the code matches dofs of two ranks by coordinates, to 1e-9 on the answering side. The mesh is
given by constants (`CellDof`, `FaceCells`, `FaceDof`, `PointDof`, `Part`), and what a rank
can see of it by operators: its own cells and one layer of ghost cells.

| code | specification |
|---|---|
| `is_continuous`, the test for continuous P0 | `Build`, which chooses among `BuildP0Continuous`, `BuildContinuous` and `BuildDiscontinuous` |
| loop over `interProcessFaces`, `updateDofOnVertices/Edges` | `WalkFace`, `ProcMin`, `Askers` |
| `all_gather` of the sizes | `EnterGather`, `LeaveGather` |
| loop that fills first/last of each rank | `StartRanges`, `RangeStep` |
| loop that numbers owned dofs | `NumberActif` |
| first isend/irecv, `wait_all` | `PostRequests`, `RecvRequest` |
| answers, second isend/irecv, `wait_all` | `SendAnswers`, `RecvAnswer` |
| update of the ghosts, copy to the element table | `UpdateGhosts`, `LocalToGlobalOnCluster` |
| `nbFaceDof == 0`, `nbRequest == 0` | branch of `BuildContinuous`, `NothingToExchange` |

Each rank takes the faces of its walk in any order (the code's order is that of an index of
the mesh). MPI is modelled from its use: messages between two ranks under one tag arrive in
order, a gather leaves when all have entered, and with `Rendezvous` an isend completes only
when it is received. `wait_all` waits for the sends and the receives of the phase.

Components of a vector-valued space sit at one point and are treated alike by every loop, so
one dof stands for them. Orientation signs, periodic and locally discontinuous maps are left
out.

### ClusterNumbering

What the rest of the library relies on: copies of dofs get ids over time; copies of one dof
get one id, different dofs different ids; an id never changes. `DofNumbering` implements it
with `number <- toCluster`.

### BlockNumbering

A program rarely has one space only. This module extends `DofNumbering`, the numbering of a
continuous space, with two more instances of it that have their own variables: a
discontinuous space and a continuous P0 one, the multiplier, whose single dof belongs to rank
0. A rank numbers one after the other (`NumberContinuous`, `NumberDiscontinuous`,
`NumberMultiplier`), at its own pace: one rank may be at the multiplier while another waits for
answers about the first space. An instance without shared dofs substitutes the initial values
for the variables of the walk and the exchange, which its actions leave alone. Then each rank
lays the spaces out without a word to the others.

| code | specification |
|---|---|
| tables of a `DataMap` | `DataMap(p, space)`, a record |
| `procOnGlobalCluster`, 0 when nothing is found | `ProcOnGlobalCluster` |
| number of an own dof and of a ghost in the layout | `BlockId` (one formula, for the rank itself or the owner) |
| constructor of `VectorBlockBase` | `BuildBlockVector`, `BlockLast` |
| composite `FunctionSpace::init`, `updateDataMapProcessStandard` | `BuildComposite`, `CompositeLast` |

`Blocks` is the order of the spaces; a space may come twice, as two fields of the same kind
do. The two constructors compute the numbers of the unknowns in the same way (`Layout`) and
differ in the last number of a rank. The rows of a merged block graph (`graphcsr.cpp:281`)
are computed like a vector of blocks. The multiplier needs a cell on each rank
(`BlocksAssumption`): without one the P0 test fails there.

### BdfCheckpoint

The loop `start or restart; while not isFinished: solve, shiftRight, next` with its files.
All ranks solve together, so the scalars have one copy; each rank writes its own part of a
state. A state is abstracted to the time it is the solution of: a step that does not start
from the last `timeOrder()` states yields `Wrong`.

| code | specification |
|---|---|
| `initialize`, `start(u0)` | `Start`, then `Saved` |
| solve and `shiftRight` | `SolveAndShift` |
| `BdfBaseMetadata::save` (open truncates, then write) | `OpenMetadata`, `WriteMetadata` |
| `saveCurrent`: each rank opens and writes its file | `OpenFile`, `WriteFile` |
| `next`, order ramp | `Advance`, `Ramp` |
| `isFinished` | `IsFinished` |
| process killed | `Crash` (keeps `metadata` and `file` only) |
| `BdfBase::init`, `Bdf::init` | `LoadMetadata`, `Found`, `Loaded`, `CanRestart`, `Restart` |
| `restart`: the loop that computes the order anew | `ReplayRamp`, one turn each, then `Resume` |
| an archive that cannot be read throws | `RestartFails` |

The next time step needs all ranks, so a rank that is slow to write its file does not see
another save begin. Iteration 0 is always a multiple of the save frequency, so `Start`
always saves. Two ranks that write one file may leave either part or a mixture.

### MeshExchange

From the partition tags of a gmsh file to a mesh whose ghosts are linked to their owners: a
rank keeps its cells and the ghosts the file lists for it, asks the owners for their numbers
of those cells, numbers the faces of what it kept, asks by the numbers just learnt for the
numbers of the faces, and takes part in the count of the cells.

| code | specification |
|---|---|
| `GMSHElement` (tags folded on the ranks), `isOnProcessor`, `isIgnored` | `Owner`, `Ghosts`, `Kept`, `KeptLines` |
| `addElement`, `__idGmshToFeel`, `__mapGhostElt`, count of messages | `Read`, `FeelId`, `AskedOf` |
| `updateGhostCellInfoByUsingNonBlockingComm` | `NoCellRequest`, `AskCells`, `AnswerCells`, `SetCells` |
| `updateEntitiesCoDimensionOne` | `UpdateFaces`, `Element0`, `FaceNumber`, `FaceProcessId` |
| `updateEntitiesCoDimensionOneGhostCellByUsingNonBlockingComm` | `NoFaceRequest`, `AskFaces`, `AnswerFaces`, `SetFaces` |
| `interProcessFaces`, `M_face_neighbor_processors` | `InterProcessFaces`, `Partition2`, `NeighborSubdomains` |
| `updateNumGlobalElements` (`all_reduce`) | `EnterReduce`, `LeaveReduce` |

A face is recognised on the other side by its barycentre in the code and by its set of
vertices here. Points keep the number of the file on every rank, so nothing is exchanged for
them. `FileAssumption` states what the reader relies on: a face has two cells at most, cells
that share a face are ghosts of each other's rank, a cell is no ghost of its own rank (which
fails when the file has more partitions than there are ranks), a face listed for a partition
belongs to one of its cells. Both exchanges are on the communicator of the mesh.

### SparsityGraph

`Stencil::computeGraph` for the coupled pattern, or the transpose of the graph of the
transpose, the entries added on the diagonal, and `GraphCSR::close`.

| code | specification |
|---|---|
| `computeGraph`, `transpose` | `ComputeGraph`, `Coupled`, `Transpose` |
| `addMissingZeroEntriesDiagonal` | `AddMissingZeroEntriesDiagonal`, `MissingRow` |
| `close`: counts of the rows at hand | `CountOwnRows`, `OnBlockDiagonal` |
| outer loop over the receiver, `all_gather` | `EnterGather`, `LeaveGather` |
| inner loop over the sender, two sends, two receives | `SkipPair`, `SendSizes`, `SendRows`, `Sent`, `RecvSizes`, `RecvRows` |
| merge of what was received, counts go on | `Merge`, `Inserted` |
| `M_ia`, `M_ja` | `BuildIndex` |

A row travels with its columns, and its length in a message before. `OnBlockDiagonal` and
`DofGlobalClusterIsOnProc` are two different tests in the code for the same question, which
differ for a rank without dofs, and the model keeps both: a rank with rows and no column counts
the first column of the next rank for one of its own before the exchange, and not while
merging (`OwnersHaveColumns` keeps this out of `SplitMatchesOwnership`). The local index of a row is its
place in the process-local numbering of the rank (`RowMap`). Initially it is chosen whether
the graph is transposed and whether a blocking send waits for its receiver.

### FastMarching and Marching

`ReinitializerFMS::operator()` in two dimensions: dofs of cells the interface cuts keep their
value, then the closest dof of the heap is accepted, its neighbors get candidates from it
alone or from it and a second accepted dof of their cell, and its periodic image is treated.

| code | specification |
|---|---|
| loop over the elements | `Init`, `Interface` |
| loop over the done dofs | `Seed` |
| marching loop | `March`, `Accepted` |
| `updatePeriodicPoint` | `UpdatePeriodicPoint` |
| `fmsHeapUpdate`, `phiNew`, `fmsDistN` | `FmsHeapUpdate`, `Offer`, `PhiNew`, `DistFromOne`, `DistFromTwo` |
| `FmsHeap::push`, `change`, `removeFromHeap` | `Push`, `Change`, `RemoveFromHeap` |
| `std::push_heap`, `pop_heap`, `make_heap` | `PushHeap` (`SiftUp`), `PopHeap` (`SiftDown`), `MakeHeap` |

The loops of the heap functions, and the loop of `fmsHeapUpdate` over the neighbors, are recursive
functions on numbers. Dofs are the numbers below `NDof`, and neighbors are taken in their order.

Values are integers. The geometry is a table: `Length` of an edge, and `Through`, the step
from two known dofs to the third, rounded. `GeometryAssumption` says what a triangle without
obtuse angle gives. The code works on the local dofs of one rank, and so does the model. The
instance without periodicity has an empty `Twin`; the short name `fms()` of the code drops
the periodicity it is given, so that the periodic path is reached through the class only.

`Marching` is what the algorithm promises, whatever the geometry and the queue: the closest
candidate is accepted, distances of accepted dofs never change, new candidates are at least as
far as the dof they come from. `FastMarching` without periodic images implements it with
`accepted <- {d : status[d] = DONE}`, `cand <-` what the heap holds for the close dofs.

## 4. The runs

| run | result | shows |
|---|---|---|
| `DofCross` | 6013 states | four quadrilaterals around a vertex, one per rank, opposite ranks sharing only the centre: all the safety properties and the refinement |
| `DofChain` | 46637 states | linear elements on a line of five ranks; rank 1 holds only ghosts, rank 2 nothing, rank 3 asks rank 0 and answers rank 4; rendezvous sends; every rank returns (`Completion`) |
| `DofBlocks` | 48823 states | three spaces on four ranks, the linear one with a rank that owns nothing, in a vector of four blocks and a composite space: numbers agree, owners are found; it takes the discontinuous and the P0 path of the numbering |
| `BdfRestart` | 676120 states | 36 settings, two kills: restarts find their files and go on correctly |
| `MeshExchange` | 6270 states | six cells on three ranks of four, an ignored cell that makes ghosts one-sided, both kinds of isend: links, cut and count are right, every rank returns |
| `SparsityGraph` | 45872 states | four ranks, two without rows, graph and transpose, both kinds of send: rows are whole at their owner with the right counts, every rank returns |
| `FastMarching` | 53236 states | 4096 level sets on twelve dofs: heap, order, result, refinement |
| `CompositeRanges` | violation | the last number of a rank that owns nothing in the first space of a composite space is one too far |
| `BdfUnsavedFile` | violation | order 2, every second step saved: the restart needs a state never written |
| `BdfPastFinalTime` | violation | restart at the final time never finishes |
| `FastMarchingPeriodic` | violation | an entry erased from the middle of the heap leaves it out of order |
| `SparsityGraphZero` | violation | an empty pattern with a diagonal: rows are sent to a rank that does not own them |

What the properties of the passing runs say.

* Dofs: `OwnersAgree` (separate decisions agree), `RequestsExpected` (who asks and who waits
  match), `NoCrossedMessages` (two exchanges, one tag), `AnswersNumbered` (no invalid id
  travels), `UniqueNumbers` and `SameNumber`, `RangesMatchOwnership` (the range test finds the
  owner), `Complete` (ids 0 .. nDof-1 without holes), `Completion`, `ImplementsNumbering`.
* Blocks: `NumbersMatch` (an unknown has one number on all ranks, two unknowns have two, also
  the same dof in two blocks, and all are below the number of unknowns), `BlockRangesMatch`
  (the range test on the vector finds the owner of every unknown).
* Time loop: `NoLostRun` (a run killed between saves can restart), `HistoryIsRecent` (a step
  starts from the last states), `OrderFollowsIteration`, `MetadataMatchesFiles` (index in the
  list of times = number in the file name) and `RestartRepeatsFewSteps`.
* Mesh: `LinksRight` (the number held for a ghost cell or a face of another rank is the one
  that rank uses), `InterProcessFacesAgree` and `CutFacesFound` (each rank finds the whole cut,
  and both sides the same), `RequestsExpected`, `NoCrossedMessages` (four kinds of message, one
  tag, no collective call between), `EachCellCountedOnce`, `Completion`.
* Graph: `RowsComplete` (nothing a cell contributes is lost), `SplitMatchesOwnership` (the
  counts by which matrices are allocated), `IndexConsistent`, `ReceivedRowsOwned` (the `DCHECK`
  of `close`), `Completion`.
* Fast marching: `TopIsSmallest`, `HeapHoldsClose`, `SolvesDistance` (the result solves the
  local problem at each dof, those accepted later included), `SignKept`, `AllReached`,
  `ImplementsMarching`, `AcceptedInOrder`.

Bounds. Dof runs have no bound beyond the instance: four ranks are the least for which two
ranks share a dof and no face while a third and fourth lie between, and for two empty ranks
in a row inside a longer list; the chain has a fifth, so that a rank asks and answers at once.
In `DofBlocks` a rank owns nothing in one space and something in another, and a rank other than 0
owns a ghost of a third. `BdfRestart` takes orders 1 to 3, frequencies 1 to 3 and ramps
of 1 or 2 iterations, times 1 to 6 (`TimeFinal`), one step past it (`MaxTime`), and two kills
(`MaxCrash`): the second kill hits a restarted run, whose list of times was rebuilt from a
file. Six steps are two rounds of the slowest frequency after the slowest ramp to order 3 has
begun. `NoLostRun` speaks of the settings that meet `Recoverable`, which states from the ramp
alone which settings save enough, and of kills outside a save; `BdfUnsavedFile` shows what
happens without the first condition. `missed` marks the runs that asked for an unsaved time.
`MeshExchange` and `SparsityGraph` have no bound either: their instances have a rank without
cells or rows, ranks with more than one partner, a rank that answers and does not ask, a face
numbered and erased, a row three ranks contribute to, and as many rows as columns distributed
differently. In `FastMarching` twelve dofs make a heap of three levels, and
the values -3 .. 2 make cells cut with equal, smaller and larger distances on both sides; the
periodic run needs six columns for an entry in the middle.

Deadlock is checked in all runs but those of the time loop: the only state without another
step is the one in which all ranks have returned, or the marching has ended, and it stutters
by `Finished`. The time loop ends, fails to restart or reaches its bound, so the Bdf runs say
`CHECK_DEADLOCK FALSE`. In `MeshExchange` a rank that does not find a face of a ghost, where
the code ends the program, stops and would be reported as a deadlock.

Fairness. The three `Completion` assume weak fairness of each rank's next step and nothing
else: every rank is a running process and MPI delivers what was sent. No fairness between
faces or messages is assumed: each wait ends by steps that stay enabled.

The mutants (definitions marked "Mutant" next to the one they replace) are plausible errors;
each property fails under one of them.

## 5. The proofs

### The numbering of the dofs

For any number of ranks, any mesh, partition and local numbering that satisfy
`MeshAssumption` and `SharedDofAssumption`, for a space that is `RegularSpace` (the P0 test
recognises the continuous P0 space and nothing else, and other continuous spaces have dofs on
faces). The MC modules check with TLC that their instances meet all three.

* `DofNumbering_proofs`: what the assumptions say about shared dofs, then `WalkInv`: when a
  rank has walked all its faces, it has treated exactly the dofs it shares, holds as ghosts
  those a lower rank holds, and expects requests from exactly the other holders of those it
  owns. `OwnersAgree` and `RequestsExpected` follow: the owner is the lowest holder, on all
  ranks, although each computes it face by face. The key lemma is that the ghost cells around
  a point, or the two cells of a face, name all holders.
* `DofNumbering_proofs`, second part: `RangeInv`: the tables of a rank are a prefix of the stacked
  ranges, so that ranges of different ranks are disjoint and those of empty ranks contain nothing that
  the count test lets through.
* `DofExchange_proofs`: `ExchangeInv` says for each pair of ranks which message, if any, is
  between them as a function of where both are; with the two others it is `IInv`, the
  inductive invariant (`Invariant`). The safety properties and type correctness follow from it, and
  `Refinement` shows `Spec => ImplementsNumbering`. `CompleteAlways` says that the ids have no
  holes: each range is filled by the owned dofs of its rank, by a count of both, and the ranges
  follow each other up to the sum that every rank gathered.

`FiniteSums` holds what all the proofs about counts need: `SumFunction` of the community modules is
a recursion over a set that takes any element out first, and the lemmas say that it adds up over
an element, over disjoint parts, and term by term. The induction principle of the library takes
a predicate, which the provers cannot instantiate, so each is proved by the smallest
counterexample among the subsets of a finite set (`SmallestSubset`, from the library's theorem that
strict inclusion is well-founded), in which the predicate is a set.

`UniqueNumbers` alone is not inductive: that an answer in flight is right depends on who
sent it, when, and on the gathered sizes; hence the three parts.

### The time loop

`BdfCheckpoint_proofs`: for any ranks, any set of settings, any final time and any number of
kills. `IInv` is inductive (`Invariant`). Beside types it has

* `TimesInv`: how the time, the initial time, the iteration and the list of times go together,
  by place in the loop;
* `OrderInv`: the order and the iteration of its last change are those of the ramp at an
  iteration, the one reached or, in the loop of `restart`, the one replayed;
* `IndexInv`: both lists of times, in memory and on disk, count up from the initial time;
* `HistoryInv`: the states in memory are the last ones, as many as the order needs;
* `FilesInv`: a file holds the state of its number, and every state the settings save up to the
  last complete save is there, but for one being written;
* `LastSaveInv`: how far the metadata is behind the run, in memory or at the last kill.

`TypeCorrect`, `OrderFollowsIterationAlways` and `RestartRepeatsFewStepsAlways` follow without
a condition. `MetadataMatchesFilesAlways`, `HistoryIsRecentAlways` and `NoLostRunAlways` assume
that the file names have the rank in them (`rankInName`): with the default names, in parallel,
all ranks write one file, and TLC finds `HistoryIsRecent` false. None of the properties is inductive alone:
that a restart is right depends on files written by runs killed earlier, which are only known
by the settings, hence the parts on the order and on the files. The ramp is the delicate one:
`saveCurrent` uses the order in use at an iteration, `restart` computes it anew, and both must
be the same function `OrderAt` of the iteration for `Recoverable` to say which files exist.

### Marching in order

`Marching_proofs`: for any set of dofs and any neighbors, no close dof is closer than one
marched over (`InOrderAlways`), and dofs are accepted by increasing distance and keep it
(`AcceptedInOrderAlways`). `InOrder` is inductive with the types and the fact that nothing is
marched over before all seeds are treated (`Apart`).

### The heap of the marching

`FastMarching_proofs`: for any number of dofs, any cells, lengths and functions. Every theorem
assumes `NoObtuseAngle(Int)`: a front that comes between two dofs of a cell reaches both before
the third, for all differences of values, where the run needs it for those that occur. A
candidate is then at least as far as the dofs it is computed from, and has their sign. The
other hypotheses are named where they are needed.

* The functions. `RecursionExists` shows that a function defined from its value at a place of
  lower rank exists, and the heap functions are such functions; `UpTo` and `DownTo` are induction on
  numbers for sets. A sift moves a hole; `SiftsUp` and `SiftsDown` say which entries are out of order with the
  hole at each place, and from them that `PushHeap`, `PopHeap` and `MakeHeap` give a heap with the
  same entries, each as often (`PushIs`, `PopIs`, `MakeHeapIs`). `UpdateIs` says what a whole
  `FmsHeapUpdate` leaves, by induction over the neighbors.
* `TypeOKAlways`: with or without periodic images.
* `TopIsSmallestAlways`: without periodic images (`DOMAIN Twin = {}`). It follows from the order of the
  whole heap (`IsHeap`), which is inductive with the types; the top alone is not. With them it
  is false, which `FastMarchingPeriodic` shows.
* `HeapHoldsCloseAlways`: if the dofs fit in the 16 bits of an index (`NDof <= IndexModulus`), also with
  periodic images. The invariant `Holds` says that the indices of the heap are those of the close
  dofs and that no index comes twice. Beyond 65536 dofs two dofs share an index, and `change`
  replaces the entry of the wrong one.
* `AllReachedAlways`: under the same hypothesis. The invariant says that the neighbors of a done
  dof are not far, unless it waits for its seed.
* `SignKeptAlways`: under the same hypothesis, and if the translation takes dofs to dofs of the
  same sign (`PeriodicSigns`). The invariant is about the candidates in the heap as well.
* `ImplementsMarchingAlways`: without periodic images. The candidate of a close dof is the value
  of its one entry in the heap; a seed or a turn of the loop replaces it by a closer one or adds
  one no closer than the dof accepted (`UpdateSpreads`), and the dof taken is the closest because
  it is the top of a heap. `AcceptedInOrderAlways` then is the theorem about `Marching`, with the
  state of the loop in the place of the abstract one.
* `SolvesDistanceAlways`: without periodic images, and if p and q give the same front as q and p
  (`SameFront(Int)`): the code computes from two dofs only when the second one is accepted, with
  that one first. The invariant `Best` is about unfinished states: what the heap has for a close
  dof, and the value of one marched over, is the closest value that the treated dofs allow. A
  seed or an accepted dof allows new values; those it offers are compared in `change`
  (`UpdateSolves`), and those of a dof already accepted are no closer than the new one, which is
  no closer than the old by the invariant of `Marching` (`SolvesLater`). `MCFastMarching` lets TLC
  check `SameFront` on the differences that occur. In integers it leaves out the tie in which the
  front reaches the third dof together with the second: 0 stands for no front.

### The mesh exchange

`MeshExchange_proofs`: for any number of ranks and any file that satisfies `FileAssumption`,
which TLC checks on the instance. No rank waits on a clock or on chance, so what a rank knows
is a function of where it is. `IInv` (`Invariant`) says so:

* `ExchangeInv`: each channel holds, in the order of the two exchanges, exactly the messages
  posted and not received (`Flow`), which of them exist follows from where both ranks are
  (`InFlight`), and a message received in the exchange a rank is in is the one the other was
  to send;
* `LocalInv`: the tables of a rank that has read, set its cells or set its faces are those the
  file determines.

The messages are on the way in order, all under tag 0, so that `NoCrossedMessages` is the
statement that the first one is always that of the exchange the receiver is in: earlier ones
have been received, because a rank goes on only when all its receives have completed. The
file enters through three lemmas. Numbering a set by how many are smaller is one-to-one
(`BelowInjective`), so that a ghost has a place in the request and the owner finds the cell
it is asked for. A rank has ghosts of another exactly if that one counts cells to be asked for
(`AskedBy`), which is `RequestsExpected`. A face between two ranks has no third
(`OtherSide`), from which both sides agree on it (`InterProcessFacesAgree`); `LinksRight` and
`CutFacesFound` follow from `LocalInv`. For the collective count, `EachCellCountedOnceAlways` adds
what each rank put in the sum to the invariant: the cells of the ranks are disjoint parts of the
cells not ignored, so that their numbers add up, and with it `TypeOKAlways`. Here `FileAssumption`
says that a cell has finitely many faces and a file finitely many lines.

### The rows that are exchanged

`SparsityGraph_proofs`: for every mesh, pair of spaces, number of ranks and local numbering that
meets `GraphAssumption`, whether the graph is computed or transposed and whether or not sends wait for
their receivers. All theorems assume `NoRowMissing`, that the diagonal adds no row: each rank
couples the rows it owns by cells of its own, and the pattern is not empty. Without it
`ReceivedRowsOwned` can fail, as `SparsityGraphZero` shows. `MCSparsityGraph` lets TLC check all
the hypotheses on the instance. The invariant `AllInv` (`AllInvariant`) has these parts.

* `IInv` (`Invariant`): a row is marked with its owner, and each message, on the way or received,
  is what its sender would send now. The last sends may still be on the way when
  their sender merges: it changes its rows then, but only those it owns, which it never
  sent (`MergeInv`), and this holds because what it received was its own. The two messages of a
  pair differ in their tag and are received by it, so that lengths and rows go together even
  when both are on the way (`HalfArrived`). `ReceivedRowsOwnedAlways` follows.
* `RowsInv`: a rank knows its rows, and a row has the local index of its dof, so that no two rows
  share a place in the counts (`OneRowPerNumber`).
* `LoopInv`: in which turn of the outer loop a rank is (`Turn`), that what it said in each
  `all_gather` is the size of what it would send (`Said`), that it heard all ranks in those it
  left (`Heard`), and that it has the rows of every sender it is past (`Past`, `Got`). A pair
  that is skipped had nothing to send, since an empty size is an empty set of rows.
* `ContentsInv`: what the rows of a rank hold, as a function of where it is: what its cells
  couple, then the diagonal, and for its own rows, after `Merge`, what the cells of all ranks
  couple. `RowsCompleteAlways` follows, if every row is coupled by some cell (`EveryRowCoupled`);
  otherwise an owner need not have the row, which is then empty.
* `CountsInv`: from the first count on, `nNz`, `nOz` and `sumNz` are the cardinalities of what the
  rows hold. The merge keeps it because it counts what was inserted, not what was received
  (`InsertedSplit`), and because both tests of a column ask the same where a rank has columns
  (`ColumnTests`). `IndexConsistentAlways` follows, and `SplitMatchesOwnershipAlways` if ranks with
  rows have columns (`OwnersHaveColumns`).
* `TypeInv`: the types of the counts and of the sizes received, for `TypeOKAlways`.

None of the first three properties can be proved alone: that a row is whole needs that no pair was
skipped by a wrong size, which needs that a sender would still say the same, which needs that
merging never touches a row of another rank.

### Only model-checked

Liveness (`Completion`, three times) is out of the prover's reach. Every invariant and every
action property that a passing run checks is the statement of a theorem, but for the two of
`BlockNumbering`: they are checked on the instance of `DofBlocks`.

## 6. Findings

Shown by runs, see `PROJECT.json`: a restart can need a state the order ramp did not save
(`bdf2.hpp:1234`); a restart at the final time never finishes (`bdf2.hpp:416`); erasing the
periodic image of a dof breaks the heap (`fmsheap.hpp:103`); the missing diagonal of an empty
pattern is added to rows of rank 0 (`graphcsr.cpp:699`); in a composite space the range of a
rank that owns nothing in the first space ends one number too late (`functionspace.hpp:673`).

Met on the way and kept out of the properties by a condition: a discontinuous P0 space with one
cell per rank is numbered as continuous (`doftable.hpp:940`, excluded by `RegularSpace`); a
restart at a time that was not saved shifts the list of times (`bdf2.hpp:794`, marked by
`missed`); with default names all ranks share one checkpoint file (`bdf2.cpp:56`, excluded by
`rankInName`); the counts of a rank with rows and no column are wrong (`graphcsr.cpp:798`
against `datamap.hpp:258`, excluded by `OwnersHaveColumns`); a file with more partitions than ranks can make a cell a ghost of its own rank
(`importergmsh.hpp:138`, excluded by `FileAssumption`). Seen in code that is not modelled: for
the columns of a merged block graph, `graphcsr.cpp:345` asks whether the rank itself owns
something where the line for the rows asks about the rank of the loop, and its own count is
still 0 in the turns of the lower ranks; in `reinit_fms.hpp:150-151` the
names of the periodic and the ordinary variant are swapped.

## 7. Not modelled

* Numerics (polynomials, quadrature, forms, solvers, reduced basis): floating point and
  compile-time code, most of the repository by size, and the vendored libraries under
  `contrib/`. The coordination code modelled here is a small part of all lines.
* Environment, communicators, exporters, time sets: start-up, formatting and files, without a
  protocol between ranks. Backends: see the plan.
* Sub-meshes and interpolation: geometric search whose outcome is floating point.
* Of the modelled components: the blocking variants of the exchanges, which the code disables;
  the exchange of the edges of three-dimensional meshes; periodic, locally discontinuous and
  boundary dof tables; copies of a `Bdf`, `loadCurrent`, adaptive and negative time steps; the
  patterns other than the coupled one, block graphs, the printed and total counts of a graph
  (`M_n_total_nz`); fast marching in three dimensions.
