--------------------------- MODULE BdfCheckpoint ---------------------------
(***************************************************************************)
(* The time loop of feel/feeldiscr/bdf2.hpp (BdfBase, BdfBaseMetadata and  *)
(* Bdf) with its checkpoints: a run that is killed at any moment and       *)
(* restarted from the files it left.                                       *)
(*                                                                         *)
(*   for ( bdf->start( u0 ) or bdf->restart(); !bdf->isFinished();         *)
(*         bdf->next() )                                                   *)
(*   { solve for u with the last states; bdf->shiftRight( u ); }           *)
(*                                                                         *)
(* The ranks solve together, so one copy of the scalars of BdfBase stands  *)
(* for those of all the ranks; each rank writes its own part of a state.   *)
(* Times are counted in time steps.  The value of a state is abstracted to *)
(* the time it is the solution of: a step that starts from other states    *)
(* than the last ones gives a Wrong solution.                              *)
(***************************************************************************)
EXTENDS Integers, Sequences, SequencesExt

CONSTANTS
  Proc,         \* the ranks
  Settings,     \* values of the bdf.* options, one is chosen for a run
  LocalDofs,    \* nLocalDofWithGhost() of each rank
  TimeInitial,  \* bdf.time-initial
  TimeFinal,    \* bdf.time-final
  MaxTime,      \* bound: no step is taken past this time
  MaxCrash,     \* bound: number of times the run is killed
  Absent,       \* a file that does not exist
  Torn          \* a file that was opened for writing and not written

MaxOrder == 4   \* BDF_MAX_ORDER

ASSUME BdfAssumption ==
  /\ Settings \subseteq [order : 1 .. MaxOrder, freq : Nat \ {0},
                         between : Nat \ {0}, atLast : BOOLEAN,
                         rankInName : BOOLEAN]
  /\ Proc \subseteq Nat /\ Proc # {} /\ LocalDofs \in [Proc -> Nat]
  /\ TimeInitial \in Nat /\ TimeFinal \in Nat /\ MaxTime \in Nat /\ MaxCrash \in Nat
  /\ TimeInitial < TimeFinal /\ TimeFinal <= MaxTime

(* The part of the solution at a time that a rank holds                    *)
Part(r, t) == [rank |-> r, time |-> t]

Wrong == -1

Parts == {Part(r, t) : r \in Proc, t \in 0 .. MaxTime \cup {Wrong}}

(* The marks of a file are not a content                                   *)
ASSUME MarkAssumption ==
  /\ Absent # Torn
  /\ {Absent, Torn} \cap Parts = {}
  /\ Absent \notin Seq(0 .. MaxTime) /\ Torn \notin Seq(0 .. MaxTime)

VARIABLES
  setting,      \* M_order, M_saveFreq, M_iterations_between_order_change,
                \* M_restartAtLastSave, M_rankProcInNameOfFiles
  pc,           \* where the program is
  iteration,    \* M_iteration
  orderCur,     \* M_order_cur
  lastChange,   \* M_last_iteration_since_order_change
  ti,           \* M_Ti
  time,         \* M_time
  rampAt,       \* i in the loop of restart(), 0 outside of it
  timeValues,   \* M_time_values_map
  unknowns,     \* M_unknowns, on each rank
  writer,       \* the file of each rank in saveCurrent
  metadata,     \* file: the metadata
  file,         \* files: the states saved
  crashes,      \* how often the run was killed
  interrupted,  \* was it ever killed in the middle of a save?
  missed,       \* did a restart ask for a time the metadata does not hold?
  reached       \* the time of the last step completed before the last kill

scalars == <<iteration, orderCur, lastChange, ti, time, rampAt, timeValues>>
disk    == <<metadata, file>>
history == <<crashes, interrupted, missed, reached>>
vars == <<setting, pc, scalars, unknowns, writer, disk, history>>

Iteration == 0 .. MaxTime

(* Without the rank in it, a name is the same for all the ranks            *)
AllRanks == -1

Name(r, n) == <<n, IF setting.rankInName THEN r ELSE AllRanks>>

Names == Iteration \X (Proc \cup {AllRanks})

Init ==
  /\ setting \in Settings
  /\ pc = "new"
  /\ iteration = 0
  /\ orderCur = setting.order
  /\ lastChange = 0
  /\ ti = TimeInitial
  /\ time = TimeInitial
  /\ rampAt = 0
  /\ timeValues = <<>>
  /\ unknowns = [r \in Proc |-> [i \in 0 .. MaxOrder - 1 |-> Part(r, Wrong)]]
  /\ writer = [r \in Proc |-> "idle"]
  /\ metadata = Absent
  /\ file = [n \in Names |-> Absent]
  /\ crashes = 0
  /\ interrupted = FALSE
  /\ missed = FALSE
  /\ reached = TimeInitial - 1

-----------------------------------------------------------------------------
(* Mutant: the order grows without limit                                   *)
RampUnlimited(order, i) ==
  IF i - order.last = setting.between
  THEN [last |-> i, cur |-> order.cur + 1]
  ELSE order

(* The order grows with the iterations, up to M_order                      *)
Ramp(order, i) ==
  IF i - order.last = setting.between /\ order.cur < setting.order
  THEN [last |-> i, cur |-> order.cur + 1]
  ELSE order

RampStart == [last |-> 1, cur |-> 1]

IsFinished(t, start) == IF TimeFinal > start THEN t > TimeFinal ELSE t < TimeFinal

(* What the loop does once time, initial time, iteration and order are set *)
Enter(t, start, i, order) ==
  /\ time' = t
  /\ ti' = start
  /\ iteration' = i
  /\ orderCur' = order.cur
  /\ lastChange' = order.last
  /\ rampAt' = 0
  /\ pc' = IF IsFinished(t, start) THEN "finished" ELSE "solve"

(* saveCurrent: a state is saved when it is among the last ones of an      *)
(* iteration that is a multiple of the frequency                           *)
DoSave(i, cur) == \E k \in 0 .. cur - 1 : (i + cur - (k + 1)) % setting.freq = 0

-----------------------------------------------------------------------------
(* Bdf::start( u0 ): initialize() saves the initial state, and saves it    *)
(* always, since iteration 0 is a multiple of the frequency                *)
Start ==
  /\ pc = "new"
  /\ timeValues' = <<ti>>
  /\ unknowns' = [r \in Proc |-> [i \in 0 .. MaxOrder - 1 |-> Part(r, TimeInitial)]]
  /\ pc' = "metadata"
  /\ UNCHANGED <<setting, iteration, orderCur, lastChange, ti, time, rampAt,
                 writer, disk, history>>

(* The history a step needs: the last orderCur states, on every rank       *)
Recent == \A r \in Proc : \A k \in 0 .. orderCur - 1 :
             unknowns[r][k] = Part(r, time - 1 - k)

(* BdfBase::next()                                                         *)
Advance ==
  Enter(time + 1, ti, iteration + 1,
        Ramp([last |-> lastChange, cur |-> orderCur], iteration + 1))

(* The solve, and shiftRight( u ) up to the call of saveCurrent; when      *)
(* nothing is saved, next() follows                                        *)
SolveAndShift ==
  /\ pc = "solve"
  /\ time <= MaxTime
  /\ timeValues' = Append(timeValues, time)
  /\ unknowns' = [r \in Proc |-> [i \in 0 .. MaxOrder - 1 |->
                    IF i = 0 THEN Part(r, IF Recent THEN time ELSE Wrong)
                             ELSE unknowns[r][i - 1]]]
  /\ IF DoSave(iteration, orderCur)
     THEN pc' = "metadata" /\ UNCHANGED <<iteration, orderCur, lastChange, ti, time, rampAt>>
     ELSE Advance
  /\ UNCHANGED <<setting, writer, disk, history>>

(* BdfBaseMetadata::save(), on the master rank; the others wait in the     *)
(* barrier                                                                 *)
OpenMetadata ==
  /\ pc = "metadata"
  /\ pc' = "writing"
  /\ metadata' = Torn
  /\ UNCHANGED <<setting, scalars, unknowns, writer, file, history>>

WriteMetadata ==
  /\ pc = "writing"
  /\ pc' = "files"
  /\ metadata' = timeValues
  /\ writer' = [r \in Proc |-> "todo"]
  /\ UNCHANGED <<setting, scalars, unknowns, file, history>>

(* Then every rank writes its part of the newest state                     *)
OpenFile(r) ==
  /\ pc = "files" /\ writer[r] = "todo"
  /\ writer' = [writer EXCEPT ![r] = "open"]
  /\ file' = [file EXCEPT ![Name(r, iteration)] = Torn]
  /\ UNCHANGED <<setting, pc, scalars, unknowns, metadata, history>>

(* When another rank has written the same file since r opened it, the two  *)
(* contents may be mixed                                                   *)
WriteFile(r) ==
  /\ pc = "files" /\ writer[r] = "open"
  /\ writer' = [writer EXCEPT ![r] = "idle"]
  /\ \E content \in {unknowns[r][0], Part(r, Wrong)} :
        /\ content # unknowns[r][0] => file[Name(r, iteration)] # Torn
        /\ file' = [file EXCEPT ![Name(r, iteration)] = content]
  /\ UNCHANGED <<setting, pc, scalars, unknowns, metadata, history>>

(* All the ranks have saved: after initialize() comes BdfBase::start(),    *)
(* after shiftRight() comes next()                                         *)
Saved ==
  /\ pc = "files"
  /\ \A r \in Proc : writer[r] = "idle"
  /\ IF iteration = 0 THEN Enter(ti + 1, ti, 1, RampStart) ELSE Advance
  /\ UNCHANGED <<setting, timeValues, unknowns, writer, disk, history>>

-----------------------------------------------------------------------------
(* The run is killed: only the files stay                                  *)
Crash ==
  /\ pc \in {"solve", "metadata", "writing", "files", "finished"}
  /\ crashes < MaxCrash
  /\ crashes' = crashes + 1
  /\ pc' = "off"
  /\ interrupted' = (interrupted \/ pc \in {"metadata", "writing", "files"})
  /\ reached' = time - 1
  /\ iteration' = 0
  /\ orderCur' = setting.order
  /\ lastChange' = 0
  /\ ti' = TimeInitial
  /\ time' = TimeInitial
  /\ rampAt' = 0
  /\ timeValues' = <<>>
  /\ unknowns' = [r \in Proc |-> [i \in 0 .. MaxOrder - 1 |-> Part(r, Wrong)]]
  /\ writer' = [r \in Proc |-> "idle"]
  /\ UNCHANGED <<setting, disk, missed>>

(* BdfBase::init(): the times, the initial time and the iteration that a   *)
(* restart at start0 finds in the metadata                                 *)
NotFound == [values |-> <<>>, ti |-> 0, iteration |-> 0]

(* Mutants: the iteration does not go back to a multiple of the save       *)
(* frequency; the times after the restart are kept                         *)
FoundNoRollback(values, start0) ==
  LET it == SelectInSeq(values, LAMBDA t : t = start0) - 1
  IN IF it = -1 THEN NotFound
     ELSE [values |-> SubSeq(values, 1, it + 1), ti |-> values[it + 1], iteration |-> it]

FoundNoResize(values, start0) ==
  LET it == SelectInSeq(values, LAMBDA t : t = start0) - 1
      back == it - (it % setting.freq)
  IN IF it = -1 THEN NotFound
     ELSE [values |-> values, ti |-> values[back + 1], iteration |-> back]

Found(values, start0) ==
  LET it == SelectInSeq(values, LAMBDA t : t = start0) - 1
      back == it - (it % setting.freq)
  IN IF it = -1 THEN NotFound
     ELSE [values |-> SubSeq(values, 1, back + 1),
           ti |-> values[back + 1],
           iteration |-> back]

(* Mutant: the restart ignores bdf.restart.at-last-save                    *)
LoadMetadataFromStart(start0) ==
  IF metadata \in {Absent, Torn} THEN NotFound ELSE Found(metadata, start0)

LoadMetadata(start0) ==
  IF metadata \in {Absent, Torn} THEN NotFound
  ELSE Found(metadata, IF setting.atLast THEN Last(metadata) ELSE start0)

(* Mutant: one state too few is read                                       *)
LoadedButOne(it) == 0 .. Min({setting.order, it + 1}) - 2

(* Bdf::init() reads the last M_order states, as far as there are          *)
Loaded(it) == 0 .. Min({setting.order, it + 1}) - 1

(* Loading a state checks its number of dofs and nothing else              *)
Readable(r, name) ==
  file[name] \notin {Absent, Torn} /\ LocalDofs[file[name].rank] = LocalDofs[r]

CanRestart(it) ==
  /\ metadata # Torn
  /\ \A r \in Proc : \A k \in Loaded(it) : Readable(r, Name(r, it - k))

Restart(start0) ==
  LET found == LoadMetadata(start0)
      it == found.iteration
  IN /\ pc = "off"
     /\ CanRestart(it)
     /\ timeValues' = found.values
     /\ unknowns' = [r \in Proc |-> [k \in 0 .. MaxOrder - 1 |->
          IF k \in Loaded(it) THEN file[Name(r, it - k)] ELSE unknowns[r][k]]]
     /\ time' = found.ti + 1
     /\ ti' = found.ti
     /\ iteration' = it + 1
     /\ orderCur' = RampStart.cur
     /\ lastChange' = RampStart.last
     /\ rampAt' = 2
     /\ pc' = "ramp"
     /\ missed' = (missed \/ found = NotFound)
     /\ UNCHANGED <<setting, writer, disk, crashes, interrupted, reached>>

(* Mutant: the loop of restart() stops one iteration early                 *)
RampDoneBefore == rampAt >= iteration

(* The loop of restart() over the iterations 2 .. M_iteration, which       *)
(* computes the order anew                                                 *)
RampDone == rampAt > iteration

ReplayRamp ==
  /\ pc = "ramp" /\ ~RampDone
  /\ LET order == Ramp([last |-> lastChange, cur |-> orderCur], rampAt)
     IN orderCur' = order.cur /\ lastChange' = order.last
  /\ rampAt' = rampAt + 1
  /\ UNCHANGED <<setting, pc, iteration, ti, time, timeValues, unknowns, writer,
                 disk, history>>

Resume ==
  /\ pc = "ramp" /\ RampDone
  /\ Enter(time, ti, iteration, [last |-> lastChange, cur |-> orderCur])
  /\ UNCHANGED <<setting, timeValues, unknowns, writer, disk, history>>

(* An archive that cannot be read throws, on one rank or on all            *)
RestartFails(start0) ==
  /\ pc = "off"
  /\ ~CanRestart(LoadMetadata(start0).iteration)
  /\ pc' = "failed"
  /\ UNCHANGED <<setting, scalars, unknowns, writer, disk, history>>

-----------------------------------------------------------------------------
(* The initial time asked for when the run does not restart at last save   *)
StartTimes == IF setting.atLast THEN {TimeInitial} ELSE TimeInitial .. TimeFinal

Next ==
  \/ Start
  \/ SolveAndShift
  \/ OpenMetadata
  \/ WriteMetadata
  \/ \E r \in Proc : OpenFile(r) \/ WriteFile(r)
  \/ Saved
  \/ Crash
  \/ \E t \in StartTimes : Restart(t) \/ RestartFails(t)
  \/ ReplayRamp
  \/ Resume

Spec == Init /\ [][Next]_vars

-----------------------------------------------------------------------------
(* Properties                                                              *)

Running == pc \in {"solve", "metadata", "writing", "files"}

(* Every variable keeps its type                                           *)
TypeOK ==
  /\ setting \in Settings
  /\ pc \in {"new", "solve", "metadata", "writing", "files", "off", "ramp", "failed", "finished"}
  /\ iteration \in Nat
  /\ orderCur \in 1 .. setting.order
  /\ lastChange \in Nat
  /\ ti \in Nat /\ time \in Nat /\ rampAt \in Nat
  /\ timeValues \in Seq(0 .. MaxTime)
  /\ unknowns \in [Proc -> [0 .. MaxOrder - 1 -> Parts]]
  /\ writer \in [Proc -> {"idle", "todo", "open"}]
  /\ metadata \in {Absent, Torn} \cup Seq(0 .. MaxTime)
  /\ file \in [Names -> {Absent, Torn} \cup Parts]
  /\ crashes \in 0 .. MaxCrash
  /\ interrupted \in BOOLEAN /\ missed \in BOOLEAN
  /\ reached \in -1 .. MaxTime

(* The order a run without restart has reached at an iteration             *)
OrderAt(n) == Min({setting.order, 1 + (n - 1) \div setting.between})

(***************************************************************************)
(* With these settings the states saved are enough for a restart: each of  *)
(* the last M_order states of a multiple of the frequency was among those  *)
(* its own iteration saved, which the growing order may prevent.           *)
(***************************************************************************)
Recoverable ==
  \A m \in 0 .. MaxTime - TimeInitial : m % setting.freq = 0 =>
     \A k \in Loaded(m) : m - k > 0 => DoSave(m - k, OrderAt(m - k))

(* A run killed between two saves is never lost: the restart finds a       *)
(* metadata file and all the states it reads.                              *)
NoLostRun == pc = "failed" => interrupted \/ missed \/ ~Recoverable

(* bdf2.hpp, M_unknowns: "Last n state vectors".  Every step, also after   *)
(* restarts, starts from the last states: what the restart loaded          *)
(* is what the run had computed, on every rank and for the order in use.   *)
HistoryIsRecent == pc = "solve" /\ ~missed => Recent

(* restart() recomputes the order that a run without restart would have    *)
(* at the iteration it resumes                                             *)
OrderFollowsIteration == Running /\ iteration > 0 => orderCur = OrderAt(iteration)

(* The time values the metadata holds are those of the iterations 0, 1,    *)
(* 2 .., from the initial time on, after any number of restarts: the       *)
(* index of a time is the number in the names of its files.                *)
MetadataMatchesFiles ==
  metadata \notin {Absent, Torn} /\ ~missed =>
     \A i \in 1 .. Len(metadata), r \in Proc :
        /\ metadata[i] = TimeInitial + i - 1
        /\ file[Name(r, i - 1)] \notin {Absent, Torn}
             => file[Name(r, i - 1)] = Part(r, metadata[i])

(* A restart at last save repeats fewer steps than the save frequency      *)
RestartRepeatsFewSteps ==
  [][pc = "off" /\ pc' = "ramp" /\ setting.atLast
       => reached - ti' < setting.freq]_vars

(* bdf2.cpp, bdf.restart.at-last-save: "do a restart with ti the last      *)
(* save" works when no save was interrupted                                *)
RestartFindsFiles == pc = "failed" => interrupted

(* bdf2.hpp, isFinished(): "return true if Bdf is finished": no step is    *)
(* taken past the final time                                               *)
StopsAtFinalTime == pc = "solve" => time <= TimeFinal

=============================================================================
