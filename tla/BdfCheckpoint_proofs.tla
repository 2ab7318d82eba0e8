------------------------ MODULE BdfCheckpoint_proofs ------------------------
(***************************************************************************)
(* Proofs about the time loop and its checkpoints, for all options, any    *)
(* number of ranks, of time steps and of kills: which states are in memory *)
(* and in which file, and what a restart therefore finds.                  *)
(***************************************************************************)
EXTENDS BdfCheckpoint, SequenceTheorems, WellFoundedInduction, TLAPS

-----------------------------------------------------------------------------
(* The inductive invariant                                                 *)

Between == {"solve", "ramp", "finished"}
Saving == {"metadata", "writing", "files"}

IsWhole(m) == m \notin {Absent, Torn}

(* The list of times has an entry for each iteration, also after a restart *)
(* that lost track of the index, where an entry may be late but not early  *)
TimesInv ==
  /\ pc = "new" => /\ iteration = 0 /\ time = TimeInitial /\ ti = TimeInitial
                   /\ metadata = Absent
  /\ pc \in Between => /\ 1 <= iteration /\ iteration <= time /\ time <= MaxTime + 1
                       /\ Len(timeValues) <= time
  /\ pc \in Saving => /\ iteration <= time /\ time <= MaxTime
                      /\ 1 <= Len(timeValues) /\ Len(timeValues) <= time + 1
  /\ pc = "metadata" /\ iteration = 0 => metadata = Absent
  /\ pc \in Saving /\ iteration = 0 => time = TimeInitial /\ ti = TimeInitial
  /\ pc = "writing" => metadata = Torn
  /\ pc = "files" => metadata = timeValues
  /\ \A i \in 1 .. Len(timeValues) : timeValues[i] >= i - 1
  /\ IsWhole(metadata) => /\ 1 <= Len(metadata)
                          /\ \A i \in 1 .. Len(metadata) : metadata[i] >= i - 1

(* The order after the iteration n: it grew every M_iterations_between..   *)
IsRamp(cur, last, n) ==
  /\ cur <= last /\ last <= n
  /\ last = 1 + setting.between * (cur - 1)
  /\ cur < setting.order => n < last + setting.between

OrderInv ==
  /\ pc = "ramp" => 2 <= rampAt /\ rampAt <= iteration + 1 /\ IsRamp(orderCur, lastChange, rampAt - 1)
  /\ pc \in {"solve", "finished"} \cup Saving /\ iteration > 0 => IsRamp(orderCur, lastChange, iteration)

(* The times of the iterations 0, 1, 2 ..                                  *)
Times(s) == \A i \in 1 .. Len(s) : s[i] = TimeInitial + i - 1

IndexInv ==
  ~missed =>
    /\ pc \in Between => /\ time = TimeInitial + iteration
                         /\ Len(timeValues) = iteration
    /\ pc \in Saving => /\ time = TimeInitial + iteration
                        /\ Len(timeValues) = iteration + 1
    /\ Times(timeValues)
    /\ IsWhole(metadata) => Times(metadata)

(* The states in memory and the contents of the files                      *)
HistoryInv ==
  ~missed /\ setting.rankInName =>
    /\ pc \in Between => \A r \in Proc, k \in 0 .. MaxOrder - 1 :
         k < setting.order /\ k < iteration => unknowns[r][k] = Part(r, time - 1 - k)
    /\ pc \in Saving => \A r \in Proc, k \in 0 .. MaxOrder - 1 :
         k < setting.order /\ k <= iteration => unknowns[r][k] = Part(r, time - k)
    /\ \A n \in Iteration, r \in Proc :
         file[<<n, r>>] \in {Absent, Torn, Part(r, TimeInitial + n)}
    /\ pc = "files" => \A r \in Proc :
         writer[r] = "open" => file[<<iteration, r>>] = Torn

(* The states a run has saved are on disk                                  *)
IsSaved(n) == n = 0 \/ DoSave(n, OrderAt(n))

OnDisk(n) == \A r \in Proc : file[<<n, r>>] = Part(r, TimeInitial + n)

FilesInv ==
  ~missed /\ ~interrupted /\ setting.rankInName =>
    /\ pc \in Between \cup Saving =>
         \A n \in Iteration : n < iteration /\ IsSaved(n) => OnDisk(n)
    /\ IsWhole(metadata) =>
         \A n \in Iteration, r \in Proc :
           /\ n < Len(metadata) /\ IsSaved(n)
           /\ pc = "files" /\ n = iteration => writer[r] = "idle"
           => file[<<n, r>>] = Part(r, TimeInitial + n)
    /\ pc \in Between \cup {"off"} => IsWhole(metadata)

(* A run at last save: the last time in the metadata is not before the     *)
(* last multiple of the frequency                                          *)
Floor(n) == n - (n % setting.freq)

LastSaveInv ==
  /\ metadata = Absent => \A n \in Names : file[n] = Absent
  /\ setting.atLast =>
       /\ ~missed
       /\ pc \in Between \cup {"metadata"} /\ iteration > 0 =>
            IsWhole(metadata) /\ Floor(iteration - 1) < Len(metadata)
       /\ pc = "off" /\ IsWhole(metadata) =>
            reached - TimeInitial - Floor(Len(metadata) - 1) < setting.freq

IInv == TypeOK /\ TimesInv /\ OrderInv /\ IndexInv /\ HistoryInv /\ FilesInv /\ LastSaveInv

-----------------------------------------------------------------------------
(* Numbers and sequences                                                   *)

LEMMA Least ==
  ASSUME NEW T \in SUBSET Nat, T # {}
  PROVE  \E x \in T : \A y \in T : x <= y
<1>1. PICK x \in T : \A y \in T : ~ (<<y, x>> \in OpToRel(<, Nat))
  BY NatLessThanWellFounded, WFMin
<1>2. \A y \in T : ~ (y < x)
  BY <1>1 DEF OpToRel
<1> QED BY <1>2

(* The first index of a value, as SelectInSeq gives it                     *)
IndexOf(s, t) ==
  LET I == {j \in 1 .. Len(s) : s[j] = t} IN IF I # {} THEN Min(I) ELSE 0

LEMMA FirstIndex ==
  ASSUME NEW s \in Seq(Nat), NEW t
  PROVE  /\ IndexOf(s, t) \in 0 .. Len(s)
         /\ IndexOf(s, t) # 0 => s[IndexOf(s, t)] = t
         /\ (\E j \in 1 .. Len(s) : s[j] = t) => IndexOf(s, t) # 0
<1> DEFINE I == {j \in 1 .. Len(s) : s[j] = t}
<1>1. IndexOf(s, t) = IF I # {} THEN Min(I) ELSE 0
  BY DEF IndexOf
<1>2. CASE I # {}
  <2>1. I \in SUBSET Nat
    OBVIOUS
  <2>2. \E x \in I : \A y \in I : x <= y
    <3> HIDE DEF I
    <3> QED BY <2>1, <1>2, Least
  <2>3. Min(I) \in I
    BY <2>2 DEF Min
  <2> QED BY <2>3, <1>1, <1>2
<1>3. CASE I = {}
  BY <1>3, <1>1
<1> QED BY <1>2, <1>3

LEMMA Elements ==
  ASSUME NEW S, NEW s \in Seq(S), NEW i \in 1 .. Len(s)
  PROVE  s[i] \in S
  OBVIOUS

LEMMA Prefix ==
  ASSUME NEW S, NEW s \in Seq(S), NEW n \in 0 .. Len(s) - 1
  PROVE  /\ SubSeq(s, 1, n + 1) \in Seq(S)
         /\ Len(SubSeq(s, 1, n + 1)) = n + 1
         /\ \A i \in 1 .. n + 1 : SubSeq(s, 1, n + 1)[i] = s[i]
<1>1. \A i \in 1 .. n + 1 : s[i] \in S
  BY Elements
<1>2. /\ SubSeq(s, 1, n + 1) \in Seq(S)
      /\ Len(SubSeq(s, 1, n + 1)) = IF 1 <= n + 1 THEN (n + 1) - 1 + 1 ELSE 0
      /\ \A i \in 1 .. (n + 1) - 1 + 1 : SubSeq(s, 1, n + 1)[i] = s[1 + i - 1]
  <2>1. 1 \in Int /\ n + 1 \in Int
    OBVIOUS
  <2> QED BY <1>1, <2>1, SubSeqProperties
<1> QED BY <1>2

LEMMA MinPair ==
  ASSUME NEW a \in Int, NEW b \in Int
  PROVE  Min({a, b}) = IF a <= b THEN a ELSE b
  BY DEF Min

LEMMA ModBounds ==
  ASSUME NEW n \in Nat, NEW f \in Nat \ {0}
  PROVE  n % f \in 0 .. f - 1 /\ n % f <= n
  OBVIOUS

LEMMA TimesMonotone ==
  ASSUME NEW a \in Int, NEW b \in Int, NEW f \in Nat, a <= b
  PROVE  f * a <= f * b
  OBVIOUS

LEMMA TimesNext ==
  ASSUME NEW b \in Int, NEW f \in Nat
  PROVE  f * (b + 1) = f * b + f
  OBVIOUS

LEMMA Division ==
  ASSUME NEW n \in Int, NEW f \in Nat \ {0}
  PROVE  n \div f \in Int /\ n = f * (n \div f) + (n % f) /\ n % f \in 0 .. f - 1
  OBVIOUS

LEMMA FloorMonotone ==
  ASSUME NEW m \in Nat, NEW n \in Nat, NEW f \in Nat \ {0}, m <= n
  PROVE  m - (m % f) <= n - (n % f)
<1> DEFINE a == m \div f
<1> DEFINE b == n \div f
<1>1. a \in Int /\ m = f * a + (m % f) /\ m % f \in 0 .. f - 1
  OBVIOUS
<1>2. b \in Int /\ n = f * b + (n % f) /\ n % f \in 0 .. f - 1
  OBVIOUS
<1> HIDE DEF a, b
<1>3. CASE a <= b
  BY <1>1, <1>2, <1>3, TimesMonotone
<1>4. CASE b + 1 <= a
  <2>1. f * (b + 1) <= f * a
    BY <1>1, <1>2, <1>4, TimesMonotone
  <2>2. f * (b + 1) = f * b + f
    BY <1>2
  <2> QED BY <1>1, <1>2, <2>1, <2>2
<1> QED BY <1>1, <1>2, <1>3, <1>4

LEMMA Quotient ==
  ASSUME NEW n \in Int, NEW q \in Int, NEW f \in Nat \ {0},
         f * q <= n, n < f * q + f
  PROVE  n \div f = q
  OBVIOUS

LEMMA FloorIdempotent ==
  ASSUME NEW n \in Nat, NEW f \in Nat \ {0}
  PROVE  (n - (n % f)) % f = 0
<1> DEFINE a == n \div f
<1> DEFINE m == n - (n % f)
<1>1. a \in Int /\ m = f * a
  OBVIOUS
<1>2. m \div f = a
  <2>1. m \in Int /\ f * a <= m /\ m < f * a + f
    BY <1>1
  <2> HIDE DEF a, m
  <2> QED BY <1>1, <2>1, Quotient
<1>3. m = f * (m \div f) + (m % f)
  OBVIOUS
<1> HIDE DEF a, m
<1>4. m % f = 0
  <2>1. m % f \in Int /\ f * a \in Int
    BY <1>1
  <2> QED BY <1>1, <1>2, <1>3, <2>1
<1> QED BY <1>4 DEF m

-----------------------------------------------------------------------------
(* Types, and the list of times                                            *)

LEMMA SettingType ==
  ASSUME TypeOK
  PROVE  /\ setting.order \in 1 .. 4
         /\ setting.freq \in Nat \ {0}
         /\ setting.between \in Nat \ {0}
         /\ setting.atLast \in BOOLEAN
         /\ setting.rankInName \in BOOLEAN
  BY BdfAssumption DEF TypeOK, MaxOrder

LEMMA WholeMetadata ==
  ASSUME TypeOK, IsWhole(metadata)
  PROVE  metadata \in Seq(0 .. MaxTime) /\ metadata \in Seq(Nat)
  BY BdfAssumption DEF TypeOK, IsWhole

(* What a restart finds                                                    *)
FoundAt(found, it) ==
  /\ it \in 0 .. Len(metadata) - 1
  /\ found = [values |-> SubSeq(metadata, 1, Floor(it) + 1),
               ti |-> metadata[Floor(it) + 1], iteration |-> Floor(it)]
  /\ setting.atLast => metadata[it + 1] = metadata[Len(metadata)]

LEMMA LoadFacts ==
  ASSUME TypeOK, TimesInv, NEW t, NEW found, found = LoadMetadata(t)
  PROVE  \/ found = NotFound /\ (setting.atLast => ~IsWhole(metadata))
         \/ IsWhole(metadata) /\ \E it \in 0 .. Len(metadata) - 1 : FoundAt(found, it)
<1>1. CASE ~IsWhole(metadata)
  BY <1>1 DEF LoadMetadata, IsWhole
<1>2. CASE IsWhole(metadata)
  <2> DEFINE start0 == IF setting.atLast THEN Last(metadata) ELSE t
  <2> DEFINE i == IndexOf(metadata, start0)
  <2>1. found = Found(metadata, start0)
    BY <1>2 DEF LoadMetadata, IsWhole
  <2>2. metadata \in Seq(Nat) /\ 1 <= Len(metadata)
    BY <1>2, WholeMetadata DEF TimesInv
  <2>3. /\ i \in 0 .. Len(metadata)
        /\ i # 0 => metadata[i] = start0
        /\ (\E j \in 1 .. Len(metadata) : metadata[j] = start0) => i # 0
    BY <2>2, FirstIndex
  <2>4. setting.atLast => start0 = metadata[Len(metadata)] /\ i # 0
    <3>1. setting.atLast => start0 = metadata[Len(metadata)]
      BY DEF Last
    <3> HIDE DEF start0, i
    <3> QED BY <2>2, <2>3, <3>1
  <2>5. found = IF i - 1 = -1 THEN NotFound
                ELSE [values |-> SubSeq(metadata, 1, i - 1 - ((i - 1) % setting.freq) + 1),
                      ti |-> metadata[i - 1 - ((i - 1) % setting.freq) + 1],
                      iteration |-> i - 1 - ((i - 1) % setting.freq)]
    BY <2>1 DEF Found, SelectInSeq, IndexOf
  <2> HIDE DEF i, start0
  <2>6. CASE i = 0
    BY <2>4, <2>5, <2>6
  <2>7. CASE i # 0
    <3>1. i - 1 \in 0 .. Len(metadata) - 1 /\ (i - 1) + 1 = i /\ i - 1 # -1
      BY <2>2, <2>3, <2>7
    <3>2. FoundAt(found, i - 1)
      BY <2>3, <2>4, <2>5, <2>7, <3>1 DEF FoundAt, Floor
    <3> QED BY <1>2, <3>1, <3>2
  <2> QED BY <2>6, <2>7
<1> QED BY <1>1, <1>2

LEMMA FloorBounds ==
  ASSUME TypeOK, NEW n \in Nat
  PROVE  /\ Floor(n) \in 0 .. n
         /\ n - Floor(n) < setting.freq
         /\ Floor(Floor(n)) = Floor(n)
         /\ Floor(n) % setting.freq = 0
         /\ n % setting.freq = 0 => Floor(n) = n
         /\ \A m \in 0 .. n : Floor(m) <= Floor(n)
<1>1. setting.freq \in Nat \ {0}
  BY SettingType
<1> DEFINE f == setting.freq
<1>2. n % f \in 0 .. f - 1 /\ n % f <= n
  BY <1>1, ModBounds
<1>3. (n - (n % f)) % f = 0
  BY <1>1, FloorIdempotent
<1>4. \A m \in 0 .. n : m - (m % f) <= n - (n % f)
  BY <1>1, FloorMonotone
<1>5. Floor(n) \in 0 .. n /\ n - Floor(n) < f /\ (n % f = 0 => Floor(n) = n)
  BY <1>1, <1>2 DEF Floor
<1>6. Floor(n) % f = 0
  BY <1>3 DEF Floor
<1>7. Floor(Floor(n)) = Floor(n)
  <2>1. Floor(n) - 0 = Floor(n)
    BY <1>5
  <2> QED BY <1>6, <2>1 DEF Floor
<1>8. \A m \in 0 .. n : Floor(m) <= Floor(n)
  BY <1>4 DEF Floor
<1> QED BY <1>5, <1>6, <1>7, <1>8

(* What a restart sets: the state after the iteration n of the metadata    *)
RestartAt(n) ==
  /\ n \in 0 .. Len(metadata) - 1
  /\ timeValues' = SubSeq(metadata, 1, n + 1)
  /\ ti' = metadata[n + 1]
  /\ time' = metadata[n + 1] + 1
  /\ iteration' = n + 1
  /\ missed' = missed
  /\ CanRestart(n)
  /\ unknowns' = [r \in Proc |-> [k \in 0 .. MaxOrder - 1 |->
       IF k \in Loaded(n) THEN file[Name(r, n - k)] ELSE unknowns[r][k]]]

RestartNowhere ==
  /\ timeValues' = <<>> /\ ti' = 0 /\ time' = 1 /\ iteration' = 1
  /\ missed' = TRUE
  /\ CanRestart(0)
  /\ unknowns' = [r \in Proc |-> [k \in 0 .. MaxOrder - 1 |->
       IF k \in Loaded(0) THEN file[Name(r, 0 - k)] ELSE unknowns[r][k]]]

LEMMA RestartFacts ==
  ASSUME TypeOK, TimesInv, NEW t, Restart(t)
  PROVE  \/ RestartNowhere /\ (setting.atLast => ~IsWhole(metadata))
         \/ /\ IsWhole(metadata)
            /\ \E it \in 0 .. Len(metadata) - 1 :
                 /\ RestartAt(Floor(it))
                 /\ setting.atLast => metadata[it + 1] = metadata[Len(metadata)]
<1> DEFINE found == LoadMetadata(t)
<1>1. /\ CanRestart(found.iteration)
      /\ timeValues' = found.values
      /\ unknowns' = [r \in Proc |-> [k \in 0 .. MaxOrder - 1 |->
           IF k \in Loaded(found.iteration) THEN file[Name(r, found.iteration - k)]
           ELSE unknowns[r][k]]]
      /\ time' = found.ti + 1 /\ ti' = found.ti /\ iteration' = found.iteration + 1
      /\ missed' = (missed \/ found = NotFound)
  BY DEF Restart
<1>2. \/ found = NotFound /\ (setting.atLast => ~IsWhole(metadata))
      \/ IsWhole(metadata) /\ \E it \in 0 .. Len(metadata) - 1 : FoundAt(found, it)
  BY LoadFacts
<1> HIDE DEF found
<1>3. CASE found = NotFound /\ (setting.atLast => ~IsWhole(metadata))
  <2>1. found.iteration = 0 /\ found.ti = 0 /\ found.values = <<>>
    BY <1>3 DEF NotFound
  <2>a. missed' = TRUE
    BY <1>1, <1>3, Zenon
  <2>2. missed' = TRUE /\ time' = 1 /\ iteration' = 1
    BY <1>1, <2>1, <2>a
  <2>3. RestartNowhere
    BY <1>1, <2>1, <2>2 DEF RestartNowhere
  <2> QED BY <1>3, <2>3
<1>4. CASE IsWhole(metadata) /\ \E it \in 0 .. Len(metadata) - 1 : FoundAt(found, it)
  <2>1. PICK it \in 0 .. Len(metadata) - 1 : FoundAt(found, it)
    BY <1>4
  <2>2. metadata \in Seq(Nat) /\ 1 <= Len(metadata)
    BY <1>4, WholeMetadata DEF TimesInv
  <2>3. Floor(it) \in 0 .. Len(metadata) - 1
    BY <2>1, <2>2, FloorBounds
  <2>4. /\ found.values = SubSeq(metadata, 1, Floor(it) + 1)
        /\ found.ti = metadata[Floor(it) + 1]
        /\ found.iteration = Floor(it)
        /\ setting.atLast => metadata[it + 1] = metadata[Len(metadata)]
    BY <2>1 DEF FoundAt
  <2>5. found # NotFound
    <3>1. Len(SubSeq(metadata, 1, Floor(it) + 1)) = Floor(it) + 1
      BY <2>2, <2>3
    <3>2. Len(NotFound.values) = 0
      BY DEF NotFound
    <3> QED BY <2>3, <2>4, <3>1, <3>2
  <2>6. missed' = missed
    BY <1>1, <2>5 DEF TypeOK
  <2>7. RestartAt(Floor(it))
    BY <1>1, <2>3, <2>4, <2>6 DEF RestartAt
  <2> QED BY <1>4, <2>4, <2>7
<1> QED BY <1>2, <1>3, <1>4

LEMMA RampType ==
  ASSUME TypeOK, NEW l \in Nat, NEW c \in 1 .. setting.order, NEW i \in Nat
  PROVE  /\ Ramp([last |-> l, cur |-> c], i).cur \in 1 .. setting.order
         /\ Ramp([last |-> l, cur |-> c], i).last \in Nat
  BY SettingType DEF Ramp

(* The type invariant in two parts                                         *)
ScalarType ==
  /\ setting \in Settings
  /\ pc \in {"new", "solve", "metadata", "writing", "files", "off", "ramp", "failed", "finished"}
  /\ iteration \in Nat
  /\ orderCur \in 1 .. setting.order
  /\ lastChange \in Nat
  /\ ti \in Nat /\ time \in Nat /\ rampAt \in Nat
  /\ crashes \in 0 .. MaxCrash
  /\ interrupted \in BOOLEAN /\ missed \in BOOLEAN
  /\ reached \in -1 .. MaxTime

StoreType ==
  /\ timeValues \in Seq(0 .. MaxTime)
  /\ unknowns \in [Proc -> [0 .. MaxOrder - 1 -> Parts]]
  /\ writer \in [Proc -> {"idle", "todo", "open"}]
  /\ metadata \in {Absent, Torn} \cup Seq(0 .. MaxTime)
  /\ file \in [Names -> {Absent, Torn} \cup Parts]

LEMMA TypeParts == TypeOK <=> ScalarType /\ StoreType
  BY DEF TypeOK, ScalarType, StoreType

LEMMA TypeInit ==
  ASSUME Init
  PROVE  TypeOK /\ TimesInv
<1>1. setting.order \in 1 .. 4
  BY BdfAssumption DEF Init, MaxOrder
<1>2. TimeInitial \in Nat /\ MaxTime \in Nat /\ MaxCrash \in Nat /\ TimeInitial <= MaxTime
  BY BdfAssumption
<1>3. ScalarType
  <2>1. setting \in Settings /\ orderCur \in 1 .. setting.order
    BY <1>1 DEF Init
  <2>2. interrupted \in BOOLEAN /\ missed \in BOOLEAN
    BY Zenon DEF Init
  <2>3. crashes \in 0 .. MaxCrash /\ reached \in -1 .. MaxTime
    BY <1>2 DEF Init
  <2> QED BY <1>2, <2>1, <2>2, <2>3 DEF Init, ScalarType
<1>4. StoreType
  <2>1. unknowns \in [Proc -> [0 .. MaxOrder - 1 -> Parts]]
    BY DEF Init, Parts, Wrong
  <2>2. writer \in [Proc -> {"idle", "todo", "open"}]
    BY DEF Init
  <2>3. file \in [Names -> {Absent, Torn} \cup Parts]
    <3> HIDE DEF Names
    <3> QED BY DEF Init
  <2>4. timeValues \in Seq(0 .. MaxTime) /\ metadata \in {Absent, Torn}
    BY DEF Init
  <2> QED BY <2>1, <2>2, <2>3, <2>4 DEF StoreType
<1>5. TimesInv
  BY <1>2 DEF Init, TimesInv, Between, Saving, IsWhole
<1> QED BY <1>3, <1>4, <1>5, TypeParts

-----------------------------------------------------------------------------
(* The steps of a run, with what next() and the loop of restart() set      *)

LEMMA ScalarStep ==
  ASSUME TypeOK, TimesInv, [Next]_vars
  PROVE  ScalarType'
<1>t. ScalarType
  BY TypeParts
<1>s. /\ setting.order \in 1 .. 4 /\ setting.freq \in Nat \ {0}
      /\ setting.between \in Nat \ {0}
  BY SettingType
<1>c. /\ TimeInitial \in Nat /\ MaxTime \in Nat /\ MaxCrash \in Nat
      /\ TimeInitial < MaxTime /\ Proc \subseteq Nat
  BY BdfAssumption
<1>a. ASSUME Advance, UNCHANGED <<setting, history>>
      PROVE  ScalarType'
  <2>1. /\ Ramp([last |-> lastChange, cur |-> orderCur], iteration + 1).cur \in 1 .. setting.order
        /\ Ramp([last |-> lastChange, cur |-> orderCur], iteration + 1).last \in Nat
    BY <1>t, RampType DEF ScalarType
  <2> QED BY <1>a, <1>t, <2>1 DEF Advance, Enter, ScalarType, history
<1>1. CASE Start
  BY <1>1, <1>t DEF Start, ScalarType, history
<1>2. CASE SolveAndShift
  <2>1. CASE Advance
    BY <1>2, <2>1, <1>a DEF SolveAndShift
  <2>2. CASE ~Advance
    BY <1>2, <2>2, <1>t DEF SolveAndShift, ScalarType, history
  <2> QED BY <2>1, <2>2
<1>3. CASE OpenMetadata \/ WriteMetadata
  BY <1>3, <1>t DEF OpenMetadata, WriteMetadata, ScalarType, scalars, history
<1>4. CASE \E r \in Proc : OpenFile(r) \/ WriteFile(r)
  BY <1>4, <1>t DEF OpenFile, WriteFile, ScalarType, scalars, history
<1>5. CASE Saved
  <2>1. CASE iteration = 0
    BY <1>5, <2>1, <1>t, <1>s DEF Saved, Enter, RampStart, ScalarType, history
  <2>2. CASE iteration # 0
    BY <1>5, <2>2, <1>a DEF Saved
  <2> QED BY <2>1, <2>2
<1>6. CASE Crash
  <2>1. interrupted' \in BOOLEAN /\ missed' \in BOOLEAN
    BY <1>6, <1>t, Zenon DEF Crash, ScalarType
  <2>2. reached' \in -1 .. MaxTime
    BY <1>6, <1>t, <1>c DEF Crash, TimesInv, Between, Saving, ScalarType
  <2> QED BY <1>6, <1>t, <1>s, <1>c, <2>1, <2>2 DEF Crash, ScalarType
<1>7. ASSUME NEW t, Restart(t)
      PROVE  ScalarType'
  <2>1. missed' \in BOOLEAN
    BY <1>7, Zenon DEF Restart
  <2>2. /\ UNCHANGED <<setting, crashes, interrupted, reached>>
        /\ pc' = "ramp" /\ rampAt' = 2 /\ orderCur' = 1 /\ lastChange' = 1
    BY <1>7 DEF Restart, RampStart
  <2>3. ti' \in Nat /\ time' \in Nat /\ iteration' \in Nat
    <3>1. CASE RestartNowhere
      BY <3>1 DEF RestartNowhere
    <3>2. CASE IsWhole(metadata) /\ \E n \in 0 .. Len(metadata) - 1 : RestartAt(n)
      <4>1. metadata \in Seq(Nat)
        BY <3>2, WholeMetadata
      <4> QED BY <3>2, <4>1 DEF RestartAt
    <3>3. \A it \in 0 .. Len(metadata) - 1 : Floor(it) \in 0 .. it
      BY FloorBounds
    <3> QED BY <1>7, <3>1, <3>2, <3>3, RestartFacts DEF RestartAt
  <2> QED BY <1>t, <1>s, <2>1, <2>2, <2>3 DEF ScalarType
<1>8. CASE \E t \in StartTimes : RestartFails(t)
  BY <1>8, <1>t DEF RestartFails, ScalarType, scalars, history
<1>9. CASE ReplayRamp
  <2>1. /\ Ramp([last |-> lastChange, cur |-> orderCur], rampAt).cur \in 1 .. setting.order
        /\ Ramp([last |-> lastChange, cur |-> orderCur], rampAt).last \in Nat
    BY <1>t, RampType DEF ScalarType
  <2> QED BY <1>9, <1>t, <2>1 DEF ReplayRamp, ScalarType, history
<1>10. CASE Resume
  BY <1>10, <1>t DEF Resume, Enter, ScalarType, history
<1>11. CASE UNCHANGED vars
  BY <1>11, <1>t DEF vars, scalars, history, ScalarType
<1> QED BY <1>1, <1>2, <1>3, <1>4, <1>5, <1>6, <1>7, <1>8, <1>9, <1>10, <1>11 DEF Next

(* The states of the metadata have an index the names of the files cover   *)
LEMMA MetadataLength ==
  ASSUME TypeOK, TimesInv, IsWhole(metadata)
  PROVE  Len(metadata) \in 1 .. MaxTime + 1
<1>1. metadata \in Seq(0 .. MaxTime)
  BY WholeMetadata
<1>2. Len(metadata) \in Nat /\ 1 <= Len(metadata)
  BY <1>1 DEF TimesInv
<1>4. metadata[Len(metadata)] \in 0 .. MaxTime
  <2> DEFINE S == 0 .. MaxTime
  <2> HIDE DEF S
  <2>1. metadata \in Seq(S)
    BY <1>1 DEF S
  <2>2. metadata[Len(metadata)] \in S
    BY <1>2, <2>1, Elements
  <2> QED BY <2>2 DEF S
<1>3. metadata[Len(metadata)] >= Len(metadata) - 1
  BY <1>2 DEF TimesInv
<1> QED BY <1>2, <1>3, <1>4, BdfAssumption

LEMMA LoadedParts ==
  ASSUME TypeOK, NEW n \in Iteration, CanRestart(n), NEW r \in Proc, NEW k \in Loaded(n)
  PROVE  /\ n - k \in Iteration /\ Name(r, n - k) \in Names
         /\ k < setting.order /\ k <= n /\ k \in Nat
         /\ file[Name(r, n - k)] \in Parts
<1>1. k \in 0 .. (IF setting.order <= n + 1 THEN setting.order ELSE n + 1) - 1
  BY SettingType, MinPair, BdfAssumption DEF Loaded, Iteration
<1>2. n - k \in Iteration /\ k < setting.order /\ k <= n /\ k \in Nat
  BY <1>1, SettingType, BdfAssumption DEF Iteration
<1>3. Name(r, n - k) \in Names
  BY <1>2 DEF Name, Names
<1>4. file[Name(r, n - k)] \in {Absent, Torn} \cup Parts
  <2> HIDE DEF Names, Parts
  <2> QED BY <1>3 DEF TypeOK
<1>5. file[Name(r, n - k)] \notin {Absent, Torn}
  BY DEF CanRestart, Readable
<1> QED BY <1>2, <1>3, <1>4, <1>5

LEMMA StoreStep ==
  ASSUME TypeOK, TimesInv, [Next]_vars
  PROVE  StoreType'
<1>t. StoreType
  BY TypeParts
<1>c. /\ TimeInitial \in Nat /\ MaxTime \in Nat
      /\ TimeInitial < MaxTime /\ Proc \subseteq Nat
  BY BdfAssumption
<1>1. CASE Start
  <2>1. timeValues' \in Seq(0 .. MaxTime)
    BY <1>1, <1>c DEF Start, TimesInv
  <2>2. unknowns' \in [Proc -> [0 .. MaxOrder - 1 -> Parts]]
    BY <1>1, <1>c DEF Start, Parts
  <2> QED BY <1>1, <1>t, <2>1, <2>2 DEF Start, StoreType, disk
<1>2. CASE SolveAndShift
  <2>1. timeValues' \in Seq(0 .. MaxTime)
    BY <1>2, <1>c, <1>t DEF SolveAndShift, TypeOK, StoreType
  <2>2. unknowns' \in [Proc -> [0 .. MaxOrder - 1 -> Parts]]
    <3>1. \A r \in Proc : Part(r, IF Recent THEN time ELSE Wrong) \in Parts
      BY <1>2, <1>c DEF SolveAndShift, TypeOK, Parts
    <3>2. \A r \in Proc, i \in 0 .. MaxOrder - 1 : i # 0 => unknowns[r][i - 1] \in Parts
      BY <1>t DEF StoreType, MaxOrder
    <3> HIDE DEF Parts
    <3> QED BY <1>2, <3>1, <3>2 DEF SolveAndShift
  <2> QED BY <1>2, <1>t, <2>1, <2>2 DEF SolveAndShift, StoreType, disk
<1>3. CASE OpenMetadata \/ WriteMetadata
  BY <1>3, <1>t DEF OpenMetadata, WriteMetadata, StoreType, scalars
<1>4. ASSUME NEW r \in Proc, OpenFile(r) \/ WriteFile(r)
      PROVE  StoreType'
  <2>1. file' \in [Names -> {Absent, Torn} \cup Parts]
    <3>0. 0 \in 0 .. MaxOrder - 1
      BY DEF MaxOrder
    <3>1. unknowns[r][0] \in Parts /\ Part(r, Wrong) \in Parts
      <4>1. Part(r, Wrong) \in Parts
        BY DEF Parts
      <4> HIDE DEF Parts
      <4> QED BY <3>0, <4>1, <1>t DEF StoreType
    <3>2. CASE OpenFile(r)
      BY <3>2, <1>t DEF OpenFile, StoreType
    <3>3. CASE WriteFile(r)
      <4>1. PICK content \in Parts : file' = [file EXCEPT ![Name(r, iteration)] = content]
        BY <3>1, <3>3 DEF WriteFile
      <4> QED BY <4>1, <1>t DEF StoreType
    <3> QED BY <1>4, <3>2, <3>3
  <2>2. writer' \in [Proc -> {"idle", "todo", "open"}]
    BY <1>4, <1>t DEF OpenFile, WriteFile, StoreType
  <2>3. UNCHANGED <<timeValues, unknowns, metadata>>
    BY <1>4 DEF OpenFile, WriteFile, scalars
  <2> QED BY <1>t, <2>1, <2>2, <2>3 DEF StoreType
<1>5. CASE Saved
  BY <1>5, <1>t DEF Saved, StoreType, disk
<1>6. CASE Crash
  <2>1. unknowns' \in [Proc -> [0 .. MaxOrder - 1 -> Parts]]
    BY <1>6 DEF Crash, Parts
  <2> QED BY <1>6, <1>t, <2>1 DEF Crash, StoreType, disk
<1>7. ASSUME NEW t, Restart(t)
      PROVE  StoreType'
  <2>0. UNCHANGED <<writer, metadata, file>>
    BY <1>7 DEF Restart, disk
  <2>1. ASSUME NEW n \in Iteration, CanRestart(n),
               unknowns' = [r \in Proc |-> [k \in 0 .. MaxOrder - 1 |->
                 IF k \in Loaded(n) THEN file[Name(r, n - k)] ELSE unknowns[r][k]]]
        PROVE  unknowns' \in [Proc -> [0 .. MaxOrder - 1 -> Parts]]
    <3>1. \A r \in Proc, k \in Loaded(n) : file[Name(r, n - k)] \in Parts
      BY <2>1, LoadedParts
    <3>2. \A r \in Proc, k \in 0 .. MaxOrder - 1 : unknowns[r][k] \in Parts
      BY <1>t DEF StoreType
    <3> HIDE DEF Parts
    <3> QED BY <2>1, <3>1, <3>2
  <2>2. CASE RestartNowhere
    <3>1. 0 \in Iteration
      BY <1>c DEF Iteration
    <3>2. timeValues' \in Seq(0 .. MaxTime)
      BY <2>2 DEF RestartNowhere
    <3> QED BY <2>0, <2>1, <2>2, <3>1, <3>2, <1>t DEF RestartNowhere, StoreType
  <2>3. ASSUME IsWhole(metadata), NEW n \in Nat, RestartAt(n)
        PROVE  StoreType'
    <3>1. metadata \in Seq(0 .. MaxTime) /\ Len(metadata) \in 1 .. MaxTime + 1
      BY <2>3, WholeMetadata, MetadataLength
    <3>2. n \in 0 .. Len(metadata) - 1 /\ n \in Iteration
      BY <2>3, <3>1, <1>c DEF RestartAt, Iteration
    <3>3. timeValues' \in Seq(0 .. MaxTime)
      BY <2>3, <3>1, <3>2, Prefix DEF RestartAt
    <3>4. unknowns' \in [Proc -> [0 .. MaxOrder - 1 -> Parts]]
      BY <2>1, <2>3, <3>2 DEF RestartAt
    <3> QED BY <2>0, <3>3, <3>4, <1>t DEF StoreType
  <2>4. \A it \in 0 .. Len(metadata) - 1 : Floor(it) \in Nat
    BY FloorBounds
  <2> QED BY <1>7, <2>2, <2>3, <2>4, RestartFacts
<1>8. CASE \E t \in StartTimes : RestartFails(t)
  BY <1>8, <1>t DEF RestartFails, StoreType, scalars, disk
<1>9. CASE ReplayRamp
  BY <1>9, <1>t DEF ReplayRamp, StoreType, disk
<1>10. CASE Resume
  BY <1>10, <1>t DEF Resume, StoreType, disk
<1>11. CASE UNCHANGED vars
  BY <1>11, <1>t DEF vars, scalars, disk, StoreType
<1> QED BY <1>1, <1>2, <1>3, <1>4, <1>5, <1>6, <1>7, <1>8, <1>9, <1>10, <1>11 DEF Next

LEMMA TimesStep ==
  ASSUME TypeOK, TimesInv, [Next]_vars
  PROVE  TimesInv'
<1>t. /\ iteration \in Nat /\ time \in Nat /\ ti \in Nat /\ timeValues \in Seq(0 .. MaxTime)
      /\ timeValues \in Seq(Nat)
  BY BdfAssumption DEF TypeOK
<1>c. TimeInitial \in Nat /\ MaxTime \in Nat /\ TimeInitial < MaxTime
  BY BdfAssumption
<1>m. IsWhole(metadata) => metadata \in Seq(Nat)
  BY WholeMetadata
<1> USE DEF Between, Saving
<1>1. CASE Start
  <2>1. timeValues' = <<TimeInitial>> /\ iteration = 0 /\ metadata = Absent
    BY <1>1 DEF Start, TimesInv
  <2>2. Len(timeValues') = 1 /\ timeValues'[1] = TimeInitial
    BY <2>1
  <2>3. \A i \in 1 .. Len(timeValues') : timeValues'[i] >= i - 1
    BY <2>2, <1>c
  <2> QED BY <1>1, <2>1, <2>2, <2>3, <1>c DEF Start, TimesInv, disk, IsWhole
<1>2. CASE SolveAndShift
  <2>1. /\ timeValues' = Append(timeValues, time) /\ UNCHANGED metadata
        /\ pc = "solve" /\ time <= MaxTime
    BY <1>2 DEF SolveAndShift, disk
  <2>2. /\ Len(timeValues') = Len(timeValues) + 1
        /\ \A i \in 1 .. Len(timeValues') : timeValues'[i] >= i - 1
    BY <2>1, <1>t DEF TimesInv
  <2>3. CASE pc' = "metadata" /\ UNCHANGED <<iteration, ti, time>>
    BY <2>1, <2>2, <2>3, <1>t DEF TimesInv, IsWhole
  <2>4. CASE Advance
    <3>1. /\ iteration' = iteration + 1 /\ time' = time + 1
          /\ pc' \in {"solve", "finished"}
      BY <2>4 DEF Advance, Enter
    <3>2. 1 <= iteration /\ iteration <= time /\ Len(timeValues) <= time
      BY <2>1 DEF TimesInv
    <3>3. /\ 1 <= iteration' /\ iteration' <= time' /\ time' <= MaxTime + 1
          /\ Len(timeValues') <= time'
      BY <2>1, <2>2, <3>1, <3>2, <1>t, <1>c
    <3> QED BY <2>1, <2>2, <3>1, <3>3 DEF TimesInv, IsWhole
  <2> QED BY <1>2, <2>3, <2>4 DEF SolveAndShift
<1>3. CASE OpenMetadata
  BY <1>3 DEF OpenMetadata, TimesInv, scalars, IsWhole
<1>4. CASE WriteMetadata
  BY <1>4 DEF WriteMetadata, TimesInv, scalars, IsWhole
<1>5. CASE \E r \in Proc : OpenFile(r) \/ WriteFile(r)
  BY <1>5 DEF OpenFile, WriteFile, TimesInv, scalars, IsWhole
<1>6. CASE Saved
  BY <1>6, <1>t, <1>c DEF Saved, Advance, Enter, TimesInv, disk, IsWhole
<1>7. CASE Crash
  BY <1>7 DEF Crash, TimesInv, disk, IsWhole
<1>8. ASSUME NEW t, Restart(t)
      PROVE  TimesInv'
  <2>0. pc' = "ramp" /\ UNCHANGED metadata
    BY <1>8 DEF Restart, disk
  <2>1. CASE RestartNowhere
    BY <2>0, <2>1, <1>c DEF RestartNowhere, TimesInv, IsWhole
  <2>2. ASSUME IsWhole(metadata), NEW n \in Nat, RestartAt(n)
        PROVE  TimesInv'
    <3>1. metadata \in Seq(Nat) /\ metadata \in Seq(0 .. MaxTime)
      BY <2>2, WholeMetadata
    <3>2. n \in 0 .. Len(metadata) - 1 /\ n + 1 \in 1 .. Len(metadata)
      BY <2>2, <3>1 DEF RestartAt
    <3>3. metadata[n + 1] \in 0 .. MaxTime /\ metadata[n + 1] >= n
      <4> DEFINE S == 0 .. MaxTime
      <4> HIDE DEF S
      <4>1. metadata \in Seq(S)
        BY <3>1 DEF S
      <4>2. metadata[n + 1] \in S
        BY <3>2, <4>1, Elements
      <4>3. metadata[n + 1] >= (n + 1) - 1
        BY <2>2, <3>2 DEF TimesInv
      <4> QED BY <4>2, <4>3 DEF S
    <3>4. Len(timeValues') = n + 1 /\ \A i \in 1 .. n + 1 : timeValues'[i] = metadata[i]
      BY <2>2, <3>1, <3>2, Prefix DEF RestartAt
    <3>5. \A i \in 1 .. Len(timeValues') : timeValues'[i] >= i - 1
      <4>1. \A i \in 1 .. Len(metadata) : metadata[i] >= i - 1
        BY <2>2 DEF TimesInv
      <4>2. \A i \in 1 .. n + 1 : i \in 1 .. Len(metadata)
        BY <3>1, <3>2
      <4> QED BY <3>4, <4>1, <4>2
    <3> QED BY <2>0, <2>2, <3>2, <3>3, <3>4, <3>5, <1>c DEF RestartAt, TimesInv, IsWhole
  <2>3. \A it \in 0 .. Len(metadata) - 1 : Floor(it) \in Nat
    BY FloorBounds
  <2> QED BY <1>8, <2>1, <2>2, <2>3, RestartFacts
<1>9. CASE \E t \in StartTimes : RestartFails(t)
  BY <1>9 DEF RestartFails, TimesInv, scalars, disk, IsWhole
<1>10. CASE ReplayRamp
  BY <1>10 DEF ReplayRamp, TimesInv, disk, IsWhole
<1>11. CASE Resume
  BY <1>11 DEF Resume, Enter, TimesInv, disk, IsWhole
<1>12. CASE UNCHANGED vars
  BY <1>12 DEF vars, TimesInv, scalars, disk, IsWhole
<1> QED BY <1>1, <1>2, <1>3, <1>4, <1>5, <1>6, <1>7, <1>8, <1>9, <1>10, <1>11, <1>12 DEF Next

LEMMA TypeStep ==
  ASSUME TypeOK, TimesInv, [Next]_vars
  PROVE  TypeOK' /\ TimesInv'
<1>1. ScalarType' /\ StoreType'
  BY ScalarStep, StoreStep
<1>2. TypeOK'
  BY <1>1 DEF TypeOK, ScalarType, StoreType
<1> QED BY <1>2, TimesStep

-----------------------------------------------------------------------------
(* The order of the scheme                                                 *)

(* The loops over the iterations keep the form of the order                *)
LEMMA RampKeeps ==
  ASSUME TypeOK, NEW n \in Nat \ {0}, IsRamp(orderCur, lastChange, n), NEW order,
         order = Ramp([last |-> lastChange, cur |-> orderCur], n + 1)
  PROVE  IsRamp(order.cur, order.last, n + 1)
<1>1. /\ setting.order \in 1 .. 4 /\ setting.between \in Nat \ {0}
      /\ orderCur \in 1 .. setting.order /\ lastChange \in Nat
  BY SettingType DEF TypeOK
<1>2. CASE (n + 1) - lastChange = setting.between /\ orderCur < setting.order
  <2>1. order.last = n + 1 /\ order.cur = orderCur + 1
    BY <1>2 DEF Ramp
  <2>2. setting.between * ((orderCur + 1) - 1) = setting.between * (orderCur - 1) + setting.between
    <3>1. orderCur - 1 \in Int /\ (orderCur + 1) - 1 = (orderCur - 1) + 1
      BY <1>1
    <3> QED BY <1>1, <3>1, TimesNext
  <2>3. setting.between * (orderCur - 1) \in Int
    BY <1>1
  <2> DEFINE x == setting.between * (orderCur - 1)
  <2> DEFINE y == setting.between * ((orderCur + 1) - 1)
  <2>4. /\ orderCur <= lastChange /\ lastChange <= n /\ lastChange = 1 + x
        /\ y = x + setting.between /\ x \in Int
    BY <2>2, <2>3 DEF IsRamp
  <2>5. IsRamp(orderCur + 1, n + 1, n + 1) <=>
           /\ orderCur + 1 <= n + 1 /\ n + 1 <= n + 1 /\ n + 1 = 1 + y
           /\ orderCur + 1 < setting.order => n + 1 < n + 1 + setting.between
    BY DEF IsRamp
  <2> HIDE DEF x, y
  <2> QED BY <1>1, <1>2, <2>1, <2>4, <2>5
<1>3. CASE ~ ((n + 1) - lastChange = setting.between /\ orderCur < setting.order)
  <2>1. order.last = lastChange /\ order.cur = orderCur
    BY <1>3 DEF Ramp
  <2> DEFINE x == setting.between * (orderCur - 1)
  <2>2. /\ orderCur <= lastChange /\ lastChange <= n /\ lastChange = 1 + x
        /\ orderCur < setting.order => n < lastChange + setting.between
    BY DEF IsRamp
  <2>3. IsRamp(orderCur, lastChange, n + 1) <=>
           /\ orderCur <= lastChange /\ lastChange <= n + 1 /\ lastChange = 1 + x
           /\ orderCur < setting.order => n + 1 < lastChange + setting.between
    BY DEF IsRamp
  <2> HIDE DEF x
  <2> QED BY <1>1, <1>3, <2>1, <2>2, <2>3
<1> QED BY <1>2, <1>3

LEMMA RampStarts ==
  ASSUME TypeOK
  PROVE  IsRamp(1, 1, 1)
<1>1. setting.order \in 1 .. 4 /\ setting.between \in Nat \ {0}
  BY SettingType
<1>2. setting.between * (1 - 1) = 0
  <2>1. \A f \in Nat : f * 0 = 0
    OBVIOUS
  <2> QED BY <1>1, <2>1
<1> QED BY <1>1, <1>2 DEF IsRamp

LEMMA OrderStep ==
  ASSUME TypeOK, TimesInv, OrderInv, [Next]_vars
  PROVE  OrderInv'
<1>t. iteration \in Nat /\ time \in Nat /\ rampAt \in Nat
  BY DEF TypeOK
<1> USE DEF Between, Saving
<1>a. ASSUME Advance, iteration > 0, pc \in {"solve", "finished"} \cup Saving, UNCHANGED setting
      PROVE  OrderInv'
  <2> DEFINE order == Ramp([last |-> lastChange, cur |-> orderCur], iteration + 1)
  <2>1. IsRamp(orderCur, lastChange, iteration)
    BY <1>a DEF OrderInv
  <2>2. IsRamp(order.cur, order.last, iteration + 1)
    BY <1>a, <1>t, <2>1, RampKeeps
  <2>3. /\ iteration' = iteration + 1 /\ pc' \in {"solve", "finished"}
        /\ orderCur' = order.cur /\ lastChange' = order.last
    BY <1>a DEF Advance, Enter
  <2> HIDE DEF order
  <2>4. IsRamp(orderCur, lastChange, iteration)'
    BY <1>a, <2>2, <2>3 DEF IsRamp
  <2> QED BY <2>3, <2>4 DEF OrderInv
<1>b. ASSUME UNCHANGED <<setting, iteration, orderCur, lastChange, rampAt>>,
             pc' = pc \/ (pc \in {"solve", "finished"} \cup Saving /\ pc' \in Saving)
      PROVE  OrderInv'
  BY <1>b DEF OrderInv, IsRamp
<1>1. CASE Start
  BY <1>1 DEF Start, OrderInv, TimesInv
<1>2. CASE SolveAndShift
  <2>1. pc = "solve" /\ iteration > 0 /\ UNCHANGED setting
    BY <1>2, <1>t DEF SolveAndShift, TimesInv
  <2>2. CASE Advance
    BY <1>a, <2>1, <2>2
  <2>3. CASE pc' = "metadata" /\ UNCHANGED <<iteration, orderCur, lastChange, rampAt>>
    BY <1>b, <2>1, <2>3
  <2> QED BY <1>2, <2>2, <2>3 DEF SolveAndShift
<1>3. CASE OpenMetadata \/ WriteMetadata
  BY <1>3, <1>b DEF OpenMetadata, WriteMetadata, scalars
<1>4. CASE \E r \in Proc : OpenFile(r) \/ WriteFile(r)
  BY <1>4, <1>b DEF OpenFile, WriteFile, scalars
<1>5. CASE Saved
  <2>1. CASE iteration = 0
    <3>1. /\ orderCur' = 1 /\ lastChange' = 1 /\ iteration' = 1 /\ UNCHANGED setting
          /\ pc' \in {"solve", "finished"}
      BY <1>5, <2>1 DEF Saved, Enter, RampStart
    <3>2. IsRamp(orderCur, lastChange, iteration)'
      BY <3>1, RampStarts DEF IsRamp
    <3> QED BY <3>1, <3>2 DEF OrderInv
  <2>2. CASE iteration > 0
    BY <1>5, <2>2, <1>a DEF Saved
  <2> QED BY <2>1, <2>2, <1>t
<1>6. CASE Crash \/ \E t \in StartTimes : RestartFails(t)
  BY <1>6 DEF Crash, RestartFails, OrderInv
<1>7. ASSUME NEW t, Restart(t)
      PROVE  OrderInv'
  <2>1. /\ orderCur' = 1 /\ lastChange' = 1 /\ UNCHANGED setting
        /\ pc' = "ramp" /\ rampAt' = 2 /\ rampAt' - 1 = 1
    BY <1>7 DEF Restart, RampStart
  <2>2. IsRamp(orderCur, lastChange, rampAt - 1)'
    BY <2>1, RampStarts DEF IsRamp
  <2>3. iteration' \in Nat
    BY TypeStep DEF TypeOK
  <2>4. 1 <= iteration'
    BY <2>1, TypeStep DEF TimesInv
  <2>5. 2 <= rampAt' /\ rampAt' <= iteration' + 1
    <3>1. rampAt' = 2
      BY <2>1
    <3>2. \A i \in Nat : 1 <= i => 2 <= i + 1
      OBVIOUS
    <3>3. 2 <= iteration' + 1
      BY <2>3, <2>4, <3>2, Zenon
    <3>4. 2 <= 2
      OBVIOUS
    <3> QED BY <3>1, <3>3, <3>4, Zenon
  <2> QED BY <2>1, <2>2, <2>5 DEF OrderInv
<1>8. CASE ReplayRamp
  <2>1. /\ pc = "ramp" /\ rampAt <= iteration /\ 2 <= rampAt
        /\ UNCHANGED <<pc, setting, iteration>> /\ rampAt' = rampAt + 1
        /\ IsRamp(orderCur, lastChange, rampAt - 1)
    BY <1>8, <1>t DEF ReplayRamp, RampDone, OrderInv
  <2>2. rampAt - 1 \in Nat \ {0} /\ (rampAt - 1) + 1 = rampAt
    BY <2>1, <1>t
  <2> DEFINE order == Ramp([last |-> lastChange, cur |-> orderCur], rampAt)
  <2>3. orderCur' = order.cur /\ lastChange' = order.last
    BY <1>8 DEF ReplayRamp
  <2>4. IsRamp(order.cur, order.last, (rampAt - 1) + 1)
    BY <2>1, <2>2, RampKeeps
  <2> HIDE DEF order
  <2>5. rampAt' - 1 = rampAt /\ 2 <= rampAt' /\ rampAt' <= iteration' + 1
    BY <2>1, <1>t
  <2>6. IsRamp(orderCur, lastChange, rampAt - 1)'
    BY <2>1, <2>2, <2>3, <2>4, <2>5 DEF IsRamp
  <2> QED BY <2>1, <2>5, <2>6 DEF OrderInv
<1>9. CASE Resume
  <2>1. pc = "ramp" /\ IsRamp(orderCur, lastChange, rampAt - 1) /\ rampAt = iteration + 1
    BY <1>9, <1>t DEF Resume, RampDone, OrderInv
  <2>2. IsRamp(orderCur, lastChange, iteration)
    <3>1. rampAt - 1 = iteration
      BY <2>1, <1>t
    <3> QED BY <2>1, <3>1
  <2>3. /\ UNCHANGED <<setting, iteration, orderCur, lastChange>>
        /\ pc' \in {"solve", "finished"}
    BY <1>9 DEF Resume, Enter
  <2> QED BY <2>2, <2>3 DEF OrderInv, IsRamp
<1>10. CASE UNCHANGED vars
  BY <1>10, <1>b DEF vars, scalars
<1> QED BY <1>1, <1>2, <1>3, <1>4, <1>5, <1>6, <1>7, <1>8, <1>9, <1>10 DEF Next

(* After the iteration n the order is the one of a run without restart     *)
LEMMA RampIsOrderAt ==
  ASSUME TypeOK, NEW n \in Nat \ {0}, IsRamp(orderCur, lastChange, n)
  PROVE  orderCur = OrderAt(n)
<1>1. /\ setting.order \in 1 .. 4 /\ setting.between \in Nat \ {0}
      /\ orderCur \in 1 .. setting.order /\ lastChange \in Nat
  BY SettingType DEF TypeOK
<1>2. PICK b \in Nat \ {0} : b = setting.between
  BY <1>1
<1>3. PICK c \in Int : c = orderCur - 1
  BY <1>1
<1> DEFINE q == (n - 1) \div b
<1>4. q \in Int /\ n - 1 = b * q + ((n - 1) % b) /\ (n - 1) % b \in 0 .. b - 1
  <2>1. n - 1 \in Int
    OBVIOUS
  <2> QED BY <2>1, <1>2, Division
<1>5. OrderAt(n) = Min({setting.order, 1 + q})
  BY <1>2 DEF OrderAt
<1> HIDE DEF q
<1>6. OrderAt(n) = IF setting.order <= 1 + q THEN setting.order ELSE 1 + q
  BY <1>1, <1>4, <1>5, MinPair
<1>7. /\ b * c <= n - 1 /\ b * c \in Int
      /\ orderCur < setting.order => n - 1 < b * c + b
  <2>1. /\ lastChange <= n /\ lastChange = 1 + b * c
        /\ orderCur < setting.order => n < lastChange + b
    BY <1>2, <1>3 DEF IsRamp
  <2>2. b * c \in Int
    BY <1>2, <1>3
  <2> QED BY <1>1, <2>1, <2>2
<1>8. CASE orderCur < setting.order
  <2>1. q = c
    <3>1. n - 1 \in Int
      OBVIOUS
    <3> QED BY <1>3, <1>7, <1>8, <3>1, Quotient DEF q
  <2> QED BY <1>1, <1>3, <1>6, <1>8, <2>1
<1>9. CASE orderCur = setting.order
  <2>1. c <= q
    <3>1. CASE q + 1 <= c
      <4>1. b * (q + 1) <= b * c
        BY <1>4, <3>1, TimesMonotone
      <4>2. b * (q + 1) = b * q + b /\ b * q \in Int
        BY <1>4, TimesNext
      <4> QED BY <1>4, <1>7, <4>1, <4>2
    <3> QED BY <1>4, <3>1
  <2> QED BY <1>1, <1>3, <1>4, <1>6, <1>9, <2>1
<1> QED BY <1>1, <1>8, <1>9

-----------------------------------------------------------------------------
(* The index of a time                                                     *)

LEMMA IndexStep ==
  ASSUME TypeOK, TimesInv, IndexInv, [Next]_vars
  PROVE  IndexInv'
<1>t. /\ iteration \in Nat /\ time \in Nat /\ ti \in Nat /\ timeValues \in Seq(Nat)
      /\ missed \in BOOLEAN
  BY BdfAssumption DEF TypeOK
<1>c. TimeInitial \in Nat /\ MaxTime \in Nat /\ TimeInitial < MaxTime
  BY BdfAssumption
<1> USE DEF Between, Saving
<1>k. ASSUME UNCHANGED <<time, iteration, timeValues, missed>>,
             pc' = pc \/ (pc \in Between /\ pc' \in Between) \/ (pc \in Saving /\ pc' \in Saving)
                      \/ pc' \notin Between \cup Saving,
             metadata' \in {metadata, Torn, timeValues}
      PROVE  IndexInv'
  BY <1>k DEF IndexInv, Times, IsWhole
<1>1. CASE Start
  <2>1. /\ timeValues' = <<TimeInitial>> /\ UNCHANGED <<iteration, time, metadata, missed>>
        /\ iteration = 0 /\ time = TimeInitial /\ metadata = Absent /\ pc' = "metadata"
    BY <1>1 DEF Start, TimesInv, disk, history
  <2>2. Len(timeValues') = 1 /\ \A i \in 1 .. 1 : timeValues'[i] = TimeInitial + i - 1
    BY <2>1, <1>c
  <2> QED BY <2>1, <2>2, <1>c DEF IndexInv, Times, IsWhole
<1>2. CASE SolveAndShift
  <2>1. /\ timeValues' = Append(timeValues, time) /\ UNCHANGED <<metadata, missed>>
        /\ pc = "solve"
    BY <1>2 DEF SolveAndShift, disk, history
  <2>2. CASE missed
    BY <2>1, <2>2 DEF IndexInv
  <2>3. CASE ~missed
    <3>1. time = TimeInitial + iteration /\ Len(timeValues) = iteration /\ Times(timeValues)
      BY <2>1, <2>3 DEF IndexInv
    <3>2. Len(timeValues') = iteration + 1 /\ Times(timeValues')
      BY <2>1, <3>1, <1>t, <1>c DEF Times
    <3>3. IsWhole(metadata') => Times(metadata')
      BY <2>1, <2>3 DEF IndexInv
    <3>4. CASE pc' = "metadata" /\ UNCHANGED <<iteration, time>>
      BY <3>1, <3>2, <3>3, <3>4 DEF IndexInv
    <3>5. CASE Advance
      <4>1. iteration' = iteration + 1 /\ time' = time + 1 /\ pc' \in {"solve", "finished"}
        BY <3>5 DEF Advance, Enter
      <4>2. time' = TimeInitial + iteration'
        BY <3>1, <4>1, <1>t, <1>c
      <4> QED BY <3>2, <3>3, <4>1, <4>2 DEF IndexInv
    <3> QED BY <1>2, <3>4, <3>5 DEF SolveAndShift
  <2> QED BY <2>2, <2>3, <1>t
<1>3. CASE OpenMetadata \/ WriteMetadata
  BY <1>3, <1>k DEF OpenMetadata, WriteMetadata, scalars, history
<1>4. CASE \E r \in Proc : OpenFile(r) \/ WriteFile(r)
  BY <1>4, <1>k DEF OpenFile, WriteFile, scalars, history
<1>5. CASE Saved
  <2>1. /\ pc = "files" /\ UNCHANGED <<timeValues, metadata, missed>>
        /\ iteration' = iteration + 1 /\ pc' \in {"solve", "finished"}
        /\ iteration = 0 => time' = ti + 1
        /\ iteration # 0 => time' = time + 1
    BY <1>5 DEF Saved, Advance, Enter, disk, history
  <2>2. time' = time + 1
    BY <2>1 DEF TimesInv
  <2>3. CASE ~missed
    <3>1. time = TimeInitial + iteration /\ Len(timeValues) = iteration + 1
      BY <2>1, <2>3 DEF IndexInv
    <3>2. time' = TimeInitial + iteration'
      BY <2>1, <2>2, <3>1, <1>t, <1>c
    <3> QED BY <2>1, <2>3, <3>1, <3>2 DEF IndexInv
  <2> QED BY <2>1, <2>3 DEF IndexInv
<1>6. CASE Crash
  <2>1. /\ timeValues' = <<>> /\ pc' = "off" /\ UNCHANGED <<metadata, missed>>
    BY <1>6 DEF Crash, disk
  <2>2. Times(timeValues')
    BY <2>1 DEF Times
  <2> QED BY <2>1, <2>2 DEF IndexInv
<1>7. CASE \E t \in StartTimes : RestartFails(t)
  BY <1>7, <1>k DEF RestartFails, scalars, disk, history
<1>8. ASSUME NEW t, Restart(t)
      PROVE  IndexInv'
  <2>0. pc' = "ramp" /\ UNCHANGED metadata
    BY <1>8 DEF Restart, disk
  <2>1. CASE RestartNowhere
    BY <2>1 DEF RestartNowhere, IndexInv
  <2>2. ASSUME IsWhole(metadata), NEW n \in Nat, RestartAt(n), ~missed
        PROVE  IndexInv'
    <3>1. metadata \in Seq(Nat) /\ Times(metadata)
      BY <2>2, WholeMetadata DEF IndexInv
    <3>2. n \in 0 .. Len(metadata) - 1 /\ n + 1 \in 1 .. Len(metadata)
      BY <2>2, <3>1 DEF RestartAt
    <3>3. metadata[n + 1] = TimeInitial + n
      BY <3>1, <3>2, <1>c DEF Times
    <3>4. Len(timeValues') = n + 1 /\ \A i \in 1 .. n + 1 : timeValues'[i] = metadata[i]
      BY <2>2, <3>1, <3>2, Prefix DEF RestartAt
    <3>5. Times(timeValues')
      <4>1. \A i \in 1 .. n + 1 : i \in 1 .. Len(metadata)
        BY <3>1, <3>2
      <4> QED BY <3>1, <3>4, <4>1 DEF Times
    <3>6. time' = TimeInitial + iteration' /\ iteration' = n + 1
      BY <2>2, <3>2, <3>3, <1>c DEF RestartAt
    <3> QED BY <2>0, <3>1, <3>4, <3>5, <3>6 DEF IndexInv
  <2>3. \A it \in 0 .. Len(metadata) - 1 : Floor(it) \in Nat
    BY FloorBounds
  <2>4. ASSUME IsWhole(metadata), NEW n \in Nat, RestartAt(n), missed
        PROVE  IndexInv'
    BY <2>4 DEF RestartAt, IndexInv
  <2> QED BY <1>8, <2>1, <2>2, <2>3, <2>4, <1>t, RestartFacts
<1>9. CASE ReplayRamp
  BY <1>9, <1>k DEF ReplayRamp, disk, history
<1>10. CASE Resume
  <2>1. /\ UNCHANGED <<time, iteration, timeValues, missed, metadata>>
        /\ pc \in Between /\ pc' \in Between
    BY <1>10 DEF Resume, Enter, disk, history
  <2> QED BY <2>1, <1>k
<1>11. CASE UNCHANGED vars
  BY <1>11, <1>k DEF vars, scalars, disk, history
<1> QED BY <1>1, <1>2, <1>3, <1>4, <1>5, <1>6, <1>7, <1>8, <1>9, <1>10, <1>11 DEF Next

-----------------------------------------------------------------------------
(* The states in memory and in the files                                   *)

(* How many states a restart reads                                         *)
LEMMA LoadedRange ==
  ASSUME TypeOK, NEW n \in Nat, NEW k \in Loaded(n)
  PROVE  k \in Nat /\ k <= n /\ n - k \in Nat
<1>1. setting.order \in Int /\ n + 1 \in Int
  BY SettingType
<1>2. Min({setting.order, n + 1}) = IF setting.order <= n + 1 THEN setting.order ELSE n + 1
  BY <1>1, MinPair
<1>3. Min({setting.order, n + 1}) \in Int /\ Min({setting.order, n + 1}) <= n + 1
  BY <1>1, <1>2
<1>4. k \in 0 .. Min({setting.order, n + 1}) - 1
  BY DEF Loaded
<1> QED BY <1>3, <1>4

LEMMA NameOf ==
  ASSUME TypeOK, setting.rankInName, NEW r \in Proc, NEW n \in Iteration
  PROVE  Name(r, n) = <<n, r>> /\ <<n, r>> \in Names
  BY DEF Name, Names

LEMMA RecentHolds ==
  ASSUME TypeOK, TimesInv, OrderInv, HistoryInv, ~missed, setting.rankInName, pc = "solve"
  PROVE  Recent
<1>1. /\ setting.order \in 1 .. 4 /\ orderCur \in 1 .. setting.order
      /\ lastChange \in Nat /\ iteration \in Nat /\ time \in Nat
  BY SettingType DEF TypeOK
<1>2. iteration > 0
  BY <1>1 DEF TimesInv, Between
<1>3. orderCur <= iteration
  BY <1>1, <1>2 DEF OrderInv, IsRamp
<1>4. \A r \in Proc, k \in 0 .. MaxOrder - 1 :
         k < setting.order /\ k < iteration => unknowns[r][k] = Part(r, time - 1 - k)
  BY DEF HistoryInv, Between
<1>5. \A k \in 0 .. orderCur - 1 : k \in 0 .. MaxOrder - 1 /\ k < setting.order /\ k < iteration
  BY <1>1, <1>3 DEF MaxOrder
<1> QED BY <1>4, <1>5 DEF Recent

LEMMA HistoryStep ==
  ASSUME TypeOK, TimesInv, OrderInv, IndexInv, HistoryInv, [Next]_vars
  PROVE  HistoryInv'
<1>t. /\ iteration \in Nat /\ time \in Nat /\ ti \in Nat /\ setting.order \in 1 .. 4
      /\ missed \in BOOLEAN
  BY SettingType DEF TypeOK
<1>c. TimeInitial \in Nat /\ MaxTime \in Nat /\ TimeInitial < MaxTime
  BY BdfAssumption
<1> USE DEF Between, Saving
<1> DEFINE InMemory(p, u, i, now) ==
      /\ p \in Between => \A r \in Proc, k \in 0 .. MaxOrder - 1 :
           k < setting.order /\ k < i => u[r][k] = Part(r, now - 1 - k)
      /\ p \in Saving => \A r \in Proc, k \in 0 .. MaxOrder - 1 :
           k < setting.order /\ k <= i => u[r][k] = Part(r, now - k)
<1> DEFINE InFiles(f) == \A n \in Iteration, r \in Proc :
             f[<<n, r>>] \in {Absent, Torn, Part(r, TimeInitial + n)}
<1>h. ~missed /\ setting.rankInName =>
        InMemory(pc, unknowns, iteration, time) /\ InFiles(file)
        /\ (pc = "files" => \A r \in Proc : writer[r] = "open" => file[<<iteration, r>>] = Torn)
  BY DEF HistoryInv
<1>p. ASSUME UNCHANGED setting,
             ~missed' /\ setting.rankInName =>
                InMemory(pc', unknowns', iteration', time') /\ InFiles(file')
                /\ (pc' = "files" => \A r \in Proc :
                      writer'[r] = "open" => file'[<<iteration', r>>] = Torn)
      PROVE  HistoryInv'
  BY <1>p DEF HistoryInv
<1>k. ASSUME UNCHANGED <<setting, time, iteration, unknowns, file, missed>>,
             \/ pc' = pc /\ UNCHANGED writer
             \/ pc \in Between /\ pc' \in Between
             \/ pc \in Saving /\ pc' \in Saving
                /\ (pc' = "files" => \A r \in Proc : writer'[r] # "open")
             \/ pc' \notin Between \cup Saving
      PROVE  HistoryInv'
  <2> HIDE DEF InFiles
  <2>1. InFiles(file) => InFiles(file')
    BY <1>k
  <2>2. InMemory(pc, unknowns, iteration, time) => InMemory(pc', unknowns', iteration', time')
    BY <1>k
  <2>3. (pc = "files" => \A r \in Proc : writer[r] = "open" => file[<<iteration, r>>] = Torn)
        => (pc' = "files" => \A r \in Proc : writer'[r] = "open" => file'[<<iteration', r>>] = Torn)
    BY <1>k
  <2> HIDE DEF InMemory
  <2> QED BY <1>h, <1>p, <1>k, <2>1, <2>2, <2>3
<1>1. CASE Start
  <2>1. /\ UNCHANGED <<setting, file, missed>> /\ pc' = "metadata"
        /\ iteration' = 0 /\ time' = TimeInitial
        /\ unknowns' = [r \in Proc |-> [i \in 0 .. MaxOrder - 1 |-> Part(r, TimeInitial)]]
    BY <1>1 DEF Start, TimesInv, disk, history
  <2>2. InMemory(pc', unknowns', iteration', time')
    BY <2>1, <1>c DEF MaxOrder
  <2> HIDE DEF InMemory, InFiles
  <2> QED BY <1>h, <1>p, <2>1, <2>2
<1>2. CASE SolveAndShift
  <2>1. /\ UNCHANGED <<setting, file, missed>> /\ pc = "solve"
        /\ unknowns' = [r \in Proc |-> [i \in 0 .. MaxOrder - 1 |->
                          IF i = 0 THEN Part(r, IF Recent THEN time ELSE Wrong)
                                   ELSE unknowns[r][i - 1]]]
    BY <1>2 DEF SolveAndShift, disk, history
  <2>2. ASSUME ~missed, setting.rankInName
        PROVE  \A r \in Proc, k \in 0 .. MaxOrder - 1 :
                 k < setting.order /\ k <= iteration => unknowns'[r][k] = Part(r, time - k)
    <3>1. Recent
      BY <2>1, <2>2, RecentHolds
    <3>2. \A r \in Proc : unknowns'[r][0] = Part(r, time)
      BY <2>1, <3>1 DEF MaxOrder
    <3>3. \A r \in Proc, k \in 0 .. MaxOrder - 1 :
             k < setting.order /\ k < iteration => unknowns[r][k] = Part(r, time - 1 - k)
      BY <1>h, <2>1, <2>2
    <3>4. \A r \in Proc, k \in 1 .. MaxOrder - 1 :
             k < setting.order /\ k <= iteration => unknowns'[r][k] = Part(r, time - k)
      <4> SUFFICES ASSUME NEW r \in Proc, NEW k \in 1 .. MaxOrder - 1,
                          k < setting.order, k <= iteration
                   PROVE  unknowns'[r][k] = Part(r, time - k)
        OBVIOUS
      <4>1. unknowns'[r][k] = unknowns[r][k - 1]
        BY <2>1 DEF MaxOrder
      <4>2. unknowns[r][k - 1] = Part(r, time - 1 - (k - 1))
        BY <3>3, <1>t DEF MaxOrder
      <4>3. time - 1 - (k - 1) = time - k
        BY <1>t DEF MaxOrder
      <4> QED BY <4>1, <4>2, <4>3
    <3>5. \A k \in 0 .. MaxOrder - 1 : k = 0 \/ k \in 1 .. MaxOrder - 1
      BY DEF MaxOrder
    <3>6. time - 0 = time
      BY <1>t
    <3> QED BY <3>2, <3>4, <3>5, <3>6
  <2>3. CASE pc' = "metadata" /\ UNCHANGED <<iteration, time>>
    <3>1. ~missed /\ setting.rankInName => InMemory(pc', unknowns', iteration', time')
      BY <2>2, <2>3
    <3> HIDE DEF InMemory, InFiles
    <3> QED BY <1>h, <1>p, <2>1, <2>3, <3>1
  <2>4. CASE Advance
    <3>0. iteration' = iteration + 1 /\ time' = time + 1 /\ pc' \in {"solve", "finished"}
      BY <2>4 DEF Advance, Enter
    <3>1. \A k \in 0 .. MaxOrder - 1 : /\ k < iteration' <=> k <= iteration
                                       /\ time' - 1 - k = time - k
      BY <3>0, <1>t DEF MaxOrder
    <3>2. ~missed /\ setting.rankInName => InMemory(pc', unknowns', iteration', time')
      BY <2>2, <3>0, <3>1
    <3> HIDE DEF InMemory, InFiles
    <3> QED BY <1>h, <1>p, <2>1, <3>0, <3>2
  <2> QED BY <1>2, <2>3, <2>4 DEF SolveAndShift
<1>3. CASE OpenMetadata \/ WriteMetadata
  BY <1>3, <1>k DEF OpenMetadata, WriteMetadata, scalars, history
<1>4. ASSUME NEW r \in Proc, OpenFile(r) \/ WriteFile(r)
      PROVE  HistoryInv'
  <2>1. /\ UNCHANGED <<setting, pc, iteration, time, unknowns, missed>> /\ pc = "files"
    BY <1>4 DEF OpenFile, WriteFile, scalars, history
  <2>2. iteration \in Iteration
    BY <2>1, <1>t, <1>c DEF TimesInv, Iteration
  <2> SUFFICES ASSUME ~missed, setting.rankInName
               PROVE  /\ InMemory(pc', unknowns', iteration', time') /\ InFiles(file')
                      /\ \A q \in Proc : writer'[q] = "open" => file'[<<iteration', q>>] = Torn
    BY <1>p, <2>1
  <2>3. Name(r, iteration) = <<iteration, r>> /\ <<iteration, r>> \in Names
    BY <2>2, NameOf
  <2>4. InMemory(pc', unknowns', iteration', time')
    <3> HIDE DEF InMemory
    <3> QED BY <1>h, <2>1
  <2>5. InFiles(file) /\ \A q \in Proc : writer[q] = "open" => file[<<iteration, q>>] = Torn
    BY <1>h, <2>1
  <2>6. PICK content : /\ file' = [file EXCEPT ![<<iteration, r>>] = content]
                       /\ content \in {Torn, Part(r, TimeInitial + iteration)}
                       /\ writer'[r] = "open" => content = Torn
                       /\ \A q \in Proc \ {r} : writer'[q] = writer[q]
    <3>1. CASE OpenFile(r)
      BY <3>1, <2>3 DEF OpenFile, TypeOK
    <3>2. CASE WriteFile(r)
      <4>1. unknowns[r][0] = Part(r, TimeInitial + iteration)
        <5>1. 0 \in 0 .. MaxOrder - 1 /\ 0 < setting.order /\ 0 <= iteration
          BY <1>t DEF MaxOrder
        <5>2. unknowns[r][0] = Part(r, time - 0)
          BY <1>h, <2>1, <5>1
        <5>3. time - 0 = TimeInitial + iteration
          BY <2>1, <1>t, <1>c DEF IndexInv
        <5> QED BY <5>2, <5>3
      <4>2. writer[r] = "open" /\ file[<<iteration, r>>] = Torn
        BY <3>2, <2>5 DEF WriteFile
      <4>3. file' = [file EXCEPT ![<<iteration, r>>] = unknowns[r][0]]
        BY <3>2, <2>3, <4>2 DEF WriteFile
      <4>4. writer' = [writer EXCEPT ![r] = "idle"]
        BY <3>2 DEF WriteFile
      <4> QED BY <4>1, <4>3, <4>4 DEF TypeOK
    <3> QED BY <1>4, <3>1, <3>2
  <2>7. \A n \in Iteration, q \in Proc :
           /\ <<n, q>> \in Names
           /\ <<n, q>> # <<iteration, r>> => file'[<<n, q>>] = file[<<n, q>>]
    <3>1. \A n \in Iteration, q \in Proc : <<n, q>> \in Names
      BY DEF Names
    <3> HIDE DEF Names
    <3> QED BY <2>6, <3>1 DEF TypeOK
  <2>8. file'[<<iteration, r>>] = content
    <3> HIDE DEF Names
    <3> QED BY <2>3, <2>6 DEF TypeOK
  <2>9. InFiles(file')
    <3> SUFFICES ASSUME NEW n \in Iteration, NEW q \in Proc
                 PROVE  file'[<<n, q>>] \in {Absent, Torn, Part(q, TimeInitial + n)}
      OBVIOUS
    <3>1. CASE n = iteration /\ q = r
      BY <3>1, <2>6, <2>8
    <3>2. CASE ~ (n = iteration /\ q = r)
      BY <3>2, <2>5, <2>7
    <3> QED BY <3>1, <3>2
  <2>10. \A q \in Proc : writer'[q] = "open" => file'[<<iteration', q>>] = Torn
    <3> SUFFICES ASSUME NEW q \in Proc, writer'[q] = "open"
                 PROVE  file'[<<iteration, q>>] = Torn
      BY <2>1
    <3>1. CASE q = r
      BY <3>1, <2>6, <2>8
    <3>2. CASE q # r
      BY <3>2, <2>2, <2>5, <2>6, <2>7
    <3> QED BY <3>1, <3>2
  <2> QED BY <2>4, <2>9, <2>10
<1>5. CASE Saved
  <2>1. /\ pc = "files" /\ UNCHANGED <<setting, unknowns, file, missed>>
        /\ iteration' = iteration + 1 /\ pc' \in {"solve", "finished"}
        /\ iteration = 0 => time' = ti + 1
        /\ iteration # 0 => time' = time + 1
    BY <1>5 DEF Saved, Advance, Enter, disk, history
  <2>2. time' = time + 1
    BY <2>1 DEF TimesInv
  <2>3. \A k \in 0 .. MaxOrder - 1 : /\ k < iteration' <=> k <= iteration
                                     /\ time' - 1 - k = time - k
    BY <2>1, <2>2, <1>t DEF MaxOrder
  <2>4. InMemory(pc, unknowns, iteration, time) => InMemory(pc', unknowns', iteration', time')
    BY <2>1, <2>3
  <2> HIDE DEF InMemory, InFiles
  <2> QED BY <1>h, <1>p, <2>1, <2>4
<1>6. CASE Crash
  <2>1. /\ pc' = "off" /\ UNCHANGED <<setting, file, missed>>
    BY <1>6 DEF Crash, disk
  <2>2. InMemory(pc', unknowns', iteration', time')
    BY <2>1
  <2> HIDE DEF InMemory, InFiles
  <2> QED BY <1>h, <1>p, <2>1, <2>2
<1>7. CASE \E t \in StartTimes : RestartFails(t)
  BY <1>7, <1>k DEF RestartFails, scalars, disk, history
<1>8. ASSUME NEW t, Restart(t)
      PROVE  HistoryInv'
  <2>0. pc' = "ramp" /\ UNCHANGED <<setting, file, metadata>>
    BY <1>8 DEF Restart, disk
  <2>1. CASE RestartNowhere
    BY <2>0, <2>1, <1>p DEF RestartNowhere
  <2>2. ASSUME IsWhole(metadata), NEW n \in Nat, RestartAt(n)
        PROVE  HistoryInv'
    <3> SUFFICES ASSUME ~missed, setting.rankInName
                 PROVE  InMemory(pc', unknowns', iteration', time') /\ InFiles(file')
      BY <1>p, <2>0, <2>2 DEF RestartAt
    <3>1. n \in Iteration /\ n + 1 \in 1 .. Len(metadata) /\ metadata \in Seq(Nat)
      BY <2>2, WholeMetadata, MetadataLength, <1>c DEF RestartAt, Iteration
    <3>2. iteration' = n + 1 /\ time' = TimeInitial + n + 1
      BY <2>2, <3>1, <1>c DEF RestartAt, IndexInv, Times
    <3>3. ASSUME NEW r \in Proc, NEW k \in 0 .. MaxOrder - 1, k < setting.order, k < iteration'
          PROVE  unknowns'[r][k] = Part(r, time' - 1 - k)
      <4>1. k \in Loaded(n)
        <5>1. Min({setting.order, n + 1}) = IF setting.order <= n + 1 THEN setting.order ELSE n + 1
          BY <1>t, <2>2, MinPair
        <5> QED BY <1>t, <2>2, <3>2, <3>3, <5>1 DEF Loaded, MaxOrder
      <4>2. unknowns'[r][k] = file[Name(r, n - k)]
        BY <2>2, <4>1 DEF RestartAt
      <4>3. n - k \in Iteration /\ file[Name(r, n - k)] \notin {Absent, Torn}
        BY <2>2, <3>1, <4>1, LoadedParts, MarkAssumption DEF RestartAt
      <4>4. Name(r, n - k) = <<n - k, r>>
        BY <4>3, NameOf
      <4>5. file[<<n - k, r>>] \in {Absent, Torn, Part(r, TimeInitial + (n - k))}
        BY <1>h, <4>3
      <4>6. TimeInitial + (n - k) = time' - 1 - k
        BY <1>c, <2>2, <3>2 DEF MaxOrder
      <4> QED BY <4>2, <4>3, <4>4, <4>5, <4>6
    <3>4. InMemory(pc', unknowns', iteration', time')
      BY <2>0, <3>3
    <3>5. InFiles(file')
      <4> HIDE DEF InFiles
      <4> QED BY <1>h, <2>0
    <3> QED BY <3>4, <3>5
  <2>3. \A it \in 0 .. Len(metadata) - 1 : Floor(it) \in Nat
    BY FloorBounds
  <2> QED BY <1>8, <2>1, <2>2, <2>3, RestartFacts
<1>9. CASE ReplayRamp
  BY <1>9, <1>k DEF ReplayRamp, disk, history
<1>10. CASE Resume
  <2>1. /\ UNCHANGED <<setting, time, iteration, unknowns, missed, file>>
        /\ pc \in Between /\ pc' \in Between
    BY <1>10 DEF Resume, Enter, disk, history
  <2> QED BY <2>1, <1>k
<1>11. CASE UNCHANGED vars
  BY <1>11, <1>k DEF vars, scalars, disk, history
<1> QED BY <1>1, <1>2, <1>3, <1>4, <1>5, <1>6, <1>7, <1>8, <1>9, <1>10, <1>11 DEF Next

-----------------------------------------------------------------------------
(* What is on disk                                                         *)

LEMMA SettingKept ==
  ASSUME [Next]_vars
  PROVE  setting' = setting
  BY DEF Next, vars, Start, SolveAndShift, OpenMetadata, WriteMetadata, OpenFile, WriteFile,
         Saved, Crash, Restart, RestartFails, ReplayRamp, Resume

LEMMA SavedKept ==
  ASSUME setting' = setting, NEW n
  PROVE  IsSaved(n)' <=> IsSaved(n)
  BY DEF IsSaved, DoSave, OrderAt

LEMMA FilesStep ==
  ASSUME TypeOK, TimesInv, OrderInv, IndexInv, HistoryInv, FilesInv, [Next]_vars
  PROVE  FilesInv'
<1>t. /\ iteration \in Nat /\ time \in Nat /\ ti \in Nat /\ timeValues \in Seq(0 .. MaxTime)
      /\ missed \in BOOLEAN /\ interrupted \in BOOLEAN
  BY DEF TypeOK
<1>c. TimeInitial \in Nat /\ MaxTime \in Nat /\ TimeInitial < MaxTime
  BY BdfAssumption
<1> USE DEF Between, Saving
<1> DEFINE Before(p, i, f) ==
      p \in Between \cup Saving =>
         \A n \in Iteration, r \in Proc :
            n < i /\ IsSaved(n) => f[<<n, r>>] = Part(r, TimeInitial + n)
<1> DEFINE InMetadata(p, m, i, w, f) ==
      IsWhole(m) => \A n \in Iteration, r \in Proc :
         /\ n < Len(m) /\ IsSaved(n)
         /\ p = "files" /\ n = i => w[r] = "idle"
         => f[<<n, r>>] = Part(r, TimeInitial + n)
<1> DEFINE MetadataWhole(p, m) == p \in Between \cup {"off"} => IsWhole(m)
<1> DEFINE Known == ~missed /\ ~interrupted /\ setting.rankInName
<1>h. Known => /\ Before(pc, iteration, file)
               /\ InMetadata(pc, metadata, iteration, writer, file)
               /\ MetadataWhole(pc, metadata)
  BY DEF FilesInv, OnDisk
<1>e. setting' = setting /\ \A n : IsSaved(n)' <=> IsSaved(n)
  BY SettingKept, SavedKept
<1>p. ASSUME ~missed' /\ ~interrupted' /\ setting.rankInName =>
               /\ Before(pc', iteration', file')
               /\ InMetadata(pc', metadata', iteration', writer', file')
               /\ MetadataWhole(pc', metadata')
      PROVE  FilesInv'
  BY <1>p, <1>e DEF FilesInv, OnDisk, IsWhole
<1>k. ASSUME UNCHANGED <<iteration, file, metadata, writer, missed, interrupted>>,
             pc' = pc \/ (pc \in Between /\ pc' \in Between) \/ (pc = "new" /\ pc' = "metadata")
               \/ (pc = "off" /\ pc' = "failed"),
             pc = "new" => iteration = 0
      PROVE  FilesInv'
  <2>1. Before(pc, iteration, file) => Before(pc', iteration', file')
    BY <1>k DEF Iteration
  <2>2. pc = "files" <=> pc' = "files"
    BY <1>k
  <2>3. MetadataWhole(pc, metadata) => MetadataWhole(pc', metadata')
    BY <1>k
  <2>4. InMetadata(pc, metadata, iteration, writer, file)
          => InMetadata(pc', metadata', iteration', writer', file')
    <3>1. \A i, r : (pc' = "files" /\ i = iteration' => writer'[r] = "idle")
                      => (pc = "files" /\ i = iteration => writer[r] = "idle")
      BY <1>k, <2>2
    <3>2. metadata' = metadata /\ file' = file
      BY <1>k
    <3> QED BY <3>1, <3>2
  <2>5. missed' = missed /\ interrupted' = interrupted
    BY <1>k
  <2> HIDE DEF Before, InMetadata, MetadataWhole
  <2> QED BY <1>h, <1>p, <2>1, <2>3, <2>4, <2>5
<1>1. CASE Start
  BY <1>1, <1>k DEF Start, TimesInv, disk, history
<1>2. CASE SolveAndShift
  <2>1. UNCHANGED <<metadata, file, writer, missed, interrupted>> /\ pc = "solve"
    BY <1>2 DEF SolveAndShift, disk, history
  <2>2. CASE pc' = "metadata" /\ UNCHANGED iteration
    <3> SUFFICES ASSUME Known
                 PROVE  Before(pc', iteration', file') /\ InMetadata(pc', metadata', iteration', writer', file')
      BY <1>p, <2>1, <2>2
    <3> QED BY <1>h, <2>1, <2>2
  <2>3. CASE ~DoSave(iteration, orderCur) /\ Advance
    <3>0. iteration' = iteration + 1 /\ pc' \in {"solve", "finished"}
      BY <2>3 DEF Advance, Enter
    <3>1. iteration \in Nat \ {0} /\ IsRamp(orderCur, lastChange, iteration)
      BY <2>1, <1>t DEF TimesInv, OrderInv
    <3>2. orderCur = OrderAt(iteration)
      BY <3>1, RampIsOrderAt
    <3>3. ~IsSaved(iteration)
      BY <2>3, <3>1, <3>2 DEF IsSaved
    <3>4. \A n \in Iteration : n < iteration' /\ IsSaved(n) => n < iteration
      <4> HIDE DEF IsSaved
      <4> QED BY <3>0, <3>3, <1>t, <1>c DEF Iteration
    <3> SUFFICES ASSUME Known
                 PROVE  /\ Before(pc', iteration', file')
                        /\ InMetadata(pc', metadata', iteration', writer', file')
                        /\ MetadataWhole(pc', metadata')
      BY <1>p, <2>1
    <3> QED BY <1>h, <2>1, <3>0, <3>4
  <2> QED BY <1>2, <2>2, <2>3 DEF SolveAndShift
<1>3. CASE OpenMetadata
  <2>1. /\ UNCHANGED <<iteration, file, writer, missed, interrupted>>
        /\ pc = "metadata" /\ pc' = "writing" /\ metadata' = Torn
    BY <1>3 DEF OpenMetadata, scalars, history
  <2> QED BY <1>h, <1>p, <2>1 DEF IsWhole
<1>4. CASE WriteMetadata
  <2>1. /\ UNCHANGED <<iteration, file, missed, interrupted>> /\ pc = "writing" /\ pc' = "files"
        /\ metadata' = timeValues /\ \A r \in Proc : writer'[r] = "todo"
    BY <1>4 DEF WriteMetadata, scalars, history
  <2> SUFFICES ASSUME Known
               PROVE  /\ Before(pc', iteration', file')
                      /\ InMetadata(pc', metadata', iteration', writer', file')
    BY <1>p, <2>1
  <2>2. Len(metadata') = iteration + 1
    BY <2>1 DEF IndexInv
  <2>3. \A n \in Iteration : n < iteration + 1 /\ n # iteration => n < iteration
    BY <1>t, <1>c DEF Iteration
  <2>4. Before(pc, iteration, file)
    BY <1>h
  <2> QED BY <2>1, <2>2, <2>3, <2>4
<1>5. ASSUME NEW r \in Proc, OpenFile(r) \/ WriteFile(r)
      PROVE  FilesInv'
  <2>1. UNCHANGED <<setting, pc, iteration, time, metadata, missed, interrupted>> /\ pc = "files"
    BY <1>5 DEF OpenFile, WriteFile, scalars, history
  <2>2. iteration \in Iteration
    BY <2>1, <1>t, <1>c DEF TimesInv, Iteration
  <2> SUFFICES ASSUME Known
               PROVE  /\ Before(pc', iteration', file')
                      /\ InMetadata(pc', metadata', iteration', writer', file')
    BY <1>p, <2>1
  <2>3. Name(r, iteration) = <<iteration, r>>
    BY <2>2, NameOf
  <2>4. \A n \in Iteration, q \in Proc : <<n, q>> # <<iteration, r>> => file'[<<n, q>>] = file[<<n, q>>]
    <3>1. \A n \in Iteration, q \in Proc : <<n, q>> \in Names
      BY DEF Names
    <3> HIDE DEF Names
    <3>2. PICK content : file' = [file EXCEPT ![<<iteration, r>>] = content]
      BY <1>5, <2>3 DEF OpenFile, WriteFile
    <3> QED BY <3>1, <3>2 DEF TypeOK
  <2>5. \A q \in Proc \ {r} : writer'[q] = writer[q]
    BY <1>5 DEF OpenFile, WriteFile, TypeOK
  <2>6. writer'[r] = "idle" => file'[<<iteration, r>>] = Part(r, TimeInitial + iteration)
    <3> SUFFICES ASSUME writer'[r] = "idle"
                 PROVE  file'[<<iteration, r>>] = Part(r, TimeInitial + iteration)
      OBVIOUS
    <3>1. WriteFile(r)
      BY <1>5 DEF OpenFile, TypeOK
    <3>2. file[<<iteration, r>>] = Torn
      BY <2>1, <3>1 DEF HistoryInv, WriteFile
    <3>3. file' = [file EXCEPT ![<<iteration, r>>] = unknowns[r][0]]
      BY <3>1, <3>2, <2>3 DEF WriteFile
    <3>4. unknowns[r][0] = Part(r, TimeInitial + iteration)
      <4>1. 0 \in 0 .. MaxOrder - 1 /\ 0 < setting.order /\ 0 <= iteration
        BY <1>t, SettingType DEF MaxOrder
      <4>2. unknowns[r][0] = Part(r, time - 0)
        BY <2>1, <4>1 DEF HistoryInv
      <4>3. time - 0 = TimeInitial + iteration
        BY <2>1, <1>t, <1>c DEF IndexInv
      <4> QED BY <4>2, <4>3
    <3>5. <<iteration, r>> \in Names
      BY <2>2 DEF Names
    <3> HIDE DEF Names
    <3> QED BY <3>3, <3>4, <3>5 DEF TypeOK
  <2>7. Before(pc', iteration', file')
    <3>1. \A n \in Iteration, q \in Proc : n < iteration => <<n, q>> # <<iteration, r>>
      BY <1>t
    <3> QED BY <1>h, <2>1, <2>4, <3>1
  <2>8. InMetadata(pc', metadata', iteration', writer', file')
    <3> SUFFICES ASSUME IsWhole(metadata), NEW n \in Iteration, NEW q \in Proc,
                        n < Len(metadata), IsSaved(n), n = iteration => writer'[q] = "idle"
                 PROVE  file'[<<n, q>>] = Part(q, TimeInitial + n)
      BY <2>1
    <3>1. CASE n = iteration /\ q = r
      BY <3>1, <2>6
    <3>2. CASE n = iteration /\ q # r
      <4>1. writer[q] = "idle" /\ <<n, q>> # <<iteration, r>>
        BY <3>2, <2>5
      <4> QED BY <1>h, <2>4, <4>1
    <3>3. CASE n # iteration
      BY <1>h, <2>4, <3>3
    <3> QED BY <3>1, <3>2, <3>3
  <2> QED BY <2>7, <2>8
<1>6. CASE Saved
  <2>1. /\ pc = "files" /\ UNCHANGED <<metadata, file, writer, missed, interrupted>>
        /\ iteration' = iteration + 1 /\ pc' \in {"solve", "finished"}
        /\ \A r \in Proc : writer[r] = "idle"
        /\ metadata = timeValues
    BY <1>6 DEF Saved, Advance, Enter, disk, history, TimesInv
  <2> SUFFICES ASSUME Known
               PROVE  /\ Before(pc', iteration', file')
                      /\ InMetadata(pc', metadata', iteration', writer', file')
                      /\ MetadataWhole(pc', metadata')
    BY <1>p, <2>1
  <2>2. IsWhole(metadata)
    BY <2>1, <1>t, MarkAssumption DEF IsWhole
  <2>3. Len(metadata) = iteration + 1
    BY <2>1 DEF IndexInv
  <2>4. \A n \in Iteration, r \in Proc : n < iteration + 1 /\ IsSaved(n) =>
           file[<<n, r>>] = Part(r, TimeInitial + n)
    BY <1>h, <2>1, <2>2, <2>3
  <2> QED BY <2>1, <2>2, <2>3, <2>4
<1>7. CASE Crash
  <2>1. /\ pc' = "off" /\ UNCHANGED <<metadata, file, missed>>
        /\ pc \in {"solve", "metadata", "writing", "files", "finished"}
    BY <1>7 DEF Crash, disk
  <2>2. ~interrupted' => ~interrupted /\ pc \notin {"metadata", "writing", "files"}
    BY <1>7, Zenon DEF Crash
  <2>3. ~interrupted' => pc \in {"solve", "finished"}
    BY <2>1, <2>2
  <2> SUFFICES ASSUME Known, pc \in {"solve", "finished"}
               PROVE  /\ Before(pc', iteration', file')
                      /\ InMetadata(pc', metadata', iteration', writer', file')
                      /\ MetadataWhole(pc', metadata')
    BY <1>p, <2>1, <2>2, <2>3
  <2> QED BY <1>h, <2>1
<1>8. CASE \E t \in StartTimes : RestartFails(t)
  <2>1. UNCHANGED <<iteration, file, metadata, writer, missed, interrupted>> /\ pc' = "failed"
        /\ pc = "off"
    BY <1>8 DEF RestartFails, scalars, disk, history
  <2> QED BY <2>1, <1>k
<1>9. ASSUME NEW t, Restart(t)
      PROVE  FilesInv'
  <2>0. pc' = "ramp" /\ pc = "off" /\ UNCHANGED <<file, metadata, writer, interrupted>>
    BY <1>9 DEF Restart, disk
  <2>1. CASE RestartNowhere
    BY <2>1, <1>p DEF RestartNowhere
  <2>2. ASSUME IsWhole(metadata), NEW n \in Nat, RestartAt(n)
        PROVE  FilesInv'
    <3>1. n + 1 \in 1 .. Len(metadata) /\ iteration' = n + 1 /\ missed' = missed
          /\ Len(metadata) \in Nat
      BY <2>2, WholeMetadata DEF RestartAt
    <3> SUFFICES ASSUME Known
                 PROVE  /\ Before(pc', iteration', file')
                        /\ InMetadata(pc', metadata', iteration', writer', file')
                        /\ MetadataWhole(pc', metadata')
      BY <1>p, <2>0, <3>1
    <3>2. \A m \in Iteration : m < n + 1 => m < Len(metadata)
      BY <3>1, <1>c DEF Iteration
    <3> QED BY <1>h, <2>0, <2>2, <3>1, <3>2
  <2>3. \A it \in 0 .. Len(metadata) - 1 : Floor(it) \in Nat
    BY FloorBounds
  <2> QED BY <1>9, <2>1, <2>2, <2>3, RestartFacts
<1>10. CASE ReplayRamp
  <2>1. UNCHANGED <<pc, iteration, file, metadata, writer, missed, interrupted>> /\ pc = "ramp"
    BY <1>10 DEF ReplayRamp, disk, history
  <2> QED BY <2>1, <1>k
<1>11. CASE Resume
  <2>1. /\ UNCHANGED <<iteration, file, metadata, writer, missed, interrupted>>
        /\ pc = "ramp" /\ pc' \in Between
    BY <1>11 DEF Resume, Enter, disk, history
  <2> QED BY <2>1, <1>k
<1>12. CASE UNCHANGED vars
  <2>1. UNCHANGED <<pc, iteration, file, metadata, writer, missed, interrupted>>
    BY <1>12 DEF vars, scalars, disk, history
  <2> QED BY <2>1, <1>k DEF TimesInv
<1> QED BY <1>1, <1>2, <1>3, <1>4, <1>5, <1>6, <1>7, <1>8, <1>9, <1>10, <1>11, <1>12 DEF Next

-----------------------------------------------------------------------------
(* Restarts at last save                                                   *)

LEMMA NothingToRead ==
  ASSUME TypeOK, LastSaveInv, ~IsWhole(metadata)
  PROVE  ~CanRestart(0)
<1>1. CASE metadata = Torn
  BY <1>1 DEF CanRestart
<1>2. CASE metadata = Absent
  <2>1. PICK r \in Proc : TRUE
    BY BdfAssumption
  <2>2. 0 \in Loaded(0)
    <3>1. Min({setting.order, 1}) = IF setting.order <= 1 THEN setting.order ELSE 1
      BY SettingType, MinPair
    <3>2. Min({setting.order, 1}) \in 1 .. 4
      BY <3>1, SettingType
    <3> QED BY <3>2 DEF Loaded
  <2>3. Name(r, 0 - 0) \in Names
    BY BdfAssumption DEF Name, Names, Iteration
  <2>4. file[Name(r, 0 - 0)] = Absent
    BY <1>2, <2>3 DEF LastSaveInv
  <2> QED BY <2>2, <2>4 DEF CanRestart, Readable
<1> QED BY <1>1, <1>2 DEF IsWhole

LEMMA LastSaveStep ==
  ASSUME TypeOK, TimesInv, IndexInv, LastSaveInv, [Next]_vars
  PROVE  LastSaveInv'
<1>t. /\ iteration \in Nat /\ time \in Nat /\ timeValues \in Seq(0 .. MaxTime)
      /\ orderCur \in 1 .. setting.order
      /\ setting.order \in 1 .. 4 /\ setting.freq \in Nat \ {0} /\ setting.atLast \in BOOLEAN
  BY SettingType DEF TypeOK
<1>c. TimeInitial \in Nat /\ MaxTime \in Nat /\ TimeInitial < MaxTime
  BY BdfAssumption
<1>e. setting' = setting
  BY SettingKept
<1>w. IsWhole(timeValues) /\ timeValues # Absent /\ timeValues # Torn
  BY <1>t, MarkAssumption DEF IsWhole
<1> USE DEF Between, Saving
<1>1. (metadata = Absent => \A n \in Names : file[n] = Absent)'
  <2>h. metadata = Absent => \A n \in Names : file[n] = Absent
    BY DEF LastSaveInv
  <2>1. CASE UNCHANGED <<metadata, file>>
    BY <2>1, <2>h
  <2>2. CASE OpenMetadata \/ WriteMetadata
    BY <2>2, <1>w, MarkAssumption DEF OpenMetadata, WriteMetadata
  <2>3. CASE \E r \in Proc : OpenFile(r) \/ WriteFile(r)
    <3>1. metadata' = timeValues
      BY <2>3 DEF OpenFile, WriteFile, TimesInv
    <3> QED BY <3>1, <1>w
  <2> QED BY <2>1, <2>2, <2>3 DEF Next, vars, disk, Start, SolveAndShift, Saved, Crash,
             Restart, RestartFails, ReplayRamp, Resume
<1> DEFINE AtSave(p, i, m) ==
      p \in Between \cup {"metadata"} /\ i > 0 => IsWhole(m) /\ Floor(i - 1) < Len(m)
<1> DEFINE AtOff(p, m, last) ==
      p = "off" /\ IsWhole(m) => last - TimeInitial - Floor(Len(m) - 1) < setting.freq
<1>h. setting.atLast => ~missed /\ AtSave(pc, iteration, metadata) /\ AtOff(pc, metadata, reached)
  BY DEF LastSaveInv
<1>f. \A n : Floor(n)' = n - (n % setting.freq)
  BY <1>e DEF Floor
<1>p. ASSUME setting.atLast =>
               ~missed' /\ AtSave(pc', iteration', metadata') /\ AtOff(pc', metadata', reached')
      PROVE  LastSaveInv'
  BY <1>p, <1>1, <1>e DEF LastSaveInv, IsWhole, Floor
<1>k. ASSUME UNCHANGED <<iteration, metadata, missed, reached>>,
             pc' = pc \/ (pc \in Between /\ pc' \in Between \cup {"metadata"})
               \/ (pc = "new" /\ pc' = "metadata" /\ iteration = 0)
               \/ pc' \in {"failed", "writing", "files"}
      PROVE  LastSaveInv'
  <2>1. AtSave(pc, iteration, metadata) => AtSave(pc', iteration', metadata')
    BY <1>k
  <2>2. AtOff(pc, metadata, reached) => AtOff(pc', metadata', reached')
    BY <1>k
  <2>3. missed' = missed
    BY <1>k
  <2> HIDE DEF AtSave, AtOff
  <2> QED BY <1>h, <1>p, <2>1, <2>2, <2>3
<1>2. CASE Start
  <2>1. /\ UNCHANGED <<iteration, metadata, missed, reached>>
        /\ pc = "new" /\ pc' = "metadata" /\ iteration = 0
    BY <1>2 DEF Start, TimesInv, disk, history
  <2> QED BY <2>1, <1>k
<1>3. CASE SolveAndShift
  <2>1. UNCHANGED <<metadata, missed, reached>> /\ pc = "solve"
    BY <1>3 DEF SolveAndShift, disk, history
  <2>2. CASE pc' = "metadata" /\ UNCHANGED iteration
    BY <2>1, <2>2, <1>k
  <2>3. CASE ~DoSave(iteration, orderCur) /\ Advance
    <3>0. iteration' = iteration + 1 /\ pc' \in {"solve", "finished"}
      BY <2>3 DEF Advance, Enter
    <3>1. iteration > 0
      BY <2>1, <1>t DEF TimesInv
    <3>2. iteration % setting.freq # 0
      <4>1. orderCur - 1 \in 0 .. orderCur - 1 /\ iteration + orderCur - ((orderCur - 1) + 1) = iteration
        BY <1>t
      <4> QED BY <2>3, <4>1 DEF DoSave
    <3>3. Floor(iteration) # iteration /\ Floor(iteration) \in 0 .. iteration
      <4>1. Floor(iteration) \in 0 .. iteration /\ Floor(iteration) % setting.freq = 0
        BY <1>t, FloorBounds
      <4> QED BY <3>2, <4>1
    <3>4. Floor(iteration) <= Floor(iteration - 1)
      <4>1. Floor(iteration) \in 0 .. iteration - 1 /\ iteration - 1 \in Nat
        BY <3>1, <3>3, <1>t
      <4>2. Floor(Floor(iteration)) = Floor(iteration)
        BY <1>t, FloorBounds
      <4>3. Floor(Floor(iteration)) <= Floor(iteration - 1)
        BY <4>1, FloorBounds
      <4> QED BY <4>2, <4>3
    <3>5. iteration' - 1 = iteration
      BY <3>0, <1>t
    <3> SUFFICES ASSUME setting.atLast
                 PROVE  IsWhole(metadata') /\ Floor(iteration' - 1) < Len(metadata')
      BY <1>h, <1>p, <2>1, <3>0
    <3>6. IsWhole(metadata) /\ Floor(iteration - 1) < Len(metadata)
      BY <1>h, <2>1, <3>1
    <3>7. Len(metadata) \in Nat /\ Floor(iteration - 1) \in Nat
      <4>1. iteration - 1 \in Nat
        BY <3>1, <1>t
      <4> QED BY <4>1, <3>6, WholeMetadata, FloorBounds
    <3>8. Floor(iteration) < Len(metadata)
      BY <3>3, <3>4, <3>6, <3>7, <1>t
    <3> QED BY <2>1, <3>5, <3>6, <3>8
  <2> QED BY <1>3, <2>2, <2>3 DEF SolveAndShift
<1>4. CASE OpenMetadata \/ WriteMetadata
  <2>1. /\ UNCHANGED <<iteration, missed, reached>> /\ pc' \in {"writing", "files"}
    BY <1>4 DEF OpenMetadata, WriteMetadata, scalars, history
  <2> QED BY <1>h, <1>p, <2>1
<1>5. CASE \E r \in Proc : OpenFile(r) \/ WriteFile(r)
  <2>1. UNCHANGED <<pc, iteration, metadata, missed, reached>>
    BY <1>5 DEF OpenFile, WriteFile, scalars, history
  <2> QED BY <2>1, <1>k
<1>6. CASE Saved
  <2>1. /\ UNCHANGED <<metadata, missed, reached>> /\ pc = "files" /\ metadata = timeValues
        /\ iteration' = iteration + 1 /\ pc' \in {"solve", "finished"}
    BY <1>6 DEF Saved, Advance, Enter, disk, history, TimesInv
  <2>2. iteration' - 1 = iteration /\ Floor(iteration) \in 0 .. iteration
    <3>1. Floor(iteration) \in 0 .. iteration
      BY <1>t, FloorBounds
    <3> QED BY <2>1, <1>t, <3>1
  <2>3. setting.atLast => Len(metadata) = iteration + 1
    BY <1>h, <2>1 DEF IndexInv
  <2>4. setting.atLast => AtSave(pc', iteration', metadata')
    BY <2>1, <2>2, <2>3, <1>t, <1>w
  <2> HIDE DEF AtSave
  <2> QED BY <1>h, <1>p, <2>1, <2>4
<1>7. CASE Crash
  <2>1. /\ pc' = "off" /\ UNCHANGED <<metadata, missed>> /\ reached' = time - 1
        /\ pc \in {"solve", "metadata", "writing", "files", "finished"}
    BY <1>7 DEF Crash, disk
  <2> SUFFICES ASSUME setting.atLast, IsWhole(metadata)
               PROVE  reached' - TimeInitial - Floor(Len(metadata) - 1) < setting.freq
    BY <1>h, <1>p, <2>1
  <2>2. Len(metadata) \in Nat \ {0}
    BY WholeMetadata DEF TimesInv
  <2>3. Len(metadata) - 1 \in Nat /\ Floor(Len(metadata) - 1) \in Nat
    <3>1. Len(metadata) - 1 \in Nat
      BY <2>2
    <3> QED BY <3>1, FloorBounds
  <2>4. time = TimeInitial + iteration
    BY <1>h, <2>1 DEF IndexInv
  <2>5. reached' - TimeInitial = iteration - 1
    BY <2>1, <2>4, <1>t, <1>c
  <2>6. iteration - 1 - Floor(Len(metadata) - 1) < setting.freq
    <3>1. CASE pc \in {"solve", "finished", "metadata"}
      <4>1. iteration > 0
        BY <3>1, <1>t DEF TimesInv, IsWhole
      <4>2. iteration - 1 \in Nat
        BY <4>1, <1>t
      <4>3. Floor(iteration - 1) < Len(metadata)
        BY <1>h, <3>1, <4>1
      <4>4. /\ Floor(iteration - 1) \in 0 .. iteration - 1
            /\ iteration - 1 - Floor(iteration - 1) < setting.freq
            /\ Floor(Floor(iteration - 1)) = Floor(iteration - 1)
        BY <4>2, FloorBounds
      <4>5. Floor(iteration - 1) \in 0 .. Len(metadata) - 1
        BY <2>2, <4>2, <4>3, <4>4
      <4>6. Floor(Floor(iteration - 1)) <= Floor(Len(metadata) - 1)
        BY <2>3, <4>5, FloorBounds
      <4>7. Floor(iteration - 1) <= Floor(Len(metadata) - 1)
        BY <4>4, <4>6
      <4> QED BY <4>2, <4>4, <4>7, <2>3, <1>t
    <3>2. CASE pc = "writing"
      BY <3>2 DEF TimesInv, IsWhole
    <3>3. CASE pc = "files"
      <4>1. Len(metadata) - 1 = iteration
        BY <1>h, <3>3, <1>t DEF TimesInv, IndexInv
      <4>2. Floor(iteration) \in 0 .. iteration /\ iteration - Floor(iteration) < setting.freq
        BY <1>t, FloorBounds
      <4> QED BY <4>1, <4>2, <1>t
    <3> QED BY <2>1, <3>1, <3>2, <3>3
  <2> QED BY <2>5, <2>6
<1>8. CASE \E t \in StartTimes : RestartFails(t)
  <2>1. UNCHANGED <<iteration, metadata, missed, reached>> /\ pc' = "failed"
    BY <1>8 DEF RestartFails, scalars, disk, history
  <2> QED BY <2>1, <1>k
<1>9. ASSUME NEW t, Restart(t)
      PROVE  LastSaveInv'
  <2>0. pc' = "ramp" /\ UNCHANGED metadata
    BY <1>9 DEF Restart, disk
  <2>1. CASE RestartNowhere /\ (setting.atLast => ~IsWhole(metadata))
    <3>1. ~setting.atLast
      BY <2>1, NothingToRead DEF RestartNowhere
    <3> QED BY <1>p, <3>1
  <2>2. ASSUME IsWhole(metadata), NEW it \in 0 .. Len(metadata) - 1, RestartAt(Floor(it))
        PROVE  LastSaveInv'
    <3>1. /\ Floor(it) \in 0 .. Len(metadata) - 1 /\ iteration' = Floor(it) + 1
          /\ missed' = missed
      BY <2>2 DEF RestartAt
    <3>2. Len(metadata) \in Nat
      BY <2>2, WholeMetadata
    <3>3. Floor(Floor(it)) = Floor(it)
      BY <3>2, FloorBounds
    <3>4. iteration' - 1 = Floor(it) /\ Floor(it) < Len(metadata)
      BY <3>1, <3>2
    <3>5. AtSave(pc', iteration', metadata')
      BY <2>0, <2>2, <3>3, <3>4
    <3>6. AtOff(pc', metadata', reached')
      BY <2>0
    <3> HIDE DEF AtSave, AtOff
    <3> QED BY <1>h, <1>p, <3>1, <3>5, <3>6
  <2> QED BY <1>9, <2>1, <2>2, RestartFacts
<1>10. CASE ReplayRamp
  <2>1. UNCHANGED <<pc, iteration, metadata, missed, reached>>
    BY <1>10 DEF ReplayRamp, disk, history
  <2> QED BY <2>1, <1>k
<1>11. CASE Resume
  <2>1. /\ UNCHANGED <<iteration, metadata, missed, reached>> /\ pc = "ramp" /\ pc' \in Between
    BY <1>11 DEF Resume, Enter, disk, history
  <2> QED BY <2>1, <1>k
<1>12. CASE UNCHANGED vars
  <2>1. UNCHANGED <<pc, iteration, metadata, missed, reached>>
    BY <1>12 DEF vars, scalars, disk, history
  <2> QED BY <2>1, <1>k
<1> QED BY <1>2, <1>3, <1>4, <1>5, <1>6, <1>7, <1>8, <1>9, <1>10, <1>11, <1>12 DEF Next

-----------------------------------------------------------------------------
(* The theorems                                                            *)

LEMMA InvInit == Init => IInv
<1> SUFFICES ASSUME Init
             PROVE  IInv
  OBVIOUS
<1>1. TypeOK /\ TimesInv
  BY TypeInit
<1>2. OrderInv
  BY DEF Init, OrderInv, Saving
<1>3. Times(timeValues) /\ ~IsWhole(metadata) /\ pc = "new" /\ metadata = Absent
  BY DEF Init, Times, IsWhole
<1>4. \A n \in Names : file[n] = Absent
  <2> HIDE DEF Names
  <2> QED BY DEF Init
<1>5. IndexInv
  BY <1>3 DEF IndexInv, Between, Saving
<1>6. HistoryInv
  <2>1. \A n \in Iteration, r \in Proc : <<n, r>> \in Names
    BY DEF Names
  <2> QED BY <1>3, <1>4, <2>1 DEF HistoryInv, Between, Saving
<1>7. FilesInv
  BY <1>3 DEF FilesInv, Between, Saving
<1>8. LastSaveInv
  BY <1>3, <1>4 DEF Init, LastSaveInv, Between
<1> QED BY <1>1, <1>2, <1>5, <1>6, <1>7, <1>8 DEF IInv

LEMMA InvStep == IInv /\ [Next]_vars => IInv'
<1> SUFFICES ASSUME IInv, [Next]_vars
             PROVE  IInv'
  OBVIOUS
<1>1. TypeOK' /\ TimesInv'
  BY TypeStep DEF IInv
<1>2. OrderInv' /\ IndexInv'
  BY OrderStep, IndexStep DEF IInv
<1>3. HistoryInv' /\ FilesInv'
  BY HistoryStep, FilesStep DEF IInv
<1>4. LastSaveInv'
  BY LastSaveStep DEF IInv
<1> QED BY <1>1, <1>2, <1>3, <1>4 DEF IInv

(* The invariant of the time loop: what the memory and the files hold      *)
(* after any sequence of steps, saves, kills and restarts                  *)
THEOREM Invariant == Spec => []IInv
  BY InvInit, InvStep, PTL DEF Spec

(* Every variable keeps its type: a restart never loads a state from a     *)
(* file that was not written, and never asks for an index past the times   *)
THEOREM TypeCorrect == Spec => []TypeOK
<1>1. IInv => TypeOK
  BY DEF IInv
<1> QED BY <1>1, Invariant, PTL

(* After any number of restarts the order in use is the one that a run     *)
(* without restart has at the iteration                                    *)
THEOREM OrderFollowsIterationAlways == Spec => []OrderFollowsIteration
<1>1. IInv => OrderFollowsIteration
  <2> SUFFICES ASSUME IInv, Running, iteration > 0
               PROVE  orderCur = OrderAt(iteration)
    BY DEF OrderFollowsIteration
  <2>1. iteration \in Nat \ {0}
    BY DEF IInv, TypeOK
  <2>2. IsRamp(orderCur, lastChange, iteration)
    BY DEF IInv, OrderInv, Running, Saving
  <2> QED BY <2>1, <2>2, RampIsOrderAt DEF IInv
<1> QED BY <1>1, Invariant, PTL

(* A run that restarts at its last save repeats fewer steps than the save  *)
(* frequency, whatever was being saved when it was killed                  *)
THEOREM RestartRepeatsFewStepsAlways == Spec => RestartRepeatsFewSteps
<1>1. IInv /\ [Next]_vars =>
        [pc = "off" /\ pc' = "ramp" /\ setting.atLast => reached - ti' < setting.freq]_vars
  <2> SUFFICES ASSUME IInv, Next, pc = "off", pc' = "ramp", setting.atLast
               PROVE  reached - ti' < setting.freq
    OBVIOUS
  <2>t. TypeOK /\ TimesInv /\ LastSaveInv /\ IndexInv
    BY DEF IInv
  <2>1. PICK t : Restart(t)
    BY DEF Next, Start, SolveAndShift, OpenMetadata, WriteMetadata, OpenFile, WriteFile,
           Saved, Crash, RestartFails, ReplayRamp, Resume
  <2>2. CASE RestartNowhere /\ ~IsWhole(metadata)
    BY <2>t, <2>2, NothingToRead DEF RestartNowhere
  <2>3. ASSUME IsWhole(metadata), NEW it \in 0 .. Len(metadata) - 1,
               RestartAt(Floor(it)), metadata[it + 1] = metadata[Len(metadata)]
        PROVE  reached - ti' < setting.freq
    <3>1. /\ metadata \in Seq(Nat) /\ Len(metadata) \in Nat \ {0}
          /\ TimeInitial \in Nat /\ reached \in Int /\ setting.freq \in Nat
      BY <2>t, <2>3, WholeMetadata, SettingType, BdfAssumption DEF TimesInv, TypeOK
    <3>2. Times(metadata)
      BY <2>t, <2>3 DEF LastSaveInv, IndexInv
    <3>3. it = Len(metadata) - 1
      <4>1. it + 1 \in 1 .. Len(metadata) /\ Len(metadata) \in 1 .. Len(metadata)
        BY <3>1
      <4>2. /\ metadata[it + 1] = TimeInitial + (it + 1) - 1
            /\ metadata[Len(metadata)] = TimeInitial + Len(metadata) - 1
        BY <3>2, <4>1 DEF Times
      <4>3. TimeInitial + (it + 1) - 1 = TimeInitial + Len(metadata) - 1
        BY <2>3, <4>2
      <4> QED BY <3>1, <4>3
    <3>4. Floor(it) \in 0 .. Len(metadata) - 1 /\ ti' = metadata[Floor(it) + 1]
      BY <2>3 DEF RestartAt
    <3>5. ti' = TimeInitial + Floor(it)
      <4>1. Floor(it) + 1 \in 1 .. Len(metadata)
        BY <3>1, <3>4
      <4>2. metadata[Floor(it) + 1] = TimeInitial + (Floor(it) + 1) - 1
        BY <3>2, <4>1 DEF Times
      <4> QED BY <3>1, <3>4, <4>2
    <3>6. reached - TimeInitial - Floor(it) < setting.freq
      BY <2>t, <2>3, <3>3 DEF LastSaveInv
    <3> QED BY <3>1, <3>4, <3>5, <3>6
  <2> QED BY <2>t, <2>1, <2>2, <2>3, RestartFacts
<1> QED BY <1>1, Invariant, PTL DEF Spec, RestartRepeatsFewSteps

(* With the rank in the names, the times of the metadata are those of the  *)
(* files, on every rank                                                    *)
THEOREM MetadataMatchesFilesAlways ==
  ASSUME \A s \in Settings : s.rankInName
  PROVE  Spec => []MetadataMatchesFiles
<1>1. IInv => MetadataMatchesFiles
  <2> SUFFICES ASSUME IInv, IsWhole(metadata), ~missed,
                      NEW i \in 1 .. Len(metadata), NEW r \in Proc
               PROVE  /\ metadata[i] = TimeInitial + i - 1
                      /\ file[Name(r, i - 1)] \notin {Absent, Torn}
                           => file[Name(r, i - 1)] = Part(r, metadata[i])
    BY DEF MetadataMatchesFiles, IsWhole
  <2>1. TypeOK /\ TimesInv /\ setting.rankInName
    BY DEF IInv, TypeOK
  <2>2. metadata[i] = TimeInitial + i - 1
    BY DEF IInv, IndexInv, Times
  <2>3. i \in Nat /\ i - 1 \in Iteration /\ TimeInitial \in Nat
    BY <2>1, MetadataLength, BdfAssumption DEF Iteration
  <2>4. Name(r, i - 1) = <<i - 1, r>>
    BY <2>1, <2>3, NameOf
  <2>5. file[<<i - 1, r>>] \in {Absent, Torn, Part(r, TimeInitial + (i - 1))}
    BY <2>1, <2>3 DEF IInv, HistoryInv
  <2>6. TimeInitial + (i - 1) = TimeInitial + i - 1
    BY <2>3
  <2> QED BY <2>2, <2>4, <2>5, <2>6
<1> QED BY <1>1, Invariant, PTL

(* With the rank in the names, every step starts from the last states,     *)
(* also after restarts                                                     *)
THEOREM HistoryIsRecentAlways ==
  ASSUME \A s \in Settings : s.rankInName
  PROVE  Spec => []HistoryIsRecent
<1>1. IInv => HistoryIsRecent
  <2> SUFFICES ASSUME IInv, pc = "solve", ~missed
               PROVE  Recent
    BY DEF HistoryIsRecent
  <2>1. setting.rankInName
    BY DEF IInv, TypeOK
  <2> QED BY <2>1, RecentHolds DEF IInv
<1> QED BY <1>1, Invariant, PTL

(* With the rank in the names, a run that was not killed while it saved    *)
(* finds the files it needs                                                *)
LEMMA FilesFound ==
  ASSUME IInv, pc = "off", ~interrupted, ~missed, setting.rankInName, Recoverable, NEW t
  PROVE  CanRestart(LoadMetadata(t).iteration)
<1>t. TypeOK /\ TimesInv /\ IndexInv /\ FilesInv
  BY DEF IInv
<1>1. IsWhole(metadata)
  BY <1>t DEF FilesInv, Between
<1>2. /\ metadata \in Seq(0 .. MaxTime) /\ Len(metadata) \in 1 .. MaxTime + 1
      /\ TimeInitial \in Nat /\ MaxTime \in Nat /\ setting.order \in 1 .. 4
      /\ Proc \subseteq Nat
  BY <1>1, <1>t, WholeMetadata, MetadataLength, SettingType, BdfAssumption
<1>3. Len(metadata) - 1 <= MaxTime - TimeInitial
  <2> DEFINE S == 0 .. MaxTime
  <2>1. metadata[Len(metadata)] \in S
    <3>1. metadata \in Seq(S) /\ Len(metadata) \in 1 .. Len(metadata)
      BY <1>2
    <3> HIDE DEF S
    <3> QED BY <3>1, Elements
  <2>2. metadata[Len(metadata)] = TimeInitial + Len(metadata) - 1
    BY <1>1, <1>2, <1>t DEF IndexInv, Times
  <2> QED BY <1>2, <2>1, <2>2
<1>4. ASSUME NEW m \in 0 .. Len(metadata) - 1, \A k \in Loaded(m) : IsSaved(m - k)
      PROVE  CanRestart(m)
  <2> SUFFICES ASSUME NEW r \in Proc, NEW k \in Loaded(m)
               PROVE  Readable(r, Name(r, m - k))
    BY <1>1 DEF CanRestart, IsWhole
  <2>1. m \in Nat
    BY <1>2
  <2>2. k \in Nat /\ k <= m
    BY <1>t, <2>1, LoadedRange
  <2>3. m - k \in Iteration /\ m - k < Len(metadata)
    BY <1>2, <2>2 DEF Iteration
  <2>4. Name(r, m - k) = <<m - k, r>>
    BY <1>t, <2>3, NameOf
  <2>5. file[<<m - k, r>>] = Part(r, TimeInitial + (m - k))
    BY <1>t, <1>1, <1>4, <2>3 DEF FilesInv
  <2>6. TimeInitial + (m - k) \in 0 .. MaxTime
    BY <1>2, <1>3, <2>2
  <2>7. Part(r, TimeInitial + (m - k)) \in Parts
    BY <2>6 DEF Parts
  <2>8. Part(r, TimeInitial + (m - k)) \notin {Absent, Torn}
    <3> HIDE DEF Parts
    <3> QED BY <2>7, MarkAssumption
  <2> QED BY <2>4, <2>5, <2>8 DEF Readable, Part
<1>5. CASE LoadMetadata(t) = NotFound
  <2>1. \A k \in Loaded(0) : k \in Nat /\ k <= 0
    BY <1>t, LoadedRange
  <2>2. \A k \in Loaded(0) : 0 - k = 0
    BY <2>1
  <2>3. \A k \in Loaded(0) : IsSaved(0 - k)
    BY <2>2 DEF IsSaved
  <2>4. CanRestart(0)
    BY <1>2, <1>4, <2>3
  <2> QED BY <1>5, <2>4 DEF NotFound
<1>6. ASSUME NEW it \in 0 .. Len(metadata) - 1, FoundAt(LoadMetadata(t), it)
      PROVE  CanRestart(LoadMetadata(t).iteration)
  <2>1. LoadMetadata(t).iteration = Floor(it)
    BY <1>6 DEF FoundAt
  <2>2. Floor(it) \in 0 .. it /\ Floor(it) % setting.freq = 0
    BY <1>t, FloorBounds
  <2>3. Floor(it) \in 0 .. Len(metadata) - 1 /\ Floor(it) \in 0 .. MaxTime - TimeInitial
    BY <1>2, <1>3, <2>2
  <2>4. \A k \in Loaded(Floor(it)) : Floor(it) - k > 0 =>
           DoSave(Floor(it) - k, OrderAt(Floor(it) - k))
    BY <2>2, <2>3 DEF Recoverable
  <2>5. \A k \in Loaded(Floor(it)) : Floor(it) - k >= 0 /\ k \in Int
    <3>1. Floor(it) \in Nat
      BY <2>2
    <3>2. \A k \in Loaded(Floor(it)) : Floor(it) - k \in Nat /\ k \in Nat
      BY <1>t, <3>1, LoadedRange
    <3> QED BY <3>2
  <2>6. \A k \in Loaded(Floor(it)) : Floor(it) - k > 0 \/ Floor(it) - k = 0
    BY <2>2, <2>5
  <2>7. \A k \in Loaded(Floor(it)) : IsSaved(Floor(it) - k)
    BY <2>4, <2>6 DEF IsSaved
  <2> QED BY <1>4, <2>1, <2>3, <2>7
<1> QED BY <1>t, <1>1, <1>5, <1>6, LoadFacts

(* A run killed between two saves is never lost                            *)
THEOREM NoLostRunAlways ==
  ASSUME \A s \in Settings : s.rankInName
  PROVE  Spec => []NoLostRun
<1>1. Init => NoLostRun
  BY DEF Init, NoLostRun
<1>2. IInv /\ NoLostRun /\ [Next]_vars => NoLostRun'
  <2> SUFFICES ASSUME IInv, NoLostRun, [Next]_vars, pc' = "failed"
               PROVE  (interrupted \/ missed \/ ~Recoverable)'
    BY DEF NoLostRun
  <2>1. setting' = setting
    BY SettingKept
  <2>2. Recoverable' <=> Recoverable
    BY <2>1 DEF Recoverable, Loaded, DoSave, OrderAt
  <2>3. \/ \E t \in StartTimes : RestartFails(t)
        \/ UNCHANGED vars
    BY DEF Next, Start, SolveAndShift, Advance, Enter, OpenMetadata, WriteMetadata, OpenFile,
           WriteFile, Saved, Crash, Restart, ReplayRamp, Resume
  <2>4. CASE UNCHANGED vars
    BY <2>2, <2>4 DEF vars, history, NoLostRun
  <2>5. ASSUME NEW t, RestartFails(t)
        PROVE  interrupted \/ missed \/ ~Recoverable
    <3>1. pc = "off" /\ ~CanRestart(LoadMetadata(t).iteration) /\ setting.rankInName
      BY <2>5 DEF RestartFails, IInv, TypeOK
    <3> QED BY <3>1, FilesFound
  <2>6. CASE \E t \in StartTimes : RestartFails(t)
    <3>1. UNCHANGED <<interrupted, missed>>
      BY <2>6 DEF RestartFails, history
    <3> QED BY <2>2, <2>5, <2>6, <3>1
  <2> QED BY <2>3, <2>4, <2>6
<1> QED BY <1>1, <1>2, Invariant, PTL DEF Spec

=============================================================================
