SPECIFICATION Spec
CONSTANTS
  Proc = {0, 1}
  Settings <- MCSettings
  LocalDofs <- SameDofs
  TimeInitial = 1
  TimeFinal = 6
  MaxTime = 7
  MaxCrash = 2
  Absent = Absent
  Torn = Torn
INVARIANTS
  TypeOK
  NoLostRun
  HistoryIsRecent
  OrderFollowsIteration
  MetadataMatchesFiles
PROPERTIES
  RestartRepeatsFewSteps
CHECK_DEADLOCK FALSE
