SPECIFICATION Spec
CONSTANTS
  Proc = {0, 1}
  Settings <- MCOrderTwo
  LocalDofs <- SameDofs
  TimeInitial = 1
  TimeFinal = 6
  MaxTime = 7
  MaxCrash = 1
  Absent = Absent
  Torn = Torn
INVARIANTS
  RestartFindsFiles
CHECK_DEADLOCK FALSE
