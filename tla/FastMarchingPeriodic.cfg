SPECIFICATION Spec
CONSTANTS
  Columns = 6
  Periodic = TRUE
  IndexModulus = 65536
  NDof <- MCNDof
  Cell <- MCCell
  Length <- MCLength
  Through <- MCThrough
  LevelSets <- MCLevelSets
  Twin <- MCTwin
INVARIANTS
  TopIsSmallest
