SPECIFICATION Spec
CONSTANTS
  Columns = 4
  Periodic = FALSE
  IndexModulus = 65536
  NDof <- MCNDof
  Cell <- MCCell
  Length <- MCLength
  Through <- MCThrough
  LevelSets <- MCLevelSets
  Twin <- MCTwin
INVARIANTS
  TopIsSmallest
  HeapHoldsClose
  SolvesDistance
  SignKept
  AllReached
PROPERTIES
  ImplementsMarching
  AcceptedInOrder
