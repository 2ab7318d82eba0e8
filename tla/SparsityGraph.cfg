SPECIFICATION FairSpec
CONSTANTS
  NProc = 4
  a = a
  b = b
  c = c
  d = d
  e = e
  f = f
  Cell <- MCCell
  Part <- MCPart
  RowDof <- MCRowDof
  ColDof <- MCColDof
  NRow <- MCNRow
  NCol <- MCNCol
  RowMap <- MCRowMap
  DiagIsNonZero = TRUE
  ZeroPattern = FALSE
INVARIANTS
  TypeOK
  RowsComplete
  SplitMatchesOwnership
  IndexConsistent
  ReceivedRowsOwned
PROPERTIES
  Completion
