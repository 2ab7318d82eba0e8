SPECIFICATION Spec
CONSTANTS
  NProc = 4
  a = a
  b = b
  c = c
  d = d
  e = e
  f = f
  Cell <- MCCell
  Part <- MCPart
  RowDof <- MCRowDof
  ColDof <- MCColDof
  NRow <- MCNRow
  NCol <- MCNCol
  RowMap <- MCRowMap
  DiagIsNonZero = TRUE
  ZeroPattern = TRUE
INVARIANTS
  ReceivedRowsOwned
