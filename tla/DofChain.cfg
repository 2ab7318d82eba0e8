SPECIFICATION FairSpec
CONSTANTS
  NProc = 5
  Continuous = TRUE
  Rendezvous = TRUE
  Cell <- MCCell
  Dof <- MCDof
  CellDof <- MCCellDof
  Face <- MCFace
  FaceCells <- MCFaceCells
  FaceDof <- MCFaceDof
  PointDof <- MCPointDof
  Part <- MCPart
  LocalIndex <- MCLocalIndex
INVARIANTS
  RangesMatchOwnership
  Complete
PROPERTIES
  Completion
