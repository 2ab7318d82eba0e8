SPECIFICATION BlocksSpec
CONSTANTS
  NProc = 4
  Continuous = TRUE
  Rendezvous = FALSE
  Cell <- MCCell
  Dof <- MCDof
  CellDof <- MCCellDof
  Face <- MCFace
  FaceCells <- MCFaceCells
  FaceDof <- MCFaceDof
  PointDof <- MCPointDof
  Part <- MCPart
  LocalIndex <- MCLocalIndex
  DiscDof <- MCDiscDof
  DiscCellDof <- MCDiscCellDof
  Blocks <- MCBlocks
INVARIANTS
  LastIsLastOwned
