SPECIFICATION Spec
CONSTANTS
  NProc = 4
  Continuous = TRUE
  Rendezvous = FALSE
  Cell <- MCCell
  Dof <- MCDof
  CellDof <- MCCellDof
  Face <- MCFace
  FaceCells <- MCFaceCells
  FaceDof <- MCFaceDof
  PointDof <- MCPointDof
  Part <- MCPart
  LocalIndex <- MCLocalIndex
INVARIANTS
  TypeOK
  OwnersAgree
  RequestsExpected
  NoCrossedMessages
  AnswersNumbered
  UniqueNumbers
  SameNumber
PROPERTIES
  ImplementsNumbering
