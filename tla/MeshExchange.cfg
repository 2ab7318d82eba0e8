SPECIFICATION FairSpec
CONSTANTS
  NProc = 4
  Cell <- MCCell
  Partition <- MCPartition
  GhostTags <- MCGhostTags
  Ignored = {4}
  CellFaces <- MCCellFaces
  Line <- MCLine
INVARIANTS
  TypeOK
  LinksRight
  InterProcessFacesAgree
  CutFacesFound
  RequestsExpected
  NoCrossedMessages
  EachCellCountedOnce
PROPERTIES
  Completion
