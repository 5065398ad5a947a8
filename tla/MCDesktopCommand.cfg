SPECIFICATION FairSpec
CONSTANTS
  Words = {"wanted", "other", "empty", "list"}
  MaxOut = 2
  PipeSize = 1
  MaxInt = 15
  MaxSize = 63
  Limit = 60
  Metadata = 2
  HeadDiv = 4
  HeadBytes = 1
  PathBytes = 3
  MaxActions = 3
  BatchSpec <- Spec1
  Requests <- MCRequests
INVARIANTS TypeOK ReadTells PlanRight FocusSeen CaptureExact OneShotSafe
PROPERTIES CommandEnds
