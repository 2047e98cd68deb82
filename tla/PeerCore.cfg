SPECIFICATION Spec
CONSTANTS
  Local = {a, b}
  Uid = {r1}
  MaxValue = 2
  MaxFrames = 3
  MaxOps = 2
  MaxRequests = 2
  ClientsPost = TRUE
  NoGraph = NoGraph
INVARIANTS BurstsCompose AnswersAreFresh UndoTargetIsLastStructure MirrorStops
CHECK_DEADLOCK FALSE
