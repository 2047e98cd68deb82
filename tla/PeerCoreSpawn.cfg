SPECIFICATION Spec
CONSTANTS
  Local = {a}
  Uid = {r1, r2}
  MaxValue = 2
  MaxFrames = 3
  MaxOps = 0
  MaxRequests = 2
  ClientsPost = FALSE
  NoGraph = NoGraph
INVARIANTS SpawnedNodesLive
CHECK_DEADLOCK FALSE
