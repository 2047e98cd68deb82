SPECIFICATION FairSpec
CONSTANTS
  a = a
  b = b
  c = c
  obj = obj
  big = big
  graph = graph
  take = take
  cap = cap
  op1 = op1
  op2 = op2
  Peer <- MCPeer
  Type = {cap}
  Obj <- MCObj
  Large = {big}
  EditOp = {op1, op2}
  Take <- MCTake
  Sessions <- MCSessions
  Locals <- MCLocals
  Requests <- MCRequests
  Probes <- MCProbes
  Order <- MCOrder
  MaxOps = 3
  MaxConns = 2
INVARIANTS ReportsAreTrue OutageLosesNothing
PROPERTIES OnlyMutuallyAccepted FetchesAreShared ScriptMovesOn
CHECK_DEADLOCK FALSE
