SPECIFICATION Spec
CONSTANTS
  a = a
  b = b
  c = c
  d = d
  p = p
  q = q
  NoPort = NoPort
  Id <- MCId
  Desc <- MCDesc
  Graphs <- MCGraphs
  Played <- MCPlayed
  Rows <- MCRows
  MaxTicks = 3
INVARIANTS PlanIsSound ClonesKeepState
PROPERTIES OneTickLate
CHECK_DEADLOCK FALSE
