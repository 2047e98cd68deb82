SPECIFICATION Spec
CONSTANTS
  Peer = {archive, quest, browser}
  Archive = {archive}
  App = App
  Engine = Engine
  Execution = Execution
  Recording = Recording
  Sample = Sample
  C1 = C1
  C2 = C2
  Blob = {App, Engine, Execution, Recording, Sample}
  Recipe = {compile}
  Take = {Recording}
  ChunksOf <- MCChunksOf
  AppOf <- MCAppOf
  Output <- MCOutput
  MaxOps = 3
INVARIANTS
  ProvidedIsHeld
  ArchiveProvides
  LineageOnce
PROPERTIES
  FetchMovesOnlyMissing
  TrailIsHistory
CHECK_DEADLOCK FALSE
