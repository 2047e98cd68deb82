SPECIFICATION FairSpec
CONSTANTS
  Id <- MCId
  KindOf <- MCKindOf
  Docs <- MCDocs
  Played <- MCPlayed
  BlockTicks = 1
  FrameTicks = 2
  MaxPasses = 3
  MaxCount = 2
  MaxEdits = 2
INVARIANTS CleanIsFresh ScheduleIsSound
PROPERTIES FrameSettles ChainSettles MutedIsEarned Quiesces
CHECK_DEADLOCK FALSE
