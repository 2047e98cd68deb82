SPECIFICATION FairSpec
CONSTANTS
  Capacity = 2
  BlockSize = 2
  MaxSamples = 4
  MaxEvents = 2
  MaxValues = 1
  MaxSwaps = 1
INVARIANTS RingIntact BlockPlaysLiveGraph
PROPERTIES EventsConserved LatchInOrder EventsGetAcross
