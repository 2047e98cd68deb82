SPECIFICATION FairSpec
CONSTANTS
  Producer = {p1, p2}
  Addr = {a1, a2, a3, a4}
  Null = Null
  PerProducer = 2
INVARIANTS
  NoUseAfterFree
PROPERTIES
  ImplementsChannel
  AllDelivered
