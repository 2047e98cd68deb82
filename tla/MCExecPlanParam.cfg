SPECIFICATION FairSpec
CONSTANTS
  Id = {"a", "t", "s"}
  NodeType = {"osc"}
  Linked <- MCLinked
  Sink <- MCSink
  BlockOut <- MCBlockOut
  Override <- MCOverride
  Illegal <- MCIllegal
  KindOf <- MixedKinds
  Zero = Zero
  NoText = NoText
  NoArr = NoArr
  Tiny = Tiny
  Word = Word
  List = List
  Num = {Zero, Tiny}
  Text = {NoText, Word}
  Arr = {NoArr, List}
  Printed <- SixDecimals
  Malformed = Malformed
  Native = Native
  InitDocs <- ParamDocs
  Vocabulary <- Params
  MaxSubmits = 3
  MaxUndos = 1
PROPERTY EveryOpLands
INVARIANTS
  LiveFollowsDoc
CHECK_DEADLOCK FALSE
