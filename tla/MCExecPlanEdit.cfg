SPECIFICATION Spec
CONSTANTS
  Id = {"a", "d"}
  NodeType = {"osc", "fft", "dac", "gone"}
  Linked <- MCLinked
  Sink <- MCSink
  BlockOut <- MCBlockOut
  Override <- MCOverride
  Illegal <- MCIllegal
  KindOf <- AllNum
  Zero = Zero
  NoText = NoText
  NoArr = NoArr
  Tiny = Tiny
  Word = Word
  List = List
  Num = {Zero}
  Text = {NoText}
  Arr = {NoArr}
  Printed <- Exact
  Malformed = Malformed
  Native = Native
  InitDocs <- WiredDocs
  Vocabulary <- Structural
  MaxSubmits = 3
  MaxUndos = 2
INVARIANTS
  PlanMatchesDoc
  ArrivalOrder
  UndoRestoresStructure
  UndoNeverLoses
PROPERTY
  StateSurvives
CHECK_DEADLOCK FALSE
