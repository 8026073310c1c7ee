SPECIFICATION FairSpec
CONSTANTS
  Workers = {w1, w2}
  Main = Main
  Components = {"ilgen", "debugger"}
  CtorOpens = {"mono", "ilgen"}
  MaxImages = 5
  Nothing = Nothing
  Others = {"Runnable"}
  MaxNatives = 10
  w1 = w1  w2 = w2
INVARIANTS
  OwnImage
  SymbolsLive
  ConcreteHandlers
PROPERTIES
  OpenReturns
CHECK_DEADLOCK FALSE
