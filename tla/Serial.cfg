CONSTANTS
  Sources = {"ports", "rbf"}
  Level <- MCLevel
  CiaSources = {"ports"}
  EnableSets <- MCEnableSets
  Masks = {0}
  Bytes = 2
  OutSize = 2
  Demand = TRUE
SPECIFICATION FairSpec
INVARIANTS TypeOK NoLostInterrupt
PROPERTIES ByteKept RequestTaken QuitUnlessStopped ByteAsked
CHECK_DEADLOCK FALSE
