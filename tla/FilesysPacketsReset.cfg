CONSTANTS
  p1 = p1
  p2 = p2
  p3 = p3
  NUnits = 2
  Packets = {p1, p2}
  UnitOf <- SecondToTwo
  MayFail = {p2}
  Limit = 1
  UnitCap = 2
  BackCap = 3
  CounterInit = 1
  MaxResets = 1
  Dummy = Dummy
  Death = Death
SPECIFICATION FairSpec
PROPERTIES HandedOverAnswered PipeWritesReturn ThreadsGoneAtReboot
CHECK_DEADLOCK FALSE
