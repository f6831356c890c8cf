CONSTANTS
  p1 = p1
  p2 = p2
  p3 = p3
  NUnits = 1
  Packets = {p1, p2}
  UnitOf <- AllToOne
  MayFail = {}
  Limit = 1
  UnitCap = 4
  BackCap = 3
  CounterInit = 1
  MaxResets = 0
  Dummy = Dummy
  Death = Death
SPECIFICATION FairSpec
PROPERTIES EveryPacketAnswered
CHECK_DEADLOCK FALSE
