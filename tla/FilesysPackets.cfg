CONSTANTS
  p1 = p1
  p2 = p2
  p3 = p3
  NUnits = 1
  Packets = {p1, p2, p3, p4, p5}
  UnitOf <- AllToOne
  MayFail = {}
  Limit = 2
  UnitCap = 5
  BackCap = 5
  CounterInit = 1
  MaxResets = 0
  Dummy = Dummy
  Death = Death
SPECIFICATION Spec
INVARIANTS Inv OneDummy PacketInOnePlace NeverNotEnough
SYMMETRY PacketSymmetry
CHECK_DEADLOCK FALSE
