CONSTANTS
  Cias = {"A"}
  Byte = 2
  Div = 2
  Wrap = 11
  Los = {1}
  His = {0}
  CraValues <- MCCra
  CrbValues <- MCCrb
  Masks <- MCMasks
SPECIFICATION Spec
INVARIANTS Inv TimersExact
PROPERTY InterruptInTime
