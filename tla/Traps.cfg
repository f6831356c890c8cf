CONSTANTS
  c1 = c1
  c2 = c2
  c3 = c3
  Tasks = {t1, t2}
  Contexts <- MCContexts
  MaxCalls <- MCMaxCalls
  NoContext = NoContext
  NoCall = NoCall
  NoRegs = NoRegs
SPECIFICATION FairSpec
INVARIANTS Inv RegsOfThisTask RightValue
PROPERTY TrapsComplete
