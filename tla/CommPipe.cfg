CONSTANTS
  w1 = w1
  a = a
  b = b
  Writers <- MCWriters
  Words <- MCWords
  Size = 4
  Chunks = 3
  NoWord = NoWord
SPECIFICATION FairSpec
INVARIANTS TypeOK NoLostWakeup
PROPERTIES FifoSpec WriteReturns FlushDelivers
