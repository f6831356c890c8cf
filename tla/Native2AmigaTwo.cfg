CONSTANTS
  scsi = scsi
  sock = sock
  req1 = req1
  req2 = req2
  task = task
  mask = mask
  port = port
  Writers <- TwoThreads
  Words <- MCWords
  Calls <- TwoThreadCalls
  Size = 4
  Chunks = 2
  NoWord = NoWord
SPECIFICATION N2ASpec
INVARIANTS CallsIntact
CHECK_DEADLOCK FALSE
