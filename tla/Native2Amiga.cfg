CONSTANTS
  scsi = scsi
  sock = sock
  req1 = req1
  req2 = req2
  task = task
  mask = mask
  port = port
  Writers <- OneThread
  Words <- MCWords
  Calls <- OneThreadCalls
  Size = 4
  Chunks = 2
  NoWord = NoWord
SPECIFICATION N2AFairSpec
INVARIANTS N2AInv CallsIntact
PROPERTY CallsMade
CHECK_DEADLOCK FALSE
