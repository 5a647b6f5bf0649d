CONSTANTS
  Readers = {r1, r2}
  Writers = {w1, w2}
  ReadLoops = {1, Forever}
  WriteLoops = 2
  Forever = Forever
SPECIFICATION FairSpec
PROPERTIES ImplementsRWLock WriterPriority WriterProgress Termination
