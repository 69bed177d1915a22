CONSTANTS
  Threads <- MCTwoThreads
  StackTop <- MCTwoTops
  StackPointers <- MCTwoPointers
  FrameSize = 64
  EhdrSize = 52
  PhdrSize = 32
  PrstatusNoteSize = 168
  FpregNoteSize = 280
  LineSize = 64
  CurrentStackLen = 1024
  MiniStackLen = 1536
  NoThread = 0
  StackResidue <- MCResidue
  WithFp = TRUE
  Entries <- MCMemory
SPECIFICATION Spec
INVARIANT RunningThreadCaptured
