CONSTANTS
  Threads <- MCThreads
  StackTop <- MCStackTop
  StackPointers <- MCStackPointers
  FrameSize = 64
  EhdrSize = 52
  PhdrSize = 32
  PrstatusNoteSize = 168
  FpregNoteSize = 280
  LineSize = 64
  CurrentStackLen = 1024
  MiniStackLen = 1536
  NoThread = 0
  StackResidue <- MCResidue
  WithFp = TRUE
  Entries <- MCFrozen
SPECIFICATION SizeSpec
INVARIANTS TypeOK HeadersMatchSegments RunningThreadCaptured SizeIsNear
PROPERTY ImplementsSnapshot
