CONSTANTS
  Threads <- MCTwoThreads
  StackTop <- MCTwoTops
  StackPointers <- MCFixedPointers
  FrameSize = 64
  EhdrSize = 52
  PhdrSize = 32
  PrstatusNoteSize = 168
  FpregNoteSize = 280
  LineSize = 64
  CurrentStackLen = 1024
  MiniStackLen = 1536
  NoThread = 0
  StackResidue <- MCResidue
  WithFp = FALSE
  Entries <- MCAllEntries
SPECIFICATION FairSpec
PROPERTY DumpCompletes
