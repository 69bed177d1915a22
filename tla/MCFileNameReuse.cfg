CONSTANTS
  StreamLens <- MCStreamLens
  HasClock = FALSE
  MinGap = 1
  ShortWrites = FALSE
  CloseErrors = FALSE
  MaxDumps = 2
  MaxSaves = 2
SPECIFICATION Spec
INVARIANT SavedFileIsDump
