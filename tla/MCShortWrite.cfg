CONSTANTS
  StreamLens <- MCStreamLens
  HasClock = TRUE
  MinGap = 1
  ShortWrites = TRUE
  CloseErrors = TRUE
  MaxDumps = 1
  MaxSaves = 1
SPECIFICATION Spec
INVARIANT LatestIsKept
