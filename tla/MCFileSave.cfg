CONSTANTS
  StreamLens <- MCStreamLens
  HasClock = TRUE
  MinGap = 1
  ShortWrites = FALSE
  CloseErrors = FALSE
  MaxDumps = 3
  MaxSaves = 3
SPECIFICATION Spec
INVARIANTS TypeOK ReportedIsSaved FileHoldsOneDump LatestIsKept
