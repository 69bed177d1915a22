CONSTANTS
  shell = shell
  worker = worker
  Shell = shell
  Handler = handler
  Cap = 3
  StreamLens <- MCStreamLens
  GarbledSizes = {}
  Blank = Blank
  Garbage = Garbage
  Tasks <- MCThreads
  MaxDumps = 3
  Systems <- MCSharedSystems
SPECIFICATION FCSpec
INVARIANT AcceptedIsComplete
