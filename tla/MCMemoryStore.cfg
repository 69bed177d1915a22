CONSTANTS
  shell = shell
  Shell = shell
  Handler = handler
  Cap = 3
  StreamLens <- MCStreamLens
  GarbledSizes <- MCGarbledSizes
  Blank = Blank
  Garbage = Garbage
  Tasks <- MCOneTask
  MaxDumps = 3
SPECIFICATION Spec
INVARIANTS TypeOK AcceptedIsComplete FaultDumpIsStored TerminalIsComplete
PROPERTY ImplementsDumpSlot
