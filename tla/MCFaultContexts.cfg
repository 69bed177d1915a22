CONSTANTS
  shell = shell
  worker = worker
  Shell = shell
  Handler = handler
  Cap = 3
  StreamLens <- MCStreamLens
  GarbledSizes = {}
  Blank = Blank
  Garbage = Garbage
  Tasks <- MCThreads
  MaxDumps = 3
  Systems <- MCSystems
SPECIFICATION FCSpec
INVARIANTS
  FCTypeOK
  OwnWriteout
  FunctionIsSet
  AcceptedIsComplete
  FaultDumpIsStored
  FilesAreComplete
  AssertionIsShown
PROPERTY CallsEnd
