CONSTANTS
  Cases <- MCCollected
  Base = 16
  MaxNotes = 3
  FirstTask = 3539
SPECIFICATION NotesSpec
INVARIANTS
  TypeOK
  RegistersRestored
  SpIsBeforeContext
  ReadsWithinFrame
  NotesTypeOK
  NotesShowContext
  NoForeignRegisters
CHECK_DEADLOCK FALSE
