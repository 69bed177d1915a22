CONSTANTS
  Cases <- MCFaultsWithoutFpu
  Base = 16
  MaxNotes = 1
  FirstTask = 3539
SPECIFICATION NotesSpec
INVARIANT RegistersRestored
CHECK_DEADLOCK FALSE
