SPECIFICATION Spec
CONSTANTS
  None = None
  Damaged = Damaged
  Decisions <- MCReassembly
  MaxPackages = 2
  MaxFailures = 2
  Posix = FALSE
  StateRemovable = TRUE
  MaxFaults = 1
  StateDeletable = TRUE
  StateUnopenable = FALSE
  JournalUnopenable = FALSE
INVARIANTS
  SequenceTradedOnce
