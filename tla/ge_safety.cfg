SPECIFICATION FairSpec
CONSTANTS
  None = None
  Packages <- MCTwoPackages
  MaxFaults = 2
  StateDeletable = TRUE
  StateUnopenable = TRUE
  JournalUnopenable = FALSE
INVARIANTS
  AtMostOneSubmission
  SubmissionsMonotonic
  IntentBeforeSend
  StateBackedByJournal
PROPERTIES
  JournalFollowsLifecycle
  KeepsPromise
  RecoveredWhileFresh
