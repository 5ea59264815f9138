SPECIFICATION Spec
CONSTANTS
  None = None
  Packages <- MCPackages
  MaxPublished = 3
  MaxFaults = 2
  MaxRetries = 1
CHECK_DEADLOCK FALSE
INVARIANTS
  OneLiveOrderPerSequence
  SequencesIncrease
  RefusesOnlyRead
