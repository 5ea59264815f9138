SPECIFICATION FairSpec

CONSTANTS
  Charts = {c1, c2}
  None = None
  MaxSnapshots = 2
  MaxFaults = 2
  Late = FALSE

INVARIANT
  NumbersGrow

PROPERTY
  Delivered

CHECK_DEADLOCK FALSE
