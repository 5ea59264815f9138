SPECIFICATION Spec

CONSTANTS
  Charts = {c1, c2}
  None = None
  MaxSnapshots = 1
  MaxFaults = 0
  Late = FALSE

INVARIANTS
  OneWriter
