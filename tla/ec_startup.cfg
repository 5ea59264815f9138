SPECIFICATION StartupSpec
CONSTANTS
  None = None
  Starts = {p, q, r}
  Intelligences = {i, j}
  Rejected = {}
  Strong = {i}
  Approvals <- MCApprovals
  Captures = {c, d, e}
  Healthy = {c, d}
SYMMETRY MCSymmetry
CHECK_DEADLOCK FALSE
INVARIANTS
  RunsOnlyReady
  OnePackage
  StaysReadable
PROPERTY
  RefusedForCause
