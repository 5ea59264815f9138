SPECIFICATION Spec
CONSTANTS
  None = None
  Processes = {p, q}
  Receipts <- MCContested
  MaxFaults = 1
  Readers = {t, u}
  Unsupported = {"k3"}
SYMMETRY MCSymmetry
CHECK_DEADLOCK FALSE
INVARIANTS
  UniqueActive
  HistoryLegal
  LockedApart
  NeverRevived
