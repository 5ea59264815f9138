SPECIFICATION AssemblerSpec
CONSTANTS
  None = None
  Damaged = Damaged
  Decisions <- MCDecisions
  MaxPackages = 3
  MaxFailures = 2
  Posix = TRUE
INVARIANTS
  IssuedMonotonic
  AuthorityCoversIssued
  LineageAgrees
