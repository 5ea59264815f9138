SPECIFICATION Spec
CONSTANTS
  q1 = q1
  q2 = q2
  n1 = n1
  n2 = n2
  Requests = {q1, q2}
  Generation <- MCSame
  Nonces <- MCNonces
  MaxTime = 3
  MaxRecords = 2
  Window = 1
  HandoffAge = 1
  Admission = 1
  AttestationAge = 1
  AcknowledgementAge = 1
  Lifetime = 1
INVARIANTS OneLineage StartsInTime
SYMMETRY MCSymmetry
CHECK_DEADLOCK FALSE
