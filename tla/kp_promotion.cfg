CONSTANTS
  p1 = p1
  p2 = p2
  d1 = d1
  k1 = k1
  s1 = s1
  None = None
  Processes = {p1, p2}
  Decisions = {d1}
  Knowledge = {k1}
  Slots = {s1}
  KnowledgeOf <- MCKnowledgeOf
  SlotOf <- MCSlotOf
  Others <- MCOthers
  MaxExecutions = 3
  MaxTime = 2
  MaxFaults = 1
SPECIFICATION FairSpec
CHECK_DEADLOCK FALSE
INVARIANTS
  OneRequest
  CommittedAgrees
  EvidenceFirst
  LifecycleLegal
PROPERTY
  CallsEnd
