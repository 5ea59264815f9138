CONSTANTS
  Cases <- MCCases
  MaxAttempts = 5
  WaitTimeoutCycles = 4
  MaxRestarts = 1
  Idle = Idle
SPECIFICATION WriteSpec
INVARIANTS
  DailyStopHolds
