CONSTANTS
  Markets <- MCMarkets
  None = None
  MaxBars = 2
  Required = 4
  MaxCycles = 6
  MaxKeep = 12
  Expire = 2
  MaxSignals = 2
  Cooldown = 1
  Cases <- MCCases
  MaxAttempts = 5
  WaitTimeoutCycles = 4
  MaxRestarts = 1
  Idle = Idle
SPECIFICATION EngineSpec
INVARIANTS
  WaitEarned
  WaitBounded
  LockAgrees
  CooldownHolds
  SendNeedsSafety
  RiskPublishedValid
  ClosedWindowHolds
  LossGovernorHolds
  ProtectionBounded
