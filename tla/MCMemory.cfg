SPECIFICATION FairSpec
CONSTANTS
  None = None
  MaxRounds = 3
  MaxGitRecoveryResets = 1
  MaxFrozenEditResets = 1
  MaxSpecDriftRecoveries = 1
  MaxAutoResets = 0
  PlateauStopRounds = 0
  PlateauResetRounds = 3
  WholeCrate = TRUE
  SpecGate = TRUE
  SiblingVerify = TRUE
  ForceGateRecheck = FALSE
  FlakyVerus = FALSE
  SpecItems <- Contracts
  Baseline <- Start
  AgentTrees <- RecallTrees
  Vices = {"git"}
  Exits = {"result"}
  Claims = {"none", "COMPLETE"}
  Faults = {}
INVARIANTS RetryMemoryUntainted
CHECK_DEADLOCK FALSE
