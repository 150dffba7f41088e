SPECIFICATION FairSpec
CONSTANTS
  None = None
  MaxRounds = 2
  MaxGitRecoveryResets = 1
  MaxFrozenEditResets = 1
  MaxSpecDriftRecoveries = 1
  MaxAutoResets = 1
  PlateauStopRounds = 2
  PlateauResetRounds = 1
  WholeCrate = FALSE
  SpecGate = TRUE
  SiblingVerify = TRUE
  ForceGateRecheck = FALSE
  FlakyVerus = TRUE
  SpecItems <- Contracts
  Baseline <- Start
  AgentTrees <- HaltTrees
  Vices = {"git", "crosstalk"}
  Exits = {"result", "killed", "idle", "RATE_LIMITED", "USER_INTERRUPTED", "INTERRUPTED_SIGNAL", "RETRY_EXHAUSTED", "TRANSPORT_ERROR"}
  Claims = {"none", "COMPLETE", "NEEDS_DECOMP", "FALSE_CONTRACT", "LIMIT"}
  Faults = {"setup", "crash"}
INVARIANTS
  RollbackTargetsClean
  AcceptedSiblingVerifies
  RecoveryCaps
  HaltIsNeverPromoted
  ArtifactsAgree
PROPERTIES Terminates
CHECK_DEADLOCK FALSE
