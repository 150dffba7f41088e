SPECIFICATION Spec
CONSTANTS
  None = None
  MaxRounds = 3
  MaxGitRecoveryResets = 1
  MaxFrozenEditResets = 1
  MaxSpecDriftRecoveries = 1
  MaxAutoResets = 0
  PlateauStopRounds = 0
  PlateauResetRounds = 3
  WholeCrate = TRUE
  SpecGate = TRUE
  SiblingVerify = TRUE
  ForceGateRecheck = FALSE
  FlakyVerus = FALSE
  SpecItems <- Contracts
  Baseline <- Start
  AgentTrees <- DriftTrees
  Vices = {"stray", "git", "tooling"}
  Exits = {"result"}
  Claims = {"none"}
  Faults = {"audit", "revert", "restore", "spec"}
INVARIANTS
  TypeOK
  AcceptedIsHonest
  AcceptedTreeWasGated
  RollbackTargetsClean
  RejectedIsRestored
  RecoveryCaps
  MisuseIsRejected
PROPERTIES KeepsPromise
CHECK_DEADLOCK FALSE
