SPECIFICATION FairSpec
CONSTANTS
  MaxRounds <- TwoRounds
  MaxEvents <- ThreeEvents
  None = None
INVARIANTS TypeOK GroupDiesWithRound InterruptedRoundHalts ResultIsNeverLost
  SignalIsReported
PROPERTIES RoundReturns
CHECK_DEADLOCK FALSE
