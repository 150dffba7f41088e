SPECIFICATION Spec
CONSTANTS
  inner = inner
  outer = outer
  NoRaw = NoRaw
  NoRecord = NoRecord
  Unpriced = Unpriced
  Disowned = Disowned
  None = None
  Plan <- Pair
  Stem <- SameStem
  Drivers <- LayerOnly
  MaxLaunches = 2
  MaxRounds = 2
  MaxStreams = 3
  MaxFaults = 2
  Totals <- SomeTotals
  Costs <- OneCost
INVARIANTS SkippedWasProven
CHECK_DEADLOCK FALSE
