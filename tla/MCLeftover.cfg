SPECIFICATION Spec
CONSTANTS
  Attempts <- Two
  Labels <- Outcomes
  Leftovers <- Green
  Faults <- Nobody
  Self = "self"
  None = None
  Racers <- Alone
  Tasks <- Nobody
  Mortals <- Nobody
  Free = "free"
INVARIANTS NoFalseGreen
CHECK_DEADLOCK FALSE
