SPECIFICATION Spec
CONSTANTS
  Attempts <- Two
  Labels <- Outcomes
  Leftovers <- Nobody
  Faults <- Nobody
  Self = "self"
  None = None
  Racers <- Alone
  Tasks <- Nobody
  Mortals <- Nobody
  Free = "free"
INVARIANTS NoAgentOutlives
CHECK_DEADLOCK FALSE
