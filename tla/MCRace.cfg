SPECIFICATION FairSpec
CONSTANTS
  Attempts <- Two
  Labels <- Outcomes
  Leftovers <- Green
  Faults <- AllFaults
  Self = "self"
  None = None
  Racers <- Both
  Tasks <- Solo
  Mortals <- Mortal
  Free = "free"
INVARIANTS TypeOK VerdictFollowsResults LosersAreKilled NoLostEntry RacesReadWholeLists
PROPERTIES WinnerStands RaceEnds
CHECK_DEADLOCK FALSE
