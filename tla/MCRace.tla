------------------------------- MODULE MCRace -------------------------------
(* Values for the constants of Race: two attempts. *)
EXTENDS Race

Two == 1..2
Outcomes == {"COMPLETE", "NEEDS_DECOMP", "LIMIT"}
Both == {"self", "rival"}
Nobody == {}
Alone == {"self"}
Solo == {"solo"}
Mortal == {"rival", "solo"}
AllFaults == {"worktree", "spawn", "interrupt"}
Green == {"COMPLETE"}
==============================================================================
