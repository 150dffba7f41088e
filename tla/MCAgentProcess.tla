--------------------------- MODULE MCAgentProcess ---------------------------
(* Two rounds of up to three events each: a turn with a terminal event,    *)
(* metadata after it and a second terminal event, and a round after it.    *)
EXTENDS AgentProcess

TwoRounds == 2
ThreeEvents == 3
==============================================================================
