------------------------------ MODULE MCRunTask ------------------------------
(* Values for the constants of RunTask: the trees an agent may leave. *)
EXTENDS RunTask

(* The stripped files: they verify, because of their admits. *)
Start == [proved |-> TRUE, admits |-> TRUE, leaked |-> FALSE, spec |-> {},
          added |-> {}, frozen |-> FALSE, sib |-> "base"]

Done       == [Start EXCEPT !.admits = FALSE]
Unproved   == [Done EXCEPT !.proved = FALSE]
Recalled   == [Done EXCEPT !.leaked = TRUE]
Weakened   == [Done EXCEPT !.spec = {"contract"}]
Axiomatic  == [Done EXCEPT !.added = {"axiom"}]
Assumed    == [Done EXCEPT !.added = {"forbidden"}]
Pinned     == [Done EXCEPT !.frozen = TRUE]
BadHelper  == [Done EXCEPT !.sib = "broken"]

Contracts == {"contract"}
DriftTrees == {Done, Weakened, Pinned, Assumed}
RecallTrees == {Done, Unproved, Recalled}
HaltTrees == {Done, Axiomatic, BadHelper}
=============================================================================
