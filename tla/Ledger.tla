------------------------------- MODULE Ledger -------------------------------
(***************************************************************************)
(* What the proven registry promises the races that share it: a winner's   *)
(* entry is added at one instant, none is ever taken out, and a race that  *)
(* says it has merged finds its entry there.                               *)
(***************************************************************************)
CONSTANT Writers
VARIABLES
  entries,  (* the entries, as the next reader finds them                *)
  merged    (* the writers that were told their merge is done            *)

vars == <<entries, merged>>

Init == entries = {} /\ merged = {}

Add(w) == entries' = entries \cup {w} /\ UNCHANGED merged

Confirm(w) == w \in entries /\ merged' = merged \cup {w} /\ UNCHANGED entries

Next == \E w \in Writers : Add(w) \/ Confirm(w)

Spec == Init /\ [][Next]_vars
=============================================================================
