------------------------------ MODULE Promotion ------------------------------
(***************************************************************************)
(* What a task of the harness promises its caller, whatever its agent does *)
(* and however many rounds, recoveries and rollbacks it takes: a candidate *)
(* is accepted only where it stands, certified in the very surroundings it *)
(* stands in and with every gate behind it; a rejected one is replaced by  *)
(* the last safe one; and a decision, once taken, stands.                  *)
(***************************************************************************)
VARIABLES
  candidate,  (* the editable files                                   *)
  around,     (* everything else the verifier reads                   *)
  safe,       (* the last files that passed every gate                *)
  certified,  (* files and surroundings a green receipt speaks for    *)
  verdict     (* "open", then the decision                            *)

vars == <<candidate, around, safe, certified, verdict>>

Init == /\ certified = {}
        /\ verdict = "open"

(* The agent, or a rollback, changes files. *)
Edit == /\ verdict = "open"
        /\ candidate' # candidate \/ around' # around
        /\ UNCHANGED <<safe, certified, verdict>>

(* The gate speaks for what stands there now; old receipts may be dropped. *)
Judge == /\ verdict = "open"
         /\ certified' \subseteq certified \cup {<<candidate, around>>}
         /\ UNCHANGED <<candidate, around, safe, verdict>>

Checkpoint == /\ verdict = "open"
              /\ safe' = candidate
              /\ UNCHANGED <<candidate, around, certified, verdict>>

Accept == /\ verdict = "open" /\ verdict' = "ACCEPTED"
          /\ <<candidate, around>> \in certified /\ candidate = safe
          /\ UNCHANGED <<candidate, around, safe, certified>>

Reject == /\ verdict = "open" /\ verdict' = "REJECTED_DRIFTED"
          /\ candidate' = safe
          /\ UNCHANGED <<around, safe, certified>>

Leave == /\ verdict = "open" /\ verdict' = "UNCOMMITTED_CANDIDATE"
         /\ UNCHANGED <<candidate, around, safe, certified>>

Next == Edit \/ Judge \/ Checkpoint \/ Accept \/ Reject \/ Leave

Spec == Init /\ [][Next]_vars
==============================================================================
