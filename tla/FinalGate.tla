------------------------------ MODULE FinalGate ------------------------------
(***************************************************************************)
(* The decision table that closes a task (run.py, end of run_task): the    *)
(* vocabulary of end reasons, the folding of the final integrity facts     *)
(* into the loop's own reason, the final reason, the disposition of the    *)
(* worktree, and whether the run's trace may feed a later attempt.         *)
(***************************************************************************)

(* Halts of the agent's infrastructure, or of its operator. *)
InfraReasons == {"RATE_LIMITED", "RATE_LIMIT_OR_HANG", "RETRY_EXHAUSTED",
                 "TRANSPORT_ERROR", "USER_INTERRUPTED", "INTERRUPTED_SIGNAL"}

(* Reasons for which the worktree is rejected and restored. *)
IntegrityRejections ==
  {"SPEC_DRIFT", "AXIOM_DRIFT", "FORBIDDEN_CONSTRUCT", "FROZEN_EDIT",
   "GIT_RECOVERY", "PROCESS_CROSSTALK", "TOOLING_DRIFT"}

(* What an agent may declare in its last message; "none" is Python's None. *)
AgentClaims == {"none", "LIMIT", "COMPLETE", "NEEDS_DECOMP", "FALSE_CONTRACT"}

(* A round whose evidence was withdrawn after a recovery. *)
RecoveredReasons ==
  {"GIT_RECOVERY_RECOVERED", "SPEC_DRIFT_RECOVERED", "FROZEN_EDIT_RECOVERED"}

LoopReasons == InfraReasons \cup IntegrityRejections \cup AgentClaims
FinalReasons == (LoopReasons \ {"none"}) \cup {"SIBLING_VERUS_FAIL", "ERROR"}

(***************************************************************************)
(* The loop's reason overridden by a fact seen in the final state, unless  *)
(* the reason is one of those the code protects from that fact.            *)
(***************************************************************************)
Override(reason, seen, label, protected) ==
  IF seen /\ reason \notin protected THEN label ELSE reason

(***************************************************************************)
(* The cascade of overrides, in the order of the code. facts holds what    *)
(* the final scan of the worktree finds: new axioms, changed tooling,      *)
(* frozen edits, a failed frozen audit, forbidden constructs, and a        *)
(* sibling that still fails.                                               *)
(***************************************************************************)
FoldedReason(reason, facts) ==
  LET drift  == {"SPEC_DRIFT", "PROCESS_CROSSTALK"}
      axiom  == Override(reason, facts.axiom, "AXIOM_DRIFT", drift)
      tool   == Override(axiom, facts.tooling, "TOOLING_DRIFT",
                         drift \cup {"AXIOM_DRIFT"})
      frozen == Override(tool, facts.frozen \/ facts.auditError, "FROZEN_EDIT",
                         drift \cup {"AXIOM_DRIFT", "TOOLING_DRIFT"})
      forbid == Override(frozen, facts.forbidden, "FORBIDDEN_CONSTRUCT",
                         drift \cup {"AXIOM_DRIFT", "TOOLING_DRIFT", "FROZEN_EDIT"})
  IN  Override(forbid, facts.sibling, "SIBLING_VERUS_FAIL",
               IntegrityRejections
                 \cup (InfraReasons \ {"RATE_LIMIT_OR_HANG"})
                 \cup {"FALSE_CONTRACT"})

(* Mutants: an unmapped label is kept; evidence goes before every label. *)
FinalEndReasonRaw(done, reason) == IF done THEN "COMPLETE" ELSE reason
FinalEndReasonDoneFirst(done, reason) ==
  CASE done -> "COMPLETE"
    [] reason \in {"none", "COMPLETE"} -> "LIMIT"
    [] OTHER -> reason

(***************************************************************************)
(* _final_end_reason: infrastructure halts, integrity labels and verified  *)
(* false contracts are kept; then evidence promotes to COMPLETE; then an   *)
(* escalation is kept; anything else is a LIMIT.                           *)
(***************************************************************************)
FinalEndReason(done, reason) ==
  CASE reason \in InfraReasons \cup IntegrityRejections
                    \cup {"SIBLING_VERUS_FAIL", "FALSE_CONTRACT"} -> reason
    [] OTHER -> IF done THEN "COMPLETE"
                ELSE IF reason = "NEEDS_DECOMP" THEN "NEEDS_DECOMP" ELSE "LIMIT"

(* What becomes of the worktree. *)
Dispositions == {"REJECTED_DRIFTED", "ACCEPTED", "UNCOMMITTED_CANDIDATE"}
Disposition(label) ==
  CASE label \in IntegrityRejections -> "REJECTED_DRIFTED"
    [] label = "COMPLETE"            -> "ACCEPTED"
    [] OTHER                         -> "UNCOMMITTED_CANDIDATE"

(* _should_persist_retry_memory: reasons whose trace is not kept. *)
TraceTaintedReasons == {"GIT_RECOVERY", "USER_INTERRUPTED",
                        "INTERRUPTED_SIGNAL", "PROCESS_CROSSTALK"}
ShouldPersistRetryMemory(label) == label \notin TraceTaintedReasons
==============================================================================
