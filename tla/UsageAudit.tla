----------------------------- MODULE UsageAudit -----------------------------
(***************************************************************************)
(* usage_audit.py: what the provider's receipts of a run establish about   *)
(* its cost.  A stream is one agent turn and what is left of it on disk:   *)
(*   task       the logical task the auditor files it under                *)
(*   lifecycle  the lifecycle receipt: "none", "started" or "exited"       *)
(*   raw        the raw stream, NoRaw or [events, costs, torn]: how many   *)
(*              terminal events, the costs they name, an unreadable line   *)
(*   record     the harness round record: NoRecord, Unpriced, Disowned (a  *)
(*              number marked unreported), or the cost it names            *)
(***************************************************************************)
EXTENDS Integers, Sequences, FiniteSets, SequencesExt, FiniteSetsExt

CONSTANTS NoRaw, NoRecord, Unpriced, Disowned

Largest(S) == IF S = {} THEN 0 ELSE Max(S)
Total(costs) ==
  LET upto[n \in 0..Len(costs)] == IF n = 0 THEN 0 ELSE upto[n - 1] + costs[n]
  IN  upto[Len(costs)]

HasRaw(s) == s.raw # NoRaw
Events(s) == IF HasRaw(s) THEN s.raw.events ELSE 0
TerminalCosts(s) == IF HasRaw(s) THEN s.raw.costs ELSE <<>>
TornLines(s) == HasRaw(s) /\ s.raw.torn

(* The cost a round record establishes: none unless it names a number that *)
(* is not marked as unreported.                                            *)
RecordCosts(s) == {s.record} \ {NoRecord, Unpriced, Disowned}

(* The largest terminal cost, not their sum: the events may be cumulative. *)
(* Mutant: their sum.                                                      *)
SummedCost(s) == Total(TerminalCosts(s))
RecordedCost(s) == Largest(Range(TerminalCosts(s)) \cup RecordCosts(s))
RecordedCosts(ss) == [i \in DOMAIN ss |-> RecordedCost(ss[i])]

Because(condition, reason) == IF condition THEN {reason} ELSE {}
UnresolvedReasons(s) ==
  UNION {Because(~HasRaw(s), "no_raw"),
         Because(TornLines(s), "parse_errors"),
         Because(HasRaw(s) /\ Events(s) = 0, "no_terminal"),
         Because(Events(s) > 1, "several_terminals"),
         Because(Events(s) # Len(TerminalCosts(s)), "unpriced_terminal"),
         Because(TerminalCosts(s) # <<>> /\ RecordCosts(s) # {}
                   /\ RecordCosts(s) # {Largest(Range(TerminalCosts(s)))}, "mismatch"),
         Because(s.record = Disowned, "disowned"),
         Because(s.lifecycle = "none", "no_lifecycle"),
         Because(s.lifecycle = "started", "not_exited")}

(* Mutant: a stream with a terminal event counts as resolved. *)
TerminalResolves(s) == Events(s) > 0
CostResolved(s) == UnresolvedReasons(s) = {}

(* The cost status of a set of streams, seen by the launch `running`.      *)
StatusOf(ss, running) ==
  LET recorded == Total(RecordedCosts(ss))
      gap == \E i \in DOMAIN ss : ~CostResolved(ss[i])
  IN  CASE ss = <<>> -> IF running THEN "unknown" ELSE "not_run"
        [] ss # <<>> /\ (gap \/ running) -> IF recorded > 0 THEN "lower_bound" ELSE "unknown"
        [] OTHER -> "complete"

(* The per-task entry the launcher's marker prints. *)
TaskSummary(ss, t) ==
  LET recorded == Total([i \in DOMAIN ss |-> IF ss[i].task = t THEN RecordedCost(ss[i]) ELSE 0])
      unresolved == {i \in DOMAIN ss : ss[i].task = t /\ ~CostResolved(ss[i])}
  IN  [recorded |-> recorded, unresolved |-> Cardinality(unresolved),
       status |-> IF unresolved = {} THEN "complete"
                  ELSE IF recorded > 0 THEN "lower_bound" ELSE "unknown"]
Tasks(ss) == {ss[i].task : i \in DOMAIN ss}

(* Reconciliation with a provider total: what it was checked against.      *)
Basis(ss, segments) == [recorded |-> Total(RecordedCosts(ss)),
                        attempts |-> Len(ss), segments |-> segments]
NoReconciliation == [status |-> "not_provided", total |-> 0, basis |-> <<>>]
Reconcile(total, basis) ==
  [status |-> IF total < basis.recorded THEN "conflict" ELSE "accepted",
   total |-> total, basis |-> basis]

(* Mutant: a reconciliation stands whatever evidence came after it. *)
StillHoldsAlways(prior, basis, running) == ~running
StillHolds(prior, basis, running) == prior.basis = basis /\ ~running

(* An audit without a provider total keeps the earlier reconciliation only *)
(* on the evidence it was made for.                                        *)
Carry(prior, basis, running) ==
  IF prior.status \notin {"accepted", "conflict"} THEN NoReconciliation
  ELSE IF StillHolds(prior, basis, running) THEN prior
  ELSE [status |-> "stale_after_new_evidence", total |-> 0, basis |-> basis]

(* usage_audit.json of one audit. *)
AuditOf(ss, segments, running, reconciliation) ==
  [recorded |-> Total(RecordedCosts(ss)),
   reconciliation |-> reconciliation,
   attempts |-> Len(ss),
   status |-> CASE reconciliation.status = "conflict" -> "conflict"
                [] reconciliation.status = "accepted" -> "reconciled"
                [] OTHER -> StatusOf(ss, running),
   tasks |-> [t \in Tasks(ss) |-> TaskSummary(ss, t)]]
==============================================================================
