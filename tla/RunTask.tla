------------------------------- MODULE RunTask -------------------------------
(***************************************************************************)
(* One task of the harness (run.py, run_task): rounds of an agent editing  *)
(* a stripped Rust crate, each followed by the harness's own gates, then   *)
(* the final gate that accepts, rejects or leaves the candidate and writes *)
(* the task's artifacts.                                                   *)
(*                                                                         *)
(* The agent is the environment: a turn leaves any of AgentTrees behind.   *)
(* The text of prompts, diagnostics and files is abstracted to what the    *)
(* gates and the properties tell apart.                                    *)
(***************************************************************************)
EXTENDS Naturals, FiniteSets, FinalGate

CONSTANTS
  MaxRounds,                (* rounds the task may use                        *)
  MaxGitRecoveryResets,     (* recoveries from a read of git history          *)
  MaxFrozenEditResets,      (* recoveries from an edit of a frozen file       *)
  MaxSpecDriftRecoveries,   (* restores of one frozen specification item      *)
  MaxAutoResets,            (* fresh sessions on a stall or a bloated context *)
  PlateauStopRounds,        (* rounds without progress that stop; 0 is never  *)
  PlateauResetRounds,       (* rounds without progress that reset the session *)
  WholeCrate,               (* the mode verifies the crate, pins other files  *)
  SpecGate,                 (* frozen specifications are checked every round  *)
  SiblingVerify,            (* helper files the agent edits are re-verified   *)
  ForceGateRecheck,         (* the gate ignores its cache                     *)
  FlakyVerus,               (* a true proof may time out                      *)
  SpecItems,                (* frozen specification items                     *)
  Baseline,                 (* the editable files before the first round      *)
  AgentTrees,               (* what a turn of the agent may leave             *)
  Vices,                    (* the misuses this agent is capable of           *)
  Exits,                    (* the ways the agent process may end             *)
  Claims,                   (* what the agent may declare                     *)
  Faults,                   (* the faults of the harness's own environment    *)
  None                      (* Python's None, and a file that does not exist  *)

(***************************************************************************)
(* The editable files: target, siblings and allow-edit dependencies, the   *)
(* files a snapshot saves.                                                 *)
(*   proved   the package gate succeeds on them in pinned surroundings     *)
(*   admits   an admit() the final gate counts is left                     *)
(*   leaked   they hold text recovered from git history                    *)
(*   spec     the frozen specification items they weaken                   *)
(*   added    the proof-bypass constructs they introduce                   *)
(*   frozen   a saved file outside the active edit scope was changed       *)
(*   sib      the sibling file: as at the start, edited well, or broken    *)
(***************************************************************************)
Tree == [proved : BOOLEAN, admits : BOOLEAN, leaked : BOOLEAN,
         spec : SUBSET SpecItems, added : SUBSET {"axiom", "forbidden"},
         frozen : BOOLEAN, sib : {"base", "edited", "broken"}]

NoResultExits == {"USER_INTERRUPTED", "INTERRUPTED_SIGNAL",
                  "RETRY_EXHAUSTED", "TRANSPORT_ERROR"}

(* "killed" is a SIGKILL at the deadline, "idle" a long turn of no action. *)
ExitKinds == {"result", "killed", "idle", "RATE_LIMITED"} \cup NoResultExits

Turn == [exit : ExitKinds, claim : AgentClaims, git : BOOLEAN, cross : BOOLEAN]

RoundResult == [reason : LoopReasons \cup RecoveredReasons,
                okay : BOOLEAN, drift : SUBSET SpecItems]

(* A gate receipt; the key of a cached one binds files and tool bytes.     *)
GateReceipt == [tree : Tree, stray : BOOLEAN, tooling : BOOLEAN, okay : BOOLEAN,
                status : {"VERIFIED", "SKIPPED_SPEC_DRIFT"}]

Outcome == [label : FinalReasons, state : Dispositions]

Receipt == [outcome : Outcome, tree : Tree, stray : BOOLEAN,
            gate : GateReceipt \cup {None}]

(* Wall-clock left for the agent: 5 minutes or more, less, under a minute. *)
Budgets == {"ample", "short", "spent"}
BudgetsAfter(b) == CASE b = "ample" -> Budgets
                     [] b = "short" -> {"short", "spent"}
                     [] OTHER       -> {"spent"}

ASSUME BoundsAssumption ==
  /\ MaxRounds \in Nat \ {0}
  /\ MaxGitRecoveryResets \in Nat
  /\ MaxFrozenEditResets \in Nat
  /\ MaxSpecDriftRecoveries \in Nat
  /\ MaxAutoResets \in Nat
  /\ PlateauStopRounds \in Nat
  /\ PlateauResetRounds \in Nat \ {0}

ASSUME ModeAssumption ==
  /\ WholeCrate \in BOOLEAN
  /\ SpecGate \in BOOLEAN
  /\ SiblingVerify \in BOOLEAN
  /\ ForceGateRecheck \in BOOLEAN
  /\ FlakyVerus \in BOOLEAN

(* None is none of the values that may stand in its place. *)
ASSUME NoneAssumption ==
  None \notin Tree \cup RoundResult \cup GateReceipt \cup Outcome \cup Receipt

(* A task starts from files that drifted from nothing and leak nothing.    *)
ASSUME AgentAssumption ==
  /\ Baseline \in Tree
  /\ ~Baseline.leaked /\ ~Baseline.frozen
  /\ Baseline.spec = {} /\ Baseline.added = {} /\ Baseline.sib = "base"
  /\ AgentTrees \subseteq Tree
  /\ Vices \subseteq {"git", "crosstalk", "tooling", "stray"}
  /\ Exits \subseteq ExitKinds
  /\ Claims \subseteq AgentClaims
  /\ Faults \subseteq {"setup", "spec", "audit", "revert", "restore", "crash"}

VARIABLES
  pc,             (* the stage of run_task                                    *)
  round,          (* round_num                                                *)
  budget,         (* remaining_s                                              *)
  tree,           (* the editable files                                       *)
  stray,          (* a tracked file no snapshot saves was changed             *)
  tooling,        (* skills/ or lib/ differ from their digest at the start    *)
  snaps,          (* snapshots/round_N                                        *)
  turn,           (* what the round's raw stream and result event show        *)
  trace,          (* the misuses the raw streams of this run record           *)
  context,        (* recovered text is in the agent's session                 *)
  results,        (* round_results, by round number                           *)
  cache,          (* gate_cache                                               *)
  lastGate,       (* last_gate_receipt                                        *)
  unheard,        (* history: rounds whose drift spec_check could not tell    *)
  fresh,          (* fresh_next_round                                         *)
  sessionStart,   (* session_start_round                                      *)
  autoResets,     (* auto_resets_used                                         *)
  sinceLow,       (* rounds_since_new_low, up to PlateauStopRounds            *)
  gitResets,      (* git_recovery_resets                                      *)
  frozenResets,   (* frozen_edit_resets                                       *)
  specCounts,     (* spec_drift_recovery_counts                               *)
  siblingHash,    (* sibling_hashes                                           *)
  siblingFail,    (* pending_sibling_fail is not empty                        *)
  lastGood,       (* last_good_snapshot_round                                 *)
  lastClean,      (* last_integrity_clean_snapshot_round                      *)
  endReason,      (* end_reason as the loop leaves it                         *)
  outcome,        (* final_end_reason and the terminal disposition            *)
  artifacts       (* what the task has written, see Artifacts                 *)

files      == <<tree, stray, tooling>>
sessionVars == <<context, fresh, sessionStart, autoResets, sinceLow>>
counters   == <<gitResets, frozenResets, specCounts>>
siblings   == <<siblingHash, siblingFail>>
targets    == <<lastGood, lastClean>>
gateVars   == <<cache, lastGate, unheard>>
streams    == <<turn, trace>>
ending     == <<endReason, outcome, artifacts>>

vars == <<pc, round, budget, files, snaps, streams, results, gateVars,
          sessionVars, counters, siblings, targets, ending>>

(* receipt: promotion_receipt.json; result: the end_reason of result.json; *)
(* memory: the retry memory written; registered: in proven_registry.json.  *)
Artifacts == [receipt : Receipt \cup {None}, result : FinalReasons \cup {None},
              memory : SUBSET {"brief", "failure"}, registered : BOOLEAN]

------------------------------------------------------------------------------
(* Vocabulary of the actions. *)

(* round_results[-1]: the loop leaves no gap, a 429 appends nothing. *)
LastResult == IF round \in 1..MaxRounds /\ results[round] # None
              THEN results[round] ELSE results[round - 1]
LastOkay == LastResult # None /\ LastResult.okay

(* Mutant: only the label of the round changes. *)
TaintedLabelOnly(rr, reason) == [rr EXCEPT !.reason = reason]

(* Evidence withdrawn from a round: its green no longer describes the tree. *)
Tainted(rr, reason) == [rr EXCEPT !.okay = FALSE, !.reason = reason]
TaintRound(reason) ==
  results' = [results EXCEPT ![round] = Tainted(results[round], reason)]

(* Copy a snapshot back over the editable files, if it exists. *)
Restored(n) == IF snaps[n] # None THEN snaps[n] ELSE tree

(* The rounds whose diffs the next prompt shows: two, of this session. *)
HistoryRounds == {r \in 1..(round - 1) : r >= sessionStart /\ r + 2 >= round}

(* A diff shows removed lines too: either end of it may leak. *)
HistoryLeaks ==
  \E r \in HistoryRounds :
     /\ snaps[r - 1] # None /\ snaps[r] # None /\ snaps[r - 1] # snaps[r]
     /\ snaps[r - 1].leaked \/ snaps[r].leaked

(* The verifier's answer; doctored tools and edited surroundings may give any. *)
Verdicts ==
  IF tooling \/ stray THEN BOOLEAN
  ELSE IF FlakyVerus THEN {tree.proved, FALSE} ELSE {tree.proved}

(* Mutant: a cached receipt is found whatever tools obtained it. *)
SameKeyAnyTools(e) == e.tree = tree /\ e.stray = stray

(* Receipts of this very tree obtained by these very tools. *)
SameKey(e) == e.tree = tree /\ e.stray = stray /\ e.tooling = tooling
CacheHits == IF ForceGateRecheck THEN {} ELSE {e \in cache : SameKey(e)}

(***************************************************************************)
(* The drift spec_check reports of t.  Doctored tools may hide it, and so  *)
(* does a verdict that cannot be read: output that is not JSON and an      *)
(* error without a list of drift both count as none, whatever the exit     *)
(* code (with no drift to hear, it makes no difference).                   *)
(***************************************************************************)
Hearing(t) ==
  IF SpecGate /\ "spec" \in Faults /\ t.spec # {} THEN BOOLEAN ELSE {TRUE}
SpecReports(t, heard) ==
  IF ~SpecGate \/ ~heard THEN {{}}
  ELSE IF tooling THEN {t.spec, {}} ELSE {t.spec}

FrozenChanged == WholeCrate /\ (tree.frozen \/ stray)
PlateauStopNow == PlateauStopRounds > 0 /\ sinceLow >= PlateauStopRounds

(* rounds_since_new_low: a new low, none, or an indeterminate round. *)
SinceLowAfter ==
  IF PlateauStopRounds = 0 THEN {sinceLow}
  ELSE {0, sinceLow, IF sinceLow < PlateauStopRounds THEN sinceLow + 1 ELSE sinceLow}

Break(reason) == /\ pc' = "fold"
                 /\ endReason' = reason
                 /\ UNCHANGED <<round, outcome, artifacts>>

(* Mutant: a recovered round is not charged. *)
SameRound == /\ pc' = "start"
             /\ UNCHANGED <<round, ending>>
NextRound == /\ pc' = "start"
             /\ round' = round + 1
             /\ UNCHANGED ending

------------------------------------------------------------------------------
Init ==
  /\ pc = "setup"
  /\ round = 1
  /\ budget = "ample"
  /\ tree = Baseline /\ stray = FALSE /\ tooling = FALSE
  /\ snaps = [n \in 0..MaxRounds |-> None]
  /\ turn = [exit |-> "result", claim |-> "none", git |-> FALSE, cross |-> FALSE]
  /\ trace = {}
  /\ context = FALSE
  /\ results = [n \in 0..MaxRounds |-> None]
  /\ cache = {} /\ lastGate = None /\ unheard = {}
  /\ fresh = FALSE /\ sessionStart = 1 /\ autoResets = 0 /\ sinceLow = 0
  /\ gitResets = 0 /\ frozenResets = 0 /\ specCounts = [i \in SpecItems |-> 0]
  /\ siblingHash = "base" /\ siblingFail = FALSE
  /\ lastGood = 0 /\ lastClean = 0
  /\ endReason = "none"
  /\ outcome = None
  /\ artifacts = [receipt |-> None, result |-> None, memory |-> {},
                  registered |-> FALSE]

(* The baseline is saved before the first round. *)
Setup ==
  /\ pc = "setup"
  /\ snaps' = [snaps EXCEPT ![0] = tree]
  /\ pc' = "start"
  /\ UNCHANGED <<round, budget, files, streams, results, gateVars, sessionVars,
                 counters, siblings, targets, ending>>

(* Early returns, each with what it leaves of a result.json. *)
Return(result) ==
  /\ pc = "setup" /\ "setup" \in Faults
  /\ artifacts' = [artifacts EXCEPT !.result = result]
  /\ pc' = "done"
  /\ UNCHANGED <<round, budget, files, streams, results, gateVars, sessionVars,
                 counters, siblings, targets, endReason, outcome>>

(* A file outside the active edit scope holds an admit COMPLETE counts. *)
ActiveEditOmitsAdmits == Return("ERROR") /\ UNCHANGED snaps

(* spec_check snapshot fails: no result is written. *)
SpecSnapshotFails == Return(None) /\ UNCHANGED snaps

(* The sealed worktree still holds the original, seen past the baseline. *)
ObjectStoreLeaks == Return("GIT_RECOVERY") /\ snaps' = [snaps EXCEPT ![0] = tree]

SetupFails == ActiveEditOmitsAdmits \/ SpecSnapshotFails \/ ObjectStoreLeaks

(* The for loop runs out, or less than a minute is left. *)
LoopEnds ==
  /\ pc = "start"
  /\ round > MaxRounds \/ budget = "spent"
  /\ pc' = "fold"
  /\ UNCHANGED <<round, budget, files, snaps, streams, results, gateVars,
                 sessionVars, counters, siblings, targets, ending>>

(* Under five minutes: leave the loop, over the last good files if broken. *)
BudgetBailOut ==
  /\ pc = "start" /\ round <= MaxRounds /\ budget = "short"
  /\ IF LastResult # None /\ ~LastOkay
     THEN tree' = Restored(lastGood) /\ siblingFail' = FALSE
     ELSE UNCHANGED <<tree, siblingFail>>
  /\ pc' = "fold"
  /\ UNCHANGED <<round, budget, stray, tooling, snaps, streams, results, gateVars,
                 sessionVars, counters, siblingHash, targets, ending>>

(* The prompt: a fresh session drops the context, the history may refill it. *)
BeginRound ==
  /\ pc = "start" /\ round <= MaxRounds /\ budget = "ample"
  /\ context' = ((context /\ ~fresh) \/ HistoryLeaks)
  /\ pc' = "agent"
  /\ UNCHANGED <<round, budget, files, snaps, streams, results, gateVars, fresh,
                 sessionStart, autoResets, sinceLow, counters, siblings, targets,
                 ending>>

(***************************************************************************)
(* run_claude_round: the agent edits, and its process ends.  Recovered     *)
(* text has a source: the files, the session, or a read of git history.    *)
(***************************************************************************)
AgentTurn ==
  /\ pc = "agent"
  /\ tree' \in AgentTrees \cup {tree}
  /\ stray' \in BOOLEAN /\ (stray' # stray => "stray" \in Vices)
  /\ tooling' \in BOOLEAN /\ (tooling' # tooling => "tooling" \in Vices)
  /\ turn' \in [exit : Exits, claim : Claims, git : BOOLEAN, cross : BOOLEAN]
  /\ turn'.git => "git" \in Vices
  /\ turn'.cross => "crosstalk" \in Vices
  /\ tree'.leaked => tree.leaked \/ context \/ turn'.git
  /\ turn'.exit # "result" => turn'.claim = "none"
  /\ turn'.exit = "idle" => UNCHANGED files /\ ~turn'.git /\ ~turn'.cross
  /\ trace' = trace \cup (IF turn'.git THEN {"git"} ELSE {})
                    \cup (IF turn'.cross THEN {"crosstalk"} ELSE {})
  /\ context' = (context \/ turn'.git)
  /\ budget' \in BudgetsAfter(budget)
  /\ fresh' = FALSE
  /\ pc' = "post"
  /\ UNCHANGED <<round, snaps, results, gateVars, sessionStart, autoResets,
                 sinceLow, counters, siblings, targets, ending>>

(* A 429: no round result, no gate, the sweep must stop. *)
RateLimited ==
  /\ pc = "post" /\ turn.exit = "RATE_LIMITED"
  /\ Break("RATE_LIMITED")
  /\ UNCHANGED <<budget, files, snaps, streams, results, gateVars, sessionVars,
                 counters, siblings, targets>>

(* No result event: the stream's taint first, else how the process ended. *)
NoResultReason == IF turn.git THEN "GIT_RECOVERY"
                  ELSE IF turn.cross THEN "PROCESS_CROSSTALK" ELSE turn.exit
NoResultExit ==
  /\ pc = "post" /\ turn.exit \in NoResultExits
  /\ \E heard \in Hearing(tree) : \E drift \in SpecReports(tree, heard) :
       results' = [results EXCEPT ![round] = [reason |-> NoResultReason,
                                              okay |-> FALSE, drift |-> drift]]
  /\ Break(NoResultReason)
  /\ UNCHANGED <<budget, files, snaps, streams, gateVars, sessionVars, counters,
                 siblings, targets>>

(***************************************************************************)
(* The gates that judge the round's tree: frozen specifications first; if  *)
(* they drifted Verus is skipped, else the package gate answers, from its  *)
(* cache when it knows the tree.  The tree is then saved, edited siblings  *)
(* are re-verified, and progress is counted.                               *)
(***************************************************************************)
GateReceiptOf(status, okay) ==
  [tree |-> tree, stray |-> stray, tooling |-> tooling, okay |-> okay,
   status |-> status]

GateAnswers(drift) ==
  IF drift # {} THEN {GateReceiptOf("SKIPPED_SPEC_DRIFT", FALSE)}
  ELSE IF CacheHits # {} THEN CacheHits
  ELSE {GateReceiptOf("VERIFIED", v) : v \in Verdicts}

(* Surroundings other than the pinned ones are too many to be told apart. *)
CacheAfter(receipt) ==
  IF receipt.status = "VERIFIED" /\ ~stray
  THEN {e \in cache : ~SameKey(e)} \cup {receipt}
  ELSE cache

SiblingGateOn == SiblingVerify /\ ~WholeCrate
SiblingEdited == SiblingGateOn /\ tree.sib # siblingHash

(* Mutant: a sibling that did not change is taken to verify. *)
SiblingVerdictsForgetful == IF ~SiblingEdited THEN {TRUE} ELSE {tree.sib # "broken"}

SiblingVerdicts ==
  IF ~SiblingEdited THEN {~siblingFail}
  ELSE IF tooling THEN BOOLEAN
  ELSE IF FlakyVerus THEN {tree.sib # "broken", FALSE} ELSE {tree.sib # "broken"}

Record(drift, receipt, siblingOkay) ==
  /\ lastGate' = receipt
  /\ cache' = CacheAfter(receipt)
  /\ siblingFail' = ~siblingOkay
  /\ results' = [results EXCEPT ![round] =
       [reason |-> turn.claim, okay |-> receipt.okay /\ siblingOkay, drift |-> drift]]

GateRound ==
  /\ pc = "post" /\ turn.exit \in {"result", "killed", "idle"}
  /\ \E heard \in Hearing(tree) :
       /\ unheard' = IF heard THEN unheard ELSE unheard \cup {round}
       /\ \E drift \in SpecReports(tree, heard) : \E receipt \in GateAnswers(drift),
             siblingOkay \in SiblingVerdicts : Record(drift, receipt, siblingOkay)
  /\ sinceLow' \in SinceLowAfter
  /\ siblingHash' = IF SiblingGateOn THEN tree.sib ELSE siblingHash
  /\ snaps' = [snaps EXCEPT ![round] = tree]
  /\ pc' = "session"
  /\ UNCHANGED <<round, budget, files, streams, context, fresh, sessionStart,
                 autoResets, counters, targets, ending>>

(* A long turn without one action: leave, over the last good files if broken. *)
HangBailOut ==
  /\ pc = "session" /\ turn.exit = "idle"
  /\ IF results[round].okay
     THEN UNCHANGED <<tree, siblingFail>>
     ELSE tree' = Restored(lastGood) /\ siblingFail' = FALSE
  /\ Break("RATE_LIMIT_OR_HANG")
  /\ UNCHANGED <<budget, stray, tooling, snaps, streams, results, gateVars,
                 sessionVars, counters, siblingHash, targets>>

(* A stalled or bloated session is replaced, a bounded number of times; a   *)
(* plateau replaces it too.                                                 *)
SessionControl ==
  /\ pc = "session" /\ turn.exit # "idle"
  /\ \E auto \in BOOLEAN :
       /\ auto => autoResets < MaxAutoResets /\ round < MaxRounds
       /\ autoResets' = IF auto THEN autoResets + 1 ELSE autoResets
       /\ LET plateau == /\ PlateauStopRounds > 0 /\ ~auto
                         /\ sinceLow >= PlateauResetRounds /\ round < MaxRounds
          IN  /\ fresh' = (auto \/ plateau)
              /\ sessionStart' = IF auto \/ plateau THEN round + 1 ELSE sessionStart
  /\ pc' = "integrity"
  /\ UNCHANGED <<round, budget, files, snaps, streams, results, gateVars, context,
                 sinceLow, counters, siblings, targets, ending>>

------------------------------------------------------------------------------
(* The integrity gates, in the order in which the code consults them. *)

AtCrosstalkGate == pc = "integrity"
AtGitGate       == AtCrosstalkGate /\ ~turn.cross
AtToolingGate   == AtGitGate /\ ~turn.git
AtSpecGate      == AtToolingGate /\ ~tooling

(* Mutant: reported drift does not stop the round. *)
PastSpecGate == AtSpecGate

AtFrozenGate == AtSpecGate /\ results[round].drift = {}
AtAxiomGate     == AtFrozenGate /\ ~FrozenChanged

(* Mutant: new axioms do not stop the round. *)
PastAxiomGate   == AtAxiomGate

AtForbiddenGate == AtAxiomGate /\ "axiom" \notin tree.added
AtClaim         == AtForbiddenGate /\ "forbidden" \notin tree.added

(* Unsafe process control: the round is tainted, the task over. *)
ProcessCrosstalk ==
  /\ AtCrosstalkGate /\ turn.cross
  /\ TaintRound("PROCESS_CROSSTALK")
  /\ Break("PROCESS_CROSSTALK")
  /\ UNCHANGED <<budget, files, snaps, streams, gateVars, sessionVars, counters,
                 siblings, targets>>

(* Mutant: off by one. *)
GitCapExceeded == gitResets > MaxGitRecoveryResets
GitCapReached == gitResets >= MaxGitRecoveryResets

(* One read of git history too many: the task is over, nothing rolled back. *)
GitRecoveryOverCap ==
  /\ AtGitGate /\ turn.git /\ GitCapReached
  /\ gitResets' = gitResets + 1
  /\ Break("GIT_RECOVERY")
  /\ UNCHANGED <<budget, files, snaps, streams, results, gateVars, sessionVars,
                 frozenResets, specCounts, siblings, targets>>

(* The saved files go back to the previous round's, the session is dropped. *)
GitRecovery ==
  /\ AtGitGate /\ turn.git /\ ~GitCapReached
  /\ gitResets' = gitResets + 1
  /\ tree' = Restored(round - 1)
  /\ fresh' = TRUE /\ sessionStart' = round + 1
  /\ TaintRound("GIT_RECOVERY_RECOVERED")
  /\ NextRound
  /\ UNCHANGED <<budget, stray, tooling, snaps, streams, gateVars, context,
                 autoResets, sinceLow, frozenResets, specCounts, siblings, targets>>

ToolingDrift ==
  /\ AtToolingGate /\ tooling
  /\ Break("TOOLING_DRIFT")
  /\ UNCHANGED <<budget, files, snaps, streams, results, gateVars, sessionVars,
                 counters, siblings, targets>>

(* Each drifted item is counted; the count is not reset by this round. *)
CountedDrift == [i \in SpecItems |-> IF i \in results[round].drift
                                     THEN specCounts[i] + 1 ELSE specCounts[i]]

(* Mutant: the count is read before this round is added. *)
SpecDriftOverCapLate == \E i \in results[round].drift :
                           specCounts[i] > MaxSpecDriftRecoveries
SpecDriftOverCap == \E i \in results[round].drift :
                       CountedDrift[i] > MaxSpecDriftRecoveries

(* The same item once too often: the task is over, the drift still on disk. *)
SpecDriftOverCapEnds ==
  /\ AtSpecGate /\ SpecDriftOverCap
  /\ specCounts' = CountedDrift
  /\ TaintRound("SPEC_DRIFT")
  /\ Break("SPEC_DRIFT")
  /\ UNCHANGED <<budget, files, snaps, streams, gateVars, sessionVars, gitResets,
                 frozenResets, siblings, targets>>

(* The frozen items are put back, one by one or with their whole file; a   *)
(* restore that goes wrong leaves some of them.                            *)
PutBack(p, a, s) == [proved |-> p, admits |-> a, spec |-> s, leaked |-> tree.leaked,
                     added |-> tree.added, frozen |-> tree.frozen, sib |-> tree.sib]
Unrestored == IF "restore" \in Faults THEN SUBSET tree.spec ELSE {{}}
RestoredSpecs ==
  {PutBack(p, a, s) : p \in BOOLEAN, a \in BOOLEAN, s \in Unrestored} \cup {Restored(0)}

(* A file that cannot be restored, or drift that remains: the task is over. *)
SpecRestoreFails ==
  /\ AtSpecGate /\ results[round].drift # {} /\ ~SpecDriftOverCap
  /\ "restore" \in Faults
  /\ specCounts' = CountedDrift
  /\ tree' \in RestoredSpecs \cup {tree}
  /\ TaintRound("SPEC_DRIFT")
  /\ Break("SPEC_DRIFT")
  /\ UNCHANGED <<budget, stray, tooling, snaps, streams, gateVars, sessionVars,
                 gitResets, frozenResets, siblings, targets>>

(* Nothing drifts any more, as far as spec_check can be heard. *)
SpecDriftRecovery ==
  /\ AtSpecGate /\ results[round].drift # {} /\ ~SpecDriftOverCap
  /\ specCounts' = CountedDrift
  /\ \E t \in RestoredSpecs :
       /\ \E heard \in Hearing(t) : {} \in SpecReports(t, heard)
       /\ tree' = t /\ snaps' = [snaps EXCEPT ![round] = t]
  /\ TaintRound("SPEC_DRIFT_RECOVERED")
  /\ NextRound
  /\ UNCHANGED <<budget, stray, tooling, streams, gateVars, sessionVars, gitResets,
                 frozenResets, siblings, targets>>

NoDriftCounted == [i \in SpecItems |-> 0]

(* The audit of frozen files cannot be made: no claim about them can be kept. *)
FrozenAuditFails ==
  /\ AtFrozenGate /\ WholeCrate /\ "audit" \in Faults
  /\ specCounts' = NoDriftCounted
  /\ Break("FROZEN_EDIT")
  /\ UNCHANGED <<budget, files, snaps, streams, results, gateVars, sessionVars,
                 gitResets, frozenResets, siblings, targets>>

(* One frozen edit too many: the task is over, nothing reverted. *)
FrozenEditOverCap ==
  /\ AtFrozenGate /\ FrozenChanged /\ frozenResets >= MaxFrozenEditResets
  /\ specCounts' = NoDriftCounted
  /\ frozenResets' = frozenResets + 1
  /\ Break("FROZEN_EDIT")
  /\ UNCHANGED <<budget, files, snaps, streams, results, gateVars, sessionVars,
                 gitResets, siblings, targets>>

(* Frozen files go back to HEAD; whether the rest still proves is unknown. *)
RevertedTrees == IF tree.frozen
                 THEN {[tree EXCEPT !.frozen = FALSE, !.proved = p] : p \in BOOLEAN}
                 ELSE {tree}

(* A revert that leaves some frozen file changed, or cannot be audited. *)
FrozenRevertFails ==
  /\ AtFrozenGate /\ FrozenChanged /\ frozenResets < MaxFrozenEditResets
  /\ "revert" \in Faults
  /\ specCounts' = NoDriftCounted
  /\ frozenResets' = frozenResets + 1
  /\ tree' \in {tree} \cup RevertedTrees
  /\ stray' \in {stray, FALSE}
  /\ Break("FROZEN_EDIT")
  /\ UNCHANGED <<budget, tooling, snaps, streams, results, gateVars, sessionVars,
                 gitResets, siblings, targets>>

FrozenEditRecovery ==
  /\ AtFrozenGate /\ FrozenChanged /\ frozenResets < MaxFrozenEditResets
  /\ specCounts' = NoDriftCounted
  /\ frozenResets' = frozenResets + 1
  /\ tree' \in RevertedTrees
  /\ stray' = FALSE
  /\ TaintRound("FROZEN_EDIT_RECOVERED")
  /\ NextRound
  /\ UNCHANGED <<budget, tooling, snaps, streams, gateVars, sessionVars, gitResets,
                 siblings, targets>>

AxiomDrift ==
  /\ AtAxiomGate /\ "axiom" \in tree.added
  /\ specCounts' = NoDriftCounted
  /\ Break("AXIOM_DRIFT")
  /\ UNCHANGED <<budget, files, snaps, streams, results, gateVars, sessionVars,
                 gitResets, frozenResets, siblings, targets>>

ForbiddenConstruct ==
  /\ AtForbiddenGate /\ "forbidden" \in tree.added
  /\ specCounts' = NoDriftCounted
  /\ Break("FORBIDDEN_CONSTRUCT")
  /\ UNCHANGED <<budget, files, snaps, streams, results, gateVars, sessionVars,
                 gitResets, frozenResets, siblings, targets>>

------------------------------------------------------------------------------
(* Every gate passed: the round may become a rollback target, and what the  *)
(* agent declared is judged.                                                *)

MarkRound ==
  /\ lastGood' = IF results[round].okay THEN round ELSE lastGood
  /\ lastClean' = round
  /\ specCounts' = NoDriftCounted

CompleteEarned == turn.claim = "COMPLETE" /\ results[round].okay /\ ~tree.admits

(* A claimed false contract is believed only once its witness is checked. *)
FalseContract ==
  /\ AtClaim /\ turn.claim = "FALSE_CONTRACT"
  /\ MarkRound
  /\ \E label \in {"FALSE_CONTRACT", "NEEDS_DECOMP"} :
       /\ results' = [results EXCEPT ![round].reason = label]
       /\ Break(label)
  /\ UNCHANGED <<budget, files, snaps, streams, gateVars, sessionVars, gitResets,
                 frozenResets, siblings>>

(* An escalation, or a COMPLETE the evidence supports, ends the task. *)
ClaimAccepted ==
  /\ AtClaim
  /\ turn.claim = "NEEDS_DECOMP" \/ CompleteEarned
  /\ MarkRound
  /\ Break(turn.claim)
  /\ UNCHANGED <<budget, files, snaps, streams, results, gateVars, sessionVars,
                 gitResets, frozenResets, siblings>>

(* Nothing ends the task: stop at the plateau, or go on. *)
NothingClaimed ==
  AtClaim /\ turn.claim \notin {"FALSE_CONTRACT", "NEEDS_DECOMP"} /\ ~CompleteEarned

PlateauStop ==
  /\ NothingClaimed /\ PlateauStopNow
  /\ MarkRound
  /\ Break("LIMIT")
  /\ UNCHANGED <<budget, files, snaps, streams, results, gateVars, sessionVars,
                 gitResets, frozenResets, siblings>>

KeepGoing ==
  /\ NothingClaimed /\ ~PlateauStopNow
  /\ MarkRound
  /\ NextRound
  /\ UNCHANGED <<budget, files, snaps, streams, results, gateVars, sessionVars,
                 gitResets, frozenResets, siblings>>

------------------------------------------------------------------------------
(* After the loop. *)

(* What the last scan of the worktree finds; err: the audit cannot be made. *)
FinalFacts(err) ==
  [axiom |-> "axiom" \in tree.added, tooling |-> tooling,
   frozen |-> FrozenChanged /\ ~err, auditError |-> err,
   forbidden |-> "forbidden" \in tree.added, sibling |-> siblingFail]


(* Mutant: no admit left is taken for done. *)
DoneByAdmits(facts) == ~tree.admits /\ ~facts.axiom /\ ~facts.tooling /\ ~facts.forbidden

DoneForReal(facts) ==
  /\ LastOkay /\ ~tree.admits
  /\ ~facts.axiom /\ ~facts.tooling /\ ~facts.frozen /\ ~facts.auditError
  /\ ~facts.forbidden /\ ~facts.sibling

(* Mutant: the last green files instead of the last clean ones. *)
LastGoodPoint == lastGood

(* A rejected worktree gets back its last integrity-clean files. *)
RestorePoint == lastClean
CloseTask ==
  /\ pc = "fold"
  /\ \E err \in BOOLEAN :
       /\ err => WholeCrate /\ "audit" \in Faults
       /\ LET facts == FinalFacts(err)
              label == FinalEndReason(DoneForReal(facts), FoldedReason(endReason, facts))
          IN  /\ outcome' = [label |-> label, state |-> Disposition(label)]
              /\ tree' = IF Disposition(label) = "REJECTED_DRIFTED"
                         THEN Restored(RestorePoint) ELSE tree
  /\ pc' = "receipt"
  /\ UNCHANGED <<round, budget, stray, tooling, snaps, streams, results, gateVars,
                 sessionVars, counters, siblings, targets, endReason, artifacts>>

Write(stage, next, written) ==
  /\ pc = stage
  /\ artifacts' = written
  /\ pc' = next
  /\ UNCHANGED <<round, budget, files, snaps, streams, results, gateVars, sessionVars,
                 counters, siblings, targets, endReason, outcome>>

(* promotion_receipt.json, before anything that relies on the decision. *)
WriteReceipt ==
  Write("receipt", "result", [artifacts EXCEPT !.receipt =
    [outcome |-> outcome, tree |-> tree, stray |-> stray, gate |-> lastGate]])

WriteResult ==
  Write("result", "brief", [artifacts EXCEPT !.result = outcome.label])

(* discovery_brief.update mines the raw streams of the run. *)
WriteBrief ==
  Write("brief", "failure", [artifacts EXCEPT !.memory =
    IF ShouldPersistRetryMemory(outcome.label) THEN {"brief"} ELSE {}])

(* Mutant: green counts as success. *)
GreenAtTheEnd == LastOkay
Success == outcome.label = "COMPLETE"

(* failure_memory.record, of a failure. *)
WriteFailure ==
  Write("failure", "registry", [artifacts EXCEPT !.memory =
    IF ~Success /\ ShouldPersistRetryMemory(outcome.label)
    THEN @ \cup {"failure"} ELSE @])

(* proven_registry.json, of a success. *)
WriteRegistry ==
  Write("registry", "done", [artifacts EXCEPT !.registered = Success])

(* The harness dies: killed, or an exception no handler expects. *)
Crash ==
  /\ "crash" \in Faults
  /\ pc \notin {"done", "crashed"}
  /\ pc' = "crashed"
  /\ UNCHANGED <<round, budget, files, snaps, streams, results, gateVars, sessionVars,
                 counters, siblings, targets, ending>>

Gate == \/ ProcessCrosstalk \/ GitRecoveryOverCap \/ GitRecovery \/ ToolingDrift
        \/ SpecDriftOverCapEnds \/ SpecRestoreFails \/ SpecDriftRecovery
        \/ FrozenAuditFails \/ FrozenEditOverCap \/ FrozenRevertFails
        \/ FrozenEditRecovery
        \/ AxiomDrift \/ ForbiddenConstruct

Claim == FalseContract \/ ClaimAccepted \/ PlateauStop \/ KeepGoing

Round == \/ LoopEnds \/ BudgetBailOut \/ BeginRound \/ AgentTurn \/ RateLimited
         \/ NoResultExit \/ GateRound \/ HangBailOut \/ SessionControl

Close == \/ CloseTask \/ WriteReceipt \/ WriteResult \/ WriteBrief \/ WriteFailure
         \/ WriteRegistry

Step == Setup \/ SetupFails \/ Round \/ Gate \/ Claim \/ Close

Next == Step \/ Crash

Spec == Init /\ [][Next]_vars

(* run_task is one thread that never waits on anything but a process it     *)
(* kills at its deadline: it keeps taking steps until it ends or dies.      *)
FairSpec == Spec /\ WF_vars(Step)

------------------------------------------------------------------------------
Stages == {"setup", "start", "agent", "post", "session", "integrity", "fold",
           "receipt", "result", "brief", "failure", "registry", "done", "crashed"}

(* The types, one part for each group of variables the actions change. *)
ControlType  == pc \in Stages /\ round \in 1..(MaxRounds + 1) /\ budget \in Budgets
FilesType    == tree \in Tree /\ stray \in BOOLEAN /\ tooling \in BOOLEAN
SnapsType    == snaps \in [0..MaxRounds -> Tree \cup {None}]
StreamsType  == turn \in Turn /\ trace \subseteq {"git", "crosstalk"}
ResultsType  == results \in [0..MaxRounds -> RoundResult \cup {None}]
GateType     == /\ cache \subseteq GateReceipt /\ lastGate \in GateReceipt \cup {None}
                /\ unheard \subseteq 1..MaxRounds
SessionType  == /\ context \in BOOLEAN /\ fresh \in BOOLEAN
                /\ sessionStart \in 1..(MaxRounds + 1)
                /\ autoResets \in 0..MaxAutoResets
                /\ sinceLow \in 0..PlateauStopRounds
CountersType == /\ gitResets \in Nat /\ frozenResets \in Nat
                /\ specCounts \in [SpecItems -> Nat]
SiblingsType == siblingHash \in {"base", "edited", "broken"} /\ siblingFail \in BOOLEAN
TargetsType  == lastGood \in 0..MaxRounds /\ lastClean \in 0..MaxRounds
EndingType   == /\ endReason \in LoopReasons
                /\ outcome \in Outcome \cup {None}
                /\ artifacts \in Artifacts

TypeOK ==
  /\ ControlType /\ FilesType /\ SnapsType /\ StreamsType /\ ResultsType /\ GateType
  /\ SessionType /\ CountersType /\ SiblingsType /\ TargetsType /\ EndingType
------------------------------------------------------------------------------
(* Safety. *)

Closed == outcome # None
Accepted == Closed /\ outcome.state = "ACCEPTED"

(* Free of every drift the gates of this mode look for, as far as the gates *)
(* of round n could be heard: a spec_check that could not lets a weakened   *)
(* specification pass (see SpecDriftIsRefused).                             *)
IntegrityClean(t, n) ==
  /\ t.added = {}
  /\ SpecGate /\ n \notin unheard => t.spec = {}
  /\ WholeCrate => ~t.frozen

(***************************************************************************)
(* A candidate is ACCEPTED only if the files on disk are really done: no   *)
(* admit left, no drift its last clean round could be heard of, no         *)
(* doctored tool, frozen files as they were, and a proof the untouched     *)
(* verifier accepts - whatever rounds, recoveries and rollbacks led there. *)
(***************************************************************************)
AcceptedIsHonest ==
  Accepted => /\ ~tree.admits /\ ~tooling
              /\ IntegrityClean(tree, lastClean)
              /\ WholeCrate => ~stray
              /\ ~stray => tree.proved

(***************************************************************************)
(* An accepted receipt carries the gate receipt of exactly the tree it     *)
(* promotes: no recovery, rollback or cache hit comes in between.          *)
(***************************************************************************)
AcceptedTreeWasGated ==
  LET r == artifacts.receipt
  IN  r # None /\ r.outcome.state = "ACCEPTED" =>
        /\ r.gate # None /\ r.gate.okay
        /\ r.gate.tree = r.tree /\ r.tree = tree /\ r.gate.stray = r.stray
        /\ r.gate.tooling = tooling

(***************************************************************************)
(* The snapshots the harness may roll back to are untainted: the last good *)
(* one was green when every gate passed it, the last clean one passed them *)
(* all, and neither was overwritten since.                                 *)
(***************************************************************************)
RollbackTargetsClean ==
  /\ lastGood <= lastClean
  /\ lastGood > 0 => /\ snaps[lastGood] # None
                     /\ IntegrityClean(snaps[lastGood], lastGood)
                     /\ results[lastGood] # None /\ results[lastGood].okay
                     /\ WholeCrate => snaps[lastGood].proved
  /\ lastClean > 0 => /\ snaps[lastClean] # None
                      /\ IntegrityClean(snaps[lastClean], lastClean)

(***************************************************************************)
(* A rejected worktree is left with the last integrity-clean files, never  *)
(* with the bytes that were rejected.                                      *)
(***************************************************************************)
RejectedIsRestored ==
  Closed /\ outcome.state = "REJECTED_DRIFTED" =>
    tree = snaps[lastClean] /\ IntegrityClean(tree, lastClean)

(* The rounds that ended in a given recovery. *)
Recovered(reason) ==
  {n \in 1..MaxRounds : results[n] # None /\ results[n].reason = reason}

(***************************************************************************)
(* Recoveries are rationed: a task survives at most the capped number of   *)
(* reads of git history and of frozen edits, and an item of the frozen     *)
(* specification is not restored more than its cap in consecutive rounds.  *)
(***************************************************************************)
RecoveryCaps ==
  /\ Cardinality(Recovered("GIT_RECOVERY_RECOVERED")) <= MaxGitRecoveryResets
  /\ Cardinality(Recovered("FROZEN_EDIT_RECOVERED")) <= MaxFrozenEditResets
  /\ \A i \in SpecItems, n \in 1..MaxRounds :
       n + MaxSpecDriftRecoveries <= MaxRounds =>
         \E k \in n..(n + MaxSpecDriftRecoveries) :
            ~(k \in Recovered("SPEC_DRIFT_RECOVERED") /\ i \in results[k].drift)

(***************************************************************************)
(* A misuse the loop ended on is never forgotten by the final gate: the    *)
(* task ends with an integrity rejection, whatever else is seen.           *)
(***************************************************************************)
MisuseIsRejected ==
  Closed /\ endReason \in IntegrityRejections => outcome.label \in IntegrityRejections

(***************************************************************************)
(* A halt of the infrastructure never promotes the candidate, even when    *)
(* the last verified round left nothing to prove.                          *)
(***************************************************************************)
HaltIsNeverPromoted ==
  endReason \in InfraReasons => ~Accepted /\ ~artifacts.registered

(***************************************************************************)
(* Wherever the harness dies, what it has written agrees: the registry     *)
(* names a task only if an accepting receipt and a COMPLETE result are     *)
(* there, and only a task that was not accepted is remembered as a failure.*)
(***************************************************************************)
ArtifactsAgree ==
  /\ artifacts.registered =>
       /\ artifacts.receipt # None /\ artifacts.receipt.outcome.state = "ACCEPTED"
       /\ artifacts.result = "COMPLETE"
  /\ "failure" \in artifacts.memory =>
       artifacts.receipt # None /\ artifacts.receipt.outcome.state # "ACCEPTED"

(***************************************************************************)
(* A sibling helper the agent edited is accepted only if it verifies: a    *)
(* rollback, a recovery or a cached target verdict never lets a broken one *)
(* through.                                                                *)
(***************************************************************************)
AcceptedSiblingVerifies ==
  Accepted /\ SiblingGateOn => tree.sib # "broken"

(***************************************************************************)
(* The task keeps the promise of Promotion: its loop of rounds, gates and  *)
(* rollbacks is an implementation of it.                                   *)
(***************************************************************************)
Promise == INSTANCE Promotion WITH
  candidate <- tree,
  around    <- <<stray, tooling>>,
  safe      <- snaps[lastClean],
  certified <- IF lastGate # None /\ lastGate.okay
               THEN {<<lastGate.tree, <<lastGate.stray, lastGate.tooling>>>>} ELSE {},
  verdict   <- IF outcome = None THEN "open" ELSE outcome.state

KeepsPromise == Promise!Spec

(* Liveness: every task ends, whatever the agent does. *)
Terminates == <>(pc \in {"done", "crashed"})

------------------------------------------------------------------------------
(* What the comments of the code promise, and the code does not keep.      *)

(***************************************************************************)
(* run.py:6661-6670 says that a read of git history contaminates its own   *)
(* round only, and that what is green after the rollback is reconstruction *)
(* again: the rollback leaves no recovered text in the files.              *)
(***************************************************************************)
RollbackDropsRecoveredText ==
  /\ pc = "start" /\ round > 1
  /\ results[round - 1] # None /\ results[round - 1].reason = "GIT_RECOVERY_RECOVERED"
  => ~tree.leaked

(***************************************************************************)
(* run.py:469-473 says that retry memory is not persisted for a run whose  *)
(* agent retrieved an answer from git history.                             *)
(***************************************************************************)
RetryMemoryUntainted == artifacts.memory # {} => "git" \notin trace

(***************************************************************************)
(* docs/mvp_spec.md:96 says that any drift of a specification is refused:  *)
(* where spec_check exits with an error, the round fails.                  *)
(***************************************************************************)
SpecDriftIsRefused == Accepted /\ SpecGate => tree.spec = {}
==============================================================================
