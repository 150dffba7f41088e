------------------------- MODULE RunTaskPromiseProofs -------------------------
(***************************************************************************)
(* What a task owes across its rounds, for every value of the constants:   *)
(* the receipt it promotes on is that of the files it promotes, a sibling  *)
(* that does not verify is never accepted, recoveries are rationed, and    *)
(* the whole keeps the promise of module Promotion.                        *)
(***************************************************************************)
EXTENDS RunTaskSafetyProofs, FiniteSetTheorems

------------------------------------------------------------------------------
(* The steps of a task, by what they do to a round.                        *)

(* The loop is left for a halt or a misuse; no round becomes a recovery.   *)
Lost ==
  /\ pc \in InLoop /\ pc' = "fold" /\ ~HonestEnd'
  /\ OnlyThisRound(results, results')
  /\ \/ results' = results
     \/ results'[round] # None /\ results'[round].reason \notin RecoveredReasons
  /\ UNCHANGED <<round, snaps, gateVars, lastClean, outcome, artifacts>>

(* The loop is left from its head, over the files of a green last round.   *)
Leaving ==
  /\ pc = "start" /\ pc' = "fold"
  /\ LastOkay => UNCHANGED tree
  /\ UNCHANGED <<round, results, stray, tooling, snaps, gateVars, lastClean, ending>>

(* The round is taken back and the next one starts.                        *)
Retried(reason) ==
  /\ pc = "integrity" /\ NextRound /\ TaintRound(reason)
  /\ OnlyThisRound(snaps, snaps')
  /\ UNCHANGED <<turn, gateVars, siblings, lastClean>>

(* Every gate passed, and the agent's claim is judged.                     *)
Passed ==
  /\ AtClaim /\ MarkRound
  /\ NextRound \/ \E reason \in LoopReasons : Break(reason)
  /\ OnlyThisRound(results, results')
  /\ results'[round] # None /\ results'[round].okay = results[round].okay
  /\ results'[round].reason \in AgentClaims \cup {results[round].reason}
  /\ UNCHANGED <<files, snaps, turn, gateVars, siblings, gitResets, frozenResets>>

(* A recovered round, or one that is over, keeps a result of its own.      *)
LEMMA TaintedResult ==
  ASSUME TypeInv, pc \in Judged, NEW reason \in LoopReasons \cup RecoveredReasons,
         TaintRound(reason)
  PROVE  /\ OnlyThisRound(results, results')
         /\ results'[round] # None /\ results'[round].okay = FALSE
         /\ results'[round].reason = reason /\ results'[round].drift = results[round].drift
<1>1. round \in 0..MaxRounds /\ results[round] \in RoundResult
  BY JudgedIsLast
<1>2. results'[round] = Tainted(results[round], reason)
  BY <1>1 DEF TaintRound, TypeInv, TypeOK, ResultsType
<1>3. Tainted(results[round], reason) \in RoundResult
  BY <1>1 DEF Tainted, RoundResult
<1>4. results'[round] # None
  BY <1>2, <1>3, NoneAssumption
<1>5. Tainted(results[round], reason).okay = FALSE
  BY <1>1 DEF Tainted, RoundResult
<1>6. Tainted(results[round], reason).reason = reason
  BY <1>1 DEF Tainted, RoundResult
<1>7. Tainted(results[round], reason).drift = results[round].drift
  BY <1>1 DEF Tainted, RoundResult
<1>8. OnlyThisRound(results, results')
  BY TaintsOnlyThisRound
<1> QED
  BY <1>2, <1>4, <1>5, <1>6, <1>7, <1>8

LEMMA Losing ==
  ASSUME pc \in InLoop, NEW reason \in InfraReasons \cup IntegrityRejections, Break(reason),
         OnlyThisRound(results, results'),
         \/ results' = results
         \/ results'[round] # None /\ results'[round].reason \notin RecoveredReasons,
         UNCHANGED <<snaps, gateVars, targets>>
  PROVE  Lost
BY DEF Lost, Break, HonestEnd, gateVars, targets

(* The round is judged, and ended for the reason it is tainted with. *)
LEMMA LosingTainted ==
  ASSUME TypeInv, pc = "integrity", NEW reason \in IntegrityRejections, Break(reason),
         TaintRound(reason), UNCHANGED <<snaps, gateVars, targets>>
  PROVE  Lost
<1>1. reason \in LoopReasons /\ reason \notin RecoveredReasons
  BY DEF LoopReasons, IntegrityRejections, RecoveredReasons
<1>2. pc \in InLoop /\ pc \in Judged
  BY DEF InLoop, InRound, Judged
<1>3. /\ OnlyThisRound(results, results') /\ results'[round] # None
      /\ results'[round].reason = reason
  BY <1>1, <1>2, TaintedResult
<1> QED
  BY <1>1, <1>2, <1>3, Losing

LEMMA LosingQuietly ==
  ASSUME pc \in InLoop, NEW reason \in InfraReasons \cup IntegrityRejections, Break(reason),
         UNCHANGED <<results, snaps, gateVars, targets>>
  PROVE  Lost
<1>1. OnlyThisRound(results, results')
  BY DEF OnlyThisRound
<1> QED
  BY <1>1 DEF Lost, Break, HonestEnd, gateVars, targets

LEMMA LossKinds ==
  ASSUME TypeInv,
         \/ RateLimited \/ NoResultExit \/ HangBailOut
         \/ ProcessCrosstalk \/ GitRecoveryOverCap \/ ToolingDrift
         \/ SpecDriftOverCapEnds \/ SpecRestoreFails
         \/ FrozenAuditFails \/ FrozenEditOverCap \/ FrozenRevertFails
         \/ AxiomDrift \/ ForbiddenConstruct
  PROVE  Lost
<1> DEFINE Ends == InfraReasons \cup IntegrityRejections
<1>1. CASE RateLimited \/ HangBailOut
  <2>1. pc \in InLoop /\ \E reason \in InfraReasons : Break(reason)
    BY <1>1 DEF RateLimited, HangBailOut, InfraReasons, InLoop, InRound
  <2>2. PICK reason \in Ends : Break(reason)
    BY <2>1
  <2>3. UNCHANGED <<results, snaps, gateVars, targets>>
    BY <1>1 DEF RateLimited, HangBailOut
  <2> QED
    BY <2>1, <2>2, <2>3, LosingQuietly
<1>2. CASE NoResultExit
  <2>1. /\ pc = "post" /\ Break(NoResultReason) /\ NoResultReason \in Ends
        /\ UNCHANGED <<snaps, gateVars, targets>>
    BY <1>2 DEF NoResultExit, NoResultReason, NoResultExits, InfraReasons,
                IntegrityRejections
  <2>2. round \in 0..MaxRounds
    BY <2>1 DEF TypeInv, TypeOK, Standing, InRound, ControlType
  <2>11. PICK heard \in Hearing(tree) : \E drift \in SpecReports(tree, heard) :
          results' = [results EXCEPT ![round] =
            [reason |-> NoResultReason, okay |-> FALSE, drift |-> drift]]
    BY <1>2 DEF NoResultExit
  <2>3. PICK drift \in SpecReports(tree, heard) : results' = [results EXCEPT ![round] =
            [reason |-> NoResultReason, okay |-> FALSE, drift |-> drift]]
    BY <2>11
  <2>4. drift \in SUBSET SpecItems
    BY ReportsType DEF TypeInv, TypeOK, FilesType
  <2>5. [reason |-> NoResultReason, okay |-> FALSE, drift |-> drift] \in RoundResult
    BY <2>1, <2>4 DEF RoundResult, LoopReasons
  <2>6. results'[round] = [reason |-> NoResultReason, okay |-> FALSE, drift |-> drift]
    BY <2>2, <2>3 DEF TypeInv, TypeOK, ResultsType
  <2>7. results'[round] # None
    BY <2>5, <2>6, NoneAssumption
  <2>10. results'[round].reason = NoResultReason
    BY <2>6
  <2>8. NoResultReason \notin RecoveredReasons
    BY <2>1 DEF RecoveredReasons, InfraReasons, IntegrityRejections
  <2>9. OnlyThisRound(results, results')
    BY <2>3 DEF OnlyThisRound, TypeInv, TypeOK, ResultsType
  <2> QED
    BY <2>1, <2>7, <2>8, <2>9, <2>10, Losing DEF InLoop, InRound
<1>3. CASE ProcessCrosstalk
  BY <1>3, LosingTainted DEF ProcessCrosstalk, AtCrosstalkGate, IntegrityRejections
<1>4. CASE SpecDriftOverCapEnds \/ SpecRestoreFails
  BY <1>4, LosingTainted DEF SpecDriftOverCapEnds, SpecRestoreFails, AtSpecGate,
     AtToolingGate, AtGitGate, AtCrosstalkGate, IntegrityRejections
<1>5. CASE \/ GitRecoveryOverCap \/ ToolingDrift \/ FrozenAuditFails \/ FrozenEditOverCap
           \/ FrozenRevertFails \/ AxiomDrift \/ ForbiddenConstruct
  <2>1. /\ pc = "integrity" /\ \E reason \in IntegrityRejections : Break(reason)
        /\ UNCHANGED <<results, snaps, gateVars, targets>>
    BY <1>5 DEF GitRecoveryOverCap, ToolingDrift, FrozenAuditFails, FrozenEditOverCap,
       FrozenRevertFails, AxiomDrift, ForbiddenConstruct, AtForbiddenGate, AtAxiomGate,
       AtFrozenGate, AtSpecGate, AtToolingGate, AtGitGate, AtCrosstalkGate,
       IntegrityRejections
  <2>2. PICK reason \in Ends : Break(reason)
    BY <2>1
  <2> QED
    BY <2>1, <2>2, LosingQuietly DEF InLoop, InRound
<1> QED
  BY <1>1, <1>2, <1>3, <1>4, <1>5

LEMMA ClaimKinds ==
  ASSUME TypeInv, Claim
  PROVE  Passed
<1>1. AtClaim /\ MarkRound
  BY DEF Claim, FalseContract, ClaimAccepted, PlateauStop, KeepGoing, NothingClaimed
<1>2. pc \in Judged
  BY <1>1 DEF AtClaim, AtForbiddenGate, AtAxiomGate, AtFrozenGate, AtSpecGate, AtToolingGate,
             AtGitGate, AtCrosstalkGate, Judged
<1>3. round \in 0..MaxRounds /\ results[round] \in RoundResult
  BY <1>2, JudgedIsLast
<1>4. UNCHANGED <<files, snaps, turn, gateVars, siblings, gitResets, frozenResets>>
  BY DEF Claim, FalseContract, ClaimAccepted, PlateauStop, KeepGoing, streams
<1>5. NextRound \/ \E reason \in LoopReasons : Break(reason)
  <2>1. turn.claim \in LoopReasons /\ {"FALSE_CONTRACT", "NEEDS_DECOMP", "LIMIT"} \subseteq LoopReasons
    BY ReasonTypes DEF TypeInv, TypeOK, StreamsType, Turn, AgentClaims
  <2> QED BY <2>1 DEF Claim, FalseContract, ClaimAccepted, PlateauStop, KeepGoing
<1>6. CASE UNCHANGED results
  BY <1>1, <1>3, <1>4, <1>5, <1>6, NoneAssumption DEF Passed, OnlyThisRound
<1>7. CASE FalseContract
  <2>1. PICK label \in {"FALSE_CONTRACT", "NEEDS_DECOMP"} :
          results' = [results EXCEPT ![round].reason = label]
    BY <1>7 DEF FalseContract
  <2>2. label \in AgentClaims /\ label \in LoopReasons
    BY ReasonTypes DEF AgentClaims
  <2>3. results'[round] = [results[round] EXCEPT !.reason = label]
    BY <1>3, <2>1 DEF TypeInv, TypeOK, ResultsType
  <2>4. results'[round] \in RoundResult
    BY <1>3, <2>2, <2>3 DEF RoundResult
  <2>5. results'[round] # None
    BY <2>4, NoneAssumption
  <2>6. results'[round].okay = results[round].okay /\ results'[round].reason = label
    BY <1>3, <2>3 DEF RoundResult
  <2>7. OnlyThisRound(results, results')
    BY <2>1 DEF OnlyThisRound, TypeInv, TypeOK, ResultsType
  <2> QED BY <1>1, <1>4, <1>5, <2>2, <2>5, <2>6, <2>7 DEF Passed
<1> QED BY <1>6, <1>7 DEF Claim, ClaimAccepted, PlateauStop, KeepGoing

LEMMA RetryKinds ==
  ASSUME TypeInv
  PROVE  /\ GitRecovery => Retried("GIT_RECOVERY_RECOVERED")
         /\ SpecDriftRecovery => Retried("SPEC_DRIFT_RECOVERED")
         /\ FrozenEditRecovery => Retried("FROZEN_EDIT_RECOVERED")
<1>1. UNCHANGED snaps => OnlyThisRound(snaps, snaps')
  BY DEF OnlyThisRound
<1>2. ASSUME GitRecovery PROVE Retried("GIT_RECOVERY_RECOVERED")
  BY <1>1, <1>2 DEF GitRecovery, Retried, AtGitGate, AtCrosstalkGate, streams, targets
<1>3. ASSUME SpecDriftRecovery PROVE Retried("SPEC_DRIFT_RECOVERED")
  <2>1. OnlyThisRound(snaps, snaps')
    BY <1>3 DEF SpecDriftRecovery, OnlyThisRound, TypeInv, TypeOK, SnapsType
  <2> QED
    BY <1>3, <2>1 DEF SpecDriftRecovery, Retried, AtSpecGate, AtToolingGate, AtGitGate,
                      AtCrosstalkGate, streams, targets
<1>4. ASSUME FrozenEditRecovery PROVE Retried("FROZEN_EDIT_RECOVERED")
  BY <1>1, <1>4 DEF FrozenEditRecovery, Retried, AtFrozenGate, AtSpecGate, AtToolingGate,
     AtGitGate, AtCrosstalkGate, streams, targets
<1> QED
  BY <1>2, <1>3, <1>4

(* Leaving the loop at its head restores files only over a red round. *)
LEMMA LeavingKinds ==
  ASSUME LoopEnds \/ BudgetBailOut
  PROVE  Leaving
<1>1. CASE LoopEnds
  BY <1>1 DEF LoopEnds, Leaving, files, gateVars, targets
<1>2. CASE BudgetBailOut
  BY <1>2 DEF BudgetBailOut, Leaving, LastOkay, gateVars, targets
<1> QED
  BY <1>1, <1>2

(* The final gate decides, and replaces the files only to reject them. *)
Closing ==
  /\ pc = "fold" /\ pc' = "receipt" /\ Closed'
  /\ outcome'.state \in Dispositions
  /\ Accepted' => LastOkay /\ HonestEnd
  /\ tree' = IF outcome'.state = "REJECTED_DRIFTED" THEN snaps[lastClean] ELSE tree
  /\ UNCHANGED <<round, results, stray, tooling, snaps, turn, gateVars, counters, siblings,
                 lastClean, artifacts>>

LEMMA CloseKind ==
  ASSUME TypeInv, Targets, CloseTask
  PROVE  Closing
<1>1. PICK err \in BOOLEAN : LET facts == FinalFacts(err)
            label == FinalEndReason(DoneForReal(facts), FoldedReason(endReason, facts))
        IN  /\ outcome' = [label |-> label, state |-> Disposition(label)]
            /\ tree' = IF Disposition(label) = "REJECTED_DRIFTED"
                       THEN Restored(RestorePoint) ELSE tree
  BY DEF CloseTask
<1> DEFINE facts == FinalFacts(err)
           done  == DoneForReal(facts)
           label == FinalEndReason(done, FoldedReason(endReason, facts))
<1>2. endReason \in LoopReasons /\ done \in BOOLEAN
  BY DEF TypeInv, TypeOK, EndingType, DoneForReal
<1>3. outcome' = [label |-> label, state |-> Disposition(label)]
      /\ outcome'.state = Disposition(label)
  BY <1>1
<1>4. label = "COMPLETE" => done /\ HonestEnd
  BY <1>2, CompleteIsEarned DEF HonestEnd
<1>5. Disposition(label) = "ACCEPTED" => label = "COMPLETE"
  BY DEF Disposition
<1>6. Accepted' => LastOkay /\ HonestEnd
  BY <1>3, <1>4, <1>5 DEF Accepted, DoneForReal
<1>7. snaps[lastClean] # None
  <2>1. pc = "fold" /\ lastClean \in 0..MaxRounds
    BY DEF CloseTask, TypeInv, TypeOK, TargetsType
  <2> QED
    BY <2>1 DEF Targets, RollbackTargetsClean
<1>8. tree' = IF outcome'.state = "REJECTED_DRIFTED" THEN snaps[lastClean] ELSE tree
  BY <1>1, <1>3, <1>7 DEF RestorePoint, Restored
<1>9. Closed'
  <2>1. label \in FinalReasons
    BY <1>2, FoldedReasonType, FinalEndReasonType
  <2>2. outcome' \in Outcome
    BY <1>3, <2>1, DispositionType DEF Outcome
  <2> QED
    BY <2>2, NoneAssumption DEF Closed
<1> QED
  BY <1>3, <1>6, <1>8, <1>9, DispositionType DEF Closing, CloseTask, streams, targets

------------------------------------------------------------------------------
(* The receipt at hand speaks for the files that stand.                    *)

OfTheFiles == /\ lastGate # None /\ lastGate.tree = tree
              /\ lastGate.stray = stray /\ lastGate.tooling = tooling
Ready == OfTheFiles /\ lastGate.okay /\ tree = snaps[lastClean]

Gated ==
  /\ pc \in Judged => OfTheFiles /\ (results[round].okay => lastGate.okay)
  /\ pc \in {"setup", "start"} /\ LastOkay => Ready
  /\ pc = "fold" /\ LastOkay /\ HonestEnd => Ready
  /\ Accepted => Ready
  /\ AcceptedTreeWasGated
  /\ pc \in Undecided \cup {"receipt"} => artifacts.receipt = None

(* Before the decision only the evidence on the files matters. *)
LEMMA GatedOpen ==
  ASSUME TypeInv', Gated, pc \in Undecided, pc' \in Undecided, UNCHANGED artifacts,
         pc' \in Judged => OfTheFiles' /\ (results'[round'].okay => lastGate'.okay),
         pc' \in {"setup", "start"} /\ LastOkay' => Ready',
         pc' = "fold" /\ LastOkay' /\ HonestEnd' => Ready'
  PROVE  Gated'
<1>1. ~Accepted'
  BY DEF TypeInv, Standing, Accepted, Closed
<1>2. AcceptedTreeWasGated'
  BY DEF Gated, AcceptedTreeWasGated
<1> QED
  BY <1>1, <1>2 DEF Gated

(* The gate round leaves the receipt of the very files it judged. *)
LEMMA GateOfTheFiles ==
  ASSUME TypeInv, NEW drift, NEW receipt \in GateAnswers(drift)
  PROVE  /\ receipt \in GateReceipt
         /\ receipt.tree = tree /\ receipt.stray = stray /\ receipt.tooling = tooling
<1>1. ASSUME NEW status \in {"VERIFIED", "SKIPPED_SPEC_DRIFT"}, NEW okay \in BOOLEAN
      PROVE  /\ GateReceiptOf(status, okay) \in GateReceipt
             /\ GateReceiptOf(status, okay).tree = tree
             /\ GateReceiptOf(status, okay).stray = stray
             /\ GateReceiptOf(status, okay).tooling = tooling
  BY DEF GateReceiptOf, GateReceipt, TypeInv, TypeOK, FilesType
<1>2. CASE drift # {}
  BY <1>1, <1>2 DEF GateAnswers
<1>3. CASE drift = {} /\ CacheHits # {}
  BY <1>3 DEF GateAnswers, CacheHits, SameKey, TypeInv, TypeOK, GateType
<1>4. CASE drift = {} /\ CacheHits = {}
  <2>1. \A v \in Verdicts : v \in BOOLEAN
    BY DEF Verdicts, TypeInv, TypeOK, FilesType, Tree
  <2> QED
    BY <1>1, <1>4, <2>1 DEF GateAnswers
<1> QED
  BY <1>2, <1>3, <1>4

LEMMA GatedStep ==
  TypeInv /\ TypeInv' /\ Evidence /\ Targets /\ Gated /\ [Next]_vars => Gated'
<1> SUFFICES ASSUME TypeInv, TypeInv', Evidence, Targets, Gated, [Next]_vars
             PROVE  Gated'
  OBVIOUS
<1>0. ASSUME Setup \/ Round \/ Gate \/ Claim
      PROVE  pc \in Undecided /\ pc' \in Undecided /\ UNCHANGED artifacts
  BY <1>0, StillOpen, OpenWritesNothing
<1>1. CASE Setup
  <2>1. /\ pc = "setup" /\ pc' = "start" /\ UNCHANGED <<round, tree, stray, tooling, results>>
        /\ UNCHANGED <<lastGate, lastClean>> /\ snaps' = [snaps EXCEPT ![0] = tree]
    BY <1>1 DEF Setup, files, gateVars, targets
  <2>2. LastOkay' = LastOkay
    BY <2>1 DEF LastOkay, LastResult
  <2>3. lastClean = 0 /\ snaps'[0] = tree
    BY <2>1, BoundsAssumption DEF Targets, TypeInv, TypeOK, SnapsType
  <2>4. LastOkay' => Ready'
    BY <2>1, <2>2, <2>3 DEF Gated, Ready, OfTheFiles
  <2> QED
    BY <1>0, <1>1, <2>1, <2>4, GatedOpen DEF Judged
<1>2. CASE LoopEnds \/ BudgetBailOut
  <2>1. Leaving
    BY <1>2, LeavingKinds
  <2>2. LastOkay' = LastOkay /\ HonestEnd' = HonestEnd
    BY <2>1 DEF Leaving, LastOkay, LastResult, HonestEnd, ending
  <2>3. LastOkay => Ready'
    BY <2>1 DEF Leaving, Gated, Ready, OfTheFiles, gateVars
  <2> QED
    BY <1>0, <1>2, <2>1, <2>2, <2>3, GatedOpen DEF Leaving, Judged, Round
<1>3. CASE BeginRound \/ AgentTurn
  <2>1. pc' \in {"agent", "post"}
    BY <1>3 DEF BeginRound, AgentTurn
  <2> QED
    BY <1>0, <1>3, <2>1, GatedOpen DEF Judged, Round
<1>4. CASE GateRound
  <2>1. pc = "post" /\ pc' = "session" /\ UNCHANGED <<round, tree, stray, tooling>>
    BY <1>4 DEF GateRound, files
  <2>2. round \in 0..MaxRounds
    BY <2>1 DEF TypeInv, TypeOK, Standing, InRound, ControlType
  <2>9. PICK heard \in Hearing(tree) : \E drift \in SpecReports(tree, heard) :
          \E receipt \in GateAnswers(drift), siblingOkay \in SiblingVerdicts :
             Record(drift, receipt, siblingOkay)
    BY <1>4 DEF GateRound
  <2>3. PICK drift \in SpecReports(tree, heard) :
          \E receipt \in GateAnswers(drift), siblingOkay \in SiblingVerdicts :
             Record(drift, receipt, siblingOkay)
    BY <2>9
  <2>4. PICK receipt \in GateAnswers(drift), siblingOkay \in SiblingVerdicts :
           Record(drift, receipt, siblingOkay)
    BY <2>3
  <2>5. lastGate' = receipt /\ results'[round] =
          [reason |-> turn.claim, okay |-> receipt.okay /\ siblingOkay, drift |-> drift]
    BY <2>2, <2>4 DEF Record, TypeInv, TypeOK, ResultsType
  <2>6. OfTheFiles'
    BY <2>1, <2>5, GateOfTheFiles, NoneAssumption DEF OfTheFiles
  <2>7. results'[round].okay => lastGate'.okay
    <3>1. receipt.okay \in BOOLEAN /\ siblingOkay \in BOOLEAN
      BY GateOfTheFiles DEF GateReceipt, SiblingVerdicts, TypeInv, TypeOK, SiblingsType
    <3> QED
      BY <2>5, <3>1
  <2> QED
    BY <1>0, <1>4, <2>1, <2>6, <2>7, GatedOpen DEF Round
<1>5. CASE SessionControl
  <2>1. pc = "session" /\ pc' = "integrity"
        /\ UNCHANGED <<round, tree, stray, tooling, results, lastGate>>
    BY <1>5 DEF SessionControl, files, gateVars
  <2>2. OfTheFiles' /\ (results'[round'].okay => lastGate'.okay)
    BY <2>1 DEF Gated, OfTheFiles, Judged
  <2> QED
    BY <1>0, <1>5, <2>1, <2>2, GatedOpen DEF Round
<1>6. CASE \/ RateLimited \/ NoResultExit \/ HangBailOut
           \/ ProcessCrosstalk \/ GitRecoveryOverCap \/ ToolingDrift
           \/ SpecDriftOverCapEnds \/ SpecRestoreFails
           \/ FrozenAuditFails \/ FrozenEditOverCap \/ FrozenRevertFails
           \/ AxiomDrift \/ ForbiddenConstruct
  <2>1. pc' = "fold" /\ ~HonestEnd'
    BY <1>6, LossKinds DEF Lost
  <2> QED
    BY <1>0, <1>6, <2>1, GatedOpen DEF Judged, Round, Gate
<1>7. CASE GitRecovery \/ SpecDriftRecovery \/ FrozenEditRecovery
  <2>1. PICK reason \in RecoveredReasons : Retried(reason)
    BY <1>7, RetryKinds DEF RecoveredReasons
  <2>2. pc' = "start" /\ pc \in Judged
    BY <2>1 DEF Retried, NextRound, Judged
  <2>3. results'[round] # None /\ results'[round].okay = FALSE
        /\ OnlyThisRound(results, results')
    BY <2>1, <2>2, TaintedResult DEF Retried
  <2>4. ~LastOkay'
    BY <2>1, <2>2, <2>3, NextIsLast DEF Retried, LastOkay, Evidence
  <2> QED
    BY <1>0, <1>7, <2>2, <2>4, GatedOpen DEF Judged, Gate
<1>8. CASE Claim
  <2>1. Passed
    BY <1>8, ClaimKinds
  <2>2. /\ pc \in Judged /\ lastClean' = round
        /\ UNCHANGED <<tree, stray, tooling, snaps, lastGate>>
    BY <2>1 DEF Passed, MarkRound, AtClaim, AtForbiddenGate, AtAxiomGate, AtFrozenGate,
       AtSpecGate, AtToolingGate, AtGitGate, AtCrosstalkGate, Judged, files, gateVars
  <2>3. results[round].okay => Ready'
    BY <2>2 DEF Gated, Ready, OfTheFiles, Targets
  <2>4. CASE NextRound
    <3>1. LastOkay' => results[round].okay
      BY <2>1, <2>2, <2>4, NextIsLast DEF Passed, LastOkay, Evidence
    <3> QED
      BY <1>0, <1>8, <2>3, <2>4, <3>1, GatedOpen DEF NextRound, Judged
  <2>5. CASE \E reason \in LoopReasons : Break(reason)
    <3>1. pc' = "fold" /\ round' = round
      BY <2>5 DEF Break
    <3>2. LastOkay' => results'[round].okay
      <4>1. round \in 1..MaxRounds /\ results'[round] # None
        BY <2>1, <2>2, JudgedIsLast DEF Passed
      <4> QED
        BY <3>1, <4>1 DEF LastOkay, LastResult
    <3>3. LastOkay' => Ready'
      BY <2>1, <2>3, <3>2 DEF Passed
    <3> QED
      BY <1>0, <1>8, <3>1, <3>3, GatedOpen DEF Judged
  <2> QED
    BY <2>1, <2>4, <2>5 DEF Passed
<1>9. CASE CloseTask
  <2>1. Closing
    BY <1>9, CloseKind
  <2>2. UNCHANGED <<stray, tooling, snaps, lastGate, lastClean, artifacts>>
    BY <2>1 DEF Closing, gateVars
  <2>3. Accepted' => Ready'
    <3>1. Accepted' => tree' = tree
      BY <2>1 DEF Closing, Accepted
    <3> QED
      BY <2>1, <2>2, <3>1 DEF Closing, Gated, Ready, OfTheFiles
  <2>4. artifacts'.receipt = None /\ AcceptedTreeWasGated'
    BY <2>1, <2>2 DEF Closing, Gated, Undecided, AcceptedTreeWasGated
  <2> QED
    BY <2>1, <2>3, <2>4 DEF Closing, Gated, Undecided, Judged
<1>10. CASE WriteReceipt
  <2>1. /\ pc = "receipt" /\ pc' = "result"
        /\ UNCHANGED <<tree, stray, tooling, snaps, lastGate, lastClean, outcome>>
    BY <1>10 DEF WriteReceipt, Write, files, gateVars, targets
  <2>2. artifacts'.receipt = [outcome |-> outcome, tree |-> tree, stray |-> stray,
                              gate |-> lastGate]
    BY <1>10 DEF WriteReceipt, Write, TypeInv, TypeOK, EndingType, Artifacts
  <2>3. Accepted = Accepted' /\ (Accepted => Ready') /\ (Accepted => Ready)
    BY <2>1 DEF Accepted, Closed, Gated, Ready, OfTheFiles
  <2>4. outcome # None
    BY <2>1, NoneAssumption DEF TypeInv, Standing
  <2>5. AcceptedTreeWasGated'
    <3>1. outcome.state = "ACCEPTED" => Ready
      BY <2>3, <2>4 DEF Accepted, Closed
    <3> QED
      BY <2>1, <2>2, <3>1 DEF AcceptedTreeWasGated, Ready, OfTheFiles
  <2> QED
    BY <2>1, <2>3, <2>5 DEF Gated, Undecided, Judged
<1>11. CASE \/ WriteResult \/ WriteBrief \/ WriteFailure \/ WriteRegistry
            \/ Crash \/ UNCHANGED vars
  <2>1. artifacts'.receipt = artifacts.receipt
    BY <1>11 DEF WriteResult, WriteBrief, WriteFailure, WriteRegistry, Write,
       Crash, vars, ending, TypeInv, TypeOK, EndingType, Artifacts
  <2>2. UNCHANGED <<round, results, tree, stray, tooling, snaps, lastGate, lastClean, endReason,
                    outcome>>
    BY <1>11 DEF WriteResult, WriteBrief, WriteFailure, WriteRegistry, Write,
       Crash, vars, ending, files, gateVars, targets
  <2>3. pc' = pc \/ pc' \in {"brief", "failure", "registry", "done", "crashed"}
    BY <1>11 DEF WriteResult, WriteBrief, WriteFailure, WriteRegistry, Write,
       Crash, vars
  <2>4. Ready' = Ready /\ OfTheFiles' = OfTheFiles /\ AcceptedTreeWasGated'
    BY <2>1, <2>2 DEF Ready, OfTheFiles, Gated, AcceptedTreeWasGated
  <2>5. LastOkay' = LastOkay /\ HonestEnd' = HonestEnd /\ Accepted' = Accepted
    BY <2>2 DEF LastOkay, LastResult, HonestEnd, Accepted, Closed
  <2> QED
    BY <2>1, <2>2, <2>3, <2>4, <2>5 DEF Gated, Judged, Undecided
<1>12. CASE SetupFails
  <2>1. pc = "setup" /\ pc' = "done" /\ outcome = None /\ outcome' = None
    BY <1>12, SetupEnds DEF TypeInv, Standing, Undecided
  <2>2. artifacts'.receipt = artifacts.receipt
    BY <1>12, SetupEnds DEF TypeInv, TypeOK, EndingType, Artifacts
  <2>3. artifacts.receipt = None
    BY <2>1 DEF Gated, Undecided
  <2> QED
    BY <2>1, <2>2, <2>3 DEF Gated, AcceptedTreeWasGated, Accepted, Closed, Judged, Undecided
<1> QED
  BY <1>1, <1>2, <1>3, <1>4, <1>5, <1>6, <1>7, <1>8, <1>9, <1>10, <1>11, <1>12
     DEF Next, Step, Close, Round, Gate

LEMMA GatedInit == Init => Gated
<1> SUFFICES ASSUME Init PROVE Gated
  OBVIOUS
<1>1. pc = "setup" /\ round = 1 /\ outcome = None /\ artifacts.receipt = None
  BY DEF Init
<1>2. ~LastOkay
  <2>1. \A n \in 0..MaxRounds : results[n] = None
    BY DEF Init
  <2>2. LastResult = None
    BY <1>1, <2>1, BoundsAssumption DEF LastResult
  <2> QED
    BY <2>2 DEF LastOkay
<1>3. AcceptedTreeWasGated /\ ~Accepted
  BY <1>1 DEF AcceptedTreeWasGated, Accepted, Closed
<1> QED
  BY <1>1, <1>2, <1>3 DEF Gated, Judged

LEMMA GatedHolds == Spec => []Gated
<1>1. Init => Gated
  BY GatedInit
<1>2. Inv /\ Inv' /\ Gated /\ [Next]_vars => Gated'
  BY GatedStep DEF Inv
<1> QED
  BY <1>1, <1>2, InvariantHolds, PTL DEF Spec

(* The receipt an accepted task promotes on is green, and that of the very *)
(* files, surroundings and tools it is promoted with: no recovery, no      *)
(* rollback and no hit in the gate cache of run_task comes in between.     *)
THEOREM PromotedOnItsOwnReceipt == Spec => []AcceptedTreeWasGated
<1>1. Gated => AcceptedTreeWasGated
  BY DEF Gated
<1> QED
  BY <1>1, GatedHolds, PTL

------------------------------------------------------------------------------
(* The promise of module Promotion, step by step.                          *)

LEMMA PromiseInit == Init => Promise!Init
BY DEF Init, Promise!Init

(* Nothing but the files changes, if that: an edit, or a stutter. *)
LEMMA PromisedEdit ==
  ASSUME outcome = None, outcome' = None, UNCHANGED lastGate,
         snaps'[lastClean'] = snaps[lastClean]
  PROVE  [Promise!Next]_Promise!vars
BY DEF Promise!Next, Promise!Edit, Promise!vars

(* Nothing but the rollback target changes, if that. *)
LEMMA PromisedCheckpoint ==
  ASSUME outcome = None, outcome' = None, UNCHANGED <<tree, stray, tooling, lastGate>>,
         snaps'[lastClean'] = tree \/ snaps'[lastClean'] = snaps[lastClean]
  PROVE  [Promise!Next]_Promise!vars
BY DEF Promise!Next, Promise!Checkpoint, Promise!vars

(* The gate speaks for the files that stand. *)
LEMMA PromisedJudgement ==
  ASSUME outcome = None, outcome' = None, UNCHANGED <<tree, stray, tooling>>, OfTheFiles',
         snaps'[lastClean'] = snaps[lastClean]
  PROVE  [Promise!Next]_Promise!vars
BY DEF Promise!Next, Promise!Judge, Promise!vars, OfTheFiles

(* The decision. *)
LEMMA PromisedDecision ==
  ASSUME Gated, Closing, outcome = None
  PROVE  [Promise!Next]_Promise!vars
<1>1. /\ outcome' # None
      /\ UNCHANGED <<stray, tooling, snaps, lastGate, lastClean>>
  BY DEF Closing, Closed, gateVars
<1>2. CASE outcome'.state = "REJECTED_DRIFTED"
  BY <1>1, <1>2 DEF Closing, Promise!Next, Promise!Reject
<1>3. CASE outcome'.state = "UNCOMMITTED_CANDIDATE"
  BY <1>1, <1>3 DEF Closing, Promise!Next, Promise!Leave
<1>4. CASE outcome'.state = "ACCEPTED"
  <2>1. Ready /\ tree' = tree
    BY <1>1, <1>4 DEF Closing, Accepted, Closed, Gated
  <2> QED
    BY <1>1, <1>4, <2>1 DEF Promise!Next, Promise!Accept, Ready, OfTheFiles
<1> QED
  BY <1>2, <1>3, <1>4 DEF Closing, Dispositions

LEMMA PromiseStep ==
  TypeInv /\ TypeInv' /\ Targets /\ Gated /\ Gated' /\ [Next]_vars
    => [Promise!Next]_Promise!vars
<1> SUFFICES ASSUME TypeInv, TypeInv', Targets, Gated, Gated', [Next]_vars
             PROVE  [Promise!Next]_Promise!vars
  OBVIOUS
<1>0. ASSUME Setup \/ Round \/ Gate \/ Claim
      PROVE  outcome = None /\ outcome' = None
  <2>1. pc \in Undecided /\ pc' \in Undecided
    BY <1>0, StillOpen, OpenWritesNothing
  <2> QED
    BY <2>1 DEF TypeInv, Standing
<1>1. lastClean \in 0..MaxRounds /\ round \in Nat
  BY DEF TypeInv, TypeOK, TargetsType, ControlType
<1>11. CASE SetupFails
  <2>1. lastClean = 0 /\ outcome = None /\ outcome' = None
        /\ UNCHANGED <<tree, stray, tooling, lastGate, lastClean>>
    BY <1>11, SetupEnds DEF TypeInv, Standing, Undecided, Targets, files, gateVars, targets
  <2>2. [snaps EXCEPT ![0] = tree][0] = tree
    BY <1>1, <2>1 DEF TypeInv, TypeOK, SnapsType
  <2>3. snaps'[lastClean'] = tree \/ snaps'[lastClean'] = snaps[lastClean]
    BY <1>11, <2>1, <2>2, SetupEnds
  <2> QED
    BY <2>1, <2>3, PromisedCheckpoint
<1>2. CASE Setup
  <2>1. lastClean = 0 /\ snaps' = [snaps EXCEPT ![0] = tree]
        /\ UNCHANGED <<tree, stray, tooling, lastGate, lastClean>>
    BY <1>2 DEF Setup, Targets, files, gateVars, targets
  <2>2. snaps'[lastClean'] = tree
    BY <1>1, <2>1 DEF TypeInv, TypeOK, SnapsType
  <2> QED
    BY <1>0, <1>2, <2>1, <2>2, PromisedCheckpoint
<1>3. CASE BeginRound \/ AgentTurn \/ SessionControl
  <2>1. UNCHANGED <<snaps, lastGate, lastClean>>
    BY <1>3 DEF BeginRound, AgentTurn, SessionControl, gateVars, targets
  <2> QED
    BY <1>0, <1>3, <2>1, PromisedEdit DEF Round
<1>4. CASE LoopEnds \/ BudgetBailOut
  <2>1. UNCHANGED <<snaps, lastGate, lastClean>>
    BY <1>4, LeavingKinds DEF Leaving, gateVars
  <2> QED
    BY <1>0, <1>4, <2>1, PromisedEdit DEF Round
<1>5. CASE GateRound
  <2>1. pc \in InLoop /\ pc' \in Judged /\ snaps' = [snaps EXCEPT ![round] = tree]
        /\ UNCHANGED <<tree, stray, tooling, lastClean>>
    BY <1>5 DEF GateRound, InLoop, InRound, Judged, files, targets
  <2>2. snaps'[lastClean'] = snaps[lastClean]
    BY <1>1, <2>1 DEF Targets, TypeInv, TypeOK, SnapsType
  <2>3. OfTheFiles'
    BY <2>1 DEF Gated
  <2> QED
    BY <1>0, <1>5, <2>1, <2>2, <2>3, PromisedJudgement DEF Round
<1>6. CASE \/ RateLimited \/ NoResultExit \/ HangBailOut
           \/ ProcessCrosstalk \/ GitRecoveryOverCap \/ ToolingDrift
           \/ SpecDriftOverCapEnds \/ SpecRestoreFails
           \/ FrozenAuditFails \/ FrozenEditOverCap \/ FrozenRevertFails
           \/ AxiomDrift \/ ForbiddenConstruct
  <2>1. UNCHANGED <<snaps, lastGate, lastClean>>
    BY <1>6, LossKinds DEF Lost, gateVars
  <2> QED
    BY <1>0, <1>6, <2>1, PromisedEdit DEF Round, Gate
<1>7. CASE GitRecovery \/ SpecDriftRecovery \/ FrozenEditRecovery
  <2>1. PICK reason \in RecoveredReasons : Retried(reason)
    BY <1>7, RetryKinds DEF RecoveredReasons
  <2>2. lastClean < round /\ UNCHANGED <<lastGate, lastClean>>
        /\ OnlyThisRound(snaps, snaps')
    BY <2>1 DEF Retried, Targets, InLoop, InRound, gateVars
  <2>3. snaps'[lastClean'] = snaps[lastClean]
    BY <1>1, <2>2 DEF OnlyThisRound
  <2> QED
    BY <1>0, <1>7, <2>2, <2>3, PromisedEdit DEF Gate
<1>8. CASE Claim
  <2>1. Passed
    BY <1>8, ClaimKinds
  <2>2. /\ pc \in Judged /\ lastClean' = round
        /\ UNCHANGED <<tree, stray, tooling, snaps, lastGate>>
    BY <2>1 DEF Passed, MarkRound, AtClaim, AtForbiddenGate, AtAxiomGate, AtFrozenGate,
       AtSpecGate, AtToolingGate, AtGitGate, AtCrosstalkGate, Judged, files, gateVars
  <2>3. snaps'[lastClean'] = tree
    BY <2>2 DEF Targets
  <2> QED
    BY <1>0, <1>8, <2>2, <2>3, PromisedCheckpoint
<1>9. CASE CloseTask
  <2>1. Closing
    BY <1>9, CloseKind
  <2>2. outcome = None
    BY <2>1 DEF Closing, TypeInv, Standing, Undecided
  <2> QED
    BY <2>1, <2>2, PromisedDecision
<1>10. CASE \/ WriteReceipt \/ WriteResult \/ WriteBrief \/ WriteFailure
            \/ WriteRegistry \/ Crash \/ UNCHANGED vars
  <2>1. UNCHANGED <<tree, stray, tooling, snaps, lastGate, lastClean, outcome>>
    BY <1>10 DEF WriteReceipt, WriteResult, WriteBrief, WriteFailure,
       WriteRegistry, Write, Crash, vars, ending, files, gateVars, targets
  <2> QED
    BY <2>1 DEF Promise!vars
<1> QED
  BY <1>2, <1>3, <1>4, <1>5, <1>6, <1>7, <1>8, <1>9, <1>10, <1>11
     DEF Next, Step, Close, Round, Gate

(* run_task implements Promotion: it accepts only where it stands, on a    *)
(* green receipt of what stands there and with every gate behind it, puts  *)
(* back the last safe files when it rejects, and does not decide twice.    *)
THEOREM RunTaskKeepsPromise == Spec => KeepsPromise
<1>1. Init => Promise!Init
  BY PromiseInit
<1>2. Inv /\ Inv' /\ Gated /\ Gated' /\ [Next]_vars => [Promise!Next]_Promise!vars
  BY PromiseStep DEF Inv
<1> QED
  BY <1>1, <1>2, InvariantHolds, GatedHolds, PTL DEF Spec, KeepsPromise, Promise!Spec

------------------------------------------------------------------------------
(* Helper files.  The hash of a sibling is recorded whether it verified or *)
(* not, so an unchanged sibling stands on the verdict of an earlier round. *)

(* The misuses of the agent in the streams and in the tools are its own. *)
Capable == /\ turn.git => "git" \in Vices
           /\ tooling => "tooling" \in Vices

LEMMA OnlyAgentTurns ==
  ASSUME [Next]_vars, ~AgentTurn
  PROVE  UNCHANGED <<turn, tooling>>
<1>1. CASE Setup \/ SetupFails \/ Close \/ Crash \/ UNCHANGED vars
  BY <1>1, SetupEnds DEF Setup, Close, CloseTask, WriteReceipt, WriteResult, WriteBrief,
     WriteFailure, WriteRegistry, Write, Crash, vars, streams, files
<1>2. CASE Round
  BY <1>2 DEF Round, LoopEnds, BudgetBailOut, BeginRound, RateLimited, NoResultExit,
     GateRound, HangBailOut, SessionControl, streams, files
<1>3. CASE Gate
  BY <1>3 DEF Gate, ProcessCrosstalk, GitRecoveryOverCap, GitRecovery, ToolingDrift,
     SpecDriftOverCapEnds, SpecRestoreFails, SpecDriftRecovery, FrozenAuditFails,
     FrozenEditOverCap, FrozenRevertFails, FrozenEditRecovery, AxiomDrift,
     ForbiddenConstruct, streams, files
<1>4. CASE Claim
  BY <1>4 DEF Claim, FalseContract, ClaimAccepted, PlateauStop, KeepGoing, streams, files
<1> QED
  BY <1>1, <1>2, <1>3, <1>4 DEF Next, Step

LEMMA CapableStep == TypeInv /\ Capable /\ [Next]_vars => Capable'
<1> SUFFICES ASSUME TypeInv, Capable, [Next]_vars PROVE Capable'
  OBVIOUS
<1>1. CASE AgentTurn
  <2>1. /\ turn'.git => "git" \in Vices
        /\ tooling \in BOOLEAN /\ tooling' \in BOOLEAN
        /\ tooling' # tooling => "tooling" \in Vices
    BY <1>1 DEF AgentTurn, TypeInv, TypeOK, FilesType
  <2> QED
    BY <2>1 DEF Capable
<1>2. CASE ~AgentTurn
  BY <1>2, OnlyAgentTurns DEF Capable
<1> QED
  BY <1>1, <1>2

LEMMA CapableHolds == Spec => []Capable
<1>1. Init => Capable
  BY DEF Init, Capable
<1>2. Inv /\ Capable /\ [Next]_vars => Capable'
  BY CapableStep DEF Inv
<1> QED
  BY <1>1, <1>2, InvariantHolds, PTL DEF Spec

(* A doctored tool may clear a broken sibling, and a round that read git   *)
(* history starts over before the tools are looked at: the agent the       *)
(* theorem is about does not do both.                                      *)
ToolsHold == "git" \in Vices /\ MaxGitRecoveryResets > 0 => "tooling" \notin Vices

Verifies   == tree.sib # "broken"
HashSpeaks == siblingHash = "broken" => siblingFail

Helpers ==
  /\ pc \in {"setup", "start", "agent", "post"} => HashSpeaks
  /\ pc \in Judged /\ ~tooling => HashSpeaks /\ (results[round].okay => Verifies)
  /\ pc \in {"setup", "start"} /\ LastOkay => Verifies
  /\ pc = "fold" /\ LastOkay /\ HonestEnd => Verifies
  /\ Accepted => Verifies

LEMMA HelpersOpen ==
  ASSUME TypeInv', pc' \in Undecided,
         pc' \in {"setup", "start", "agent", "post"} => HashSpeaks',
         pc' \in Judged /\ ~tooling' =>
           HashSpeaks' /\ (results'[round'].okay => Verifies'),
         pc' \in {"setup", "start"} /\ LastOkay' => Verifies',
         pc' = "fold" /\ LastOkay' /\ HonestEnd' => Verifies'
  PROVE  Helpers'
BY DEF Helpers, TypeInv, Standing, Accepted, Closed

(* What the untouched verifier says of the siblings that stand. *)
LEMMA SiblingsSpeak ==
  ASSUME SiblingGateOn, ~tooling, HashSpeaks, NEW siblingOkay \in SiblingVerdicts, siblingOkay
  PROVE  Verifies
<1>1. CASE SiblingEdited
  BY <1>1 DEF SiblingVerdicts, Verifies
<1>2. CASE ~SiblingEdited
  BY <1>2 DEF SiblingVerdicts, SiblingEdited, Verifies, HashSpeaks
<1> QED
  BY <1>1, <1>2

LEMMA HelpersStep ==
  ASSUME SiblingGateOn, ToolsHold
  PROVE  TypeInv /\ TypeInv' /\ Evidence /\ Targets /\ Capable /\ Helpers /\ [Next]_vars
           => Helpers'
<1> SUFFICES ASSUME TypeInv, TypeInv', Evidence, Targets, Capable, Helpers, [Next]_vars
             PROVE  Helpers'
  OBVIOUS
<1>0. ASSUME Setup \/ Round \/ Gate \/ Claim
      PROVE  pc' \in Undecided
  BY <1>0, StillOpen
<1>1. CASE Setup
  <2>1. /\ pc = "setup" /\ pc' = "start" /\ UNCHANGED <<round, tree, results>>
        /\ UNCHANGED <<siblingHash, siblingFail>>
    BY <1>1 DEF Setup, files, siblings
  <2>2. LastOkay' = LastOkay /\ Verifies' = Verifies /\ HashSpeaks' = HashSpeaks
    BY <2>1 DEF LastOkay, LastResult, Verifies, HashSpeaks
  <2> QED
    BY <1>0, <1>1, <2>1, <2>2, HelpersOpen DEF Helpers, Judged
<1>2. CASE LoopEnds \/ BudgetBailOut
  <2>1. Leaving
    BY <1>2, LeavingKinds
  <2>2. LastOkay' = LastOkay /\ HonestEnd' = HonestEnd
    BY <2>1 DEF Leaving, LastOkay, LastResult, HonestEnd, ending
  <2>3. LastOkay => Verifies'
    BY <2>1 DEF Leaving, Helpers, Verifies
  <2> QED
    BY <1>0, <1>2, <2>1, <2>2, <2>3, HelpersOpen DEF Leaving, Judged, Round
<1>3. CASE BeginRound \/ AgentTurn
  <2>1. pc \in {"start", "agent"} /\ pc' \in {"agent", "post"}
        /\ UNCHANGED <<siblingHash, siblingFail>>
    BY <1>3 DEF BeginRound, AgentTurn, siblings
  <2>2. HashSpeaks'
    BY <2>1 DEF Helpers, HashSpeaks
  <2> QED
    BY <1>0, <1>3, <2>1, <2>2, HelpersOpen DEF Judged, Round
<1>4. CASE GateRound
  <2>1. /\ pc = "post" /\ pc' = "session" /\ UNCHANGED <<round, tree, tooling>>
        /\ siblingHash' = tree.sib
    BY <1>4 DEF GateRound, files
  <2>2. round \in 0..MaxRounds
    BY <2>1 DEF TypeInv, TypeOK, Standing, InRound, ControlType
  <2>9. PICK heard \in Hearing(tree) : \E drift \in SpecReports(tree, heard) :
          \E receipt \in GateAnswers(drift), siblingOkay \in SiblingVerdicts :
             Record(drift, receipt, siblingOkay)
    BY <1>4 DEF GateRound
  <2>3. PICK drift \in SpecReports(tree, heard) :
          \E receipt \in GateAnswers(drift), siblingOkay \in SiblingVerdicts :
             Record(drift, receipt, siblingOkay)
    BY <2>9
  <2>4. PICK receipt \in GateAnswers(drift), siblingOkay \in SiblingVerdicts :
           Record(drift, receipt, siblingOkay)
    BY <2>3
  <2>5. receipt.okay \in BOOLEAN /\ siblingOkay \in BOOLEAN
    BY GateOfTheFiles DEF GateReceipt, SiblingVerdicts, TypeInv, TypeOK, SiblingsType
  <2>6. results'[round].okay = (receipt.okay /\ siblingOkay) /\ siblingFail' = ~siblingOkay
    BY <2>2, <2>4 DEF Record, TypeInv, TypeOK, ResultsType
  <2>7. ~tooling /\ siblingOkay => Verifies'
    BY <2>1, SiblingsSpeak DEF Helpers, Verifies
  <2>8. ~tooling => HashSpeaks' /\ (results'[round].okay => Verifies')
    BY <2>1, <2>5, <2>6, <2>7 DEF HashSpeaks, Verifies
  <2> QED
    BY <1>0, <1>4, <2>1, <2>8, HelpersOpen DEF Round
<1>5. CASE SessionControl
  <2>1. pc = "session" /\ pc' = "integrity"
        /\ UNCHANGED <<round, tree, tooling, results, siblingHash, siblingFail>>
    BY <1>5 DEF SessionControl, files, siblings
  <2>2. ~tooling => HashSpeaks' /\ (results'[round'].okay => Verifies')
    BY <2>1 DEF Helpers, HashSpeaks, Verifies, Judged
  <2> QED
    BY <1>0, <1>5, <2>1, <2>2, HelpersOpen DEF Round
<1>6. CASE \/ RateLimited \/ NoResultExit \/ HangBailOut
           \/ ProcessCrosstalk \/ GitRecoveryOverCap \/ ToolingDrift
           \/ SpecDriftOverCapEnds \/ SpecRestoreFails
           \/ FrozenAuditFails \/ FrozenEditOverCap \/ FrozenRevertFails
           \/ AxiomDrift \/ ForbiddenConstruct
  <2>1. pc' = "fold" /\ ~HonestEnd'
    BY <1>6, LossKinds DEF Lost
  <2> QED
    BY <1>0, <1>6, <2>1, HelpersOpen DEF Judged, Round, Gate
<1>7. CASE GitRecovery \/ SpecDriftRecovery \/ FrozenEditRecovery
  <2>1. PICK reason \in RecoveredReasons : Retried(reason)
    BY <1>7, RetryKinds DEF RecoveredReasons
  <2>2. pc' = "start" /\ pc \in Judged /\ UNCHANGED <<siblingHash, siblingFail>>
    BY <2>1 DEF Retried, NextRound, Judged, siblings
  <2>3. results'[round] # None /\ results'[round].okay = FALSE
        /\ OnlyThisRound(results, results')
    BY <2>1, <2>2, TaintedResult DEF Retried
  <2>4. ~LastOkay'
    BY <2>1, <2>2, <2>3, NextIsLast DEF Retried, LastOkay, Evidence
  <2>5. ~tooling
    <3>1. CASE GitRecovery
      <4>1. turn.git /\ MaxGitRecoveryResets > 0
        BY <3>1, BoundsAssumption DEF GitRecovery, AtGitGate, GitCapReached, TypeInv, TypeOK,
           CountersType
      <4> QED
        BY <4>1 DEF Capable, ToolsHold
    <3>2. CASE SpecDriftRecovery \/ FrozenEditRecovery
      BY <3>2 DEF SpecDriftRecovery, FrozenEditRecovery, AtFrozenGate, AtSpecGate
    <3> QED
      BY <1>7, <3>1, <3>2
  <2>6. HashSpeaks'
    BY <2>2, <2>5 DEF Helpers, HashSpeaks
  <2> QED
    BY <1>0, <1>7, <2>2, <2>4, <2>6, HelpersOpen DEF Judged, Gate
<1>8. CASE Claim
  <2>1. Passed
    BY <1>8, ClaimKinds
  <2>2. /\ pc \in Judged /\ ~tooling
        /\ UNCHANGED <<tree, siblingHash, siblingFail>>
    BY <2>1 DEF Passed, AtClaim, AtForbiddenGate, AtAxiomGate, AtFrozenGate, AtSpecGate,
       AtToolingGate, AtGitGate, AtCrosstalkGate, Judged, files, siblings
  <2>3. HashSpeaks' /\ (results[round].okay => Verifies')
    BY <2>2 DEF Helpers, HashSpeaks, Verifies
  <2>4. CASE NextRound
    <3>1. LastOkay' => results[round].okay
      BY <2>1, <2>2, <2>4, NextIsLast DEF Passed, LastOkay, Evidence
    <3> QED
      BY <1>0, <1>8, <2>3, <2>4, <3>1, HelpersOpen DEF NextRound, Judged
  <2>5. CASE \E reason \in LoopReasons : Break(reason)
    <3>1. pc' = "fold" /\ round' = round
      BY <2>5 DEF Break
    <3>2. LastOkay' => results'[round].okay
      <4>1. round \in 1..MaxRounds /\ results'[round] # None
        BY <2>1, <2>2, JudgedIsLast DEF Passed
      <4> QED
        BY <3>1, <4>1 DEF LastOkay, LastResult
    <3>3. LastOkay' => Verifies'
      BY <2>1, <2>3, <3>2 DEF Passed
    <3> QED
      BY <1>0, <1>8, <3>1, <3>3, HelpersOpen DEF Judged
  <2> QED
    BY <2>1, <2>4, <2>5 DEF Passed
<1>9. CASE CloseTask
  <2>1. Closing
    BY <1>9, CloseKind
  <2>2. Accepted' => Verifies'
    BY <2>1 DEF Closing, Accepted, Helpers, Verifies
  <2> QED
    BY <2>1, <2>2 DEF Closing, Helpers, Judged
<1>10. CASE \/ SetupFails \/ WriteReceipt \/ WriteResult \/ WriteBrief \/ WriteFailure
            \/ WriteRegistry \/ Crash \/ UNCHANGED vars
  <2>1. UNCHANGED <<round, results, tree, tooling, siblingHash, siblingFail, endReason, outcome>>
    BY <1>10, SetupEnds DEF WriteReceipt, WriteResult, WriteBrief, WriteFailure,
       WriteRegistry, Write, Crash, vars, ending, files, siblings
  <2>2. pc' = pc \/ pc' \in {"result", "brief", "failure", "registry", "done", "crashed"}
    BY <1>10, SetupEnds DEF WriteReceipt, WriteResult, WriteBrief, WriteFailure,
       WriteRegistry, Write, Crash, vars
  <2>3. LastOkay' = LastOkay /\ HonestEnd' = HonestEnd /\ Accepted' = Accepted
        /\ Verifies' = Verifies /\ HashSpeaks' = HashSpeaks
    BY <2>1 DEF LastOkay, LastResult, HonestEnd, Accepted, Closed, Verifies, HashSpeaks
  <2> QED
    BY <2>1, <2>2, <2>3 DEF Helpers, Judged
<1> QED
  BY <1>1, <1>2, <1>3, <1>4, <1>5, <1>6, <1>7, <1>8, <1>9, <1>10
     DEF Next, Step, Close, Round, Gate

LEMMA HelpersInit == Init => Helpers
<1> SUFFICES ASSUME Init PROVE Helpers
  OBVIOUS
<1>1. pc = "setup" /\ outcome = None /\ siblingHash = "base" /\ tree = Baseline
  BY DEF Init
<1>2. Verifies
  BY <1>1, AgentAssumption DEF Verifies
<1> QED
  BY <1>1, <1>2 DEF Helpers, HashSpeaks, Judged, Accepted, Closed

(* A sibling helper the agent edited is accepted only if it verifies,      *)
(* whatever rollback, recovery or cached verdict of the target came in     *)
(* between (sibling_hashes and pending_sibling_fail of run_task), for an   *)
(* agent that does not both read git history and doctor a tool.            *)
THEOREM AcceptedHelpersVerify ==
  ASSUME ToolsHold
  PROVE  Spec => []AcceptedSiblingVerifies
<1>1. CASE SiblingGateOn
  <2>1. Inv /\ Inv' /\ Capable /\ Helpers /\ [Next]_vars => Helpers'
    BY <1>1, HelpersStep DEF Inv
  <2>2. Helpers => AcceptedSiblingVerifies
    BY DEF Helpers, AcceptedSiblingVerifies, Verifies
  <2> QED
    BY <2>1, <2>2, HelpersInit, InvariantHolds, CapableHolds, PTL DEF Spec
<1>2. CASE ~SiblingGateOn
  <2>1. AcceptedSiblingVerifies
    BY <1>2 DEF AcceptedSiblingVerifies
  <2> QED
    BY <1>2, <2>1, PTL
<1> QED
  BY <1>1, <1>2

------------------------------------------------------------------------------
(* Recoveries are rationed.                                                *)

(* A round survived the drift of an item of the frozen specification. *)
DriftRound(k, i) == k \in Recovered("SPEC_DRIFT_RECOVERED") /\ i \in results[k].drift

(* No item drifts on in more consecutive rounds than it is restored. *)
SpecCap ==
  \A i \in SpecItems, n \in 1..MaxRounds :
    n + MaxSpecDriftRecoveries <= MaxRounds =>
      \E k \in n..(n + MaxSpecDriftRecoveries) : ~DriftRound(k, i)

(* The count of an item is at least the streak of drifts up to this round. *)
Streaks ==
  pc \in InLoop \cup {"setup"} =>
    \A i \in SpecItems, n \in 1..round :
      (\A k \in n..(round - 1) : DriftRound(k, i)) => round - n <= specCounts[i]

(* A counter is at least the number of rounds that were charged to it. *)
Charged ==
  /\ Cardinality(Recovered("GIT_RECOVERY_RECOVERED")) <= gitResets
  /\ Cardinality(Recovered("GIT_RECOVERY_RECOVERED")) <= MaxGitRecoveryResets
  /\ Cardinality(Recovered("FROZEN_EDIT_RECOVERED")) <= frozenResets
  /\ Cardinality(Recovered("FROZEN_EDIT_RECOVERED")) <= MaxFrozenEditResets

Rations ==
  /\ pc \in Judged => results[round].reason \in AgentClaims
  /\ Charged /\ Streaks /\ SpecCap

LEMMA RecoveredFinite ==
  ASSUME NEW reason
  PROVE  /\ IsFiniteSet(Recovered(reason)) /\ Cardinality(Recovered(reason)) \in Nat
         /\ Recovered(reason) \subseteq 1..MaxRounds
<1>1. IsFiniteSet(1..MaxRounds)
  BY FS_Interval, BoundsAssumption
<1>2. Recovered(reason) \in SUBSET (1..MaxRounds)
  BY DEF Recovered
<1>3. IsFiniteSet(Recovered(reason))
  BY <1>1, <1>2, FS_Subset
<1> QED
  BY <1>2, <1>3, FS_CardinalityType

(* The round is charged to a counter, once. *)
LEMMA OneMore ==
  ASSUME TypeInv, NEW reason \in RecoveredReasons, OnlyThisRound(results, results')
  PROVE  /\ Cardinality(Recovered(reason)') \in Nat
         /\ Cardinality(Recovered(reason)') <= Cardinality(Recovered(reason)) + 1
<1>1. Recovered(reason)' \in SUBSET (Recovered(reason) \cup {round})
  BY DEF Recovered, OnlyThisRound
<1>2. /\ IsFiniteSet(Recovered(reason) \cup {round})
      /\ Cardinality(Recovered(reason) \cup {round}) <= Cardinality(Recovered(reason)) + 1
  BY RecoveredFinite, FS_AddElement
<1>3. /\ IsFiniteSet(Recovered(reason)')
      /\ Cardinality(Recovered(reason)') <= Cardinality(Recovered(reason) \cup {round})
  BY <1>1, <1>2, FS_Subset
<1> QED
  BY <1>2, <1>3, FS_CardinalityType, RecoveredFinite

(* A round that did not end in this recovery is not charged to it. *)
LEMMA NoMore ==
  ASSUME TypeInv, NEW reason, OnlyThisRound(results, results'),
         results' = results \/ (results'[round] # None /\ results'[round].reason # reason)
  PROVE  /\ Recovered(reason)' \subseteq Recovered(reason)
         /\ Cardinality(Recovered(reason)') <= Cardinality(Recovered(reason))
<1>1. Recovered(reason)' \in SUBSET Recovered(reason)
  BY DEF Recovered, OnlyThisRound
<1>2. IsFiniteSet(Recovered(reason))
  BY RecoveredFinite
<1>3. Cardinality(Recovered(reason)') <= Cardinality(Recovered(reason))
  BY <1>1, <1>2, FS_Subset
<1> QED
  BY <1>1, <1>3

LEMMA NoMoreDrift ==
  ASSUME TypeInv, OnlyThisRound(results, results'),
         \/ results' = results
         \/ results'[round] # None /\ results'[round].reason # "SPEC_DRIFT_RECOVERED"
  PROVE  \A k, i : DriftRound(k, i)' => DriftRound(k, i)
<1>1. \A k \in 1..MaxRounds : k # round => results'[k] = results[k]
  BY DEF OnlyThisRound
<1> QED
  BY <1>1 DEF DriftRound, Recovered

(* No recovery: counters may grow, and the loop goes on in the same round, *)
(* or is left.                                                             *)
LEMMA RationsQuiet ==
  ASSUME TypeInv, TypeInv', Rations, OnlyThisRound(results, results'),
         \/ results' = results
         \/ results'[round] # None /\ results'[round].reason \notin RecoveredReasons,
         gitResets' >= gitResets, frozenResets' >= frozenResets,
         pc' \in Judged => results'[round'].reason \in AgentClaims,
         pc' \in InLoop \cup {"setup"} =>
           pc \in InLoop \cup {"setup"} /\ UNCHANGED <<round, specCounts>>
  PROVE  Rations'
<1>1. \A k, i : DriftRound(k, i)' => DriftRound(k, i)
  BY NoMoreDrift DEF RecoveredReasons
<1>2. SpecCap'
  BY <1>1 DEF Rations, SpecCap
<1>3. Streaks'
  BY <1>1 DEF Rations, Streaks
<1>4. Charged'
  <2>1. /\ Cardinality(Recovered("GIT_RECOVERY_RECOVERED")')
             <= Cardinality(Recovered("GIT_RECOVERY_RECOVERED"))
        /\ Cardinality(Recovered("FROZEN_EDIT_RECOVERED")')
             <= Cardinality(Recovered("FROZEN_EDIT_RECOVERED"))
    BY NoMore DEF RecoveredReasons
  <2>2. /\ Cardinality(Recovered("GIT_RECOVERY_RECOVERED")) \in Nat
        /\ Cardinality(Recovered("FROZEN_EDIT_RECOVERED")) \in Nat
        /\ Cardinality(Recovered("GIT_RECOVERY_RECOVERED")') \in Nat
        /\ Cardinality(Recovered("FROZEN_EDIT_RECOVERED")') \in Nat
    BY RecoveredFinite, OneMore DEF RecoveredReasons
  <2>3. /\ gitResets \in Nat /\ gitResets' \in Nat
        /\ frozenResets \in Nat /\ frozenResets' \in Nat
    BY DEF TypeInv, TypeOK, CountersType
  <2> QED
    BY <2>1, <2>2, <2>3, BoundsAssumption DEF Rations, Charged
<1> QED
  BY <1>2, <1>3, <1>4 DEF Rations

(* What a loss of the loop charges. *)
LEMMA LossCounts ==
  ASSUME TypeInv,
         \/ RateLimited \/ NoResultExit \/ HangBailOut
         \/ ProcessCrosstalk \/ GitRecoveryOverCap \/ ToolingDrift
         \/ SpecDriftOverCapEnds \/ SpecRestoreFails
         \/ FrozenAuditFails \/ FrozenEditOverCap \/ FrozenRevertFails
         \/ AxiomDrift \/ ForbiddenConstruct
  PROVE  gitResets' >= gitResets /\ frozenResets' >= frozenResets
<1>1. gitResets \in Nat /\ frozenResets \in Nat
  BY DEF TypeInv, TypeOK, CountersType
<1>2. CASE \/ RateLimited \/ NoResultExit \/ HangBailOut \/ ProcessCrosstalk
           \/ GitRecoveryOverCap \/ ToolingDrift
  BY <1>1, <1>2 DEF RateLimited, NoResultExit, HangBailOut, ProcessCrosstalk,
     GitRecoveryOverCap, ToolingDrift, counters
<1>3. CASE \/ SpecDriftOverCapEnds \/ SpecRestoreFails \/ FrozenAuditFails
           \/ AxiomDrift \/ ForbiddenConstruct
  <2>1. UNCHANGED <<gitResets, frozenResets>>
    BY <1>3 DEF SpecDriftOverCapEnds, SpecRestoreFails, FrozenAuditFails, AxiomDrift,
       ForbiddenConstruct
  <2> QED
    BY <1>1, <2>1
<1>4. CASE FrozenEditOverCap \/ FrozenRevertFails
  <2>1. gitResets' = gitResets /\ frozenResets' = frozenResets + 1
    BY <1>4 DEF FrozenEditOverCap, FrozenRevertFails
  <2> QED
    BY <1>1, <2>1
<1> QED
  BY <1>2, <1>3, <1>4

(* The next round starts, and this one was none of the restored. *)
LEMMA StreakBroken ==
  ASSUME TypeInv, TypeInv', Rations, NextRound,
         NEW r, r = round, ~(\E i : DriftRound(r, i)')
  PROVE  Streaks'
<1>1. round \in Nat /\ round >= 1 /\ round' = round + 1
  BY DEF TypeInv, TypeOK, ControlType, NextRound
<1>2. \A i \in SpecItems : specCounts'[i] \in Nat
  BY DEF TypeInv, TypeOK, CountersType
<1>3. ASSUME NEW i \in SpecItems, NEW n \in 1..round',
             \A k \in n..(round' - 1) : DriftRound(k, i)'
      PROVE  round' - n <= specCounts'[i]
  <2>1. CASE n \in 1..round
    BY <1>1, <1>3, <2>1
  <2>2. CASE n = round + 1
    BY <1>1, <1>2, <2>2
  <2> QED
    BY <1>1, <2>1, <2>2
<1> QED
  BY <1>3 DEF Streaks

(* The end of a streak allowed is the end of the streak. *)
LEMMA SpecCapKept ==
  ASSUME TypeInv, ResultsOpen', Rations, NextRound, OnlyThisRound(results, results'),
         pc \in Judged,
         \A i \in SpecItems : i \in results[round].drift =>
           specCounts[i] + 1 <= MaxSpecDriftRecoveries,
         results'[round] # None /\ results'[round].drift = results[round].drift
  PROVE  SpecCap'
<1>1. round \in 1..MaxRounds /\ round \in Nat /\ round' = round + 1 /\ MaxRounds \in Nat
      /\ MaxSpecDriftRecoveries \in Nat
  BY JudgedIsLast, BoundsAssumption DEF NextRound
<1>2. \A i \in SpecItems : specCounts[i] \in Nat
  BY DEF TypeInv, TypeOK, CountersType
<1>3. \A k, i : k \in 1..MaxRounds /\ k # round /\ DriftRound(k, i)' => DriftRound(k, i)
  BY DEF DriftRound, Recovered, OnlyThisRound
<1>4. \A k, i : k \in 1..MaxRounds /\ k > round => ~DriftRound(k, i)'
  <2>1. pc' = "start"
    BY DEF NextRound
  <2>2. \A k \in 1..MaxRounds : k > round => results'[k] = None
    BY <1>1, <2>1 DEF ResultsOpen, Pending
  <2> QED
    BY <2>2 DEF DriftRound, Recovered
<1>5. SUFFICES ASSUME NEW i \in SpecItems, NEW n \in 1..MaxRounds,
                      n + MaxSpecDriftRecoveries <= MaxRounds,
                      \A k \in n..(n + MaxSpecDriftRecoveries) : DriftRound(k, i)'
               PROVE  FALSE
  BY DEF SpecCap
<1> DEFINE last == n + MaxSpecDriftRecoveries
<1>6. last \in Nat /\ last \in 1..MaxRounds /\ n <= last /\ n \in Nat
  BY <1>1, <1>5
<1>7. last <= round
  BY <1>1, <1>4, <1>5, <1>6
<1>8. CASE last < round
  <2>1. \A k \in n..last : DriftRound(k, i)
    BY <1>1, <1>3, <1>5, <1>6, <1>8
  <2> QED
    BY <1>5, <2>1 DEF Rations, SpecCap
<1>9. CASE last = round
  <2>1. \A k \in n..(round - 1) : DriftRound(k, i)
    BY <1>1, <1>3, <1>5, <1>6, <1>9
  <2>2. round - n <= specCounts[i]
    BY <1>1, <1>6, <1>9, <2>1 DEF Rations, Streaks, InLoop, InRound, Judged
  <2>3. i \in results[round].drift
    <3>1. DriftRound(last, i)'
      BY <1>1, <1>5, <1>6
    <3> QED
      BY <1>9, <3>1 DEF DriftRound
  <2> QED
    BY <1>1, <1>2, <1>5, <1>6, <1>9, <2>2, <2>3
<1> QED
  BY <1>1, <1>6, <1>7, <1>8, <1>9

LEMMA RationsStep ==
  TypeInv /\ TypeInv' /\ Evidence /\ Evidence' /\ Rations /\ [Next]_vars => Rations'
<1> SUFFICES ASSUME TypeInv, TypeInv', Evidence, Evidence', Rations, [Next]_vars
             PROVE  Rations'
  OBVIOUS
<1> DEFINE git    == "GIT_RECOVERY_RECOVERED"
           spec   == "SPEC_DRIFT_RECOVERED"
           frozen == "FROZEN_EDIT_RECOVERED"
<1>0. /\ git \in RecoveredReasons /\ spec \in RecoveredReasons /\ frozen \in RecoveredReasons
      /\ \A claim \in AgentClaims : claim \notin RecoveredReasons
  BY DEF RecoveredReasons, AgentClaims
<1>1. gitResets \in Nat /\ frozenResets \in Nat /\ round \in Nat /\ gitResets' \in Nat
      /\ frozenResets' \in Nat /\ \A i \in SpecItems : specCounts[i] \in Nat
  BY DEF TypeInv, TypeOK, CountersType, ControlType
<1>2. ASSUME UNCHANGED results PROVE OnlyThisRound(results, results')
  BY <1>2 DEF OnlyThisRound
<1>3. CASE \/ Setup \/ SetupFails \/ LoopEnds \/ BudgetBailOut \/ BeginRound \/ AgentTurn
           \/ CloseTask \/ WriteReceipt \/ WriteResult \/ WriteBrief \/ WriteFailure
           \/ WriteRegistry \/ Crash \/ UNCHANGED vars
  <2>1. UNCHANGED <<round, results, gitResets, frozenResets, specCounts>>
    BY <1>3, SetupEnds DEF Setup, LoopEnds, BudgetBailOut, BeginRound, AgentTurn, CloseTask,
       WriteReceipt, WriteResult, WriteBrief, WriteFailure, WriteRegistry, Write, Crash, vars,
       counters
  <2>2. /\ pc' \in Judged => pc' = pc
        /\ pc' \in InLoop \cup {"setup"} => pc \in InLoop \cup {"setup"}
    BY <1>3, SetupEnds DEF Setup, LoopEnds, BudgetBailOut, BeginRound, AgentTurn, CloseTask,
       WriteReceipt, WriteResult, WriteBrief, WriteFailure, WriteRegistry, Write, Crash, vars,
       Judged, InLoop, InRound
  <2>3. pc' \in Judged => results'[round'].reason \in AgentClaims
    BY <2>1, <2>2 DEF Rations
  <2> QED
    BY <1>1, <1>2, <2>1, <2>2, <2>3, RationsQuiet
<1>4. CASE SessionControl
  <2>1. pc = "session" /\ pc' = "integrity"
        /\ UNCHANGED <<round, results, gitResets, frozenResets, specCounts>>
    BY <1>4 DEF SessionControl, counters
  <2>2. results'[round'].reason \in AgentClaims
    BY <2>1 DEF Rations, Judged
  <2> QED
    BY <1>1, <1>2, <2>1, <2>2, RationsQuiet DEF Judged, InLoop, InRound
<1>5. CASE GateRound
  <2>1. pc = "post" /\ pc' = "session"
        /\ UNCHANGED <<round, gitResets, frozenResets, specCounts>>
    BY <1>5 DEF GateRound, counters
  <2>2. round \in 0..MaxRounds
    BY <2>1 DEF TypeInv, TypeOK, Standing, InRound, ControlType
  <2>9. PICK heard \in Hearing(tree) : \E drift \in SpecReports(tree, heard) :
          \E receipt \in GateAnswers(drift), siblingOkay \in SiblingVerdicts :
             Record(drift, receipt, siblingOkay)
    BY <1>5 DEF GateRound
  <2>3. PICK drift \in SpecReports(tree, heard) :
          \E receipt \in GateAnswers(drift), siblingOkay \in SiblingVerdicts :
             Record(drift, receipt, siblingOkay)
    BY <2>9
  <2>4. PICK receipt \in GateAnswers(drift), siblingOkay \in SiblingVerdicts :
           Record(drift, receipt, siblingOkay)
    BY <2>3
  <2>5. results' = [results EXCEPT ![round] = [reason |-> turn.claim,
                      okay |-> receipt.okay /\ siblingOkay, drift |-> drift]]
    BY <2>4 DEF Record
  <2>6. OnlyThisRound(results, results')
    BY <2>5 DEF OnlyThisRound, TypeInv, TypeOK, ResultsType
  <2>7. results'[round].reason = turn.claim /\ turn.claim \in AgentClaims
    BY <2>2, <2>5 DEF TypeInv, TypeOK, ResultsType, StreamsType, Turn
  <2>8. results'[round] # None
    BY <2>1, NoneAssumption DEF TypeInv, Standing, Judged
  <2> QED
    BY <1>0, <1>1, <2>1, <2>6, <2>7, <2>8, RationsQuiet DEF InLoop, InRound
<1>6. CASE \/ RateLimited \/ NoResultExit \/ HangBailOut
           \/ ProcessCrosstalk \/ GitRecoveryOverCap \/ ToolingDrift
           \/ SpecDriftOverCapEnds \/ SpecRestoreFails
           \/ FrozenAuditFails \/ FrozenEditOverCap \/ FrozenRevertFails
           \/ AxiomDrift \/ ForbiddenConstruct
  <2>1. Lost
    BY <1>6, LossKinds
  <2>2. gitResets' >= gitResets /\ frozenResets' >= frozenResets
    BY <1>6, LossCounts
  <2>3. pc' \notin Judged \cup InLoop \cup {"setup"}
    BY <2>1 DEF Lost, Judged, InLoop, InRound
  <2> QED
    BY <2>1, <2>2, <2>3, RationsQuiet DEF Lost
<1>7. ASSUME NEW reason \in RecoveredReasons, Retried(reason)
      PROVE  /\ pc \in Judged /\ pc' = "start" /\ NextRound
             /\ OnlyThisRound(results, results') /\ results'[round] # None
             /\ results'[round].reason = reason
             /\ results'[round].drift = results[round].drift
             /\ \A other : other # reason =>
                  Cardinality(Recovered(other)') <= Cardinality(Recovered(other))
             /\ Cardinality(Recovered(reason)') <= Cardinality(Recovered(reason)) + 1
             /\ reason # spec => SpecCap' /\ Streaks'
  <2>1. pc \in Judged /\ pc' = "start" /\ NextRound /\ TaintRound(reason)
    BY <1>7 DEF Retried, NextRound, Judged
  <2>2. /\ OnlyThisRound(results, results') /\ results'[round] # None
        /\ results'[round].reason = reason
        /\ results'[round].drift = results[round].drift
    BY <1>7, <2>1, TaintedResult
  <2>3. \A other : other # reason =>
          Cardinality(Recovered(other)') <= Cardinality(Recovered(other))
    BY <2>2, NoMore
  <2>4. Cardinality(Recovered(reason)') <= Cardinality(Recovered(reason)) + 1
    BY <1>7, <2>2, OneMore
  <2>5. ASSUME reason # spec PROVE SpecCap' /\ Streaks'
    <3>1. \A k, i : DriftRound(k, i)' => DriftRound(k, i)
      BY <2>2, <2>5, NoMoreDrift
    <3>2. SpecCap'
      BY <3>1 DEF Rations, SpecCap
    <3>3. PICK r \in Nat : r = round
      BY <1>1
    <3>4. ~(\E i : DriftRound(r, i)')
      BY <2>2, <2>5, <3>3 DEF DriftRound, Recovered
    <3> QED
      BY <2>1, <3>2, <3>3, <3>4, StreakBroken
  <2> QED
    BY <2>1, <2>2, <2>3, <2>4, <2>5
<1>8. /\ Cardinality(Recovered(git)) \in Nat /\ Cardinality(Recovered(git)') \in Nat
      /\ Cardinality(Recovered(frozen)) \in Nat /\ Cardinality(Recovered(frozen)') \in Nat
  <2>1. ASSUME NEW reason PROVE Cardinality(Recovered(reason)') \in Nat
    <3>1. IsFiniteSet(1..MaxRounds) /\ Recovered(reason)' \in SUBSET (1..MaxRounds)
      BY FS_Interval, BoundsAssumption DEF Recovered
    <3> QED
      BY <3>1, FS_Subset, FS_CardinalityType
  <2> QED
    BY <2>1, RecoveredFinite
<1>9. CASE GitRecovery
  <2>1. Retried(git)
    BY <1>9, RetryKinds
  <2>2. gitResets < MaxGitRecoveryResets /\ gitResets' = gitResets + 1
        /\ frozenResets' = frozenResets
    BY <1>1, <1>9, BoundsAssumption DEF GitRecovery, GitCapReached
  <2>3. /\ Cardinality(Recovered(git)') <= Cardinality(Recovered(git)) + 1
        /\ Cardinality(Recovered(frozen)') <= Cardinality(Recovered(frozen))
    BY <1>0, <1>7, <2>1
  <2>4. Charged'
    BY <1>1, <1>8, <2>2, <2>3, BoundsAssumption DEF Rations, Charged
  <2>5. SpecCap' /\ Streaks' /\ pc' = "start"
    BY <1>0, <1>7, <2>1
  <2> QED
    BY <2>4, <2>5 DEF Rations, Judged
<1>10. CASE FrozenEditRecovery
  <2>1. Retried(frozen)
    BY <1>10, RetryKinds
  <2>2. frozenResets < MaxFrozenEditResets /\ frozenResets' = frozenResets + 1
        /\ gitResets' = gitResets
    BY <1>10 DEF FrozenEditRecovery
  <2>3. /\ Cardinality(Recovered(frozen)') <= Cardinality(Recovered(frozen)) + 1
        /\ Cardinality(Recovered(git)') <= Cardinality(Recovered(git))
    BY <1>0, <1>7, <2>1
  <2>4. Charged'
    BY <1>1, <1>8, <2>2, <2>3, BoundsAssumption DEF Rations, Charged
  <2>5. SpecCap' /\ Streaks' /\ pc' = "start"
    BY <1>0, <1>7, <2>1
  <2> QED
    BY <2>4, <2>5 DEF Rations, Judged
<1>11. CASE SpecDriftRecovery
  <2>1. Retried(spec)
    BY <1>11, RetryKinds
  <2>2. specCounts' = CountedDrift /\ gitResets' = gitResets /\ frozenResets' = frozenResets
        /\ ~SpecDriftOverCap
    BY <1>11 DEF SpecDriftRecovery
  <2>3. /\ pc \in Judged /\ pc' = "start" /\ NextRound /\ results'[round] # None
        /\ OnlyThisRound(results, results')
        /\ results'[round].drift = results[round].drift
        /\ Cardinality(Recovered(git)') <= Cardinality(Recovered(git))
        /\ Cardinality(Recovered(frozen)') <= Cardinality(Recovered(frozen))
    BY <1>0, <1>7, <2>1
  <2>4. Charged'
    BY <1>1, <1>8, <2>2, <2>3, BoundsAssumption DEF Rations, Charged
  <2>5. \A i \in SpecItems : i \in results[round].drift =>
          specCounts[i] + 1 <= MaxSpecDriftRecoveries
    BY <1>1, <2>2, BoundsAssumption DEF SpecDriftOverCap, CountedDrift
  <2>6. SpecCap'
    BY <2>3, <2>5, SpecCapKept DEF Evidence
  <2>7. Streaks'
    <3>1. round \in 1..MaxRounds /\ round' = round + 1
      BY <2>3, JudgedIsLast DEF NextRound
    <3>2. \A k, i : k \in 1..MaxRounds /\ k # round /\ DriftRound(k, i)' => DriftRound(k, i)
      BY <2>3 DEF DriftRound, Recovered, OnlyThisRound
    <3>3. ASSUME NEW i \in SpecItems, NEW n \in 1..round',
                 \A k \in n..(round' - 1) : DriftRound(k, i)'
          PROVE  round' - n <= specCounts'[i]
      <4>1. specCounts'[i] \in Nat /\ n \in Nat /\ MaxRounds \in Nat
        BY BoundsAssumption DEF TypeInv, TypeOK, CountersType
      <4>2. CASE n = round + 1
        BY <1>1, <3>1, <4>1, <4>2
      <4>3. CASE n \in 1..round
        <5>1. \A k \in n..(round - 1) : DriftRound(k, i)
          BY <1>1, <3>1, <3>2, <3>3, <4>1, <4>3
        <5>2. round - n <= specCounts[i]
          BY <2>3, <4>3, <5>1 DEF Rations, Streaks, InLoop, InRound, Judged
        <5>3. i \in results[round].drift
          <6>1. PICK r \in Nat : r = round
            BY <1>1
          <6>2. DriftRound(r, i)'
            BY <3>1, <3>3, <4>1, <4>3, <6>1
          <6> QED
            BY <2>3, <6>1, <6>2 DEF DriftRound
        <5>4. specCounts'[i] = specCounts[i] + 1
          BY <2>2, <5>3 DEF CountedDrift
        <5> QED
          BY <1>1, <3>1, <4>1, <5>2, <5>4
      <4> QED
        BY <1>1, <3>1, <4>2, <4>3
    <3> QED
      BY <3>3 DEF Streaks
  <2> QED
    BY <2>3, <2>4, <2>6, <2>7 DEF Rations, Judged
<1>12. CASE Claim
  <2>1. Passed
    BY <1>12, ClaimKinds
  <2>2. pc \in Judged
    BY <2>1 DEF Passed, AtClaim, AtForbiddenGate, AtAxiomGate, AtFrozenGate,
       AtSpecGate, AtToolingGate, AtGitGate, AtCrosstalkGate, Judged
  <2>3. /\ OnlyThisRound(results, results') /\ results'[round] # None
        /\ results'[round].reason \in AgentClaims
        /\ results'[round].reason \notin RecoveredReasons
        /\ UNCHANGED <<gitResets, frozenResets>>
    BY <1>0, <2>1, <2>2 DEF Passed, Rations
  <2>4. CASE \E reason \in LoopReasons : Break(reason)
    <3>1. pc' \notin Judged \cup InLoop \cup {"setup"}
      BY <2>4 DEF Break, Judged, InLoop, InRound
    <3> QED
      BY <1>1, <2>3, <3>1, RationsQuiet
  <2>5. CASE NextRound
    <3>1. \A k, i : DriftRound(k, i)' => DriftRound(k, i)
      BY <1>0, <2>3, NoMoreDrift
    <3>2. SpecCap'
      BY <3>1 DEF Rations, SpecCap
    <3>3. PICK r \in Nat : r = round
      BY <1>1
    <3>4. ~(\E i : DriftRound(r, i)')
      BY <1>0, <2>3, <3>3 DEF DriftRound, Recovered
    <3>5. Streaks'
      BY <2>5, <3>3, <3>4, StreakBroken
    <3>6. /\ Cardinality(Recovered(git)') <= Cardinality(Recovered(git))
          /\ Cardinality(Recovered(frozen)') <= Cardinality(Recovered(frozen))
      BY <1>0, <2>3, NoMore
    <3>7. Charged'
      BY <1>1, <1>8, <2>3, <3>6, BoundsAssumption DEF Rations, Charged
    <3> QED
      BY <2>5, <3>2, <3>5, <3>7 DEF Rations, NextRound, Judged
  <2> QED
    BY <2>1, <2>4, <2>5 DEF Passed
<1> QED
  BY <1>3, <1>4, <1>5, <1>6, <1>9, <1>10, <1>11, <1>12
     DEF Next, Step, Close, Round, Gate

LEMMA RationsInit == Init => Rations
<1> SUFFICES ASSUME Init PROVE Rations
  OBVIOUS
<1>1. /\ pc = "setup" /\ round = 1 /\ gitResets = 0 /\ frozenResets = 0
      /\ specCounts = [i \in SpecItems |-> 0]
      /\ \A n \in 1..MaxRounds : results[n] = None
  BY DEF Init
<1>2. \A reason : Recovered(reason) = {}
  BY <1>1 DEF Recovered
<1>3. Charged
  BY <1>1, <1>2, FS_EmptySet, BoundsAssumption DEF Charged
<1>4. Streaks
  BY <1>1 DEF Streaks
<1>5. SpecCap
  <2>1. ASSUME NEW n \in 1..MaxRounds PROVE n \in n..(n + MaxSpecDriftRecoveries)
    BY BoundsAssumption
  <2> QED
    BY <1>2, <2>1 DEF SpecCap, DriftRound
<1> QED
  BY <1>1, <1>3, <1>4, <1>5 DEF Rations, Judged

(* A task survives no more reads of git history and frozen edits than the  *)
(* caps allow, and an item of the frozen specification does not drift on   *)
(* in more consecutive rounds than it may be restored: the recovery        *)
(* counters of run_task are charged on every path that goes on.            *)
THEOREM RecoveriesAreRationed == Spec => []RecoveryCaps
<1>1. Init => Rations
  BY RationsInit
<1>2. Inv /\ Inv' /\ Rations /\ [Next]_vars => Rations'
  BY RationsStep DEF Inv
<1>3. Rations => RecoveryCaps
  BY DEF Rations, Charged, SpecCap, DriftRound, RecoveryCaps
<1> QED
  BY <1>1, <1>2, <1>3, InvariantHolds, PTL DEF Spec

------------------------------------------------------------------------------
(* Text recovered from git history.  A read contaminates the files, the    *)
(* session and the snapshot of its round; until the first one nothing      *)
(* leaks, and every earlier round has its snapshot.                        *)

Saved == /\ pc = "setup" => round = 1
         /\ pc \in InLoop => \A n \in 0..(round - 1) : snaps[n] # None

Unspoilt ==
  pc \in InLoop \cup {"setup"} /\ gitResets = 0 =>
    /\ \A n \in 0..(round - 1) : snaps[n] # None => ~snaps[n].leaked
    /\ pc \in {"setup", "start", "agent"} => ~turn.git
    /\ ~turn.git => ~tree.leaked /\ ~context

FirstRollbackClean == gitResets <= 1 => RollbackDropsRecoveredText
Reconstructed == gitResets = 0 /\ Accepted => ~tree.leaked

Recall ==
  /\ Saved /\ Unspoilt
  /\ pc = "fold" /\ gitResets = 0 /\ HonestEnd => ~tree.leaked
  /\ FirstRollbackClean
  /\ Reconstructed

(* Away from the head of the loop, before the decision. *)
LEMMA RecallOpen ==
  ASSUME TypeInv', pc' \in Undecided, pc' # "start", Saved', Unspoilt',
         pc' = "fold" /\ gitResets' = 0 /\ HonestEnd' => ~tree'.leaked
  PROVE  Recall'
BY DEF Recall, FirstRollbackClean, RollbackDropsRecoveredText, Reconstructed,
       TypeInv, Standing, Accepted, Closed

LEMMA RecallQuiet ==
  ASSUME TypeInv', pc' \in Undecided, pc' \notin InLoop \cup {"setup"},
         pc' = "fold" /\ gitResets' = 0 /\ HonestEnd' => ~tree'.leaked
  PROVE  Recall'
BY DEF Recall, Saved, Unspoilt, FirstRollbackClean, RollbackDropsRecoveredText,
       Reconstructed, InLoop, TypeInv, Standing, Accepted, Closed

(* A round is over and the next one starts over files of known origin. *)
LEMMA RecallNextRound ==
  ASSUME TypeInv, TypeInv', Targets, Recall, pc = "integrity", NextRound,
         OnlyThisRound(snaps, snaps'), snaps'[round] # None,
         gitResets' = 0 => /\ gitResets = 0 /\ ~turn.git /\ turn' = turn
                           /\ ~snaps'[round].leaked /\ ~tree'.leaked /\ context' = context,
         FirstRollbackClean'
  PROVE  Recall'
<1>1. pc' = "start" /\ round' = round + 1 /\ round \in 1..MaxRounds /\ UNCHANGED ending
  BY JudgedIsLast DEF NextRound, Judged
<1>2. \A n \in 0..(round - 1) : snaps'[n] = snaps[n] /\ snaps[n] # None
  <2>1. \A n \in 0..(round - 1) : n \in 0..MaxRounds /\ n # round
    BY <1>1, BoundsAssumption
  <2> QED BY <2>1 DEF OnlyThisRound, Recall, Saved, InLoop, InRound
<1>3. \A n \in 0..(round' - 1) : n = round \/ n \in 0..(round - 1)
  BY <1>1
<1>4. Saved'
  BY <1>1, <1>2, <1>3 DEF Saved
<1>5. gitResets' = 0 => \A n \in 0..(round - 1) : ~snaps[n].leaked
  BY <1>2 DEF Recall, Unspoilt, InLoop, InRound
<1>6. gitResets' = 0 => ~context'
  BY DEF Recall, Unspoilt, InLoop, InRound
<1>7. Unspoilt'
  BY <1>1, <1>2, <1>3, <1>5, <1>6 DEF Unspoilt
<1>8. ~Accepted'
  BY <1>1 DEF TypeInv, Standing, Undecided, Accepted, Closed
<1> QED
  BY <1>1, <1>4, <1>7, <1>8 DEF Recall, Reconstructed

LEMMA RecallLoop ==
  ASSUME TypeInv, TypeInv', Recall, Setup \/ BeginRound \/ GateRound \/ SessionControl
  PROVE  Recall'
<1>1. CASE Setup
  <2>1. /\ pc = "setup" /\ pc' = "start" /\ round' = round
        /\ UNCHANGED <<tree, turn, context, gitResets, results>>
        /\ snaps' = [snaps EXCEPT ![0] = tree]
    BY <1>1 DEF Setup, files, streams, sessionVars, counters
  <2>2. round = 1 /\ tree \in Tree /\ tree # None /\ snaps \in [0..MaxRounds -> Tree \cup {None}]
    BY <2>1, NoneAssumption DEF TypeInv, TypeOK, FilesType, SnapsType, Recall, Saved
  <2>3. 0 \in 0..MaxRounds /\ \A n \in 0..(round - 1) : n = 0
    BY <2>2, BoundsAssumption
  <2>4. snaps'[0] = tree
    BY <2>1, <2>2, <2>3
  <2>5. Saved' /\ Unspoilt'
    BY <2>1, <2>2, <2>3, <2>4 DEF Saved, Recall, Unspoilt
  <2>6. FirstRollbackClean' /\ ~Accepted'
    BY <2>1, <2>2 DEF FirstRollbackClean, RollbackDropsRecoveredText, TypeInv, Standing,
       Undecided, Accepted, Closed
  <2> QED BY <2>1, <2>5, <2>6 DEF Recall, Reconstructed
<1>2. CASE BeginRound
  <2>1. /\ pc = "start" /\ pc' = "agent" /\ context' = ((context /\ ~fresh) \/ HistoryLeaks)
        /\ UNCHANGED <<round, tree, turn, gitResets, snaps>>
        /\ round \in 1..MaxRounds
    BY <1>2 DEF BeginRound, files, streams, counters, TypeInv, TypeOK, ControlType
  <2>2. HistoryLeaks => \E n \in 0..(round - 1) : snaps[n] # None /\ snaps[n].leaked
    BY <2>1 DEF HistoryLeaks, HistoryRounds
  <2>3. Saved' /\ Unspoilt'
    BY <2>1, <2>2 DEF Saved, Recall, Unspoilt, InLoop, InRound
  <2> QED BY <2>1, <2>3, RecallOpen DEF Undecided
<1>3. CASE GateRound
  <2>1. /\ pc = "post" /\ pc' = "session" /\ snaps' = [snaps EXCEPT ![round] = tree]
        /\ UNCHANGED <<round, tree, turn, context, gitResets>>
        /\ round \in 1..MaxRounds
    BY <1>3 DEF GateRound, files, streams, counters, TypeInv, TypeOK, ControlType, Standing,
       InRound
  <2>2. \A n \in 0..(round - 1) : snaps'[n] = snaps[n]
    <3>1. \A n \in 0..(round - 1) : n \in 0..MaxRounds /\ n # round
      BY <2>1, BoundsAssumption
    <3> QED BY <2>1, <3>1 DEF TypeInv, TypeOK, SnapsType
  <2>3. Saved' /\ Unspoilt'
    BY <2>1, <2>2 DEF Saved, Recall, Unspoilt, InLoop, InRound
  <2> QED BY <2>1, <2>3, RecallOpen DEF Undecided
<1>4. CASE SessionControl
  <2>1. /\ pc = "session" /\ pc' = "integrity"
        /\ UNCHANGED <<round, tree, turn, context, gitResets, snaps>>
    BY <1>4 DEF SessionControl, files, streams, counters
  <2>2. Saved' /\ Unspoilt'
    BY <2>1 DEF Saved, Recall, Unspoilt, InLoop, InRound
  <2> QED BY <2>1, <2>2, RecallOpen DEF Undecided
<1> QED BY <1>1, <1>2, <1>3, <1>4

(* Without a read of history there is no source of recovered text.         *)
LEMMA RecallTurn ==
  ASSUME TypeInv, TypeInv', Recall, AgentTurn
  PROVE  Recall'
<1>1. /\ tree'.leaked => tree.leaked \/ context \/ turn'.git
      /\ context' = (context \/ turn'.git)
  BY DEF AgentTurn
<1>3. pc = "agent" /\ pc' = "post" /\ UNCHANGED <<round, snaps, gitResets>>
  BY DEF AgentTurn, counters
<1>4. Saved' /\ Unspoilt'
  BY <1>1, <1>3 DEF Saved, Recall, Unspoilt, InLoop, InRound
<1> QED BY <1>3, <1>4, RecallOpen DEF Undecided

(* The loop is left at its head, perhaps over the last good files.         *)
LEMMA RecallLeaving ==
  ASSUME TypeInv, TypeInv', Targets, Recall, LoopEnds \/ BudgetBailOut
  PROVE  Recall'
<1>1. pc = "start" /\ pc' = "fold" /\ UNCHANGED gitResets
  BY DEF LoopEnds, BudgetBailOut, counters
<1>2. tree' = tree \/ tree' = snaps[lastGood]
  BY DEF LoopEnds, BudgetBailOut, Restored, files
<1>3. lastGood \in 0..(round - 1) /\ snaps[lastGood] # None
  <2>1. lastGood \in Nat /\ lastClean \in Nat /\ round \in Nat
    BY BoundsAssumption DEF TypeInv, TypeOK, TargetsType, ControlType
  <2>2. lastGood <= lastClean /\ lastClean < round
    BY <1>1 DEF Targets, RollbackTargetsClean, InLoop
  <2>3. lastGood \in 0..(round - 1)
    BY <2>1, <2>2
  <2> QED BY <1>1, <2>3 DEF Recall, Saved, InLoop
<1>4. gitResets = 0 => ~tree'.leaked
  BY <1>1, <1>2, <1>3 DEF Recall, Unspoilt, InLoop
<1> QED
  BY <1>1, <1>4, RecallQuiet DEF Undecided, InLoop, InRound

(* The recoveries that start another round. *)
LEMMA RecallRetry ==
  ASSUME TypeInv, TypeInv', Targets, Recall,
         GitRecovery \/ SpecDriftRecovery \/ FrozenEditRecovery
  PROVE  Recall'
<1>1. PICK reason \in {"GIT_RECOVERY_RECOVERED", "SPEC_DRIFT_RECOVERED", "FROZEN_EDIT_RECOVERED"} :
        /\ Retried(reason)
        /\ \/ GitRecovery
           \/ /\ SpecDriftRecovery \/ FrozenEditRecovery
              /\ reason # "GIT_RECOVERY_RECOVERED"
  BY RetryKinds
<1>2. /\ pc = "integrity" /\ NextRound /\ TaintRound(reason)
      /\ OnlyThisRound(snaps, snaps') /\ turn' = turn
  BY <1>1 DEF Retried
<1>3. /\ pc \in Judged /\ round \in 1..MaxRounds /\ round' = round + 1 /\ pc' = "start"
      /\ reason \in LoopReasons \cup RecoveredReasons
  BY <1>2, JudgedIsLast DEF Judged, NextRound, RecoveredReasons
<1>4. results'[round' - 1].reason = reason
  <2>1. results'[round].reason = reason
    BY <1>2, <1>3, TaintedResult
  <2>2. round' - 1 = round
    BY <1>3
  <2> QED BY <2>1, <2>2
<1>5. tree \in Tree /\ snaps[round] = tree /\ snaps \in [0..MaxRounds -> Tree \cup {None}]
  BY <1>3 DEF Targets, TypeInv, TypeOK, FilesType, SnapsType
<1>6. CASE GitRecovery
  <2>1. /\ gitResets' = gitResets + 1 /\ tree' = Restored(round - 1) /\ snaps' = snaps
        /\ gitResets \in Nat
    BY <1>6 DEF GitRecovery, TypeInv, TypeOK, CountersType
  <2>2. round - 1 \in 0..(round - 1)
    BY <1>3
  <2>3. snaps[round - 1] # None
    BY <1>2, <2>2 DEF Recall, Saved, InLoop, InRound
  <2>4. gitResets = 0 => ~tree'.leaked
    BY <1>2, <2>1, <2>2, <2>3 DEF Recall, Unspoilt, InLoop, InRound, Restored
  <2>5. gitResets' # 0 /\ (gitResets' <= 1 => gitResets = 0)
    BY <2>1
  <2>6. FirstRollbackClean'
    BY <2>4, <2>5 DEF FirstRollbackClean, RollbackDropsRecoveredText
  <2> QED
    BY <1>2, <1>5, <2>1, <2>5, <2>6, NoneAssumption, RecallNextRound
<1>7. CASE (SpecDriftRecovery \/ FrozenEditRecovery) /\ reason # "GIT_RECOVERY_RECOVERED"
  <2>1. reason # "GIT_RECOVERY_RECOVERED"
    BY <1>7
  <2>2. ~turn.git /\ UNCHANGED <<gitResets, context>>
    BY <1>7 DEF SpecDriftRecovery, FrozenEditRecovery, AtFrozenGate, AtSpecGate, AtToolingGate,
       sessionVars
  <2>3. FirstRollbackClean'
    BY <1>4, <2>1 DEF FirstRollbackClean, RollbackDropsRecoveredText
  <2>4. gitResets = 0 => ~tree.leaked /\ (snaps[0] # None => ~snaps[0].leaked)
    <3>1. 0 \in 0..(round - 1)
      BY <1>3
    <3> QED BY <1>2, <2>2, <3>1 DEF Recall, Unspoilt, InLoop, InRound
  <2>5. CASE SpecDriftRecovery
    <3>1. PICK t \in RestoredSpecs : tree' = t /\ snaps' = [snaps EXCEPT ![round] = t]
      BY <2>5 DEF SpecDriftRecovery
    <3>2. snaps'[round] = t
      BY <1>3, <1>5, <3>1
    <3>3. t.leaked = tree.leaked \/ (snaps[0] # None /\ t = snaps[0])
      <4>1. \A p, a, s : PutBack(p, a, s).leaked = tree.leaked
        BY DEF PutBack
      <4> QED BY <3>1, <4>1 DEF RestoredSpecs, Restored
    <3>4. t # None
      BY <3>1, NoneAssumption, RestoredSpecsType DEF TypeInv
    <3> QED
      BY <1>2, <2>2, <2>3, <2>4, <3>1, <3>2, <3>3, <3>4, RecallNextRound
  <2>6. CASE FrozenEditRecovery
    <3>1. tree' \in RevertedTrees /\ snaps' = snaps
      BY <2>6 DEF FrozenEditRecovery
    <3>2. tree'.leaked = tree.leaked
      BY <1>5, <3>1 DEF RevertedTrees, Tree
    <3> QED
      BY <1>2, <1>5, <2>2, <2>3, <2>4, <3>1, <3>2, NoneAssumption, RecallNextRound
  <2> QED BY <1>7, <2>5, <2>6
<1> QED BY <1>1, <1>6, <1>7

(* Every gate passed: what is declared and kept was not read.              *)
LEMMA RecallClaim ==
  ASSUME TypeInv, TypeInv', Targets, Rations, Recall, Claim
  PROVE  Recall'
<1>1. Passed
  BY ClaimKinds
<1>2. pc = "integrity" /\ ~turn.git
  BY <1>1 DEF Passed, AtClaim, AtForbiddenGate, AtAxiomGate, AtFrozenGate, AtSpecGate,
     AtToolingGate, AtGitGate, AtCrosstalkGate
<1>3. /\ UNCHANGED <<tree, snaps, turn, gitResets, context>>
  BY <1>1 DEF Passed, files, Claim, FalseContract, ClaimAccepted, PlateauStop, KeepGoing,
     sessionVars
<1>4. round \in 1..MaxRounds /\ tree \in Tree /\ snaps[round] = tree
  BY <1>2, JudgedIsLast DEF Judged, Targets, TypeInv, TypeOK, FilesType
<1>5. gitResets = 0 => ~tree.leaked
  BY <1>2 DEF Recall, Unspoilt, InLoop, InRound
<1>6. CASE NextRound
  <2>1. round' = round + 1 /\ round' - 1 = round
    BY <1>4, <1>6 DEF NextRound
  <2>2. results'[round' - 1].reason \in AgentClaims
    BY <1>1, <1>2, <2>1 DEF Passed, Rations, Judged
  <2>3. "GIT_RECOVERY_RECOVERED" \notin AgentClaims
    BY DEF AgentClaims
  <2>4. FirstRollbackClean'
    BY <2>2, <2>3 DEF FirstRollbackClean, RollbackDropsRecoveredText
  <2>5. OnlyThisRound(snaps, snaps')
    BY <1>3 DEF OnlyThisRound
  <2> QED
    BY <1>2, <1>3, <1>4, <1>5, <1>6, <2>4, <2>5, NoneAssumption, RecallNextRound
<1>7. ASSUME NEW reason \in LoopReasons, Break(reason) PROVE Recall'
  <2>1. pc' = "fold"
    BY <1>7 DEF Break
  <2> QED
    BY <1>3, <1>5, <2>1, RecallQuiet DEF Undecided, InLoop, InRound
<1> QED BY <1>1, <1>6, <1>7 DEF Passed

LEMMA RecallStep ==
  TypeInv /\ TypeInv' /\ Targets /\ Rations /\ Recall /\ [Next]_vars => Recall'
<1> SUFFICES ASSUME TypeInv, TypeInv', Targets, Rations, Recall, [Next]_vars
             PROVE  Recall'
  OBVIOUS
<1>1. CASE Setup \/ BeginRound \/ GateRound \/ SessionControl
  BY <1>1, RecallLoop
<1>2. CASE AgentTurn
  BY <1>2, RecallTurn
<1>3. CASE LoopEnds \/ BudgetBailOut
  BY <1>3, RecallLeaving
<1>4. CASE GitRecovery \/ SpecDriftRecovery \/ FrozenEditRecovery
  BY <1>4, RecallRetry
<1>5. CASE Claim
  BY <1>5, RecallClaim
<1>6. CASE \/ RateLimited \/ NoResultExit \/ HangBailOut
           \/ ProcessCrosstalk \/ GitRecoveryOverCap \/ ToolingDrift
           \/ SpecDriftOverCapEnds \/ SpecRestoreFails
           \/ FrozenAuditFails \/ FrozenEditOverCap \/ FrozenRevertFails
           \/ AxiomDrift \/ ForbiddenConstruct
  <2>1. pc' = "fold" /\ ~HonestEnd'
    BY <1>6, LossKinds DEF Lost
  <2> QED
    BY <2>1, RecallQuiet DEF Undecided, InLoop, InRound
<1>7. CASE CloseTask
  <2>1. Closing
    BY <1>7, CloseKind
  <2>2. pc = "fold" /\ pc' = "receipt" /\ gitResets' = gitResets
    BY <2>1 DEF Closing, counters
  <2>3. Accepted' => HonestEnd /\ tree' = tree
    BY <2>1 DEF Closing, Accepted
  <2>4. Reconstructed'
    BY <2>2, <2>3 DEF Recall, Reconstructed
  <2> QED
    BY <2>2, <2>4 DEF Recall, Saved, Unspoilt, FirstRollbackClean, RollbackDropsRecoveredText,
       InLoop, InRound
<1>8. CASE \/ SetupFails \/ WriteReceipt \/ WriteResult \/ WriteBrief \/ WriteFailure
           \/ WriteRegistry \/ Crash
  <2>1. /\ pc' \in {"result", "brief", "failure", "registry", "done", "crashed"}
        /\ UNCHANGED <<tree, gitResets, outcome>>
    BY <1>8, SetupEnds DEF WriteReceipt, WriteResult, WriteBrief, WriteFailure,
       WriteRegistry, Write, Crash, files, counters, ending
  <2>2. Reconstructed'
    BY <2>1 DEF Recall, Reconstructed, Accepted, Closed
  <2> QED
    BY <2>1, <2>2 DEF Recall, Saved, Unspoilt, FirstRollbackClean, RollbackDropsRecoveredText,
       InLoop, InRound
<1>9. CASE UNCHANGED vars
  BY <1>9 DEF vars, Recall, Saved, Unspoilt, FirstRollbackClean, RollbackDropsRecoveredText,
     Reconstructed, HonestEnd, Accepted, Closed, files, streams, sessionVars, counters, ending
<1> QED
  BY <1>1, <1>2, <1>3, <1>4, <1>5, <1>6, <1>7, <1>8, <1>9
     DEF Next, Step, Close, Round, Gate

LEMMA RecallHolds == Spec => []Recall
<1>1. Init => Recall
  <2> SUFFICES ASSUME Init PROVE Recall
    OBVIOUS
  <2>1. /\ pc = "setup" /\ round = 1 /\ tree = Baseline /\ ~context /\ outcome = None
        /\ snaps = [n \in 0..MaxRounds |-> None] /\ ~turn.git
    BY DEF Init
  <2>2. \A n \in 0..(round - 1) : snaps[n] = None
    BY <2>1, BoundsAssumption
  <2> QED
    BY <2>1, <2>2, AgentAssumption DEF Recall, Saved, Unspoilt, FirstRollbackClean,
       RollbackDropsRecoveredText, Reconstructed, Accepted, Closed, InLoop, InRound
<1>2. Init => Rations
  BY RationsInit
<1>3. Inv /\ Inv' /\ Rations /\ [Next]_vars => Rations'
  BY RationsStep DEF Inv
<1>4. Inv /\ Inv' /\ Rations /\ Recall /\ [Next]_vars => Recall'
  BY RecallStep DEF Inv
<1> QED
  BY <1>1, <1>2, <1>3, <1>4, InvariantHolds, PTL DEF Spec

(* A candidate accepted without a recovery is a reconstruction (run.py     *)
(* 6651-6735): while no read of git history was recovered from, no text    *)
(* of it reaches the files a task promotes - not from the files, the       *)
(* session, the history a prompt shows or a snapshot it is rolled back to. *)
THEOREM AcceptedIsReconstruction == Spec => []Reconstructed
<1>1. Recall => Reconstructed
  BY DEF Recall
<1> QED
  BY <1>1, RecallHolds, PTL

(* The first rollback keeps what the comment at run.py 6661-6670 says of   *)
(* every one: the files it leaves hold no recovered text.  The counter-    *)
(* example to the general claim needs a second read.                       *)
THEOREM FirstRollbackDropsText == Spec => []FirstRollbackClean
<1>1. Recall => FirstRollbackClean
  BY DEF Recall
<1> QED
  BY <1>1, RecallHolds, PTL

(* The round after a recovered read. *)
AfterRead ==
  /\ pc = "start" /\ round > 1
  /\ results[round - 1] # None /\ results[round - 1].reason = "GIT_RECOVERY_RECOVERED"
Forgets == AfterRead => fresh /\ sessionStart = round

LEMMA ForgetsStep ==
  TypeInv /\ Targets /\ Rations /\ Recall /\ Forgets /\ [Next]_vars => Forgets'
<1> SUFFICES ASSUME TypeInv, Targets, Rations, Recall, Forgets, [Next]_vars, AfterRead'
             PROVE  fresh' /\ sessionStart' = round'
  BY DEF Forgets
<1>0. pc' = "start"
  BY DEF AfterRead
<1>1. CASE Setup
  <2>1. round' = 1
    BY <1>1 DEF Setup, Recall, Saved
  <2> QED BY <2>1 DEF AfterRead
<1>2. CASE GitRecovery
  BY <1>2 DEF GitRecovery, NextRound
<1>3. CASE SpecDriftRecovery \/ FrozenEditRecovery
  <2>1. PICK reason \in {"SPEC_DRIFT_RECOVERED", "FROZEN_EDIT_RECOVERED"} : Retried(reason)
    BY <1>3, RetryKinds
  <2>2. pc \in Judged /\ TaintRound(reason) /\ round' = round + 1
        /\ reason \in LoopReasons \cup RecoveredReasons
    BY <2>1 DEF Retried, NextRound, Judged, RecoveredReasons
  <2>3. results'[round].reason = reason
    BY <2>2, TaintedResult
  <2>4. round' - 1 = round
    BY <2>2, JudgedIsLast
  <2>5. results'[round' - 1].reason = reason
    BY <2>3, <2>4
  <2>6. reason # "GIT_RECOVERY_RECOVERED"
    OBVIOUS
  <2> QED BY <2>5, <2>6 DEF AfterRead
<1>4. CASE Claim
  <2>1. Passed
    BY <1>4, ClaimKinds
  <2>2. pc = "integrity" /\ round' = round + 1
    BY <1>0, <2>1 DEF Passed, AtClaim, AtForbiddenGate, AtAxiomGate, AtFrozenGate, AtSpecGate,
       AtToolingGate, AtGitGate, AtCrosstalkGate, NextRound, Break
  <2>3. round' - 1 = round
    BY <2>2, JudgedIsLast DEF Judged
  <2>4. results'[round' - 1].reason \in AgentClaims
    BY <2>1, <2>2, <2>3 DEF Passed, Rations, Judged
  <2> QED BY <2>4 DEF AfterRead, AgentClaims
<1>5. CASE \/ RateLimited \/ NoResultExit \/ HangBailOut
           \/ ProcessCrosstalk \/ GitRecoveryOverCap \/ ToolingDrift
           \/ SpecDriftOverCapEnds \/ SpecRestoreFails
           \/ FrozenAuditFails \/ FrozenEditOverCap \/ FrozenRevertFails
           \/ AxiomDrift \/ ForbiddenConstruct
  BY <1>0, <1>5, LossKinds DEF Lost
<1>6. CASE \/ SetupFails \/ LoopEnds \/ BudgetBailOut \/ BeginRound \/ AgentTurn \/ GateRound
           \/ SessionControl \/ Close \/ Crash
  BY <1>0, <1>6, SetupEnds DEF LoopEnds, BudgetBailOut, BeginRound, AgentTurn, GateRound,
     SessionControl, Close, CloseTask, WriteReceipt, WriteResult, WriteBrief, WriteFailure,
     WriteRegistry, Write, Crash
<1>7. CASE UNCHANGED vars
  BY <1>7 DEF vars, sessionVars, Forgets, AfterRead
<1> QED
  BY <1>1, <1>2, <1>3, <1>4, <1>5, <1>6, <1>7 DEF Next, Step, Round, Gate

(* The round that follows a recovered read starts in a session that does   *)
(* not know the text (run.py 6664-6667, 6697-6700): the context is new,    *)
(* and no diff of an earlier round is shown to it.  Later rounds are not   *)
(* promised as much.                                                       *)
THEOREM ReadIsForgotten == Spec => [][AfterRead /\ BeginRound => ~context']_vars
<1>1. Init => Forgets /\ Rations
  <2>1. Init => pc = "setup"
    BY DEF Init
  <2> QED BY <2>1, RationsInit DEF Forgets, AfterRead
<1>2. Inv /\ Inv' /\ Rations /\ [Next]_vars => Rations'
  BY RationsStep DEF Inv
<1>3. Inv /\ Rations /\ Recall /\ Forgets /\ [Next]_vars => Forgets'
  BY ForgetsStep DEF Inv
<1>4. Inv /\ Forgets /\ [Next]_vars => [AfterRead /\ BeginRound => ~context']_vars
  <2> SUFFICES ASSUME Inv, Forgets, AfterRead, BeginRound PROVE ~context'
    OBVIOUS
  <2>1. fresh /\ sessionStart = round /\ round \in Nat
    BY DEF Forgets, Inv, TypeInv, TypeOK, ControlType
  <2>2. HistoryRounds = {}
    BY <2>1 DEF HistoryRounds
  <2> QED BY <2>1, <2>2 DEF BeginRound, HistoryLeaks
<1> QED
  BY <1>1, <1>2, <1>3, <1>4, InvariantHolds, RecallHolds, PTL DEF Spec
=============================================================================
