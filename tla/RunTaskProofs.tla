---------------------------- MODULE RunTaskProofs ----------------------------
(***************************************************************************)
(* The types of a task's variables, for every value of the constants: the  *)
(* invariant the safety proofs of RunTaskSafetyProofs rest on.             *)
(***************************************************************************)
EXTENDS RunTask, TLAPS

(* Stages before the decision, those with a round under way, and those in  *)
(* which the round's tree has been judged.                                 *)
Undecided == {"setup", "start", "agent", "post", "session", "integrity", "fold"}
InRound   == {"agent", "post", "session", "integrity"}
Judged    == {"session", "integrity"}

(* Where the task stands: what the program counter says of the rest.       *)
Standing ==
  /\ pc \in InRound => round <= MaxRounds
  /\ pc \in Judged => results[round] \in RoundResult
  /\ pc \in {"receipt", "result", "brief", "failure", "registry"} => outcome \in Outcome
  /\ pc \in Undecided => outcome = None /\ ~artifacts.registered

TypeInv == TypeOK /\ Standing

------------------------------------------------------------------------------
(* The decision table. *)

LEMMA FoldedReasonType ==
  ASSUME NEW reason \in LoopReasons, NEW facts
  PROVE  FoldedReason(reason, facts) \in FinalReasons \cup {"none"}
BY DEF FoldedReason, Override, LoopReasons, FinalReasons, IntegrityRejections

LEMMA FinalEndReasonType ==
  ASSUME NEW reason \in FinalReasons \cup {"none"}, NEW done \in BOOLEAN
  PROVE  FinalEndReason(done, reason) \in FinalReasons
BY DEF FinalEndReason, LoopReasons, FinalReasons, IntegrityRejections, InfraReasons,
       AgentClaims

LEMMA DispositionType ==
  ASSUME NEW label
  PROVE  Disposition(label) \in Dispositions
BY DEF Disposition, Dispositions

------------------------------------------------------------------------------
(* Types. *)

LEMMA TypeInit == Init => TypeInv
<1> SUFFICES ASSUME Init PROVE TypeInv
  OBVIOUS
<1>0. /\ 1 \in 1..(MaxRounds + 1) /\ 0 \in 0..MaxRounds
      /\ 0 \in 0..MaxAutoResets /\ 0 \in 0..PlateauStopRounds
  BY BoundsAssumption
<1>1. ControlType
  BY <1>0 DEF Init, ControlType, Stages, Budgets
<1>2. FilesType /\ SnapsType
  BY AgentAssumption DEF Init, FilesType, SnapsType
<1>3. StreamsType
  BY DEF Init, StreamsType, Turn, ExitKinds, AgentClaims
<1>4. ResultsType /\ GateType
  BY DEF Init, ResultsType, GateType
<1>5. SessionType /\ CountersType
  <2>1. /\ context = FALSE /\ fresh = FALSE /\ sessionStart = 1 /\ autoResets = 0
        /\ sinceLow = 0 /\ gitResets = 0 /\ frozenResets = 0
        /\ specCounts = [i \in SpecItems |-> 0]
    BY DEF Init
  <2> QED
    BY <1>0, <2>1 DEF SessionType, CountersType
<1>6. SiblingsType /\ TargetsType
  <2>1. siblingHash = "base" /\ siblingFail = FALSE /\ lastGood = 0 /\ lastClean = 0
    BY DEF Init
  <2> QED
    BY <1>0, <2>1 DEF SiblingsType, TargetsType
<1>7. EndingType
  <2>1. endReason \in LoopReasons /\ outcome \in Outcome \cup {None}
    BY DEF Init, LoopReasons, AgentClaims
  <2>2. artifacts \in Artifacts
    BY DEF Init, Artifacts
  <2> QED
    BY <2>1, <2>2 DEF EndingType
<1>8. Standing
  <2>1. pc = "setup" /\ outcome = None /\ artifacts.registered = FALSE
    BY DEF Init
  <2> QED
    BY <2>1 DEF Standing, InRound, Judged
<1> QED
  BY <1>1, <1>2, <1>3, <1>4, <1>5, <1>6, <1>7, <1>8 DEF TypeInv, TypeOK

(* A group of variables that an action leaves alone keeps its type. *)
LEMMA Frames ==
  ASSUME TypeOK
  PROVE  /\ UNCHANGED files => FilesType'
         /\ UNCHANGED snaps => SnapsType'
         /\ UNCHANGED streams => StreamsType'
         /\ UNCHANGED results => ResultsType'
         /\ UNCHANGED gateVars => GateType'
         /\ UNCHANGED sessionVars => SessionType'
         /\ UNCHANGED counters => CountersType'
         /\ UNCHANGED siblings => SiblingsType'
         /\ UNCHANGED targets => TargetsType'
         /\ UNCHANGED ending => EndingType'
<1> USE DEF TypeOK
<1>1. UNCHANGED files => FilesType'
  BY DEF files, FilesType
<1>2. UNCHANGED snaps => SnapsType'
  BY DEF SnapsType
<1>3. UNCHANGED streams => StreamsType'
  BY DEF streams, StreamsType
<1>4. UNCHANGED results => ResultsType'
  BY DEF ResultsType
<1>5. UNCHANGED gateVars => GateType'
  BY DEF gateVars, GateType
<1>6. UNCHANGED sessionVars => SessionType'
  BY DEF sessionVars, SessionType
<1>7. UNCHANGED counters => CountersType'
  BY DEF counters, CountersType
<1>8. UNCHANGED siblings => SiblingsType'
  BY DEF siblings, SiblingsType
<1>9. UNCHANGED targets => TargetsType'
  BY DEF targets, TargetsType
<1>10. UNCHANGED ending => EndingType'
  BY DEF ending, EndingType
<1> QED
  BY <1>1, <1>2, <1>3, <1>4, <1>5, <1>6, <1>7, <1>8, <1>9, <1>10

(* The reasons the actions end a round or the loop with. *)
LEMMA ReasonTypes ==
  /\ AgentClaims \subseteq LoopReasons /\ NoResultExits \subseteq LoopReasons
  /\ IntegrityRejections \subseteq LoopReasons /\ InfraReasons \subseteq LoopReasons
  /\ LoopReasons \subseteq FinalReasons \cup {"none"}
BY DEF LoopReasons, FinalReasons, NoResultExits, InfraReasons

LEMMA BreakType ==
  ASSUME TypeInv, pc \in Undecided, UNCHANGED budget, NEW reason \in LoopReasons,
         Break(reason)
  PROVE  ControlType' /\ EndingType' /\ Standing'
<1>1. ControlType'
  BY DEF Break, TypeInv, TypeOK, ControlType, Stages
<1>2. EndingType'
  BY DEF Break, TypeInv, TypeOK, EndingType
<1>3. Standing'
  BY DEF Break, TypeInv, Standing, InRound, Judged
<1> QED
  BY <1>1, <1>2, <1>3

LEMMA NextRoundType ==
  ASSUME TypeInv, pc \in InRound, UNCHANGED budget, NextRound
  PROVE  ControlType' /\ EndingType' /\ Standing'
<1>1. ControlType'
  BY BoundsAssumption DEF NextRound, TypeInv, TypeOK, Standing, ControlType, Stages
<1>2. EndingType'
  BY Frames DEF NextRound, TypeInv
<1>3. Standing'
  BY DEF NextRound, TypeInv, Standing, InRound, Judged, Undecided, ending
<1> QED
  BY <1>1, <1>2, <1>3

LEMMA RestoredType ==
  ASSUME TypeOK, NEW n \in 0..MaxRounds
  PROVE  Restored(n) \in Tree
BY DEF TypeOK, FilesType, SnapsType, Restored

(* The three early returns of the setup. *)
LEMMA SetupEnds ==
  ASSUME SetupFails
  PROVE  /\ pc = "setup" /\ pc' = "done"
         /\ snaps' = snaps \/ snaps' = [snaps EXCEPT ![0] = tree]
         /\ \E result \in {"ERROR", "GIT_RECOVERY", None} :
              artifacts' = [artifacts EXCEPT !.result = result]
         /\ UNCHANGED <<round, budget, files, streams, results, gateVars, sessionVars,
                         counters, siblings, targets, endReason, outcome>>
BY DEF SetupFails, ActiveEditOmitsAdmits, SpecSnapshotFails, ObjectStoreLeaks, Return

(* What spec_check reports are items of the frozen specification. *)
LEMMA ReportsType ==
  ASSUME NEW t \in Tree, NEW heard, NEW drift \in SpecReports(t, heard)
  PROVE  drift \in SUBSET SpecItems
BY DEF SpecReports, Tree

LEMMA RestoredSpecsType ==
  ASSUME TypeOK
  PROVE  RestoredSpecs \subseteq Tree
<1>1. 0 \in 0..MaxRounds
  BY BoundsAssumption
<1>2. Restored(0) \in Tree
  BY <1>1, RestoredType
<1>3. ASSUME NEW p \in BOOLEAN, NEW a \in BOOLEAN, NEW s \in Unrestored
      PROVE  PutBack(p, a, s) \in Tree
  <2>1. tree \in Tree
    BY DEF TypeOK, FilesType
  <2>2. s \in SUBSET SpecItems
    BY <2>1 DEF Unrestored, Tree
  <2> QED
    BY <2>1, <2>2 DEF PutBack, Tree
<1> QED
  BY <1>2, <1>3 DEF RestoredSpecs

LEMMA TaintType ==
  ASSUME TypeInv, pc \in Judged, NEW reason \in LoopReasons \cup RecoveredReasons,
         TaintRound(reason)
  PROVE  ResultsType'
<1>1. results[round] \in RoundResult
  BY DEF TypeInv, Standing
<1>2. Tainted(results[round], reason) \in RoundResult
  BY <1>1 DEF Tainted, RoundResult
<1> QED
  BY <1>2 DEF TaintRound, TypeInv, TypeOK, ResultsType

(* Reverting the frozen files leaves a tree. *)
LEMMA RevertType ==
  ASSUME TypeInv
  PROVE  \A t \in RevertedTrees : t \in Tree
<1>1. tree \in Tree
  BY DEF TypeInv, TypeOK, FilesType
<1>2. ASSUME NEW p \in BOOLEAN
      PROVE  [tree EXCEPT !.frozen = FALSE, !.proved = p] \in Tree
  BY <1>1 DEF Tree
<1> QED
  BY <1>1, <1>2 DEF RevertedTrees

LEMMA MarkRoundType ==
  ASSUME TypeInv, pc \in InRound, MarkRound, UNCHANGED <<gitResets, frozenResets>>
  PROVE  CountersType' /\ TargetsType'
BY DEF MarkRound, NoDriftCounted, TypeInv, TypeOK, Standing, ControlType, CountersType,
       TargetsType

LEMMA TypeStep == TypeInv /\ [Next]_vars => TypeInv'
<1> SUFFICES ASSUME TypeInv, [Next]_vars PROVE TypeInv'
  OBVIOUS
<1>1. CASE Setup
  <2>1. ControlType' /\ Standing'
    BY <1>1 DEF Setup, TypeInv, TypeOK, ControlType, Stages, Standing, InRound, Judged,
                Undecided, ending
  <2>2. SnapsType'
    BY <1>1, BoundsAssumption DEF Setup, TypeInv, TypeOK, SnapsType, FilesType
  <2> QED
    BY <1>1, <2>1, <2>2, Frames DEF Setup, TypeInv, TypeOK
<1>2. CASE SetupFails
  <2>1. ControlType' /\ Standing'
    BY <1>2, SetupEnds DEF TypeInv, TypeOK, ControlType, Stages, Standing, InRound,
                           Judged, Undecided
  <2>2. EndingType'
    BY <1>2, SetupEnds DEF TypeInv, TypeOK, EndingType, Artifacts, FinalReasons,
                           LoopReasons, IntegrityRejections
  <2>3. SnapsType'
    BY <1>2, SetupEnds, BoundsAssumption DEF TypeInv, TypeOK, SnapsType, FilesType
  <2> QED
    BY <1>2, <2>1, <2>2, <2>3, SetupEnds, Frames DEF TypeInv, TypeOK
<1>3. CASE LoopEnds
  <2>1. ControlType' /\ Standing'
    BY <1>3 DEF LoopEnds, TypeInv, TypeOK, ControlType, Stages, Standing, InRound,
                Judged, Undecided, ending
  <2> QED
    BY <1>3, <2>1, Frames DEF LoopEnds, TypeInv, TypeOK
<1>4. CASE BudgetBailOut
  <2>1. ControlType' /\ Standing'
    BY <1>4 DEF BudgetBailOut, TypeInv, TypeOK, ControlType, Stages, Standing, InRound,
                Judged, Undecided, ending
  <2>2. Restored(lastGood) \in Tree
    BY RestoredType DEF TypeInv, TypeOK, TargetsType
  <2>3. FilesType' /\ SiblingsType'
    BY <1>4, <2>2 DEF BudgetBailOut, TypeInv, TypeOK, FilesType, SiblingsType
  <2> QED
    BY <1>4, <2>1, <2>2, <2>3, Frames DEF BudgetBailOut, TypeInv, TypeOK
<1>5. CASE BeginRound
  <2>1. ControlType' /\ Standing'
    BY <1>5 DEF BeginRound, TypeInv, TypeOK, ControlType, Stages, Standing, InRound,
                Judged, Undecided, ending
  <2>2. SessionType'
    BY <1>5 DEF BeginRound, TypeInv, TypeOK, SessionType, HistoryLeaks
  <2> QED
    BY <1>5, <2>1, <2>2, Frames DEF BeginRound, TypeInv, TypeOK
<1>6. CASE AgentTurn
  <2>1. ControlType' /\ Standing'
    BY <1>6 DEF AgentTurn, BudgetsAfter, Budgets, TypeInv, TypeOK, ControlType, Stages,
                Standing, InRound, Judged, Undecided, ending
  <2>2. FilesType'
    BY <1>6, AgentAssumption DEF AgentTurn, TypeInv, TypeOK, FilesType
  <2>3. StreamsType'
    BY <1>6, AgentAssumption DEF AgentTurn, TypeInv, TypeOK, StreamsType, Turn
  <2>4. SessionType'
    <3>1. context' \in BOOLEAN
      BY <1>6 DEF AgentTurn, TypeInv, TypeOK, SessionType
    <3>2. fresh' = FALSE /\ UNCHANGED <<sessionStart, autoResets, sinceLow>>
      BY <1>6 DEF AgentTurn
    <3> QED
      BY <3>1, <3>2 DEF TypeInv, TypeOK, SessionType
  <2> QED
    BY <1>6, <2>1, <2>2, <2>3, <2>4, Frames DEF AgentTurn, TypeInv, TypeOK
<1>7. CASE RateLimited
  <2>1. pc \in Undecided /\ UNCHANGED budget
    BY <1>7 DEF RateLimited, Undecided
  <2>2. ControlType' /\ EndingType' /\ Standing'
    BY <1>7, <2>1, BreakType, ReasonTypes DEF RateLimited, InfraReasons
  <2> QED
    BY <1>7, <2>1, <2>2, Frames DEF RateLimited, TypeInv, TypeOK
<1>8. CASE NoResultExit
  <2>1. pc \in Undecided /\ UNCHANGED budget
    BY <1>8 DEF NoResultExit, Undecided
  <2>2. NoResultReason \in LoopReasons
    BY <1>8, ReasonTypes DEF NoResultExit, NoResultReason, IntegrityRejections
  <2>3. ControlType' /\ EndingType' /\ Standing'
    BY <1>8, <2>1, <2>2, BreakType DEF NoResultExit
  <2>4. PICK heard \in Hearing(tree) : \E drift \in SpecReports(tree, heard) :
           results' = [results EXCEPT ![round] =
             [reason |-> NoResultReason, okay |-> FALSE, drift |-> drift]]
    BY <1>8 DEF NoResultExit
  <2>5. ResultsType'
    <3>1. PICK drift \in SpecReports(tree, heard) : results' = [results EXCEPT ![round] =
             [reason |-> NoResultReason, okay |-> FALSE, drift |-> drift]]
      BY <2>4
    <3>3. drift \in SUBSET SpecItems
      BY ReportsType DEF TypeInv, TypeOK, FilesType
    <3>2. [reason |-> NoResultReason, okay |-> FALSE, drift |-> drift] \in RoundResult
      BY <2>2, <3>3 DEF RoundResult
    <3> QED
      BY <3>1, <3>2 DEF TypeInv, TypeOK, ResultsType
  <2> QED
    BY <1>8, <2>1, <2>2, <2>3, <2>5, Frames DEF NoResultExit, TypeInv, TypeOK
<1>9. CASE GateRound
  <2>1. round \in 1..MaxRounds
    BY <1>9 DEF GateRound, TypeInv, TypeOK, Standing, InRound, ControlType
  <2>2. \A heard : \A drift \in SpecReports(tree, heard) : drift \in SUBSET SpecItems
    BY ReportsType DEF TypeInv, TypeOK, FilesType
  <2>3. \A drift : \A receipt \in GateAnswers(drift) : receipt \in GateReceipt
    <3>1. CacheHits \subseteq GateReceipt
      BY DEF CacheHits, TypeInv, TypeOK, GateType
    <3>2. \A v \in Verdicts : v \in BOOLEAN
      BY DEF Verdicts, TypeInv, TypeOK, FilesType, Tree
    <3>3. \A status \in {"VERIFIED", "SKIPPED_SPEC_DRIFT"}, okay \in BOOLEAN :
            GateReceiptOf(status, okay) \in GateReceipt
      BY DEF GateReceiptOf, GateReceipt, TypeInv, TypeOK, FilesType
    <3> QED
      BY <3>1, <3>2, <3>3 DEF GateAnswers
  <2>4. \A v \in SiblingVerdicts : v \in BOOLEAN
    BY DEF SiblingVerdicts, TypeInv, TypeOK, SiblingsType
  <2>5. \A receipt \in GateReceipt : CacheAfter(receipt) \subseteq GateReceipt
    BY DEF CacheAfter, TypeInv, TypeOK, GateType
  <2>a. PICK heard \in Hearing(tree) :
           /\ unheard' = IF heard THEN unheard ELSE unheard \cup {round}
           /\ \E drift \in SpecReports(tree, heard) : \E receipt \in GateAnswers(drift),
                siblingOkay \in SiblingVerdicts : Record(drift, receipt, siblingOkay)
    BY <1>9 DEF GateRound
  <2>6. PICK drift \in SpecReports(tree, heard) : \E receipt \in GateAnswers(drift),
             siblingOkay \in SiblingVerdicts : Record(drift, receipt, siblingOkay)
    BY <2>a
  <2>7. PICK receipt \in GateAnswers(drift), siblingOkay \in SiblingVerdicts :
           Record(drift, receipt, siblingOkay)
    BY <2>6
  <2>8. ResultsType'
    <3>1. [reason |-> turn.claim, okay |-> receipt.okay /\ siblingOkay, drift |-> drift]
            \in RoundResult
      BY <2>2, <2>3, <2>4, ReasonTypes DEF TypeInv, TypeOK, StreamsType, Turn,
                                         RoundResult, GateReceipt
    <3> QED
      BY <3>1, <2>1, <2>7 DEF Record, TypeInv, TypeOK, ResultsType
  <2>9. GateType'
    <3>1. cache' \subseteq GateReceipt /\ lastGate' \in GateReceipt
      BY <2>3, <2>5, <2>7 DEF Record
    <3>2. unheard' \subseteq 1..MaxRounds
      BY <2>1, <2>a DEF TypeInv, TypeOK, GateType
    <3> QED
      BY <3>1, <3>2 DEF GateType
  <2>10. SiblingsType'
    BY <1>9, <2>4, <2>7 DEF GateRound, Record, TypeInv, TypeOK, SiblingsType,
                            FilesType, Tree
  <2>11. SnapsType'
    BY <1>9, <2>1 DEF GateRound, TypeInv, TypeOK, SnapsType, FilesType
  <2>12. SessionType'
    BY <1>9, BoundsAssumption DEF GateRound, SinceLowAfter, TypeInv, TypeOK,
                                  SessionType
  <2>13. pc' = "session" /\ round' = round /\ UNCHANGED <<budget, ending>>
    BY <1>9 DEF GateRound
  <2>14. ControlType'
    BY <2>13 DEF TypeInv, TypeOK, ControlType, Stages
  <2>15. Standing'
    <3>1. results'[round] \in RoundResult
      BY <2>1, <2>2, <2>3, <2>4, <2>7, ReasonTypes
         DEF Record, TypeInv, TypeOK, ResultsType, StreamsType, Turn, RoundResult, GateReceipt
    <3> QED
      BY <1>9, <3>1, <2>1, <2>13 DEF GateRound, TypeInv, Standing, InRound, Judged,
                                   Undecided, ending
  <2> QED
    BY <1>9, <2>1, <2>2, <2>3, <2>4, <2>5, <2>6, <2>7, <2>8, <2>9, <2>10, <2>11, <2>12, <2>13, <2>14, <2>15, Frames DEF GateRound, TypeInv, TypeOK
<1>10. CASE HangBailOut
  <2>1. pc \in Judged /\ pc \in Undecided /\ pc \in InRound /\ UNCHANGED budget
    BY <1>10 DEF HangBailOut, AtCrosstalkGate, Judged, Undecided, InRound
  <2>2. ControlType' /\ EndingType' /\ Standing'
    BY <1>10, <2>1, BreakType, ReasonTypes DEF HangBailOut, InfraReasons
  <2>3. Restored(lastGood) \in Tree
    BY RestoredType DEF TypeInv, TypeOK, TargetsType
  <2>4. FilesType' /\ SiblingsType'
    BY <1>10, <2>3 DEF HangBailOut, TypeInv, TypeOK, FilesType, SiblingsType
  <2> QED
    BY <1>10, <2>1, <2>2, <2>3, <2>4, Frames DEF HangBailOut, TypeInv, TypeOK
<1>11. CASE SessionControl
  <2>1. ControlType' /\ Standing'
    BY <1>11 DEF SessionControl, TypeInv, TypeOK, ControlType, Stages, Standing,
                 InRound, Judged, Undecided, ending
  <2>2. SessionType'
    BY <1>11, BoundsAssumption DEF SessionControl, TypeInv, TypeOK, SessionType,
                                   ControlType, Standing, InRound
  <2> QED
    BY <1>11, <2>1, <2>2, Frames DEF SessionControl, TypeInv, TypeOK
<1>12. CASE ProcessCrosstalk
  <2>1. pc \in Judged /\ pc \in Undecided /\ pc \in InRound /\ UNCHANGED budget
    BY <1>12 DEF ProcessCrosstalk, AtCrosstalkGate, Judged, Undecided, InRound
  <2>2. ControlType' /\ EndingType' /\ Standing'
    BY <1>12, <2>1, BreakType, ReasonTypes DEF ProcessCrosstalk, IntegrityRejections
  <2>3. ResultsType'
    BY <1>12, <2>1, TaintType, ReasonTypes DEF ProcessCrosstalk, IntegrityRejections,
                                               RecoveredReasons
  <2> QED
    BY <1>12, <2>1, <2>2, <2>3, Frames DEF ProcessCrosstalk, TypeInv, TypeOK
<1>13. CASE GitRecoveryOverCap
  <2>1. pc \in Judged /\ pc \in Undecided /\ pc \in InRound /\ UNCHANGED budget
    BY <1>13 DEF GitRecoveryOverCap, AtCrosstalkGate, AtGitGate, Judged, Undecided,
                 InRound
  <2>2. ControlType' /\ EndingType' /\ Standing'
    BY <1>13, <2>1, BreakType, ReasonTypes DEF GitRecoveryOverCap, IntegrityRejections
  <2>3. CountersType'
    BY <1>13 DEF GitRecoveryOverCap, TypeInv, TypeOK, CountersType
  <2> QED
    BY <1>13, <2>1, <2>2, <2>3, Frames DEF GitRecoveryOverCap, TypeInv, TypeOK
<1>14. CASE GitRecovery
  <2>1. pc \in Judged /\ pc \in Undecided /\ pc \in InRound /\ UNCHANGED budget
    BY <1>14 DEF GitRecovery, AtCrosstalkGate, AtGitGate, Judged, Undecided, InRound
  <2>2. ControlType' /\ EndingType' /\ Standing'
    BY <1>14, <2>1, NextRoundType DEF GitRecovery
  <2>3. ResultsType'
    BY <1>14, <2>1, TaintType, ReasonTypes DEF GitRecovery, IntegrityRejections,
                                               RecoveredReasons
  <2>4. CountersType'
    BY <1>14 DEF GitRecovery, TypeInv, TypeOK, CountersType
  <2>5. round \in 1..MaxRounds
    BY <2>1 DEF TypeInv, TypeOK, Standing, ControlType
  <2>6. Restored(round - 1) \in Tree
    <3>1. round - 1 \in 0..MaxRounds
      BY <2>5, BoundsAssumption
    <3> QED
      BY <3>1, RestoredType DEF TypeInv
  <2>7. FilesType'
    BY <1>14, <2>6 DEF GitRecovery, TypeInv, TypeOK, FilesType
  <2>8. SessionType'
    <3>1. round + 1 \in 1..(MaxRounds + 1)
      BY <2>5, BoundsAssumption
    <3>2. fresh' = TRUE /\ sessionStart' = round + 1
          /\ UNCHANGED <<context, autoResets, sinceLow>>
      BY <1>14 DEF GitRecovery
    <3> QED
      BY <3>1, <3>2 DEF TypeInv, TypeOK, SessionType
  <2> QED
    BY <1>14, <2>1, <2>2, <2>3, <2>4, <2>5, <2>6, <2>7, <2>8, Frames DEF GitRecovery, TypeInv, TypeOK
<1>15. CASE ToolingDrift
  <2>1. pc \in Judged /\ pc \in Undecided /\ pc \in InRound /\ UNCHANGED budget
    BY <1>15 DEF ToolingDrift, AtCrosstalkGate, AtGitGate, AtToolingGate, Judged,
                 Undecided, InRound
  <2>2. ControlType' /\ EndingType' /\ Standing'
    BY <1>15, <2>1, BreakType, ReasonTypes DEF ToolingDrift, IntegrityRejections
  <2> QED
    BY <1>15, <2>1, <2>2, Frames DEF ToolingDrift, TypeInv, TypeOK
<1>16. CASE SpecDriftOverCapEnds
  <2>1. pc \in Judged /\ pc \in Undecided /\ pc \in InRound /\ UNCHANGED budget
    BY <1>16 DEF SpecDriftOverCapEnds, AtCrosstalkGate, AtGitGate, AtToolingGate,
                 AtSpecGate, Judged, Undecided, InRound
  <2>2. ControlType' /\ EndingType' /\ Standing'
    BY <1>16, <2>1, BreakType, ReasonTypes DEF SpecDriftOverCapEnds,
                                               IntegrityRejections
  <2>3. ResultsType'
    BY <1>16, <2>1, TaintType, ReasonTypes DEF SpecDriftOverCapEnds,
                                               IntegrityRejections, RecoveredReasons
  <2>4. CountersType'
    BY <1>16 DEF SpecDriftOverCapEnds, TypeInv, TypeOK, CountersType, CountedDrift
  <2> QED
    BY <1>16, <2>1, <2>2, <2>3, <2>4, Frames DEF SpecDriftOverCapEnds, TypeInv, TypeOK
<1>17. CASE SpecRestoreFails
  <2>1. pc \in Judged /\ pc \in Undecided /\ pc \in InRound /\ UNCHANGED budget
    BY <1>17 DEF SpecRestoreFails, AtCrosstalkGate, AtGitGate, AtToolingGate,
                 AtSpecGate, Judged, Undecided, InRound
  <2>2. ControlType' /\ EndingType' /\ Standing'
    BY <1>17, <2>1, BreakType, ReasonTypes DEF SpecRestoreFails, IntegrityRejections
  <2>3. ResultsType'
    BY <1>17, <2>1, TaintType, ReasonTypes DEF SpecRestoreFails, IntegrityRejections,
                                               RecoveredReasons
  <2>4. CountersType'
    BY <1>17 DEF SpecRestoreFails, TypeInv, TypeOK, CountersType, CountedDrift
  <2>5. \A t \in RestoredSpecs : t \in Tree
    BY RestoredSpecsType DEF TypeInv
  <2>6. FilesType'
    BY <1>17, <2>5 DEF SpecRestoreFails, TypeInv, TypeOK, FilesType
  <2> QED
    BY <1>17, <2>1, <2>2, <2>3, <2>4, <2>5, <2>6, Frames DEF SpecRestoreFails, TypeInv, TypeOK
<1>18. CASE SpecDriftRecovery
  <2>1. pc \in Judged /\ pc \in Undecided /\ pc \in InRound /\ UNCHANGED budget
    BY <1>18 DEF SpecDriftRecovery, AtCrosstalkGate, AtGitGate, AtToolingGate,
                 AtSpecGate, Judged, Undecided, InRound
  <2>2. ControlType' /\ EndingType' /\ Standing'
    BY <1>18, <2>1, NextRoundType DEF SpecDriftRecovery
  <2>3. ResultsType'
    BY <1>18, <2>1, TaintType, ReasonTypes DEF SpecDriftRecovery, IntegrityRejections,
                                               RecoveredReasons
  <2>4. CountersType'
    BY <1>18 DEF SpecDriftRecovery, TypeInv, TypeOK, CountersType, CountedDrift
  <2>5. \A t \in RestoredSpecs : t \in Tree
    BY RestoredSpecsType DEF TypeInv
  <2>6. FilesType' /\ SnapsType'
    BY <1>18, <2>5 DEF SpecDriftRecovery, TypeInv, TypeOK, FilesType, SnapsType
  <2> QED
    BY <1>18, <2>1, <2>2, <2>3, <2>4, <2>5, <2>6, Frames DEF SpecDriftRecovery, TypeInv, TypeOK
<1>19. CASE FrozenAuditFails
  <2>1. pc \in Judged /\ pc \in Undecided /\ pc \in InRound /\ UNCHANGED budget
    BY <1>19 DEF FrozenAuditFails, AtCrosstalkGate, AtGitGate, AtToolingGate,
                 AtSpecGate, AtFrozenGate, Judged, Undecided, InRound
  <2>2. ControlType' /\ EndingType' /\ Standing'
    BY <1>19, <2>1, BreakType, ReasonTypes DEF FrozenAuditFails, IntegrityRejections
  <2>3. CountersType'
    BY <1>19 DEF FrozenAuditFails, TypeInv, TypeOK, CountersType, NoDriftCounted
  <2> QED
    BY <1>19, <2>1, <2>2, <2>3, Frames DEF FrozenAuditFails, TypeInv, TypeOK
<1>20. CASE FrozenEditOverCap
  <2>1. pc \in Judged /\ pc \in Undecided /\ pc \in InRound /\ UNCHANGED budget
    BY <1>20 DEF FrozenEditOverCap, AtCrosstalkGate, AtGitGate, AtToolingGate,
                 AtSpecGate, AtFrozenGate, Judged, Undecided, InRound
  <2>2. ControlType' /\ EndingType' /\ Standing'
    BY <1>20, <2>1, BreakType, ReasonTypes DEF FrozenEditOverCap, IntegrityRejections
  <2>3. CountersType'
    BY <1>20 DEF FrozenEditOverCap, TypeInv, TypeOK, CountersType, NoDriftCounted
  <2> QED
    BY <1>20, <2>1, <2>2, <2>3, Frames DEF FrozenEditOverCap, TypeInv, TypeOK
<1>21. CASE FrozenRevertFails
  <2>1. pc \in Judged /\ pc \in Undecided /\ pc \in InRound /\ UNCHANGED budget
    BY <1>21 DEF FrozenRevertFails, AtCrosstalkGate, AtGitGate, AtToolingGate,
                 AtSpecGate, AtFrozenGate, Judged, Undecided, InRound
  <2>2. ControlType' /\ EndingType' /\ Standing'
    BY <1>21, <2>1, BreakType, ReasonTypes DEF FrozenRevertFails, IntegrityRejections
  <2>3. CountersType'
    BY <1>21 DEF FrozenRevertFails, TypeInv, TypeOK, CountersType, NoDriftCounted
  <2>4. \A t \in RevertedTrees : t \in Tree
    BY RevertType
  <2>5. FilesType'
    BY <1>21, <2>4 DEF FrozenRevertFails, TypeInv, TypeOK, FilesType
  <2> QED
    BY <1>21, <2>1, <2>2, <2>3, <2>4, <2>5, Frames DEF FrozenRevertFails, TypeInv, TypeOK
<1>22. CASE FrozenEditRecovery
  <2>1. pc \in Judged /\ pc \in Undecided /\ pc \in InRound /\ UNCHANGED budget
    BY <1>22 DEF FrozenEditRecovery, AtCrosstalkGate, AtGitGate, AtToolingGate,
                 AtSpecGate, AtFrozenGate, Judged, Undecided, InRound
  <2>2. ControlType' /\ EndingType' /\ Standing'
    BY <1>22, <2>1, NextRoundType DEF FrozenEditRecovery
  <2>3. ResultsType'
    BY <1>22, <2>1, TaintType, ReasonTypes DEF FrozenEditRecovery, IntegrityRejections,
                                               RecoveredReasons
  <2>4. CountersType'
    BY <1>22 DEF FrozenEditRecovery, TypeInv, TypeOK, CountersType, NoDriftCounted
  <2>5. \A t \in RevertedTrees : t \in Tree
    BY RevertType
  <2>6. FilesType'
    BY <1>22, <2>5 DEF FrozenEditRecovery, TypeInv, TypeOK, FilesType
  <2> QED
    BY <1>22, <2>1, <2>2, <2>3, <2>4, <2>5, <2>6, Frames DEF FrozenEditRecovery, TypeInv, TypeOK
<1>23. CASE AxiomDrift
  <2>1. pc \in Judged /\ pc \in Undecided /\ pc \in InRound /\ UNCHANGED budget
    BY <1>23 DEF AxiomDrift, AtCrosstalkGate, AtGitGate, AtToolingGate, AtSpecGate,
                 AtFrozenGate, AtAxiomGate, Judged, Undecided, InRound
  <2>2. ControlType' /\ EndingType' /\ Standing'
    BY <1>23, <2>1, BreakType, ReasonTypes DEF AxiomDrift, IntegrityRejections
  <2>3. CountersType'
    BY <1>23 DEF AxiomDrift, TypeInv, TypeOK, CountersType, NoDriftCounted
  <2> QED
    BY <1>23, <2>1, <2>2, <2>3, Frames DEF AxiomDrift, TypeInv, TypeOK
<1>24. CASE ForbiddenConstruct
  <2>1. pc \in Judged /\ pc \in Undecided /\ pc \in InRound /\ UNCHANGED budget
    BY <1>24 DEF ForbiddenConstruct, AtCrosstalkGate, AtGitGate, AtToolingGate,
                 AtSpecGate, AtFrozenGate, AtAxiomGate, AtForbiddenGate, Judged,
                 Undecided, InRound
  <2>2. ControlType' /\ EndingType' /\ Standing'
    BY <1>24, <2>1, BreakType, ReasonTypes DEF ForbiddenConstruct, IntegrityRejections
  <2>3. CountersType'
    BY <1>24 DEF ForbiddenConstruct, TypeInv, TypeOK, CountersType, NoDriftCounted
  <2> QED
    BY <1>24, <2>1, <2>2, <2>3, Frames DEF ForbiddenConstruct, TypeInv, TypeOK
<1>25. CASE FalseContract
  <2>1. pc \in Judged /\ pc \in Undecided /\ pc \in InRound /\ UNCHANGED budget
    BY <1>25 DEF FalseContract, AtCrosstalkGate, AtGitGate, AtToolingGate, AtSpecGate,
                 AtFrozenGate, AtAxiomGate, AtForbiddenGate, AtClaim, Judged,
                 Undecided, InRound
  <2>2. PICK label \in {"FALSE_CONTRACT", "NEEDS_DECOMP"} :
         Break(label) /\ results' = [results EXCEPT ![round].reason = label]
    BY <1>25 DEF FalseContract
  <2>3. ControlType' /\ EndingType' /\ Standing'
    BY <2>1, <2>2, BreakType, ReasonTypes DEF AgentClaims
  <2>4. CountersType' /\ TargetsType'
    BY <1>25, <2>1, MarkRoundType DEF FalseContract
  <2>5. ResultsType'
    BY <2>1, <2>2, ReasonTypes DEF AgentClaims, RoundResult, TypeInv, TypeOK, Standing,
                                   ResultsType
  <2> QED
    BY <1>25, <2>1, <2>2, <2>3, <2>4, <2>5, Frames DEF FalseContract, TypeInv, TypeOK
<1>26. CASE ClaimAccepted
  <2>1. pc \in Judged /\ pc \in Undecided /\ pc \in InRound /\ UNCHANGED budget
    BY <1>26 DEF ClaimAccepted, AtCrosstalkGate, AtGitGate, AtToolingGate, AtSpecGate,
                 AtFrozenGate, AtAxiomGate, AtForbiddenGate, AtClaim, Judged,
                 Undecided, InRound
  <2>2. turn.claim \in LoopReasons
    BY ReasonTypes DEF TypeInv, TypeOK, StreamsType, Turn
  <2>3. ControlType' /\ EndingType' /\ Standing'
    BY <1>26, <2>1, <2>2, BreakType DEF ClaimAccepted
  <2>4. CountersType' /\ TargetsType'
    BY <1>26, <2>1, MarkRoundType DEF ClaimAccepted
  <2> QED
    BY <1>26, <2>1, <2>2, <2>3, <2>4, Frames DEF ClaimAccepted, TypeInv, TypeOK
<1>27. CASE PlateauStop
  <2>1. pc \in Judged /\ pc \in Undecided /\ pc \in InRound /\ UNCHANGED budget
    BY <1>27 DEF PlateauStop, AtCrosstalkGate, AtGitGate, AtToolingGate, AtSpecGate,
                 AtFrozenGate, AtAxiomGate, AtForbiddenGate, AtClaim, NothingClaimed,
                 Judged, Undecided, InRound
  <2>2. ControlType' /\ EndingType' /\ Standing'
    BY <1>27, <2>1, BreakType, ReasonTypes DEF PlateauStop, AgentClaims
  <2>3. CountersType' /\ TargetsType'
    BY <1>27, <2>1, MarkRoundType DEF PlateauStop
  <2> QED
    BY <1>27, <2>1, <2>2, <2>3, Frames DEF PlateauStop, TypeInv, TypeOK
<1>28. CASE KeepGoing
  <2>1. pc \in Judged /\ pc \in Undecided /\ pc \in InRound /\ UNCHANGED budget
    BY <1>28 DEF KeepGoing, AtCrosstalkGate, AtGitGate, AtToolingGate, AtSpecGate,
                 AtFrozenGate, AtAxiomGate, AtForbiddenGate, AtClaim, NothingClaimed,
                 Judged, Undecided, InRound
  <2>2. ControlType' /\ EndingType' /\ Standing'
    BY <1>28, <2>1, NextRoundType DEF KeepGoing
  <2>3. CountersType' /\ TargetsType'
    BY <1>28, <2>1, MarkRoundType DEF KeepGoing
  <2> QED
    BY <1>28, <2>1, <2>2, <2>3, Frames DEF KeepGoing, TypeInv, TypeOK
<1>29. CASE CloseTask
  <2>1. PICK err \in BOOLEAN : LET facts == FinalFacts(err)
              label == FinalEndReason(DoneForReal(facts), FoldedReason(endReason, facts))
          IN  /\ outcome' = [label |-> label, state |-> Disposition(label)]
              /\ tree' = IF Disposition(label) = "REJECTED_DRIFTED"
                         THEN Restored(RestorePoint) ELSE tree
    BY <1>29 DEF CloseTask
  <2> DEFINE label == FinalEndReason(DoneForReal(FinalFacts(err)),
                                 FoldedReason(endReason, FinalFacts(err)))
  <2>3. label \in FinalReasons
    BY FoldedReasonType, FinalEndReasonType DEF TypeInv, TypeOK, EndingType,
                                                DoneForReal
  <2>4. outcome' \in Outcome
    BY <2>1, <2>3, DispositionType DEF Outcome
  <2>5. FilesType'
    BY <1>29, <2>1, RestoredType DEF CloseTask, RestorePoint, TypeInv, TypeOK,
                                     FilesType, TargetsType
  <2>6. EndingType'
    BY <1>29, <2>4 DEF CloseTask, TypeInv, TypeOK, EndingType
  <2>7. ControlType' /\ Standing'
    BY <1>29, <2>4 DEF CloseTask, TypeInv, TypeOK, ControlType, Stages, Standing,
                       InRound, Judged, Undecided
  <2> QED
    BY <1>29, <2>1, <2>3, <2>4, <2>5, <2>6, <2>7, Frames DEF CloseTask, TypeInv, TypeOK
<1>30. CASE WriteReceipt
  <2>1. ControlType' /\ Standing'
    BY <1>30 DEF WriteReceipt, Write, TypeInv, TypeOK, ControlType, Stages, Standing,
                 InRound, Judged, Undecided
  <2>2. artifacts' \in Artifacts
    BY <1>30 DEF WriteReceipt, Write, TypeInv, TypeOK, Standing, EndingType, Artifacts,
                 Receipt, FilesType, GateType
  <2>3. EndingType'
    BY <1>30, <2>2 DEF WriteReceipt, Write, TypeInv, TypeOK, EndingType
  <2> QED
    BY <1>30, <2>1, <2>2, <2>3, Frames DEF WriteReceipt, Write, TypeInv, TypeOK
<1>31. CASE WriteResult
  <2>1. ControlType' /\ Standing'
    BY <1>31 DEF WriteResult, Write, TypeInv, TypeOK, ControlType, Stages, Standing,
                 InRound, Judged, Undecided
  <2>2. artifacts' \in Artifacts
    BY <1>31 DEF WriteResult, Write, TypeInv, TypeOK, Standing, EndingType, Artifacts,
                 Outcome
  <2>3. EndingType'
    BY <1>31, <2>2 DEF WriteResult, Write, TypeInv, TypeOK, EndingType
  <2> QED
    BY <1>31, <2>1, <2>2, <2>3, Frames DEF WriteResult, Write, TypeInv, TypeOK
<1>32. CASE WriteBrief
  <2>1. ControlType' /\ Standing'
    BY <1>32 DEF WriteBrief, Write, TypeInv, TypeOK, ControlType, Stages, Standing,
                 InRound, Judged, Undecided
  <2>2. artifacts' \in Artifacts
    BY <1>32 DEF WriteBrief, Write, TypeInv, TypeOK, Standing, EndingType, Artifacts
  <2>3. EndingType'
    BY <1>32, <2>2 DEF WriteBrief, Write, TypeInv, TypeOK, EndingType
  <2> QED
    BY <1>32, <2>1, <2>2, <2>3, Frames DEF WriteBrief, Write, TypeInv, TypeOK
<1>33. CASE WriteFailure
  <2>1. ControlType' /\ Standing'
    BY <1>33 DEF WriteFailure, Write, TypeInv, TypeOK, ControlType, Stages, Standing,
                 InRound, Judged, Undecided
  <2>2. artifacts' \in Artifacts
    BY <1>33 DEF WriteFailure, Write, TypeInv, TypeOK, Standing, EndingType, Artifacts,
                 Success
  <2>3. EndingType'
    BY <1>33, <2>2 DEF WriteFailure, Write, TypeInv, TypeOK, EndingType
  <2> QED
    BY <1>33, <2>1, <2>2, <2>3, Frames DEF WriteFailure, Write, TypeInv, TypeOK
<1>34. CASE WriteRegistry
  <2>1. ControlType' /\ Standing'
    BY <1>34 DEF WriteRegistry, Write, TypeInv, TypeOK, ControlType, Stages, Standing,
                 InRound, Judged, Undecided
  <2>2. artifacts' \in Artifacts
    BY <1>34 DEF WriteRegistry, Write, TypeInv, TypeOK, Standing, EndingType,
                 Artifacts, Success
  <2>3. EndingType'
    BY <1>34, <2>2 DEF WriteRegistry, Write, TypeInv, TypeOK, EndingType
  <2> QED
    BY <1>34, <2>1, <2>2, <2>3, Frames DEF WriteRegistry, Write, TypeInv, TypeOK
<1>35. CASE Crash
  <2>1. ControlType' /\ Standing'
    BY <1>35 DEF Crash, TypeInv, TypeOK, ControlType, Stages, Standing, InRound,
                 Judged, Undecided, ending
  <2> QED
    BY <1>35, <2>1, Frames DEF Crash, TypeInv, TypeOK
<1>36. CASE UNCHANGED vars
  BY <1>36, Frames DEF vars, TypeInv, TypeOK, ControlType, Standing, ending
<1> QED
  BY <1>1, <1>2, <1>3, <1>4, <1>5, <1>6, <1>7, <1>8, <1>9, <1>10, <1>11, <1>12,
     <1>13, <1>14, <1>15, <1>16, <1>17, <1>18, <1>19, <1>20, <1>21, <1>22,
     <1>23, <1>24, <1>25, <1>26, <1>27, <1>28, <1>29, <1>30, <1>31, <1>32,
     <1>33, <1>34, <1>35, <1>36
     DEF Next, Step, Round, Gate, Claim, Close

(* The type invariant of RunTask holds for every instance of it. *)
THEOREM TypeCorrect == Spec => []TypeOK
<1>1. Spec => []TypeInv
  BY TypeInit, TypeStep, PTL DEF Spec
<1>2. TypeInv => TypeOK
  BY DEF TypeInv
<1> QED
  BY <1>1, <1>2, PTL

-----------------------------------------------------------------------------
(* What a task has left to do, at most: five steps for each round it may   *)
(* still use, and those from the stage it is in to its last artifact.      *)
StageLeft ==
  [setup |-> 12, start |-> 11, agent |-> 10, post |-> 9, session |-> 8, integrity |-> 7,
   fold |-> 6, receipt |-> 5, result |-> 4, brief |-> 3, failure |-> 2, registry |-> 1,
   done |-> 0, crashed |-> 0]
StepsLeft == 5 * (MaxRounds + 1 - round) + StageLeft[pc]

LEMMA StepsLeftIsNat == TypeOK => StepsLeft \in Nat
<1> SUFFICES ASSUME TypeOK PROVE StepsLeft \in Nat
  OBVIOUS
<1>1. MaxRounds + 1 - round \in Nat
  BY BoundsAssumption DEF TypeOK, ControlType
<1>2. StageLeft[pc] \in Nat
  BY DEF TypeOK, ControlType, Stages, StageLeft
<1> QED
  BY <1>1, <1>2 DEF StepsLeft

(* Within a round the stages follow each other, one that ends is charged.  *)
LEMMA StageEnds ==
  ASSUME Next
  PROVE  \/ round' = round + 1 /\ pc = "integrity" /\ pc' = "start"
         \/ /\ round' = round
            /\ <<pc, pc'>> \in
                 {<<"setup", "start">>, <<"setup", "done">>, <<"start", "fold">>,
                  <<"start", "agent">>, <<"agent", "post">>, <<"post", "fold">>,
                  <<"post", "session">>, <<"session", "fold">>, <<"session", "integrity">>,
                  <<"integrity", "fold">>, <<"fold", "receipt">>, <<"receipt", "result">>,
                  <<"result", "brief">>, <<"brief", "failure">>, <<"failure", "registry">>,
                  <<"registry", "done">>}
         \/ round' = round /\ pc \notin {"done", "crashed"} /\ pc' = "crashed"
<1>1. CASE Setup \/ SetupFails \/ Round
  BY <1>1, SetupEnds DEF Setup, Round, LoopEnds, BudgetBailOut, BeginRound, AgentTurn,
              RateLimited, NoResultExit, GateRound, HangBailOut, SessionControl, Break
<1>2. CASE Gate
  BY <1>2 DEF Gate, ProcessCrosstalk, GitRecoveryOverCap, GitRecovery, ToolingDrift,
              SpecDriftOverCapEnds, SpecRestoreFails, SpecDriftRecovery, FrozenAuditFails,
              FrozenEditOverCap, FrozenRevertFails, FrozenEditRecovery, AxiomDrift,
              ForbiddenConstruct, AtCrosstalkGate, AtGitGate, AtToolingGate, AtSpecGate,
              AtFrozenGate, AtAxiomGate, AtForbiddenGate, Break, NextRound
<1>3. CASE Claim
  BY <1>3 DEF Claim, FalseContract, ClaimAccepted, PlateauStop, KeepGoing, NothingClaimed,
              AtClaim, AtForbiddenGate, AtAxiomGate, AtFrozenGate, AtSpecGate, AtToolingGate,
              AtGitGate, AtCrosstalkGate, Break, NextRound
<1>4. CASE Close
  BY <1>4 DEF Close, CloseTask, Write, WriteReceipt, WriteResult, WriteBrief, WriteFailure,
              WriteRegistry
<1>5. CASE Crash
  BY <1>5 DEF Crash
<1> QED
  BY <1>1, <1>2, <1>3, <1>4, <1>5 DEF Next, Step

LEMMA StepsLeftStep == TypeOK /\ Next => StepsLeft' < StepsLeft
<1> SUFFICES ASSUME TypeOK, Next PROVE StepsLeft' < StepsLeft
  OBVIOUS
<1> DEFINE left == 5 * (MaxRounds + 1 - round)
<1>0. round \in Nat /\ MaxRounds \in Nat /\ left \in Nat /\ pc \in Stages
  BY BoundsAssumption DEF TypeOK, ControlType
<1>1. CASE round' = round + 1 /\ pc = "integrity" /\ pc' = "start"
  <2>1. 5 * (MaxRounds + 1 - round') = left - 5
    BY <1>0, <1>1
  <2> QED
    BY <1>0, <1>1, <2>1 DEF StepsLeft, StageLeft
<1>2. CASE round' = round
  <2>1. StageLeft[pc'] < StageLeft[pc] /\ StageLeft[pc'] \in Nat /\ StageLeft[pc] \in Nat
    BY <1>0, <1>2, StageEnds DEF StageLeft, Stages
  <2> QED
    BY <1>0, <1>2, <2>1 DEF StepsLeft
<1> QED
  BY <1>1, <1>2, StageEnds

(* A task comes to its end, whatever the agent, the gates and the          *)
(* recoveries do (run.py 5853): every step of it, a recovery's and an      *)
(* artifact's too, is one of at most 5 * MaxRounds + 12.                   *)
THEOREM TaskIsBounded ==
  Spec => [](StepsLeft \in Nat) /\ [][StepsLeft' < StepsLeft]_vars
<1>1. TypeOK /\ [Next]_vars => [StepsLeft' < StepsLeft]_vars
  BY StepsLeftStep
<1> QED
  BY <1>1, StepsLeftIsNat, TypeCorrect, PTL DEF Spec
=============================================================================
