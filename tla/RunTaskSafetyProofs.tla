------------------------- MODULE RunTaskSafetyProofs -------------------------
(***************************************************************************)
(* What a task guarantees, for every value of the constants: its rollback  *)
(* targets are clean, an accepted tree is honest, a rejected one is        *)
(* restored, a misuse is never forgotten, a halt never promoted.           *)
(*                                                                         *)
(* The argument has three layers on top of the types.  Evidence says what  *)
(* a green round still proves of the files that stand; Targets says what   *)
(* the snapshots the harness may return to look like; Decision, what the   *)
(* final gate made of both.                                                *)
(***************************************************************************)
EXTENDS RunTaskProofs

(* Stages in which the round has no result yet. *)
Pending == {"setup", "start", "agent", "post"}

(* A green verdict of the untouched verifier on pinned files is a proof. *)
TrueReceipt(e) == e.okay /\ ~e.tooling /\ ~e.stray => e.tree.proved
CacheTrue == \A e \in cache : TrueReceipt(e)

(* What a green round says of the files that stand now. *)
Sound == ~tooling /\ ~stray => tree.proved

(* Rounds that have not been judged have no result. *)
ResultsOpen ==
  /\ results[0] = None
  /\ \A n \in 0..MaxRounds : n > round \/ (n = round /\ pc \in Pending)
                               => results[n] = None

RoundSound ==
  pc \in Judged =>
    /\ SpecGate /\ ~tooling /\ round \notin unheard => results[round].drift = tree.spec
    /\ results[round].okay => results[round].drift = {} /\ Sound

(* An honest end of the loop: nothing but the agent's word ended it. *)
HonestEnd == endReason \notin InfraReasons \cup IntegrityRejections
LastSound ==
  /\ pc \in {"setup", "start"} /\ LastOkay => Sound /\ IntegrityClean(tree, lastClean)
  /\ pc = "fold" /\ LastOkay /\ HonestEnd => Sound /\ IntegrityClean(tree, lastClean)

Evidence == CacheTrue /\ ResultsOpen /\ RoundSound /\ LastSound

(* The snapshots the harness may return to: older than the round under way, *)
(* the baseline among them.                                                 *)
InLoop == {"start"} \cup InRound
Targets ==
  /\ RollbackTargetsClean
  /\ pc = "setup" => tree = Baseline /\ lastClean = 0 /\ lastGood = 0
  /\ pc \in InLoop => lastClean < round
  /\ pc \in Judged => snaps[round] = tree
  /\ pc \in InLoop \cup {"fold"} => snaps[0] # None /\ IntegrityClean(snaps[0], 0)

(* What the final gate decided, and what was written of it so far. *)
Decided == Closed => outcome.state = Disposition(outcome.label)
Decision == /\ AcceptedIsHonest /\ RejectedIsRestored /\ MisuseIsRejected
            /\ HaltIsNeverPromoted /\ Decided

Written ==
  /\ ArtifactsAgree
  /\ pc \in {"receipt", "result", "brief", "failure"} \cup Undecided
       => "failure" \notin artifacts.memory
  /\ pc \notin {"done", "crashed"} => ~artifacts.registered
  /\ pc \in {"result", "brief", "failure", "registry"}
       => artifacts.receipt # None /\ artifacts.receipt.outcome = outcome
  /\ pc \in {"brief", "failure", "registry"} => artifacts.result = outcome.label

------------------------------------------------------------------------------
(* Evidence. *)

LEMMA EvidenceInit == Init => Evidence
<1> SUFFICES ASSUME Init PROVE Evidence
  OBVIOUS
<1>1. pc = "setup" /\ round = 1 /\ cache = {} /\ results = [n \in 0..MaxRounds |-> None]
  BY DEF Init
<1>2. CacheTrue /\ RoundSound
  BY <1>1 DEF CacheTrue, RoundSound, Judged
<1>3. \A n \in 0..MaxRounds : results[n] = None
  BY <1>1
<1>4. 0 \in 0..MaxRounds
  BY BoundsAssumption
<1>5. ResultsOpen
  BY <1>3, <1>4 DEF ResultsOpen
<1>6. LastResult = None
  BY <1>1, <1>3, <1>4 DEF LastResult
<1>7. LastSound
  BY <1>1, <1>6 DEF LastSound, LastOkay
<1> QED
  BY <1>2, <1>5, <1>7 DEF Evidence

(* The verdict a gate returns speaks for the files that stand. *)
LEMMA GateSpeaksTrue ==
  ASSUME TypeInv, Evidence, NEW drift, NEW receipt \in GateAnswers(drift)
  PROVE  /\ TrueReceipt(receipt)
         /\ receipt.okay => /\ drift = {}
                            /\ ~tooling /\ ~stray => tree.proved
<1>1. CASE drift # {}
  BY <1>1 DEF GateAnswers, GateReceiptOf, TrueReceipt
<1>2. CASE drift = {} /\ CacheHits # {}
  <2>1. receipt \in cache /\ SameKey(receipt)
    BY <1>2 DEF GateAnswers, CacheHits
  <2> QED
    BY <1>2, <2>1 DEF Evidence, CacheTrue, TrueReceipt, SameKey
<1>3. CASE drift = {} /\ CacheHits = {}
  <2>1. PICK v \in Verdicts : receipt = GateReceiptOf("VERIFIED", v)
    BY <1>3 DEF GateAnswers
  <2>2. receipt.okay = v /\ receipt.tree = tree /\ receipt.tooling = tooling
        /\ receipt.stray = stray
    BY <2>1 DEF GateReceiptOf
  <2>3. v /\ ~tooling /\ ~stray => tree.proved
    BY <2>1 DEF Verdicts
  <2> QED
    BY <1>3, <2>2, <2>3 DEF TrueReceipt
<1> QED
  BY <1>1, <1>2, <1>3

(* The round's result is the only one that changes. *)
OnlyThisRound(f, g) == \A n \in 0..MaxRounds : n # round => g[n] = f[n]

LEMMA TaintsOnlyThisRound ==
  ASSUME TypeInv, NEW reason, TaintRound(reason)
  PROVE  OnlyThisRound(results, results')
BY DEF TaintRound, OnlyThisRound, TypeInv, TypeOK, ResultsType

LEMMA OpenStays ==
  ASSUME TypeInv, ResultsOpen, OnlyThisRound(results, results'),
         round' \in {round, round + 1}, pc' \notin Pending \/ round' = round + 1
  PROVE  ResultsOpen'
<1>1. round \in Nat /\ round >= 1
  BY DEF TypeInv, TypeOK, ControlType
<1>2. 0 \in 0..MaxRounds
  BY BoundsAssumption
<1>3. results'[0] = None
  BY <1>1, <1>2 DEF ResultsOpen, OnlyThisRound
<1>4. ASSUME NEW n \in 0..MaxRounds, n > round' \/ (n = round' /\ pc' \in Pending)
      PROVE  results'[n] = None
  <2>1. n > round
    BY <1>1, <1>4
  <2> QED
    BY <1>1, <2>1 DEF ResultsOpen, OnlyThisRound
<1> QED
  BY <1>3, <1>4 DEF ResultsOpen

(* A loop left for a halt or a misuse owes nothing. *)
LEMMA EvidenceBreak ==
  ASSUME TypeInv, Evidence, UNCHANGED cache, OnlyThisRound(results, results'),
         NEW reason \in InfraReasons \cup IntegrityRejections, Break(reason)
  PROVE  Evidence'
<1>1. pc' = "fold" /\ round' = round /\ ~HonestEnd'
  BY DEF Break, HonestEnd
<1>2. CacheTrue' /\ RoundSound' /\ LastSound'
  BY <1>1 DEF Evidence, CacheTrue, TrueReceipt, RoundSound, LastSound, Judged
<1>3. ResultsOpen'
  BY <1>1, OpenStays DEF Evidence, Pending
<1> QED
  BY <1>2, <1>3 DEF Evidence

(* A judged round has a result, and it is the last one. *)
LEMMA JudgedIsLast ==
  ASSUME TypeInv, pc \in Judged
  PROVE  /\ round \in 1..MaxRounds /\ results[round] \in RoundResult
         /\ LastResult = results[round] /\ (LastOkay <=> results[round].okay)
<1>1. round \in 1..MaxRounds
  BY DEF TypeInv, TypeOK, Standing, ControlType, Judged, InRound
<1>2. results[round] \in RoundResult /\ results[round] # None
  BY NoneAssumption DEF TypeInv, Standing
<1>3. LastResult = results[round]
  BY <1>1, <1>2 DEF LastResult
<1> QED
  BY <1>1, <1>2, <1>3 DEF LastOkay

(* When the next round starts, the last result is that of this round. *)
LEMMA NextIsLast ==
  ASSUME TypeInv, ResultsOpen, pc \in Judged, NextRound,
         OnlyThisRound(results, results')
  PROVE  /\ ResultsOpen' /\ LastResult' = results'[round]
<1>1. round \in Nat /\ round' = round + 1 /\ pc' = "start"
  BY DEF NextRound, TypeInv, TypeOK, ControlType
<1>2. ResultsOpen'
  BY <1>1, OpenStays
<1>3. round' \in 1..MaxRounds => results'[round'] = None
  BY <1>1, <1>2 DEF ResultsOpen, Pending
<1>4. round' - 1 = round
  BY <1>1
<1> QED
  BY <1>2, <1>3, <1>4 DEF LastResult

(* A recovered round leaves no green behind. *)
LEMMA EvidenceRecovered ==
  ASSUME TypeInv, Evidence, pc \in Judged, UNCHANGED cache, NextRound,
         NEW reason, TaintRound(reason)
  PROVE  Evidence'
<1>1. pc' = "start"
  BY DEF NextRound
<1>2. ResultsOpen' /\ LastResult' = results'[round]
  BY NextIsLast, TaintsOnlyThisRound DEF Evidence
<1>3. round \in 0..MaxRounds /\ results[round] \in RoundResult
  BY JudgedIsLast
<1>4. results'[round] = Tainted(results[round], reason)
  BY <1>3 DEF TaintRound, TypeInv, TypeOK, ResultsType
<1>5. results'[round].okay = FALSE
  BY <1>3, <1>4 DEF Tainted, RoundResult
<1>6. CacheTrue' /\ RoundSound' /\ LastSound'
  BY <1>1, <1>2, <1>5 DEF Evidence, CacheTrue, TrueReceipt, RoundSound, LastSound,
                          LastOkay, Judged
<1> QED
  BY <1>2, <1>6 DEF Evidence

(* Files that passed every gate are clean, as far as spec_check was heard. *)
LEMMA PassedIsClean ==
  ASSUME TypeInv, Evidence, AtClaim
  PROVE  IntegrityClean(tree, round) /\ pc \in Judged
<1>1. /\ pc = "integrity" /\ ~tooling /\ results[round].drift = {} /\ ~FrozenChanged
      /\ "axiom" \notin tree.added /\ "forbidden" \notin tree.added
  BY DEF AtClaim, AtForbiddenGate, AtAxiomGate, AtFrozenGate, AtSpecGate, AtToolingGate,
         AtGitGate, AtCrosstalkGate
<1>2. tree.added = {}
  BY <1>1 DEF TypeInv, TypeOK, FilesType, Tree
<1>3. SpecGate /\ round \notin unheard => tree.spec = {}
  BY <1>1 DEF Evidence, RoundSound, Judged
<1>4. WholeCrate => ~tree.frozen
  BY <1>1 DEF FrozenChanged
<1> QED
  BY <1>1, <1>2, <1>3, <1>4 DEF IntegrityClean, Judged

(* What the agent declared is judged on files nobody touched since. *)
LEMMA EvidenceClaim ==
  ASSUME TypeInv, Evidence, AtClaim, MarkRound, UNCHANGED <<cache, files, unheard>>,
         OnlyThisRound(results, results'),
         results'[round] # None, results'[round].okay = results[round].okay,
         NextRound \/ \E reason \in LoopReasons : Break(reason)
  PROVE  Evidence'
<1>0. pc \in Judged
  BY PassedIsClean
<1>1. results[round].okay => Sound' /\ IntegrityClean(tree, lastClean)'
  <2>1. IntegrityClean(tree, lastClean)'
    BY PassedIsClean DEF MarkRound, IntegrityClean, files
  <2> QED
    BY <1>0, <2>1 DEF Evidence, RoundSound, Sound, files
<1>2. round \in 1..MaxRounds
  BY <1>0, JudgedIsLast
<1>3. CASE NextRound
  <2>1. pc' = "start"
    BY <1>3 DEF NextRound
  <2>2. ResultsOpen' /\ LastResult' = results'[round]
    BY <1>0, <1>3, NextIsLast DEF Evidence
  <2>3. CacheTrue' /\ RoundSound' /\ LastSound'
    BY <1>1, <2>1, <2>2 DEF Evidence, CacheTrue, TrueReceipt, RoundSound, LastSound,
                            LastOkay, Judged
  <2> QED
    BY <2>2, <2>3 DEF Evidence
<1>4. CASE \E reason \in LoopReasons : Break(reason)
  <2>1. pc' = "fold" /\ round' = round
    BY <1>4 DEF Break
  <2>2. ResultsOpen'
    BY <2>1, OpenStays DEF Evidence, Pending
  <2>3. LastOkay' => results'[round].okay
    BY <1>2, <2>1 DEF LastOkay, LastResult
  <2>4. CacheTrue' /\ RoundSound' /\ LastSound'
    BY <1>1, <2>1, <2>3 DEF Evidence, CacheTrue, TrueReceipt, RoundSound, LastSound,
                            Judged
  <2> QED
    BY <2>2, <2>4 DEF Evidence
<1> QED
  BY <1>3, <1>4

LEMMA EvidenceGateRound ==
  ASSUME TypeInv, Evidence, GateRound
  PROVE  Evidence'
<1>1. /\ pc = "post" /\ pc' = "session" /\ round' = round
      /\ UNCHANGED <<tree, stray, tooling>>
  BY DEF GateRound, files
<1>2. round \in 1..MaxRounds
  BY <1>1 DEF TypeInv, TypeOK, Standing, InRound, ControlType
<1>3. PICK heard \in Hearing(tree) :
        /\ unheard' = IF heard THEN unheard ELSE unheard \cup {round}
        /\ \E drift \in SpecReports(tree, heard) : \E receipt \in GateAnswers(drift),
              siblingOkay \in SiblingVerdicts : Record(drift, receipt, siblingOkay)
  BY DEF GateRound
<1>13. PICK drift \in SpecReports(tree, heard) : \E receipt \in GateAnswers(drift),
              siblingOkay \in SiblingVerdicts : Record(drift, receipt, siblingOkay)
  BY <1>3
<1>4. PICK receipt \in GateAnswers(drift), siblingOkay \in SiblingVerdicts :
         Record(drift, receipt, siblingOkay)
  BY <1>13
<1>5. /\ TrueReceipt(receipt)
      /\ receipt.okay => drift = {} /\ (~tooling /\ ~stray => tree.proved)
  BY GateSpeaksTrue
<1>6. SpecGate /\ ~tooling /\ round \notin unheard' => drift = tree.spec
  BY <1>3 DEF SpecReports
<1>7. /\ results'[round].drift = drift
      /\ results'[round].okay = (receipt.okay /\ siblingOkay)
  BY <1>2, <1>4 DEF Record, TypeInv, TypeOK, ResultsType
<1>8. OnlyThisRound(results, results')
  BY <1>4 DEF Record, OnlyThisRound, TypeInv, TypeOK, ResultsType
<1>9. CacheTrue'
  BY <1>4, <1>5 DEF Record, CacheAfter, Evidence, CacheTrue, TrueReceipt
<1>10. ResultsOpen'
  BY <1>1, <1>8, OpenStays DEF Evidence, Pending
<1>11. RoundSound'
  <2>1. receipt.okay => Sound'
    BY <1>1, <1>5 DEF Sound
  <2> QED
    BY <1>1, <1>5, <1>6, <1>7, <2>1 DEF RoundSound
<1>12. LastSound'
  BY <1>1 DEF LastSound
<1> QED
  BY <1>9, <1>10, <1>11, <1>12 DEF Evidence

(* Nothing the evidence depends on changes. *)
LEMMA EvidenceQuiet ==
  ASSUME TypeInv, Evidence, UNCHANGED <<round, results, cache>>,
         pc' \notin Judged \cup {"setup", "start", "fold"},
         pc' \in Pending => pc \in Pending
  PROVE  Evidence'
<1>1. CacheTrue' /\ RoundSound' /\ LastSound'
  BY DEF Evidence, CacheTrue, TrueReceipt, RoundSound, LastSound, Pending
<1>2. ResultsOpen'
  BY DEF Evidence, ResultsOpen
<1> QED
  BY <1>1, <1>2 DEF Evidence

(* The loop is left from its head: the files of a green last round stay. *)
LEMMA EvidenceLoopEnds ==
  ASSUME TypeInv, Evidence, pc = "start", pc' = "fold",
         UNCHANGED <<round, stray, tooling, results, cache, unheard, lastClean>>,
         LastOkay => UNCHANGED tree
  PROVE  Evidence'
<1>1. LastOkay' = LastOkay
  BY DEF LastOkay, LastResult
<1>2. CacheTrue' /\ RoundSound' /\ LastSound'
  BY <1>1 DEF Evidence, CacheTrue, TrueReceipt, RoundSound, LastSound, Sound, Judged,
              IntegrityClean
<1>3. ResultsOpen'
  BY DEF Evidence, ResultsOpen, Pending
<1> QED
  BY <1>2, <1>3 DEF Evidence

LEMMA EvidenceStep == TypeInv /\ Evidence /\ [Next]_vars => Evidence'
<1> SUFFICES ASSUME TypeInv, Evidence, [Next]_vars PROVE Evidence'
  OBVIOUS
<1>1. CASE Setup
  <2>1. /\ pc = "setup" /\ pc' = "start"
        /\ UNCHANGED <<round, tree, stray, tooling, results, cache, unheard, lastClean>>
    BY <1>1 DEF Setup, files, gateVars, targets
  <2>2. LastOkay' = LastOkay /\ Sound' = Sound
        /\ IntegrityClean(tree, lastClean)' = IntegrityClean(tree, lastClean)
    BY <2>1 DEF LastOkay, LastResult, Sound, IntegrityClean
  <2> QED
    BY <2>1, <2>2 DEF Evidence, CacheTrue, TrueReceipt, RoundSound, LastSound, Judged,
                      ResultsOpen, Pending
<1>2. CASE SetupFails
  BY <1>2, SetupEnds, EvidenceQuiet DEF Judged, Pending, gateVars
<1>3. CASE BeginRound
  BY <1>3, EvidenceQuiet DEF BeginRound, Judged, Pending, gateVars
<1>4. CASE AgentTurn
  BY <1>4, EvidenceQuiet DEF AgentTurn, Judged, Pending, gateVars
<1>5. CASE LoopEnds
  BY <1>5, EvidenceLoopEnds DEF LoopEnds, files, gateVars, targets
<1>6. CASE BudgetBailOut
  BY <1>6, EvidenceLoopEnds DEF BudgetBailOut, files, gateVars, targets
<1>7. CASE RateLimited
  BY <1>7, EvidenceBreak DEF RateLimited, OnlyThisRound, InfraReasons,
     IntegrityRejections, gateVars
<1>8. CASE HangBailOut
  BY <1>8, EvidenceBreak DEF HangBailOut, OnlyThisRound, InfraReasons,
     IntegrityRejections, gateVars
<1>9. CASE GitRecoveryOverCap
  BY <1>9, EvidenceBreak DEF GitRecoveryOverCap, OnlyThisRound, InfraReasons,
     IntegrityRejections, gateVars
<1>10. CASE ToolingDrift
  BY <1>10, EvidenceBreak DEF ToolingDrift, OnlyThisRound, InfraReasons,
     IntegrityRejections, gateVars
<1>11. CASE FrozenAuditFails
  BY <1>11, EvidenceBreak DEF FrozenAuditFails, OnlyThisRound, InfraReasons,
     IntegrityRejections, gateVars
<1>12. CASE FrozenEditOverCap
  BY <1>12, EvidenceBreak DEF FrozenEditOverCap, OnlyThisRound, InfraReasons,
     IntegrityRejections, gateVars
<1>13. CASE FrozenRevertFails
  BY <1>13, EvidenceBreak DEF FrozenRevertFails, OnlyThisRound, InfraReasons,
     IntegrityRejections, gateVars
<1>14. CASE AxiomDrift
  BY <1>14, EvidenceBreak DEF AxiomDrift, OnlyThisRound, InfraReasons,
     IntegrityRejections, gateVars
<1>15. CASE ForbiddenConstruct
  BY <1>15, EvidenceBreak DEF ForbiddenConstruct, OnlyThisRound, InfraReasons,
     IntegrityRejections, gateVars
<1>16. CASE ProcessCrosstalk
  BY <1>16, EvidenceBreak, TaintsOnlyThisRound DEF ProcessCrosstalk,
     IntegrityRejections, gateVars
<1>17. CASE SpecDriftOverCapEnds
  BY <1>17, EvidenceBreak, TaintsOnlyThisRound DEF SpecDriftOverCapEnds,
     IntegrityRejections, gateVars
<1>18. CASE SpecRestoreFails
  BY <1>18, EvidenceBreak, TaintsOnlyThisRound DEF SpecRestoreFails,
     IntegrityRejections, gateVars
<1>19. CASE NoResultExit
  <2>1. OnlyThisRound(results, results')
    BY <1>19 DEF NoResultExit, OnlyThisRound, TypeInv, TypeOK, ResultsType
  <2>2. NoResultReason \in InfraReasons \cup IntegrityRejections
    BY <1>19 DEF NoResultExit, NoResultReason, NoResultExits, InfraReasons,
               IntegrityRejections
  <2> QED
    BY <1>19, <2>1, <2>2, EvidenceBreak DEF NoResultExit, gateVars
<1>20. CASE GateRound
  BY <1>20, EvidenceGateRound
<1>21. CASE SessionControl
  <2>1. /\ pc \in Judged /\ pc' = "integrity"
        /\ UNCHANGED <<round, tree, stray, tooling, results, cache, unheard>>
    BY <1>21 DEF SessionControl, Judged, files, gateVars
  <2>2. RoundSound'
    BY <2>1 DEF Evidence, RoundSound, Sound
  <2> QED
    BY <2>1, <2>2 DEF Evidence, CacheTrue, TrueReceipt, LastSound, ResultsOpen, Pending
<1>22. CASE GitRecovery
  BY <1>22, EvidenceRecovered DEF GitRecovery, AtGitGate, AtCrosstalkGate,
     Judged, gateVars
<1>23. CASE SpecDriftRecovery
  BY <1>23, EvidenceRecovered DEF SpecDriftRecovery, AtSpecGate, AtToolingGate,
     AtGitGate, AtCrosstalkGate, Judged, gateVars
<1>24. CASE FrozenEditRecovery
  BY <1>24, EvidenceRecovered DEF FrozenEditRecovery, AtFrozenGate, AtSpecGate,
     AtToolingGate, AtGitGate, AtCrosstalkGate, Judged, gateVars
<1>25. CASE FalseContract
  <2>1. AtClaim /\ MarkRound /\ pc \in Judged
    BY <1>25, PassedIsClean DEF FalseContract
  <2>2. PICK label \in {"FALSE_CONTRACT", "NEEDS_DECOMP"} :
         results' = [results EXCEPT ![round].reason = label] /\ Break(label)
    BY <1>25 DEF FalseContract
  <2>3. OnlyThisRound(results, results')
    BY <2>2 DEF OnlyThisRound, TypeInv, TypeOK, ResultsType
  <2>4. round \in 0..MaxRounds /\ results[round] \in RoundResult
    BY <2>1, JudgedIsLast
  <2>5. results'[round] = [results[round] EXCEPT !.reason = label]
    BY <2>2, <2>4 DEF TypeInv, TypeOK, ResultsType
  <2>6. label \in LoopReasons
    BY ReasonTypes DEF AgentClaims
  <2>7. results'[round] \in RoundResult /\ results'[round].okay = results[round].okay
    BY <2>4, <2>5, <2>6 DEF RoundResult
  <2>8. results'[round] # None
    BY <2>7, NoneAssumption
  <2> QED
    BY <1>25, <2>1, <2>2, <2>3, <2>6, <2>7, <2>8, EvidenceClaim DEF FalseContract, gateVars
<1>26. CASE ClaimAccepted
  <2>1. AtClaim /\ MarkRound /\ pc \in Judged
    BY <1>26, PassedIsClean DEF ClaimAccepted
  <2>2. results[round] # None
    BY <2>1, JudgedIsLast, NoneAssumption
  <2>3. turn.claim \in LoopReasons
    BY ReasonTypes DEF TypeInv, TypeOK, StreamsType, Turn
  <2> QED
    BY <1>26, <2>1, <2>2, <2>3, EvidenceClaim DEF ClaimAccepted, OnlyThisRound, gateVars
<1>27. CASE PlateauStop
  <2>1. AtClaim /\ MarkRound /\ pc \in Judged
    BY <1>27, PassedIsClean DEF PlateauStop, NothingClaimed
  <2>2. results[round] # None
    BY <2>1, JudgedIsLast, NoneAssumption
  <2>3. "LIMIT" \in LoopReasons
    BY ReasonTypes DEF AgentClaims
  <2> QED
    BY <1>27, <2>1, <2>2, <2>3, EvidenceClaim DEF PlateauStop, OnlyThisRound, gateVars
<1>28. CASE KeepGoing
  <2>1. AtClaim /\ MarkRound /\ pc \in Judged
    BY <1>28, PassedIsClean DEF KeepGoing, NothingClaimed
  <2>2. results[round] # None
    BY <2>1, JudgedIsLast, NoneAssumption
  <2> QED
    BY <1>28, <2>1, <2>2, EvidenceClaim DEF KeepGoing, OnlyThisRound, gateVars
<1>29. CASE CloseTask
  BY <1>29, EvidenceQuiet DEF CloseTask, Judged, Pending, gateVars
<1>30. CASE WriteReceipt
  BY <1>30, EvidenceQuiet DEF WriteReceipt, Write, Judged, Pending, gateVars
<1>31. CASE WriteResult
  BY <1>31, EvidenceQuiet DEF WriteResult, Write, Judged, Pending, gateVars
<1>32. CASE WriteBrief
  BY <1>32, EvidenceQuiet DEF WriteBrief, Write, Judged, Pending, gateVars
<1>33. CASE WriteFailure
  BY <1>33, EvidenceQuiet DEF WriteFailure, Write, Judged, Pending, gateVars
<1>34. CASE WriteRegistry
  BY <1>34, EvidenceQuiet DEF WriteRegistry, Write, Judged, Pending, gateVars
<1>35. CASE Crash
  BY <1>35, EvidenceQuiet DEF Crash, Judged, Pending, gateVars
<1>36. CASE UNCHANGED vars
  <2>1. UNCHANGED <<pc, round, tree, stray, tooling, results, cache, unheard, lastClean,
                    endReason>>
    BY <1>36 DEF vars, files, gateVars, targets, ending
  <2>2. Sound' = Sound /\ LastOkay' = LastOkay /\ HonestEnd' = HonestEnd
        /\ IntegrityClean(tree, lastClean)' = IntegrityClean(tree, lastClean)
    BY <2>1 DEF Sound, LastOkay, LastResult, HonestEnd, IntegrityClean
  <2> QED
    BY <2>1, <2>2 DEF Evidence, CacheTrue, TrueReceipt, RoundSound, LastSound,
                      ResultsOpen
<1> QED
  BY <1>1, <1>2, <1>3, <1>4, <1>5, <1>6, <1>7, <1>8, <1>9, <1>10, <1>11,
     <1>12, <1>13, <1>14, <1>15, <1>16, <1>17, <1>18, <1>19, <1>20, <1>21,
     <1>22, <1>23, <1>24, <1>25, <1>26, <1>27, <1>28, <1>29, <1>30, <1>31,
     <1>32, <1>33, <1>34, <1>35, <1>36
     DEF Next, Step, Round, Gate, Claim, Close

------------------------------------------------------------------------------
(* Rollback targets. *)

LEMMA BaselineClean == IntegrityClean(Baseline, 0) /\ Baseline # None
BY AgentAssumption, NoneAssumption DEF IntegrityClean

LEMMA TargetsInit == Init => Targets
<1> SUFFICES ASSUME Init PROVE Targets
  OBVIOUS
<1>1. pc = "setup" /\ tree = Baseline /\ lastClean = 0 /\ lastGood = 0
  BY DEF Init
<1>2. RollbackTargetsClean
  BY <1>1 DEF RollbackTargetsClean
<1> QED
  BY <1>1, <1>2 DEF Targets, InLoop, InRound, Judged

(* The round under way is newer than the targets: it cannot disturb them. *)
LEMMA TargetsKept ==
  ASSUME TypeInv, Targets, pc \in InLoop, UNCHANGED targets,
         OnlyThisRound(snaps, snaps'), OnlyThisRound(results, results'),
         round' \in {round, round + 1}, pc' # "setup",
         pc' \in Judged => snaps'[round'] = tree', unheard \subseteq unheard'
  PROVE  Targets'
<1>1. round \in Nat /\ round >= 1 /\ lastGood \in 0..MaxRounds /\ lastClean \in 0..MaxRounds
  BY DEF TypeInv, TypeOK, ControlType, TargetsType
<1>2. lastGood <= lastClean /\ lastClean < round /\ lastGood' = lastGood
      /\ lastClean' = lastClean
  BY DEF Targets, RollbackTargetsClean, targets
<1>3. 0 \in 0..MaxRounds
  BY BoundsAssumption
<1>4. /\ snaps'[lastGood] = snaps[lastGood] /\ snaps'[lastClean] = snaps[lastClean]
      /\ results'[lastGood] = results[lastGood] /\ snaps'[0] = snaps[0]
  BY <1>1, <1>2, <1>3 DEF OnlyThisRound
<1>5. RollbackTargetsClean'
  BY <1>2, <1>4 DEF Targets, RollbackTargetsClean, IntegrityClean
<1>6. lastClean' < round'
  BY <1>1, <1>2
<1>7. snaps'[0] # None /\ IntegrityClean(snaps[0], 0)'
  BY <1>4 DEF Targets, IntegrityClean
<1> QED
  BY <1>5, <1>6, <1>7 DEF Targets

(* A round that passed every gate may become a target. *)
LEMMA TargetsMarked ==
  ASSUME TypeInv, Evidence, Targets, AtClaim, MarkRound,
         UNCHANGED <<files, snaps, unheard>>,
         results'[round] # None, results'[round].okay = results[round].okay,
         OnlyThisRound(results, results'),
         NextRound \/ \E reason \in LoopReasons : Break(reason)
  PROVE  Targets'
<1>1. /\ pc = "integrity" /\ ~tooling /\ results[round].drift = {} /\ ~FrozenChanged
      /\ "axiom" \notin tree.added /\ "forbidden" \notin tree.added
  BY DEF AtClaim, AtForbiddenGate, AtAxiomGate, AtFrozenGate, AtSpecGate, AtToolingGate,
         AtGitGate, AtCrosstalkGate
<1>2. round \in 1..MaxRounds /\ results[round] \in RoundResult
  BY <1>1, JudgedIsLast DEF Judged
<1>3. tree \in Tree /\ snaps[round] = tree /\ snaps'[round] = tree /\ tree # None
  BY <1>1, NoneAssumption DEF TypeInv, TypeOK, FilesType, Targets, Judged
<1>6. WholeCrate => ~stray
  BY <1>1 DEF FrozenChanged
<1>7. IntegrityClean(tree, round)
  BY PassedIsClean
<1>8. WholeCrate /\ results[round].okay => tree.proved
  BY <1>1, <1>6 DEF Evidence, RoundSound, Sound, Judged
<1>9. /\ lastGood \in 0..MaxRounds /\ lastClean \in 0..MaxRounds
      /\ lastGood <= lastClean /\ lastClean < round
      /\ lastClean' = round
      /\ lastGood' = IF results[round].okay THEN round ELSE lastGood
  BY <1>1 DEF Targets, RollbackTargetsClean, MarkRound, TypeInv, TypeOK, TargetsType,
              InLoop, InRound
<1>10. RollbackTargetsClean'
  <2>1. lastClean' > 0 => snaps'[lastClean'] # None /\ IntegrityClean(snaps[lastClean], lastClean)'
    <3>1. lastClean' = round
      BY <1>9
    <3>2. snaps'[lastClean'] = tree /\ tree # None
      BY <1>3, <3>1, Zenon
    <3>3. IntegrityClean(snaps[lastClean], lastClean)'
      BY <1>7, <3>1, <3>2 DEF IntegrityClean
    <3> QED
      BY <3>2, <3>3, Zenon
  <2>2. CASE results[round].okay
    <3>1. lastGood' = round /\ lastGood' <= lastClean'
      BY <1>2, <1>9, <2>2
    <3>2. /\ snaps'[lastGood'] = tree /\ results'[lastGood'] # None
          /\ results'[lastGood'].okay
      BY <1>3, <2>2, <3>1
    <3>3. IntegrityClean(snaps[lastGood], lastGood)'
      BY <1>7, <3>1, <3>2 DEF IntegrityClean
    <3>4. snaps'[lastGood'] # None /\ (WholeCrate => snaps'[lastGood'].proved)
      BY <1>3, <1>8, <2>2, <3>2, Zenon
    <3> QED
      BY <2>1, <3>1, <3>2, <3>3, <3>4 DEF RollbackTargetsClean, IntegrityClean
  <2>3. CASE ~results[round].okay
    <3>1. lastGood' = lastGood /\ lastGood # round /\ lastGood' <= lastClean'
      BY <1>2, <1>9, <2>3
    <3>2. results'[lastGood'] = results[lastGood] /\ snaps'[lastGood'] = snaps[lastGood]
      BY <1>9, <3>1 DEF OnlyThisRound
    <3> QED
      BY <2>1, <3>1, <3>2 DEF Targets, RollbackTargetsClean, IntegrityClean
  <2> QED
    BY <2>2, <2>3
<1>11. snaps'[0] # None /\ IntegrityClean(snaps[0], 0)'
  BY <1>1 DEF Targets, InLoop, InRound, IntegrityClean
<1>12. CASE NextRound
  <2>1. pc' = "start" /\ lastClean' < round'
    BY <1>2, <1>9, <1>12 DEF NextRound
  <2> QED
    BY <1>10, <1>11, <2>1 DEF Targets, IntegrityClean, Judged
<1>13. CASE \E reason \in LoopReasons : Break(reason)
  <2>1. pc' = "fold"
    BY <1>13 DEF Break
  <2> QED
    BY <1>10, <1>11, <2>1 DEF Targets, IntegrityClean, InLoop, InRound, Judged
<1> QED
  BY <1>12, <1>13

(* After the loop the snapshots stand. *)
LEMMA TargetsQuiet ==
  ASSUME TypeInv, Targets, UNCHANGED <<snaps, results, targets, unheard>>,
         pc' \notin InLoop \cup {"setup", "fold"}
  PROVE  Targets'
<1>1. RollbackTargetsClean'
  BY DEF Targets, RollbackTargetsClean, IntegrityClean, targets
<1> QED
  BY <1>1 DEF Targets, InLoop, InRound, Judged

LEMMA TargetsStep == TypeInv /\ Evidence /\ Targets /\ [Next]_vars => Targets'
<1> SUFFICES ASSUME TypeInv, Evidence, Targets, [Next]_vars PROVE Targets'
  OBVIOUS
<1>1. CASE Setup
  <2>1. /\ pc = "setup" /\ pc' = "start" /\ snaps' = [snaps EXCEPT ![0] = tree]
        /\ UNCHANGED <<round, results, targets>>
    BY <1>1 DEF Setup
  <2>6. unheard' = unheard
    BY <1>1 DEF Setup, gateVars
  <2>2. tree = Baseline /\ lastClean = 0 /\ lastGood = 0 /\ round \in Nat /\ round >= 1
    BY <2>1 DEF Targets, TypeInv, TypeOK, ControlType
  <2>3. snaps'[0] = Baseline
    BY <2>1, <2>2, BoundsAssumption DEF TypeInv, TypeOK, SnapsType
  <2>4. RollbackTargetsClean'
    BY <2>1, <2>2 DEF RollbackTargetsClean, targets
  <2>5. lastClean' < round'
    BY <2>1, <2>2 DEF targets
  <2> QED
    BY <2>1, <2>3, <2>4, <2>5, <2>6, BaselineClean DEF Targets, IntegrityClean, Judged
<1>2. CASE SetupFails
  <2>1. pc = "setup" /\ pc' = "done" /\ UNCHANGED targets
    BY <1>2, SetupEnds
  <2>2. lastClean' = 0 /\ lastGood' = 0
    BY <2>1 DEF Targets, targets
  <2>3. RollbackTargetsClean'
    BY <2>2 DEF RollbackTargetsClean
  <2> QED
    BY <2>1, <2>3 DEF Targets, InLoop, InRound, Judged
<1>3. CASE LoopEnds
  BY <1>3, TargetsKept DEF gateVars, LoopEnds, OnlyThisRound, InLoop, InRound, Judged
<1>4. CASE BudgetBailOut
  BY <1>4, TargetsKept DEF gateVars, BudgetBailOut, OnlyThisRound, InLoop, InRound, Judged
<1>5. CASE BeginRound
  BY <1>5, TargetsKept DEF gateVars, BeginRound, OnlyThisRound, InLoop, InRound, Judged
<1>6. CASE AgentTurn
  BY <1>6, TargetsKept DEF gateVars, AgentTurn, OnlyThisRound, InLoop, InRound, Judged
<1>7. CASE RateLimited
  BY <1>7, TargetsKept DEF gateVars, RateLimited, Break, OnlyThisRound, InLoop, InRound,
     Judged
<1>8. CASE HangBailOut
  BY <1>8, TargetsKept DEF gateVars, HangBailOut, Break, OnlyThisRound, InLoop, InRound,
     Judged
<1>9. CASE GitRecoveryOverCap
  BY <1>9, TargetsKept DEF gateVars, GitRecoveryOverCap, Break, AtCrosstalkGate, AtGitGate,
     OnlyThisRound, InLoop, InRound, Judged
<1>10. CASE ToolingDrift
  BY <1>10, TargetsKept DEF gateVars, ToolingDrift, Break, AtCrosstalkGate, AtGitGate,
     AtToolingGate, OnlyThisRound, InLoop, InRound, Judged
<1>11. CASE FrozenAuditFails
  BY <1>11, TargetsKept DEF gateVars, FrozenAuditFails, Break, AtCrosstalkGate, AtGitGate,
     AtToolingGate, AtSpecGate, AtFrozenGate, OnlyThisRound, InLoop, InRound,
     Judged
<1>12. CASE FrozenEditOverCap
  BY <1>12, TargetsKept DEF gateVars, FrozenEditOverCap, Break, AtCrosstalkGate, AtGitGate,
     AtToolingGate, AtSpecGate, AtFrozenGate, OnlyThisRound, InLoop, InRound,
     Judged
<1>13. CASE FrozenRevertFails
  BY <1>13, TargetsKept DEF gateVars, FrozenRevertFails, Break, AtCrosstalkGate, AtGitGate,
     AtToolingGate, AtSpecGate, AtFrozenGate, OnlyThisRound, InLoop, InRound,
     Judged
<1>14. CASE AxiomDrift
  BY <1>14, TargetsKept DEF gateVars, AxiomDrift, Break, AtCrosstalkGate, AtGitGate,
     AtToolingGate, AtSpecGate, AtFrozenGate, AtAxiomGate, OnlyThisRound, InLoop,
     InRound, Judged
<1>15. CASE ForbiddenConstruct
  BY <1>15, TargetsKept DEF gateVars, ForbiddenConstruct, Break, AtCrosstalkGate, AtGitGate,
     AtToolingGate, AtSpecGate, AtFrozenGate, AtAxiomGate, AtForbiddenGate,
     OnlyThisRound, InLoop, InRound, Judged
<1>16. CASE ProcessCrosstalk
  BY <1>16, TargetsKept, TaintsOnlyThisRound DEF gateVars, ProcessCrosstalk, Break,
     AtCrosstalkGate, OnlyThisRound, InLoop, InRound, Judged
<1>17. CASE SpecDriftOverCapEnds
  BY <1>17, TargetsKept, TaintsOnlyThisRound DEF gateVars, SpecDriftOverCapEnds, Break,
     AtCrosstalkGate, AtGitGate, AtToolingGate, AtSpecGate, OnlyThisRound, InLoop,
     InRound, Judged
<1>18. CASE SpecRestoreFails
  BY <1>18, TargetsKept, TaintsOnlyThisRound DEF gateVars, SpecRestoreFails, Break,
     AtCrosstalkGate, AtGitGate, AtToolingGate, AtSpecGate, OnlyThisRound, InLoop,
     InRound, Judged
<1>19. CASE GitRecovery
  BY <1>19, TargetsKept, TaintsOnlyThisRound DEF gateVars, GitRecovery, NextRound,
     AtCrosstalkGate, AtGitGate, OnlyThisRound, InLoop, InRound, Judged
<1>20. CASE FrozenEditRecovery
  BY <1>20, TargetsKept, TaintsOnlyThisRound DEF gateVars, FrozenEditRecovery, NextRound,
     AtCrosstalkGate, AtGitGate, AtToolingGate, AtSpecGate, AtFrozenGate,
     OnlyThisRound, InLoop, InRound, Judged
<1>21. CASE SpecDriftRecovery
  <2>1. OnlyThisRound(snaps, snaps')
    BY <1>21 DEF SpecDriftRecovery, OnlyThisRound, TypeInv, TypeOK, SnapsType
  <2> QED
    BY <1>21, <2>1, TargetsKept, TaintsOnlyThisRound DEF gateVars, SpecDriftRecovery,
       NextRound, AtCrosstalkGate, AtGitGate, AtToolingGate, AtSpecGate, InLoop,
       InRound, Judged
<1>22. CASE NoResultExit
  <2>1. OnlyThisRound(results, results')
    BY <1>22 DEF NoResultExit, OnlyThisRound, TypeInv, TypeOK, ResultsType
  <2> QED
    BY <1>22, <2>1, TargetsKept DEF gateVars, NoResultExit, Break, OnlyThisRound, InLoop, InRound,
                                  Judged
<1>23. CASE GateRound
  <2>1. pc = "post" /\ round \in 0..MaxRounds
    BY <1>23 DEF GateRound, TypeInv, TypeOK, Standing, InRound, ControlType
  <2>2. snaps' = [snaps EXCEPT ![round] = tree] /\ snaps'[round] = tree
    BY <1>23, <2>1 DEF GateRound, TypeInv, TypeOK, SnapsType
  <2>3. OnlyThisRound(snaps, snaps')
    BY <2>2 DEF OnlyThisRound, TypeInv, TypeOK, SnapsType
  <2>5. unheard \subseteq unheard'
    BY <1>23 DEF GateRound
  <2>4. OnlyThisRound(results, results')
    BY <1>23 DEF GateRound, Record, OnlyThisRound, TypeInv, TypeOK, ResultsType
  <2> QED
    BY <1>23, <2>1, <2>2, <2>3, <2>4, <2>5, TargetsKept DEF gateVars, GateRound, files, InLoop, InRound
<1>24. CASE SessionControl
  <2>1. pc \in Judged /\ pc' = "integrity"
        /\ UNCHANGED <<round, tree, snaps, results, targets, unheard>>
    BY <1>24 DEF SessionControl, Judged, files, gateVars
  <2>2. snaps'[round'] = tree'
    BY <2>1 DEF Targets
  <2> QED
    BY <2>1, <2>2, TargetsKept DEF gateVars, OnlyThisRound, InLoop, InRound, Judged
<1>25. CASE FalseContract
  <2>1. pc \in Judged /\ AtClaim
    BY <1>25 DEF FalseContract, AtCrosstalkGate, AtGitGate, AtToolingGate,
       AtSpecGate, AtFrozenGate, AtAxiomGate, AtForbiddenGate, AtClaim, Judged
  <2>2. PICK label \in {"FALSE_CONTRACT", "NEEDS_DECOMP"} :
         results' = [results EXCEPT ![round].reason = label] /\ Break(label)
    BY <1>25 DEF FalseContract
  <2>3. OnlyThisRound(results, results')
    BY <2>2 DEF OnlyThisRound, TypeInv, TypeOK, ResultsType
  <2>4. round \in 0..MaxRounds /\ results[round] \in RoundResult
    BY <2>1, JudgedIsLast
  <2>5. results'[round] = [results[round] EXCEPT !.reason = label]
    BY <2>2, <2>4 DEF TypeInv, TypeOK, ResultsType
  <2>6. label \in LoopReasons
    BY ReasonTypes DEF AgentClaims
  <2>7. results'[round] \in RoundResult /\ results'[round].okay = results[round].okay
    BY <2>4, <2>5, <2>6 DEF RoundResult
  <2>8. results'[round] # None
    BY <2>7, NoneAssumption
  <2> QED
    BY <1>25, <2>1, <2>2, <2>3, <2>6, <2>7, <2>8, TargetsMarked DEF gateVars, FalseContract
<1>26. CASE ClaimAccepted
  <2>1. pc \in Judged /\ AtClaim
    BY <1>26 DEF ClaimAccepted, AtCrosstalkGate, AtGitGate, AtToolingGate,
       AtSpecGate, AtFrozenGate, AtAxiomGate, AtForbiddenGate, AtClaim, Judged
  <2>2. results[round] # None
    BY <2>1, JudgedIsLast, NoneAssumption
  <2>3. turn.claim \in LoopReasons
    BY ReasonTypes DEF TypeInv, TypeOK, StreamsType, Turn
  <2> QED
    BY <1>26, <2>1, <2>2, <2>3, TargetsMarked DEF gateVars, ClaimAccepted, OnlyThisRound
<1>27. CASE PlateauStop
  <2>1. pc \in Judged /\ AtClaim
    BY <1>27 DEF PlateauStop, NothingClaimed, AtCrosstalkGate, AtGitGate,
       AtToolingGate, AtSpecGate, AtFrozenGate, AtAxiomGate, AtForbiddenGate,
       AtClaim, Judged
  <2>2. results[round] # None
    BY <2>1, JudgedIsLast, NoneAssumption
  <2>3. "LIMIT" \in LoopReasons
    BY ReasonTypes DEF AgentClaims
  <2> QED
    BY <1>27, <2>1, <2>2, <2>3, TargetsMarked DEF gateVars, PlateauStop, OnlyThisRound
<1>28. CASE KeepGoing
  <2>1. pc \in Judged /\ AtClaim
    BY <1>28 DEF KeepGoing, NothingClaimed, AtCrosstalkGate, AtGitGate,
       AtToolingGate, AtSpecGate, AtFrozenGate, AtAxiomGate, AtForbiddenGate,
       AtClaim, Judged
  <2>2. results[round] # None
    BY <2>1, JudgedIsLast, NoneAssumption
  <2> QED
    BY <1>28, <2>1, <2>2, TargetsMarked DEF gateVars, KeepGoing, OnlyThisRound
<1>29. CASE CloseTask
  BY <1>29, TargetsQuiet DEF gateVars, CloseTask, InLoop, InRound
<1>30. CASE WriteReceipt
  BY <1>30, TargetsQuiet DEF gateVars, WriteReceipt, Write, InLoop, InRound
<1>31. CASE WriteResult
  BY <1>31, TargetsQuiet DEF gateVars, WriteResult, Write, InLoop, InRound
<1>32. CASE WriteBrief
  BY <1>32, TargetsQuiet DEF gateVars, WriteBrief, Write, InLoop, InRound
<1>33. CASE WriteFailure
  BY <1>33, TargetsQuiet DEF gateVars, WriteFailure, Write, InLoop, InRound
<1>34. CASE WriteRegistry
  BY <1>34, TargetsQuiet DEF gateVars, WriteRegistry, Write, InLoop, InRound
<1>35. CASE Crash
  BY <1>35, TargetsQuiet DEF gateVars, Crash, InLoop, InRound
<1>36. CASE UNCHANGED vars
  <2>1. UNCHANGED <<pc, round, tree, snaps, results, unheard, lastGood, lastClean>>
    BY <1>36 DEF vars, files, gateVars, targets
  <2> QED
    BY <2>1 DEF Targets, RollbackTargetsClean, IntegrityClean
<1> QED
  BY <1>1, <1>2, <1>3, <1>4, <1>5, <1>6, <1>7, <1>8, <1>9, <1>10, <1>11,
     <1>12, <1>13, <1>14, <1>15, <1>16, <1>17, <1>18, <1>19, <1>20, <1>21,
     <1>22, <1>23, <1>24, <1>25, <1>26, <1>27, <1>28, <1>29, <1>30, <1>31,
     <1>32, <1>33, <1>34, <1>35, <1>36
     DEF Next, Step, Round, Gate, Claim, Close

------------------------------------------------------------------------------
(* The decision. *)

(* A misuse stays a misuse through the fold, and through the final reason. *)
LEMMA MisuseStays ==
  ASSUME NEW reason \in IntegrityRejections, NEW facts, NEW done
  PROVE  FinalEndReason(done, FoldedReason(reason, facts)) \in IntegrityRejections
<1>1. FoldedReason(reason, facts) \in IntegrityRejections
  BY DEF FoldedReason, Override, IntegrityRejections
<1> QED
  BY <1>1 DEF FinalEndReason

(* A COMPLETE is earned by evidence, and by an honest end of the loop. *)
LEMMA CompleteIsEarned ==
  ASSUME NEW reason \in LoopReasons, NEW facts, NEW done \in BOOLEAN,
         FinalEndReason(done, FoldedReason(reason, facts)) = "COMPLETE"
  PROVE  done /\ reason \notin InfraReasons \cup IntegrityRejections
<1>1. "COMPLETE" \notin InfraReasons \cup IntegrityRejections
                          \cup {"SIBLING_VERUS_FAIL", "FALSE_CONTRACT"}
  BY DEF InfraReasons, IntegrityRejections
<1>2. FoldedReason(reason, facts) \notin InfraReasons \cup IntegrityRejections
                                         \cup {"SIBLING_VERUS_FAIL", "FALSE_CONTRACT"}
  BY <1>1 DEF FinalEndReason
<1>3. done
  BY <1>2 DEF FinalEndReason
<1>4. ASSUME reason \in IntegrityRejections PROVE FALSE
  BY <1>1, <1>4, MisuseStays
<1>5. ASSUME reason \in InfraReasons PROVE FALSE
  <2>1. FoldedReason(reason, facts) \in InfraReasons \cup IntegrityRejections
                                        \cup {"SIBLING_VERUS_FAIL"}
    BY <1>5 DEF FoldedReason, Override, InfraReasons, IntegrityRejections
  <2> QED
    BY <1>2, <2>1
<1> QED
  BY <1>3, <1>4, <1>5

LEMMA DecisionInit == Init => Decision
BY DEF Init, Decision, AcceptedIsHonest, RejectedIsRestored, MisuseIsRejected,
       HaltIsNeverPromoted, Decided, Accepted, Closed

(* Before the final gate nothing is decided. *)
LEMMA DecisionOpen ==
  ASSUME TypeInv', pc' \in Undecided
  PROVE  Decision'
<1>1. outcome' = None /\ ~artifacts'.registered
  BY DEF TypeInv, Standing
<1> QED
  BY <1>1 DEF Decision, AcceptedIsHonest, RejectedIsRestored, MisuseIsRejected,
              HaltIsNeverPromoted, Decided, Accepted, Closed

(* After it, nothing the decision speaks of changes any more. *)
LEMMA DecisionStands ==
  ASSUME Decision, UNCHANGED <<tree, stray, tooling, unheard, lastClean, endReason, outcome>>,
         snaps' = snaps \/ outcome = None,
         artifacts'.registered => artifacts.registered \/ Accepted
  PROVE  Decision'
<1>1. Closed' = Closed /\ Accepted' = Accepted /\ (Closed => snaps' = snaps)
  BY DEF Closed, Accepted
<1>2. AcceptedIsHonest'
  BY <1>1 DEF Decision, AcceptedIsHonest, IntegrityClean
<1>3. RejectedIsRestored'
  BY <1>1 DEF Decision, RejectedIsRestored, IntegrityClean
<1>4. MisuseIsRejected'
  BY <1>1 DEF Decision, MisuseIsRejected
<1>5. HaltIsNeverPromoted'
  BY <1>1 DEF Decision, HaltIsNeverPromoted
<1>6. Decided'
  BY <1>1 DEF Decision, Decided
<1> QED
  BY <1>2, <1>3, <1>4, <1>5, <1>6 DEF Decision

LEMMA DecisionCloses ==
  ASSUME TypeInv, Evidence, Targets, CloseTask
  PROVE  Decision'
<1>1. PICK err \in BOOLEAN : LET facts == FinalFacts(err)
            label == FinalEndReason(DoneForReal(facts), FoldedReason(endReason, facts))
        IN  /\ outcome' = [label |-> label, state |-> Disposition(label)]
            /\ tree' = IF Disposition(label) = "REJECTED_DRIFTED"
                       THEN Restored(RestorePoint) ELSE tree
  BY DEF CloseTask
<1> DEFINE facts == FinalFacts(err)
           done  == DoneForReal(facts)
           label == FinalEndReason(done, FoldedReason(endReason, facts))
<1>2. /\ pc = "fold" /\ endReason \in LoopReasons /\ tree \in Tree
      /\ UNCHANGED <<stray, tooling, snaps, unheard, lastClean, endReason, artifacts>>
      /\ ~artifacts.registered
  BY DEF CloseTask, gateVars, targets, TypeInv, TypeOK, EndingType, FilesType, Standing,
         Undecided
<1>3. outcome' = [label |-> label, state |-> Disposition(label)]
      /\ outcome'.label = label /\ outcome'.state = Disposition(label)
  BY <1>1
<1>4. label = "COMPLETE" => done /\ HonestEnd
  BY <1>2, CompleteIsEarned DEF HonestEnd, DoneForReal
<1>5. Disposition(label) = "ACCEPTED" => label = "COMPLETE"
  BY DEF Disposition
<1>6. AcceptedIsHonest'
  <2> SUFFICES ASSUME Disposition(label) = "ACCEPTED"
               PROVE  /\ ~tree'.admits /\ ~tooling /\ IntegrityClean(tree', lastClean)
                      /\ WholeCrate => ~stray
                      /\ ~stray => tree'.proved
    BY <1>2, <1>3 DEF AcceptedIsHonest, Accepted, IntegrityClean
  <2>1. tree' = tree
    BY <1>1
  <2>2. done /\ HonestEnd
    BY <1>4, <1>5
  <2>3. /\ LastOkay /\ ~tree.admits /\ ~tooling
        /\ "axiom" \notin tree.added /\ "forbidden" \notin tree.added
        /\ ~FrozenChanged
    BY <2>2 DEF DoneForReal, FinalFacts
  <2>4. Sound /\ IntegrityClean(tree, lastClean)
    BY <1>2, <2>2, <2>3 DEF Evidence, LastSound
  <2> QED
    BY <2>1, <2>3, <2>4 DEF Sound, FrozenChanged
<1>7. RejectedIsRestored'
  <2> SUFFICES ASSUME Disposition(label) = "REJECTED_DRIFTED"
               PROVE  tree' = snaps[lastClean] /\ IntegrityClean(tree', lastClean)
    BY <1>2, <1>3 DEF RejectedIsRestored, IntegrityClean
  <2>1. tree' = Restored(lastClean)
    BY <1>1 DEF RestorePoint
  <2>2. lastClean \in 0..MaxRounds
    BY DEF TypeInv, TypeOK, TargetsType
  <2>3. snaps[lastClean] # None /\ IntegrityClean(snaps[lastClean], lastClean)
    BY <1>2, <2>2 DEF Targets, RollbackTargetsClean
  <2> QED
    BY <2>1, <2>3 DEF Restored
<1>8. MisuseIsRejected'
  <2>1. endReason \in IntegrityRejections => label \in IntegrityRejections
    BY MisuseStays
  <2> QED
    BY <1>2, <1>3, <2>1 DEF MisuseIsRejected
<1>9. HaltIsNeverPromoted'
  <2>1. endReason \in InfraReasons => Disposition(label) # "ACCEPTED"
    BY <1>4, <1>5 DEF HonestEnd
  <2> QED
    BY <1>2, <1>3, <2>1 DEF HaltIsNeverPromoted, Accepted
<1>10. Decided'
  BY <1>3 DEF Decided
<1> QED
  BY <1>6, <1>7, <1>8, <1>9, <1>10 DEF Decision

LEMMA StillOpen ==
  ASSUME Setup \/ Round \/ Gate \/ Claim
  PROVE  pc' \in Undecided
<1>1. CASE Setup
  BY <1>1 DEF Setup, Break, NextRound, Undecided
<1>2. CASE LoopEnds
  BY <1>2 DEF LoopEnds, Break, NextRound, Undecided
<1>3. CASE BudgetBailOut
  BY <1>3 DEF BudgetBailOut, Break, NextRound, Undecided
<1>4. CASE BeginRound
  BY <1>4 DEF BeginRound, Break, NextRound, Undecided
<1>5. CASE AgentTurn
  BY <1>5 DEF AgentTurn, Break, NextRound, Undecided
<1>6. CASE RateLimited
  BY <1>6 DEF RateLimited, Break, NextRound, Undecided
<1>7. CASE NoResultExit
  BY <1>7 DEF NoResultExit, Break, NextRound, Undecided
<1>8. CASE GateRound
  BY <1>8 DEF GateRound, Break, NextRound, Undecided
<1>9. CASE HangBailOut
  BY <1>9 DEF HangBailOut, Break, NextRound, Undecided
<1>10. CASE SessionControl
  BY <1>10 DEF SessionControl, Break, NextRound, Undecided
<1>11. CASE ProcessCrosstalk
  BY <1>11 DEF ProcessCrosstalk, Break, NextRound, Undecided
<1>12. CASE GitRecoveryOverCap
  BY <1>12 DEF GitRecoveryOverCap, Break, NextRound, Undecided
<1>13. CASE GitRecovery
  BY <1>13 DEF GitRecovery, Break, NextRound, Undecided
<1>14. CASE ToolingDrift
  BY <1>14 DEF ToolingDrift, Break, NextRound, Undecided
<1>15. CASE SpecDriftOverCapEnds
  BY <1>15 DEF SpecDriftOverCapEnds, Break, NextRound, Undecided
<1>16. CASE SpecRestoreFails
  BY <1>16 DEF SpecRestoreFails, Break, NextRound, Undecided
<1>17. CASE SpecDriftRecovery
  BY <1>17 DEF SpecDriftRecovery, Break, NextRound, Undecided
<1>18. CASE FrozenAuditFails
  BY <1>18 DEF FrozenAuditFails, Break, NextRound, Undecided
<1>19. CASE FrozenEditOverCap
  BY <1>19 DEF FrozenEditOverCap, Break, NextRound, Undecided
<1>20. CASE FrozenRevertFails
  BY <1>20 DEF FrozenRevertFails, Break, NextRound, Undecided
<1>21. CASE FrozenEditRecovery
  BY <1>21 DEF FrozenEditRecovery, Break, NextRound, Undecided
<1>22. CASE AxiomDrift
  BY <1>22 DEF AxiomDrift, Break, NextRound, Undecided
<1>23. CASE ForbiddenConstruct
  BY <1>23 DEF ForbiddenConstruct, Break, NextRound, Undecided
<1>24. CASE FalseContract
  BY <1>24 DEF FalseContract, Break, NextRound, Undecided
<1>25. CASE ClaimAccepted
  BY <1>25 DEF ClaimAccepted, Break, NextRound, Undecided
<1>26. CASE PlateauStop
  BY <1>26 DEF PlateauStop, Break, NextRound, Undecided
<1>27. CASE KeepGoing
  BY <1>27 DEF KeepGoing, Break, NextRound, Undecided
<1> QED
  BY <1>1, <1>2, <1>3, <1>4, <1>5, <1>6, <1>7, <1>8, <1>9, <1>10, <1>11,
     <1>12, <1>13, <1>14, <1>15, <1>16, <1>17, <1>18, <1>19, <1>20, <1>21,
     <1>22, <1>23, <1>24, <1>25, <1>26, <1>27
     DEF Round, Gate, Claim

LEMMA DecisionStep ==
  TypeInv /\ TypeInv' /\ Evidence /\ Targets /\ Decision /\ [Next]_vars => Decision'
<1> SUFFICES ASSUME TypeInv, TypeInv', Evidence, Targets, Decision, [Next]_vars
             PROVE  Decision'
  OBVIOUS
<1>1. CASE Setup \/ Round \/ Gate \/ Claim
  BY <1>1, StillOpen, DecisionOpen
<1>2. CASE SetupFails
  <2>1. artifacts'.registered = artifacts.registered
    BY <1>2, SetupEnds DEF TypeInv, TypeOK, EndingType, Artifacts
  <2>2. outcome = None
    BY <1>2, SetupEnds DEF TypeInv, Standing, Undecided
  <2> QED
    BY <1>2, <2>1, <2>2, SetupEnds, DecisionStands DEF files, gateVars, targets
<1>3. CASE CloseTask
  BY <1>3, DecisionCloses
<1>4. CASE WriteReceipt \/ WriteResult \/ WriteBrief \/ WriteFailure
  <2>1. artifacts'.registered = artifacts.registered
    BY <1>4 DEF WriteReceipt, WriteResult, WriteBrief, WriteFailure, Write, TypeInv,
                TypeOK, EndingType, Artifacts
  <2>2. UNCHANGED <<tree, stray, tooling, unheard, snaps, lastClean, endReason, outcome>>
    BY <1>4 DEF WriteReceipt, WriteResult, WriteBrief, WriteFailure, Write, files, gateVars,
                targets
  <2> QED
    BY <2>1, <2>2, DecisionStands
<1>5. CASE WriteRegistry
  <2>1. artifacts'.registered => Success
    BY <1>5 DEF WriteRegistry, Write, TypeInv, TypeOK, EndingType, Artifacts
  <2>2. Closed
    BY <1>5, NoneAssumption DEF WriteRegistry, Write, TypeInv, Standing, Closed
  <2>3. Success => Accepted
    BY <2>2 DEF Success, Accepted, Decision, Decided, Disposition, IntegrityRejections
  <2> QED
    BY <1>5, <2>1, <2>3, DecisionStands DEF WriteRegistry, Write, files, gateVars,
       targets
<1>6. CASE Crash
  BY <1>6, DecisionStands DEF Crash, files, gateVars, targets, ending
<1>7. CASE UNCHANGED vars
  BY <1>7, DecisionStands DEF vars, files, gateVars, targets, ending
<1> QED
  BY <1>1, <1>2, <1>3, <1>4, <1>5, <1>6, <1>7 DEF Next, Step, Close

------------------------------------------------------------------------------
(* The artifacts. *)

LEMMA WrittenInit == Init => Written
BY DEF Init, Written, ArtifactsAgree

(* The loop and the gate write nothing. *)
LEMMA WrittenOpen ==
  ASSUME TypeInv, Written, pc \in Undecided, UNCHANGED artifacts,
         pc' \in Undecided \cup {"receipt"}
  PROVE  Written'
BY DEF Written, ArtifactsAgree, Undecided

LEMMA OpenWritesNothing ==
  ASSUME Setup \/ Round \/ Gate \/ Claim
  PROVE  pc \in Undecided /\ UNCHANGED artifacts
<1>1. CASE Setup
  BY <1>1 DEF Setup, Break, NextRound, ending, Undecided
<1>2. CASE LoopEnds
  BY <1>2 DEF LoopEnds, Break, NextRound, ending, Undecided
<1>3. CASE BudgetBailOut
  BY <1>3 DEF BudgetBailOut, Break, NextRound, ending, Undecided
<1>4. CASE BeginRound
  BY <1>4 DEF BeginRound, Break, NextRound, ending, Undecided
<1>5. CASE AgentTurn
  BY <1>5 DEF AgentTurn, Break, NextRound, ending, Undecided
<1>6. CASE RateLimited
  BY <1>6 DEF RateLimited, Break, NextRound, ending, Undecided
<1>7. CASE NoResultExit
  BY <1>7 DEF NoResultExit, Break, NextRound, ending, Undecided
<1>8. CASE GateRound
  BY <1>8 DEF GateRound, Break, NextRound, ending, Undecided
<1>9. CASE HangBailOut
  BY <1>9 DEF HangBailOut, Break, NextRound, ending, Undecided
<1>10. CASE SessionControl
  BY <1>10 DEF SessionControl, Break, NextRound, ending, Undecided
<1>11. CASE ProcessCrosstalk
  BY <1>11 DEF ProcessCrosstalk, Break, NextRound, ending, Undecided,
     AtCrosstalkGate
<1>12. CASE GitRecoveryOverCap
  BY <1>12 DEF GitRecoveryOverCap, Break, NextRound, ending, Undecided,
     AtCrosstalkGate, AtGitGate
<1>13. CASE GitRecovery
  BY <1>13 DEF GitRecovery, Break, NextRound, ending, Undecided, AtCrosstalkGate,
     AtGitGate
<1>14. CASE ToolingDrift
  BY <1>14 DEF ToolingDrift, Break, NextRound, ending, Undecided, AtCrosstalkGate,
     AtGitGate, AtToolingGate
<1>15. CASE SpecDriftOverCapEnds
  BY <1>15 DEF SpecDriftOverCapEnds, Break, NextRound, ending, Undecided,
     AtCrosstalkGate, AtGitGate, AtToolingGate, AtSpecGate
<1>16. CASE SpecRestoreFails
  BY <1>16 DEF SpecRestoreFails, Break, NextRound, ending, Undecided,
     AtCrosstalkGate, AtGitGate, AtToolingGate, AtSpecGate
<1>17. CASE SpecDriftRecovery
  BY <1>17 DEF SpecDriftRecovery, Break, NextRound, ending, Undecided,
     AtCrosstalkGate, AtGitGate, AtToolingGate, AtSpecGate
<1>18. CASE FrozenAuditFails
  BY <1>18 DEF FrozenAuditFails, Break, NextRound, ending, Undecided,
     AtCrosstalkGate, AtGitGate, AtToolingGate, AtSpecGate, AtFrozenGate
<1>19. CASE FrozenEditOverCap
  BY <1>19 DEF FrozenEditOverCap, Break, NextRound, ending, Undecided,
     AtCrosstalkGate, AtGitGate, AtToolingGate, AtSpecGate, AtFrozenGate
<1>20. CASE FrozenRevertFails
  BY <1>20 DEF FrozenRevertFails, Break, NextRound, ending, Undecided,
     AtCrosstalkGate, AtGitGate, AtToolingGate, AtSpecGate, AtFrozenGate
<1>21. CASE FrozenEditRecovery
  BY <1>21 DEF FrozenEditRecovery, Break, NextRound, ending, Undecided,
     AtCrosstalkGate, AtGitGate, AtToolingGate, AtSpecGate, AtFrozenGate
<1>22. CASE AxiomDrift
  BY <1>22 DEF AxiomDrift, Break, NextRound, ending, Undecided, AtCrosstalkGate,
     AtGitGate, AtToolingGate, AtSpecGate, AtFrozenGate, AtAxiomGate
<1>23. CASE ForbiddenConstruct
  BY <1>23 DEF ForbiddenConstruct, Break, NextRound, ending, Undecided,
     AtCrosstalkGate, AtGitGate, AtToolingGate, AtSpecGate, AtFrozenGate,
     AtAxiomGate, AtForbiddenGate
<1>24. CASE FalseContract
  BY <1>24 DEF FalseContract, Break, NextRound, ending, Undecided,
     AtCrosstalkGate, AtGitGate, AtToolingGate, AtSpecGate, AtFrozenGate,
     AtAxiomGate, AtForbiddenGate, AtClaim
<1>25. CASE ClaimAccepted
  BY <1>25 DEF ClaimAccepted, Break, NextRound, ending, Undecided,
     AtCrosstalkGate, AtGitGate, AtToolingGate, AtSpecGate, AtFrozenGate,
     AtAxiomGate, AtForbiddenGate, AtClaim
<1>26. CASE PlateauStop
  BY <1>26 DEF PlateauStop, Break, NextRound, ending, Undecided, AtCrosstalkGate,
     AtGitGate, AtToolingGate, AtSpecGate, AtFrozenGate, AtAxiomGate,
     AtForbiddenGate, AtClaim, NothingClaimed
<1>27. CASE KeepGoing
  BY <1>27 DEF KeepGoing, Break, NextRound, ending, Undecided, AtCrosstalkGate,
     AtGitGate, AtToolingGate, AtSpecGate, AtFrozenGate, AtAxiomGate,
     AtForbiddenGate, AtClaim, NothingClaimed
<1> QED
  BY <1>1, <1>2, <1>3, <1>4, <1>5, <1>6, <1>7, <1>8, <1>9, <1>10, <1>11,
     <1>12, <1>13, <1>14, <1>15, <1>16, <1>17, <1>18, <1>19, <1>20, <1>21,
     <1>22, <1>23, <1>24, <1>25, <1>26, <1>27
     DEF Round, Gate, Claim

LEMMA WrittenStep ==
  TypeInv /\ Decision /\ Written /\ [Next]_vars => Written'
<1> SUFFICES ASSUME TypeInv, Decision, Written, [Next]_vars PROVE Written'
  OBVIOUS
<1>0. artifacts \in Artifacts /\ (outcome \in Outcome => outcome # None)
  BY NoneAssumption DEF TypeInv, TypeOK, EndingType
<1>1. CASE Setup \/ Round \/ Gate \/ Claim
  BY <1>1, StillOpen, OpenWritesNothing, WrittenOpen
<1>2. CASE SetupFails
  BY <1>0, <1>2, SetupEnds DEF Written, ArtifactsAgree, Artifacts, Undecided
<1>3. CASE CloseTask
  BY <1>3, WrittenOpen DEF CloseTask, Undecided
<1>4. CASE WriteReceipt
  <2>1. pc = "receipt" /\ pc' = "result" /\ UNCHANGED outcome
    BY <1>4 DEF WriteReceipt, Write
  <2>2. outcome \in Outcome /\ tree \in Tree /\ stray \in BOOLEAN
        /\ lastGate \in GateReceipt \cup {None}
    BY <2>1 DEF TypeInv, TypeOK, Standing, FilesType, GateType
  <2> DEFINE receipt == [outcome |-> outcome, tree |-> tree, stray |-> stray,
                         gate |-> lastGate]
  <2>3. receipt \in Receipt /\ receipt # None /\ receipt.outcome = outcome
    BY <2>2, NoneAssumption DEF Receipt
  <2>4. artifacts'.receipt = receipt /\ artifacts'.memory = artifacts.memory
        /\ artifacts'.registered = artifacts.registered
    BY <1>0, <1>4 DEF WriteReceipt, Write, Artifacts
  <2>5. "failure" \notin artifacts'.memory /\ ~artifacts'.registered
    BY <2>1, <2>4 DEF Written
  <2> QED
    BY <2>1, <2>3, <2>4, <2>5 DEF Written, ArtifactsAgree, Undecided
<1>5. CASE WriteResult
  BY <1>0, <1>5 DEF WriteResult, Write, Written, ArtifactsAgree, Artifacts, Undecided
<1>6. CASE WriteBrief
  BY <1>0, <1>6 DEF WriteBrief, Write, Written, ArtifactsAgree, Artifacts, Undecided
<1>7. CASE WriteFailure
  <2>1. pc = "failure" /\ pc' = "registry" /\ UNCHANGED outcome
    BY <1>7 DEF WriteFailure, Write
  <2>2. outcome # None /\ ~artifacts.registered /\ artifacts.receipt # None
        /\ artifacts.receipt.outcome = outcome /\ artifacts.result = outcome.label
    BY <1>0, <2>1 DEF Written, TypeInv, Standing
  <2>3. artifacts'.receipt = artifacts.receipt /\ artifacts'.result = artifacts.result
        /\ artifacts'.registered = artifacts.registered
        /\ ("failure" \in artifacts'.memory => ~Success)
    BY <1>0, <1>7, <2>1 DEF WriteFailure, Write, Artifacts, Written
  <2>4. ~Success => outcome.state # "ACCEPTED"
    BY <2>2 DEF Success, Decision, Decided, Closed, Disposition
  <2> QED
    BY <2>1, <2>2, <2>3, <2>4 DEF Written, ArtifactsAgree, Undecided
<1>8. CASE WriteRegistry
  <2>1. pc = "registry" /\ pc' = "done" /\ UNCHANGED outcome
    BY <1>8 DEF WriteRegistry, Write
  <2>2. outcome # None /\ artifacts.receipt # None
        /\ artifacts.receipt.outcome = outcome /\ artifacts.result = outcome.label
    BY <1>0, <2>1 DEF Written, TypeInv, Standing
  <2>3. artifacts'.receipt = artifacts.receipt /\ artifacts'.result = artifacts.result
        /\ artifacts'.memory = artifacts.memory /\ artifacts'.registered = Success
    BY <1>0, <1>8 DEF WriteRegistry, Write, Artifacts
  <2>4. Success => outcome.state = "ACCEPTED"
    BY <2>2 DEF Success, Decision, Decided, Closed, Disposition, IntegrityRejections
  <2> QED
    BY <2>1, <2>2, <2>3, <2>4 DEF Written, ArtifactsAgree, Undecided, Success
<1>9. CASE Crash
  BY <1>9 DEF Crash, Written, ArtifactsAgree, Undecided, ending
<1>10. CASE UNCHANGED vars
  BY <1>10 DEF vars, Written, ArtifactsAgree, ending
<1> QED
  BY <1>1, <1>2, <1>3, <1>4, <1>5, <1>6, <1>7, <1>8, <1>9, <1>10 DEF Next, Step, Close

------------------------------------------------------------------------------
(* The theorems. *)

(* The types and the three layers together are inductive. *)
Inv == TypeInv /\ Evidence /\ Targets /\ Decision /\ Written

LEMMA InvariantHolds == Spec => []Inv
<1>1. Init => Inv
  BY TypeInit, EvidenceInit, TargetsInit, DecisionInit, WrittenInit DEF Inv
<1>2. Inv /\ [Next]_vars => Inv'
  BY TypeStep, EvidenceStep, TargetsStep, DecisionStep, WrittenStep DEF Inv
<1> QED
  BY <1>1, <1>2, PTL DEF Spec

(* The harness never rolls back to a tainted snapshot. *)
THEOREM RollbackIsSafe == Spec => []RollbackTargetsClean
<1>1. Inv => RollbackTargetsClean
  BY DEF Inv, Targets
<1> QED
  BY <1>1, InvariantHolds, PTL

(* What the final gate accepts is done, drifted from nothing, and proved. *)
THEOREM AcceptanceIsHonest == Spec => []AcceptedIsHonest
<1>1. Inv => AcceptedIsHonest
  BY DEF Inv, Decision
<1> QED
  BY <1>1, InvariantHolds, PTL

(* What the final gate rejects is replaced by its last clean files. *)
THEOREM RejectionRestores == Spec => []RejectedIsRestored
<1>1. Inv => RejectedIsRestored
  BY DEF Inv, Decision
<1> QED
  BY <1>1, InvariantHolds, PTL

(* A misuse that ended the loop is what the task ends with. *)
THEOREM MisuseIsKept == Spec => []MisuseIsRejected
<1>1. Inv => MisuseIsRejected
  BY DEF Inv, Decision
<1> QED
  BY <1>1, InvariantHolds, PTL

(* No halt of the infrastructure accepts or registers anything. *)
THEOREM HaltsDoNotPromote == Spec => []HaltIsNeverPromoted
<1>1. Inv => HaltIsNeverPromoted
  BY DEF Inv, Decision
<1> QED
  BY <1>1, InvariantHolds, PTL

(* Whenever the harness dies, the artifacts on disk agree. *)
THEOREM ArtifactsAlwaysAgree == Spec => []ArtifactsAgree
<1>1. Inv => ArtifactsAgree
  BY DEF Inv, Written
<1> QED
  BY <1>1, InvariantHolds, PTL
==============================================================================
