------------------------- MODULE AgentProcessProofs -------------------------
(***************************************************************************)
(* Safety of the agent's process, for any number of rounds and streams of  *)
(* any length.                                                             *)
(***************************************************************************)
EXTENDS AgentProcess, FiniteSetTheorems, WellFoundedInduction, TLAPS

(* The group of the round, and no other, may be alive; the handler knows   *)
(* an agent only while a round waits, cleans up or clears; a loop that     *)
(* goes on has met no reason to end; the first signal came no later than   *)
(* the round under way.                                                    *)
Published == liveProc => pc \in {"wait", "cleanup", "clear", "exited"}
Unjudged == pc \notin {"done", "exited"} => label = "none"
Marked == received => marked <= round

AgentInv ==
  /\ TypeOK /\ GroupDiesWithRound /\ Published /\ Unjudged /\ Marked
  /\ ResultIsNeverLost /\ InterruptedRoundHalts /\ SignalIsReported

------------------------------------------------------------------------------
(* A set of positions that is not empty has a last one. *)
LEMMA LastPosition ==
  ASSUME NEW n \in Nat, NEW S \in SUBSET (1 .. n), S # {}
  PROVE  Max(S) \in S
<1> DEFINE After(i) == (i + 1) .. n
           Tails == {After(i) : i \in S}
           Smaller == StrictSubsetOrdering(1 .. n)
<1>1. IsWellFoundedOn(Smaller, FiniteSubsetsOf(1 .. n))
  BY FS_Interval, FS_StrictSubsetOrderingWellFounded
<1>2. Tails \subseteq FiniteSubsetsOf(1 .. n) /\ Tails # {}
  <2>1. \A i \in S : After(i) \in SUBSET (1 .. n)
    OBVIOUS
  <2>2. FiniteSubsetsOf(1 .. n) = SUBSET (1 .. n)
    <3>1. IsFiniteSet(1 .. n)
      BY FS_Interval
    <3> QED BY <3>1, FS_FiniteSubsetsOfFinite, Zenon
  <2>3. \A i \in S : After(i) \in FiniteSubsetsOf(1 .. n)
    BY <2>1, <2>2, Zenon
  <2> HIDE DEF After
  <2> QED BY <2>3
<1>3. PICK s \in Tails : \A t \in Tails : ~(<<t, s>> \in Smaller)
  <2> HIDE DEF Smaller, Tails
  <2> QED BY <1>1, <1>2, WFMin
<1>4. PICK last \in S : s = After(last)
  OBVIOUS
<1>5. \A i \in S : last >= i
  <2> SUFFICES ASSUME NEW i \in S, ~(last >= i) PROVE FALSE
    OBVIOUS
  <2>1. After(i) \in SUBSET (1 .. n) /\ After(last) \in SUBSET (1 .. n)
    OBVIOUS
  <2>2. After(i) \subseteq After(last) /\ i \in After(last) /\ i \notin After(i)
    OBVIOUS
  <2>3. <<After(i), s>> \in Smaller
    BY <1>4, <2>1, <2>2 DEF StrictSubsetOrdering
  <2> QED BY <1>3, <2>3
<1> QED BY <1>5 DEF Max

(* What a stream is classified as.  A halt is never read out of a stream   *)
(* with a terminal event, and always out of one that a signal cut short of *)
(* its first.                                                              *)
LEMMA ResultIsTerminal ==
  ASSUME TypeOK, Results # {}
  PROVE  Result \in {"done", "limited"}
<1>1. Len(stream) \in Nat /\ Results \in SUBSET (1 .. Len(stream))
  BY DEF TypeOK, Results
<1>2. Max(Results) \in Results
  BY <1>1, LastPosition
<1> QED BY <1>2 DEF Result, Results, Terminal

LEMMA Classified ==
  ASSUME TypeOK
  PROVE  /\ Classify \in Halts \cup {"none", "RATE_LIMITED"}
         /\ Classify \in Halts => Results = {}
         /\ received /\ Results = {} => Classify \in Halts
<1>1. Results # {} => Classify \notin Halts
  BY ResultIsTerminal, SMT DEF Classify, Halts
<1>2. Results = {} => Classify = NoResultReason
  BY AgentProcessAssumption DEF Classify, Result
<1>3. received => NoResultReason \in Halts
  BY DEF NoResultReason, Excused, Halts
<1>4. Classify \in Halts \cup {"none", "RATE_LIMITED"}
  BY SMT DEF Classify, NoResultReason, Halts
<1> QED BY <1>1, <1>2, <1>3, <1>4

------------------------------------------------------------------------------
LEMMA InitInv == Init => AgentInv
<1> SUFFICES ASSUME Init PROVE AgentInv
  OBVIOUS
<1>1. TypeOK
  <2>1. /\ groups \in [Rounds -> SUBSET Members]
        /\ stream \in Seq(Events) /\ Len(stream) <= MaxEvents
    BY AgentProcessAssumption DEF Init
  <2>2. pc \in Stages /\ round \in 0 .. MaxRounds /\ marked \in 0 .. MaxRounds
    BY AgentProcessAssumption DEF Init, Stages
  <2> QED BY <2>1, <2>2 DEF Init, TypeOK
<1>2. GroupDiesWithRound /\ Published /\ Unjudged /\ Marked
  BY DEF Init, GroupDiesWithRound, Published, Unjudged, Marked
<1>3. ResultIsNeverLost /\ InterruptedRoundHalts /\ SignalIsReported
  BY DEF Init, ResultIsNeverLost, InterruptedRoundHalts, SignalIsReported
<1> QED BY <1>1, <1>2, <1>3 DEF AgentInv

LEMMA TypeStep == AgentInv /\ [Next]_vars => TypeOK'
<1> SUFFICES ASSUME AgentInv, [Next]_vars PROVE TypeOK'
  OBVIOUS
<1> USE AgentProcessAssumption DEF AgentInv, TypeOK
<1>1. CASE UNCHANGED vars
  BY <1>1 DEF vars
<1>2. CASE Publish \/ Waited \/ Unpublish
  <2>1. /\ pc' \in Stages /\ liveProc' \in BOOLEAN
        /\ UNCHANGED <<round, received, groups, rc, stream, late, label, code, marked>>
    BY <1>2 DEF Publish, Waited, Unpublish, Stages
  <2> QED BY <2>1
<1>3. CASE Deadline
  BY <1>3 DEF Deadline
<1>4. CASE Exit
  BY <1>4 DEF Exit, Stages, Halts, ExitCode
<1>5. CASE Spawn
  <2>1. round' \in 0 .. MaxRounds /\ round' \in Rounds
    BY <1>5 DEF Spawn, RoundsLeft, Rounds
  <2>2. groups' \in [Rounds -> SUBSET Members]
    BY <1>5, <2>1 DEF Spawn, Members
  <2>3. stream' \in Seq(Events) /\ Len(stream') <= MaxEvents
    BY <1>5 DEF Spawn
  <2> QED BY <1>5, <2>1, <2>2, <2>3 DEF Spawn, Stages
<1>6. CASE Emit
  <2>1. PICK e \in Events : stream' = Append(stream, e)
    BY <1>6 DEF Emit
  <2>2. stream' \in Seq(Events) /\ Len(stream') <= MaxEvents
    BY <1>6, <2>1 DEF Emit
  <2> QED BY <1>6, <2>2 DEF Emit
<1>7. CASE Fork \/ AgentExits \/ DeadlineKill \/ Cleanup
  <2>1. groups' \in [Rounds -> SUBSET Members]
    BY <1>7 DEF Fork, AgentExits, DeadlineKill, Cleanup, KillGroup, Leftovers
  <2>2. /\ pc' \in Stages /\ rc' \in {None, "zero", "nonzero", "killed"}
        /\ UNCHANGED <<round, liveProc, received, stream, late, label, code, marked>>
    BY <1>7 DEF Fork, AgentExits, DeadlineKill, Cleanup, Stages
  <2> QED BY <2>1, <2>2
<1>8. CASE Read
  <2>1. Classify \in Halts \cup {"none", "RATE_LIMITED"}
    BY Classified
  <2> QED BY <1>8, <2>1 DEF Read, Stages
<1>9. CASE Conclude
  BY <1>9 DEF Conclude, Stages
<1>10. CASE SignalLive \/ SignalIdle
  <2>1. groups' \in [Rounds -> SUBSET Members] /\ rc' \in {None, "zero", "nonzero", "killed"}
    BY <1>10 DEF SignalLive, SignalIdle, KillGroup
  <2>2. marked' \in 0 .. MaxRounds /\ received' \in BOOLEAN
    BY <1>10 DEF SignalLive, SignalIdle, Mark
  <2>3. pc' \in Stages /\ code' \in {None, 0, 1, 42, 128}
    BY <1>10 DEF SignalLive, SignalIdle, Stages
  <2>4. UNCHANGED <<round, liveProc, stream, late, label>>
    BY <1>10 DEF SignalLive, SignalIdle
  <2> QED BY <2>1, <2>2, <2>3, <2>4
<1> QED BY <1>1, <1>2, <1>3, <1>4, <1>5, <1>6, <1>7, <1>8, <1>9, <1>10 DEF Next

LEMMA FlowStep ==
  AgentInv /\ [Next]_vars => GroupDiesWithRound' /\ Published' /\ Unjudged' /\ Marked'
<1> SUFFICES ASSUME AgentInv, [Next]_vars
             PROVE  GroupDiesWithRound' /\ Published' /\ Unjudged' /\ Marked'
  OBVIOUS
<1> USE AgentProcessAssumption
    DEF AgentInv, TypeOK, GroupDiesWithRound, Published, Unjudged, Marked, InRound
<1>1. CASE UNCHANGED vars
  BY <1>1 DEF vars
<1>2. CASE Publish \/ Deadline \/ Waited \/ Unpublish \/ Exit \/ Emit
  BY <1>2 DEF Publish, Deadline, Waited, Unpublish, Exit, Emit
<1>3. CASE Spawn
  <2>1. /\ pc = "loop" /\ pc' = "spawned" /\ round' = round + 1 /\ round' \in Rounds
        /\ groups' = [groups EXCEPT ![round'] = {"agent"}]
        /\ UNCHANGED <<liveProc, received, label, marked>>
    BY <1>3 DEF Spawn, RoundsLeft, Rounds
  <2>2. \A r \in Rounds : groups[r] = {}
    BY <2>1
  <2>3. GroupDiesWithRound'
    BY <2>1, <2>2
  <2>4. Published' /\ Unjudged'
    BY <2>1
  <2>5. Marked'
    BY <2>1
  <2> QED BY <2>3, <2>4, <2>5
<1>4. CASE Fork \/ AgentExits \/ DeadlineKill \/ Cleanup
  BY <1>4 DEF Fork, AgentExits, DeadlineKill, Cleanup, KillGroup, Leftovers, InGroup, Alive, Rounds
<1>5. CASE Read \/ Conclude
  BY <1>5 DEF Read, Conclude
<1>6. CASE SignalLive \/ SignalIdle
  BY <1>6 DEF SignalLive, SignalIdle, Mark, KillGroup, Rounds
<1> QED BY <1>1, <1>2, <1>3, <1>4, <1>5, <1>6 DEF Next

(* After a round was read its stream is still: nobody is left to write it. *)
LEMMA VerdictStep ==
  AgentInv /\ [Next]_vars => ResultIsNeverLost' /\ InterruptedRoundHalts'
<1> SUFFICES ASSUME AgentInv, [Next]_vars
             PROVE  ResultIsNeverLost' /\ InterruptedRoundHalts'
  OBVIOUS
<1> USE DEF AgentInv, ResultIsNeverLost, InterruptedRoundHalts, Results
<1>1. CASE UNCHANGED vars
  BY <1>1 DEF vars
<1>2. CASE Publish \/ Deadline \/ Waited \/ Unpublish \/ Exit
  BY <1>2 DEF Publish, Deadline, Waited, Unpublish, Exit, TypeOK
<1>3. CASE Spawn
  BY <1>3 DEF Spawn
<1>4. CASE Emit
  BY <1>4 DEF Emit, InGroup, Alive, GroupDiesWithRound, InRound, TypeOK, Rounds
<1>5. CASE Fork \/ AgentExits \/ DeadlineKill \/ Cleanup
  BY <1>5 DEF Fork, AgentExits, DeadlineKill, Cleanup
<1>6. CASE Read
  <2>1. /\ Classify \in Halts => Results = {}
        /\ received /\ Results = {} => Classify \in Halts
    BY Classified
  <2> QED BY <1>6, <2>1 DEF Read, Halts
<1>7. CASE Conclude
  BY <1>7 DEF Conclude, Unjudged, Halts
<1>8. CASE SignalLive \/ SignalIdle
  BY <1>8 DEF SignalLive, SignalIdle, Published
<1> QED BY <1>1, <1>2, <1>3, <1>4, <1>5, <1>6, <1>7, <1>8 DEF Next

LEMMA EndStep ==
  AgentInv /\ [Next]_vars => SignalIsReported'
<1> SUFFICES ASSUME AgentInv, [Next]_vars
             PROVE  SignalIsReported'
  OBVIOUS
<1> USE DEF AgentInv, SignalIsReported
<1>1. CASE UNCHANGED vars
  BY <1>1 DEF vars
<1>2. CASE Spawn \/ Publish \/ Deadline \/ Waited \/ DeadlineKill
  BY <1>2 DEF Spawn, Publish, Deadline, Waited, DeadlineKill
<1>3. CASE Emit \/ Fork \/ AgentExits
  BY <1>3 DEF Emit, Fork, AgentExits
<1>4. CASE Cleanup \/ Unpublish \/ Read \/ Conclude
  BY <1>4 DEF Cleanup, Unpublish, Read, Conclude
<1>5. CASE Exit \/ SignalLive \/ SignalIdle
  BY <1>5 DEF Exit, ExitCode, SignalLive, SignalIdle
<1> QED BY <1>1, <1>2, <1>3, <1>4, <1>5 DEF Next

LEMMA AgentInvHolds == Spec => []AgentInv
<1>1. AgentInv /\ [Next]_vars => AgentInv'
  BY TypeStep, FlowStep, VerdictStep, EndStep DEF AgentInv
<1> QED BY InitInv, <1>1, PTL DEF Spec

LEMMA AgentInvImplies ==
  AgentInv => /\ TypeOK /\ GroupDiesWithRound /\ ResultIsNeverLost
              /\ InterruptedRoundHalts /\ SignalIsReported
BY DEF AgentInv

(* The variables of run.py's supervision of its agent keep their types.    *)
THEOREM AgentTypeCorrect == Spec => []TypeOK
BY AgentInvHolds, AgentInvImplies, PTL

(* No process group outlives its round, unless a signal ended run.py       *)
(* inside that round.                                                      *)
THEOREM GroupsDie == Spec => []GroupDiesWithRound
BY AgentInvHolds, AgentInvImplies, PTL

(* A round that a signal cut short of its result ends the task in a halt.  *)
THEOREM InterruptionsHalt == Spec => []InterruptedRoundHalts
BY AgentInvHolds, AgentInvImplies, PTL

(* A stream with a terminal event, wherever it stands in it, is never      *)
(* taken for a failure of transport.                                       *)
THEOREM ResultsAreKept == Spec => []ResultIsNeverLost
BY AgentInvHolds, AgentInvImplies, PTL

(* run.py that was signalled does not exit as if it had succeeded.         *)
THEOREM SignalsAreReported == Spec => []SignalIsReported
BY AgentInvHolds, AgentInvImplies, PTL

------------------------------------------------------------------------------
(* What the main thread has left to do, at most: six steps for each round  *)
(* that is still to come, and those of the stage it is in.                 *)
StageLeft ==
  [loop |-> 2, spawned |-> 7, wait |-> 6, cleanup |-> 5, clear |-> 4,
   read |-> 3, done |-> 1, exited |-> 0]
StepsLeft == 6 * (MaxRounds - round) + StageLeft[pc]

LEMMA StepsLeftIsNat == TypeOK => StepsLeft \in Nat
<1> SUFFICES ASSUME TypeOK PROVE StepsLeft \in Nat
  OBVIOUS
<1>1. MaxRounds - round \in Nat
  BY AgentProcessAssumption DEF TypeOK
<1>2. StageLeft[pc] \in Nat
  BY DEF TypeOK, Stages, StageLeft
<1> QED
  BY <1>1, <1>2 DEF StepsLeft

LEMMA StepsLeftStep ==
  AgentInv /\ [Next]_vars => UNCHANGED <<pc, round>> \/ StepsLeft' < StepsLeft
<1> SUFFICES ASSUME AgentInv, [Next]_vars, ~UNCHANGED <<pc, round>>
             PROVE  StepsLeft' < StepsLeft
  OBVIOUS
<1> DEFINE left == 6 * (MaxRounds - round)
<1>0. /\ round \in 0..MaxRounds /\ MaxRounds \in Nat /\ pc \in Stages /\ left \in Int
  BY AgentProcessAssumption DEF AgentInv, TypeOK
<1>1. CASE Spawn
  <2>1. pc = "loop" /\ pc' = "spawned" /\ round' = round + 1
    BY <1>1 DEF Spawn
  <2>2. 6 * (MaxRounds - round') = left - 6
    BY <1>0, <2>1
  <2> QED
    BY <1>0, <2>1, <2>2 DEF StepsLeft, StageLeft
<1>2. CASE ~Spawn
  <2>1. round' = round /\ StageLeft[pc'] < StageLeft[pc] /\ StageLeft[pc'] \in Int
        /\ StageLeft[pc] \in Int
    <3>1. CASE Publish \/ Waited \/ DeadlineKill
      BY <3>1 DEF Publish, Waited, DeadlineKill, StageLeft
    <3>2. CASE Cleanup \/ Unpublish \/ Read \/ Conclude \/ Exit
      BY <3>2 DEF Cleanup, Unpublish, Read, Conclude, Exit, StageLeft
    <3>3. CASE SignalIdle
      BY <1>0, <3>3 DEF SignalIdle, StageLeft, Stages
    <3>4. CASE Emit \/ Fork \/ AgentExits \/ Deadline \/ SignalLive \/ UNCHANGED vars
      BY <3>4 DEF Emit, Fork, AgentExits, Deadline, SignalLive, vars
    <3> QED
      BY <1>2, <3>1, <3>2, <3>3, <3>4 DEF Next
  <2> QED
    BY <1>0, <2>1 DEF StepsLeft
<1> QED
  BY <1>1, <1>2

(* run.py comes to its end whatever its agents, their children, the clock  *)
(* and signals do (run.py 5853, 4553-4574): no step of its main thread is  *)
(* ever given back, and there are at most six for each round.              *)
THEOREM MainThreadIsBounded ==
  Spec => [](StepsLeft \in Nat) /\ [][UNCHANGED <<pc, round>> \/ StepsLeft' < StepsLeft]_vars
<1>1. AgentInv => StepsLeft \in Nat
  BY StepsLeftIsNat, AgentInvImplies
<1>2. AgentInv /\ [Next]_vars => [UNCHANGED <<pc, round>> \/ StepsLeft' < StepsLeft]_vars
  BY StepsLeftStep
<1> QED
  BY <1>1, <1>2, AgentInvHolds, PTL DEF Spec
=============================================================================
