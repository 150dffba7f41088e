----------------------------- MODULE RaceProofs -----------------------------
(***************************************************************************)
(* Safety of a race, for any number of attempts and of other writers.      *)
(***************************************************************************)
EXTENDS Race, RegistryProofs, FiniteSetTheorems

(* The registry sees a race as one more writer that follows its protocol. *)
LEMMA RaceIsAWriter == [Next]_vars => [RegistryNext]_registryVars
BY RaceAssumption
DEF Next, vars, raceVars, Loop, Attempt, Others, RegistryNext, Writers, CreateWorktree,
    CreationFails, Spawn, SpawnFails, StartAgent, AgentEnds, WriteResult, Exit,
    Returns, Wake, GlobalCap, AllFinished, Interrupt, Sort, SortEnds, Kill, Reap,
    ReapEnds, MergeWinner, MergeEnds, Report, Teardown

LEMMA RegistryHolds == Spec => []RegistryInv
<1>1. Init => RegistryInv
  BY RegistryInit_Inv DEF Init
<1>2. RegistryInv /\ [Next]_vars => RegistryInv'
  BY RaceIsAWriter, RegistryTypeStep, LockHeldStep, EntriesKeptStep, ReadableStep DEF RegistryInv
<1> QED BY <1>1, <1>2, PTL DEF Spec

(***************************************************************************)
(* An entry that a race merged is never lost, as long as no task wrote to  *)
(* the list without the lock.                                              *)
(***************************************************************************)
THEOREM EntriesAreKept == Spec => []NoLostEntry
BY RegistryHolds, RegistryInvImplies, PTL

(***************************************************************************)
(* No race fails on a half-written list unless such a task, or a writer    *)
(* killed at work, left it.                                                *)
(***************************************************************************)
THEOREM ListsAreWhole == Spec => []RacesReadWholeLists
BY RegistryHolds, RegistryInvImplies, PTL

(***************************************************************************)
(* To its rivals a race is one atomic addition to the ledger, whatever its *)
(* own attempts do (race.py 421-428).                                      *)
(***************************************************************************)
THEOREM RaceKeepsLedger == Spec /\ []Orderly => Book!Spec
<1>1. Init => CopiesFresh /\ Book!Init
  BY WritersAssumption
  DEF Init, RegistryInit, CopiesFresh, Book!Init, Entries, Merged, Writers
<1> QED
  BY <1>1, RegistryHolds, RaceIsAWriter, CopiesFreshStep, BookStep, PTL DEF Spec, Book!Spec

------------------------------------------------------------------------------
(* What a task returns is what its attempt left in result.json, once the  *)
(* process has ended.                                                     *)
Launched(i) == proc[i] # "none" \/ outcome[i] # "pending"
Returned ==
  /\ \A i \in Attempts :
       /\ outcome[i] \in Results => /\ proc[i] \in {"exited", "killed"}
                                    /\ outcome[i] = disk[i]
       /\ proc[i] = "running" => outcome[i] = "pending" /\ i \in live
       /\ outcome[i] = "raised" => proc[i] = "none"
       /\ i \in finished => outcome[i] \in Results
  /\ pc = "create" => \A i \in Attempts : proc[i] = "none" /\ outcome[i] = "pending"
  /\ pc = "sort" => \A i \in ready : outcome[i] # "pending"

(* The winner was collected, and had a success to show. *)
HonestWin ==
  /\ winner # None => winner \in finished /\ outcome[winner] = "COMPLETE"
  /\ report # None /\ report.success => winner # None /\ report.reason = "COMPLETE"

(* What the race has collected, and that a loss leaves no success behind. *)
Tally ==
  /\ pc = "create" => left = "none"
  /\ pc \in {"kill", "reap", "merge", "report"} => left # "none"
  /\ pc # "create" /\ left # "raised" => tasks \cup finished = Attempts
  /\ left = "all" => tasks = {}
  /\ winner # None => proc[winner] = "exited"
  /\ left \in {"none", "all"} /\ winner = None =>
       \A i \in finished : outcome[i] # "COMPLETE"
  /\ report # None => pc \in {"teardown", "done"} /\ (~report.success => winner = None)

(* Nobody is killed before the kill; by the time an attempt ends by       *)
(* itself all have been launched, so none can start after the kill.       *)
Cancelled ==
  /\ pc \in {"create", "wait", "sort"} =>
       left = "none" /\ \A i \in Attempts : proc[i] # "killed"
  /\ (\E i \in Attempts : proc[i] = "exited") => \A j \in tasks : Launched(j)
  /\ left = "winner" => \A j \in tasks : Launched(j)
  /\ LosersAreKilled

(* TypeOK without the registry's part. *)
RaceTypeOK ==
  /\ pc \in Stages
  /\ worktrees \subseteq Attempts /\ owned \subseteq Attempts
  /\ proc \in [Attempts -> {"none", "running", "exited", "killed"}]
  /\ agents \subseteq Attempts /\ fresh \subseteq Attempts
  /\ disk \in [Attempts -> Results]
  /\ live \subseteq Attempts /\ tasks \subseteq Attempts /\ ready \subseteq Attempts
  /\ outcome \in [Attempts -> Results \cup {"pending", "raised"}]
  /\ finished \subseteq Attempts /\ finished \cap tasks = {}
  /\ winner \in Attempts \cup {None}
  /\ left \in {"none", "winner", "cap", "all", "raised"}
  /\ report \in [success : BOOLEAN, reason : Labels \cup {"LIMIT"}] \cup {None}

RaceInv == TypeOK /\ RegistryInv /\ Returned /\ HonestWin /\ Tally /\ Cancelled

LEMMA RaceTypeStep == RaceInv /\ [Next]_vars => RaceTypeOK'
<1> SUFFICES ASSUME RaceInv, [Next]_vars PROVE RaceTypeOK'
  OBVIOUS
<1> USE RaceAssumption
    DEF RaceInv, TypeOK, RaceTypeOK, Returned, HonestWin, Won, Results, Stages,
        attemptVars, loopVars, Leave, Awaiting, Registered, Collected, Committed
<1>0. RaceTypeOK
  OBVIOUS
<1>1. CASE UNCHANGED vars
  BY <1>1 DEF vars, raceVars
<1>2. CASE UNCHANGED raceVars
  BY <1>2 DEF raceVars
<1>3. ASSUME NEW i \in Attempts, \/ CreateWorktree(i) \/ Sort(i) \/ Reap(i) \/ Attempt(i)
                                  \/ SpawnFails(i) \/ StartAgent(i) \/ AgentEnds(i) \/ WriteResult(i)
      PROVE  RaceTypeOK'
  <2>1. CASE CreateWorktree(i)
    <3>1. \A j \in Attempts : j \notin finished
      BY <2>1 DEF CreateWorktree
    <3>2. finished = {}
      BY <3>1
    <3>3. /\ tasks' \in {tasks, Attempts} /\ owned' \in {owned, Attempts}
          /\ pc' \in Stages /\ worktrees' \subseteq Attempts
          /\ UNCHANGED <<proc, agents, disk, fresh, live, ready, outcome, finished,
                         winner, left, report>>
      BY <2>1 DEF CreateWorktree
    <3> QED BY <3>2, <3>3
  <2>2. CASE Sort(i)
    <3>1. /\ tasks' \subseteq Attempts /\ finished' \subseteq Attempts
          /\ finished' \cap tasks' = {}
      <4>1. CASE outcome[i] = "raised"
        <5>1. UNCHANGED <<tasks, finished>>
          BY <2>2, <4>1 DEF Sort
        <5> QED BY <5>1
      <4>2. CASE outcome[i] # "raised"
        <5>1. tasks' = tasks \ {i} /\ finished' = finished \cup {i}
          BY <2>2, <4>2 DEF Sort
        <5> QED BY <5>1
      <4> QED BY <4>1, <4>2
    <3>2. /\ pc' \in Stages /\ left' \in {left, "raised"}
          /\ winner' \in {winner, i} /\ ready' \subseteq Attempts
          /\ UNCHANGED <<worktrees, owned, proc, agents, disk, fresh, live, outcome, report>>
      BY <2>2 DEF Sort
    <3> HIDE DEF RaceInv, TypeOK, Returned, HonestWin
    <3> QED BY <1>0, <3>1, <3>2
  <2>3. CASE Reap(i)
    <3>1. /\ tasks' \subseteq Attempts /\ finished' \subseteq Attempts
          /\ finished' \cap tasks' = {}
      <4>1. CASE outcome[i] = "raised"
        <5>1. UNCHANGED <<tasks, finished>>
          BY <2>3, <4>1 DEF Reap
        <5> QED BY <5>1
      <4>2. CASE outcome[i] # "raised"
        <5>1. tasks' = tasks \ {i} /\ finished' = finished \cup {i}
          BY <2>3, <4>2 DEF Reap
        <5> QED BY <5>1
      <4> QED BY <4>1, <4>2
    <3>2. /\ pc' \in Stages /\ left' \in {left, "raised"}
          /\ UNCHANGED <<worktrees, owned, proc, agents, disk, fresh, live, ready,
                         outcome, winner, report>>
      BY <2>3 DEF Reap
    <3> HIDE DEF RaceInv, TypeOK, Returned, HonestWin
    <3> QED BY <1>0, <3>1, <3>2
  <2>4. CASE Spawn(i)          BY <2>4 DEF Spawn
  <2>5. CASE Exit(i)           BY <2>5 DEF Exit
  <2>6. CASE Returns(i)        BY <2>6 DEF Returns
  <2>7. CASE SpawnFails(i)     BY <2>7 DEF SpawnFails
  <2>8. CASE StartAgent(i)     BY <2>8 DEF StartAgent
  <2>9. CASE AgentEnds(i)      BY <2>9 DEF AgentEnds
  <2>10. CASE WriteResult(i)   BY <2>10 DEF WriteResult
  <2> QED BY <1>3, <2>1, <2>2, <2>3, <2>4, <2>5, <2>6, <2>7, <2>8, <2>9, <2>10 DEF Attempt
<1>4. CASE Wake            BY <1>4 DEF Wake
<1>5. CASE AllFinished     BY <1>5 DEF AllFinished
<1>6. CASE SortEnds        BY <1>6 DEF SortEnds
<1>7. CASE Kill            BY <1>7 DEF Kill
<1>8. CASE ReapEnds        BY <1>8 DEF ReapEnds
<1>9. CASE MergeEnds       BY <1>9 DEF MergeEnds
<1>10. CASE Report
  <2>1. \A i \in finished : outcome[i] \in Results
    OBVIOUS
  <2>2. ASSUME NEW best \in finished
        PROVE  Aggregate(best) \in Labels \cup {"LIMIT"}
    <3>1. Reasons \subseteq Labels
      BY <2>1 DEF Reasons
    <3> QED BY <2>1, <3>1 DEF Aggregate
  <2>3. winner # None => outcome[winner] \in Labels
    BY <2>1
  <2>4. report' \in [success : BOOLEAN, reason : Labels \cup {"LIMIT"}]
    <3>1. CASE winner # None
      <4>1. report' = [success |-> TRUE, reason |-> outcome[winner]]
        BY <1>10, <3>1 DEF Report
      <4> QED BY <2>3, <3>1, <4>1
    <3>2. CASE winner = None
      <4>1. PICK best \in finished : report' = [success |-> FALSE, reason |-> Aggregate(best)]
        BY <1>10, <3>2 DEF Report
      <4> QED BY <2>2, <4>1
    <3> QED BY <3>1, <3>2
  <2>5. UNCHANGED <<worktrees, owned, proc, agents, disk, fresh, live, outcome,
                    tasks, ready, finished, winner, left>> /\ pc' \in Stages
    BY <1>10 DEF Report
  <2> HIDE DEF RaceInv, TypeOK, Returned, HonestWin
  <2> QED BY <1>0, <2>4, <2>5
<1>11. CASE Teardown       BY <1>11 DEF Teardown
<1>12. CASE CreationFails  BY <1>12 DEF CreationFails
<1>13. CASE GlobalCap      BY <1>13 DEF GlobalCap
<1>14. CASE Interrupt      BY <1>14 DEF Interrupt
<1> QED BY <1>1, <1>2, <1>3, <1>4, <1>5, <1>6, <1>7, <1>8,
       <1>9, <1>10, <1>11, <1>12, <1>13, <1>14
  DEF Next, Loop, Others, MergeWinner

LEMMA ReturnedStep == RaceInv /\ [Next]_vars => Returned'
<1> SUFFICES ASSUME RaceInv, [Next]_vars PROVE Returned'
  OBVIOUS
<1> USE RaceAssumption
    DEF RaceInv, TypeOK, Returned, Cancelled, Results, Stages, attemptVars,
        loopVars, Leave, Awaiting, Registered, Collected
<1>1. CASE UNCHANGED vars
  BY <1>1 DEF vars, raceVars
<1>2. CASE UNCHANGED raceVars
  BY <1>2 DEF raceVars
<1>3. ASSUME NEW i \in Attempts, \/ CreateWorktree(i) \/ Sort(i) \/ Reap(i) \/ Attempt(i)
                                  \/ SpawnFails(i) \/ StartAgent(i) \/ AgentEnds(i) \/ WriteResult(i)
      PROVE  Returned'
  <2>1. CASE CreateWorktree(i) BY <2>1 DEF CreateWorktree
  <2>2. CASE Sort(i)           BY <2>2 DEF Sort
  <2>3. CASE Reap(i)           BY <2>3 DEF Reap
  <2>4. CASE Spawn(i)          BY <2>4 DEF Spawn
  <2>5. CASE Exit(i)           BY <2>5 DEF Exit
  <2>6. CASE Returns(i)        BY <2>6 DEF Returns
  <2>7. CASE SpawnFails(i)     BY <2>7 DEF SpawnFails
  <2>8. CASE StartAgent(i)     BY <2>8 DEF StartAgent
  <2>9. CASE AgentEnds(i)      BY <2>9 DEF AgentEnds
  <2>10. CASE WriteResult(i)   BY <2>10 DEF WriteResult
  <2> QED BY <1>3, <2>1, <2>2, <2>3, <2>4, <2>5, <2>6, <2>7, <2>8, <2>9, <2>10 DEF Attempt
<1>4. CASE Wake            BY <1>4 DEF Wake
<1>5. CASE AllFinished     BY <1>5 DEF AllFinished
<1>6. CASE SortEnds        BY <1>6 DEF SortEnds
<1>7. CASE Kill            BY <1>7 DEF Kill
<1>8. CASE ReapEnds        BY <1>8 DEF ReapEnds
<1>9. CASE MergeEnds       BY <1>9 DEF MergeEnds
<1>10. CASE Report         BY <1>10 DEF Report
<1>11. CASE Teardown       BY <1>11 DEF Teardown
<1>12. CASE CreationFails  BY <1>12 DEF CreationFails
<1>13. CASE GlobalCap      BY <1>13 DEF GlobalCap
<1>14. CASE Interrupt      BY <1>14 DEF Interrupt
<1> QED BY <1>1, <1>2, <1>3, <1>4, <1>5, <1>6, <1>7, <1>8,
       <1>9, <1>10, <1>11, <1>12, <1>13, <1>14
  DEF Next, Loop, Others, MergeWinner

LEMMA CancelledStep == RaceInv /\ [Next]_vars => Cancelled'
<1> SUFFICES ASSUME RaceInv, [Next]_vars PROVE Cancelled'
  OBVIOUS
<1> USE RaceAssumption
    DEF RaceInv, TypeOK, Returned, HonestWin, Cancelled, LosersAreKilled, Launched,
        Won, Results, Stages, attemptVars, loopVars, Leave, Awaiting, Registered,
        Collected, Committed
<1>1. CASE UNCHANGED vars
  BY <1>1 DEF vars, raceVars
<1>2. CASE UNCHANGED raceVars
  BY <1>2 DEF raceVars
<1>3. ASSUME NEW i \in Attempts, \/ CreateWorktree(i) \/ Sort(i) \/ Reap(i) \/ Attempt(i)
                                  \/ SpawnFails(i) \/ StartAgent(i) \/ AgentEnds(i) \/ WriteResult(i)
      PROVE  Cancelled'
  <2>1. CASE CreateWorktree(i) BY <2>1 DEF CreateWorktree
  <2>2. CASE Sort(i)
    <3>1. CASE outcome[i] = "raised"  BY <2>2, <3>1 DEF Sort
    <3>2. CASE outcome[i] # "raised"
      <4>1. /\ tasks' \subseteq tasks
            /\ UNCHANGED <<pc, left, proc, outcome>>
        BY <2>2, <3>2 DEF Sort
      <4>2. \A j \in Attempts : Launched(j)' = Launched(j)
        BY <4>1
      <4> QED BY <4>1, <4>2
    <3> QED BY <3>1, <3>2
  <2>3. CASE Reap(i)
    <3>1. CASE outcome[i] = "raised"  BY <2>3, <3>1 DEF Reap
    <3>2. CASE outcome[i] # "raised"
      <4>1. /\ tasks' \subseteq tasks
            /\ UNCHANGED <<pc, left, proc, outcome>>
        BY <2>3, <3>2 DEF Reap
      <4>2. \A j \in Attempts : Launched(j)' = Launched(j)
        BY <4>1
      <4> QED BY <4>1, <4>2
    <3> QED BY <3>1, <3>2
  <2>4. CASE Spawn(i)          BY <2>4 DEF Spawn
  <2>5. CASE Exit(i)           BY <2>5 DEF Exit
  <2>6. CASE Returns(i)        BY <2>6 DEF Returns
  <2>7. CASE SpawnFails(i)     BY <2>7 DEF SpawnFails
  <2>8. CASE StartAgent(i)     BY <2>8 DEF StartAgent
  <2>9. CASE AgentEnds(i)      BY <2>9 DEF AgentEnds
  <2>10. CASE WriteResult(i)   BY <2>10 DEF WriteResult
  <2> QED BY <1>3, <2>1, <2>2, <2>3, <2>4, <2>5, <2>6, <2>7, <2>8, <2>9, <2>10 DEF Attempt
<1>4. CASE Wake            BY <1>4 DEF Wake
<1>5. CASE AllFinished     BY <1>5 DEF AllFinished
<1>6. CASE SortEnds        BY <1>6 DEF SortEnds
<1>7. CASE Kill            BY <1>7 DEF Kill
<1>8. CASE ReapEnds        BY <1>8 DEF ReapEnds
<1>9. CASE MergeEnds       BY <1>9 DEF MergeEnds
<1>10. CASE Report         BY <1>10 DEF Report
<1>11. CASE Teardown       BY <1>11 DEF Teardown
<1>12. CASE CreationFails  BY <1>12 DEF CreationFails
<1>13. CASE GlobalCap      BY <1>13 DEF GlobalCap
<1>14. CASE Interrupt      BY <1>14 DEF Interrupt
<1> QED BY <1>1, <1>2, <1>3, <1>4, <1>5, <1>6, <1>7, <1>8,
       <1>9, <1>10, <1>11, <1>12, <1>13, <1>14
  DEF Next, Loop, Others, MergeWinner

LEMMA WinnerStep == RaceInv /\ [Next]_vars => HonestWin'
<1> SUFFICES ASSUME RaceInv, [Next]_vars PROVE HonestWin'
  OBVIOUS
<1> USE RaceAssumption
    DEF RaceInv, TypeOK, Returned, HonestWin, Won, Results, Stages, attemptVars,
        loopVars, Leave, Awaiting, Collected, Committed
<1>1. CASE UNCHANGED vars
  BY <1>1 DEF vars, raceVars
<1>2. CASE UNCHANGED raceVars
  BY <1>2 DEF raceVars
<1>3. ASSUME NEW i \in Attempts, \/ CreateWorktree(i) \/ Sort(i) \/ Reap(i) \/ Attempt(i)
                                  \/ SpawnFails(i) \/ StartAgent(i) \/ AgentEnds(i) \/ WriteResult(i)
      PROVE  HonestWin'
  <2>1. CASE CreateWorktree(i) BY <2>1 DEF CreateWorktree
  <2>2. CASE Sort(i)           BY <2>2 DEF Sort
  <2>3. CASE Reap(i)           BY <2>3 DEF Reap
  <2>4. CASE Spawn(i)          BY <2>4 DEF Spawn
  <2>5. CASE Exit(i)           BY <2>5 DEF Exit
  <2>6. CASE Returns(i)        BY <2>6 DEF Returns
  <2>7. CASE SpawnFails(i)     BY <2>7 DEF SpawnFails
  <2>8. CASE StartAgent(i)     BY <2>8 DEF StartAgent
  <2>9. CASE AgentEnds(i)      BY <2>9 DEF AgentEnds
  <2>10. CASE WriteResult(i)   BY <2>10 DEF WriteResult
  <2> QED BY <1>3, <2>1, <2>2, <2>3, <2>4, <2>5, <2>6, <2>7, <2>8, <2>9, <2>10 DEF Attempt
<1>4. CASE Wake            BY <1>4 DEF Wake
<1>5. CASE AllFinished     BY <1>5 DEF AllFinished
<1>6. CASE SortEnds        BY <1>6 DEF SortEnds
<1>7. CASE Kill            BY <1>7 DEF Kill
<1>8. CASE ReapEnds        BY <1>8 DEF ReapEnds
<1>9. CASE MergeEnds       BY <1>9 DEF MergeEnds
<1>10. CASE Report         BY <1>10 DEF Report
<1>11. CASE Teardown       BY <1>11 DEF Teardown
<1>12. CASE CreationFails  BY <1>12 DEF CreationFails
<1>13. CASE GlobalCap      BY <1>13 DEF GlobalCap
<1>14. CASE Interrupt      BY <1>14 DEF Interrupt
<1> QED BY <1>1, <1>2, <1>3, <1>4, <1>5, <1>6, <1>7, <1>8,
       <1>9, <1>10, <1>11, <1>12, <1>13, <1>14
  DEF Next, Loop, Others, MergeWinner

LEMMA TallyStep == RaceInv /\ [Next]_vars => Tally'
<1> SUFFICES ASSUME RaceInv, [Next]_vars PROVE Tally'
  OBVIOUS
<1> USE RaceAssumption
    DEF RaceInv, TypeOK, Returned, HonestWin, Tally, Cancelled, Won, Results, Stages, attemptVars,
        loopVars, Leave, Awaiting, Collected, Committed
<1>1. CASE UNCHANGED vars
  BY <1>1 DEF vars, raceVars
<1>2. CASE UNCHANGED raceVars
  BY <1>2 DEF raceVars
<1>3. ASSUME NEW i \in Attempts, \/ CreateWorktree(i) \/ Sort(i) \/ Reap(i) \/ Attempt(i)
                                  \/ SpawnFails(i) \/ StartAgent(i) \/ AgentEnds(i) \/ WriteResult(i)
      PROVE  Tally'
  <2>1. CASE CreateWorktree(i)
    <3>1. /\ pc = "create" /\ left = "none" /\ report = None
          /\ UNCHANGED <<proc, outcome, finished, winner, left, report>>
      BY <2>1 DEF CreateWorktree
    <3>2. \/ tasks' = Attempts /\ pc' = "wait"
          \/ pc' = "create"
      BY <2>1 DEF CreateWorktree
    <3>3. finished \subseteq Attempts
      OBVIOUS
    <3>4. pc' # "create" /\ left' # "raised" => tasks' \cup finished' = Attempts
      <4> HIDE DEF RaceInv, TypeOK, Returned, HonestWin, Cancelled, Tally, Stages
      <4>1. finished' = finished
        BY <3>1
      <4> QED BY <3>2, <3>3, <4>1
    <3>5. winner' = None
      <4>1. \A j \in Attempts : outcome[j] = "pending" /\ j \notin finished
        BY <3>1
      <4> QED BY <3>1, <3>3, <4>1
    <3>6. \A j \in finished' : outcome'[j] # "COMPLETE"
      BY <3>1, <3>3
    <3>7. left' = "none" /\ report' = None /\ pc' \in {"create", "wait"}
      BY <3>1, <3>2
    <3> HIDE DEF RaceInv, TypeOK, Returned, HonestWin, Cancelled
    <3> QED BY <3>4, <3>5, <3>6, <3>7
  <2>2. CASE Sort(i)
    <3>1. /\ pc = "sort" /\ i \in ready /\ left = "none" /\ report = None
          /\ UNCHANGED <<proc, outcome, report>>
      BY <2>2 DEF Sort
    <3>2. CASE outcome[i] = "raised"
      <4>1. left' = "raised" /\ pc' = "kill" /\ UNCHANGED <<tasks, finished, winner>>
        BY <2>2, <3>2 DEF Sort
      <4> QED BY <3>1, <4>1
    <3>3. CASE outcome[i] # "raised"
      <4>1. /\ tasks' = tasks \ {i} /\ finished' = finished \cup {i}
            /\ winner' = Committed(i) /\ UNCHANGED <<left, pc>>
        BY <2>2, <3>3 DEF Sort
      <4>2. outcome[i] = "COMPLETE" => proc[i] = "exited"
        BY <3>1
      <4>3. winner' # None => proc'[winner'] = "exited"
        BY <3>1, <4>1, <4>2
      <4>4. winner' = None => \A j \in finished' : outcome'[j] # "COMPLETE"
        BY <3>1, <4>1
      <4>5. pc' # "create" /\ left' # "raised" => tasks' \cup finished' = Attempts
        <5>1. tasks \cup finished = Attempts
          BY <3>1
        <5>2. tasks' \cup finished' = tasks \cup finished
          BY <4>1, <5>1
        <5> QED BY <5>1, <5>2
      <4> QED BY <3>1, <4>1, <4>3, <4>4, <4>5
    <3> QED BY <3>2, <3>3
  <2>3. CASE Reap(i)
    <3>1. /\ pc = "reap" /\ i \in tasks /\ left \notin {"none", "all"} /\ report = None
          /\ UNCHANGED <<proc, outcome, report, winner>>
      BY <2>3 DEF Reap
    <3>2. CASE outcome[i] = "raised"
      <4>1. left' = "raised" /\ pc' = "teardown"
        BY <2>3, <3>2 DEF Reap
      <4> QED BY <3>1, <4>1
    <3>3. CASE outcome[i] # "raised"
      <4>1. tasks' = tasks \ {i} /\ finished' = finished \cup {i} /\ UNCHANGED <<left, pc>>
        BY <2>3, <3>3 DEF Reap
      <4>2. pc' # "create" /\ left' # "raised" => tasks' \cup finished' = Attempts
        BY <3>1, <4>1
      <4> QED BY <3>1, <4>1, <4>2
    <3> QED BY <3>2, <3>3
  <2>4. CASE Spawn(i)          BY <2>4 DEF Spawn
  <2>5. CASE Exit(i)           BY <2>5 DEF Exit
  <2>6. CASE Returns(i)        BY <2>6 DEF Returns
  <2>7. CASE SpawnFails(i)     BY <2>7 DEF SpawnFails
  <2>8. CASE StartAgent(i)     BY <2>8 DEF StartAgent
  <2>9. CASE AgentEnds(i)      BY <2>9 DEF AgentEnds
  <2>10. CASE WriteResult(i)   BY <2>10 DEF WriteResult
  <2> QED BY <1>3, <2>1, <2>2, <2>3, <2>4, <2>5, <2>6, <2>7, <2>8, <2>9, <2>10 DEF Attempt
<1>4. CASE Wake            BY <1>4 DEF Wake
<1>5. CASE AllFinished     BY <1>5 DEF AllFinished
<1>6. CASE SortEnds        BY <1>6 DEF SortEnds
<1>7. CASE Kill            BY <1>7 DEF Kill
<1>8. CASE ReapEnds        BY <1>8 DEF ReapEnds
<1>9. CASE MergeEnds       BY <1>9 DEF MergeEnds
<1>10. CASE Report         BY <1>10 DEF Report
<1>11. CASE Teardown       BY <1>11 DEF Teardown
<1>12. CASE CreationFails  BY <1>12 DEF CreationFails
<1>13. CASE GlobalCap      BY <1>13 DEF GlobalCap
<1>14. CASE Interrupt      BY <1>14 DEF Interrupt
<1> QED BY <1>1, <1>2, <1>3, <1>4, <1>5, <1>6, <1>7, <1>8,
       <1>9, <1>10, <1>11, <1>12, <1>13, <1>14
  DEF Next, Loop, Others, MergeWinner

LEMMA RaceInit == Init => RaceInv
BY RaceAssumption, RegistryInit_Inv
DEF Init, RaceInv, RegistryInv, TypeOK, Returned, HonestWin, Tally, Cancelled, LosersAreKilled, Results,
    Stages

LEMMA RaceInvariant == Spec => []RaceInv
<1>1. RaceInv /\ [Next]_vars => RegistryInv'
  BY RaceIsAWriter, RegistryTypeStep, LockHeldStep, EntriesKeptStep, ReadableStep
  DEF RaceInv, RegistryInv
<1>2. RaceInv /\ [Next]_vars => TypeOK'
  BY <1>1, RaceTypeStep DEF TypeOK, RaceTypeOK, RegistryInv
<1>3. RaceInv /\ [Next]_vars => RaceInv'
  BY <1>1, <1>2, ReturnedStep, CancelledStep, WinnerStep, TallyStep DEF RaceInv
<1> QED BY RaceInit, <1>3, PTL DEF Spec

(***************************************************************************)
(* The race's variables keep their types.                                  *)
(***************************************************************************)
THEOREM RaceTypeCorrect == Spec => []TypeOK
<1>1. RaceInv => TypeOK
  BY DEF RaceInv
<1> QED BY RaceInvariant, <1>1, PTL

(***************************************************************************)
(* The verdict a race reports follows the results on disk (race.py         *)
(* 318-345, 404-435): a success is that of a collected attempt that ended  *)
(* before the kill with COMPLETE in its result.json, and a race that       *)
(* waited for all its attempts fails only if none has a COMPLETE to show.  *)
(* Whether the result was written in this race is another matter: it need  *)
(* not have been (NoFalseGreen).                                           *)
(***************************************************************************)
THEOREM VerdictIsOfTheResults == Spec => []VerdictFollowsResults
<1>1. RaceInv => VerdictFollowsResults
  <2> SUFFICES ASSUME RaceInv, report # None PROVE VerdictFollowsResults
    BY DEF VerdictFollowsResults
  <2>1. ASSUME report.success
        PROVE  /\ winner \in finished /\ proc[winner] = "exited"
               /\ disk[winner] = "COMPLETE" /\ report.reason = "COMPLETE"
    BY <2>1, RaceAssumption DEF RaceInv, TypeOK, Returned, HonestWin, Tally, Results
  <2>2. ASSUME ~report.success, left = "all", NEW i \in Attempts
        PROVE  disk[i] # "COMPLETE"
    <3>1. i \in finished /\ outcome[i] # "COMPLETE"
      BY <2>2 DEF RaceInv, Tally
    <3> QED BY <3>1 DEF RaceInv, Returned
  <2> QED BY <2>1, <2>2 DEF VerdictFollowsResults
<1> QED BY RaceInvariant, <1>1, PTL

(***************************************************************************)
(* Once the race has killed for a winner, no run.py of it runs (2.2 of     *)
(* redundant-racing.md: "prompt and total").                               *)
(***************************************************************************)
THEOREM NoLoserRuns == Spec => []LosersAreKilled
<1>1. RaceInv => LosersAreKilled
  BY DEF RaceInv, Cancelled
<1> QED BY RaceInvariant, <1>1, PTL

(***************************************************************************)
(* The winner is whoever the race committed to first.                      *)
(***************************************************************************)
THEOREM FirstCommitStands == Spec => WinnerStands
<1>1. [Next]_vars => [winner # None => winner' = winner]_vars
  BY DEF Next, vars, raceVars, loopVars, attemptVars, Loop, Attempt, Others, Committed,
     CreateWorktree, CreationFails, Spawn, SpawnFails, StartAgent, AgentEnds,
     WriteResult, Exit, Returns, Wake, GlobalCap, AllFinished, Interrupt, Sort,
     SortEnds, Kill, Reap, ReapEnds, MergeWinner, MergeEnds, Report, Teardown
<1> QED BY <1>1, PTL DEF Spec, WinnerStands

------------------------------------------------------------------------------
(* What the race itself has left to do, at most: for each attempt a        *)
(* worktree, a round of the wait loop and a reaping, then the merge, the   *)
(* report and the teardown.                                                *)
MergeLeft ==
  [idle |-> 7, waiting |-> 6, reading |-> 5, truncating |-> 4, writing |-> 3, unlocking |-> 2,
   merged |-> 1, skipped |-> 1, failed |-> 1]
RaceLeft ==
  LET waiting == Cardinality(tasks)
      asked == Cardinality(tasks \ ready)
      sorting == Cardinality(ready)
  IN  CASE pc = "create"   -> 24 + 4 * Cardinality(Attempts) + Cardinality(Attempts \ worktrees)
        [] pc = "wait"     -> 22 + 4 * waiting
        [] pc = "sort"     -> 23 + 4 * asked + sorting
        [] pc = "kill"     -> 12 + waiting
        [] pc = "reap"     -> 11 + waiting
        [] pc = "merge"    -> 3 + MergeLeft[stage[Self]]
        [] pc = "report"   -> 2
        [] pc = "teardown" -> 1
        [] pc = "done"     -> 0
OwnState == <<pc, worktrees, tasks, ready, stage[Self]>>

LEMMA SelfLives ==
  ASSUME RegistryTypeOK
  PROVE  Self \in Writers /\ Self \in Racers /\ Self \notin Mortals /\ stage[Self] \in WriterStages
BY RaceAssumption, WritersAssumption DEF RegistryTypeOK, Writers

(* Nobody kills the race at work on the registry. *)
SelfUnharmed == stage[Self] \notin {"dead", "dead writing"}

LEMMA SelfUnharmedStep ==
  ASSUME RegistryTypeOK, SelfUnharmed, [RegistryNext]_registryVars
  PROVE  SelfUnharmed'
<1> USE SelfLives DEF SelfUnharmed, RegistryTypeOK, Go
<1>1. ASSUME NEW w \in Writers, Merge(w) PROVE SelfUnharmed'
  BY <1>1 DEF Merge, Ask, Acquire, GiveUp, Read, ReadFails, Truncate, Fill, Unlock
<1>2. ASSUME NEW w \in Writers, Die(w) PROVE SelfUnharmed'
  BY <1>2 DEF Die
<1>3. CASE UNCHANGED registryVars
  BY <1>3 DEF registryVars
<1> QED BY <1>1, <1>2, <1>3 DEF RegistryNext

LEMMA MergeDescends ==
  ASSUME RegistryTypeOK, Merge(Self)
  PROVE  /\ MergeLeft[stage[Self]] \in Nat /\ MergeLeft[stage[Self]'] \in Nat
         /\ MergeLeft[stage[Self]'] < MergeLeft[stage[Self]]
BY SelfLives
DEF Merge, Ask, Acquire, GiveUp, Read, ReadFails, Truncate, Fill, Unlock, Go, RegistryTypeOK,
    MergeLeft

(* How many there are of what the loop counts down. *)
LEMMA Counts ==
  ASSUME TypeOK
  PROVE  /\ IsFiniteSet(tasks) /\ IsFiniteSet(ready) /\ IsFiniteSet(tasks \ ready)
         /\ IsFiniteSet(Attempts) /\ IsFiniteSet(Attempts \ worktrees)
         /\ Cardinality(tasks) \in Nat /\ Cardinality(ready) \in Nat
         /\ Cardinality(tasks \ ready) \in Nat /\ Cardinality(Attempts) \in Nat
         /\ Cardinality(Attempts \ worktrees) \in Nat
         /\ Cardinality(tasks) <= Cardinality(tasks \ ready) + Cardinality(ready)
<1>1. IsFiniteSet(Attempts) /\ tasks \subseteq Attempts /\ ready \subseteq Attempts
  BY RaceAssumption DEF TypeOK
<1>2. /\ IsFiniteSet(tasks) /\ IsFiniteSet(ready) /\ IsFiniteSet(tasks \ ready)
      /\ IsFiniteSet(Attempts \ worktrees)
  <2>1. \A S \in SUBSET Attempts : IsFiniteSet(S)
    BY <1>1, FS_Subset
  <2> QED BY <1>1, <2>1
<1>3. /\ Cardinality(tasks) \in Nat /\ Cardinality(ready) \in Nat
      /\ Cardinality(tasks \ ready) \in Nat /\ Cardinality(Attempts) \in Nat
      /\ Cardinality(Attempts \ worktrees) \in Nat
  BY <1>1, <1>2, FS_CardinalityType
<1>4. Cardinality((tasks \ ready) \cup ready) <= Cardinality(tasks \ ready) + Cardinality(ready)
  <2>1. (tasks \ ready) \cap ready = {}
    OBVIOUS
  <2>2. Cardinality((tasks \ ready) \cup ready)
          = Cardinality(tasks \ ready) + Cardinality(ready) - Cardinality((tasks \ ready) \cap ready)
    BY <1>2, FS_Union
  <2> QED BY <1>3, <2>1, <2>2, FS_EmptySet
<1>5. Cardinality(tasks) <= Cardinality((tasks \ ready) \cup ready)
  <2>1. tasks \subseteq (tasks \ ready) \cup ready /\ IsFiniteSet((tasks \ ready) \cup ready)
    BY <1>2, FS_Union
  <2> QED BY <2>1, FS_Subset
<1>6. Cardinality((tasks \ ready) \cup ready) \in Nat
  BY <1>2, FS_Union, FS_CardinalityType
<1> QED BY <1>1, <1>2, <1>3, <1>4, <1>5, <1>6

(* Its value at each stage, before a step and after one. *)
LEMMA LeftEquations ==
  /\ pc = "create" => RaceLeft = 24 + 4 * Cardinality(Attempts) + Cardinality(Attempts \ worktrees)
  /\ pc = "wait" => RaceLeft = 22 + 4 * Cardinality(tasks)
  /\ pc = "sort" => RaceLeft = 23 + 4 * Cardinality(tasks \ ready) + Cardinality(ready)
  /\ pc = "kill" => RaceLeft = 12 + Cardinality(tasks)
  /\ pc = "reap" => RaceLeft = 11 + Cardinality(tasks)
  /\ pc = "merge" => RaceLeft = 3 + MergeLeft[stage[Self]]
  /\ pc = "report" => RaceLeft = 2
  /\ pc = "teardown" => RaceLeft = 1
  /\ pc = "done" => RaceLeft = 0
BY DEF RaceLeft

LEMMA LeftEquationsAfter ==
  /\ pc' = "create" =>
       RaceLeft' = 24 + 4 * Cardinality(Attempts) + Cardinality(Attempts \ worktrees')
  /\ pc' = "wait" => RaceLeft' = 22 + 4 * Cardinality(tasks')
  /\ pc' = "sort" => RaceLeft' = 23 + 4 * Cardinality(tasks' \ ready') + Cardinality(ready')
  /\ pc' = "kill" => RaceLeft' = 12 + Cardinality(tasks')
  /\ pc' = "reap" => RaceLeft' = 11 + Cardinality(tasks')
  /\ pc' = "merge" => RaceLeft' = 3 + MergeLeft[stage'[Self]]
  /\ pc' = "report" => RaceLeft' = 2
  /\ pc' = "teardown" => RaceLeft' = 1
  /\ pc' = "done" => RaceLeft' = 0
BY DEF RaceLeft

LEMMA MergeLeftBounds ==
  ASSUME TypeOK, SelfUnharmed
  PROVE  /\ MergeLeft[stage[Self]] \in Nat
         /\ MergeLeft[stage[Self]] >= 1 /\ MergeLeft[stage[Self]] <= 7
<1>0. \A m \in {1, 2, 3, 4, 5, 6, 7} : m \in Nat /\ m >= 1 /\ m <= 7
  OBVIOUS
<1>1. stage[Self] \in WriterStages \ {"dead", "dead writing"}
  BY SelfLives DEF TypeOK, SelfUnharmed
<1>2. \A at \in WriterStages \ {"dead", "dead writing"} :
        MergeLeft[at] \in Nat /\ MergeLeft[at] >= 1 /\ MergeLeft[at] <= 7
  <2>1. /\ MergeLeft["idle"] = 7 /\ MergeLeft["waiting"] = 6 /\ MergeLeft["reading"] = 5
        /\ MergeLeft["truncating"] = 4 /\ MergeLeft["writing"] = 3 /\ MergeLeft["unlocking"] = 2
        /\ MergeLeft["merged"] = 1 /\ MergeLeft["skipped"] = 1 /\ MergeLeft["failed"] = 1
    BY DEF MergeLeft
  <2> TAKE at \in WriterStages \ {"dead", "dead writing"}
  <2>2. at \in {"idle", "waiting", "reading", "truncating", "writing", "unlocking",
               "merged", "skipped", "failed"}
    BY DEF WriterStages
  <2>3. MergeLeft[at] \in {1, 2, 3, 4, 5, 6, 7}
    BY <2>1, <2>2
  <2> QED BY <1>0, <2>3
<1> QED BY <1>1, <1>2

LEMMA RaceLeftIsNat == TypeOK /\ SelfUnharmed => RaceLeft \in Nat
<1> SUFFICES ASSUME TypeOK, SelfUnharmed PROVE RaceLeft \in Nat
  OBVIOUS
<1>1. MergeLeft[stage[Self]] \in Nat
  BY MergeLeftBounds
<1>2. pc \in Stages
  BY DEF TypeOK
<1> DEFINE attempts == Cardinality(Attempts)
           missing == Cardinality(Attempts \ worktrees)
           waiting == Cardinality(tasks)
           asked == Cardinality(tasks \ ready)
           sorting == Cardinality(ready)
           merging == MergeLeft[stage[Self]]
<1>3. attempts \in Nat /\ missing \in Nat /\ waiting \in Nat /\ asked \in Nat /\ sorting \in Nat
  BY Counts
<1>4. RaceLeft \in {24 + 4 * attempts + missing, 22 + 4 * waiting, 23 + 4 * asked + sorting,
                   12 + waiting, 11 + waiting, 3 + merging, 2, 1, 0}
  BY <1>2, LeftEquations DEF Stages
<1> HIDE DEF attempts, missing, waiting, asked, sorting, merging
<1>5. merging \in Nat
  BY <1>1 DEF merging
<1> QED BY <1>3, <1>4, <1>5

(* One task of those that are done is taken. *)
LEMMA SortDescends ==
  ASSUME TypeOK, NEW i \in Attempts, Sort(i)
  PROVE  RaceLeft' < RaceLeft
<1>1. pc = "sort" /\ i \in ready /\ ready' = ready \ {i}
  BY DEF Sort
<1>2. Cardinality(ready') = Cardinality(ready) - 1
  BY <1>1, Counts, FS_RemoveElement
<1>3. CASE pc' = "kill" /\ tasks' = tasks
  BY <1>1, <1>3, Counts, LeftEquations, LeftEquationsAfter
<1>4. CASE pc' = "sort" /\ tasks' = tasks \ {i}
  <2>1. tasks' \ ready' = tasks \ ready
    BY <1>1, <1>4
  <2> DEFINE asked == Cardinality(tasks \ ready)
             sorting == Cardinality(ready)
  <2>2. asked \in Nat /\ sorting \in Nat
    BY Counts
  <2>3. RaceLeft = 23 + 4 * asked + sorting
    BY <1>1, LeftEquations
  <2>4. RaceLeft' = 23 + 4 * asked + (sorting - 1)
    <3>1. RaceLeft' = 23 + 4 * Cardinality(tasks' \ ready') + Cardinality(ready')
      BY <1>4, LeftEquationsAfter
    <3> QED BY <1>2, <2>1, <3>1
  <2> HIDE DEF asked, sorting
  <2> QED BY <2>2, <2>3, <2>4
<1> QED BY <1>1, <1>3, <1>4 DEF Sort, Leave, Collected

LEMMA WakeDescends ==
  ASSUME TypeOK, Wake
  PROVE  RaceLeft' < RaceLeft
<1>1. /\ pc = "wait" /\ pc' = "sort" /\ tasks' = tasks
      /\ ready' \subseteq tasks /\ ready' # {}
  BY DEF Wake
<1>2. IsFiniteSet(tasks) /\ Cardinality(tasks) \in Nat
  BY Counts
<1>3. IsFiniteSet(ready') /\ IsFiniteSet(tasks \ ready')
  <2>1. ready' \in SUBSET tasks /\ tasks \ ready' \in SUBSET tasks
    BY <1>1
  <2> QED BY <1>2, <2>1, FS_Subset
<1>4. /\ Cardinality(ready') \in Nat /\ Cardinality(tasks \ ready') \in Nat
      /\ Cardinality(ready') # 0
  BY <1>1, <1>3, FS_CardinalityType, FS_EmptySet
<1>5. Cardinality(tasks) = Cardinality(tasks \ ready') + Cardinality(ready')
  <2>1. (tasks \ ready') \cup ready' = tasks /\ (tasks \ ready') \cap ready' = {}
    BY <1>1
  <2>2. Cardinality((tasks \ ready') \cup ready')
          = Cardinality(tasks \ ready') + Cardinality(ready')
              - Cardinality((tasks \ ready') \cap ready')
    BY <1>3, FS_Union
  <2>3. Cardinality((tasks \ ready') \cap ready') = 0
    BY <2>1, FS_EmptySet
  <2>4. Cardinality(tasks)
          = Cardinality(tasks \ ready') + Cardinality(ready')
              - Cardinality((tasks \ ready') \cap ready')
    BY <2>1, <2>2
  <2> DEFINE asked == Cardinality(tasks \ ready')
             sorting == Cardinality(ready')
             both == Cardinality((tasks \ ready') \cap ready')
  <2> HIDE DEF asked, sorting, both
  <2>5. asked \in Nat /\ sorting \in Nat
    BY <1>4 DEF asked, sorting
  <2>6. both = 0 /\ Cardinality(tasks) = asked + sorting - both
    BY <2>3, <2>4 DEF asked, sorting, both
  <2>7. Cardinality(tasks) = asked + sorting
    BY <2>5, <2>6
  <2> QED BY <2>7 DEF asked, sorting
<1>6. RaceLeft = 22 + 4 * Cardinality(tasks)
  BY <1>1, LeftEquations
<1>7. RaceLeft' = 23 + 4 * Cardinality(tasks \ ready') + Cardinality(ready')
  <2>1. RaceLeft' = 23 + 4 * Cardinality(tasks' \ ready') + Cardinality(ready')
    BY <1>1, LeftEquationsAfter
  <2> QED BY <1>1, <2>1
<1> DEFINE waiting == Cardinality(tasks)
           asked == Cardinality(tasks \ ready')
           sorting == Cardinality(ready')
<1> HIDE DEF waiting, asked, sorting
<1>8. /\ asked \in Nat /\ sorting \in Nat /\ sorting # 0 /\ waiting = asked + sorting
      /\ RaceLeft = 22 + 4 * waiting /\ RaceLeft' = 23 + 4 * asked + sorting
  BY <1>4, <1>5, <1>6, <1>7 DEF waiting, asked, sorting
<1> QED BY <1>8

LEMMA RaceLeftStep ==
  TypeOK /\ SelfUnharmed /\ [Next]_vars => UNCHANGED OwnState \/ RaceLeft' < RaceLeft
<1> SUFFICES ASSUME TypeOK, SelfUnharmed, [Next]_vars
             PROVE  UNCHANGED OwnState \/ RaceLeft' < RaceLeft
  OBVIOUS
<1>0. /\ Cardinality(tasks) \in Nat /\ Cardinality(Attempts) \in Nat
      /\ MergeLeft[stage[Self]] \in Nat /\ MergeLeft[stage[Self]] >= 1
  BY Counts, MergeLeftBounds
<1>1. ASSUME NEW i \in Attempts, CreateWorktree(i) PROVE RaceLeft' < RaceLeft
  <2>1. /\ pc = "create" /\ worktrees' = worktrees \cup {i} /\ i \in Attempts \ worktrees
        /\ \/ pc' = "wait" /\ tasks' = Attempts
           \/ pc' = "create"
    BY <1>1 DEF CreateWorktree
  <2>2. Cardinality((Attempts \ worktrees) \ {i}) = Cardinality(Attempts \ worktrees) - 1
    BY <2>1, Counts, FS_RemoveElement
  <2>3. Attempts \ worktrees' = (Attempts \ worktrees) \ {i}
    BY <2>1
  <2> DEFINE attempts == Cardinality(Attempts)
             missing == Cardinality(Attempts \ worktrees)
  <2>4. attempts \in Nat /\ missing \in Nat
    BY Counts
  <2>5. RaceLeft = 24 + 4 * attempts + missing
    BY <2>1, LeftEquations
  <2>6. CASE pc' = "wait" /\ tasks' = Attempts
    <3>1. RaceLeft' = 22 + 4 * Cardinality(tasks')
      BY <2>6, LeftEquationsAfter
    <3>2. RaceLeft' = 22 + 4 * attempts
      BY <2>6, <3>1
    <3> HIDE DEF attempts, missing
    <3> QED BY <2>4, <2>5, <3>2
  <2>7. CASE pc' = "create"
    <3>1. RaceLeft' = 24 + 4 * attempts + Cardinality(Attempts \ worktrees')
      BY <2>7, LeftEquationsAfter
    <3>2. RaceLeft' = 24 + 4 * attempts + (missing - 1)
      BY <2>2, <2>3, <3>1
    <3> HIDE DEF attempts, missing
    <3> QED BY <2>4, <2>5, <3>2
  <2> QED BY <2>1, <2>6, <2>7
<1>2. ASSUME NEW i \in Attempts, Sort(i) PROVE RaceLeft' < RaceLeft
  BY <1>2, SortDescends
<1>3. ASSUME NEW i \in Attempts, Reap(i) PROVE RaceLeft' < RaceLeft
  <2>1. /\ pc = "reap" /\ i \in tasks
        /\ \/ pc' = "teardown"
           \/ pc' = "reap" /\ tasks' = tasks \ {i}
    BY <1>3 DEF Reap
  <2>2. Cardinality(tasks \ {i}) = Cardinality(tasks) - 1
    BY <2>1, Counts, FS_RemoveElement
  <2> DEFINE waiting == Cardinality(tasks)
  <2>3. waiting \in Nat /\ RaceLeft = 11 + waiting
    BY <1>0, <2>1, LeftEquations
  <2>4. CASE pc' = "teardown"
    <3>1. RaceLeft' = 1
      BY <2>4, LeftEquationsAfter
    <3> HIDE DEF waiting
    <3> QED BY <2>3, <3>1
  <2>5. CASE pc' = "reap" /\ tasks' = tasks \ {i}
    <3>1. RaceLeft' = 11 + Cardinality(tasks')
      BY <2>5, LeftEquationsAfter
    <3>2. RaceLeft' = 11 + (waiting - 1)
      BY <2>2, <2>5, <3>1
    <3> HIDE DEF waiting
    <3> QED BY <2>3, <3>2
  <2> QED BY <2>1, <2>4, <2>5
<1>4. CASE Wake
  BY <1>4, WakeDescends
<1>5. CASE SortEnds
  <2>1. /\ pc = "sort" /\ ready = {} /\ pc' \in {"wait", "kill"} /\ tasks' = tasks
    BY <1>5 DEF SortEnds, Leave, loopVars
  <2>2. tasks \ ready = tasks /\ Cardinality(ready) = 0
    BY <2>1, FS_EmptySet
  <2> QED BY <1>0, <2>1, <2>2, LeftEquations, LeftEquationsAfter
<1>6. CASE AllFinished \/ GlobalCap \/ Interrupt
  <2>1. pc = "wait" /\ pc' = "kill" /\ tasks' = tasks
    BY <1>6 DEF AllFinished, GlobalCap, Interrupt, Leave
  <2> QED BY <1>0, <2>1, LeftEquations, LeftEquationsAfter
<1>7. CASE Kill
  <2>1. pc = "kill" /\ pc' = "reap" /\ tasks' = tasks
    BY <1>7 DEF Kill, loopVars
  <2> QED BY <1>0, <2>1, LeftEquations, LeftEquationsAfter
<1>8. CASE ReapEnds
  <2>1. pc = "reap" /\ tasks = {} /\ pc' \in {"teardown", "merge", "report"}
        /\ stage' = stage
    BY <1>8 DEF ReapEnds, registryVars
  <2>2. MergeLeft[stage[Self]] <= 7
    BY MergeLeftBounds
  <2> QED BY <1>0, <2>1, <2>2, FS_EmptySet, LeftEquations, LeftEquationsAfter
<1>9. CASE MergeWinner
  <2>1. pc = "merge" /\ pc' = pc /\ Merge(Self)
    BY <1>9 DEF MergeWinner, raceVars
  <2>2. MergeLeft[stage[Self]'] < MergeLeft[stage[Self]] /\ MergeLeft[stage[Self]'] \in Nat
    BY <2>1, MergeDescends DEF TypeOK
  <2> QED BY <1>0, <2>1, <2>2, LeftEquations, LeftEquationsAfter
<1>10. CASE MergeEnds \/ Report \/ Teardown
  <2>1. \/ pc = "merge" /\ pc' \in {"teardown", "report"}
        \/ pc = "report" /\ pc' = "teardown"
        \/ pc = "teardown" /\ pc' = "done"
    BY <1>10 DEF MergeEnds, Report, Teardown
  <2> QED BY <1>0, <2>1, LeftEquations, LeftEquationsAfter
<1>11. CASE CreationFails
  <2>1. pc = "create" /\ pc' = "teardown"
    BY <1>11 DEF CreationFails
  <2> QED BY <2>1, Counts, LeftEquations, LeftEquationsAfter
<1>12. CASE Others
  <2>1. UNCHANGED <<pc, worktrees, tasks, ready>>
    BY <1>12 DEF Others, raceVars, loopVars
  <2>2. PICK w \in Writers \ {Self} : Merge(w) \/ Die(w)
    BY <1>12 DEF Others
  <2>3. stage' = stage \/ \E to : stage' = [stage EXCEPT ![w] = to]
    BY <2>2 DEF Merge, Ask, Acquire, GiveUp, Read, ReadFails, Truncate, Fill, Unlock, Go, Die
  <2>4. stage[Self]' = stage[Self]
    BY <2>2, <2>3, SelfLives DEF TypeOK, RegistryTypeOK
  <2> QED BY <2>1, <2>4 DEF OwnState
<1>13. ASSUME NEW i \in Attempts,
              Attempt(i) \/ SpawnFails(i) \/ StartAgent(i) \/ AgentEnds(i) \/ WriteResult(i)
       PROVE  UNCHANGED OwnState
  BY <1>13
  DEF Attempt, Spawn, Exit, Returns, SpawnFails, StartAgent, AgentEnds, WriteResult,
      loopVars, registryVars, OwnState
<1>14. CASE UNCHANGED vars
  BY <1>14 DEF vars, raceVars, loopVars, registryVars, OwnState
<1> QED
  BY <1>1, <1>2, <1>3, <1>4, <1>5, <1>6, <1>7, <1>8, <1>9, <1>10, <1>11, <1>12, <1>13, <1>14
  DEF Next, Loop

(***************************************************************************)
(* A race spends its own steps (race.py 306-344, 404-450): whatever its    *)
(* attempts and its rivals do, each step of the race itself is one of at   *)
(* most five for each attempt, and two dozen more.                         *)
(***************************************************************************)
THEOREM RaceIsBounded ==
  Spec => [](RaceLeft \in Nat) /\ [][UNCHANGED OwnState \/ RaceLeft' < RaceLeft]_vars
<1>1. Init => SelfUnharmed
  BY RaceAssumption DEF Init, RegistryInit, SelfUnharmed, Writers
<1>2. TypeOK /\ SelfUnharmed /\ [Next]_vars => SelfUnharmed'
  BY RaceIsAWriter, SelfUnharmedStep DEF TypeOK
<1>3. TypeOK /\ SelfUnharmed /\ [Next]_vars => [UNCHANGED OwnState \/ RaceLeft' < RaceLeft]_vars
  BY RaceLeftStep
<1> QED
  BY <1>1, <1>2, <1>3, RaceLeftIsNat, RaceTypeCorrect, PTL DEF Spec
=============================================================================
