-------------------------------- MODULE Race --------------------------------
(***************************************************************************)
(* race.py: several cold attempts at one target, each a run.py process in  *)
(* a worktree and a session of its own; the first that reports success     *)
(* wins, the rest are killed, and the winner's entry is merged into the    *)
(* registry that other writers share.                                      *)
(***************************************************************************)
EXTENDS FinalGate, Registry, Integers

CONSTANTS
  Attempts,  (* 1..K                                                     *)
  Labels,    (* the end reasons an attempt may report                    *)
  Leftovers, (* what an earlier race of the same run id may have left    *)
  Faults,    (* what may go wrong: worktree, spawn, interrupt            *)
  Self,      (* this race, as a writer of the registry                   *)
  None

ASSUME RaceAssumption ==
  /\ Attempts # {} /\ Attempts \subseteq Nat /\ IsFiniteSet(Attempts)
  /\ Labels \subseteq FinalReasons /\ Leftovers \subseteq Labels
  /\ Faults \subseteq {"worktree", "spawn", "interrupt"}
  /\ Self \in Racers \ Mortals
  /\ None \notin Attempts
  /\ "absent" \notin Labels /\ "pending" \notin Labels /\ "raised" \notin Labels

VARIABLES
  pc,         (* where the race is                                       *)
  worktrees,  (* the worktrees on disk                                   *)
  owned,      (* the list its finally tears down                         *)
  proc,       (* the process of each attempt                             *)
  agents,     (* attempts with a live agent, in a session of its own     *)
  disk,       (* the end reason in each result.json                      *)
  fresh,      (* attempts that wrote their result.json in this race      *)
  live,       (* live_pids                                               *)
  tasks,      (* the asyncio tasks not collected yet                     *)
  ready,      (* the tasks that the last wait found done                 *)
  outcome,    (* what each task returned                                 *)
  finished,   (* the outcomes collected                                  *)
  winner,
  left,       (* why the wait loop was left                              *)
  report      (* race_result.json                                        *)

attemptVars == <<proc, agents, disk, fresh>>
loopVars == <<tasks, ready, finished, winner, left>>
raceVars == <<pc, worktrees, owned, attemptVars, live, outcome, loopVars, report>>
vars == <<raceVars, registryVars>>

Stages == {"create", "wait", "sort", "kill", "reap", "merge", "report", "teardown", "done"}
Results == Labels \cup {"absent"}

Init ==
  /\ pc = "create" /\ worktrees = {} /\ owned = {}
  /\ proc = [i \in Attempts |-> "none"] /\ agents = {} /\ fresh = {}
  /\ disk \in [Attempts -> Leftovers \cup {"absent"}]
  /\ live = {} /\ tasks = {} /\ ready = {} /\ finished = {}
  /\ outcome = [i \in Attempts |-> "pending"]
  /\ winner = None /\ left = "none" /\ report = None
  /\ RegistryInit

(* A label is a success exactly if it is COMPLETE.  Mutant: any result is. *)
AnyResultWins(i) == outcome[i] \in Labels
Won(i) == outcome[i] = "COMPLETE"

------------------------------------------------------------------------------
(* Setting up: the worktrees, one after the other.                         *)

(* The finally knows the list only once every worktree has been created. *)
CreateWorktree(i) ==
  /\ pc = "create" /\ i \notin worktrees
  /\ worktrees' = worktrees \cup {i}
  /\ IF worktrees' = Attempts
     THEN owned' = Attempts /\ tasks' = Attempts /\ pc' = "wait"
     ELSE UNCHANGED <<owned, tasks, pc>>
  /\ UNCHANGED <<attemptVars, live, ready, outcome, finished, winner, left, report, registryVars>>

CreationFails ==
  /\ pc = "create"
  /\ Faults \cap {"worktree", "interrupt"} # {}
  /\ pc' = "teardown" /\ left' = "raised"
  /\ UNCHANGED <<worktrees, owned, attemptVars, live, tasks, ready, outcome,
                 finished, winner, report, registryVars>>

------------------------------------------------------------------------------
(* The attempts.  Their coroutines run only while the race awaits.         *)

Awaiting == pc \in {"wait", "reap"}

(* The pid a spawned attempt is killed by.  Mutant: known once it exits. *)
RegisteredAtExit(i) == live
Registered(i) == live \cup {i}

Spawn(i) ==
  /\ Awaiting /\ i \in tasks
  /\ proc[i] = "none" /\ outcome[i] = "pending"
  /\ proc' = [proc EXCEPT ![i] = "running"]
  /\ live' = Registered(i)
  /\ UNCHANGED <<pc, worktrees, owned, agents, disk, fresh, outcome, loopVars, report, registryVars>>

SpawnFails(i) ==
  /\ "spawn" \in Faults
  /\ Awaiting /\ i \in tasks
  /\ proc[i] = "none" /\ outcome[i] = "pending"
  /\ outcome' = [outcome EXCEPT ![i] = "raised"]
  /\ UNCHANGED <<pc, worktrees, owned, attemptVars, live, loopVars, report, registryVars>>

(* run.py starts its agent in a session of its own, and waits for it. *)
StartAgent(i) ==
  /\ proc[i] = "running" /\ i \notin agents /\ i \notin fresh
  /\ agents' = agents \cup {i}
  /\ UNCHANGED <<pc, worktrees, owned, proc, disk, fresh, live, outcome, loopVars, report, registryVars>>

AgentEnds(i) ==
  /\ i \in agents
  /\ agents' = agents \ {i}
  /\ UNCHANGED <<pc, worktrees, owned, proc, disk, fresh, live, outcome, loopVars, report, registryVars>>

WriteResult(i) ==
  /\ proc[i] = "running" /\ i \notin agents /\ i \notin fresh
  /\ \E label \in Labels : disk' = [disk EXCEPT ![i] = label]
  /\ fresh' = fresh \cup {i}
  /\ UNCHANGED <<pc, worktrees, owned, proc, agents, live, outcome, loopVars, report, registryVars>>

(* With or without a result.  No attempt is so short as to end before all *)
(* have been launched.                                                    *)
Exit(i) ==
  /\ proc[i] = "running" /\ i \notin agents
  /\ \A j \in tasks : proc[j] # "none" \/ outcome[j] # "pending"
  /\ proc' = [proc EXCEPT ![i] = "exited"]
  /\ UNCHANGED <<pc, worktrees, owned, agents, disk, fresh, live, outcome, loopVars, report, registryVars>>

(* The task of an attempt resumes after proc.wait and reads result.json. *)
Returns(i) ==
  /\ Awaiting /\ i \in tasks
  /\ proc[i] \in {"exited", "killed"} /\ outcome[i] = "pending"
  /\ live' = live \ {i}
  /\ outcome' = [outcome EXCEPT ![i] = disk[i]]
  /\ UNCHANGED <<pc, worktrees, owned, attemptVars, loopVars, report, registryVars>>

------------------------------------------------------------------------------
(* _race: the wait loop.                                                   *)

Leave(why) == left' = why /\ pc' = "kill"

Wake ==
  /\ pc = "wait"
  /\ ready' = {i \in tasks : outcome[i] # "pending"}
  /\ ready' # {}
  /\ pc' = "sort"
  /\ UNCHANGED <<worktrees, owned, attemptVars, live, tasks, outcome, finished,
                 winner, left, report, registryVars>>

(* The cap is looked at only between two waits. *)
GlobalCap ==
  /\ pc = "wait" /\ tasks # {}
  /\ Leave("cap")
  /\ UNCHANGED <<worktrees, owned, attemptVars, live, tasks, ready, outcome,
                 finished, winner, report, registryVars>>

AllFinished ==
  /\ pc = "wait" /\ tasks = {}
  /\ Leave("all")
  /\ UNCHANGED <<worktrees, owned, attemptVars, live, tasks, ready, outcome,
                 finished, winner, report, registryVars>>

Interrupt ==
  /\ "interrupt" \in Faults
  /\ pc = "wait" /\ tasks # {}
  /\ Leave("raised")
  /\ UNCHANGED <<worktrees, owned, attemptVars, live, tasks, ready, outcome,
                 finished, winner, report, registryVars>>

(* Mutants: a loser's task stays in the dictionary; the last success wins. *)
CollectedIfWon(i) == IF Won(i) THEN tasks \ {i} ELSE tasks
Collected(i) == tasks \ {i}

LastToWin(i) == IF Won(i) THEN i ELSE winner
Committed(i) == IF Won(i) /\ winner = None THEN i ELSE winner

(* The done tasks are taken in no particular order. *)
Sort(i) ==
  /\ pc = "sort" /\ i \in ready
  /\ ready' = ready \ {i}
  /\ IF outcome[i] = "raised"
     THEN Leave("raised") /\ UNCHANGED <<tasks, finished, winner>>
     ELSE /\ tasks' = Collected(i)
          /\ finished' = finished \cup {i}
          /\ winner' = Committed(i)
          /\ UNCHANGED <<left, pc>>
  /\ UNCHANGED <<worktrees, owned, attemptVars, live, outcome, report, registryVars>>

SortEnds ==
  /\ pc = "sort" /\ ready = {}
  /\ IF winner = None THEN pc' = "wait" /\ UNCHANGED left ELSE Leave("winner")
  /\ UNCHANGED <<worktrees, owned, attemptVars, live, tasks, ready, outcome,
                 finished, winner, report, registryVars>>

------------------------------------------------------------------------------
(* _race: its finally.                                                     *)

(* Reaches the group of run.py, not the session of its agent. *)
Kill ==
  /\ pc = "kill"
  /\ proc' = [i \in Attempts |->
                IF i \in live /\ proc[i] = "running" THEN "killed" ELSE proc[i]]
  /\ pc' = "reap"
  /\ UNCHANGED <<worktrees, owned, agents, disk, fresh, live, outcome, loopVars,
                 report, registryVars>>

(* In the order of their creation; one that raises abandons the rest. *)
Reap(i) ==
  /\ pc = "reap" /\ i \in tasks
  /\ outcome[i] # "pending"
  /\ \A j \in tasks : i <= j
  /\ IF outcome[i] = "raised"
     THEN /\ pc' = "teardown" /\ left' = "raised"
          /\ UNCHANGED <<tasks, finished>>
     ELSE /\ tasks' = tasks \ {i}
          /\ finished' = finished \cup {i}
          /\ UNCHANGED <<pc, left>>
  /\ UNCHANGED <<worktrees, owned, attemptVars, live, ready, outcome, winner, report, registryVars>>

ReapEnds ==
  /\ pc = "reap" /\ tasks = {}
  /\ pc' = CASE left = "raised" -> "teardown"
             [] winner # None   -> "merge"
             [] OTHER           -> "report"
  /\ UNCHANGED <<worktrees, owned, attemptVars, live, outcome, loopVars, report, registryVars>>

------------------------------------------------------------------------------
(* race_task, with the loop's result.                                      *)

MergeWinner ==
  /\ pc = "merge"
  /\ Merge(Self)
  /\ UNCHANGED raceVars

(* An unreadable registry raises: the race ends without a report. *)
MergeEnds ==
  /\ pc = "merge"
  /\ stage[Self] \in {"merged", "skipped", "failed"}
  /\ pc' = IF stage[Self] = "failed" THEN "teardown" ELSE "report"
  /\ UNCHANGED <<worktrees, owned, attemptVars, live, outcome, loopVars, report, registryVars>>

(* _aggregate_end_reason; the ranking of the losers is left open.  Mutant: *)
(* the best loser's reason, be there one or not.                           *)
Reasons == {outcome[i] : i \in finished} \ {"absent"}
AggregateRaw(best) ==
  IF "NEEDS_DECOMP" \in Reasons THEN "NEEDS_DECOMP" ELSE outcome[best]
Aggregate(best) ==
  IF "NEEDS_DECOMP" \in Reasons THEN "NEEDS_DECOMP"
  ELSE IF outcome[best] = "absent" THEN "LIMIT" ELSE outcome[best]

Report ==
  /\ pc = "report"
  /\ IF winner # None
     THEN report' = [success |-> TRUE, reason |-> outcome[winner]]
     ELSE \E best \in finished : report' = [success |-> FALSE, reason |-> Aggregate(best)]
  /\ pc' = "teardown"
  /\ UNCHANGED <<worktrees, owned, attemptVars, live, outcome, loopVars, registryVars>>

Teardown ==
  /\ pc = "teardown"
  /\ worktrees' = worktrees \ owned
  /\ pc' = "done"
  /\ UNCHANGED <<owned, attemptVars, live, outcome, loopVars, report, registryVars>>

------------------------------------------------------------------------------
Loop == \/ Wake \/ AllFinished \/ SortEnds \/ Kill \/ ReapEnds \/ MergeWinner
        \/ MergeEnds \/ Report \/ Teardown
        \/ \E i \in Attempts : CreateWorktree(i) \/ Sort(i) \/ Reap(i)

Attempt(i) == Spawn(i) \/ Exit(i) \/ Returns(i)

Others == /\ \E w \in Writers \ {Self} : Merge(w) \/ Die(w)
          /\ UNCHANGED raceVars

Next == \/ Loop \/ GlobalCap \/ Interrupt \/ CreationFails \/ Others
        \/ \E i \in Attempts : \/ Attempt(i) \/ SpawnFails(i) \/ StartAgent(i)
                               \/ AgentEnds(i) \/ WriteResult(i)

Spec == Init /\ [][Next]_vars

(* The race itself never stops; a run.py bounds its agent's turns and ends, *)
(* while nothing bounds an agent whose run.py was killed.                   *)
Fairness == /\ WF_vars(Loop)
            /\ \A i \in Attempts : WF_vars(Spawn(i) \/ Returns(i)) /\ SF_vars(Exit(i))
            /\ \A i \in Attempts : WF_vars(proc[i] = "running" /\ AgentEnds(i))
FairSpec == Spec /\ Fairness

------------------------------------------------------------------------------
TypeOK ==
  /\ RegistryTypeOK
  /\ pc \in Stages
  /\ worktrees \subseteq Attempts /\ owned \subseteq Attempts
  /\ proc \in [Attempts -> {"none", "running", "exited", "killed"}]
  /\ agents \subseteq Attempts /\ fresh \subseteq Attempts
  /\ disk \in [Attempts -> Results]
  /\ live \subseteq Attempts /\ tasks \subseteq Attempts /\ ready \subseteq Attempts
  /\ outcome \in [Attempts -> Results \cup {"pending", "raised"}]
  /\ finished \subseteq Attempts /\ finished \cap tasks = {}
  /\ winner \in Attempts \cup {None}
  /\ left \in {"none", "winner", "cap", "all", "raised"}
  /\ report \in [success : BOOLEAN, reason : Labels \cup {"LIMIT"}] \cup {None}

(***************************************************************************)
(* The verdict follows the results on disk, in both directions: a success  *)
(* is that of a collected attempt that ended by itself, before the kill,   *)
(* and whose result.json says COMPLETE; and a race whose attempts were all *)
(* waited for does not fail while one of them has a COMPLETE to show.      *)
(***************************************************************************)
VerdictFollowsResults ==
  report # None =>
    /\ report.success => /\ winner \in finished /\ proc[winner] = "exited"
                         /\ disk[winner] = "COMPLETE" /\ report.reason = "COMPLETE"
    /\ ~report.success /\ left = "all" => \A i \in Attempts : disk[i] # "COMPLETE"

(***************************************************************************)
(* The winner is whoever the race commits to first: no later success, of   *)
(* the same wait or of a loser racing the kill, takes its place.           *)
(***************************************************************************)
WinnerStands == [][winner # None => winner' = winner]_vars

(***************************************************************************)
(* Cancellation is total: once the kill has been made for a winner, no     *)
(* attempt's run.py is left running, and none starts.                      *)
(***************************************************************************)
LosersAreKilled ==
  left = "winner" /\ pc # "kill" => \A i \in Attempts : proc[i] # "running"

(***************************************************************************)
(* The race ends, whatever its attempts do and whoever holds the lock.     *)
(***************************************************************************)
RaceEnds == <>(pc = "done")

(***************************************************************************)
(* "Cancelling a loser = os.killpg(SIGKILL) on its group - claude + cargo  *)
(* verus + z3 + Monitor loops" (race.py 15-16): no agent of this race is   *)
(* at work once its worktrees have been removed.                           *)
(***************************************************************************)
NoAgentOutlives == pc = "done" => agents = {}

(***************************************************************************)
(* "An attempt wins iff its result.json has success==True ... If all K     *)
(* fail -> best loser + aggregate end_reason, no false green" (race.py     *)
(* 17-20): the success a race reports was earned in this race, by a result *)
(* its winner wrote.                                                       *)
(***************************************************************************)
NoFalseGreen ==
  report # None /\ report.success => winner \in fresh
==============================================================================
