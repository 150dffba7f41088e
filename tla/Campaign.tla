------------------------------ MODULE Campaign ------------------------------
(***************************************************************************)
(* A sweep over several modules under one run id, by one of two drivers:   *)
(* run_layer.py calls run_task in its own process and resumes from         *)
(* result.json; launch.sh starts one run.py per target, archives earlier   *)
(* receipts and has usage_audit.py write the cost receipt.  A task is what *)
(* the drivers see of it: agent turns and what they leave on disk, then    *)
(* the promotion receipt, result.json and the registry entry.  The drivers *)
(* and the task may die between any two steps.                             *)
(***************************************************************************)
EXTENDS UsageAudit

CONSTANTS
  Plan,         (* the modules of the layer set, in order                *)
  Stem,         (* the file stem of each module, its task id             *)
  Drivers,      (* "launch" (launch.sh), "layer" (run_layer.py)          *)
  MaxLaunches,  (* bound: launches under this run id                     *)
  MaxRounds,    (* --rounds                                              *)
  MaxStreams,   (* bound: agent turns in all                             *)
  MaxFaults,    (* bound: deaths, signals and exceptions                 *)
  Totals,       (* bound: the provider totals an operator may supply     *)
  Costs,        (* bound: what one terminal event may name               *)
  None

Modules == Range(Plan)
(* A run_task in progress, its rounds beginning after the stream `from`. *)
Run == [module : Modules, round : Nat, from : Nat,
        step : {"round", "agent", "turned", "gate", "verdict", "promoted", "reported"},
        label : {"none", "RATE_LIMITED", "LIMIT", "COMPLETE"}]

ASSUME CampaignAssumption ==
  /\ Plan \in Seq(Modules) /\ DOMAIN Stem = Modules
  /\ Drivers \subseteq {"launch", "layer"}
  /\ {MaxLaunches, MaxRounds, MaxStreams} \subseteq Nat \ {0} /\ MaxFaults \in Nat
  /\ Totals \cup Costs \subseteq Nat
  /\ Cardinality({NoRaw, NoRecord, Unpriced, Disowned, None}) = 5
  /\ NoRecord # Unpriced /\ {NoRecord, Unpriced, Disowned} \cap Nat = {}
  /\ None \notin Run

VARIABLES
  driver, skipExisting, resume,  (* the command line                     *)
  pc,         (* where the driver is                                     *)
  launches,   (* launches so far                                         *)
  todo,       (* positions in Plan this launch has not come to           *)
  task,       (* the run_task in progress, or None                       *)
  streams,    (* every agent turn so far                                 *)
  dirs,       (* results/<run id>/<task id>, by task id                  *)
  registry,   (* names in proven_registry.json                           *)
  segs,       (* launch_envelope.json: the status of each launch         *)
  audit,      (* usage_audit.json, or None                               *)
  summary,    (* the layer summary being built                           *)
  faults,     (* what went wrong so far                                  *)
  skipped,    (* history: modules a driver skipped as already done       *)
  proven      (* history: modules whose own run was accepted             *)

options == <<driver, skipExisting, resume>>
vars == <<options, pc, launches, todo, task, streams, dirs, registry, segs, audit,
          summary, faults, skipped, proven>>

NoDir == [exists |-> FALSE, receipt |-> None, result |-> None]
NoSummary == [recorded |-> 0, unknownRounds |-> 0, unknownModules |-> 0, written |-> FALSE]
Live == <<>>  (* where a stream is: the task directory, or an archive slot *)

Init ==
  /\ driver \in Drivers /\ skipExisting \in BOOLEAN
  /\ resume = (driver = "layer")
  /\ pc = "idle" /\ launches = 0 /\ todo = {} /\ task = None
  /\ streams = <<>> /\ dirs = [t \in Range(Stem) |-> NoDir] /\ registry = {}
  /\ segs = <<>> /\ audit = None /\ summary = NoSummary
  /\ faults = 0 /\ skipped = {} /\ proven = {}

Fault == faults < MaxFaults /\ faults' = faults + 1

(* What usage_audit.py writes over these streams and launches. *)
Running(segments) == "running" \in Range(segments)
Audited(ss, segments) ==
  AuditOf(ss, Len(segments), Running(segments),
          IF audit = None THEN NoReconciliation
          ELSE Carry(audit.reconciliation, Basis(ss, Len(segments)), Running(segments)))

(* Does an earlier result under this run id say the task succeeded?        *)
(* Mutant: any result does.                                                *)
ResultExists(m) == dirs[Stem[m]].result # None
PreviouslySuccessful(m) ==
  dirs[Stem[m]].result # None /\ dirs[Stem[m]].result.success
AlreadyProven(m) == skipExisting /\ Stem[m] \in registry
Skips(m) == AlreadyProven(m) \/ (resume /\ PreviouslySuccessful(m))
Unskipped == {p \in DOMAIN Plan : ~Skips(Plan[p])}
Upcoming == Plan[Min(todo)]
TargetDone == todo' = todo \ {Min(todo)}
HasRoom == Len(streams) + Cardinality(Unskipped) <= MaxStreams
----------------------------------------------------------------------------
(* The drivers. *)

(* run_layer.py decides all its skips before the first task. *)
StartLayer ==
  /\ driver = "layer" /\ pc = "idle" /\ launches < MaxLaunches /\ task = None
  /\ HasRoom
  /\ launches' = launches + 1 /\ pc' = "pick" /\ summary' = NoSummary
  /\ todo' = Unskipped
  /\ skipped' = skipped \cup {m \in Modules : Skips(m)}
  /\ UNCHANGED <<options, faults, task, streams, dirs, registry, segs, audit, proven>>

(* launch.sh opens its segment and audits before it spends anything. *)
StartLaunch ==
  /\ driver = "launch" /\ pc = "idle" /\ launches < MaxLaunches /\ task = None
  /\ HasRoom
  /\ launches' = launches + 1 /\ pc' = "pick" /\ todo' = DOMAIN Plan
  /\ segs' = Append(segs, "running")
  /\ audit' = Audited(streams, segs')
  /\ UNCHANGED <<options, faults, task, streams, dirs, registry, summary, skipped, proven>>

SkipTarget ==
  /\ driver = "launch" /\ pc = "pick" /\ todo # {} /\ AlreadyProven(Upcoming)
  /\ TargetDone /\ skipped' = skipped \cup {Upcoming}
  /\ UNCHANGED <<options, faults, pc, launches, task, streams, dirs, registry, segs, audit,
                 summary, proven>>

(* Mutant: only a directory with a result is worth archiving. *)
HasResult(t) == dirs[t].result # None
NeedsArchive(t) == dirs[t].exists

(* Earlier attempts at a task, this launch's own included, are moved out   *)
(* of the way: <launch>/<task>, <launch>/<task>.2, ... the first free.     *)
FreeSlot(t) ==
  LET taken == {streams[i].place : i \in {j \in DOMAIN streams : streams[j].task = t}}
  IN  <<launches, CHOOSE k \in 1..(Len(streams) + 1) :
                    /\ <<launches, k>> \notin taken
                    /\ \A j \in 1..(k - 1) : <<launches, j>> \in taken>>
Archived(t) ==
  [i \in DOMAIN streams |->
     IF streams[i].task = t /\ streams[i].place = Live
     THEN [streams[i] EXCEPT !.place = FreeSlot(t)] ELSE streams[i]]

Archive ==
  /\ driver = "launch" /\ pc = "pick" /\ todo # {} /\ ~AlreadyProven(Upcoming)
  /\ LET t == Stem[Upcoming]
     IN  IF NeedsArchive(t)
         THEN streams' = Archived(t) /\ dirs' = [dirs EXCEPT ![t] = NoDir]
         ELSE UNCHANGED <<streams, dirs>>
  /\ pc' = "archived"
  /\ UNCHANGED <<options, faults, launches, todo, task, registry, segs, audit, summary, skipped, proven>>

AuditArchive ==
  /\ pc = "archived" /\ pc' = "spawn" /\ audit' = Audited(streams, segs)
  /\ UNCHANGED <<options, faults, launches, todo, task, streams, dirs, registry, segs, summary,
                 skipped, proven>>

Spawn ==
  /\ pc = (IF driver = "launch" THEN "spawn" ELSE "pick") /\ todo # {}
  /\ task' = [module |-> Upcoming, step |-> "round", round |-> 1, label |-> "none",
              from |-> Len(streams)]
  /\ dirs' = [dirs EXCEPT ![Stem[Upcoming]].exists = TRUE]
  /\ pc' = "wait" /\ TargetDone
  /\ UNCHANGED <<options, faults, launches, streams, registry, segs, audit, summary, skipped, proven>>

(* launch.sh after run.py: stop on a rate limit, else audit and go on. *)
Return(rc) ==
  /\ task' = None
  /\ IF driver = "launch"
     THEN /\ audit' = Audited(streams, segs)
          /\ todo' = IF rc = 42 THEN {} ELSE todo
     ELSE UNCHANGED <<audit, todo>>
  /\ pc' = "pick"

Finish ==
  /\ pc = "pick" /\ todo = {} /\ pc' = "idle"
  /\ IF driver = "launch"
     THEN /\ segs' = [segs EXCEPT ![launches] = "sealed"]
          /\ audit' = Audited(streams, segs')
          /\ UNCHANGED summary
     ELSE /\ summary' = [summary EXCEPT !.written = TRUE]
          /\ UNCHANGED <<segs, audit>>
  /\ UNCHANGED <<options, faults, launches, todo, task, streams, dirs, registry, skipped, proven>>

(* A signal to launch.sh takes effect between two children: its EXIT trap  *)
(* seals the segment with what there is.                                   *)
Interrupt ==
  /\ driver = "launch" /\ pc \in {"pick", "archived", "spawn"}
  /\ pc' = "idle" /\ todo' = {}
  /\ segs' = [segs EXCEPT ![launches] = "sealed"]
  /\ audit' = Audited(streams, segs')
  /\ Fault
  /\ UNCHANGED <<options, launches, task, streams, dirs, registry, summary, skipped, proven>>

(* Everything dies at once.  An agent is a session of its own: `task` is   *)
(* gone, its stream may still grow (OrphanTurn).                           *)
Die ==
  /\ pc # "idle" /\ pc' = "idle" /\ todo' = {} /\ task' = None
  /\ Fault
  /\ UNCHANGED <<options, launches, streams, dirs, registry, segs, audit, summary, skipped, proven>>

(* An operator audits the last launch again, sealing it, with or without   *)
(* a total from the provider.                                              *)
OperatorAudit ==
  /\ driver = "launch" /\ pc = "idle" /\ launches > 0
  /\ segs' = [segs EXCEPT ![launches] = "sealed"]
  /\ \/ audit' = Audited(streams, segs')
     \/ \E total \in Totals :
          audit' = AuditOf(streams, Len(segs), Running(segs'),
                           Reconcile(total, Basis(streams, Len(segs))))
  /\ UNCHANGED <<options, faults, pc, launches, todo, task, streams, dirs, registry, summary,
                 skipped, proven>>
----------------------------------------------------------------------------
(* The task. *)
At(step) == task # None /\ task.step = step
Tid == Stem[task.module]
Goto(step) == task' = [task EXCEPT !.step = step]
driverVars == <<options, faults, pc, launches, todo, segs, audit, summary, skipped>>

(* The lifecycle receipt is on disk before the agent is. *)
BeginRound ==
  /\ At("round")
  /\ streams' = Append(streams, [task |-> Tid, place |-> Live, round |-> task.round,
       launch |-> launches, lifecycle |-> "started", raw |-> NoRaw, record |-> NoRecord,
       billed |-> 0, open |-> TRUE, halt |-> FALSE])
  /\ Goto("agent")
  /\ UNCHANGED <<driverVars, dirs, registry, proven>>

(* How a turn may end: what its stream says and what it is billed.         *)
Priced(costs) == [events |-> Len(costs), costs |-> costs, torn |-> FALSE]
PricedTurns ==
  {[raw |-> Priced(<<cost>>), billed |-> cost, halt |-> halt] : cost \in Costs, halt \in BOOLEAN}
AmbiguousTurns ==
  {[raw |-> Priced(costs), billed |-> Largest(Range(costs)), halt |-> FALSE] :
     costs \in Costs \X Costs}
UnpricedTurns ==
  {[raw |-> [events |-> events, costs |-> <<>>, torn |-> events = 0], billed |-> cost,
    halt |-> FALSE] : events \in 0..1, cost \in Costs}
Turns == PricedTurns \cup AmbiguousTurns \cup UnpricedTurns
EndTurn(i) ==
  \E turn \in Turns :
    streams' = [streams EXCEPT ![i].raw = turn.raw, ![i].billed = turn.billed,
                               ![i].halt = turn.halt, ![i].open = FALSE]

Turn ==
  /\ At("agent") /\ EndTurn(Len(streams)) /\ Goto("turned")
  /\ UNCHANGED <<driverVars, dirs, registry, proven>>

OrphanTurn ==
  /\ \E i \in DOMAIN streams :
       /\ streams[i].open /\ ~(At("agent") /\ i = Len(streams))
       /\ EndTurn(i)
  /\ UNCHANGED <<driverVars, task, dirs, registry, proven>>

This == Len(streams)
RateLimited == streams[This].halt
AfterTurn ==
  IF RateLimited THEN [task EXCEPT !.step = "verdict", !.label = "RATE_LIMITED"]
  ELSE [task EXCEPT !.step = "gate"]
SealTurn ==
  /\ At("turned")
  /\ streams' = [streams EXCEPT ![This].lifecycle = "exited"]
  /\ task' = AfterTurn
  /\ UNCHANGED <<driverVars, dirs, registry, proven>>

(* The round record names the last terminal event's cost, if it has one.   *)
LastCost(s) == IF TerminalCosts(s) = <<>> THEN Unpriced ELSE Last(TerminalCosts(s))
(* Mutant: one round too many. *)
MoreRoundsLate == task.round <= MaxRounds
MoreRounds == task.round < MaxRounds
RecordRound ==
  /\ At("gate")
  /\ streams' = [streams EXCEPT ![This].record = LastCost(streams[This])]
  /\ \/ /\ Events(streams[This]) > 0 /\ MoreRounds
        /\ Len(streams) + Cardinality(todo) < MaxStreams
        /\ task' = [task EXCEPT !.step = "round", !.round = @ + 1]
     \/ task' = [task EXCEPT !.step = "verdict", !.label = "LIMIT"]
     \/ /\ Events(streams[This]) > 0
        /\ task' = [task EXCEPT !.step = "verdict", !.label = "COMPLETE"]
  /\ UNCHANGED <<driverVars, dirs, registry, proven>>

(* Mutant: an exception costs nothing. *)
FreeException == summary
UnreceiptedModule == [summary EXCEPT !.unknownModules = @ + 1]

(* An exception leaves run_task: run_layer.py catches it and counts the    *)
(* module as unreceipted; run.py dies of it with status 1.                 *)
LeaveByException ==
  /\ Return(1)
  /\ summary' = IF driver = "layer" THEN UnreceiptedModule ELSE summary

Success == task.label = "COMPLETE"
(* The promotion receipt of a task id is written once: one that differs    *)
(* from the one on disk raises.  It names the verdict, the gate of the     *)
(* module and the tree, so that only an attempt at the same module with    *)
(* the same verdict can repeat it, and only if it left the same tree.      *)
Receipt == [of |-> task.module, success |-> Success]
WriteReceipt ==
  /\ At("verdict")
  /\ \/ /\ dirs[Tid].receipt \in {None, Receipt}
        /\ dirs' = [dirs EXCEPT ![Tid].receipt = Receipt]
        /\ Goto("promoted")
        /\ UNCHANGED <<pc, todo, audit, summary>>
     \/ /\ dirs[Tid].receipt # None
        /\ LeaveByException
        /\ UNCHANGED dirs
  /\ proven' = IF Success THEN proven \cup {task.module} ELSE proven
  /\ UNCHANGED <<options, faults, launches, segs, skipped, streams, registry>>

WriteResult ==
  /\ At("promoted")
  /\ dirs' = [dirs EXCEPT ![Tid].result = [success |-> Success]]
  /\ Goto("reported")
  /\ UNCHANGED <<driverVars, streams, registry, proven>>

(* The rounds of the task that is returning, as run_layer.py adds them up. *)
OwnRounds == {i \in (task.from + 1)..Len(streams) : streams[i].record # NoRecord}
PricedRounds == {i \in OwnRounds : streams[i].record # Unpriced}
OwnCosts == [i \in DOMAIN streams |-> IF i \in PricedRounds THEN streams[i].record ELSE 0]
Aggregated ==
  [summary EXCEPT !.recorded = @ + Total(OwnCosts),
                  !.unknownRounds = @ + Cardinality(OwnRounds \ PricedRounds)]

Register ==
  /\ At("reported")
  /\ registry' = IF Success THEN registry \cup {Tid} ELSE registry
  /\ Return(IF task.label = "RATE_LIMITED" THEN 42 ELSE IF Success THEN 0 ELSE 1)
  /\ summary' = IF driver = "layer" THEN Aggregated ELSE summary
  /\ UNCHANGED <<options, faults, launches, segs, streams, dirs, skipped, proven>>

(* Any other exception in run_task: a verifier that times out, a full disk. *)
Raise ==
  /\ task # None /\ task.step # "agent" /\ Fault
  /\ LeaveByException
  /\ UNCHANGED <<options, launches, segs, streams, dirs, registry, skipped, proven>>

(* run.py alone is killed; its agent may live on. *)
KillTask ==
  /\ driver = "launch" /\ task # None
  /\ Return(137)
  /\ Fault
  /\ UNCHANGED <<options, launches, segs, streams, dirs, registry, summary, skipped, proven>>

Drive == \/ StartLayer \/ StartLaunch \/ SkipTarget \/ Archive \/ AuditArchive
         \/ Spawn \/ Finish
Work == \/ BeginRound \/ Turn \/ SealTurn \/ RecordRound \/ WriteReceipt \/ WriteResult
        \/ Register \/ Raise
Trouble == Interrupt \/ Die \/ OperatorAudit \/ OrphanTurn \/ KillTask
Next == Drive \/ Work \/ Trouble
Spec == Init /\ [][Next]_vars
----------------------------------------------------------------------------
Billed(ss) == Total([i \in DOMAIN ss |-> ss[i].billed])

TypeOK ==
  /\ pc \in {"idle", "pick", "archived", "spawn", "wait"}
  /\ launches \in 0..MaxLaunches
  /\ (pc = "wait") = (task # None)
  /\ task # None => task.round \in 1..MaxRounds /\ task.module \in Modules
  /\ registry \subseteq Range(Stem) /\ skipped \subseteq Modules /\ proven \subseteq Modules
  /\ driver = "launch" => Len(segs) = launches /\ ~summary.written

(* launch.sh: a cost the audit calls complete, of the run or of a task, is *)
(* what the provider billed, whatever was killed, orphaned or cut short.   *)
CompleteMeansAllBilled ==
  audit # None =>
    /\ audit.status = "complete" => audit.recorded = Billed(streams)
    /\ \A t \in DOMAIN audit.tasks :
         audit.tasks[t].status = "complete" =>
           audit.tasks[t].recorded =
             Total([i \in 1..audit.attempts |->
                      IF streams[i].task = t THEN streams[i].billed ELSE 0])

(* The recorded cost of either driver is a floor: nothing is counted twice. *)
RecordedIsLowerBound ==
  /\ audit # None => audit.recorded <= Billed(streams)
  /\ summary.recorded <= Billed(streams)

(* launch.sh: no attempt's receipts are where another attempt's are.  They *)
(* survive every retry, of a crashed attempt and of a namesake too.        *)
EvidenceIsKept ==
  driver = "launch" =>
    \A i, j \in DOMAIN streams :
      /\ streams[i].task = streams[j].task /\ streams[i].place = streams[j].place
      /\ streams[i].round = streams[j].round
      => i = j

(* A reconciliation never vouches for more than it was checked against. *)
ReconciledCoversEvidence ==
  audit # None /\ audit.status = "reconciled" => audit.recorded <= audit.reconciliation.total

(* run_layer.py: a summary whose cost is complete prices every turn of the *)
(* sweep but one that the provider's rate limit ended.                     *)
SummaryPricesEveryRound ==
  summary.written /\ summary.unknownRounds = 0 /\ summary.unknownModules = 0 =>
    \A i \in DOMAIN streams :
      streams[i].launch = launches /\ ~streams[i].halt =>
        streams[i].record \notin {NoRecord, Unpriced}

(* A module is skipped only after some module of that task id succeeded. *)
SkippedAfterSuccess == \A m \in skipped : \E n \in proven : Stem[n] = Stem[m]

(* run_layer.py:11-14: a re-run skips the modules that succeeded. *)
SkippedWasProven == skipped \subseteq proven
==============================================================================
