---------------------------- MODULE AgentProcess ----------------------------
(***************************************************************************)
(* The agent of one run.py: a process group per round, its wall-clock      *)
(* deadline, the signal handler that interrupts the main thread at any     *)
(* step, and the reading of the stream the group leaves behind.  What the  *)
(* round loop does with a turn is module RunTask.                          *)
(***************************************************************************)
EXTENDS Integers, Sequences, FiniteSets, SequencesExt, FiniteSetsExt

CONSTANTS
  MaxRounds,  (* --rounds                                                *)
  MaxEvents,  (* bound: events in one stream                             *)
  None

ASSUME AgentProcessAssumption ==
  /\ MaxRounds \in Nat \ {0} /\ MaxEvents \in Nat
  /\ None \notin {"killed", "nonzero", "zero", "done", "limited"}

VARIABLES
  pc,        (* where the main thread is                                 *)
  round,     (* rounds started                                           *)
  liveProc,  (* _LIVE_PROC is set                                        *)
  received,  (* _RECEIVED_SIGNAL is set                                  *)
  groups,    (* who is alive in the process group of each round          *)
  rc,        (* how the leader of the current group ended, None: not yet *)
  stream,    (* the events of the current round, in order                *)
  late,      (* the round's wall-clock deadline has passed               *)
  label,     (* what the last round was classified as                    *)
  code,      (* exit code                                                *)
  marked     (* history: the rounds started when the first signal came   *)

vars == <<pc, round, liveProc, received, groups, rc, stream, late, label, code, marked>>

Rounds == 1..MaxRounds
Members == {"agent", "child"}
(* "done", "limited": terminal events, the latter a 429; "retry": the API  *)
(* retries; "interrupt": the user interrupted; "notice": anything else.    *)
Events == {"done", "limited", "retry", "interrupt", "notice"}
Halts == {"USER_INTERRUPTED", "INTERRUPTED_SIGNAL", "RETRY_EXHAUSTED", "TRANSPORT_ERROR"}

Init ==
  /\ pc = "loop" /\ round = 0 /\ liveProc = FALSE /\ received = FALSE
  /\ groups = [r \in Rounds |-> {}] /\ rc = None /\ stream = <<>> /\ late = FALSE
  /\ label = "none" /\ code = None /\ marked = MaxRounds

Alive == groups[round]
InGroup(who) == round > 0 /\ who \in Alive
KillGroup == groups' = [groups EXCEPT ![round] = {}]

(* Popen returns: the agent runs, _LIVE_PROC does not name it yet.         *)
(* Mutant: one round too many.                                             *)
RoundsLeftLate == round <= MaxRounds
RoundsLeft == round < MaxRounds
Spawn ==
  /\ pc = "loop" /\ RoundsLeft
  /\ round' = round + 1 /\ pc' = "spawned"
  /\ groups' = [groups EXCEPT ![round'] = {"agent"}]
  /\ rc' = None /\ stream' = <<>> /\ late' = FALSE
  /\ UNCHANGED <<liveProc, received, label, code, marked>>

Publish ==
  /\ pc = "spawned" /\ pc' = "wait" /\ liveProc' = TRUE
  /\ UNCHANGED <<round, received, groups, rc, stream, late, label, code, marked>>

(* The agent, and what it leaves in its group. *)
Emit ==
  /\ InGroup("agent") /\ Len(stream) < MaxEvents
  /\ \E e \in Events : stream' = Append(stream, e)
  /\ UNCHANGED <<pc, round, liveProc, received, groups, rc, late, label, code, marked>>

Fork ==
  /\ InGroup("agent") /\ groups' = [groups EXCEPT ![round] = Members]
  /\ UNCHANGED <<pc, round, liveProc, received, rc, stream, late, label, code, marked>>

AgentExits ==
  /\ InGroup("agent")
  /\ groups' = [groups EXCEPT ![round] = @ \ {"agent"}]
  /\ rc' \in {"zero", "nonzero"}
  /\ UNCHANGED <<pc, round, liveProc, received, stream, late, label, code, marked>>

Deadline ==
  /\ pc = "wait" /\ ~late /\ late' = TRUE
  /\ UNCHANGED <<pc, round, liveProc, received, groups, rc, stream, label, code, marked>>

(* The wait polls in slices and reads the wall clock after each.  Mutant:  *)
(* only an agent that said nothing is given up.                            *)
SilentOnly == late /\ rc = None /\ stream = <<>>
DeadlineExceeded == late /\ rc = None

Waited ==
  /\ pc = "wait" /\ rc # None /\ pc' = "cleanup"
  /\ UNCHANGED <<round, liveProc, received, groups, rc, stream, late, label, code, marked>>

DeadlineKill ==
  /\ pc = "wait" /\ DeadlineExceeded
  /\ KillGroup /\ rc' = "killed" /\ pc' = "cleanup"
  /\ UNCHANGED <<round, liveProc, received, stream, late, label, code, marked>>

(* Whatever the leader left running dies with the round.  Mutant: only a   *)
(* leader that is still alive is killed.                                   *)
LeaderOnly == groups[round] \cap {"agent"}
Leftovers == groups[round]
Cleanup ==
  /\ pc = "cleanup" /\ pc' = "clear"
  /\ groups' = [groups EXCEPT ![round] = @ \ Leftovers]
  /\ UNCHANGED <<round, liveProc, received, rc, stream, late, label, code, marked>>

Unpublish ==
  /\ pc = "clear" /\ pc' = "read" /\ liveProc' = FALSE
  /\ UNCHANGED <<round, received, groups, rc, stream, late, label, code, marked>>

(* The last terminal event counts, whatever metadata comes after it.       *)
(* Mutant: only the last line of the stream is looked at.                  *)
Terminal(e) == e \in {"done", "limited"}
FinalLine == {i \in DOMAIN stream : i = Len(stream) /\ Terminal(stream[i])}
Results == {i \in DOMAIN stream : Terminal(stream[i])}
Result == IF Results = {} THEN None ELSE stream[Max(Results)]
LastEvent == IF stream = <<>> THEN None ELSE Last(stream)

(* Why a stream without a result ended; "none" if the round is taken as a  *)
(* turn that hit its deadline.  Mutant: the negative return code of a      *)
(* killed process is looked at before the signal.                          *)
DeadlineFirst == rc = "killed"
Excused == rc \in {"zero", "killed"} /\ ~received
NoResultReason ==
  IF "interrupt" \in Range(stream) THEN "USER_INTERRUPTED"
  ELSE IF Excused THEN "none"
  ELSE IF received THEN "INTERRUPTED_SIGNAL"
  ELSE IF LastEvent = "retry" THEN "RETRY_EXHAUSTED" ELSE "TRANSPORT_ERROR"
Classify ==
  IF Result = "limited" THEN "RATE_LIMITED"
  ELSE IF Result = "done" THEN "none" ELSE NoResultReason

Read ==
  /\ pc = "read"
  /\ label' = Classify
  /\ pc' = IF Classify = "none" THEN "loop" ELSE "done"
  /\ UNCHANGED <<round, liveProc, received, groups, rc, stream, late, code, marked>>

(* The gates of the round accept, or the rounds or the budget are used up. *)
Conclude ==
  /\ pc = "loop" /\ pc' = "done"
  /\ label' \in {"COMPLETE", "LIMIT"}
  /\ UNCHANGED <<round, liveProc, received, groups, rc, stream, late, code, marked>>

(* Mutant: success is reported before the signal. *)
SuccessFirst == IF label = "COMPLETE" THEN 0 ELSE IF received THEN 128 ELSE 1
ExitCode ==
  IF label = "RATE_LIMITED" THEN 42
  ELSE IF received THEN 128 ELSE IF label = "COMPLETE" THEN 0 ELSE 1

Exit ==
  /\ pc = "done" /\ pc' = "exited" /\ code' = ExitCode
  /\ UNCHANGED <<round, liveProc, received, groups, rc, stream, late, label, marked>>

Mark == marked' = IF received THEN marked ELSE round

(* A signal to run.py during a live round kills the group and lets the     *)
(* round return.                                                           *)
SignalLive ==
  /\ pc # "exited" /\ liveProc /\ rc = None
  /\ received' = TRUE /\ Mark /\ KillGroup /\ rc' = "killed"
  /\ UNCHANGED <<pc, round, liveProc, stream, late, label, code>>

(* At any other moment it ends run.py where it is: before _LIVE_PROC names *)
(* the agent and after the leader is gone, too.                            *)
SignalIdle ==
  /\ pc # "exited" /\ ~(liveProc /\ rc = None)
  /\ received' = TRUE /\ Mark
  /\ pc' = "exited" /\ code' = 128
  /\ UNCHANGED <<round, liveProc, groups, rc, stream, late, label>>

Next ==
  \/ Spawn \/ Publish \/ Emit \/ Fork \/ AgentExits
  \/ Deadline \/ Waited \/ DeadlineKill \/ Cleanup \/ Unpublish \/ Read \/ Conclude \/ Exit
  \/ SignalLive \/ SignalIdle
Spec == Init /\ [][Next]_vars
(* The main thread is scheduled and the wall clock moves; the agent need   *)
(* not do anything, ever.                                                  *)
MainThread == \/ Spawn \/ Publish \/ Waited \/ DeadlineKill \/ Cleanup
              \/ Unpublish \/ Read \/ Exit
FairSpec == Spec /\ WF_vars(MainThread) /\ WF_vars(Deadline)
----------------------------------------------------------------------------
Stages == {"loop", "spawned", "wait", "cleanup", "clear", "read", "done", "exited"}
InRound == {"spawned", "wait", "cleanup"}

TypeOK ==
  /\ pc \in Stages /\ round \in 0..MaxRounds
  /\ liveProc \in BOOLEAN /\ received \in BOOLEAN /\ late \in BOOLEAN
  /\ groups \in [Rounds -> SUBSET Members]
  /\ rc \in {None, "zero", "nonzero", "killed"}
  /\ stream \in Seq(Events) /\ Len(stream) <= MaxEvents
  /\ label \in Halts \cup {"none", "RATE_LIMITED", "COMPLETE", "LIMIT"}
  /\ code \in {None, 0, 1, 42, 128}
  /\ marked \in 0..MaxRounds

(* A round that has returned left nobody running: the gates that follow    *)
(* and the next round's agent do not share the tree with a forgotten       *)
(* child.  (A signal can end run.py itself inside a round.)                *)
GroupDiesWithRound ==
  \A r \in Rounds : groups[r] # {} => r = round /\ pc \in InRound \cup {"exited"}

(* A round that a signal cut short of its result halts the task: it never  *)
(* reaches the gates as a turn that merely ran out of time.                *)
InterruptedRoundHalts ==
  pc \in {"loop", "done"} /\ received /\ round = marked /\ Results = {} /\ round > 0 =>
    label \in Halts

(* A stream that carries a result is never taken for a transport failure,  *)
(* whatever the agent printed after it.                                    *)
ResultIsNeverLost == pc = "done" /\ label \in Halts => ~\E i \in DOMAIN stream : Terminal(stream[i])

(* run.py that was signalled never exits with a status that says success. *)
SignalIsReported == pc = "exited" /\ received => code \in {42, 128}

(* A round returns, though its agent or a child of it hang for ever. *)
RoundReturns == pc = "wait" ~> pc # "wait"
==============================================================================
