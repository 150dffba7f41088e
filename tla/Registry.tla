------------------------------ MODULE Registry ------------------------------
(***************************************************************************)
(* proven_registry.json under several writers.  Each reads the list, adds  *)
(* its entry and writes the list back; a race (race.py) does so under an   *)
(* flock it gives up on after ten seconds, a single task (run.py) without  *)
(* any lock.  write_text empties the file before it fills it.              *)
(***************************************************************************)
EXTENDS FiniteSets

CONSTANTS
  Racers,   (* writers that take the lock        *)
  Tasks,    (* writers that do not               *)
  Mortals,  (* writers that may be killed        *)
  Free      (* the lock when nobody holds it     *)

Writers == Racers \cup Tasks

ASSUME WritersAssumption ==
  /\ Racers \cap Tasks = {}
  /\ Mortals \subseteq Writers
  /\ Free \notin Writers

VARIABLES
  text,     (* what the file holds: nothing yet, a list, no text, no JSON *)
  names,    (* the entries of the list                                    *)
  lock,     (* the holder of the flock                                    *)
  stage,    (* where each writer is                                       *)
  copy      (* the list each writer is about to write                     *)

registryVars == <<text, names, lock, stage, copy>>

Texts == {"absent", "list", "empty", "garbled"}
WriterStages == {"idle", "waiting", "reading", "truncating", "writing", "unlocking",
                 "merged", "skipped", "failed", "dead", "dead writing"}

RegistryInit ==
  /\ text = "absent" /\ names = {}
  /\ lock = Free
  /\ stage = [w \in Writers |-> "idle"]
  /\ copy = [w \in Writers |-> {}]

Go(w, from, to) == stage[w] = from /\ stage' = [stage EXCEPT ![w] = to]

(* A race opens the lock file first, a task goes straight to the list. *)
Ask(w) ==
  /\ Go(w, "idle", IF w \in Racers THEN "waiting" ELSE "reading")
  /\ UNCHANGED <<text, names, lock, copy>>

(* Mutant: no lock needed. *)
AcquireAnyway(w) ==
  /\ Go(w, "waiting", "reading")
  /\ UNCHANGED <<text, names, lock, copy>>

Acquire(w) ==
  /\ Go(w, "waiting", "reading")
  /\ lock = Free
  /\ lock' = w
  /\ UNCHANGED <<text, names, copy>>

(* The lock was busy at every poll until the deadline. *)
GiveUp(w) ==
  /\ Go(w, "waiting", "skipped")
  /\ lock # Free
  /\ UNCHANGED <<text, names, lock, copy>>

Released(w) == IF lock = w THEN Free ELSE lock

(* A missing file is an empty list; an empty one is not JSON and raises. *)
Read(w) ==
  /\ Go(w, "reading", "truncating")
  /\ text \in {"absent", "list"}
  /\ copy' = [copy EXCEPT ![w] = names \cup {w}]
  /\ UNCHANGED <<text, names, lock>>

ReadFails(w) ==
  /\ Go(w, "reading", "failed")
  /\ text \in {"empty", "garbled"}
  /\ lock' = Released(w)
  /\ UNCHANGED <<text, names, copy>>

(* Mutant: the lock is let go before the write. *)
TruncateUnlocked(w) ==
  /\ Go(w, "truncating", "writing")
  /\ text' = "empty" /\ names' = {}
  /\ lock' = Released(w)
  /\ UNCHANGED copy

Truncate(w) ==
  /\ Go(w, "truncating", "writing")
  /\ text' = "empty" /\ names' = {}
  /\ UNCHANGED <<lock, copy>>

(* Over text another writer filled in meanwhile, a shorter list leaves the  *)
(* tail of a longer one behind.                                             *)
Fill(w) ==
  /\ Go(w, "writing", IF w \in Racers THEN "unlocking" ELSE "merged")
  /\ \/ text' = "list" /\ names' = copy[w]
     \/ text # "empty" /\ text' = "garbled" /\ names' = {}
  /\ UNCHANGED <<lock, copy>>

Unlock(w) ==
  /\ Go(w, "unlocking", "merged")
  /\ lock' = Released(w)
  /\ UNCHANGED <<text, names, copy>>

(* A killed writer loses its lock, the file stays as it was. *)
Die(w) ==
  /\ w \in Mortals
  /\ stage[w] \notin {"idle", "merged", "skipped", "failed", "dead", "dead writing"}
  /\ stage' = [stage EXCEPT ![w] = IF @ = "writing" THEN "dead writing" ELSE "dead"]
  /\ lock' = Released(w)
  /\ UNCHANGED <<text, names, copy>>

Merge(w) == \/ Ask(w) \/ Acquire(w) \/ GiveUp(w) \/ Read(w) \/ ReadFails(w)
            \/ Truncate(w) \/ Fill(w) \/ Unlock(w)

RegistryNext == \E w \in Writers : Merge(w) \/ Die(w)
RegistrySpec == RegistryInit /\ [][RegistryNext]_registryVars

------------------------------------------------------------------------------
RegistryTypeOK ==
  /\ text \in Texts /\ names \subseteq Writers
  /\ lock \in Racers \cup {Free}
  /\ stage \in [Writers -> WriterStages]
  /\ copy \in [Writers -> SUBSET Writers]

(* Its entry was written, whatever became of it since. *)
Wrote(w) == stage[w] \in {"unlocking", "merged"}

(***************************************************************************)
(* The lock is the single point of contention of race.py: an entry a race  *)
(* merged stays in the list, unless a task that takes no lock wrote too.   *)
(***************************************************************************)
NoLostEntry ==
  (\A t \in Tasks : ~Wrote(t)) /\ text = "list" =>
    \A w \in Racers : Wrote(w) => w \in names

(***************************************************************************)
(* No race fails on a half-written list: its read raises only if a task,   *)
(* which takes no lock, or a writer killed at work left the file so.       *)
(***************************************************************************)
RacesReadWholeLists ==
  (\E w \in Racers : stage[w] = "failed") =>
    \/ \E t \in Tasks : stage[t] \in {"writing", "merged", "dead writing"}
    \/ \E w \in Writers : stage[w] = "dead writing"
==============================================================================
