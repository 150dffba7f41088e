--------------------------- MODULE RegistryProofs ---------------------------
(***************************************************************************)
(* Safety of the shared registry, for any number of writers.               *)
(***************************************************************************)
EXTENDS Registry, TLAPS

(* The holder of the lock is exactly the race at work on the list. *)
AtWork == {"reading", "truncating", "writing", "unlocking"}
LockHeld ==
  /\ \A r \in Racers : lock = r <=> stage[r] \in AtWork
  /\ \A t \in Tasks : stage[t] \notin {"waiting", "unlocking"}

(* While no task wrote, each merged entry is in the list, and in the copy *)
(* of whoever is about to write it back.                                  *)
NoTaskWrote == \A t \in Tasks : ~Wrote(t)
EntriesKept ==
  NoTaskWrote =>
    /\ text # "garbled"
    /\ text = "absent" => \A r \in Racers : ~Wrote(r)
    /\ text = "list" => \A r \in Racers : Wrote(r) => r \in names
    /\ \A r \in Racers : stage[r] = "writing" => text = "empty"
    /\ \A r \in Racers : stage[r] \in {"truncating", "writing"} =>
         /\ r \in copy[r]
         /\ \A v \in Racers : Wrote(v) => v \in copy[r]

(* While no task has begun to write and nobody died writing, the list is  *)
(* empty only in the hands of the race that is writing it.                *)
Orderly == /\ \A t \in Tasks : stage[t] \notin {"writing", "merged", "dead writing"}
           /\ \A w \in Writers : stage[w] # "dead writing"
ReadableWhenOrderly ==
  Orderly =>
    /\ text # "garbled"
    /\ text = "empty" => \E r \in Racers : stage[r] = "writing"
    /\ \A r \in Racers : stage[r] # "failed"

RegistryInv == RegistryTypeOK /\ LockHeld /\ EntriesKept /\ ReadableWhenOrderly

------------------------------------------------------------------------------
LEMMA RegistryInit_Inv == RegistryInit => RegistryInv
BY WritersAssumption
DEF RegistryInit, RegistryInv, RegistryTypeOK, LockHeld, EntriesKept,
    ReadableWhenOrderly, NoTaskWrote, Orderly, Wrote, AtWork, Writers, Texts, WriterStages

(* One lemma per conjunct; the actions are the same for all. *)
LEMMA RegistryTypeStep ==
  RegistryInv /\ [RegistryNext]_registryVars => RegistryTypeOK'
<1> SUFFICES ASSUME RegistryInv, [RegistryNext]_registryVars PROVE RegistryTypeOK'
  OBVIOUS
<1> USE WritersAssumption DEF RegistryInv, RegistryTypeOK, Texts, WriterStages, Writers, Go, Released
<1>1. CASE UNCHANGED registryVars
  BY <1>1 DEF registryVars
<1>2. ASSUME NEW w \in Writers, Merge(w) PROVE RegistryTypeOK'
  <2>1. CASE Ask(w)        BY <2>1 DEF Ask
  <2>2. CASE Acquire(w)    BY <2>2 DEF Acquire, LockHeld
  <2>3. CASE GiveUp(w)     BY <2>3 DEF GiveUp
  <2>4. CASE Read(w)       BY <2>4 DEF Read
  <2>5. CASE ReadFails(w)  BY <2>5 DEF ReadFails
  <2>6. CASE Truncate(w)   BY <2>6 DEF Truncate
  <2>7. CASE Fill(w)       BY <2>7 DEF Fill
  <2>8. CASE Unlock(w)     BY <2>8 DEF Unlock
  <2> QED BY <1>2, <2>1, <2>2, <2>3, <2>4, <2>5, <2>6, <2>7, <2>8 DEF Merge
<1>3. ASSUME NEW w \in Writers, Die(w) PROVE RegistryTypeOK'
  BY <1>3 DEF Die
<1> QED BY <1>1, <1>2, <1>3 DEF RegistryNext

LEMMA LockHeldStep ==
  RegistryInv /\ [RegistryNext]_registryVars => LockHeld'
<1> SUFFICES ASSUME RegistryInv, [RegistryNext]_registryVars PROVE LockHeld'
  OBVIOUS
<1> USE WritersAssumption
    DEF RegistryInv, RegistryTypeOK, LockHeld, AtWork, WriterStages, Writers, Go, Released
<1>1. CASE UNCHANGED registryVars
  BY <1>1 DEF registryVars
<1>2. ASSUME NEW w \in Writers, Merge(w) PROVE LockHeld'
  <2>1. CASE Ask(w)        BY <2>1 DEF Ask
  <2>2. CASE Acquire(w)    BY <2>2 DEF Acquire
  <2>3. CASE GiveUp(w)     BY <2>3 DEF GiveUp
  <2>4. CASE Read(w)       BY <2>4 DEF Read
  <2>5. CASE ReadFails(w)  BY <2>5 DEF ReadFails
  <2>6. CASE Truncate(w)   BY <2>6 DEF Truncate
  <2>7. CASE Fill(w)       BY <2>7 DEF Fill
  <2>8. CASE Unlock(w)     BY <2>8 DEF Unlock
  <2> QED BY <1>2, <2>1, <2>2, <2>3, <2>4, <2>5, <2>6, <2>7, <2>8 DEF Merge
<1>3. ASSUME NEW w \in Writers, Die(w) PROVE LockHeld'
  BY <1>3 DEF Die
<1> QED BY <1>1, <1>2, <1>3 DEF RegistryNext

(* A race fills a list that it emptied itself, and that stayed so. *)
LEMMA RaceFills ==
  ASSUME NEW w \in Racers, RegistryInv, NoTaskWrote, Fill(w)
  PROVE  /\ text' = "list" /\ names' = copy[w]
         /\ \A r \in Racers \ {w} : stage[r] \notin AtWork
         /\ stage' = [stage EXCEPT ![w] = "unlocking"]
         /\ \A r \in Racers : Wrote(r)' => Wrote(r) \/ r = w
<1>1. stage[w] = "writing" /\ text = "empty"
  BY DEF Fill, Go, RegistryInv, EntriesKept
<1>2. text' = "list" /\ names' = copy[w]
  BY <1>1 DEF Fill
<1>3. lock = w /\ \A r \in Racers \ {w} : stage[r] \notin AtWork
  BY <1>1 DEF RegistryInv, LockHeld, AtWork
<1>4. stage' = [stage EXCEPT ![w] = "unlocking"]
  BY DEF Fill, Go
<1>5. \A r \in Racers : Wrote(r)' => Wrote(r) \/ r = w
  BY <1>4 DEF Wrote, RegistryInv, RegistryTypeOK, Writers
<1> QED BY <1>2, <1>3, <1>4, <1>5

(* A task that fills the list has written. *)
LEMMA TaskFills ==
  ASSUME NEW t \in Tasks, RegistryTypeOK, Fill(t)
  PROVE  ~NoTaskWrote' /\ stage'[t] = "merged"
BY WritersAssumption DEF Fill, Go, RegistryTypeOK, Writers, NoTaskWrote, Wrote

LEMMA EntriesKeptStep ==
  RegistryInv /\ [RegistryNext]_registryVars => EntriesKept'
<1> SUFFICES ASSUME RegistryInv, [RegistryNext]_registryVars PROVE EntriesKept'
  OBVIOUS
<1> USE WritersAssumption
    DEF RegistryInv, RegistryTypeOK, LockHeld, AtWork, EntriesKept, NoTaskWrote, Wrote,
        Texts, WriterStages, Writers, Go, Released
<1>1. CASE UNCHANGED registryVars
  BY <1>1 DEF registryVars
<1>2. ASSUME NEW w \in Writers, Merge(w) PROVE EntriesKept'
  <2>1. CASE Ask(w)        BY <2>1 DEF Ask
  <2>2. CASE Acquire(w)    BY <2>2 DEF Acquire
  <2>3. CASE GiveUp(w)     BY <2>3 DEF GiveUp
  <2>4. CASE Read(w)       BY <2>4 DEF Read
  <2>5. CASE ReadFails(w)  BY <2>5 DEF ReadFails
  <2>6. CASE Truncate(w)   BY <2>6 DEF Truncate
  <2>7. CASE Fill(w)
    <3>1. CASE w \in Tasks
      BY <2>7, <3>1, TaskFills
    <3>2. ASSUME w \in Racers, NoTaskWrote' PROVE EntriesKept'
      <4>1. NoTaskWrote
        BY <2>7, <3>2 DEF Fill
      <4>2. /\ text' = "list" /\ names' = copy[w]
            /\ \A r \in Racers \ {w} : stage[r] \notin AtWork
            /\ stage' = [stage EXCEPT ![w] = "unlocking"]
            /\ \A r \in Racers : Wrote(r)' => Wrote(r) \/ r = w
        BY <2>7, <3>2, <4>1, RaceFills
      <4>3. w \in copy[w] /\ \A v \in Racers : Wrote(v) => v \in copy[w]
        BY <2>7, <3>2, <4>1 DEF Fill
      <4>4. \A r \in Racers : stage'[r] \notin {"truncating", "writing"}
        BY <4>2
      <4> QED BY <4>2, <4>3, <4>4
    <3> QED BY <3>1, <3>2
  <2>8. CASE Unlock(w)     BY <2>8 DEF Unlock
  <2> QED BY <1>2, <2>1, <2>2, <2>3, <2>4, <2>5, <2>6, <2>7, <2>8 DEF Merge
<1>3. ASSUME NEW w \in Writers, Die(w) PROVE EntriesKept'
  BY <1>3 DEF Die
<1> QED BY <1>1, <1>2, <1>3 DEF RegistryNext

LEMMA ReadableStep ==
  RegistryInv /\ [RegistryNext]_registryVars => ReadableWhenOrderly'
<1> SUFFICES ASSUME RegistryInv, [RegistryNext]_registryVars PROVE ReadableWhenOrderly'
  OBVIOUS
<1> USE WritersAssumption
    DEF RegistryInv, RegistryTypeOK, LockHeld, AtWork, EntriesKept, NoTaskWrote, Wrote,
        ReadableWhenOrderly, Orderly, Texts, WriterStages, Writers, Go, Released
<1>1. CASE UNCHANGED registryVars
  BY <1>1 DEF registryVars
<1>2. ASSUME NEW w \in Writers, Merge(w) PROVE ReadableWhenOrderly'
  <2>1. CASE Ask(w)        BY <2>1 DEF Ask
  <2>2. CASE Acquire(w)    BY <2>2 DEF Acquire
  <2>3. CASE GiveUp(w)     BY <2>3 DEF GiveUp
  <2>4. CASE Read(w)       BY <2>4 DEF Read
  <2>5. CASE ReadFails(w)  BY <2>5 DEF ReadFails
  <2>6. CASE Truncate(w)   BY <2>6 DEF Truncate
  <2>7. CASE Fill(w)
    <3>1. CASE w \in Tasks
      BY <2>7, <3>1, TaskFills
    <3>2. ASSUME w \in Racers, Orderly' PROVE ReadableWhenOrderly'
      <4>1. stage' = [stage EXCEPT ![w] = "unlocking"]
        BY <2>7, <3>2 DEF Fill
      <4>2. Orderly /\ NoTaskWrote
        <5>1. stage[w] = "writing"
          BY <2>7 DEF Fill
        <5>2. \A v \in Writers \ {w} : stage'[v] = stage[v]
          BY <4>1
        <5>3. Orderly
          BY <3>2, <5>1, <5>2
        <5> QED BY <5>3
      <4>3. text' = "list"
        BY <2>7, <3>2, <4>2, RaceFills
      <4>4. \A r \in Racers : stage'[r] # "failed"
        BY <4>1, <4>2
      <4> QED BY <4>3, <4>4
    <3> QED BY <3>1, <3>2
  <2>8. CASE Unlock(w)     BY <2>8 DEF Unlock
  <2> QED BY <1>2, <2>1, <2>2, <2>3, <2>4, <2>5, <2>6, <2>7, <2>8 DEF Merge
<1>3. ASSUME NEW w \in Writers, Die(w) PROVE ReadableWhenOrderly'
  BY <1>3 DEF Die
<1> QED BY <1>1, <1>2, <1>3 DEF RegistryNext

(***************************************************************************)
(* The invariant of the registry under its writers (race.py 147-180,       *)
(* run.py 7233-7246), and what follows from it.                            *)
(***************************************************************************)
THEOREM RegistryInvariant == RegistrySpec => []RegistryInv
<1>1. RegistryInv /\ [RegistryNext]_registryVars => RegistryInv'
  BY RegistryTypeStep, LockHeldStep, EntriesKeptStep, ReadableStep DEF RegistryInv
<1> QED BY RegistryInit_Inv, <1>1, PTL DEF RegistrySpec

LEMMA RegistryInvImplies ==
  RegistryInv => RegistryTypeOK /\ NoLostEntry /\ RacesReadWholeLists
BY WritersAssumption
DEF RegistryInv, LockHeld, EntriesKept, NoTaskWrote, ReadableWhenOrderly, Orderly,
    NoLostEntry, RacesReadWholeLists, Writers

------------------------------------------------------------------------------
(* The entries as the next reader will find them: while a race rewrites    *)
(* the list, those that it is about to write.                              *)
Entries == IF lock \in Racers /\ stage[lock] = "writing" THEN copy[lock] ELSE names
Merged == {w \in Racers : stage[w] = "merged"}

Book == INSTANCE Ledger WITH Writers <- Racers, entries <- Entries, merged <- Merged

(* What a race is about to write is the list and its own entry. *)
CopiesFresh ==
  Orderly => \A r \in Racers : stage[r] = "truncating" => copy[r] = names \cup {r}

LEMMA OrderlyMeansNoTaskWrote == RegistryInv /\ Orderly => NoTaskWrote
BY DEF Orderly, NoTaskWrote, Wrote, RegistryInv, LockHeld

LEMMA CopiesFreshStep ==
  RegistryInv /\ CopiesFresh /\ [RegistryNext]_registryVars => CopiesFresh'
<1> SUFFICES ASSUME RegistryInv, CopiesFresh, [RegistryNext]_registryVars, Orderly',
                    NEW r \in Racers, stage'[r] = "truncating"
             PROVE  copy'[r] = names' \cup {r}
  BY DEF CopiesFresh
<1> USE WritersAssumption
    DEF RegistryInv, RegistryTypeOK, LockHeld, AtWork, CopiesFresh, Orderly, WriterStages,
        Writers, Go, Released
<1>1. CASE UNCHANGED registryVars
  BY <1>1 DEF registryVars
<1>2. ASSUME NEW w \in Writers, Merge(w) PROVE copy'[r] = names' \cup {r}
  <2>1. CASE Ask(w)        BY <2>1 DEF Ask
  <2>2. CASE Acquire(w)    BY <2>2 DEF Acquire
  <2>3. CASE GiveUp(w)     BY <2>3 DEF GiveUp
  <2>4. CASE Read(w)       BY <2>4 DEF Read
  <2>5. CASE ReadFails(w)  BY <2>5 DEF ReadFails
  <2>6. CASE Truncate(w)   BY <2>6 DEF Truncate
  <2>7. CASE Fill(w)       BY <2>7 DEF Fill
  <2>8. CASE Unlock(w)     BY <2>8 DEF Unlock
  <2> QED BY <1>2, <2>1, <2>2, <2>3, <2>4, <2>5, <2>6, <2>7, <2>8 DEF Merge
<1>3. ASSUME NEW w \in Writers, Die(w) PROVE copy'[r] = names' \cup {r}
  BY <1>3 DEF Die
<1> QED BY <1>1, <1>2, <1>3 DEF RegistryNext

(* The instants: an entry counts as added when the list is emptied for it, *)
(* by the race that alone can read it until it is filled.                  *)
LEMMA BookStep ==
  RegistryInv /\ CopiesFresh /\ Orderly /\ Orderly' /\ [RegistryNext]_registryVars
    => [Book!Next]_(Book!vars)
<1> SUFFICES ASSUME RegistryInv, CopiesFresh, Orderly, Orderly', [RegistryNext]_registryVars
             PROVE  Book!Next \/ UNCHANGED <<Entries, Merged>>
  BY DEF Book!vars
<1> USE WritersAssumption
    DEF RegistryInv, RegistryTypeOK, LockHeld, AtWork, WriterStages, Writers, Go, Released
<1>1. CASE UNCHANGED registryVars
  BY <1>1 DEF registryVars, Entries, Merged
<1>2. ASSUME NEW w \in Writers, Ask(w) \/ Acquire(w) \/ GiveUp(w) \/ Read(w) \/ ReadFails(w)
      PROVE  UNCHANGED <<Entries, Merged>>
  BY <1>2 DEF Ask, Acquire, GiveUp, Read, ReadFails, Entries, Merged
<1>3. ASSUME NEW w \in Writers, Truncate(w) PROVE Book!Next
  <2>1. w \in Racers
    BY <1>3 DEF Truncate, Orderly
  <2>2. lock = w /\ lock' = w /\ Entries = names /\ Entries' = copy[w]
    BY <1>3, <2>1 DEF Truncate, Entries
  <2>3. Entries' = Entries \cup {w}
    BY <1>3, <2>1, <2>2 DEF Truncate, CopiesFresh
  <2>4. UNCHANGED Merged
    BY <1>3 DEF Truncate, Merged
  <2> QED BY <2>1, <2>3, <2>4 DEF Book!Next, Book!Add
<1>4. ASSUME NEW w \in Writers, Fill(w) PROVE UNCHANGED <<Entries, Merged>>
  <2>1. w \in Racers
    BY <1>4 DEF Fill, Orderly
  <2>2. names' = copy[w] /\ stage' = [stage EXCEPT ![w] = "unlocking"] /\ stage[w] = "writing"
        /\ UNCHANGED <<lock, copy>>
    BY <1>4, <2>1, RaceFills, OrderlyMeansNoTaskWrote DEF Fill
  <2>3. lock = w
    BY <2>1, <2>2
  <2> QED BY <2>1, <2>2, <2>3 DEF Entries, Merged
<1>5. ASSUME NEW w \in Writers, Unlock(w) PROVE Book!Next
  <2>1. w \in Racers /\ lock = w
    BY <1>5 DEF Unlock
  <2>2. text = "list"
    <3>1. text # "empty"
      <4>1. \A r \in Racers : stage[r] # "writing"
        BY <1>5, <2>1 DEF Unlock
      <4> QED BY <4>1 DEF ReadableWhenOrderly
    <3>2. text # "garbled" /\ text # "absent"
      BY <1>5, <2>1, OrderlyMeansNoTaskWrote DEF Unlock, EntriesKept, Wrote
    <3> QED BY <3>1, <3>2 DEF Texts
  <2>3. w \in names
    BY <1>5, <2>1, <2>2, OrderlyMeansNoTaskWrote DEF Unlock, EntriesKept, Wrote
  <2>4. Entries = names /\ Entries' = names
    BY <1>5, <2>1 DEF Unlock, Entries
  <2>5. Merged' = Merged \cup {w}
    BY <1>5, <2>1 DEF Unlock, Merged
  <2> QED BY <2>1, <2>3, <2>4, <2>5 DEF Book!Next, Book!Confirm
<1>6. ASSUME NEW w \in Writers, Die(w) PROVE UNCHANGED <<Entries, Merged>>
  <2>1. stage[w] # "writing"
    BY <1>6 DEF Die, Orderly
  <2> QED BY <1>6, <2>1 DEF Die, Entries, Merged
<1> QED BY <1>1, <1>2, <1>3, <1>4, <1>5, <1>6 DEF RegistryNext, Merge

(***************************************************************************)
(* The lock makes a read-modify-write one step (race.py 147-179): while no *)
(* task writes without it and nobody dies writing, the file is the ledger. *)
(***************************************************************************)
THEOREM RegistryIsLedger == RegistrySpec /\ []Orderly => Book!Spec
<1>1. RegistryInit => CopiesFresh /\ Book!Init
  BY WritersAssumption
  DEF RegistryInit, CopiesFresh, Book!Init, Entries, Merged, Writers
<1> QED
  BY <1>1, RegistryInvariant, CopiesFreshStep, BookStep, PTL DEF RegistrySpec, Book!Spec
=============================================================================
