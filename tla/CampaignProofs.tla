--------------------------- MODULE CampaignProofs ---------------------------
(***************************************************************************)
(* Theorems about Campaign and UsageAudit: what a receipt of the cost may  *)
(* claim, what a skip rests on, and where the evidence of an attempt is.   *)
(* Costs are totals of sequences, so the first part is about Total; then   *)
(* come the type invariant and one inductive invariant for each property.  *)
(***************************************************************************)
EXTENDS Campaign, FiniteSetTheorems, SequenceTheorems, WellFoundedInduction, TLAPS

(***************************************************************************)
(* Totals of sequences of naturals.  Total is a recursive function; its    *)
(* facts are proved by the first position where they could fail.           *)
(***************************************************************************)

(* A set of naturals that is not empty has a first one. *)
LEMMA FirstPosition ==
  ASSUME NEW n \in Nat, NEW S \in SUBSET (0 .. n), S # {}
  PROVE  \E first \in S : \A i \in S : first <= i
<1> DEFINE Upto(i) == 0 .. i
           Heads == {Upto(i) : i \in S}
           Smaller == StrictSubsetOrdering(0 .. n)
<1>1. IsWellFoundedOn(Smaller, FiniteSubsetsOf(0 .. n))
  BY FS_Interval, FS_StrictSubsetOrderingWellFounded
<1>2. Heads \subseteq FiniteSubsetsOf(0 .. n) /\ Heads # {}
  <2>1. \A i \in S : Upto(i) \in SUBSET (0 .. n)
    OBVIOUS
  <2>2. FiniteSubsetsOf(0 .. n) = SUBSET (0 .. n)
    <3>1. IsFiniteSet(0 .. n)
      BY FS_Interval
    <3> QED BY <3>1, FS_FiniteSubsetsOfFinite, Zenon
  <2>3. \A i \in S : Upto(i) \in FiniteSubsetsOf(0 .. n)
    BY <2>1, <2>2, Zenon
  <2> HIDE DEF Upto
  <2> QED BY <2>3
<1>3. PICK s \in Heads : \A t \in Heads : ~(<<t, s>> \in Smaller)
  <2> HIDE DEF Smaller, Heads
  <2> QED BY <1>1, <1>2, WFMin
<1>4. PICK first \in S : s = Upto(first)
  OBVIOUS
<1>5. \A i \in S : first <= i
  <2> SUFFICES ASSUME NEW i \in S, ~(first <= i) PROVE FALSE
    OBVIOUS
  <2>1. Upto(i) \in SUBSET (0 .. n) /\ Upto(first) \in SUBSET (0 .. n)
    OBVIOUS
  <2>2. Upto(i) \subseteq Upto(first) /\ first \in Upto(first) /\ first \notin Upto(i)
    OBVIOUS
  <2>3. <<Upto(i), s>> \in Smaller
    BY <1>4, <2>1, <2>2 DEF StrictSubsetOrdering
  <2> QED BY <1>3, <2>3
<1> QED BY <1>5

(* The partial sums of a sequence of naturals. *)
Sums(costs, n, u) ==
  u \in [0..n -> Nat] /\ u[0] = 0 /\ \A k \in 1..n : u[k] = u[k - 1] + costs[k]

LEMMA SumsExist ==
  ASSUME NEW n \in Nat, NEW costs \in [1..n -> Nat]
  PROVE  \E u : Sums(costs, n, u)
<1> SUFFICES ASSUME ~\E u : Sums(costs, n, u) PROVE FALSE
  OBVIOUS
<1> DEFINE Bad == {m \in 0..n : ~\E u : Sums(costs, m, u)}
<1>1. Bad \in SUBSET (0..n) /\ n \in Bad
  OBVIOUS
<1>2. PICK m \in Bad : \A k \in Bad : m <= k
  BY <1>1, FirstPosition
<1>3. m # 0
  <2>1. Sums(costs, 0, [k \in 0..0 |-> 0])
    BY DEF Sums
  <2> QED
    BY <2>1
<1>4. m - 1 \in 0..n /\ m - 1 \notin Bad
  BY <1>2, <1>3
<1>5. PICK u : Sums(costs, m - 1, u)
  BY <1>4
<1> DEFINE more == [k \in 0..m |-> IF k = m THEN u[m - 1] + costs[m] ELSE u[k]]
<1>6. m \in 1..n /\ costs[m] \in Nat
  BY <1>2, <1>3, <1>4
<1>7. u \in [0..(m - 1) -> Nat] /\ u[0] = 0 /\ \A k \in 1..(m - 1) : u[k] = u[k - 1] + costs[k]
  BY <1>5 DEF Sums
<1>8. more \in [0..m -> Nat]
  BY <1>6, <1>7
<1>9. /\ more[m] = u[m - 1] + costs[m]
      /\ \A k \in 0..(m - 1) : more[k] = u[k]
  BY <1>6
<1> HIDE DEF more
<1>10. \A k \in 1..m : more[k] = more[k - 1] + costs[k]
  <2> SUFFICES ASSUME NEW k \in 1..m PROVE more[k] = more[k - 1] + costs[k]
    OBVIOUS
  <2>1. CASE k = m
    BY <1>6, <1>9, <2>1
  <2>2. CASE k # m
    <3>1. k \in 1..(m - 1) /\ k \in 0..(m - 1) /\ k - 1 \in 0..(m - 1)
      BY <1>6, <2>2
    <3> QED
      BY <1>7, <1>9, <3>1
  <2> QED
    BY <2>1, <2>2
<1>11. more[0] = 0
  BY <1>6, <1>7, <1>9
<1>12. Sums(costs, m, more)
  BY <1>8, <1>10, <1>11 DEF Sums
<1> QED
  BY <1>2, <1>12

LEMMA TotalIsSum ==
  ASSUME NEW n \in Nat, NEW costs \in [1..n -> Nat]
  PROVE  \E u : Sums(costs, n, u) /\ Total(costs) = u[n]
<1>1. Len(costs) = n
  OBVIOUS
<1> DEFINE Eqn(u) == u = [k \in 0..n |-> IF k = 0 THEN 0 ELSE u[k - 1] + costs[k]]
           sums == CHOOSE u : Eqn(u)
<1>2. \E u : Eqn(u)
  <2>1. PICK u : Sums(costs, n, u)
    BY SumsExist
  <2>2. u = [k \in 0..n |-> u[k]]
    BY <2>1 DEF Sums
  <2>3. \A k \in 0..n : u[k] = IF k = 0 THEN 0 ELSE u[k - 1] + costs[k]
    BY <2>1 DEF Sums
  <2>4. Eqn(u)
    BY <2>2, <2>3
  <2> QED
    BY <2>4
<1>3. Eqn(sums)
  <2> HIDE DEF Eqn
  <2> QED
    BY <1>2
<1>4. Total(costs) = sums[n]
  BY <1>1 DEF Total
<1>5. Sums(costs, n, sums)
  <2>0. sums = [k \in 0..n |-> IF k = 0 THEN 0 ELSE sums[k - 1] + costs[k]]
    BY <1>3
  <2> HIDE DEF sums
  <2>1. /\ DOMAIN sums = 0..n /\ sums[0] = 0
        /\ \A k \in 1..n : sums[k] = sums[k - 1] + costs[k]
    BY <2>0
  <2>2. \A k \in 0..n : sums[k] \in Nat
    <3> DEFINE Bad == {k \in 0..n : sums[k] \notin Nat}
    <3> SUFFICES ASSUME Bad # {} PROVE FALSE
      OBVIOUS
    <3>1. PICK m \in Bad : \A k \in Bad : m <= k
      BY FirstPosition
    <3>2. m # 0
      BY <2>1
    <3>3. m - 1 \in 0..n /\ sums[m - 1] \in Nat
      BY <3>1, <3>2
    <3> QED
      BY <2>1, <3>2, <3>3
  <2>3. sums \in [0..n -> Nat]
    BY <2>0, <2>1, <2>2
  <2> QED
    BY <2>1, <2>3 DEF Sums
<1> QED
  BY <1>4, <1>5

(* More costs, each at least as large, make up a larger total. *)
LEMMA TotalGrows ==
  ASSUME NEW m \in Nat, NEW n \in Nat, m <= n, NEW f \in [1..m -> Nat],
         NEW h \in [1..n -> Nat], \A i \in 1..m : f[i] <= h[i]
  PROVE  Total(f) <= Total(h) /\ Total(f) \in Nat
<1>1. PICK uf : Sums(f, m, uf) /\ Total(f) = uf[m]
  BY TotalIsSum
<1>2. PICK uh : Sums(h, n, uh) /\ Total(h) = uh[n]
  BY TotalIsSum
<1>3. \A k \in 0..m : uf[k] <= uh[k]
  <2> DEFINE Bad == {k \in 0..m : ~(uf[k] <= uh[k])}
  <2> SUFFICES ASSUME Bad # {} PROVE FALSE
    OBVIOUS
  <2>1. PICK k \in Bad : \A j \in Bad : k <= j
    BY FirstPosition
  <2>2. k # 0
    BY <1>1, <1>2 DEF Sums
  <2>3. k - 1 \in 0..m /\ k \in 1..m /\ uf[k - 1] <= uh[k - 1]
    BY <2>1, <2>2
  <2>4. uf[k] = uf[k - 1] + f[k] /\ uh[k] = uh[k - 1] + h[k] /\ f[k] <= h[k]
    BY <1>1, <1>2, <2>3 DEF Sums
  <2>5. {f[k], h[k], uf[k - 1], uh[k - 1]} \subseteq Nat
    BY <1>1, <1>2, <2>3 DEF Sums
  <2> QED
    BY <2>1, <2>3, <2>4, <2>5
<1>4. \A k \in 0..n : k >= m => uh[m] <= uh[k]
  <2> DEFINE Bad == {k \in 0..n : k >= m /\ ~(uh[m] <= uh[k])}
  <2> SUFFICES ASSUME Bad # {} PROVE FALSE
    OBVIOUS
  <2>1. PICK k \in Bad : \A j \in Bad : k <= j
    BY FirstPosition
  <2>2. k # m
    BY <1>2, <2>1 DEF Sums
  <2>3. k - 1 \in 0..n /\ k \in 1..n /\ uh[m] <= uh[k - 1]
    BY <2>1, <2>2
  <2>4. uh[k] = uh[k - 1] + h[k]
    BY <1>2, <2>3 DEF Sums
  <2>5. {h[k], uh[k - 1], uh[m], uh[k]} \subseteq Nat
    BY <1>2, <2>3 DEF Sums
  <2> QED
    BY <2>1, <2>3, <2>4, <2>5
<1>5. uf[m] <= uh[m] /\ uh[m] <= uh[n] /\ {uf[m], uh[m], uh[n]} \subseteq Nat
  BY <1>1, <1>2, <1>3, <1>4 DEF Sums
<1> QED
  BY <1>1, <1>2, <1>5

LEMMA SharesAdd ==
  ASSUME NEW a \in Nat, NEW b \in Nat, NEW c \in Nat, a + b <= c,
         NEW x \in Nat, NEW y \in Nat, NEW z \in Nat, x + y <= z
  PROVE  (a + x) + (b + y) <= c + z
OBVIOUS

(* Two shares of each cost make up no more than the costs. *)
LEMMA TotalShares ==
  ASSUME NEW n \in Nat, NEW f \in [1..n -> Nat], NEW g \in [1..n -> Nat],
         NEW h \in [1..n -> Nat], \A i \in 1..n : f[i] + g[i] <= h[i]
  PROVE  Total(f) + Total(g) <= Total(h)
<1>1. PICK uf : Sums(f, n, uf) /\ Total(f) = uf[n]
  BY TotalIsSum
<1>2. PICK ug : Sums(g, n, ug) /\ Total(g) = ug[n]
  BY TotalIsSum
<1>3. PICK uh : Sums(h, n, uh) /\ Total(h) = uh[n]
  BY TotalIsSum
<1>4. \A k \in 0..n : uf[k] + ug[k] <= uh[k]
  <2> DEFINE Bad == {k \in 0..n : ~(uf[k] + ug[k] <= uh[k])}
  <2> SUFFICES ASSUME Bad # {} PROVE FALSE
    OBVIOUS
  <2>1. PICK k \in Bad : \A j \in Bad : k <= j
    BY FirstPosition
  <2>2. k # 0
    BY <1>1, <1>2, <1>3 DEF Sums
  <2>3. k - 1 \in 0..n /\ k \in 1..n /\ uf[k - 1] + ug[k - 1] <= uh[k - 1]
    BY <2>1, <2>2
  <2>4. /\ uf[k] = uf[k - 1] + f[k] /\ ug[k] = ug[k - 1] + g[k]
        /\ uh[k] = uh[k - 1] + h[k] /\ f[k] + g[k] <= h[k]
    BY <1>1, <1>2, <1>3, <2>3 DEF Sums
  <2>5. /\ f[k] \in Nat /\ g[k] \in Nat /\ h[k] \in Nat
        /\ uf[k - 1] \in Nat /\ ug[k - 1] \in Nat /\ uh[k - 1] \in Nat
    BY <1>1, <1>2, <1>3, <2>3 DEF Sums
  <2>6. (uf[k - 1] + f[k]) + (ug[k - 1] + g[k]) <= uh[k - 1] + h[k]
    BY <2>3, <2>4, <2>5, SharesAdd
  <2>7. uf[k] + ug[k] <= uh[k]
    BY <2>4, <2>6
  <2> QED
    BY <2>1, <2>7
<1> QED
  BY <1>1, <1>2, <1>3, <1>4

(* Only costs that are all zero make up nothing. *)
LEMMA TotalOfNothing ==
  ASSUME NEW n \in Nat, NEW f \in [1..n -> Nat], \A i \in 1..n : f[i] = 0
  PROVE  Total(f) = 0
<1>1. PICK u : Sums(f, n, u) /\ Total(f) = u[n]
  BY TotalIsSum
<1>2. \A k \in 0..n : u[k] = 0
  <2> DEFINE Bad == {k \in 0..n : u[k] # 0}
  <2> SUFFICES ASSUME Bad # {} PROVE FALSE
    OBVIOUS
  <2>1. PICK k \in Bad : \A j \in Bad : k <= j
    BY FirstPosition
  <2> QED
    BY <1>1, <2>1 DEF Sums
<1> QED
  BY <1>1, <1>2

------------------------------------------------------------------------------
(* The values the variables take, streams and receipts included.           *)
Raws == [events : Nat, costs : Seq(Nat), torn : BOOLEAN]
Streams ==
  [task : Range(Stem), place : Seq(Nat), round : Nat, launch : Nat,
   lifecycle : {"started", "exited"}, raw : {NoRaw} \cup Raws,
   record : Nat \cup {NoRecord, Unpriced}, billed : Nat, open : BOOLEAN, halt : BOOLEAN]
Dirs == [exists : BOOLEAN, receipt : {None} \cup [of : Modules, success : BOOLEAN],
         result : {None} \cup [success : BOOLEAN]]
Summaries == [recorded : Nat, unknownRounds : Nat, unknownModules : Nat, written : BOOLEAN]

DriverType ==
  /\ driver \in {"launch", "layer"} /\ skipExisting \in BOOLEAN /\ resume \in BOOLEAN
  /\ pc \in {"idle", "pick", "archived", "spawn", "wait"}
  /\ launches \in 0..MaxLaunches /\ (pc # "idle" => launches > 0)
  /\ todo \subseteq DOMAIN Plan
TaskType ==
  /\ (pc = "wait") = (task # None)
  /\ task # None => /\ task \in Run /\ task.round \in 1..MaxRounds
                    /\ task.from <= Len(streams)
                    /\ task.step \in {"agent", "turned", "gate"} => task.from < Len(streams)
DiskType ==
  /\ streams \in Seq(Streams)
  /\ dirs \in [Range(Stem) -> Dirs]
  /\ registry \subseteq Range(Stem)
  /\ segs \in Seq({"running", "sealed"}) /\ (driver = "launch" => Len(segs) = launches)
HistoryType ==
  /\ summary \in Summaries /\ (driver = "launch" => ~summary.written)
  /\ skipped \subseteq Modules /\ proven \subseteq Modules
Shape == DriverType /\ TaskType /\ DiskType /\ HistoryType

(* The first target left is a module of the plan. *)
LEMMA UpcomingIsPlanned ==
  ASSUME todo \subseteq DOMAIN Plan, todo # {}
  PROVE  /\ Min(todo) \in todo /\ Upcoming \in Modules
         /\ Stem[Upcoming] \in Range(Stem)
<1>1. Plan \in Seq(Modules) /\ DOMAIN Stem = Modules
  BY CampaignAssumption
<1>2. Len(Plan) \in Nat /\ DOMAIN Plan = 1..Len(Plan)
  BY <1>1
<1>3. todo \in SUBSET (0..Len(Plan))
  BY <1>2
<1>4. \E first \in todo : \A p \in todo : first <= p
  BY <1>2, <1>3, FirstPosition
<1>5. Min(todo) \in todo
  BY <1>4 DEF Min
<1> QED
  BY <1>1, <1>2, <1>5 DEF Upcoming, Modules, Range

(* Of the archive slots of a launch, the one chosen is free.               *)
LEMMA SlotIsFree ==
  ASSUME streams \in Seq(Streams), launches \in Nat, NEW t
  PROVE  \E k \in Nat :
           /\ FreeSlot(t) = <<launches, k>>
           /\ \A i \in DOMAIN streams : streams[i].task = t => streams[i].place # <<launches, k>>
<1> DEFINE n == Len(streams)
           taken == {streams[i].place : i \in {j \in DOMAIN streams : streams[j].task = t}}
           Free == {k \in 1..(n + 1) : <<launches, k>> \notin taken}
<1>1. n \in Nat /\ DOMAIN streams = 1..n
  OBVIOUS
<1>2. Free # {}
  <2> SUFFICES ASSUME Free = {} PROVE FALSE
    OBVIOUS
  <2> DEFINE owner == [k \in 1..(n + 1) |->
                         CHOOSE i \in 1..n : streams[i].place = <<launches, k>>]
  <2>1. \A k \in 1..(n + 1) : <<launches, k>> \in taken
    OBVIOUS
  <2>2. \A k \in 1..(n + 1) : \E i \in 1..n : streams[i].place = <<launches, k>>
    BY <1>1, <2>1
  <2>3. \A k \in 1..(n + 1) : owner[k] \in 1..n /\ streams[owner[k]].place = <<launches, k>>
    BY <2>2
  <2>4. owner \in [1..(n + 1) -> 1..n]
    BY <2>3
  <2>5. /\ IsFiniteSet(1..n) /\ Cardinality(1..n) = n
        /\ IsFiniteSet(1..(n + 1)) /\ Cardinality(1..(n + 1)) = n + 1
    BY <1>1, FS_Interval
  <2>6. Cardinality(1..n) < Cardinality(1..(n + 1))
    BY <1>1, <2>5
  <2> DEFINE Slots == 1..(n + 1)
             Owners == 1..n
  <2>7. PICK j, k \in Slots : j # k /\ owner[j] = owner[k]
    <3>1. /\ IsFiniteSet(Slots) /\ IsFiniteSet(Owners)
          /\ Cardinality(Owners) < Cardinality(Slots) /\ owner \in [Slots -> Owners]
      BY <2>4, <2>5, <2>6
    <3> HIDE DEF Slots, Owners, owner
    <3> QED
      BY <3>1, FS_PigeonHole
  <2>8. <<launches, j>> = <<launches, k>>
    BY <2>3, <2>7
  <2> QED
    BY <2>7, <2>8
<1>3. PICK first \in Free : \A k \in Free : first <= k
  <2>1. Free \in SUBSET (0..(n + 1)) /\ n + 1 \in Nat
    BY <1>1
  <2> QED
    BY <1>2, <2>1, FirstPosition
<1> DEFINE Chosen(k) == /\ <<launches, k>> \notin taken
                        /\ \A j \in 1..(k - 1) : <<launches, j>> \in taken
           slot == CHOOSE k \in 1..(n + 1) : Chosen(k)
<1>4. first \in 1..(n + 1) /\ Chosen(first)
  <2>1. first \in 1..(n + 1) /\ <<launches, first>> \notin taken
    BY <1>3
  <2>2. \A j \in 1..(first - 1) : j \in 1..(n + 1) /\ ~(first <= j)
    BY <1>1, <2>1
  <2>3. \A j \in 1..(first - 1) : <<launches, j>> \in taken
    BY <1>3, <2>2
  <2> QED
    BY <2>1, <2>3
<1>5. slot \in 1..(n + 1) /\ Chosen(slot)
  <2> HIDE DEF Chosen
  <2> QED
    BY <1>4
<1>6. FreeSlot(t) = <<launches, slot>>
  BY DEF FreeSlot
<1>7. \A i \in DOMAIN streams : streams[i].task = t => streams[i].place \in taken
  OBVIOUS
<1> HIDE DEF taken
<1>8. slot \in Nat /\ <<launches, slot>> \notin taken
  BY <1>1, <1>5
<1> HIDE DEF slot
<1> QED
  BY <1>6, <1>7, <1>8

(* The largest of a bounded set of costs. *)
LEMMA LargestOf ==
  ASSUME NEW bound \in Nat, NEW S \in SUBSET (0..bound)
  PROVE  /\ Largest(S) \in 0..bound
         /\ S # {} => Largest(S) \in S
         /\ \A cost \in S : cost <= Largest(S)
<1>1. CASE S = {}
  BY <1>1 DEF Largest
<1>2. CASE S # {}
  <2> DEFINE Gaps == {bound - cost : cost \in S}
  <2>0. \A cost \in S : cost \in 0..bound /\ bound - cost \in 0..bound
    OBVIOUS
  <2>1. Gaps \in SUBSET (0..bound) /\ Gaps # {}
    BY <1>2, <2>0
  <2>2. PICK gap \in Gaps : \A other \in Gaps : gap <= other
    BY <2>1, FirstPosition
  <2>3. PICK top \in S : gap = bound - top
    OBVIOUS
  <2>4. \A cost \in S : bound - top <= bound - cost
    BY <2>2, <2>3
  <2>5. \A cost \in S : top >= cost
    BY <2>0, <2>4
  <2>6. Max(S) \in S /\ \A cost \in S : Max(S) >= cost
    BY <2>5 DEF Max
  <2>7. Largest(S) = Max(S)
    BY <1>2 DEF Largest
  <2> QED
    BY <2>6, <2>7
<1> QED
  BY <1>1, <1>2

(* What a turn's stream says of its cost is no more than what is billed,   *)
(* and a single priced terminal event says just that.                      *)
LEMMA TurnsAreTruthful ==
  ASSUME NEW turn \in Turns
  PROVE  /\ turn.raw \in Raws /\ turn.billed \in Nat /\ turn.halt \in BOOLEAN
         /\ \A cost \in Range(turn.raw.costs) : cost \in Nat /\ cost <= turn.billed
         /\ turn.raw.events = 1 /\ Len(turn.raw.costs) = 1 =>
              turn.raw.costs[1] = turn.billed
<1>0. Costs \subseteq Nat
  BY CampaignAssumption
<1>1. CASE turn \in PricedTurns
  <2>1. PICK cost \in Costs, halt \in BOOLEAN :
           turn = [raw |-> Priced(<<cost>>), billed |-> cost, halt |-> halt]
    BY <1>1 DEF PricedTurns
  <2>2. /\ turn.raw \in Raws /\ turn.billed \in Nat /\ turn.halt \in BOOLEAN
        /\ turn.raw.costs = <<cost>> /\ turn.billed = cost
    BY <1>0, <2>1 DEF Priced, Raws
  <2> QED
    BY <1>0, <2>2 DEF Range
<1>2. CASE turn \in AmbiguousTurns
  <2>1. PICK costs \in Costs \X Costs :
           turn = [raw |-> Priced(costs), billed |-> Largest(Range(costs)), halt |-> FALSE]
    BY <1>2 DEF AmbiguousTurns
  <2>2. PICK first \in Costs, last \in Costs : costs = <<first, last>>
    OBVIOUS
  <2>3. first \in Nat /\ last \in Nat /\ costs \in Seq(Nat) /\ Len(costs) = 2
    BY <1>0, <2>2
  <2>4. Range(costs) \in SUBSET (0..(first + last)) /\ first + last \in Nat
    BY <2>2, <2>3 DEF Range
  <2>5. /\ Largest(Range(costs)) \in Nat
        /\ \A cost \in Range(costs) : cost \in Nat /\ cost <= Largest(Range(costs))
    BY <2>4, LargestOf
  <2>6. /\ Priced(costs) \in Raws /\ Priced(costs).costs = costs
        /\ Priced(costs).events = 2
    BY <2>3 DEF Priced, Raws
  <2>7. /\ turn.raw = Priced(costs) /\ turn.billed = Largest(Range(costs))
        /\ turn.halt = FALSE
    BY <2>1
  <2>8. /\ turn.raw \in Raws /\ turn.raw.costs = costs /\ turn.raw.events = 2
        /\ turn.billed \in Nat /\ turn.halt \in BOOLEAN
    <3> DEFINE bill == Largest(Range(costs))
               raw == Priced(costs)
    <3>1. /\ turn.raw = raw /\ turn.billed = bill /\ turn.halt = FALSE
          /\ raw \in Raws /\ raw.costs = costs /\ raw.events = 2 /\ bill \in Nat
      BY <2>5, <2>6, <2>7
    <3> HIDE DEF bill, raw
    <3> QED
      BY <3>1
  <2> QED
    BY <2>5, <2>7, <2>8
<1>3. CASE turn \in UnpricedTurns
  <2>1. PICK events \in 0..1, cost \in Costs :
           turn = [raw |-> [events |-> events, costs |-> <<>>, torn |-> events = 0],
                   billed |-> cost, halt |-> FALSE]
    BY <1>3 DEF UnpricedTurns
  <2>2. /\ turn.raw \in Raws /\ turn.billed \in Nat /\ turn.halt \in BOOLEAN
        /\ turn.raw.costs = <<>>
    BY <1>0, <2>1 DEF Raws
  <2> QED
    BY <2>2 DEF Range
<1> QED
  BY <1>1, <1>2, <1>3 DEF Turns

------------------------------------------------------------------------------
(* What the actions do to the streams.                                     *)

(* One stream changes, and not whose it is or where.                       *)
OnlyStream(i) ==
  /\ streams' \in Seq(Streams) /\ Len(streams') = Len(streams)
  /\ \A j \in DOMAIN streams : j # i => streams'[j] = streams[j]
  /\ streams'[i].task = streams[i].task /\ streams'[i].place = streams[i].place
  /\ streams'[i].round = streams[i].round /\ streams'[i].launch = streams[i].launch

LEMMA TurnEnds ==
  ASSUME streams \in Seq(Streams), NEW i \in DOMAIN streams, EndTurn(i)
  PROVE  /\ OnlyStream(i)
         /\ streams'[i].lifecycle = streams[i].lifecycle
         /\ streams'[i].record = streams[i].record /\ ~streams'[i].open
         /\ \E turn \in Turns : /\ streams'[i].raw = turn.raw
                                /\ streams'[i].billed = turn.billed
                                /\ streams'[i].halt = turn.halt
<1>1. PICK turn \in Turns :
        streams' = [streams EXCEPT ![i].raw = turn.raw, ![i].billed = turn.billed,
                                   ![i].halt = turn.halt, ![i].open = FALSE]
  BY DEF EndTurn
<1>2. turn.raw \in Raws /\ turn.billed \in Nat /\ turn.halt \in BOOLEAN
  BY TurnsAreTruthful
<1> DEFINE ended == [streams[i] EXCEPT !.raw = turn.raw, !.billed = turn.billed,
                                       !.halt = turn.halt, !.open = FALSE]
<1>3. streams[i] \in Streams
  OBVIOUS
<1>4. ended \in Streams
  BY <1>2, <1>3 DEF Streams
<1>5. /\ ended.task = streams[i].task /\ ended.place = streams[i].place
      /\ ended.round = streams[i].round /\ ended.launch = streams[i].launch
      /\ ended.lifecycle = streams[i].lifecycle /\ ended.record = streams[i].record
      /\ ended.raw = turn.raw /\ ended.billed = turn.billed
      /\ ended.halt = turn.halt /\ ended.open = FALSE
  BY <1>3 DEF Streams
<1>6. streams' = [streams EXCEPT ![i] = ended]
  BY <1>1
<1> HIDE DEF ended
<1>7. /\ streams' \in Seq(Streams) /\ Len(streams') = Len(streams) /\ streams'[i] = ended
      /\ \A j \in DOMAIN streams : j # i => streams'[j] = streams[j]
  BY <1>4, <1>6
<1> QED
  BY <1>5, <1>7 DEF OnlyStream

LEMMA TurnSealed ==
  ASSUME streams \in Seq(Streams), This \in DOMAIN streams, SealTurn
  PROVE  /\ OnlyStream(This)
         /\ streams'[This] = [streams[This] EXCEPT !.lifecycle = "exited"]
         /\ streams'[This] \in Streams
<1> DEFINE sealed == [streams[This] EXCEPT !.lifecycle = "exited"]
<1>1. streams[This] \in Streams
  OBVIOUS
<1>2. /\ sealed \in Streams
      /\ sealed.task = streams[This].task /\ sealed.place = streams[This].place
      /\ sealed.round = streams[This].round /\ sealed.launch = streams[This].launch
  BY <1>1 DEF Streams
<1>3. streams' = [streams EXCEPT ![This] = sealed]
  BY DEF SealTurn
<1> HIDE DEF sealed
<1>4. /\ streams' \in Seq(Streams) /\ Len(streams') = Len(streams) /\ streams'[This] = sealed
      /\ \A j \in DOMAIN streams : j # This => streams'[j] = streams[j]
  BY <1>2, <1>3
<1> QED
  BY <1>2, <1>4 DEF OnlyStream, sealed

(* The cost a round record names is that of a terminal event. *)
LEMMA LastCostIsTold ==
  ASSUME NEW s \in Streams
  PROVE  /\ TerminalCosts(s) \in Seq(Nat)
         /\ LastCost(s) = Unpriced \/ LastCost(s) \in Range(TerminalCosts(s))
         /\ LastCost(s) \in Nat \cup {Unpriced}
<1>1. TerminalCosts(s) \in Seq(Nat)
  BY DEF TerminalCosts, HasRaw, Streams, Raws
<1>2. CASE TerminalCosts(s) = <<>>
  BY <1>1, <1>2 DEF LastCost
<1>3. CASE TerminalCosts(s) # <<>>
  <2>1. Len(TerminalCosts(s)) \in DOMAIN TerminalCosts(s)
    BY <1>1, <1>3
  <2> QED
    BY <1>1, <1>3, <2>1 DEF LastCost, Last, Range
<1> QED
  BY <1>1, <1>2, <1>3

LEMMA RoundRecorded ==
  ASSUME streams \in Seq(Streams), This \in DOMAIN streams, RecordRound
  PROVE  /\ OnlyStream(This)
         /\ streams'[This] = [streams[This] EXCEPT !.record = LastCost(streams[This])]
         /\ streams'[This] \in Streams
<1> DEFINE recorded == [streams[This] EXCEPT !.record = LastCost(streams[This])]
<1>1. streams[This] \in Streams /\ LastCost(streams[This]) \in Nat \cup {Unpriced}
  BY LastCostIsTold
<1>2. /\ recorded \in Streams
      /\ recorded.task = streams[This].task /\ recorded.place = streams[This].place
      /\ recorded.round = streams[This].round /\ recorded.launch = streams[This].launch
  BY <1>1 DEF Streams
<1>3. streams' = [streams EXCEPT ![This] = recorded]
  BY DEF RecordRound
<1> HIDE DEF recorded
<1>4. /\ streams' \in Seq(Streams) /\ Len(streams') = Len(streams) /\ streams'[This] = recorded
      /\ \A j \in DOMAIN streams : j # This => streams'[j] = streams[j]
  BY <1>2, <1>3
<1> QED
  BY <1>2, <1>4 DEF OnlyStream, recorded

(* A new stream comes last. *)
Fresh(s) ==
  /\ s \in Streams /\ s.task = Tid /\ s.place = Live /\ s.round = task.round
  /\ s.launch = launches /\ s.lifecycle = "started" /\ s.raw = NoRaw
  /\ s.record = NoRecord /\ s.billed = 0 /\ s.open /\ ~s.halt

LEMMA RoundBegun ==
  ASSUME Shape, BeginRound
  PROVE  /\ streams' \in Seq(Streams) /\ Len(streams') = Len(streams) + 1
         /\ \A j \in DOMAIN streams : streams'[j] = streams[j]
         /\ Fresh(streams'[Len(streams) + 1])
<1> DEFINE new == [task |-> Tid, place |-> Live, round |-> task.round, launch |-> launches,
                   lifecycle |-> "started", raw |-> NoRaw, record |-> NoRecord,
                   billed |-> 0, open |-> TRUE, halt |-> FALSE]
<1>0. MaxLaunches \in Nat /\ MaxRounds \in Nat /\ DOMAIN Stem = Modules
  BY CampaignAssumption
<1>1. /\ task \in Run /\ task.round \in Nat /\ launches \in Nat /\ streams \in Seq(Streams)
      /\ Tid \in Range(Stem)
  BY <1>0 DEF Shape, DriverType, TaskType, DiskType, BeginRound, At, Tid, Run, Range
<1>2. Fresh(new)
  BY <1>1 DEF Fresh, Streams, Live
<1>3. streams' = Append(streams, new)
  BY DEF BeginRound
<1> HIDE DEF new
<1>4. new \in Streams
  BY <1>2 DEF Fresh
<1> QED
  BY <1>1, <1>2, <1>3, <1>4

(* Archiving moves the streams of the next target that are in its way.     *)
LEMMA ReceiptsArchived ==
  ASSUME streams \in Seq(Streams), launches \in Nat, NEW t, streams' = Archived(t)
  PROVE  /\ streams' \in Seq(Streams) /\ Len(streams') = Len(streams)
         /\ \A i \in DOMAIN streams :
              IF streams[i].task = t /\ streams[i].place = Live
              THEN streams'[i] = [streams[i] EXCEPT !.place = FreeSlot(t)]
              ELSE streams'[i] = streams[i]
<1>1. PICK k \in Nat : FreeSlot(t) = <<launches, k>>
  BY SlotIsFree
<1>2. FreeSlot(t) \in Seq(Nat)
  BY <1>1
<1>3. \A i \in DOMAIN streams :
        streams[i] \in Streams /\ [streams[i] EXCEPT !.place = FreeSlot(t)] \in Streams
  <2> DEFINE slot == FreeSlot(t)
  <2> SUFFICES ASSUME NEW i \in DOMAIN streams
               PROVE  streams[i] \in Streams /\ [streams[i] EXCEPT !.place = slot] \in Streams
    OBVIOUS
  <2>1. slot \in Seq(Nat) /\ streams[i] \in Streams
    BY <1>2
  <2> HIDE DEF slot
  <2> QED
    BY <2>1 DEF Streams
<1>4. DOMAIN streams = 1..Len(streams) /\ Len(streams) \in Nat
  OBVIOUS
<1>5. streams' \in [1..Len(streams) -> Streams]
  BY <1>3, <1>4 DEF Archived
<1>6. \A i \in DOMAIN streams :
        streams'[i] = IF streams[i].task = t /\ streams[i].place = Live
                      THEN [streams[i] EXCEPT !.place = FreeSlot(t)] ELSE streams[i]
  BY DEF Archived
<1>7. streams' \in Seq(Streams) /\ Len(streams') = Len(streams)
  BY <1>4, <1>5
<1> QED
  BY <1>6, <1>7

------------------------------------------------------------------------------
(* The type invariant. *)
LEMMA ShapeInit == Init => Shape
<1> SUFFICES ASSUME Init PROVE Shape
  OBVIOUS
<1>1. /\ Drivers \subseteq {"launch", "layer"} /\ MaxLaunches \in Nat
  BY CampaignAssumption
<1>2. DriverType /\ TaskType
  BY <1>1 DEF Init, DriverType, TaskType
<1>3. NoDir \in Dirs /\ NoSummary \in Summaries
  BY DEF NoDir, Dirs, NoSummary, Summaries
<1>4. DiskType /\ HistoryType
  BY <1>3 DEF Init, DiskType, HistoryType, NoSummary
<1> QED
  BY <1>2, <1>4 DEF Shape

(* The bounds, as the steps use them. *)
LEMMA Bounds ==
  /\ MaxLaunches \in Nat \ {0} /\ MaxRounds \in Nat \ {0} /\ DOMAIN Stem = Modules
  /\ NoRecord # Unpriced /\ NoRecord \notin Nat /\ None \notin Run
BY CampaignAssumption

(* A task that is done with a round has a stream. *)
LEMMA ThisIsAStream ==
  ASSUME Shape, At("agent") \/ At("turned") \/ At("gate")
  PROVE  This \in DOMAIN streams /\ This \in Nat \ {0} /\ task.from < This
         /\ streams \in Seq(Streams)
BY DEF Shape, TaskType, DiskType, At, This, Run

(* A driver opens a launch. *)
LEMMA ShapeStarts ==
  ASSUME Shape, StartLayer \/ StartLaunch
  PROVE  Shape'
<1>0. streams' = streams /\ task' = task /\ task = None /\ None \notin Run
  BY Bounds DEF StartLayer, StartLaunch
<1>1. CASE StartLayer
  <2>1. DriverType' /\ TaskType'
    BY <1>0, <1>1, Bounds DEF Shape, DriverType, TaskType, StartLayer, options, Unskipped
  <2>2. DiskType' /\ HistoryType'
    BY <1>1 DEF Shape, DriverType, DiskType, HistoryType, StartLayer, options, NoSummary, Summaries
  <2> QED
    BY <2>1, <2>2 DEF Shape
<1>2. CASE StartLaunch
  <2>1. DriverType' /\ TaskType'
    BY <1>0, <1>2, Bounds DEF Shape, DriverType, TaskType, StartLaunch, options
  <2>2. DiskType' /\ HistoryType'
    BY <1>2 DEF Shape, DriverType, DiskType, HistoryType, StartLaunch, options
  <2> QED
    BY <2>1, <2>2 DEF Shape
<1> QED
  BY <1>1, <1>2

(* A driver moves between tasks. *)
LEMMA ShapeDrives ==
  ASSUME Shape, SkipTarget \/ Archive \/ AuditArchive \/ Spawn
  PROVE  Shape'
<1>1. CASE SkipTarget
  <2>1. Upcoming \in Modules
    BY <1>1, UpcomingIsPlanned DEF Shape, DriverType, SkipTarget
  <2>2. DriverType' /\ TaskType'
    BY <1>1 DEF Shape, DriverType, TaskType, SkipTarget, TargetDone, options
  <2>3. DiskType' /\ HistoryType'
    BY <1>1, <2>1 DEF Shape, DiskType, HistoryType, SkipTarget, options
  <2> QED
    BY <2>2, <2>3 DEF Shape
<1>2. CASE Archive
  <2>1. todo # {} /\ todo \subseteq DOMAIN Plan /\ launches \in Nat /\ streams \in Seq(Streams)
    BY <1>2, Bounds DEF Shape, DriverType, DiskType, Archive
  <2>2. Stem[Upcoming] \in Range(Stem)
    BY <2>1, UpcomingIsPlanned
  <2>3. /\ streams' \in Seq(Streams) /\ Len(streams') = Len(streams)
        /\ dirs' \in [Range(Stem) -> Dirs]
    <3>1. CASE NeedsArchive(Stem[Upcoming])
      <4>1. streams' = Archived(Stem[Upcoming]) /\ dirs' = [dirs EXCEPT ![Stem[Upcoming]] = NoDir]
        BY <1>2, <3>1 DEF Archive
      <4>2. NoDir \in Dirs
        BY DEF NoDir, Dirs
      <4> QED
        BY <2>1, <4>1, <4>2, ReceiptsArchived DEF Shape, DiskType
    <3>2. CASE ~NeedsArchive(Stem[Upcoming])
      BY <1>2, <2>1, <3>2 DEF Archive, Shape, DiskType
    <3> QED
      BY <3>1, <3>2
  <2>4. DriverType' /\ TaskType'
    BY <1>2, <2>3 DEF Shape, DriverType, TaskType, Archive, options
  <2>5. DiskType' /\ HistoryType'
    BY <1>2, <2>3 DEF Shape, DiskType, HistoryType, Archive, options
  <2> QED
    BY <2>4, <2>5 DEF Shape
<1>3. CASE AuditArchive
  BY <1>3 DEF Shape, DriverType, TaskType, DiskType, HistoryType, AuditArchive, options
<1>4. CASE Spawn
  <2>1. todo # {} /\ Upcoming \in Modules /\ Stem[Upcoming] \in Range(Stem)
    BY <1>4, UpcomingIsPlanned DEF Shape, DriverType, Spawn
  <2>2. Len(streams) \in Nat
    BY DEF Shape, DiskType
  <2>3. task' \in Run /\ task'.round = 1 /\ task'.from = Len(streams) /\ task'.step = "round"
    <3>1. task' = [module |-> Upcoming, step |-> "round", round |-> 1, label |-> "none",
                   from |-> Len(streams)]
      BY <1>4 DEF Spawn
    <3> QED
      BY <2>1, <2>2, <3>1 DEF Run
  <2>4. DriverType' /\ TaskType'
    BY <1>4, <2>2, <2>3, Bounds DEF Shape, DriverType, TaskType, Spawn, TargetDone, options
  <2>5. dirs' \in [Range(Stem) -> Dirs]
    BY <1>4, <2>1 DEF Shape, DiskType, Spawn, Dirs
  <2>6. DiskType' /\ HistoryType'
    BY <1>4, <2>5 DEF Shape, DiskType, HistoryType, Spawn, options
  <2> QED
    BY <2>4, <2>6 DEF Shape
<1> QED
  BY <1>1, <1>2, <1>3, <1>4

(* A driver ends, an operator audits. *)
LEMMA ShapeEnds ==
  ASSUME Shape, Finish \/ Interrupt \/ Die \/ OperatorAudit
  PROVE  Shape'
<1>1. segs' \in Seq({"running", "sealed"}) /\ Len(segs') = Len(segs)
  BY DEF Shape, DiskType, Finish, Interrupt, Die, OperatorAudit
<1>2. DriverType' /\ TaskType'
  BY Bounds DEF Shape, DriverType, TaskType, Finish, Interrupt, Die, OperatorAudit, options
<1>3. DiskType'
  BY <1>1 DEF Shape, DiskType, Finish, Interrupt, Die, OperatorAudit, options
<1>4. HistoryType'
  BY DEF Shape, DriverType, HistoryType, Summaries, Finish, Interrupt, Die, OperatorAudit, options
<1> QED
  BY <1>2, <1>3, <1>4 DEF Shape

(* A turn of the agent, in a round or after its run.py is gone. *)
LEMMA ShapeTurns ==
  ASSUME Shape, BeginRound \/ Turn \/ OrphanTurn \/ SealTurn \/ RecordRound
  PROVE  Shape'
<1>1. /\ streams' \in Seq(Streams) /\ Len(streams') \in Nat /\ Len(streams) \in Nat
      /\ Len(streams') = Len(streams) + (IF BeginRound THEN 1 ELSE 0)
  <2>1. CASE BeginRound
    BY <2>1, RoundBegun DEF Shape, DiskType
  <2>2. CASE ~BeginRound /\ Turn
    <3>1. EndTurn(This) /\ This \in DOMAIN streams
      BY <2>2, ThisIsAStream DEF Turn, This
    <3> QED
      BY <2>2, <3>1, TurnEnds DEF Shape, DiskType, OnlyStream
  <2>3. CASE ~BeginRound /\ OrphanTurn
    BY <2>3, TurnEnds DEF OrphanTurn, Shape, DiskType, OnlyStream
  <2>4. CASE ~BeginRound /\ SealTurn
    BY <2>4, TurnSealed, ThisIsAStream DEF SealTurn, OnlyStream, Shape, DiskType
  <2>5. CASE ~BeginRound /\ RecordRound
    BY <2>5, RoundRecorded, ThisIsAStream DEF RecordRound, OnlyStream, Shape, DiskType
  <2> QED
    BY <2>1, <2>2, <2>3, <2>4, <2>5
<1>2. DriverType' /\ HistoryType' /\ DiskType' /\ pc' = pc
  <2>1. UNCHANGED <<driverVars, dirs, registry, proven>>
    BY DEF BeginRound, Turn, OrphanTurn, SealTurn, RecordRound
  <2> QED
    BY <1>1, <2>1 DEF Shape, DriverType, HistoryType, DiskType, driverVars, options
<1>3. CASE OrphanTurn /\ ~BeginRound
  BY <1>1, <1>2, <1>3 DEF OrphanTurn, Shape, TaskType
<1>4. CASE BeginRound \/ Turn \/ SealTurn \/ RecordRound
  <2>1. task \in Run /\ task # None /\ pc = "wait" /\ task.from <= Len(streams)
        /\ task.round \in 1..MaxRounds /\ task.from \in Nat
    BY <1>4 DEF Shape, TaskType, BeginRound, Turn, SealTurn, RecordRound, At, Run
  <2>2. /\ task' \in Run /\ task'.from = task.from /\ task'.round \in 1..MaxRounds
        /\ task'.step \in {"agent", "turned", "gate"} => task.from < Len(streams')
    <3>1. CASE BeginRound
      <4>1. task' = [task EXCEPT !.step = "agent"]
        BY <3>1 DEF BeginRound, Goto
      <4>2. task.from < Len(streams')
        BY <1>1, <2>1, <3>1 DEF BeginRound
      <4> QED
        BY <2>1, <4>1, <4>2 DEF Run
    <3>2. CASE Turn /\ ~BeginRound
      BY <1>1, <2>1, <3>2, ThisIsAStream DEF Turn, Goto, Run, This
    <3>3. CASE SealTurn /\ ~BeginRound
      <4>1. \/ task' = [task EXCEPT !.step = "verdict", !.label = "RATE_LIMITED"]
            \/ task' = [task EXCEPT !.step = "gate"]
        BY <3>3 DEF SealTurn, AfterTurn
      <4>2. task.from < Len(streams')
        BY <1>1, <3>3, ThisIsAStream DEF SealTurn, This
      <4> QED
        BY <2>1, <4>1, <4>2 DEF Run
    <3>4. CASE RecordRound /\ ~BeginRound
      <4>1. \/ /\ task' = [task EXCEPT !.step = "round", !.round = task.round + 1]
               /\ task.round < MaxRounds
            \/ task' = [task EXCEPT !.step = "verdict", !.label = "LIMIT"]
            \/ task' = [task EXCEPT !.step = "verdict", !.label = "COMPLETE"]
        BY <2>1, <3>4 DEF RecordRound, MoreRounds, Run
      <4>2. task.round < MaxRounds =>
              task.round + 1 \in Nat /\ task.round + 1 \in 1..MaxRounds
        BY <2>1, Bounds
      <4> QED
        BY <2>1, <4>1, <4>2 DEF Run
    <3> QED
      BY <1>4, <3>1, <3>2, <3>3, <3>4
  <2>3. TaskType'
    BY <1>1, <1>2, <2>1, <2>2, Bounds DEF TaskType
  <2> QED
    BY <1>2, <2>3 DEF Shape
<1> QED
  BY <1>2, <1>3, <1>4 DEF Shape

(* What a task's own rounds add to the summary are numbers. *)
LEMMA OwnCostsAreNumbers ==
  ASSUME Shape, task # None
  PROVE  /\ OwnCosts \in [1..Len(streams) -> Nat] /\ Total(OwnCosts) \in Nat
         /\ IsFiniteSet(OwnRounds \ PricedRounds)
         /\ Cardinality(OwnRounds \ PricedRounds) \in Nat
<1>1. streams \in Seq(Streams) /\ DOMAIN streams = 1..Len(streams) /\ Len(streams) \in Nat
      /\ task.from \in Nat
  BY DEF Shape, DiskType, TaskType, Run
<1>2. \A i \in PricedRounds : i \in DOMAIN streams /\ streams[i].record \in Nat
  <2> SUFFICES ASSUME NEW i \in PricedRounds
               PROVE  i \in DOMAIN streams /\ streams[i].record \in Nat
    OBVIOUS
  <2>1. i \in DOMAIN streams /\ streams[i].record # NoRecord /\ streams[i].record # Unpriced
    BY <1>1 DEF PricedRounds, OwnRounds
  <2>2. streams[i] \in Streams
    BY <1>1, <2>1
  <2> QED
    BY <2>1, <2>2 DEF Streams
<1>3. OwnCosts \in [1..Len(streams) -> Nat]
  BY <1>1, <1>2 DEF OwnCosts
<1>4. Total(OwnCosts) \in Nat
  <2> DEFINE n == Len(streams)
             own == OwnCosts
  <2>1. n \in Nat /\ own \in [1..n -> Nat]
    BY <1>1, <1>3
  <2> HIDE DEF n, own
  <2>2. n <= n /\ \A i \in 1..n : own[i] <= own[i]
    BY <2>1
  <2>3. Total(own) \in Nat
    BY <2>1, <2>2, TotalGrows
  <2> QED
    BY <2>3 DEF own
<1>5. IsFiniteSet((task.from + 1)..Len(streams))
  BY <1>1, FS_Interval
<1>6. OwnRounds \ PricedRounds \subseteq (task.from + 1)..Len(streams)
  BY DEF OwnRounds
<1>7. IsFiniteSet(OwnRounds \ PricedRounds)
  BY <1>5, <1>6, FS_Subset
<1> QED
  BY <1>3, <1>4, <1>7, FS_CardinalityType

(* The task writes its receipts, and returns or dies. *)
LEMMA ShapeReturns ==
  ASSUME Shape, WriteReceipt \/ WriteResult \/ Register \/ Raise \/ KillTask
  PROVE  Shape'
<1>1. task # None /\ task \in Run /\ pc = "wait" /\ task.module \in Modules
      /\ Tid \in Range(Stem) /\ Success \in BOOLEAN
  BY Bounds DEF Shape, TaskType, WriteReceipt, WriteResult, Register, Raise, KillTask, At, Run,
       Tid, Range, Success
<1>2. /\ task' = None /\ pc' = "pick" /\ todo' \subseteq todo
      \/ /\ task' = [task EXCEPT !.step = "promoted"] \/ task' = [task EXCEPT !.step = "reported"]
         /\ UNCHANGED <<pc, todo>>
  BY DEF WriteReceipt, WriteResult, Register, Raise, KillTask, LeaveByException, Return, Goto,
       driverVars
<1>3. UNCHANGED <<streams, segs, launches, options, skipped>>
  BY DEF WriteReceipt, WriteResult, Register, Raise, KillTask, driverVars
<1>4. DriverType'
  BY <1>1, <1>2, <1>3 DEF Shape, DriverType, options
<1>5. TaskType'
  BY <1>1, <1>2, <1>3, Bounds DEF Shape, TaskType, Run
<1>6. dirs' \in [Range(Stem) -> Dirs]
  <2>1. dirs \in [Range(Stem) -> Dirs]
    BY DEF Shape, DiskType
  <2>2. Receipt \in [of : Modules, success : BOOLEAN]
        /\ [success |-> Success] \in [success : BOOLEAN]
    BY <1>1 DEF Receipt
  <2>3. dirs[Tid] \in Dirs
    BY <1>1, <2>1
  <2>4. [dirs[Tid] EXCEPT !.receipt = Receipt] \in Dirs
        /\ [dirs[Tid] EXCEPT !.result = [success |-> Success]] \in Dirs
    BY <2>2, <2>3 DEF Dirs
  <2>5. \/ dirs' = dirs
        \/ dirs' = [dirs EXCEPT ![Tid] = [dirs[Tid] EXCEPT !.receipt = Receipt]]
        \/ dirs' = [dirs EXCEPT ![Tid] = [dirs[Tid] EXCEPT !.result = [success |-> Success]]]
    BY DEF WriteReceipt, WriteResult, Register, Raise, KillTask
  <2> QED
    BY <2>1, <2>4, <2>5
<1>7. registry' \subseteq Range(Stem) /\ proven' \subseteq Modules
  BY <1>1 DEF Shape, DiskType, HistoryType, WriteReceipt, WriteResult, Register, Raise, KillTask,
       driverVars
<1>8. DiskType'
  BY <1>3, <1>6, <1>7 DEF Shape, DiskType, options
<1>9. summary' \in Summaries /\ summary'.written = summary.written
  <2>1. summary \in Summaries
    BY DEF Shape, HistoryType
  <2>2. UnreceiptedModule \in Summaries /\ UnreceiptedModule.written = summary.written
    BY <2>1 DEF UnreceiptedModule, Summaries
  <2>3. Aggregated \in Summaries /\ Aggregated.written = summary.written
    <3> DEFINE more == Total(OwnCosts)
               unknown == Cardinality(OwnRounds \ PricedRounds)
    <3>1. more \in Nat /\ unknown \in Nat
      BY <1>1, OwnCostsAreNumbers
    <3>2. Aggregated = [summary EXCEPT !.recorded = @ + more, !.unknownRounds = @ + unknown]
      BY DEF Aggregated
    <3> HIDE DEF more, unknown
    <3>3. /\ Aggregated = [summary EXCEPT !.recorded = summary.recorded + more,
                                          !.unknownRounds = summary.unknownRounds + unknown]
          /\ summary.recorded + more \in Nat /\ summary.unknownRounds + unknown \in Nat
      BY <2>1, <3>1, <3>2 DEF Summaries
    <3> QED
      BY <2>1, <3>3 DEF Summaries
  <2>4. summary' \in {summary, UnreceiptedModule, Aggregated}
    BY DEF WriteReceipt, WriteResult, Register, Raise, KillTask, LeaveByException, driverVars
  <2> QED
    BY <2>1, <2>2, <2>3, <2>4
<1>10. HistoryType'
  BY <1>3, <1>7, <1>9 DEF Shape, HistoryType, options
<1> QED
  BY <1>4, <1>5, <1>8, <1>10 DEF Shape

LEMMA ShapeStep == Shape /\ [Next]_vars => Shape'
<1> SUFFICES ASSUME Shape, [Next]_vars PROVE Shape'
  OBVIOUS
<1>1. CASE Next
  BY <1>1, ShapeStarts, ShapeDrives, ShapeEnds, ShapeTurns, ShapeReturns
     DEF Next, Drive, Work, Trouble
<1>2. CASE UNCHANGED vars
  BY <1>2 DEF vars, options, Shape, DriverType, TaskType, DiskType, HistoryType
<1> QED
  BY <1>1, <1>2

LEMMA AlwaysShape == Spec => []Shape
BY ShapeInit, ShapeStep, PTL DEF Spec

(* Type correctness: a task in progress is within its rounds exactly while *)
(* its driver waits, and the launches are those the envelope lists.        *)
THEOREM CampaignTypes == Spec => []TypeOK
<1>1. Shape => TypeOK
  BY DEF Shape, DriverType, TaskType, DiskType, HistoryType, Run, TypeOK
<1> QED
  BY <1>1, AlwaysShape, PTL

------------------------------------------------------------------------------
(* Which actions write which of the records.                               *)
LEMMA Writers ==
  ASSUME [Next]_vars
  PROVE  /\ registry' = registry \/ Register
         /\ skipped' = skipped \/ StartLayer \/ SkipTarget
         /\ proven' = proven \/ WriteReceipt
         /\ dirs' = dirs \/ Archive \/ Spawn \/ WriteReceipt \/ WriteResult
         /\ summary' = summary \/ StartLayer \/ Finish \/ Register \/ LeaveByException
         /\ \/ streams' = streams \/ Archive
            \/ BeginRound \/ Turn \/ OrphanTurn \/ SealTurn \/ RecordRound
         /\ \/ audit' = audit /\ (segs' = segs \/ Finish)
            \/ StartLaunch \/ AuditArchive \/ Finish \/ Interrupt \/ OperatorAudit
            \/ \E rc \in {0, 1, 42, 137} : Return(rc) /\ segs' = segs
         /\ UNCHANGED options
<1>1. CASE UNCHANGED vars
  BY <1>1 DEF vars
<1>2. CASE Drive
  BY <1>2 DEF Drive, StartLayer, StartLaunch, SkipTarget, Archive, AuditArchive, Spawn, Finish
<1>3. CASE Work
  <2>1. CASE BeginRound \/ Turn \/ SealTurn \/ RecordRound \/ WriteResult
    BY <2>1 DEF BeginRound, Turn, SealTurn, RecordRound, WriteResult, driverVars
  <2>2. CASE WriteReceipt
    BY <2>2 DEF WriteReceipt, LeaveByException
  <2>3. CASE Register
    BY <2>3 DEF Register
  <2>4. CASE Raise
    BY <2>4 DEF Raise, LeaveByException
  <2> QED
    BY <1>3, <2>1, <2>2, <2>3, <2>4 DEF Work
<1>4. CASE Trouble
  BY <1>4 DEF Trouble, Interrupt, Die, OperatorAudit, OrphanTurn, KillTask, driverVars
<1> QED
  BY <1>1, <1>2, <1>3, <1>4 DEF Next

(* What the steps do to a task: it starts, moves on, or is gone.           *)
LEMMA TaskMoves ==
  ASSUME Shape, [Next]_vars
  PROVE  \/ task' = task
         \/ task = None /\ Spawn
         \/ task' = None
         \/ BeginRound \/ Turn \/ SealTurn \/ RecordRound
         \/ WriteReceipt /\ Goto("promoted")
         \/ WriteResult
<1>1. Spawn => task = None
  BY DEF Spawn, Shape, TaskType
<1>2. CASE UNCHANGED vars \/ Drive \/ Trouble
  BY <1>1, <1>2 DEF vars, Drive, StartLayer, StartLaunch, SkipTarget, Archive, AuditArchive, Finish,
       Trouble, Interrupt, Die, OperatorAudit, OrphanTurn, KillTask, Return, driverVars
<1>3. CASE Work
  BY <1>3 DEF Work, WriteReceipt, Register, Raise, LeaveByException, Return
<1> QED
  BY <1>2, <1>3 DEF Next
------------------------------------------------------------------------------
(* What a skip rests on: the registry, a result and a promoted task all    *)
(* say success only of a task id of which some module's run was accepted.  *)
Earns(t) == \E m \in proven : Stem[m] = t
EarnedRegistry == \A t \in registry : Earns(t)
EarnedResults ==
  \A t \in Range(Stem) : dirs[t].result # None /\ dirs[t].result.success => Earns(t)
EarnedTask ==
  task # None /\ task.step \in {"promoted", "reported"} /\ Success => task.module \in proven
Earned == EarnedRegistry /\ EarnedResults /\ EarnedTask /\ SkippedAfterSuccess

LEMMA EarnedInit == Init => Earned
<1> SUFFICES ASSUME Init PROVE Earned
  OBVIOUS
<1>1. EarnedResults
  BY DEF Init, EarnedResults, NoDir
<1> QED
  BY <1>1 DEF Init, Earned, EarnedRegistry, EarnedTask, SkippedAfterSuccess

LEMMA EarnedStep == Shape /\ Earned /\ [Next]_vars => Earned'
<1> SUFFICES ASSUME Shape, Earned, [Next]_vars PROVE Earned'
  OBVIOUS
<1>1. proven \subseteq proven'
  BY Writers DEF WriteReceipt
<1>2. \A t : Earns(t) => Earns(t)'
  BY <1>1 DEF Earns
<1>3. EarnedRegistry'
  <2>1. CASE registry' = registry
    BY <1>2, <2>1 DEF Earned, EarnedRegistry
  <2>2. CASE Register
    <3>1. Success => Earns(Tid)
      BY <2>2 DEF Register, At, Earned, EarnedTask, Earns, Tid
    <3>2. \A t \in registry' : Earns(t)
      BY <2>2, <3>1 DEF Register, Earned, EarnedRegistry
    <3> QED
      BY <1>2, <3>2 DEF EarnedRegistry
  <2> QED
    BY <2>1, <2>2, Writers
<1>4. EarnedResults'
  <2> SUFFICES ASSUME NEW t \in Range(Stem), dirs'[t].result # None, dirs'[t].result.success
               PROVE  Earns(t)'
    BY DEF EarnedResults
  <2>1. dirs \in [Range(Stem) -> Dirs]
    BY DEF Shape, DiskType
  <2>2. CASE dirs'[t].result = dirs[t].result
    BY <1>2, <2>2 DEF Earned, EarnedResults
  <2>3. CASE Archive
    BY <2>1, <2>2, <2>3 DEF Archive, NoDir
  <2>4. CASE Spawn \/ WriteReceipt
    BY <2>1, <2>2, <2>4 DEF Spawn, WriteReceipt, Dirs
  <2>5. CASE WriteResult
    <3>1. CASE t = Tid
      <4>1. dirs'[t].result = [success |-> Success]
        BY <2>1, <2>5, <3>1 DEF WriteResult, Dirs
      <4>2. task.module \in proven
        BY <2>5, <4>1 DEF WriteResult, At, Earned, EarnedTask
      <4> QED
        BY <1>2, <3>1, <4>2 DEF Earns, Tid
    <3> QED
      BY <2>1, <2>2, <2>5, <3>1 DEF WriteResult
  <2> QED
    BY <2>2, <2>3, <2>4, <2>5, Writers
<1>5. EarnedTask'
  <2> SUFFICES ASSUME task' # None, task'.step \in {"promoted", "reported"}, Success'
               PROVE  task'.module \in proven'
    BY DEF EarnedTask
  <2>1. CASE task' = task
    BY <1>1, <2>1 DEF Earned, EarnedTask, Success
  <2>2. CASE task = None /\ Spawn
    BY <2>2 DEF Spawn
  <2>3. task' # task /\ task # None => task \in Run
    BY DEF Shape, TaskType
  <2>4. CASE BeginRound \/ Turn \/ SealTurn \/ RecordRound
    BY <2>3, <2>4 DEF BeginRound, Turn, SealTurn, RecordRound, AfterTurn, At, Goto, Run
  <2>5. CASE WriteReceipt /\ Goto("promoted")
    BY <2>3, <2>5 DEF WriteReceipt, At, Goto, Run, Success
  <2>6. CASE WriteResult
    BY <1>1, <2>3, <2>6 DEF WriteResult, At, Goto, Run, Success, Earned, EarnedTask
  <2> QED
    BY <2>1, <2>2, <2>4, <2>5, <2>6, TaskMoves
<1>6. SkippedAfterSuccess'
  <2> SUFFICES ASSUME NEW m \in skipped' PROVE Earns(Stem[m])'
    BY DEF SkippedAfterSuccess, Earns
  <2>1. CASE m \in skipped
    BY <1>2, <2>1 DEF Earned, SkippedAfterSuccess, Earns
  <2>2. CASE m \notin skipped /\ StartLayer
    <3>1. Skips(m) /\ m \in Modules
      BY <2>2 DEF StartLayer
    <3>2. Stem[m] \in Range(Stem)
      BY <3>1, Bounds DEF Range
    <3> QED
      BY <1>2, <3>1, <3>2 DEF Skips, AlreadyProven, PreviouslySuccessful, Earned, EarnedRegistry,
           EarnedResults
  <2>3. CASE m \notin skipped /\ SkipTarget
    BY <1>2, <2>3 DEF SkipTarget, AlreadyProven, Earned, EarnedRegistry
  <2> QED
    BY <2>1, <2>2, <2>3, Writers
<1> QED
  BY <1>3, <1>4, <1>5, <1>6 DEF Earned

(* A module is skipped only after some module of that task id was          *)
(* accepted, whatever died between its receipt, its result and its entry.  *)
THEOREM SkipsAreEarned == Spec => []SkippedAfterSuccess
<1>1. Init => Earned
  BY EarnedInit
<1>2. Shape /\ Earned /\ [Next]_vars => Earned'
  BY EarnedStep
<1>3. Earned => SkippedAfterSuccess
  BY DEF Earned
<1> QED
  BY <1>1, <1>2, <1>3, AlwaysShape, PTL DEF Spec

(* run_layer.py:11-14 as it stands: where no two modules of the plan share *)
(* a file stem, whatever is skipped has succeeded itself.                  *)
THEOREM DistinctStemsSkipProven ==
  ASSUME \A m, n \in Modules : Stem[m] = Stem[n] => m = n
  PROVE  Spec => []SkippedWasProven
<1>1. Shape /\ SkippedAfterSuccess => SkippedWasProven
  <2> SUFFICES ASSUME Shape, SkippedAfterSuccess, NEW m \in skipped PROVE m \in proven
    BY DEF SkippedWasProven
  <2>1. skipped \subseteq Modules /\ proven \subseteq Modules
    BY DEF Shape, HistoryType
  <2>2. PICK n \in proven : Stem[n] = Stem[m]
    BY DEF SkippedAfterSuccess
  <2> QED
    BY <2>1, <2>2
<1> QED
  BY <1>1, AlwaysShape, SkipsAreEarned, PTL

------------------------------------------------------------------------------
(* What the receipts of a turn say of its cost.  Nothing is said of a turn *)
(* that may go on, nothing said exceeds what is billed, and one terminal   *)
(* event with a cost names what is billed.                                 *)
Unsaid(s) ==
  s.raw = NoRaw /\ s.record = NoRecord /\ s.lifecycle = "started" /\ s.billed = 0 /\ ~s.halt
Said(s) == Range(TerminalCosts(s)) \cup RecordCosts(s)
Receipted(s) ==
  /\ s.open => Unsaid(s)
  /\ \A cost \in Said(s) : cost \in Nat /\ cost <= s.billed
  /\ Events(s) = 1 /\ Len(TerminalCosts(s)) = 1 => TerminalCosts(s)[1] = s.billed
CurrentTurn ==
  task # None /\ task.step \in {"agent", "turned", "gate"} =>
    (streams[This].open <=> task.step = "agent")
Receipts == CurrentTurn /\ \A i \in DOMAIN streams : Receipted(streams[i])

(* Only the raw stream, the round record and the end of the turn matter.   *)
LEMMA SameReceipt ==
  ASSUME NEW s, NEW r, Receipted(s), r.raw = s.raw, r.record = s.record, r.billed = s.billed,
         r.open = s.open, r.halt = s.halt, s.open => r.lifecycle = s.lifecycle
  PROVE  Receipted(r)
<1>1. HasRaw(r) = HasRaw(s) /\ RecordCosts(r) = RecordCosts(s)
  BY DEF HasRaw, RecordCosts
<1>2. TerminalCosts(r) = TerminalCosts(s) /\ Events(r) = Events(s)
  BY <1>1 DEF TerminalCosts, Events
<1> QED
  BY <1>1, <1>2 DEF Receipted, Unsaid, Said

LEMMA TurnIsReceipted ==
  ASSUME NEW s, NEW r, Receipted(s), s.open, r.record = s.record, ~r.open,
         NEW turn \in Turns, r.raw = turn.raw, r.billed = turn.billed
  PROVE  Receipted(r)
<1>1. RecordCosts(r) = {}
  BY DEF Receipted, Unsaid, RecordCosts
<1>2. CASE HasRaw(r)
  <2>1. TerminalCosts(r) = turn.raw.costs /\ Events(r) = turn.raw.events
    BY <1>2 DEF TerminalCosts, Events
  <2> QED
    BY <1>1, <2>1, TurnsAreTruthful DEF Receipted, Said
<1>3. CASE ~HasRaw(r)
  BY <1>1, <1>3 DEF Receipted, Said, TerminalCosts, Events, Range
<1> QED
  BY <1>2, <1>3

LEMMA RecordIsReceipted ==
  ASSUME NEW s \in Streams, Receipted(s), ~s.open
  PROVE  Receipted([s EXCEPT !.record = LastCost(s)])
<1> DEFINE r == [s EXCEPT !.record = LastCost(s)]
<1>1. /\ r.raw = s.raw /\ r.billed = s.billed /\ r.open = s.open /\ r.record = LastCost(s)
      /\ ~r.open
  BY DEF Streams
<1> HIDE DEF r
<1>2. TerminalCosts(r) = TerminalCosts(s) /\ Events(r) = Events(s)
  BY <1>1 DEF TerminalCosts, Events, HasRaw
<1>3. RecordCosts(r) \subseteq Range(TerminalCosts(s))
  BY <1>1, LastCostIsTold DEF RecordCosts
<1>4. Receipted(r)
  BY <1>1, <1>2, <1>3 DEF Receipted, Said
<1> QED
  BY <1>4 DEF r

LEMMA ReceiptsStep == Shape /\ Shape' /\ Receipts /\ [Next]_vars => Receipts'
<1> SUFFICES ASSUME Shape, Shape', Receipts, [Next]_vars PROVE Receipts'
  OBVIOUS
<1>0. /\ streams \in Seq(Streams) /\ streams' \in Seq(Streams)
      /\ DOMAIN streams = 1..Len(streams) /\ DOMAIN streams' = 1..Len(streams')
      /\ Len(streams) \in Nat
  BY DEF Shape, DiskType
<1>1. CASE BeginRound
  <2>1. task \in Run /\ task # None
    BY <1>1 DEF BeginRound, At, Shape, TaskType
  <2>2. /\ Len(streams') = Len(streams) + 1 /\ Fresh(streams'[Len(streams) + 1])
        /\ \A j \in DOMAIN streams : streams'[j] = streams[j]
    BY <1>1, RoundBegun
  <2>3. Receipted(streams'[Len(streams) + 1])
    BY <2>2 DEF Fresh, Receipted, Unsaid, Said, TerminalCosts, RecordCosts, HasRaw, Events, Range
  <2>4. \A j \in DOMAIN streams' : j \in DOMAIN streams \/ j = Len(streams) + 1
    BY <1>0, <2>2
  <2>5. task'.step = "agent" /\ streams'[This'].open
    BY <1>1, <2>1, <2>2 DEF BeginRound, Goto, Run, Fresh, This
  <2> QED
    BY <2>2, <2>3, <2>4, <2>5, Zenon DEF Receipts, CurrentTurn, Fresh
<1>2. CASE Turn
  <2>1. This \in DOMAIN streams /\ EndTurn(This) /\ streams[This].open
        /\ task \in Run /\ task # None
    BY <1>2, ThisIsAStream DEF Turn, This, At, Shape, TaskType, Receipts, CurrentTurn
  <2>2. /\ Len(streams') = Len(streams) /\ ~streams'[This].open
        /\ \A j \in DOMAIN streams : j # This => streams'[j] = streams[j]
    BY <1>0, <2>1, TurnEnds DEF OnlyStream
  <2>3. Receipted(streams'[This])
    BY <1>0, <2>1, TurnEnds, TurnIsReceipted DEF Receipts
  <2>4. task'.step = "turned" /\ This' = This
    BY <1>2, <2>1, <2>2 DEF Turn, Goto, Run, This
  <2>5. CurrentTurn'
    BY <2>2, <2>4 DEF CurrentTurn
  <2>6. \A i \in DOMAIN streams' : Receipted(streams'[i])
    BY <1>0, <2>2, <2>3 DEF Receipts
  <2> QED
    BY <2>5, <2>6 DEF Receipts
<1>3. CASE OrphanTurn
  <2>1. PICK i \in DOMAIN streams :
          streams[i].open /\ ~(At("agent") /\ i = Len(streams)) /\ EndTurn(i)
    BY <1>3 DEF OrphanTurn
  <2>2. /\ Len(streams') = Len(streams)
        /\ \A j \in DOMAIN streams : j # i => streams'[j] = streams[j]
    BY <1>0, <2>1, TurnEnds DEF OnlyStream
  <2>3. Receipted(streams'[i])
    BY <1>0, <2>1, TurnEnds, TurnIsReceipted DEF Receipts
  <2>4. CurrentTurn'
    <3> SUFFICES ASSUME task' # None, task'.step \in {"agent", "turned", "gate"}
                 PROVE  (streams'[This'].open <=> task'.step = "agent")
      BY DEF CurrentTurn
    <3>1. task' = task /\ This' = This
      BY <1>3, <2>2 DEF OrphanTurn, This
    <3>2. This \in DOMAIN streams /\ (streams[This].open <=> task.step = "agent")
      BY <3>1, ThisIsAStream DEF Receipts, CurrentTurn, At
    <3>3. i # This
      BY <2>1, <3>1, <3>2 DEF At, This
    <3> QED
      BY <2>2, <3>1, <3>2, <3>3
  <2> QED
    BY <1>0, <2>2, <2>3, <2>4 DEF Receipts
<1>4. CASE SealTurn
  <2>1. This \in DOMAIN streams /\ ~streams[This].open /\ task \in Run /\ task # None
    BY <1>4, ThisIsAStream DEF SealTurn, At, Shape, TaskType, Receipts, CurrentTurn
  <2>2. /\ Len(streams') = Len(streams) /\ streams[This] \in Streams
        /\ streams'[This] = [streams[This] EXCEPT !.lifecycle = "exited"]
        /\ \A j \in DOMAIN streams : j # This => streams'[j] = streams[j]
    <3>1. /\ OnlyStream(This)
          /\ streams'[This] = [streams[This] EXCEPT !.lifecycle = "exited"]
      BY <1>0, <1>4, <2>1, TurnSealed
    <3> QED
      BY <1>0, <2>1, <3>1 DEF OnlyStream
  <2>3. /\ streams'[This].raw = streams[This].raw /\ streams'[This].record = streams[This].record
        /\ streams'[This].billed = streams[This].billed /\ streams'[This].halt = streams[This].halt
        /\ streams'[This].open = streams[This].open
    BY <2>2 DEF Streams
  <2>4. Receipted(streams'[This])
    BY <2>1, <2>3, SameReceipt DEF Receipts
  <2>5. task'.step \in {"gate", "verdict"} /\ This' = This
    BY <1>4, <2>1, <2>2 DEF SealTurn, AfterTurn, Run, This
  <2>6. CurrentTurn'
    BY <2>1, <2>3, <2>5 DEF CurrentTurn
  <2>7. \A i \in DOMAIN streams' : Receipted(streams'[i])
    BY <1>0, <2>2, <2>4 DEF Receipts
  <2> QED
    BY <2>6, <2>7 DEF Receipts
<1>5. CASE RecordRound
  <2>1. This \in DOMAIN streams /\ ~streams[This].open /\ task \in Run /\ task # None
    BY <1>5, ThisIsAStream DEF RecordRound, At, Shape, TaskType, Receipts, CurrentTurn
  <2>2. /\ Len(streams') = Len(streams) /\ streams[This] \in Streams
        /\ streams'[This] = [streams[This] EXCEPT !.record = LastCost(streams[This])]
        /\ \A j \in DOMAIN streams : j # This => streams'[j] = streams[j]
    <3>1. /\ OnlyStream(This)
          /\ streams'[This] = [streams[This] EXCEPT !.record = LastCost(streams[This])]
      BY <1>0, <1>5, <2>1, RoundRecorded
    <3> QED
      BY <1>0, <2>1, <3>1 DEF OnlyStream
  <2>3. Receipted(streams'[This])
    BY <2>1, <2>2, RecordIsReceipted DEF Receipts
  <2>4. task'.step \in {"round", "verdict"}
    BY <1>5, <2>1 DEF RecordRound, Run
  <2> QED
    BY <1>0, <2>2, <2>3, <2>4 DEF Receipts, CurrentTurn
<1>6. CASE Archive
  <2>1. task' = None
    BY <1>6 DEF Archive, Shape, TaskType
  <2>2. ASSUME NEW t, streams' = Archived(t)
        PROVE  \A i \in DOMAIN streams' : Receipted(streams'[i])
    <3>1. launches \in Nat
      BY Bounds DEF Shape, DriverType
    <3>2. /\ Len(streams') = Len(streams)
          /\ \A i \in DOMAIN streams :
               \/ streams'[i] = [streams[i] EXCEPT !.place = FreeSlot(t)]
               \/ streams'[i] = streams[i]
      BY <1>0, <2>2, <3>1, ReceiptsArchived
    <3> SUFFICES ASSUME NEW i \in DOMAIN streams PROVE Receipted(streams'[i])
      BY <1>0, <3>2
    <3>3. /\ streams'[i].raw = streams[i].raw /\ streams'[i].record = streams[i].record
          /\ streams'[i].billed = streams[i].billed /\ streams'[i].halt = streams[i].halt
          /\ streams'[i].open = streams[i].open
          /\ streams'[i].lifecycle = streams[i].lifecycle
      <4> DEFINE slot == FreeSlot(t)
      <4>1. streams[i] \in Streams
        BY <1>0
      <4>2. streams'[i] = [streams[i] EXCEPT !.place = slot] \/ streams'[i] = streams[i]
        BY <3>2
      <4> HIDE DEF slot
      <4> QED
        BY <4>1, <4>2 DEF Streams
    <3> QED
      BY <3>3, SameReceipt DEF Receipts
  <2>3. streams' = streams \/ \E t : streams' = Archived(t)
    BY <1>6 DEF Archive
  <2> QED
    BY <2>1, <2>2, <2>3 DEF Receipts, CurrentTurn
<1>7. CASE ~(BeginRound \/ Turn \/ OrphanTurn \/ SealTurn \/ RecordRound \/ Archive)
  <2>1. streams' = streams
    BY <1>7, Writers
  <2>2. \/ task' = task \/ task' = None
        \/ task'.step \notin {"agent", "turned", "gate"}
    <3>1. task # None => task \in Run
      BY DEF Shape, TaskType
    <3> QED
      BY <1>7, <3>1, TaskMoves DEF Spawn, WriteReceipt, WriteResult, Goto, At, Run
  <2> QED
    BY <2>1, <2>2 DEF Receipts, CurrentTurn, This
<1> QED
  BY <1>1, <1>2, <1>3, <1>4, <1>5, <1>6, <1>7

LEMMA AlwaysReceipts == Spec => []Receipts
<1>1. Init => Receipts
  BY DEF Init, Receipts, CurrentTurn
<1>2. Shape /\ Shape' /\ Receipts /\ [Next]_vars => Receipts'
  BY ReceiptsStep
<1> QED
  BY <1>1, <1>2, AlwaysShape, PTL DEF Spec

------------------------------------------------------------------------------
(* Streams are never lost, and one that is over keeps what it was billed.  *)
Outgrown(i) ==
  /\ streams'[i].task = streams[i].task /\ streams'[i].launch = streams[i].launch
  /\ streams'[i].round = streams[i].round
  /\ streams[i].billed <= streams'[i].billed
  /\ ~streams[i].open => /\ ~streams'[i].open /\ streams'[i].billed = streams[i].billed
                         /\ streams'[i].halt = streams[i].halt
  /\ streams'[i].record = streams[i].record \/ (RecordRound /\ i = This)

LEMMA StreamsGrow ==
  ASSUME Shape, Receipts, [Next]_vars
  PROVE  /\ Len(streams) \in Nat /\ DOMAIN streams = 1..Len(streams)
         /\ Len(streams') \in Nat /\ DOMAIN streams' = 1..Len(streams')
         /\ Len(streams) <= Len(streams')
         /\ \A i \in DOMAIN streams : Outgrown(i)
<1>0. /\ streams \in Seq(Streams) /\ Len(streams) \in Nat /\ DOMAIN streams = 1..Len(streams)
      /\ \A i \in DOMAIN streams : streams[i] \in Streams /\ streams[i].billed \in Nat
  <2>1. streams \in Seq(Streams)
    BY DEF Shape, DiskType
  <2>2. \A s \in Streams : s.billed \in Nat
    BY DEF Streams
  <2> QED
    BY <2>1, <2>2
<1> DEFINE Same(i) == streams'[i] = streams[i]
<1>9. \A i \in DOMAIN streams : Same(i) => Outgrown(i)
  BY <1>0 DEF Outgrown
<1>1. CASE BeginRound
  BY <1>0, <1>1, RoundBegun DEF Outgrown
<1>2. ASSUME NEW i \in DOMAIN streams, streams[i].open, EndTurn(i)
      PROVE  /\ streams' \in Seq(Streams) /\ Len(streams') = Len(streams)
             /\ \A j \in DOMAIN streams : Outgrown(j)
  <2>1. OnlyStream(i) /\ streams'[i].record = streams[i].record
    BY <1>0, <1>2, TurnEnds
  <2>2. streams[i].billed = 0
    BY <1>2 DEF Receipts, Receipted, Unsaid
  <2>3. streams'[i] \in Streams
    BY <1>0, <2>1 DEF OnlyStream
  <2>4. streams'[i].billed \in Nat
    BY <2>3 DEF Streams
  <2> QED
    BY <1>0, <1>2, <2>1, <2>2, <2>4 DEF OnlyStream, Outgrown
<1>3. CASE Turn
  <2>1. This \in DOMAIN streams /\ streams[This].open /\ EndTurn(This)
    BY <1>3, ThisIsAStream DEF Turn, This, At, Receipts, CurrentTurn
  <2> QED
    BY <1>0, <1>2, <2>1
<1>4. CASE OrphanTurn
  BY <1>0, <1>2, <1>4 DEF OrphanTurn
<1>5. CASE SealTurn
  <2>1. /\ OnlyStream(This) /\ This \in DOMAIN streams
        /\ streams'[This] = [streams[This] EXCEPT !.lifecycle = "exited"]
    BY <1>0, <1>5, ThisIsAStream, TurnSealed DEF SealTurn
  <2>2. /\ streams'[This].record = streams[This].record
        /\ streams'[This].billed = streams[This].billed /\ streams'[This].halt = streams[This].halt
        /\ streams'[This].open = streams[This].open
    BY <1>0, <2>1 DEF Streams
  <2>3. Outgrown(This)
    BY <1>0, <2>1, <2>2 DEF OnlyStream, Outgrown
  <2>4. \A i \in DOMAIN streams : i # This => Outgrown(i)
    BY <1>9, <2>1 DEF OnlyStream
  <2> QED
    BY <1>0, <2>1, <2>3, <2>4 DEF OnlyStream
<1>6. CASE RecordRound
  <2>1. /\ OnlyStream(This) /\ This \in DOMAIN streams
        /\ streams'[This] = [streams[This] EXCEPT !.record = LastCost(streams[This])]
    BY <1>0, <1>6, ThisIsAStream, RoundRecorded DEF RecordRound
  <2>2. /\ streams'[This].billed = streams[This].billed /\ streams'[This].halt = streams[This].halt
        /\ streams'[This].open = streams[This].open
    BY <1>0, <2>1 DEF Streams
  <2>3. Outgrown(This)
    BY <1>0, <1>6, <2>1, <2>2 DEF OnlyStream, Outgrown
  <2>4. \A i \in DOMAIN streams : i # This => Outgrown(i)
    BY <1>9, <2>1 DEF OnlyStream
  <2> QED
    BY <1>0, <2>1, <2>3, <2>4 DEF OnlyStream
<1>7. CASE Archive
  <2>1. launches \in Nat
    BY Bounds DEF Shape, DriverType
  <2>2. ASSUME NEW t, streams' = Archived(t)
        PROVE  /\ streams' \in Seq(Streams) /\ Len(streams') = Len(streams)
               /\ \A i \in DOMAIN streams : Outgrown(i)
    <3>1. /\ streams' \in Seq(Streams) /\ Len(streams') = Len(streams)
          /\ \A i \in DOMAIN streams :
               \/ streams'[i] = [streams[i] EXCEPT !.place = FreeSlot(t)]
               \/ streams'[i] = streams[i]
      BY <1>0, <2>1, <2>2, ReceiptsArchived
    <3>2. ASSUME NEW i \in DOMAIN streams PROVE Outgrown(i)
      <4> DEFINE slot == FreeSlot(t)
      <4>1. streams'[i] = [streams[i] EXCEPT !.place = slot] \/ streams'[i] = streams[i]
        BY <3>1
      <4> HIDE DEF slot
      <4>2. /\ streams'[i].task = streams[i].task /\ streams'[i].launch = streams[i].launch
            /\ streams'[i].round = streams[i].round /\ streams'[i].billed = streams[i].billed
            /\ streams'[i].open = streams[i].open /\ streams'[i].halt = streams[i].halt
            /\ streams'[i].record = streams[i].record
        BY <1>0, <4>1 DEF Streams
      <4> QED
        BY <1>0, <4>2 DEF Outgrown
    <3> QED
      BY <3>1, <3>2
  <2>3. streams' = streams \/ \E t : streams' = Archived(t)
    BY <1>7 DEF Archive
  <2>4. streams' = streams => \A i \in DOMAIN streams : Outgrown(i)
    BY <1>0 DEF Outgrown
  <2> QED
    BY <1>0, <2>2, <2>3, <2>4
<1>8. CASE streams' = streams
  BY <1>0, <1>8 DEF Outgrown
<1> QED
  BY <1>0, <1>1, <1>3, <1>4, <1>5, <1>6, <1>7, <1>8, Writers
------------------------------------------------------------------------------
(* What the audit makes of a stream: at most what it was billed, and just  *)
(* that when it finds nothing to object to.                                *)
LEMMA RecordedIsFloor ==
  ASSUME NEW s \in Streams, Receipted(s)
  PROVE  /\ RecordedCost(s) \in Nat /\ RecordedCost(s) <= s.billed
         /\ CostResolved(s) => ~s.open /\ RecordedCost(s) = s.billed
<1>1. Said(s) \in SUBSET (0..s.billed) /\ s.billed \in Nat
  BY DEF Receipted, Streams
<1>2. RecordedCost(s) = Largest(Said(s))
  BY DEF RecordedCost, Said
<1>3. RecordedCost(s) \in 0..s.billed /\ \A cost \in Said(s) : cost <= RecordedCost(s)
  BY <1>1, <1>2, LargestOf
<1>4. ASSUME CostResolved(s) PROVE ~s.open /\ RecordedCost(s) = s.billed
  <2>2. /\ ~(HasRaw(s) /\ Events(s) = 0) /\ ~(Events(s) > 1) /\ HasRaw(s)
        /\ Events(s) = Len(TerminalCosts(s)) /\ s.lifecycle # "started"
    BY <1>4 DEF CostResolved, UnresolvedReasons, Because
  <2>3. ~s.open
    BY <2>2 DEF Receipted, Unsaid
  <2>4. Events(s) = 1 /\ Len(TerminalCosts(s)) = 1
    <3>1. s.raw \in Raws /\ Events(s) = s.raw.events
      BY <2>2 DEF Events, Streams, HasRaw
    <3> QED
      BY <2>2, <3>1 DEF Raws
  <2>5. s.billed \in Said(s)
    BY <2>4, LastCostIsTold DEF Receipted, Said, Range
  <2> QED
    BY <1>1, <1>3, <2>3, <2>5
<1> QED
  BY <1>1, <1>3, <1>4

------------------------------------------------------------------------------
(* Only launch.sh audits, and its own segment runs while it does not idle. *)
Opened ==
  /\ driver = "layer" => audit = None /\ pc \notin {"archived", "spawn"}
  /\ driver = "launch" /\ pc # "idle" => segs[launches] = "running"

LEMMA OpenedStep == Shape /\ Opened /\ [Next]_vars => Opened'
<1> SUFFICES ASSUME Shape, Opened, [Next]_vars PROVE Opened'
  OBVIOUS
<1>1. driver' = driver
  BY Writers DEF options
<1>2. driver = "layer" => audit' = None /\ pc' \notin {"archived", "spawn"}
  <2> SUFFICES ASSUME driver = "layer" PROVE audit' = None /\ pc' \notin {"archived", "spawn"}
    OBVIOUS
  <2>1. audit' = None
    BY Writers DEF Opened, StartLaunch, AuditArchive, Finish, Interrupt, OperatorAudit, Return
  <2>2. pc' = pc \/ pc' \in {"idle", "pick", "wait"}
    <3>1. CASE UNCHANGED vars \/ Drive \/ Trouble
      BY <3>1 DEF Opened, vars, Drive, StartLayer, StartLaunch, SkipTarget, Archive, AuditArchive,
           Spawn, Finish, Trouble, Interrupt, Die, OperatorAudit, OrphanTurn, KillTask, Return,
           driverVars
    <3>2. CASE Work
      BY <3>2 DEF Work, BeginRound, Turn, SealTurn, RecordRound, WriteReceipt, WriteResult,
           Register, Raise, LeaveByException, Return, driverVars
    <3> QED
      BY <3>1, <3>2 DEF Next
  <2> QED
    BY <2>1, <2>2 DEF Opened
<1>3. ASSUME driver = "launch", pc' # "idle" PROVE segs'[launches'] = "running"
  <2>1. segs \in Seq({"running", "sealed"}) /\ Len(segs) = launches /\ launches \in Nat
    BY <1>3, Bounds DEF Shape, DiskType, DriverType
  <2>2. CASE StartLaunch
    BY <2>1, <2>2 DEF StartLaunch
  <2>3. CASE ~StartLaunch
    <3>1. segs' = segs /\ launches' = launches /\ pc # "idle"
      <4>1. CASE UNCHANGED vars \/ Drive \/ Trouble
        BY <1>3, <2>3, <4>1 DEF vars, Drive, StartLayer, SkipTarget, Archive, AuditArchive,
             Spawn, Finish, Trouble, Interrupt, Die, OperatorAudit, OrphanTurn, KillTask, Return,
             driverVars, Shape, TaskType
      <4>2. CASE Work
        <5>1. pc = "wait"
          BY <4>2 DEF Work, BeginRound, Turn, SealTurn, RecordRound, WriteReceipt, WriteResult,
               Register, Raise, At, Shape, TaskType
        <5> QED
          BY <4>2, <5>1 DEF Work, BeginRound, Turn, SealTurn, RecordRound, WriteReceipt,
               WriteResult, Register, Raise, LeaveByException, Return, driverVars
      <4> QED
        BY <4>1, <4>2 DEF Next
    <3> QED
      BY <1>3, <3>1 DEF Opened
  <2> QED
    BY <2>2, <2>3
<1> QED
  BY <1>1, <1>2, <1>3 DEF Opened

LEMMA AlwaysOpened == Spec => []Opened
<1>1. Init => Opened
  BY DEF Init, Opened
<1>2. Shape /\ Opened /\ [Next]_vars => Opened'
  BY OpenedStep
<1> QED
  BY <1>1, <1>2, AlwaysShape, PTL DEF Spec

(* Where the reconciliation of an audit comes from. *)
Sourced(reconciliation, segments, running) ==
  \/ reconciliation = NoReconciliation
  \/ /\ audit # None
     /\ reconciliation = Carry(audit.reconciliation, Basis(streams, segments), running)
  \/ \E total \in Totals : reconciliation = Reconcile(total, Basis(streams, segments))

(* An audit is of the streams there are, and says "running" unless the     *)
(* driver idles after it.                                                  *)
AuditNow ==
  \E segments, running, reconciliation :
    /\ audit' = AuditOf(streams, segments, running, reconciliation)
    /\ Sourced(reconciliation, segments, running)
    /\ running = TRUE \/ pc' = "idle"

LEMMA AuditWritten ==
  ASSUME Shape, Opened, [Next]_vars
  PROVE  \/ audit' = audit /\ (pc # "idle" \/ pc' = "idle" \/ driver = "layer")
         \/ streams' = streams /\ AuditNow
<1>1. ASSUME NEW ss, audit' = Audited(streams, ss), Running(ss) \/ pc' = "idle"
      PROVE  AuditNow
  <2> DEFINE recon == IF audit = None THEN NoReconciliation
                      ELSE Carry(audit.reconciliation, Basis(streams, Len(ss)), Running(ss))
  <2>1. audit' = AuditOf(streams, Len(ss), Running(ss), recon)
    BY <1>1 DEF Audited
  <2>2. Sourced(recon, Len(ss), Running(ss))
    BY DEF Sourced
  <2>3. Running(ss) \in BOOLEAN
    BY DEF Running
  <2> HIDE DEF recon
  <2> QED
    BY <1>1, <2>1, <2>2, <2>3 DEF AuditNow
<1>2. driver = "launch" /\ pc # "idle" => Running(segs)
  BY Bounds DEF Running, Range, Shape, DriverType, DiskType, Opened
<1>3. driver \in {"launch", "layer"} /\ (pc = "idle" => task = None)
  BY DEF Shape, DriverType, TaskType
<1>4. CASE StartLaunch
  <2>1. Running(segs')
    <3>1. segs \in Seq({"running", "sealed"}) /\ segs' = Append(segs, "running")
      BY <1>4 DEF StartLaunch, Shape, DiskType
    <3>2. segs'[Len(segs) + 1] = "running" /\ Len(segs) + 1 \in DOMAIN segs'
      BY <3>1
    <3> QED
      BY <3>2 DEF Running, Range
  <2> QED
    BY <1>1, <1>4, <2>1 DEF StartLaunch
<1>5. CASE AuditArchive
  BY <1>1, <1>2, <1>3, <1>5 DEF AuditArchive, Opened
<1>6. CASE Finish
  BY <1>1, <1>6 DEF Finish
<1>7. CASE Interrupt
  BY <1>1, <1>7 DEF Interrupt
<1>8. CASE OperatorAudit
  <2>1. ASSUME NEW total \in Totals,
               audit' = AuditOf(streams, Len(segs), Running(segs'),
                                Reconcile(total, Basis(streams, Len(segs))))
        PROVE  AuditNow
    BY <1>8, <2>1 DEF AuditNow, Sourced, OperatorAudit
  <2> QED
    BY <1>1, <1>8, <2>1 DEF OperatorAudit
<1>9. ASSUME NEW rc, Return(rc), segs' = segs, streams' = streams, task # None
      PROVE  (audit' = audit /\ pc # "idle") \/ (streams' = streams /\ AuditNow)
  <2>1. pc # "idle"
    BY <1>3, <1>9
  <2>2. CASE driver = "layer"
    BY <1>9, <2>1, <2>2 DEF Return
  <2>3. CASE driver = "launch"
    <3>1. audit' = Audited(streams, segs) /\ Running(segs)
      BY <1>2, <1>9, <2>1, <2>3 DEF Return
    <3> QED
      BY <1>1, <1>9, <3>1
  <2> QED
    BY <1>3, <2>2, <2>3
<1>10. CASE UNCHANGED vars \/ Drive
  BY <1>4, <1>5, <1>6, <1>10 DEF vars, Drive, StartLayer, SkipTarget, Archive, Spawn
<1>11. CASE Work
  <2>1. task # None /\ pc # "idle"
    BY <1>3, <1>11 DEF Work, BeginRound, Turn, SealTurn, RecordRound, WriteReceipt, WriteResult,
         Register, Raise, At
  <2>2. \/ audit' = audit
        \/ \E rc : Return(rc) /\ segs' = segs /\ streams' = streams
    BY <1>11 DEF Work, BeginRound, Turn, SealTurn, RecordRound, WriteReceipt, WriteResult,
         Register, Raise, LeaveByException, driverVars
  <2> QED
    BY <1>9, <2>1, <2>2
<1>12. CASE Trouble
  <2>1. CASE KillTask
    BY <1>9, <2>1 DEF KillTask
  <2>2. CASE Die
    BY <2>2 DEF Die
  <2>3. CASE OrphanTurn
    BY <2>3 DEF OrphanTurn, driverVars
  <2> QED
    BY <1>7, <1>8, <1>12, <2>1, <2>2, <2>3 DEF Trouble
<1> QED
  BY <1>10, <1>11, <1>12 DEF Next

------------------------------------------------------------------------------
(* Totals of the streams.                                                  *)
BilledCosts(ss) == [i \in DOMAIN ss |-> ss[i].billed]
TaskBilled(ss, n, t) == [i \in 1..n |-> IF ss[i].task = t THEN ss[i].billed ELSE 0]
BilledBefore(ss, n) == [i \in DOMAIN ss |-> IF i <= n THEN ss[i].billed ELSE 0]

LEMMA CostsAreNumbers ==
  ASSUME NEW ss \in Seq(Streams)
  PROVE  /\ Len(ss) \in Nat /\ DOMAIN ss = 1..Len(ss)
         /\ BilledCosts(ss) \in [1..Len(ss) -> Nat]
         /\ \A n : BilledBefore(ss, n) \in [1..Len(ss) -> Nat]
         /\ \A n \in 0..Len(ss) : \A t : TaskBilled(ss, n, t) \in [1..n -> Nat]
<1>1. Len(ss) \in Nat /\ DOMAIN ss = 1..Len(ss)
  OBVIOUS
<1>2. \A s \in Streams : s.billed \in Nat
  BY DEF Streams
<1>3. \A i \in 1..Len(ss) : ss[i].billed \in Nat
  BY <1>1, <1>2
<1> QED
  BY <1>1, <1>3 DEF BilledCosts, BilledBefore, TaskBilled

LEMMA RecordedCostsAreNumbers ==
  ASSUME Shape, Receipts
  PROVE  /\ streams \in Seq(Streams)
         /\ RecordedCosts(streams) \in [1..Len(streams) -> Nat]
         /\ Total(RecordedCosts(streams)) \in Nat
         /\ Total(RecordedCosts(streams)) <= Total(BilledCosts(streams))
<1>1. streams \in Seq(Streams)
  BY DEF Shape, DiskType
<1>2. /\ Len(streams) \in Nat /\ DOMAIN streams = 1..Len(streams)
      /\ BilledCosts(streams) \in [1..Len(streams) -> Nat]
  BY <1>1, CostsAreNumbers
<1>3. \A i \in 1..Len(streams) :
        RecordedCost(streams[i]) \in Nat /\ RecordedCost(streams[i]) <= streams[i].billed
  BY <1>1, <1>2, RecordedIsFloor DEF Receipts
<1>4. RecordedCosts(streams) \in [1..Len(streams) -> Nat]
  BY <1>2, <1>3 DEF RecordedCosts
<1>5. \A i \in 1..Len(streams) : RecordedCosts(streams)[i] <= BilledCosts(streams)[i]
  BY <1>2, <1>3 DEF RecordedCosts, BilledCosts
<1>6. /\ Total(RecordedCosts(streams)) \in Nat
      /\ Total(RecordedCosts(streams)) <= Total(BilledCosts(streams))
  <2> DEFINE n == Len(streams)
             recorded == RecordedCosts(streams)
             billed == BilledCosts(streams)
  <2>1. /\ n \in Nat /\ recorded \in [1..n -> Nat] /\ billed \in [1..n -> Nat]
        /\ \A i \in 1..n : recorded[i] <= billed[i]
    BY <1>2, <1>4, <1>5
  <2> HIDE DEF n, recorded, billed
  <2>2. n <= n
    BY <2>1
  <2>3. Total(recorded) <= Total(billed) /\ Total(recorded) \in Nat
    BY <2>1, <2>2, TotalGrows
  <2> QED
    BY <2>3 DEF recorded, billed
<1> QED
  BY <1>1, <1>4, <1>6
------------------------------------------------------------------------------
(* An accepted reconciliation was checked against what is now recorded.    *)
Backed(reconciliation) ==
  reconciliation.status = "accepted" =>
    reconciliation.basis.recorded <= reconciliation.total
Vouched ==
  audit # None =>
    /\ Backed(audit.reconciliation)
    /\ audit.status = "reconciled" =>
         /\ audit.reconciliation.status = "accepted"
         /\ audit.reconciliation.basis.recorded = audit.recorded

LEMMA VouchedStep == Shape /\ Receipts /\ Opened /\ Vouched /\ [Next]_vars => Vouched'
<1> SUFFICES ASSUME Shape, Receipts, Opened, Vouched, [Next]_vars PROVE Vouched'
  OBVIOUS
<1>1. CASE audit' = audit
  BY <1>1 DEF Vouched
<1>2. CASE AuditNow
  <2>1. PICK segments, running, reconciliation :
          /\ audit' = AuditOf(streams, segments, running, reconciliation)
          /\ Sourced(reconciliation, segments, running)
    BY <1>2 DEF AuditNow
  <2> DEFINE recorded == Total(RecordedCosts(streams))
  <2>2. recorded \in Nat
    BY RecordedCostsAreNumbers
  <2>3. /\ audit'.recorded = recorded /\ audit'.reconciliation = reconciliation
        /\ audit'.status = "reconciled" => reconciliation.status = "accepted"
    BY <2>1 DEF AuditOf, StatusOf
  <2>4. Basis(streams, segments).recorded = recorded
    BY DEF Basis
  <2> HIDE DEF recorded
  <2>5. reconciliation.status = "accepted" =>
          /\ reconciliation.basis.recorded = recorded
          /\ reconciliation.basis.recorded <= reconciliation.total
    <3>1. CASE reconciliation = NoReconciliation
      BY <3>1 DEF NoReconciliation
    <3>2. CASE /\ audit # None
               /\ reconciliation = Carry(audit.reconciliation, Basis(streams, segments), running)
      BY <2>4, <3>2 DEF Carry, StillHolds, NoReconciliation, Vouched, Backed
    <3>3. ASSUME NEW total \in Totals,
                 reconciliation = Reconcile(total, Basis(streams, segments))
          PROVE  reconciliation.status = "accepted" =>
                   /\ reconciliation.basis.recorded = recorded
                   /\ reconciliation.basis.recorded <= reconciliation.total
      <4>1. total \in Nat
        BY CampaignAssumption
      <4> QED
        BY <2>2, <2>4, <3>3, <4>1 DEF Reconcile
    <3> QED
      BY <2>1, <3>1, <3>2, <3>3 DEF Sourced
  <2> QED
    BY <2>3, <2>5 DEF Vouched, Backed
<1> QED
  BY <1>1, <1>2, AuditWritten

(* A reconciliation never vouches for more than it was checked against:    *)
(* evidence that arrives later makes it stale before it is read again.     *)
THEOREM ReconciliationsCover == Spec => []ReconciledCoversEvidence
<1>1. Init => Vouched
  BY DEF Init, Vouched
<1>2. Shape /\ Receipts /\ Opened /\ Vouched /\ [Next]_vars => Vouched'
  BY VouchedStep
<1>3. Vouched => ReconciledCoversEvidence
  BY DEF Vouched, Backed, ReconciledCoversEvidence
<1> QED
  BY <1>1, <1>2, <1>3, AlwaysShape, AlwaysReceipts, AlwaysOpened, PTL DEF Spec

------------------------------------------------------------------------------
(* What an audit calls complete is settled: its streams are over, and the  *)
(* recorded cost is what they were billed.                                 *)
CoveredRun ==
  audit.status = "complete" =>
    /\ pc = "idle" /\ \A i \in DOMAIN streams : ~streams[i].open
    /\ audit.recorded = Total(BilledCosts(streams))
CoveredTask(t) ==
  audit.tasks[t].status = "complete" =>
    /\ \A i \in 1..audit.attempts : streams[i].task = t => ~streams[i].open
    /\ audit.tasks[t].recorded = Total(TaskBilled(streams, audit.attempts, t))
Covered ==
  audit # None =>
    /\ audit.attempts \in 0..Len(streams)
    /\ CoveredRun /\ \A t \in DOMAIN audit.tasks : CoveredTask(t)

(* Nothing happens to streams that are over while no launch is under way.  *)
LEMMA IdleIsStill ==
  ASSUME Shape, [Next]_vars, pc = "idle", \A i \in DOMAIN streams : ~streams[i].open
  PROVE  streams' = streams
<1>1. task = None
  BY DEF Shape, TaskType
<1> QED
  BY <1>1, Writers DEF Archive, BeginRound, Turn, OrphanTurn, SealTurn, RecordRound, At

LEMMA AuditCovers ==
  ASSUME Shape, Receipts, streams' = streams, AuditNow
  PROVE  /\ audit'.attempts \in 0..Len(streams')
         /\ CoveredRun' /\ \A t \in DOMAIN audit'.tasks : CoveredTask(t)'
<1>1. PICK segments, running, reconciliation :
        /\ audit' = AuditOf(streams, segments, running, reconciliation)
        /\ running = TRUE \/ pc' = "idle"
  BY DEF AuditNow
<1>2. streams \in Seq(Streams) /\ Len(streams) \in Nat /\ DOMAIN streams = 1..Len(streams)
  BY DEF Shape, DiskType
<1>3. audit'.attempts = Len(streams)
  BY <1>1 DEF AuditOf
<1>4. \A i \in DOMAIN streams : CostResolved(streams[i]) =>
        ~streams[i].open /\ RecordedCost(streams[i]) = streams[i].billed
  BY <1>2, RecordedIsFloor DEF Receipts
<1>5. CoveredRun'
  <2> SUFFICES ASSUME audit'.status = "complete"
               PROVE  /\ pc' = "idle" /\ \A i \in DOMAIN streams : ~streams[i].open
                      /\ audit'.recorded = Total(BilledCosts(streams))
    BY DEF CoveredRun
  <2>1. StatusOf(streams, running) = "complete"
    BY <1>1 DEF AuditOf
  <2>2. running # TRUE /\ \A i \in DOMAIN streams : CostResolved(streams[i])
    BY <2>1 DEF StatusOf
  <2>3. RecordedCosts(streams) = BilledCosts(streams)
    BY <1>4, <2>2 DEF RecordedCosts, BilledCosts
  <2>4. audit'.recorded = Total(RecordedCosts(streams))
    BY <1>1 DEF AuditOf
  <2> QED
    BY <1>1, <1>4, <2>2, <2>3, <2>4
<1>6. ASSUME NEW t \in DOMAIN audit'.tasks, audit'.tasks[t].status = "complete"
      PROVE  /\ \A i \in DOMAIN streams : streams[i].task = t => ~streams[i].open
             /\ audit'.tasks[t].recorded = Total(TaskBilled(streams, Len(streams), t))
  <2>1. audit'.tasks[t] = TaskSummary(streams, t)
    BY <1>1, <1>6 DEF AuditOf
  <2>2. \A i \in DOMAIN streams : streams[i].task = t => CostResolved(streams[i])
    BY <1>6, <2>1 DEF TaskSummary
  <2> DEFINE shares == [i \in DOMAIN streams |->
                          IF streams[i].task = t THEN RecordedCost(streams[i]) ELSE 0]
  <2>3. shares = TaskBilled(streams, Len(streams), t)
    BY <1>2, <1>4, <2>2 DEF TaskBilled
  <2>4. audit'.tasks[t].recorded = Total(shares)
    BY <2>1 DEF TaskSummary
  <2> QED
    BY <1>4, <2>2, <2>3, <2>4
<1>7. \A t \in DOMAIN audit'.tasks : CoveredTask(t)'
  BY <1>2, <1>3, <1>6 DEF CoveredTask
<1> QED
  BY <1>2, <1>3, <1>5, <1>7

LEMMA CoveredStep == Shape /\ Receipts /\ Opened /\ Covered /\ [Next]_vars => Covered'
<1> SUFFICES ASSUME Shape, Receipts, Opened, Covered, [Next]_vars, audit' # None PROVE Covered'
  BY DEF Covered
<1>1. CASE streams' = streams /\ AuditNow
  BY <1>1, AuditCovers DEF Covered
<1>2. CASE audit' = audit /\ (pc # "idle" \/ pc' = "idle" \/ driver = "layer")
  <2>1. driver # "layer" /\ audit # None
    BY <1>2 DEF Opened
  <2>2. /\ Len(streams) \in Nat /\ DOMAIN streams = 1..Len(streams) /\ Len(streams') \in Nat
        /\ Len(streams) <= Len(streams') /\ \A i \in DOMAIN streams : Outgrown(i)
    BY StreamsGrow
  <2>3. audit'.attempts \in 0..Len(streams')
    BY <1>2, <2>1, <2>2 DEF Covered
  <2>4. CoveredRun'
    <3> SUFFICES ASSUME audit.status = "complete" PROVE CoveredRun'
      BY <1>2 DEF CoveredRun
    <3>1. pc = "idle" /\ streams' = streams
      BY <2>1, IdleIsStill DEF Covered, CoveredRun
    <3> QED
      BY <1>2, <2>1, <3>1 DEF Covered, CoveredRun
  <2>5. ASSUME NEW t \in DOMAIN audit.tasks PROVE CoveredTask(t)'
    <3> SUFFICES ASSUME audit.tasks[t].status = "complete" PROVE CoveredTask(t)'
      BY <1>2 DEF CoveredTask
    <3> DEFINE n == audit.attempts
    <3>1. /\ n \in 0..Len(streams)
          /\ \A i \in 1..n : streams[i].task = t => ~streams[i].open
          /\ audit.tasks[t].recorded = Total(TaskBilled(streams, n, t))
      BY <2>1, <2>5 DEF Covered, CoveredTask
    <3>2. \A i \in 1..n : /\ streams'[i].task = streams[i].task
                          /\ streams[i].task = t =>
                               ~streams'[i].open /\ streams'[i].billed = streams[i].billed
      BY <2>2, <3>1 DEF Outgrown
    <3>3. TaskBilled(streams', n, t) = TaskBilled(streams, n, t)
      BY <3>2 DEF TaskBilled
    <3> QED
      BY <1>2, <3>1, <3>2, <3>3 DEF CoveredTask
  <2> QED
    BY <1>2, <2>3, <2>4, <2>5 DEF Covered
<1> QED
  BY <1>1, <1>2, AuditWritten

(* A cost the audit calls complete, of the run or of a task, is what the   *)
(* provider billed, whatever was killed, orphaned or cut short before it.  *)
THEOREM CompleteIsBilled == Spec => []CompleteMeansAllBilled
<1>1. Init => Covered
  BY DEF Init, Covered
<1>2. Shape /\ Receipts /\ Opened /\ Covered /\ [Next]_vars => Covered'
  BY CoveredStep
<1>3. Covered => CompleteMeansAllBilled
  BY DEF Covered, CoveredRun, CoveredTask, CompleteMeansAllBilled, Billed, BilledCosts, TaskBilled
<1> QED
  BY <1>1, <1>2, <1>3, AlwaysShape, AlwaysReceipts, AlwaysOpened, PTL DEF Spec

------------------------------------------------------------------------------
(* A recorded cost is a floor: of the run's for an audit, of what was      *)
(* billed before the task in progress for run_layer.py's summary.          *)
FloorSummary ==
  summary.recorded <= (IF task = None THEN Total(BilledCosts(streams))
                       ELSE Total(BilledBefore(streams, task.from)))
Floor ==
  /\ audit # None => audit.recorded \in Nat /\ audit.recorded <= Total(BilledCosts(streams))
  /\ FloorSummary

(* What was billed only grows, and before a stream only up to the whole.   *)
LEMMA BillGrows ==
  ASSUME Shape, Shape', Receipts, [Next]_vars
  PROVE  /\ Total(BilledCosts(streams)) \in Nat /\ Total(BilledCosts(streams')) \in Nat
         /\ Total(BilledCosts(streams)) <= Total(BilledCosts(streams'))
         /\ \A n \in Nat :
              /\ Total(BilledBefore(streams, n)) \in Nat
              /\ Total(BilledBefore(streams', n)) \in Nat
              /\ Total(BilledBefore(streams, n)) <= Total(BilledBefore(streams', n))
              /\ Total(BilledBefore(streams, n)) <= Total(BilledCosts(streams'))
<1>1. streams \in Seq(Streams) /\ streams' \in Seq(Streams)
  BY DEF Shape, DiskType
<1> DEFINE m == Len(streams)
           n == Len(streams')
           f == BilledCosts(streams)
           h == BilledCosts(streams')
<1>2. /\ m \in Nat /\ n \in Nat /\ m <= n /\ f \in [1..m -> Nat] /\ h \in [1..n -> Nat]
      /\ DOMAIN streams = 1..m /\ DOMAIN streams' = 1..n
      /\ \A k : BilledBefore(streams, k) \in [1..m -> Nat]
      /\ \A k : BilledBefore(streams', k) \in [1..n -> Nat]
  BY <1>1, CostsAreNumbers, StreamsGrow
<1>3. \A i \in 1..m : /\ streams[i].billed \in Nat /\ streams'[i].billed \in Nat
                      /\ streams[i].billed <= streams'[i].billed
  <2>1. \A i \in 1..m : streams[i].billed <= streams'[i].billed
    BY <1>2, StreamsGrow DEF Outgrown
  <2>2. \A s \in Streams : s.billed \in Nat
    BY DEF Streams
  <2>3. \A i \in 1..m : streams[i] \in Streams /\ streams'[i] \in Streams
    BY <1>1, <1>2
  <2> QED
    BY <2>1, <2>2, <2>3
<1>4. \A i \in 1..m : f[i] <= h[i]
  BY <1>2, <1>3 DEF BilledCosts
<1>5. /\ Total(f) \in Nat /\ Total(f) <= Total(h)
  <2> HIDE DEF f, h, m, n
  <2> QED
    BY <1>2, <1>4, TotalGrows
<1>6. Total(h) \in Nat
  <2>1. n <= n /\ \A i \in 1..n : h[i] <= h[i]
    <3> HIDE DEF h, n
    <3> QED
      BY <1>2
  <2> HIDE DEF h, n
  <2> QED
    BY <1>2, <2>1, TotalGrows
<1>7. ASSUME NEW k \in Nat
      PROVE  /\ Total(BilledBefore(streams, k)) \in Nat
             /\ Total(BilledBefore(streams', k)) \in Nat
             /\ Total(BilledBefore(streams, k)) <= Total(BilledBefore(streams', k))
             /\ Total(BilledBefore(streams, k)) <= Total(BilledCosts(streams'))
  <2> DEFINE b == BilledBefore(streams, k)
             c == BilledBefore(streams', k)
  <2>1. b \in [1..m -> Nat] /\ c \in [1..n -> Nat]
    BY <1>2
  <2>2. \A i \in 1..m : b[i] <= c[i] /\ b[i] <= h[i]
    BY <1>2, <1>3 DEF BilledBefore, BilledCosts
  <2>3. n <= n /\ \A i \in 1..n : c[i] <= c[i]
    <3> HIDE DEF c, n
    <3> QED
      BY <1>2, <2>1
  <2> HIDE DEF b, c, h, m, n
  <2>4. Total(b) \in Nat /\ Total(b) <= Total(c)
    BY <1>2, <2>1, <2>2, TotalGrows
  <2>5. Total(b) <= Total(h)
    BY <1>2, <2>1, <2>2, TotalGrows
  <2>6. Total(c) \in Nat
    BY <1>2, <2>1, <2>3, TotalGrows
  <2> QED
    BY <2>4, <2>5, <2>6 DEF b, c, h
<1> QED
  BY <1>5, <1>6, <1>7

LEMMA PartIsBilled ==
  ASSUME NEW ss \in Seq(Streams), NEW k
  PROVE  /\ Total(BilledBefore(ss, k)) \in Nat /\ Total(BilledCosts(ss)) \in Nat
         /\ Total(BilledBefore(ss, k)) <= Total(BilledCosts(ss))
<1> DEFINE n == Len(ss)
           b == BilledBefore(ss, k)
           h == BilledCosts(ss)
<1>1. n \in Nat /\ DOMAIN ss = 1..n /\ b \in [1..n -> Nat] /\ h \in [1..n -> Nat]
  BY CostsAreNumbers
<1>2. \A i \in 1..n : b[i] = h[i] \/ b[i] = 0
  BY <1>1 DEF BilledBefore, BilledCosts
<1> HIDE DEF n, b, h
<1>3. n <= n /\ \A i \in 1..n : b[i] <= h[i] /\ h[i] <= h[i]
  <2>1. ASSUME NEW i \in 1..n PROVE b[i] \in Nat /\ h[i] \in Nat /\ (b[i] = h[i] \/ b[i] = 0)
    BY <1>1, <1>2
  <2>2. ASSUME NEW i \in 1..n PROVE b[i] <= h[i] /\ h[i] <= h[i]
    BY <2>1
  <2>3. n <= n
    BY <1>1
  <2> QED
    BY <2>2, <2>3
<1>4. Total(b) \in Nat /\ Total(b) <= Total(h)
  BY <1>1, <1>3, TotalGrows
<1>5. Total(h) \in Nat
  BY <1>1, <1>3, TotalGrows
<1> QED
  BY <1>4, <1>5 DEF b, h

(* The rounds of a task that returns were billed after it started.         *)
LEMMA OwnCostsAreBilled ==
  ASSUME Shape, Receipts, task # None
  PROVE  Total(BilledBefore(streams, task.from)) + Total(OwnCosts) <= Total(BilledCosts(streams))
<1> DEFINE n == Len(streams)
           f == BilledBefore(streams, task.from)
           g == OwnCosts
           h == BilledCosts(streams)
<1>1. streams \in Seq(Streams) /\ task.from \in Nat
  BY DEF Shape, DiskType, TaskType, Run
<1>2. /\ n \in Nat /\ DOMAIN streams = 1..n /\ f \in [1..n -> Nat] /\ g \in [1..n -> Nat]
      /\ h \in [1..n -> Nat]
  BY <1>1, CostsAreNumbers, OwnCostsAreNumbers
<1>3. ASSUME NEW i \in 1..n PROVE f[i] + g[i] <= h[i]
  <2>1. streams[i] \in Streams /\ Receipted(streams[i]) /\ streams[i].billed \in Nat
    <3>1. streams[i] \in Streams /\ Receipted(streams[i])
      BY <1>1, <1>2 DEF Receipts
    <3>2. \A s \in Streams : s.billed \in Nat
      BY DEF Streams
    <3> QED
      BY <3>1, <3>2
  <2>2. f[i] = (IF i <= task.from THEN streams[i].billed ELSE 0) /\ h[i] = streams[i].billed
    BY <1>2 DEF BilledBefore, BilledCosts
  <2>3. CASE i \in PricedRounds
    <3>1. i > task.from /\ g[i] = streams[i].record
          /\ streams[i].record \notin {NoRecord, Unpriced}
      BY <1>1, <1>2, <2>3 DEF OwnCosts, PricedRounds, OwnRounds
    <3>2. streams[i].record \in Nat /\ streams[i].record # Disowned
      BY <2>1, <3>1, CampaignAssumption DEF Streams
    <3>3. streams[i].record <= streams[i].billed
      BY <2>1, <3>1, <3>2 DEF Receipted, Said, RecordCosts
    <3> QED
      BY <1>1, <2>1, <2>2, <3>1, <3>2, <3>3
  <2>4. CASE i \notin PricedRounds
    <3>1. g[i] = 0
      BY <1>2, <2>4 DEF OwnCosts
    <3> QED
      BY <1>1, <2>1, <2>2, <3>1
  <2> QED
    BY <2>3, <2>4
<1> HIDE DEF n, f, g, h
<1>4. Total(f) + Total(g) <= Total(h)
  BY <1>2, <1>3, TotalShares
<1> QED
  BY <1>4 DEF f, g, h

LEMMA FloorStep == Shape /\ Shape' /\ Receipts /\ Opened /\ Floor /\ [Next]_vars => Floor'
<1> SUFFICES ASSUME Shape, Shape', Receipts, Opened, Floor, [Next]_vars PROVE Floor'
  OBVIOUS
<1>1. ASSUME audit' # None
      PROVE  audit'.recorded \in Nat /\ audit'.recorded <= Total(BilledCosts(streams'))
  <2>1. CASE audit' = audit
    <3>1. audit.recorded \in Nat /\ audit.recorded <= Total(BilledCosts(streams))
      BY <1>1, <2>1 DEF Floor
    <3>2. /\ Total(BilledCosts(streams)) \in Nat /\ Total(BilledCosts(streams')) \in Nat
          /\ Total(BilledCosts(streams)) <= Total(BilledCosts(streams'))
      BY BillGrows
    <3> QED
      BY <2>1, <3>1, <3>2
  <2>2. CASE streams' = streams /\ AuditNow
    <3>1. audit'.recorded = Total(RecordedCosts(streams))
      BY <2>2 DEF AuditNow, AuditOf
    <3> QED
      BY <2>2, <3>1, RecordedCostsAreNumbers
  <2> QED
    BY <2>1, <2>2, AuditWritten
<1>2. FloorSummary'
  <2> DEFINE all == Total(BilledCosts(streams))
             all2 == Total(BilledCosts(streams'))
  <2>1. all \in Nat /\ all2 \in Nat /\ all <= all2
    BY BillGrows
  <2>2. summary.recorded \in Nat /\ (task # None => task.from \in Nat /\ task \in Run)
    BY DEF Shape, HistoryType, Summaries, TaskType, Run
  <2>3. CASE summary'.recorded = summary.recorded /\ task = None
    <3>1. summary.recorded <= all
      BY <2>3 DEF Floor, FloorSummary
    <3>2. CASE task' = None
      BY <2>1, <2>2, <2>3, <3>1, <3>2 DEF FloorSummary
    <3>3. CASE task' # None
      <4>1. Spawn
        BY <2>3, <3>3, TaskMoves DEF BeginRound, Turn, SealTurn, RecordRound, WriteReceipt,
             WriteResult, At
      <4>2. task'.from = Len(streams) /\ streams' = streams
        BY <4>1 DEF Spawn
      <4>3. BilledBefore(streams, Len(streams)) = BilledCosts(streams)
        BY DEF BilledBefore, BilledCosts, Shape, DiskType
      <4> QED
        BY <2>3, <3>1, <3>3, <4>2, <4>3 DEF FloorSummary
    <3> QED
      BY <3>2, <3>3
  <2>4. CASE summary'.recorded = summary.recorded /\ task # None
    <3> DEFINE old == Total(BilledBefore(streams, task.from))
               new == Total(BilledBefore(streams', task.from))
    <3>1. summary.recorded <= old
      BY <2>4 DEF Floor, FloorSummary
    <3>2. old \in Nat /\ new \in Nat /\ old <= new /\ old <= all2
      BY <2>2, <2>4, BillGrows
    <3>3. task' # None => task'.from = task.from
      BY <2>2, <2>4, TaskMoves DEF BeginRound, Turn, SealTurn, RecordRound, AfterTurn, WriteResult,
           Goto, Run
    <3> QED
      BY <2>1, <2>2, <2>4, <3>1, <3>2, <3>3 DEF FloorSummary
  <2>5. CASE StartLayer
    BY <2>1, <2>5 DEF StartLayer, NoSummary, FloorSummary
  <2>6. CASE Finish \/ LeaveByException
    <3>1. summary'.recorded = summary.recorded
      BY <2>6 DEF Finish, LeaveByException, UnreceiptedModule, Shape, HistoryType, Summaries
    <3> QED
      BY <2>3, <2>4, <3>1
  <2>7. CASE Register
    <3>1. task # None /\ task' = None /\ streams' = streams
      BY <2>7 DEF Register, Return, At
    <3>2. summary'.recorded \in {summary.recorded, summary.recorded + Total(OwnCosts)}
      BY <2>7 DEF Register, Aggregated, Shape, HistoryType, Summaries
    <3>3. CASE summary'.recorded = summary.recorded + Total(OwnCosts)
      <4> DEFINE old == Total(BilledBefore(streams, task.from))
                 own == Total(OwnCosts)
      <4>1. summary.recorded <= old
        BY <3>1 DEF Floor, FloorSummary
      <4>2. old \in Nat /\ own \in Nat
        BY <2>2, <3>1, BillGrows, OwnCostsAreNumbers
      <4>3. old + own <= all
        BY <3>1, OwnCostsAreBilled
      <4>4. summary'.recorded <= all
        <5>1. summary'.recorded = summary.recorded + own
          BY <3>3
        <5> HIDE DEF old, own, all
        <5> QED
          BY <2>1, <2>2, <4>1, <4>2, <4>3, <5>1
      <4> QED
        BY <3>1, <4>4 DEF FloorSummary
    <3> QED
      BY <2>4, <3>1, <3>2, <3>3
  <2> QED
    BY <2>3, <2>4, <2>5, <2>6, <2>7, Writers
<1> QED
  BY <1>1, <1>2 DEF Floor

(* The recorded cost of either driver is a floor of what was billed:       *)
(* nothing is counted twice, across retries, orphans and archives.         *)
THEOREM RecordedIsBilled == Spec => []RecordedIsLowerBound
<1>1. Init => Floor
  <2> SUFFICES ASSUME Init PROVE Floor
    OBVIOUS
  <2>1. BilledCosts(streams) \in [1..0 -> Nat]
    <3>1. streams \in Seq(Streams) /\ Len(streams) = 0
      BY DEF Init
    <3>2. BilledCosts(streams) \in [1..Len(streams) -> Nat]
      BY <3>1, CostsAreNumbers
    <3> QED
      BY <3>1, <3>2
  <2>2. Total(BilledCosts(streams)) = 0
    <3> DEFINE none == 0
    <3>1. none \in Nat /\ BilledCosts(streams) \in [1..none -> Nat]
          /\ \A i \in 1..none : BilledCosts(streams)[i] = 0
      BY <2>1
    <3> HIDE DEF none
    <3> QED
      BY <3>1, TotalOfNothing
  <2> QED
    BY <2>2 DEF Init, Floor, FloorSummary, NoSummary
<1>2. Shape /\ Shape' /\ Receipts /\ Opened /\ Floor /\ [Next]_vars => Floor'
  BY FloorStep
<1>3. Shape /\ Floor => RecordedIsLowerBound
  <2> SUFFICES ASSUME Shape, Floor PROVE RecordedIsLowerBound
    OBVIOUS
  <2> DEFINE all == Total(BilledCosts(streams))
             before == Total(BilledBefore(streams, task.from))
  <2>1. all \in Nat /\ before \in Nat /\ before <= all /\ summary.recorded \in Nat
    <3>1. streams \in Seq(Streams)
      BY DEF Shape, DiskType
    <3>2. summary.recorded \in Nat
      BY DEF Shape, HistoryType, Summaries
    <3> QED
      BY <3>1, <3>2, PartIsBilled
  <2>2. all = Billed(streams)
    BY DEF Billed, BilledCosts
  <2>3. summary.recorded <= all \/ summary.recorded <= before
    BY DEF Floor, FloorSummary
  <2>4. audit # None => audit.recorded <= all
    BY DEF Floor
  <2> HIDE DEF all, before
  <2> QED
    BY <2>1, <2>2, <2>3, <2>4 DEF RecordedIsLowerBound
<1> QED
  BY <1>1, <1>2, <1>3, AlwaysShape, AlwaysReceipts, AlwaysOpened, PTL DEF Spec

------------------------------------------------------------------------------
(* Where the streams are.  Only the archive moves them, and only a new     *)
(* round adds one.                                                         *)
Still ==
  /\ Len(streams') = Len(streams) /\ DOMAIN streams' = DOMAIN streams
  /\ \A i \in DOMAIN streams :
       /\ streams'[i].task = streams[i].task /\ streams'[i].place = streams[i].place
       /\ streams'[i].round = streams[i].round

LEMMA StreamsStay ==
  ASSUME Shape, Shape', Receipts, [Next]_vars
  PROVE  Still \/ BeginRound \/ Archive
<1>1. /\ streams \in Seq(Streams) /\ streams' \in Seq(Streams)
      /\ DOMAIN streams = 1..Len(streams) /\ DOMAIN streams' = 1..Len(streams')
  BY DEF Shape, DiskType
<1>2. ASSUME NEW i \in DOMAIN streams, OnlyStream(i) PROVE Still
  BY <1>1, <1>2 DEF OnlyStream, Still
<1>3. CASE Turn
  BY <1>1, <1>2, <1>3, ThisIsAStream, TurnEnds DEF Turn, This
<1>4. CASE OrphanTurn
  BY <1>1, <1>2, <1>4, TurnEnds DEF OrphanTurn
<1>5. CASE SealTurn
  BY <1>1, <1>2, <1>5, ThisIsAStream, TurnSealed DEF SealTurn
<1>6. CASE RecordRound
  BY <1>1, <1>2, <1>6, ThisIsAStream, RoundRecorded DEF RecordRound
<1>7. CASE streams' = streams
  BY <1>7 DEF Still
<1> QED
  BY <1>3, <1>4, <1>5, <1>6, <1>7, Writers

(* A task directory goes only when it is archived. *)
LEMMA DirsLast ==
  ASSUME Shape, [Next]_vars, ~Archive, NEW t \in Range(Stem), dirs[t].exists
  PROVE  dirs'[t].exists
<1>1. dirs \in [Range(Stem) -> Dirs] /\ dirs[t] \in Dirs
  BY DEF Shape, DiskType
<1>2. ASSUME NEW d \in Range(Stem), NEW r,
             \/ dirs' = [dirs EXCEPT ![d].exists = TRUE]
             \/ dirs' = [dirs EXCEPT ![d].receipt = r]
             \/ dirs' = [dirs EXCEPT ![d].result = r]
      PROVE  dirs'[t].exists
  BY <1>1, <1>2 DEF Dirs
<1>3. CASE Spawn
  <2>1. Stem[Upcoming] \in Range(Stem)
    BY <1>3, UpcomingIsPlanned DEF Spawn, Shape, DriverType
  <2> QED
    BY <1>2, <1>3, <2>1 DEF Spawn
<1>4. ASSUME task # None PROVE Tid \in Range(Stem)
  BY <1>4, Bounds DEF Shape, TaskType, Run, Tid, Range
<1>5. CASE WriteReceipt
  <2>1. Tid \in Range(Stem)
    BY <1>4, <1>5 DEF WriteReceipt, At
  <2> QED
    BY <1>2, <1>5, <2>1 DEF WriteReceipt
<1>6. CASE WriteResult
  <2>1. Tid \in Range(Stem)
    BY <1>4, <1>6 DEF WriteResult, At
  <2> QED
    BY <1>2, <1>6, <2>1 DEF WriteResult
<1> QED
  BY <1>3, <1>5, <1>6, Writers

(* Why no receipt is overwritten under launch.sh.  A live stream is in a   *)
(* directory that exists, so that the archive of the next target finds it; *)
(* a task that starts finds none of its own, and its rounds count up.      *)
Housed ==
  /\ \A i \in DOMAIN streams : streams[i].place = Live => dirs[streams[i].task].exists
  /\ task # None => dirs[Tid].exists
Cleared ==
  pc \in {"archived", "spawn"} =>
    todo # {} /\ \A i \in DOMAIN streams :
                   streams[i].task = Stem[Upcoming] => streams[i].place # Live
Ahead ==
  task # None =>
    \A i \in DOMAIN streams :
      streams[i].task = Tid /\ streams[i].place = Live =>
        streams[i].round <= task.round /\ (task.step = "round" => streams[i].round # task.round)
Apart ==
  \A i, j \in DOMAIN streams :
    /\ streams[i].task = streams[j].task /\ streams[i].place = streams[j].place
    /\ streams[i].round = streams[j].round
    => i = j
Kept == driver = "launch" => Housed /\ Cleared /\ Ahead /\ Apart

(* What the archive leaves of the streams of the next target. *)
LEMMA TargetCleared ==
  ASSUME Shape, Housed, Archive
  PROVE  LET t == Stem[Upcoming]
         IN  /\ streams' \in Seq(Streams) /\ DOMAIN streams' = DOMAIN streams
             /\ \E slot : /\ slot # Live
                          /\ \A i \in DOMAIN streams :
                               /\ streams'[i].task = streams[i].task
                               /\ streams'[i].round = streams[i].round
                               /\ IF streams[i].task = t /\ streams[i].place = Live
                                  THEN streams'[i].place = slot
                                  ELSE streams'[i].place = streams[i].place
                               /\ streams[i].task = t => streams[i].place # slot
             /\ dirs' = dirs \/ dirs' = [dirs EXCEPT ![t] = NoDir]
<1> DEFINE t == Stem[Upcoming]
<1>1. streams \in Seq(Streams) /\ launches \in Nat
      /\ DOMAIN streams = 1..Len(streams) /\ Len(streams) \in Nat
  BY Bounds DEF Shape, DiskType, DriverType
<1>2. PICK k \in Nat :
        /\ FreeSlot(t) = <<launches, k>>
        /\ \A i \in DOMAIN streams : streams[i].task = t => streams[i].place # <<launches, k>>
  BY <1>1, SlotIsFree
<1> DEFINE slot == FreeSlot(t)
<1>3. slot # Live /\ \A i \in DOMAIN streams : streams[i].task = t => streams[i].place # slot
  BY <1>2 DEF Live
<1>4. CASE NeedsArchive(t)
  <2>1. streams' = Archived(t) /\ dirs' = [dirs EXCEPT ![t] = NoDir]
    BY <1>4 DEF Archive
  <2>2. /\ streams' \in Seq(Streams) /\ Len(streams') = Len(streams)
        /\ \A i \in DOMAIN streams :
             IF streams[i].task = t /\ streams[i].place = Live
             THEN streams'[i] = [streams[i] EXCEPT !.place = slot]
             ELSE streams'[i] = streams[i]
    BY <1>1, <2>1, ReceiptsArchived
  <2>3. DOMAIN streams' = DOMAIN streams
    BY <1>1, <2>2
  <2>4. ASSUME NEW i \in DOMAIN streams
        PROVE  /\ streams'[i].task = streams[i].task /\ streams'[i].round = streams[i].round
               /\ IF streams[i].task = t /\ streams[i].place = Live
                  THEN streams'[i].place = slot ELSE streams'[i].place = streams[i].place
    <3>1. streams[i] \in Streams
      BY <1>1
    <3> HIDE DEF t, slot
    <3> QED
      BY <2>2, <3>1 DEF Streams
  <2> HIDE DEF slot
  <2> QED
    BY <1>3, <2>1, <2>2, <2>3, <2>4
<1>5. CASE ~NeedsArchive(t)
  <2>1. streams' = streams /\ dirs' = dirs
    BY <1>5 DEF Archive
  <2>2. \A i \in DOMAIN streams : ~(streams[i].task = t /\ streams[i].place = Live)
    BY <1>5 DEF Housed, NeedsArchive
  <2> HIDE DEF slot, t
  <2> QED
    BY <1>1, <1>3, <2>1, <2>2 DEF t
<1> QED
  BY <1>4, <1>5

LEMMA KeptStep == Shape /\ Shape' /\ Receipts /\ Kept /\ [Next]_vars => Kept'
<1> SUFFICES ASSUME Shape, Shape', Receipts, Kept, [Next]_vars, driver' = "launch"
             PROVE  (Housed /\ Cleared /\ Ahead /\ Apart)'
  BY DEF Kept
<1>0. Housed /\ Cleared /\ Ahead /\ Apart
  BY Writers DEF Kept, options
<1>1. /\ streams \in Seq(Streams) /\ Len(streams) \in Nat /\ DOMAIN streams = 1..Len(streams)
      /\ \A i \in DOMAIN streams : streams[i].task \in Range(Stem) /\ streams[i].round \in Nat
  <2>1. \A s \in Streams : s.task \in Range(Stem) /\ s.round \in Nat
    BY DEF Streams
  <2>2. streams \in Seq(Streams)
    BY DEF Shape, DiskType
  <2> QED
    BY <2>1, <2>2
<1>2. task # None => /\ task \in Run /\ task.round \in Nat /\ Tid \in Range(Stem)
  BY Bounds DEF Shape, TaskType, Run, Tid, Range
<1>3. CASE BeginRound
  <2> DEFINE new == Len(streams) + 1
  <2>1. /\ Len(streams') = new /\ Fresh(streams'[new])
        /\ \A j \in DOMAIN streams : streams'[j] = streams[j]
    BY <1>3, RoundBegun
  <2>2. /\ DOMAIN streams' = 1..Len(streams') /\ DOMAIN streams' = DOMAIN streams \cup {new}
        /\ new \notin DOMAIN streams
    BY <1>1, <2>1 DEF Shape, DiskType
  <2>3. /\ task # None /\ task.step = "round" /\ task' = [task EXCEPT !.step = "agent"]
        /\ pc' = pc /\ dirs' = dirs /\ pc = "wait"
    BY <1>3 DEF BeginRound, At, Goto, driverVars, Shape, TaskType
  <2>4. task'.round = task.round /\ task'.module = task.module /\ task'.step = "agent"
    BY <1>2, <2>3 DEF Run
  <2>5. Tid' = Tid
    BY <2>4 DEF Tid
  <2>6. /\ streams'[new].task = Tid /\ streams'[new].place = Live
        /\ streams'[new].round = task.round
    BY <2>1 DEF Fresh
  <2> HIDE DEF new
  <2>7. Housed'
    BY <1>0, <2>1, <2>2, <2>3, <2>5, <2>6 DEF Housed
  <2>8. Cleared'
    BY <2>3 DEF Cleared
  <2>9. Ahead'
    <3>1. ASSUME NEW i \in DOMAIN streams, streams[i].task = Tid, streams[i].place = Live
          PROVE  streams[i].round <= task.round
      BY <1>0, <2>3, <3>1 DEF Ahead
    <3>2. ASSUME NEW i \in DOMAIN streams', streams'[i].task = Tid, streams'[i].place = Live
          PROVE  streams'[i].round <= task.round
      <4>1. CASE i = new
        BY <1>2, <2>3, <2>6, <4>1
      <4>2. CASE i # new
        BY <2>1, <2>2, <3>1, <3>2, <4>2
      <4> QED
        BY <4>1, <4>2
    <3> QED
      BY <2>4, <2>5, <3>2 DEF Ahead
  <2>10. ASSUME NEW i \in DOMAIN streams, streams[i].task = Tid, streams[i].place = Live,
                streams[i].round = task.round
         PROVE  FALSE
    BY <1>0, <2>3, <2>10 DEF Ahead
  <2>11. Apart'
    BY <1>0, <2>1, <2>2, <2>6, <2>10 DEF Apart
  <2> QED
    BY <2>7, <2>8, <2>9, <2>11
<1>4. CASE Archive
  <2> DEFINE t == Stem[Upcoming]
  <2>1. /\ pc = "pick" /\ pc' = "archived" /\ todo' = todo /\ todo # {} /\ task' = task
        /\ Upcoming' = Upcoming
    BY <1>4 DEF Archive, Upcoming
  <2>2. task = None
    BY <2>1 DEF Shape, TaskType
  <2>3. PICK slot :
          /\ slot # Live
          /\ \A i \in DOMAIN streams :
               /\ streams'[i].task = streams[i].task
               /\ streams'[i].round = streams[i].round
               /\ IF streams[i].task = t /\ streams[i].place = Live
                  THEN streams'[i].place = slot ELSE streams'[i].place = streams[i].place
               /\ streams[i].task = t => streams[i].place # slot
    BY <1>0, <1>4, TargetCleared
  <2>4. /\ DOMAIN streams' = DOMAIN streams
        /\ dirs' = dirs \/ dirs' = [dirs EXCEPT ![t] = NoDir]
    BY <1>0, <1>4, TargetCleared
  <2>5. \A i \in DOMAIN streams : streams'[i].task = t => streams'[i].place # Live
    BY <2>3
  <2>6. dirs \in [Range(Stem) -> Dirs]
    BY DEF Shape, DiskType
  <2> HIDE DEF t
  <2>7. Housed'
    <3>1. ASSUME NEW i \in DOMAIN streams, streams'[i].place = Live
          PROVE  dirs'[streams'[i].task].exists
      <4>1. streams'[i].task # t /\ streams[i].task = streams'[i].task
            /\ streams[i].place = Live
        BY <2>3, <2>5, <3>1
      <4>2. dirs'[streams[i].task] = dirs[streams[i].task]
        BY <1>1, <2>4, <2>6, <4>1
      <4> QED
        BY <1>0, <4>1, <4>2 DEF Housed
    <3> QED
      BY <2>1, <2>2, <2>4, <3>1 DEF Housed
  <2>8. Cleared'
    BY <2>1, <2>4, <2>5 DEF Cleared, t
  <2>9. Ahead'
    BY <2>1, <2>2 DEF Ahead
  <2>10. Apart'
    BY <1>0, <2>3, <2>4 DEF Apart
  <2> QED
    BY <2>7, <2>8, <2>9, <2>10
<1>5. CASE Still /\ ~Archive /\ ~BeginRound
  <2>0. /\ DOMAIN streams' = DOMAIN streams
        /\ \A i \in DOMAIN streams :
             /\ streams'[i].task = streams[i].task /\ streams'[i].place = streams[i].place
             /\ streams'[i].round = streams[i].round
    BY <1>5 DEF Still
  <2>1. Apart'
    BY <1>0, <2>0 DEF Apart
  <2>2. \A t \in Range(Stem) : dirs[t].exists => dirs'[t].exists
    BY <1>5, DirsLast
  <2>3. pc' \in {"archived", "spawn"} =>
          pc \in {"archived", "spawn"} /\ todo' = todo /\ Upcoming' = Upcoming
    <3>1. CASE UNCHANGED vars \/ Drive \/ Trouble
      BY <1>5, <3>1 DEF vars, Drive, StartLayer, StartLaunch, SkipTarget, AuditArchive, Spawn,
         Finish, Trouble, Interrupt, Die, OperatorAudit, OrphanTurn, KillTask, Return, driverVars,
         Upcoming
    <3>2. CASE Work
      <4>1. pc' \in {"wait", "pick"}
        BY <3>2 DEF Work, BeginRound, Turn, SealTurn, RecordRound, WriteReceipt, WriteResult,
           Register, Raise, At, LeaveByException, Return, driverVars, Shape, TaskType
      <4> QED
        BY <4>1
    <3> QED
      BY <3>1, <3>2 DEF Next
  <2>4. Cleared'
    BY <1>0, <2>0, <2>3 DEF Cleared
  <2>5. CASE task' = None
    BY <1>0, <1>1, <2>0, <2>1, <2>2, <2>4, <2>5 DEF Housed, Ahead
  <2>6. CASE task' = task
    <3>1. Tid' = Tid
      BY <2>6 DEF Tid
    <3> QED
      BY <1>0, <1>1, <1>2, <2>0, <2>1, <2>2, <2>4, <2>6, <3>1 DEF Housed, Ahead
  <2>7. CASE task = None /\ Spawn
    <3>1. /\ pc = "spawn" /\ todo # {} /\ task' # None
          /\ task'.module = Upcoming /\ task'.round = 1 /\ task'.step = "round"
          /\ dirs' = [dirs EXCEPT ![Stem[Upcoming]].exists = TRUE]
      <4>1. Shape'
        OBVIOUS
      <4> QED
        BY <2>7, <4>1 DEF Spawn, Shape, TaskType, options
    <3>2. Tid' = Stem[Upcoming] /\ Stem[Upcoming] \in Range(Stem)
      BY <3>1, UpcomingIsPlanned DEF Tid, Shape, DriverType
    <3>3. \A i \in DOMAIN streams : streams[i].task = Stem[Upcoming] => streams[i].place # Live
      BY <1>0, <3>1 DEF Cleared
    <3>4. dirs'[Stem[Upcoming]].exists
      BY <3>1, <3>2 DEF Shape, DiskType, Dirs
    <3>5. Housed'
      BY <1>0, <1>1, <2>0, <2>2, <3>2, <3>4 DEF Housed
    <3>6. Ahead'
      BY <2>0, <3>2, <3>3 DEF Ahead
    <3> QED
      BY <2>1, <2>4, <3>5, <3>6
  <2>8. CASE \/ Turn \/ SealTurn \/ RecordRound \/ WriteResult
             \/ WriteReceipt /\ Goto("promoted")
    <3>1. task # None
      BY <2>8 DEF Turn, SealTurn, RecordRound, WriteReceipt, WriteResult, At
    <3>2. /\ task'.module = task.module
          /\ \/ task'.round = task.round /\ task'.step # "round"
             \/ task'.round = task.round + 1
      BY <1>2, <2>8, <3>1 DEF Turn, SealTurn, AfterTurn, RecordRound, WriteReceipt, WriteResult,
         Goto, Run
    <3>3. Tid' = Tid
      BY <3>2 DEF Tid
    <3>4. Housed'
      BY <1>0, <1>1, <1>2, <2>0, <2>2, <3>1, <3>3 DEF Housed
    <3>5. ASSUME NEW i \in DOMAIN streams, streams[i].task = Tid, streams[i].place = Live
          PROVE  streams[i].round \in Nat /\ streams[i].round <= task.round
      BY <1>0, <1>1, <3>1, <3>5 DEF Ahead
    <3>6. Ahead'
      BY <1>2, <2>0, <3>1, <3>2, <3>3, <3>5 DEF Ahead
    <3> QED
      BY <2>1, <2>4, <3>4, <3>6
  <2> QED
    BY <1>5, <2>5, <2>6, <2>7, <2>8, TaskMoves
<1> QED
  BY <1>3, <1>4, <1>5, StreamsStay

(* launch.sh: the receipts of two turns are never in the same place, for   *)
(* any plan, namesakes and retries included.                               *)
THEOREM ReceiptsAreKept == Spec => []EvidenceIsKept
<1>1. Init => Kept
  BY DEF Init, Kept, Housed, Cleared, Ahead, Apart
<1>2. Shape /\ Shape' /\ Receipts /\ Kept /\ [Next]_vars => Kept'
  BY KeptStep
<1>3. Kept => EvidenceIsKept
  BY DEF Kept, Apart, EvidenceIsKept
<1> QED
  BY <1>1, <1>2, <1>3, AlwaysShape, AlwaysReceipts, PTL DEF Spec

------------------------------------------------------------------------------
(* Why a complete layer summary misses no turn: until run_layer.py counts  *)
(* something as unknown, every turn of this launch is accounted for, those *)
(* of the task in progress apart, and of these only the last may still be  *)
(* without a round record.                                                 *)
Counted(i) == streams[i].halt \/ streams[i].record \notin {NoRecord, Unpriced}
NothingUnknown == summary.unknownRounds = 0 /\ summary.unknownModules = 0
Dated == \A i \in DOMAIN streams : streams[i].launch <= launches
Closed == summary.written => pc = "idle"
Summed ==
  NothingUnknown /\ (pc # "idle" \/ summary.written) =>
    \A i \in DOMAIN streams :
      streams[i].launch = launches /\ (task # None => i <= task.from) => Counted(i)
Noted ==
  task # None =>
    \A i \in DOMAIN streams :
      i > task.from => \/ streams[i].halt \/ streams[i].record # NoRecord
                       \/ i = This /\ task.step \in {"agent", "turned", "gate"}
Summing == Dated /\ (driver = "layer" => Closed /\ Summed /\ Noted)

(* What is counted stays counted, the round being recorded apart. *)
LEMMA CountsStay ==
  ASSUME Shape, Receipts, [Next]_vars, NEW i \in DOMAIN streams
  PROVE  /\ streams'[i].launch = streams[i].launch
         /\ streams[i].halt => streams'[i].halt
         /\ streams'[i].record = streams[i].record \/ (RecordRound /\ i = This)
<1>1. Outgrown(i) /\ Receipted(streams[i])
  BY StreamsGrow DEF Receipts
<1> QED
  BY <1>1 DEF Outgrown, Receipted, Unsaid

LEMMA DatedStep == Shape /\ Shape' /\ Receipts /\ Dated /\ [Next]_vars => Dated'
<1> SUFFICES ASSUME Shape, Shape', Receipts, Dated, [Next]_vars PROVE Dated'
  OBVIOUS
<1>1. launches \in Nat /\ (launches' = launches \/ launches' = launches + 1)
  <2>1. launches \in Nat
    BY Bounds DEF Shape, DriverType
  <2>2. launches' = launches \/ StartLayer \/ StartLaunch
    <3>1. CASE UNCHANGED vars \/ Drive \/ Trouble
      BY <3>1 DEF vars, Drive, SkipTarget, Archive, AuditArchive, Spawn, Finish, Trouble,
           Interrupt, Die, OperatorAudit, OrphanTurn, KillTask, driverVars
    <3>2. CASE Work
      BY <3>2 DEF Work, BeginRound, Turn, SealTurn, RecordRound, WriteReceipt, WriteResult,
           Register, Raise, driverVars
    <3> QED
      BY <3>1, <3>2 DEF Next
  <2> QED
    BY <2>1, <2>2 DEF StartLayer, StartLaunch
<1>2. \A i \in DOMAIN streams : streams[i].launch \in Nat
  <2>1. \A s \in Streams : s.launch \in Nat
    BY DEF Streams
  <2>2. streams \in Seq(Streams)
    BY DEF Shape, DiskType
  <2> QED
    BY <2>1, <2>2
<1>3. CASE BeginRound
  <2>1. /\ Len(streams') = Len(streams) + 1 /\ Fresh(streams'[Len(streams) + 1])
        /\ \A j \in DOMAIN streams : streams'[j] = streams[j]
    BY <1>3, RoundBegun
  <2>2. \A j \in DOMAIN streams' : j \in DOMAIN streams \/ j = Len(streams) + 1
    BY <2>1 DEF Shape, DiskType
  <2>3. launches' = launches
    BY <1>3 DEF BeginRound, driverVars
  <2> QED
    BY <1>1, <2>1, <2>2, <2>3 DEF Dated, Fresh
<1>4. CASE DOMAIN streams' = DOMAIN streams
  BY <1>1, <1>2, <1>4, CountsStay DEF Dated
<1>5. Archive => DOMAIN streams' = DOMAIN streams
  <2> SUFFICES ASSUME Archive PROVE DOMAIN streams' = DOMAIN streams
    OBVIOUS
  <2> QED
    BY DEF Archive, Archived
<1> QED
  BY <1>3, <1>4, <1>5, StreamsStay DEF Still

(* run_layer.py leaves the idle state only to start a launch, and then     *)
(* only its own steps matter.                                              *)
LEMMA LayerSteps ==
  ASSUME Shape, Opened, [Next]_vars, driver = "layer"
  PROVE  \/ StartLayer \/ Finish \/ Die \/ Register
         \/ LeaveByException /\ streams' = streams /\ launches' = launches /\ task # None
         \/ /\ UNCHANGED <<summary, launches>> /\ (pc = "idle" <=> pc' = "idle")
            /\ task' = None => task = None
<1>1. CASE UNCHANGED vars
  BY <1>1 DEF vars
<1>2. CASE Drive
  BY <1>2 DEF Drive, StartLaunch, SkipTarget, Archive, AuditArchive, Spawn, Opened, Shape, TaskType
<1>3. CASE Work
  <2>1. task # None
    BY <1>3 DEF Work, BeginRound, Turn, SealTurn, RecordRound, WriteReceipt, WriteResult,
         Register, Raise, At
  <2>2. Shape'
    BY ShapeStep
  <2>3. pc = "wait" /\ (task' # None <=> pc' = "wait")
    BY <2>1, <2>2 DEF Shape, TaskType
  <2>4. CASE BeginRound \/ Turn \/ SealTurn \/ RecordRound \/ WriteResult
    BY <2>3, <2>4 DEF BeginRound, Turn, SealTurn, RecordRound, WriteResult, driverVars
  <2>5. CASE WriteReceipt
    BY <2>1, <2>3, <2>5 DEF WriteReceipt
  <2>6. CASE Raise
    BY <2>1, <2>6 DEF Raise
  <2> QED
    BY <1>3, <2>4, <2>5, <2>6 DEF Work
<1>4. CASE Trouble
  BY <1>4 DEF Trouble, Interrupt, OperatorAudit, OrphanTurn, KillTask, driverVars
<1> QED
  BY <1>1, <1>2, <1>3, <1>4 DEF Next

(* A task that returns with nothing unknown has priced each of its turns.  *)
LEMMA ReturnCounts ==
  ASSUME Shape, Summed, Noted, driver = "layer", Register, NothingUnknown'
  PROVE  \A i \in DOMAIN streams : streams[i].launch = launches => Counted(i)
<1> DEFINE unknown == Cardinality(OwnRounds \ PricedRounds)
           more == Total(OwnCosts)
<1>1. task # None /\ task.step = "reported" /\ task \in Run /\ pc = "wait"
      /\ streams \in Seq(Streams) /\ DOMAIN streams = 1..Len(streams) /\ Len(streams) \in Nat
      /\ task.from \in Nat
  BY DEF Register, At, Shape, TaskType, DiskType, Run
<1>2. unknown \in Nat /\ IsFiniteSet(OwnRounds \ PricedRounds) /\ summary \in Summaries
  BY <1>1, OwnCostsAreNumbers DEF Shape, HistoryType
<1>3. summary' = [summary EXCEPT !.recorded = @ + more, !.unknownRounds = @ + unknown]
  BY DEF Register, Aggregated
<1> HIDE DEF unknown, more
<1>4. /\ summary'.unknownRounds = summary.unknownRounds + unknown
      /\ summary'.unknownModules = summary.unknownModules
      /\ summary.unknownRounds \in Nat
  BY <1>2, <1>3 DEF Summaries
<1>5. unknown = 0 /\ NothingUnknown
  <2>1. summary'.unknownRounds = 0 /\ summary'.unknownModules = 0
    BY DEF NothingUnknown
  <2>2. unknown = 0 /\ summary.unknownRounds = 0
    BY <1>2, <1>4, <2>1
  <2> QED
    BY <1>4, <2>1, <2>2 DEF NothingUnknown
<1>6. OwnRounds \subseteq PricedRounds
  <2>1. OwnRounds \ PricedRounds = {}
    BY <1>2, <1>5, FS_EmptySet DEF unknown
  <2> QED
    BY <2>1
<1> SUFFICES ASSUME NEW i \in DOMAIN streams, streams[i].launch = launches
             PROVE  Counted(i)
  OBVIOUS
<1>7. CASE i <= task.from
  BY <1>1, <1>5, <1>7 DEF Summed
<1>8. CASE i > task.from
  <2>1. streams[i].halt \/ streams[i].record # NoRecord
    BY <1>1, <1>8 DEF Noted
  <2>2. streams[i].record # NoRecord => i \in PricedRounds
    BY <1>1, <1>6, <1>8 DEF OwnRounds
  <2> QED
    BY <2>1, <2>2 DEF PricedRounds, OwnRounds, Counted
<1> QED
  BY <1>1, <1>7, <1>8

LEMMA ClosedStep ==
  ASSUME Shape, Opened, Closed, [Next]_vars, driver = "layer"
  PROVE  Closed'
<1>1. CASE StartLayer
  BY <1>1 DEF StartLayer, Closed, NoSummary
<1>2. CASE Finish \/ Die
  BY <1>2 DEF Finish, Die, Closed
<1>3. CASE Register \/ (LeaveByException /\ task # None)
  <2>1. ~summary.written /\ summary \in Summaries
    BY <1>3 DEF Closed, Register, At, Shape, TaskType, HistoryType
  <2>2. Aggregated.written = summary.written /\ UnreceiptedModule.written = summary.written
    <3> DEFINE recorded == summary.recorded + Total(OwnCosts)
               unknown == summary.unknownRounds + Cardinality(OwnRounds \ PricedRounds)
    <3>1. Aggregated = [summary EXCEPT !.recorded = recorded, !.unknownRounds = unknown]
      BY DEF Aggregated
    <3> HIDE DEF recorded, unknown
    <3> QED
      BY <2>1, <3>1 DEF UnreceiptedModule, Summaries
  <2>3. summary' \in {summary, Aggregated, UnreceiptedModule}
    BY <1>3 DEF Register, LeaveByException
  <2> QED
    BY <2>1, <2>2, <2>3 DEF Closed
<1>4. CASE UNCHANGED summary /\ (pc = "idle" <=> pc' = "idle")
  BY <1>4 DEF Closed
<1> QED
  BY <1>1, <1>2, <1>3, <1>4, LayerSteps

LEMMA SummedStep ==
  ASSUME Shape, Shape', Receipts, Opened, Dated, Closed, Summed, Noted, [Next]_vars,
         driver = "layer"
  PROVE  Summed'
<1>1. /\ streams' \in Seq(Streams) /\ DOMAIN streams' = 1..Len(streams')
      /\ streams \in Seq(Streams) /\ DOMAIN streams = 1..Len(streams)
  BY DEF Shape, DiskType
<1>2. CASE StartLayer
  <2>1. streams' = streams /\ launches' = launches + 1 /\ launches \in Nat
    BY <1>2, Bounds DEF StartLayer, Shape, DriverType
  <2>2. \A i \in DOMAIN streams : streams[i].launch \in Nat
    <3>1. \A s \in Streams : s.launch \in Nat
      BY DEF Streams
    <3> QED
      BY <1>1, <3>1
  <2>3. \A i \in DOMAIN streams' : streams'[i].launch # launches'
    BY <2>1, <2>2 DEF Dated
  <2> QED
    BY <2>3 DEF Summed
<1>3. CASE Finish
  <2>1. /\ streams' = streams /\ launches' = launches /\ task' = task
        /\ pc = "pick" /\ summary' = [summary EXCEPT !.written = TRUE]
    BY <1>3 DEF Finish
  <2>2. NothingUnknown' <=> NothingUnknown
    BY <2>1 DEF NothingUnknown, Shape, HistoryType, Summaries
  <2> QED
    BY <2>1, <2>2 DEF Summed, Counted
<1>4. CASE Die
  BY <1>4 DEF Die, Summed, Closed
<1>5. CASE Register
  <2>1. streams' = streams /\ launches' = launches
    BY <1>5 DEF Register
  <2> QED
    BY <1>5, <2>1, ReturnCounts DEF Summed, Counted
<1>6. CASE LeaveByException /\ streams' = streams /\ launches' = launches /\ task # None
  <2>1. summary' = [summary EXCEPT !.unknownModules = @ + 1] /\ summary \in Summaries
    BY <1>6 DEF LeaveByException, UnreceiptedModule, Shape, HistoryType
  <2>2. summary'.unknownModules = summary.unknownModules + 1 /\ summary.unknownModules \in Nat
    BY <2>1 DEF Summaries
  <2>3. ~NothingUnknown'
    <3>1. summary'.unknownModules # 0
      BY <2>2
    <3> QED
      BY <3>1 DEF NothingUnknown
  <2> QED
    BY <2>3 DEF Summed
<1>7. CASE /\ UNCHANGED <<summary, launches>> /\ (pc = "idle" <=> pc' = "idle")
           /\ task' = None => task = None
  <2> SUFFICES ASSUME NothingUnknown', pc' # "idle" \/ summary'.written,
                      NEW i \in DOMAIN streams', streams'[i].launch = launches',
                      task' # None => i <= task'.from
               PROVE  Counted(i)'
    BY DEF Summed
  <2>1. NothingUnknown /\ (pc # "idle" \/ summary.written)
    BY <1>7 DEF NothingUnknown
  <2>2. i \in DOMAIN streams /\ (task # None => i <= task.from)
    <3>1. CASE BeginRound
      <4>1. task \in Run /\ task # None /\ task' = [task EXCEPT !.step = "agent"]
            /\ task.from <= Len(streams) /\ task.from \in Nat
        BY <3>1 DEF BeginRound, At, Goto, Shape, TaskType, Run
      <4>2. task'.from = task.from /\ task' # None
        BY <1>7, <4>1 DEF Run
      <4> QED
        BY <1>1, <4>1, <4>2
    <3>2. CASE task = None /\ ~BeginRound
      <4>1. ~Archive
        BY DEF Archive
      <4> QED
        BY <3>2, <4>1, StreamsStay DEF Still
    <3>3. CASE task # None /\ ~BeginRound
      <4>1. i \in DOMAIN streams
        BY <3>3, StreamsStay DEF Still, Archive
      <4>2. task' # None /\ task'.from = task.from
        <5>1. task' # None /\ task \in Run /\ ~Spawn
          BY <1>7, <3>3 DEF Shape, TaskType, Spawn
        <5>2. CASE task' = task
          BY <5>1, <5>2
        <5>3. CASE Turn \/ SealTurn \/ RecordRound \/ WriteResult \/ (WriteReceipt /\ Goto("promoted"))
          BY <5>1, <5>3 DEF Turn, SealTurn, AfterTurn, RecordRound, WriteResult, Goto, Run
        <5> QED
          BY <3>3, <5>1, <5>2, <5>3, TaskMoves
      <4> QED
        BY <4>1, <4>2
    <3> QED
      BY <3>1, <3>2, <3>3
  <2>3. ~(RecordRound /\ i = This)
    <3> SUFFICES ASSUME RecordRound, i = This PROVE FALSE
      OBVIOUS
    <3>1. task # None /\ task.from < This /\ This \in Nat /\ task.from \in Nat
      BY ThisIsAStream DEF RecordRound, At, Shape, TaskType, Run
    <3> QED
      BY <2>2, <3>1
  <2>4. Counted(i)
    BY <1>7, <2>1, <2>2, CountsStay DEF Summed
  <2> QED
    BY <2>2, <2>3, <2>4, CountsStay DEF Counted
<1> QED
  BY <1>2, <1>3, <1>4, <1>5, <1>6, <1>7, LayerSteps

LEMMA NotedStep ==
  ASSUME Shape, Shape', Receipts, Noted, [Next]_vars, driver = "layer"
  PROVE  Noted'
<1>0. /\ streams \in Seq(Streams) /\ streams' \in Seq(Streams)
      /\ DOMAIN streams = 1..Len(streams) /\ DOMAIN streams' = 1..Len(streams')
      /\ Len(streams) \in Nat /\ Len(streams') \in Nat /\ ~Archive
  BY DEF Shape, DiskType, Archive
<1>1. task # None => task \in Run /\ task.from \in Nat
  BY DEF Shape, TaskType, Run
<1>2. CASE BeginRound
  <2>1. /\ task # None /\ task.step = "round" /\ task' = [task EXCEPT !.step = "agent"]
    BY <1>2 DEF BeginRound, At, Goto
  <2>2. task'.from = task.from /\ task'.step = "agent"
    BY <1>1, <2>1 DEF Run
  <2>3. /\ Len(streams') = Len(streams) + 1
        /\ \A j \in DOMAIN streams : streams'[j] = streams[j]
    BY <1>2, RoundBegun
  <2>4. This' = Len(streams) + 1
    BY <2>3 DEF This
  <2>5. \A j \in DOMAIN streams' : j \in DOMAIN streams \/ j = This'
    BY <1>0, <2>3, <2>4
  <2>6. \A j \in DOMAIN streams :
          j > task.from => streams[j].halt \/ streams[j].record # NoRecord
    BY <2>1 DEF Noted
  <2> QED
    BY <2>2, <2>3, <2>5, <2>6 DEF Noted
<1>3. CASE Still /\ task' = task /\ ~RecordRound
  BY <1>3, CountsStay DEF Still, Noted, This
<1>4. CASE task' = None
  BY <1>4 DEF Noted
<1>5. CASE task = None /\ Spawn
  <2>1. streams' = streams /\ task'.from = Len(streams)
    BY <1>5 DEF Spawn
  <2> QED
    BY <1>0, <2>1 DEF Noted
<1>6. CASE Still /\ (Turn \/ SealTurn)
  <2>1. /\ task # None /\ task.step \in {"agent", "turned"} /\ task'.from = task.from
        /\ \/ task'.step \in {"turned", "gate"}
           \/ SealTurn /\ streams[This].halt
    BY <1>1, <1>6 DEF Turn, SealTurn, AfterTurn, RateLimited, At, Goto, Run
  <2>2. This' = This /\ This \in DOMAIN streams /\ ~RecordRound
    BY <1>6, <2>1, ThisIsAStream DEF Still, This, At, RecordRound
  <2>3. \A j \in DOMAIN streams :
          j > task.from => streams[j].halt \/ streams[j].record # NoRecord \/ j = This
    BY <2>1 DEF Noted
  <2>4. \A j \in DOMAIN streams :
          /\ streams[j].halt => streams'[j].halt
          /\ streams'[j].record = streams[j].record
    BY <2>2, CountsStay
  <2> QED
    BY <1>6, <2>1, <2>2, <2>3, <2>4 DEF Noted, Still
<1>7. CASE Still /\ RecordRound
  <2>1. task # None /\ task.step = "gate" /\ task'.from = task.from
    BY <1>1, <1>7 DEF RecordRound, At, Run
  <2>2. This \in DOMAIN streams /\ streams[This] \in Streams
    BY <1>0, <1>7, ThisIsAStream DEF RecordRound
  <2>3. streams'[This].record # NoRecord
    <3>1. streams'[This] = [streams[This] EXCEPT !.record = LastCost(streams[This])]
      BY <1>0, <1>7, <2>2, RoundRecorded
    <3>2. LastCost(streams[This]) # NoRecord
      BY <2>2, LastCostIsTold, Bounds
    <3> QED
      BY <2>2, <3>1, <3>2 DEF Streams
  <2>4. \A j \in DOMAIN streams :
          j > task.from => streams[j].halt \/ streams[j].record # NoRecord \/ j = This
    BY <2>1 DEF Noted
  <2>5. \A j \in DOMAIN streams :
          /\ streams[j].halt => streams'[j].halt
          /\ j # This => streams'[j].record = streams[j].record
    BY CountsStay
  <2> QED
    BY <1>7, <2>1, <2>3, <2>4, <2>5 DEF Noted, Still
<1>8. CASE Still /\ (WriteResult \/ (WriteReceipt /\ Goto("promoted")))
  <2>1. /\ task # None /\ task.step \in {"promoted", "verdict"} /\ task'.from = task.from
    BY <1>1, <1>8 DEF WriteResult, WriteReceipt, At, Goto, Run
  <2>2. ~RecordRound
    BY <2>1 DEF RecordRound, At
  <2> QED
    BY <1>8, <2>1, <2>2, CountsStay DEF Noted, Still
<1> QED
  BY <1>0, <1>2, <1>3, <1>4, <1>5, <1>6, <1>7, <1>8, StreamsStay, TaskMoves

LEMMA SummingStep == Shape /\ Shape' /\ Receipts /\ Opened /\ Summing /\ [Next]_vars => Summing'
<1> SUFFICES ASSUME Shape, Shape', Receipts, Opened, Summing, [Next]_vars PROVE Summing'
  OBVIOUS
<1>1. Dated'
  BY DatedStep DEF Summing
<1>2. driver' = driver
  BY Writers DEF options
<1>3. driver = "layer" => Closed' /\ Summed' /\ Noted'
  BY ClosedStep, SummedStep, NotedStep DEF Summing
<1> QED
  BY <1>1, <1>2, <1>3 DEF Summing

(* run_layer.py: a written summary that counts nothing as unknown has the  *)
(* cost of every turn of its launch that no rate limit ended.              *)
THEOREM SummariesPriceAll == Spec => []SummaryPricesEveryRound
<1>1. Init => Summing
  BY DEF Init, Summing, Dated, Closed, Summed, Noted, NoSummary
<1>2. Shape /\ Shape' /\ Receipts /\ Opened /\ Summing /\ [Next]_vars => Summing'
  BY SummingStep
<1>3. Shape /\ Summing => SummaryPricesEveryRound
  <2> SUFFICES ASSUME Shape, Summing, summary.written, NothingUnknown
               PROVE  \A i \in DOMAIN streams :
                        streams[i].launch = launches /\ ~streams[i].halt =>
                          streams[i].record \notin {NoRecord, Unpriced}
    BY DEF SummaryPricesEveryRound, NothingUnknown
  <2>1. driver = "layer" /\ pc = "idle" /\ task = None
    BY DEF Shape, DriverType, HistoryType, TaskType, Summing, Closed
  <2> QED
    BY <2>1 DEF Summing, Summed, Counted
<1> QED
  BY <1>1, <1>2, <1>3, AlwaysShape, AlwaysReceipts, AlwaysOpened, PTL DEF Spec
=============================================================================
