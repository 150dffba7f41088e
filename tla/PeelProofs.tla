----------------------------- MODULE PeelProofs -----------------------------
(***************************************************************************)
(* Theorems about module Peel, for every project, manifest, cut and number *)
(* of worktrees and builds, killed anywhere: a worktree handed over is     *)
(* sealed, and holds the files of the ref as the manifest has them cut and *)
(* no other change.  What one cut does to the text of a file is computed   *)
(* by recursive functions and stays with TLC: FloorFrozen,                 *)
(* UnpinnedKeepsMeaning, HarderLeavesLess and CountIsHonest follow from    *)
(* what is true of the cut of each file alone.  At the end, the manifests  *)
(* of the three floors: each asks for no less than the ones above it.      *)
(***************************************************************************)
EXTENDS Peel, FiniteSetTheorems, TLAPS

(* Removing one entry of a function. *)
LEMMA EntryGone ==
  ASSUME NEW f, NEW x
  PROVE  /\ DOMAIN Restrict(f, DOMAIN f \ {x}) = DOMAIN f \ {x}
         /\ \A z \in DOMAIN f : z # x => Restrict(f, DOMAIN f \ {x})[z] = f[z]
BY DEF Restrict

(* A worktree that is removed, and its report. *)
LEMMA ReportGone ==
  ASSUME NEW d, report' = Forgotten(d)
  PROVE  /\ DOMAIN report' = DOMAIN report \ {d}
         /\ \A e \in DOMAIN report' : report'[e] = report[e]
<1>1. report' = Restrict(report, DOMAIN report \ {d})
  BY DEF Forgotten
<1> QED
  BY <1>1 DEF Restrict

LEMMA TreeGone ==
  ASSUME NEW d, wt' = Restrict(wt, DOMAIN wt \ {d})
  PROVE  /\ DOMAIN wt' = DOMAIN wt \ {d}
         /\ \A e \in DOMAIN wt' : wt'[e] = wt[e]
         /\ \A e \in DOMAIN wt : e # d => wt'[e] = wt[e]
BY DEF Restrict

(* The entry of another branch, of another worktree. *)
LEMMA BranchesDiffer ==
  /\ DOMAIN Branch = Dests /\ None \notin Range(Branch)
  /\ \A d \in Dests : Branch[d] \in Range(Branch) /\ Branch[d] # None
  /\ \A d, e \in Dests : Branch[d] = Branch[e] => d = e
BY PeelAssumption DEF Range

-----------------------------------------------------------------------------
(* What a worktree, a request and the steps of a build look like.          *)
Tree(w, d) ==
  /\ w = [files |-> w.files, log |-> w.log, on |-> w.on]
  /\ w.files = [p \in Paths |-> w.files[p]]
  /\ w.on \in {None, Branch[d]}
Request(j) ==
  /\ j \in Requests(repo) /\ _require_pin(j.depth, j.pin, j.manifest) /\ j.dest \in Dests
  /\ j = [dest |-> j.dest, depth |-> j.depth, pin |-> j.pin, seal |-> j.seal,
          floor |-> j.floor, manifest |-> j.manifest]

JobShape ==
  /\ pc \in {"idle", "create", "peel", "drop_stale", "orphan", "commit", "detach", "drop", "report"}
  /\ builds \in 0 .. MaxBuilds /\ (pc # "idle" => builds # 0)
  /\ repo \in Sources /\ (builds # 0 => Request(job))
TreeShape ==
  /\ DOMAIN wt \subseteq Dests /\ \A d \in DOMAIN wt : Tree(wt[d], d)
  /\ builds = 0 => DOMAIN wt = {}
  /\ pc \notin {"idle", "create"} => job.dest \in DOMAIN wt /\ job.dest \notin DOMAIN report
  /\ DOMAIN report \subseteq DOMAIN wt
RefShape ==
  /\ DOMAIN refs \subseteq Range(Branch) /\ \A b \in DOMAIN refs : Len(refs[b]) = 1
  /\ pc = "commit" => Mine.log = <<>>
Shape == JobShape /\ TreeShape /\ RefShape

(* The requests repeat but for the worktree. *)
LEMMA RequestsRepeat ==
  ASSUME NEW j, Request(j), NEW d \in Dests
  PROVE  LET k == [j EXCEPT !.dest = d]
         IN  /\ Request(k) /\ k.dest = d
             /\ k.depth = j.depth /\ k.manifest = j.manifest /\ k.pin = j.pin
<1> DEFINE k == [j EXCEPT !.dest = d]
<1>1. k = [dest |-> d, depth |-> j.depth, pin |-> j.pin, seal |-> j.seal,
           floor |-> j.floor, manifest |-> j.manifest]
  BY DEF Request
<1>2. k.dest = d /\ k.depth = j.depth /\ k.pin = j.pin /\ k.seal = j.seal
      /\ k.floor = j.floor /\ k.manifest = j.manifest
  BY <1>1
<1> HIDE DEF k
<1>3. k \in Requests(repo)
  <2>1. CASE \E e \in Dests, c \in Cuts, m \in Manifests : j = Build(e, c, None, m)
    <3>1. PICK c \in Cuts, m \in Manifests : k = Build(d, c, None, m)
      BY <1>1, <2>1 DEF Build
    <3> QED
      BY <3>1 DEF Requests
  <2>2. CASE \E e \in Dests, f \in Floors : j = Build(e, FloorCut, f, classify_cone(repo, f))
    <3>1. PICK f \in Floors : k = Build(d, FloorCut, f, classify_cone(repo, f))
      BY <1>1, <2>2 DEF Build
    <3> QED
      BY <3>1 DEF Requests
  <2> QED
    BY <2>1, <2>2 DEF Request, Requests
<1> QED
  BY <1>1, <1>2, <1>3 DEF Request, k

(* A build starts with a request like the last one, if there was one.      *)
LEMMA BuildBegins ==
  ASSUME Shape, Begin
  PROVE  /\ Request(job') /\ repo' = repo /\ pc' = "create" /\ builds' \in 1 .. MaxBuilds
         /\ \/ builds = 0 /\ DOMAIN wt = {}
            \/ job'.depth = job.depth /\ job'.manifest = job.manifest /\ job'.pin = job.pin
<1>1. PICK j \in Jobs : _require_pin(j.depth, j.pin, j.manifest) /\ job' = j
  BY DEF Begin
<1>2. CASE builds = 0
  <2>1. j \in Requests(repo)
    BY <1>1, <1>2 DEF Jobs
  <2>2. Request(j)
    BY <1>1, <2>1 DEF Request, Requests, Build
  <2> QED
    BY <1>1, <1>2, <2>2, PeelAssumption DEF Begin, Shape, JobShape, TreeShape
<1>3. CASE builds # 0
  <2>1. PICK d \in Dests : j = [job EXCEPT !.dest = d]
    BY <1>1, <1>3 DEF Jobs
  <2>2. Request(job)
    BY <1>3 DEF Shape, JobShape
  <2> QED
    BY <1>1, <2>1, <2>2, RequestsRepeat, PeelAssumption DEF Begin, Shape, JobShape
<1> QED
  BY <1>2, <1>3

(* What a step makes of the worktree it builds, the others stay. *)
LEMMA TreeSet ==
  ASSUME Shape, builds # 0, job' = job, NEW w, SetWt(w)
  PROVE  /\ job.dest \in Dests /\ DOMAIN wt' = DOMAIN wt \cup {job.dest}
         /\ wt'[job.dest] = w /\ Mine' = w
         /\ \A d \in DOMAIN wt : d # job.dest => wt'[d] = wt[d]
         /\ Tree(w, job.dest) => \A d \in DOMAIN wt' : Tree(wt'[d], d)
<1>1. job.dest \in Dests
  BY DEF Shape, JobShape, Request
<1>2. /\ DOMAIN wt' = DOMAIN wt \cup {job.dest} /\ wt'[job.dest] = w
      /\ \A d \in DOMAIN wt : d # job.dest => wt'[d] = wt[d]
  BY DEF SetWt, Put
<1>3. \A d \in DOMAIN wt : Tree(wt[d], d)
  BY DEF Shape, TreeShape
<1> QED
  BY <1>1, <1>2, <1>3 DEF Mine

LEMMA ShapeInit == Init => Shape
<1> SUFFICES ASSUME Init PROVE Shape
  OBVIOUS
<1>1. DOMAIN wt = {} /\ DOMAIN refs = {} /\ DOMAIN report = {}
  <2>1. wt = <<>> /\ refs = <<>> /\ report = <<>>
    BY DEF Init
  <2> QED
    BY <2>1
<1> QED
  BY <1>1, PeelAssumption DEF Init, Shape, JobShape, TreeShape, RefShape

LEMMA ShapeStep == Shape /\ [Next]_vars => Shape'
<1> SUFFICES ASSUME Shape, [Next]_vars PROVE Shape'
  OBVIOUS
<1> DEFINE Steady == job' = job /\ repo' = repo /\ builds' = builds
<1>0. /\ builds \in 0 .. MaxBuilds /\ MaxBuilds \in Nat
      /\ pc # "idle" => builds # 0 /\ Request(job) /\ job.dest \in Dests
      /\ pc \notin {"idle", "create"} =>
           /\ job.dest \in DOMAIN wt /\ job.dest \notin DOMAIN report
           /\ Tree(Mine, job.dest)
  BY PeelAssumption DEF Shape, JobShape, TreeShape, Request, Mine
<1>1. CASE Begin
  <2>1. Request(job') /\ repo' = repo /\ pc' = "create" /\ builds' \in 1 .. MaxBuilds
    BY <1>1, BuildBegins
  <2>2. UNCHANGED <<wt, refs, report>>
    BY <1>1 DEF Begin
  <2>3. Request(job)' /\ builds' # 0
    BY <2>1 DEF Request
  <2> QED
    BY <2>1, <2>2, <2>3 DEF Shape, JobShape, TreeShape, RefShape
<1>2. ASSUME Steady, pc' \in {"idle", "create", "peel", "drop_stale", "orphan", "commit",
                              "detach", "drop", "report"},
             pc' # "idle" => builds # 0
      PROVE  JobShape'
  BY <1>2 DEF Shape, JobShape, Request
<1>3. CASE create_admit_worktree
  <2> DEFINE new == [files |-> repo, log |-> <<repo>>, on |-> None]
  <2>1. Steady /\ pc' = "peel" /\ builds # 0 /\ job.dest \in Dests /\ SetWt(new)
        /\ report' = Forgotten(job.dest) /\ refs' = refs
    BY <1>0, <1>3 DEF create_admit_worktree
  <2>2. repo \in [Paths -> Seq(STRING)]
    BY PeelAssumption DEF Shape, JobShape
  <2>3. Tree(new, job.dest)
    BY <2>2 DEF Tree
  <2> HIDE DEF new
  <2>4. /\ DOMAIN wt' = DOMAIN wt \cup {job.dest}
        /\ \A d \in DOMAIN wt' : Tree(wt'[d], d)
    BY <2>1, <2>3, TreeSet
  <2>5. DOMAIN report' = DOMAIN report \ {job.dest}
    BY <2>1, ReportGone
  <2>6. TreeShape'
    BY <2>1, <2>4, <2>5 DEF Shape, TreeShape
  <2>7. JobShape' /\ RefShape'
    BY <1>2, <2>1 DEF Shape, RefShape
  <2> QED
    BY <2>6, <2>7 DEF Shape
<1>4. ASSUME NEW w, Steady, pc \notin {"idle", "create"}, SetWt(w), Tree(w, job.dest),
             report' = report
      PROVE  TreeShape' /\ wt'[job.dest] = w /\ Mine' = w
  <2>1. /\ DOMAIN wt' = DOMAIN wt /\ wt'[job.dest] = w /\ Mine' = w
        /\ \A d \in DOMAIN wt' : Tree(wt'[d], d)
    BY <1>0, <1>4, TreeSet
  <2> QED
    BY <1>0, <1>4, <2>1 DEF Shape, TreeShape
<1>5. CASE PeelFile
  <2> DEFINE p == CHOOSE q \in todo : TRUE
             cut == peel_file_text(Mine.files[p], job.depth, job.manifest[p], p \in LemmaPaths)
             w == [Mine EXCEPT !.files[p] = cut]
  <2>1. Steady /\ pc = "peel" /\ pc' \in {"peel", "idle"} /\ UNCHANGED <<refs, report>>
        /\ (wt' = wt \/ SetWt(w))
    BY <1>5 DEF PeelFile
  <2>2. Tree(w, job.dest)
    <3> HIDE DEF p, cut
    <3>1. Tree(Mine, job.dest)
      BY <1>0, <2>1
    <3>2. [Mine.files EXCEPT ![p] = cut] = [q \in Paths |-> [Mine.files EXCEPT ![p] = cut][q]]
      BY <3>1 DEF Tree
    <3> DEFINE cutFiles == [Mine.files EXCEPT ![p] = cut]
    <3>3. w = [Mine EXCEPT !.files = cutFiles]
      OBVIOUS
    <3>4. cutFiles = [q \in Paths |-> cutFiles[q]]
      BY <3>2
    <3> HIDE DEF cutFiles, w
    <3>5. w.files = cutFiles /\ w.on = Mine.on /\ w.log = Mine.log
          /\ w = [files |-> cutFiles, log |-> Mine.log, on |-> Mine.on]
      BY <3>1, <3>3 DEF Tree
    <3> QED
      BY <3>1, <3>4, <3>5 DEF Tree
  <2> HIDE DEF w
  <2>3. TreeShape'
    <3>1. CASE wt' = wt
      BY <1>0, <2>1, <3>1 DEF Shape, TreeShape
    <3>2. CASE SetWt(w)
      BY <1>4, <2>1, <2>2, <3>2
    <3> QED
      BY <2>1, <3>1, <3>2
  <2>4. JobShape' /\ RefShape'
    BY <1>0, <1>2, <2>1 DEF Shape, RefShape
  <2> QED
    BY <2>3, <2>4 DEF Shape
<1>6. CASE Peeled \/ Killed
  BY <1>0, <1>2, <1>6 DEF Peeled, Killed, Shape, TreeShape, RefShape
<1>7. CASE DropStale \/ DropBranch
  <2>1. Steady /\ pc' \in {"orphan", "report"} /\ pc \notin {"idle", "create"}
        /\ UNCHANGED <<wt, report>>
    BY <1>7 DEF DropStale, DropBranch
  <2>2. /\ DOMAIN refs' \subseteq DOMAIN refs
        /\ \A b \in DOMAIN refs' : refs'[b] = refs[b]
    <3>1. refs' = refs \/ refs' = Restrict(refs, DOMAIN refs \ {Mark})
      BY <1>7 DEF DropStale, DropBranch, WithoutStale, Dropped
    <3>2. DOMAIN Restrict(refs, DOMAIN refs \ {Mark}) = DOMAIN refs \ {Mark}
          /\ \A b \in DOMAIN refs : b # Mark => Restrict(refs, DOMAIN refs \ {Mark})[b] = refs[b]
      BY EntryGone
    <3> QED
      BY <3>1, <3>2
  <2> QED
    BY <1>0, <1>2, <2>1, <2>2 DEF Shape, TreeShape, RefShape
<1>8. CASE Orphan
  <2> DEFINE w == [files |-> Mine.files, log |-> <<>>, on |-> Mark]
  <2>1. Steady /\ pc = "orphan" /\ UNCHANGED <<refs, report>>
        /\ \/ pc' = "idle" /\ wt' = wt
           \/ pc' = "commit" /\ SetWt(w)
    BY <1>8 DEF Orphan
  <2>2. Tree(w, job.dest) /\ w.log = <<>>
    <3>1. Tree(Mine, job.dest)
      BY <1>0, <2>1
    <3> QED
      BY <3>1 DEF Tree, Mark
  <2> HIDE DEF w
  <2>3. CASE pc' = "idle" /\ wt' = wt
    BY <1>2, <2>1, <2>3 DEF Shape, TreeShape, RefShape
  <2>4. CASE pc' = "commit" /\ SetWt(w)
    <3>1. TreeShape' /\ Mine' = w
      BY <1>4, <2>1, <2>2, <2>4
    <3>2. JobShape' /\ RefShape'
      BY <1>0, <1>2, <2>1, <2>2, <2>4, <3>1 DEF Shape, RefShape
    <3> QED
      BY <3>1, <3>2 DEF Shape
  <2> QED
    BY <2>1, <2>3, <2>4
<1>9. CASE Commit
  <2> DEFINE w == [Mine EXCEPT !.log = <<Mine.files>> \o Mine.log]
  <2>1. Steady /\ pc = "commit" /\ pc' = "detach" /\ SetWt(w) /\ report' = report
        /\ refs' = Put(refs, Mark, wt'[job.dest].log)
    BY <1>9 DEF Commit
  <2>2. Mine.log = <<>> /\ Tree(Mine, job.dest)
    BY <1>0, <2>1 DEF Shape, RefShape
  <2>3. w = [Mine EXCEPT !.log = <<Mine.files>>]
    BY <2>2
  <2>4. Tree(w, job.dest) /\ w.log = <<Mine.files>>
    BY <2>2, <2>3 DEF Tree
  <2> HIDE DEF w
  <2>5. TreeShape' /\ wt'[job.dest] = w
    BY <1>4, <2>1, <2>4
  <2>6. /\ DOMAIN refs' = DOMAIN refs \cup {Mark} /\ refs'[Mark] = <<Mine.files>>
        /\ \A b \in DOMAIN refs : b # Mark => refs'[b] = refs[b]
    <3> DEFINE log == wt'[job.dest].log
    <3>1. log = <<Mine.files>> /\ refs' = Put(refs, Mark, log)
      BY <2>1, <2>4, <2>5
    <3> HIDE DEF log
    <3> QED
      BY <3>1 DEF Put
  <2>7. Mark \in Range(Branch) /\ Len(<<Mine.files>>) = 1
    BY <1>0, <2>1, BranchesDiffer DEF Mark
  <2>8. RefShape'
    BY <2>1, <2>6, <2>7 DEF Shape, RefShape
  <2> QED
    BY <1>0, <1>2, <2>1, <2>5, <2>8 DEF Shape
<1>10. CASE Detach
  <2> DEFINE w == [Mine EXCEPT !.on = None]
  <2>1. Steady /\ pc = "detach" /\ pc' = "drop" /\ SetWt(w) /\ UNCHANGED <<refs, report>>
    BY <1>10 DEF Detach
  <2>2. Tree(w, job.dest)
    BY <1>0, <2>1 DEF Tree
  <2> HIDE DEF w
  <2>3. TreeShape'
    BY <1>4, <2>1, <2>2
  <2> QED
    BY <1>0, <1>2, <2>1, <2>3 DEF Shape, RefShape
<1>11. CASE Report
  <2>1. Steady /\ pc = "report" /\ pc' = "idle" /\ UNCHANGED <<wt, refs>>
    BY <1>11 DEF Report
  <2>2. DOMAIN report' = DOMAIN report \cup {job.dest}
    <3>1. PICK r : report' = Put(report, job.dest, r)
      BY <1>11 DEF Report
    <3> QED
      BY <3>1 DEF Put
  <2> QED
    BY <1>0, <1>2, <2>1, <2>2 DEF Shape, TreeShape, RefShape
<1>12. CASE remove_admit_worktree
  <2>1. Steady /\ pc = "idle" /\ pc' = pc /\ refs' = refs
    BY <1>12 DEF remove_admit_worktree
  <2>2. PICK d \in DOMAIN wt :
          wt' = Restrict(wt, DOMAIN wt \ {d}) /\ report' = Forgotten(d)
    BY <1>12 DEF remove_admit_worktree
  <2>3. /\ DOMAIN wt' = DOMAIN wt \ {d} /\ DOMAIN report' = DOMAIN report \ {d}
        /\ \A e \in DOMAIN wt' : wt'[e] = wt[e]
    BY <2>2, ReportGone, TreeGone
  <2> QED
    BY <1>2, <2>1, <2>3 DEF Shape, TreeShape, RefShape
<1>13. CASE UNCHANGED vars
  BY <1>0, <1>2, <1>13 DEF vars, Shape, JobShape, TreeShape, RefShape, Mine
<1> QED
  BY <1>1, <1>3, <1>5, <1>6, <1>7, <1>8, <1>9, <1>10, <1>11, <1>12, <1>13 DEF Next

LEMMA AlwaysShape == Spec => []Shape
BY ShapeInit, ShapeStep, PTL DEF Spec

(* Every worktree holds files for the paths of the project and is on no    *)
(* branch but its own; every branch has one commit.                        *)
THEOREM PeelTypes == Spec => []TypeOK
<1>1. Shape => TypeOK
  <2> SUFFICES ASSUME Shape PROVE TypeOK
    OBVIOUS
  <2>1. \A d \in DOMAIN wt : DOMAIN wt[d].files = Paths /\ wt[d].on \in {None, Branch[d]}
    <3> SUFFICES ASSUME NEW d \in DOMAIN wt
                 PROVE  DOMAIN wt[d].files = Paths /\ wt[d].on \in {None, Branch[d]}
      OBVIOUS
    <3>1. Tree(wt[d], d)
      BY DEF Shape, TreeShape
    <3>2. wt[d].files = [p \in Paths |-> wt[d].files[p]]
      BY <3>1 DEF Tree
    <3>3. DOMAIN wt[d].files = Paths
      BY <3>2
    <3> QED
      BY <3>1, <3>3 DEF Tree
  <2> QED
    BY <2>1 DEF Shape, JobShape, TreeShape, RefShape, TypeOK
<1> QED
  BY <1>1, AlwaysShape, PTL

-----------------------------------------------------------------------------
(* The sealing, git command by git command.  While a worktree is built it  *)
(* has no report, and its branch is the only one the build may meet: a     *)
(* branch that an earlier build left checked out elsewhere is another's.   *)
Handed(d) == wt[d].log = <<wt[d].files>> /\ wt[d].on = None /\ Branch[d] \notin DOMAIN refs
Progress ==
  /\ pc \in {"peel", "drop_stale", "orphan"} => Mine.on = None
  /\ pc = "orphan" => Mark \notin DOMAIN refs
  /\ pc \in {"detach", "drop"} => Mine.log = <<Mine.files>>
  /\ pc = "drop" => Mine.on = None
  /\ pc = "report" /\ job.seal => Handed(job.dest)
Sealing == Progress /\ SealedWhenReported

LEMMA SealingStep == Shape /\ Shape' /\ Sealing /\ [Next]_vars => Sealing'
<1> SUFFICES ASSUME Shape, Shape', Sealing, [Next]_vars PROVE Sealing'
  OBVIOUS
<1>0. /\ ~collided /\ DOMAIN report \subseteq DOMAIN wt /\ DOMAIN wt \subseteq Dests
      /\ \A d \in DOMAIN report : report[d].sealed => Handed(d)
      /\ pc # "idle" => builds # 0 /\ job.dest \in Dests
      /\ pc \notin {"idle", "create"} =>
           /\ job.dest \in DOMAIN wt /\ job.dest \notin DOMAIN report
           /\ Tree(Mine, job.dest)
  BY DEF Shape, JobShape, TreeShape, Request, Mine, Sealing, SealedWhenReported, Handed
(* A step of a build leaves the reports of the other worktrees alone.      *)
<1>1. ASSUME pc \notin {"idle", "create"}, job' = job, report' = report, ~collided',
             \A d \in DOMAIN wt : d # job.dest => wt'[d] = wt[d],
             \A b \in Range(Branch) : b # Mark /\ b \in DOMAIN refs' => b \in DOMAIN refs
      PROVE  SealedWhenReported'
  <2> SUFFICES ASSUME NEW d \in DOMAIN report, report[d].sealed PROVE Handed(d)'
    BY <1>1 DEF SealedWhenReported, Handed
  <2>1. d # job.dest /\ wt'[d] = wt[d] /\ Handed(d)
    BY <1>0, <1>1
  <2>2. Branch[d] # Mark /\ Branch[d] \in Range(Branch)
    BY <1>0, <1>1, <2>1, BranchesDiffer DEF Mark
  <2> QED
    BY <1>1, <2>1, <2>2 DEF Handed
<1>2. ASSUME NEW w, job' = job, builds # 0, SetWt(w)
      PROVE  Mine' = w /\ \A d \in DOMAIN wt : d # job.dest => wt'[d] = wt[d]
  BY <1>2, TreeSet
<1>3. CASE Begin
  <2>1. pc' = "create" /\ UNCHANGED <<wt, refs, report, collided>>
    BY <1>3 DEF Begin
  <2> QED
    BY <2>1 DEF Sealing, Progress, SealedWhenReported
<1>4. CASE create_admit_worktree
  <2> DEFINE new == [files |-> repo, log |-> <<repo>>, on |-> None]
  <2>1. /\ pc = "create" /\ pc' = "peel" /\ job' = job /\ SetWt(new)
        /\ report' = Forgotten(job.dest) /\ UNCHANGED <<refs, collided>>
    BY <1>4 DEF create_admit_worktree
  <2>2. new.on = None
    OBVIOUS
  <2> HIDE DEF new
  <2>3. Mine' = new /\ \A d \in DOMAIN wt : d # job.dest => wt'[d] = wt[d]
    BY <1>0, <1>2, <2>1
  <2>4. /\ DOMAIN report' = DOMAIN report \ {job.dest}
        /\ \A d \in DOMAIN report' : report'[d] = report[d]
    BY <2>1, ReportGone
  <2>5. \A d \in DOMAIN report' : report'[d].sealed => Handed(d)'
    BY <1>0, <2>1, <2>3, <2>4 DEF Handed
  <2> QED
    BY <1>0, <2>1, <2>2, <2>3, <2>5 DEF Sealing, Progress, SealedWhenReported, Handed
<1>5. CASE PeelFile
  <2> DEFINE p == CHOOSE q \in todo : TRUE
             cut == peel_file_text(Mine.files[p], job.depth, job.manifest[p], p \in LemmaPaths)
             w == [Mine EXCEPT !.files[p] = cut]
  <2>1. /\ pc = "peel" /\ pc' \in {"peel", "idle"} /\ job' = job
        /\ UNCHANGED <<refs, collided, report>> /\ (pc' = "peel" => SetWt(w))
        /\ (wt' = wt \/ SetWt(w))
    BY <1>5 DEF PeelFile
  <2>2. w.on = Mine.on
    <3>1. Mine = [files |-> Mine.files, log |-> Mine.log, on |-> Mine.on]
      BY <1>0, <2>1 DEF Tree
    <3> HIDE DEF p, cut
    <3> QED
      BY <3>1
  <2> HIDE DEF w
  <2>3. \A d \in DOMAIN wt : d # job.dest => wt'[d] = wt[d]
    BY <1>0, <1>2, <2>1
  <2>4. SealedWhenReported'
    BY <1>0, <1>1, <2>1, <2>3
  <2>5. Progress'
    BY <1>0, <1>2, <2>1, <2>2 DEF Sealing, Progress
  <2> QED
    BY <2>4, <2>5 DEF Sealing
<1>6. CASE Peeled
  <2>1. /\ pc = "peel" /\ pc' = (IF job.seal THEN "drop_stale" ELSE "report") /\ job' = job
        /\ UNCHANGED <<wt, refs, collided, report>>
    BY <1>6 DEF Peeled
  <2>2. Progress'
    BY <2>1 DEF Sealing, Progress, Mine
  <2> QED
    BY <2>1, <2>2 DEF Sealing, SealedWhenReported
<1>7. CASE Killed
  BY <1>7 DEF Killed, Sealing, Progress, SealedWhenReported
<1>8. CASE DropStale
  <2>1. /\ pc = "drop_stale" /\ pc' = "orphan" /\ job' = job /\ refs' = WithoutStale
        /\ UNCHANGED <<wt, collided, report>>
    BY <1>8 DEF DropStale
  <2>2. Mine.on = None
    BY <2>1 DEF Sealing, Progress
  <2>3. ~CheckedOut(Mark)
    <3> SUFFICES ASSUME NEW d \in DOMAIN wt, wt[d].on = Mark PROVE FALSE
      BY DEF CheckedOut
    <3>1. Tree(wt[d], d) /\ Mark # None
      BY <1>0, <2>1, BranchesDiffer DEF Mark, Shape, TreeShape
    <3>2. d = job.dest
      BY <1>0, <2>1, <3>1, BranchesDiffer DEF Tree, Mark
    <3> QED
      BY <2>2, <3>1, <3>2 DEF Mine
  <2>4. refs' = Restrict(refs, DOMAIN refs \ {Mark})
    BY <2>1, <2>3 DEF WithoutStale, Dropped
  <2>5. DOMAIN refs' = DOMAIN refs \ {Mark}
    BY <2>4, EntryGone
  <2>6. Progress'
    BY <2>1, <2>2, <2>5 DEF Progress, Mark, Mine
  <2>7. SealedWhenReported'
    BY <1>0, <1>1, <2>1, <2>5
  <2> QED
    BY <2>6, <2>7 DEF Sealing
<1>9. CASE Orphan
  <2> DEFINE w == [files |-> Mine.files, log |-> <<>>, on |-> Mark]
  <2>1. pc = "orphan" /\ Mark \notin DOMAIN refs
    BY <1>9 DEF Orphan, Sealing, Progress
  <2>2. /\ pc' = "commit" /\ job' = job /\ SetWt(w) /\ UNCHANGED <<refs, collided, report>>
    BY <1>9, <2>1 DEF Orphan
  <2> HIDE DEF w
  <2>3. \A d \in DOMAIN wt : d # job.dest => wt'[d] = wt[d]
    BY <1>0, <1>2, <2>1, <2>2
  <2>4. SealedWhenReported'
    BY <1>0, <1>1, <2>1, <2>2, <2>3
  <2> QED
    BY <2>2, <2>4 DEF Sealing, Progress
<1>10. CASE Commit
  <2> DEFINE w == [Mine EXCEPT !.log = <<Mine.files>> \o Mine.log]
  <2>1. /\ pc = "commit" /\ pc' = "detach" /\ job' = job /\ SetWt(w)
        /\ UNCHANGED <<collided, report>> /\ refs' = Put(refs, Mark, wt'[job.dest].log)
    BY <1>10 DEF Commit
  <2>2. Mine.log = <<>> /\ Tree(Mine, job.dest)
    BY <1>0, <2>1 DEF Shape, RefShape
  <2>3. w = [Mine EXCEPT !.log = <<Mine.files>>]
    BY <2>2
  <2>4. w.files = Mine.files /\ w.log = <<Mine.files>>
    BY <2>2, <2>3 DEF Tree
  <2> HIDE DEF w
  <2>5. Mine' = w /\ \A d \in DOMAIN wt : d # job.dest => wt'[d] = wt[d]
    BY <1>0, <1>2, <2>1
  <2>6. DOMAIN refs' = DOMAIN refs \cup {Mark}
    BY <2>1 DEF Put
  <2>7. SealedWhenReported'
    BY <1>0, <1>1, <2>1, <2>5, <2>6
  <2> QED
    BY <2>1, <2>4, <2>5, <2>7 DEF Sealing, Progress
<1>11. CASE Detach
  <2> DEFINE w == [Mine EXCEPT !.on = None]
  <2>1. /\ pc = "detach" /\ pc' = "drop" /\ job' = job /\ SetWt(w)
        /\ UNCHANGED <<refs, collided, report>>
    BY <1>11 DEF Detach
  <2>2. w.files = Mine.files /\ w.log = Mine.log /\ w.on = None
    BY <1>0, <2>1 DEF Tree
  <2> HIDE DEF w
  <2>3. Mine' = w /\ \A d \in DOMAIN wt : d # job.dest => wt'[d] = wt[d]
    BY <1>0, <1>2, <2>1
  <2>4. SealedWhenReported'
    BY <1>0, <1>1, <2>1, <2>3
  <2> QED
    BY <2>1, <2>2, <2>3, <2>4 DEF Sealing, Progress
<1>12. CASE DropBranch
  <2>1. /\ pc = "drop" /\ pc' = "report" /\ job' = job
        /\ UNCHANGED <<wt, collided, report>>
        /\ refs' = Restrict(refs, DOMAIN refs \ {Mark})
    BY <1>12 DEF DropBranch, Dropped
  <2>2. DOMAIN refs' = DOMAIN refs \ {Mark}
    BY <2>1, EntryGone
  <2>3. SealedWhenReported'
    BY <1>0, <1>1, <2>1, <2>2
  <2>4. Handed(job.dest)'
    BY <2>1, <2>2 DEF Sealing, Progress, Handed, Mine, Mark
  <2> QED
    BY <2>1, <2>3, <2>4 DEF Sealing, Progress, Handed
<1>13. CASE Report
  <2>1. /\ pc = "report" /\ pc' = "idle" /\ UNCHANGED <<wt, refs, collided>>
    BY <1>13 DEF Report
  <2>2. PICK r : report' = Put(report, job.dest, r) /\ r.sealed = job.seal
    <3>1. PICK editable, counts :
            report' = Put(report, job.dest,
                          [editable |-> editable, sealed |-> job.seal, pin |-> job.pin,
                           non_axiom_admits_after |-> counts])
      BY <1>13 DEF Report
    <3> DEFINE r == [editable |-> editable, sealed |-> job.seal, pin |-> job.pin,
                     non_axiom_admits_after |-> counts]
    <3>2. r.sealed = job.seal
      OBVIOUS
    <3> HIDE DEF r
    <3> QED
      BY <3>1, <3>2 DEF r
  <2>3. ASSUME NEW d \in DOMAIN report', report'[d].sealed PROVE Handed(d)
    <3>1. CASE d = job.dest
      BY <2>1, <2>2, <2>3, <3>1 DEF Put, Sealing, Progress
    <3>2. CASE d # job.dest
      BY <1>0, <2>2, <2>3, <3>2 DEF Put
    <3> QED
      BY <3>1, <3>2
  <2> QED
    BY <1>0, <2>1, <2>3 DEF Sealing, Progress, SealedWhenReported, Handed
<1>14. CASE remove_admit_worktree
  <2>1. pc = "idle" /\ pc' = pc /\ UNCHANGED <<refs, collided>>
    BY <1>14 DEF remove_admit_worktree
  <2>2. PICK d \in DOMAIN wt :
          wt' = Restrict(wt, DOMAIN wt \ {d}) /\ report' = Forgotten(d)
    BY <1>14 DEF remove_admit_worktree
  <2>3. /\ DOMAIN report' = DOMAIN report \ {d}
        /\ \A e \in DOMAIN report' : report'[e] = report[e]
        /\ \A e \in DOMAIN wt : e # d => wt'[e] = wt[e]
    BY <2>2, ReportGone, TreeGone
  <2>4. \A e \in DOMAIN report' : report'[e].sealed => Handed(e)'
    BY <1>0, <2>1, <2>3 DEF Handed
  <2> QED
    BY <1>0, <2>1, <2>4 DEF Sealing, Progress, SealedWhenReported, Handed
<1>15. CASE UNCHANGED vars
  BY <1>15 DEF vars, Sealing, Progress, SealedWhenReported, Handed, Mine, Mark
<1> QED
  BY <1>3, <1>4, <1>5, <1>6, <1>7, <1>8, <1>9, <1>10, <1>11, <1>12, <1>13, <1>14, <1>15 DEF Next

(* No build stops at a branch another left behind, and a worktree handed   *)
(* over as sealed has one commit, of its files, on no branch.              *)
THEOREM WorktreesAreSealed == Spec => []SealedWhenReported
<1>1. Init => Sealing
  <2> SUFFICES ASSUME Init PROVE Sealing
    OBVIOUS
  <2>1. report = <<>>
    BY DEF Init
  <2>2. DOMAIN report = {}
    BY <2>1
  <2> QED
    BY <2>2 DEF Init, Sealing, Progress, SealedWhenReported
<1>2. Shape /\ Shape' /\ Sealing /\ [Next]_vars => Sealing'
  BY SealingStep
<1>3. Sealing => SealedWhenReported
  BY DEF Sealing
<1> QED
  BY <1>1, <1>2, <1>3, AlwaysShape, PTL DEF Spec

-----------------------------------------------------------------------------
(* What the worktrees hold.  A file is as at the ref or cut as the         *)
(* manifest says, once; in the worktree under way the files still to do    *)
(* are as at the ref; one that was reported is cut throughout, and its     *)
(* report counts what is there.                                            *)
AsCut(d) == \A p \in Paths : wt[d].files[p] = Built(job, p)
Counted(d) ==
  report[d].non_axiom_admits_after =
    [p \in DOMAIN job.manifest |-> count_non_axiom(wt[d].files[p])]
TreesAreCuts ==
  /\ \A d \in DOMAIN wt : \A p \in Paths : wt[d].files[p] \in {repo[p], Built(job, p)}
  /\ \A d \in DOMAIN report : AsCut(d) /\ Counted(d)
UnderWay ==
  /\ pc = "peel" =>
       /\ todo \subseteq DOMAIN job.manifest
       /\ \A p \in Paths : Mine.files[p] = IF p \in todo THEN repo[p] ELSE Built(job, p)
  /\ pc \in {"drop_stale", "orphan", "commit", "detach", "drop", "report"} => AsCut(job.dest)
Cutting == TreesAreCuts /\ UnderWay

LEMMA SameCut ==
  ASSUME repo' = repo, job'.depth = job.depth, job'.manifest = job.manifest
  PROVE  \A p : Built(job, p)' = Built(job, p)
BY DEF Built

(* A file is cut when its turn comes. *)
LEMMA FileCut ==
  ASSUME Shape, Cutting, PeelFile
  PROVE  \/ wt' = wt /\ pc' = "idle"
         \/ /\ pc' = "peel" /\ todo' \subseteq DOMAIN job.manifest
            /\ \E w : /\ SetWt(w)
                      /\ \A p \in Paths : w.files[p] = IF p \in todo' THEN repo[p]
                                                       ELSE Built(job, p)
<1> DEFINE q == CHOOSE x \in todo : TRUE
           isLemma == q \in LemmaPaths
           cut == peel_file_text(Mine.files[q], job.depth, job.manifest[q], isLemma)
           w == [Mine EXCEPT !.files[q] = cut]
<1>1. pc = "peel" /\ todo # {} /\ q \in todo /\ job.dest \in Dests
  BY DEF PeelFile, Shape, JobShape, Request
<1>2. CASE q \notin Paths
  BY <1>2 DEF PeelFile
<1>3. CASE q \in Paths
  <2>1. SetWt(w) /\ todo' = todo \ {q} /\ pc' = pc
    BY <1>3 DEF PeelFile
  <2>2. Tree(Mine, job.dest)
    BY <1>1 DEF Shape, TreeShape, Mine
  <2>3. \A p \in Paths : Mine.files[p] = IF p \in todo THEN repo[p] ELSE Built(job, p)
    BY <1>1 DEF Cutting, UnderWay
  <2>4. cut = Built(job, q)
    <3>1. Mine.files[q] = repo[q]
      BY <1>1, <1>3, <2>3
    <3>2. q \in DOMAIN job.manifest
      BY <1>1 DEF Cutting, UnderWay
    <3>3. Built(job, q) = peel_file_text(repo[q], job.depth, job.manifest[q], isLemma)
      BY <3>2 DEF Built
    <3> QED
      BY <3>1, <3>3
  <2> HIDE DEF cut, q
  <2>5. \A p \in Paths : w.files[p] = IF p = q THEN cut ELSE Mine.files[p]
    <3>1. Mine = [files |-> Mine.files, log |-> Mine.log, on |-> Mine.on]
          /\ Mine.files = [p \in Paths |-> Mine.files[p]]
      BY <2>2 DEF Tree
    <3> DEFINE cutFiles == [Mine.files EXCEPT ![q] = cut]
    <3>2. \A p \in Paths : cutFiles[p] = IF p = q THEN cut ELSE Mine.files[p]
      BY <3>1
    <3>3. w = [Mine EXCEPT !.files = cutFiles]
      OBVIOUS
    <3> HIDE DEF cutFiles, w
    <3>4. w.files = cutFiles
      BY <3>1, <3>3
    <3> QED
      BY <3>2, <3>4
  <2>6. \A p \in Paths : w.files[p] = IF p \in todo' THEN repo[p] ELSE Built(job, p)
    BY <1>1, <2>1, <2>3, <2>4, <2>5
  <2> QED
    BY <1>1, <2>1, <2>6 DEF Cutting, UnderWay
<1> QED
  BY <1>2, <1>3

LEMMA CuttingStep == Shape /\ Shape' /\ Cutting /\ [Next]_vars => Cutting'
<1> SUFFICES ASSUME Shape, Shape', Cutting, [Next]_vars PROVE Cutting'
  OBVIOUS
<1> DEFINE Whole(d) == wt'[d].files = wt[d].files
<1>0. /\ DOMAIN report \subseteq DOMAIN wt /\ repo \in Sources
      /\ pc # "idle" => builds # 0 /\ job.dest \in Dests
      /\ pc \notin {"idle", "create"} =>
           /\ job.dest \in DOMAIN wt /\ job.dest \notin DOMAIN report
           /\ Tree(Mine, job.dest) /\ Mine = wt[job.dest]
  BY DEF Shape, JobShape, TreeShape, Request, Mine
<1>1. repo' = repo
  BY DEF Next, Begin, create_admit_worktree, PeelFile, Peeled, DropStale, Orphan, Commit, Detach,
     DropBranch, Report, Killed, remove_admit_worktree, vars
(* Trees and reports that are only copied stay what they were.             *)
<1>2. ASSUME job'.depth = job.depth, job'.manifest = job.manifest,
             DOMAIN wt' \subseteq DOMAIN wt, \A d \in DOMAIN wt' : Whole(d),
             DOMAIN report' \subseteq DOMAIN report,
             \A d \in DOMAIN report' : report'[d] = report[d]
      PROVE  TreesAreCuts'
  <2>1. \A p : Built(job, p)' = Built(job, p)
    BY <1>1, <1>2, SameCut
  <2>2. \A d \in DOMAIN wt' : \A p \in Paths : wt'[d].files[p] \in {repo[p], Built(job, p)}
    BY <1>2 DEF Cutting, TreesAreCuts
  <2>3. ASSUME NEW d \in DOMAIN report' PROVE AsCut(d)' /\ Counted(d)'
    <3>1. AsCut(d) /\ Counted(d) /\ Whole(d) /\ report'[d] = report[d]
      BY <1>2, <2>3, Shape' DEF Cutting, TreesAreCuts, Shape, TreeShape
    <3> QED
      BY <1>2, <2>1, <3>1 DEF AsCut, Counted
  <2> QED
    BY <1>1, <2>1, <2>2, <2>3 DEF TreesAreCuts
<1>3. CASE Begin
  <2>1. pc' = "create" /\ UNCHANGED <<wt, report>>
    BY <1>3 DEF Begin
  <2>2. TreesAreCuts'
    <3>1. CASE DOMAIN wt = {}
      BY <1>0, <2>1, <3>1 DEF TreesAreCuts
    <3>2. CASE job'.depth = job.depth /\ job'.manifest = job.manifest
      BY <1>2, <2>1, <3>2
    <3> QED
      BY <1>3, <3>1, <3>2, BuildBegins
  <2> QED
    BY <2>1, <2>2 DEF Cutting, UnderWay
<1>4. CASE create_admit_worktree
  <2> DEFINE new == [files |-> repo, log |-> <<repo>>, on |-> None]
  <2>1. /\ pc = "create" /\ pc' = "peel" /\ job' = job /\ SetWt(new)
        /\ todo' = DOMAIN job.manifest /\ report' = Forgotten(job.dest)
    BY <1>4 DEF create_admit_worktree
  <2>2. new.files = repo
    OBVIOUS
  <2> HIDE DEF new
  <2>3. /\ Mine' = new /\ wt'[job.dest] = new /\ DOMAIN wt' = DOMAIN wt \cup {job.dest}
        /\ \A d \in DOMAIN wt : d # job.dest => wt'[d] = wt[d]
    BY <1>0, <2>1, TreeSet
  <2>4. /\ DOMAIN report' = DOMAIN report \ {job.dest}
        /\ \A d \in DOMAIN report' : report'[d] = report[d]
    BY <2>1, ReportGone
  <2>5. \A p : Built(job, p)' = Built(job, p)
    BY <1>1, <2>1, SameCut
  <2>6. \A p : p \notin DOMAIN job.manifest => Built(job, p) = repo[p]
    BY DEF Built
  <2>7. \A d \in DOMAIN wt' : \A p \in Paths : wt'[d].files[p] \in {repo[p], Built(job, p)}
    BY <2>2, <2>3 DEF Cutting, TreesAreCuts
  <2>8. ASSUME NEW d \in DOMAIN report' PROVE AsCut(d)' /\ Counted(d)'
    <3>1. AsCut(d) /\ Counted(d) /\ wt'[d] = wt[d] /\ report'[d] = report[d]
      BY <1>0, <2>3, <2>4, <2>8 DEF Cutting, TreesAreCuts
    <3> QED
      BY <2>1, <2>5, <3>1 DEF AsCut, Counted
  <2>9. UnderWay'
    BY <1>1, <2>1, <2>2, <2>3, <2>5, <2>6 DEF UnderWay
  <2> QED
    BY <1>1, <2>5, <2>7, <2>8, <2>9 DEF Cutting, TreesAreCuts
<1>5. CASE PeelFile
  <2>1. /\ pc = "peel" /\ job' = job /\ report' = report
    BY <1>5 DEF PeelFile
  <2>2. CASE wt' = wt /\ pc' = "idle"
    BY <1>2, <2>1, <2>2 DEF Cutting, UnderWay
  <2>3. CASE pc' = "peel"
    <3>1. PICK w : /\ SetWt(w) /\ todo' \subseteq DOMAIN job.manifest
                   /\ \A p \in Paths : w.files[p] = IF p \in todo' THEN repo[p]
                                                    ELSE Built(job, p)
      BY <1>5, <2>3, FileCut
    <3>2. /\ Mine' = w /\ wt'[job.dest] = w /\ DOMAIN wt' = DOMAIN wt \cup {job.dest}
          /\ \A d \in DOMAIN wt : d # job.dest => wt'[d] = wt[d]
      BY <1>0, <2>1, <3>1, TreeSet
    <3>3. \A p : Built(job, p)' = Built(job, p)
      BY <1>1, <2>1, SameCut
    <3>4. \A d \in DOMAIN wt' : \A p \in Paths : wt'[d].files[p] \in {repo[p], Built(job, p)}
      BY <3>1, <3>2 DEF Cutting, TreesAreCuts
    <3>5. ASSUME NEW d \in DOMAIN report' PROVE AsCut(d)' /\ Counted(d)'
      <4>1. AsCut(d) /\ Counted(d) /\ wt'[d] = wt[d] /\ report'[d] = report[d]
        BY <1>0, <2>1, <3>2, <3>5 DEF Cutting, TreesAreCuts
      <4> QED
        BY <2>1, <3>3, <4>1 DEF AsCut, Counted
    <3>6. UnderWay'
      BY <1>1, <2>1, <2>3, <3>1, <3>2, <3>3 DEF UnderWay
    <3> QED
      BY <1>1, <3>3, <3>4, <3>5, <3>6 DEF Cutting, TreesAreCuts
  <2> QED
    BY <1>5, <2>2, <2>3, FileCut
<1>6. CASE Peeled
  <2>1. /\ pc = "peel" /\ pc' \in {"drop_stale", "report"} /\ job' = job /\ todo = {}
        /\ UNCHANGED <<wt, report>>
    BY <1>6 DEF Peeled
  <2>2. AsCut(job.dest)
    BY <1>0, <2>1 DEF Cutting, UnderWay, AsCut
  <2>3. \A p : Built(job, p)' = Built(job, p)
    BY <1>1, <2>1, SameCut
  <2>4. UnderWay'
    BY <2>1, <2>2, <2>3 DEF UnderWay, AsCut
  <2> QED
    BY <1>2, <2>1, <2>4 DEF Cutting
(* The sealing leaves the files alone.                                     *)
<1>7. CASE DropStale \/ Orphan \/ Commit \/ Detach \/ DropBranch
  <2>1. /\ pc \in {"drop_stale", "orphan", "commit", "detach", "drop"} /\ job' = job
        /\ pc' \in {"orphan", "commit", "detach", "drop", "report", "idle"}
        /\ report' = report
    BY <1>7 DEF DropStale, Orphan, Commit, Detach, DropBranch
  <2>2. Tree(Mine, job.dest)
    BY <1>0, <2>1
  <2>3. wt' = wt \/ \E w : SetWt(w) /\ w.files = Mine.files
    <3>1. CASE Commit
      <4> DEFINE log == <<Mine.files>> \o Mine.log
      <4>1. SetWt([Mine EXCEPT !.log = log])
        BY <3>1 DEF Commit
      <4> HIDE DEF log
      <4>2. [Mine EXCEPT !.log = log].files = Mine.files
        BY <2>2 DEF Tree
      <4> QED
        BY <4>1, <4>2
    <3>2. CASE Detach
      <4>1. [Mine EXCEPT !.on = None].files = Mine.files
        BY <2>2 DEF Tree
      <4> QED
        BY <3>2, <4>1 DEF Detach
    <3> QED
      BY <1>7, <3>1, <3>2 DEF DropStale, Orphan, DropBranch
  <2>4. DOMAIN wt' = DOMAIN wt /\ \A d \in DOMAIN wt : Whole(d)
    <3>1. ASSUME NEW w, SetWt(w), w.files = Mine.files
          PROVE  DOMAIN wt' = DOMAIN wt /\ \A d \in DOMAIN wt : Whole(d)
      BY <1>0, <2>1, <3>1, TreeSet
    <3> QED
      BY <2>3, <3>1
  <2>5. TreesAreCuts'
    BY <1>2, <2>1, <2>4
  <2>6. AsCut(job.dest)' /\ pc' # "peel"
    <3>1. \A p : Built(job, p)' = Built(job, p)
      BY <1>1, <2>1, SameCut
    <3>2. AsCut(job.dest) /\ Whole(job.dest)
      BY <1>0, <2>1, <2>4 DEF Cutting, UnderWay
    <3> QED
      BY <2>1, <3>1, <3>2 DEF AsCut
  <2> QED
    BY <2>5, <2>6 DEF Cutting, UnderWay
<1>8. CASE Report
  <2>1. /\ pc = "report" /\ pc' = "idle" /\ job' = job /\ wt' = wt
    BY <1>8 DEF Report
  <2> DEFINE counts == [p \in DOMAIN job.manifest |-> count_non_axiom(Mine.files[p])]
  <2>2. PICK r : report' = Put(report, job.dest, r) /\ r.non_axiom_admits_after = counts
    <3>1. PICK editable :
            report' = Put(report, job.dest,
                          [editable |-> editable, sealed |-> job.seal, pin |-> job.pin,
                           non_axiom_admits_after |-> counts])
      BY <1>8 DEF Report
    <3> HIDE DEF counts
    <3> DEFINE r == [editable |-> editable, sealed |-> job.seal, pin |-> job.pin,
                     non_axiom_admits_after |-> counts]
    <3>2. r.non_axiom_admits_after = counts
      OBVIOUS
    <3> HIDE DEF r
    <3> QED
      BY <3>1, <3>2 DEF r
  <2>3. \A p : Built(job, p)' = Built(job, p)
    BY <1>1, <2>1, SameCut
  <2>4. AsCut(job.dest)
    BY <2>1 DEF Cutting, UnderWay
  <2>5. counts = [p \in DOMAIN job.manifest |-> count_non_axiom(wt[job.dest].files[p])]
    BY <1>0, <2>1
  <2> HIDE DEF counts
  <2>6. ASSUME NEW d \in DOMAIN report' PROVE AsCut(d)' /\ Counted(d)'
    <3>1. AsCut(d) /\ report'[d].non_axiom_admits_after =
                        [p \in DOMAIN job.manifest |-> count_non_axiom(wt[d].files[p])]
      <4>1. CASE d = job.dest
        BY <2>2, <2>4, <2>5, <4>1 DEF Put
      <4>2. CASE d # job.dest
        BY <2>2, <2>6, <4>2 DEF Put, Cutting, TreesAreCuts, Counted
      <4> QED
        BY <4>1, <4>2
    <3> QED
      BY <2>1, <2>3, <3>1 DEF AsCut, Counted
  <2> QED
    BY <1>1, <2>1, <2>3, <2>6 DEF Cutting, TreesAreCuts, UnderWay
<1>9. CASE Killed
  <2>1. pc' = "idle" /\ UNCHANGED <<job, wt, report>>
    BY <1>9 DEF Killed
  <2> QED
    BY <1>2, <2>1 DEF Cutting, UnderWay
<1>10. CASE remove_admit_worktree
  <2>1. pc = "idle" /\ pc' = pc /\ job' = job
    BY <1>10 DEF remove_admit_worktree
  <2>2. PICK d \in DOMAIN wt :
          wt' = Restrict(wt, DOMAIN wt \ {d}) /\ report' = Forgotten(d)
    BY <1>10 DEF remove_admit_worktree
  <2>3. /\ DOMAIN report' = DOMAIN report \ {d} /\ DOMAIN wt' = DOMAIN wt \ {d}
        /\ \A e \in DOMAIN report' : report'[e] = report[e]
        /\ \A e \in DOMAIN wt' : wt'[e] = wt[e]
    BY <2>2, ReportGone, TreeGone
  <2> QED
    BY <1>2, <2>1, <2>3 DEF Cutting, UnderWay
<1>11. CASE UNCHANGED vars
  <2>1. UNCHANGED <<job, wt, report, pc, todo, repo>>
    BY <1>11 DEF vars
  <2>2. \A p : Built(job, p)' = Built(job, p)
    BY <2>1, SameCut
  <2> QED
    BY <1>2, <2>1, <2>2 DEF Cutting, UnderWay, AsCut, Mine
<1> QED
  BY <1>3, <1>4, <1>5, <1>6, <1>7, <1>8, <1>9, <1>10, <1>11 DEF Next

LEMMA AlwaysCutting == Spec => []Cutting
<1>1. Init => Cutting
  <2> SUFFICES ASSUME Init PROVE Cutting
    OBVIOUS
  <2>1. wt = <<>> /\ report = <<>> /\ pc = "idle"
    BY DEF Init
  <2>2. DOMAIN wt = {} /\ DOMAIN report = {}
    BY <2>1
  <2> QED
    BY <2>1, <2>2 DEF Cutting, TreesAreCuts, UnderWay
<1> QED
  BY <1>1, CuttingStep, AlwaysShape, PTL DEF Spec

(* Whatever is begun, killed, removed or repeated, a file in a worktree is *)
(* the one at the ref or one whole cut of it, the one of the job, and in a *)
(* worktree that was reported every file is that and was counted as it is. *)
THEOREM WorktreesHoldCuts == Spec => []TreesAreCuts
<1>1. Cutting => TreesAreCuts
  BY DEF Cutting
<1> QED
  BY <1>1, AlwaysCutting, PTL

-----------------------------------------------------------------------------
(* How much one cut takes of one file is a matter of texts, which a run    *)
(* decides for the texts it is given.  What builds do to worktrees adds    *)
(* nothing.                                                                *)
CutOf(project, j, p) ==
  IF p \in DOMAIN j.manifest
    THEN peel_file_text(project[p], j.depth, j.manifest[p], p \in LemmaPaths) ELSE project[p]
Shallower(j) == {[j EXCEPT !.depth = n] : n \in 0 .. j.depth - 1}
HigherThan(floor) ==
  CASE floor = "field"         -> {}
    [] floor = "number-theory" -> {"field"}
    [] floor = "trusted-core"  -> {"field", "number-theory"}
Higher(project, j) == {[j EXCEPT !.manifest = classify_cone(project, f)] : f \in HigherThan(j.floor)}
CutsNest ==
  \A project \in Sources : \A j \in Requests(project), p \in Paths :
    _require_pin(j.depth, j.pin, j.manifest) =>
      \A k \in IF j.floor = None THEN Shallower(j) ELSE Higher(project, j) :
        LeavesLess(CutOf(project, j, p), CutOf(project, k, p))

(* The lines of a text with an admit of the agent's. *)
LEMMA FiniteLines ==
  ASSUME NEW S, NEW t \in Seq(S)
  PROVE  IsFiniteSet(classify_admit_lines(t).non_axiom)
<1> DEFINE lines == classify_admit_lines(t).non_axiom
<1>1. DOMAIN t = 1 .. Len(t) /\ Len(t) \in Nat
  OBVIOUS
<1>2. IsFiniteSet(DOMAIN t)
  BY <1>1, FS_Interval
<1>3. DOMAIN strip_comments_strings(t) = DOMAIN t
  BY DEF strip_comments_strings
<1>4. lines \in SUBSET DOMAIN t
  BY <1>3 DEF classify_admit_lines
<1> QED
  BY <1>2, <1>4, FS_Subset

(* An inventory of finitely many texts finds nothing left exactly if the   *)
(* count of every one of them is zero: admits of one file never make up    *)
(* for those of another, and none are lost where paths or lines coincide.  *)
THEOREM InventoryAddsUp ==
  ASSUME NEW S, NEW texts \in [Paths -> Seq(S)]
  PROVE  inventory_files(texts).okay_for_complete
           <=> \A p \in Paths : count_non_axiom(texts[p]) = 0
<1> DEFINE left(p) == classify_admit_lines(texts[p]).non_axiom
           Row(p) == {p} \X left(p)
           rows == {Row(p) : p \in Paths}
           f == [p \in Paths |-> Row(p)]
<1>1. \A p \in Paths : IsFiniteSet(left(p))
  BY FiniteLines
<1>2. \A p \in Paths : IsFiniteSet(Row(p))
  BY <1>1, FS_Product, FS_Singleton
<1>3. IsFiniteSet(Paths)
  BY PeelAssumption
<1>4. f \in Surjection(Paths, rows)
  BY DEF Surjection
<1>5. IsFiniteSet(rows)
  <2> HIDE DEF f, rows
  <2> QED
    BY <1>3, <1>4, FS_Surjection
<1>6. IsFiniteSet(UNION rows)
  <2>1. \A T \in rows : IsFiniteSet(T)
    BY <1>2
  <2> HIDE DEF rows
  <2> QED
    BY <2>1, <1>5, FS_UNION
<1>7. Cardinality(UNION rows) = 0 <=> UNION rows = {}
  BY <1>6, FS_EmptySet
<1>8. \A p \in Paths : count_non_axiom(texts[p]) = 0 <=> left(p) = {}
  BY <1>1, FS_EmptySet DEF count_non_axiom
<1>9. UNION rows = {} <=> \A p \in Paths : left(p) = {}
  <2> HIDE DEF left
  <2>1. ASSUME NEW p \in Paths, NEW x \in left(p) PROVE UNION rows # {}
    <3>1. <<p, x>> \in Row(p) /\ Row(p) \in rows
      BY <2>1
    <3> QED
      BY <3>1
  <2>2. ASSUME NEW z \in UNION rows PROVE \E p \in Paths : left(p) # {}
    <3>1. PICK p \in Paths : z \in Row(p)
      BY <2>2
    <3> QED
      BY <3>1
  <2> QED
    BY <2>1, <2>2
<1>10. inventory_files(texts).okay_for_complete <=> Cardinality(UNION rows) = 0
  BY DEF inventory_files
<1> QED
  BY <1>7, <1>8, <1>9, <1>10

LEMMA BuiltIsCut == \A p : Built(job, p) = CutOf(repo, job, p)
BY DEF Built, CutOf

(* A deeper peel, or a lower floor, leaves no more of any file of a        *)
(* worktree that is about to be reported, if no cut of a single file does. *)
THEOREM HarderIsLess ==
  ASSUME CutsNest
  PROVE  Spec => []HarderLeavesLess
<1>1. Shape /\ Cutting => HarderLeavesLess
  <2> SUFFICES ASSUME Shape, Cutting, pc = "report", NEW j \in Easier, NEW p \in Paths
               PROVE  LeavesLess(Mine.files[p], Built(j, p))
    BY DEF HarderLeavesLess
  <2>1. repo \in Sources /\ job \in Requests(repo)
        /\ _require_pin(job.depth, job.pin, job.manifest)
    BY DEF Shape, JobShape, Request
  <2>2. Mine.files[p] = CutOf(repo, job, p)
    BY BuiltIsCut DEF Cutting, UnderWay, AsCut, Mine
  <2>3. Built(j, p) = CutOf(repo, j, p)
    BY DEF Built, CutOf
  <2>4. j \in IF job.floor = None THEN Shallower(job) ELSE Higher(repo, job)
    BY DEF Easier, Shallower, Higher, HigherFloors, HigherThan
  <2> QED
    BY <2>1, <2>2, <2>3, <2>4 DEF CutsNest
<1> QED
  BY <1>1, AlwaysCutting, AlwaysShape, PTL

------------------------------------------------------------------------------
(* The manifests of the three floors.                                      *)

(* One manifest asks of every file no less than another one. *)
AsksNoLess(m, n) ==
  \A p \in DOMAIN n :
    /\ p \in DOMAIN m /\ n[p].lemmas \subseteq m[p].lemmas
    /\ n[p].op = "strip-all" => m[p].op = "strip-all"

(* It leaves every specification and contract, and deletes lemmas only. *)
ProofsOnly(m) ==
  \A p \in DOMAIN m : /\ m[p].specs = {} /\ m[p].contracts = {}
                      /\ m[p].lemmas \subseteq ProofFns \ Axioms

LEMMA EntryFields ==
  ASSUME NEW op, NEW lemmas
  PROVE  LET e == Entry(op, lemmas)
         IN  /\ e.op = op /\ e.lemmas = lemmas /\ e.specs = {} /\ e.contracts = {}
             /\ e = [op |-> op, lemmas |-> lemmas, specs |-> {}, contracts |-> {}, bare |-> {}]
BY DEF Entry

LEMMA DeletedEntries ==
  ASSUME NEW project, NEW kinds
  PROVE  LET m == _delete_dir_entries(project, kinds)
         IN  /\ DOMAIN m = {p \in Paths \ Glue : /\ Kind[p] \in kinds
                                                 /\ _nonaxiom_proof_fns(project[p]) # {}}
             /\ \A p \in DOMAIN m : m[p] = Entry("none", _nonaxiom_proof_fns(project[p]))
BY DEF _delete_dir_entries

LEMMA StrippedEntries ==
  ASSUME NEW kinds
  PROVE  LET m == StripEntries(kinds)
         IN  /\ DOMAIN m = {p \in Paths : Kind[p] \in kinds}
             /\ \A p \in DOMAIN m : m[p] = Entry("strip-all", {})
BY DEF StripEntries

LEMMA WholeEntries ==
  ASSUME NEW project
  PROVE  LET m == _whole_project_proof_entries(project)
         IN  /\ DOMAIN m \subseteq Paths
             /\ \A p \in DOMAIN m : /\ m[p].lemmas = _nonaxiom_proof_fns(project[p])
                                    /\ m[p].specs = {} /\ m[p].contracts = {}
                                    /\ \E op, lemmas : m[p] = Entry(op, lemmas)
             /\ \A p \in Paths : _nonaxiom_proof_fns(project[p]) # {} => p \in DOMAIN m
<1> DEFINE lemmas(p) == _nonaxiom_proof_fns(project[p])
           op(p) == IF _strip_touched_after_deletes(project[p], lemmas(p))
                      THEN "strip-all" ELSE "none"
           entries == [p \in Paths |-> Entry(op(p), lemmas(p))]
           listed == {p \in Paths : entries[p] # Entry("none", {})}
           m == _whole_project_proof_entries(project)
<1>1. m = Restrict(entries, listed)
  BY DEF _whole_project_proof_entries
<1>2. DOMAIN m = listed /\ \A p \in listed : m[p] = entries[p]
  BY <1>1 DEF Restrict
<1>3. \A p \in Paths : entries[p] = Entry(op(p), lemmas(p))
  OBVIOUS
<1> HIDE DEF op, lemmas, entries, m
<1>4. \A p \in DOMAIN m : m[p] = Entry(op(p), lemmas(p)) /\ p \in Paths
  BY <1>2, <1>3
<1>5. \A p \in Paths : lemmas(p) # {} => p \in DOMAIN m
  <2> SUFFICES ASSUME NEW p \in Paths, lemmas(p) # {} PROVE p \in DOMAIN m
    OBVIOUS
  <2>1. entries[p].lemmas = lemmas(p) /\ Entry("none", {}).lemmas = {}
    BY <1>3, EntryFields
  <2> QED BY <1>2, <2>1
<1> QED BY <1>4, <1>5, EntryFields DEF lemmas, m

LEMMA MergedEntries ==
  ASSUME NEW a, NEW b, NEW p \in DOMAIN a \cup DOMAIN b,
         p \in DOMAIN a => \E op, lemmas : a[p] = Entry(op, lemmas),
         p \in DOMAIN b => b[p] = Entry("strip-all", {})
  PROVE  LET m == _merge_manifest_entries(a, b)
         IN  /\ p \in DOMAIN m
             /\ m[p].specs = {} /\ m[p].contracts = {}
             /\ m[p].lemmas = IF p \in DOMAIN a THEN a[p].lemmas ELSE {}
             /\ p \in DOMAIN b => m[p].op = "strip-all"
<1> DEFINE m == _merge_manifest_entries(a, b)
<1>1. p \in DOMAIN m
  BY DEF _merge_manifest_entries
<1>2. CASE p \notin DOMAIN b
  <2>1. m[p] = a[p]
    BY <1>2 DEF _merge_manifest_entries
  <2> QED BY <1>1, <1>2, <2>1, EntryFields
<1>3. CASE p \notin DOMAIN a
  <2>1. m[p] = b[p]
    BY <1>3 DEF _merge_manifest_entries
  <2> QED BY <1>1, <1>3, <2>1, EntryFields
<1>4. CASE p \in DOMAIN a /\ p \in DOMAIN b
  <2>1. m[p] = Entry(IF b[p].op = "strip-all" THEN "strip-all" ELSE a[p].op,
                     a[p].lemmas \cup b[p].lemmas)
    BY <1>4 DEF _merge_manifest_entries
  <2>2. b[p].op = "strip-all" /\ b[p].lemmas = {}
    BY <1>4, EntryFields
  <2>3. m[p] = Entry("strip-all", a[p].lemmas)
    BY <2>1, <2>2
  <2> QED BY <1>1, <1>4, <2>3, EntryFields
<1> QED BY <1>2, <1>3, <1>4

LEMMA FieldManifest ==
  ASSUME NEW project
  PROVE  LET m == classify_cone(project, "field")
             deleted == _delete_dir_entries(project, {"above"})
             stripped == StripEntries({"api"})
         IN  /\ DOMAIN m = DOMAIN deleted \cup DOMAIN stripped
             /\ \A p \in DOMAIN m : m[p] = IF p \in DOMAIN deleted THEN deleted[p] ELSE stripped[p]
BY DEF classify_cone, Extended

LEMMA NumberTheoryManifest ==
  ASSUME NEW project
  PROVE  LET m == classify_cone(project, "number-theory")
             deleted == _delete_dir_entries(project, {"above", "field"})
             stripped == StripEntries({"api", "backend"})
         IN  /\ DOMAIN m = DOMAIN deleted \cup DOMAIN stripped
             /\ \A p \in DOMAIN m : m[p] = IF p \in DOMAIN deleted THEN deleted[p] ELSE stripped[p]
BY DEF classify_cone, Extended

LEMMA TrustedCoreManifest ==
  ASSUME NEW project
  PROVE  LET m == classify_cone(project, "trusted-core")
             whole == _whole_project_proof_entries(project)
             stripped == StripEntries({"api", "backend"})
         IN  /\ DOMAIN m = DOMAIN whole \cup DOMAIN stripped
             /\ \A p \in DOMAIN m :
                  /\ m[p].specs = {} /\ m[p].contracts = {}
                  /\ m[p].lemmas = IF p \in DOMAIN whole THEN whole[p].lemmas ELSE {}
                  /\ p \in DOMAIN stripped => m[p].op = "strip-all"
<1> DEFINE whole == _whole_project_proof_entries(project)
           stripped == StripEntries({"api", "backend"})
           m == classify_cone(project, "trusted-core")
<1>1. m = _merge_manifest_entries(whole, stripped)
  BY DEF classify_cone
<1>2. DOMAIN m = DOMAIN whole \cup DOMAIN stripped
  BY <1>1 DEF _merge_manifest_entries
<1>3. \A p \in DOMAIN whole : \E op, lemmas : whole[p] = Entry(op, lemmas)
  BY WholeEntries
<1>4. \A p \in DOMAIN stripped : stripped[p] = Entry("strip-all", {})
  BY StrippedEntries
<1> HIDE DEF whole, stripped, m
<1>5. ASSUME NEW p \in DOMAIN m
      PROVE  /\ m[p].specs = {} /\ m[p].contracts = {}
             /\ m[p].lemmas = IF p \in DOMAIN whole THEN whole[p].lemmas ELSE {}
             /\ p \in DOMAIN stripped => m[p].op = "strip-all"
  BY <1>1, <1>2, <1>3, <1>4, <1>5, MergedEntries
<1> QED BY <1>2, <1>5 DEF whole, stripped, m

(***************************************************************************)
(* "Harder floors must be structural supersets of easier floors"           *)
(* (peel.py 509-512): whatever the files hold, the manifest derived for a  *)
(* lower floor asks of every file what each higher one asks, and none asks *)
(* for a specification, a contract or an axiom.                            *)
(***************************************************************************)
THEOREM FloorsNest ==
  ASSUME NEW project
  PROVE  /\ AsksNoLess(classify_cone(project, "number-theory"), classify_cone(project, "field"))
         /\ AsksNoLess(classify_cone(project, "trusted-core"),
                       classify_cone(project, "number-theory"))
         /\ \A floor \in Floors : ProofsOnly(classify_cone(project, floor))
<1> DEFINE lemmas(p) == _nonaxiom_proof_fns(project[p])
           field == classify_cone(project, "field")
           theory == classify_cone(project, "number-theory")
           core == classify_cone(project, "trusted-core")
           some(kinds) == {p \in Paths \ Glue : Kind[p] \in kinds /\ lemmas(p) # {}}
           all(kinds) == {p \in Paths : Kind[p] \in kinds}
<1>1. /\ DOMAIN field = some({"above"}) \cup all({"api"})
      /\ \A p \in DOMAIN field :
           field[p] = IF p \in some({"above"}) THEN Entry("none", lemmas(p)) ELSE Entry("strip-all", {})
  <2> DEFINE deleted == _delete_dir_entries(project, {"above"})
             stripped == StripEntries({"api"})
  <2>1. /\ DOMAIN field = DOMAIN deleted \cup DOMAIN stripped
        /\ \A p \in DOMAIN field : field[p] = IF p \in DOMAIN deleted THEN deleted[p] ELSE stripped[p]
    BY FieldManifest
  <2>2. DOMAIN deleted = some({"above"}) /\ \A p \in DOMAIN deleted : deleted[p] = Entry("none", lemmas(p))
    BY DeletedEntries
  <2>3. DOMAIN stripped = all({"api"}) /\ \A p \in DOMAIN stripped : stripped[p] = Entry("strip-all", {})
    BY StrippedEntries
  <2> HIDE DEF deleted, stripped, field, lemmas, some, all
  <2> QED BY <2>1, <2>2, <2>3
<1>2. /\ DOMAIN theory = some({"above", "field"}) \cup all({"api", "backend"})
      /\ \A p \in DOMAIN theory :
           theory[p] = IF p \in some({"above", "field"})
                         THEN Entry("none", lemmas(p)) ELSE Entry("strip-all", {})
  <2> DEFINE deleted == _delete_dir_entries(project, {"above", "field"})
             stripped == StripEntries({"api", "backend"})
  <2>1. /\ DOMAIN theory = DOMAIN deleted \cup DOMAIN stripped
        /\ \A p \in DOMAIN theory : theory[p] = IF p \in DOMAIN deleted THEN deleted[p] ELSE stripped[p]
    BY NumberTheoryManifest
  <2>2. DOMAIN deleted = some({"above", "field"}) /\ \A p \in DOMAIN deleted : deleted[p] = Entry("none", lemmas(p))
    BY DeletedEntries
  <2>3. DOMAIN stripped = all({"api", "backend"}) /\ \A p \in DOMAIN stripped : stripped[p] = Entry("strip-all", {})
    BY StrippedEntries
  <2> HIDE DEF deleted, stripped, theory, lemmas, some, all
  <2> QED BY <2>1, <2>2, <2>3
<1>3. /\ \A p \in Paths : lemmas(p) # {} => p \in DOMAIN core
      /\ all({"api", "backend"}) \subseteq DOMAIN core /\ DOMAIN core \subseteq Paths
      /\ \A p \in DOMAIN core : /\ core[p].specs = {} /\ core[p].contracts = {}
                                /\ core[p].lemmas \subseteq lemmas(p)
                                /\ lemmas(p) \subseteq core[p].lemmas
                                /\ p \in all({"api", "backend"}) => core[p].op = "strip-all"
  <2> DEFINE whole == _whole_project_proof_entries(project)
             stripped == StripEntries({"api", "backend"})
  <2>1. /\ DOMAIN whole \subseteq Paths
        /\ \A p \in DOMAIN whole : whole[p].lemmas = lemmas(p)
        /\ \A p \in Paths : lemmas(p) # {} => p \in DOMAIN whole
    BY WholeEntries
  <2>2. DOMAIN stripped = all({"api", "backend"})
    BY StrippedEntries
  <2>3. /\ DOMAIN core = DOMAIN whole \cup DOMAIN stripped
        /\ \A p \in DOMAIN core :
             /\ core[p].specs = {} /\ core[p].contracts = {}
             /\ core[p].lemmas = IF p \in DOMAIN whole THEN whole[p].lemmas ELSE {}
             /\ p \in DOMAIN stripped => core[p].op = "strip-all"
    BY TrustedCoreManifest
  <2>4. all({"api", "backend"}) \subseteq Paths
    OBVIOUS
  <2> HIDE DEF whole, stripped, core, lemmas, all
  <2> QED BY <2>1, <2>2, <2>3, <2>4
<1>4. \A p : lemmas(p) \subseteq ProofFns \ Axioms
  BY DEF _nonaxiom_proof_fns
<1>5. /\ Entry("none", {}).op = "none" /\ Entry("strip-all", {}).op = "strip-all"
      /\ \A p : /\ Entry("none", lemmas(p)).op = "none" /\ Entry("none", lemmas(p)).lemmas = lemmas(p)
                /\ Entry("none", lemmas(p)).specs = {} /\ Entry("none", lemmas(p)).contracts = {}
      /\ Entry("strip-all", {}).lemmas = {} /\ Entry("strip-all", {}).specs = {}
      /\ Entry("strip-all", {}).contracts = {}
  BY EntryFields
<1> HIDE DEF field, theory, core, lemmas
<1>6. AsksNoLess(theory, field)
  <2> SUFFICES ASSUME NEW p \in DOMAIN field
               PROVE  /\ p \in DOMAIN theory /\ field[p].lemmas \subseteq theory[p].lemmas
                      /\ field[p].op = "strip-all" => theory[p].op = "strip-all"
    BY DEF AsksNoLess
  <2>1. CASE p \in some({"above"})
    BY <1>1, <1>2, <1>5, <2>1
  <2>2. CASE p \notin some({"above"})
    <3>1. p \in all({"api"}) /\ field[p] = Entry("strip-all", {})
      BY <1>1, <2>2
    <3>2. p \in DOMAIN theory /\ p \notin some({"above", "field"})
      BY <1>2, <3>1
    <3> QED BY <1>2, <1>5, <3>1, <3>2
  <2> QED BY <2>1, <2>2
<1>7. AsksNoLess(core, theory)
  <2> SUFFICES ASSUME NEW p \in DOMAIN theory
               PROVE  /\ p \in DOMAIN core /\ theory[p].lemmas \subseteq core[p].lemmas
                      /\ theory[p].op = "strip-all" => core[p].op = "strip-all"
    BY DEF AsksNoLess
  <2>1. CASE p \in some({"above", "field"})
    BY <1>2, <1>3, <1>5, <2>1
  <2>2. CASE p \notin some({"above", "field"})
    <3>1. p \in all({"api", "backend"}) /\ theory[p] = Entry("strip-all", {})
      BY <1>2, <2>2
    <3> HIDE DEF some, all
    <3> QED BY <1>3, <1>5, <3>1
  <2> QED BY <2>1, <2>2
<1>8. ProofsOnly(field) /\ ProofsOnly(theory)
  <2>1. \A p \in DOMAIN field : field[p] \in {Entry("none", lemmas(p)), Entry("strip-all", {})}
    BY <1>1
  <2>2. \A p \in DOMAIN theory : theory[p] \in {Entry("none", lemmas(p)), Entry("strip-all", {})}
    BY <1>2
  <2> QED BY <1>4, <1>5, <2>1, <2>2 DEF ProofsOnly
<1>9. ProofsOnly(core)
  BY <1>3, <1>4 DEF ProofsOnly
<1> QED BY <1>6, <1>7, <1>8, <1>9 DEF Floors, field, theory, core
=============================================================================
