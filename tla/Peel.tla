-------------------------------- MODULE Peel --------------------------------
(***************************************************************************)
(* peel.py: the builder of initial states.  One shell of the proof per     *)
(* depth is taken off the files a manifest lists, in a worktree of its own *)
(* whose history is then sealed; admit.py makes and removes the worktree,  *)
(* strip_specs.py and lib/admits.py cut the texts.  Builds of one          *)
(* repository follow each other (the lock of peel_run.sh); one may be      *)
(* killed at any step.                                                     *)
(***************************************************************************)
EXTENDS StripSpecs

CONSTANTS
  Paths,       (* the .rs files of the project                             *)
  Kind,        (* of each: "above", "field": lemmas over and of the field  *)
               (* floor; "api", "backend", "other"                         *)
  Glue,        (* axioms.rs and mod.rs                                     *)
  LemmaPaths,  (* under lemmas/ or specs/                                  *)
  SpecFns,     (* those of OtherFns that are spec functions                *)
  Sources,     (* bound: what the files may hold at the ref                *)
  Manifests,   (* bound: the manifests written by hand                     *)
  Cuts,        (* bound: the depths, pins and seals they are used with     *)
  Dests,       (* worktrees                                                *)
  Branch,      (* of each, the name of its sealing branch                  *)
  MaxBuilds,   (* bound: builds                                            *)
  None

ASSUME PeelAssumption ==
  /\ IsFiniteSet(Paths)
  /\ Kind \in [Paths -> {"above", "field", "api", "backend", "other"}]
  /\ Glue \subseteq Paths /\ LemmaPaths \subseteq Paths /\ SpecFns \subseteq OtherFns
  /\ MaxBuilds \in Nat /\ \A c \in Cuts : c \in [depth : 0 .. 4, pin : BOOLEAN, seal : BOOLEAN]
  /\ Sources \subseteq [Paths -> Seq(STRING)]
  /\ DOMAIN Branch = Dests /\ None \notin Range(Branch)
  /\ \A d, e \in Dests : Branch[d] = Branch[e] => d = e

VARIABLES
  repo,    (* the files at the ref                                         *)
  refs,    (* the branches: the log of each                                *)
  wt,      (* of each worktree, its files, its log, the branch HEAD is on  *)
  job,     (* the build under way or last done                             *)
  pc, todo, builds,
  collided,  (* history: git refused a step of the sealing                 *)
  report   (* of the worktrees that were finished, the summary printed     *)

vars == <<repo, refs, wt, job, pc, todo, builds, collided, report>>

PROOF_OPS == {"admit", "strip", "strip-all", "none"}
Floors == {"field", "number-theory", "trusted-core"}

---------------------------------------------------------------------------
(* One file.                                                               *)

Entry(op, lemmas) == [op |-> op, lemmas |-> lemmas, specs |-> {}, contracts |-> {}, bare |-> {}]

(* Cumulative.  Mutant: only what this shell adds.                         *)
ThisShell(e, depth) == CASE depth = 2 -> e.lemmas [] depth = 3 -> e.specs [] OTHER -> {}
Doomed(e, depth) ==
  (IF depth >= 2 THEN e.lemmas ELSE {}) \cup (IF depth >= 3 THEN e.specs ELSE {})

(* Functions go first, then proofs, contracts last.                        *)
peel_file_text(t, depth, e, isLemmaPath) ==
  LET op == IF depth = 0 THEN "none" ELSE e.op
      bare(kept) ==
        CASE op = "none"  -> kept
          [] op = "admit" -> admit_text(kept, resolve_mode(isLemmaPath))
          [] OTHER -> strip_proof_from_fns(kept, IF op = "strip" THEN e.bare ELSE Names)
  IN  strip_text(bare(delete_text(t, Doomed(e, depth))),
                 IF depth = 4 THEN e.contracts ELSE {})

(* A cut that leaves the guarantee to the agent needs a pin.  Mutant: the  *)
(* contract counts, the definitions it is phrased in do not.               *)
PinnedContract(depth, pin, manifest) == pin \/ depth < 4
_require_pin(depth, pin, manifest) ==
  pin \/ (depth < 4 /\ ~(depth >= 3 /\ \E p \in DOMAIN manifest : manifest[p].specs # {}))

---------------------------------------------------------------------------
(* The manifests classify_cone derives from directories.                   *)

_nonaxiom_proof_fns(t) == ToSet(t) \cap (ProofFns \ Axioms)

_delete_dir_entries(project, kinds) ==
  [p \in {q \in Paths \ Glue : Kind[q] \in kinds /\ _nonaxiom_proof_fns(project[q]) # {}} |->
     Entry("none", _nonaxiom_proof_fns(project[p]))]

StripEntries(kinds) == [p \in {q \in Paths : Kind[q] \in kinds} |-> Entry("strip-all", {})]

(* One list after another; no file is in both.                             *)
Extended(a, b) == [p \in DOMAIN a \cup DOMAIN b |-> IF p \in DOMAIN a THEN a[p] ELSE b[p]]

_strip_touched_after_deletes(t, lemmas) == ProofSpans(delete_text(t, lemmas), Names) # {}

(* By content: every file with a proof function or inline proof.           *)
_whole_project_proof_entries(project) ==
  LET lemmas(p) == _nonaxiom_proof_fns(project[p])
      entry(p) == Entry(IF _strip_touched_after_deletes(project[p], lemmas(p))
                          THEN "strip-all" ELSE "none", lemmas(p))
      entries == [p \in Paths |-> entry(p)]
  IN  Restrict(entries, {p \in Paths : entries[p] # Entry("none", {})})

_merge_manifest_entries(a, b) ==
  [p \in DOMAIN a \cup DOMAIN b |->
     IF p \notin DOMAIN b THEN a[p]
     ELSE IF p \notin DOMAIN a THEN b[p]
     ELSE Entry(IF b[p].op = "strip-all" THEN "strip-all" ELSE a[p].op,
                a[p].lemmas \cup b[p].lemmas)]

classify_cone(project, floor) ==
  CASE floor = "field" ->
         Extended(_delete_dir_entries(project, {"above"}), StripEntries({"api"}))
    [] floor = "number-theory" ->
         Extended(_delete_dir_entries(project, {"above", "field"}), StripEntries({"api", "backend"}))
    [] floor = "trusted-core" ->
         _merge_manifest_entries(_whole_project_proof_entries(project),
                                 StripEntries({"api", "backend"}))

---------------------------------------------------------------------------
(* A build.                                                                *)

Init ==
  /\ repo \in Sources
  /\ refs = <<>> /\ wt = <<>> /\ report = <<>>
  /\ job = None /\ pc = "idle" /\ todo = {} /\ builds = 0 /\ collided = FALSE

(* The first build is for any manifest, the next ones repeat it.           *)
Build(d, cut, floor, manifest) ==
  [dest |-> d, depth |-> cut.depth, pin |-> cut.pin, seal |-> cut.seal, floor |-> floor,
   manifest |-> manifest]
FloorCut == [depth |-> 2, pin |-> FALSE, seal |-> TRUE]
Requests(project) ==
  {Build(d, c, None, m) : d \in Dests, c \in Cuts, m \in Manifests}
  \cup {Build(d, FloorCut, f, classify_cone(project, f)) : d \in Dests, f \in Floors}
Jobs == IF builds = 0 THEN Requests(repo) ELSE {[job EXCEPT !.dest = d] : d \in Dests}

Begin ==
  /\ pc = "idle" /\ builds < MaxBuilds
  /\ \E j \in Jobs : _require_pin(j.depth, j.pin, j.manifest) /\ job' = j
  /\ pc' = "create" /\ builds' = builds + 1
  /\ UNCHANGED <<repo, refs, wt, todo, collided, report>>

(* The summary of a worktree goes with it.  Mutant: it outlives it.        *)
Outlived(d) == report
Put(f, x, y) == [z \in DOMAIN f \cup {x} |-> IF z = x THEN y ELSE f[z]]
Forgotten(d) == Restrict(report, DOMAIN report \ {d})

SetWt(w) == wt' = Put(wt, job.dest, w)
Mine == wt[job.dest]

(* A worktree left there is removed first; HEAD is detached at the ref.    *)
create_admit_worktree ==
  /\ pc = "create" /\ pc' = "peel" /\ todo' = DOMAIN job.manifest
  /\ SetWt([files |-> repo, log |-> <<repo>>, on |-> None])
  /\ report' = Forgotten(job.dest)
  /\ UNCHANGED <<repo, refs, job, builds, collided>>

(* File by file; one that is missing ends the build, and what is peeled so *)
(* far stays, unsealed.                                                    *)
PeelFile ==
  /\ pc = "peel" /\ todo # {}
  /\ LET p == CHOOSE q \in todo : TRUE
     IN  IF p \in Paths
           THEN /\ SetWt([Mine EXCEPT !.files[p] =
                     peel_file_text(@, job.depth, job.manifest[p], p \in LemmaPaths)])
                /\ todo' = todo \ {p} /\ UNCHANGED pc
           ELSE pc' = "idle" /\ UNCHANGED <<wt, todo>>
  /\ UNCHANGED <<repo, refs, job, builds, collided, report>>

Peeled ==
  /\ pc = "peel" /\ todo = {} /\ pc' = IF job.seal THEN "drop_stale" ELSE "report"
  /\ UNCHANGED <<repo, refs, wt, job, todo, builds, collided, report>>

(* _seal_peeled_history, one git command a step.                           *)
Mark == Branch[job.dest]
CheckedOut(b) == \E d \in DOMAIN wt : wt[d].on = b
Dropped(b) == Restrict(refs, DOMAIN refs \ {b})

(* Refused while checked out, which is ignored.  Mutant: not done.         *)
StaleStays == refs
WithoutStale == IF CheckedOut(Mark) THEN refs ELSE Dropped(Mark)

DropStale ==
  /\ pc = "drop_stale" /\ pc' = "orphan" /\ refs' = WithoutStale
  /\ UNCHANGED <<repo, wt, job, todo, builds, collided, report>>

Orphan ==
  /\ pc = "orphan"
  /\ IF Mark \in DOMAIN refs
       THEN pc' = "idle" /\ collided' = TRUE /\ UNCHANGED wt
       ELSE pc' = "commit" /\ SetWt([files |-> Mine.files, log |-> <<>>, on |-> Mark]) /\ UNCHANGED collided
  /\ UNCHANGED <<repo, refs, job, todo, builds, report>>

Commit ==
  /\ pc = "commit" /\ pc' = "detach"
  /\ SetWt([Mine EXCEPT !.log = <<Mine.files>> \o @])
  /\ refs' = Put(refs, Mark, wt'[job.dest].log)
  /\ UNCHANGED <<repo, job, todo, builds, collided, report>>

Detach ==
  /\ pc = "detach" /\ pc' = "drop" /\ SetWt([Mine EXCEPT !.on = None])
  /\ UNCHANGED <<repo, refs, job, todo, builds, collided, report>>

DropBranch ==
  /\ pc = "drop" /\ pc' = "report" /\ refs' = Dropped(Mark)
  /\ UNCHANGED <<repo, wt, job, todo, builds, collided, report>>

Report ==
  /\ pc = "report" /\ pc' = "idle"
  /\ report' = Put(report, job.dest,
       [editable |-> DOMAIN job.manifest, sealed |-> job.seal, pin |-> job.pin,
        non_axiom_admits_after |-> [p \in DOMAIN job.manifest |-> count_non_axiom(Mine.files[p])]])
  /\ UNCHANGED <<repo, refs, wt, job, todo, builds, collided>>

Killed ==
  /\ pc # "idle" /\ builds < MaxBuilds /\ pc' = "idle"
  /\ UNCHANGED <<repo, refs, wt, job, todo, builds, collided, report>>

remove_admit_worktree ==
  /\ pc = "idle"
  /\ \E d \in DOMAIN wt : wt' = Restrict(wt, DOMAIN wt \ {d}) /\ report' = Forgotten(d)
  /\ UNCHANGED <<repo, refs, job, pc, todo, builds, collided>>

Next ==
  \/ Begin \/ create_admit_worktree \/ PeelFile \/ Peeled
  \/ DropStale \/ Orphan \/ Commit \/ Detach \/ DropBranch \/ Report
  \/ Killed \/ remove_admit_worktree

Spec == Init /\ [][Next]_vars

---------------------------------------------------------------------------
(* What the properties look at: what is code and whose it is, read one     *)
(* token after the other.                                                  *)

LexStep(s, x) ==
  CASE s.in = "code"   -> [in |-> CASE x \in Comment -> "line" [] x = "/*" -> "block"
                                    [] x = "quote" -> "string" [] x = "raw" -> "raw"
                                    [] OTHER -> "code",
                           depth |-> IF x = "/*" THEN 1 ELSE 0, skip |-> FALSE]
    [] s.in = "line"   -> [s EXCEPT !.in = IF x = "nl" THEN "code" ELSE @]
    [] s.in = "block"  -> LET n == s.depth + (IF x = "/*" THEN 1 ELSE 0) - (IF x = "*/" THEN 1 ELSE 0)
                          IN  [s EXCEPT !.depth = n, !.in = IF n = 0 THEN "code" ELSE @]
    [] s.in = "string" -> IF s.skip THEN [s EXCEPT !.skip = FALSE]
                          ELSE [s EXCEPT !.skip = x = "esc", !.in = IF x \in Quotes THEN "code" ELSE @]
    [] s.in = "raw"    -> [s EXCEPT !.in = IF x \in Quotes THEN "code" ELSE @]

(* The code of a text: its tokens in order, each with the function whose   *)
(* header came last.  runs[n] is what reading n tokens leads to.           *)
Read(s, x) ==
  LET code == s.lex.in = "code" /\ x \notin Openers \cup {"nl"}
      fn == IF code /\ x \in Names THEN x ELSE s.fn
  IN  [lex |-> LexStep(s.lex, x), fn |-> fn,
       out |-> IF code THEN Append(s.out, <<x, fn>>) ELSE s.out]
Code(t) ==
  LET start == [lex |-> [in |-> "code", depth |-> 0, skip |-> FALSE], fn |-> "top", out |-> <<>>]
      runs[n \in 0 .. Len(t)] ==
        IF n = 0 THEN {start} ELSE {Read(s, t[n]) : s \in runs[n - 1]}
  IN  (CHOOSE s \in runs[Len(t)] : TRUE).out

Exec == {"stmt", "let"}
Meaning == {"pre", "post", "def"}
Frozen(t) == SelectSeq(Code(t), LAMBDA x :
  x[1] \in Exec \cup (OtherFns \ SpecFns) \/ x[2] \in Axioms)
Declared(t) == {x[2] : x \in ToSet(Code(t))}
Phrased(t, fns) == SelectSeq(Code(t), LAMBDA x : x[2] \in fns /\ x[1] \in Meaning)
LeavesLess(hard, easy) ==
  LET h == Code(hard)
      e == Code(easy)
      times(c, x) == Cardinality({i \in DOMAIN c : c[i] = x})
  IN  \A x \in {y \in ToSet(h) : y[1] \notin {"admit", "{", "}", ";"}} : times(h, x) <= times(e, x)

(* The worktree holds the files of the ref with less in them; a report     *)
(* goes with a worktree.                                                   *)
TypeOK ==
  /\ DOMAIN refs \subseteq Range(Branch) /\ \A b \in DOMAIN refs : Len(refs[b]) = 1
  /\ DOMAIN wt \subseteq Dests /\ DOMAIN report \subseteq DOMAIN wt
  /\ \A d \in DOMAIN wt : DOMAIN wt[d].files = Paths /\ wt[d].on \in {None, Branch[d]}
  /\ builds \in 0 .. MaxBuilds
  /\ pc \in {"idle", "create", "peel", "drop_stale", "orphan", "commit", "detach", "drop", "report"}

(* The functions a cut looks for, and those that a comment or a string of  *)
(* a text names: the headers are looked for there too, and what goes is    *)
(* then the function that happens to come next.                            *)
Targets(e, depth) ==
  Doomed(e, depth) \cup (IF depth = 4 THEN e.contracts ELSE {})
  \cup CASE depth = 0 \/ e.op = "none" -> {}
         [] e.op = "admit" -> ProofFns \ Axioms
         [] e.op = "strip" -> e.bare
         [] OTHER -> Names
Mentioned(t) ==
  LET c == Code(t)
      times(x) == Cardinality({i \in DOMAIN t : t[i] = x})
      declared(x) == Cardinality({n \in DOMAIN c : c[n][1] = x})
  IN  {x \in Names : times(x) > declared(x)}
Misled(j, p) == Mentioned(repo[p]) \cap Targets(j.manifest[p], j.depth) # {}

(* Whatever a build does, killed or not: a file it does not list is not    *)
(* touched, and in those it lists every statement and every executable     *)
(* header stays, and every axiom as a whole - unless a comment or a string *)
(* of the file names a function the cut looks for.  (peel.py 15-19 makes   *)
(* no such exception: "safe by construction".)                             *)
FloorFrozen ==
  \A d \in DOMAIN wt, p \in Paths :
    LET t == wt[d].files[p]
    IN  t # repo[p] =>
          /\ p \in DOMAIN job.manifest
          /\ Frozen(t) = Frozen(repo[p]) \/ Misled(job, p)

(* Without a pin nothing the guarantee is phrased in goes: a function that *)
(* goes is a lemma, and what is left means what it meant, with the same    *)
(* exception.                                                              *)
UnpinnedKeepsMeaning ==
  \A d \in DOMAIN wt, p \in Paths :
    LET t == wt[d].files[p]
    IN  t # repo[p] /\ ~job.pin /\ ~Misled(job, p) =>
          /\ Declared(repo[p]) \ Declared(t) \subseteq ProofFns \ Axioms
          /\ Phrased(t, Names) = Phrased(repo[p], Declared(t))

(* A deeper peel, and a lower floor, leave no more of any file than each   *)
(* shallower one and each higher one.                                      *)
HigherFloors ==
  CASE job.floor = "field"         -> {}
    [] job.floor = "number-theory" -> {"field"}
    [] job.floor = "trusted-core"  -> {"field", "number-theory"}
Easier ==
  IF job.floor = None THEN {[job EXCEPT !.depth = n] : n \in 0 .. job.depth - 1}
  ELSE {[job EXCEPT !.manifest = classify_cone(repo, f)] : f \in HigherFloors}
Built(j, p) ==
  IF p \in DOMAIN j.manifest
    THEN peel_file_text(repo[p], j.depth, j.manifest[p], p \in LemmaPaths) ELSE repo[p]
HarderLeavesLess ==
  pc = "report" => \A j \in Easier, p \in Paths :
                     LeavesLess(Mine.files[p], Built(j, p))

(* The report counts the admits that are left to the agent in each file,   *)
(* and the inventory finds the worktree done only when there are none.     *)
CountIsHonest ==
  \A d \in DOMAIN report :
    LET left(p) == LET c == Code(wt[d].files[p])
                   IN  Cardinality({i \in DOMAIN c : c[i][1] = "admit" /\ c[i][2] \notin Axioms})
    IN  /\ \A p \in DOMAIN report[d].non_axiom_admits_after :
             report[d].non_axiom_admits_after[p] = left(p)
        /\ inventory_files(wt[d].files).okay_for_complete <=> \A p \in Paths : left(p) = 0

(* A worktree handed over as sealed has one commit, of the peeled files,   *)
(* on no branch, however the builds before it ended; none of them leaves   *)
(* behind what stops the next.                                             *)
SealedWhenReported ==
  /\ ~collided
  /\ \A d \in DOMAIN report : report[d].sealed =>
       wt[d].log = <<wt[d].files>> /\ wt[d].on = None /\ Branch[d] \notin DOMAIN refs
=============================================================================
