# CryptoProver: a verification project

CryptoProver runs a coding agent on Rust crates whose Verus proofs have been
stripped, and decides, by its own gates, whether what the agent leaves is a
proof. The interesting part is not the agent but the harness around it
(`src/run.py`): a loop of rounds, a row of integrity gates with different
recoveries, snapshots and rollbacks, a cached verifier, a final gate, and the
artifacts that other runs later trust. These modules model that harness as a
state machine over an adversarial agent, check it with TLC, and prove its
safety properties for every value of the constants. Around it they
model what runs the harness (races, sweeps and their cost audit), the process
of the agent itself, and the builder that strips the proofs in the first place.

## 1. Inventory

| Component | Source | State | Operations | What makes it correct |
|---|---|---|---|---|
| Round loop | `run.py` `run_task` 5265-6972 | round, budget, snapshots, round results, caps, rollback targets | one round: prompt, agent, gates, claim; recoveries; exits | a green never outlives the files it was given for; recoveries are rationed; it ends |
| Final gate | `run.py` 400-475, 6974-7104 | `end_reason`, disposition | fold of late findings, `_final_end_reason`, restore | cheats and halts are never promoted; rejected bytes are replaced |
| Artifacts | `run.py` 7106-7246, `lib/results.py` | receipt, result, brief, failure memory, registry | five writes, in order | agree wherever the task dies |
| Gate receipts | `run.py` 2976-3132, `lib/provenance.py` | `gate_cache`, immutable files | key, lookup, write once | a receipt speaks for exactly one tree and one set of tools |
| Agent process | `run.py` 4355-4591, 4594-4907 | `_LIVE_PROC`, `_RECEIVED_SIGNAL`, the group of each round | start, publish, wait, kill, clean up, classify; the signal handler | no group outlives its round, no result is lost, an interrupted round is a halt |
| Frozen specifications | `skills/spec_check.py`, `run.py` 5017-5161 | the snapshot of signatures | verify, restore | drift is found and undone |
| Package gate | `skills/verus_check.py` | none | verify | green means verified |
| Siblings | `run.py` 6368-6427 | hashes, pending failures | re-verify what changed | a failure stays until it is cleared |
| Sessions, plateau | `run.py` 2418-2496, 6439-6622 | counters, session start | reset, directive, stop | bounded resets |
| Admit counters | `lib/admits.py` | none | mask, find bodies, classify, count | counts the agent's admits, all of them and nothing else |
| False contracts | `skills/check_false_contract.py`, `run.py` 4934-5011 | none | confirm a witness | only a checked witness is believed |
| Retry memory | `lib/failure_memory.py`, `lib/discovery_brief.py` | JSON files shared by tasks | load, append, save, mine | no lost record, no tainted record |
| Registry | `run.py` 7233-7246, `race.py` 147-180 | `proven_registry.json` | append; merge under a lock | no lost entry |
| Racing | `race.py` | attempts, live groups, winner | spawn, first success, kill, capture | one winner, no orphan, no false green |
| Sweeps | `run_layer.py`, `launch.sh`, `docker/run_agents.sh` | task directories, archive, launch segments, layer summary | skip, resume, archive, spawn, halt, summarise | a rate limit stops the sweep; what is skipped was done; no receipt is lost |
| Usage audit | `usage_audit.py` | `usage_audit.json`, `launch_envelope.json` | audit, reconcile, archive | "complete" is all that was billed; a sum is never too high |
| Peeling | `peel.py`, `strip_specs.py`, `admit.py` | worktrees, git branches | shells, floors, pin, worktree, seal | the frozen floor is untouched; deeper leaves less; no history leaks |
| Search, hooks, viewers, containers, demos | `skills/search_*.py`, `lib/catalog.py`, `lib/verifier_policy_hook.py`, `replay.py`, `docker/`, `demo/` | none of their own | reports, filters, provisioning | - |

**How they interact.** `run_task` is one thread. It calls every other component
synchronously, as a function or as a subprocess, and the agent is a subprocess
it waits for and kills at its deadline. Shared state passes through files: the
crate being edited (agent and gates), the raw stream of the agent (agent and
misuse detectors), the snapshots (rounds), and the results root (tasks, racing
attempts and launchers, concurrently).

**What is hard.** (a) The verdict of a round is used after its files changed:
by a rollback, a revert, a restore, a later round, a cache. (b) Eight exits and
four recoveries share the labels, the counters and the snapshots, and each
treats them a little differently. (c) The final gate re-derives facts the loop
already judged and overwrites labels one after the other. (d) What a task
writes last is trusted by runs that never saw why. (e) Several tasks write the
same files. (f) A signal or a deadline may fall between any two steps of the
main thread, and the agent's children outlive its leader. (g) What a stream says
of its cost may be torn, ambiguous or come late, and the task that should have
recorded it may be dead. (h) The stripped source is made by scanners that only
approximate the language. The list, line by line, is under "hazards" in `PROJECT.json`.

## 2. Modules

| Module | Models |
|---|---|
| `FinalGate` | The pure decision table: the labels, the fold of late findings (`Override`, `FoldedReason`), `FinalEndReason`, `Disposition`, `ShouldPersistRetryMemory` |
| `RunTask` | One task from setup to its last artifact; extends `FinalGate` |
| `Promotion` | The abstract specification: what a task promises its caller |
| `MCRunTask` | Values for the constants of `RunTask` |
| `RunTaskProofs` | Lemmas on the vocabulary, `TypeCorrect`, and that a task has finitely many steps |
| `RunTaskSafetyProofs` | The inductive invariant and six safety theorems |
| `RunTaskPromiseProofs` | Three more safety theorems, the refinement of `Promotion`, and what becomes of text recovered from git history |
| `Registry` | `proven_registry.json` and its writers: races under a lock, tasks without |
| `Race` | One race (`race.py`) from its worktrees to their teardown; extends `FinalGate` and `Registry` |
| `MCRace` | Values for the constants of `Race` |
| `Ledger` | The abstract specification of the registry: entries are added at one instant and stay |
| `RegistryProofs`, `RaceProofs` | Their inductive invariants and six safety theorems, the refinement of `Ledger`, and that a race has finitely many steps |
| `AgentProcess` | One `run.py` and the agents it starts: groups, deadline, signals, stream, exit code |
| `AgentProcessProofs` | Its inductive invariant and five safety theorems, and that the main thread has finitely many steps |
| `UsageAudit` | What the receipts of a set of streams establish about their cost (operators) |
| `Campaign` | A sweep by `run_layer.py` or `launch.sh`, its tasks, deaths, archive and audits; extends `UsageAudit` |
| `CampaignProofs` | Lemmas on totals, and eight safety theorems of the sweep and its audit |
| `Admits` | Masking, bodies, admit counting, admit skeletons (operators on token texts) |
| `StripSpecs` | Headers, clauses, whole functions, proof spans (operators); extends `Admits` |
| `Peel` | The manifests, one file's peel, and a worktree build with its seal; extends `StripSpecs` |
| `PeelProofs` | Its types, the seal, what builds can and cannot add to single cuts, and that the manifests of the floors nest |
| `MCAgentProcess`, `MCCampaign`, `MCPeel` | Values for their constants |

### Correspondence of RunTask with run.py

`pc` follows the body of `run_task`:

| `pc` | Code | Actions |
|---|---|---|
| `setup` | up to 5625, and the early returns 5313-5340, 5418-5426, 5667-5685 | `Setup`, `ActiveEditOmitsAdmits`, `SpecSnapshotFails`, `ObjectStoreLeaks` |
| `start` | 5853-5996: budget, bail-out, prompt | `LoopEnds`, `BudgetBailOut`, `BeginRound` |
| `agent` | 5997-6056: `run_claude_round` | `AgentTurn` |
| `post` | 6058-6457: no-result exits, spec gate, Verus and its cache, round result, snapshot, siblings, plateau count | `RateLimited`, `NoResultExit`, `GateRound` |
| `session` | 6476-6622: hang bail-out, auto-reset, plateau reset | `HangBailOut`, `SessionControl` |
| `integrity` | 6626-6972: the gates in order, then the agent's claim | the actions of `Gate`, `Claim` |
| `fold` | 6974-7104 | `CloseTask` |
| `receipt` ... `registry` | 7106-7246 | `WriteReceipt`, `WriteResult`, `WriteBrief`, `WriteFailure`, `WriteRegistry` |

Most variables carry the meaning of a Python local, named beside each in the
module. Each gate's guard is the negation of the ones before it (`AtGitGate`,
`AtToolingGate`, ...), which is the code's chain of `if ...: break/continue`.

The editable files are one record (`Tree`) of what the gates can tell apart:
whether the package verifies, whether an admit is left, which frozen items are
weakened, which bypass constructs were added, whether a saved file outside the
active edit scope was changed, what became of a sibling helper, and whether the
text was recovered from git history. The last one no gate can see; it is there
so that a property can. Files outside the snapshots are the flag `stray`, the
harness's own tools are the flag `tooling`.

The agent is the environment: a turn may leave any tree of `AgentTrees`, with
the misuses of `Vices`, end in any of `Exits` and declare any of `Claims`. Two
restraints are physical: text recovered from git has a source (the files, the
session, or a command in this round's stream), and an idle turn changes
nothing. The verifier's verdict on pinned files and untouched tools is
`tree.proved` (or a timeout, if `FlakyVerus`); with doctored tools or changed
surroundings it is arbitrary.

The spec gate fails open. Output of `spec_check.py` that is not JSON counts as no
drift, and so does an error it reports without a list of drift (a bad snapshot);
its exit code is not looked at (`run.py` 6201-6204). With the fault `spec` any
check of a tree that drifted may end so, in a round (`Hearing`, `SpecReports`) and
after a restore. The history variable `unheard` holds the rounds in which it did,
so that a property can say what the gate could know.

Abstractions to know of. A snapshot is one tree: a copy that fails half-way is
not modelled. `RestoredSpecs` restores either the drifted items (the rest of
the tree stays, whether it still proves is unknown) or the whole baseline; the
code can mix the two over several files. The plateau metric is "a new low, not,
or indeterminate". `Crash` may happen anywhere, including where a Python
exception would end the process.

### Correspondence of Race and Registry with race.py

`pc` follows `race_task` and, between `wait` and `reap`, the coroutine `_race`:

| `pc` | Code | Actions |
|---|---|---|
| `create` | 101-117, 404-406 | `CreateWorktree`, `CreationFails` |
| `wait` | 306-317 | `Wake`, `AllFinished`, `GlobalCap`, `Interrupt` |
| `sort` | 318-328 | `Sort`, `SortEnds` |
| `kill`, `reap` | 329-344 | `Kill`, `Reap`, `ReapEnds` |
| `merge` | 421-428, 147-179 | `MergeWinner`, `MergeEnds` |
| `report`, `teardown` | 429-450 | `Report`, `Teardown` |

Each attempt has a coroutine (`_run_attempt`: `Spawn`, `SpawnFails`, `Returns`),
which runs only while the race awaits, and a process outside it (`StartAgent`,
`AgentEnds`, `WriteResult`, `Exit`), which runs always. `live`, `tasks`,
`ready`, `finished` and `winner` are the code's `live_pids`, `tasks`, `done`,
`finished` and `winner`; `owned` is the list `worktrees` that the `finally`
sees. `disk` is each attempt's
`result.json`, which an earlier race of the same run id may have left
(`Leftovers`) and nobody clears; `fresh` remembers who wrote one in this race.
An attempt is what `RunTask` describes; here only its label matters, and that `run.py` starts its agent in a session of its own (`agents`).

A spawn is one step with the registration of its pid, and may come after the
kill: the event loop may serve the kill first. An attempt ends only after all
have been launched, since a `run.py` lasts minutes and a spawn milliseconds.
After Ctrl-C, asyncio cancels the race where it waits; its `finally` still kills
and reaps. Ctrl-C elsewhere, a second one, and a crash of the race itself are
left out. The winner's file and diff are copied out with warnings only, so the
copy is no step of its own.

`Registry` splits the read-modify-write where another writer can intervene:
lock, read, truncate, fill, unlock (`write_text` truncates when it opens).
`Fill` over a file that a second writer filled in between may leave a tail of
the longer text (`garbled`). A killed writer loses its lock, and leaves an empty
file if it died between the last two steps.

### Correspondence of AgentProcess with run.py

The main thread is `pc`; each of its steps is a place between which a signal
handler, which Python runs between any two bytecodes, may intervene:

| `pc` | Code | Actions |
|---|---|---|
| `loop` | 5853-5886 | `Spawn`, `Conclude` |
| `spawned` | between 4546 (`Popen`) and 4552 (`_LIVE_PROC = proc`) | `Publish` |
| `wait` | 4553-4574: poll in slices, wall clock, kill | `Waited`, `DeadlineKill` |
| `cleanup`, `clear` | 4575-4582: kill what is left, forget the process | `Cleanup`, `Unpublish` |
| `read` | 4584-4591, 6058-6090: last terminal event, else why there is none | `Read` |
| `done` | 7550-7558 | `Exit` |

`SignalLive` and `SignalIdle` are the two branches of the handler. The agent
(`Emit`, `Fork`, `AgentExits`) writes any events, starts children and exits or
does not. What `RunTask` calls an exit kind is the label computed here;
`Conclude` stands for all that the round loop may decide.

### Correspondence of Campaign and UsageAudit

`pc` is the driver (`pick`, `archived`, `spawn`, `wait`), `task.step` the
`run_task` inside it (`round`, `agent`, `turned`, `gate`, `verdict`, `promoted`,
`reported`). `run_layer.py` decides its skips at the start (`StartLayer`, 318-339),
adds up what returns (`Aggregated`, 384-429), and counts a module whose `run_task`
raised as unreceipted (430-442). `launch.sh` opens a segment and audits before
it spends (274-330), moves an earlier attempt's receipts away (`Archive`,
409-417), audits around each task (`AuditArchive`, `Return`), stops on exit code
42 and seals on its way out (`Finish`, `Interrupt`).

A stream is one agent turn and the evidence it leaves: lifecycle receipt, raw
events, round record, each written at its own step. `billed` is what the
provider charges, which no code can see; the properties compare with it.
`OrphanTurn` ends the turn of an agent whose `run.py` is dead. A task directory
holds one attempt; a task id is the stem of its file (`lib/results.py` 27-29).

`todo` is the set of positions of the plan that are left: the drivers go through
it in order (`Upcoming` is the least), and a module may be listed twice. Sums over
streams are `Total`, a recursive function on sequences of naturals, and a
task's own sum is that of the sequence with zeros for the others. What a turn may
cost is the constant `Costs`.

### Correspondence of Admits, StripSpecs and Peel

A text is a sequence of tokens; the token of a function header is the
function's name, and blanks other than newlines are left out. The operators
carry the names of the Python functions and are their fixed points: what a
`while` loop over characters computes is stated as a minimum over positions
(`find_matching_brace`, `MatchEnd`) or as a function that jumps from lexeme to
lexeme (`Live`, `Seen`). The two scanners differ as in the code: `lib/admits.py`
nests comments and knows raw strings, `strip_specs.py` does neither. `Splice`
keeps what the code does with edits that overlap.

`Peel` builds a worktree as `peel_worktree` does: pin, checkout (which first
removes a worktree that is there), file by file, seal, report. The seal is one
git command a step; branches live in the repository all worktrees share.
Builds run one at a time (`peel_run.sh` holds a lock around them), and each
destination has a branch name of its own, as that script's names ensure.
Worktrees, branches and reports are partial functions, whose domain is what
exists. A build is a request (`Requests`: a manifest written by hand with a cut, or
one that `classify_cone` derived for a floor); later builds of a behaviour repeat it.

## 3. Runs

The runs of `RunTask` use `MCRunTask` and `FairSpec`, those of `Race` use
`MCRace`, the others the MC module of their name. `CHECK_DEADLOCK FALSE`, because
a task, a race, a sweep and a process end: `done`, `crashed`, `exited` and the
last launch have no successor.

| Run | Shows |
|---|---|
| `drift` | Whole-crate mode with an agent that weakens the contract, edits frozen files (saved and stray), adds assumptions, reads git history, doctors and repairs the tools, with the gate cache on; audits, reverts, restores and spec checks may fail. `TypeOK`, `AcceptedIsHonest`, `AcceptedTreeWasGated`, `RollbackTargetsClean`, `RejectedIsRestored`, `RecoveryCaps`, `MisuseIsRejected`, the refinement `KeepsPromise` |
| `halts` | Module scope: every exit of the agent's process and every claim, session resets, plateau stop, git, hang and budget rollbacks, added axioms, a sibling helper that is broken and mended under a flaky verifier, setup failures, a crash between any two steps. `RollbackTargetsClean`, `AcceptedSiblingVerifies`, `RecoveryCaps`, `HaltIsNeverPromoted`, `ArtifactsAgree`, `Terminates` |
| `race` | Two attempts, with or without a success that an earlier race left, a rival race and a task that merge into the same registry and may be killed; worktrees, spawns and the terminal may fail. `TypeOK`, `VerdictFollowsResults`, `WinnerStands`, `LosersAreKilled`, `NoLostEntry`, `RacesReadWholeLists`, `RaceEnds` |
| `campaign` | Two launches under one run id over two modules that share a file stem, by either driver; turns that end in one terminal event, two, an unpriced one, a torn line or a rate limit; kills of the task or of everything, signals, exceptions, orphans, an operator's reconciliation. `TypeOK`, `CompleteMeansAllBilled`, `RecordedIsLowerBound`, `EvidenceIsKept`, `ReconciledCoversEvidence`, `SummaryPricesEveryRound`, `SkippedAfterSuccess` |
| `agent` | Two rounds; an agent that forks, hangs, exits, and writes events after its result; a deadline and signals at any step. `TypeOK`, `GroupDiesWithRound`, `InterruptedRoundHalts`, `ResultIsNeverLost`, `SignalIsReported`, `RoundReturns` |
| `peel` | Twenty-four projects, every depth, floor and operation, two builds killed between any two steps. `TypeOK`, `FloorFrozen`, `UnpinnedKeepsMeaning`, `HarderLeavesLess`, `CountIsHonest`, `SealedWhenReported` |
| `rollback`, `memory`, `specgate` | Expected violations in `RunTask`, section 6 |
| `orphans`, `leftover` | Expected violations in `Race`, section 6 |
| `skips` | Expected violation in `Campaign`, section 6 |

**Bounds.** `MaxRounds` = 3 (2 in `halts`, which has the widest environment).
The agent of `drift` claims nothing: the final gate promotes a green tree whatever
was claimed, so a claim only ends the loop earlier, and `halts` has them all. `halts`
has no doctored tools, with which `AcceptedSiblingVerifies` is false (section 4).
Its `Terminates` covers the recoveries from git reads, the resets and the rollbacks; that
the recoveries of `drift` spend a round too is `TaskIsBounded`, a theorem.
Every cap is 1 in the passing runs, so three rounds hold a recovery, the cap
being exceeded, and a round on either side; a cached verdict, the change that
invalidates it and the re-use; a good snapshot, a bad round, and the rollback to
it. One frozen item and
one sibling stand for all: the code treats them independently, and only "some
item drifted" or "some sibling fails" reaches a decision. The budget has three
values, the two thresholds of the code (5 minutes, 60 seconds) being what
matters; it never grows. The counter of plateau rounds saturates at the stop
threshold, after which the code stops. The code's own defaults are 3 recoveries
from git reads, 3 from frozen edits (5281-5282), 3 restores of an item and 3
resets; the theorems hold for any value.

In `race`, two attempts are enough for two successes in one wait, a winner with
a loser to kill, and an exception that abandons the other; three labels are the
ones `_aggregate_end_reason` tells apart. A rival race and a task are the two
kinds of other writers. A leftover is a success or absent (`Green`): what else it may
say is what an attempt may write. The race's code treats attempts alike, and the theorems
hold for any number.

In `campaign`, two launches hold an attempt and its retry, two modules a task
and the one after it, and their common stem is the case that needs two; two
rounds a task, three turns (each at one cost, `Costs` = {1}) and two faults in all let a crashed attempt, an
orphan that writes late and a retry meet. One provider total is enough to be
exceeded by later evidence. Two launches of one run id do not overlap: neither
driver guards against that, and the audits of `launch.sh` assume it.

In `agent`, three events hold a terminal event, one after it and one before it,
or two terminal events; the second round shows what the first left behind. The
theorems hold for any number of either.

In `peel`, six files play the parts `classify_cone` distinguishes; two of them
vary over documented and undocumented lemmas, axioms with blocks in their
contract, bodies with comments, strings and raw strings that hold braces and the
word `admit`, nested functions, declarations without body, and comments that name a
function the cut looks for, above an axiom and above an executable helper. In such a
file the cut takes the function after the comment, so `FloorFrozen` and
`UnpinnedKeepsMeaning` except exactly the files of a request in which a comment or a
string names one of its targets (`Misled`); without the exception TLC finds both
comments. `CountIsHonest` is about lines with at most one admit: `count_hard_admits`
looks at the first of a line only, and no text has two. Five hand-written
manifests (every operation, and one whose file is missing) with six cuts, and
the three floors. Two builds and two destinations give a build after a killed
one, into the same worktree and into another; destinations are symmetric. The
operators were compared with the Python functions on these texts.

**Fairness.** `FairSpec` is weak fairness of `Step`, the harness as a whole. The
code is one thread, and what it waits for ends: the agent is killed at its
deadline (4555-4592), Verus at the gate's own (`skills/verus_check.py` 363), and
the other skills it calls (`run_subskill` 4344, without a timeout) are
computations on files that terminate. So while some step is possible one is
eventually taken. No fairness is asked of the agent or
of any particular branch, and none of `Crash`. `Terminates` then follows because
the rounds of the `for` loop are charged even for a recovered round: the mutant
`SameRound`, which does not charge them, loops for ever.

For `Race`, the loop is weakly fair (its waits are polls with limits, the lock's
among them) and so are spawns and returns, which asyncio runs whenever the race
awaits. A `run.py` ends although its agent starts again and again, because its
rounds are bounded: `Exit` is strongly fair, and an agent's turn ends while its
`run.py` is there to bound it. Nothing is asked of an orphaned agent or of the
other writers. `RaceEnds` holds all the same: a race gives the lock up.

For `AgentProcess`, the main thread is weakly fair (the scheduler runs it; its
wait is a poll of at most half a second, `_bounded_wait_timeout`), and so is the
wall clock (`Deadline`). Nothing is asked of the agent or its children, which may
hang for ever, and nothing of the signals. `RoundReturns` needs both: its
mutant, which gives up only an agent that printed nothing, waits for ever.
`Campaign` and `Peel` are checked for safety only: both are loops over finite
lists, of which each step is a call that returns or a fault.

Each property of a passing run has a mutant in `PROJECT.json`: a change a
plausible slip in the code would make (a dropped guard, an off-by-one, a label
without its evidence, a cache key without the tools), under which the run fails.

## 4. Proofs

Where a theorem speaks of weakened specifications, it does so as far as the code can
know: a round whose spec check answered has none in its snapshot
(`IntegrityClean(t, n)`). That a round whose check failed to answer passes is
the run `specgate`.

The theorems are about `Spec` (no fairness) for every value of the constants,
under four assumptions that TLC evaluates on each run: `BoundsAssumption` (the
bounds are naturals, at least one round), `ModeAssumption` (the flags are
Booleans), `NoneAssumption` (`None` is no data value) and `AgentAssumption`
(the baseline drifted from nothing; the agent's trees, misuses, exits and claims
are of their types). Nothing bounds the number of rounds, of frozen items or of
trees.

`RunTaskProofs` proves `TypeCorrect`. `TypeOK` alone is not inductive: the
round number stays in range only because stages inside a round require it, and
a round that is judged has a result. `TypeInv` adds these facts. It also proves
`TaskIsBounded`: the rounds left and the stage (`StepsLeft`, at most
`5 * MaxRounds + 12`) decrease in every step, a recovery's and a crash's too. With
the fairness that TLC assumes this is `Terminates`; the part that
the code could get wrong, a round that is not charged, is in the theorem.

`RunTaskSafetyProofs` proves the rest from one invariant,
`Inv == TypeInv /\ Evidence /\ Targets /\ Decision /\ Written`:

- **Evidence**: each cached or last receipt obtained by untouched tools in
  pinned surroundings tells the truth about its tree; rounds not yet judged have
  no result; a green result of the round under judgement, or of the last round
  when the loop is at its head or ended honestly, still describes the files that
  stand. This is the heart of the argument: each recovery changes the files, so
  it must withdraw the green, and does (`Tainted`); each exit that leaves a green
  behind must leave the files too, or a label the final gate will not promote.
- **Targets**: `RollbackTargetsClean`, where a specification is clean unless the spec
  check of the round could not be heard (`unheard`), and that the targets are older than the
  round under way, so that the round's own snapshot, which a spec restore
  rewrites, is never one of them; the baseline is saved and clean.
- **Decision**: the properties of the final gate, once it has decided.
- **Written**: what each stage of the artifacts has already written.

| Theorem | Property |
|---|---|
| `TypeCorrect` | `TypeOK` |
| `TaskIsBounded` | (the safety half of `Terminates`) |
| `RollbackIsSafe` | `RollbackTargetsClean` |
| `AcceptanceIsHonest` | `AcceptedIsHonest` |
| `RejectionRestores` | `RejectedIsRestored` |
| `MisuseIsKept` | `MisuseIsRejected` |
| `HaltsDoNotPromote` | `HaltIsNeverPromoted` |
| `ArtifactsAlwaysAgree` | `ArtifactsAgree` |

Each is preserved action by action: a lemma per layer (`EvidenceStep`,
`TargetsStep`, `DecisionStep`, `WrittenStep`), in which the actions that end
alike share a lemma (`EvidenceBreak` for a loop left for a misuse or a halt,
`EvidenceRecovered` for a recovered round, `EvidenceClaim` for a judged claim).

`RegistryProofs` proves `RegistryInvariant` for any set of writers: the lock is
held exactly by the race between its read and its unlock, so, while no task has
written, the list on disk and the copy of whoever is about to write it hold
every merged entry; and the list is empty only in the hands of the race that is
filling it. `RaceProofs` shows that a race is one more writer of the registry
(`RaceIsAWriter`), which gives `EntriesAreKept` and `ListsAreWhole` for the
composed system, and proves the race's own safety from
`RaceInv == TypeOK /\ RegistryInv /\ Returned /\ HonestWin /\ Cancelled /\ Tally`. `Tally`
(what was collected without a winner was no success, and a race left with all collected has nobody
out) gives the half of `VerdictFollowsResults` about failures, `HonestWin` the other. `Cancelled`
is needed for `NoLoserRuns`: that nobody is left running after the kill rests on
every attempt having been launched, and on every running one being in `live`.

| Theorem | Property |
|---|---|
| `RaceTypeCorrect` | `TypeOK` |
| `VerdictIsOfTheResults` | `VerdictFollowsResults`, whatever an earlier race left |
| `NoLoserRuns` | `LosersAreKilled` |
| `FirstCommitStands` | `WinnerStands` |
| `EntriesAreKept` | `NoLostEntry` |
| `ListsAreWhole` | `RacesReadWholeLists` |
| `RegistryIsLedger`, `RaceKeepsLedger` | (the refinement of `Ledger`, section 5) |
| `RaceIsBounded` | (the safety half of `RaceEnds`) |

`RaceIsBounded` counts what the race itself has left to do (`RaceLeft`: a worktree,
a round of the wait loop and a reaping for each attempt, then merge, report and
teardown). No step of an attempt or of a rival gives any of it back, and each of
its own spends some: an attempt is taken out of `tasks` once.

Their assumptions are `WritersAssumption` (races and tasks are different writers)
and `RaceAssumption` (finitely many attempts, which are naturals; labels are end
reasons; the race is one of the writers and does not crash).

`AgentProcessProofs` proves
`AgentInv == TypeOK /\ GroupDiesWithRound /\ Published /\ Unjudged /\ Marked /\ ...`,
the rest being the four verdict properties themselves. `Published` (the handler
knows an agent only from the wait to the end of the cleanup) is what makes a
signal at any other moment end `run.py`; `Unjudged` (a loop that goes on has met
no reason to end) is why a halt can only come from the round just read; and
that the stream does not change once it was read rests on `GroupDiesWithRound`.
`ResultIsTerminal`, the lemma on the reader, needs that a finite set of positions
has a last one, which is proved from the well-foundedness of strict inclusion.

| Theorem | Property |
|---|---|
| `AgentTypeCorrect` | `TypeOK` |
| `GroupsDie` | `GroupDiesWithRound` |
| `InterruptionsHalt` | `InterruptedRoundHalts` |
| `ResultsAreKept` | `ResultIsNeverLost` |
| `SignalsAreReported` | `SignalIsReported` |
| `MainThreadIsBounded` | (the safety half of `RoundReturns`) |

`MainThreadIsBounded` says that the main thread takes at most six steps a round
and none of them is ever given back, whatever the agent, its children, the clock
and the signals do; that it takes them is fairness, and TLC's.

Its one assumption is `AgentProcessAssumption` (the bounds are naturals, `None`
is no return code and no terminal event).

`RunTaskPromiseProofs` goes on from `Inv` with what a task owes across rounds:

- **Gated**: where a round is judged, the last receipt is that of the files,
  surroundings and tools that stand (`OfTheFiles`); where the loop may be left, a
  green last round means that this receipt is green and the files are the last
  safe ones (`Ready`). A cache hit keeps it because the key names the tree and the
  tools. With it each step of `RunTask` is a step of `Promotion` or a stutter
  (`PromiseStep`, by what the step does to a round: it edits, checkpoints, judges
  or decides).
- **Helpers**: an unchanged sibling is not verified again, so its recorded hash
  must speak: a broken sibling whose hash is recorded has a failure pending
  (`HashSpeaks`), through every rollback.
- **Rations**: each counter is at least the number of rounds charged to it
  (`Charged`, by cardinalities), and the count of an item at least the streak of
  drifts up to this round (`Streaks`), so that no streak outlasts its cap.
- **Recall**: where text recovered from git history can be. Until the first read is
  recovered from, every earlier round has a snapshot without it (`Saved`,
  `Unspoilt`) and neither the files nor the session know it, except in the
  round that read it; so the first rollback goes to a clean snapshot. TLC checked
  `Recall` as an invariant of the constants of every run of `MCRunTask` before it
  was proved. It is not true after the first recovery, which is the run `rollback`.

| Theorem | Property |
|---|---|
| `PromotedOnItsOwnReceipt` | `AcceptedTreeWasGated` |
| `RunTaskKeepsPromise` | `KeepsPromise`, the refinement of section 5 |
| `AcceptedHelpersVerify` | `AcceptedSiblingVerifies`, under `ToolsHold` |
| `RecoveriesAreRationed` | `RecoveryCaps` |
| `AcceptedIsReconstruction` | (a candidate accepted without a git recovery holds no text of git history) |
| `FirstRollbackDropsText` | (`RollbackDropsRecoveredText` as far as it is true: up to the first recovery) |
| `ReadIsForgotten` | (the round after a recovered read starts in a session, and from a prompt, without the text) |

`ToolsHold` says that the agent does not both doctor the tools and survive a read
of git history. The proof attempt without it failed for a good reason, which TLC
confirms on two rounds; section 6 describes the behaviour. An agent with either
vice alone is covered, and so is the run `halts`, whose agent reads git history.

`CampaignProofs` proves the safety of the sweep, for any plan, costs and
bounds. Its first part is about `Total`: a sum is natural, is monotone in each
term, ignores zeros, and grows by what is appended. From the type invariant
`Shape` (which `CampaignTypes` weakens to `TypeOK`) and three facts (`Receipts`: a
terminal event or a round record never names more than was billed, and a
single terminal event names all of it; `StreamsGrow`: streams are appended and
never lost, and one that is over keeps its bill; `Opened`: the segment of a
launch that is under way is running) there is one inductive invariant per property:

- **Earned** (skips): whatever a driver may skip on, an entry, a result or the
  verdict of the task in progress, goes back to a module that was accepted.
- **Vouched**: an accepted reconciliation was made against what is recorded now.
- **Covered**: what an audit calls complete, of the run or of a task, has no open
  stream, so that nothing it has added up can still grow.
- **Floor**: what the layer summary has added up is at most what was billed before
  the task in progress.
- **Kept**: a live stream is in a directory that exists (`Housed`), so that the
  archive of its target finds it; a task starts without a live stream of its own
  (`Cleared`) and numbers its rounds upwards (`Ahead`), so that no two turns are in
  the same place (`Apart`). `Housed` is where the code archives a directory without
  a result as well.
- **Summing**: until the summary counts something as unknown, every turn of this
  launch is counted, those of the task in progress apart (`Summed`), and of these
  only the last may lack a round record (`Noted`).

| Theorem | Property |
|---|---|
| `CampaignTypes` | `TypeOK` |
| `SkipsAreEarned` | `SkippedAfterSuccess` |
| `ReconciliationsCover` | `ReconciledCoversEvidence` |
| `CompleteIsBilled` | `CompleteMeansAllBilled` |
| `RecordedIsBilled` | `RecordedIsLowerBound` |
| `ReceiptsAreKept` | `EvidenceIsKept` |
| `SummariesPriceAll` | `SummaryPricesEveryRound` |
| `DistinctStemsSkipProven` | `SkippedWasProven`, which the run `skips` violates, where no two modules share a stem |

Their assumption is `CampaignAssumption` (the plan is a sequence of modules with
stems, bounds and costs are naturals, the markers of absent evidence differ from
each other and from the data).

`PeelProofs` proves `PeelTypes` from `Shape` (what a worktree, a request and the
steps of a build look like), and the seal from `Sealing`, which says of each git
command what the ones before it have left: no branch of this worktree once the
stale one was dropped, one commit once HEAD is on it. That a branch is not refused
rests on names being different (`PeelAssumption`) and on the stale branch not being
checked out, because the worktree that had it was replaced. `WorktreesHoldCuts`
says what builds, kills, removals and repetitions do to files: each is as it was
or one whole cut of the request, and a reported worktree is cut and counted
throughout. So what a peel does
to a project is what `peel_file_text` does to each file. For `HarderLeavesLess` the theorem `HarderIsLess`
draws the conclusion, from the hypothesis `CutsNest` about single files: its worktrees
may be built by different requests, interrupted and repeated. The inventory of the whole project needs no
hypothesis: `InventoryAddsUp` proves that over any finite set of texts it finds
nothing left exactly if every single count is zero.

`FloorsNest` is about the operators that derive the manifests, for any project:
"Harder floors must be structural supersets of easier floors" (`peel.py` 509-512).
The floor `trusted-core` is derived from the content of files and the other two from
directories, so that it asks no less rests on both using the same lemmas of a
file; and none of the three asks for a specification, a contract or an axiom.

| Theorem | Property |
|---|---|
| `PeelTypes` | `TypeOK` |
| `WorktreesAreSealed` | `SealedWhenReported` |
| `WorktreesHoldCuts` | (no run states it: it follows the texts themselves) |
| `HarderIsLess` | `HarderLeavesLess`, under `CutsNest` |
| `InventoryAddsUp`, `FloorsNest` | (of the operators) |

Their assumption is `PeelAssumption` (finitely many paths, each of a kind; texts are
sequences; each destination has a branch name of its own).

**Only model-checked**: what a single cut does to a text, that is `FloorFrozen`,
`UnpinnedKeepsMeaning`, `CountIsHonest` and the hypothesis `CutsNest`, because the
operators of `Admits`, `StripSpecs` and `Peel` are recursive functions over data, for
which the provers have no induction; and `Terminates`, `RaceEnds` and
`RoundReturns`, because liveness under fairness is out of the prover's reach,
although the bound on steps that each rests on is a theorem. Every other property of
a passing run is stated by a theorem.

## 5. Refinement

`Promotion` is the caller's view: files, their surroundings, the last safe
files, the set of certified pairs, and a verdict. A candidate is accepted only
if the pair that stands is certified and the files are the safe ones, a rejected
one is replaced by the safe ones, and the verdict is final. `KeepsPromise` maps
the certified set to the last gate receipt if it is green, and the safe files to
`snaps[lastClean]`. It holds although a round's files, its snapshot and its
verdict change in different steps, because a recovery that changes the files
also prevents acceptance until the next gate. `RunTaskKeepsPromise` proves it for
every value of the constants.

`Ledger` is what the registry is for those who read it: entries are added one at a
time, none is taken out, and a race that says it has merged finds its entry. The
file is written by read, truncate and fill, so the entries are those of the copy
of whoever is writing it (`Entries` in `RegistryProofs`), and the atomic addition is the
truncation: from there on the copy is what the file will be, and until then it is
the list and the race's own entry (`CopiesFresh`). `RegistryIsLedger` and `RaceKeepsLedger` prove it under `[]Orderly`: no
task, which takes no lock, writes, and nobody dies writing. Without that condition the
code does not keep it; `NoLostEntry` and `RacesReadWholeLists` say what is left.

## 6. What the comments promise and the code does not keep

Six runs are expected to find a violation; each states a comment or a document of the code.

- `rollback` / `RollbackDropsRecoveredText`. After a read of git history the
  files go back to `snapshots/round_{N-1}`. A recovered round leaves its own
  snapshot as it was taken, before the rollback, so after two such rounds in a
  row the recovered text comes back (`run.py` 6664-6668 against 6681). The same
  does not happen for a spec restore, which writes the snapshot anew. What is true
  is proved: the first rollback drops the text (`FirstRollbackDropsText`), the
  round after any recovered read starts without it (`ReadIsForgotten`), and without
  a recovery none reaches an accepted file (`AcceptedIsReconstruction`).
- `memory` / `RetryMemoryUntainted`. Retry memory is decided from the final
  label; a recovered read of git history leaves no trace in it (466-475, 7177).
- `specgate` / `SpecDriftIsRefused`. "Refuse to commit on any spec drift (spec_check
  exit != 0 -> round fails)" (`docs/mvp_spec.md` 96), and drift "Folds into spec_drift ->
  SPEC_DRIFT (non-promotable)" (`run.py` 6192). But an answer of `spec_check.py` that
  is not JSON, or that is an error (`spec_check.py` 621-623), counts as no drift, and its
  exit code is ignored (6201-6204); the re-checks (5068-5073, 5151-5155) read it
  the same way, and the final gate does not ask again. A weakened specification is
  then accepted with untouched tools. In every round that could be heard the gate
  holds (`AcceptanceIsHonest`, `RollbackIsSafe`, `RejectionRestores`).
- `leftover` / `NoFalseGreen`. "An attempt wins iff its result.json has success==True
  [...] If all K fail -> best loser + aggregate end_reason, no false green" (`race.py`
  17-20). With a reused `--run-id`, an attempt that ends without a result is judged by
  the `result.json` that an earlier race left in its place (192-201), and a race
  in which nobody succeeded is green. What holds, and is proved, is that the
  verdict follows the files on disk (`VerdictIsOfTheResults`).
- `orphans` / `NoAgentOutlives`. "Cancelling a loser = os.killpg(SIGKILL) on its
  group - claude + cargo verus + z3" (`race.py` 15-16), but `run.py` starts the
  agent in a session of its own (4544-4550), which the group signal does not
  reach, and dies without a handler.
- `skips` / `SkippedWasProven`. "Re-running with the SAME --run-id automatically
  skips modules whose result.json shows success=true" (`run_layer.py` 11-14). The
  result is found by the stem of the file (`lib/results.py` 27-29), and layer sets
  hold namesakes: `backend::serial::u64::field` and `field` in L2, the two
  `scalar` in L4. The success of one skips the other, which never succeeded. Where
  stems differ the sentence holds (`DistinctStemsSkipProven`).

One more disagreement has no run of its own, because `peel` shows it by its
exception: "The FROZEN FLOOR [...] is never peeled. It is safe by construction"
(`peel.py` 15-19). The cut looks for headers with an expression that also matches in
comments and strings (`strip_specs.py` 668), and takes an axiom or executable code
that follows such a mention.

The models also show what follows, which no run states. With less than a
minute left the loop stops at `run.py` 5879, before the rollback that a little
more time would have made. An attempt of a race that succeeds while the global
cap reaps the losers is collected and never wins (`race.py` 342). A signal during a round whose stream already
has a result is not looked at (`run.py` 4863), and further rounds start. A signal
between `Popen` and `_LIVE_PROC`, or once the leader is gone, ends `run.py` with
the group alive. A round that the rate limit ended is not among the round results, so
its cost is missing from the layer summary (`run.py` 6076). A round that doctors a
tool and also reads git history is recovered before the tools are looked at
(`run.py` 6714 against 6716; "any add / edit / delete fails the round like
SPEC_DRIFT", 5730-5731, holds only if the edit is still there one round later). The
package gate is asked again, but a sibling that a doctored verifier cleared is not:
its hash is recorded (6384), and if the tool is put back in the next round the
broken sibling is accepted. A re-run without
archive raises on the earlier receipt after it spent (`lib/provenance.py` 119).

## 7. Plan

Done, in this order: the final gate, the round loop with its gates and
recoveries, the promise, the proofs of its safety; the registry and the race,
with theirs; the sweeps with their audit, the agent's process with its proofs,
and the builder; the refinement of the promise and the rest of the safety of
`RunTask`, the safety of `Campaign`, and that of the builds of `Peel`; the bounds on
the steps of a task, a main thread and a race; the registry as a ledger; the text
recovered from git history; the manifests of the floors. What would come next:

1. `AgentProcess` composed with `Race`: the orphan of a killed loser as a group
   that nobody's cleanup reaches.
2. Per-file restore of frozen items (`SpecRestore`), and
   `lib/failure_memory.py`'s load, append, save by two tasks.
3. That each cut is again a text, and single scanners (`find_matching_brace`,
   `Splice`) characterised without induction, to narrow the hypotheses about texts.

## 8. Not modelled

- `peel_surface`, the single-file mode of `peel.py`, `strip_doc_comments` and the
  command lines of `strip_specs.py` and `admit.py`: the operators above with other
  plumbing.
- Characters. Tokens cannot show a keyword inside a longer identifier. A header that
  is matched in a comment or a string is shown as a text that has the name there.
- The proxy of `--wire-log` (`run.py` 4395-4436): its program, `wire_proxy.py`, is not
  in the repository.
- The Rust expression evaluator of `check_false_contract.py`, the signature parser
  of `spec_check.py`, the diagnostics parser of `verus_check.py`: `RunTask` has
  their verdicts.
- Prompt texts, usage telemetry beyond cost, plateau metrics beyond "a new low or
  not".
- The other shell launchers, `lib/verifier_policy_hook.py`, catalog and search,
  viewers and audits, containers and demos: string matching, read-only reports
  and provisioning, without a protocol of their own.
- Concurrent launches under one run id, and Ctrl-C in `run_layer.py`, which has no
  handler and dies (`Die`).
