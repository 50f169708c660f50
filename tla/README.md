# FM-Agent: TLA+ models of the durable execution core

FM-Agent-Skill is a plugin that lets a language-model host analyse a source
project: it plans jobs, sends Workers out for them, validates what they write,
and keeps everything in a form from which another session, after a crash, can
go on. The plugin never calls a model itself; it is a set of short-lived
Python commands over files, a SQLite database and Git refs. What is hard about
it is exactly what TLA+ is good at: commands of several processes interleave,
any of them may be killed between two writes, leases expire under a Worker that
still writes, and the next session has only the files to go by.

All paths below are relative to `src/plugins/fm-agent-skill/` unless they start
with `src/`.

## 1. Inventory

| component | state | operations | talks to |
|---|---|---|---|
| **scheduler** `scripts/scheduler.py` | SQLite tables jobs, job_dependencies, leases, attempts, receipts; a JSON mirror per job | create, ready (with lease expiry), start, complete, fail, retry, recover, heartbeat | planner creates jobs, executors start and complete them, pipeline asks whether a phase converged |
| **checkpoint store** `scripts/checkpoint.py` | objects/, current/, table checkpoints, HEAD, phases/*.json, snapshot.json, active.json | commit, validate (with repair), restore, rebuild_worktree, inspect_auto_resume | pipeline commits, orchestrate and terminal_report validate; isolation publishes a copy |
| **pipeline** `scripts/pipeline.py`, `orchestrate.py`, `stage_gate.py` | active.json (phase list and status of each), the "official result" flag, baseline.json | prepare, resume, phase-start, phase-complete, phase-fail, complete, fail, noop | scheduler (aggregate, receipts), checkpoint, locking, isolation |
| **isolation** `scripts/isolation.py` | the detached worktree, the marker isolation.json in source and worktree, refs active and baseline, failure.json | create, publish_progress, publish_failure, sync, discard | pipeline, checkpoint, continuation guard |
| **locking** `scripts/locking.py` | lock file, coordinator_leases row | acquire, heartbeat, reclaim_for_resume, release | pipeline, orchestrate; checkpoint reads the lease |
| **continuation** `hooks/continuation_guard.py`, `continuation_supervisor.py` | the ticket control/continuation/active.json and its lock, the launched process | the Stop hook's decision, ensure, launch, run-child | reads isolation marker, active.json, the barrier |
| **semantic executor** `scripts/semantic_executor.py`, `executor.py`, `durable_executor.py` | dispatch tickets | prepare, dispatch, submit, fail, retry, barrier | scheduler, planner |
| **bug validation** `scripts/bug_validation_executor.py`, runners, `bug_summary.py` | tickets and evidence of a validator job | next action, submit | scheduler |
| **job planner** `scripts/job_planner.py`, `complexity.py`, `incremental.py` | none of its own | which jobs a phase has, in which batches, with which dependencies | scheduler.create |
| **resume admission** `scripts/versioning.py`, `config.py` | versions and fingerprints in the saved record | require_compatible | orchestrate, checkpoint |
| **terminal report** `scripts/terminal_report.py`, `diagnose.py` | terminal_report.json | build | validates the checkpoint, reads the ledger |
| **state library** `src/fm_agent_core/state.py` | - | parsing and validating artifacts, atomic file replacement | everything |
| source analysis, workspace utilities, Worker prompts | - | text and file I/O | - |

What is hard, and what makes each component right:

- *Ledger.* Commands of one or more Coordinators interleave between their
  transactions, each working on the copy it read. Right means: one attempt is
  run by one Worker; nothing succeeds without a durable receipt; no member of a
  batch is lost over shrinking and retrying; budgets are neither overspent nor
  given up early; capacities hold; every running job can be reclaimed.
- *Checkpoint store.* A commit makes nine durable writes, a repair five, and
  either may be cut off anywhere. Right means: a checkpoint is taken in one step
  or not at all, none that was taken is ever skipped, and a repair leaves every
  copy (HEAD, mirror, phase file) at the checkpoint it accepts.
- *Pipeline and isolation.* Several stores are written one after the other
  (record, official flag, checkpoint, refs, copies). Right means: nothing is
  official before it is durable, and from every state a later session gets on.
- *Lock.* Several sessions, stale locks, take-over. Right means: one Coordinator.
- *Continuation.* A hook that may block a session and start another. Right means:
  it neither lets an unfinished run go nor blocks for ever.
- *Planner and Workers.* The plan of a phase is computed from what is there, and
  computed again after every interruption, when other things are there. Right
  means: every function has one job, no Worker starts before what it reads is
  written, and plan, ledger, artifacts and gate never wait for each other.

Every hazard that follows from this is listed in `PROJECT.json` with its line; a
hazard without a property says why it has none.

## 2. Modules

| module | what it is |
|---|---|
| `Scheduler.tla` | the ledger: tables, artifact files, processes; one SQLite transaction per step |
| `JobLifecycle.tla` | what the ledger promises: the life of a job, with dependencies and capacities |
| `SchedulerProofs.tla` | theorems about `Scheduler`, checked by TLAPS |
| `SchedulerSerialProofs.tla` | theorems about `Scheduler` when commands do not overlap |
| `Checkpoint.tla` | the checkpoint store: one durable write per step |
| `CheckpointStore.tla` | what it promises: a checkpoint is taken in one step |
| `CheckpointProofs.tla` | theorems about `Checkpoint` |
| `Analysis.tla` | the life of an analysis: commands as lists of durable writes over record, worktree, refs, checkpoint and ledger |
| `AnalysisProofs.tla` | theorems about `Analysis`: types, what is sealed, the baseline |
| `AnalysisGateProofs.tla` | theorems about its gates and its official result |
| `Sessions.tla` | who works on an analysis: lock, lease, Stop hook, continuation |
| `SessionsProofs.tla` | theorems about `Sessions` |
| `Planner.tla` | the semantic phases: layers, batches, plans, dispatch, gates |
| `PlannerProofs.tla` | theorems about `Planner`: cuts of sets, plans, types |
| `PlannerOrderProofs.tla` | theorems about owners, order and progress of its jobs |
| `MCScheduler`, `MCCheckpoint`, `MCAnalysis`, `MCSessions`, `MCPlanner` | small instances |

The modules meet at what they abstract of each other. `Analysis` uses a checkpoint
as `CheckpointStore` promises it, in one step, and one ledger entry for the jobs of
a phase. `Planner` takes jobs to behave as in `Scheduler` without its limits.
`Sessions` keeps of the analysis its status, its phase (Bug Validation or an earlier one),
and whether Bug Validation jobs are open.

### Scheduler

`row[j]` is a job's row (its columns and `payload_json` together), `remaining`
the cached count of unmet dependencies, `lease`, `claims` (table attempts) and
`receipts` the other tables, `file` what the Workers have written. A process `p`
stands at `at[p]` in the command it executes, with `held[p]`, the copy it has
read and will write back. A command is cut at its transactions: `start` is
`Start`, `Claim` or `ClaimRefused`, `Save`; `complete` is `Complete`,
`RecordReceipt` or `ReceiptRefused`, `Save`; `fail` and `retry` are `Fail` /
`Retry` and `Save`; `recover` reads all running jobs (`Recover`) and writes them
back one transaction each (`RecoverJob`). `ready` is one transaction with the
expiry of leases inside (`Ready`), which `start` performs as well. `Crash` kills
a process anywhere; `LeaseTimeout` and `WorkerWrite` are the environment. A Worker of
any attempt ever claimed may write at any time, since nothing stops a late one.

Abstracted: artifacts are valid, malformed or missing; reports are accepted,
negative or malformed; the input hash is the set of remaining artifacts, which
determines it; clocks are the single bit "the lease is live". Left out: the JSON
mirror of a job, which no transition reads, and jobs imported from runs older
than the ledger.

### Checkpoint

`rows` is the table, in rowid order, and a checkpoint id is a position in it;
`head`, `manifest`, `snapshot`, `current`, `objects` are the files; `work` is the
worktree, `progress` the label of the copy in the source project. `at`/`new` is
where a commit stands, `fixing`/`target`/`todo` where a validation with its repair
stands. `rows[i].older` holds what following `previous_checkpoint_id` from row `i`
leads to; it is a function of the table, kept in the row so that the chain needs no
recursion. `Accepted` is `_select_complete`: HEAD's row or, if that is still
committing, the newest complete row of its chain or of the table.

A content (one of `Contents`) stands for an inventory with all its hashes, taken at one moment.
A mirror directory is replaced in two steps, so that it can be found
missing. `Damage` changes the mirror from outside while nobody is at work on it;
`Lose` removes the worktree at any moment. The Git side of `rebuild_worktree` is in
`Analysis`; the copy `checkpoint/active.json` is left out.

`Overlap` says whether a validation may run during a commit. The instances have
`Overlap = FALSE`: one Coordinator makes both calls. With `Overlap = TRUE` a
validation takes a HEAD that is being committed for a dead one and rolls it back
(hazard at `checkpoint.py:625`).

### Analysis

`git` has the user's HEAD and the refs `active` and `baseline`; `source` and `tree`
are what the user's project and the snapshot worktree hold (the isolation marker,
`active.json` as `record`, phase receipts, `failure.json`, artifacts); `sealed` is
the accepted checkpoint, `ledger` the jobs of each phase, `official` the flag of
`official_result.json`. A command is `todo`, the list of durable writes it has
still to make, in the order of the code, and `draft`, the record it saves. `Write`
makes the next one; `TreeAfter`, `SourceAfter`, `GitAfter` and `SealedAfter` say
what each does.

| action | code |
|---|---|
| `Dispatch` | `orchestrate.dispatch`: `isolation.create`, `pipeline.prepare` |
| `Rebuild`, `Resume` | `checkpoint.rebuild_worktree`; `state.inspect_resume`, `pipeline.resume` |
| `Discard` | `isolation.discard` |
| `PhaseStart` (with the reset), `PhaseComplete` | `pipeline.phase_start`, `phase_complete` behind `stage_gate.validate` |
| `PhaseFail`, `Fail` | `pipeline.phase_fail`, `fail`, `isolation.publish_failure` |
| `Complete` | `pipeline.complete` and `isolation.sync` |
| `PlanJobs`, `Produce`, `PhaseReceipt` | the work of a phase |
| `Leave` | the Stop hook lets a finished session go |
| `Kill`, `Undo`, `LoseTree`, `UserCommits` | faults: a kill between any two writes, a step of `create` or `rebuild_worktree` that raises and is undone (`create` deletes the active ref even where it has not set it), a temporary directory cleaned up; the user commits |

The artifacts of a phase are the commit they were made for, which is what the
gates compare; fingerprints, versions and configuration are taken to agree. A
resume is admitted to a session alone, since `Sessions` has the lock. The phase commands
are used as the Coordinator uses them, which goes by `current_phase`: it starts a phase that
has not passed and completes the one it started, in a running analysis. The commands ask for less
(`pipeline.py:104-121` lets any phase whose predecessors passed be started again).

### Sessions

`session[s]` is where session `s` is: off; at a step of its command (`check`, `read`, `unlink`,
`create`, `write`, `lease`, `load`, `save`, `beat`); working; at the end of `pipeline.py complete`
(`sync`); or in the Stop hook (`popen`, `pid`, `hook`). `record` is `active.json` in
the worktree, `mirror` the status in its copies in the user's project, which the supervisor reads;
`lock` is `active.lock`, a file that can be there without a content and whose
process can be dead; `lease` the row of `coordinator_leases`; `ticket` the
continuation ticket, `flock` the launch that holds its file lock, and `child[n]` the
supervisor that runs session `n` natively. `lost` and `exited` are histories for the properties.

`Check` to `Beat` are `inspect_auto_resume`, `inspect_resume`, `reclaim_for_resume`, `acquire`,
and `pipeline.py resume`: its load with the check of the status (`Load`, line 88), its save as running
(`Save`, 158) and its heartbeat, which an empty lock fails (`Beat`). They take one step for each file
operation, so that two commands interleave, and another session may complete the analysis between a
load and a save. `Work` is a phase that passes, Bug Validation's jobs, or `complete`. A checkpoint is
mirrored, and with it `publish_progress` replaces the user's control directory
(`isolation.py:142-151`): `ControlReplaced` takes ticket and lock file away, under a launch or a
supervisor that is alive too.

`StopApproved`, `StopBlocked`, `Launch`, `StopAccepted` are the branches of the Stop hook. A
launch is three steps under the file lock: the ticket says `starting` (`Launch`,
`continuation_supervisor.py:155`), the process is made (`Popen`, 157), its pid is written
(`WritePid`, 159). `Observe` is the wait for the child; `Spawn`, `Startup`, `ChildEnds` are `run_child`. `Kill`
and `KillChild` kill a session, in its command and in a launch between process and pid too, or a
supervisor. One step each are a heartbeat (reading the lock and writing it), a checkpoint with
its mirror, and a phase command.

### Planner

Layers and batches are both made by a loop that takes a part of a set, then a part of
the rest: `Cut(first)`, a function from sets to sequences. `Layered` cuts a project
phase into layers of the call graph (`NextLayer`), `Partition` a layer into batches
(`FirstBatch`: as many functions as fit the token target and the limit of functions).
`WantedSpecs`, `WantedVerifications` and `WantedBugs` are the jobs a phase plans, by
their ids, with their dependencies (`Base` and `Prior`: the terminal jobs of the
project phases depended on, the jobs of the last layer); the loops that create them
go through the ids in the order `Earlier`. `Plan` creates those that are not there, up to the first whose id
names another job, and writes `plan[ph]`; a kill (`PlanKilled`) leaves the first
few. `Dispatch` to `Lost` are the semantic executor and its Workers: a job that
runs without its ticket, a batch rejected in part and shrunk, a Worker that is
gone with some of its outputs written. `SpecificationPasses`, `VerificationPasses`
and `BugValidationPasses` pass their gates in the detail of `stage_gate.py`.

Functions are numbers in the order of their artifact names; an estimate is a
number of tokens that grows when the specification names the callees. The bounds
by source bytes and by the time of earlier Workers work the same way and are left
out, like extraction, which gives the graph.

## 3. Runs

| run | what it asks | instance |
|---|---|---|
| `scheduler_serial` | is the ledger consistent, and does it implement `JobLifecycle`, with one Coordinator that may be killed anywhere? | 3 jobs, b after a, two types with room for one each, global cap 2, 2 attempts |
| `scheduler_concurrent` | what survives two processes on one job? | 1 job (batch or validator) with 2 members, 2 processes, late Workers, 2 claims |
| `checkpoint` | do the files together implement a store that takes checkpoints atomically? | 2 phases, 2 contents, 3 rows |
| `analysis` | do record, checkpoint, official flag and refs agree wherever a command is killed, and does an analysis that can go on end? | 3 phases, 2 commits, 2 worktrees, 2 kills or losses, 1 reported failure |
| `sessions` | one supervisor while its ticket is there, nothing relaunched without progress, work handed over at a Stop, and the analysis completed in the end? | 2 sessions, each also the other's native process, 1 fault: a kill, a reported failure, an overlapping command or a wait that runs out |
| `planner` | do layers, batches, plans, Workers and gates fit together when planning is repeated? | 4 functions in 2 project phases, every graph over 4 calls, batches of up to 6 tokens, 2 faults |
| `scheduler_capacity_race`, `scheduler_claim_crash`, `scheduler_recover`, `scheduler_attempt_limit`, `scheduler_batch_members`, `checkpoint_phase_file` | each shows one statement of the documents that the code does not keep | the smallest instance that shows it |

Bounds. `MaxClaims` bounds attempts: two claims of a job are enough for an old
and a new attempt to interfere, three jobs for a dependency beside a competitor,
two members for a batch that is partly valid, two processes for every race on
one job. `MaxRows = 3` gives a checkpoint, its successor, and a third begun on a rolled
back one, so that the chain and the order of rows differ. The three phases of
`MCAnalysis` are one whose artifacts the reset keeps, the reset itself, and one with
jobs and artifacts that name their commit; two worktrees are one and its
replacement, by a rebuild or for another commit; two kills stop a command and
the one that was to recover from it. The safety properties hold with
three kills too (2,683,170 states). Two sessions are one at work and its
native successor, or one at work and one in which the user types a command; a native process that stops makes
the first one native in turn. `MCSessionsThree.cfg` has three sessions and no fault (192,675 states),
`MCSessionsFaults.cfg` two faults and the safety properties alone (1,277,708 states): both pass. Four functions give a layer of
two, a cycle, a function alone in its batch and a second project phase. Contents,
processes and members are interchangeable (SYMMETRY) where no liveness is checked.

`MCAnalysis`, `MCSessions` and `MCPlanner` say `CHECK_DEADLOCK FALSE`: an analysis that is over,
or a plan that was refused, leaves nothing to do. That nothing stops before is what
`Ends`, `Completes` and `NeverBlocked` say.

Fairness.

- `Analysis`: weak fairness of `Write` (a process that is not killed runs on), of the
  Coordinator's and the Workers' steps (the Stop hook sends a session that stops back to
  work) and of `Resume` and `Rebuild` (the user comes back). None of `Dispatch`,
  `Discard` or a fault. `Ends` is conditional on `CanGoOn`, that an analysis without a
  session can be resumed or rebuilt, and on `LedgerMatches`, both of which a kill can break
  (see below); it shows that nothing else keeps an analysis from its end.
- `Sessions`: weak fairness of commands and of the hook with its launch, all
  of them bounded by timeouts in the code. Strong fairness of supervisors, which may have to wait for
  the ticket's file lock: launches hold it for a moment, and one that asks for it time and again
  gets it. Strong fairness of `Work`, which a
  Stop interrupts and which the re-entered hook brings back, and of `UserResumes`:
  the user who finds again and again that nobody works resumes the analysis.
- `Planner` and `Scheduler`: none. A ledger does not schedule itself, and what a
  Worker does is up to a language model; `NeverBlocked` says instead that as long
  as the gate is closed there is something to do.

### What the properties of the new runs say

`PassedIsSealed`: a phase counts as passed in the worktree only after the
checkpoint has it (`pipeline.py`: seal, mirror, then the record).
`PassedHasOutputs`: the reset at `phase_cleanup`, a resume or a rebuild never
leave a passed phase without its artifacts. `OfficialIsComplete` and
`BaselineIsOfficial`: an official result has every phase sealed with artifacts of its
own commit, and the baseline moves to nothing else, though `complete` sets the
flag before it takes the checkpoint and `sync` makes eight more writes.

`OneSupervisor`: two supervisors are alive together only after a checkpoint replaced the ticket
while a launch or a supervisor was under way, or a launch was killed before it wrote the pid (`lost`);
Stops, slow children, waits that run out and kills elsewhere do not lead there. That a
checkpoint does lead there is what `VSessionsSupervisors.cfg` shows. `NotRelaunched`: after a native
process that the ticket knew has exited, none is launched before the next checkpoint, which shows that some session
has got on. `HandedOver`: a session of the user's that is let go from unfinished work leaves a native one whose
supervisor waits for it or was killed, though tickets vanish and supervisors may share one.
`Completes`: an empty lock, a lock of a dead process, a ticket that a checkpoint took away or that
names no process are all survived.

`CallerFirst`, `VerifiedAfterSpecified`: dependencies computed in a first plan are
still enough for the jobs of a later one. `OneOwner`, `PlanStaysGood`: plans made
again with other batches neither give a function to two jobs nor spoil the plan the
gate reads. `NeverBlocked`: jobs, plan and gate never wait for each other, except after a refused plan.

### Findings

1. *Capacity* (`scheduler.py:681`): the check and the claim are two
   transactions, so two starts may exceed a cap.
2. *Claim* (`scheduler.py:776`): killed between claim and save, a start leaves a
   job that no later start can run, since its next attempt number is taken.
3. *Recover* (`scheduler.py:790`): a running job with valid outputs is failed, where
   the documents say that valid output is accepted.
4. *Attempt limit* (`scheduler.py:484`): lease expiry requeues without looking at it.
5. *Batch members* (`scheduler.py:728`): a malformed report makes the batch shrink
   by the verdict of an earlier validation.
6. *Phase file* (`checkpoint.py:612`): verification and verify_affected share a
   manifest file, and a repair writes the older manifest over the newer one.

### Further configurations

Eight properties state what the documents and comments say of the newer modules. They are not
among the runs of `PROJECT.json`; each has a configuration of its own, with
which TLC finds the shortest history that breaks it.

- `VAnalysisLedger.cfg`, `LedgerMatches` (`checkpoint.py:709`): the ledger outlives the
  worktree, and a rebuild restores the files of the last checkpoint. A job
  that succeeded after it stays succeeded, and its artifact is gone: the phase can neither
  pass its gate nor plan the job again.
- `VAnalysisDispatch.cfg`, `DispatchContinues` (`checkpoint.py:763`): the marker of a
  rebuilt worktree names the checkpoint it was built from, and the next checkpoint does not
  update it. From then on an ordinary dispatch refuses to continue
  (`references/durable-execution.md:44` says it does); an explicit resume works.
- `VSessionsCoordinator.cfg`, `OneCoordinator` (`locking.py:107`): lock and lease name the
  process of a command, which is over while its session still works. A resume takes a
  fresh lock from a session at work, without the confirmation `README.md:347`
  asks for.
- `VSessionsTicket.cfg`, `GivenUpStays` (`isolation.py:142`): a ticket that was given up is not to be launched
  again (`continuation_supervisor.py:96`), and `references/durable-execution.md:91` calls the ticket
  durable. The next checkpoint replaces the directory it is in, and a later Stop makes it anew.
- `VSessionsSupervisors.cfg`, `SupervisorAlone` (`isolation.py:142`): a checkpoint of the native session
  takes the ticket of its own supervisor away; that session stops twice, and a second supervisor is launched
  while the first still waits. No fault is needed.
- `VSessionsReopened.cfg`, `CompletedStays` (`pipeline.py:88`): a resume that has loaded the record saves
  it as running after another session completed the analysis, where
  `references/resume-contract.md:35` excludes that a successful phase is run again.
- `VSessionsHandedOver.cfg`, `HandedToAnother` (`continuation_supervisor.py:147`): a native session that stops
  twice finds its own supervisor alive and is let go (nothing reads `FM_AGENT_CONTINUATION_CHILD`), where
  `continuation_guard.py:246` approves a Stop only after a native process has taken over.
- `VPlannerAgain.cfg`, `PlansAgain` (`job_planner.py:69`): verification is planned while
  functions are being specified, and estimates grow with the callees a specification names.
  Planned again at the verification phase, the same job ids get other batches and the plan is
  refused, where `skills/run/SKILL.md:304` calls it idempotent.

Each of them runs like the others:
`tlc -workers 2 -config VAnalysisLedger.cfg MCAnalysis.tla`.

## 4. Proofs

All theorems hold for every value of the constants (any jobs, members, budgets
and number of processes; any phases, contents and number of checkpoints; any plan of
phases, any number of commits, worktrees, sessions and faults; any call graph, project phases,
verdicts, estimates and limits of a batch), under the assumptions the modules state:

- `ConstantsAssumption`: finitely many jobs, positive limits, no job depends on itself;
- `StoreAssumption`: `Missing` is no content;
- `PlanAssumption`: the plan of phases is not empty and repeats no phase;
- `GatesAssumption`: what the phases before the cleanup need is part of what the cleanup
  itself needs (the reset spares that and nothing else), and some phase needs something;
- `SessionsAssumption`: `NoOne` is no session, the first one is, users type one of the three
  commands, and the number of faults is bounded;
- `PlannerAssumption`: finitely many functions and at least one (`stage_gate.py:78`: the
  extraction gate asks for some), every function in a project phase, and project phases
  that depend on earlier ones only (`state.py:272`), a batch of at least one function.

The theorems of `SchedulerSerialProofs` have one hypothesis more, `Alone`: there is one
process, as in the run `scheduler_serial`. With two they are false: that is what the findings
on capacity and claims show. None of the theorems uses fairness.

`SchedulerProofs` (any number of processes at once):

- `TypeCorrect`: from one lemma per operator on rows (`FailedRow`, `CompletedRow`
  and so on), then action by action.
- `MembersKept` and `BudgetsKept`: both from `JobInv`, which says of every copy of
  a job (in the table, held by a process, read by recover) that it is sound by
  itself: members partitioned, budgets within limits. It is inductive because every
  save writes a held copy, whatever was in the row: the rows alone are not
  inductive.
- `SuccessIsReceipted`, `ReceiptsUnique`: a process about to save a succeeded copy
  already has its receipt in the table.
- `NoTwoStarters`, `LatestRuns`: a process about to save a running copy holds
  the latest claim of its job, and the row is still queued with one attempt less.

`SchedulerSerialProofs`. A command that is killed leaves the ledger between two of its
transactions, so what is said of the ledger has to hold there, and the invariant `SerialInv`
speaks of the command too. `CallCurrent`: the copy a process will write back is a step of
the job's life from the row as it still is, and what a start has checked still holds.
`RunsLeased`: a running job has a lease that names an attempt. `Unstarted`, `RemainingAccurate` and `WithinCapacity` complete it: a save
changes the number of running jobs by what it does to one row, and the cached count by what it
does to one dependency. From it follow

- `RunsAreLeased`, `CountsAccurate`, `CapacityKept`;
- `LedgerImplemented`: `Spec => Lifecycle!Spec`. The commits of a command map to steps of
  the job's life, the transactions before them and every kill to stutters.

`CheckpointProofs` (validations and commits do not overlap, except in
`TypeCorrect`). The code finds the accepted checkpoint by a search; the invariant
`Inv` names it without one: `Base`, HEAD's row or, while that is committing, the row
it was built on. `Linked` says every row is built on nothing or on an earlier
complete row, whose chain it continues; `Covered` that every complete row is
`Base` or behind it; `Taking` and `Repairing` that a commit builds on `Base` and a
repair works for it. `AcceptedBase` shows the search finds `Base`. From `Inv` follow

- `NeverSkipped`, `Repaired`, `OnlyTakenPublished`;
- `ManifestsRepaired`, with `Filing` on the manifest files, when no two phases
  share a file (the assumption the finding on the phase file shows to be needed);
- `StoreImplemented`: `Spec => Store!Spec`. `Begin`, `MarkComplete`, `CommitDies`,
  `Rebuild`, `Write` and `Lose` map to steps of the abstract store, every other
  action to a stutter.

`AnalysisProofs`. A state between two writes of a command is right only because of
the writes that are still to come, so the invariant `IInv` speaks of the list `todo`:
`WorktreeFits` and `CopyIsFirst` on where a worktree is made and filled,
`SaveIsSealed` (what a `save` will write is sealed, or a `seal` comes before it and
nothing in between changes the record), `RecordKnown` (a Coordinator
has a record, or its command will save it), `PromoteIsOfficial` (before a `promote`
the flag is set and the checkpoint taken, or will be). `Shift`, `ClearShift` and
`PrecededShift` say what a write does to the places of the list; each command then establishes `IInv` for
its own list. From it follow

- `TypeCorrect`;
- `PassedStaysSealed`: `Spec => PassedIsSealed`;
- `BaselineStaysOfficial`: `Spec => BaselineIsOfficial`.

`AnalysisGateProofs`, in three layers on top of `IInv`. `InOrder` says of every copy of the record
(in the worktree, in the source, in the checkpoint, about to be saved) that the phases before the
current one have passed, and none after it has. `Backed`: what a record calls passed, or is about to, has its
artifacts for the commit of the worktree, and a `reset` still to come spares what they need;
`Begins` is the exception, a command that is still making its worktree. `Final` adds what an
official result needs: where the flag is set, or will be when the command gets there, only a record that
has passed every phase is sealed and none is saved that has not passed all but the last; and a record
that has passed every phase is sealed before it is saved. From them follow

- `ArtifactsStay`: `Spec => []PassedHasOutputs`;
- `OfficialStaysComplete`: `Spec => []OfficialIsComplete`.

`SessionsProofs`. `TypeOK` alone does not bound the supervisors, as nothing in it relates
them to the ticket. The invariant `IInv` adds, as long as no launch or supervisor is unknown to the
ticket, `LaunchKnown` (a session that launches holds the file lock, no supervisor is up before
it makes the process, and that process is the only one after) and `SupervisorKnown` (a
supervisor outside a launch is the one the ticket names, and the status says how far it is);
and in every case `StartedRuns` (where a ticket says `started`, a supervisor waits or was killed, which
`HandedOver` rests on) and `ExitedKnown` (after an exit, until the next checkpoint, the ticket is given up and neither a launch nor a supervisor is under way). From it follow

- `TypeCorrect`;
- `OneSupervisorAtATime`: `Spec => []OneSupervisor`;
- `NoRelaunch`: `Spec => NotRelaunched`;
- `WorkHandedOver`: `Spec => HandedOver`.

`PlannerProofs`. What `Cut` computes for any set is induction over data; it is within reach
because it is an induction on finite sets that can be stated with a set instead of an
operator (`FromParts`: if a set of parts contains whatever all of whose smaller parts it
contains, it contains everything; its proof takes a smallest exception). With it `CutDefined` shows
that the recursive function satisfies its equation, `CutParts` that a cut consists of
disjoint non-empty parts with nothing left over, and `BaseDefined` does the same for the recursion over
project phases. `SpecsGood`, `VerificationsGood` and `BugsGood` show that each of the three plans is a
`GoodPlan`: a job fits its id, its dependencies are there or made before it, no two jobs share
a function. From the invariant `Shaped` (types, layers that are cuts, jobs that fit their ids)
follows `TypeCorrect`.

`PlannerOrderProofs` proves every other property of the run `planner`:

- `PlansStayGood`: from `Shaped`, by what a step may do to a job (`Kept`) and what a plan that
  is not refused writes.
- `VerifiedInOrder`, from `Specifying`: the specification plan names the job of every
  function that has no specification, and a verification job depends on it, or the
  specification is there.
- `OneOwnerEach`: `OneOwner` speaks of jobs that are not finished and is not inductive. The
  invariant is stronger: no two jobs of a phase ever share a function, finished or not
  (`Apart`). A plan made again cuts other batches and finds ids taken. It is right because jobs are
  created in order, up to the first id that names another job: a new job of a layer is made only after the
  jobs at all the numbers before its own (`Numbered`) were found to be batches of the plan, and then, by
  counting, they are exactly the plan's batches before it (`Matching`).
- `NothingBlocks`, from `Flowing`: dependencies lead to earlier layers and phases only
  (`DepsOrdered`), so that among jobs that have not succeeded a first one could be
  dispatched; and what has succeeded has written what the gate asks for.
- `CallersFirst`, from `Ordering`. A job does not depend on the jobs of its callers but on those of the
  last layer that has any, so the invariant `SpecsAwait` says that it waits for what is before it, or
  for a job that does. That layers put callers first is a fact about the graph (`CallersBefore`): in what
  the earlier layers leave, a function that nobody calls has no caller at all that is
  left, and where all are called every one has a recursion above it (`NoneFree`: follow callers to one
  with the fewest above it).
- `BatchesFit` is a fact about `Partition`: it drops no function and takes none twice, and a
  batch above the limits of a Worker (`MaxFunctions`, `TargetTokens`) is one function, which has to go
  somewhere. It follows from what every part of a cut is, the first batch of what is left (`CutRests`).

Model-checked only:

- the liveness properties `Ends` and `Completes`, outside the prover's reach;
- what the six runs that end in a violation show, which are counterexamples.

## 5. Not modelled, and why

- Incremental analyses (`baseline.py`, `incremental.py`, `pipeline.py noop`): what changed
  is a computation on diffs and text; their phases pass by the same transitions.
- Hashing, parsing, paths, Git's own behaviour and SQLite's atomicity are taken
  for what they promise; a write of `_atomic_json` or `os.replace` is one step.
- The inventory of a checkpoint is read at one moment, though the code reads it
  file by file; the object files with it.
- Heartbeats of a session at work, which renew the lock it has, and the JSON mirrors of
  jobs, taken to agree with their rows. The hazards that follow are listed with a note.
- Of the ticket: one left by an earlier, discarded analysis, which the snapshot copies and the
  mirror would put back; a hook already waiting for a file lock that a checkpoint replaces,
  which would get the lock of a file that is no more; hosts that give no session id.
- A resume that raises its heartbeat's error after the worktree was removed, with the record it leaves in
  the removed place; a resume whose worktree is gone and which turns to the user's
  project (`orchestrate.py:116`); the discard of a dispatch that fails (`orchestrate.py:147`).
- `Scheduler.clear_run`, which empties the ledger of an analysis, is a step of `Analysis`
  and not of `Scheduler`; `create_many` has no caller.
- Configuration, fingerprints and versions: taken to agree, so that no resume is refused for them.
- Source analysis, runners, preflight, prompts and formatting are text and process I/O.

## 6. Plan

1. *done* `Scheduler`, `JobLifecycle`, `SchedulerProofs`.
2. *done* `Checkpoint`, `CheckpointStore`, `CheckpointProofs`.
3. *done* `Analysis` with the durability of ledger and worktree, `AnalysisProofs`.
4. *done* `Sessions`: lock, lease, Stop hook and continuation, `SessionsProofs`.
5. *done* `Planner`: plans, batches, dispatch with tickets, gates.
6. *done* `SchedulerSerialProofs`, `AnalysisGateProofs`, `PlannerProofs`, `PlannerOrderProofs`:
   every safety property of the passing runs is a theorem.
7. Refinement of a promise by `Sessions` and by `Planner`, stated and proved as for the ledger and the store.
8. The JSON mirror of a job beside its row, in `Planner`; the incremental plan in `Analysis`.
