------------------------------ MODULE Analysis ------------------------------
(***************************************************************************)
(* The life of an analysis: scripts/orchestrate.py starts or continues it, *)
(* scripts/pipeline.py passes its phases, scripts/isolation.py keeps its   *)
(* snapshot worktree, and `rebuild_worktree` of scripts/checkpoint.py      *)
(* brings the worktree back.                                               *)
(*                                                                         *)
(* A command is the list of durable writes it makes, in the order of the   *)
(* code; its process may be killed before any of them.  The checkpoint is  *)
(* the accepted one of CheckpointStore, taken in one step.                 *)
(*                                                                         *)
(* Abstracted: the artifacts of a phase are the commit they were made for, *)
(* the jobs of a phase one entry of the ledger.  Inputs other than the     *)
(* commit do not change, so fingerprints, configurations and versions      *)
(* agree.  The Coordinator's lock is modelled in Sessions.                 *)
(***************************************************************************)
EXTENDS Integers, Sequences, FiniteSets

CONSTANTS
  Plan,      \* state.PHASES[mode], a sequence
  Cleanup,   \* the phase that clears what earlier analyses left
  Reads,     \* Reads[ph]: the phases whose artifacts the gate of ph looks at
  Stamped,   \* the phases whose artifacts name the snapshot commit
  WithJobs,  \* the phases whose work is scheduled as jobs
  None,      \* no commit, no phase
  MaxCommits, MaxTrees, MaxKills, MaxFailures
             \* bounds: commits of the user, worktrees, faults, reported failures

Phases  == {Plan[i] : i \in DOMAIN Plan}
Commits == 1 .. MaxCommits

ASSUME PlanAssumption ==
  /\ Plan \in Seq(Phases) /\ Plan # <<>>
  /\ Cleanup \in Phases /\ Reads \in [Phases -> SUBSET Phases]
  /\ MaxCommits \in Nat \ {0} /\ MaxTrees \in Nat /\ MaxKills \in Nat /\ MaxFailures \in Nat
  /\ \A i, j \in DOMAIN Plan : Plan[i] = Plan[j] => i = j
  /\ None \notin Phases /\ None \notin Commits

VARIABLES
  git,       \* HEAD of the user's project, and the refs active and baseline
  source,    \* what the user's project holds in fm_agent/ and fm_agent_skill/
  tree,      \* the snapshot worktree: the same, and its id and commit
  sealed,    \* the accepted checkpoint
  ledger,    \* ledger[ph]: the jobs of phase ph in state.db
  official,  \* checkpoint/official_result.json
  todo,      \* the durable writes the running command has still to make
  draft,     \* the record it is going to save
  session,   \* does a Coordinator work in the worktree?
  spent      \* what is used up of the bounds

vars == <<git, source, tree, sealed, ledger, official, todo, draft, session, spent>>

NoRecord == [run |-> 0, commit |-> None, status |-> "none", current |-> None,
             phases |-> [ph \in Phases |-> "none"]]
NoMarker == [tree |-> 0, seal |-> 0]
Empty    == [marker |-> NoMarker, record |-> NoRecord, receipts |-> {}, failed |-> 0,
             outputs |-> [ph \in Phases |-> None]]
Gone     == [id |-> 0, commit |-> None, dir |-> Empty]

Exists == tree.id # 0
Record == tree.dir.record

\* marker(source)["snapshot"] names a directory
Marked == Exists /\ source.marker.tree = tree.id

\* checkpoint.source_project: without its own marker a worktree, left by a discard or
\* a sync that was killed, keeps a checkpoint and a ledger of its own, not modelled.
Attached == tree.dir.marker # NoMarker

Passed(r)   == {ph \in Phases : r.phases[ph] = "succeeded"}
Position(ph) == CHOOSE i \in DOMAIN Plan : Plan[i] = ph
Before(ph)  == {Plan[i] : i \in 1 .. Position(ph) - 1}

\* The gates before the reset look only at what its own gate looks at, and so at
\* nothing that it clears; and not every gate passes without a look.
ASSUME GatesAssumption ==
  /\ \A ph \in Before(Cleanup) : Reads[ph] \subseteq Reads[Cleanup]
  /\ \E ph \in Phases : Reads[ph] # {}

\* Faulty: there is always a phase to go to.
SuccessorOrNone(ph) == IF Position(ph) < Len(Plan) THEN Plan[Position(ph) + 1] ELSE None

Successor(ph) == IF Position(ph) < Len(Plan) THEN Plan[Position(ph) + 1] ELSE ph

\* The first phase without a passed gate, or the last one: first_incomplete_phase.
NextPhase(r) ==
  IF Passed(r) = Phases THEN Plan[Len(Plan)]
  ELSE CHOOSE ph \in Phases \ Passed(r) : Before(ph) \subseteq Passed(r)

Current(ph) ==
  /\ tree.dir.outputs[ph] # None
  /\ ph \in Stamped => tree.dir.outputs[ph] = tree.commit

\* stage_gate.validate
Gate(ph) == \A q \in Reads[ph] : Current(q)

Init ==
  /\ git = [head |-> 1, active |-> None, baseline |-> None]
  /\ source = Empty /\ tree = Gone
  /\ sealed = [id |-> 0, dir |-> Empty]
  /\ ledger = [ph \in Phases |-> "none"]
  /\ official = FALSE
  /\ todo = <<>> /\ draft = NoRecord
  /\ session = FALSE
  /\ spent = [trees |-> 0, kills |-> 0, failures |-> 0]

-----------------------------------------------------------------------------
(* The durable writes *)

Idle == todo = <<>>
Doing(write) == ~Idle /\ Head(todo) = write

\* Faulty: the reset clears what its own gate reads.
KeptNone(outputs) == Empty.outputs

\* What reset_full_artifacts.reset leaves: phases.json, which its own gate reads.
Kept(outputs) == [ph \in Phases |-> IF ph \in Reads[Cleanup] THEN outputs[ph] ELSE None]

\* What a write w leaves in the snapshot worktree, in the user's project, ...
TreeAfter(w) ==
  CASE w = "worktree"  -> [Gone EXCEPT !.id = spent.trees + 1, !.commit = git.active]
    [] w = "copy"      -> [tree EXCEPT !.dir = source]
    [] w = "restore"   -> [tree EXCEPT !.dir = [sealed.dir EXCEPT !.marker = NoMarker, !.failed = 0]]
    [] w = "markTree"  -> [tree EXCEPT !.dir.marker =
                            [tree |-> tree.id, seal |-> IF draft = NoRecord THEN sealed.id ELSE 0]]
    [] w = "reset"     -> [tree EXCEPT !.dir.receipts = {}, !.dir.outputs = Kept(@)]
    [] w = "save"      -> [tree EXCEPT !.dir.record = draft]
    [] w = "unmark"    -> [tree EXCEPT !.dir.marker = NoMarker]
    [] w = "remove"    -> Gone
    [] OTHER           -> tree

SourceAfter(w) ==
  CASE w = "clearFailure" -> [source EXCEPT !.failed = 0]
    [] w = "markSource"   -> [source EXCEPT !.marker =
                               [tree |-> tree.id, seal |-> IF draft = NoRecord THEN sealed.id ELSE 0]]
    [] w = "mirror"       -> IF tree.dir.outputs = Empty.outputs THEN source
                             ELSE [tree.dir EXCEPT !.record = draft,
                                     !.failed = IF @ # 0 THEN @ ELSE source.failed]
    [] w = "report"       -> [source EXCEPT !.failed = draft.run]
    [] w = "empty"        -> [source EXCEPT !.outputs = Empty.outputs]
    [] w = "publish"      -> [source EXCEPT !.outputs = tree.dir.outputs]
    [] w = "unmarkSource" -> [source EXCEPT !.marker = NoMarker]
    [] OTHER              -> source

\* ... and in Git, the checkpoint and the ledger.
GitAfter(w) ==
  CASE w = "activate" -> [git EXCEPT !.active = draft.commit]
    [] w = "promote"  -> [git EXCEPT !.baseline = tree.commit]
    [] w = "release"  -> [git EXCEPT !.active = None]
    [] OTHER          -> git

SealedAfter(w) ==
  IF w = "seal" THEN [id |-> sealed.id + 1, dir |-> [tree.dir EXCEPT !.record = draft]]
  ELSE sealed

Write ==
  /\ ~Idle
  /\ LET w == Head(todo) IN
       /\ git' = GitAfter(w) /\ source' = SourceAfter(w)
       /\ tree' = TreeAfter(w) /\ sealed' = SealedAfter(w)
       /\ ledger' = IF w \in {"reset", "clear"} THEN [ph \in Phases |-> "none"] ELSE ledger
       /\ official' = (w = "authorize" \/ (official /\ w # "withdraw"))
       /\ spent' = IF w = "worktree" THEN [spent EXCEPT !.trees = @ + 1] ELSE spent
  /\ todo' = Tail(todo)
  /\ draft' = IF Tail(todo) = <<>> THEN NoRecord ELSE draft
  /\ UNCHANGED session

-----------------------------------------------------------------------------
(* orchestrate: a new session starts or continues an analysis *)

Run(writes, record) ==
  /\ todo' = writes /\ draft' = record
  /\ UNCHANGED <<git, source, tree, sealed, ledger, official, spent>>

\* dispatch looks for an analysis to continue if no setting is overridden.
Continuable == git.active # None /\ sealed.id # 0

Creation == <<"activate", "worktree", "copy", "clearFailure", "markSource", "markTree">>

\* create_snapshot, then `pipeline.py prepare`
Dispatch(overrides) ==
  /\ Idle /\ ~session /\ ~Marked
  /\ overrides \/ ~Continuable
  /\ spent.trees < MaxTrees
  /\ session' = TRUE
  /\ Run(Creation \o <<"withdraw", "save">>,
         [NoRecord EXCEPT !.run = spent.trees + 1, !.commit = git.head,
                          !.status = "running", !.current = Plan[1]])

\* rebuild_worktree, for a dispatch or a resume that finds no worktree
Rebuildable ==
  /\ ~Marked /\ git.active # None
  /\ sealed.id # 0 /\ sealed.dir.record.commit = git.active

Rebuild ==
  /\ Idle /\ ~session
  /\ Rebuildable /\ spent.trees < MaxTrees
  /\ Run(<<"worktree", "restore", "markTree", "markSource">>, NoRecord)
  /\ UNCHANGED session

\* state.inspect_resume, and the gates of the passed phases checked again
Resumable ==
  /\ Marked
  /\ Record.status \in {"running", "failed", "interrupted"}
  /\ tree.commit = Record.commit
  /\ \A ph \in Passed(Record) : Gate(ph)

\* What inspect_auto_resume asks on top of that, for a dispatch without overrides.
AutoResumable ==
  /\ Resumable
  /\ tree.commit = sealed.dir.record.commit
  /\ source.marker.seal \in {0, sealed.id}

\* A resume without a marked worktree, which turns to the user's project and what is
\* mirrored there, is left out.
Resume ==
  /\ Idle /\ ~session
  /\ Resumable
  /\ session' = TRUE
  /\ LET ph == NextPhase(Record) IN
     Run(IF Attached THEN <<"save", "clearFailure">> ELSE <<"save">>,
         [Record EXCEPT !.status = "running", !.current = ph, !.phases[ph] = "none"])

\* isolation.py discard in the user's project; it needs the marker of the
\* worktree that the project's marker names.
Discardable == source.marker # NoMarker /\ (Marked => Attached)

Discard ==
  /\ Idle /\ ~session
  /\ Discardable
  /\ Run(IF Marked THEN <<"unmark", "unmarkSource", "release", "remove">>
         ELSE <<"unmarkSource", "release">>, NoRecord)
  /\ UNCHANGED session

-----------------------------------------------------------------------------
(* pipeline: the Coordinator, and the Workers of its phases *)

Held == session /\ Idle /\ Exists /\ Attached

\* The Coordinator goes by current_phase: it starts a phase that has not passed, which
\* the command does not ask for (any phase whose predecessors passed may be started
\* again), and completes the one it started.
PhaseStart ==
  LET ph == Record.current IN
  /\ Held /\ ph \notin Passed(Record)
  /\ Record.phases[ph] # "running"
  /\ Before(ph) \subseteq Passed(Record)
  /\ Run(IF ph = Cleanup THEN <<"reset", "save">> ELSE <<"save">>,
         [Record EXCEPT !.phases[ph] = "running"])
  /\ UNCHANGED session

PlanJobs(ph) ==
  /\ Held /\ ph = Record.current /\ ph \in WithJobs
  /\ Record.status = "running" /\ ledger[ph] = "none"
  /\ ledger' = [ledger EXCEPT ![ph] = "open"]
  /\ UNCHANGED <<git, source, tree, sealed, official, todo, draft, session, spent>>

\* A Worker writes the artifacts of the phase, its jobs succeed ...
Produce(ph) ==
  /\ Held /\ ph = Record.current /\ Record.phases[ph] = "running"
  /\ ph \in WithJobs => ledger[ph] = "open"
  /\ tree' = [tree EXCEPT !.dir.outputs[ph] = tree.commit]
  /\ ledger' = IF ph \in WithJobs THEN [ledger EXCEPT ![ph] = "done"] ELSE ledger
  /\ UNCHANGED <<git, source, sealed, official, todo, draft, session, spent>>

\* ... and the scheduler writes the receipt of the phase.
PhaseReceipt(ph) ==
  /\ Held /\ ph = Record.current /\ ledger[ph] # "none"
  /\ tree' = [tree EXCEPT !.dir.receipts =
                IF ledger[ph] = "done" THEN @ \cup {ph} ELSE @ \ {ph}]
  /\ UNCHANGED <<git, source, sealed, ledger, official, todo, draft, session, spent>>

\* Faulty: a phase without jobs has to be joined as well.
JoinedAlways(ph) == ph \in tree.dir.receipts

\* phase_receipt_ready
Joined(ph) == ledger[ph] = "none" \/ ph \in tree.dir.receipts

\* Faulty: the record is saved before the checkpoint is taken.
SaveFirst == <<"save", "seal", "mirror">>

SealFirst == <<"seal", "mirror", "save">>

\* Faulty: a phase is completed without its gate.
PhaseCompleteUngated ==
  LET ph == Record.current IN
  /\ Held /\ Record.phases[ph] = "running"
  /\ Joined(ph)
  /\ Run(SealFirst, [Record EXCEPT !.phases[ph] = "succeeded", !.current = Successor(ph)])
  /\ UNCHANGED session

PhaseComplete ==
  LET ph == Record.current IN
  /\ Held /\ Record.phases[ph] = "running"
  /\ Joined(ph) /\ Gate(ph)
  /\ Run(SealFirst, [Record EXCEPT !.phases[ph] = "succeeded", !.current = Successor(ph)])
  /\ UNCHANGED session

Failure(record) ==
  /\ Held /\ spent.failures < MaxFailures
  /\ todo' = <<"withdraw">> \o SealFirst \o <<"report">>
  /\ draft' = record
  /\ spent' = [spent EXCEPT !.failures = @ + 1]
  /\ UNCHANGED <<git, source, tree, sealed, ledger, official, session>>

PhaseFail ==
  Failure([Record EXCEPT !.status = "failed", !.phases[Record.current] = "failed"])

Fail ==
  Failure([Record EXCEPT !.status =
             IF Record.phases[Record.current] = "failed" THEN "failed" ELSE "interrupted"])

\* isolation.sync
Sync == <<"promote", "unmark", "empty", "publish", "unmarkSource", "clearFailure",
          "release", "remove">>

\* Faulty: the result is official only when it has been returned.
CompleteLate ==
  /\ Held /\ tree.commit = Record.commit
  /\ Passed(Record) = Phases
  /\ \A ph \in Phases : ledger[ph] # "open"
  /\ Run(SealFirst \o <<"clear">> \o Sync \o <<"authorize">>,
         [Record EXCEPT !.status = "succeeded"])
  /\ UNCHANGED session

Complete ==
  /\ Held /\ tree.commit = Record.commit
  /\ Passed(Record) = Phases
  /\ \A ph \in Phases : ledger[ph] # "open"
  /\ Run(<<"authorize">> \o SealFirst \o <<"clear">> \o Sync,
         [Record EXCEPT !.status = "succeeded"])
  /\ UNCHANGED session

\* The Stop hook lets a session go that has failed or has returned its result.
Leave ==
  /\ session /\ Idle
  /\ ~Exists \/ ~Attached \/ Record.status \in {"failed", "interrupted", "succeeded"}
  /\ session' = FALSE
  /\ UNCHANGED <<git, source, tree, sealed, ledger, official, todo, draft, spent>>

-----------------------------------------------------------------------------
(* Faults, and the user *)

Killed == spent.kills < MaxKills /\ spent' = [spent EXCEPT !.kills = @ + 1]

\* The process of a command is killed, or the session ends between two.
Kill ==
  /\ ~Idle \/ session
  /\ Killed
  /\ todo' = <<>> /\ draft' = NoRecord /\ session' = FALSE
  /\ UNCHANGED <<git, source, tree, sealed, ledger, official>>

\* A step of create or rebuild_worktree raises: both undo what they did, and create
\* deletes the active ref also where it has not set it yet.
Undo ==
  /\ ~Idle /\ Head(todo) \in {"activate", "worktree", "copy", "restore", "clearFailure", "markSource",
                             "markTree"}
  /\ draft = NoRecord \/ Len(todo) > 2
  /\ Killed
  /\ tree' = IF Head(todo) \in {"activate", "worktree"} THEN tree ELSE Gone
  /\ git' = IF draft = NoRecord THEN git ELSE [git EXCEPT !.active = None]
  /\ todo' = <<>> /\ draft' = NoRecord /\ session' = FALSE
  /\ UNCHANGED <<source, sealed, ledger, official>>

\* The temporary directory is cleaned up.
LoseTree ==
  /\ Idle /\ ~session /\ Exists
  /\ Killed
  /\ tree' = Gone
  /\ UNCHANGED <<git, source, sealed, ledger, official, todo, draft, session>>

UserCommits ==
  /\ Idle /\ ~session
  /\ git.head < MaxCommits
  /\ git' = [git EXCEPT !.head = @ + 1]
  /\ UNCHANGED <<source, tree, sealed, ledger, official, todo, draft, session, spent>>

Working == \E ph \in Phases : PlanJobs(ph) \/ Produce(ph) \/ PhaseReceipt(ph)

Next ==
  \/ Write
  \/ \E overrides \in BOOLEAN : Dispatch(overrides)
  \/ Rebuild \/ Resume \/ Discard
  \/ PhaseStart \/ Working \/ PhaseComplete \/ PhaseFail \/ Fail \/ Complete \/ Leave
  \/ Kill \/ Undo \/ LoseTree \/ UserCommits

\* A command that runs is carried to its end, and the Coordinator goes on: the
\* Stop hook sends a session that stops back to work.  An analysis without a
\* session is continued by the user's next run.
Fairness ==
  /\ WF_vars(Write)
  /\ WF_vars(PhaseStart) /\ WF_vars(PhaseComplete) /\ WF_vars(Complete) /\ WF_vars(Leave)
  /\ \A ph \in Phases : /\ WF_vars(PlanJobs(ph)) /\ WF_vars(Produce(ph))
                        /\ WF_vars(PhaseReceipt(ph))
  /\ WF_vars(Resume) /\ WF_vars(Rebuild)

Spec == Init /\ [][Next]_vars /\ Fairness

-----------------------------------------------------------------------------
(* Properties *)

Records ==
  {NoRecord} \cup [run: 1 .. MaxTrees, commit: Commits,
                   status: {"running", "succeeded", "failed", "interrupted"}, current: Phases,
                   phases: [Phases -> {"none", "running", "succeeded", "failed"}]]
Dirs == [marker: [tree: 0 .. MaxTrees, seal: Nat], record: Records,
         receipts: SUBSET Phases, failed: 0 .. MaxTrees,
         outputs: [Phases -> Commits \cup {None}]]
Trees == [id: 0 .. MaxTrees, commit: Commits \cup {None}, dir: Dirs]

\* Every file and row has a value of its type.
TypeOK ==
  /\ git \in [head: Commits, active: Commits \cup {None}, baseline: Commits \cup {None}]
  /\ source \in Dirs
  /\ tree \in Trees
  /\ sealed \in [id: Nat, dir: Dirs]
  /\ ledger \in [Phases -> {"none", "open", "done"}]
  /\ official \in BOOLEAN /\ session \in BOOLEAN
  /\ draft \in Records
  /\ spent \in [trees: 0 .. MaxTrees, kills: 0 .. MaxKills, failures: 0 .. MaxFailures]

\* The worktree's record calls a phase passed only after the accepted checkpoint
\* has it: a kill or a lost worktree takes nothing back that was reported passed.
\* (pipeline.py:124, "only marked succeeded after durable HEAD is complete")
PassedIsSealed ==
  [][tree.dir # Empty => Passed(Record') \subseteq Passed(Record) \cup Passed(sealed.dir.record)]_vars

\* The artifacts behind every passed gate are in the worktree while a Coordinator
\* works in it, also after the reset, a resume, or a rebuild from the checkpoint.
PassedHasOutputs == Held => \A ph \in Passed(Record) : Gate(ph)

\* An official result means that the accepted checkpoint has passed every phase,
\* on artifacts of its own snapshot commit and not on those of an earlier analysis.
OfficialIsComplete ==
  official =>
    /\ Passed(sealed.dir.record) = Phases
    /\ \A ph \in Phases : \A q \in Reads[ph] :
         /\ sealed.dir.outputs[q] # None
         /\ q \in Stamped => sealed.dir.outputs[q] = sealed.dir.record.commit

\* The baseline ref is moved only to the commit of an official result.
BaselineIsOfficial ==
  [][git'.baseline # git.baseline =>
       official /\ git'.baseline = sealed.dir.record.commit]_vars

\* The work of the current phase can go on: what the ledger calls done is there.
LedgerMatches ==
  Held /\ ledger[Record.current] = "done" => Current(Record.current)

\* A pending analysis without a session can be continued.
CanGoOn ==
  Idle /\ ~session /\ git.active # None =>
    (Resumable /\ Attached) \/ (Rebuildable /\ spent.trees < MaxTrees)

\* An analysis that can always go on comes to its end, however often its
\* commands are killed, its phases fail and its worktree is lost within the bounds.
Ends == [](CanGoOn /\ LedgerMatches) => (git.active # None ~> git.active = None)

\* "An ordinary `orchestrate.py dispatch` automatically continues when the active
\* Git ref, checkpoint snapshot, fingerprint, saved configuration, runtime version,
\* and Worker-definition hash match and no unexpired Coordinator lease exists."
\* (references/durable-execution.md:44)
DispatchContinues ==
  Idle /\ ~session /\ Continuable /\ Resumable /\ tree.commit = git.active
       /\ sealed.dir.record.commit = git.active => AutoResumable
=============================================================================
