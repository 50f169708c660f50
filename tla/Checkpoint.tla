----------------------------- MODULE Checkpoint -----------------------------
(***************************************************************************)
(* The checkpoint store of scripts/checkpoint.py: `commit` by the          *)
(* Coordinator, `validate` with its repair by whoever resumes or reports,  *)
(* and `rebuild_worktree` after the temporary worktree is gone.            *)
(*                                                                         *)
(* Every durable write is a step of its own, in the order of the code, and *)
(* a process may die before any of them.                                   *)
(*                                                                         *)
(* Abstracted: the inventory, its hashes and the object files are one      *)
(* content; a checkpoint id is the position of its row in the table, a     *)
(* manifest the id it names.  checkpoint/active.json, a copy no recovery   *)
(* reads, and the Git side of rebuild_worktree are left out.               *)
(***************************************************************************)
EXTENDS Integers, Sequences

CONSTANTS
  Phases,
  ManifestFile,  \* PHASE_NAMES: the file in phases/ a phase's manifest is put in
  Contents,      \* what an inventory of the worktree may find
  Missing,       \* a directory that is not there
  Overlap,       \* may a validation run while a commit is in progress?
  MaxRows        \* bound: no further checkpoint is begun with that many rows

Files == {ManifestFile[ph] : ph \in Phases}

ASSUME StoreAssumption ==
  /\ Missing \notin Contents /\ Missing \notin Phases
  /\ Overlap \in BOOLEAN
  /\ MaxRows \in Nat

VARIABLES
  work,      \* the worktree
  objects,   \* contents that are in the object store
  current,   \* the mirror current/
  rows,      \* the table checkpoints, in the order of rowid
  head,      \* HEAD; 0 if there is none
  manifest,  \* manifest[f]: the file f of phases/
  snapshot,  \* snapshot.json
  progress,  \* the checkpoint the mirror in the source project is labelled with
  at, new,   \* where commit stands, and the checkpoint it takes
  fixing, target, todo  \* where validate stands, what it accepted, what it has to rewrite

coordinator == <<at, new>>
validator   == <<fixing, target, todo>>
vars == <<work, objects, current, rows, head, manifest, snapshot, progress,
          coordinator, validator>>

Unsealed == -1  \* a manifest whose status is still "committing"
Absent   == 0

Row == [phase: Phases, content: Contents, prev: Nat, older: SUBSET Nat,
        status: {"committing", "complete"}]
Nothing == [phase |-> Missing, content |-> Missing, prev |-> 0, id |-> 0]

-----------------------------------------------------------------------------
Newest(S) == IF S = {} THEN 0 ELSE CHOOSE i \in S : \A j \in S : j <= i

Complete == {i \in DOMAIN rows : rows[i].status = "complete"}

\* The row and what previous_checkpoint_id leads to from it; row.older is kept
\* beside row.prev so that following the links needs no recursion.
Chain(i) == {i} \cup rows[i].older

\* Faulty: a HEAD whose row is still committing is believed.
UsableAnyway(i) == i

\* The row `commit` builds on and `validate` accepts: that of HEAD, and if it is
\* not complete _last_complete, the newest complete row of its chain or of all.
Usable(i) ==
  IF i = 0 \/ i \in Complete THEN i
  ELSE IF rows[i].older \cap Complete # {} THEN Newest(rows[i].older \cap Complete)
  ELSE Newest(Complete)

Accepted == Usable(head)

\* The manifest file of the checkpoint's own phase is its sealed manifest.
PhaseFileAgrees(i) == manifest[ManifestFile[rows[i].phase]] = i

\* validate finds nothing to repair.
Sound(i) == head = i /\ current = rows[i].content /\ PhaseFileAgrees(i)

\* Faulty: the accepted row itself is left out.
LatestBefore(i) ==
  {k \in rows[i].older \cap Complete :
     \A l \in rows[i].older \cap Complete : rows[l].phase = rows[k].phase => l <= k}

\* _rebuild_phase_manifests: the latest complete row of every phase of the chain.
LatestOfPhase(i) ==
  {k \in Chain(i) \cap Complete :
     \A l \in Chain(i) \cap Complete : rows[l].phase = rows[k].phase => l <= k}

Init ==
  /\ work \in Contents
  /\ objects = {} /\ current = Missing
  /\ rows = <<>> /\ head = 0
  /\ manifest = [f \in Files |-> Absent]
  /\ snapshot = 0
  /\ progress = 0
  /\ at = "idle" /\ new = Nothing
  /\ fixing = "idle" /\ target = 0 /\ todo = {}

-----------------------------------------------------------------------------
(* commit *)

\* Faulty: a checkpoint of a worktree that is gone.
BeginAnyway(ph) ==
  /\ at = "idle" /\ (fixing = "idle" \/ Overlap)
  /\ Len(rows) < MaxRows
  /\ new' = [phase |-> ph, content |-> work, prev |-> Accepted, id |-> 0]
  /\ objects' = objects \cup {work}
  /\ at' = "mirror"
  /\ UNCHANGED <<work, current, rows, head, manifest, snapshot, progress, validator>>

\* The inventory is read, and an object stored for each of its files.
Begin(ph) ==
  /\ at = "idle" /\ (fixing = "idle" \/ Overlap)
  /\ work # Missing /\ Len(rows) < MaxRows
  /\ new' = [phase |-> ph, content |-> work, prev |-> Accepted, id |-> 0]
  /\ objects' = objects \cup {work}
  /\ at' = "mirror"
  /\ UNCHANGED <<work, current, rows, head, manifest, snapshot, progress, validator>>

\* current/ is moved out of the way, by commit or by a repair ...
DropMirror ==
  /\ at = "mirror" \/ fixing = "mirror"
  /\ current # Missing
  /\ current' = Missing
  /\ UNCHANGED <<work, objects, rows, head, manifest, snapshot, progress,
                 coordinator, validator>>

\* ... and the one prepared beside it is moved in.
NewMirror ==
  /\ at = "mirror" /\ current = Missing
  /\ current' = new.content
  /\ at' = "manifest"
  /\ UNCHANGED <<work, objects, rows, head, manifest, snapshot, progress, new, validator>>

WriteManifest ==
  /\ at = "manifest"
  /\ manifest' = [manifest EXCEPT ![ManifestFile[new.phase]] = Unsealed]
  /\ at' = "row"
  /\ UNCHANGED <<work, objects, current, rows, head, snapshot, progress, new, validator>>

\* Faulty: the row is complete from the start, before HEAD names it.
InsertCompleteRow ==
  /\ at = "row"
  /\ rows' = Append(rows,
       [phase |-> new.phase, content |-> new.content, prev |-> new.prev,
        older |-> IF new.prev = 0 THEN {} ELSE Chain(new.prev),
        status |-> "complete"])
  /\ new' = [new EXCEPT !.id = Len(rows) + 1]
  /\ at' = "head"
  /\ UNCHANGED <<work, objects, current, head, manifest, snapshot, progress, validator>>

InsertRow ==
  /\ at = "row"
  /\ rows' = Append(rows,
       [phase |-> new.phase, content |-> new.content, prev |-> new.prev,
        older |-> IF new.prev = 0 THEN {} ELSE Chain(new.prev),
        status |-> "committing"])
  /\ new' = [new EXCEPT !.id = Len(rows) + 1]
  /\ at' = "head"
  /\ UNCHANGED <<work, objects, current, head, manifest, snapshot, progress, validator>>

WriteHead ==
  /\ at = "head"
  /\ head' = new.id
  /\ at' = "seal"
  /\ UNCHANGED <<work, objects, current, rows, manifest, snapshot, progress, new, validator>>

SealManifest ==
  /\ at = "seal"
  /\ manifest' = [manifest EXCEPT ![ManifestFile[new.phase]] = new.id]
  /\ at' = "snapshot"
  /\ UNCHANGED <<work, objects, current, rows, head, snapshot, progress, new, validator>>

\* Faulty: the mirror is published before the checkpoint is taken.
PublishEarly ==
  /\ at = "snapshot"
  /\ snapshot' = new.id
  /\ progress' = new.id
  /\ at' = "complete"
  /\ UNCHANGED <<work, objects, current, rows, head, manifest, new, validator>>

WriteSnapshot ==
  /\ at = "snapshot"
  /\ snapshot' = new.id
  /\ at' = "complete"
  /\ UNCHANGED <<work, objects, current, rows, head, manifest, progress, new, validator>>

\* The last durable write; the checkpoint is taken from here on.
MarkComplete ==
  /\ at = "complete"
  /\ rows' = [rows EXCEPT ![new.id].status = "complete"]
  /\ at' = "publish"
  /\ UNCHANGED <<work, objects, current, head, manifest, snapshot, progress, new, validator>>

\* publish_progress, if there is a worktree to copy: the mirror in the source
\* project is labelled with the checkpoint.
Publish ==
  /\ at = "publish"
  /\ progress' = IF work = Missing THEN progress ELSE new.id
  /\ at' = "idle" /\ new' = Nothing
  /\ UNCHANGED <<work, objects, current, rows, head, manifest, snapshot, validator>>

CommitDies ==
  /\ at # "idle"
  /\ at' = "idle" /\ new' = Nothing
  /\ UNCHANGED <<work, objects, current, rows, head, manifest, snapshot, progress, validator>>

-----------------------------------------------------------------------------
(* validate, with repair_current *)

\* Nothing is accepted without a complete row and all of its objects.
Validate ==
  /\ fixing = "idle" /\ (at = "idle" \/ Overlap)
  /\ Accepted # 0 /\ rows[Accepted].content \in objects
  /\ target' = Accepted
  /\ fixing' = IF Sound(Accepted) THEN "valid" ELSE "mirror"
  /\ UNCHANGED <<work, objects, current, rows, head, manifest, snapshot, progress,
                 coordinator, todo>>

RestoreMirror ==
  /\ fixing = "mirror" /\ current = Missing
  /\ current' = rows[target].content
  /\ todo' = LatestOfPhase(target)
  /\ fixing' = "manifests"
  /\ UNCHANGED <<work, objects, rows, head, manifest, snapshot, progress,
                 coordinator, target>>

\* The rows are visited newest first.
RestoreManifest ==
  /\ fixing = "manifests" /\ todo # {}
  /\ manifest' = [manifest EXCEPT ![ManifestFile[rows[Newest(todo)].phase]] = Newest(todo)]
  /\ todo' = todo \ {Newest(todo)}
  /\ UNCHANGED <<work, objects, current, rows, head, snapshot, progress,
                 coordinator, fixing, target>>

\* The files of no accepted phase are removed.
RemoveManifests ==
  /\ fixing = "manifests" /\ todo = {}
  /\ LET kept == {ManifestFile[rows[i].phase] : i \in LatestOfPhase(target)}
     IN  manifest' = [f \in Files |-> IF f \in kept THEN manifest[f] ELSE Absent]
  /\ fixing' = "head"
  /\ UNCHANGED <<work, objects, current, rows, head, snapshot, progress,
                 coordinator, target, todo>>

\* Faulty: the repair leaves HEAD at the checkpoint that was rolled back.
KeepHead ==
  /\ fixing = "head"
  /\ fixing' = "snapshot"
  /\ UNCHANGED <<work, objects, current, rows, head, manifest, snapshot, progress,
                 coordinator, target, todo>>

RestoreHead ==
  /\ fixing = "head"
  /\ head' = target
  /\ fixing' = "snapshot"
  /\ UNCHANGED <<work, objects, current, rows, manifest, snapshot, progress,
                 coordinator, target, todo>>

RestoreSnapshot ==
  /\ fixing = "snapshot"
  /\ snapshot' = target
  /\ fixing' = "valid"
  /\ UNCHANGED <<work, objects, current, rows, head, manifest, progress,
                 coordinator, target, todo>>

\* rebuild_worktree: the new worktree is filled from the mirror and compared
\* with the manifest.
Rebuild ==
  /\ fixing = "valid" /\ work = Missing
  /\ current = rows[target].content
  /\ work' = current
  /\ fixing' = "idle" /\ target' = 0 /\ todo' = {}
  /\ UNCHANGED <<objects, current, rows, head, manifest, snapshot, progress, coordinator>>

\* validate returns, or its process dies on the way.
ValidateEnds ==
  /\ fixing # "idle"
  /\ fixing' = "idle" /\ target' = 0 /\ todo' = {}
  /\ UNCHANGED <<work, objects, current, rows, head, manifest, snapshot, progress,
                 coordinator>>

-----------------------------------------------------------------------------
(* The environment *)

\* Workers write to the worktree, also while a checkpoint is taken.
Write ==
  /\ work # Missing /\ work' \in Contents
  /\ UNCHANGED <<objects, current, rows, head, manifest, snapshot, progress,
                 coordinator, validator>>

\* The temporary directory is cleaned.
Lose ==
  /\ work' = Missing
  /\ UNCHANGED <<objects, current, rows, head, manifest, snapshot, progress,
                 coordinator, validator>>

\* Somebody changes or removes the mirror while nobody is at work on it.
Damage ==
  /\ at = "idle" /\ fixing = "idle"
  /\ current' \in Contents \cup {Missing}
  /\ UNCHANGED <<work, objects, rows, head, manifest, snapshot, progress,
                 coordinator, validator>>

Next ==
  \/ \E ph \in Phases : Begin(ph)
  \/ DropMirror \/ NewMirror \/ WriteManifest \/ InsertRow \/ WriteHead
  \/ SealManifest \/ WriteSnapshot \/ MarkComplete \/ Publish \/ CommitDies
  \/ Validate \/ RestoreMirror \/ RestoreManifest \/ RemoveManifests
  \/ RestoreHead \/ RestoreSnapshot \/ Rebuild \/ ValidateEnds
  \/ Write \/ Lose \/ Damage

Spec == Init /\ [][Next]_vars
-----------------------------------------------------------------------------
(* Properties *)

Ids == {0} \cup DOMAIN rows

TypeOK ==
  /\ work \in Contents \cup {Missing}
  /\ objects \subseteq Contents
  /\ current \in Contents \cup {Missing}
  /\ rows \in Seq(Row)
  /\ head \in Ids
  /\ manifest \in [Files -> Int]
  /\ snapshot \in Ids
  /\ progress \in Ids
  /\ at \in {"idle", "mirror", "manifest", "row", "head", "seal", "snapshot", "complete",
             "publish"}
  /\ new \in [phase: Phases \cup {Missing}, content: Contents \cup {Missing},
              prev: Ids, id: Ids]
  /\ fixing \in {"idle", "mirror", "manifests", "head", "snapshot", "valid"}
  /\ target \in Ids
  /\ todo \subseteq DOMAIN rows

\* No checkpoint that was taken is ever skipped: each is the one a resume starts
\* from or an ancestor of it, whatever commits and repairs died in between.
NothingSkipped ==
  \A i \in Complete : Accepted # 0 /\ i \in Chain(Accepted)

\* "A half-written checkpoint rolls back to the prior complete database row and
\* reconstructs current": a validation that returns leaves HEAD and the mirror
\* at the checkpoint it accepted.
RepairedMirror ==
  fixing = "valid" =>
    /\ target = Accepted /\ head = target
    /\ current = rows[target].content

\* "The phase file and ledger copy must carry the same sealed manifest hash
\* before acceptance."
ManifestAgrees == fixing = "valid" => PhaseFileAgrees(target)

\* The mirror in the source project names a checkpoint that was taken and is not
\* ahead of the one a resume starts from: "published only from a sealed
\* checkpoint".
PublishedIsTaken ==
  progress # 0 => progress \in Complete /\ Accepted # 0 /\ progress \in Chain(Accepted)

\* The store, with all its files, implements the one that takes a checkpoint in
\* one step.
AcceptedRecord ==
  IF Accepted = 0 THEN [phase |-> Missing, content |-> Missing]
  ELSE [phase |-> rows[Accepted].phase, content |-> rows[Accepted].content]
PendingRecord ==
  IF at \in {"idle", "publish"} THEN [phase |-> Missing, content |-> Missing]
  ELSE [phase |-> new.phase, content |-> new.content]
Store ==
  INSTANCE CheckpointStore WITH accepted <- AcceptedRecord, pending <- PendingRecord
ImplementsStore == Store!Spec
=============================================================================
