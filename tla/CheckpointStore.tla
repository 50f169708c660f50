--------------------------- MODULE CheckpointStore ---------------------------
(***************************************************************************)
(* What the checkpoint store promises: a checkpoint is taken as one step   *)
(* or not at all, the accepted one changes only when a new one is taken,   *)
(* and a worktree that was lost comes back as the accepted checkpoint.     *)
(***************************************************************************)
CONSTANTS Phases, Contents, Missing

VARIABLES
  accepted,  \* the checkpoint a resume starts from
  pending,   \* the checkpoint being taken
  work       \* the content of the worktree

store == <<accepted, pending, work>>

None == [phase |-> Missing, content |-> Missing]

Init ==
  /\ accepted = None /\ pending = None
  /\ work \in Contents

Begin ==
  /\ pending = None /\ work # Missing
  /\ \E ph \in Phases : pending' = [phase |-> ph, content |-> work]
  /\ UNCHANGED <<accepted, work>>

Accept ==
  /\ pending # None
  /\ accepted' = pending /\ pending' = None
  /\ UNCHANGED work

Abandon ==
  /\ pending' = None
  /\ UNCHANGED <<accepted, work>>

Write ==
  /\ work # Missing /\ work' \in Contents
  /\ UNCHANGED <<accepted, pending>>

Lose ==
  /\ work' = Missing
  /\ UNCHANGED <<accepted, pending>>

Restore ==
  /\ work = Missing /\ accepted # None
  /\ work' = accepted.content
  /\ UNCHANGED <<accepted, pending>>

Next == Begin \/ Accept \/ Abandon \/ Write \/ Lose \/ Restore

Spec == Init /\ [][Next]_store
=============================================================================
