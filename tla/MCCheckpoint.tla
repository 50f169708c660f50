---------------------------- MODULE MCCheckpoint ----------------------------
(* Small instances of Checkpoint: which phases share a manifest file.         *)
EXTENDS Checkpoint, TLC

CONSTANTS verification, verify_affected, finalize, c1, c2

ContentsAlike == Permutations(Contents)

\* The phases of one run have a file each; those of a full and of an incremental
\* run that verify put their manifests in the same file.
FilePerPhase == [ph \in Phases |-> ph]
SharedFile == [ph \in Phases |-> IF ph = verify_affected THEN verification ELSE ph]
=============================================================================
