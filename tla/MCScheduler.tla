----------------------------- MODULE MCScheduler -----------------------------
(* Small instances of Scheduler: which jobs there are and how they depend.    *)
EXTENDS Scheduler, TLC

CONSTANTS a, b, c, x, y, v, p1, p2

\* Processes are alike, and so are the members of a batch.
Alike == Permutations(Procs) \cup Permutations(Artifacts)

\* b waits for a; c is of a's type and runs beside b.  Each type has room for one
\* job and the two together for two.
ChainDeps == [j \in Jobs |-> IF j = b THEN {a} ELSE {}]
NoDeps    == [j \in Jobs |-> {}]
TwoTypes  == [j \in Jobs |-> IF j = b THEN {"spec_batch"} ELSE {"verify_function"}]
BatchOrBug == [j \in Jobs |-> {"verify_batch", "bug_validate"}]
CapOfOne  == [t \in JobTypes |-> 1]
Twice     == [j \in Jobs |-> 2]
NoOutputs == [j \in Jobs |-> {}]
AllOutputs == [j \in Jobs |-> Artifacts]
=============================================================================
