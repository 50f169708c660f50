---------------------------- MODULE JobLifecycle ----------------------------
(***************************************************************************)
(* What the ledger promises a Coordinator about one run's jobs, with no    *)
(* processes, leases, receipts or files: a job starts only when all its    *)
(* dependencies have succeeded and there is room, each start is a new      *)
(* attempt, and a succeeded or failed job never changes again.             *)
(***************************************************************************)
EXTENDS Integers, FiniteSets

CONSTANTS Jobs, Deps, Types, TypeCap, GlobalCap

VARIABLES
  status,   \* status[j]
  type,     \* type[j]: the job type, once j is created
  attempts  \* attempts[j]: how often j has been started

lifecycle == <<status, type, attempts>>

InStatus(s) == {j \in Jobs : status[j] = s}

Init ==
  /\ status = [j \in Jobs |-> "absent"]
  /\ type = [j \in Jobs |-> "phase_plan"]
  /\ attempts = [j \in Jobs |-> 0]

\* j moves from one of `before` to `after`, and no other job moves.
Move(j, before, after) ==
  /\ status[j] \in before
  /\ status' = [status EXCEPT ![j] = after]

Create(j) ==
  /\ Move(j, {"absent"}, "queued")
  /\ \E t \in Types[j] : type' = [type EXCEPT ![j] = t]
  /\ UNCHANGED attempts

Start(j) ==
  /\ \A d \in Deps[j] : status[d] = "succeeded"
  /\ Cardinality(InStatus("running")) < GlobalCap
  /\ Cardinality({k \in InStatus("running") : type[k] = type[j]}) < TypeCap[type[j]]
  /\ Move(j, {"queued"}, "running")
  /\ attempts' = [attempts EXCEPT ![j] = @ + 1]
  /\ UNCHANGED type

Succeed(j) == Move(j, {"running"}, "succeeded") /\ UNCHANGED <<type, attempts>>

Fail(j) ==
  /\ \E after \in {"retryable", "failed"} : Move(j, {"queued", "running"}, after)
  /\ UNCHANGED <<type, attempts>>

Retry(j) == Move(j, {"retryable"}, "queued") /\ UNCHANGED <<type, attempts>>

\* The leases of some running jobs have expired.
Requeue(lost) ==
  /\ lost \subseteq InStatus("running")
  /\ status' = [j \in Jobs |-> IF j \in lost THEN "queued" ELSE status[j]]
  /\ UNCHANGED <<type, attempts>>

Next ==
  \/ \E j \in Jobs : Create(j) \/ Start(j) \/ Succeed(j) \/ Fail(j) \/ Retry(j)
  \/ \E lost \in SUBSET Jobs : Requeue(lost)

Spec == Init /\ [][Next]_lifecycle
=============================================================================
