------------------------------ MODULE Scheduler ------------------------------
(***************************************************************************)
(* The durable job ledger of scripts/scheduler.py: the SQLite tables jobs, *)
(* leases, attempts and receipts, the artifact files the Workers write,    *)
(* and the processes that call the script.                                 *)
(*                                                                         *)
(* Every call of scheduler.py is a process of its own.  One SQLite         *)
(* transaction is one step here, and what a call does between two of its   *)
(* transactions it does with the copy of the job it read before: `held[p]` *)
(* is that copy.  A process may be killed between any two of its steps.    *)
(*                                                                         *)
(* Abstracted: texts, timestamps and paths; the jobs/<id>.json mirror,     *)
(* which no transition reads; jobs imported from runs older than the       *)
(* ledger (legacy_contract).  input_hash is determined by a job's          *)
(* remaining artifacts, so that set stands for it.                         *)
(***************************************************************************)
EXTENDS Integers, FiniteSets

CONSTANTS
  Jobs,          \* job ids
  NoJob,         \* what an idle process works on
  Deps,          \* Deps[j]: depends_on
  Types,         \* Types[j]: the job types j may be created with
  TypeCap,       \* TypeCap[t]: the concurrency configured for type t
  GlobalCap,     \* max_active_subagents
  MaxAttempts,   \* MaxAttempts[j]: max_attempts
  MaxNegative,   \* MaxNegative[j]: negative_max_attempts
  Artifacts,     \* artifact ids
  Assigned,      \* Assigned[j]: the artifacts the job is created with
  Valid,         \* file contents that pass validation
  Procs,         \* processes that may call the scheduler at the same time
  MaxClaims      \* bound: no attempt number above it is ever started

Statuses == {"absent", "queued", "running", "retryable", "failed", "succeeded"}
JobTypes == {"phase_plan", "phase_refine", "domain_context", "resolve_agent_static_edges",
             "spec_batch", "verify_function", "verify_batch", "bug_validate",
             "select_relevant_modules", "select_relevant_files", "incremental_spec_plan",
             "reconcile_caller_info"}
Contents == Valid \cup {"missing", "malformed"}
Reports  == {"accepted", "negative", "malformed"}
RetryableFailures == {"execution", "output", "interrupted"}
FailureClasses    == RetryableFailures \cup {"input", "semantic", "cancelled"}
Labels   == {"idle", "claim", "receipt", "save", "recover"}

ASSUME ConstantsAssumption ==
  /\ NoJob \notin Jobs
  /\ Deps \in [Jobs -> SUBSET Jobs]
  /\ \A j \in Jobs : j \notin Deps[j]
  /\ IsFiniteSet(Jobs)
  /\ Types \in [Jobs -> SUBSET JobTypes]
  /\ GlobalCap \in Nat /\ MaxClaims \in Nat
  /\ TypeCap \in [JobTypes -> Nat]
  /\ MaxAttempts \in [Jobs -> Nat \ {0}]
  /\ MaxNegative \in [Jobs -> Nat \ {0}]
  /\ Assigned \in [Jobs -> SUBSET Artifacts]
  /\ {"missing", "malformed"} \cap Valid = {}

VARIABLES
  row,        \* row[j]: the jobs table, columns and payload_json together
  remaining,  \* remaining[j]: the remaining_dependencies column
  lease,      \* lease[j]: the leases table; attempt 0 is "no lease"
  claims,     \* the attempts table, primary key (job, attempt)
  receipts,   \* the receipts table, primary key (job, attempt)
  file,       \* file[a]: the content of an artifact in the worktree
  at,         \* at[p]: where process p stands in the call it executes
  held,       \* held[p]: the job p read, as p will write it back
  scan        \* scan[p]: the running jobs `recover` has read and not handled

vars == <<row, remaining, lease, claims, receipts, file, at, held, scan>>

Row == [status: Statuses, type: JobTypes, attempts: Nat, artifacts: SUBSET Artifacts,
        completed: SUBSET Artifacts, invalid: SUBSET Artifacts,
        negatives: Nat, runtime: Nat]
NoLease == [attempt |-> 0, live |-> FALSE]
Blank   == [status |-> "absent", type |-> "phase_plan", attempts |-> 0, artifacts |-> {},
            completed |-> {}, invalid |-> {}, negatives |-> 0, runtime |-> 0]
Nothing == [job |-> NoJob, copy |-> Blank, report |-> "malformed"]

-----------------------------------------------------------------------------
(* The ledger's own arithmetic *)

\* Dependencies of j that have not succeeded; one that does not exist counts.
Unmet(j, rows) == {d \in Deps[j] : rows[d].status # "succeeded"}

Running(rows) == {j \in Jobs : rows[j].status = "running"}

\* Faulty: room is found when the cap is reached already.
AdmitsOneTooMany(j, rows) ==
  /\ Cardinality(Running(rows)) <= GlobalCap
  /\ Cardinality({k \in Running(rows) : rows[k].type = rows[j].type}) <= TypeCap[rows[j].type]

\* _admission_error finds room for j among the jobs running in `rows`.
Admits(j, rows) ==
  /\ Cardinality(Running(rows)) < GlobalCap
  /\ Cardinality({k \in Running(rows) : rows[k].type = rows[j].type}) < TypeCap[rows[j].type]

\* Faulty: the failure class is stored as the status.
FailedStoresClass(j, job, class) == [job EXCEPT !.status = class]

\* Faulty: one retry beyond the budget.
FailedOneTooMany(j, job, class) ==
  [job EXCEPT !.runtime = @ + 1,
              !.status = IF job.runtime + 1 <= MaxAttempts[j] THEN "retryable" ELSE "failed"]

\* _fail: what a failure of some class makes of a job.
Failed(j, job, class) ==
  LET retryable == class \in RetryableFailures
      counted == job.type = "bug_validate" /\ retryable
      runs    == IF counted THEN job.runtime + 1 ELSE job.runtime
      spent   == IF counted THEN runs ELSE job.attempts
  IN  [job EXCEPT !.runtime = runs,
                  !.status = IF retryable /\ spent < MaxAttempts[j]
                             THEN "retryable" ELSE "failed"]

Unusable(job) == {a \in job.artifacts : file[a] \notin Valid}

\* _validate names the invalid members of a batch in the job it is given, but
\* returns before it gets there when an output is missing.
Validated(job) ==
  IF /\ job.type = "verify_batch"
     /\ Unusable(job) # {}
     /\ \A a \in job.artifacts : file[a] # "missing"
  THEN [job EXCEPT !.invalid = Unusable(job)]
  ELSE job

\* Faulty: the members completed in earlier attempts are overwritten.
ShrunkForgets(job) ==
  [job EXCEPT !.completed = job.artifacts \ job.invalid,
              !.artifacts = @ \cap job.invalid]

\* A batch keeps the members not named invalid and owes only the others.
Shrunk(job) ==
  [job EXCEPT !.completed = @ \cup (job.artifacts \ job.invalid),
              !.artifacts = @ \cap job.invalid]

\* What `complete` makes of a running job and the Worker's report.
Completed(j, job, report) ==
  LET seen == IF report = "malformed" THEN job ELSE Validated(job)
  IN  IF report = "malformed" \/ Unusable(job) # {}
      THEN Failed(j, IF job.type = "verify_batch" /\ seen.invalid # {}
                     THEN Shrunk(seen) ELSE seen, "output")
      ELSE IF job.type = "bug_validate" /\ report = "negative"
      THEN [job EXCEPT !.negatives = @ + 1,
                       !.status = IF job.negatives + 1 < MaxNegative[j]
                                  THEN "retryable" ELSE "succeeded"]
      ELSE [job EXCEPT !.status = "succeeded"]

\* Faulty: the jobs that depend on a succeeded one are not told.
PersistWakesNobody(j, job) ==
  /\ row' = [row EXCEPT ![j] = job]
  /\ remaining' = [remaining EXCEPT ![j] = Cardinality(Unmet(j, row))]
  /\ lease' = IF job.status = "running" THEN lease ELSE [lease EXCEPT ![j] = NoLease]

\* Faulty: every save drops the lease, the one of a job that starts included.
PersistDropsLease(j, job) ==
  /\ row' = [row EXCEPT ![j] = job]
  /\ remaining' = remaining
  /\ lease' = [lease EXCEPT ![j] = NoLease]

\* _persist: write `job` over the row of j, whatever the row is by now.
Persist(j, job) ==
  LET wakes == row[j].status \notin {"absent", "succeeded"} /\ job.status = "succeeded"
  IN  /\ row' = [row EXCEPT ![j] = job]
      /\ remaining' =
           [k \in Jobs |->
              IF k = j THEN Cardinality(Unmet(j, row))
              ELSE IF wakes /\ j \in Deps[k] /\ row[k].status # "absent"
                   THEN Cardinality(Unmet(k, row'))
                   ELSE remaining[k]]
      /\ lease' = IF job.status = "running" THEN lease ELSE [lease EXCEPT ![j] = NoLease]

\* _expire_leases: one transaction over every lease whose time is up.
Overdue == {j \in Jobs : lease[j] # NoLease /\ ~lease[j].live}
ExpiredRows ==
  [j \in Jobs |-> IF j \in Overdue /\ row[j].status = "running"
                  THEN [row[j] EXCEPT !.status = "queued"] ELSE row[j]]
ExpireLeases ==
  /\ row' = ExpiredRows
  /\ lease' = [j \in Jobs |-> IF j \in Overdue THEN NoLease ELSE lease[j]]
  /\ claims' = {IF c.job \in Overdue /\ row[c.job].status = "running"
                     /\ c.attempt = row[c.job].attempts
                THEN [c EXCEPT !.status = "expired"] ELSE c : c \in claims}

HasClaim(j, n)   == \E c \in claims : c.job = j /\ c.attempt = n
HasReceipt(j, n) == \E r \in receipts : r.job = j /\ r.attempt = n

-----------------------------------------------------------------------------
(* Processes *)

Idle(p) == at[p] = "idle"

\* p goes on to `label` holding `job`, which it has read as the row of j.
Hold(p, label, j, job, report) ==
  /\ at' = [at EXCEPT ![p] = label]
  /\ held' = [held EXCEPT ![p] = [job |-> j, copy |-> job, report |-> report]]

\* The call of p returns, or fails with an error.
Return(p) ==
  /\ at' = [at EXCEPT ![p] = "idle"]
  /\ held' = [held EXCEPT ![p] = Nothing]

Init ==
  /\ row = [j \in Jobs |-> Blank]
  /\ remaining = [j \in Jobs |-> 0]
  /\ lease = [j \in Jobs |-> NoLease]
  /\ claims = {} /\ receipts = {}
  /\ file = [a \in Artifacts |-> "missing"]
  /\ at = [p \in Procs |-> "idle"]
  /\ held = [p \in Procs |-> Nothing]
  /\ scan = [p \in Procs |-> {}]

\* create, up to its transaction: the job does not exist yet.
Create(p, j, type) ==
  /\ Idle(p) /\ row[j].status = "absent" /\ type \in Types[j]
  /\ Hold(p, "save", j,
          [Blank EXCEPT !.status = "queued", !.type = type, !.artifacts = Assigned[j]],
          "malformed")
  /\ UNCHANGED <<row, remaining, lease, claims, receipts, file, scan>>

\* ready and admissible: both requeue the overdue jobs before they read.
Ready(p) ==
  /\ Idle(p)
  /\ ExpireLeases
  /\ UNCHANGED <<remaining, receipts, file, at, held, scan>>

\* start, up to its first transaction: j is ready and there is room for it.
Start(p, j) ==
  /\ Idle(p)
  /\ row[j].status = "queued" /\ remaining[j] = 0
  /\ row[j].attempts < MaxClaims
  /\ Admits(j, ExpiredRows)
  /\ ExpireLeases
  /\ Hold(p, "claim", j, [row[j] EXCEPT !.status = "running", !.attempts = @ + 1],
          "malformed")
  /\ UNCHANGED <<remaining, receipts, file, scan>>

\* Faulty: an attempt that is claimed already is claimed again.
ClaimAgain(p) ==
  LET j == held[p].job  n == held[p].copy.attempts
  IN  /\ at[p] = "claim"
      /\ lease' = [lease EXCEPT ![j] = [attempt |-> n, live |-> TRUE]]
      /\ claims' = claims \cup {[job |-> j, attempt |-> n, status |-> "running"]}
      /\ at' = [at EXCEPT ![p] = "save"]
      /\ UNCHANGED <<row, remaining, receipts, file, held, scan>>

\* start's first transaction: the lease and the attempts row, never the job row.
Claim(p) ==
  LET j == held[p].job  n == held[p].copy.attempts
  IN  /\ at[p] = "claim"
      /\ row[j].status = "queued" /\ row[j].attempts + 1 = n
      /\ ~HasClaim(j, n)
      /\ lease' = [lease EXCEPT ![j] = [attempt |-> n, live |-> TRUE]]
      /\ claims' = claims \cup {[job |-> j, attempt |-> n, status |-> "running"]}
      /\ at' = [at EXCEPT ![p] = "save"]
      /\ UNCHANGED <<row, remaining, receipts, file, held, scan>>

\* The job moved since it was read, or its attempt has been claimed before.
ClaimRefused(p) ==
  LET j == held[p].job  n == held[p].copy.attempts
  IN  /\ at[p] = "claim"
      /\ \/ row[j].status # "queued" \/ row[j].attempts + 1 # n
         \/ HasClaim(j, n)
      /\ Return(p)
      /\ UNCHANGED <<row, remaining, lease, claims, receipts, file, scan>>

\* Faulty: a job that is not running can be completed.
CompleteAny(p, j, report) ==
  /\ Idle(p) /\ row[j].status \notin {"absent", "succeeded"}
  /\ Hold(p, "receipt", j, [row[j] EXCEPT !.status = "succeeded"], report)
  /\ UNCHANGED <<row, remaining, lease, claims, receipts, file, scan>>

\* Faulty: the status is saved and no receipt is written.
CompleteUnreceipted(p, j, report) ==
  /\ Idle(p) /\ row[j].status = "running"
  /\ Hold(p, "save", j, Completed(j, row[j], report), "malformed")
  /\ UNCHANGED <<row, remaining, lease, claims, receipts, file, scan>>

\* complete, up to its first transaction.
Complete(p, j, report) ==
  LET outcome == Completed(j, row[j], report)
  IN  /\ Idle(p) /\ row[j].status = "running"
      /\ report = "negative" => row[j].type = "bug_validate"
      /\ IF outcome.status = "succeeded"
         THEN Hold(p, "receipt", j, outcome, report)
         ELSE Hold(p, "save", j, outcome, "malformed")
      /\ UNCHANGED <<row, remaining, lease, claims, receipts, file, scan>>

\* _artifact_identity of the files as they are now.
Identity(arts) == [a \in Artifacts |-> IF a \in arts THEN file[a] ELSE "missing"]

HeldReceipt(p) ==
  [job |-> held[p].job, attempt |-> held[p].copy.attempts,
   input |-> held[p].copy.artifacts, content |-> Identity(held[p].copy.artifacts),
   report |-> held[p].report]

\* Faulty: a second receipt of an attempt is written beside the first.
RecordReceiptAgain(p) ==
  /\ at[p] = "receipt"
  /\ receipts' = receipts \cup {HeldReceipt(p)}
  /\ at' = [at EXCEPT ![p] = "save"]
  /\ UNCHANGED <<row, remaining, lease, claims, file, held, scan>>

\* _record_receipt: a receipt this attempt already has is accepted again when
\* it is identical and is refused otherwise.
RecordReceipt(p) ==
  LET j == held[p].job  n == held[p].copy.attempts
  IN  /\ at[p] = "receipt"
      /\ HasReceipt(j, n) => HeldReceipt(p) \in receipts
      /\ receipts' = receipts \cup {HeldReceipt(p)}
      /\ claims' = IF HasReceipt(j, n) THEN claims
                   ELSE {IF c.job = j /\ c.attempt = n
                         THEN [c EXCEPT !.status = "succeeded"] ELSE c : c \in claims}
      /\ at' = [at EXCEPT ![p] = "save"]
      /\ UNCHANGED <<row, remaining, lease, file, held, scan>>

ReceiptRefused(p) ==
  /\ at[p] = "receipt"
  /\ HasReceipt(held[p].job, held[p].copy.attempts)
  /\ HeldReceipt(p) \notin receipts
  /\ Return(p)
  /\ UNCHANGED <<row, remaining, lease, claims, receipts, file, scan>>

\* fail, up to its transaction.
Fail(p, j, class) ==
  /\ Idle(p) /\ row[j].status \in {"queued", "running"}
  /\ Hold(p, "save", j, Failed(j, row[j], class), "malformed")
  /\ UNCHANGED <<row, remaining, lease, claims, receipts, file, scan>>

\* retry, up to its transaction.
Retry(p, j) ==
  /\ Idle(p) /\ row[j].status = "retryable"
  /\ Hold(p, "save", j, [row[j] EXCEPT !.status = "queued"], "malformed")
  /\ UNCHANGED <<row, remaining, lease, claims, receipts, file, scan>>

\* _save, the last transaction of create, start, complete, fail and retry.
Save(p) ==
  /\ at[p] = "save"
  /\ Persist(held[p].job, held[p].copy)
  /\ Return(p)
  /\ UNCHANGED <<claims, receipts, file, scan>>

\* recover reads every running job ...
Recover(p) ==
  /\ Idle(p) /\ Running(row) # {}
  /\ at' = [at EXCEPT ![p] = "recover"]
  /\ scan' = [scan EXCEPT ![p] = {[job |-> j, copy |-> row[j]] : j \in Running(row)}]
  /\ UNCHANGED <<row, remaining, lease, claims, receipts, file, held>>

\* ... and fails each as interrupted: none has "a completed Coordinator receipt".
RecoverJob(p) ==
  \E s \in scan[p] :
    /\ at[p] = "recover"
    /\ Persist(s.job, Failed(s.job, Validated(s.copy), "interrupted"))
    /\ scan' = [scan EXCEPT ![p] = @ \ {s}]
    /\ at' = [at EXCEPT ![p] = IF scan[p] = {s} THEN "idle" ELSE "recover"]
    /\ UNCHANGED <<claims, receipts, file, held>>

\* heartbeat_lease, of the attempt the lease belongs to.
Heartbeat(p, j) ==
  /\ Idle(p) /\ lease[j] # NoLease
  /\ lease' = [lease EXCEPT ![j].live = TRUE]
  /\ UNCHANGED <<row, remaining, claims, receipts, file, at, held, scan>>

\* The process is killed between two transactions.
Crash(p) ==
  /\ ~Idle(p)
  /\ Return(p)
  /\ scan' = [scan EXCEPT ![p] = {}]
  /\ UNCHANGED <<row, remaining, lease, claims, receipts, file>>

-----------------------------------------------------------------------------
(* The environment *)

LeaseTimeout(j) ==
  /\ lease[j].live
  /\ lease' = [lease EXCEPT ![j].live = FALSE]
  /\ UNCHANGED <<row, remaining, claims, receipts, file, at, held, scan>>

\* A Worker of any attempt ever started may write, the latest one or a late one.
WorkerWrite(j, a, c) ==
  /\ a \in Assigned[j] /\ \E d \in claims : d.job = j
  /\ file[a] # c
  /\ file' = [file EXCEPT ![a] = c]
  /\ UNCHANGED <<row, remaining, lease, claims, receipts, at, held, scan>>

Next ==
  \/ \E p \in Procs, j \in Jobs :
       \/ \E type \in JobTypes : Create(p, j, type)
       \/ Start(p, j) \/ Retry(p, j) \/ Heartbeat(p, j)
       \/ \E report \in Reports : Complete(p, j, report)
       \/ \E class \in FailureClasses : Fail(p, j, class)
  \/ \E p \in Procs :
       \/ Ready(p) \/ Claim(p) \/ ClaimRefused(p) \/ RecordReceipt(p)
       \/ ReceiptRefused(p) \/ Save(p) \/ Recover(p) \/ RecoverJob(p) \/ Crash(p)
  \/ \E j \in Jobs : LeaseTimeout(j)
  \/ \E j \in Jobs, a \in Artifacts, c \in Contents \ {"missing"} : WorkerWrite(j, a, c)

Spec == Init /\ [][Next]_vars
-----------------------------------------------------------------------------
(* Properties *)

TypeOK ==
  /\ row \in [Jobs -> Row]
  /\ remaining \in [Jobs -> Nat]
  /\ lease \in [Jobs -> [attempt: Nat, live: BOOLEAN]]
  /\ claims \subseteq [job: Jobs, attempt: Nat, status: {"running", "expired", "succeeded"}]
  /\ receipts \subseteq [job: Jobs, attempt: Nat, input: SUBSET Artifacts,
                         content: [Artifacts -> Contents], report: Reports]
  /\ file \in [Artifacts -> Contents]
  /\ at \in [Procs -> Labels]
  /\ held \in [Procs -> [job: Jobs \cup {NoJob}, copy: Row, report: Reports]]
  /\ \A p \in Procs : at[p] \in {"claim", "receipt", "save"} => held[p].job \in Jobs
  /\ scan \in [Procs -> SUBSET [job: Jobs, copy: Row]]

(* What holds however many processes call the scheduler at once. *)

\* Of two processes that start the same job only one goes on to run it, so no
\* two Workers are sent out for one attempt (the primary key of attempts).
NoDoubleClaim ==
  \A p, q \in Procs :
    /\ at[p] = "save" /\ held[p].copy.status = "running"
    /\ at[q] = "save" /\ held[q].copy.status = "running"
    /\ held[p].job = held[q].job
    => p = q

\* A running job runs the latest attempt ever claimed for it, and its lease, if
\* it still has one, is that attempt's: a heartbeat or an expiry never acts on
\* another attempt than the one that is running.
RunIsLatestClaim ==
  \A j \in Jobs : row[j].status = "running" =>
    /\ HasClaim(j, row[j].attempts)
    /\ \A c \in claims : c.job = j => c.attempt <= row[j].attempts
    /\ lease[j] # NoLease => lease[j].attempt = row[j].attempts

\* A job is succeeded only once the receipt of its attempt, for the inputs the
\* job has, is durable: complete writes the receipt first.
SucceededHasReceipt ==
  \A j \in Jobs : row[j].status = "succeeded" =>
    \E r \in receipts : /\ r.job = j /\ r.attempt = row[j].attempts
                        /\ r.input = row[j].artifacts
                        /\ r.report \in {"accepted", "negative"}

\* One attempt has one receipt: a second, different one is refused.
OneReceiptPerAttempt ==
  \A r, s \in receipts : r.job = s.job /\ r.attempt = s.attempt => r = s

\* However often a batch is shrunk and retried it neither loses nor repeats a
\* member, and an unfinished job always owes one.
NoMemberLost ==
  \A j \in Jobs : row[j].status # "absent" =>
    /\ row[j].artifacts \cup row[j].completed = Assigned[j]
    /\ row[j].artifacts \cap row[j].completed = {}
    /\ row[j].artifacts = {} => Assigned[j] = {}

\* A Bug Validator job that can still run has some of its negative and of its
\* runtime budget left, and never has spent more than either.
BugBudgetKept ==
  \A j \in Jobs : row[j].type = "bug_validate" =>
    /\ row[j].negatives <= MaxNegative[j] /\ row[j].runtime <= MaxAttempts[j]
    /\ row[j].status \in {"queued", "running", "retryable"} =>
         row[j].negatives < MaxNegative[j] /\ row[j].runtime < MaxAttempts[j]

(* What holds when one Coordinator makes every call, one after the other,     *)
(* and may be killed anywhere.                                                *)

\* A running job can be reclaimed: it has a lease that can expire.
RunningHasLease ==
  \A j \in Jobs : row[j].status = "running" => lease[j] # NoLease

\* The cached dependency count agrees with the statuses it was computed from.
RemainingAccurate ==
  \A j \in Jobs : row[j].status # "absent" =>
    remaining[j] = Cardinality(Unmet(j, row))

\* Never more running jobs than the global cap or than their type's.
WithinCapacity ==
  /\ Cardinality(Running(row)) <= GlobalCap
  /\ \A t \in JobTypes : Cardinality({j \in Running(row) : row[j].type = t}) <= TypeCap[t]

\* The ledger implements the abstract life of a job.
Status   == [j \in Jobs |-> row[j].status]
Type     == [j \in Jobs |-> row[j].type]
Attempts == [j \in Jobs |-> row[j].attempts]
Lifecycle ==
  INSTANCE JobLifecycle WITH status <- Status, type <- Type, attempts <- Attempts
ImplementsLifecycle == Lifecycle!Spec

(* What the documentation or a message of the program says and the code does  *)
(* not do.                                                                    *)

\* "Claim a job and lease atomically": with no call in progress, no queued job
\* has its next attempt claimed already (such a job can never be started).
ClaimIsAtomic ==
  (\A p \in Procs : Idle(p)) =>
    \A j \in Jobs : row[j].status = "queued" => ~HasClaim(j, row[j].attempts + 1)

\* "valid completed output is accepted": recover does not take a job whose
\* outputs are all valid away from its Worker.
RecoverAcceptsValid ==
  [][\A p \in Procs : \A s \in scan[p] :
       s \notin scan'[p] /\ row[s.job].status = "running" /\ Unusable(s.copy) = {}
       => row'[s.job].status \in {"running", "succeeded"}]_vars

\* "requeues the same job until its configured attempt limit is reached".
AttemptLimitKept ==
  \A j \in Jobs : row[j].type # "bug_validate" => row[j].attempts <= MaxAttempts[j]

\* "Preserve valid members of a partially invalid batch": a member is put among
\* the completed ones only when its result is valid at that moment.
KeptMembersAreValid ==
  [][\A p \in Procs : Idle(p) /\ at'[p] = "save" =>
       \A a \in held'[p].copy.completed \ row[held'[p].job].completed :
         file[a] \in Valid]_vars
=============================================================================
