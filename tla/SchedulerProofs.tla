--------------------------- MODULE SchedulerProofs ---------------------------
(***************************************************************************)
(* Proofs about Scheduler that hold for any set of jobs and any number of  *)
(* processes calling the scheduler at the same time.                       *)
(***************************************************************************)
EXTENDS Scheduler, FiniteSetTheorems, TLAPS

-----------------------------------------------------------------------------
(* The operators keep their types *)

\* remaining_dependencies is a number: a job has finitely many dependencies.
LEMMA UnmetNat ==
  ASSUME NEW j \in Jobs, NEW rows
  PROVE  Cardinality(Unmet(j, rows)) \in Nat
<1>1. IsFiniteSet(Unmet(j, rows))
  <2>1. Unmet(j, rows) \subseteq Jobs
    BY ConstantsAssumption DEF Unmet
  <2>2. QED
    BY <2>1, FS_Subset, ConstantsAssumption
<1>2. QED
  BY <1>1, FS_CardinalityType

\* A job given another status, or another status and one more attempt.
LEMMA StatusRow ==
  ASSUME NEW job \in Row, NEW status \in Statuses
  PROVE  /\ [job EXCEPT !.status = status] \in Row
         /\ [job EXCEPT !.status = status, !.attempts = job.attempts + 1] \in Row
<1> DEFINE n == job.attempts + 1
<1>1. n \in Nat
  BY DEF Row
<1> HIDE DEF n
<1>2. [job EXCEPT !.status = status] \in Row
  BY DEF Row
<1>3. [job EXCEPT !.status = status, !.attempts = n] \in Row
  BY <1>1 DEF Row
<1>4. QED
  BY <1>2, <1>3 DEF n

\* _fail returns a job that is retryable or failed and has run no further.
LEMMA FailedRow ==
  ASSUME NEW j \in Jobs, NEW job \in Row, NEW class \in FailureClasses
  PROVE  /\ Failed(j, job, class) \in Row
         /\ Failed(j, job, class).status \in {"retryable", "failed"}
         /\ Failed(j, job, class).type = job.type
         /\ Failed(j, job, class).attempts = job.attempts
         /\ Failed(j, job, class).artifacts = job.artifacts
         /\ Failed(j, job, class).completed = job.completed
         /\ Failed(j, job, class).invalid = job.invalid
         /\ Failed(j, job, class).negatives = job.negatives
<1> DEFINE retryable == class \in RetryableFailures
           counted == job.type = "bug_validate" /\ retryable
           runs  == IF counted THEN job.runtime + 1 ELSE job.runtime
           spent == IF counted THEN runs ELSE job.attempts
           after == IF retryable /\ spent < MaxAttempts[j] THEN "retryable" ELSE "failed"
<1>1. runs \in Nat
  BY DEF Row
<1>2. after \in {"retryable", "failed"}
  OBVIOUS
<1>3. Failed(j, job, class) = [job EXCEPT !.runtime = runs, !.status = after]
  BY DEF Failed
<1> HIDE DEF retryable, runs, after
<1>4. QED
  BY <1>1, <1>2, <1>3 DEF Row, Statuses

LEMMA ValidatedRow ==
  ASSUME NEW j \in Jobs, NEW job \in Row
  PROVE  /\ Validated(job) \in Row
         /\ Validated(job) = [job EXCEPT !.invalid = Validated(job).invalid]
         /\ \/ Validated(job).invalid = job.invalid
            \/ /\ Validated(job).invalid \subseteq job.artifacts
               /\ Validated(job).invalid # {}
BY DEF Validated, Row, Unusable

LEMMA ShrunkRow ==
  ASSUME NEW job \in Row
  PROVE  Shrunk(job) \in Row
BY DEF Shrunk, Row

LEMMA CompletedRow ==
  ASSUME NEW j \in Jobs, NEW job \in Row, NEW report \in Reports
  PROVE  /\ Completed(j, job, report) \in Row
         /\ Completed(j, job, report).status \in {"retryable", "failed", "succeeded"}
         /\ Completed(j, job, report).attempts = job.attempts
<1> DEFINE seen == IF report = "malformed" THEN job ELSE Validated(job)
           kept == IF job.type = "verify_batch" /\ seen.invalid # {} THEN Shrunk(seen) ELSE seen
<1>1. seen \in Row /\ seen.attempts = job.attempts
  BY ValidatedRow DEF Row
<1>2. kept \in Row /\ kept.attempts = job.attempts
  <2>1. Shrunk(seen) \in Row /\ Shrunk(seen).attempts = seen.attempts
    BY <1>1 DEF Shrunk, Row
  <2>2. QED
    BY <1>1, <2>1
<1>3. /\ Failed(j, kept, "output") \in Row
      /\ Failed(j, kept, "output").status \in {"retryable", "failed"}
      /\ Failed(j, kept, "output").attempts = job.attempts
  BY <1>2, FailedRow DEF FailureClasses, RetryableFailures
<1>4. CASE report = "malformed" \/ Unusable(job) # {}
  <2>1. Completed(j, job, report) = Failed(j, kept, "output")
    BY <1>4 DEF Completed
  <2> HIDE DEF seen, kept
  <2>2. QED
    BY <1>3, <2>1
<1>5. CASE ~(report = "malformed" \/ Unusable(job) # {})
  <2> DEFINE spent == job.negatives + 1
             after == IF job.negatives + 1 < MaxNegative[j] THEN "retryable" ELSE "succeeded"
  <2>1. CASE job.type = "bug_validate" /\ report = "negative"
    <3>1. Completed(j, job, report)
            = [job EXCEPT !.negatives = spent, !.status = after]
      BY <1>5, <2>1 DEF Completed
    <3>2. spent \in Nat /\ after \in {"retryable", "succeeded"}
      BY DEF Row
    <3> HIDE DEF spent, after
    <3>3. QED
      BY <3>1, <3>2 DEF Row, Statuses
  <2>2. CASE ~(job.type = "bug_validate" /\ report = "negative")
    <3>1. Completed(j, job, report) = [job EXCEPT !.status = "succeeded"]
      BY <1>5, <2>2 DEF Completed
    <3>2. QED
      BY <3>1 DEF Row, Statuses
  <2>3. QED
    BY <2>1, <2>2
<1>6. QED
  BY <1>4, <1>5

-----------------------------------------------------------------------------
(* Type correctness *)

ClaimRow   == [job: Jobs, attempt: Nat, status: {"running", "expired", "succeeded"}]
HeldJob    == [job: Jobs \cup {NoJob}, copy: Row, report: Reports]

LEMMA BlankRow == Blank \in Row /\ Nothing \in HeldJob
BY DEF Blank, Nothing, Row, HeldJob, Statuses, Reports, JobTypes

LEMMA PersistType ==
  ASSUME TypeOK, NEW j \in Jobs, NEW job \in Row, Persist(j, job)
  PROVE  /\ row' \in [Jobs -> Row] /\ remaining' \in [Jobs -> Nat]
         /\ lease' \in [Jobs -> [attempt: Nat, live: BOOLEAN]]
<1>1. row' \in [Jobs -> Row]
  BY DEF Persist, TypeOK
<1>2. remaining' \in [Jobs -> Nat]
  <2>1. \A k \in Jobs : /\ Cardinality(Unmet(k, row)) \in Nat
                        /\ Cardinality(Unmet(k, row')) \in Nat
                        /\ remaining[k] \in Nat
    BY UnmetNat DEF TypeOK
  <2>2. QED
    BY <2>1 DEF Persist
<1>3. lease' \in [Jobs -> [attempt: Nat, live: BOOLEAN]]
  BY DEF Persist, TypeOK, NoLease
<1>4. QED
  BY <1>1, <1>2, <1>3

LEMMA ExpireType ==
  ASSUME TypeOK, ExpireLeases
  PROVE  /\ row' \in [Jobs -> Row] /\ claims' \subseteq ClaimRow
         /\ lease' \in [Jobs -> [attempt: Nat, live: BOOLEAN]]
<1>1. row' \in [Jobs -> Row]
  <2>1. \A j \in Jobs : row[j] \in Row /\ [row[j] EXCEPT !.status = "queued"] \in Row
    BY StatusRow DEF TypeOK, Statuses
  <2>2. QED
    BY <2>1 DEF ExpireLeases, ExpiredRows
<1>2. claims' \subseteq ClaimRow
  <2>1. \A c \in claims : c \in ClaimRow /\ [c EXCEPT !.status = "expired"] \in ClaimRow
    BY DEF TypeOK, ClaimRow
  <2>2. QED
    BY <2>1 DEF ExpireLeases
<1>3. lease' \in [Jobs -> [attempt: Nat, live: BOOLEAN]]
  BY DEF ExpireLeases, TypeOK, NoLease
<1>4. QED
  BY <1>1, <1>2, <1>3

\* p is handed a job it has read.
LEMMA HoldType ==
  ASSUME TypeOK, NEW p \in Procs, NEW label \in Labels, NEW j \in Jobs,
         NEW job \in Row, NEW report \in Reports, Hold(p, label, j, job, report)
  PROVE  /\ at' \in [Procs -> Labels] /\ held' \in [Procs -> HeldJob]
         /\ \A q \in Procs : at'[q] \in {"claim", "receipt", "save"} => held'[q].job \in Jobs
BY DEF Hold, TypeOK, HeldJob

LEMMA ReturnType ==
  ASSUME TypeOK, NEW p \in Procs, Return(p)
  PROVE  /\ at' \in [Procs -> Labels] /\ held' \in [Procs -> HeldJob]
         /\ \A q \in Procs : at'[q] \in {"claim", "receipt", "save"} => held'[q].job \in Jobs
BY BlankRow DEF Return, TypeOK, HeldJob, Labels

\* Every variable keeps its type, and a process that is going to write a job
\* holds one: no step of any call leaves the tables malformed.
THEOREM TypeCorrect == Spec => []TypeOK
<1>1. Init => TypeOK
  BY BlankRow DEF Init, TypeOK, NoLease, Contents, Labels, HeldJob
<1>2. TypeOK /\ [Next]_vars => TypeOK'
  <2> SUFFICES ASSUME TypeOK, [Next]_vars PROVE TypeOK'
    OBVIOUS
  <2> USE DEF HeldJob
  <2>1. ASSUME NEW p \in Procs, NEW j \in Jobs, NEW type \in JobTypes, Create(p, j, type) PROVE TypeOK'
    <3> DEFINE job == [Blank EXCEPT !.status = "queued", !.type = type, !.artifacts = Assigned[j]]
    <3>1. job \in Row
      BY BlankRow, ConstantsAssumption DEF Row, Blank, Statuses
    <3> HIDE DEF job
    <3>2. Hold(p, "save", j, job, "malformed")
      BY <2>1 DEF Create, job
    <3>3. QED
      BY <2>1, <3>1, <3>2, HoldType DEF Create, TypeOK, Labels, Reports
  <2>2. ASSUME NEW p \in Procs, NEW j \in Jobs, Start(p, j) PROVE TypeOK'
    <3> DEFINE job == [row[j] EXCEPT !.status = "running", !.attempts = @ + 1]
    <3>1. job \in Row
      BY StatusRow DEF TypeOK, Statuses
    <3> HIDE DEF job
    <3>2. Hold(p, "claim", j, job, "malformed")
      BY <2>2 DEF Start, job
    <3>3. QED
      BY <2>2, <3>1, <3>2, HoldType, ExpireType DEF Start, TypeOK, Labels, Reports, ClaimRow
  <2>3. ASSUME NEW p \in Procs, NEW j \in Jobs, Retry(p, j) PROVE TypeOK'
    <3> DEFINE job == [row[j] EXCEPT !.status = "queued"]
    <3>1. job \in Row
      BY StatusRow DEF TypeOK, Statuses
    <3> HIDE DEF job
    <3>2. Hold(p, "save", j, job, "malformed")
      BY <2>3 DEF Retry, job
    <3>3. QED
      BY <2>3, <3>1, <3>2, HoldType DEF Retry, TypeOK, Labels, Reports
  <2>4. ASSUME NEW p \in Procs, NEW j \in Jobs, Heartbeat(p, j) PROVE TypeOK'
    BY <2>4 DEF Heartbeat, TypeOK
  <2>5. ASSUME NEW p \in Procs, NEW j \in Jobs, NEW report \in Reports,
               Complete(p, j, report)
        PROVE  TypeOK'
    <3> DEFINE job == Completed(j, row[j], report)
    <3>1. job \in Row
      BY CompletedRow DEF TypeOK
    <3> HIDE DEF job
    <3>2. \/ Hold(p, "receipt", j, job, report) \/ Hold(p, "save", j, job, "malformed")
      BY <2>5 DEF Complete, job
    <3>3. QED
      BY <2>5, <3>1, <3>2, HoldType DEF Complete, TypeOK, Labels, Reports
  <2>6. ASSUME NEW p \in Procs, NEW j \in Jobs, NEW class \in FailureClasses,
               Fail(p, j, class)
        PROVE  TypeOK'
    <3> DEFINE job == Failed(j, row[j], class)
    <3>1. job \in Row
      BY FailedRow DEF TypeOK
    <3> HIDE DEF job
    <3>2. Hold(p, "save", j, job, "malformed")
      BY <2>6 DEF Fail, job
    <3>3. QED
      BY <2>6, <3>1, <3>2, HoldType DEF Fail, TypeOK, Labels, Reports
  <2>7. ASSUME NEW p \in Procs, Ready(p) PROVE TypeOK'
    BY <2>7, ExpireType DEF Ready, TypeOK, ClaimRow
  <2>8. ASSUME NEW p \in Procs, Claim(p) PROVE TypeOK'
    <3>1. held[p].job \in Jobs /\ held[p].copy.attempts \in Nat
      BY <2>8 DEF Claim, TypeOK, Row
    <3>2. QED
      BY <2>8, <3>1 DEF Claim, TypeOK, Labels
  <2>9. ASSUME NEW p \in Procs, ClaimRefused(p) PROVE TypeOK'
    BY <2>9, ReturnType DEF ClaimRefused, TypeOK
  <2>10. ASSUME NEW p \in Procs, RecordReceipt(p) PROVE TypeOK'
    <3>1. HeldReceipt(p) \in [job: Jobs, attempt: Nat, input: SUBSET Artifacts,
                              content: [Artifacts -> Contents], report: Reports]
      BY <2>10 DEF RecordReceipt, HeldReceipt, Identity, TypeOK, Row, Contents
    <3>2. claims' \subseteq ClaimRow
      BY <2>10 DEF RecordReceipt, TypeOK, ClaimRow
    <3>3. QED
      BY <2>10, <3>1, <3>2 DEF RecordReceipt, TypeOK, Labels, ClaimRow
  <2>11. ASSUME NEW p \in Procs, ReceiptRefused(p) PROVE TypeOK'
    BY <2>11, ReturnType DEF ReceiptRefused, TypeOK
  <2>12. ASSUME NEW p \in Procs, Save(p) PROVE TypeOK'
    <3>1. held[p].job \in Jobs /\ held[p].copy \in Row
      BY <2>12 DEF Save, TypeOK
    <3>2. QED
      BY <2>12, <3>1, PersistType, ReturnType DEF Save, TypeOK
  <2>13. ASSUME NEW p \in Procs, Recover(p) PROVE TypeOK'
    BY <2>13 DEF Recover, TypeOK, Labels, Running
  <2>14. ASSUME NEW p \in Procs, RecoverJob(p) PROVE TypeOK'
    <3>1. PICK s \in scan[p] :
            /\ Persist(s.job, Failed(s.job, Validated(s.copy), "interrupted"))
            /\ scan' = [scan EXCEPT ![p] = @ \ {s}]
            /\ at' = [at EXCEPT ![p] = IF scan[p] = {s} THEN "idle" ELSE "recover"]
      BY <2>14 DEF RecoverJob
    <3>2. s.job \in Jobs /\ s.copy \in Row
      BY DEF TypeOK
    <3>3. Failed(s.job, Validated(s.copy), "interrupted") \in Row
      BY <3>2, FailedRow, ValidatedRow DEF FailureClasses, RetryableFailures
    <3>4. QED
      BY <2>14, <3>1, <3>2, <3>3, PersistType DEF RecoverJob, TypeOK, Labels
  <2>15. ASSUME NEW p \in Procs, Crash(p) PROVE TypeOK'
    BY <2>15, ReturnType DEF Crash, TypeOK
  <2>16. ASSUME NEW j \in Jobs, LeaseTimeout(j) PROVE TypeOK'
    BY <2>16 DEF LeaseTimeout, TypeOK
  <2>17. ASSUME NEW j \in Jobs, NEW a \in Artifacts, NEW c \in Contents, WorkerWrite(j, a, c)
         PROVE  TypeOK'
    BY <2>17 DEF WorkerWrite, TypeOK
  <2>18. CASE UNCHANGED vars
    BY <2>18 DEF vars, TypeOK
  <2>19. QED
    BY <2>1, <2>2, <2>3, <2>4, <2>5, <2>6, <2>7, <2>8, <2>9, <2>10, <2>11, <2>12,
       <2>13, <2>14, <2>15, <2>16, <2>17, <2>18 DEF Next
<1>3. QED
  BY <1>1, <1>2, PTL DEF Spec

-----------------------------------------------------------------------------
(* The inductive invariant.  The properties speak of the tables; what makes   *)
(* them hold is that the copies the processes hold obey them too.             *)

Busy(p)    == at[p] \in {"receipt", "save"}
\* p has claimed an attempt and has not yet written the job as running.
Starting(p) == at[p] = "save" /\ held[p].copy.status = "running"

\* The attempt numbers of j that have been claimed.
Taken(j) == {c.attempt : c \in {d \in claims : d.job = j}}

\* An attempt number a job can have: none was started, or this one was claimed.
Reached(j, n) == n = 0 \/ n \in Taken(j)
Latest(j, n)  == n \in Taken(j) /\ \A m \in Taken(j) : m <= n

ClaimsContiguous ==
  \A j \in Jobs : \A m \in Taken(j) : m >= 1 /\ \A n \in 1..m : n \in Taken(j)
RowsClaimed ==
  \A j \in Jobs :
    /\ Reached(j, row[j].attempts)
    /\ row[j].status = "running" => Latest(j, row[j].attempts)
    /\ lease[j] # NoLease => Latest(j, lease[j].attempt)
CopiesClaimed ==
  \A p \in Procs :
    /\ Busy(p) => Reached(held[p].job, held[p].copy.attempts)
    /\ at[p] = "receipt" => held[p].copy.status # "running"
    /\ Starting(p) => Latest(held[p].job, held[p].copy.attempts)
    /\ at[p] = "claim" => /\ held[p].copy.status = "running"
                          /\ held[p].copy.attempts >= 1
                          /\ Reached(held[p].job, held[p].copy.attempts - 1)
    /\ \A s \in scan[p] : Reached(s.job, s.copy.attempts)
\* While p is starting j, every other view of j is of an older attempt.
StarterAhead ==
  \A p \in Procs : Starting(p) =>
    /\ row[held[p].job].attempts < held[p].copy.attempts
    /\ \A q \in Procs \ {p} : held[q].job = held[p].job =>
         /\ Busy(q) => held[q].copy.attempts < held[p].copy.attempts
         /\ at[q] = "claim" => held[q].copy.attempts <= held[p].copy.attempts
    /\ \A q \in Procs : \A s \in scan[q] :
         s.job = held[p].job => s.copy.attempts < held[p].copy.attempts
ClaimInv == ClaimsContiguous /\ RowsClaimed /\ CopiesClaimed /\ StarterAhead

\* The receipt that makes `job` a succeeded job is in the table.
Receipted(j, job) ==
  \E r \in receipts : /\ r.job = j /\ r.attempt = job.attempts
                      /\ r.input = job.artifacts
                      /\ r.report \in {"accepted", "negative"}
ReceiptInv ==
  /\ OneReceiptPerAttempt
  /\ \A j \in Jobs : row[j].status = "succeeded" => Receipted(j, row[j])
  /\ \A p \in Procs : at[p] = "save" /\ held[p].copy.status = "succeeded"
                      => Receipted(held[p].job, held[p].copy)
  /\ \A p \in Procs : at[p] = "receipt" => held[p].report \in {"accepted", "negative"}
  /\ \A p \in Procs : at[p] = "claim" => held[p].copy.status = "running"

\* What no operation on a copy of a job breaks.
Active == {"queued", "running", "retryable"}
SoundJob(j, job) ==
  /\ job.type = "bug_validate" =>
       /\ job.negatives <= MaxNegative[j] /\ job.runtime <= MaxAttempts[j]
       /\ job.status \in Active =>
            job.negatives < MaxNegative[j] /\ job.runtime < MaxAttempts[j]
  /\ job.status # "absent" =>
       /\ job.artifacts \cup job.completed = Assigned[j]
       /\ job.artifacts \cap job.completed = {}
       /\ job.artifacts = {} => Assigned[j] = {}
       /\ job.invalid # {} => job.invalid \cap job.artifacts # {}
JobInv ==
  /\ \A j \in Jobs : SoundJob(j, row[j])
  /\ \A p \in Procs : at[p] \in {"claim", "receipt", "save"} =>
       held[p].copy.status # "absent" /\ SoundJob(held[p].job, held[p].copy)
  /\ \A p \in Procs : \A s \in scan[p] : s.copy.status = "running" /\ SoundJob(s.job, s.copy)

-----------------------------------------------------------------------------
(* JobInv: members and budgets *)

LEMMA BlankSound ==
  ASSUME NEW j \in Jobs, NEW type \in JobTypes
  PROVE  /\ SoundJob(j, Blank)
         /\ SoundJob(j, [Blank EXCEPT !.status = "queued", !.type = type, !.artifacts = Assigned[j]])
<1>1. SoundJob(j, Blank)
  BY ConstantsAssumption DEF SoundJob, Blank, Active
<1> DEFINE job == [Blank EXCEPT !.status = "queued", !.type = type, !.artifacts = Assigned[j]]
<1>2. /\ job.artifacts = Assigned[j] /\ job.completed = {} /\ job.invalid = {}
      /\ job.negatives = 0 /\ job.runtime = 0
  BY DEF Blank
<1>3. MaxNegative[j] \in Nat \ {0} /\ MaxAttempts[j] \in Nat \ {0}
  BY ConstantsAssumption
<1> HIDE DEF job
<1>4. SoundJob(j, job)
  BY <1>2, <1>3 DEF SoundJob
<1>5. QED
  BY <1>1, <1>4 DEF job

LEMMA StatusSound ==
  ASSUME NEW j \in Jobs, NEW job \in Row, SoundJob(j, job), job.status \in Active,
         NEW status \in Statuses \ {"absent"}
  PROVE  /\ SoundJob(j, [job EXCEPT !.status = status])
         /\ SoundJob(j, [job EXCEPT !.status = status, !.attempts = job.attempts + 1])
BY ConstantsAssumption DEF SoundJob, Row, Active

LEMMA FailedSound ==
  ASSUME NEW j \in Jobs, NEW job \in Row, NEW class \in FailureClasses,
         SoundJob(j, job), job.status \in Active
  PROVE  SoundJob(j, Failed(j, job, class))
<1> DEFINE failed == Failed(j, job, class)
<1>1. /\ failed.status \in {"retryable", "failed"} /\ failed.type = job.type
      /\ failed.artifacts = job.artifacts /\ failed.completed = job.completed
      /\ failed.invalid = job.invalid /\ failed.negatives = job.negatives
  BY FailedRow
<1>2. job.type = "bug_validate" =>
        /\ failed.runtime <= MaxAttempts[j]
        /\ failed.status = "retryable" => failed.runtime < MaxAttempts[j]
  <2> SUFFICES ASSUME job.type = "bug_validate"
               PROVE  /\ failed.runtime <= MaxAttempts[j]
                      /\ failed.status = "retryable" => failed.runtime < MaxAttempts[j]
    OBVIOUS
  <2>1. job.runtime < MaxAttempts[j] /\ job.runtime \in Nat /\ MaxAttempts[j] \in Nat
    BY ConstantsAssumption DEF SoundJob, Row
  <2>2. CASE class \in RetryableFailures
    <3> DEFINE n == job.runtime + 1
               after == IF n < MaxAttempts[j] THEN "retryable" ELSE "failed"
    <3>1. failed = [job EXCEPT !.runtime = n, !.status = after]
      BY <2>2 DEF Failed
    <3>2. failed.runtime = n /\ failed.status = after
      <4> HIDE DEF n, after
      <4>1. QED
        BY <3>1 DEF Row
    <3> HIDE DEF failed
    <3>3. QED
      BY <2>1, <3>2
  <2>3. CASE class \notin RetryableFailures
    <3>1. failed = [job EXCEPT !.runtime = job.runtime, !.status = "failed"]
      BY <2>3 DEF Failed
    <3>2. failed.runtime = job.runtime /\ failed.status = "failed"
      BY <3>1 DEF Row
    <3> HIDE DEF failed
    <3>3. QED
      BY <2>1, <3>2
  <2>4. QED
    BY <2>2, <2>3
<1>3. job.type = "bug_validate" =>
        /\ job.negatives < MaxNegative[j] /\ job.negatives \in Nat
        /\ MaxNegative[j] \in Nat
  BY ConstantsAssumption DEF SoundJob, Row
<1> HIDE DEF failed
<1>4. failed.type = "bug_validate" =>
        /\ failed.negatives <= MaxNegative[j] /\ failed.runtime <= MaxAttempts[j]
        /\ failed.status \in Active =>
             failed.negatives < MaxNegative[j] /\ failed.runtime < MaxAttempts[j]
  BY <1>1, <1>2, <1>3 DEF Active
<1>5. /\ failed.artifacts \cup failed.completed = Assigned[j]
      /\ failed.artifacts \cap failed.completed = {}
      /\ failed.artifacts = {} => Assigned[j] = {}
      /\ failed.invalid # {} => failed.invalid \cap failed.artifacts # {}
  BY <1>1 DEF SoundJob, Active
<1>6. SoundJob(j, failed)
  BY <1>4, <1>5 DEF SoundJob
<1>7. QED
  BY <1>6 DEF failed

LEMMA ValidatedSound ==
  ASSUME NEW j \in Jobs, NEW job \in Row, SoundJob(j, job), job.status = "running"
  PROVE  /\ SoundJob(j, Validated(job))
         /\ Validated(job).status = "running"
<1> DEFINE bad == Unusable(job)
<1>1. CASE Validated(job) = job
  BY <1>1
<1>2. CASE Validated(job) = [job EXCEPT !.invalid = bad] /\ bad # {}
  <2>1. bad \subseteq job.artifacts
    BY DEF Unusable
  <2> HIDE DEF bad
  <2>2. QED
    BY <1>2, <2>1 DEF SoundJob, Row
<1>3. QED
  BY <1>1, <1>2 DEF Validated

\* A batch is shrunk to members it still owed, and owes at least one of them.
LEMMA ShrunkSound ==
  ASSUME NEW j \in Jobs, NEW job \in Row, SoundJob(j, job), job.status = "running",
         job.invalid # {}
  PROVE  SoundJob(j, Shrunk(job)) /\ Shrunk(job).status = "running"
<1> DEFINE done == job.completed \cup (job.artifacts \ job.invalid)
           owed == job.artifacts \cap job.invalid
<1>1. Shrunk(job) = [job EXCEPT !.completed = done, !.artifacts = owed]
  BY DEF Shrunk
<1>2. /\ done \cup owed = job.artifacts \cup job.completed
      /\ job.artifacts \cap job.completed = {} => done \cap owed = {}
      /\ job.invalid \cap job.artifacts # {} => owed # {} /\ job.invalid \cap owed # {}
  OBVIOUS
<1> HIDE DEF done, owed
<1>3. QED
  BY <1>1, <1>2 DEF SoundJob, Row

LEMMA CompletedSound ==
  ASSUME NEW j \in Jobs, NEW job \in Row, NEW report \in Reports,
         SoundJob(j, job), job.status = "running"
  PROVE  SoundJob(j, Completed(j, job, report))
<1> DEFINE seen == IF report = "malformed" THEN job ELSE Validated(job)
           kept == IF job.type = "verify_batch" /\ seen.invalid # {} THEN Shrunk(seen) ELSE seen
<1>1. seen \in Row /\ SoundJob(j, seen) /\ seen.status = "running"
  BY ValidatedRow, ValidatedSound
<1>2. kept \in Row /\ SoundJob(j, kept) /\ kept.status = "running"
  <2> HIDE DEF seen
  <2>1. QED
    BY <1>1, ShrunkRow, ShrunkSound
<1>3. CASE report = "malformed" \/ Unusable(job) # {}
  <2>1. Completed(j, job, report) = Failed(j, kept, "output")
    BY <1>3 DEF Completed
  <2> HIDE DEF kept, seen
  <2>2. QED
    BY <1>2, <2>1, FailedSound DEF FailureClasses, RetryableFailures, Active
<1>4. CASE ~(report = "malformed" \/ Unusable(job) # {})
  <2> DEFINE spent == job.negatives + 1
             after == IF spent < MaxNegative[j] THEN "retryable" ELSE "succeeded"
  <2>1. CASE job.type = "bug_validate" /\ report = "negative"
    <3>1. Completed(j, job, report) = [job EXCEPT !.negatives = spent, !.status = after]
      BY <1>4, <2>1 DEF Completed
    <3>2. /\ spent \in Nat /\ spent <= MaxNegative[j]
          /\ after \in {"retryable", "succeeded"}
          /\ after = "retryable" => spent < MaxNegative[j]
      <4>1. job.negatives \in Nat /\ MaxNegative[j] \in Nat
        BY ConstantsAssumption DEF Row
      <4>2. job.negatives < MaxNegative[j]
        BY <2>1 DEF SoundJob, Active
      <4>3. QED
        BY <4>1, <4>2
    <3> HIDE DEF spent, after
    <3>3. QED
      BY <3>1, <3>2 DEF SoundJob, Active, Row
  <2>2. CASE ~(job.type = "bug_validate" /\ report = "negative")
    <3>1. Completed(j, job, report) = [job EXCEPT !.status = "succeeded"]
      BY <1>4, <2>2 DEF Completed
    <3>2. SoundJob(j, [job EXCEPT !.status = "succeeded"])
      <4> DEFINE done == "succeeded"
      <4>1. job.status \in Active /\ done \in Statuses \ {"absent"}
        BY DEF Active, Statuses
      <4> HIDE DEF done
      <4>2. SoundJob(j, [job EXCEPT !.status = done])
        BY <4>1, StatusSound
      <4>3. QED
        BY <4>2 DEF done
    <3>3. QED
      BY <3>1, <3>2
  <2>3. QED
    BY <2>1, <2>2
<1>5. QED
  BY <1>3, <1>4

\* A process is handed a sound job.
LEMMA HoldSound ==
  ASSUME TypeOK, JobInv, NEW p \in Procs, NEW label \in Labels, NEW j \in Jobs,
         NEW job \in Row, NEW report \in Reports, Hold(p, label, j, job, report),
         SoundJob(j, job), job.status # "absent"
  PROVE  \A q \in Procs : at'[q] \in {"claim", "receipt", "save"} =>
           held'[q].copy.status # "absent" /\ SoundJob(held'[q].job, held'[q].copy)
<1>1. SUFFICES ASSUME NEW q \in Procs, at'[q] \in {"claim", "receipt", "save"}
               PROVE  held'[q].copy.status # "absent" /\ SoundJob(held'[q].job, held'[q].copy)
  OBVIOUS
<1>2. CASE q = p
  <2>1. held'[q].job = j /\ held'[q].copy = job
    BY <1>2 DEF Hold, TypeOK
  <2>2. QED
    BY <2>1
<1>3. CASE q # p
  <2>1. held'[q] = held[q] /\ at'[q] = at[q]
    BY <1>3 DEF Hold, TypeOK
  <2>2. QED
    BY <1>1, <2>1 DEF JobInv
<1>4. QED
  BY <1>2, <1>3

LEMMA ReturnSound ==
  ASSUME TypeOK, JobInv, NEW p \in Procs, Return(p)
  PROVE  \A q \in Procs : at'[q] \in {"claim", "receipt", "save"} =>
           held'[q].copy.status # "absent" /\ SoundJob(held'[q].job, held'[q].copy)
<1>1. SUFFICES ASSUME NEW q \in Procs, at'[q] \in {"claim", "receipt", "save"}
               PROVE  held'[q].copy.status # "absent" /\ SoundJob(held'[q].job, held'[q].copy)
  OBVIOUS
<1>2. held'[q] = held[q] /\ at'[q] = at[q]
  BY <1>1 DEF Return, TypeOK
<1>3. QED
  BY <1>1, <1>2 DEF JobInv

LEMMA PersistSound ==
  ASSUME TypeOK, JobInv, NEW j \in Jobs, NEW job, Persist(j, job), SoundJob(j, job)
  PROVE  \A k \in Jobs : SoundJob(k, row'[k])
<1>1. \A k \in Jobs : row'[k] = IF k = j THEN job ELSE row[k]
  BY DEF Persist, TypeOK
<1>2. QED
  BY <1>1 DEF JobInv

LEMMA ExpireSound ==
  ASSUME TypeOK, JobInv, ExpireLeases
  PROVE  \A k \in Jobs : SoundJob(k, row'[k])
<1>1. SUFFICES ASSUME NEW k \in Jobs PROVE SoundJob(k, row'[k])
  OBVIOUS
<1>2. row[k] \in Row /\ SoundJob(k, row[k])
  BY DEF TypeOK, JobInv
<1>3. CASE row[k].status = "running"
  <2> DEFINE queued == "queued"
  <2>1. row[k].status \in Active /\ queued \in Statuses \ {"absent"}
    BY <1>3 DEF Active, Statuses
  <2>2. row'[k] \in {row[k], [row[k] EXCEPT !.status = queued]}
    BY DEF ExpireLeases, ExpiredRows
  <2> HIDE DEF queued
  <2>3. SoundJob(k, [row[k] EXCEPT !.status = queued])
    BY <1>2, <2>1, StatusSound
  <2>4. QED
    BY <1>2, <2>2, <2>3
<1>4. CASE row[k].status # "running"
  <2>1. row'[k] = row[k]
    BY <1>4 DEF ExpireLeases, ExpiredRows
  <2>2. QED
    BY <1>2, <2>1
<1>5. QED
  BY <1>3, <1>4

\* Members and budgets are kept by every step of every call, whatever the other
\* calls in progress hold.
LEMMA JobInvStep == TypeOK /\ JobInv /\ [Next]_vars => JobInv'
<1> SUFFICES ASSUME TypeOK, JobInv, [Next]_vars PROVE JobInv'
  OBVIOUS
<1>1. ASSUME NEW p \in Procs, NEW j \in Jobs, NEW type \in JobTypes, Create(p, j, type) PROVE JobInv'
  <2> DEFINE job == [Blank EXCEPT !.status = "queued", !.type = type, !.artifacts = Assigned[j]]
  <2>1. job \in Row /\ job.status # "absent"
    BY BlankRow, ConstantsAssumption DEF Row, Blank, Statuses
  <2>2. SoundJob(j, job)
    BY BlankSound
  <2> HIDE DEF job
  <2>3. Hold(p, "save", j, job, "malformed")
    BY <1>1 DEF Create, job
  <2>4. QED
    BY <1>1, <2>1, <2>2, <2>3, HoldSound DEF Create, JobInv, Labels, Reports
<1>2. ASSUME NEW p \in Procs, NEW j \in Jobs, Start(p, j) PROVE JobInv'
  <2> DEFINE running == "running"
             job == [row[j] EXCEPT !.status = running, !.attempts = row[j].attempts + 1]
  <2>1. /\ row[j] \in Row /\ row[j].status \in Active /\ SoundJob(j, row[j])
        /\ running \in Statuses \ {"absent"}
    BY <1>2 DEF Start, TypeOK, JobInv, Active, Statuses
  <2>2. Hold(p, "claim", j, job, "malformed")
    BY <1>2 DEF Start
  <2>3. job.status # "absent"
    BY <2>1 DEF Row
  <2> HIDE DEF running
  <2>4. job \in Row /\ SoundJob(j, job)
    BY <2>1, StatusRow, StatusSound
  <2> HIDE DEF job
  <2>5. QED
    BY <1>2, <2>2, <2>3, <2>4, HoldSound, ExpireSound DEF Start, JobInv, Labels, Reports
<1>3. ASSUME NEW p \in Procs, NEW j \in Jobs, Retry(p, j) PROVE JobInv'
  <2> DEFINE queued == "queued"
             job == [row[j] EXCEPT !.status = queued]
  <2>1. /\ row[j] \in Row /\ row[j].status \in Active /\ SoundJob(j, row[j])
        /\ queued \in Statuses \ {"absent"}
    BY <1>3 DEF Retry, TypeOK, JobInv, Active, Statuses
  <2>2. Hold(p, "save", j, job, "malformed")
    BY <1>3 DEF Retry
  <2>3. job.status # "absent"
    BY <2>1 DEF Row
  <2> HIDE DEF queued
  <2>4. job \in Row /\ SoundJob(j, job)
    BY <2>1, StatusRow, StatusSound
  <2> HIDE DEF job
  <2>5. QED
    BY <1>3, <2>2, <2>3, <2>4, HoldSound DEF Retry, JobInv, Labels, Reports
<1>4. ASSUME NEW p \in Procs, NEW j \in Jobs, NEW report \in Reports, Complete(p, j, report)
      PROVE  JobInv'
  <2> DEFINE job == Completed(j, row[j], report)
  <2>1. row[j] \in Row /\ row[j].status = "running" /\ SoundJob(j, row[j])
    BY <1>4 DEF Complete, TypeOK, JobInv
  <2>2. job \in Row /\ job.status # "absent" /\ SoundJob(j, job)
    BY <2>1, CompletedRow, CompletedSound
  <2> HIDE DEF job
  <2>3. \/ Hold(p, "receipt", j, job, report) \/ Hold(p, "save", j, job, "malformed")
    BY <1>4 DEF Complete, job
  <2>4. QED
    BY <1>4, <2>2, <2>3, HoldSound DEF Complete, JobInv, Labels, Reports
<1>5. ASSUME NEW p \in Procs, NEW j \in Jobs, NEW class \in FailureClasses, Fail(p, j, class)
      PROVE  JobInv'
  <2> DEFINE job == Failed(j, row[j], class)
  <2>1. row[j] \in Row /\ row[j].status \in Active /\ SoundJob(j, row[j])
    BY <1>5 DEF Fail, TypeOK, JobInv, Active
  <2>2. job \in Row /\ job.status # "absent" /\ SoundJob(j, job)
    BY <2>1, FailedRow, FailedSound
  <2> HIDE DEF job
  <2>3. Hold(p, "save", j, job, "malformed")
    BY <1>5 DEF Fail, job
  <2>4. QED
    BY <1>5, <2>2, <2>3, HoldSound DEF Fail, JobInv, Labels, Reports
<1>6. ASSUME NEW p \in Procs, NEW j \in Jobs, Heartbeat(p, j) PROVE JobInv'
  BY <1>6 DEF Heartbeat, JobInv
<1>7. ASSUME NEW p \in Procs, Ready(p) PROVE JobInv'
  BY <1>7, ExpireSound DEF Ready, JobInv
<1>8. ASSUME NEW p \in Procs, Claim(p) PROVE JobInv'
  BY <1>8 DEF Claim, JobInv, TypeOK
<1>9. ASSUME NEW p \in Procs, ClaimRefused(p) PROVE JobInv'
  BY <1>9, ReturnSound DEF ClaimRefused, JobInv
<1>10. ASSUME NEW p \in Procs, RecordReceipt(p) PROVE JobInv'
  BY <1>10 DEF RecordReceipt, JobInv, TypeOK
<1>11. ASSUME NEW p \in Procs, ReceiptRefused(p) PROVE JobInv'
  BY <1>11, ReturnSound DEF ReceiptRefused, JobInv
<1>12. ASSUME NEW p \in Procs, Save(p) PROVE JobInv'
  <2>1. held[p].job \in Jobs /\ SoundJob(held[p].job, held[p].copy)
    BY <1>12 DEF Save, TypeOK, JobInv
  <2>2. QED
    BY <1>12, <2>1, PersistSound, ReturnSound DEF Save, JobInv
<1>13. ASSUME NEW p \in Procs, Recover(p) PROVE JobInv'
  <2>1. \A q \in Procs : at'[q] \in {"claim", "receipt", "save"} => at[q] = at'[q]
    BY <1>13 DEF Recover, TypeOK
  <2>2. \A q \in Procs : \A s \in scan'[q] :
          s \in scan[q] \/ (s.job \in Jobs /\ s.copy = row[s.job] /\ s.copy.status = "running")
    BY <1>13 DEF Recover, TypeOK, Running
  <2>3. QED
    BY <1>13, <2>1, <2>2 DEF Recover, JobInv
<1>14. ASSUME NEW p \in Procs, RecoverJob(p) PROVE JobInv'
  <2>1. PICK s \in scan[p] :
          /\ Persist(s.job, Failed(s.job, Validated(s.copy), "interrupted"))
          /\ scan' = [scan EXCEPT ![p] = @ \ {s}]
          /\ at' = [at EXCEPT ![p] = IF scan[p] = {s} THEN "idle" ELSE "recover"]
    BY <1>14 DEF RecoverJob
  <2> DEFINE seen == Validated(s.copy)
             job  == Failed(s.job, seen, "interrupted")
  <2>2. s.job \in Jobs /\ s.copy \in Row /\ s.copy.status = "running" /\ SoundJob(s.job, s.copy)
    BY DEF TypeOK, JobInv
  <2>3. seen \in Row /\ SoundJob(s.job, seen) /\ seen.status = "running"
    BY <2>2, ValidatedRow, ValidatedSound
  <2> HIDE DEF seen
  <2>4. SoundJob(s.job, job)
    BY <2>2, <2>3, FailedSound DEF Active, FailureClasses, RetryableFailures
  <2> HIDE DEF job
  <2>5. \A k \in Jobs : SoundJob(k, row'[k])
    BY <2>1, <2>2, <2>4, PersistSound DEF job, seen
  <2>6. \A q \in Procs : /\ at'[q] \in {"claim", "receipt", "save"} => at[q] = at'[q]
                         /\ scan'[q] \subseteq scan[q]
    BY <2>1 DEF TypeOK
  <2>7. QED
    BY <1>14, <2>5, <2>6 DEF RecoverJob, JobInv
<1>15. ASSUME NEW p \in Procs, Crash(p) PROVE JobInv'
  BY <1>15, ReturnSound DEF Crash, JobInv, TypeOK
<1>16. ASSUME NEW j \in Jobs, LeaseTimeout(j) PROVE JobInv'
  BY <1>16 DEF LeaseTimeout, JobInv
<1>17. ASSUME NEW j \in Jobs, NEW a \in Artifacts, NEW c \in Contents, WorkerWrite(j, a, c)
       PROVE  JobInv'
  BY <1>17 DEF WorkerWrite, JobInv
<1>18. CASE UNCHANGED vars
  BY <1>18 DEF vars, JobInv
<1>19. QED
  BY <1>1, <1>2, <1>3, <1>4, <1>5, <1>6, <1>7, <1>8, <1>9, <1>10, <1>11, <1>12,
     <1>13, <1>14, <1>15, <1>16, <1>17, <1>18 DEF Next

LEMMA JobsSound == Spec => []JobInv
<1>1. Init => JobInv
  <2>1. \A j \in Jobs : SoundJob(j, Blank)
    BY BlankSound DEF JobTypes
  <2>2. QED
    BY <2>1 DEF Init, JobInv
<1>2. QED
  BY <1>1, TypeCorrect, JobInvStep, PTL DEF Spec

\* No member of a batch is ever lost or owed twice, for any set of members, any
\* number of retries and any interleaving of the calls.
THEOREM MembersKept == Spec => []NoMemberLost
<1>1. JobInv => NoMemberLost
  BY DEF JobInv, SoundJob, NoMemberLost
<1>2. QED
  BY <1>1, JobsSound, PTL

\* A Bug Validator job never overspends its negative or its runtime budget, for
\* any budgets and any interleaving of the calls.
THEOREM BudgetsKept == Spec => []BugBudgetKept
<1>1. JobInv => BugBudgetKept
  BY DEF JobInv, SoundJob, BugBudgetKept, Active
<1>2. QED
  BY <1>1, JobsSound, PTL

-----------------------------------------------------------------------------
(* ReceiptInv: receipts come before success                                   *)

\* _validate and the report are both fine when `complete` makes a job succeed.
LEMMA MalformedFails ==
  ASSUME NEW j \in Jobs, NEW job \in Row
  PROVE  Completed(j, job, "malformed").status # "succeeded"
<1> DEFINE kept == IF job.type = "verify_batch" /\ job.invalid # {} THEN Shrunk(job) ELSE job
<1>1. Completed(j, job, "malformed") = Failed(j, kept, "output")
  BY DEF Completed
<1>2. kept \in Row
  BY ShrunkRow
<1> HIDE DEF kept
<1>3. QED
  BY <1>1, <1>2, FailedRow DEF FailureClasses, RetryableFailures

\* Receipts are never taken back.
LEMMA ReceiptsStay ==
  ASSUME receipts \subseteq receipts', NEW j, NEW job, Receipted(j, job)
  PROVE  Receipted(j, job)'
BY DEF Receipted

\* The part of ReceiptInv that is about what the processes hold.
HeldReceipted ==
  \A p \in Procs :
    /\ at[p] = "save" /\ held[p].copy.status = "succeeded"
       => Receipted(held[p].job, held[p].copy)
    /\ at[p] = "receipt" => held[p].report \in {"accepted", "negative"}
    /\ at[p] = "claim" => held[p].copy.status = "running"

LEMMA HoldReceipted ==
  ASSUME TypeOK, HeldReceipted, receipts' = receipts,
         NEW p \in Procs, NEW label \in {"claim", "receipt", "save"}, NEW j \in Jobs,
         NEW job \in Row, NEW report \in Reports, Hold(p, label, j, job, report),
         label = "save" => job.status # "succeeded",
         label = "receipt" => report # "malformed",
         label = "claim" => job.status = "running"
  PROVE  HeldReceipted'
<1> SUFFICES ASSUME NEW q \in Procs
             PROVE  /\ at'[q] = "save" /\ held'[q].copy.status = "succeeded"
                       => Receipted(held[q].job, held[q].copy)'
                    /\ at'[q] = "receipt" => held'[q].report \in {"accepted", "negative"}
                    /\ at'[q] = "claim" => held'[q].copy.status = "running"
  BY DEF HeldReceipted
<1>1. CASE q = p
  <2>1. at'[q] = label /\ held'[q].copy = job /\ held'[q].report = report
    BY <1>1 DEF Hold, TypeOK
  <2>2. QED
    BY <2>1 DEF Reports
<1>2. CASE q # p
  <2>1. held'[q] = held[q] /\ at'[q] = at[q]
    BY <1>2 DEF Hold, TypeOK
  <2>2. QED
    BY <2>1 DEF HeldReceipted, Receipted
<1>3. QED
  BY <1>1, <1>2

LEMMA ReturnReceipted ==
  ASSUME TypeOK, HeldReceipted, receipts' = receipts, NEW p \in Procs, Return(p)
  PROVE  HeldReceipted'
<1> SUFFICES ASSUME NEW q \in Procs
             PROVE  /\ at'[q] = "save" /\ held'[q].copy.status = "succeeded"
                       => Receipted(held[q].job, held[q].copy)'
                    /\ at'[q] = "receipt" => held'[q].report \in {"accepted", "negative"}
                    /\ at'[q] = "claim" => held'[q].copy.status = "running"
  BY DEF HeldReceipted
<1>1. CASE q = p
  BY <1>1 DEF Return, TypeOK
<1>2. CASE q # p
  <2>1. held'[q] = held[q] /\ at'[q] = at[q]
    BY <1>2 DEF Return, TypeOK
  <2>2. QED
    BY <2>1 DEF HeldReceipted, Receipted
<1>3. QED
  BY <1>1, <1>2

\* Every row that is succeeded has its receipt.
RowsReceipted == \A j \in Jobs : row[j].status = "succeeded" => Receipted(j, row[j])

LEMMA PersistReceipted ==
  ASSUME TypeOK, RowsReceipted, receipts' = receipts, NEW j \in Jobs, NEW job,
         Persist(j, job), job.status = "succeeded" => Receipted(j, job)
  PROVE  RowsReceipted'
<1>1. \A k \in Jobs : row'[k] = IF k = j THEN job ELSE row[k]
  BY DEF Persist, TypeOK
<1>2. QED
  BY <1>1 DEF RowsReceipted, Receipted

LEMMA ExpireReceipted ==
  ASSUME TypeOK, RowsReceipted, receipts' = receipts, ExpireLeases
  PROVE  RowsReceipted'
<1>1. \A k \in Jobs : row'[k] = row[k] \/ row'[k].status # "succeeded"
  <2>1. \A k \in Jobs : [row[k] EXCEPT !.status = "queued"].status # "succeeded"
    BY DEF TypeOK, Row
  <2>2. QED
    BY <2>1 DEF ExpireLeases, ExpiredRows
<1>2. QED
  BY <1>1 DEF RowsReceipted, Receipted

\* The receipt is written before the status, and an attempt has no second one.
LEMMA ReceiptInvStep ==
  TypeOK /\ ReceiptInv /\ [Next]_vars => ReceiptInv'
<1> SUFFICES ASSUME TypeOK, ReceiptInv, [Next]_vars PROVE ReceiptInv'
  OBVIOUS
<1>0. RowsReceipted /\ HeldReceipted
  BY DEF ReceiptInv, RowsReceipted, HeldReceipted
<1>a. ASSUME receipts' = receipts, RowsReceipted', HeldReceipted' PROVE ReceiptInv'
  BY <1>a DEF ReceiptInv, RowsReceipted, HeldReceipted, OneReceiptPerAttempt
<1>b. ASSUME receipts' = receipts, row' = row PROVE RowsReceipted'
  BY <1>b, <1>0 DEF RowsReceipted, Receipted
<1>c. ASSUME receipts' = receipts, at' = at, held' = held PROVE HeldReceipted'
  BY <1>c, <1>0 DEF HeldReceipted, Receipted
<1>1. ASSUME NEW p \in Procs, NEW j \in Jobs, NEW type \in JobTypes, Create(p, j, type) PROVE ReceiptInv'
  <2> DEFINE job == [Blank EXCEPT !.status = "queued", !.type = type, !.artifacts = Assigned[j]]
  <2>1. job \in Row /\ job.status # "succeeded"
    BY BlankRow, ConstantsAssumption DEF Row, Blank, Statuses
  <2> HIDE DEF job
  <2>2. Hold(p, "save", j, job, "malformed")
    BY <1>1 DEF Create, job
  <2>3. QED
    BY <1>0, <1>1, <1>a, <1>b, <2>1, <2>2, HoldReceipted DEF Create, Reports
<1>2. ASSUME NEW p \in Procs, NEW j \in Jobs, Start(p, j) PROVE ReceiptInv'
  <2> DEFINE running == "running"
             job == [row[j] EXCEPT !.status = running, !.attempts = row[j].attempts + 1]
  <2>1. row[j] \in Row /\ running \in Statuses
    BY DEF TypeOK, Statuses
  <2>2. Hold(p, "claim", j, job, "malformed")
    BY <1>2 DEF Start
  <2>3. job.status = "running"
    BY <2>1 DEF Row
  <2> HIDE DEF running
  <2>4. job \in Row
    BY <2>1, StatusRow
  <2> HIDE DEF job
  <2>5. QED
    BY <1>0, <1>2, <1>a, <2>2, <2>3, <2>4, HoldReceipted, ExpireReceipted DEF Start, Reports
<1>3. ASSUME NEW p \in Procs, NEW j \in Jobs, Retry(p, j) PROVE ReceiptInv'
  <2> DEFINE queued == "queued"
             job == [row[j] EXCEPT !.status = queued]
  <2>1. row[j] \in Row /\ queued \in Statuses
    BY DEF TypeOK, Statuses
  <2>2. Hold(p, "save", j, job, "malformed")
    BY <1>3 DEF Retry
  <2>3. job.status # "succeeded"
    BY <2>1 DEF Row
  <2> HIDE DEF queued
  <2>4. job \in Row
    BY <2>1, StatusRow
  <2> HIDE DEF job
  <2>5. QED
    BY <1>0, <1>3, <1>a, <1>b, <2>2, <2>3, <2>4, HoldReceipted DEF Retry, Reports
<1>4. ASSUME NEW p \in Procs, NEW j \in Jobs, NEW report \in Reports, Complete(p, j, report)
      PROVE  ReceiptInv'
  <2> DEFINE job == Completed(j, row[j], report)
  <2>1. /\ job \in Row
        /\ job.status = "succeeded" => report # "malformed"
    BY CompletedRow, MalformedFails DEF TypeOK
  <2> HIDE DEF job
  <2>2. \/ job.status = "succeeded" /\ Hold(p, "receipt", j, job, report)
        \/ job.status # "succeeded" /\ Hold(p, "save", j, job, "malformed")
    BY <1>4 DEF Complete, job
  <2>3. QED
    BY <1>0, <1>4, <1>a, <1>b, <2>1, <2>2, HoldReceipted DEF Complete, Reports
<1>5. ASSUME NEW p \in Procs, NEW j \in Jobs, NEW class \in FailureClasses, Fail(p, j, class)
      PROVE  ReceiptInv'
  <2> DEFINE job == Failed(j, row[j], class)
  <2>0. row[j] \in Row
    BY DEF TypeOK
  <2>1. job \in Row /\ job.status # "succeeded"
    BY <2>0, FailedRow
  <2> HIDE DEF job
  <2>2. Hold(p, "save", j, job, "malformed")
    BY <1>5 DEF Fail, job
  <2>3. QED
    BY <1>0, <1>5, <1>a, <1>b, <2>1, <2>2, HoldReceipted DEF Fail, Reports
<1>6. ASSUME NEW p \in Procs, NEW j \in Jobs, Heartbeat(p, j) PROVE ReceiptInv'
  BY <1>6, <1>a, <1>b, <1>c DEF Heartbeat
<1>7. ASSUME NEW p \in Procs, Ready(p) PROVE ReceiptInv'
  BY <1>0, <1>7, <1>a, <1>c, ExpireReceipted DEF Ready
<1>8. ASSUME NEW p \in Procs, Claim(p) PROVE ReceiptInv'
  <2>1. HeldReceipted'
    <3>1. held[p].copy.status = "running"
      BY <1>0, <1>8 DEF Claim, HeldReceipted
    <3>2. \A q \in Procs : at'[q] = IF q = p THEN "save" ELSE at[q]
      BY <1>8 DEF Claim, TypeOK
    <3>3. held' = held /\ receipts' = receipts
      BY <1>8 DEF Claim
    <3>4. QED
      BY <1>0, <3>1, <3>2, <3>3 DEF HeldReceipted, Receipted
  <2>2. QED
    BY <1>8, <1>a, <1>b, <2>1 DEF Claim
<1>9. ASSUME NEW p \in Procs, ClaimRefused(p) PROVE ReceiptInv'
  BY <1>0, <1>9, <1>a, <1>b, ReturnReceipted DEF ClaimRefused
<1>10. ASSUME NEW p \in Procs, RecordReceipt(p) PROVE ReceiptInv'
  <2>1. /\ receipts' = receipts \cup {HeldReceipt(p)}
        /\ HasReceipt(held[p].job, held[p].copy.attempts) => HeldReceipt(p) \in receipts
        /\ at[p] = "receipt" /\ row' = row /\ held' = held
        /\ \A q \in Procs : at'[q] = IF q = p THEN "save" ELSE at[q]
    BY <1>10 DEF RecordReceipt, TypeOK
  <2>2. /\ HeldReceipt(p).job = held[p].job
        /\ HeldReceipt(p).attempt = held[p].copy.attempts
        /\ HeldReceipt(p).input = held[p].copy.artifacts
        /\ HeldReceipt(p).report \in {"accepted", "negative"}
    BY <1>0, <2>1 DEF HeldReceipt, HeldReceipted
  <2>3. OneReceiptPerAttempt'
    <3>1. \A r \in receipts : r.job = held[p].job /\ r.attempt = held[p].copy.attempts
                              => HeldReceipt(p) \in receipts
      BY <2>1 DEF HasReceipt
    <3>2. QED
      BY <2>1, <2>2, <3>1 DEF ReceiptInv, OneReceiptPerAttempt
  <2>4. RowsReceipted'
    BY <1>0, <2>1 DEF RowsReceipted, Receipted
  <2>5. HeldReceipted'
    <3>1. Receipted(held[p].job, held[p].copy)'
      BY <2>1, <2>2 DEF Receipted
    <3>2. QED
      BY <1>0, <2>1, <3>1 DEF HeldReceipted, Receipted
  <2>6. QED
    BY <2>3, <2>4, <2>5 DEF ReceiptInv, RowsReceipted, HeldReceipted
<1>11. ASSUME NEW p \in Procs, ReceiptRefused(p) PROVE ReceiptInv'
  BY <1>0, <1>11, <1>a, <1>b, ReturnReceipted DEF ReceiptRefused
<1>12. ASSUME NEW p \in Procs, Save(p) PROVE ReceiptInv'
  <2>1. /\ held[p].job \in Jobs
        /\ held[p].copy.status = "succeeded" => Receipted(held[p].job, held[p].copy)
    BY <1>0, <1>12 DEF Save, TypeOK, HeldReceipted
  <2>2. QED
    BY <1>0, <1>12, <1>a, <2>1, PersistReceipted, ReturnReceipted DEF Save
<1>13. ASSUME NEW p \in Procs, Recover(p) PROVE ReceiptInv'
  <2>1. HeldReceipted'
    <3>1. /\ \A q \in Procs : at'[q] \in {"claim", "receipt", "save"} => at[q] = at'[q]
          /\ held' = held /\ receipts' = receipts
      BY <1>13 DEF Recover, TypeOK
    <3>2. QED
      BY <1>0, <3>1 DEF HeldReceipted, Receipted
  <2>2. QED
    BY <1>13, <1>a, <1>b, <2>1 DEF Recover
<1>14. ASSUME NEW p \in Procs, RecoverJob(p) PROVE ReceiptInv'
  <2>1. PICK s \in scan[p] :
          /\ Persist(s.job, Failed(s.job, Validated(s.copy), "interrupted"))
          /\ at' = [at EXCEPT ![p] = IF scan[p] = {s} THEN "idle" ELSE "recover"]
    BY <1>14 DEF RecoverJob
  <2>2. s.job \in Jobs /\ s.copy \in Row
    BY DEF TypeOK
  <2>3. Failed(s.job, Validated(s.copy), "interrupted").status # "succeeded"
    BY <2>2, FailedRow, ValidatedRow DEF FailureClasses, RetryableFailures
  <2>4. RowsReceipted'
    BY <1>0, <1>14, <2>1, <2>2, <2>3, PersistReceipted DEF RecoverJob
  <2>5. HeldReceipted'
    <3>1. \A q \in Procs : at'[q] \in {"claim", "receipt", "save"} => at[q] = at'[q]
      BY <2>1 DEF TypeOK
    <3>2. QED
      BY <1>0, <1>14, <3>1 DEF RecoverJob, HeldReceipted, Receipted
  <2>6. QED
    BY <1>14, <1>a, <2>4, <2>5 DEF RecoverJob
<1>15. ASSUME NEW p \in Procs, Crash(p) PROVE ReceiptInv'
  BY <1>0, <1>15, <1>a, <1>b, ReturnReceipted DEF Crash
<1>16. ASSUME NEW j \in Jobs, LeaseTimeout(j) PROVE ReceiptInv'
  BY <1>16, <1>a, <1>b, <1>c DEF LeaseTimeout
<1>17. ASSUME NEW j \in Jobs, NEW a \in Artifacts, NEW c \in Contents, WorkerWrite(j, a, c)
       PROVE  ReceiptInv'
  BY <1>17, <1>a, <1>b, <1>c DEF WorkerWrite
<1>18. CASE UNCHANGED vars
  BY <1>18, <1>a, <1>b, <1>c DEF vars
<1>19. QED
  BY <1>1, <1>2, <1>3, <1>4, <1>5, <1>6, <1>7, <1>8, <1>9, <1>10, <1>11, <1>12,
     <1>13, <1>14, <1>15, <1>16, <1>17, <1>18 DEF Next

LEMMA ReceiptsSound == Spec => []ReceiptInv
<1>1. Init => ReceiptInv
  BY DEF Init, ReceiptInv, Blank, OneReceiptPerAttempt
<1>2. QED
  BY <1>1, TypeCorrect, ReceiptInvStep, PTL DEF Spec

\* A job is only ever succeeded when the receipt of that attempt is durable.
THEOREM SuccessIsReceipted == Spec => []SucceededHasReceipt
<1>1. ReceiptInv => SucceededHasReceipt
  BY DEF ReceiptInv, Receipted, SucceededHasReceipt
<1>2. QED
  BY <1>1, ReceiptsSound, PTL

\* No attempt ever has two different receipts.
THEOREM ReceiptsUnique == Spec => []OneReceiptPerAttempt
<1>1. ReceiptInv => OneReceiptPerAttempt
  BY DEF ReceiptInv
<1>2. QED
  BY <1>1, ReceiptsSound, PTL

-----------------------------------------------------------------------------
(* ClaimInv: attempts are claimed one by one, so the next claim is always the *)
(* largest, and of all the processes that hold a job only one has it          *)

LEMMA TakenNat ==
  ASSUME TypeOK, NEW j
  PROVE  /\ Taken(j) \subseteq Nat
         /\ \A n : HasClaim(j, n) <=> n \in Taken(j)
BY DEF Taken, TypeOK, HasClaim

\* What a process may newly hold without any row gaining an attempt: nothing, a
\* job as its row is (or as it is created), a job about to be claimed.
NewView(p) ==
  \/ at'[p] \in {"idle", "recover"}
  \/ at'[p] = at[p] /\ held'[p] = held[p]
  \/ /\ at'[p] \in {"save", "receipt"} /\ held'[p].copy.status # "running"
     /\ \/ Busy(p) /\ held'[p] = held[p]
        \/ /\ held'[p].job \in Jobs
           /\ held'[p].copy.attempts \in {0, row[held'[p].job].attempts}
  \/ /\ at'[p] = "claim" /\ held'[p].copy.status = "running"
     /\ held'[p].job \in Jobs
     /\ held'[p].copy.attempts = row[held'[p].job].attempts + 1

\* A step that starts and saves nothing.
Quiet ==
  /\ \A j \in Jobs : Taken(j)' = Taken(j)
  /\ \A j \in Jobs :
       /\ row'[j].attempts = row[j].attempts
       /\ row'[j].status = "running" => row[j].status = "running"
       /\ lease'[j] # NoLease => lease[j] # NoLease /\ lease'[j].attempt = lease[j].attempt
  /\ \A p \in Procs : NewView(p)
  /\ \A p \in Procs : \A s \in scan'[p] : s \in scan[p] \/ s.copy = row[s.job]

LEMMA QuietClaimed ==
  ASSUME TypeOK, TypeOK', ClaimInv, Quiet
  PROVE  ClaimInv'
<1>1. ClaimsContiguous'
  BY DEF Quiet, ClaimInv, ClaimsContiguous
<1>2. \A j \in Jobs : \A n :
        (Reached(j, n) => Reached(j, n)') /\ (Latest(j, n) => Latest(j, n)')
  BY DEF Quiet, Reached, Latest
<1>3. RowsClaimed'
  BY <1>2 DEF Quiet, ClaimInv, RowsClaimed
<1>4. CopiesClaimed'
  <2> SUFFICES ASSUME NEW p \in Procs
               PROVE  /\ Busy(p)' => Reached(held[p].job, held[p].copy.attempts)'
                      /\ at'[p] = "receipt" => held'[p].copy.status # "running"
                      /\ Starting(p)' => Latest(held[p].job, held[p].copy.attempts)'
                      /\ at'[p] = "claim" =>
                           /\ held'[p].copy.status = "running"
                           /\ held'[p].copy.attempts >= 1
                           /\ Reached(held[p].job, held[p].copy.attempts - 1)'
                      /\ \A s \in scan'[p] : Reached(s.job, s.copy.attempts)'
    BY DEF CopiesClaimed
  <2>1. \A s \in scan'[p] : Reached(s.job, s.copy.attempts)'
    <3> SUFFICES ASSUME NEW s \in scan'[p] PROVE Reached(s.job, s.copy.attempts)'
      OBVIOUS
    <3>1. s.job \in Jobs
      BY DEF TypeOK
    <3>2. Reached(s.job, s.copy.attempts)
      BY <3>1 DEF Quiet, ClaimInv, CopiesClaimed, RowsClaimed
    <3>3. QED
      BY <1>2, <3>1, <3>2 DEF Reached
  <2>2. CASE at'[p] \in {"idle", "recover"}
    BY <2>1, <2>2 DEF Busy, Starting
  <2>3. CASE at'[p] = at[p] /\ held'[p] = held[p] /\ at[p] \in {"claim", "receipt", "save"}
    <3>1. held[p].job \in Jobs
      BY <2>3 DEF TypeOK
    <3>2. /\ Busy(p)' = Busy(p) /\ Starting(p)' = Starting(p)
          /\ Busy(p) => Reached(held[p].job, held[p].copy.attempts)
          /\ Starting(p) => Latest(held[p].job, held[p].copy.attempts)
          /\ at[p] = "receipt" => held[p].copy.status # "running"
          /\ at[p] = "claim" => /\ held[p].copy.status = "running"
                                /\ held[p].copy.attempts >= 1
                                /\ Reached(held[p].job, held[p].copy.attempts - 1)
      BY <2>3 DEF ClaimInv, CopiesClaimed, Busy, Starting
    <3>3. QED
      BY <1>2, <2>1, <2>3, <3>1, <3>2 DEF Reached, Latest
  <2>4. CASE /\ at'[p] \in {"save", "receipt"} /\ held'[p].copy.status # "running"
             /\ \/ Busy(p) /\ held'[p] = held[p]
                \/ /\ held'[p].job \in Jobs
                   /\ held'[p].copy.attempts \in {0, row[held'[p].job].attempts}
    <3>1. held'[p].job \in Jobs
      BY <2>4 DEF TypeOK, Busy
    <3>2. Reached(held'[p].job, held'[p].copy.attempts)
      BY <2>4, <3>1 DEF ClaimInv, CopiesClaimed, RowsClaimed, Reached
    <3>3. Reached(held[p].job, held[p].copy.attempts)'
      BY <1>2, <3>1, <3>2 DEF Reached
    <3>4. QED
      BY <2>1, <2>4, <3>3 DEF Starting
  <2>5. CASE /\ at'[p] = "claim" /\ held'[p].copy.status = "running"
             /\ held'[p].job \in Jobs
             /\ held'[p].copy.attempts = row[held'[p].job].attempts + 1
    <3> DEFINE j == held'[p].job
    <3>1. row[j].attempts \in Nat /\ Reached(j, row[j].attempts)
      BY <2>5 DEF TypeOK, Row, ClaimInv, RowsClaimed
    <3>2. held'[p].copy.attempts - 1 = row[j].attempts /\ held'[p].copy.attempts >= 1
      BY <2>5, <3>1
    <3>3. Reached(held[p].job, held[p].copy.attempts - 1)'
      BY <1>2, <2>5, <3>1, <3>2 DEF Reached
    <3>4. QED
      BY <2>1, <2>5, <3>2, <3>3 DEF Busy, Starting
  <2>6. QED
    BY <2>2, <2>3, <2>4, <2>5 DEF Quiet, NewView, TypeOK, Labels
<1>5. StarterAhead'
  <2> SUFFICES ASSUME NEW p \in Procs, Starting(p)'
               PROVE  /\ row'[held'[p].job].attempts < held'[p].copy.attempts
                      /\ \A q \in Procs \ {p} : held'[q].job = held'[p].job =>
                           /\ Busy(q)' => held'[q].copy.attempts < held'[p].copy.attempts
                           /\ at'[q] = "claim"
                              => held'[q].copy.attempts <= held'[p].copy.attempts
                      /\ \A q \in Procs : \A s \in scan'[q] : s.job = held'[p].job =>
                           s.copy.attempts < held'[p].copy.attempts
    BY DEF StarterAhead
  <2>1. Starting(p) /\ held'[p] = held[p] /\ held[p].job \in Jobs
    BY DEF Starting, Quiet, NewView, TypeOK
  <2>2. /\ held[p].copy.attempts \in Nat /\ row[held[p].job].attempts \in Nat
        /\ row[held[p].job].attempts < held[p].copy.attempts
    BY <2>1 DEF TypeOK, Row, ClaimInv, StarterAhead
  <2>3. row'[held'[p].job].attempts < held'[p].copy.attempts
    BY <2>1, <2>2 DEF Quiet
  <2>4. ASSUME NEW q \in Procs \ {p}, held'[q].job = held'[p].job
        PROVE  /\ Busy(q)' => held'[q].copy.attempts < held'[p].copy.attempts
               /\ at'[q] = "claim" => held'[q].copy.attempts <= held'[p].copy.attempts
    <3>1. held[q].job = held[p].job =>
            /\ Busy(q) => held[q].copy.attempts < held[p].copy.attempts
            /\ at[q] = "claim" => held[q].copy.attempts <= held[p].copy.attempts
      BY <2>1 DEF ClaimInv, StarterAhead
    <3>2. CASE at'[q] \in {"idle", "recover"}
      BY <3>2 DEF Busy
    <3>3. CASE at'[q] = at[q] /\ held'[q] = held[q]
      BY <2>1, <2>4, <3>1, <3>3 DEF Busy
    <3>4. CASE /\ at'[q] \in {"save", "receipt"}
               /\ \/ Busy(q) /\ held'[q] = held[q]
                  \/ held'[q].copy.attempts \in {0, row[held'[q].job].attempts}
      BY <2>1, <2>2, <2>4, <3>1, <3>4
    <3>5. CASE /\ at'[q] = "claim"
               /\ held'[q].copy.attempts = row[held'[q].job].attempts + 1
      BY <2>1, <2>2, <2>4, <3>5 DEF Busy
    <3>6. QED
      BY <3>2, <3>3, <3>4, <3>5 DEF Quiet, NewView
  <2>5. ASSUME NEW q \in Procs, NEW s \in scan'[q], s.job = held'[p].job
        PROVE  s.copy.attempts < held'[p].copy.attempts
    BY <2>1, <2>2, <2>5 DEF Quiet, ClaimInv, StarterAhead
  <2>6. QED
    BY <2>3, <2>4, <2>5
<1>6. QED
  BY <1>1, <1>3, <1>4, <1>5 DEF ClaimInv

\* p writes `job` over the row of j and holds nothing any more.
LEMMA WriteClaimed ==
  ASSUME TypeOK, TypeOK', ClaimInv, claims' = claims, NEW p \in Procs, NEW j \in Jobs,
         NEW job \in Row, Persist(j, job), Reached(j, job.attempts),
         job.status = "running" => Latest(j, job.attempts),
         \A q \in Procs \ {p} :
           Starting(q) /\ held[q].job = j => job.attempts < held[q].copy.attempts,
         at'[p] \in {"idle", "recover"},
         \A q \in Procs \ {p} : at'[q] = at[q] /\ held'[q] = held[q],
         \A q \in Procs : scan'[q] \subseteq scan[q]
  PROVE  ClaimInv'
<1>1. \A k \in Jobs : \A n :
        /\ Taken(k)' = Taken(k)
        /\ Reached(k, n)' <=> Reached(k, n)
        /\ Latest(k, n)' <=> Latest(k, n)
  BY DEF Taken, Reached, Latest
<1>2. \A k \in Jobs : /\ row'[k] = IF k = j THEN job ELSE row[k]
                      /\ lease'[k] = NoLease \/ lease'[k] = lease[k]
  BY DEF Persist, TypeOK
<1>3. ClaimsContiguous'
  BY <1>1 DEF ClaimInv, ClaimsContiguous
<1>4. RowsClaimed'
  BY <1>1, <1>2 DEF ClaimInv, RowsClaimed
<1>5. CopiesClaimed'
  <2> SUFFICES ASSUME NEW q \in Procs
               PROVE  /\ Busy(q)' => Reached(held[q].job, held[q].copy.attempts)'
                      /\ at'[q] = "receipt" => held'[q].copy.status # "running"
                      /\ Starting(q)' => Latest(held[q].job, held[q].copy.attempts)'
                      /\ at'[q] = "claim" =>
                           /\ held'[q].copy.status = "running"
                           /\ held'[q].copy.attempts >= 1
                           /\ Reached(held[q].job, held[q].copy.attempts - 1)'
                      /\ \A s \in scan'[q] : Reached(s.job, s.copy.attempts)'
    BY DEF CopiesClaimed
  <2>1. \A s \in scan'[q] : Reached(s.job, s.copy.attempts)'
    BY <1>1 DEF ClaimInv, CopiesClaimed, TypeOK
  <2>2. CASE q = p
    BY <2>1, <2>2 DEF Busy, Starting
  <2>3. CASE q # p
    <3>1. at'[q] = at[q] /\ held'[q] = held[q]
      BY <2>3
    <3>2. at[q] \in {"claim", "receipt", "save"} => held[q].job \in Jobs
      BY DEF TypeOK
    <3>3. QED
      BY <1>1, <2>1, <3>1, <3>2 DEF ClaimInv, CopiesClaimed, Busy, Starting, Reached, Latest
  <2>4. QED
    BY <2>2, <2>3
<1>6. StarterAhead'
  <2> SUFFICES ASSUME NEW r \in Procs, Starting(r)'
               PROVE  /\ row'[held'[r].job].attempts < held'[r].copy.attempts
                      /\ \A q \in Procs \ {r} : held'[q].job = held'[r].job =>
                           /\ Busy(q)' => held'[q].copy.attempts < held'[r].copy.attempts
                           /\ at'[q] = "claim"
                              => held'[q].copy.attempts <= held'[r].copy.attempts
                      /\ \A q \in Procs : \A s \in scan'[q] : s.job = held'[r].job =>
                           s.copy.attempts < held'[r].copy.attempts
    BY DEF StarterAhead
  <2>1. r # p /\ Starting(r) /\ held'[r] = held[r] /\ held[r].job \in Jobs
    BY DEF Starting, TypeOK
  <2>2. row'[held'[r].job].attempts < held'[r].copy.attempts
    BY <1>2, <2>1 DEF ClaimInv, StarterAhead
  <2>3. ASSUME NEW q \in Procs \ {r}, held'[q].job = held'[r].job
        PROVE  /\ Busy(q)' => held'[q].copy.attempts < held'[r].copy.attempts
               /\ at'[q] = "claim" => held'[q].copy.attempts <= held'[r].copy.attempts
    BY <2>1, <2>3 DEF ClaimInv, StarterAhead, Busy
  <2>4. ASSUME NEW q \in Procs, NEW s \in scan'[q], s.job = held'[r].job
        PROVE  s.copy.attempts < held'[r].copy.attempts
    BY <2>1, <2>4 DEF ClaimInv, StarterAhead
  <2>5. QED
    BY <2>2, <2>3, <2>4
<1>7. QED
  BY <1>3, <1>4, <1>5, <1>6 DEF ClaimInv

\* The attempt p claims is larger than any claimed before: the primary key of
\* attempts lets it through only if it is new, and the ones below it are taken.
LEMMA ClaimClaimed ==
  ASSUME TypeOK, TypeOK', ClaimInv, NEW p \in Procs, Claim(p)
  PROVE  ClaimInv'
<1>0. PICK j, n : j = held[p].job /\ n = held[p].copy.attempts
  OBVIOUS
<1>1. /\ j \in Jobs /\ n \in Nat /\ n >= 1 /\ row[j].attempts \in Nat
      /\ row[j].attempts + 1 = n /\ row[j].status # "running"
      /\ n \notin Taken(j) /\ Reached(j, n - 1)
      /\ held[p].copy.status = "running"
  BY <1>0, TakenNat DEF Claim, TypeOK, Row, ClaimInv, CopiesClaimed
<1>2. \A m \in Taken(j) : m < n
  BY <1>1, TakenNat DEF ClaimInv, ClaimsContiguous
<1>3. \A k \in Jobs : Taken(k)' = IF k = j THEN Taken(k) \cup {n} ELSE Taken(k)
  <2> SUFFICES ASSUME NEW k \in Jobs, NEW m
               PROVE  m \in Taken(k)' <=> m \in Taken(k) \/ (k = j /\ m = n)
    OBVIOUS
  <2>1. claims' = claims \cup {[job |-> j, attempt |-> n, status |-> "running"]}
    BY <1>0 DEF Claim
  <2>2. /\ m \in Taken(k)' <=> \E c \in claims' : c.job = k /\ c.attempt = m
        /\ m \in Taken(k) <=> \E c \in claims : c.job = k /\ c.attempt = m
    BY DEF Taken
  <2>3. (\E c \in claims' : c.job = k /\ c.attempt = m)
        <=> (\E c \in claims : c.job = k /\ c.attempt = m) \/ (k = j /\ m = n)
    <3> DEFINE new == [job |-> j, attempt |-> n, status |-> "running"]
    <3>1. new.job = j /\ new.attempt = n /\ claims' = claims \cup {new}
      BY <2>1
    <3> HIDE DEF new
    <3>2. QED
      BY <3>1
  <2>4. QED
    BY <2>2, <2>3
<1>4. /\ row' = row /\ held' = held /\ scan' = scan
      /\ \A q \in Procs : at'[q] = IF q = p THEN "save" ELSE at[q]
      /\ \A k \in Jobs : lease'[k] = IF k = j THEN [attempt |-> n, live |-> TRUE] ELSE lease[k]
  BY <1>0 DEF Claim, TypeOK
<1>5. \A q \in Procs : Starting(q) => held[q].job # j
  <2> SUFFICES ASSUME NEW q \in Procs, Starting(q), held[q].job = j PROVE FALSE
    OBVIOUS
  <2>1. held[q].copy.attempts \in Taken(j) /\ row[j].attempts < held[q].copy.attempts
    BY DEF ClaimInv, CopiesClaimed, StarterAhead, Latest
  <2>2. held[q].copy.attempts \in Nat
    BY DEF TypeOK, Row
  <2>3. QED
    BY <1>1, <1>2, <2>1, <2>2
<1>6. \A k \in Jobs : \A m : Reached(k, m) => Reached(k, m)'
  BY <1>3 DEF Reached
<1>7. \A k \in Jobs \ {j} : \A m : Latest(k, m) => Latest(k, m)'
  BY <1>3 DEF Latest
<1>8. Latest(j, n)'
  BY <1>1, <1>2, <1>3, TakenNat DEF Latest
<1>9. ClaimsContiguous'
  <2>1. ASSUME NEW m \in 1..n PROVE m \in Taken(j) \cup {n}
    BY <1>1, TakenNat DEF ClaimInv, ClaimsContiguous, Reached
  <2>2. \A m \in Taken(j)' : m >= 1 /\ \A i \in 1..m : i \in Taken(j)'
    <3>1. \A m \in Taken(j) : m >= 1 /\ \A i \in 1..m : i \in Taken(j)
      BY <1>1 DEF ClaimInv, ClaimsContiguous
    <3>2. Taken(j)' = Taken(j) \cup {n}
      BY <1>1, <1>3
    <3>3. QED
      BY <1>1, <2>1, <3>1, <3>2
  <2>3. QED
    BY <1>3, <2>2 DEF ClaimInv, ClaimsContiguous
<1>10. RowsClaimed'
  <2> SUFFICES ASSUME NEW k \in Jobs
               PROVE  /\ Reached(k, row[k].attempts)'
                      /\ row'[k].status = "running" => Latest(k, row[k].attempts)'
                      /\ lease'[k] # NoLease => Latest(k, lease[k].attempt)'
    BY DEF RowsClaimed
  <2>1. /\ Reached(k, row[k].attempts)
        /\ row[k].status = "running" => Latest(k, row[k].attempts)
        /\ lease[k] # NoLease => Latest(k, lease[k].attempt)
    BY DEF ClaimInv, RowsClaimed
  <2>2. Reached(k, row[k].attempts)'
    BY <1>4, <1>6, <2>1 DEF Reached
  <2>3. CASE k = j
    <3>1. lease'[k].attempt = n
      BY <1>4, <2>3
    <3>2. QED
      BY <1>1, <1>4, <1>8, <2>2, <2>3, <3>1 DEF Latest
  <2>4. CASE k # j
    <3>1. row'[k] = row[k] /\ lease'[k] = lease[k]
      BY <1>4, <2>4
    <3>2. QED
      BY <1>7, <2>1, <2>2, <2>4, <3>1 DEF Latest
  <2>5. QED
    BY <2>3, <2>4
<1>11. CopiesClaimed'
  <2> SUFFICES ASSUME NEW q \in Procs
               PROVE  /\ Busy(q)' => Reached(held[q].job, held[q].copy.attempts)'
                      /\ at'[q] = "receipt" => held'[q].copy.status # "running"
                      /\ Starting(q)' => Latest(held[q].job, held[q].copy.attempts)'
                      /\ at'[q] = "claim" =>
                           /\ held'[q].copy.status = "running"
                           /\ held'[q].copy.attempts >= 1
                           /\ Reached(held[q].job, held[q].copy.attempts - 1)'
                      /\ \A s \in scan'[q] : Reached(s.job, s.copy.attempts)'
    BY DEF CopiesClaimed
  <2>1. \A s \in scan'[q] : Reached(s.job, s.copy.attempts)'
    <3>1. \A s \in scan[q] : s.job \in Jobs /\ Reached(s.job, s.copy.attempts)
      BY DEF TypeOK, ClaimInv, CopiesClaimed
    <3>2. QED
      BY <1>4, <1>6, <3>1 DEF Reached
  <2>2. CASE q = p
    <3>1. Latest(held[q].job, held[q].copy.attempts)'
      BY <1>0, <1>4, <1>8, <2>2 DEF Latest
    <3>2. at'[q] = "save"
      BY <1>4, <2>2
    <3>3. QED
      BY <2>1, <3>1, <3>2 DEF Latest, Reached
  <2>3. CASE q # p
    <3>1. at'[q] = at[q] /\ held'[q] = held[q]
      BY <1>4, <2>3
    <3>2. at[q] \in {"claim", "receipt", "save"} => held[q].job \in Jobs
      BY DEF TypeOK
    <3>3. /\ Busy(q) => Reached(held[q].job, held[q].copy.attempts)
          /\ at[q] = "receipt" => held[q].copy.status # "running"
          /\ Starting(q) => Latest(held[q].job, held[q].copy.attempts) /\ held[q].job # j
          /\ at[q] = "claim" => /\ held[q].copy.status = "running"
                                /\ held[q].copy.attempts >= 1
                                /\ Reached(held[q].job, held[q].copy.attempts - 1)
      BY <1>5 DEF ClaimInv, CopiesClaimed
    <3>4. Starting(q)' => Latest(held[q].job, held[q].copy.attempts)'
      BY <1>7, <3>1, <3>2, <3>3 DEF Starting, Latest
    <3>5. Busy(q)' => Reached(held[q].job, held[q].copy.attempts)'
      BY <1>6, <3>1, <3>2, <3>3 DEF Busy, Reached
    <3>6. at'[q] = "claim" => Reached(held[q].job, held[q].copy.attempts - 1)'
      BY <1>6, <3>1, <3>2, <3>3 DEF Reached
    <3>7. QED
      BY <2>1, <3>1, <3>3, <3>4, <3>5, <3>6
  <2>4. QED
    BY <2>2, <2>3
<1>12. StarterAhead'
  <2> SUFFICES ASSUME NEW r \in Procs, Starting(r)'
               PROVE  /\ row'[held'[r].job].attempts < held'[r].copy.attempts
                      /\ \A q \in Procs \ {r} : held'[q].job = held'[r].job =>
                           /\ Busy(q)' => held'[q].copy.attempts < held'[r].copy.attempts
                           /\ at'[q] = "claim"
                              => held'[q].copy.attempts <= held'[r].copy.attempts
                      /\ \A q \in Procs : \A s \in scan'[q] : s.job = held'[r].job =>
                           s.copy.attempts < held'[r].copy.attempts
    BY DEF StarterAhead
  <2>1. CASE r # p
    <3>1. Starting(r) /\ held[r].job # j
      BY <1>4, <1>5, <2>1 DEF Starting
    <3>2. \A q \in Procs : Busy(q)' => Busy(q) \/ held[q].job # held[r].job
      BY <1>0, <1>4, <3>1 DEF Busy
    <3>3. row'[held'[r].job].attempts < held'[r].copy.attempts
      BY <1>4, <3>1 DEF ClaimInv, StarterAhead
    <3>4. ASSUME NEW q \in Procs \ {r}, held[q].job = held[r].job
          PROVE  /\ Busy(q)' => held[q].copy.attempts < held[r].copy.attempts
                 /\ at'[q] = "claim" => held[q].copy.attempts <= held[r].copy.attempts
      <4>1. /\ Busy(q) => held[q].copy.attempts < held[r].copy.attempts
            /\ at[q] = "claim" => held[q].copy.attempts <= held[r].copy.attempts
        BY <3>1, <3>4 DEF ClaimInv, StarterAhead
      <4>2. Busy(q)' => Busy(q)
        BY <3>2, <3>4
      <4>3. at'[q] = "claim" => at[q] = "claim"
        BY <1>4
      <4>4. QED
        BY <4>1, <4>2, <4>3
    <3>5. ASSUME NEW q \in Procs, NEW s \in scan[q], s.job = held[r].job
          PROVE  s.copy.attempts < held[r].copy.attempts
      BY <3>1, <3>5 DEF ClaimInv, StarterAhead
    <3>6. QED
      BY <1>4, <3>3, <3>4, <3>5
  <2>2. CASE r = p
    <3>1. ASSUME NEW m \in Nat, Reached(j, m) PROVE m < n
      BY <1>1, <1>2, <3>1 DEF Reached
    <3>2. row'[held'[r].job].attempts < held'[r].copy.attempts
      BY <1>0, <1>1, <1>4, <2>2
    <3>3. ASSUME NEW q \in Procs \ {p}, held[q].job = j
          PROVE  /\ Busy(q) => held[q].copy.attempts < n
                 /\ at[q] = "claim" => held[q].copy.attempts <= n
      <4>1. held[q].copy.attempts \in Nat
        BY DEF TypeOK, Row
      <4>2. Busy(q) => Reached(j, held[q].copy.attempts)
        BY <3>3 DEF ClaimInv, CopiesClaimed
      <4>3. at[q] = "claim" => /\ held[q].copy.attempts >= 1
                              /\ Reached(j, held[q].copy.attempts - 1)
        BY <3>3 DEF ClaimInv, CopiesClaimed
      <4>4. at[q] = "claim" => held[q].copy.attempts - 1 < n
        BY <3>1, <4>1, <4>3
      <4>5. QED
        BY <1>1, <3>1, <4>1, <4>2, <4>4
    <3>4. ASSUME NEW q \in Procs, NEW s \in scan[q], s.job = j PROVE s.copy.attempts < n
      <4>1. s.copy.attempts \in Nat
        BY DEF TypeOK, Row
      <4>2. Reached(j, s.copy.attempts)
        BY <3>4 DEF ClaimInv, CopiesClaimed
      <4>3. QED
        BY <3>1, <4>1, <4>2
    <3>5. \A q \in Procs \ {p} : Busy(q)' => Busy(q)
      BY <1>4 DEF Busy
    <3>6. QED
      BY <1>0, <1>4, <2>2, <3>2, <3>3, <3>4, <3>5
  <2>3. QED
    BY <2>1, <2>2
<1>13. QED
  BY <1>9, <1>10, <1>11, <1>12 DEF ClaimInv

LEMMA ExpireTaken ==
  ASSUME TypeOK, ExpireLeases
  PROVE  /\ \A j \in Jobs : Taken(j)' = Taken(j)
         /\ \A j \in Jobs :
              /\ row'[j].attempts = row[j].attempts
              /\ row'[j].status = "running" => row[j].status = "running"
              /\ lease'[j] # NoLease
                 => lease[j] # NoLease /\ lease'[j].attempt = lease[j].attempt
<1>1. \A j \in Jobs : Taken(j)' = Taken(j)
  <2> SUFFICES ASSUME NEW j \in Jobs, NEW n PROVE n \in Taken(j)' <=> n \in Taken(j)
    OBVIOUS
  <2>1. /\ n \in Taken(j)' <=> \E c \in claims' : c.job = j /\ c.attempt = n
        /\ n \in Taken(j) <=> \E c \in claims : c.job = j /\ c.attempt = n
    BY DEF Taken
  <2>2. \A c \in claims : /\ [c EXCEPT !.status = "expired"].job = c.job
                          /\ [c EXCEPT !.status = "expired"].attempt = c.attempt
    BY DEF TypeOK
  <2>3. /\ \A c \in claims : \E d \in claims' : d.job = c.job /\ d.attempt = c.attempt
        /\ \A d \in claims' : \E c \in claims : d.job = c.job /\ d.attempt = c.attempt
    BY <2>2 DEF ExpireLeases
  <2>4. QED
    BY <2>1, <2>3
<1>2. ASSUME NEW j \in Jobs
      PROVE  /\ row'[j].attempts = row[j].attempts
             /\ row'[j].status = "running" => row[j].status = "running"
             /\ lease'[j] # NoLease
                => lease[j] # NoLease /\ lease'[j].attempt = lease[j].attempt
  <2>1. /\ [row[j] EXCEPT !.status = "queued"].attempts = row[j].attempts
        /\ [row[j] EXCEPT !.status = "queued"].status = "queued"
    BY DEF TypeOK, Row
  <2>2. QED
    BY <2>1 DEF ExpireLeases, ExpiredRows
<1>3. QED
  BY <1>1, <1>2

\* Attempts are claimed one by one through every step of every call.
LEMMA ClaimInvStep == TypeOK /\ TypeOK' /\ ClaimInv /\ [Next]_vars => ClaimInv'
<1> SUFFICES ASSUME TypeOK, TypeOK', ClaimInv, [Next]_vars PROVE ClaimInv'
  OBVIOUS
<1>a. ASSUME claims' = claims PROVE \A j \in Jobs : Taken(j)' = Taken(j)
  BY <1>a DEF Taken
<1>b. ASSUME NEW p \in Procs, NEW label \in {"save", "receipt"}, NEW j \in Jobs,
             NEW job \in Row, NEW report, Hold(p, label, j, job, report),
             job.status # "running", job.attempts \in {0, row[j].attempts}
      PROVE  \A q \in Procs : NewView(q)
  <2> SUFFICES ASSUME NEW q \in Procs PROVE NewView(q)
    OBVIOUS
  <2>1. CASE q = p
    <3>1. at'[q] = label /\ held'[q].job = j /\ held'[q].copy = job
      BY <1>b, <2>1 DEF Hold, TypeOK
    <3>2. QED
      BY <1>b, <3>1 DEF NewView
  <2>2. CASE q # p
    BY <1>b, <2>2 DEF Hold, NewView, TypeOK
  <2>3. QED
    BY <2>1, <2>2
<1>c. ASSUME NEW p \in Procs, Return(p) PROVE \A q \in Procs : NewView(q)
  BY <1>c DEF Return, NewView, TypeOK
<1>d. ASSUME at' = at, held' = held PROVE \A q \in Procs : NewView(q)
  BY <1>d DEF NewView
<1>1. ASSUME NEW p \in Procs, NEW j \in Jobs, NEW type \in JobTypes, Create(p, j, type) PROVE ClaimInv'
  <2> DEFINE job == [Blank EXCEPT !.status = "queued", !.type = type, !.artifacts = Assigned[j]]
  <2>1. job \in Row /\ job.status # "running" /\ job.attempts = 0
    BY BlankRow, ConstantsAssumption DEF Row, Blank, Statuses
  <2> HIDE DEF job
  <2>2. Hold(p, "save", j, job, "malformed")
    BY <1>1 DEF Create, job
  <2>3. \A q \in Procs : NewView(q)
    BY <1>b, <2>1, <2>2
  <2>4. QED
    BY <1>1, <1>a, <2>3, QuietClaimed DEF Create, Quiet
<1>2. ASSUME NEW p \in Procs, NEW j \in Jobs, Start(p, j) PROVE ClaimInv'
  <2> DEFINE job == [row[j] EXCEPT !.status = "running", !.attempts = row[j].attempts + 1]
  <2>1. job.status = "running" /\ job.attempts = row[j].attempts + 1
    BY DEF TypeOK, Row
  <2> HIDE DEF job
  <2>2. Hold(p, "claim", j, job, "malformed")
    BY <1>2 DEF Start, job
  <2>3. \A q \in Procs : NewView(q)
    <3> SUFFICES ASSUME NEW q \in Procs PROVE NewView(q)
      OBVIOUS
    <3>1. CASE q = p
      <4>1. at'[q] = "claim" /\ held'[q].job = j /\ held'[q].copy = job
        BY <2>2, <3>1 DEF Hold, TypeOK
      <4>2. QED
        BY <2>1, <4>1 DEF NewView
    <3>2. CASE q # p
      BY <2>2, <3>2 DEF Hold, NewView, TypeOK
    <3>3. QED
      BY <3>1, <3>2
  <2>4. QED
    BY <1>2, <2>3, ExpireTaken, QuietClaimed DEF Start, Quiet
<1>3. ASSUME NEW p \in Procs, NEW j \in Jobs, Retry(p, j) PROVE ClaimInv'
  <2> DEFINE queued == "queued"
             job == [row[j] EXCEPT !.status = queued]
  <2>1. row[j] \in Row /\ queued \in Statuses
    BY DEF TypeOK, Statuses
  <2>2. Hold(p, "save", j, job, "malformed")
    BY <1>3 DEF Retry
  <2>3. job.status # "running" /\ job.attempts = row[j].attempts
    BY <2>1 DEF Row
  <2> HIDE DEF queued
  <2>4. job \in Row
    BY <2>1, StatusRow
  <2> HIDE DEF job
  <2>5. \A q \in Procs : NewView(q)
    BY <1>b, <2>2, <2>3, <2>4
  <2>6. QED
    BY <1>3, <1>a, <2>5, QuietClaimed DEF Retry, Quiet
<1>4. ASSUME NEW p \in Procs, NEW j \in Jobs, NEW report \in Reports, Complete(p, j, report)
      PROVE  ClaimInv'
  <2> DEFINE job == Completed(j, row[j], report)
  <2>0. row[j] \in Row
    BY DEF TypeOK
  <2>1. job \in Row /\ job.status # "running" /\ job.attempts = row[j].attempts
    BY <2>0, CompletedRow
  <2> HIDE DEF job
  <2>2. \/ Hold(p, "receipt", j, job, report) \/ Hold(p, "save", j, job, "malformed")
    BY <1>4 DEF Complete, job
  <2>3. \A q \in Procs : NewView(q)
    BY <1>b, <2>1, <2>2
  <2>4. QED
    BY <1>4, <1>a, <2>3, QuietClaimed DEF Complete, Quiet
<1>5. ASSUME NEW p \in Procs, NEW j \in Jobs, NEW class \in FailureClasses, Fail(p, j, class)
      PROVE  ClaimInv'
  <2> DEFINE job == Failed(j, row[j], class)
  <2>0. row[j] \in Row
    BY DEF TypeOK
  <2>1. job \in Row /\ job.status # "running" /\ job.attempts = row[j].attempts
    BY <2>0, FailedRow
  <2> HIDE DEF job
  <2>2. Hold(p, "save", j, job, "malformed")
    BY <1>5 DEF Fail, job
  <2>3. \A q \in Procs : NewView(q)
    BY <1>b, <2>1, <2>2
  <2>4. QED
    BY <1>5, <1>a, <2>3, QuietClaimed DEF Fail, Quiet
<1>6. ASSUME NEW p \in Procs, NEW j \in Jobs, Heartbeat(p, j) PROVE ClaimInv'
  <2>1. \A k \in Jobs : lease'[k] # NoLease => lease[k] # NoLease /\ lease'[k].attempt = lease[k].attempt
    BY <1>6 DEF Heartbeat, TypeOK
  <2>2. QED
    BY <1>6, <1>a, <1>d, <2>1, QuietClaimed DEF Heartbeat, Quiet
<1>7. ASSUME NEW p \in Procs, Ready(p) PROVE ClaimInv'
  BY <1>7, <1>d, ExpireTaken, QuietClaimed DEF Ready, Quiet
<1>8. ASSUME NEW p \in Procs, Claim(p) PROVE ClaimInv'
  BY <1>8, ClaimClaimed
<1>9. ASSUME NEW p \in Procs, ClaimRefused(p) PROVE ClaimInv'
  BY <1>9, <1>a, <1>c, QuietClaimed DEF ClaimRefused, Quiet
<1>10. ASSUME NEW p \in Procs, RecordReceipt(p) PROVE ClaimInv'
  <2>1. \A j \in Jobs : Taken(j)' = Taken(j)
    <3> SUFFICES ASSUME NEW j \in Jobs, NEW n PROVE n \in Taken(j)' <=> n \in Taken(j)
      OBVIOUS
    <3>1. /\ n \in Taken(j)' <=> \E c \in claims' : c.job = j /\ c.attempt = n
          /\ n \in Taken(j) <=> \E c \in claims : c.job = j /\ c.attempt = n
      BY DEF Taken
    <3>2. \A c \in claims : /\ [c EXCEPT !.status = "succeeded"].job = c.job
                            /\ [c EXCEPT !.status = "succeeded"].attempt = c.attempt
      BY DEF TypeOK
    <3>3. /\ \A c \in claims : \E d \in claims' : d.job = c.job /\ d.attempt = c.attempt
          /\ \A d \in claims' : \E c \in claims : d.job = c.job /\ d.attempt = c.attempt
      BY <1>10, <3>2 DEF RecordReceipt
    <3>4. QED
      BY <3>1, <3>3
  <2>2. \A q \in Procs : NewView(q)
    <3> SUFFICES ASSUME NEW q \in Procs PROVE NewView(q)
      OBVIOUS
    <3>1. CASE q = p
      <4>1. /\ at[q] = "receipt" /\ at'[q] = "save" /\ held'[q] = held[q]
            /\ held[q].copy.status # "running"
        BY <1>10, <3>1 DEF RecordReceipt, TypeOK, ClaimInv, CopiesClaimed
      <4>2. QED
        BY <4>1 DEF NewView, Busy
    <3>2. CASE q # p
      BY <1>10, <3>2 DEF RecordReceipt, NewView, TypeOK
    <3>3. QED
      BY <3>1, <3>2
  <2>3. QED
    BY <1>10, <2>1, <2>2, QuietClaimed DEF RecordReceipt, Quiet
<1>11. ASSUME NEW p \in Procs, ReceiptRefused(p) PROVE ClaimInv'
  BY <1>11, <1>a, <1>c, QuietClaimed DEF ReceiptRefused, Quiet
<1>12. ASSUME NEW p \in Procs, Save(p) PROVE ClaimInv'
  <2>0. PICK j, job : j = held[p].job /\ job = held[p].copy
    OBVIOUS
  <2>1. j \in Jobs /\ job \in Row /\ Persist(j, job) /\ claims' = claims /\ at[p] = "save"
    BY <1>12, <2>0 DEF Save, TypeOK
  <2>2. /\ Reached(j, job.attempts)
        /\ job.status = "running" => Latest(j, job.attempts)
    BY <2>0, <2>1 DEF ClaimInv, CopiesClaimed, Busy, Starting
  <2>3. \A q \in Procs \ {p} :
          Starting(q) /\ held[q].job = j => job.attempts < held[q].copy.attempts
    BY <2>0, <2>1 DEF ClaimInv, StarterAhead, Busy
  <2>4. /\ at'[p] = "idle" /\ \A q \in Procs \ {p} : at'[q] = at[q] /\ held'[q] = held[q]
        /\ \A q \in Procs : scan'[q] \subseteq scan[q]
    BY <1>12 DEF Save, Return, TypeOK
  <2>5. QED
    BY <2>1, <2>2, <2>3, <2>4, WriteClaimed
<1>13. ASSUME NEW p \in Procs, Recover(p) PROVE ClaimInv'
  <2>1. \A q \in Procs : NewView(q)
    BY <1>13 DEF Recover, NewView, TypeOK
  <2>2. \A q \in Procs : \A s \in scan'[q] : s \in scan[q] \/ s.copy = row[s.job]
    BY <1>13 DEF Recover, TypeOK
  <2>3. QED
    BY <1>13, <1>a, <2>1, <2>2, QuietClaimed DEF Recover, Quiet
<1>14. ASSUME NEW p \in Procs, RecoverJob(p) PROVE ClaimInv'
  <2>1. PICK s \in scan[p] :
          /\ Persist(s.job, Failed(s.job, Validated(s.copy), "interrupted"))
          /\ scan' = [scan EXCEPT ![p] = @ \ {s}]
          /\ at' = [at EXCEPT ![p] = IF scan[p] = {s} THEN "idle" ELSE "recover"]
    BY <1>14 DEF RecoverJob
  <2> DEFINE seen == Validated(s.copy)
             job  == Failed(s.job, seen, "interrupted")
  <2>2. s.job \in Jobs /\ s.copy \in Row
    BY DEF TypeOK
  <2>3. seen \in Row /\ seen.attempts = s.copy.attempts
    <3>1. seen \in Row /\ seen = [s.copy EXCEPT !.invalid = seen.invalid]
      BY <2>2, ValidatedRow
    <3>2. QED
      BY <2>2, <3>1 DEF Row
  <2>4. Persist(s.job, job)
    BY <2>1
  <2> HIDE DEF seen
  <2>5. job \in Row /\ job.status # "running" /\ job.attempts = s.copy.attempts
    BY <2>2, <2>3, FailedRow DEF FailureClasses, RetryableFailures
  <2> HIDE DEF job
  <2>6. Reached(s.job, job.attempts)
    BY <2>5 DEF ClaimInv, CopiesClaimed
  <2>7. \A q \in Procs \ {p} :
          Starting(q) /\ held[q].job = s.job => job.attempts < held[q].copy.attempts
    BY <2>5 DEF ClaimInv, StarterAhead
  <2>8. /\ at'[p] \in {"idle", "recover"}
        /\ \A q \in Procs \ {p} : at'[q] = at[q] /\ held'[q] = held[q]
        /\ \A q \in Procs : scan'[q] \subseteq scan[q]
        /\ claims' = claims
    BY <1>14, <2>1 DEF RecoverJob, TypeOK
  <2>9. QED
    BY <2>2, <2>4, <2>5, <2>6, <2>7, <2>8, WriteClaimed
<1>15. ASSUME NEW p \in Procs, Crash(p) PROVE ClaimInv'
  <2>1. \A q \in Procs : \A s \in scan'[q] : s \in scan[q]
    BY <1>15 DEF Crash, TypeOK
  <2>2. QED
    BY <1>15, <1>a, <1>c, <2>1, QuietClaimed DEF Crash, Quiet
<1>16. ASSUME NEW j \in Jobs, LeaseTimeout(j) PROVE ClaimInv'
  <2>1. \A k \in Jobs : lease'[k] # NoLease => lease[k] # NoLease /\ lease'[k].attempt = lease[k].attempt
    <3>1. \A k \in Jobs : /\ lease'[k] = lease[k] \/ lease[k].live
                          /\ lease'[k].attempt = lease[k].attempt
      BY <1>16 DEF LeaseTimeout, TypeOK
    <3>2. ~NoLease.live
      BY DEF NoLease
    <3>3. QED
      BY <3>1, <3>2
  <2>2. QED
    BY <1>16, <1>a, <1>d, <2>1, QuietClaimed DEF LeaseTimeout, Quiet
<1>17. ASSUME NEW j \in Jobs, NEW a \in Artifacts, NEW c \in Contents, WorkerWrite(j, a, c)
       PROVE  ClaimInv'
  BY <1>17, <1>a, <1>d, QuietClaimed DEF WorkerWrite, Quiet
<1>18. CASE UNCHANGED vars
  BY <1>18, <1>a, <1>d, QuietClaimed DEF vars, Quiet
<1>19. QED
  BY <1>1, <1>2, <1>3, <1>4, <1>5, <1>6, <1>7, <1>8, <1>9, <1>10, <1>11, <1>12,
     <1>13, <1>14, <1>15, <1>16, <1>17, <1>18 DEF Next

LEMMA ClaimsSound == Spec => []ClaimInv
<1>1. Init => ClaimInv
  BY DEF Init, ClaimInv, ClaimsContiguous, RowsClaimed, CopiesClaimed, StarterAhead,
         Taken, Reached, Latest, Busy, Starting, Blank
<1>2. QED
  BY <1>1, TypeCorrect, ClaimInvStep, PTL DEF Spec

\* However many processes start a job at once, one at most has claimed the
\* attempt it is going to run.
THEOREM NoTwoStarters == Spec => []NoDoubleClaim
<1>1. TypeOK /\ ClaimInv => NoDoubleClaim
  <2> SUFFICES ASSUME TypeOK, ClaimInv, NEW p \in Procs, NEW q \in Procs,
                      Starting(p), Starting(q), held[p].job = held[q].job, p # q
               PROVE  FALSE
    BY DEF NoDoubleClaim, Starting
  <2>1. /\ held[q].copy.attempts < held[p].copy.attempts
        /\ held[p].copy.attempts < held[q].copy.attempts
    BY DEF ClaimInv, StarterAhead, Busy, Starting
  <2>2. held[p].copy.attempts \in Nat /\ held[q].copy.attempts \in Nat
    BY DEF TypeOK, Row
  <2>3. QED
    BY <2>1, <2>2
<1>2. QED
  BY <1>1, TypeCorrect, ClaimsSound, PTL

\* A running job always runs the latest attempt, and its lease is that attempt's.
THEOREM LatestRuns == Spec => []RunIsLatestClaim
<1>1. TypeOK /\ ClaimInv => RunIsLatestClaim
  <2> SUFFICES ASSUME TypeOK, ClaimInv, NEW j \in Jobs, row[j].status = "running"
               PROVE  /\ HasClaim(j, row[j].attempts)
                      /\ \A c \in claims : c.job = j => c.attempt <= row[j].attempts
                      /\ lease[j] # NoLease => lease[j].attempt = row[j].attempts
    BY DEF RunIsLatestClaim
  <2>1. /\ Latest(j, row[j].attempts)
        /\ lease[j] # NoLease => Latest(j, lease[j].attempt)
        /\ row[j].attempts \in Nat /\ lease[j].attempt \in Nat
    BY DEF ClaimInv, RowsClaimed, TypeOK, Row
  <2>2. \A c \in claims : c.job = j => c.attempt \in Taken(j)
    BY DEF Taken
  <2>3. QED
    BY <2>1, <2>2, TakenNat DEF Latest
<1>2. QED
  BY <1>1, TypeCorrect, ClaimsSound, PTL
=============================================================================
