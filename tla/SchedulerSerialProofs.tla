------------------------ MODULE SchedulerSerialProofs ------------------------
(***************************************************************************)
(* Proofs about Scheduler for a ledger that one Coordinator calls, one     *)
(* call after the other, each of which may be killed anywhere: what a call *)
(* read is still so when it writes, and the ledger then implements the     *)
(* abstract life of a job.  With two calls at the same time none of this   *)
(* holds (VSchedulerCapacity shows one such behaviour).                    *)
(***************************************************************************)
EXTENDS SchedulerProofs

\* One call at a time.
Alone == \A p, q \in Procs : p = q

-----------------------------------------------------------------------------
(* The inductive invariant: what a call holds is a change that the abstract   *)
(* life of the job allows of the row as it is now.                            *)

Creates(j, job) ==
  /\ row[j].status = "absent" /\ job.status = "queued"
  /\ job.type \in Types[j] /\ job.attempts = 0

Starts(j, job) ==
  /\ row[j].status = "queued" /\ job.status = "running"
  /\ job.type = row[j].type /\ job.attempts = row[j].attempts + 1
  /\ remaining[j] = 0 /\ Admits(j, row)

Changes(j, job) ==
  /\ \/ row[j].status = "running" /\ job.status = "succeeded"
     \/ row[j].status \in {"queued", "running"} /\ job.status \in {"retryable", "failed"}
     \/ row[j].status = "retryable" /\ job.status = "queued"
  /\ job.type = row[j].type /\ job.attempts = row[j].attempts

\* A lease names an attempt for as long as its job runs, whether it is live or not.
Leased(j) == lease[j].attempt # 0

Current(p) ==
  LET j == held[p].job  job == held[p].copy
  IN  /\ at[p] = "claim" => Starts(j, job)
      /\ at[p] = "receipt" => Changes(j, job)
      /\ at[p] = "save" => \/ Creates(j, job) \/ Changes(j, job)
                           \/ Starts(j, job) /\ Leased(j)
      /\ at[p] # "recover" => scan[p] = {}
      /\ \A s \in scan[p] : s.copy = row[s.job] /\ row[s.job].status = "running"

Unstarted   == \A j \in Jobs : row[j].status = "absent" => row[j].attempts = 0
RunsLeased  == \A j \in Jobs : row[j].status = "running" => Leased(j)
CallCurrent == \A p \in Procs : Current(p)

SerialInv == Unstarted /\ RunsLeased /\ RemainingAccurate /\ WithinCapacity /\ CallCurrent
-----------------------------------------------------------------------------
(* Counts *)

LEMMA RunningFinite ==
  ASSUME NEW rows, NEW T \in SUBSET Running(rows)
  PROVE  IsFiniteSet(T) /\ Cardinality(T) \in Nat
<1>1. T \in SUBSET Jobs
  BY DEF Running
<1>2. IsFiniteSet(T)
  BY <1>1, FS_Subset, ConstantsAssumption
<1>3. QED
  BY <1>2, FS_CardinalityType

LEMMA OneMore ==
  ASSUME NEW S, NEW x, IsFiniteSet(S)
  PROVE  /\ Cardinality(S) \in Nat /\ Cardinality(S \cup {x}) \in Nat
         /\ Cardinality(S \cup {x}) <= Cardinality(S) + 1
<1>1. IsFiniteSet(S \cup {x})
  BY FS_AddElement
<1>2. Cardinality(S) \in Nat /\ Cardinality(S \cup {x}) \in Nat
  BY <1>1, FS_CardinalityType
<1>3. Cardinality(S \cup {x}) = IF x \in S THEN Cardinality(S) ELSE Cardinality(S) + 1
  BY FS_AddElement
<1>4. QED
  BY <1>2, <1>3

\* The count of unmet dependencies depends only on who has succeeded.
LEMMA UnmetSame ==
  ASSUME NEW j \in Jobs, NEW rows, NEW others,
         \A d \in Deps[j] : rows[d].status = "succeeded" <=> others[d].status = "succeeded"
  PROVE  Unmet(j, rows) = Unmet(j, others)
BY DEF Unmet

\* When no job starts and none changes its type, the caps stay kept.
LEMMA FewerRunning ==
  ASSUME WithinCapacity, Running(row') \subseteq Running(row),
         \A j \in Running(row') : row'[j].type = row[j].type
  PROVE  WithinCapacity'
<1>1. Cardinality(Running(row')) <= GlobalCap
  <2>1. /\ Cardinality(Running(row)) \in Nat /\ Cardinality(Running(row')) \in Nat
        /\ IsFiniteSet(Running(row))
    BY RunningFinite
  <2>2. Cardinality(Running(row')) <= Cardinality(Running(row))
    BY <2>1, FS_Subset
  <2>3. QED
    BY <2>1, <2>2, ConstantsAssumption DEF WithinCapacity
<1>2. ASSUME NEW t \in JobTypes
      PROVE  Cardinality({j \in Running(row') : row'[j].type = t}) <= TypeCap[t]
  <2> DEFINE Before == {j \in Running(row) : row[j].type = t}
             After  == {j \in Running(row') : row'[j].type = t}
  <2>1. After \in SUBSET Before /\ Before \in SUBSET Running(row) /\ After \in SUBSET Running(row')
    OBVIOUS
  <2>2. Cardinality(Before) <= TypeCap[t] /\ TypeCap[t] \in Nat
    BY ConstantsAssumption DEF WithinCapacity
  <2> HIDE DEF Before, After
  <2>3. IsFiniteSet(Before) /\ Cardinality(Before) \in Nat /\ Cardinality(After) \in Nat
    BY <2>1, RunningFinite
  <2>4. Cardinality(After) <= Cardinality(Before)
    BY <2>1, <2>3, FS_Subset
  <2>5. Cardinality(After) <= TypeCap[t]
    BY <2>2, <2>3, <2>4
  <2>6. QED
    BY <2>5 DEF After
<1>3. QED
  BY <1>1, <1>2 DEF WithinCapacity

\* A job that was admitted may start.
LEMMA OneMoreRunning ==
  ASSUME WithinCapacity, NEW j \in Jobs, row[j].type \in JobTypes, Admits(j, row),
         Running(row') = Running(row) \cup {j},
         \A k \in Running(row') : row'[k].type = row[k].type
  PROVE  WithinCapacity'
<1>1. Cardinality(Running(row')) <= GlobalCap
  <2>1. IsFiniteSet(Running(row)) /\ Cardinality(Running(row)) \in Nat
    BY RunningFinite
  <2>2. Cardinality(Running(row')) <= Cardinality(Running(row)) + 1
    BY <2>1, OneMore
  <2>3. Cardinality(Running(row')) \in Nat /\ Cardinality(Running(row)) < GlobalCap
    BY RunningFinite DEF Admits
  <2>4. QED
    BY <2>1, <2>2, <2>3, ConstantsAssumption
<1>2. ASSUME NEW t \in JobTypes
      PROVE  Cardinality({k \in Running(row') : row'[k].type = t}) <= TypeCap[t]
  <2> DEFINE Before == {k \in Running(row) : row[k].type = t}
             After  == {k \in Running(row') : row'[k].type = t}
  <2>1. Before \in SUBSET Running(row) /\ Cardinality(Before) <= TypeCap[t]
    BY DEF WithinCapacity
  <2>2. IsFiniteSet(Before) /\ Cardinality(Before) \in Nat
    BY <2>1, RunningFinite
  <2>3. TypeCap[t] \in Nat
    BY ConstantsAssumption
  <2>4. CASE t = row[j].type
    <3>1. After = Before \cup {j}
      BY <2>4
    <3>2. Cardinality(Before) < TypeCap[t]
      BY <2>4 DEF Admits
    <3> HIDE DEF Before, After
    <3>3. Cardinality(After) \in Nat /\ Cardinality(After) <= Cardinality(Before) + 1
      BY <2>2, <3>1, OneMore
    <3>4. Cardinality(After) <= TypeCap[t]
      BY <2>2, <2>3, <3>2, <3>3
    <3>5. QED
      BY <3>4 DEF After
  <2>5. CASE t # row[j].type
    <3>1. After \subseteq Before
      BY <2>5
    <3>2. Before \subseteq After
      OBVIOUS
    <3>3. QED
      BY <2>1, <3>1, <3>2
  <2>6. QED
    BY <2>4, <2>5
<1>3. QED
  BY <1>1, <1>2 DEF WithinCapacity

-----------------------------------------------------------------------------
(* The two transactions that change rows *)

Tables == Unstarted /\ RunsLeased /\ RemainingAccurate /\ WithinCapacity

\* An expiry takes running jobs back to the queue and does nothing else to a row.
LEMMA ExpiredRow ==
  ASSUME TypeOK, NEW j \in Jobs
  PROVE  /\ ExpiredRows[j].type = row[j].type
         /\ ExpiredRows[j].attempts = row[j].attempts
         /\ ExpiredRows[j].status =
              IF j \in Overdue /\ row[j].status = "running" THEN "queued" ELSE row[j].status
         /\ row[j].status # "running" => ExpiredRows[j] = row[j]
BY DEF ExpiredRows, TypeOK, Row

LEMMA ExpireTables ==
  ASSUME TypeOK, Tables, ExpireLeases, UNCHANGED remaining
  PROVE  Tables'
<1>1. row' = ExpiredRows
  BY DEF ExpireLeases
<1>2. Unstarted'
  BY <1>1, ExpiredRow DEF Unstarted, Tables
<1>3. RunsLeased'
  <2>1. ASSUME NEW j \in Jobs, row'[j].status = "running"
        PROVE  lease'[j].attempt # 0
    <3>1. j \notin Overdue /\ row[j].status = "running"
      BY <1>1, <2>1, ExpiredRow
    <3>2. lease'[j] = lease[j]
      BY <3>1 DEF ExpireLeases
    <3>3. QED
      BY <3>1, <3>2 DEF Tables, RunsLeased, Leased
  <2>2. QED
    BY <2>1 DEF RunsLeased, Leased
<1>4. RemainingAccurate'
  <2>1. ASSUME NEW j \in Jobs, row'[j].status # "absent"
        PROVE  remaining'[j] = Cardinality(Unmet(j, row'))
    <3>1. \A d \in Deps[j] : row[d].status = "succeeded" <=> row'[d].status = "succeeded"
      BY <1>1, ExpiredRow, ConstantsAssumption
    <3>2. Unmet(j, row) = Unmet(j, row')
      BY <3>1, UnmetSame
    <3>3. row[j].status # "absent"
      BY <1>1, <2>1, ExpiredRow
    <3>4. QED
      BY <3>2, <3>3 DEF Tables, RemainingAccurate
  <2>2. QED
    BY <2>1 DEF RemainingAccurate
<1>5. WithinCapacity'
  <2>1. Running(row') \subseteq Running(row)
    BY <1>1, ExpiredRow DEF Running
  <2>2. \A j \in Running(row') : row'[j].type = row[j].type
    BY <1>1, ExpiredRow DEF Running
  <2>3. QED
    BY <2>1, <2>2, FewerRunning DEF Tables
<1>6. QED
  BY <1>2, <1>3, <1>4, <1>5 DEF Tables

LEMMA PersistTables ==
  ASSUME TypeOK, Tables, NEW j \in Jobs, NEW job \in Row, Persist(j, job),
         \/ Creates(j, job)
         \/ Changes(j, job)
         \/ Starts(j, job) /\ Leased(j)
  PROVE  Tables'
<1>1. \A k \in Jobs : row'[k] = IF k = j THEN job ELSE row[k]
  BY DEF Persist, TypeOK
<1>2. job.status # "absent" /\ row[j].status # "succeeded"
  BY DEF Creates, Changes, Starts
<1>3. Unstarted'
  BY <1>1, <1>2 DEF Unstarted, Tables
<1>4. RunsLeased'
  <2>1. ASSUME NEW k \in Jobs, row'[k].status = "running" PROVE lease'[k].attempt # 0
    <3>1. CASE k = j
      <4>1. job.status = "running" /\ Leased(j)
        BY <1>1, <2>1, <3>1 DEF Creates, Changes
      <4>2. lease' = lease
        BY <4>1 DEF Persist
      <4>3. QED
        BY <3>1, <4>1, <4>2 DEF Leased
    <3>2. CASE k # j
      <4>1. lease'[k] = lease[k]
        BY <3>2 DEF Persist, TypeOK
      <4>2. QED
        BY <1>1, <2>1, <3>2, <4>1 DEF Tables, RunsLeased, Leased
    <3>3. QED
      BY <3>1, <3>2
  <2>2. QED
    BY <2>1 DEF RunsLeased, Leased
<1>5. RemainingAccurate'
  <2>1. ASSUME NEW k \in Jobs, row'[k].status # "absent"
        PROVE  remaining'[k] = Cardinality(Unmet(k, row'))
    <3>1. CASE k = j
      <4>1. \A d \in Deps[j] : row[d].status = "succeeded" <=> row'[d].status = "succeeded"
        BY <1>1, ConstantsAssumption
      <4>2. Unmet(j, row) = Unmet(j, row')
        BY <4>1, UnmetSame
      <4>3. remaining'[j] = Cardinality(Unmet(j, row))
        BY DEF Persist
      <4>4. QED
        BY <3>1, <4>2, <4>3
    <3>2. CASE k # j
      <4>1. row[k].status # "absent"
        BY <1>1, <2>1, <3>2
      <4>2. CASE job.status = "succeeded" /\ j \in Deps[k]
        <5>1. row[j].status \notin {"absent", "succeeded"}
          BY <4>2 DEF Creates, Changes, Starts
        <5>2. QED
          BY <3>2, <4>1, <4>2, <5>1 DEF Persist
      <4>3. CASE ~(job.status = "succeeded" /\ j \in Deps[k])
        <5>1. remaining'[k] = remaining[k]
          BY <3>2, <4>3 DEF Persist
        <5>2. \A d \in Deps[k] : row[d].status = "succeeded" <=> row'[d].status = "succeeded"
          BY <1>1, <1>2, <4>3, ConstantsAssumption
        <5>3. Unmet(k, row) = Unmet(k, row')
          BY <5>2, UnmetSame
        <5>4. QED
          BY <4>1, <5>1, <5>3 DEF Tables, RemainingAccurate
      <4>4. QED
        BY <4>2, <4>3
    <3>3. QED
      BY <3>1, <3>2
  <2>2. QED
    BY <2>1 DEF RemainingAccurate
<1>6. WithinCapacity'
  <2>1. CASE job.status = "running"
    <3>1. Starts(j, job)
      BY <2>1 DEF Creates, Changes
    <3>2. Running(row') = Running(row) \cup {j}
      BY <1>1, <2>1 DEF Running
    <3>3. \A k \in Running(row') : row'[k].type = row[k].type
      BY <1>1, <3>1 DEF Running, Starts
    <3>4. row[j].type \in JobTypes
      BY DEF TypeOK, Row
    <3>5. QED
      BY <3>1, <3>2, <3>3, <3>4, OneMoreRunning DEF Tables, Starts
  <2>2. CASE job.status # "running"
    <3>1. Running(row') \subseteq Running(row)
      BY <1>1, <2>2 DEF Running
    <3>2. \A k \in Running(row') : row'[k].type = row[k].type
      BY <1>1, <2>2 DEF Running
    <3>3. QED
      BY <3>1, <3>2, FewerRunning DEF Tables
  <2>3. QED
    BY <2>1, <2>2
<1>7. QED
  BY <1>3, <1>4, <1>5, <1>6 DEF Tables

-----------------------------------------------------------------------------
(* Every step keeps the invariant *)

\* With one call at a time it is enough to look at the call that takes the step.
LEMMA OnlyCall ==
  ASSUME Alone, NEW p \in Procs, Current(p)'
  PROVE  CallCurrent'
BY DEF Alone, CallCurrent

\* The only call in progress holds what it was just handed.
LEMMA Handed ==
  ASSUME TypeOK, NEW p \in Procs, NEW label, NEW j, NEW job, NEW report,
         Hold(p, label, j, job, report)
  PROVE  at'[p] = label /\ held'[p].job = j /\ held'[p].copy = job
BY DEF TypeOK, Hold

\* A call that has returned holds nothing.
LEMMA Returned ==
  ASSUME TypeOK, NEW p \in Procs, Return(p), scan'[p] = {}
  PROVE  Current(p)'
BY DEF TypeOK, Return, Current, Nothing

\* No report of a Worker changes what kind of job it is about.
LEMMA CompletedType ==
  ASSUME NEW j \in Jobs, NEW job \in Row, NEW report \in Reports
  PROVE  Completed(j, job, report).type = job.type
<1> DEFINE seen == IF report = "malformed" THEN job ELSE Validated(job)
           kept == IF job.type = "verify_batch" /\ seen.invalid # {} THEN Shrunk(seen) ELSE seen
<1>1. seen \in Row /\ seen.type = job.type
  BY ValidatedRow DEF Row
<1>2. kept \in Row /\ kept.type = job.type
  BY <1>1, ShrunkRow DEF Shrunk, Row
<1>3. CASE report = "malformed" \/ Unusable(job) # {}
  <2>1. Completed(j, job, report) = Failed(j, kept, "output")
    BY <1>3 DEF Completed
  <2> HIDE DEF kept
  <2>2. QED
    BY <1>2, <2>1, FailedRow DEF FailureClasses, RetryableFailures
<1>4. CASE ~(report = "malformed" \/ Unusable(job) # {})
  BY <1>4 DEF Completed, Row
<1>5. QED
  BY <1>3, <1>4

\* recover makes of a running job one that is retryable or failed.
LEMMA InterruptedChanges ==
  ASSUME TypeOK, NEW j \in Jobs, NEW copy \in Row, copy = row[j], row[j].status = "running"
  PROVE  /\ Failed(j, Validated(copy), "interrupted") \in Row
         /\ Changes(j, Failed(j, Validated(copy), "interrupted"))
<1> DEFINE seen == Validated(copy)
<1>1. seen \in Row /\ seen.type = copy.type /\ seen.attempts = copy.attempts
  BY ValidatedRow DEF Row
<1> HIDE DEF seen
<1> DEFINE job == Failed(j, seen, "interrupted")
<1>2. /\ job \in Row /\ job.status \in {"retryable", "failed"}
      /\ job.type = seen.type /\ job.attempts = seen.attempts
  BY <1>1, FailedRow DEF FailureClasses, RetryableFailures
<1> HIDE DEF job
<1>3. Changes(j, job)
  BY <1>1, <1>2 DEF Changes
<1>4. QED
  BY <1>2, <1>3 DEF job, seen

\* Nothing that a call relies on changed.
LEMMA SameTables ==
  ASSUME Tables, UNCHANGED <<row, remaining>>,
         \A j \in Jobs : lease'[j].attempt = lease[j].attempt \/ Leased(j)'
  PROVE  Tables'
<1>1. Unstarted'
  BY DEF Tables, Unstarted
<1>2. RunsLeased'
  BY DEF Tables, RunsLeased, Leased
<1>3. RemainingAccurate'
  BY DEF Tables, RemainingAccurate
<1>4. WithinCapacity'
  BY DEF Tables, WithinCapacity
<1>5. QED
  BY <1>1, <1>2, <1>3, <1>4 DEF Tables

LEMMA SameCall ==
  ASSUME CallCurrent, UNCHANGED <<row, remaining, at, held, scan>>,
         \A j \in Jobs : lease'[j].attempt = lease[j].attempt \/ Leased(j)'
  PROVE  \A p \in Procs : (at[p] = "save" => held[p].job \in Jobs) => Current(p)'
<1>1. SUFFICES ASSUME NEW p \in Procs, at[p] = "save" => held[p].job \in Jobs
               PROVE  Current(p)'
  OBVIOUS
<1> DEFINE j == held[p].job
           job == held[p].copy
<1>2. Current(p)
  BY DEF CallCurrent
<1>3. /\ Creates(j, job) => Creates(j, job)'
      /\ Changes(j, job) => Changes(j, job)'
      /\ Starts(j, job) => Starts(j, job)'
  BY DEF Creates, Changes, Starts, Admits
<1>4. at[p] = "save" /\ Leased(j) => Leased(j)'
  BY <1>1 DEF Leased
<1>5. QED
  BY <1>2, <1>3, <1>4 DEF Current

LEMMA InitSerial == Init => SerialInv
<1> SUFFICES ASSUME Init PROVE SerialInv
  OBVIOUS
<1>1. \A j \in Jobs : row[j].status = "absent" /\ row[j].attempts = 0
  BY DEF Init, Blank
<1>2. Running(row) = {}
  BY <1>1 DEF Running
<1>3. WithinCapacity
  <2>1. Cardinality(Running(row)) = 0
    BY <1>2, FS_EmptySet
  <2>2. \A t \in JobTypes : {j \in Running(row) : row[j].type = t} = {}
    BY <1>2
  <2>3. \A t \in JobTypes : Cardinality({j \in Running(row) : row[j].type = t}) = 0
    BY <2>2, FS_EmptySet
  <2>4. QED
    BY <2>1, <2>3, ConstantsAssumption DEF WithinCapacity
<1>4. CallCurrent
  BY DEF Init, CallCurrent, Current
<1>5. QED
  BY <1>1, <1>3, <1>4 DEF SerialInv, Unstarted, RunsLeased, RemainingAccurate

LEMMA SerialStep ==
  ASSUME Alone, TypeOK, SerialInv, [Next]_vars
  PROVE  SerialInv'
<1> USE DEF Idle
<1>1. Tables /\ CallCurrent
  BY DEF SerialInv, Tables
<1>2. SUFFICES Tables' /\ CallCurrent'
  BY DEF SerialInv, Tables
\* A call that only reads, and goes on with what it read.
<1>3. ASSUME UNCHANGED <<row, remaining, lease>> PROVE Tables'
  BY <1>1, <1>3, SameTables
<1>4. ASSUME NEW p \in Procs, NEW j \in Jobs, NEW type \in JobTypes, Create(p, j, type)
      PROVE  Tables' /\ CallCurrent'
  <2> DEFINE job == [Blank EXCEPT !.status = "queued", !.type = type, !.artifacts = Assigned[j]]
  <2>1. at'[p] = "save" /\ held'[p].job = j /\ held'[p].copy = job
    BY <1>4, Handed DEF Create
  <2>2. job.status = "queued" /\ job.type = type /\ job.attempts = 0
    BY DEF Blank
  <2> HIDE DEF job
  <2>3. Creates(held[p].job, held[p].copy)'
    BY <1>4, <2>1, <2>2 DEF Create, Creates
  <2>4. scan'[p] = {}
    BY <1>1, <1>4 DEF Create, CallCurrent, Current
  <2>5. Current(p)'
    BY <2>1, <2>3, <2>4 DEF Current
  <2>6. QED
    BY <1>3, <1>4, <2>5, OnlyCall DEF Create
<1>5. ASSUME NEW p \in Procs, NEW j \in Jobs, Start(p, j)
      PROVE  Tables' /\ CallCurrent'
  <2> DEFINE job == [row[j] EXCEPT !.status = "running", !.attempts = @ + 1]
  <2>1. at'[p] = "claim" /\ held'[p].job = j /\ held'[p].copy = job
    BY <1>5, Handed DEF Start
  <2>2. job.status = "running" /\ job.type = row[j].type /\ job.attempts = row[j].attempts + 1
    BY DEF TypeOK, Row
  <2>3. row'[j] = row[j] /\ row' = ExpiredRows
    BY <1>5, ExpiredRow DEF Start, ExpireLeases
  <2> HIDE DEF job
  <2>4. Starts(held[p].job, held[p].copy)'
    BY <1>5, <2>1, <2>2, <2>3 DEF Start, Starts, Admits
  <2>5. scan'[p] = {}
    BY <1>1, <1>5 DEF Start, CallCurrent, Current
  <2>6. Current(p)'
    BY <2>1, <2>4, <2>5 DEF Current
  <2>7. QED
    BY <1>1, <1>5, <2>6, OnlyCall, ExpireTables DEF Start
<1>6. ASSUME NEW p \in Procs, NEW j \in Jobs, Retry(p, j)
      PROVE  Tables' /\ CallCurrent'
  <2> DEFINE job == [row[j] EXCEPT !.status = "queued"]
  <2>1. at'[p] = "save" /\ held'[p].job = j /\ held'[p].copy = job
    BY <1>6, Handed DEF Retry
  <2>2. job.status = "queued" /\ job.type = row[j].type /\ job.attempts = row[j].attempts
    BY DEF TypeOK, Row
  <2> HIDE DEF job
  <2>3. Changes(held[p].job, held[p].copy)'
    BY <1>6, <2>1, <2>2 DEF Retry, Changes
  <2>4. scan'[p] = {}
    BY <1>1, <1>6 DEF Retry, CallCurrent, Current
  <2>5. Current(p)'
    BY <2>1, <2>3, <2>4 DEF Current
  <2>6. QED
    BY <1>3, <1>6, <2>5, OnlyCall DEF Retry
<1>7. ASSUME NEW p \in Procs, NEW j \in Jobs, NEW report \in Reports, Complete(p, j, report)
      PROVE  Tables' /\ CallCurrent'
  <2> DEFINE job == Completed(j, row[j], report)
  <2>1. /\ at'[p] \in {"receipt", "save"} /\ held'[p].job = j /\ held'[p].copy = job
    BY <1>7, Handed DEF Complete
  <2>2. job.status \in {"retryable", "failed", "succeeded"} /\ job.attempts = row[j].attempts
    BY CompletedRow DEF TypeOK
  <2>3. job.type = row[j].type
    BY CompletedType DEF TypeOK
  <2> HIDE DEF job
  <2>4. Changes(held[p].job, held[p].copy)'
    BY <1>7, <2>1, <2>2, <2>3 DEF Complete, Changes
  <2>5. scan'[p] = {}
    BY <1>1, <1>7 DEF Complete, CallCurrent, Current
  <2>6. Current(p)'
    BY <2>1, <2>4, <2>5 DEF Current
  <2>7. QED
    BY <1>3, <1>7, <2>6, OnlyCall DEF Complete
<1>8. ASSUME NEW p \in Procs, NEW j \in Jobs, NEW class \in FailureClasses, Fail(p, j, class)
      PROVE  Tables' /\ CallCurrent'
  <2> DEFINE job == Failed(j, row[j], class)
  <2>1. at'[p] = "save" /\ held'[p].job = j /\ held'[p].copy = job
    BY <1>8, Handed DEF Fail
  <2>2. /\ job.status \in {"retryable", "failed"}
        /\ job.type = row[j].type /\ job.attempts = row[j].attempts
    BY FailedRow DEF TypeOK
  <2> HIDE DEF job
  <2>3. Changes(held[p].job, held[p].copy)'
    BY <1>8, <2>1, <2>2 DEF Fail, Changes
  <2>4. scan'[p] = {}
    BY <1>1, <1>8 DEF Fail, CallCurrent, Current
  <2>5. Current(p)'
    BY <2>1, <2>3, <2>4 DEF Current
  <2>6. QED
    BY <1>3, <1>8, <2>5, OnlyCall DEF Fail
<1>9. ASSUME NEW p \in Procs, NEW j \in Jobs, Heartbeat(p, j)
      PROVE  Tables' /\ CallCurrent'
  <2>1. \A k \in Jobs : lease'[k].attempt = lease[k].attempt
    BY <1>9 DEF Heartbeat, TypeOK
  <2>2. Tables'
    BY <1>1, <1>9, <2>1, SameTables DEF Heartbeat
  <2>3. Current(p)'
    BY <1>1, <1>9 DEF Heartbeat, CallCurrent, Current
  <2>4. QED
    BY <2>2, <2>3, OnlyCall
<1>10. ASSUME NEW p \in Procs, Ready(p) PROVE Tables' /\ CallCurrent'
  <2>1. Current(p)'
    BY <1>1, <1>10 DEF Ready, CallCurrent, Current
  <2>2. QED
    BY <1>1, <1>10, <2>1, OnlyCall, ExpireTables DEF Ready
<1>11. ASSUME NEW p \in Procs, Claim(p) PROVE Tables' /\ CallCurrent'
  <2> DEFINE j == held[p].job
             job == held[p].copy
  <2>1. j \in Jobs /\ job.attempts \in Nat /\ row[j].attempts \in Nat
    BY <1>11 DEF Claim, TypeOK, Row
  <2>2. /\ lease' = [lease EXCEPT ![j] = [attempt |-> job.attempts, live |-> TRUE]]
        /\ at' = [at EXCEPT ![p] = "save"] /\ row[j].attempts + 1 = job.attempts
        /\ UNCHANGED <<row, remaining, held, scan>>
    BY <1>11 DEF Claim
  <2>3. Starts(j, job) /\ scan[p] = {}
    BY <1>1, <1>11 DEF Claim, CallCurrent, Current
  <2>4. Leased(j)'
    BY <2>1, <2>2 DEF TypeOK, Leased
  <2>5. \A k \in Jobs : lease'[k].attempt = lease[k].attempt \/ Leased(k)'
    BY <2>1, <2>2, <2>4 DEF TypeOK
  <2>6. Tables'
    BY <1>1, <2>2, <2>5, SameTables
  <2>7. Starts(j, job)'
    BY <2>2, <2>3 DEF Starts, Admits
  <2>8. at'[p] = "save" /\ held'[p] = held[p] /\ scan'[p] = {}
    BY <2>2, <2>3 DEF TypeOK
  <2>9. Current(p)'
    BY <2>4, <2>7, <2>8 DEF Current
  <2>10. QED
    BY <2>6, <2>9, OnlyCall
<1>12. ASSUME NEW p \in Procs, ClaimRefused(p) PROVE Tables' /\ CallCurrent'
  <2>1. scan'[p] = {}
    BY <1>1, <1>12 DEF ClaimRefused, CallCurrent, Current
  <2>2. QED
    BY <1>3, <1>12, <2>1, Returned, OnlyCall DEF ClaimRefused
<1>13. ASSUME NEW p \in Procs, RecordReceipt(p) PROVE Tables' /\ CallCurrent'
  <2>1. /\ at[p] = "receipt" /\ at'[p] = "save"
        /\ UNCHANGED <<row, remaining, lease, held, scan>>
    BY <1>13 DEF RecordReceipt, TypeOK
  <2>2. Changes(held[p].job, held[p].copy) /\ scan[p] = {}
    BY <1>1, <2>1 DEF CallCurrent, Current
  <2>3. Changes(held[p].job, held[p].copy)'
    BY <2>1, <2>2 DEF Changes
  <2>4. Current(p)'
    BY <2>1, <2>2, <2>3 DEF Current
  <2>5. QED
    BY <1>3, <2>1, <2>4, OnlyCall
<1>14. ASSUME NEW p \in Procs, ReceiptRefused(p) PROVE Tables' /\ CallCurrent'
  <2>1. scan'[p] = {}
    BY <1>1, <1>14 DEF ReceiptRefused, CallCurrent, Current
  <2>2. QED
    BY <1>3, <1>14, <2>1, Returned, OnlyCall DEF ReceiptRefused
<1>15. ASSUME NEW p \in Procs, Save(p) PROVE Tables' /\ CallCurrent'
  <2>1. held[p].job \in Jobs /\ held[p].copy \in Row
    BY <1>15 DEF Save, TypeOK
  <2>2. /\ \/ Creates(held[p].job, held[p].copy) \/ Changes(held[p].job, held[p].copy)
           \/ Starts(held[p].job, held[p].copy) /\ Leased(held[p].job)
        /\ scan'[p] = {}
    BY <1>1, <1>15 DEF Save, CallCurrent, Current
  <2> DEFINE j == held[p].job
             job == held[p].copy
  <2>3. Persist(j, job) /\ Return(p)
    BY <1>15 DEF Save
  <2> HIDE DEF j, job
  <2>4. Tables'
    BY <1>1, <2>1, <2>2, <2>3, PersistTables DEF j, job
  <2>5. Current(p)'
    BY <2>2, <2>3, Returned
  <2>6. QED
    BY <2>4, <2>5, OnlyCall
<1>16. ASSUME NEW p \in Procs, Recover(p) PROVE Tables' /\ CallCurrent'
  <2>1. /\ at'[p] = "recover" /\ UNCHANGED <<row, remaining, lease>>
        /\ scan'[p] = {[job |-> j, copy |-> row[j]] : j \in Running(row)}
    BY <1>16 DEF Recover, TypeOK
  <2>2. \A s \in scan'[p] : s.copy = row[s.job] /\ row[s.job].status = "running"
    BY <2>1 DEF Running
  <2>3. Current(p)'
    BY <2>1, <2>2 DEF Current
  <2>4. QED
    BY <1>3, <2>1, <2>3, OnlyCall
<1>17. ASSUME NEW p \in Procs, RecoverJob(p) PROVE Tables' /\ CallCurrent'
  <2>1. PICK s \in scan[p] :
          /\ at[p] = "recover"
          /\ Persist(s.job, Failed(s.job, Validated(s.copy), "interrupted"))
          /\ scan' = [scan EXCEPT ![p] = @ \ {s}]
          /\ at' = [at EXCEPT ![p] = IF scan[p] = {s} THEN "idle" ELSE "recover"]
    BY <1>17 DEF RecoverJob
  <2> DEFINE job == Failed(s.job, Validated(s.copy), "interrupted")
  <2>2. s \in [job: Jobs, copy: Row] /\ scan[p] \subseteq [job: Jobs, copy: Row]
    BY DEF TypeOK
  <2>3. job \in Row /\ Changes(s.job, job)
    BY <1>1, <2>1, <2>2, InterruptedChanges DEF CallCurrent, Current
  <2> HIDE DEF job
  <2>4. Tables'
    BY <1>1, <2>1, <2>2, <2>3, PersistTables DEF job
  <2>5. /\ at'[p] = (IF scan[p] = {s} THEN "idle" ELSE "recover")
        /\ scan'[p] = scan[p] \ {s}
    BY <2>1 DEF TypeOK
  <2>6. ASSUME NEW t \in scan'[p] PROVE t.copy = row'[t.job] /\ row'[t.job].status = "running"
    <3>1. t \in scan[p] /\ t # s
      BY <2>5, <2>6
    <3>2. t.copy = row[t.job] /\ row[t.job].status = "running" /\ s.copy = row[s.job]
      BY <1>1, <3>1 DEF CallCurrent, Current
    <3>3. t.job # s.job
      BY <2>2, <3>1, <3>2
    <3>4. row'[t.job] = row[t.job]
      BY <2>1, <2>2, <3>1, <3>3 DEF Persist, TypeOK
    <3>5. QED
      BY <3>2, <3>4
  <2>7. Current(p)'
    BY <2>5, <2>6 DEF Current
  <2>8. QED
    BY <2>4, <2>7, OnlyCall
<1>18. ASSUME NEW p \in Procs, Crash(p) PROVE Tables' /\ CallCurrent'
  <2>1. Return(p) /\ scan'[p] = {} /\ UNCHANGED <<row, remaining, lease>>
    BY <1>18 DEF Crash, TypeOK
  <2>2. Current(p)'
    BY <2>1, Returned
  <2>3. QED
    BY <1>3, <2>1, <2>2, OnlyCall
<1>19. ASSUME UNCHANGED <<row, remaining, at, held, scan>>,
              \A j \in Jobs : lease'[j].attempt = lease[j].attempt
       PROVE  Tables' /\ CallCurrent'
  <2>1. Tables'
    BY <1>1, <1>19, SameTables
  <2>2. \A p \in Procs : at[p] = "save" => held[p].job \in Jobs
    BY DEF TypeOK
  <2>3. QED
    BY <1>1, <1>19, <2>1, <2>2, SameCall DEF CallCurrent
<1>20. ASSUME NEW j \in Jobs, LeaseTimeout(j) PROVE Tables' /\ CallCurrent'
  <2>1. \A k \in Jobs : lease'[k].attempt = lease[k].attempt
    BY <1>20 DEF LeaseTimeout, TypeOK
  <2>2. QED
    BY <1>19, <1>20, <2>1 DEF LeaseTimeout
<1>21. ASSUME NEW j \in Jobs, NEW a \in Artifacts, NEW c \in Contents, WorkerWrite(j, a, c)
       PROVE  Tables' /\ CallCurrent'
  BY <1>19, <1>21 DEF WorkerWrite
<1>22. CASE UNCHANGED vars
  BY <1>19, <1>22 DEF vars
<1>23. QED
  BY <1>4, <1>5, <1>6, <1>7, <1>8, <1>9, <1>10, <1>11, <1>12, <1>13, <1>14, <1>15,
     <1>16, <1>17, <1>18, <1>20, <1>21, <1>22 DEF Next

LEMMA Serial == ASSUME Alone PROVE Spec => [](TypeOK /\ SerialInv)
<1>1. TypeOK /\ SerialInv /\ [Next]_vars => SerialInv'
  BY SerialStep
<1>2. QED
  BY InitSerial, <1>1, TypeCorrect, PTL DEF Spec

\* A running job always has a lease, so one that is lost with its Worker comes
\* back to the queue when the lease runs out: start claims before it saves, and
\* no save of another status leaves a lease behind that hides the loss.
THEOREM RunsAreLeased == ASSUME Alone PROVE Spec => []RunningHasLease
<1>1. SerialInv => RunningHasLease
  BY DEF SerialInv, RunsLeased, Leased, RunningHasLease, NoLease
<1>2. QED
  BY <1>1, Serial, PTL

\* The count of unmet dependencies that _persist stores with a row, and refreshes
\* in the rows that depend on a job when it succeeds, is the count of the
\* dependencies that have not succeeded now.
THEOREM CountsAccurate == ASSUME Alone PROVE Spec => []RemainingAccurate
<1>1. SerialInv => RemainingAccurate
  BY DEF SerialInv
<1>2. QED
  BY <1>1, Serial, PTL

\* No sequence of starts, expiries, recoveries and kills makes more jobs run than
\* _admission_error admits, in all or of one type.
THEOREM CapacityKept == ASSUME Alone PROVE Spec => []WithinCapacity
<1>1. SerialInv => WithinCapacity
  BY DEF SerialInv
<1>2. QED
  BY <1>1, Serial, PTL

-----------------------------------------------------------------------------
(* The ledger implements the abstract life of a job *)

LEMMA SameView ==
  ASSUME UNCHANGED row
  PROVE  UNCHANGED Lifecycle!lifecycle
BY DEF Lifecycle!lifecycle, Status, Type, Attempts

\* The abstract module counts as this one does.
LEMMA SameCardinality ==
  ASSUME NEW S
  PROVE  Lifecycle!Cardinality(S) = Cardinality(S)
BY DEF Lifecycle!Cardinality, Cardinality

\* A save is the move of one job that its call was made for.
LEMMA SaveMoves ==
  ASSUME TypeOK, RemainingAccurate, NEW j \in Jobs, NEW job \in Row, Persist(j, job),
         Unstarted,
         \/ Creates(j, job)
         \/ Changes(j, job)
         \/ Starts(j, job)
  PROVE  Lifecycle!Next
<1>1. \A k \in Jobs : row'[k] = IF k = j THEN job ELSE row[k]
  BY DEF Persist, TypeOK
<1>2. /\ Status' = [Status EXCEPT ![j] = job.status]
      /\ Type' = [Type EXCEPT ![j] = job.type]
      /\ Attempts' = [Attempts EXCEPT ![j] = job.attempts]
  BY <1>1 DEF Status, Type, Attempts
<1>3. Status[j] = row[j].status /\ Type[j] = row[j].type /\ Attempts[j] = row[j].attempts
  BY DEF Status, Type, Attempts
<1>4. job.type = row[j].type => UNCHANGED Type
  BY <1>2, <1>3 DEF Type
<1>5. job.attempts = row[j].attempts => UNCHANGED Attempts
  BY <1>2, <1>3 DEF Attempts
<1>6. CASE Creates(j, job)
  <2>1. /\ Status[j] \in {"absent"} /\ Status' = [Status EXCEPT ![j] = "queued"]
        /\ UNCHANGED Attempts
    BY <1>2, <1>3, <1>5, <1>6 DEF Creates, Unstarted
  <2>2. \E t \in Types[j] : Type' = [Type EXCEPT ![j] = t]
    BY <1>2, <1>6 DEF Creates
  <2>3. Lifecycle!Create(j)
    BY <2>1, <2>2 DEF Lifecycle!Create, Lifecycle!Move
  <2>4. QED
    BY <2>3 DEF Lifecycle!Next
<1>7. CASE Changes(j, job)
  <2>1. UNCHANGED <<Type, Attempts>>
    BY <1>4, <1>5, <1>7 DEF Changes
  <2>2. CASE row[j].status = "running" /\ job.status = "succeeded"
    <3>1. Lifecycle!Succeed(j)
      BY <1>2, <1>3, <2>1, <2>2 DEF Lifecycle!Succeed, Lifecycle!Move
    <3>2. QED
      BY <3>1 DEF Lifecycle!Next
  <2>3. CASE row[j].status \in {"queued", "running"} /\ job.status \in {"retryable", "failed"}
    <3>1. Lifecycle!Fail(j)
      BY <1>2, <1>3, <2>1, <2>3 DEF Lifecycle!Fail, Lifecycle!Move
    <3>2. QED
      BY <3>1 DEF Lifecycle!Next
  <2>4. CASE row[j].status = "retryable" /\ job.status = "queued"
    <3>1. Lifecycle!Retry(j)
      BY <1>2, <1>3, <2>1, <2>4 DEF Lifecycle!Retry, Lifecycle!Move
    <3>2. QED
      BY <3>1 DEF Lifecycle!Next
  <2>5. QED
    BY <1>7, <2>2, <2>3, <2>4 DEF Changes
<1>8. CASE Starts(j, job)
  <2>1. \A d \in Deps[j] : Status[d] = "succeeded"
    <3>1. Cardinality(Unmet(j, row)) = 0
      BY <1>8 DEF Starts, RemainingAccurate
    <3>2. IsFiniteSet(Unmet(j, row))
      <4>1. Unmet(j, row) \in SUBSET Jobs
        BY ConstantsAssumption DEF Unmet
      <4>2. QED
        BY <4>1, FS_Subset, ConstantsAssumption
    <3>3. Unmet(j, row) = {}
      BY <3>1, <3>2, FS_EmptySet
    <3>4. QED
      BY <3>3, ConstantsAssumption DEF Unmet, Status
  <2>2. Lifecycle!InStatus("running") = Running(row)
    BY DEF Lifecycle!InStatus, Running, Status
  <2>3. {k \in Lifecycle!InStatus("running") : Type[k] = Type[j]}
          = {k \in Running(row) : row[k].type = row[j].type}
    BY <2>2 DEF Type, Running
  <2>4. /\ Lifecycle!Cardinality(Lifecycle!InStatus("running")) < GlobalCap
        /\ Lifecycle!Cardinality({k \in Lifecycle!InStatus("running") : Type[k] = Type[j]})
             < TypeCap[Type[j]]
    BY <1>3, <1>8, <2>2, <2>3, SameCardinality DEF Starts, Admits
  <2>5. Lifecycle!Move(j, {"queued"}, "running")
    BY <1>2, <1>3, <1>8 DEF Starts, Lifecycle!Move
  <2>6. Attempts' = [Attempts EXCEPT ![j] = @ + 1] /\ UNCHANGED Type
    BY <1>2, <1>3, <1>4, <1>8 DEF Starts
  <2>7. Lifecycle!Start(j)
    BY <2>1, <2>4, <2>5, <2>6 DEF Lifecycle!Start
  <2>8. QED
    BY <2>7 DEF Lifecycle!Next
<1>9. QED
  BY <1>6, <1>7, <1>8

\* Overdue leases take their running jobs back to the queue, all in one step.
LEMMA ExpiryRequeues ==
  ASSUME TypeOK, ExpireLeases
  PROVE  Lifecycle!Next
<1> DEFINE lost == {j \in Overdue : row[j].status = "running"}
<1>1. lost \in SUBSET Jobs /\ lost \subseteq Lifecycle!InStatus("running")
  BY DEF Overdue, Lifecycle!InStatus, Status
<1>2. row' = ExpiredRows
  BY DEF ExpireLeases
<1>3. Status' = [j \in Jobs |-> IF j \in lost THEN "queued" ELSE Status[j]]
  BY <1>2, ExpiredRow DEF Status
<1>4. UNCHANGED <<Type, Attempts>>
  BY <1>2, ExpiredRow DEF Type, Attempts
<1> HIDE DEF lost
<1>5. Lifecycle!Requeue(lost)
  BY <1>1, <1>3, <1>4 DEF Lifecycle!Requeue
<1>6. QED
  BY <1>1, <1>5 DEF Lifecycle!Next

LEMMA LifecycleStep ==
  ASSUME TypeOK, SerialInv, [Next]_vars
  PROVE  [Lifecycle!Next]_Lifecycle!lifecycle
<1>1. CASE UNCHANGED row
  BY <1>1, SameView
<1>2. ASSUME ExpireLeases PROVE Lifecycle!Next
  BY <1>2, ExpiryRequeues
<1>3. ASSUME NEW p \in Procs, Save(p) PROVE Lifecycle!Next
  <2> DEFINE j == held[p].job
             job == held[p].copy
  <2>1. j \in Jobs /\ job \in Row /\ Persist(j, job)
    BY <1>3 DEF Save, TypeOK
  <2>2. Creates(j, job) \/ Changes(j, job) \/ Starts(j, job)
    BY <1>3 DEF Save, SerialInv, CallCurrent, Current
  <2>3. QED
    BY <2>1, <2>2, SaveMoves DEF SerialInv, j, job
<1>4. ASSUME NEW p \in Procs, RecoverJob(p) PROVE Lifecycle!Next
  <2>1. PICK s \in scan[p] : Persist(s.job, Failed(s.job, Validated(s.copy), "interrupted"))
    BY <1>4 DEF RecoverJob
  <2>2. s.job \in Jobs /\ s.copy \in Row
    BY DEF TypeOK
  <2>3. s.copy = row[s.job] /\ row[s.job].status = "running"
    BY DEF SerialInv, CallCurrent, Current
  <2> DEFINE job == Failed(s.job, Validated(s.copy), "interrupted")
  <2>4. job \in Row /\ Changes(s.job, job)
    BY <2>2, <2>3, InterruptedChanges
  <2>5. Persist(s.job, job)
    BY <2>1
  <2> HIDE DEF job
  <2>6. QED
    BY <2>2, <2>4, <2>5, SaveMoves DEF SerialInv
<1>5. CASE UNCHANGED vars
  BY <1>1, <1>5 DEF vars
<1>6. CASE Next
  <2>1. \/ UNCHANGED row
        \/ ExpireLeases
        \/ \E p \in Procs : Save(p) \/ RecoverJob(p)
    BY <1>6 DEF Next, Create, Start, Retry, Heartbeat, Complete, Fail, Ready, Claim,
                ClaimRefused, RecordReceipt, ReceiptRefused, Recover, Crash,
                LeaseTimeout, WorkerWrite
  <2>2. QED
    BY <1>1, <1>2, <1>3, <1>4, <2>1
<1>7. QED
  BY <1>5, <1>6

\* Every transaction of the script, killed between any two of them, is seen from
\* the jobs table as one step of the abstract life of a job: a start only with
\* every dependency succeeded and room left, each start a new attempt, and
\* nothing that succeeded or failed for good changes again.
THEOREM LedgerImplemented == ASSUME Alone PROVE Spec => ImplementsLifecycle
<1>1. Init => Lifecycle!Init
  BY DEF Init, Lifecycle!Init, Status, Type, Attempts, Blank
<1>2. TypeOK /\ SerialInv /\ [Next]_vars => [Lifecycle!Next]_Lifecycle!lifecycle
  BY LifecycleStep
<1>3. QED
  BY <1>1, <1>2, Serial, PTL DEF Spec, ImplementsLifecycle, Lifecycle!Spec
=============================================================================
