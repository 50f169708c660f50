------------------------ MODULE PlannerOrderProofs ------------------------
(***************************************************************************)
(* Theorems about the plans of Planner: who owns a function, in which      *)
(* order functions are specified and verified, and that the gates are      *)
(* reached.                                                                *)
(***************************************************************************)
EXTENDS PlannerProofs

-----------------------------------------------------------------------------
(* The invariant *)

\* No two jobs of a phase ever share a function, finished or not.
Apart ==
  \A i, j \in DOMAIN jobs :
    (i # j /\ PhaseOfJob(i) = PhaseOfJob(j)) => jobs[i].artifacts \cap jobs[j].artifacts = {}

\* What succeeded has written its outputs.
ResultsWritten ==
  \A j \in DOMAIN jobs :
    /\ jobs[j].done \subseteq results
    /\ jobs[j].status = "succeeded" =>
         /\ jobs[j].kind = "domain_context" => context
         /\ PhaseOfJob(j) = "verification" => jobs[j].artifacts \subseteq results
         /\ jobs[j].kind = "bug_validate" => jobs[j].artifacts \subseteq reports

\* Whom the jobs wait for: the context, jobs of earlier layers or project phases, and
\* verification for specification.
DepsOrdered ==
  \A j \in DOMAIN jobs : \A d \in jobs[j].deps :
    /\ jobs[j].kind = "spec_batch" =>
         \/ d = Context
         \/ d[1] = "spec" /\ (d[2] < j[2] \/ (d[2] = j[2] /\ d[3] < j[3]))
    /\ PhaseOfJob(j) = "verification" => PhaseOfJob(d) = "specification"
    /\ jobs[j].kind \notin {"domain_context", "bug_validate"}

\* The domain context is there or planned with the specifications.
ContextPlanned ==
  plan["specification"] # NoPlan => context \/ Context \in DOMAIN jobs

\* Who verifies f, says the plan, if it is not verified?
ResultsPlanned ==
  \A f \in DOMAIN plan["verification"] :
    \/ f \in results
    \/ /\ plan["verification"][f] \in DOMAIN jobs
       /\ PhaseOfJob(plan["verification"][f]) = "verification"
       /\ f \in jobs[plan["verification"][f]].artifacts

\* Bug validation has the candidates' jobs, and reports on candidates only.
BugsPlanned ==
  /\ \A f \in DOMAIN plan["bug_validation"] :
       plan["bug_validation"][f] = <<"bug", 0, 0, f>> /\ <<"bug", 0, 0, f>> \in DOMAIN jobs
  /\ \A j \in DOMAIN jobs : jobs[j].kind = "bug_validate" => jobs[j].artifacts \subseteq Candidates
  /\ reports \subseteq Candidates

\* What the gates that were passed have seen stays.
PhasesPassed ==
  /\ phase # "specification" => context /\ specs = Functions
  /\ phase \notin {"specification", "verification"} =>
       results = Functions /\ PlanReady("verification", Functions)

\* Verification is planned with a specification plan that is ready.
SpecsReady ==
  planner = "streaming" \/ phase # "specification" => PlanReady("specification", Functions)

\* A Coordinator that does not plan has planned.
PlansReady ==
  (planner = "idle" /\ ~refused /\ phase \in Planned) =>
    /\ PlanReady("specification", Functions) /\ PlanReady("verification", Functions)
    /\ phase = "bug_validation" => DOMAIN plan["bug_validation"] = Candidates

\* The functions before layer n of project phase p: those of its earlier layers, and of
\* the project phases p depends on
Ahead(p, n) ==
  {g \in Functions : PhaseOf[g] \in DependsOn[p]} \cup UNION {layers[p][m] : m \in 1 .. n - 1}

\* A specification job waits for everything before it that is not specified, for its job
\* or for one that waits for it.
SpecsAwait ==
  \A j \in DOMAIN jobs : jobs[j].kind = "spec_batch" =>
    /\ context \/ Context \in jobs[j].deps
    /\ \A g \in Ahead(j[2], j[3]) :
         \/ g \in specs
         \/ \E d \in jobs[j].deps : SpecJob(d, g)
         \/ \E d \in jobs[j].deps : d[1] = "spec" /\ g \in Ahead(d[2], d[3])

\* A specification job that was ever started had everything before it.
SpecsInOrder ==
  \A j \in DOMAIN jobs :
    (jobs[j].kind = "spec_batch" /\ jobs[j].status \in {"running", "succeeded"}) =>
      context /\ Ahead(j[2], j[3]) \subseteq specs
-----------------------------------------------------------------------------
(* What is planned *)

\* made is of the plan, in its order, and none of it is refused.
Makes(made) ==
  /\ GoodPlan(Wanting) /\ Closed(Wanting, made) /\ jobs' = Created(Wanting, made)
  /\ \A i \in made : Agrees(Wanting[i])

\* A run of the planner, killed or not, makes the jobs of the plan in order up to the first
\* that is refused, and all of them if none is.
LEMMA PlanAgrees ==
  ASSUME Shaped, Plan \/ PlanKilled
  PROVE  \E made : /\ Makes(made)
                   /\ (Plan /\ Conflicts(Wanting) = {}) => made = DOMAIN Wanting
<1>1. GoodPlan(Wanting) /\ DOMAIN Wanting \subseteq JobIds
  BY WantingGood DEF Shaped, GoodPlan
<1> DEFINE wanted == Wanting
<1>2. \A i \in DOMAIN wanted : ~Earlier(i, i)
  BY <1>1 DEF JobIds, Earlier
<1>3. \A i \in Accepted(wanted) : Agrees(wanted[i])
  BY <1>2 DEF Accepted, Conflicts
<1>4. CASE Plan
  <2>1. jobs' = Created(wanted, Accepted(wanted))
    BY <1>4 DEF Plan, PlanWith
  <2>2. Closed(wanted, Accepted(wanted))
    BY <1>1, MadeClosed
  <2>3. Conflicts(wanted) = {} => Accepted(wanted) = DOMAIN wanted
    BY DEF Accepted
  <2>4. Makes(Accepted(wanted))
    BY <1>1, <1>3, <2>1, <2>2 DEF Makes
  <2>5. QED
    BY <2>3, <2>4
<1>5. CASE PlanKilled
  <2>1. PICK made \in {Accepted(wanted)} \cup {Before(wanted, k) : k \in Accepted(wanted)} :
               jobs' = Created(wanted, made)
    BY <1>5 DEF PlanKilled
  <2>2. Closed(wanted, made)
    BY <1>1, <2>1, MadeClosed
  <2>3. \A i \in made : Agrees(wanted[i])
    <3>1. CASE made = Accepted(wanted)
      BY <1>3, <3>1
    <3>2. ASSUME NEW k \in Accepted(wanted), made = Before(wanted, k) PROVE \A i \in made : Agrees(wanted[i])
      <4>1. \A i \in made : i \in Accepted(wanted)
        BY <1>1, <3>2, EarlierTransitive DEF Before, Accepted, Conflicts
      <4>2. QED
        BY <1>3, <4>1
    <3>3. QED
      BY <2>1, <3>1, <3>2
  <2>4. Makes(made)
    BY <1>1, <2>1, <2>2, <2>3 DEF Makes
  <2>5. planner' = "due" /\ UNCHANGED plan
    BY <1>5 DEF PlanKilled
  <2>6. (Plan /\ Conflicts(wanted) = {}) => made = DOMAIN wanted
    <3>1. SUFFICES ASSUME Plan, Conflicts(wanted) = {} PROVE FALSE
      OBVIOUS
    <3>2. planner' = IF PlannedPhase = "specification" THEN "streaming" ELSE "idle"
      BY <3>1 DEF Plan, PlanWith
    <3>3. QED
      BY <2>5, <3>2
  <2>7. QED
    BY <2>4, <2>6
<1>6. QED
  BY <1>4, <1>5

\* What was made is in the ledger as it was wanted.
LEMMA MadeJobs ==
  ASSUME NEW made, Makes(made), NEW i \in made
  PROVE  /\ Wanting[i].id \in DOMAIN jobs'
         /\ jobs'[Wanting[i].id].kind = Wanting[i].kind
         /\ jobs'[Wanting[i].id].artifacts = Wanting[i].artifacts
         /\ Wanting[i].id \in DOMAIN jobs => Wanting[i].id \in Existing(Wanting[i].kind, Wanting[i].artifacts)
         /\ Wanting[i].id \notin DOMAIN jobs => Wanting[i].id = i
<1> DEFINE wanted == Wanting
           w == wanted[i]
<1>1. GoodPlan(wanted) /\ Closed(wanted, made) /\ jobs' = Created(wanted, made) /\ Agrees(w) /\ i \in DOMAIN wanted
  BY DEF Makes, Closed
<1>2. /\ \A j \in DOMAIN jobs : jobs'[j] = jobs[j]
      /\ \A j \in DOMAIN jobs' \ DOMAIN jobs :
              wanted[j].id = j /\ jobs'[j] = Job(wanted[j].kind, wanted[j].artifacts, wanted[j].deps)
      /\ w.id \in DOMAIN jobs'
  BY <1>1, CreatedJobs
<1>3. w.id = IdOf(w.kind, w.artifacts, i)
  <2>1. w = Wanted(i, w.kind, w.artifacts, w.deps)
    BY <1>1 DEF GoodPlan
  <2> HIDE DEF w
  <2>2. QED
    BY <2>1 DEF Wanted
<1> HIDE DEF w
<1>4. CASE w.id \in DOMAIN jobs
  <2>1. w.id \in Existing(w.kind, w.artifacts)
    BY <1>1, <1>4 DEF Agrees
  <2>2. jobs[w.id].kind = w.kind /\ jobs[w.id].artifacts = w.artifacts
    BY <2>1 DEF Existing
  <2>3. QED
    BY <1>2, <1>4, <2>1, <2>2 DEF w
<1>5. CASE w.id \notin DOMAIN jobs
  <2>1. w.id = i
    BY <1>3, <1>5, IdOfCases DEF Existing
  <2>2. jobs'[w.id] = Job(w.kind, w.artifacts, w.deps)
    BY <1>2, <1>5, <2>1 DEF w
  <2>3. jobs'[w.id].kind = w.kind /\ jobs'[w.id].artifacts = w.artifacts
    BY <2>2 DEF Job
  <2>4. QED
    BY <1>2, <1>5, <2>1, <2>3 DEF w
<1>6. QED
  BY <1>4, <1>5
\* What the specification plan wants: the domain context, and every function that is not
\* specified in a batch.
LEMMA SpecsWanted ==
  ASSUME LayersGood
  PROVE  /\ \A id \in DOMAIN WantedSpecs :
              \/ id = Context /\ WantedSpecs[id] = Wanted(Context, "domain_context", {}, {})
              \/ \E p \in ProjectPhases : \E n \in DOMAIN layers[p] : \E b \in DOMAIN Batches(p, n) :
                   /\ id = SpecId(p, n, b)
                   /\ WantedSpecs[id] = Wanted(id, "spec_batch", Batches(p, n)[b], Base(p) \cup Prior(p, n))
         /\ ~context => Context \in DOMAIN WantedSpecs
         /\ \A f \in Functions \ specs : \E id \in DOMAIN WantedSpecs : f \in WantedSpecs[id].artifacts
<1>1. DOMAIN WantedSpecs = Ground \cup SpecIds /\ \A id \in Ground : id = Context
  BY SpecPlan DEF Ground
<1>2. ASSUME NEW id \in DOMAIN WantedSpecs
      PROVE  \/ id = Context /\ WantedSpecs[id] = Wanted(Context, "domain_context", {}, {})
             \/ \E p \in ProjectPhases : \E n \in DOMAIN layers[p] : \E b \in DOMAIN Batches(p, n) :
                  /\ id = SpecId(p, n, b)
                  /\ WantedSpecs[id] = Wanted(id, "spec_batch", Batches(p, n)[b], Base(p) \cup Prior(p, n))
  <2>1. CASE id \in Ground
    BY <1>1, <2>1, SpecPlan
  <2>2. CASE id \in SpecIds
    <3>1. PICK p \in ProjectPhases : \E n \in DOMAIN layers[p] : \E b \in DOMAIN Batches(p, n) : id = SpecId(p, n, b)
      BY <2>2, SpecPlan
    <3>2. PICK n \in DOMAIN layers[p] : \E b \in DOMAIN Batches(p, n) : id = SpecId(p, n, b)
      BY <3>1
    <3>3. PICK b \in DOMAIN Batches(p, n) : id = SpecId(p, n, b)
      BY <3>2
    <3>4. WantedSpecs[SpecId(p, n, b)] =
            Wanted(SpecId(p, n, b), "spec_batch", Batches(p, n)[b], Base(p) \cup Prior(p, n))
      BY SpecPlan
    <3>5. QED
      BY <3>3, <3>4
  <2>3. QED
    BY <1>1, <1>2, <2>1, <2>2
<1>3. ~context => Context \in DOMAIN WantedSpecs
  BY <1>1 DEF Ground
<1>4. ASSUME NEW f \in Functions \ specs
      PROVE  \E id \in DOMAIN WantedSpecs : f \in WantedSpecs[id].artifacts
  <2> DEFINE p == PhaseOf[f]
  <2>1. p \in ProjectPhases
    BY PlannerAssumption
  <2>2. PICK n \in DOMAIN layers[p] : f \in layers[p][n]
    BY <2>1 DEF LayersGood, Cuts
  <2> HIDE DEF p
  <2>3. Cuts(Batches(p, n), layers[p][n] \ specs)
    BY <2>1, LayerBatches
  <2>4. PICK b \in DOMAIN Batches(p, n) : f \in Batches(p, n)[b]
    BY <1>4, <2>2, <2>3 DEF Cuts
  <2>5. /\ SpecId(p, n, b) \in SpecIds
        /\ WantedSpecs[SpecId(p, n, b)] =
             Wanted(SpecId(p, n, b), "spec_batch", Batches(p, n)[b], Base(p) \cup Prior(p, n))
    BY <2>1, SpecPlan
  <2>6. WantedSpecs[SpecId(p, n, b)].artifacts = Batches(p, n)[b]
    BY <2>5 DEF Wanted
  <2>7. QED
    BY <1>1, <2>4, <2>5, <2>6
<1>5. QED
  BY <1>2, <1>3, <1>4

\* What the plan of verification wants: every function that is not verified, in jobs that
\* wait for the jobs that specify their functions.
LEMMA VerificationsWanted ==
  /\ \A id \in DOMAIN WantedVerifications : \E n \in DOMAIN VerifyBatches : \E kind \in {"verify_function", "verify_batch"} :
       /\ id = <<"verify", 0, 0, n>>
       /\ WantedVerifications[id] = Wanted(id, kind, VerifyBatches[n], SpecsOf(VerifyBatches[n]))
  /\ \A n \in DOMAIN VerifyBatches : \E kind \in {"verify_function", "verify_batch"} :
       /\ <<"verify", 0, 0, n>> \in DOMAIN WantedVerifications
       /\ WantedVerifications[<<"verify", 0, 0, n>>] =
            Wanted(<<"verify", 0, 0, n>>, kind, VerifyBatches[n], SpecsOf(VerifyBatches[n]))
  /\ \A f \in Functions \ results : \E id \in DOMAIN WantedVerifications : f \in WantedVerifications[id].artifacts
<1> DEFINE Id(n) == <<"verify", 0, 0, n>>
           wanted == WantedVerifications
           kindOf(n) == IF Cardinality(VerifyBatches[n]) = 1 THEN "verify_function" ELSE "verify_batch"
<1>1. /\ DOMAIN wanted = {Id(n) : n \in DOMAIN VerifyBatches}
      /\ \A n \in DOMAIN VerifyBatches :
           wanted[Id(n)] = Wanted(Id(n), kindOf(n), VerifyBatches[n], SpecsOf(VerifyBatches[n]))
  BY DEF WantedVerifications
<1>2. \A n : kindOf(n) \in {"verify_function", "verify_batch"}
  OBVIOUS
<1> HIDE DEF wanted, kindOf
<1>3. ASSUME NEW f \in Functions \ results PROVE \E id \in DOMAIN wanted : f \in wanted[id].artifacts
  <2>1. PICK n \in DOMAIN VerifyBatches : f \in VerifyBatches[n]
    BY <1>3, VerifyCut DEF Cuts
  <2> HIDE DEF Id
  <2>2. wanted[Id(n)].artifacts = VerifyBatches[n]
    <3>1. wanted[Id(n)] = Wanted(Id(n), kindOf(n), VerifyBatches[n], SpecsOf(VerifyBatches[n]))
      BY <1>1
    <3>2. QED
      BY <3>1 DEF Wanted
  <2>3. QED
    BY <1>1, <2>1, <2>2
<1>4. \A n \in DOMAIN VerifyBatches : \E kind \in {"verify_function", "verify_batch"} :
        /\ Id(n) \in DOMAIN wanted
        /\ wanted[Id(n)] = Wanted(Id(n), kind, VerifyBatches[n], SpecsOf(VerifyBatches[n]))
  <2> HIDE DEF Id
  <2>1. QED
    BY <1>1, <1>2
<1>5. \A id \in DOMAIN wanted : \E n \in DOMAIN VerifyBatches : \E kind \in {"verify_function", "verify_batch"} :
        /\ id = Id(n)
        /\ wanted[id] = Wanted(id, kind, VerifyBatches[n], SpecsOf(VerifyBatches[n]))
  <2> HIDE DEF Id
  <2>1. QED
    BY <1>1, <1>2
<1>6. QED
  BY <1>3, <1>4, <1>5 DEF wanted

\* What the plan of bug validation wants: one job for every candidate.
LEMMA BugsWanted ==
  /\ DOMAIN WantedBugs = {<<"bug", 0, 0, f>> : f \in Candidates}
  /\ \A f \in Candidates :
       WantedBugs[<<"bug", 0, 0, f>>] = Wanted(<<"bug", 0, 0, f>>, "bug_validate", {f}, {})
BY DEF WantedBugs

\* The fields of what is wanted
LEMMA WantedFields ==
  \A id, kind, artifacts, deps :
    /\ Wanted(id, kind, artifacts, deps).id = IdOf(kind, artifacts, id)
    /\ Wanted(id, kind, artifacts, deps).kind = kind
    /\ Wanted(id, kind, artifacts, deps).artifacts = artifacts
    /\ Wanted(id, kind, artifacts, deps).deps = deps
BY DEF Wanted

\* The jobs of a plan are those of its phase.
LEMMA WantingKinds ==
  ASSUME LayersGood, NEW i \in DOMAIN Wanting
  PROVE  /\ PlannedPhase = "specification" => Wanting[i].kind \in {"domain_context", "spec_batch"}
         /\ PlannedPhase = "verification" => Wanting[i].kind \in {"verify_function", "verify_batch"}
         /\ PlannedPhase \notin {"specification", "verification"} => Wanting[i].kind = "bug_validate"
<1>1. CASE PlannedPhase = "specification"
  <2>1. Wanting = WantedSpecs
    BY <1>1 DEF Wanting
  <2>2. WantedSpecs[i].kind \in {"domain_context", "spec_batch"}
    <3>1. \/ WantedSpecs[i] = Wanted(Context, "domain_context", {}, {})
          \/ \E p \in ProjectPhases : \E n \in DOMAIN layers[p] : \E b \in DOMAIN Batches(p, n) :
               WantedSpecs[i] = Wanted(i, "spec_batch", Batches(p, n)[b], Base(p) \cup Prior(p, n))
      BY <2>1, SpecsWanted
    <3>2. CASE WantedSpecs[i] = Wanted(Context, "domain_context", {}, {})
      BY <3>2, WantedFields
    <3>3. ASSUME NEW artifacts, NEW deps, WantedSpecs[i] = Wanted(i, "spec_batch", artifacts, deps)
          PROVE  WantedSpecs[i].kind \in {"domain_context", "spec_batch"}
      BY <3>3, WantedFields
    <3>4. QED
      BY <3>1, <3>2, <3>3
  <2>3. QED
    BY <1>1, <2>1, <2>2
<1>2. CASE PlannedPhase = "verification"
  <2>1. Wanting = WantedVerifications
    BY <1>2 DEF Wanting
  <2>2. WantedVerifications[i].kind \in {"verify_function", "verify_batch"}
    <3>1. \E n \in DOMAIN VerifyBatches : \E kind \in {"verify_function", "verify_batch"} :
            WantedVerifications[i] = Wanted(i, kind, VerifyBatches[n], SpecsOf(VerifyBatches[n]))
      BY <2>1, VerificationsWanted
    <3>2. QED
      BY <3>1 DEF Wanted
  <2>3. QED
    BY <1>2, <2>1, <2>2
<1>3. CASE PlannedPhase \notin {"specification", "verification"}
  <2>1. Wanting = WantedBugs
    BY <1>3 DEF Wanting
  <2>2. PICK f \in Candidates : i = <<"bug", 0, 0, f>>
    BY <2>1, BugsWanted
  <2>3. WantedBugs[i] = Wanted(i, "bug_validate", {f}, {})
    BY <2>2, BugsWanted
  <2>4. Wanting[i].kind = "bug_validate"
    BY <2>1, <2>3 DEF Wanted
  <2>5. QED
    BY <1>3, <2>4
<1>4. QED
  BY <1>1, <1>2, <1>3
-----------------------------------------------------------------------------
(* A plan stays good for its gate *)

\* The new entries of a plan that is not refused: the function is specified, verified or not
\* in scope, or a job of the plan that has it is in the ledger.
LEMMA EntriesOwn ==
  ASSUME Shaped, Plan, Conflicts(Wanting) = {}, NEW scope, NEW f \in scope
  PROVE  \/ /\ Entries(Wanting, scope)[f] = NoJob
            /\ \A i \in DOMAIN Wanting : f \notin Wanting[i].artifacts
         \/ \E i \in DOMAIN Wanting :
              /\ Entries(Wanting, scope)[f] = Wanting[i].id /\ f \in Wanting[i].artifacts
              /\ Wanting[i].id \in DOMAIN jobs'
              /\ jobs'[Wanting[i].id].kind = Wanting[i].kind
              /\ jobs'[Wanting[i].id].artifacts = Wanting[i].artifacts
<1>1. Makes(DOMAIN Wanting)
  BY PlanAgrees
<1>2. GoodPlan(Wanting) /\ jobs' = Created(Wanting, DOMAIN Wanting)
  BY <1>1 DEF Makes
<1>3. \/ /\ Entries(Wanting, scope)[f] = NoJob
         /\ \A i \in DOMAIN Wanting : f \notin Wanting[i].artifacts
      \/ \E i \in DOMAIN Wanting : f \in Wanting[i].artifacts /\ Entries(Wanting, scope)[f] = Wanting[i].id
  BY <1>2, EntriesKnown
<1>4. \A i \in DOMAIN Wanting :
        /\ Wanting[i].id \in DOMAIN jobs'
        /\ jobs'[Wanting[i].id].kind = Wanting[i].kind
        /\ jobs'[Wanting[i].id].artifacts = Wanting[i].artifacts
  BY <1>1, MadeJobs
<1>5. QED
  BY <1>3, <1>4

\* The ledger keeps its jobs, what they are and whose they are.
Kept ==
  /\ DOMAIN jobs \subseteq DOMAIN jobs'
  /\ \A j \in DOMAIN jobs :
       /\ jobs'[j].kind = jobs[j].kind /\ jobs'[j].deps = jobs[j].deps
       /\ jobs'[j].artifacts \cup jobs'[j].done = jobs[j].artifacts \cup jobs[j].done
       /\ jobs'[j].artifacts \subseteq jobs[j].artifacts
       /\ PhaseOfJob(j) # "verification" => jobs'[j].artifacts = jobs[j].artifacts

\* Every step keeps the ledger.
LEMMA StepsKeep ==
  ASSUME Shaped, [Next]_vars
  PROVE  Kept
<1>1. CASE Plan \/ PlanKilled
  <2>1. PICK made : Makes(made)
    BY <1>1, PlanAgrees
  <2>2. DOMAIN jobs \subseteq DOMAIN jobs' /\ \A j \in DOMAIN jobs : jobs'[j] = jobs[j]
    BY <2>1, CreatedJobs DEF Makes
  <2>3. QED
    BY <2>2 DEF Kept
<1>2. ASSUME NEW j \in DOMAIN jobs, Steps(j) PROVE Kept
  <2>1. Moved(j)
    BY <1>2, StepMoves DEF Shaped
  <2>2. PhaseOfJob(j) # "verification" => jobs[j].kind # "verify_batch"
    <3>1. Fits(j, jobs[j].kind, jobs[j].artifacts)
      BY DEF Shaped, JobsFit
    <3>2. QED
      BY <3>1, PhaseOfKind
  <2>3. QED
    BY <2>1, <2>2 DEF Moved, Kept
<1>3. CASE PlanAgain \/ SpecificationPasses \/ VerificationPasses \/ BugValidationPasses \/ UNCHANGED vars
  <2>1. jobs' = jobs
    BY <1>3 DEF PlanAgain, SpecificationPasses, VerificationPasses, BugValidationPasses, Pass, vars
  <2>2. QED
    BY <2>1 DEF Kept
<1>4. QED
  BY <1>1, <1>2, <1>3, NextCases

\* A plan changes when one is written that was not refused, and only the one of its phase.
LEMMA PlanWrites ==
  ASSUME Shaped, [Next]_vars, NEW ph \in Planned, plan'[ph] # plan[ph]
  PROVE  /\ Plan /\ Conflicts(Wanting) = {} /\ PlannedPhase = ph
         /\ plan'[ph] = Entries(Wanting, IF ph = "bug_validation" THEN Candidates ELSE Functions)
<1>1. CASE Plan \/ PlanKilled
  <2>1. /\ Plan /\ Conflicts(Wanting) = {}
        /\ plan' = [plan EXCEPT ![PlannedPhase] =
                      Entries(Wanting, IF phase = "bug_validation" THEN Candidates ELSE Functions)]
    BY <1>1, PlanEnds
  <2>2. DOMAIN plan = Planned
    BY DEF Shaped, Typed
  <2>3. PlannedPhase = ph /\ plan'[ph] = Entries(Wanting, IF phase = "bug_validation" THEN Candidates ELSE Functions)
    BY <2>1, <2>2
  <2>4. ph = "bug_validation" <=> phase = "bug_validation"
    BY <2>3 DEF PlannedPhase
  <2>5. QED
    BY <2>1, <2>3, <2>4
<1>2. ASSUME NEW j \in DOMAIN jobs, Steps(j) PROVE plan' = plan
  BY <1>2, StepMoves DEF Shaped
<1>3. CASE PlanAgain \/ SpecificationPasses \/ VerificationPasses \/ BugValidationPasses \/ UNCHANGED vars
  BY <1>3 DEF PlanAgain, SpecificationPasses, VerificationPasses, BugValidationPasses, Pass, vars
<1>4. QED
  BY <1>1, <1>2, <1>3, NextCases

\* A plan of specification or verification that is written is ready.
LEMMA WrittenReady ==
  ASSUME Shaped, Shaped', [Next]_vars, NEW ph \in {"specification", "verification"},
         Plan, Conflicts(Wanting) = {}, PlannedPhase = ph, plan'[ph] = Entries(Wanting, Functions)
  PROVE  PlanReady(ph, Functions)'
<1>1. DOMAIN plan'[ph] = Functions
  BY DEF Entries
<1>2. ASSUME NEW f \in Functions
      PROVE  \/ plan'[ph][f] = NoJob
             \/ /\ plan'[ph][f] \in DOMAIN jobs' /\ PhaseOfJob(plan'[ph][f]) = ph
                /\ f \in jobs'[plan'[ph][f]].artifacts
  <2>1. CASE Entries(Wanting, Functions)[f] = NoJob
    BY <2>1
  <2>2. ASSUME NEW i \in DOMAIN Wanting,
               Entries(Wanting, Functions)[f] = Wanting[i].id, f \in Wanting[i].artifacts,
               Wanting[i].id \in DOMAIN jobs', jobs'[Wanting[i].id].kind = Wanting[i].kind,
               jobs'[Wanting[i].id].artifacts = Wanting[i].artifacts
        PROVE  /\ plan'[ph][f] \in DOMAIN jobs' /\ PhaseOfJob(plan'[ph][f]) = ph
               /\ f \in jobs'[plan'[ph][f]].artifacts
    <3> DEFINE j == Wanting[i].id
    <3>1. Fits(j, jobs'[j].kind, jobs'[j].artifacts)
      <4>1. UNCHANGED layers
        BY DEF Plan, Data
      <4>2. QED
        BY <2>2, <4>1 DEF Shaped, JobsFit, Fits
    <3>2. PhaseOfJob(j) = ph
      <4>1. \/ ph = "specification" /\ jobs'[j].kind \in {"domain_context", "spec_batch"}
            \/ ph = "verification" /\ jobs'[j].kind \in {"verify_function", "verify_batch"}
        BY <2>2, WantingKinds DEF Shaped
      <4> HIDE DEF j
      <4>2. QED
        BY <3>1, <4>1, PhaseOfKind
    <3>3. QED
      BY <2>2, <3>2
  <2>3. QED
    BY <2>1, <2>2, EntriesOwn
<1>3. QED
  BY <1>1, <1>2 DEF PlanReady, Of

\* A plan of specification or verification that is ready stays so.
LEMMA ReadyStays ==
  ASSUME Shaped, Shaped', [Next]_vars, NEW ph \in {"specification", "verification"}, PlanReady(ph, Functions)
  PROVE  PlanReady(ph, Functions)'
<1>1. Kept
  BY StepsKeep
<1>2. CASE plan'[ph] = plan[ph]
  BY <1>1, <1>2 DEF PlanReady, Of, Kept
<1>3. CASE plan'[ph] # plan[ph]
  <2>1. ph \in Planned /\ ph # "bug_validation"
    BY DEF Planned
  <2>2. /\ Plan /\ Conflicts(Wanting) = {} /\ PlannedPhase = ph
        /\ plan'[ph] = Entries(Wanting, Functions)
    BY <1>3, <2>1, PlanWrites
  <2>3. QED
    BY <2>2, WrittenReady
<1>4. QED
  BY <1>2, <1>3

\* The form of the ledger and of the plans is an invariant.
LEMMA ShapedStays == Spec => []Shaped
<1>1. Init => Shaped
  BY InitShaped
<1>2. Shaped /\ [Next]_vars => Shaped'
  BY NextCases, PlanShaped, StepShaped, RestShaped
<1>3. QED
  BY <1>1, <1>2, PTL DEF Spec

\* A plan that has been written stays good for its gate (state.py, semantic_job_plan_ready):
\* its jobs stay the owners of its functions, whatever is rejected, shrunk or planned again.
THEOREM PlansStayGood == Spec => PlanStaysGood
<1>1. Shaped /\ Shaped' /\ [Next]_vars =>
        [\A ph \in {"specification", "verification"} :
           PlanReady(ph, Functions) => PlanReady(ph, Functions)']_vars
  BY ReadyStays
<1>2. QED
  BY <1>1, ShapedStays, PTL DEF Spec, PlanStaysGood
-----------------------------------------------------------------------------
(* Verification after specification *)

\* Artifacts are only added, and the ledger changes job by job.
Effects ==
  /\ specs \subseteq specs' /\ results \subseteq results' /\ reports \subseteq reports'
  /\ context => context'
  /\ UNCHANGED <<calls, layers, outcome>>
  /\ \A j \in DOMAIN jobs : jobs'[j] = jobs[j] \/ (Moved(j) /\ Delivered(j))
  /\ \A j \in DOMAIN jobs' \ DOMAIN jobs : jobs'[j].status = "queued" /\ jobs'[j].done = {}

\* Every step has these effects.
LEMMA StepEffects ==
  ASSUME Shaped, [Next]_vars
  PROVE  Effects
<1>1. CASE Plan \/ PlanKilled
  <2>1. PICK made : Makes(made)
    BY <1>1, PlanAgrees
  <2>2. /\ \A j \in DOMAIN jobs : jobs'[j] = jobs[j]
        /\ \A j \in DOMAIN jobs' \ DOMAIN jobs :
             jobs'[j] = Job(Wanting[j].kind, Wanting[j].artifacts, Wanting[j].deps)
    BY <2>1, CreatedJobs DEF Makes
  <2>3. \A j \in DOMAIN jobs' \ DOMAIN jobs : jobs'[j].status = "queued" /\ jobs'[j].done = {}
    BY <2>2 DEF Job
  <2>4. UNCHANGED Data
    BY <1>1 DEF Plan, PlanKilled
  <2>5. QED
    BY <2>2, <2>3, <2>4 DEF Effects, Data
<1>2. ASSUME NEW j \in DOMAIN jobs, Steps(j) PROVE Effects
  <2>1. Moved(j) /\ Delivered(j) /\ Grown
    BY <1>2, StepMoves DEF Shaped
  <2>2. QED
    BY <2>1 DEF Effects, Moved, Grown
<1>3. CASE PlanAgain \/ SpecificationPasses \/ VerificationPasses \/ BugValidationPasses \/ UNCHANGED vars
  <2>1. jobs' = jobs /\ UNCHANGED Data
    BY <1>3 DEF PlanAgain, SpecificationPasses, VerificationPasses, BugValidationPasses, Pass, vars, Data
  <2>2. QED
    BY <2>1 DEF Effects, Data
<1>4. QED
  BY <1>1, <1>2, <1>3, NextCases

\* The outputs of what succeeded are there.
LEMMA SpecsStayWritten ==
  ASSUME Shaped, [Next]_vars, SpecsWritten
  PROVE  SpecsWritten'
<1>1. Effects
  BY StepEffects
<1>2. ASSUME NEW j \in DOMAIN jobs', jobs'[j].kind = "spec_batch", jobs'[j].status = "succeeded"
      PROVE  jobs'[j].artifacts \subseteq specs'
  <2>1. j \in DOMAIN jobs /\ specs \subseteq specs'
    BY <1>1, <1>2 DEF Effects
  <2>2. CASE jobs'[j] = jobs[j]
    BY <1>2, <2>1, <2>2 DEF SpecsWritten
  <2>3. CASE Moved(j) /\ Delivered(j)
    BY <1>2, <2>3 DEF Moved, Delivered
  <2>4. QED
    BY <1>1, <2>1, <2>2, <2>3 DEF Effects
<1>3. QED
  BY <1>2 DEF SpecsWritten

\* A job that specifies a function stays one.
LEMMA SpecJobStays ==
  ASSUME Shaped, [Next]_vars, NEW j, NEW f, SpecJob(j, f)
  PROVE  SpecJob(j, f)'
<1>1. Kept
  BY StepsKeep
<1>2. j \in DOMAIN jobs /\ jobs[j].kind = "spec_batch" /\ f \in jobs[j].artifacts
  BY DEF SpecJob
<1>3. Fits(j, "spec_batch", jobs[j].artifacts)
  BY <1>2 DEF Shaped, JobsFit
<1>4. PhaseOfJob(j) # "verification"
  BY <1>3, PhaseOfKind
<1>5. QED
  BY <1>1, <1>2, <1>4 DEF Kept, SpecJob

\* The specification plan says who specifies what is not specified.
LEMMA SpecsStayPlanned ==
  ASSUME Shaped, [Next]_vars, SpecsPlanned
  PROVE  SpecsPlanned'
<1>1. specs \subseteq specs' /\ DOMAIN plan = Planned
  BY StepEffects DEF Effects, Shaped, Typed
<1>2. CASE plan'["specification"] = plan["specification"]
  BY <1>1, <1>2, SpecJobStays DEF SpecsPlanned
<1>3. CASE plan'["specification"] # plan["specification"]
  <2>1. /\ Plan /\ Conflicts(Wanting) = {} /\ PlannedPhase = "specification"
        /\ plan'["specification"] = Entries(Wanting, Functions)
    BY <1>3, PlanWrites DEF Planned
  <2>2. Wanting = WantedSpecs
    BY <2>1 DEF Wanting
  <2>3. ASSUME NEW f \in Functions \ specs PROVE SpecJob(plan["specification"][f], f)'
    <3>1. \E i \in DOMAIN Wanting : f \in Wanting[i].artifacts
      BY <2>2, SpecsWanted DEF Shaped
    <3>2. PICK i \in DOMAIN Wanting :
              /\ Entries(Wanting, Functions)[f] = Wanting[i].id /\ f \in Wanting[i].artifacts
              /\ Wanting[i].id \in DOMAIN jobs'
              /\ jobs'[Wanting[i].id].kind = Wanting[i].kind
              /\ jobs'[Wanting[i].id].artifacts = Wanting[i].artifacts
      BY <2>1, <3>1, EntriesOwn
    <3>3. Wanting[i].kind = "spec_batch"
      <4>1. Wanting[i].kind \in {"domain_context", "spec_batch"}
        BY <2>1, WantingKinds DEF Shaped
      <4>2. Fits(i, Wanting[i].kind, Wanting[i].artifacts)
        BY WantingGood DEF Shaped, GoodPlan
      <4>3. QED
        BY <3>2, <4>1, <4>2 DEF Fits
    <3>4. QED
      BY <2>1, <3>2, <3>3 DEF SpecJob
  <2>4. DOMAIN plan'["specification"] = Functions
    BY <2>1 DEF Entries
  <2>5. QED
    BY <1>1, <2>3, <2>4 DEF SpecsPlanned
<1>4. QED
  BY <1>2, <1>3

\* Verification is planned, and its phase is entered, when specification is planned.
LEMMA PlanStaysWritten ==
  ASSUME Shaped, [Next]_vars, PlanWritten
  PROVE  PlanWritten'
<1>1. DOMAIN plan = Planned
  BY DEF Shaped, Typed
<1>2. DOMAIN plan["specification"] = Functions => DOMAIN plan'["specification"] = Functions
  <2>1. CASE plan'["specification"] = plan["specification"]
    BY <2>1
  <2>2. CASE plan'["specification"] # plan["specification"]
    <3>1. plan'["specification"] = Entries(Wanting, Functions)
      BY <2>2, PlanWrites DEF Planned
    <3>2. QED
      BY <3>1 DEF Entries
  <2>3. QED
    BY <2>1, <2>2
<1>3. ASSUME planner' = "streaming" \/ phase' # "specification"
      PROVE  DOMAIN plan'["specification"] = Functions
  <2>1. CASE planner = "streaming" \/ phase # "specification"
    BY <1>2, <2>1 DEF PlanWritten
  <2>2. CASE planner # "streaming" /\ phase = "specification"
    <3>1. CASE Plan \/ PlanKilled
      <4>1. planner' = "streaming"
        BY <1>3, <2>2, <3>1 DEF Plan, PlanKilled
      <4>2. Plan /\ Conflicts(Wanting) = {}
        BY <3>1, <4>1 DEF Plan, PlanWith, PlanKilled
      <4>3. plan' = [plan EXCEPT !["specification"] = Entries(Wanting, Functions)]
        BY <2>2, <4>2 DEF Plan, PlanWith, PlannedPhase
      <4>4. plan'["specification"] = Entries(Wanting, Functions)
        BY <1>1, <4>3 DEF Planned
      <4>5. QED
        BY <4>4 DEF Entries
    <3>2. ASSUME NEW j \in DOMAIN jobs, Steps(j) PROVE FALSE
      <4>1. phase' = phase /\ planner' \in {planner, "due"}
        BY <3>2, StepMoves DEF Shaped
      <4>2. QED
        BY <1>3, <2>2, <4>1
    <3>3. CASE SpecificationPasses
      <4>1. DOMAIN plan["specification"] = Functions
        BY <3>3 DEF SpecificationPasses, Pass, Gate, PlanReady
      <4>2. QED
        BY <1>2, <4>1
    <3>4. CASE PlanAgain \/ VerificationPasses \/ BugValidationPasses \/ UNCHANGED vars
      BY <1>3, <2>2, <3>4 DEF PlanAgain, VerificationPasses, BugValidationPasses, Pass, vars
    <3>5. QED
      BY <3>1, <3>2, <3>3, <3>4, NextCases
  <2>3. QED
    BY <2>1, <2>2
<1>4. QED
  BY <1>3 DEF PlanWritten
\* A new job is the one its plan wants, of the phase that is planned.
LEMMA NewJobs ==
  ASSUME Shaped, Plan \/ PlanKilled
  PROVE  \E made :
           /\ Makes(made)
           /\ \A j \in DOMAIN jobs' \ DOMAIN jobs :
                /\ j \in made /\ j \in DOMAIN Wanting /\ Wanting[j].id = j
                /\ jobs'[j].kind = Wanting[j].kind /\ jobs'[j].artifacts = Wanting[j].artifacts
                /\ jobs'[j].deps = Wanting[j].deps
                /\ Fits(j, Wanting[j].kind, Wanting[j].artifacts)
                /\ PhaseOfJob(j) = "specification" <=> PlannedPhase = "specification"
                /\ PhaseOfJob(j) = "verification" <=> PlannedPhase = "verification"
<1>1. PICK made : Makes(made)
  BY PlanAgrees
<1>2. ASSUME NEW j \in DOMAIN jobs' \ DOMAIN jobs
      PROVE  /\ j \in made /\ j \in DOMAIN Wanting /\ Wanting[j].id = j
             /\ jobs'[j].kind = Wanting[j].kind /\ jobs'[j].artifacts = Wanting[j].artifacts
             /\ jobs'[j].deps = Wanting[j].deps
             /\ Fits(j, Wanting[j].kind, Wanting[j].artifacts)
             /\ PhaseOfJob(j) = "specification" <=> PlannedPhase = "specification"
             /\ PhaseOfJob(j) = "verification" <=> PlannedPhase = "verification"
  <2>1. GoodPlan(Wanting) /\ Closed(Wanting, made) /\ jobs' = Created(Wanting, made)
    BY <1>1 DEF Makes
  <2>2. /\ j \in made /\ Wanting[j].id = j
        /\ jobs'[j] = Job(Wanting[j].kind, Wanting[j].artifacts, Wanting[j].deps)
    BY <1>2, <2>1, CreatedJobs
  <2>3. j \in DOMAIN Wanting
    BY <2>1, <2>2 DEF Closed
  <2>4. Fits(j, Wanting[j].kind, Wanting[j].artifacts)
    BY <2>1, <2>3 DEF GoodPlan
  <2> DEFINE w == Wanting[j]
  <2>5. /\ PlannedPhase = "specification" => w.kind \in {"domain_context", "spec_batch"}
        /\ PlannedPhase = "verification" => w.kind \in {"verify_function", "verify_batch"}
        /\ PlannedPhase \notin {"specification", "verification"} => w.kind = "bug_validate"
    BY <2>3, WantingKinds DEF Shaped
  <2>6. /\ jobs'[j].kind = w.kind /\ jobs'[j].artifacts = w.artifacts /\ jobs'[j].deps = w.deps
    BY <2>2 DEF Job
  <2>7. Fits(j, w.kind, w.artifacts)
    BY <2>4
  <2> HIDE DEF w
  <2>8. /\ PhaseOfJob(j) = "specification" <=> PlannedPhase = "specification"
        /\ PhaseOfJob(j) = "verification" <=> PlannedPhase = "verification"
    BY <2>5, <2>7, PhaseOfKind
  <2>9. QED
    BY <2>2, <2>3, <2>6, <2>7, <2>8 DEF w
<1>3. QED
  BY <1>1, <1>2

\* When verification is planned, the jobs that specify are known.
LEMMA SpecsOfKnown ==
  ASSUME Shaped, SpecsPlanned, PlanWritten, PlannedPhase = "verification", NEW S \in SUBSET Functions
  PROVE  /\ \A f \in S : f \in specs \/ \E d \in SpecsOf(S) : SpecJob(d, f)
         /\ SpecsOf(S) \subseteq DOMAIN jobs
<1>1. DOMAIN plan["specification"] = Functions
  BY DEF PlanWritten, PlannedPhase
<1>2. NoJob \notin DOMAIN jobs
  BY DEF Shaped, Typed, JobIds, NoJob
<1>3. ASSUME NEW f \in S, f \notin specs PROVE \E d \in SpecsOf(S) : SpecJob(d, f)
  <2>1. SpecJob(plan["specification"][f], f)
    BY <1>1, <1>3 DEF SpecsPlanned
  <2>2. plan["specification"][f] # NoJob
    BY <1>2, <2>1 DEF SpecJob
  <2>3. plan["specification"][f] \in SpecsOf(S)
    BY <1>1, <2>2 DEF SpecsOf
  <2>4. QED
    BY <2>1, <2>3
<1>4. SpecsOf(S) \subseteq DOMAIN jobs
  BY DEF SpecsOf, Shaped, Typed, TypeOK, Planned
<1>5. QED
  BY <1>3, <1>4

\* What a verification job of the plan waits for
LEMMA VerifyWaits ==
  ASSUME PlannedPhase = "verification", NEW i \in DOMAIN Wanting
  PROVE  Wanting[i].artifacts \in SUBSET Functions /\ Wanting[i].deps = SpecsOf(Wanting[i].artifacts)
<1>1. Wanting = WantedVerifications
  BY DEF Wanting
<1>2. PICK n \in DOMAIN VerifyBatches : \E kind \in {"verify_function", "verify_batch"} :
             WantedVerifications[i] = Wanted(i, kind, VerifyBatches[n], SpecsOf(VerifyBatches[n]))
  BY <1>1, VerificationsWanted
<1>3. WantedVerifications[i].artifacts = VerifyBatches[n] /\ WantedVerifications[i].deps = SpecsOf(VerifyBatches[n])
  BY <1>2, WantedFields
<1>4. VerifyBatches[n] \in SUBSET Functions
  BY VerifyCut DEF Cuts
<1>5. QED
  BY <1>1, <1>3, <1>4

\* Verification jobs wait for the jobs that write their specifications.
LEMMA VerifyStillAwaits ==
  ASSUME Shaped, [Next]_vars, SpecsPlanned, PlanWritten, VerifyAwaits
  PROVE  VerifyAwaits'
<1>1. Kept /\ Effects
  BY StepsKeep, StepEffects
<1>2. ASSUME NEW j \in DOMAIN jobs', NEW f \in jobs'[j].artifacts, PhaseOfJob(j) = "verification", f \notin specs'
      PROVE  \E d \in jobs'[j].deps : SpecJob(d, f)'
  <2>1. f \notin specs
    BY <1>1, <1>2 DEF Effects
  <2>2. CASE j \in DOMAIN jobs
    <3>1. f \in jobs[j].artifacts /\ jobs'[j].deps = jobs[j].deps
      BY <1>1, <2>2 DEF Kept
    <3>2. PICK d \in jobs[j].deps : SpecJob(d, f)
      BY <1>2, <2>1, <2>2, <3>1 DEF VerifyAwaits
    <3>3. SpecJob(d, f)'
      BY <3>2, SpecJobStays
    <3>4. QED
      BY <3>1, <3>3
  <2>3. CASE j \notin DOMAIN jobs
    <3>1. Plan \/ PlanKilled
      <4>1. ASSUME NEW k \in DOMAIN jobs, Steps(k) PROVE FALSE
        BY <1>2, <2>3, <4>1, StepMoves DEF Shaped, Moved
      <4>2. CASE PlanAgain \/ SpecificationPasses \/ VerificationPasses \/ BugValidationPasses \/ UNCHANGED vars
        BY <1>2, <2>3, <4>2 DEF PlanAgain, SpecificationPasses, VerificationPasses, BugValidationPasses, Pass, vars
      <4>3. QED
        BY <4>1, <4>2, NextCases
    <3>2. /\ j \in DOMAIN Wanting /\ jobs'[j].artifacts = Wanting[j].artifacts
          /\ jobs'[j].deps = Wanting[j].deps /\ PlannedPhase = "verification"
      BY <1>2, <2>3, <3>1, NewJobs
    <3>3. Wanting[j].artifacts \in SUBSET Functions /\ Wanting[j].deps = SpecsOf(Wanting[j].artifacts)
      BY <3>2, VerifyWaits
    <3>4. PICK d \in Wanting[j].deps : SpecJob(d, f)
      BY <1>2, <2>1, <3>2, <3>3, SpecsOfKnown
    <3>5. QED
      BY <3>2, <3>4, SpecJobStays
  <2>4. QED
    BY <2>2, <2>3
<1>3. QED
  BY <1>2 DEF VerifyAwaits

\* Nobody verifies without the specifications.
LEMMA VerifiedLater ==
  ASSUME Shaped, [Next]_vars, SpecsWritten, VerifyAwaits, VerifiedAfterSpecified
  PROVE  VerifiedAfterSpecified'
<1>1. Effects
  BY StepEffects
<1>2. ASSUME NEW j \in DOMAIN jobs', jobs'[j].status = "running",
             jobs'[j].kind \in {"verify_function", "verify_batch"}
      PROVE  jobs'[j].artifacts \subseteq specs'
  <2>1. j \in DOMAIN jobs /\ specs \subseteq specs'
    BY <1>1, <1>2 DEF Effects
  <2>2. CASE jobs'[j] = jobs[j]
    BY <1>2, <2>1, <2>2 DEF VerifiedAfterSpecified, Running
  <2>3. CASE Moved(j)
    <3>1. jobs'[j].artifacts \subseteq jobs[j].artifacts /\ jobs'[j].kind = jobs[j].kind /\ Dispatchable(j)
      BY <1>2, <2>3 DEF Moved
    <3>2. PhaseOfJob(j) = "verification"
      <4>1. Fits(j, jobs[j].kind, jobs[j].artifacts)
        BY <2>1 DEF Shaped, JobsFit
      <4>2. QED
        BY <1>2, <3>1, <4>1, PhaseOfKind
    <3>3. ASSUME NEW f \in jobs[j].artifacts PROVE f \in specs
      <4>1. ASSUME NEW d \in jobs[j].deps, SpecJob(d, f) PROVE f \in specs
        <5>1. jobs[d].status = "succeeded"
          BY <3>1 DEF Dispatchable, DepsMet
        <5>2. QED
          BY <4>1, <5>1 DEF SpecJob, SpecsWritten
      <4>2. QED
        BY <2>1, <3>2, <4>1 DEF VerifyAwaits
    <3>4. QED
      BY <2>1, <3>1, <3>3
  <2>4. QED
    BY <1>1, <2>1, <2>2, <2>3 DEF Effects
<1>3. QED
  BY <1>2 DEF VerifiedAfterSpecified, Running

\* Who specifies, and what verification waits for
Specifying == Shaped /\ SpecsWritten /\ SpecsPlanned /\ PlanWritten /\ VerifyAwaits /\ VerifiedAfterSpecified

\* The steps keep it.
LEMMA SpecifyingStays ==
  ASSUME Specifying, [Next]_vars
  PROVE  Specifying'
<1>1. Shaped'
  BY NextCases, PlanShaped, StepShaped, RestShaped DEF Specifying
<1>2. QED
  BY <1>1, SpecsStayWritten, SpecsStayPlanned, PlanStaysWritten, VerifyStillAwaits, VerifiedLater DEF Specifying

\* It holds at first.
LEMMA InitSpecifying ==
  ASSUME Init
  PROVE  Specifying
<1>1. Shaped
  BY InitShaped
<1>2. DOMAIN jobs = {} /\ DOMAIN plan["specification"] = {} /\ planner = "due" /\ phase = "specification"
  BY DEF Init, Planned, NoPlan
<1>3. SpecsWritten /\ SpecsPlanned /\ PlanWritten /\ VerifyAwaits /\ VerifiedAfterSpecified
  BY <1>2 DEF SpecsWritten, SpecsPlanned, PlanWritten, VerifyAwaits, VerifiedAfterSpecified, Running
<1>4. QED
  BY <1>1, <1>3 DEF Specifying

\* Verification is planned while specification streams (job_planner.py, _verification), before
\* there is a specification, and planned again later; no Worker of it ever runs without the
\* specifications of all members of its job.
THEOREM VerifiedInOrder == Spec => []VerifiedAfterSpecified
<1>1. Init => Specifying
  BY InitSpecifying
<1>2. Specifying /\ [Next]_vars => Specifying'
  BY SpecifyingStays
<1>3. Specifying => VerifiedAfterSpecified
  BY DEF Specifying
<1>4. QED
  BY <1>1, <1>2, <1>3, PTL DEF Spec
-----------------------------------------------------------------------------
(* One owner *)

\* The sets own[d] are numbered from one on, n is not among the numbers, and what the cut s
\* has at a number before n is one of them.
Numbering(s, S, n, D, own) ==
  /\ s \in Seq(SUBSET Functions) /\ Cuts(s, S) /\ n \in DOMAIN s
  /\ D \subseteq Nat \ {0} /\ n \notin D
  /\ \A b \in D : 1 .. b \subseteq D
  /\ \A c \in D : c < n => \E d \in D : own[d] = s[c]

\* Then they are what s has at their numbers, for there are as many.
LEMMA Matching ==
  ASSUME NEW s, NEW S, NEW n, NEW D, NEW own, Numbering(s, S, n, D, own)
  PROVE  /\ \A d \in D : d \in DOMAIN s /\ d < n
         /\ \A d \in D : \E c \in D : own[d] = s[c]
<1>0. /\ s \in Seq(SUBSET Functions) /\ Cuts(s, S) /\ n \in DOMAIN s
      /\ D \subseteq Nat \ {0} /\ n \notin D
      /\ \A b \in D : 1 .. b \subseteq D
      /\ \A c \in D : c < n => \E d \in D : own[d] = s[c]
  BY DEF Numbering
<1>1. Len(s) \in Nat /\ DOMAIN s = 1 .. Len(s) /\ n \in 1 .. Len(s)
  BY <1>0
<1>2. ASSUME NEW d \in D PROVE d \in DOMAIN s /\ d < n
  <2>1. d \in Nat \ {0} /\ n \notin 1 .. d
    BY <1>0
  <2>2. d < n
    BY <1>1, <2>1
  <2>3. QED
    BY <1>1, <2>1, <2>2
<1>3. IsFiniteSet(D)
  <2>1. \A d \in D : d <= n
    BY <1>0, <1>1, <1>2
  <2>2. D \in SUBSET Nat /\ n \in Nat
    BY <1>0, <1>1
  <2>3. QED
    BY <2>1, <2>2, FS_BoundedSetOfNaturals
<1> DEFINE g == [c \in D |-> CHOOSE d \in D : own[d] = s[c]]
<1>4. \A c \in D : g[c] \in D /\ own[g[c]] = s[c]
  BY <1>0, <1>2
<1> HIDE DEF g
<1>5. ASSUME NEW c \in D, NEW d \in D, g[c] = g[d] PROVE c = d
  <2>1. s[c] = s[d] /\ c \in DOMAIN s /\ d \in DOMAIN s
    BY <1>2, <1>4, <1>5
  <2>2. QED
    BY <1>0, <2>1 DEF Cuts
<1>6. g \in Injection(D, D)
  <2>1. g \in [D -> D]
    BY <1>4 DEF g
  <2>2. QED
    BY <1>5, <2>1 DEF Injection, IsInjective
<1>7. g \in Surjection(D, D)
  BY <1>3, <1>6, FS_Injection
<1>8. \A d \in D : \E c \in D : own[d] = s[c]
  <2>1. \A d \in D : \E c \in D : g[c] = d
    BY <1>7 DEF Surjection
  <2>2. ASSUME NEW d \in D PROVE \E c \in D : own[d] = s[c]
    <3>1. PICK c \in D : g[c] = d
      BY <2>1
    <3>2. own[g[c]] = s[c]
      BY <1>4
    <3>3. QED
      BY <3>1, <3>2
  <2>3. QED
    BY <2>2
<1>9. QED
  BY <1>2, <1>8
\* The jobs of one group, a layer or all of verification, are numbered from one on, and the
\* plan wants the sets of s of them.  A new job at a number of s then has none of what the
\* jobs of the group have, and the jobs of the numbers before it are there.
LEMMA GroupMatched ==
  ASSUME Shaped, Numbered, NEW made, Makes(made),
         NEW k \in {"spec", "verify"}, NEW p, NEW q, p \in Nat, q \in Nat,
         NEW s \in Seq(SUBSET Functions), NEW S, Cuts(s, S),
         \A b \in DOMAIN s : /\ <<k, p, q, b>> \in DOMAIN Wanting
                             /\ Wanting[<<k, p, q, b>>].artifacts = s[b]
                             /\ \A j \in Existing(Wanting[<<k, p, q, b>>].kind, s[b]) :
                                  \E c \in Nat \ {0} : j = <<k, p, q, c>>,
         NEW n \in DOMAIN s, <<k, p, q, n>> \in made, <<k, p, q, n>> \notin DOMAIN jobs
  PROVE  /\ \A d \in Nat \ {0} : <<k, p, q, d>> \in DOMAIN jobs =>
              jobs[<<k, p, q, d>>].artifacts \cap s[n] = {}
         /\ \A b \in 1 .. n : <<k, p, q, b>> \in DOMAIN jobs'
<1> DEFINE Id(b) == <<k, p, q, b>>
           D == {d \in Nat \ {0} : Id(d) \in DOMAIN jobs}
           own == [d \in D |-> jobs[Id(d)].artifacts]
<1>1. Len(s) \in Nat /\ DOMAIN s = 1 .. Len(s) /\ n \in 1 .. Len(s)
  OBVIOUS
<1>2. Closed(Wanting, made) /\ Id(n) \in made
  BY DEF Makes
<1>3. ASSUME NEW b \in 1 .. n PROVE b \in DOMAIN s /\ Id(b) \in made
  <2>1. b \in DOMAIN s
    BY <1>1
  <2>2. CASE b = n
    BY <1>2, <2>1, <2>2
  <2>3. CASE b # n
    <3>1. b < n
      BY <1>1, <2>3
    <3>2. Earlier(Id(b), Id(n))
      BY <3>1 DEF Earlier
    <3>3. Id(b) \in Before(Wanting, Id(n))
      BY <2>1, <3>2 DEF Before
    <3>4. QED
      BY <1>2, <2>1, <3>3 DEF Closed
  <2>4. QED
    BY <2>2, <2>3
<1>4. ASSUME NEW b \in 1 .. n
      PROVE  /\ \/ \E d \in D : own[d] = s[b]
                \/ Wanting[Id(b)].id = Id(b) /\ Id(b) \notin DOMAIN jobs
             /\ Wanting[Id(b)].id \in DOMAIN jobs'
  <2> DEFINE w == Wanting[Id(b)]
  <2>1. /\ w.id \in DOMAIN jobs'
        /\ w.id \in DOMAIN jobs => w.id \in Existing(w.kind, w.artifacts)
        /\ w.id \notin DOMAIN jobs => w.id = Id(b)
    BY <1>3, MadeJobs
  <2>2. w.artifacts = s[b] /\ \A j \in Existing(w.kind, s[b]) : \E c \in Nat \ {0} : j = Id(c)
    BY <1>3
  <2> HIDE DEF w
  <2>3. CASE w.id \in DOMAIN jobs
    <3>1. PICK c \in Nat \ {0} : w.id = Id(c)
      BY <2>1, <2>2, <2>3
    <3>2. c \in D /\ own[c] = s[b]
      BY <2>1, <2>2, <2>3, <3>1 DEF Existing
    <3>3. QED
      BY <2>1, <3>2 DEF w
  <2>4. CASE w.id \notin DOMAIN jobs
    BY <2>1, <2>4 DEF w
  <2>5. QED
    BY <2>3, <2>4
<1>5. \A b \in D : 1 .. b \subseteq D
  <2>1. ASSUME NEW b \in D, NEW c \in 1 .. b PROVE c \in D
    <3>1. Id(b) \in DOMAIN jobs /\ Id(b)[1] = k /\ Id(b)[2] = p /\ Id(b)[3] = q /\ Id(b)[4] = b
      BY <2>1
    <3> HIDE DEF Id
    <3>2. <<Id(b)[1], Id(b)[2], Id(b)[3], c>> \in DOMAIN jobs
      BY <2>1, <3>1 DEF Numbered
    <3>3. Id(c) \in DOMAIN jobs
      BY <3>1, <3>2 DEF Id
    <3>4. c \in Nat \ {0}
      OBVIOUS
    <3>5. QED
      BY <3>3, <3>4
  <2>2. QED
    BY <2>1
<1>6. n \notin D /\ D \in SUBSET (Nat \ {0})
  OBVIOUS
<1>7. ASSUME NEW c \in D, c < n PROVE \E d \in D : own[d] = s[c]
  <2>1. c \in 1 .. n /\ Id(c) \in DOMAIN jobs
    BY <1>1, <1>7
  <2>2. QED
    BY <1>4, <2>1
<1>8. /\ \A d \in D : d \in DOMAIN s /\ d < n
      /\ \A d \in D : \E c \in D : own[d] = s[c]
  <2> HIDE DEF D, own
  <2>1. Numbering(s, S, n, D, own)
    BY <1>5, <1>6, <1>7 DEF Numbering
  <2>2. QED
    BY <2>1, Matching
<1>9. ASSUME NEW d \in Nat \ {0}, Id(d) \in DOMAIN jobs PROVE jobs[Id(d)].artifacts \cap s[n] = {}
  <2>1. d \in D /\ own[d] = jobs[Id(d)].artifacts
    BY <1>9
  <2> HIDE DEF own
  <2>2. PICK c \in D : own[d] = s[c]
    BY <1>8, <2>1
  <2>3. c \in DOMAIN s /\ c # n
    BY <1>6, <1>8
  <2>4. s[c] \cap s[n] = {}
    BY <2>3 DEF Cuts
  <2>5. QED
    BY <2>1, <2>2, <2>4
<1>10. ASSUME NEW b \in 1 .. n PROVE Id(b) \in DOMAIN jobs'
  <2>1. CASE b \in D
    <3>1. DOMAIN jobs \subseteq DOMAIN jobs'
      BY CreatedJobs DEF Makes
    <3>2. QED
      BY <2>1, <3>1
  <2>2. CASE b \notin D
    <3>1. ~\E d \in D : own[d] = s[b]
      <4>1. SUFFICES ASSUME NEW d \in D, own[d] = s[b] PROVE FALSE
        OBVIOUS
      <4> HIDE DEF own, D
      <4>2. PICK c \in D : own[d] = s[c]
        BY <1>8
      <4>3. c \in DOMAIN s /\ b \in DOMAIN s /\ c # b
        BY <1>3, <1>8, <2>2
      <4>4. s[c] # {} /\ s[c] \cap s[b] = {}
        BY <4>3 DEF Cuts
      <4>5. QED
        BY <4>1, <4>2, <4>4
    <3> HIDE DEF own, D, Id
    <3>2. QED
      BY <1>4, <3>1
  <2>3. QED
    BY <2>1, <2>2
<1>11. QED
  BY <1>9, <1>10
\* A function is in one layer only.
LEMMA SameLayer ==
  ASSUME LayersGood, NEW p \in ProjectPhases, NEW n \in DOMAIN layers[p],
         NEW q \in ProjectPhases, NEW m \in DOMAIN layers[q],
         NEW f, f \in layers[p][n], f \in layers[q][m]
  PROVE  p = q /\ n = m
<1>1. PhaseOf[f] = p /\ PhaseOf[f] = q
  BY DEF LayersGood, Cuts
<1>2. n = m
  BY <1>1 DEF LayersGood, Cuts
<1>3. QED
  BY <1>1, <1>2

\* A specification job with functions of a layer is one of that layer.
LEMMA LayerJob ==
  ASSUME Shaped, NEW p \in ProjectPhases, NEW n \in DOMAIN layers[p],
         NEW j \in DOMAIN jobs, jobs[j].kind = "spec_batch", jobs[j].artifacts \cap layers[p][n] # {}
  PROVE  \E c \in Nat \ {0} : j = <<"spec", p, n, c>>
<1>1. Fits(j, "spec_batch", jobs[j].artifacts)
  BY DEF Shaped, JobsFit
<1>2. /\ j = <<"spec", j[2], j[3], j[4]>> /\ j[2] \in ProjectPhases /\ j[3] \in DOMAIN layers[j[2]]
      /\ j[4] \in Nat \ {0} /\ jobs[j].artifacts \subseteq layers[j[2]][j[3]]
  BY <1>1 DEF Fits
<1>3. PICK f \in jobs[j].artifacts : f \in layers[p][n]
  OBVIOUS
<1>4. p = j[2] /\ n = j[3]
  BY <1>2, <1>3, SameLayer DEF Shaped
<1>5. QED
  BY <1>2, <1>4

\* A new job of a layer has nothing of the other jobs of the layer, and those numbered
\* before it are there.
LEMMA NewInLayer ==
  ASSUME Shaped, Numbered, NEW made, Makes(made), PlannedPhase = "specification",
         NEW p \in ProjectPhases, NEW n \in DOMAIN layers[p], NEW b \in DOMAIN Batches(p, n),
         <<"spec", p, n, b>> \in made, <<"spec", p, n, b>> \notin DOMAIN jobs
  PROVE  /\ \A d \in Nat \ {0} : <<"spec", p, n, d>> \in DOMAIN jobs =>
              jobs[<<"spec", p, n, d>>].artifacts \cap Wanting[<<"spec", p, n, b>>].artifacts = {}
         /\ \A c \in 1 .. b : <<"spec", p, n, c>> \in DOMAIN jobs'
<1> DEFINE s == Batches(p, n)
           S == layers[p][n] \ specs
<1>1. /\ s \in Seq(SUBSET Functions) /\ Cuts(s, S) /\ p \in Nat /\ n \in Nat
  <2>1. s \in Seq(SUBSET Functions) /\ Cuts(s, S) /\ n \in Nat
    BY LayerBatches DEF Shaped
  <2>2. p \in Nat
    BY PhasesType
  <2>3. QED
    BY <2>1, <2>2
<1>2. Wanting = WantedSpecs
  BY DEF Wanting
<1>3. ASSUME NEW c \in DOMAIN s
      PROVE  /\ <<"spec", p, n, c>> \in DOMAIN Wanting
             /\ Wanting[<<"spec", p, n, c>>].artifacts = s[c]
             /\ \A j \in Existing(Wanting[<<"spec", p, n, c>>].kind, s[c]) :
                  \E d \in Nat \ {0} : j = <<"spec", p, n, d>>
  <2>1. /\ SpecId(p, n, c) \in DOMAIN Wanting
        /\ Wanting[SpecId(p, n, c)] = Wanted(SpecId(p, n, c), "spec_batch", s[c], Base(p) \cup Prior(p, n))
    BY <1>2, SpecPlan
  <2>2. Wanting[SpecId(p, n, c)].artifacts = s[c] /\ Wanting[SpecId(p, n, c)].kind = "spec_batch"
    BY <2>1, WantedFields
  <2>3. s[c] # {} /\ s[c] \subseteq layers[p][n]
    BY <1>1 DEF Cuts
  <2>4. ASSUME NEW j \in Existing("spec_batch", s[c]) PROVE \E d \in Nat \ {0} : j = <<"spec", p, n, d>>
    <3>1. j \in DOMAIN jobs /\ jobs[j].kind = "spec_batch" /\ jobs[j].artifacts = s[c]
      BY <2>4 DEF Existing
    <3>2. jobs[j].artifacts \cap layers[p][n] # {}
      BY <2>3, <3>1
    <3>3. QED
      BY <3>1, <3>2, LayerJob
  <2>5. QED
    BY <2>1, <2>2, <2>4 DEF SpecId
<1>4. b \in DOMAIN s /\ Wanting[<<"spec", p, n, b>>].artifacts = s[b]
  BY <1>3
<1> HIDE DEF s, S
<1>5. /\ \A d \in Nat \ {0} : <<"spec", p, n, d>> \in DOMAIN jobs =>
           jobs[<<"spec", p, n, d>>].artifacts \cap s[b] = {}
      /\ \A c \in 1 .. b : <<"spec", p, n, c>> \in DOMAIN jobs'
  BY <1>1, <1>3, <1>4, GroupMatched
<1>6. QED
  BY <1>4, <1>5

\* The same for the jobs of verification
LEMMA NewInVerification ==
  ASSUME Shaped, Numbered, NEW made, Makes(made), PlannedPhase = "verification",
         NEW b, <<"verify", 0, 0, b>> \in made, <<"verify", 0, 0, b>> \notin DOMAIN jobs
  PROVE  /\ \A d \in Nat \ {0} : <<"verify", 0, 0, d>> \in DOMAIN jobs =>
              jobs[<<"verify", 0, 0, d>>].artifacts \cap Wanting[<<"verify", 0, 0, b>>].artifacts = {}
         /\ \A c \in 1 .. b : <<"verify", 0, 0, c>> \in DOMAIN jobs'
<1> DEFINE s == VerifyBatches
           S == Functions \ results
<1>1. s \in Seq(SUBSET Functions) /\ Cuts(s, S)
  BY VerifyCut
<1>2. Wanting = WantedVerifications
  BY DEF Wanting
<1>3. ASSUME NEW c \in DOMAIN s
      PROVE  /\ <<"verify", 0, 0, c>> \in DOMAIN Wanting
             /\ Wanting[<<"verify", 0, 0, c>>].artifacts = s[c]
             /\ \A j \in Existing(Wanting[<<"verify", 0, 0, c>>].kind, s[c]) :
                  \E d \in Nat \ {0} : j = <<"verify", 0, 0, d>>
  <2>1. PICK kind \in {"verify_function", "verify_batch"} :
          /\ <<"verify", 0, 0, c>> \in DOMAIN Wanting
          /\ Wanting[<<"verify", 0, 0, c>>] = Wanted(<<"verify", 0, 0, c>>, kind, s[c], SpecsOf(s[c]))
    BY <1>2, VerificationsWanted
  <2>2. Wanting[<<"verify", 0, 0, c>>].artifacts = s[c] /\ Wanting[<<"verify", 0, 0, c>>].kind = kind
    BY <2>1, WantedFields
  <2>3. ASSUME NEW j \in Existing(kind, s[c]) PROVE \E d \in Nat \ {0} : j = <<"verify", 0, 0, d>>
    <3>1. j \in DOMAIN jobs /\ jobs[j].kind = kind
      BY <2>3 DEF Existing
    <3>2. Fits(j, kind, jobs[j].artifacts)
      BY <3>1 DEF Shaped, JobsFit
    <3>3. QED
      BY <3>2 DEF Fits
  <2>4. QED
    BY <2>1, <2>2, <2>3
<1>4. b \in DOMAIN s
  <2>1. <<"verify", 0, 0, b>> \in DOMAIN WantedVerifications
    BY <1>2 DEF Makes, Closed
  <2>2. PICK n \in DOMAIN s : <<"verify", 0, 0, b>> = <<"verify", 0, 0, n>>
    BY <2>1, VerificationsWanted
  <2>3. QED
    BY <2>2
<1>5. Wanting[<<"verify", 0, 0, b>>].artifacts = s[b]
  BY <1>3, <1>4
<1> HIDE DEF s, S
<1>6. /\ \A d \in Nat \ {0} : <<"verify", 0, 0, d>> \in DOMAIN jobs =>
           jobs[<<"verify", 0, 0, d>>].artifacts \cap s[b] = {}
      /\ \A c \in 1 .. b : <<"verify", 0, 0, c>> \in DOMAIN jobs'
  BY <1>1, <1>3, <1>4, GroupMatched
<1>7. QED
  BY <1>5, <1>6
\* The new jobs of a run of the planner have nothing of the jobs that are there.
LEMMA NewApart ==
  ASSUME Shaped, Numbered, Plan \/ PlanKilled,
         NEW i \in DOMAIN jobs' \ DOMAIN jobs, NEW j \in DOMAIN jobs, PhaseOfJob(i) = PhaseOfJob(j)
  PROVE  jobs'[i].artifacts \cap jobs[j].artifacts = {}
<1>1. PICK made :
        /\ Makes(made)
        /\ \A k \in DOMAIN jobs' \ DOMAIN jobs :
             /\ k \in made /\ k \in DOMAIN Wanting
             /\ jobs'[k].artifacts = Wanting[k].artifacts
             /\ Fits(k, Wanting[k].kind, Wanting[k].artifacts)
             /\ PhaseOfJob(k) = "specification" <=> PlannedPhase = "specification"
             /\ PhaseOfJob(k) = "verification" <=> PlannedPhase = "verification"
  BY NewJobs
<1>2. /\ i \in made /\ i \in DOMAIN Wanting /\ jobs'[i].artifacts = Wanting[i].artifacts
      /\ Fits(i, Wanting[i].kind, Wanting[i].artifacts)
      /\ PhaseOfJob(i) = "specification" <=> PlannedPhase = "specification"
      /\ PhaseOfJob(i) = "verification" <=> PlannedPhase = "verification"
  BY <1>1
<1>3. Fits(j, jobs[j].kind, jobs[j].artifacts)
  BY DEF Shaped, JobsFit
<1> DEFINE new == Wanting[i].artifacts
           old == jobs[j].artifacts
           kind == Wanting[i].kind
           oldKind == jobs[j].kind
<1>4. Fits(i, kind, new) /\ Fits(j, oldKind, old)
  BY <1>2, <1>3
<1>5. PhaseOfJob(i) \in {"specification", "verification", "bug_validation"}
  BY DEF PhaseOfJob
<1>6. CASE PhaseOfJob(i) = "bug_validation"
  <2> HIDE DEF new, old, kind, oldKind
  <2>1. kind = "bug_validate" /\ oldKind = "bug_validate"
    BY <1>4, <1>6, PhaseOfKind
  <2>2. new = {i[4]} /\ i = <<"bug", 0, 0, i[4]>> /\ old = {j[4]} /\ j = <<"bug", 0, 0, j[4]>>
    BY <1>4, <2>1 DEF Fits
  <2>3. i # j
    OBVIOUS
  <2>4. new \cap old = {}
    BY <2>2, <2>3
  <2>5. QED
    BY <1>2, <2>4 DEF new, old
<1>7. CASE PhaseOfJob(i) = "verification"
  <2>1. \E b \in Nat \ {0} : i = <<"verify", 0, 0, b>>
    <3> HIDE DEF new, kind
    <3>1. kind \in {"verify_function", "verify_batch"}
      BY <1>4, <1>7, PhaseOfKind
    <3>2. QED
      BY <1>4, <3>1 DEF Fits
  <2>2. \E d \in Nat \ {0} : j = <<"verify", 0, 0, d>>
    <3> HIDE DEF old, oldKind
    <3>1. oldKind \in {"verify_function", "verify_batch"}
      BY <1>4, <1>7, PhaseOfKind
    <3>2. QED
      BY <1>4, <3>1 DEF Fits
  <2>3. PICK b \in Nat \ {0} : i = <<"verify", 0, 0, b>>
    BY <2>1
  <2>4. PICK d \in Nat \ {0} : j = <<"verify", 0, 0, d>>
    BY <2>2
  <2>5. old \cap new = {}
    BY <1>1, <1>2, <1>7, <2>3, <2>4, NewInVerification
  <2>6. QED
    BY <1>2, <2>5
<1>8. CASE PhaseOfJob(i) = "specification"
  <2>1. kind \in {"domain_context", "spec_batch"} /\ oldKind \in {"domain_context", "spec_batch"}
    <3> HIDE DEF new, kind, old, oldKind
    <3>1. QED
      BY <1>4, <1>8, PhaseOfKind
  <2>2. CASE kind = "domain_context" \/ oldKind = "domain_context"
    <3> HIDE DEF new, kind, old, oldKind
    <3>1. new = {} \/ old = {}
      BY <1>4, <2>2 DEF Fits
    <3>2. QED
      BY <1>2, <3>1 DEF new, old
  <2>3. CASE kind = "spec_batch" /\ oldKind = "spec_batch"
    <3>1. /\ i = <<"spec", i[2], i[3], i[4]>> /\ i[2] \in ProjectPhases /\ i[3] \in DOMAIN layers[i[2]]
          /\ new \subseteq layers[i[2]][i[3]]
          /\ j = <<"spec", j[2], j[3], j[4]>> /\ j[2] \in ProjectPhases /\ j[3] \in DOMAIN layers[j[2]]
          /\ old \subseteq layers[j[2]][j[3]] /\ j[4] \in Nat \ {0}
      <4> HIDE DEF new, kind, old, oldKind
      <4>1. QED
        BY <1>4, <2>3 DEF Fits
    <3>2. CASE i[2] = j[2] /\ i[3] = j[3]
      <4>1. PICK p \in ProjectPhases : \E n \in DOMAIN layers[p] : \E b \in DOMAIN Batches(p, n) : i = SpecId(p, n, b)
        <5>1. i \in DOMAIN WantedSpecs /\ i # Context
          BY <1>2, <1>8, <3>1 DEF Wanting, Context
        <5>2. QED
          BY <5>1, SpecsWanted DEF Shaped
      <4>2. PICK n \in DOMAIN layers[p] : \E b \in DOMAIN Batches(p, n) : i = SpecId(p, n, b)
        BY <4>1
      <4>3. PICK b \in DOMAIN Batches(p, n) : i = SpecId(p, n, b)
        BY <4>2
      <4>4. i = <<"spec", p, n, b>> /\ j = <<"spec", p, n, j[4]>>
        BY <3>1, <3>2, <4>3 DEF SpecId
      <4>5. <<"spec", p, n, b>> \in made /\ <<"spec", p, n, b>> \notin DOMAIN jobs
        BY <1>2, <4>4
      <4>6. \A d \in Nat \ {0} : <<"spec", p, n, d>> \in DOMAIN jobs =>
              jobs[<<"spec", p, n, d>>].artifacts \cap Wanting[<<"spec", p, n, b>>].artifacts = {}
        BY <1>1, <1>2, <1>8, <4>5, NewInLayer
      <4>7. old \cap new = {}
        BY <3>1, <4>4, <4>6
      <4>8. QED
        BY <1>2, <4>7
    <3>3. CASE ~(i[2] = j[2] /\ i[3] = j[3])
      <4> HIDE DEF new, old
      <4>1. new \cap old = {}
        BY <3>1, <3>3, SameLayer DEF Shaped
      <4>2. QED
        BY <1>2, <4>1 DEF new, old
    <3>4. QED
      BY <3>2, <3>3
  <2>4. QED
    BY <2>1, <2>2, <2>3
<1>9. QED
  BY <1>5, <1>6, <1>7, <1>8

\* A job that was not there is made by the planner.
LEMMA NewByPlanner ==
  ASSUME Shaped, [Next]_vars, NEW j \in DOMAIN jobs' \ DOMAIN jobs
  PROVE  Plan \/ PlanKilled
<1>1. ASSUME NEW k \in DOMAIN jobs, Steps(k) PROVE FALSE
  BY <1>1, StepMoves DEF Shaped, Moved
<1>2. CASE PlanAgain \/ SpecificationPasses \/ VerificationPasses \/ BugValidationPasses \/ UNCHANGED vars
  BY <1>2 DEF PlanAgain, SpecificationPasses, VerificationPasses, BugValidationPasses, Pass, vars
<1>3. QED
  BY <1>1, <1>2, NextCases

\* The jobs of a phase stay apart.
LEMMA StayApart ==
  ASSUME Shaped, [Next]_vars, Numbered, Apart
  PROVE  Apart'
<1>1. Kept
  BY StepsKeep
<1>2. ASSUME NEW i \in DOMAIN jobs', NEW j \in DOMAIN jobs', i # j, PhaseOfJob(i) = PhaseOfJob(j)
      PROVE  jobs'[i].artifacts \cap jobs'[j].artifacts = {}
  <2>1. CASE i \in DOMAIN jobs /\ j \in DOMAIN jobs
    <3>1. jobs[i].artifacts \cap jobs[j].artifacts = {}
      BY <1>2, <2>1 DEF Apart
    <3>2. QED
      BY <1>1, <2>1, <3>1 DEF Kept
  <2>2. CASE i \notin DOMAIN jobs /\ j \in DOMAIN jobs
    <3>1. Plan \/ PlanKilled
      BY <1>2, <2>2, NewByPlanner
    <3>2. jobs'[i].artifacts \cap jobs[j].artifacts = {}
      BY <1>2, <2>2, <3>1, NewApart
    <3>3. QED
      BY <1>1, <2>2, <3>2 DEF Kept
  <2>3. CASE i \in DOMAIN jobs /\ j \notin DOMAIN jobs
    <3>1. Plan \/ PlanKilled
      BY <1>2, <2>3, NewByPlanner
    <3>2. jobs'[j].artifacts \cap jobs[i].artifacts = {}
      BY <1>2, <2>3, <3>1, NewApart
    <3>3. QED
      BY <1>1, <2>3, <3>2 DEF Kept
  <2>4. CASE i \notin DOMAIN jobs /\ j \notin DOMAIN jobs
    <3>1. Plan \/ PlanKilled
      BY <1>2, <2>4, NewByPlanner
    <3>2. /\ i \in DOMAIN Wanting /\ j \in DOMAIN Wanting
          /\ jobs'[i].artifacts = Wanting[i].artifacts /\ jobs'[j].artifacts = Wanting[j].artifacts
      BY <1>2, <2>4, <3>1, NewJobs
    <3>3. QED
      BY <1>2, <3>2, WantingGood DEF Shaped, GoodPlan
  <2>5. QED
    BY <2>1, <2>2, <2>3, <2>4
<1>3. QED
  BY <1>2 DEF Apart

\* The jobs of a layer and those of verification stay numbered from one on.
LEMMA StayNumbered ==
  ASSUME Shaped, [Next]_vars, Numbered
  PROVE  Numbered'
<1>1. Kept
  BY StepsKeep
<1>2. ASSUME NEW j \in DOMAIN jobs', j[1] \in {"spec", "verify"}, NEW b \in 1 .. j[4]
      PROVE  <<j[1], j[2], j[3], b>> \in DOMAIN jobs'
  <2>1. CASE j \in DOMAIN jobs
    BY <1>1, <1>2, <2>1 DEF Numbered, Kept
  <2>2. CASE j \notin DOMAIN jobs
    <3>1. Plan \/ PlanKilled
      BY <1>2, <2>2, NewByPlanner
    <3>2. PICK made :
            /\ Makes(made)
            /\ \A k \in DOMAIN jobs' \ DOMAIN jobs :
                 /\ k \in made /\ k \in DOMAIN Wanting
                 /\ Fits(k, Wanting[k].kind, Wanting[k].artifacts)
                 /\ PhaseOfJob(k) = "specification" <=> PlannedPhase = "specification"
                 /\ PhaseOfJob(k) = "verification" <=> PlannedPhase = "verification"
      BY <3>1, NewJobs
    <3>3. /\ j \in made /\ j \in DOMAIN Wanting
          /\ Fits(j, Wanting[j].kind, Wanting[j].artifacts)
          /\ PhaseOfJob(j) = "specification" <=> PlannedPhase = "specification"
          /\ PhaseOfJob(j) = "verification" <=> PlannedPhase = "verification"
      BY <2>2, <3>2
    <3>4. CASE j[1] = "verify"
      <4>1. j = <<"verify", 0, 0, j[4]>>
        BY <3>3, <3>4 DEF Fits, Context
      <4>2. PlannedPhase = "verification"
        BY <3>3, <3>4 DEF PhaseOfJob
      <4>3. \A c \in 1 .. j[4] : <<"verify", 0, 0, c>> \in DOMAIN jobs'
        BY <2>2, <3>2, <3>3, <4>1, <4>2, NewInVerification
      <4>4. j[1] = "verify" /\ j[2] = 0 /\ j[3] = 0
        BY <4>1
      <4>5. QED
        BY <1>2, <4>3, <4>4
    <3>5. CASE j[1] = "spec"
      <4>1. PlannedPhase = "specification"
        BY <3>3, <3>5 DEF PhaseOfJob
      <4>2. PICK p \in ProjectPhases : \E n \in DOMAIN layers[p] : \E d \in DOMAIN Batches(p, n) : j = SpecId(p, n, d)
        <5>1. j \in DOMAIN WantedSpecs /\ j # Context
          BY <3>3, <3>5, <4>1 DEF Wanting, Context
        <5>2. QED
          BY <5>1, SpecsWanted DEF Shaped
      <4>3. PICK n \in DOMAIN layers[p] : \E d \in DOMAIN Batches(p, n) : j = SpecId(p, n, d)
        BY <4>2
      <4>4. PICK d \in DOMAIN Batches(p, n) : j = SpecId(p, n, d)
        BY <4>3
      <4>5. j[1] = "spec" /\ j[2] = p /\ j[3] = n /\ j[4] = d /\ j = <<"spec", p, n, d>>
        BY <4>4 DEF SpecId
      <4>6. \A c \in 1 .. d : <<"spec", p, n, c>> \in DOMAIN jobs'
        BY <2>2, <3>2, <3>3, <4>1, <4>5, NewInLayer
      <4>7. QED
        BY <1>2, <4>5, <4>6
    <3>6. QED
      BY <1>2, <3>4, <3>5
  <2>3. QED
    BY <2>1, <2>2
<1>3. QED
  BY <1>2 DEF Numbered

\* Plans that were killed, refused or made again in batches of another size (job_planner.py,
\* _existing_job and _ensure_job) never leave a function to two jobs of a phase that are not
\* finished; finished or not, no two jobs of a phase have a function in common.
THEOREM OneOwnerEach == Spec => []OneOwner
<1>1. Init => Shaped /\ Numbered /\ Apart
  <2>1. ASSUME Init PROVE Shaped /\ Numbered /\ Apart
    <3>1. DOMAIN jobs = {}
      BY <2>1 DEF Init
    <3>2. QED
      BY <2>1, <3>1, InitShaped DEF Numbered, Apart
  <2>2. QED
    BY <2>1
<1>2. Shaped /\ Numbered /\ Apart /\ [Next]_vars => Shaped' /\ Numbered' /\ Apart'
  BY NextCases, PlanShaped, StepShaped, RestShaped, StayNumbered, StayApart
<1>3. Apart => OneOwner
  BY DEF Apart, OneOwner
<1>4. QED
  BY <1>1, <1>2, <1>3, PTL DEF Spec
-----------------------------------------------------------------------------
(* Nothing waits for ever *)

\* What succeeded has written its outputs, and what was given back is done.
LEMMA ResultsStayWritten ==
  ASSUME Shaped, [Next]_vars, ResultsWritten
  PROVE  ResultsWritten'
<1>1. Effects
  BY StepEffects
<1>2. ASSUME NEW j \in DOMAIN jobs'
      PROVE  /\ jobs'[j].done \subseteq results'
             /\ jobs'[j].status = "succeeded" =>
                  /\ jobs'[j].kind = "domain_context" => context'
                  /\ PhaseOfJob(j) = "verification" => jobs'[j].artifacts \subseteq results'
                  /\ jobs'[j].kind = "bug_validate" => jobs'[j].artifacts \subseteq reports'
  <2>1. CASE j \notin DOMAIN jobs
    BY <1>1, <1>2, <2>1 DEF Effects
  <2>2. CASE j \in DOMAIN jobs /\ jobs'[j] = jobs[j]
    BY <1>1, <2>2 DEF Effects, ResultsWritten
  <2>3. CASE j \in DOMAIN jobs /\ Moved(j) /\ Delivered(j)
    <3>1. results \subseteq results'
      BY <1>1 DEF Effects
    <3>2. jobs'[j].done \subseteq jobs[j].done \cup results' /\ jobs[j].done \subseteq results
      BY <2>3 DEF Moved, ResultsWritten
    <3>3. jobs'[j].artifacts \subseteq jobs[j].artifacts /\ jobs'[j].kind = jobs[j].kind
      BY <2>3 DEF Moved
    <3>4. QED
      BY <2>3, <3>1, <3>2, <3>3 DEF Delivered
  <2>4. QED
    BY <1>1, <1>2, <2>1, <2>2, <2>3 DEF Effects
<1>3. QED
  BY <1>2 DEF ResultsWritten

\* The job at an id of the plan, or the one that is there for its batch, is one of the layer.
LEMMA LayerId ==
  ASSUME Shaped, NEW p \in ProjectPhases, NEW n \in DOMAIN layers[p], NEW b \in DOMAIN Batches(p, n)
  PROVE  /\ WantedSpecs[SpecId(p, n, b)].id[1] = "spec"
         /\ WantedSpecs[SpecId(p, n, b)].id[2] = p
         /\ WantedSpecs[SpecId(p, n, b)].id[3] = n
<1> DEFINE d == WantedSpecs[SpecId(p, n, b)].id
<1>1. d = IdOf("spec_batch", Batches(p, n)[b], SpecId(p, n, b))
  <2>1. WantedSpecs[SpecId(p, n, b)] =
          Wanted(SpecId(p, n, b), "spec_batch", Batches(p, n)[b], Base(p) \cup Prior(p, n))
    BY SpecPlan
  <2>2. QED
    BY <2>1, WantedFields
<1> HIDE DEF d
<1>2. CASE d = SpecId(p, n, b)
  BY <1>2 DEF SpecId, d
<1>3. CASE d \in Existing("spec_batch", Batches(p, n)[b])
  <2>1. d \in DOMAIN jobs /\ jobs[d].kind = "spec_batch" /\ jobs[d].artifacts = Batches(p, n)[b]
    BY <1>3 DEF Existing
  <2>2. Batches(p, n)[b] # {} /\ Batches(p, n)[b] \subseteq layers[p][n]
    BY LayerBatches DEF Shaped, Cuts
  <2>3. PICK c \in Nat \ {0} : d = <<"spec", p, n, c>>
    BY <2>1, <2>2, LayerJob
  <2>4. QED
    BY <2>3 DEF d
<1>4. QED
  BY <1>1, <1>2, <1>3, IdOfCases

\* What a specification job of the plan waits for
LEMMA SpecWaits ==
  ASSUME Shaped, NEW p \in ProjectPhases, NEW n \in DOMAIN layers[p], NEW d \in Base(p) \cup Prior(p, n)
  PROVE  \/ d = Context
         \/ d[1] = "spec" /\ (d[2] < p \/ (d[2] = p /\ d[3] < n))
<1>1. CASE d \in Prior(p, n)
  <2>1. n \in 1 .. Len(layers[p]) + 1
    <3>1. layers[p] \in Seq(SUBSET Functions)
      BY DEF Shaped, LayersGood
    <3>2. QED
      BY <3>1
  <2>2. PICK i \in DOMAIN layers[p] : \E b \in DOMAIN Batches(p, i) : i < n /\ d = WantedSpecs[SpecId(p, i, b)].id
    BY <1>1, <2>1, PriorPlanned DEF Shaped
  <2>3. PICK b \in DOMAIN Batches(p, i) : i < n /\ d = WantedSpecs[SpecId(p, i, b)].id
    BY <2>2
  <2>4. d[1] = "spec" /\ d[2] = p /\ d[3] = i
    BY <2>3, LayerId
  <2>5. QED
    BY <2>3, <2>4
<1>2. CASE d \in Base(p) /\ d \notin Ground
  <2>1. PICK r \in ProjectPhases : \E i \in DOMAIN layers[r] : \E b \in DOMAIN Batches(r, i) :
               r < p /\ d = WantedSpecs[SpecId(r, i, b)].id
    BY <1>2, BasePlanned DEF Shaped
  <2>2. PICK i \in DOMAIN layers[r] : \E b \in DOMAIN Batches(r, i) :
               r < p /\ d = WantedSpecs[SpecId(r, i, b)].id
    BY <2>1
  <2>3. PICK b \in DOMAIN Batches(r, i) : r < p /\ d = WantedSpecs[SpecId(r, i, b)].id
    BY <2>2
  <2>4. d[1] = "spec" /\ d[2] = r
    BY <2>3, LayerId
  <2>5. QED
    BY <2>3, <2>4
<1>3. CASE d \in Ground
  BY <1>3 DEF Ground
<1>4. QED
  BY <1>1, <1>2, <1>3

\* The specification plan is ready when verification is planned.
LEMMA SpecsStayReady ==
  ASSUME Shaped, Shaped', [Next]_vars, SpecsReady
  PROVE  SpecsReady'
<1>1. PlanReady("specification", Functions) => PlanReady("specification", Functions)'
  BY ReadyStays
<1>2. ASSUME planner' = "streaming" \/ phase' # "specification", ~(planner = "streaming" \/ phase # "specification")
      PROVE  PlanReady("specification", Functions)'
  <2>1. CASE Plan \/ PlanKilled
    <3>1. planner' = "streaming"
      BY <1>2, <2>1 DEF Plan, PlanKilled
    <3>2. Plan /\ Conflicts(Wanting) = {} /\ PlannedPhase = "specification"
      BY <1>2, <2>1, <3>1 DEF Plan, PlanWith, PlanKilled, PlannedPhase
    <3>3. plan' = [plan EXCEPT !["specification"] = Entries(Wanting, Functions)]
      BY <1>2, <3>2 DEF Plan, PlanWith
    <3>4. plan'["specification"] = Entries(Wanting, Functions)
      BY <3>3 DEF Shaped, Typed, Planned
    <3>5. QED
      BY <3>2, <3>4, WrittenReady
  <2>2. ASSUME NEW j \in DOMAIN jobs, Steps(j) PROVE FALSE
    <3>1. phase' = phase /\ planner' \in {planner, "due"}
      BY <2>2, StepMoves DEF Shaped
    <3>2. QED
      BY <1>2, <3>1
  <2>3. CASE SpecificationPasses
    <3>1. PlanReady("specification", Functions)
      BY <2>3 DEF SpecificationPasses, Pass, Gate
    <3>2. QED
      BY <1>1, <3>1
  <2>4. CASE PlanAgain \/ VerificationPasses \/ BugValidationPasses \/ UNCHANGED vars
    BY <1>2, <2>4 DEF PlanAgain, VerificationPasses, BugValidationPasses, Pass, vars
  <2>5. QED
    BY <2>1, <2>2, <2>3, <2>4, NextCases
<1>3. QED
  BY <1>1, <1>2 DEF SpecsReady

\* The jobs that verification waits for specify.
LEMMA SpecsOfSpecify ==
  ASSUME SpecsReady, PlannedPhase = "verification", NEW S \in SUBSET Functions, NEW d \in SpecsOf(S)
  PROVE  PhaseOfJob(d) = "specification"
<1>1. PlanReady("specification", Functions)
  BY DEF SpecsReady, PlannedPhase
<1>2. QED
  BY <1>1 DEF PlanReady, SpecsOf

\* What a job of the plan waits for is in order.
LEMMA WantingOrdered ==
  ASSUME Shaped, SpecsReady, NEW j \in DOMAIN Wanting, NEW d \in Wanting[j].deps
  PROVE  /\ Wanting[j].kind = "spec_batch" =>
              \/ d = Context
              \/ d[1] = "spec" /\ (d[2] < j[2] \/ (d[2] = j[2] /\ d[3] < j[3]))
         /\ PlannedPhase = "verification" => PhaseOfJob(d) = "specification"
         /\ Wanting[j].kind \notin {"domain_context", "bug_validate"}
<1>1. CASE PlannedPhase = "specification"
  <2>1. Wanting = WantedSpecs
    BY <1>1 DEF Wanting
  <2>2. CASE Wanting[j] = Wanted(Context, "domain_context", {}, {})
    <3>1. Wanting[j].deps = {}
      BY <2>2, WantedFields
    <3>2. QED
      BY <3>1
  <2>3. ASSUME NEW p \in ProjectPhases, NEW n \in DOMAIN layers[p], NEW b \in DOMAIN Batches(p, n),
               j = SpecId(p, n, b),
               Wanting[j] = Wanted(j, "spec_batch", Batches(p, n)[b], Base(p) \cup Prior(p, n))
        PROVE  /\ \/ d = Context
                  \/ d[1] = "spec" /\ (d[2] < j[2] \/ (d[2] = j[2] /\ d[3] < j[3]))
               /\ Wanting[j].kind = "spec_batch"
    <3>1. Wanting[j].kind = "spec_batch" /\ Wanting[j].deps = Base(p) \cup Prior(p, n)
      BY <2>3, WantedFields
    <3>2. j[2] = p /\ j[3] = n
      BY <2>3 DEF SpecId
    <3>3. \/ d = Context
          \/ d[1] = "spec" /\ (d[2] < p \/ (d[2] = p /\ d[3] < n))
      BY <3>1, SpecWaits
    <3>4. QED
      BY <3>1, <3>2, <3>3
  <2>4. QED
    BY <1>1, <2>1, <2>2, <2>3, SpecsWanted DEF Shaped
<1>2. CASE PlannedPhase = "verification"
  <2>1. Wanting[j].kind \in {"verify_function", "verify_batch"}
    BY <1>2, WantingKinds DEF Shaped
  <2>2. Wanting[j].artifacts \in SUBSET Functions /\ d \in SpecsOf(Wanting[j].artifacts)
    BY <1>2, VerifyWaits
  <2>3. PhaseOfJob(d) = "specification"
    BY <1>2, <2>2, SpecsOfSpecify
  <2>4. QED
    BY <2>1, <2>3
<1>3. CASE PlannedPhase \notin {"specification", "verification"}
  <2>1. Wanting = WantedBugs
    BY <1>3 DEF Wanting
  <2>2. PICK f \in Candidates : j = <<"bug", 0, 0, f>>
    BY <2>1, BugsWanted
  <2>3. Wanting[j] = Wanted(j, "bug_validate", {f}, {})
    BY <2>1, <2>2, BugsWanted
  <2>4. Wanting[j].deps = {}
    BY <2>3, WantedFields
  <2>5. QED
    BY <2>4
<1>4. QED
  BY <1>1, <1>2, <1>3

\* Jobs wait for jobs before them only.
LEMMA DepsStayOrdered ==
  ASSUME Shaped, [Next]_vars, SpecsReady, DepsOrdered
  PROVE  DepsOrdered'
<1>1. Kept
  BY StepsKeep
<1>2. ASSUME NEW j \in DOMAIN jobs', NEW d \in jobs'[j].deps
      PROVE  /\ jobs'[j].kind = "spec_batch" =>
                  \/ d = Context
                  \/ d[1] = "spec" /\ (d[2] < j[2] \/ (d[2] = j[2] /\ d[3] < j[3]))
             /\ PhaseOfJob(j) = "verification" => PhaseOfJob(d) = "specification"
             /\ jobs'[j].kind \notin {"domain_context", "bug_validate"}
  <2>1. CASE j \in DOMAIN jobs
    <3>1. jobs'[j].kind = jobs[j].kind /\ d \in jobs[j].deps
      BY <1>1, <1>2, <2>1 DEF Kept
    <3>2. QED
      BY <2>1, <3>1 DEF DepsOrdered
  <2>2. CASE j \notin DOMAIN jobs
    <3>1. Plan \/ PlanKilled
      BY <1>2, <2>2, NewByPlanner
    <3>2. /\ j \in DOMAIN Wanting /\ jobs'[j].kind = Wanting[j].kind /\ jobs'[j].deps = Wanting[j].deps
          /\ PhaseOfJob(j) = "verification" => PlannedPhase = "verification"
      BY <1>2, <2>2, <3>1, NewJobs
    <3>3. d \in Wanting[j].deps
      BY <1>2, <3>2
    <3>4. QED
      BY <3>2, <3>3, WantingOrdered
  <2>3. QED
    BY <2>1, <2>2
<1>3. QED
  BY <1>2 DEF DepsOrdered
\* The domain context is planned with the specifications.
LEMMA ContextStaysPlanned ==
  ASSUME Shaped, [Next]_vars, ContextPlanned
  PROVE  ContextPlanned'
<1>1. Kept /\ Effects
  BY StepsKeep, StepEffects
<1>2. CASE plan'["specification"] = plan["specification"]
  BY <1>1, <1>2 DEF Kept, Effects, ContextPlanned
<1>3. CASE plan'["specification"] # plan["specification"]
  <2>1. Plan /\ Conflicts(Wanting) = {} /\ PlannedPhase = "specification"
    BY <1>3, PlanWrites DEF Planned
  <2>2. Wanting = WantedSpecs /\ context' = context
    BY <2>1 DEF Wanting, Plan, Data
  <2>3. Makes(DOMAIN Wanting)
    BY <2>1, PlanAgrees
  <2>4. ASSUME ~context PROVE Context \in DOMAIN jobs'
    <3>1. Context \in DOMAIN Wanting
      BY <2>2, <2>4, SpecsWanted DEF Shaped
    <3>2. Wanting[Context].id \in DOMAIN jobs'
      BY <2>3, <3>1, MadeJobs
    <3>3. Wanting[Context] = Wanted(Context, "domain_context", {}, {})
      BY <2>2, <2>4, SpecPlan DEF Ground
    <3>4. Wanting[Context].id = Context
      BY <3>3, WantedFields, ContextId DEF Shaped
    <3>5. QED
      BY <3>2, <3>4
  <2>5. QED
    BY <2>2, <2>4 DEF ContextPlanned
<1>4. QED
  BY <1>2, <1>3

\* The verification plan says who verifies what is not verified.
LEMMA ResultsStayPlanned ==
  ASSUME Shaped, Shaped', [Next]_vars, ResultsWritten, ResultsPlanned
  PROVE  ResultsPlanned'
<1>1. Kept /\ Effects
  BY StepsKeep, StepEffects
<1>2. results \subseteq results' /\ DOMAIN jobs \subseteq DOMAIN jobs'
  BY <1>1 DEF Effects, Kept
<1>3. CASE plan'["verification"] = plan["verification"]
  <2>1. ASSUME NEW f \in DOMAIN plan["verification"], f \notin results', NEW j, j = plan["verification"][f]
        PROVE  /\ j \in DOMAIN jobs' /\ PhaseOfJob(j) = "verification" /\ f \in jobs'[j].artifacts
    <3>1. j \in DOMAIN jobs /\ PhaseOfJob(j) = "verification" /\ f \in jobs[j].artifacts /\ f \notin results
      BY <1>2, <2>1 DEF ResultsPlanned
    <3>2. jobs[j].done \subseteq results
      BY <3>1 DEF ResultsWritten
    <3>3. CASE jobs'[j] = jobs[j]
      BY <1>2, <3>1, <3>3
    <3>4. CASE Moved(j)
      <4>1. /\ jobs'[j].artifacts \cup jobs'[j].done = jobs[j].artifacts \cup jobs[j].done
            /\ jobs'[j].done \subseteq jobs[j].done \cup results'
        BY <3>4 DEF Moved
      <4>2. f \notin jobs'[j].done
        BY <2>1, <3>1, <3>2, <4>1
      <4>3. QED
        BY <1>2, <3>1, <4>1, <4>2
    <3>5. QED
      BY <1>1, <3>1, <3>3, <3>4 DEF Effects
  <2>2. QED
    BY <1>3, <2>1 DEF ResultsPlanned
<1>4. CASE plan'["verification"] # plan["verification"]
  <2>1. /\ Plan /\ Conflicts(Wanting) = {} /\ PlannedPhase = "verification"
        /\ plan'["verification"] = Entries(Wanting, Functions)
    BY <1>4, PlanWrites DEF Planned
  <2>2. Wanting = WantedVerifications /\ results' = results
    BY <2>1 DEF Wanting, Plan, Data
  <2>3. PlanReady("verification", Functions)'
    BY <2>1, WrittenReady
  <2>4. ASSUME NEW f \in Functions \ results, NEW j, j = plan'["verification"][f]
        PROVE  j \in DOMAIN jobs' /\ PhaseOfJob(j) = "verification" /\ f \in jobs'[j].artifacts
    <3>1. \E i \in DOMAIN Wanting : f \in Wanting[i].artifacts
      BY <2>2, VerificationsWanted
    <3>2. PICK i \in DOMAIN Wanting :
              /\ Entries(Wanting, Functions)[f] = Wanting[i].id /\ f \in Wanting[i].artifacts
              /\ Wanting[i].id \in DOMAIN jobs'
              /\ jobs'[Wanting[i].id].artifacts = Wanting[i].artifacts
      BY <2>1, <3>1, EntriesOwn
    <3>3. j \in DOMAIN jobs' /\ f \in jobs'[j].artifacts
      BY <2>1, <2>4, <3>2
    <3>4. j # NoJob
      BY <3>3 DEF Shaped, Typed, JobIds, NoJob
    <3>5. PhaseOfJob(j) = "verification"
      BY <2>3, <2>4, <3>4 DEF PlanReady
    <3>6. QED
      BY <3>3, <3>5
  <2>5. DOMAIN plan'["verification"] = Functions
    BY <2>1 DEF Entries
  <2>6. QED
    BY <2>2, <2>4, <2>5 DEF ResultsPlanned
<1>5. QED
  BY <1>3, <1>4

\* Reports are written by Bug Validators, of their functions.
LEMMA ReportsOnly ==
  ASSUME NEW j \in DOMAIN jobs, Steps(j)
  PROVE  reports' \subseteq reports \cup (IF jobs[j].kind = "bug_validate" THEN jobs[j].artifacts ELSE {})
<1>1. CASE Dispatch(j) \/ DispatchKilled(j) \/ Retry(j)
  BY <1>1 DEF Dispatch, DispatchKilled, Retry, Data
<1>2. ASSUME NEW S \in SUBSET jobs[j].artifacts, Written(j, S)
      PROVE  reports' \subseteq reports \cup (IF jobs[j].kind = "bug_validate" THEN jobs[j].artifacts ELSE {})
  BY <1>2 DEF Written
<1>3. CASE Submit(j)
  BY <1>2, <1>3 DEF Submit
<1>4. CASE Rejected(j)
  BY <1>2, <1>4 DEF Rejected
<1>5. CASE Lost(j)
  BY <1>2, <1>5 DEF Lost, Data
<1>6. QED
  BY <1>1, <1>3, <1>4, <1>5 DEF Steps

\* The job of bug validation for a candidate is the one with its number.
LEMMA BugId ==
  ASSUME Shaped, NEW f \in Candidates
  PROVE  IdOf("bug_validate", {f}, <<"bug", 0, 0, f>>) = <<"bug", 0, 0, f>>
<1>1. ASSUME NEW j \in Existing("bug_validate", {f}) PROVE j = <<"bug", 0, 0, f>>
  <2>1. j \in DOMAIN jobs /\ jobs[j].kind = "bug_validate" /\ jobs[j].artifacts = {f}
    BY <1>1 DEF Existing
  <2>2. Fits(j, "bug_validate", {f})
    BY <2>1 DEF Shaped, JobsFit
  <2>3. j = <<"bug", 0, 0, j[4]>> /\ {f} = {j[4]}
    BY <2>2 DEF Fits
  <2>4. j[4] = f
    BY <2>3
  <2>5. QED
    BY <2>3, <2>4
<1>2. QED
  BY <1>1, IdOfCases

\* Bug validation has the jobs of the candidates and no others.
LEMMA BugsStayPlanned ==
  ASSUME Shaped, [Next]_vars, BugsPlanned
  PROVE  BugsPlanned'
<1>1. Kept /\ Effects
  BY StepsKeep, StepEffects
<1>2. DOMAIN jobs \subseteq DOMAIN jobs' /\ Candidates \subseteq Candidates'
  BY <1>1 DEF Kept, Effects, Candidates
<1>3. \A f \in DOMAIN plan'["bug_validation"] :
        plan'["bug_validation"][f] = <<"bug", 0, 0, f>> /\ <<"bug", 0, 0, f>> \in DOMAIN jobs'
  <2>1. CASE plan'["bug_validation"] = plan["bug_validation"]
    BY <1>2, <2>1 DEF BugsPlanned
  <2>2. CASE plan'["bug_validation"] # plan["bug_validation"]
    <3>1. /\ Plan /\ Conflicts(Wanting) = {} /\ PlannedPhase = "bug_validation"
          /\ plan'["bug_validation"] = Entries(Wanting, Candidates)
      BY <2>2, PlanWrites DEF Planned
    <3>2. Wanting = WantedBugs
      BY <3>1 DEF Wanting
    <3>3. ASSUME NEW f \in Candidates
          PROVE  Entries(Wanting, Candidates)[f] = <<"bug", 0, 0, f>> /\ <<"bug", 0, 0, f>> \in DOMAIN jobs'
      <4>1. \A g \in Candidates :
              /\ <<"bug", 0, 0, g>> \in DOMAIN Wanting
              /\ Wanting[<<"bug", 0, 0, g>>].artifacts = {g}
              /\ Wanting[<<"bug", 0, 0, g>>].id = <<"bug", 0, 0, g>>
        <5>1. SUFFICES ASSUME NEW g \in Candidates
                       PROVE  /\ <<"bug", 0, 0, g>> \in DOMAIN Wanting
                              /\ Wanting[<<"bug", 0, 0, g>>].artifacts = {g}
                              /\ Wanting[<<"bug", 0, 0, g>>].id = <<"bug", 0, 0, g>>
          OBVIOUS
        <5>2. Wanting[<<"bug", 0, 0, g>>] = Wanted(<<"bug", 0, 0, g>>, "bug_validate", {g}, {})
          BY <3>2, BugsWanted
        <5>3. QED
          BY <3>2, <5>2, WantedFields, BugsWanted, BugId
      <4>2. PICK i \in DOMAIN Wanting :
              /\ Entries(Wanting, Candidates)[f] = Wanting[i].id /\ f \in Wanting[i].artifacts
              /\ Wanting[i].id \in DOMAIN jobs'
        <5>1. \E i \in DOMAIN Wanting : f \in Wanting[i].artifacts
          BY <4>1
        <5>2. QED
          BY <3>1, <5>1, EntriesOwn
      <4>3. PICK g \in Candidates : i = <<"bug", 0, 0, g>>
        BY <3>2, BugsWanted
      <4>4. g = f
        BY <4>1, <4>2, <4>3
      <4>5. QED
        BY <4>1, <4>2, <4>3, <4>4
    <3>4. DOMAIN plan'["bug_validation"] = Candidates
      BY <3>1 DEF Entries
    <3>5. QED
      BY <3>1, <3>3, <3>4
  <2>3. QED
    BY <2>1, <2>2
<1>4. ASSUME NEW j \in DOMAIN jobs', jobs'[j].kind = "bug_validate" PROVE jobs'[j].artifacts \subseteq Candidates'
  <2>1. CASE j \in DOMAIN jobs
    BY <1>1, <1>2, <1>4, <2>1 DEF Kept, BugsPlanned
  <2>2. CASE j \notin DOMAIN jobs
    <3>1. Plan \/ PlanKilled
      BY <1>4, <2>2, NewByPlanner
    <3>2. /\ j \in DOMAIN Wanting /\ jobs'[j].kind = Wanting[j].kind /\ jobs'[j].artifacts = Wanting[j].artifacts
      BY <1>4, <2>2, <3>1, NewJobs
    <3>3. Wanting = WantedBugs
      <4>1. PlannedPhase \notin {"specification", "verification"}
        BY <1>4, <3>2, WantingKinds DEF Shaped
      <4>2. QED
        BY <4>1 DEF Wanting
    <3>4. PICK f \in Candidates : j = <<"bug", 0, 0, f>>
      BY <3>2, <3>3, BugsWanted
    <3>5. Wanting[j] = Wanted(j, "bug_validate", {f}, {})
      BY <3>3, <3>4, BugsWanted
    <3>6. jobs'[j].artifacts = {f}
      BY <3>2, <3>5, WantedFields
    <3>7. QED
      BY <1>2, <3>6
  <2>3. QED
    BY <2>1, <2>2
<1>5. reports' \subseteq Candidates'
  <2>1. reports \subseteq Candidates'
    BY <1>2 DEF BugsPlanned
  <2>2. ASSUME NEW j \in DOMAIN jobs, Steps(j) PROVE reports' \subseteq Candidates'
    <3>1. reports' \subseteq reports \cup (IF jobs[j].kind = "bug_validate" THEN jobs[j].artifacts ELSE {})
      BY <2>2, ReportsOnly
    <3>2. jobs[j].kind = "bug_validate" => jobs[j].artifacts \subseteq Candidates
      BY DEF BugsPlanned
    <3>3. QED
      BY <1>2, <2>1, <3>1, <3>2
  <2>3. CASE Plan \/ PlanKilled \/ PlanAgain \/ SpecificationPasses \/ VerificationPasses \/ BugValidationPasses \/ UNCHANGED vars
    <3>1. reports' = reports
      BY <2>3 DEF Plan, PlanKilled, PlanAgain, SpecificationPasses, VerificationPasses, BugValidationPasses, Pass, vars, Data
    <3>2. QED
      BY <2>1, <3>1
  <2>4. QED
    BY <2>2, <2>3, NextCases
<1>6. QED
  BY <1>3, <1>4, <1>5 DEF BugsPlanned
\* What the gates saw stays: artifacts are only added, and plans stay ready.
LEMMA PassedStays ==
  ASSUME Shaped, Shaped', [Next]_vars, PhasesPassed
  PROVE  PhasesPassed'
<1>1. /\ specs \subseteq specs' /\ results \subseteq results' /\ specs' \subseteq Functions /\ results' \subseteq Functions
      /\ context => context'
  BY StepEffects DEF Effects, Shaped, Typed, TypeOK
<1>2. PlanReady("verification", Functions) => PlanReady("verification", Functions)'
  BY ReadyStays
<1>3. CASE phase' = phase
  BY <1>1, <1>2, <1>3 DEF PhasesPassed
<1>4. CASE phase' # phase
  <2>1. SpecificationPasses \/ VerificationPasses \/ BugValidationPasses
    <3>1. ASSUME NEW j \in DOMAIN jobs, Steps(j) PROVE FALSE
      BY <1>4, <3>1, StepMoves DEF Shaped
    <3>2. CASE Plan \/ PlanKilled \/ PlanAgain \/ UNCHANGED vars
      BY <1>4, <3>2 DEF Plan, PlanKilled, PlanAgain, vars
    <3>3. QED
      BY <3>1, <3>2, NextCases
  <2>2. CASE SpecificationPasses
    <3>1. phase' = "verification" /\ context /\ specs = Functions
      BY <2>2 DEF SpecificationPasses, Pass, Gate
    <3>2. QED
      BY <1>1, <3>1 DEF PhasesPassed
  <2>3. CASE VerificationPasses
    <3>1. /\ phase = "verification" /\ Gate("verification")
      BY <2>3 DEF VerificationPasses, Pass
    <3>2. PlanReady("verification", Functions) /\ results = Functions
      BY <3>1 DEF Gate
    <3>3. QED
      BY <1>1, <1>2, <3>1, <3>2 DEF PhasesPassed
  <2>4. CASE BugValidationPasses
    <3>1. phase = "bug_validation"
      BY <2>4 DEF BugValidationPasses, Pass
    <3>2. QED
      BY <1>1, <1>2, <3>1 DEF PhasesPassed
  <2>5. QED
    BY <2>1, <2>2, <2>3, <2>4
<1>5. QED
  BY <1>3, <1>4

\* A Coordinator that does not plan has the plans.
LEMMA PlansStayReady ==
  ASSUME Shaped, Shaped', [Next]_vars, PhasesPassed, SpecsReady, PlansReady
  PROVE  PlansReady'
<1>1. /\ PlanReady("specification", Functions) => PlanReady("specification", Functions)'
      /\ PlanReady("verification", Functions) => PlanReady("verification", Functions)'
  BY ReadyStays
<1>2. SUFFICES ASSUME planner' = "idle", ~refused', phase' \in Planned
               PROVE  /\ PlanReady("specification", Functions)' /\ PlanReady("verification", Functions)'
                      /\ phase' = "bug_validation" => DOMAIN plan'["bug_validation"] = Candidates'
  BY DEF PlansReady
<1>3. ASSUME phase = "bug_validation" PROVE Candidates' = Candidates
  <2>1. results = Functions
    BY <1>3 DEF PhasesPassed
  <2>2. results' = results /\ outcome' = outcome
    BY <2>1, StepEffects DEF Effects, Shaped, Typed, TypeOK
  <2>3. QED
    BY <2>2 DEF Candidates
<1>4. CASE Plan \/ PlanKilled
  <2>1. Plan
    BY <1>2, <1>4 DEF PlanKilled
  <2>2. /\ Conflicts(Wanting) = {} /\ PlannedPhase # "specification" /\ phase' = phase
        /\ plan' = [plan EXCEPT ![PlannedPhase] = Entries(Wanting, IF phase = "bug_validation" THEN Candidates ELSE Functions)]
    BY <1>2, <2>1 DEF Plan, PlanWith
  <2>3. DOMAIN plan = Planned
    BY DEF Shaped, Typed
  <2>4. planner = "streaming" \/ phase # "specification"
    BY <2>2 DEF PlannedPhase
  <2>5. PlanReady("specification", Functions)'
    BY <1>1, <2>4 DEF SpecsReady
  <2>6. CASE PlannedPhase = "verification"
    <3>1. phase # "bug_validation"
      BY <2>6 DEF PlannedPhase
    <3>2. plan'["verification"] = Entries(Wanting, Functions)
      BY <2>2, <2>3, <2>6, <3>1 DEF Planned
    <3>3. PlanReady("verification", Functions)'
      BY <2>1, <2>2, <2>6, <3>2, WrittenReady
    <3>4. QED
      BY <2>2, <2>5, <3>1, <3>3
  <2>7. CASE PlannedPhase = "bug_validation"
    <3>1. phase = "bug_validation"
      BY <2>7 DEF PlannedPhase
    <3>2. PlanReady("verification", Functions)'
      BY <1>1, <3>1 DEF PhasesPassed
    <3>3. plan'["bug_validation"] = Entries(Wanting, Candidates)
      BY <2>2, <2>3, <2>7, <3>1 DEF Planned
    <3>4. DOMAIN plan'["bug_validation"] = Candidates
      BY <3>3 DEF Entries
    <3>5. QED
      BY <1>3, <2>5, <3>1, <3>2, <3>4
  <2>8. PlannedPhase \in Planned
    BY <1>2, <2>2 DEF PlannedPhase, Planned
  <2>9. QED
    BY <2>2, <2>6, <2>7, <2>8 DEF Planned
<1>5. CASE ~(Plan \/ PlanKilled)
  <2>1. planner = "idle" /\ ~refused /\ phase' = phase /\ plan' = plan
    <3>1. ASSUME NEW j \in DOMAIN jobs, Steps(j) PROVE planner = "idle" /\ ~refused /\ phase' = phase /\ plan' = plan
      BY <1>2, <3>1, StepMoves DEF Shaped
    <3>2. CASE PlanAgain \/ SpecificationPasses \/ VerificationPasses \/ BugValidationPasses
      <4>1. planner' # "idle" \/ phase' \notin Planned
        BY <3>2 DEF PlanAgain, SpecificationPasses, VerificationPasses, BugValidationPasses, Pass
      <4>2. QED
        BY <1>2, <4>1
    <3>3. CASE UNCHANGED vars
      BY <1>2, <3>3 DEF vars
    <3>4. QED
      BY <1>5, <3>1, <3>2, <3>3, NextCases
  <2>2. /\ PlanReady("specification", Functions) /\ PlanReady("verification", Functions)
        /\ phase = "bug_validation" => DOMAIN plan["bug_validation"] = Candidates
    BY <1>2, <2>1 DEF PlansReady
  <2>3. QED
    BY <1>1, <1>3, <2>1, <2>2
<1>6. QED
  BY <1>4, <1>5

\* All that keeps the phases from being stuck
Flowing ==
  /\ Specifying /\ ResultsWritten /\ DepsOrdered /\ ContextPlanned /\ ResultsPlanned /\ BugsPlanned
  /\ PhasesPassed /\ SpecsReady /\ PlansReady

\* It holds at first.
LEMMA InitFlowing ==
  ASSUME Init
  PROVE  Flowing
<1>1. Specifying
  BY InitSpecifying
<1>2. /\ DOMAIN jobs = {} /\ \A ph \in Planned : plan[ph] = NoPlan /\ DOMAIN plan[ph] = {}
      /\ planner = "due" /\ phase = "specification" /\ reports = {}
  BY DEF Init, NoPlan
<1>3. ResultsWritten /\ DepsOrdered
  BY <1>2 DEF ResultsWritten, DepsOrdered
<1>4. ContextPlanned /\ ResultsPlanned /\ BugsPlanned
  BY <1>2 DEF ContextPlanned, ResultsPlanned, BugsPlanned, Planned
<1>5. PhasesPassed /\ SpecsReady /\ PlansReady
  BY <1>2 DEF PhasesPassed, SpecsReady, PlansReady
<1>6. QED
  BY <1>1, <1>3, <1>4, <1>5 DEF Flowing

\* The steps keep it.
LEMMA FlowingStays ==
  ASSUME Flowing, [Next]_vars
  PROVE  Flowing'
<1>1. Shaped /\ Shaped'
  BY NextCases, PlanShaped, StepShaped, RestShaped DEF Flowing, Specifying
<1>2. Specifying'
  BY SpecifyingStays DEF Flowing
<1>3. ResultsWritten' /\ DepsOrdered' /\ ContextPlanned'
  BY <1>1, ResultsStayWritten, DepsStayOrdered, ContextStaysPlanned DEF Flowing
<1>4. ResultsPlanned' /\ BugsPlanned'
  BY <1>1, ResultsStayPlanned, BugsStayPlanned DEF Flowing
<1>5. PhasesPassed' /\ SpecsReady' /\ PlansReady'
  BY <1>1, PassedStays, SpecsStayReady, PlansStayReady DEF Flowing
<1>6. QED
  BY <1>2, <1>3, <1>4, <1>5 DEF Flowing
\* Nothing runs, is to be tried again or can be dispatched, and no plan was refused.
Still ==
  /\ Working /\ ~refused
  /\ \A j \in DOMAIN jobs : jobs[j].status \notin {"running", "retryable"} /\ ~Dispatchable(j)

\* The plans are there then.
LEMMA StillPlanned ==
  ASSUME Flowing, Still
  PROVE  /\ PlanReady("specification", Functions) /\ PlanReady("verification", Functions)
         /\ plan["specification"] # NoPlan /\ plan["verification"] # NoPlan
         /\ phase = "bug_validation" => DOMAIN plan["bug_validation"] = Candidates
<1>1. /\ PlanReady("specification", Functions) /\ PlanReady("verification", Functions)
      /\ phase = "bug_validation" => DOMAIN plan["bug_validation"] = Candidates
  BY DEF Flowing, PlansReady, Still, Working
<1>2. DOMAIN plan["specification"] = Functions /\ DOMAIN plan["verification"] = Functions
  BY <1>1 DEF PlanReady
<1>3. DOMAIN NoPlan = {} /\ Functions # {}
  BY PlannerAssumption DEF NoPlan
<1>4. QED
  BY <1>1, <1>2, <1>3

\* A job that waits for nothing but jobs that succeeded, of a phase with a plan, succeeded.
LEMMA StillSucceeded ==
  ASSUME Flowing, Still, NEW j \in DOMAIN jobs, DepsMet(j), plan[PhaseOfJob(j)] # NoPlan
  PROVE  jobs[j].status = "succeeded"
<1>1. jobs[j].status \in {"queued", "running", "retryable", "succeeded"}
  BY DEF Flowing, Specifying, Shaped, Typed, TypeOK
<1>2. jobs[j].status # "queued"
  BY DEF Still, Dispatchable
<1>3. QED
  BY <1>1, <1>2 DEF Still

\* The domain context succeeded.
LEMMA StillContext ==
  ASSUME Flowing, Still, Context \in DOMAIN jobs
  PROVE  jobs[Context].status = "succeeded" /\ jobs[Context].kind = "domain_context"
<1>1. jobs[Context].kind = "domain_context"
  <2>1. Fits(Context, jobs[Context].kind, jobs[Context].artifacts)
    BY DEF Flowing, Specifying, Shaped, JobsFit
  <2>2. QED
    BY <2>1 DEF Fits, Context
<1>2. jobs[Context].deps = {}
  BY <1>1 DEF Flowing, DepsOrdered
<1>3. PhaseOfJob(Context) = "specification"
  BY DEF PhaseOfJob, Context
<1>4. QED
  BY <1>1, <1>2, <1>3, StillPlanned, StillSucceeded DEF DepsMet

\* The jobs of specification succeeded: of those that did not, one of the first layer of the
\* first project phase that has some would wait for nothing.
LEMMA StillSpecified ==
  ASSUME Flowing, Still, NEW j \in DOMAIN jobs, PhaseOfJob(j) = "specification"
  PROVE  jobs[j].status = "succeeded"
<1> DEFINE Bad == {k \in DOMAIN jobs : jobs[k].kind = "spec_batch" /\ jobs[k].status # "succeeded"}
<1>1. ASSUME NEW k \in DOMAIN jobs, jobs[k].kind = "spec_batch"
      PROVE  k[1] = "spec" /\ k[2] \in Nat /\ k[3] \in Nat /\ PhaseOfJob(k) = "specification"
  <2>1. Fits(k, "spec_batch", jobs[k].artifacts) /\ k \in JobIds
    BY <1>1 DEF Flowing, Specifying, Shaped, JobsFit, Typed
  <2>2. k[1] = "spec" /\ k = <<"spec", k[2], k[3], k[4]>>
    BY <2>1 DEF Fits
  <2>3. QED
    BY <2>1, <2>2 DEF JobIds, PhaseOfJob
<1>2. ASSUME NEW d \in DOMAIN jobs, d[1] = "spec" PROVE jobs[d].kind = "spec_batch"
  <2>1. Fits(d, jobs[d].kind, jobs[d].artifacts)
    BY DEF Flowing, Specifying, Shaped, JobsFit
  <2>2. QED
    BY <1>2, <2>1 DEF Fits, Context
<1>3. Bad = {}
  <2>1. SUFFICES ASSUME Bad # {} PROVE FALSE
    OBVIOUS
  <2> DEFINE Ps == {k[2] : k \in Bad}
  <2>2. Ps \in SUBSET Nat /\ Ps # {}
    BY <1>1, <2>1
  <2>3. PICK p \in Ps : \A q \in Ps : p <= q
    <3> HIDE DEF Ps
    <3>1. QED
      BY <2>2, Least
  <2> DEFINE Ns == {k[3] : k \in {b \in Bad : b[2] = p}}
  <2>4. Ns \in SUBSET Nat /\ Ns # {}
    BY <1>1, <2>3
  <2>5. PICK n \in Ns : \A m \in Ns : n <= m
    <3> HIDE DEF Ns
    <3>1. QED
      BY <2>4, Least
  <2>6. PICK k \in Bad : k[2] = p /\ k[3] = n
    BY <2>5
  <2>7. ASSUME NEW d \in jobs[k].deps PROVE jobs[d].status = "succeeded"
    <3>1. d \in DOMAIN jobs
      BY <2>7 DEF Flowing, Specifying, Shaped, Typed, TypeOK
    <3>2. CASE d = Context
      BY <3>1, <3>2, StillContext
    <3>3. CASE d[1] = "spec" /\ (d[2] < k[2] \/ (d[2] = k[2] /\ d[3] < k[3]))
      <4>1. jobs[d].kind = "spec_batch" /\ d[2] \in Nat /\ d[3] \in Nat
        BY <1>1, <1>2, <3>1, <3>3
      <4>2. d \notin Bad
        <5>1. SUFFICES ASSUME d \in Bad PROVE FALSE
          OBVIOUS
        <5>2. d[2] \in Ps
          BY <5>1
        <5>3. p <= d[2] /\ p \in Nat /\ n \in Nat
          BY <2>2, <2>3, <2>4, <2>5, <5>2
        <5>4. d[2] = p /\ d[3] < n
          BY <2>6, <3>3, <4>1, <5>3
        <5>5. d[3] \in Ns
          BY <5>1, <5>4
        <5>6. n <= d[3]
          BY <2>5, <5>5
        <5>7. QED
          BY <4>1, <5>3, <5>4, <5>6
      <4>3. QED
        BY <3>1, <4>1, <4>2
    <3>4. QED
      BY <2>6, <2>7, <3>2, <3>3 DEF Flowing, DepsOrdered
  <2>8. jobs[k].status = "succeeded"
    BY <1>1, <2>6, <2>7, StillPlanned, StillSucceeded DEF DepsMet
  <2>9. QED
    BY <2>6, <2>8
<1>4. Fits(j, jobs[j].kind, jobs[j].artifacts)
  BY DEF Flowing, Specifying, Shaped, JobsFit
<1>5. CASE jobs[j].kind = "domain_context"
  <2>1. j = Context
    BY <1>4, <1>5 DEF Fits
  <2>2. QED
    BY <2>1, StillContext
<1>6. CASE jobs[j].kind = "spec_batch"
  BY <1>3, <1>6
<1>7. jobs[j].kind \in {"domain_context", "spec_batch"}
  BY <1>4, PhaseOfKind
<1>8. QED
  BY <1>5, <1>6, <1>7

\* So did the jobs of verification, which wait for those.
LEMMA StillVerified ==
  ASSUME Flowing, Still, NEW j \in DOMAIN jobs, PhaseOfJob(j) = "verification"
  PROVE  jobs[j].status = "succeeded"
<1>1. ASSUME NEW d \in jobs[j].deps PROVE jobs[d].status = "succeeded"
  <2>1. d \in DOMAIN jobs /\ PhaseOfJob(d) = "specification"
    BY <1>1 DEF Flowing, DepsOrdered, Specifying, Shaped, Typed, TypeOK
  <2>2. QED
    BY <2>1, StillSpecified
<1>2. QED
  BY <1>1, StillPlanned, StillSucceeded DEF DepsMet

\* And so did the jobs of bug validation, once it is planned.
LEMMA StillValidated ==
  ASSUME Flowing, Still, phase = "bug_validation", NEW j \in DOMAIN jobs, PhaseOfJob(j) = "bug_validation"
  PROVE  jobs[j].status = "succeeded"
<1>1. Fits(j, jobs[j].kind, jobs[j].artifacts)
  BY DEF Flowing, Specifying, Shaped, JobsFit
<1>2. jobs[j].kind = "bug_validate"
  BY <1>1, PhaseOfKind
<1>3. jobs[j].artifacts = {j[4]}
  BY <1>1, <1>2 DEF Fits
<1>4. j[4] \in Candidates
  BY <1>2, <1>3 DEF Flowing, BugsPlanned
<1>5. plan["bug_validation"] # NoPlan
  <2>1. DOMAIN plan["bug_validation"] = Candidates
    BY StillPlanned
  <2>2. DOMAIN NoPlan = {}
    BY DEF NoPlan
  <2>3. QED
    BY <1>4, <2>1, <2>2
<1>6. jobs[j].deps = {}
  BY <1>2 DEF Flowing, DepsOrdered
<1>7. QED
  BY <1>5, <1>6, StillSucceeded DEF DepsMet

\* Everything is specified.
LEMMA StillComplete ==
  ASSUME Flowing, Still
  PROVE  /\ context /\ specs = Functions
         /\ phase \in {"specification", "verification"} => results = Functions
<1>1. DOMAIN plan["specification"] = Functions /\ DOMAIN plan["verification"] = Functions
  BY StillPlanned DEF PlanReady
<1>2. context
  <2>1. context \/ Context \in DOMAIN jobs
    BY StillPlanned DEF Flowing, ContextPlanned
  <2>2. QED
    BY <2>1, StillContext DEF Flowing, ResultsWritten
<1>3. ASSUME NEW f \in Functions PROVE f \in specs
  <2>1. f \in specs \/ SpecJob(plan["specification"][f], f)
    BY <1>1 DEF Flowing, Specifying, SpecsPlanned
  <2>2. ASSUME NEW j, SpecJob(j, f) PROVE f \in specs
    <3>1. j \in DOMAIN jobs /\ jobs[j].kind = "spec_batch" /\ f \in jobs[j].artifacts
      BY <2>2 DEF SpecJob
    <3>2. Fits(j, jobs[j].kind, jobs[j].artifacts)
      BY <3>1 DEF Flowing, Specifying, Shaped, JobsFit
    <3>3. PhaseOfJob(j) = "specification"
      BY <3>1, <3>2, PhaseOfKind
    <3>4. jobs[j].status = "succeeded"
      BY <3>1, <3>3, StillSpecified
    <3>5. QED
      BY <3>1, <3>4 DEF Flowing, Specifying, SpecsWritten
  <2>3. QED
    BY <2>1, <2>2
<1>4. ASSUME NEW f \in Functions PROVE f \in results
  <2>1. CASE f \notin results
    <3> DEFINE j == plan["verification"][f]
    <3>1. j \in DOMAIN jobs /\ PhaseOfJob(j) = "verification" /\ f \in jobs[j].artifacts
      BY <1>1, <2>1 DEF Flowing, ResultsPlanned
    <3> HIDE DEF j
    <3>2. jobs[j].status = "succeeded"
      BY <3>1, StillVerified
    <3>3. QED
      BY <3>1, <3>2 DEF Flowing, ResultsWritten
  <2>2. QED
    BY <2>1
<1>5. specs \subseteq Functions /\ results \subseteq Functions
  BY DEF Flowing, Specifying, Shaped, Typed, TypeOK
<1>6. QED
  BY <1>2, <1>3, <1>4, <1>5

\* The gate of bug validation is open, too.
LEMMA StillReported ==
  ASSUME Flowing, Still, phase = "bug_validation"
  PROVE  PlanReady("bug_validation", Candidates) /\ reports = Candidates
<1>1. DOMAIN plan["bug_validation"] = Candidates
  BY StillPlanned
<1>2. ASSUME NEW f \in Candidates
      PROVE  /\ plan["bug_validation"][f] \in DOMAIN jobs
             /\ PhaseOfJob(plan["bug_validation"][f]) = "bug_validation"
             /\ f \in Of(plan["bug_validation"][f])
             /\ f \in reports
  <2> DEFINE j == <<"bug", 0, 0, f>>
  <2>1. plan["bug_validation"][f] = j /\ j \in DOMAIN jobs
    BY <1>1 DEF Flowing, BugsPlanned
  <2>2. PhaseOfJob(j) = "bug_validation"
    BY DEF PhaseOfJob
  <2>3. j[4] = f
    OBVIOUS
  <2> HIDE DEF j
  <2>4. Fits(j, jobs[j].kind, jobs[j].artifacts)
    BY <2>1 DEF Flowing, Specifying, Shaped, JobsFit
  <2>5. jobs[j].kind = "bug_validate"
    BY <2>2, <2>4, PhaseOfKind
  <2>6. jobs[j].artifacts = {f}
    BY <2>3, <2>4, <2>5 DEF Fits
  <2>7. jobs[j].status = "succeeded"
    BY <2>1, <2>2, StillValidated
  <2>8. f \in reports
    BY <2>1, <2>5, <2>6, <2>7 DEF Flowing, ResultsWritten
  <2>9. QED
    BY <2>1, <2>2, <2>6, <2>8 DEF Of
<1>3. reports \subseteq Candidates
  BY DEF Flowing, BugsPlanned
<1>4. QED
  BY <1>1, <1>2, <1>3 DEF PlanReady

\* When nothing is left to do, the gate of the phase is open.
LEMMA StillPasses ==
  ASSUME Flowing, Still
  PROVE  Gate(phase)
<1>1. phase \in Planned
  BY DEF Still, Working
<1>2. CASE phase = "specification"
  <2>1. Joined(phase)
    BY <1>2, StillSpecified DEF Joined
  <2>2. QED
    BY <1>2, <2>1, StillPlanned, StillComplete DEF Gate
<1>3. CASE phase = "verification"
  <2>1. Joined(phase)
    BY <1>3, StillVerified DEF Joined
  <2>2. QED
    BY <1>3, <2>1, StillPlanned, StillComplete DEF Gate
<1>4. CASE phase = "bug_validation"
  <2>1. Joined(phase)
    BY <1>4, StillValidated DEF Joined
  <2>2. QED
    BY <1>4, <2>1, StillReported DEF Gate
<1>5. QED
  BY <1>1, <1>2, <1>3, <1>4 DEF Planned

\* Dependencies, batches and gates never wait for each other (job_planner.py, scheduler.py's
\* admission, stage_gate.py): a phase whose plans were all accepted, with nothing running, to
\* dispatch or to try again, passes its gate.
THEOREM NothingBlocks == Spec => []NeverBlocked
<1>1. Init => Flowing
  BY InitFlowing
<1>2. Flowing /\ [Next]_vars => Flowing'
  BY FlowingStays
<1>3. Flowing => NeverBlocked
  BY StillPasses DEF Still, NeverBlocked
<1>4. QED
  BY <1>1, <1>2, <1>3, PTL DEF Spec
-----------------------------------------------------------------------------
(* Callers and layers *)

\* X and the functions of the project phase of f that call one of X
Climb(f, X) ==
  X \cup {g \in Functions : PhaseOf[g] = PhaseOf[f] /\ \E h \in X : h # g /\ <<g, h>> \in calls}

\* What Above(f) recurses to, in at most n steps
Climbs(a, f, n) == a = [i \in 0 .. n |-> IF i = 0 THEN {f} ELSE Climb(f, a[i - 1])]

\* The recursion of Above defines something.
LEMMA ClimbsExist ==
  ASSUME NEW f, NEW n \in Nat
  PROVE  \E a : Climbs(a, f, n)
<1> DEFINE Never == {m \in Nat : ~\E a : Climbs(a, f, m)}
<1>1. ASSUME NEW m \in Nat, NEW a, Climbs(a, f, m) PROVE \E b : Climbs(b, f, m + 1)
  <2> DEFINE b == [i \in 0 .. m + 1 |-> IF i = 0 THEN {f} ELSE Climb(f, a[i - 1])]
  <2>1. \A i \in 0 .. m : b[i] = a[i]
    <3>1. SUFFICES ASSUME NEW i \in 0 .. m PROVE b[i] = a[i]
      OBVIOUS
    <3>2. i \in 0 .. m + 1
      OBVIOUS
    <3>3. a[i] = IF i = 0 THEN {f} ELSE Climb(f, a[i - 1])
      BY <1>1 DEF Climbs
    <3>4. QED
      BY <3>2, <3>3
  <2>2. \A i \in 0 .. m + 1 : i # 0 => i - 1 \in 0 .. m
    OBVIOUS
  <2>3. \A i \in 0 .. m + 1 : i # 0 => b[i - 1] = a[i - 1]
    BY <2>1, <2>2
  <2>4. b = [i \in 0 .. m + 1 |-> IF i = 0 THEN {f} ELSE Climb(f, b[i - 1])]
    BY <2>3
  <2>5. Climbs(b, f, m + 1)
    BY <2>4 DEF Climbs
  <2>6. QED
    BY <2>5
<1>2. 0 \notin Never
  <2> DEFINE a == [i \in 0 .. 0 |-> {f}]
  <2>1. \A i \in 0 .. 0 : i = 0
    OBVIOUS
  <2>2. a = [i \in 0 .. 0 |-> IF i = 0 THEN {f} ELSE Climb(f, a[i - 1])]
    BY <2>1
  <2>3. Climbs(a, f, 0)
    BY <2>2 DEF Climbs
  <2>4. QED
    BY <2>3
<1>3. Never = {}
  <2>1. SUFFICES ASSUME Never # {} PROVE FALSE
    OBVIOUS
  <2>2. PICK m \in Never : \A k \in Never : m <= k
    BY <2>1, Least
  <2>3. m \in Nat \ {0}
    BY <1>2, <2>2
  <2>4. m - 1 \in Nat /\ ~(m <= m - 1) /\ (m - 1) + 1 = m
    BY <2>3
  <2>5. PICK a : Climbs(a, f, m - 1)
    BY <2>2, <2>4
  <2>6. \E b : Climbs(b, f, (m - 1) + 1)
    BY <1>1, <2>4, <2>5
  <2>7. QED
    BY <2>2, <2>4, <2>6
<1>4. QED
  BY <1>3

\* Above(f) is what its recursion says.
LEMMA AboveDefined ==
  ASSUME NEW f
  PROVE  \E a : Climbs(a, f, Cardinality(Functions)) /\ Above(f) = a[Cardinality(Functions)]
<1> DEFINE N == Cardinality(Functions)
           Rec(a) == [n \in 0 .. N |->
                        IF n = 0 THEN {f}
                        ELSE a[n - 1] \cup {g \in Functions : /\ PhaseOf[g] = PhaseOf[f]
                                                              /\ \E h \in a[n - 1] : h # g /\ <<g, h>> \in calls}]
           above == CHOOSE a : a = Rec(a)
<1>1. N \in Nat
  BY FunctionsType
<1>2. \A a : Climbs(a, f, N) <=> a = Rec(a)
  BY DEF Climbs, Climb
<1>3. \E a : a = Rec(a)
  <2> HIDE DEF Rec, N
  <2>1. QED
    BY <1>1, <1>2, ClimbsExist
<1>4. Above(f) = above[N]
  BY DEF Above
<1>5. above = Rec(above)
  <2> HIDE DEF Rec
  <2>1. QED
    BY <1>3
<1> HIDE DEF above, Rec, N
<1>6. Climbs(above, f, N)
  BY <1>2, <1>5
<1>7. QED
  BY <1>4, <1>6 DEF N

\* Climbing from a set takes the set along, and stays in the functions.
LEMMA ClimbGrows ==
  ASSUME NEW f, NEW X \in SUBSET Functions
  PROVE  X \subseteq Climb(f, X) /\ Climb(f, X) \in SUBSET Functions
BY DEF Climb

\* In as many steps as there are functions nothing is left to climb to.
LEMMA AboveEnds ==
  ASSUME NEW f \in Functions
  PROVE  /\ Above(f) \in SUBSET Functions /\ f \in Above(f)
         /\ Climb(f, Above(f)) = Above(f)
         /\ \A T \in SUBSET Functions : (f \in T /\ Climb(f, T) \subseteq T) => Above(f) \subseteq T
<1> DEFINE N == Cardinality(Functions)
<1>1. PICK a : Climbs(a, f, N) /\ Above(f) = a[N]
  BY AboveDefined
<1>2. N \in Nat /\ IsFiniteSet(Functions)
  BY FunctionsType
<1> HIDE DEF N
<1>3. a[0] = {f} /\ \A n \in 1 .. N : a[n] = Climb(f, a[n - 1])
  <2>1. a = [i \in 0 .. N |-> IF i = 0 THEN {f} ELSE Climb(f, a[i - 1])]
    BY <1>1 DEF Climbs
  <2>2. 0 \in 0 .. N /\ \A n \in 1 .. N : n \in 0 .. N /\ n # 0
    BY <1>2
  <2>3. \A n \in 0 .. N : a[n] = IF n = 0 THEN {f} ELSE Climb(f, a[n - 1])
    BY <2>1
  <2>4. QED
    BY <2>2, <2>3
<1> DEFINE Good(n) == /\ a[n] \in SUBSET Functions /\ f \in a[n]
                      /\ Climb(f, a[n]) = a[n] \/ Cardinality(a[n]) >= n + 1
                      /\ \A T \in SUBSET Functions : (f \in T /\ Climb(f, T) \subseteq T) => a[n] \subseteq T
           Bad == {n \in 0 .. N : ~Good(n)}
<1>4. Good(0)
  <2>1. a[0] \in SUBSET Functions /\ f \in a[0]
    BY <1>3
  <2>2. Cardinality(a[0]) = 1
    BY <1>3, FS_Singleton
  <2>3. Cardinality(a[0]) >= 0 + 1
    BY <2>2
  <2>4. QED
    BY <1>3, <2>1, <2>3
<1>5. ASSUME NEW n \in 1 .. N, Good(n - 1) PROVE Good(n)
  <2> DEFINE X == a[n - 1]
             Y == a[n]
  <2>1. Y = Climb(f, X) /\ X \in SUBSET Functions /\ f \in X
    BY <1>3, <1>5
  <2>2. X \subseteq Y /\ Y \in SUBSET Functions
    BY <2>1, ClimbGrows
  <2>3. Climb(f, Y) = Y \/ Cardinality(Y) >= n + 1
    <3>1. CASE Y = X
      BY <2>1, <3>1
    <3>2. CASE Y # X
      <4>1. Cardinality(X) >= (n - 1) + 1
        BY <1>5, <2>1, <3>2
      <4>2. IsFiniteSet(Y)
        BY <1>2, <2>2, FS_Subset
      <4>3. Cardinality(Y) \in Nat /\ Cardinality(X) \in Nat /\ Cardinality(X) < Cardinality(Y)
        BY <2>2, <3>2, <4>2, Smaller
      <4> HIDE DEF X, Y
      <4>4. QED
        BY <4>1, <4>3
    <3>3. QED
      BY <3>1, <3>2
  <2>4. ASSUME NEW T \in SUBSET Functions, f \in T, Climb(f, T) \subseteq T PROVE Y \subseteq T
    <3>1. X \subseteq T
      BY <1>5, <2>4
    <3>2. Climb(f, X) \subseteq Climb(f, T)
      BY <3>1 DEF Climb
    <3>3. QED
      BY <2>1, <2>4, <3>2
  <2>5. QED
    BY <2>1, <2>2, <2>3, <2>4
<1>6. Good(N)
  <2> HIDE DEF Good
  <2>1. SUFFICES ASSUME Bad # {} PROVE FALSE
    BY <1>2
  <2>2. Bad \in SUBSET Nat
    OBVIOUS
  <2>3. PICK n \in Bad : \A k \in Bad : n <= k
    <3> HIDE DEF Bad
    <3>1. QED
      BY <2>1, <2>2, Least
  <2>4. n \in 1 .. N /\ n - 1 \in 0 .. N /\ ~(n <= n - 1)
    <3>1. n \in 0 .. N /\ n # 0
      BY <1>4, <2>3
    <3>2. QED
      BY <1>2, <3>1
  <2>5. Good(n - 1)
    BY <2>3, <2>4
  <2>6. QED
    BY <1>5, <2>3, <2>4, <2>5
<1>7. Climb(f, a[N]) = a[N]
  <2>1. Cardinality(a[N]) <= N /\ Cardinality(a[N]) \in Nat
    <3>1. IsFiniteSet(a[N]) /\ Cardinality(a[N]) <= Cardinality(Functions)
      BY <1>2, <1>6, FS_Subset
    <3>2. QED
      BY <3>1, FS_CardinalityType DEF N
  <2>2. ~(Cardinality(a[N]) >= N + 1)
    BY <1>2, <2>1
  <2>3. QED
    BY <1>6, <2>2
<1>8. QED
  BY <1>1, <1>6, <1>7

\* A function, and those it is called by
LEMMA AboveCallers ==
  ASSUME NEW f \in Functions
  PROVE  /\ \A h \in Above(f) : PhaseOf[h] = PhaseOf[f]
         /\ \A h \in Above(f) : \A g \in Functions :
              (PhaseOf[g] = PhaseOf[f] /\ h # g /\ <<g, h>> \in calls) => g \in Above(f)
<1>1. Above(f) \in SUBSET Functions /\ f \in Above(f) /\ Climb(f, Above(f)) = Above(f)
  BY AboveEnds
<1> DEFINE T == {h \in Functions : PhaseOf[h] = PhaseOf[f]}
<1>2. f \in T /\ T \in SUBSET Functions /\ Climb(f, T) \subseteq T
  BY DEF Climb
<1>3. Above(f) \subseteq T
  BY <1>2, AboveEnds
<1>4. QED
  BY <1>1, <1>3 DEF Climb

\* What is above something above is above.
LEMMA AboveAbove ==
  ASSUME NEW f \in Functions, NEW h \in Above(f)
  PROVE  h \in Functions /\ Above(h) \subseteq Above(f)
<1>1. /\ Above(f) \in SUBSET Functions /\ Climb(f, Above(f)) = Above(f) /\ PhaseOf[h] = PhaseOf[f]
  BY AboveEnds, AboveCallers
<1>2. h \in Functions /\ Climb(h, Above(f)) \subseteq Above(f)
  BY <1>1 DEF Climb
<1>3. QED
  BY <1>1, <1>2, AboveEnds

\* What is above a function is above one that calls it.
LEMMA AboveThroughCaller ==
  ASSUME NEW f \in Functions, NEW g \in Above(f), g # f
  PROVE  \E h \in Functions : /\ PhaseOf[h] = PhaseOf[f] /\ h # f /\ <<h, f>> \in calls
                              /\ g \in Above(h)
<1> DEFINE C == {h \in Functions : PhaseOf[h] = PhaseOf[f] /\ h # f /\ <<h, f>> \in calls}
           T == {f} \cup UNION {Above(h) : h \in C}
<1>1. T \in SUBSET Functions
  <2>1. \A h \in C : Above(h) \in SUBSET Functions
    BY AboveEnds
  <2>2. QED
    BY <2>1
<1>2. ASSUME NEW x \in T, NEW y \in Functions, PhaseOf[y] = PhaseOf[f], x # y, <<y, x>> \in calls
      PROVE  y \in T
  <2>1. CASE x = f
    <3>1. y \in C
      BY <1>2, <2>1
    <3>2. y \in Above(y)
      BY AboveEnds
    <3>3. QED
      BY <3>1, <3>2
  <2>2. CASE x # f
    <3>1. PICK h \in C : x \in Above(h)
      BY <2>2
    <3>2. y \in Above(h)
      BY <1>2, <3>1, AboveCallers
    <3>3. QED
      BY <3>1, <3>2
  <2>3. QED
    BY <2>1, <2>2
<1>3. Climb(f, T) \subseteq T
  <2> HIDE DEF T
  <2>1. QED
    BY <1>2 DEF Climb
<1>4. Above(f) \subseteq T
  <2>1. f \in T
    OBVIOUS
  <2> HIDE DEF T
  <2>2. QED
    BY <1>1, <1>3, <2>1, AboveEnds
<1>5. g \in T /\ g # f
  BY <1>4
<1>6. QED
  BY <1>5

\* Every set of s is what first takes of what is left of S.
Rests(s, first, S) ==
  \A i \in DOMAIN s : s[i] = first[S \ UNION {s[k] : k \in 1 .. i - 1}]

\* What is taken first and then of the rest is taken of what is left.
LEMMA RestsPrepended ==
  ASSUME NEW first, NEW S \in SUBSET Functions, NEW s \in Seq(SUBSET Functions),
         NEW x \in SUBSET Functions, x = first[S], Rests(s, first, S \ x)
  PROVE  Rests(<<x>> \o s, first, S)
<1> DEFINE t == <<x>> \o s
           n == Len(s)
<1>1. /\ n \in Nat /\ DOMAIN s = 1 .. n /\ DOMAIN t = 1 .. n + 1 /\ t[1] = x
      /\ \A i \in 1 .. n : t[i + 1] = s[i]
  BY Prepended
<1> HIDE DEF t, n
<1>2. t[1] = first[S \ UNION {t[k] : k \in 1 .. 1 - 1}]
  <2>1. 1 .. 1 - 1 = {}
    OBVIOUS
  <2>2. UNION {t[k] : k \in 1 .. 1 - 1} = {}
    BY <2>1
  <2>3. QED
    BY <1>1, <2>2
<1>3. ASSUME NEW i \in DOMAIN t, i # 1 PROVE t[i] = first[S \ UNION {t[k] : k \in 1 .. i - 1}]
  <2> DEFINE m == i - 1
  <2>1. m \in 1 .. n /\ m + 1 = i
    BY <1>1, <1>3
  <2>2. t[i] = s[m]
    BY <1>1, <2>1
  <2>3. s[m] = first[(S \ x) \ UNION {s[k] : k \in 1 .. m - 1}]
    BY <1>1, <2>1 DEF Rests
  <2>4. \A k \in 1 .. i - 1 : k = 1 \/ (k - 1 \in 1 .. m - 1 /\ t[k] = s[k - 1])
    <3>1. SUFFICES ASSUME NEW k \in 1 .. i - 1, k # 1 PROVE k - 1 \in 1 .. m - 1 /\ t[k] = s[k - 1]
      OBVIOUS
    <3>2. k - 1 \in 1 .. m - 1 /\ k - 1 \in 1 .. n /\ (k - 1) + 1 = k
      BY <1>1, <2>1, <3>1
    <3>3. QED
      BY <1>1, <3>2
  <2>5. \A k \in 1 .. m - 1 : k + 1 \in 1 .. i - 1 /\ t[k + 1] = s[k]
    <3>1. SUFFICES ASSUME NEW k \in 1 .. m - 1 PROVE k + 1 \in 1 .. i - 1 /\ t[k + 1] = s[k]
      OBVIOUS
    <3>2. k + 1 \in 1 .. i - 1 /\ k \in 1 .. n
      BY <1>1, <2>1
    <3>3. QED
      BY <1>1, <3>2
  <2>6. 1 \in 1 .. i - 1
    BY <1>1, <2>1
  <2> HIDE DEF m
  <2>7. UNION {t[k] : k \in 1 .. i - 1} = x \cup UNION {s[k] : k \in 1 .. m - 1}
    <3>1. \A f \in UNION {t[k] : k \in 1 .. i - 1} : f \in x \cup UNION {s[k] : k \in 1 .. m - 1}
      BY <1>1, <2>4
    <3>2. \A f \in UNION {s[k] : k \in 1 .. m - 1} : f \in UNION {t[k] : k \in 1 .. i - 1}
      BY <2>5
    <3>3. x \subseteq UNION {t[k] : k \in 1 .. i - 1}
      BY <1>1, <2>6
    <3>4. QED
      BY <3>1, <3>2, <3>3
  <2>8. (S \ x) \ UNION {s[k] : k \in 1 .. m - 1} = S \ UNION {t[k] : k \in 1 .. i - 1}
    BY <2>7
  <2>9. QED
    BY <2>2, <2>3, <2>8
<1>4. Rests(t, first, S)
  BY <1>2, <1>3 DEF Rests
<1>5. QED
  BY <1>4 DEF t

\* Every part of a cut is what is taken first of what is left.
LEMMA CutRests ==
  ASSUME NEW first, Takes(first), NEW S \in SUBSET Functions
  PROVE  Rests(Cut(first)[S], first, S)
<1> DEFINE cut == Cut(first)
           Good == {R \in SUBSET Functions : Rests(cut[R], first, R)}
<1>1. CutOn(cut, first, SUBSET Functions)
  BY CutDefined
<1> HIDE DEF cut
<1>2. ASSUME NEW R \in SUBSET Functions, \A T \in SUBSET R : T # R => T \in Good
      PROVE  R \in Good
  <2>1. CASE R = {}
    <3>1. cut[R] = <<>>
      BY <1>1, <2>1 DEF CutOn
    <3>2. QED
      BY <2>1, <3>1 DEF Rests
  <2>2. CASE R # {}
    <3>1. first[R] \in SUBSET R /\ first[R] # {}
      BY <2>2 DEF Takes
    <3>2. cut[R] = <<first[R]>> \o cut[R \ first[R]]
      BY <1>1, <2>2 DEF CutOn
    <3>3. R \ first[R] \in Good
      BY <1>2, <3>1
    <3>4. cut[R \ first[R]] \in Seq(SUBSET Functions) /\ first[R] \in SUBSET Functions
      BY <1>1, <3>1 DEF CutOn
    <3>5. Rests(cut[R], first, R)
      BY <3>2, <3>3, <3>4, RestsPrepended
    <3>6. QED
      BY <3>5
  <2>3. QED
    BY <2>1, <2>2
<1>3. SUBSET Functions \subseteq Good
  <2> HIDE DEF Good
  <2>1. QED
    BY <1>2, FunctionsType, FromParts
<1>4. QED
  BY <1>3 DEF cut

\* The functions of a project phase
InPhase(p) == {f \in Functions : PhaseOf[f] = p}

\* The layers of the project phases are those of the call graph.
LayersKept == \A p \in ProjectPhases : layers[p] = Layered[InPhase(p)]

\* What the layers before n leave of project phase p
Left(p, n) == InPhase(p) \ UNION {layers[p][k] : k \in 1 .. n - 1}

\* Every layer is the next one of what the layers before it leave.
LEMMA LayerLeft ==
  ASSUME LayersKept, NEW p \in ProjectPhases, NEW n \in DOMAIN layers[p]
  PROVE  layers[p][n] = NextLayer(Left(p, n)) /\ Left(p, n) \in SUBSET Functions
<1> DEFINE first == [R \in SUBSET Functions |-> NextLayer(R)]
<1>1. Takes(first)
  <2>1. ASSUME NEW R \in SUBSET Functions, R # {} PROVE first[R] \subseteq R /\ first[R] # {}
    <3>1. Min(R) \in R
      BY <2>1, Extremes
    <3>2. QED
      BY <3>1 DEF NextLayer
  <2>2. QED
    BY <2>1 DEF Takes
<1>2. layers[p] = Cut(first)[InPhase(p)]
  BY DEF LayersKept, Layered
<1>3. InPhase(p) \in SUBSET Functions /\ Left(p, n) \in SUBSET Functions
  BY DEF InPhase, Left
<1>4. \A R \in SUBSET Functions : first[R] = NextLayer(R)
  OBVIOUS
<1> HIDE DEF first
<1>5. Rests(layers[p], first, InPhase(p))
  BY <1>1, <1>2, <1>3, CutRests
<1>6. layers[p][n] = first[Left(p, n)]
  BY <1>5 DEF Rests, Left
<1>7. QED
  BY <1>3, <1>4, <1>6

\* No recursion is above f.
Acyclic(f) == \A g \in Above(f) : ~Recursive(g)

\* Of functions that all have a caller among them, every one has a recursion above it.
LEMMA NoneFree ==
  ASSUME NEW p, NEW R \in SUBSET InPhase(p), \A k \in R : Callers(k, R) # {}, NEW f \in R
  PROVE  ~Acyclic(f)
<1>1. InPhase(p) \in SUBSET Functions /\ \A k \in InPhase(p) : PhaseOf[k] = p
  BY DEF InPhase
<1> DEFINE A == Above(f) \cap R
           Height(k) == Cardinality(Above(k) \cap R)
           Sizes == {Height(k) : k \in A}
<1>2. f \in A /\ A \in SUBSET Functions
  BY <1>1, AboveEnds
<1>3. \A k \in A : IsFiniteSet(Above(k) \cap R) /\ Height(k) \in Nat
  <2>1. \A k \in A : Above(k) \cap R \in SUBSET Functions
    BY <1>1
  <2>2. \A k \in A : IsFiniteSet(Above(k) \cap R)
    BY <2>1, FunctionsType, FS_Subset
  <2>3. QED
    BY <2>2, FS_CardinalityType
<1> HIDE DEF A
<1>4. PICK k \in A : \A l \in A : Height(k) <= Height(l)
  <2>1. Sizes \in SUBSET Nat /\ Sizes # {}
    BY <1>2, <1>3
  <2>2. \E i \in Sizes : \A l \in Sizes : i <= l
    <3> HIDE DEF Sizes
    <3>1. QED
      BY <2>1, Least
  <2>3. QED
    BY <2>2
<1>5. k \in Above(f) /\ k \in R /\ k \in Functions /\ Above(k) \subseteq Above(f)
  <2>1. k \in Above(f) /\ k \in R /\ f \in Functions
    BY <1>2 DEF A
  <2>2. QED
    BY <2>1, AboveAbove
<1>6. PICK c \in R : <<c, k>> \in calls /\ c # k
  BY <1>5 DEF Callers
<1>7. c \in Above(k) /\ c \in Functions /\ Above(c) \subseteq Above(k)
  <2>1. c \in Functions /\ PhaseOf[c] = PhaseOf[k] /\ k \in Above(k)
    BY <1>1, <1>5, <1>6, AboveEnds
  <2>2. c \in Above(k)
    BY <1>5, <1>6, <2>1, AboveCallers
  <2>3. QED
    BY <1>5, <2>1, <2>2, AboveAbove
<1>8. c \in A
  BY <1>5, <1>6, <1>7 DEF A
<1>9. Above(c) \cap R = Above(k) \cap R
  <2>1. SUFFICES ASSUME Above(c) \cap R # Above(k) \cap R PROVE FALSE
    OBVIOUS
  <2> DEFINE C == Above(c) \cap R
             K == Above(k) \cap R
  <2>2. C \in SUBSET K /\ C # K /\ IsFiniteSet(K)
    BY <1>3, <1>7, <2>1
  <2> HIDE DEF C, K
  <2>3. Cardinality(K) \in Nat /\ Cardinality(C) \in Nat /\ Cardinality(C) < Cardinality(K)
    BY <2>2, Smaller
  <2>4. Cardinality(K) <= Cardinality(C)
    BY <1>4, <1>8 DEF C, K
  <2>5. QED
    BY <2>3, <2>4
<1>10. k \in Above(c)
  <2>1. k \in Above(k)
    BY <1>5, AboveEnds
  <2>2. QED
    BY <1>5, <1>9, <2>1
<1>11. Recursive(k)
  BY <1>6, <1>7, <1>10 DEF Recursive
<1>12. QED
  BY <1>5, <1>11 DEF Acyclic

\* Callers come first: with no recursion above a function, all that calls it, directly or
\* not, is in the layers before its own.
LEMMA CallersBefore ==
  ASSUME LayersKept, LayersGood, NEW p \in ProjectPhases, NEW n \in DOMAIN layers[p],
         NEW f \in layers[p][n], Acyclic(f)
  PROVE  Above(f) \ {f} \subseteq UNION {layers[p][m] : m \in 1 .. n - 1}
<1> DEFINE Bad == {m \in DOMAIN layers[p] :
                     \E k \in layers[p][m] : Acyclic(k) /\ (Above(k) \ {k}) \cap Left(p, m) # {}}
<1>1. layers[p] \in Seq(SUBSET Functions) /\ Cuts(layers[p], InPhase(p))
  BY DEF LayersGood, InPhase
<1>2. DOMAIN layers[p] \subseteq Nat
  BY <1>1
<1>3. Bad = {}
  <2>1. SUFFICES ASSUME Bad # {} PROVE FALSE
    OBVIOUS
  <2>2. PICK m \in Bad : \A i \in Bad : m <= i
    <3>1. Bad \in SUBSET Nat
      BY <1>2
    <3> HIDE DEF Bad
    <3>2. QED
      BY <2>1, <3>1, Least
  <2>3. PICK k \in layers[p][m] : Acyclic(k) /\ (Above(k) \ {k}) \cap Left(p, m) # {}
    BY <2>2
  <2>4. PICK g \in Above(k) : g # k /\ g \in Left(p, m)
    BY <2>3
  <2>5. m \in DOMAIN layers[p] /\ m \in Nat
    BY <1>2, <2>2
  <2> DEFINE R == Left(p, m)
  <2>6. layers[p][m] = NextLayer(R) /\ R \in SUBSET InPhase(p)
    BY <2>5, LayerLeft DEF Left
  <2>7. k \in Functions /\ k \in InPhase(p)
    BY <1>1, <2>3, <2>5 DEF Cuts, InPhase
  <2>8. k \in R
    <3>1. R # {} /\ R \in SUBSET Functions
      BY <2>4, <2>6 DEF InPhase
    <3>2. NextLayer(R) \subseteq R
      BY <3>1, Extremes DEF NextLayer
    <3>3. QED
      BY <2>3, <2>6, <3>2
  <2>9. PICK h \in Functions : /\ PhaseOf[h] = PhaseOf[k] /\ h # k /\ <<h, k>> \in calls
                               /\ g \in Above(h)
    BY <2>4, <2>7, AboveThroughCaller
  <2>10. h \in Above(k) /\ Above(h) \subseteq Above(k)
    <3>1. k \in Above(k)
      BY <2>7, AboveEnds
    <3>2. h \in Above(k)
      BY <2>7, <2>9, <3>1, AboveCallers
    <3>3. QED
      BY <2>7, <3>2, AboveAbove
  <2>11. Acyclic(h)
    BY <2>3, <2>10 DEF Acyclic
  <2>12. h \notin R
    <3>1. SUFFICES ASSUME h \in R PROVE FALSE
      OBVIOUS
    <3>2. Callers(k, R) # {}
      BY <2>9, <3>1 DEF Callers
    <3>3. {i \in R : Callers(i, R) = {}} = {}
      <4>1. \/ k \in {i \in R : Callers(i, R) = {}}
            \/ {i \in R : Callers(i, R) = {}} = {}
        BY <2>3, <2>6 DEF NextLayer
      <4>2. QED
        BY <3>2, <4>1
    <3>4. \A i \in R : Callers(i, R) # {}
      BY <3>3
    <3> HIDE DEF R
    <3>5. ~Acyclic(k)
      BY <2>6, <2>8, <3>4, NoneFree
    <3>6. QED
      BY <2>3, <3>5
  <2>13. h \in InPhase(p)
    BY <2>7, <2>9 DEF InPhase
  <2>14. PICK i \in 1 .. m - 1 : h \in layers[p][i]
    BY <2>12, <2>13 DEF Left
  <2>15. i \in DOMAIN layers[p] /\ i \in Nat /\ i < m
    BY <1>1, <2>5, <2>14
  <2>16. g \in Left(p, i)
    <3>1. \A l \in 1 .. i - 1 : l \in 1 .. m - 1
      BY <2>5, <2>15
    <3>2. QED
      BY <2>4, <3>1 DEF Left
  <2>17. g # h
    BY <2>4, <2>12
  <2>18. i \in Bad
    BY <2>9, <2>11, <2>14, <2>15, <2>16, <2>17
  <2>19. QED
    BY <2>2, <2>5, <2>15, <2>18
<1>4. (Above(f) \ {f}) \cap Left(p, n) = {}
  BY <1>3
<1>5. f \in Functions /\ PhaseOf[f] = p
  BY <1>1 DEF Cuts, InPhase
<1>6. Above(f) \subseteq InPhase(p)
  BY <1>5, AboveEnds, AboveCallers DEF InPhase
<1>7. QED
  BY <1>4, <1>6 DEF Left

\* The layers stay those of the call graph, which is not changed.
LEMMA LayersStayKept ==
  ASSUME LayersKept, UNCHANGED <<calls, layers>>
  PROVE  LayersKept'
<1>1. \A S : NextLayer(S)' = NextLayer(S)
  BY DEF NextLayer, Callers
<1>2. Layered' = Layered
  <2> DEFINE now == [S \in SUBSET Functions |-> NextLayer(S)]
             next == [S \in SUBSET Functions |-> NextLayer(S)']
  <2>1. Layered' = Cut(next)
    BY DEF Layered, Cut
  <2>2. Layered = Cut(now)
    BY DEF Layered
  <2>3. now = next
    BY <1>1
  <2> HIDE DEF now, next
  <2>4. QED
    BY <2>1, <2>2, <2>3
<1>3. QED
  BY <1>2 DEF LayersKept, InPhase
-----------------------------------------------------------------------------
(* Caller-first *)

\* What is not specified of a layer before n is in a job of the plan that the jobs of layer n
\* wait for, or they wait for jobs of a layer after it.
LEMMA PriorHas ==
  ASSUME LayersGood, NEW p \in ProjectPhases, NEW n \in 1 .. Len(layers[p]) + 1,
         NEW i \in 1 .. n - 1, NEW g \in layers[p][i], g \notin specs
  PROVE  \E k \in DOMAIN layers[p] : \E b \in DOMAIN Batches(p, k) :
           /\ k < n /\ WantedSpecs[SpecId(p, k, b)].id \in Prior(p, n)
           /\ i < k \/ (i = k /\ g \in Batches(p, k)[b])
<1> DEFINE with == {k \in 1 .. n - 1 : SpecJobs(p, k) # {}}
           last == CHOOSE k \in with : \A m \in with : m <= k
<1>1. layers[p] \in Seq(SUBSET Functions) /\ n \in Nat /\ 1 .. n - 1 \subseteq DOMAIN layers[p]
  <2>1. layers[p] \in Seq(SUBSET Functions)
    BY DEF LayersGood
  <2>2. QED
    BY <2>1
<1>2. i \in DOMAIN layers[p]
  BY <1>1
<1>3. PICK c \in DOMAIN Batches(p, i) : g \in Batches(p, i)[c]
  BY <1>2, LayerBatches DEF Cuts
<1>4. i \in with
  BY <1>3 DEF SpecJobs
<1>5. Prior(p, n) = SpecJobs(p, last)
  BY <1>4 DEF Prior
<1>6. last \in with /\ \A m \in with : m <= last
  <2>1. with \in SUBSET Nat /\ with # {} /\ \A k \in with : k <= n
    BY <1>1, <1>4
  <2> HIDE DEF with
  <2>2. \E k \in with : \A m \in with : k >= m
    BY <1>1, <2>1, Greatest
  <2>3. \E k \in with : \A m \in with : m <= k
    BY <2>1, <2>2
  <2>4. QED
    BY <2>3
<1> HIDE DEF last
<1>7. last \in DOMAIN layers[p] /\ last < n /\ last \in Nat /\ i <= last /\ i \in Nat
  BY <1>1, <1>4, <1>6
<1>8. \A b \in DOMAIN Batches(p, last) : WantedSpecs[SpecId(p, last, b)].id \in SpecJobs(p, last)
  <2>1. SUFFICES ASSUME NEW b \in DOMAIN Batches(p, last)
                 PROVE  WantedSpecs[SpecId(p, last, b)].id \in SpecJobs(p, last)
    OBVIOUS
  <2>2. WantedSpecs[SpecId(p, last, b)] =
          Wanted(SpecId(p, last, b), "spec_batch", Batches(p, last)[b], Base(p) \cup Prior(p, last))
    BY <1>7, SpecPlan
  <2>3. WantedSpecs[SpecId(p, last, b)].id = IdOf("spec_batch", Batches(p, last)[b], SpecId(p, last, b))
    BY <2>2, WantedFields
  <2>4. QED
    BY <2>3 DEF SpecJobs, SpecId
<1>9. CASE i = last
  BY <1>3, <1>5, <1>7, <1>8, <1>9
<1>10. CASE i < last
  <2>1. PICK b : b \in DOMAIN Batches(p, last)
    BY <1>6 DEF SpecJobs
  <2>2. QED
    BY <1>5, <1>7, <1>8, <1>10, <2>1
<1>11. QED
  BY <1>7, <1>9, <1>10

\* The last jobs of a project phase with something to specify are waited for by the project
\* phases that depend on it.
LEMMA LastAwaited ==
  ASSUME LayersGood, NEW p \in ProjectPhases, NEW r \in DependsOn[p], layers[r] # <<>>, LastOf(r) # {}
  PROVE  LastOf(r) \subseteq Base(p)
<1> DEFINE Given(q) == IF layers[q] = <<>> THEN {} ELSE IF LastOf(q) = {} THEN Base(q) ELSE LastOf(q)
<1>1. Base(p) = Ground \cup UNION {Given(q) : q \in DependsOn[p]}
  BY BaseDefined
<1>2. Given(r) = LastOf(r)
  OBVIOUS
<1> HIDE DEF Given
<1>3. QED
  BY <1>1, <1>2

\* What is before a layer and not specified is in a layer of the plan, which is waited for.
LEMMA AheadAwaited ==
  ASSUME LayersGood, NEW p \in ProjectPhases, NEW n \in DOMAIN layers[p],
         NEW g \in Ahead(p, n), g \notin specs
  PROVE  \E q \in ProjectPhases : \E i \in DOMAIN layers[q] : \E k \in DOMAIN layers[q] :
           \E b \in DOMAIN Batches(q, k) :
             /\ q < p \/ (q = p /\ k < n)
             /\ WantedSpecs[SpecId(q, k, b)].id \in Base(p) \cup Prior(p, n)
             /\ g \in layers[q][i]
             /\ i < k \/ (i = k /\ g \in Batches(q, k)[b])
<1>1. layers[p] \in Seq(SUBSET Functions) /\ n \in 1 .. Len(layers[p]) + 1 /\ n \in Nat
  <2>1. layers[p] \in Seq(SUBSET Functions)
    BY DEF LayersGood
  <2>2. QED
    BY <2>1
<1>2. CASE \E m \in 1 .. n - 1 : g \in layers[p][m]
  <2>1. PICK m \in 1 .. n - 1 : g \in layers[p][m]
    BY <1>2
  <2>2. m \in DOMAIN layers[p]
    BY <1>1
  <2>3. PICK k \in DOMAIN layers[p] : \E b \in DOMAIN Batches(p, k) :
           /\ k < n /\ WantedSpecs[SpecId(p, k, b)].id \in Prior(p, n)
           /\ m < k \/ (m = k /\ g \in Batches(p, k)[b])
    BY <1>1, <2>1, PriorHas
  <2>4. QED
    BY <2>1, <2>2, <2>3
<1>3. CASE g \in Functions /\ PhaseOf[g] \in DependsOn[p]
  <2> DEFINE r == PhaseOf[g]
  <2>1. r \in DependsOn[p] /\ r \in ProjectPhases /\ r < p
    <3>1. r \in 1 .. p - 1 /\ r \in ProjectPhases /\ p \in Nat
      BY <1>3, PhasesType
    <3>2. QED
      BY <1>3, <3>1
  <2>2. PICK i \in DOMAIN layers[r] : g \in layers[r][i]
    BY <1>3, <2>1 DEF LayersGood, Cuts
  <2> HIDE DEF r
  <2>3. layers[r] \in Seq(SUBSET Functions)
    BY <2>1 DEF LayersGood
  <2>4. /\ Len(layers[r]) + 1 \in 1 .. Len(layers[r]) + 1
        /\ i \in 1 .. (Len(layers[r]) + 1) - 1 /\ layers[r] # <<>>
    BY <2>2, <2>3
  <2>5. PICK k \in DOMAIN layers[r] : \E b \in DOMAIN Batches(r, k) :
           /\ k < Len(layers[r]) + 1 /\ WantedSpecs[SpecId(r, k, b)].id \in Prior(r, Len(layers[r]) + 1)
           /\ i < k \/ (i = k /\ g \in Batches(r, k)[b])
    BY <2>1, <2>2, <2>4, PriorHas
  <2>6. LastOf(r) \subseteq Base(p)
    BY <2>1, <2>4, <2>5, LastAwaited DEF LastOf
  <2>7. QED
    BY <2>1, <2>2, <2>5, <2>6 DEF LastOf
<1>4. QED
  BY <1>2, <1>3 DEF Ahead

\* A new specification job waits for what is before it.
LEMMA NewAwaits ==
  ASSUME Shaped, Plan \/ PlanKilled, NEW j \in DOMAIN jobs' \ DOMAIN jobs, jobs'[j].kind = "spec_batch"
  PROVE  /\ context \/ Context \in jobs'[j].deps
         /\ \A g \in Ahead(j[2], j[3]) :
              \/ g \in specs
              \/ \E d \in jobs'[j].deps : SpecJob(d, g)'
              \/ \E d \in jobs'[j].deps : d[1] = "spec" /\ g \in Ahead(d[2], d[3])
<1>1. PICK made :
        /\ Makes(made)
        /\ \A k \in DOMAIN jobs' \ DOMAIN jobs :
             /\ k \in made /\ k \in DOMAIN Wanting /\ Wanting[k].id = k
             /\ jobs'[k].kind = Wanting[k].kind /\ jobs'[k].artifacts = Wanting[k].artifacts
             /\ jobs'[k].deps = Wanting[k].deps
             /\ Fits(k, Wanting[k].kind, Wanting[k].artifacts)
             /\ PhaseOfJob(k) = "specification" <=> PlannedPhase = "specification"
             /\ PhaseOfJob(k) = "verification" <=> PlannedPhase = "verification"
  BY NewJobs
<1>2. j \in made /\ j \in DOMAIN Wanting /\ Wanting[j].kind = "spec_batch" /\ jobs'[j].deps = Wanting[j].deps
  BY <1>1
<1>3. PlannedPhase = "specification" /\ Wanting = WantedSpecs
  <2>1. PlannedPhase = "specification"
    BY <1>2, WantingKinds DEF Shaped
  <2>2. QED
    BY <2>1 DEF Wanting
<1>4. PICK p \in ProjectPhases : \E n \in DOMAIN layers[p] : \E b \in DOMAIN Batches(p, n) :
        /\ j = SpecId(p, n, b)
        /\ WantedSpecs[j] = Wanted(j, "spec_batch", Batches(p, n)[b], Base(p) \cup Prior(p, n))
  <2>1. WantedSpecs[j] # Wanted(Context, "domain_context", {}, {})
    BY <1>2, <1>3, WantedFields
  <2>2. QED
    BY <1>2, <1>3, <2>1, SpecsWanted DEF Shaped
<1>5. PICK n \in DOMAIN layers[p] : \E b \in DOMAIN Batches(p, n) :
        /\ j = SpecId(p, n, b)
        /\ WantedSpecs[j] = Wanted(j, "spec_batch", Batches(p, n)[b], Base(p) \cup Prior(p, n))
  BY <1>4
<1>6. PICK b \in DOMAIN Batches(p, n) :
        /\ j = SpecId(p, n, b)
        /\ WantedSpecs[j] = Wanted(j, "spec_batch", Batches(p, n)[b], Base(p) \cup Prior(p, n))
  BY <1>5
<1>7. jobs'[j].deps = Base(p) \cup Prior(p, n) /\ j[2] = p /\ j[3] = n
  BY <1>2, <1>3, <1>6, WantedFields DEF SpecId
<1>8. context \/ Context \in jobs'[j].deps
  BY <1>7, BaseDefined DEF Ground
<1>9. ASSUME NEW g \in Ahead(p, n), g \notin specs
      PROVE  \/ \E d \in jobs'[j].deps : SpecJob(d, g)'
             \/ \E d \in jobs'[j].deps : d[1] = "spec" /\ g \in Ahead(d[2], d[3])
  <2>1. PICK q \in ProjectPhases : \E i \in DOMAIN layers[q] : \E k \in DOMAIN layers[q] :
           \E c \in DOMAIN Batches(q, k) :
             /\ q < p \/ (q = p /\ k < n)
             /\ WantedSpecs[SpecId(q, k, c)].id \in Base(p) \cup Prior(p, n)
             /\ g \in layers[q][i]
             /\ i < k \/ (i = k /\ g \in Batches(q, k)[c])
    BY <1>9, AheadAwaited DEF Shaped
  <2>2. PICK i \in DOMAIN layers[q] : \E k \in DOMAIN layers[q] :
           \E c \in DOMAIN Batches(q, k) :
             /\ q < p \/ (q = p /\ k < n)
             /\ WantedSpecs[SpecId(q, k, c)].id \in Base(p) \cup Prior(p, n)
             /\ g \in layers[q][i]
             /\ i < k \/ (i = k /\ g \in Batches(q, k)[c])
    BY <2>1
  <2>3. PICK k \in DOMAIN layers[q] : \E c \in DOMAIN Batches(q, k) :
             /\ q < p \/ (q = p /\ k < n)
             /\ WantedSpecs[SpecId(q, k, c)].id \in Base(p) \cup Prior(p, n)
             /\ g \in layers[q][i]
             /\ i < k \/ (i = k /\ g \in Batches(q, k)[c])
    BY <2>2
  <2>4. PICK c \in DOMAIN Batches(q, k) :
             /\ q < p \/ (q = p /\ k < n)
             /\ WantedSpecs[SpecId(q, k, c)].id \in Base(p) \cup Prior(p, n)
             /\ g \in layers[q][i]
             /\ i < k \/ (i = k /\ g \in Batches(q, k)[c])
    BY <2>3
  <2>5. PICK d : d = WantedSpecs[SpecId(q, k, c)].id
    OBVIOUS
  <2>6. d \in jobs'[j].deps
    BY <1>7, <2>4, <2>5
  <2>7. d[1] = "spec" /\ d[2] = q /\ d[3] = k
    BY <2>5, LayerId
  <2>8. CASE i = k /\ g \in Batches(q, k)[c]
    <3>1. /\ SpecId(q, k, c) \in DOMAIN Wanting
          /\ Wanting[SpecId(q, k, c)] =
               Wanted(SpecId(q, k, c), "spec_batch", Batches(q, k)[c], Base(q) \cup Prior(q, k))
      BY <1>3, SpecPlan
    <3>2. /\ Wanting[SpecId(q, k, c)].kind = "spec_batch"
          /\ Wanting[SpecId(q, k, c)].artifacts = Batches(q, k)[c]
      BY <3>1, WantedFields
    <3>3. Earlier(SpecId(q, k, c), SpecId(p, n, b))
      BY <2>4, SpecOrder
    <3>4. SpecId(q, k, c) \in made
      BY <1>1, <1>2, <1>6, <3>1, <3>3 DEF Makes, Closed, Before
    <3>5. /\ d \in DOMAIN jobs'
          /\ jobs'[d].kind = Wanting[SpecId(q, k, c)].kind
          /\ jobs'[d].artifacts = Wanting[SpecId(q, k, c)].artifacts
      BY <1>1, <1>3, <2>5, <3>4, MadeJobs
    <3>6. SpecJob(d, g)'
      BY <2>8, <3>2, <3>5 DEF SpecJob
    <3>7. QED
      BY <2>6, <3>6
  <2>9. CASE i < k
    <3>1. i \in 1 .. k - 1
      <4>1. layers[q] \in Seq(SUBSET Functions)
        BY DEF Shaped, LayersGood
      <4>2. QED
        BY <2>9, <4>1
    <3>2. g \in Ahead(q, k)
      BY <2>4, <3>1 DEF Ahead
    <3>3. QED
      BY <2>6, <2>7, <3>2
  <2>10. QED
    BY <2>4, <2>8, <2>9
<1>10. QED
  BY <1>7, <1>8, <1>9

\* Specification jobs wait for what is before them.
LEMMA SpecsStillAwait ==
  ASSUME Shaped, [Next]_vars, SpecsAwait
  PROVE  SpecsAwait'
<1>1. Kept /\ Effects
  BY StepsKeep, StepEffects
<1>2. \A p, n : Ahead(p, n)' = Ahead(p, n)
  BY <1>1 DEF Effects, Ahead
<1>3. ASSUME NEW j \in DOMAIN jobs', jobs'[j].kind = "spec_batch"
      PROVE  /\ context' \/ Context \in jobs'[j].deps
             /\ \A g \in Ahead(j[2], j[3]) :
                  \/ g \in specs'
                  \/ \E d \in jobs'[j].deps : SpecJob(d, g)'
                  \/ \E d \in jobs'[j].deps : d[1] = "spec" /\ g \in Ahead(d[2], d[3])
  <2>1. specs \subseteq specs' /\ (context => context')
    BY <1>1 DEF Effects
  <2>2. CASE j \in DOMAIN jobs
    <3>1. jobs[j].kind = "spec_batch" /\ jobs'[j].deps = jobs[j].deps
      BY <1>1, <1>3, <2>2 DEF Kept
    <3>2. /\ context \/ Context \in jobs[j].deps
          /\ \A g \in Ahead(j[2], j[3]) :
               \/ g \in specs
               \/ \E d \in jobs[j].deps : SpecJob(d, g)
               \/ \E d \in jobs[j].deps : d[1] = "spec" /\ g \in Ahead(d[2], d[3])
      BY <2>2, <3>1 DEF SpecsAwait
    <3>3. \A d, g : SpecJob(d, g) => SpecJob(d, g)'
      BY SpecJobStays
    <3>4. QED
      BY <2>1, <3>1, <3>2, <3>3
  <2>3. CASE j \notin DOMAIN jobs
    <3>1. Plan \/ PlanKilled
      BY <1>3, <2>3, NewByPlanner
    <3>2. /\ context \/ Context \in jobs'[j].deps
          /\ \A g \in Ahead(j[2], j[3]) :
               \/ g \in specs
               \/ \E d \in jobs'[j].deps : SpecJob(d, g)'
               \/ \E d \in jobs'[j].deps : d[1] = "spec" /\ g \in Ahead(d[2], d[3])
      BY <1>3, <2>3, <3>1, NewAwaits
    <3>3. QED
      BY <2>1, <3>2
  <2>4. QED
    BY <2>2, <2>3
<1>4. QED
  BY <1>2, <1>3 DEF SpecsAwait

\* What may be dispatched has what it waits for.
LEMMA DispatchedAfter ==
  ASSUME Shaped, ResultsWritten, SpecsWritten, SpecsAwait, SpecsInOrder,
         NEW j \in DOMAIN jobs, jobs[j].kind = "spec_batch", Dispatchable(j)
  PROVE  context /\ Ahead(j[2], j[3]) \subseteq specs
<1>1. \A d \in jobs[j].deps : jobs[d].status = "succeeded" /\ d \in DOMAIN jobs
  BY DEF Dispatchable, DepsMet, Shaped, Typed, TypeOK
<1>2. context
  <2>1. CASE Context \in jobs[j].deps
    <3>1. Context \in DOMAIN jobs /\ jobs[Context].status = "succeeded"
      BY <1>1, <2>1
    <3>2. Fits(Context, jobs[Context].kind, jobs[Context].artifacts)
      BY <3>1 DEF Shaped, JobsFit
    <3>3. jobs[Context].kind = "domain_context"
      BY <3>2 DEF Fits, Context
    <3>4. QED
      BY <3>1, <3>3 DEF ResultsWritten
  <2>2. QED
    BY <2>1 DEF SpecsAwait
<1>3. ASSUME NEW g \in Ahead(j[2], j[3]) PROVE g \in specs
  <2>1. CASE \E d \in jobs[j].deps : SpecJob(d, g)
    BY <1>1, <2>1 DEF SpecJob, SpecsWritten
  <2>2. ASSUME NEW d \in jobs[j].deps, d[1] = "spec", g \in Ahead(d[2], d[3]) PROVE g \in specs
    <3>1. d \in DOMAIN jobs /\ jobs[d].status = "succeeded"
      BY <1>1
    <3>2. Fits(d, jobs[d].kind, jobs[d].artifacts)
      BY <3>1 DEF Shaped, JobsFit
    <3>3. jobs[d].kind = "spec_batch"
      BY <2>2, <3>2 DEF Fits, Context
    <3>4. QED
      BY <2>2, <3>1, <3>3 DEF SpecsInOrder
  <2>3. QED
    BY <1>3, <2>1, <2>2 DEF SpecsAwait
<1>4. QED
  BY <1>2, <1>3

\* Nobody specifies before what is before it is specified.
LEMMA SpecsStayInOrder ==
  ASSUME Shaped, [Next]_vars, ResultsWritten, SpecsWritten, SpecsAwait, SpecsInOrder
  PROVE  SpecsInOrder'
<1>1. Effects
  BY StepEffects
<1>2. \A p, n : Ahead(p, n)' = Ahead(p, n)
  BY <1>1 DEF Effects, Ahead
<1>3. ASSUME NEW j \in DOMAIN jobs', jobs'[j].kind = "spec_batch", jobs'[j].status \in {"running", "succeeded"}
      PROVE  context' /\ Ahead(j[2], j[3]) \subseteq specs'
  <2>1. j \in DOMAIN jobs /\ specs \subseteq specs' /\ (context => context')
    BY <1>1, <1>3 DEF Effects
  <2>2. CASE jobs'[j] = jobs[j]
    BY <1>3, <2>1, <2>2 DEF SpecsInOrder
  <2>3. CASE Moved(j)
    <3>1. /\ jobs[j].kind = "spec_batch"
          /\ jobs'[j].status = "running" => Dispatchable(j)
          /\ jobs'[j].status = "succeeded" => jobs[j].status = "running"
      BY <1>3, <2>3 DEF Moved
    <3>2. context /\ Ahead(j[2], j[3]) \subseteq specs
      <4>1. CASE jobs'[j].status = "running"
        BY <2>1, <3>1, <4>1, DispatchedAfter
      <4>2. CASE jobs'[j].status = "succeeded"
        BY <2>1, <3>1, <4>2 DEF SpecsInOrder
      <4>3. QED
        BY <1>3, <4>1, <4>2
    <3>3. QED
      BY <2>1, <3>2
  <2>4. QED
    BY <1>1, <2>1, <2>2, <2>3 DEF Effects
<1>4. QED
  BY <1>2, <1>3 DEF SpecsInOrder

\* What orders specification
Ordering == Flowing /\ SpecsAwait /\ SpecsInOrder /\ LayersKept

\* It holds at first.
LEMMA InitOrdering ==
  ASSUME Init
  PROVE  Ordering
<1>1. Flowing
  BY InitFlowing
<1>2. DOMAIN jobs = {} /\ layers = [p \in ProjectPhases |-> Layered[InPhase(p)]]
  BY DEF Init, InPhase
<1>3. SpecsAwait /\ SpecsInOrder /\ LayersKept
  BY <1>2 DEF SpecsAwait, SpecsInOrder, LayersKept
<1>4. QED
  BY <1>1, <1>3 DEF Ordering

\* The steps keep it.
LEMMA OrderingStays ==
  ASSUME Ordering, [Next]_vars
  PROVE  Ordering'
<1>1. Flowing /\ Flowing' /\ Shaped /\ ResultsWritten /\ SpecsWritten
  BY FlowingStays DEF Ordering, Flowing, Specifying
<1>2. UNCHANGED <<calls, layers>>
  BY <1>1, StepEffects DEF Effects
<1>3. SpecsAwait' /\ SpecsInOrder'
  BY <1>1, SpecsStillAwait, SpecsStayInOrder DEF Ordering
<1>4. LayersKept'
  BY <1>2, LayersStayKept DEF Ordering
<1>5. QED
  BY <1>1, <1>3, <1>4 DEF Ordering

\* Who is before what runs, in the order of layers, is before it in the call graph.
LEMMA OrderedCallers ==
  ASSUME Ordering
  PROVE  CallerFirst
<1>1. Shaped /\ LayersKept /\ LayersGood
  BY DEF Ordering, Flowing, Specifying, Shaped
<1>2. ASSUME NEW j \in Running("spec_batch"), NEW f \in jobs[j].artifacts
      PROVE  /\ context
             /\ \A g \in Functions : PhaseOf[g] \in DependsOn[PhaseOf[f]] => g \in specs
             /\ (\A g \in Above(f) : ~Recursive(g)) => Above(f) \ {f} \subseteq specs
  <2>1. j \in DOMAIN jobs /\ jobs[j].kind = "spec_batch" /\ jobs[j].status = "running"
    BY DEF Running
  <2>2. context /\ Ahead(j[2], j[3]) \subseteq specs
    BY <2>1 DEF Ordering, SpecsInOrder
  <2>3. Fits(j, "spec_batch", jobs[j].artifacts)
    BY <1>1, <2>1 DEF Shaped, JobsFit
  <2>4. PICK p \in ProjectPhases : p = j[2] /\ \E n \in DOMAIN layers[p] : n = j[3] /\ f \in layers[p][n]
    BY <2>3 DEF Fits
  <2>5. PICK n \in DOMAIN layers[p] : n = j[3] /\ f \in layers[p][n]
    BY <2>4
  <2>6. PhaseOf[f] = p
    BY <1>1, <2>5 DEF LayersGood, Cuts
  <2>7. Acyclic(f) => Above(f) \ {f} \subseteq UNION {layers[p][m] : m \in 1 .. n - 1}
    BY <1>1, <2>5, CallersBefore
  <2>8. UNION {layers[p][m] : m \in 1 .. n - 1} \subseteq specs
    BY <2>2, <2>4, <2>5 DEF Ahead
  <2>9. \A g \in Functions : PhaseOf[g] \in DependsOn[PhaseOf[f]] => g \in specs
    BY <2>2, <2>4, <2>6 DEF Ahead
  <2>10. QED
    BY <2>2, <2>7, <2>8, <2>9 DEF Acyclic
<1>3. QED
  BY <1>2 DEF CallerFirst

\* Caller-first (executor.py, _layers; job_planner.py, _specification): whatever
\* was planned, killed, refused or planned again before, a Worker specifies a function after
\* the domain context, the functions of the project phases its own depends on, and the callers
\* that no recursion is above.
THEOREM CallersFirst == Spec => []CallerFirst
<1>1. Init => Ordering
  BY InitOrdering
<1>2. Ordering /\ [Next]_vars => Ordering'
  BY OrderingStays
<1>3. Ordering => CallerFirst
  BY OrderedCallers
<1>4. QED
  BY <1>1, <1>2, <1>3, PTL DEF Spec

\* No first batch is larger than what a Worker takes, but for one function alone.
LEMMA FirstFits ==
  ASSUME NEW S \in SUBSET Functions, S # {}
  PROVE  LET first == FirstBatch[S]
         IN  \/ Cardinality(first) <= MaxFunctions /\ Size(first) <= TargetTokens
             \/ \E f \in S : first = {f}
<1> DEFINE upTo(f) == {g \in S : g <= f}
           fits(f) == /\ Cardinality(upTo(f)) <= MaxFunctions /\ Size(upTo(f)) <= TargetTokens
                      /\ \A g \in upTo(f) \ {f} : Estimate(g) < TargetTokens
           full == {f \in S : fits(f) \/ f = Min(S)}
<1>1. FirstBatch[S] = upTo(Max(full))
  BY DEF FirstBatch
<1>2. Min(S) \in S /\ \A k \in S : Min(S) <= k
  BY Extremes
<1>3. Max(full) \in full
  <2>1. full \in SUBSET Functions /\ full # {}
    BY <1>2
  <2> HIDE DEF full
  <2>2. QED
    BY <2>1, Extremes
<1>4. CASE fits(Max(full))
  BY <1>1, <1>4
<1>5. CASE Max(full) = Min(S)
  <2>1. S \subseteq Nat
    BY FunctionsType
  <2>2. {g \in S : g <= Min(S)} = {Min(S)}
    <3>1. PICK m \in S : m = Min(S) /\ \A k \in S : m <= k
      BY <1>2
    <3>2. \A g \in S : g <= m => g = m
      BY <2>1, <3>1
    <3>3. m <= m
      BY <2>1, <3>1
    <3>4. QED
      BY <3>1, <3>2, <3>3
  <2>3. QED
    BY <1>1, <1>2, <1>5, <2>2
<1>6. QED
  BY <1>3, <1>4, <1>5

\* What a Worker is given (complexity.py, partition): of any functions, the planner makes
\* batches that are of these functions, no two of them with one in common, all of them
\* together; and a batch that has more functions or tokens than a Worker takes is one
\* function alone.
THEOREM BatchesFit ==
  ASSUME NEW S \in SUBSET Functions
  PROVE  LET batches == Partition[S]
         IN  /\ UNION {batches[n] : n \in DOMAIN batches} = S
             /\ \A m, n \in DOMAIN batches : m # n => batches[m] \cap batches[n] = {}
             /\ \A n \in DOMAIN batches :
                  \/ Cardinality(batches[n]) <= MaxFunctions /\ Size(batches[n]) <= TargetTokens
                  \/ \E f \in S : batches[n] = {f}
<1> DEFINE batches == Partition[S]
<1>1. batches \in Seq(SUBSET Functions) /\ Cuts(batches, S)
  BY BatchesCut
<1>2. Rests(batches, FirstBatch, S)
  BY BatchTaken, CutRests DEF Partition
<1> HIDE DEF batches
<1>3. ASSUME NEW n \in DOMAIN batches
      PROVE  \/ Cardinality(batches[n]) <= MaxFunctions /\ Size(batches[n]) <= TargetTokens
             \/ \E f \in S : batches[n] = {f}
  <2> DEFINE rest == S \ UNION {batches[k] : k \in 1 .. n - 1}
  <2>1. batches[n] = FirstBatch[rest]
    BY <1>2 DEF Rests
  <2>2. batches[n] # {} /\ batches[n] \subseteq S
    BY <1>1 DEF Cuts
  <2>3. \A k \in 1 .. n - 1 : batches[k] \cap batches[n] = {}
    <3>1. \A k \in 1 .. n - 1 : k \in DOMAIN batches /\ k # n
      BY <1>1
    <3>2. QED
      BY <1>1, <3>1 DEF Cuts
  <2>4. rest # {}
    BY <2>2, <2>3
  <2>5. rest \in SUBSET Functions /\ rest \subseteq S
    OBVIOUS
  <2> HIDE DEF rest
  <2>6. \/ Cardinality(batches[n]) <= MaxFunctions /\ Size(batches[n]) <= TargetTokens
        \/ \E f \in rest : batches[n] = {f}
    BY <2>1, <2>4, <2>5, FirstFits
  <2>7. QED
    BY <2>5, <2>6
<1>4. UNION {batches[n] : n \in DOMAIN batches} = S
  BY <1>1 DEF Cuts
<1>5. \A m, n \in DOMAIN batches : m # n => batches[m] \cap batches[n] = {}
  BY <1>1 DEF Cuts
<1>6. QED
  BY <1>3, <1>4, <1>5 DEF batches
=============================================================================
