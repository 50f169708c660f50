------------------------------ MODULE Planner ------------------------------
(***************************************************************************)
(* The semantic phases of a full analysis: how the job planner             *)
(* (scripts/job_planner.py) cuts layers of the call graph into batches     *)
(* (executor.py, complexity.py), how Workers are dispatched and their      *)
(* results taken (semantic_executor.py), and what the phase gates ask of   *)
(* the plan and of the results (stage_gate.py, fm_agent_core/state.py).    *)
(*                                                                         *)
(* Abstracted: functions are numbers in the order of their artifact names, *)
(* and an artifact, its specification and its result go by the function's  *)
(* number.  An estimate is a number of tokens that grows when the          *)
(* function's specification names its callees; the number of source bytes  *)
(* and the time of earlier Workers, which bound a batch in the same way,   *)
(* are left out.  Capacity, attempts and leases are those of Scheduler:    *)
(* here any job that is ready may be dispatched, and MaxFaults bounds what *)
(* goes wrong.  The JSON mirror of a job is taken to agree with its row.   *)
(***************************************************************************)
EXTENDS Naturals, Sequences, FiniteSets, FiniteSetsExt

CONSTANTS
  Functions,    \* the functions in scope: 1 .. n
  PhaseOf,      \* PhaseOf[f]: the project phase of f
  DependsOn,    \* DependsOn[p]: depends_on_phases of project phase p
  MaxCalls,     \* the calls the graph may have, in pairs of caller and callee
  Outcomes,     \* the verdicts the functions may get, as functions
  Tokens,       \* Tokens[f]: the estimate of f
  CalleeTokens, \* what the callees in its specification add to it
  TargetTokens, \* worker_target_tokens
  MaxFunctions, \* worker_max_functions
  MaxFaults     \* bound: lost Workers, rejected receipts and killed Coordinators

ProjectPhases == DOMAIN DependsOn

ASSUME PlannerAssumption ==
  /\ IsFiniteSet(Functions) /\ Functions = 1 .. Cardinality(Functions) /\ Functions # {}
  /\ PhaseOf \in [Functions -> ProjectPhases]
  /\ DependsOn \in Seq(SUBSET ProjectPhases)
  /\ \A p \in ProjectPhases : DependsOn[p] \subseteq 1 .. p - 1
  /\ MaxCalls \subseteq Functions \X Functions
  /\ Tokens \in [Functions -> Nat] /\ CalleeTokens \in [Functions -> Nat]
  /\ TargetTokens \in Nat /\ MaxFunctions \in Nat \ {0} /\ MaxFaults \in Nat

VARIABLES
  calls,   \* the edges of the call graph
  layers,  \* layers[p]: the layers of project phase p, sets of functions
  outcome, \* outcome[f]: the verdict a valid result of f has
  phase,   \* current_phase of the analysis
  planner, \* what the Coordinator plans: idle, due or streaming
  refused, \* has the planner ever refused a plan?
  plan,    \* plan[ph]: job_plans/<ph>.json
  jobs,    \* the ledger
  context, \* is the domain context written?
  specs,   \* the functions with valid .spec.json and .info.json
  results, \* the functions with a valid verification result
  reports, \* the functions with a Bug Validator report
  faults   \* what is used up of the bound

vars == <<calls, layers, outcome, phase, planner, refused, plan, jobs, context, specs,
          results, reports, faults>>

Planned == {"specification", "verification", "bug_validation"}

NoPlan == [f \in {} |-> <<>>]
NoJob  == <<"none", 0, 0, 0>>
Context == <<"context", 0, 0, 0>>

-----------------------------------------------------------------------------
(* Layers and batches *)

\* Faulty: callees before callers.
CallersWrong(f, S) == {g \in S : <<f, g>> \in calls /\ g # f}

\* incoming[f] & remaining
Callers(f, S) == {g \in S : <<g, f>> \in calls /\ g # f}

\* The functions nobody left calls, or the first one when all of them are called.
NextLayer(S) ==
  LET free == {f \in S : Callers(f, S) = {}}
  IN  IF free = {} THEN {Min(S)} ELSE free

\* A set of functions cut into a sequence: what first[S] takes of it, what first takes
\* of the rest, and so on.
Cut(first) ==
  LET cut[S \in SUBSET Functions] ==
        IF S = {} THEN <<>> ELSE <<first[S]>> \o cut[S \ first[S]]
  IN  cut

Layered == Cut([S \in SUBSET Functions |-> NextLayer(S)])

\* The i-th of a set of functions in order
Nth(S, i) == CHOOSE f \in S : Cardinality({g \in S : g <= f}) = i

Estimate(f) == Tokens[f] + (IF f \in specs THEN CalleeTokens[f] ELSE 0)

Size(S) == MapThenSumSet(Estimate, S)

\* The first batch takes as many as fit, up to one that fills a batch alone.
FirstBatch[S \in SUBSET Functions] ==
  LET upTo(f) == {g \in S : g <= f}
      fits(f) == /\ Cardinality(upTo(f)) <= MaxFunctions /\ Size(upTo(f)) <= TargetTokens
                 /\ \A g \in upTo(f) \ {f} : Estimate(g) < TargetTokens
  IN  upTo(Max({f \in S : fits(f) \/ f = Min(S)}))

Partition == Cut(FirstBatch)

-----------------------------------------------------------------------------
(* Jobs and plans *)

Job(kind, artifacts, deps) ==
  [kind |-> kind, artifacts |-> artifacts, done |-> {}, deps |-> deps,
   status |-> "queued", ticket |-> FALSE]

Of(j) == jobs[j].artifacts \cup jobs[j].done

PhaseOfJob(j) ==
  CASE j[1] = "verify" -> "verification" [] j[1] = "bug" -> "bug_validation" [] OTHER -> "specification"

Existing(kind, artifacts) == {j \in DOMAIN jobs : jobs[j].kind = kind /\ jobs[j].artifacts = artifacts}

\* _existing_job, or the id of the plan
IdOf(kind, artifacts, id) ==
  IF Existing(kind, artifacts) = {} THEN id ELSE CHOOSE j \in Existing(kind, artifacts) : TRUE

Wanted(id, kind, artifacts, deps) ==
  [id |-> IdOf(kind, artifacts, id), kind |-> kind, artifacts |-> artifacts, deps |-> deps]

\* Faulty: a job with the id is the job that was wanted.
AgreesAlways(w) == TRUE

\* _ensure_job: a job with the id of the plan has to be the one of the plan.
Agrees(w) == w.id \in DOMAIN jobs => w.id \in Existing(w.kind, w.artifacts)

\* The batches of one layer that are not specified yet
Batches(p, n) == Partition[layers[p][n] \ specs]

SpecJobs(p, n) ==
  {IdOf("spec_batch", Batches(p, n)[b], <<"spec", p, n, b>>) : b \in DOMAIN Batches(p, n)}

\* prior_layer_jobs: the jobs of the last layer before n that has some
Prior(p, n) ==
  LET with == {i \in 1 .. n - 1 : SpecJobs(p, i) # {}}
  IN  IF with = {} THEN {} ELSE SpecJobs(p, CHOOSE i \in with : \A k \in with : k <= i)

Ground == IF context THEN {} ELSE {Context}

\* phase_base, from the phase_terminals of the phases with functions
Base(p) ==
  LET base[q \in ProjectPhases] ==
        Ground \cup UNION {IF layers[r] = <<>> THEN {}
                           ELSE LET last == Prior(r, Len(layers[r]) + 1)
                                IN  IF last = {} THEN base[r] ELSE last : r \in DependsOn[q]}
  IN  base[p]

SpecIds ==
  UNION {UNION {{<<"spec", p, n, b>> : b \in DOMAIN Batches(p, n)} : n \in DOMAIN layers[p]}
           : p \in ProjectPhases}

\* A plan: what is wanted at each of its ids.
WantedSpecs ==
  [id \in Ground \cup SpecIds |->
     IF id = Context THEN Wanted(id, "domain_context", {}, {})
     ELSE Wanted(id, "spec_batch", Batches(id[2], id[3])[id[4]], Base(id[2]) \cup Prior(id[2], id[3]))]

\* What is not verified, in batches of three at least and then in single jobs,
\* which come first.
VerifyBatches ==
  LET batches == Partition[Functions \ results]
      large == {b \in DOMAIN batches : Cardinality(batches[b]) >= 3}
      small == UNION {batches[b] : b \in DOMAIN batches \ large}
  IN  [i \in 1 .. Cardinality(small) |-> {Nth(small, i)}]
        \o [i \in 1 .. Cardinality(large) |-> batches[Nth(large, i)]]

\* Faulty: a batch waits for the specification of its first member.
SpecsOfFirst(batch) == {plan["specification"][Min(batch)]} \ {NoJob}

\* The jobs of the specification plan that write the batch's specifications
SpecsOf(batch) ==
  {plan["specification"][f] : f \in batch \cap DOMAIN plan["specification"]} \ {NoJob}

WantedVerifications ==
  [id \in {<<"verify", 0, 0, n>> : n \in DOMAIN VerifyBatches} |->
     LET batch == VerifyBatches[id[4]]
     IN  Wanted(id, IF Cardinality(batch) = 1 THEN "verify_function" ELSE "verify_batch",
                batch, SpecsOf(batch))]

\* direct_mismatch_ids
Candidates == {f \in results : outcome[f] = "MISMATCH"}

WantedBugs ==
  [id \in {<<"bug", 0, 0, f>> : f \in Candidates} |-> Wanted(id, "bug_validate", {id[4]}, {})]

\* The order in which the jobs of a plan are made
Earlier(i, k) ==
  \/ i[2] < k[2]
  \/ i[2] = k[2] /\ i[3] < k[3]
  \/ i[2] = k[2] /\ i[3] = k[3] /\ i[4] < k[4]

Before(wanted, k) == {i \in DOMAIN wanted : Earlier(i, k)}

Conflicts(wanted) == {i \in DOMAIN wanted : ~Agrees(wanted[i])}

\* All of the plan, or what is before the first job that is refused
Accepted(wanted) == {i \in DOMAIN wanted : \A k \in Conflicts(wanted) : Earlier(i, k)}

\* Faulty: the last job is not created.
CreatedShort(wanted, made) ==
  LET new == {wanted[i].id : i \in {m \in made : \E k \in made : Earlier(m, k)}} \ DOMAIN jobs
  IN  [j \in DOMAIN jobs \cup new |->
         IF j \in DOMAIN jobs THEN jobs[j] ELSE Job(wanted[j].kind, wanted[j].artifacts, wanted[j].deps)]

\* Of the plan, the jobs of made are created, those that are not there.
Created(wanted, made) ==
  LET new == {wanted[i].id : i \in made} \ DOMAIN jobs
  IN  [j \in DOMAIN jobs \cup new |->
         IF j \in DOMAIN jobs THEN jobs[j] ELSE Job(wanted[j].kind, wanted[j].artifacts, wanted[j].deps)]

\* The entries of the plan: who does f, of the functions in scope?
Entries(wanted, scope) ==
  [f \in scope |->
     IF \E i \in DOMAIN wanted : f \in wanted[i].artifacts
     THEN wanted[CHOOSE i \in DOMAIN wanted : f \in wanted[i].artifacts].id ELSE NoJob]

\* One run of the planner, which is done, refused or killed.
PlanWith(ph, wanted, scope, next) ==
  /\ jobs' = Created(wanted, Accepted(wanted))
  /\ IF Conflicts(wanted) = {}
     THEN /\ plan' = [plan EXCEPT ![ph] = Entries(wanted, scope)]
          /\ planner' = next /\ UNCHANGED refused
     ELSE refused' = TRUE /\ planner' = "idle" /\ UNCHANGED plan

\* Specification plans its own jobs and then those of verification.
PlannedPhase == IF phase = "specification" /\ planner = "streaming" THEN "verification" ELSE phase

Wanting ==
  CASE PlannedPhase = "specification" -> WantedSpecs
    [] PlannedPhase = "verification" -> WantedVerifications
    [] OTHER -> WantedBugs

-----------------------------------------------------------------------------
(* Actions of the Coordinator *)

Init ==
  /\ calls \in SUBSET MaxCalls /\ outcome \in Outcomes
  /\ layers = [p \in ProjectPhases |-> Layered[{f \in Functions : PhaseOf[f] = p}]]
  /\ phase = "specification" /\ planner = "due" /\ refused = FALSE
  /\ plan = [ph \in Planned |-> NoPlan]
  /\ jobs = [j \in {} |-> <<>>]
  /\ context = FALSE /\ specs = {} /\ results = {} /\ reports = {} /\ faults = 0

Data == <<calls, layers, outcome, context, specs, results, reports>>

Fault == faults < MaxFaults /\ faults' = faults + 1

Plan ==
  /\ planner # "idle"
  /\ \E wanted \in {Wanting} :
       PlanWith(PlannedPhase, wanted, IF phase = "bug_validation" THEN Candidates ELSE Functions,
                IF PlannedPhase = "specification" THEN "streaming" ELSE "idle")
  /\ UNCHANGED <<phase, faults, Data>>

\* The Coordinator is killed among the jobs it creates, and plans again when it
\* is resumed.
PlanKilled ==
  /\ planner # "idle" /\ Fault
  /\ \E wanted \in {Wanting} :
       \E made \in {Accepted(wanted)} \cup {Before(wanted, k) : k \in Accepted(wanted)} :
         jobs' = Created(wanted, made)
  /\ planner' = "due"
  /\ UNCHANGED <<phase, refused, plan, Data>>

\* A resume in the middle of the phase.
PlanAgain ==
  /\ planner = "idle" /\ Fault
  /\ phase \in Planned
  /\ planner' = "due"
  /\ UNCHANGED <<phase, refused, plan, jobs, Data>>

Working == planner = "idle" /\ phase \in Planned

DepsMet(j) == \A d \in jobs[j].deps : jobs[d].status = "succeeded"

\* semantic_executor.dispatch takes what the scheduler admits, for a phase with a plan.
Dispatchable(j) == jobs[j].status = "queued" /\ DepsMet(j) /\ plan[PhaseOfJob(j)] # NoPlan

SetJob(j, status, ticket) == jobs' = [jobs EXCEPT ![j].status = status, ![j].ticket = ticket]

\* The job is started, then its ticket written.
Dispatch(j) ==
  /\ Working /\ Dispatchable(j)
  /\ SetJob(j, "running", TRUE)
  /\ UNCHANGED <<phase, planner, refused, plan, faults, Data>>

DispatchKilled(j) ==
  /\ Working /\ Dispatchable(j) /\ Fault
  /\ SetJob(j, "running", FALSE)
  /\ planner' = "due"
  /\ UNCHANGED <<phase, refused, plan, Data>>

\* What a Worker writes of its outputs.
Written(j, S) ==
  /\ context' = (context \/ jobs[j].kind = "domain_context")
  /\ specs' = specs \cup (IF jobs[j].kind = "spec_batch" THEN S ELSE {})
  /\ results' = results \cup (IF PhaseOfJob(j) = "verification" THEN S ELSE {})
  /\ reports' = reports \cup (IF jobs[j].kind = "bug_validate" THEN S ELSE {})
  /\ UNCHANGED <<calls, layers, outcome>>

Submit(j) ==
  /\ Working /\ jobs[j].status = "running" /\ jobs[j].ticket
  /\ Written(j, jobs[j].artifacts)
  /\ SetJob(j, "succeeded", TRUE)
  /\ UNCHANGED <<phase, planner, refused, plan, faults>>

\* Faulty: the members that are valid are forgotten.
ShrunkForgets(job, S) == [job EXCEPT !.artifacts = @ \ S]

\* A verification batch keeps the members that are not valid yet.
Shrunk(job, S) ==
  IF job.kind = "verify_batch"
  THEN [job EXCEPT !.artifacts = @ \ S, !.done = @ \cup S]
  ELSE job

\* Some of the outputs are not valid: the job is tried again.
Rejected(j) ==
  /\ Working /\ jobs[j].status = "running" /\ jobs[j].ticket /\ Fault
  /\ \E S \in (SUBSET jobs[j].artifacts) \ {jobs[j].artifacts} :
       /\ Written(j, S) /\ context' = context
       /\ jobs' = [jobs EXCEPT ![j] = [Shrunk(@, S) EXCEPT !.status = "retryable", !.ticket = FALSE]]
  /\ UNCHANGED <<phase, planner, refused, plan>>

Retry(j) ==
  /\ Working /\ jobs[j].status = "retryable"
  /\ SetJob(j, "queued", FALSE)
  /\ UNCHANGED <<phase, planner, refused, plan, faults, Data>>

\* A Worker that got its ticket is gone with some outputs written; its lease runs
\* out.  So does the lease of a job without a ticket, which nobody works on.
Lost(j) ==
  /\ jobs[j].status = "running"
  /\ \/ /\ jobs[j].ticket /\ Fault
        /\ \E S \in SUBSET jobs[j].artifacts : Written(j, S) /\ context' = context
     \/ ~jobs[j].ticket /\ UNCHANGED <<faults, Data>>
  /\ SetJob(j, "queued", FALSE)
  /\ UNCHANGED <<phase, planner, refused, plan>>

-----------------------------------------------------------------------------
(* The gates *)

\* semantic_job_plan_ready
PlanReady(ph, scope) ==
  /\ DOMAIN plan[ph] = scope
  /\ \A f \in scope : \/ plan[ph][f] = NoJob
                      \/ /\ plan[ph][f] \in DOMAIN jobs
                         /\ PhaseOfJob(plan[ph][f]) = ph /\ f \in Of(plan[ph][f])

\* phase_receipt: gate_ready
Joined(ph) == \A j \in DOMAIN jobs : PhaseOfJob(j) = ph => jobs[j].status = "succeeded"

Conclusive == {f \in Functions : outcome[f] \in {"MATCH", "MISMATCH"}}

\* verification_coverage_ready
Covered ==
  /\ 2 * Cardinality(Conclusive) >= Cardinality(Functions)
  /\ \A f \in Functions : outcome[f] # "ERROR"

Gate(ph) ==
  /\ Joined(ph)
  /\ CASE ph = "specification" -> PlanReady(ph, Functions) /\ context /\ specs = Functions
       [] ph = "verification" -> PlanReady(ph, Functions) /\ specs = Functions /\ results = Functions
       [] OTHER -> PlanReady(ph, Candidates) /\ reports = Candidates

Pass(ph, next) ==
  /\ phase = ph /\ planner = "idle" /\ Gate(ph)
  /\ phase' = next /\ planner' = IF next \in Planned THEN "due" ELSE "idle"
  /\ UNCHANGED <<refused, plan, jobs, faults, Data>>

SpecificationPasses == Pass("specification", "verification")

\* An analysis that says too little ends here.
VerificationPasses == Pass("verification", IF Covered THEN "bug_validation" ELSE "insufficient")

BugValidationPasses == Pass("bug_validation", "finalize")

Next ==
  \/ Plan \/ PlanKilled \/ PlanAgain
  \/ SpecificationPasses \/ VerificationPasses \/ BugValidationPasses
  \/ \E j \in DOMAIN jobs : \/ Dispatch(j) \/ DispatchKilled(j) \/ Submit(j) \/ Rejected(j)
                            \/ Retry(j) \/ Lost(j)

Spec == Init /\ [][Next]_vars

-----------------------------------------------------------------------------
(* Properties *)

\* The ledger, the plans and the artifacts have values of their types, and no plan or
\* dependency names a job that is not there.
TypeOK ==
  /\ calls \subseteq MaxCalls /\ outcome \in Outcomes
  /\ phase \in Planned \cup {"insufficient", "finalize"}
  /\ planner \in {"idle", "due", "streaming"}
  /\ refused \in BOOLEAN /\ context \in BOOLEAN
  /\ specs \subseteq Functions /\ results \subseteq Functions /\ reports \subseteq Functions
  /\ \A ph \in Planned :
       DOMAIN plan[ph] \subseteq Functions /\ \A f \in DOMAIN plan[ph] : plan[ph][f] \in DOMAIN jobs \cup {NoJob}
  /\ \A j \in DOMAIN jobs :
       /\ jobs[j].kind \in {"domain_context", "spec_batch", "verify_function", "verify_batch", "bug_validate"}
       /\ jobs[j].artifacts \subseteq Functions /\ jobs[j].done \subseteq Functions
       /\ jobs[j].deps \subseteq DOMAIN jobs
       /\ jobs[j].status \in {"queued", "running", "retryable", "succeeded"}
       /\ jobs[j].ticket \in BOOLEAN
  /\ faults \in 0 .. MaxFaults

Running(kind) == {j \in DOMAIN jobs : jobs[j].status = "running" /\ jobs[j].kind = kind}

\* The functions of its project phase that call f, directly or not.
Above(f) ==
  LET above[n \in 0 .. Cardinality(Functions)] ==
        IF n = 0 THEN {f}
        ELSE above[n - 1] \cup {g \in Functions : /\ PhaseOf[g] = PhaseOf[f]
                                                  /\ \E h \in above[n - 1] : h # g /\ <<g, h>> \in calls}
  IN  above[Cardinality(Functions)]

Recursive(f) == \E g \in Above(f) \ {f} : f \in Above(g)

\* "Caller-first" (references/full-pipeline.md:12): whatever was planned before, a
\* Worker specifies a function after the domain context, the functions of the
\* project phases its own depends on, and the callers that no recursion is above.
CallerFirst ==
  \A j \in Running("spec_batch") : \A f \in jobs[j].artifacts :
    /\ context
    /\ \A g \in Functions : PhaseOf[g] \in DependsOn[PhaseOf[f]] => g \in specs
    /\ (\A g \in Above(f) : ~Recursive(g)) => Above(f) \ {f} \subseteq specs

\* Verification jobs are planned before there is a specification; none of their
\* Workers runs without the specifications of all its members.
VerifiedAfterSpecified ==
  \A j \in Running("verify_function") \cup Running("verify_batch") :
    jobs[j].artifacts \subseteq specs

\* Plans that were killed, refused or made again in batches of another size never
\* leave a function to two jobs of a kind that are not finished.
OneOwner ==
  \A i, j \in {k \in DOMAIN jobs : jobs[k].status # "succeeded"} :
    (i # j /\ PhaseOfJob(i) = PhaseOfJob(j)) =>
      jobs[i].artifacts \cap jobs[j].artifacts = {}

\* A plan that has been written stays good for its gate: its jobs are the owners of
\* its functions, whatever is rejected, shrunk or planned again.
PlanStaysGood ==
  [][\A ph \in {"specification", "verification"} :
       PlanReady(ph, Functions) => PlanReady(ph, Functions)']_vars

\* Dependencies, batches and gates never wait for each other: a phase whose plans
\* were all accepted, with nothing running, to dispatch or to try again, passes its
\* gate, so that no phase stays without work and without end.
NeverBlocked ==
  (/\ Working /\ ~refused
   /\ \A j \in DOMAIN jobs : jobs[j].status \notin {"running", "retryable"} /\ ~Dispatchable(j))
    => Gate(phase)

\* "explicit verification/Bug Validation planning remains an idempotent
\* legacy/recovery entry point" (skills/run/SKILL.md:304): no plan is refused.
PlansAgain == ~refused
=============================================================================
