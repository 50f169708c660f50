-------------------------- MODULE AnalysisGateProofs --------------------------
(***************************************************************************)
(* More proofs about Analysis: that the artifacts behind the passed gates  *)
(* stay where a Coordinator works, and that an official result is one      *)
(* whose every phase has passed.  They build on the invariant IInv of      *)
(* AnalysisProofs, which says what the writes of a command still to come   *)
(* will do.                                                                *)
(***************************************************************************)
EXTENDS AnalysisProofs

-----------------------------------------------------------------------------
(* The order of the plan *)

Last == Plan[Len(Plan)]

LEMMA PlanOrder ==
  /\ \A i \in DOMAIN Plan : Plan[i] \in Phases /\ Position(Plan[i]) = i
  /\ \A ph \in Phases : Position(ph) \in DOMAIN Plan /\ Plan[Position(ph)] = ph
  /\ DOMAIN Plan = 1 .. Len(Plan) /\ Len(Plan) \in DOMAIN Plan
<1>1. \A i \in DOMAIN Plan : Plan[i] \in Phases /\ Position(Plan[i]) = i
  BY PlanAssumption DEF Phases, Position
<1>2. \A ph \in Phases : \E i \in DOMAIN Plan : ph = Plan[i]
  BY DEF Phases
<1>3. DOMAIN Plan = 1 .. Len(Plan) /\ Len(Plan) \in DOMAIN Plan
  BY PlanAssumption
<1>4. QED
  BY <1>1, <1>2, <1>3

\* A phase is before another exactly when it has an earlier place.
LEMMA BeforePlace ==
  ASSUME NEW ph \in Phases, NEW q \in Phases
  PROVE  q \in Before(ph) <=> Position(q) < Position(ph)
<1>1. Position(ph) \in 1 .. Len(Plan) /\ Position(q) \in 1 .. Len(Plan) /\ Len(Plan) \in Nat
  BY PlanOrder
<1>2. ASSUME q \in Before(ph) PROVE Position(q) < Position(ph)
  <2>1. PICK i \in 1 .. Position(ph) - 1 : q = Plan[i]
    BY <1>2 DEF Before
  <2>2. Position(q) = i
    BY <1>1, <2>1, PlanOrder
  <2>3. QED
    BY <1>1, <2>1, <2>2
<1>3. ASSUME Position(q) < Position(ph) PROVE q \in Before(ph)
  <2>1. Position(q) \in 1 .. Position(ph) - 1 /\ q = Plan[Position(q)]
    BY <1>1, <1>3, PlanOrder
  <2>2. QED
    BY <2>1 DEF Before
<1>4. QED
  BY <1>2, <1>3

LEMMA BeforePhases ==
  ASSUME NEW ph \in Phases
  PROVE  Before(ph) \subseteq Phases
<1>1. \A i \in 1 .. Position(ph) - 1 : i \in DOMAIN Plan
  BY PlanOrder
<1>2. QED
  BY <1>1, PlanOrder DEF Before

LEMMA SamePlace ==
  ASSUME NEW ph \in Phases, NEW q \in Phases, Position(ph) = Position(q)
  PROVE  ph = q
BY PlanOrder

\* The phase that follows ph has ph and what is before it behind it.
LEMMA SuccessorPlace ==
  ASSUME NEW ph \in Phases
  PROVE  /\ Successor(ph) \in Phases
         /\ \/ Before(Successor(ph)) = Before(ph) \cup {ph}
            \/ Successor(ph) = ph
<1>1. Position(ph) \in 1 .. Len(Plan) /\ Len(Plan) \in Nat
  BY PlanOrder
<1>2. CASE Position(ph) < Len(Plan)
  <2> DEFINE q == Plan[Position(ph) + 1]
  <2>1. Position(ph) + 1 \in DOMAIN Plan
    BY <1>1, <1>2, PlanOrder
  <2>2. q \in Phases /\ Position(q) = Position(ph) + 1
    BY <2>1, PlanOrder
  <2>3. Successor(ph) = q
    BY <1>2 DEF Successor
  <2> HIDE DEF q
  <2>4. ASSUME NEW p \in Phases PROVE p \in Before(q) <=> p \in Before(ph) \cup {ph}
    <3>1. Position(p) \in 1 .. Len(Plan)
      BY PlanOrder
    <3>2. Position(p) < Position(ph) + 1 <=> Position(p) < Position(ph) \/ Position(p) = Position(ph)
      BY <1>1, <3>1
    <3>3. QED
      BY <2>2, <3>2, BeforePlace, SamePlace
  <2>5. QED
    BY <2>2, <2>3, <2>4, BeforePhases
<1>3. CASE ~(Position(ph) < Len(Plan))
  BY <1>3 DEF Successor
<1>4. QED
  BY <1>2, <1>3

-----------------------------------------------------------------------------
(* Every record has passed what is before its current phase, and nothing      *)
(* after it.                                                                  *)

Near(r) ==
  r # NoRecord =>
    /\ Before(r.current) \subseteq Passed(r)
    /\ Passed(r) \subseteq Before(r.current) \cup {r.current}

InOrder == Near(Record) /\ Near(source.record) /\ Near(sealed.dir.record) /\ Near(draft)

\* What the changes of a record make of the phases it has passed
LEMMA PassedAfter ==
  ASSUME NEW r \in Prepared, NEW ph \in Phases, NEW q \in Phases
  PROVE  /\ Passed([r EXCEPT !.phases[ph] = "running"]) = Passed(r) \ {ph}
         /\ Passed([r EXCEPT !.status = "failed", !.phases[ph] = "failed"]) = Passed(r) \ {ph}
         /\ Passed([r EXCEPT !.status = "running", !.current = q, !.phases[ph] = "none"])
              = Passed(r) \ {ph}
         /\ Passed([r EXCEPT !.phases[ph] = "succeeded", !.current = q]) = Passed(r) \cup {ph}
         /\ \A status : Passed([r EXCEPT !.status = status]) = Passed(r)
BY PreparedType DEF Passed

\* The phase an analysis resumes with: all before it have passed, and none after.
LEMMA NextPhasePlace ==
  ASSUME NEW r \in Prepared, Near(r)
  PROVE  /\ NextPhase(r) \in Phases
         /\ Before(NextPhase(r)) \subseteq Passed(r)
         /\ Passed(r) \ {NextPhase(r)} \subseteq Before(NextPhase(r))
<1> DEFINE ph == NextPhase(r)
<1>1. ph \in Phases /\ r.current \in Phases /\ Passed(r) \subseteq Phases
  <2>1. ph \in Phases
    BY NextPhaseType DEF Prepared
  <2>2. QED
    BY <2>1, PreparedType DEF Passed
<1>2. CASE Passed(r) = Phases
  <2>1. ph = Last /\ Position(ph) = Len(Plan)
    BY <1>2, PlanOrder DEF NextPhase, Last
  <2>2. ASSUME NEW q \in Phases, q # ph PROVE q \in Before(ph)
    <3>1. Position(q) \in 1 .. Len(Plan) /\ Position(q) # Position(ph)
      BY <1>1, <2>2, PlanOrder, SamePlace
    <3>2. Position(q) < Position(ph)
      BY <2>1, <3>1, PlanOrder
    <3>3. QED
      BY <1>1, <3>2, BeforePlace
  <2> HIDE DEF ph
  <2>3. QED
    BY <1>1, <1>2, <2>2, BeforePhases DEF ph
<1>3. CASE Passed(r) # Phases
  <2>1. ph \notin Passed(r) /\ Before(ph) \subseteq Passed(r)
    BY <1>1, <1>3, FirstOpen DEF Prepared
  <2>2. Before(r.current) \subseteq Passed(r) /\ Passed(r) \subseteq Before(r.current) \cup {r.current}
    BY DEF Near, Prepared
  <2>3. ASSUME NEW q \in Passed(r) PROVE q \in Before(ph)
    <3>1. q \in Phases /\ q # ph
      BY <1>1, <2>1, <2>3
    <3>2. ~(Position(ph) < Position(r.current))
      BY <1>1, <2>1, <2>2, BeforePlace
    <3>3. Position(q) < Position(r.current) \/ Position(q) = Position(r.current)
      BY <1>1, <2>2, <2>3, <3>1, BeforePlace
    <3>4. Position(q) # Position(ph)
      BY <1>1, <3>1, SamePlace
    <3>5. /\ Position(q) \in Int /\ Position(ph) \in Int /\ Position(r.current) \in Int
      BY <1>1, <3>1, PlanOrder
    <3>6. Position(q) < Position(ph)
      BY <3>2, <3>3, <3>4, <3>5
    <3>7. QED
      BY <1>1, <3>1, <3>6, BeforePlace
  <2> HIDE DEF ph
  <2>4. QED
    BY <1>1, <2>1, <2>3 DEF ph
<1>4. QED
  BY <1>2, <1>3
-----------------------------------------------------------------------------
(* What the commands of a Coordinator are going to write *)

LEMMA ResumeFacts ==
  ASSUME IInv, Resume
  PROVE  /\ Record \in Prepared /\ Exists /\ NextPhase(Record) \in Phases
         /\ tree.commit = Record.commit /\ \A ph \in Passed(Record) : Gate(ph)
         /\ draft' \in Prepared /\ draft'.commit = Record.commit
         /\ draft'.current = NextPhase(Record)
         /\ Passed(draft') = Passed(Record) \ {NextPhase(Record)}
         /\ UNCHANGED <<git, source, tree, sealed, ledger, official>>
         /\ \A i \in Places' : todo'[i] \in {"save", "clearFailure"}
         /\ \E i \in Places' : todo'[i] = "save"
<1> DEFINE ph == NextPhase(Record)
           r  == [Record EXCEPT !.status = "running", !.current = ph, !.phases[ph] = "none"]
<1>1. /\ todo' = <<"save", "clearFailure">> \/ todo' = <<"save">>
      /\ draft' = r
      /\ UNCHANGED <<git, source, tree, sealed, ledger, official>>
      /\ Exists /\ Record.status # "none"
      /\ tree.commit = Record.commit /\ \A q \in Passed(Record) : Gate(q)
  BY DEF Resume, Resumable, Marked, Run
<1>2. Record \in Records
  BY DEF IInv, Typed, TypeOK, Trees, Dirs, Record
<1>3. Record \in Prepared
  BY <1>1, <1>2 DEF Prepared, NoRecord
<1>4. ph \in Phases
  BY <1>2, NextPhaseType
<1> HIDE DEF ph
<1>5. r \in Prepared /\ Passed(r) = Passed(Record) \ {ph}
  BY <1>3, <1>4, RecordChanges, PassedAfter
<1>6. r.commit = Record.commit /\ r.current = ph
  BY <1>3, PreparedType
<1>7. /\ \A i \in Places' : todo'[i] \in {"save", "clearFailure"}
      /\ 1 \in Places' /\ todo'[1] = "save"
  <2>1. CASE todo' = <<"save", "clearFailure">>
    <3>1. Places' = 1 .. 2 /\ todo'[1] = "save" /\ todo'[2] = "clearFailure"
      BY <2>1 DEF Places
    <3>2. QED
      BY <3>1
  <2>2. CASE todo' = <<"save">>
    <3>1. Places' = 1 .. 1 /\ todo'[1] = "save"
      BY <2>2 DEF Places
    <3>2. QED
      BY <3>1
  <2>3. QED
    BY <1>1, <2>1, <2>2
<1> HIDE DEF r
<1>8. QED
  BY <1>1, <1>3, <1>4, <1>5, <1>6, <1>7 DEF ph

LEMMA PhaseStartFacts ==
  ASSUME IInv, PhaseStart
  PROVE  /\ Held /\ Record \in Prepared /\ Record.current \in Phases \ Passed(Record)
         /\ draft' \in Prepared /\ draft'.commit = Record.commit
         /\ draft'.current = Record.current /\ Passed(draft') = Passed(Record)
         /\ UNCHANGED <<git, source, tree, sealed, ledger, official>> /\ session' = session
         /\ \A i \in Places' : todo'[i] \in {"save", "reset"}
         /\ \A i \in Places' : todo'[i] = "reset" => Record.current = Cleanup
         /\ \E i \in Places' : todo'[i] = "save"
<1> DEFINE ph == Record.current
           r  == [Record EXCEPT !.phases[ph] = "running"]
<1>1. /\ \/ todo' = <<"reset", "save">> /\ ph = Cleanup
         \/ todo' = <<"save">>
      /\ draft' = r /\ session' = session /\ Held /\ ph \notin Passed(Record)
      /\ UNCHANGED <<git, source, tree, sealed, ledger, official>>
  BY DEF PhaseStart, Run
<1>2. Record \in Prepared /\ ph \in Phases
  BY <1>1, HeldRecord
<1> HIDE DEF ph
<1>3. r \in Prepared /\ Passed(r) = Passed(Record)
  <2>1. r \in Prepared
    BY <1>2, RecordChanges
  <2>2. Passed(r) = Passed(Record) \ {ph}
    BY <1>2, PassedAfter
  <2>3. QED
    BY <1>1, <2>1, <2>2
<1>4. r.commit = Record.commit /\ r.current = Record.current
  BY <1>2, PreparedType
<1>5. /\ \A i \in Places' : todo'[i] \in {"save", "reset"}
      /\ \A i \in Places' : todo'[i] = "reset" => ph = Cleanup
      /\ \E i \in Places' : todo'[i] = "save"
  <2>1. CASE todo' = <<"reset", "save">> /\ ph = Cleanup
    <3>1. Places' = 1 .. 2 /\ todo'[1] = "reset" /\ todo'[2] = "save"
      BY <2>1 DEF Places
    <3>2. QED
      BY <2>1, <3>1
  <2>2. CASE todo' = <<"save">>
    <3>1. Places' = 1 .. 1 /\ todo'[1] = "save"
      BY <2>2 DEF Places
    <3>2. QED
      BY <3>1
  <2>3. QED
    BY <1>1, <2>1, <2>2
<1> HIDE DEF r
<1>6. QED
  BY <1>1, <1>2, <1>3, <1>4, <1>5 DEF ph

\* The order in which a record is sealed, mirrored and saved
LEMMA SealOrder ==
  ASSUME \/ todo' = SealFirst
         \/ todo' = <<"withdraw">> \o SealFirst \o <<"report">>
  PROVE  /\ \A i \in Places' : todo'[i] \in {"withdraw", "seal", "mirror", "save", "report"}
         /\ \A i \in Places' : todo'[i] = "save" => Preceded(i, "seal")' /\ Preceded(i, "mirror")'
         /\ \A i \in Places' : todo'[i] \in {"seal", "mirror"} =>
              \E k \in Places' : k > i /\ todo'[k] = "save"
         /\ \E i \in Places' : todo'[i] = "save"
<1>1. CASE todo' = SealFirst
  <2>1. Places' = 1 .. 3 /\ todo'[1] = "seal" /\ todo'[2] = "mirror" /\ todo'[3] = "save"
    BY <1>1 DEF Places, SealFirst
  <2>2. Preceded(3, "seal")' /\ Preceded(3, "mirror")'
    BY <2>1 DEF Preceded
  <2>3. QED
    BY <2>1, <2>2
<1>2. CASE todo' = <<"withdraw">> \o SealFirst \o <<"report">>
  <2>1. /\ Places' = 1 .. 5 /\ todo'[1] = "withdraw" /\ todo'[2] = "seal"
        /\ todo'[3] = "mirror" /\ todo'[4] = "save" /\ todo'[5] = "report"
    BY <1>2, Lists DEF Places
  <2>2. Preceded(4, "seal")' /\ Preceded(4, "mirror")'
    BY <2>1 DEF Preceded
  <2>3. QED
    BY <2>1, <2>2
<1>3. QED
  BY <1>1, <1>2

LEMMA PhaseCompleteFacts ==
  ASSUME IInv, PhaseComplete
  PROVE  /\ Held /\ Record \in Prepared /\ Record.current \in Phases \ Passed(Record)
         /\ Gate(Record.current)
         /\ draft' \in Prepared /\ draft'.commit = Record.commit
         /\ draft'.current = Successor(Record.current)
         /\ Passed(draft') = Passed(Record) \cup {Record.current}
         /\ UNCHANGED <<git, source, tree, sealed, ledger, official>> /\ session' = session
         /\ todo' = SealFirst
<1> DEFINE ph == Record.current
           q  == Successor(ph)
           r  == [Record EXCEPT !.phases[ph] = "succeeded", !.current = q]
<1>1. /\ todo' = SealFirst /\ draft' = r /\ session' = session /\ Held
      /\ Record.phases[ph] = "running" /\ Gate(ph)
      /\ UNCHANGED <<git, source, tree, sealed, ledger, official>>
  BY DEF PhaseComplete, Run
<1>2. Record \in Prepared /\ ph \in Phases
  BY <1>1, HeldRecord
<1>3. q \in Phases /\ ph \notin Passed(Record)
  BY <1>1, <1>2, SuccessorPlace DEF Passed
<1> HIDE DEF ph, q
<1>4. r \in Prepared /\ Passed(r) = Passed(Record) \cup {ph}
  BY <1>2, <1>3, RecordChanges, PassedAfter
<1>5. r.commit = Record.commit /\ r.current = q
  BY <1>2, PreparedType
<1> HIDE DEF r
<1>6. QED
  BY <1>1, <1>2, <1>3, <1>4, <1>5 DEF ph, q

LEMMA FailureFacts ==
  ASSUME IInv, PhaseFail \/ Fail
  PROVE  /\ Held /\ Record \in Prepared /\ Record.current \in Phases
         /\ draft' \in Prepared /\ draft'.commit = Record.commit
         /\ draft'.current = Record.current
         /\ Passed(draft') = Passed(Record) \/ Passed(draft') = Passed(Record) \ {Record.current}
         /\ UNCHANGED <<git, source, tree, sealed, ledger, official>> /\ session' = session
         /\ todo' = <<"withdraw">> \o SealFirst \o <<"report">>
<1>1. /\ Held /\ session' = session
      /\ UNCHANGED <<git, source, tree, sealed, ledger, official>>
      /\ todo' = <<"withdraw">> \o SealFirst \o <<"report">>
  BY DEF PhaseFail, Fail, Failure
<1>2. Record \in Prepared /\ Record.current \in Phases
  BY <1>1, HeldRecord
<1>3. CASE PhaseFail
  <2> DEFINE r == [Record EXCEPT !.status = "failed", !.phases[Record.current] = "failed"]
  <2>1. draft' = r
    BY <1>3 DEF PhaseFail, Failure
  <2>2. r \in Prepared
    BY <1>2, RecordChanges
  <2>3. Passed(r) = Passed(Record) \ {Record.current}
    BY <1>2, PassedAfter
  <2>4. r.commit = Record.commit /\ r.current = Record.current
    BY <1>2, PreparedType
  <2> HIDE DEF r
  <2>5. QED
    BY <1>1, <1>2, <2>1, <2>2, <2>3, <2>4
<1>4. CASE Fail
  <2> DEFINE status == IF Record.phases[Record.current] = "failed" THEN "failed"
                       ELSE "interrupted"
             r == [Record EXCEPT !.status = status]
  <2>1. draft' = r /\ status \in {"running", "succeeded", "failed", "interrupted"}
    BY <1>4 DEF Fail, Failure
  <2> HIDE DEF status
  <2>2. r \in Prepared /\ Passed(r) = Passed(Record)
    BY <1>2, <2>1, RecordChanges, PassedAfter
  <2>3. r.commit = Record.commit /\ r.current = Record.current
    BY <1>2, PreparedType
  <2> HIDE DEF r
  <2>4. QED
    BY <1>1, <1>2, <2>1, <2>2, <2>3
<1>5. QED
  BY <1>3, <1>4

-----------------------------------------------------------------------------
(* The order of the plan is kept *)

\* A change that keeps the phases passed, but perhaps the current one, keeps the order.
LEMMA NearChange ==
  ASSUME NEW r \in Prepared, NEW s \in Prepared, Near(r), r.current \in Phases,
         s.current = r.current, Passed(s) = Passed(r) \/ Passed(s) = Passed(r) \ {r.current}
  PROVE  Near(s)
<1>1. r.current \notin Before(r.current)
  <2>1. Position(r.current) \in Nat
    BY PlanOrder
  <2>2. QED
    BY <2>1, BeforePlace
<1>2. Before(r.current) \subseteq Passed(r) /\ Passed(r) \subseteq Before(r.current) \cup {r.current}
  BY DEF Near, Prepared
<1>3. QED
  BY <1>1, <1>2 DEF Near

\* The first phase has none before it.
LEMMA NearFirst ==
  ASSUME NEW r, Passed(r) = {}, r.current = Plan[1]
  PROVE  Near(r)
<1>1. 1 \in DOMAIN Plan
  BY PlanOrder
<1>2. Position(Plan[1]) = 1
  BY <1>1, PlanOrder
<1>3. Before(Plan[1]) = {}
  BY <1>2 DEF Before
<1>4. QED
  BY <1>3 DEF Near

\* A write moves a record from one place to another.
LEMMA RecordsMove ==
  ASSUME IInv, Write
  PROVE  /\ Record' \in {Record, draft, sealed.dir.record, source.record, NoRecord}
         /\ source'.record = source.record \/ (source'.record = draft /\ todo[1] = "mirror")
         /\ sealed'.dir.record = sealed.dir.record \/ sealed'.dir.record = draft
         /\ draft' = draft \/ draft' = NoRecord
<1>1. /\ 1 \in Places /\ todo[1] \in Writes /\ Head(todo) = todo[1]
      /\ tree' = TreeAfter(todo[1]) /\ source' = SourceAfter(todo[1])
      /\ todo[1] = "worktree" => spent.trees < MaxTrees
  BY Shift, WriteType DEF IInv, Write
<1>2. Record' \in {Record, draft, sealed.dir.record, source.record, NoRecord}
  <2>1. CASE todo[1] \in {"worktree", "remove"}
    BY <1>1, <2>1, TreeAfterType, EmptyType DEF Record, IInv
  <2>2. CASE todo[1] \in {"copy", "restore", "save"}
    BY <1>1, <2>2, TreeAfterType DEF Record, IInv
  <2>3. CASE todo[1] \notin Moves \cup {"save"}
    BY <1>1, <2>3, TreeAfterType DEF Record, IInv
  <2>4. QED
    BY <2>1, <2>2, <2>3 DEF Moves
<1>3. source'.record = source.record \/ (source'.record = draft /\ todo[1] = "mirror")
  <2>1. source \in Dirs /\ tree.dir \in Dirs
    BY DEF IInv, Typed, TypeOK, Trees
  <2>2. QED
    BY <1>1, <2>1 DEF SourceAfter, Dirs
<1>4. /\ sealed'.dir.record = sealed.dir.record \/ sealed'.dir.record = draft
      /\ draft' = draft \/ draft' = NoRecord
  BY WriteRest DEF Write, IInv
<1>5. QED
  BY <1>2, <1>3, <1>4

LEMMA StepInOrder ==
  ASSUME IInv, InOrder, [Next]_vars
  PROVE  InOrder'
<1>1. Near(NoRecord)
  BY DEF Near
<1>2. CASE Write
  BY <1>1, <1>2, RecordsMove DEF InOrder
<1>3. ASSUME UNCHANGED <<source, tree, sealed>>, Near(draft') PROVE InOrder'
  BY <1>3 DEF InOrder, Record
<1>4. ASSUME NEW overrides \in BOOLEAN, Dispatch(overrides) PROVE InOrder'
  BY <1>3, <1>4, DispatchFacts, NearFirst
<1>5. CASE Rebuild \/ Discard \/ UNCHANGED vars
  BY <1>1, <1>3, <1>5 DEF Rebuild, Discard, Run, vars, InOrder
<1>6. CASE Resume
  <2> DEFINE ph == NextPhase(Record)
  <2>1. /\ Record \in Prepared /\ draft'.current = ph /\ Passed(draft') = Passed(Record) \ {ph}
        /\ UNCHANGED <<source, tree, sealed>>
    BY <1>6, ResumeFacts
  <2>2. ph \in Phases /\ Before(ph) \subseteq Passed(Record) /\ Passed(Record) \ {ph} \subseteq Before(ph)
    BY <2>1, NextPhasePlace DEF InOrder
  <2>3. ph \notin Before(ph)
    <3>1. Position(ph) \in Nat
      BY <2>2, PlanOrder
    <3>2. QED
      BY <2>2, <3>1, BeforePlace
  <2> HIDE DEF ph
  <2>4. Near(draft')
    BY <2>1, <2>2, <2>3 DEF Near
  <2>5. QED
    BY <1>3, <2>1, <2>4
<1>7. CASE PhaseStart \/ PhaseFail \/ Fail \/ Complete
  <2>1. /\ Record \in Prepared /\ draft' \in Prepared /\ Record.current \in Phases
        /\ draft'.current = Record.current
        /\ Passed(draft') = Passed(Record) \/ Passed(draft') = Passed(Record) \ {Record.current}
        /\ UNCHANGED <<source, tree, sealed>>
    <3>1. CASE PhaseStart
      BY <3>1, PhaseStartFacts
    <3>2. CASE PhaseFail \/ Fail
      BY <3>2, FailureFacts
    <3>3. CASE Complete
      BY <3>3, CompleteFacts, PreparedType
    <3>4. QED
      BY <1>7, <3>1, <3>2, <3>3
  <2>2. QED
    BY <1>3, <2>1, NearChange DEF InOrder
<1>8. CASE PhaseComplete
  <2> DEFINE ph == Record.current
  <2>1. /\ Record \in Prepared /\ ph \in Phases /\ draft'.current = Successor(ph)
        /\ Passed(draft') = Passed(Record) \cup {ph}
        /\ UNCHANGED <<source, tree, sealed>>
    BY <1>8, PhaseCompleteFacts
  <2>2. Before(ph) \subseteq Passed(Record) /\ Passed(Record) \subseteq Before(ph) \cup {ph}
    BY <2>1 DEF InOrder, Near, Prepared
  <2> HIDE DEF ph
  <2>3. \/ Before(Successor(ph)) = Before(ph) \cup {ph}
        \/ Successor(ph) = ph
    BY <2>1, SuccessorPlace
  <2>4. Near(draft')
    BY <2>1, <2>2, <2>3 DEF Near
  <2>5. QED
    BY <1>3, <2>1, <2>4
<1>9. CASE Working
  <2>1. Record' = Record /\ UNCHANGED <<source, sealed, draft>>
    BY <1>9, WorkingInv DEF Working, PlanJobs, Produce, PhaseReceipt
  <2>2. QED
    BY <2>1 DEF InOrder
<1>10. CASE Leave \/ Kill \/ Undo \/ LoseTree \/ UserCommits
  <2>1. /\ UNCHANGED <<source, sealed>> /\ draft' \in {draft, NoRecord}
        /\ tree' = tree \/ tree' = Gone
    BY <1>10, FaultInv
  <2>2. Record' \in {Record, NoRecord}
    BY <2>1, EmptyType DEF Record, Gone
  <2>3. QED
    BY <1>1, <2>1, <2>2 DEF InOrder
<1>11. QED
  BY <1>2, <1>4, <1>5, <1>6, <1>7, <1>8, <1>9, <1>10 DEF Next
-----------------------------------------------------------------------------
(* The artifacts behind the passed gates are there. *)

Beginning ==
  {"activate", "worktree", "copy", "clearFailure", "markSource", "markTree", "withdraw", "save"}

\* A new analysis is on its way: nothing has passed, and its worktree is, or is going
\* to be, one of its own commit.
Begins ==
  /\ ~Idle /\ todo[Len(todo)] = "save" /\ draft # NoRecord /\ Passed(draft) = {}
  /\ \A i \in Places : todo[i] \in Beginning /\ (todo[i] = "save" => i = Len(todo))
  /\ \/ \E i \in Places : /\ todo[i] = "worktree"
                          /\ git.active = draft.commit \/ Preceded(i, "activate")
     \/ /\ tree.commit = draft.commit
        /\ \A i \in Places : todo[i] # "worktree"

\* What is called passed, or is about to be
Claimed == Passed(Record) \cup Passed(draft)

\* What is called passed has its artifacts, and a reset that is still to come spares them.
Backed ==
  /\ \A i \in Places : todo[i] \notin Moves \ {"remove"}
  /\ Exists =>
       /\ Record # NoRecord /\ tree.commit = Record.commit
       /\ draft # NoRecord => draft.commit = Record.commit
       /\ \A ph \in Claimed : Gate(ph)
       /\ \A i \in Places : todo[i] = "reset" =>
            \A ph \in Claimed : Reads[ph] \subseteq Reads[Cleanup]

Backing == session => Begins \/ Backed

\* What a write makes of the artifacts, and of the commit of the worktree
LEMMA OutputsAfter ==
  ASSUME Typed, NEW w \in Writes
  PROVE  /\ w \notin Moves \cup {"reset"} => TreeAfter(w).dir.outputs = tree.dir.outputs
         /\ w = "reset" => TreeAfter(w).dir.outputs = Kept(tree.dir.outputs)
         /\ w = "copy" => TreeAfter(w).commit = tree.commit
         /\ w = "worktree" => TreeAfter(w).commit = git.active
<1>1. tree \in Trees /\ tree.dir \in Dirs
  BY DEF Typed, TypeOK, Trees
<1>2. CASE w \in {"markTree", "save", "unmark", "reset"}
  BY <1>1, <1>2 DEF TreeAfter, Trees, Dirs, Moves
<1>3. CASE w \in {"copy", "worktree"}
  BY <1>1, <1>3 DEF TreeAfter, Trees, Gone, Moves
<1>4. CASE w \notin {"markTree", "save", "unmark", "reset", "copy", "worktree"}
  BY <1>4 DEF TreeAfter, Moves
<1>5. QED
  BY <1>2, <1>3, <1>4

\* A gate stays passed as long as what it looks at is kept.
LEMMA GateKept ==
  ASSUME NEW ph, Gate(ph), tree'.commit = tree.commit,
         \A q \in Reads[ph] : tree'.dir.outputs[q] = tree.dir.outputs[q]
  PROVE  Gate(ph)'
BY DEF Gate, Current

LEMMA TailLength ==
  ASSUME NEW s \in Seq(Writes), s # <<>>
  PROVE  Len(s) \in Nat /\ Len(s) >= 1 /\ Len(Tail(s)) = Len(s) - 1
OBVIOUS

LEMMA WriteBegins ==
  ASSUME IInv, Begins, Write
  PROVE  Begins' \/ Backed'
<1> DEFINE w == todo[1]
<1>1. /\ 1 \in Places /\ todo \in Seq(Writes) /\ Len(todo) \in Nat /\ Len(todo) # 0
      /\ tree' = TreeAfter(w) /\ git' = GitAfter(w)
      /\ w \in Writes /\ (w = "worktree" => spent.trees < MaxTrees)
      /\ todo # <<>> /\ todo' = Tail(todo) /\ w \in Beginning
  BY Shift, WriteType DEF IInv, Typed, Write, Places, Begins, Idle
<1>2. CASE Len(todo) = 1
  <2>1. w = "save" /\ Places = {1} /\ todo' = <<>>
    BY <1>1, <1>2 DEF Begins, Places
  <2>2. tree.commit = draft.commit
    BY <2>1 DEF Begins
  <2>3. Record' = draft /\ tree'.commit = tree.commit
    BY <1>1, <2>1, TreeAfterType DEF IInv, Record, Moves
  <2>4. draft' = NoRecord /\ Places' = {}
    BY <2>1 DEF Write, Places
  <2>5. Claimed' = {}
    BY <2>3, <2>4, NoRecordType DEF Claimed, Begins
  <2>6. QED
    BY <2>2, <2>3, <2>4, <2>5 DEF Backed, Begins
<1>3. CASE Len(todo) # 1
  <2>1. /\ Len(todo') = Len(todo) - 1 /\ Len(todo') \in Places' /\ todo' # <<>>
        /\ todo'[Len(todo')] = "save" /\ w # "save"
    <3>1. todo \in Seq(Writes) /\ todo # <<>> /\ todo' = Tail(todo) /\ Len(todo) # 1
      BY <1>1, <1>3
    <3>2. /\ Len(todo') = Len(todo) - 1 /\ Len(todo) \in Nat /\ Len(todo) >= 1
          /\ todo' # <<>>
      <4>1. Len(todo) \in Nat /\ Len(todo) >= 1 /\ Len(todo') = Len(todo) - 1
        BY <3>1, TailLength
      <4>2. Len(todo') # 0
        BY <3>1, <4>1
      <4>3. QED
        BY <4>1, <4>2
    <3>3. Len(todo') \in Places' /\ Len(todo') + 1 = Len(todo)
      BY <1>1, <1>3, <3>2 DEF Places
    <3>4. todo'[Len(todo')] = todo[Len(todo') + 1]
      BY <3>3, Shift DEF IInv
    <3>5. QED
      BY <1>1, <1>3, <3>2, <3>3, <3>4 DEF Begins
  <2>2. draft' = draft
    BY <2>1, WriteRest DEF IInv
  <2>3. ASSUME NEW i \in Places'
        PROVE  todo'[i] \in Beginning /\ (todo'[i] = "save" => i = Len(todo'))
    <3>1. i + 1 \in Places /\ i \in Nat /\ todo'[i] = todo[i + 1]
      BY Shift DEF IInv
    <3>2. todo[i + 1] \in Beginning /\ (todo[i + 1] = "save" => i + 1 = Len(todo))
      BY <3>1 DEF Begins
    <3>3. i + 1 = Len(todo) => i = Len(todo')
      <4>1. i \in Nat /\ Len(todo) \in Nat /\ Len(todo') = Len(todo) - 1
        BY <1>1, <2>1, <3>1
      <4>2. QED
        BY <4>1
    <3>4. QED
      BY <3>1, <3>2, <3>3
  <2>4. CASE \E i \in Places : /\ todo[i] = "worktree"
                               /\ git.active = draft.commit \/ Preceded(i, "activate")
    <3>1. PICK i \in Places : /\ todo[i] = "worktree"
                              /\ git.active = draft.commit \/ Preceded(i, "activate")
      BY <2>4
    <3>2. CASE i = 1
      <4>1. ~Preceded(1, "activate")
        BY DEF Preceded
      <4>2. tree'.commit = draft'.commit
        BY <1>1, <2>2, <3>1, <3>2, <4>1, OutputsAfter DEF IInv
      <4>3. ASSUME NEW j \in Places', todo'[j] = "worktree" PROVE FALSE
        <5>1. j + 1 \in Places /\ todo[j + 1] = "worktree"
          BY <4>3, Shift DEF IInv
        <5>2. Clear(j + 1, {"worktree"})
          BY <5>1 DEF IInv, WorktreeFits
        <5>3. QED
          BY <3>1, <3>2, <4>3, <5>2, ClearShift DEF IInv
      <4>4. QED
        BY <2>1, <2>2, <2>3, <4>2, <4>3 DEF Begins, Idle
    <3>3. CASE i # 1
      <4>1. i - 1 \in Places' /\ todo'[i - 1] = "worktree" /\ (i - 1) + 1 = i
        BY <3>1, <3>3, Shift DEF IInv, Places
      <4>2. Preceded(i, "activate") => Preceded(i - 1, "activate")' \/ w = "activate"
        BY <4>1, PrecededShift DEF IInv
      <4>3. w = "activate" => git'.active = draft.commit
        BY <1>1 DEF GitAfter, IInv, Typed, TypeOK
      <4>4. w # "activate" => git'.active = git.active
        BY <1>1 DEF GitAfter, Beginning
      <4>5. git'.active = draft'.commit \/ Preceded(i - 1, "activate")'
        BY <2>2, <3>1, <4>2, <4>3, <4>4
      <4>6. QED
        BY <2>1, <2>2, <2>3, <4>1, <4>5 DEF Begins, Idle
    <3>4. QED
      BY <3>2, <3>3
  <2>5. CASE tree.commit = draft.commit /\ \A i \in Places : todo[i] # "worktree"
    <3>1. w # "worktree"
      BY <1>1, <2>5
    <3>2. tree'.commit = tree.commit
      BY <1>1, <3>1, TreeAfterType, OutputsAfter DEF IInv, Beginning, Moves
    <3>3. \A i \in Places' : todo'[i] # "worktree"
      BY <2>5, Shift DEF IInv
    <3>4. QED
      BY <2>1, <2>2, <2>3, <2>5, <3>2, <3>3 DEF Begins, Idle
  <2>6. QED
    BY <2>4, <2>5 DEF Begins
<1>4. QED
  BY <1>2, <1>3

LEMMA WriteBacked ==
  ASSUME IInv, Backed, Write
  PROVE  Backed'
<1> DEFINE w == todo[1]
<1>1. /\ 1 \in Places /\ tree' = TreeAfter(w) /\ w \in Writes /\ w \notin Moves \ {"remove"}
      /\ w = "worktree" => spent.trees < MaxTrees
  BY Shift, WriteType DEF IInv, Backed
<1>2. \A i \in Places' : i + 1 \in Places /\ todo'[i] = todo[i + 1]
  BY Shift DEF IInv
<1>3. \A i \in Places' : todo'[i] \notin Moves \ {"remove"}
  BY <1>2 DEF Backed
<1>4. CASE w = "remove"
  <2>1. ~Exists'
    BY <1>1, <1>4, TreeAfterType DEF IInv, Exists
  <2>2. QED
    BY <1>3, <2>1 DEF Backed
<1>5. CASE w # "remove" /\ Exists'
  <2>1. w \notin Moves
    BY <1>1, <1>5
  <2>2. Exists /\ tree'.commit = tree.commit
    BY <1>1, <1>5, <2>1, TreeAfterType DEF IInv, Exists
  <2>3. /\ Record # NoRecord /\ tree.commit = Record.commit
        /\ draft # NoRecord => draft.commit = Record.commit
        /\ \A ph \in Claimed : Gate(ph)
    BY <2>2 DEF Backed
  <2>4. Record' = Record \/ (Record' = draft /\ draft # NoRecord)
    <3>1. CASE w = "save"
      <4>1. draft # NoRecord
        BY <1>1, <3>1 DEF IInv, SaveIsSealed
      <4>2. QED
        BY <1>1, <3>1, <4>1, TreeAfterType DEF IInv, Record
    <3>2. CASE w # "save"
      BY <1>1, <2>1, <3>2, TreeAfterType DEF IInv, Record
    <3>3. QED
      BY <3>1, <3>2
  <2>5. draft' = draft \/ draft' = NoRecord
    BY DEF Write
  <2>6. Claimed' \subseteq Claimed
    BY <2>4, <2>5, NoRecordType DEF Claimed
  <2>7. ASSUME NEW ph \in Claimed PROVE Gate(ph)'
    <3>1. CASE w = "reset"
      <4>1. Reads[ph] \subseteq Reads[Cleanup]
        BY <1>1, <2>2, <2>7, <3>1 DEF Backed
      <4>2. tree'.dir.outputs = Kept(tree.dir.outputs)
        BY <1>1, <3>1, OutputsAfter DEF IInv
      <4>3. Reads[Cleanup] \subseteq Phases
        BY PlanAssumption
      <4>4. \A q \in Reads[ph] : tree'.dir.outputs[q] = tree.dir.outputs[q]
        BY <4>1, <4>2, <4>3 DEF Kept
      <4>5. QED
        BY <2>2, <2>3, <2>7, <4>4, GateKept
    <3>2. CASE w # "reset"
      <4>1. tree'.dir.outputs = tree.dir.outputs
        BY <1>1, <2>1, <3>2, OutputsAfter DEF IInv
      <4>2. QED
        BY <2>2, <2>3, <2>7, <4>1, GateKept
    <3>3. QED
      BY <3>1, <3>2
  <2>8. /\ Record' # NoRecord /\ tree'.commit = Record'.commit
        /\ draft' # NoRecord => draft'.commit = Record'.commit
    BY <2>2, <2>3, <2>4, <2>5
  <2>9. \A i \in Places' : todo'[i] = "reset" =>
          \A ph \in Claimed' : Reads[ph] \subseteq Reads[Cleanup]
    BY <1>2, <2>2, <2>6 DEF Backed
  <2>10. QED
    BY <1>3, <2>6, <2>7, <2>8, <2>9 DEF Backed
<1>6. CASE ~Exists'
  BY <1>3, <1>6 DEF Backed
<1>7. QED
  BY <1>4, <1>5, <1>6

\* A Coordinator that is not at work with a command has what it calls passed.
LEMMA HeldBacked ==
  ASSUME IInv, Backing, Held
  PROVE  /\ tree.commit = Record.commit /\ \A ph \in Passed(Record) : Gate(ph)
         /\ Backed /\ session /\ Exists
BY DEF Backing, Held, Begins, Backed, Claimed

\* A command that a Coordinator begins, on artifacts that are there
LEMMA CommandBacked ==
  ASSUME Exists, Record # NoRecord, tree.commit = Record.commit,
         UNCHANGED <<tree, sealed>>, draft'.commit = Record.commit,
         \A ph \in Passed(Record) \cup Passed(draft') : Gate(ph),
         \A i \in Places' : todo'[i] \notin Moves \ {"remove"},
         \A i \in Places' : todo'[i] = "reset" =>
           \A ph \in Passed(Record) \cup Passed(draft') : Reads[ph] \subseteq Reads[Cleanup]
  PROVE  Backed'
<1>1. Record' = Record /\ Claimed' = Passed(Record) \cup Passed(draft')
  BY DEF Record, Claimed
<1>2. \A ph : Gate(ph)' = Gate(ph)
  BY DEF Gate, Current
<1>3. QED
  BY <1>1, <1>2 DEF Backed

LEMMA DispatchBegins ==
  ASSUME IInv, NEW overrides \in BOOLEAN, Dispatch(overrides)
  PROVE  Begins'
<1>1. /\ draft' # NoRecord /\ Passed(draft') = {} /\ Len(todo') = 8 /\ Places' = 1 .. 8
      /\ todo'[1] = "activate" /\ todo'[2] = "worktree" /\ todo'[3] = "copy"
      /\ todo'[4] = "clearFailure" /\ todo'[5] = "markSource" /\ todo'[6] = "markTree"
      /\ todo'[7] = "withdraw" /\ todo'[8] = "save"
  BY DispatchFacts DEF Prepared
<1>2. todo' # <<>>
  BY <1>1
<1>3. \A i \in 1 .. 8 : todo'[i] \in Beginning /\ (todo'[i] = "save" => i = 8)
  BY <1>1 DEF Beginning
<1>4. Preceded(2, "activate")'
  BY <1>1 DEF Preceded
<1>5. QED
  BY <1>1, <1>2, <1>3, <1>4 DEF Begins, Idle

LEMMA ResumeBacked ==
  ASSUME IInv, Resume
  PROVE  Backed'
<1>1. \A i \in Places' : todo'[i] \notin Moves \cup {"reset"}
  BY ResumeFacts DEF Moves
<1>2. QED
  BY <1>1, ResumeFacts, CommandBacked DEF Prepared

LEMMA PhaseStartBacked ==
  ASSUME IInv, InOrder, Backing, PhaseStart
  PROVE  Backed'
<1>1. /\ Held /\ Record # NoRecord /\ draft'.commit = Record.commit
      /\ Record.current \notin Passed(Record) /\ Passed(draft') = Passed(Record)
      /\ UNCHANGED <<tree, sealed>>
  BY PhaseStartFacts DEF Prepared
<1>2. Exists /\ tree.commit = Record.commit /\ \A ph \in Passed(Record) : Gate(ph)
  BY <1>1, HeldBacked
<1>3. \A i \in Places' : todo'[i] \notin Moves
  BY PhaseStartFacts DEF Moves
<1>4. Record.current = Cleanup => \A ph \in Passed(Record) : Reads[ph] \subseteq Reads[Cleanup]
  BY <1>1, GatesAssumption DEF InOrder, Near
<1>5. \A i \in Places' : todo'[i] = "reset" => Record.current = Cleanup
  BY PhaseStartFacts
<1>6. QED
  BY <1>1, <1>2, <1>3, <1>4, <1>5, CommandBacked

LEMMA SealBacked ==
  ASSUME IInv, Backing, PhaseComplete \/ PhaseFail \/ Fail
  PROVE  Backed'
<1>1. /\ Held /\ Record # NoRecord /\ draft'.commit = Record.commit
      /\ UNCHANGED <<tree, sealed>>
      /\ Passed(draft') \subseteq Passed(Record) \/ PhaseComplete
      /\ \/ todo' = SealFirst
         \/ todo' = <<"withdraw">> \o SealFirst \o <<"report">>
  BY PhaseCompleteFacts, FailureFacts DEF Prepared
<1>2. Exists /\ tree.commit = Record.commit /\ \A ph \in Passed(Record) : Gate(ph)
  BY <1>1, HeldBacked
<1>3. \A ph \in Passed(draft') : Gate(ph)
  BY <1>1, <1>2, PhaseCompleteFacts
<1>4. \A i \in Places' : todo'[i] \notin Moves \cup {"reset"}
  BY <1>1, SealOrder DEF Moves
<1>5. QED
  BY <1>1, <1>2, <1>3, <1>4, CommandBacked

LEMMA CompleteBacked ==
  ASSUME IInv, Backing, Complete
  PROVE  Backed'
<1>1. /\ Held /\ Record # NoRecord /\ draft'.commit = Record.commit
      /\ UNCHANGED <<tree, sealed>> /\ Passed(draft') = Passed(Record)
  BY CompleteFacts DEF Prepared
<1>2. Exists /\ tree.commit = Record.commit /\ \A ph \in Passed(Record) : Gate(ph)
  BY <1>1, HeldBacked
<1>3. \A i \in 1 .. 13 : todo'[i] \notin (Moves \ {"remove"}) \cup {"reset"}
  BY CompleteFacts DEF Moves
<1>4. Places' = 1 .. 13
  BY CompleteFacts
<1>5. QED
  BY <1>1, <1>2, <1>3, <1>4, CommandBacked

\* The artifacts of a Worker are of the commit that is analysed.
LEMMA WorkingBacked ==
  ASSUME IInv, Backing, Working
  PROVE  Backed'
<1>1. PICK ph \in Phases : PlanJobs(ph) \/ Produce(ph) \/ PhaseReceipt(ph)
  BY DEF Working
<1>2. Held /\ UNCHANGED <<todo, draft>> /\ Record' = Record
  BY <1>1, WorkingInv DEF PlanJobs, Produce, PhaseReceipt
<1>3. /\ Backed /\ Exists /\ Record \in Prepared /\ Places = {} /\ tree.commit = Record.commit
      /\ tree \in Trees /\ tree.dir \in Dirs
  BY <1>2, HeldBacked, HeldRecord DEF IInv, Typed, TypeOK, Trees
<1>4. tree.commit # None
  BY <1>3, PreparedType, PlanAssumption
<1>5. /\ tree'.commit = tree.commit
      /\ \A q \in Phases : \/ tree'.dir.outputs[q] = tree.dir.outputs[q]
                           \/ tree'.dir.outputs[q] = tree.commit
  BY <1>1, <1>3 DEF PlanJobs, Produce, PhaseReceipt, Trees, Dirs
<1>6. Claimed' = Claimed /\ Claimed \subseteq Phases
  BY <1>2 DEF Claimed, Passed
<1>7. ASSUME NEW q \in Claimed PROVE Gate(q)'
  <2>1. Gate(q) /\ Reads[q] \subseteq Phases
    BY <1>3, <1>6, <1>7, PlanAssumption DEF Backed
  <2>2. QED
    BY <1>4, <1>5, <2>1 DEF Gate, Current
<1>8. Places' = {}
  BY <1>2, <1>3 DEF Places
<1>9. draft' # NoRecord => draft'.commit = Record'.commit
  BY <1>2, <1>3 DEF Backed
<1>10. QED
  BY <1>2, <1>3, <1>5, <1>6, <1>7, <1>8, <1>9 DEF Backed, Prepared

LEMMA StepBacking ==
  ASSUME IInv, InOrder, Backing, [Next]_vars
  PROVE  Backing'
<1>1. CASE Write
  BY <1>1, WriteBegins, WriteBacked DEF Backing, Write
<1>2. ASSUME NEW overrides \in BOOLEAN, Dispatch(overrides) PROVE Backing'
  BY <1>2, DispatchBegins DEF Backing
<1>3. CASE Rebuild \/ Discard
  BY <1>3 DEF Rebuild, Discard, Backing
<1>4. CASE Resume \/ PhaseStart \/ PhaseComplete \/ PhaseFail \/ Fail \/ Complete \/ Working
  BY <1>4, ResumeBacked, PhaseStartBacked, SealBacked, CompleteBacked, WorkingBacked DEF Backing
<1>5. CASE Leave \/ Kill \/ Undo \/ LoseTree \/ UserCommits
  BY <1>5, FaultInv DEF Backing
<1>6. CASE UNCHANGED vars
  <2>1. Begins' = Begins
    BY <1>6 DEF vars, Begins, Idle, Places, Preceded
  <2>2. Backed' = Backed
    BY <1>6 DEF vars, Backed, Places, Exists, Record, Claimed, Gate, Current
  <2>3. QED
    BY <1>6, <2>1, <2>2 DEF vars, Backing
<1>7. QED
  BY <1>1, <1>2, <1>3, <1>4, <1>5, <1>6 DEF Next

LEMMA InitBacking == Init => InOrder /\ Backing
<1> SUFFICES ASSUME Init PROVE InOrder /\ Backing
  OBVIOUS
<1>1. Record = NoRecord /\ source.record = NoRecord /\ sealed.dir.record = NoRecord
  BY EmptyType DEF Init, Record, Gone
<1>2. QED
  BY <1>1 DEF Init, InOrder, Near, Backing

THEOREM BackingInvariant == Spec => [](IInv /\ InOrder /\ Backing)
<1>1. Init => IInv /\ InOrder /\ Backing
  BY InitInv, InitBacking
<1>2. IInv /\ InOrder /\ Backing /\ [Next]_vars => (IInv /\ InOrder /\ Backing)'
  BY StepInv, StepInOrder, StepBacking
<1>3. QED
  BY <1>1, <1>2, PTL DEF Spec

\* Whenever a Coordinator can work in the worktree, the gate of every phase its record
\* calls passed would pass again: no reset, resume, rebuild, kill or lost worktree
\* takes the artifacts away behind a passed gate.
THEOREM ArtifactsStay == Spec => []PassedHasOutputs
<1>1. IInv /\ Backing => PassedHasOutputs
  BY HeldBacked DEF PassedHasOutputs
<1>2. QED
  BY <1>1, BackingInvariant, PTL
-----------------------------------------------------------------------------
(* An official result is complete. *)

\* A checkpoint of an analysis that has passed every phase on its own artifacts
Full(dir) ==
  /\ Passed(dir.record) = Phases
  /\ \A ph \in Phases : \A q \in Reads[ph] :
       /\ dir.outputs[q] # None
       /\ q \in Stamped => dir.outputs[q] = dir.record.commit

AllButLast(r) == Phases \ {Last} \subseteq Passed(r)

\* A checkpoint is taken of the worktree a Coordinator works in, and before its record
\* is saved.
Sealing ==
  \A i \in Places : todo[i] \in {"seal", "mirror"} =>
    /\ session /\ Exists /\ Clear(i, Moves)
    /\ \E k \in Places : k > i /\ todo[k] = "save"

AuthorizeFirst == \A i \in Places : todo[i] = "authorize" => i = 1

\* Is the result official when the write at i is made?
Stands(i) ==
  \/ official /\ Clear(i, {"withdraw"})
  \/ Preceded(i, "authorize")

\* While a result is official no record is sealed that has not passed every phase, and
\* none is saved that has not passed every phase but the last.
Honest ==
  \A i \in Places : Stands(i) =>
    /\ todo[i] = "save" => AllButLast(draft)
    /\ todo[i] \in {"seal", "mirror"} => Passed(draft) = Phases

\* Every record that is going to be saved has passed every phase.
SavesPassed == (\E i \in Places : todo[i] = "save") => Passed(draft) = Phases

\* A record that has passed every phase is sealed, and mirrored, before it is saved.
SealedBeforeSaved ==
  /\ \A i \in Places : todo[i] = "save" /\ Passed(draft) = Phases =>
       /\ Preceded(i, "seal") \/ Full(sealed.dir)
       /\ Preceded(i, "mirror") \/ AllButLast(source.record)
  /\ session /\ Exists /\ Passed(Record) = Phases /\ SavesPassed =>
       Full(sealed.dir) /\ AllButLast(source.record)

OfficialKept ==
  official \/ (1 \in Places /\ todo[1] = "authorize") =>
    /\ Full(sealed.dir) /\ AllButLast(source.record)
    /\ Record = NoRecord \/ AllButLast(Record)

Final == Sealing /\ AuthorizeFirst /\ Honest /\ SealedBeforeSaved /\ OfficialKept

LEMMA LastPhase == Last \in Phases /\ Phases # {}
BY PlanOrder DEF Last

LEMMA ClearUnshift ==
  ASSUME Typed, Write, NEW i \in Places', NEW W, Clear(i, W)', todo[1] \notin W
  PROVE  Clear(i + 1, W)
<1> SUFFICES ASSUME NEW j \in 1 .. (i + 1) - 1 PROVE todo[j] \notin W
  BY DEF Clear
<1>1. i \in 1 .. Len(todo') /\ Len(todo') \in Nat
  BY Shift DEF Places
<1>2. CASE j # 1
  <2>1. j - 1 \in 1 .. i - 1 /\ j - 1 \in Places' /\ (j - 1) + 1 = j
    BY <1>1, <1>2 DEF Places
  <2>2. todo'[j - 1] = todo[j]
    BY <2>1, Shift
  <2>3. QED
    BY <2>1, <2>2 DEF Clear
<1>3. QED
  BY <1>2

LEMMA PrecededUnshift ==
  ASSUME Typed, Write, NEW i \in Places', NEW w, Preceded(i, w)' \/ todo[1] = w
  PROVE  Preceded(i + 1, w)
<1>1. i \in 1 .. Len(todo') /\ Len(todo') \in Nat
  BY Shift DEF Places
<1>2. CASE todo[1] = w
  BY <1>1, <1>2 DEF Preceded
<1>3. CASE Preceded(i, w)'
  <2>1. PICK j \in 1 .. i - 1 : todo'[j] = w
    BY <1>3 DEF Preceded
  <2>2. j \in Places' /\ j + 1 \in 1 .. (i + 1) - 1
    BY <1>1 DEF Places
  <2>3. todo[j + 1] = w
    BY <2>1, <2>2, Shift
  <2>4. QED
    BY <2>2, <2>3 DEF Preceded
<1>4. QED
  BY <1>2, <1>3

\* What a Coordinator that has passed every phase knows when it seals or mirrors
LEMMA SealsAll ==
  ASSUME IInv, Backing, Sealing, 1 \in Places, todo[1] \in {"seal", "mirror"},
         Passed(draft) = Phases
  PROVE  /\ tree.commit = draft.commit
         /\ \A ph \in Phases : Gate(ph)
<1>1. session /\ Exists
  BY DEF Sealing
<1>2. Passed(draft) # {} /\ draft # NoRecord
  BY LastPhase, NoRecordType
<1>3. Backed
  BY <1>1, <1>2 DEF Backing, Begins
<1>4. QED
  BY <1>1, <1>2, <1>3 DEF Backed, Claimed

\* A complete result that is sealed and mirrored is there afterwards.
LEMMA WriteFull ==
  ASSUME IInv, Backing, Sealing, Write, Passed(draft) = Phases
  PROVE  /\ todo[1] = "seal" \/ Full(sealed.dir) => Full(sealed'.dir)
         /\ todo[1] = "mirror" \/ AllButLast(source.record) => AllButLast(source'.record)
<1>1. 1 \in Places /\ Head(todo) = todo[1]
  BY Shift DEF IInv
<1>2. tree.dir \in Dirs
  BY DEF IInv, Typed, TypeOK, Trees
<1>3. CASE todo[1] = "seal"
  <2>1. tree.commit = draft.commit /\ \A ph \in Phases : Gate(ph)
    BY <1>1, <1>3, SealsAll
  <2>2. sealed'.dir = [tree.dir EXCEPT !.record = draft]
    BY <1>1, <1>3 DEF Write, SealedAfter
  <2>3. sealed'.dir.record = draft /\ sealed'.dir.outputs = tree.dir.outputs
    BY <1>2, <2>2 DEF Dirs
  <2>4. Full(sealed'.dir)
    BY <2>1, <2>3 DEF Full, Gate, Current
  <2>5. source'.record = source.record
    BY <1>3, RecordsMove
  <2>6. QED
    BY <1>3, <2>4, <2>5 DEF AllButLast
<1>4. CASE todo[1] = "mirror"
  <2>1. \A ph \in Phases : Gate(ph)
    BY <1>1, <1>4, SealsAll
  <2>2. PICK ph \in Phases : Reads[ph] # {}
    BY GatesAssumption
  <2>3. PICK q \in Reads[ph] : q \in Phases
    BY <2>2, PlanAssumption
  <2>4. tree.dir.outputs[q] # None
    BY <2>1, <2>3 DEF Gate, Current
  <2>5. tree.dir.outputs # Empty.outputs
    BY <2>3, <2>4 DEF Empty
  <2>6. source'.record = draft
    BY <1>1, <1>2, <1>4, <2>5 DEF Write, SourceAfter, Dirs
  <2>7. sealed' = sealed
    BY <1>1, <1>4 DEF Write, SealedAfter
  <2>8. QED
    BY <1>4, <2>6, <2>7 DEF AllButLast
<1>5. CASE todo[1] \notin {"seal", "mirror"}
  <2>1. sealed' = sealed /\ source'.record = source.record
    BY <1>1, <1>5, RecordsMove DEF Write, SealedAfter
  <2>2. QED
    BY <1>5, <2>1
<1>6. QED
  BY <1>3, <1>4, <1>5

LEMMA WriteSealing ==
  ASSUME IInv, Sealing, Write
  PROVE  Sealing'
<1> SUFFICES ASSUME NEW i \in Places', todo'[i] \in {"seal", "mirror"}
             PROVE  /\ session' /\ Exists' /\ Clear(i, Moves)'
                    /\ \E k \in Places' : k > i /\ todo'[k] = "save"
  BY DEF Sealing
<1>1. /\ i + 1 \in Places /\ i \in Nat /\ i >= 1 /\ todo[i + 1] = todo'[i]
      /\ 1 \in Places /\ todo[1] \in Writes /\ tree' = TreeAfter(todo[1])
      /\ todo[1] = "worktree" => spent.trees < MaxTrees
  BY Shift, WriteType DEF IInv, Places
<1>2. session /\ Exists /\ Clear(i + 1, Moves)
  BY <1>1 DEF Sealing
<1>3. Clear(i, Moves)' /\ todo[1] \notin Moves
  BY <1>2, ClearShift DEF IInv
<1>4. Exists' /\ session'
  BY <1>1, <1>2, <1>3, TreeAfterType DEF IInv, Exists, Write
<1>5. PICK k \in Places : k > i + 1 /\ todo[k] = "save"
  BY <1>1 DEF Sealing
<1>6. k - 1 \in Places' /\ todo'[k - 1] = "save" /\ k - 1 > i
  BY <1>1, <1>5, Shift DEF IInv, Places
<1>7. QED
  BY <1>3, <1>4, <1>6

LEMMA WriteAuthorizeFirst ==
  ASSUME IInv, AuthorizeFirst, Write
  PROVE  \A i \in Places' : todo'[i] # "authorize"
<1> SUFFICES ASSUME NEW i \in Places', todo'[i] = "authorize" PROVE FALSE
  OBVIOUS
<1>1. i + 1 \in Places /\ i \in Nat /\ i >= 1 /\ todo[i + 1] = "authorize"
  BY Shift DEF IInv, Places
<1>2. QED
  BY <1>1 DEF AuthorizeFirst

LEMMA WriteHonest ==
  ASSUME IInv, Honest, Write
  PROVE  Honest'
<1> SUFFICES ASSUME NEW i \in Places', Stands(i)'
             PROVE  /\ todo'[i] = "save" => AllButLast(draft')
                    /\ todo'[i] \in {"seal", "mirror"} => Passed(draft') = Phases
  BY DEF Honest
<1>1. i + 1 \in Places /\ todo[i + 1] = todo'[i] /\ draft' = draft /\ Head(todo) = todo[1]
  BY Shift, WriteRest DEF IInv
<1>2. ASSUME Preceded(i, "authorize")' \/ todo[1] = "authorize" PROVE Stands(i + 1)
  BY <1>2, PrecededUnshift DEF IInv, Stands
<1>3. ASSUME official', Clear(i, {"withdraw"})', todo[1] # "authorize" PROVE Stands(i + 1)
  <2>1. official /\ todo[1] # "withdraw"
    BY <1>1, <1>3 DEF Write
  <2>2. Clear(i + 1, {"withdraw"})
    BY <1>3, <2>1, ClearUnshift DEF IInv
  <2>3. QED
    BY <2>1, <2>2 DEF Stands
<1>4. Stands(i + 1)
  BY <1>2, <1>3 DEF Stands
<1>5. QED
  BY <1>1, <1>4 DEF Honest

LEMMA WriteSealedBeforeSaved ==
  ASSUME IInv, Backing, Sealing, SealedBeforeSaved, Write
  PROVE  SealedBeforeSaved'
<1> DEFINE w == todo[1]
<1>1. /\ 1 \in Places /\ tree' = TreeAfter(w) /\ w \in Writes /\ session' = session
      /\ w = "worktree" => spent.trees < MaxTrees
  BY Shift, WriteType DEF IInv, Write
<1>2. ASSUME NEW k \in Places, k # 1, todo[k] = "save"
      PROVE  draft' = draft /\ \E i \in Places' : todo'[i] = "save"
  BY <1>2, Shift, WriteRest DEF IInv
<1>3. ASSUME NEW i \in Places', todo'[i] = "save", Passed(draft') = Phases
      PROVE  /\ Preceded(i, "seal")' \/ Full(sealed'.dir)
             /\ Preceded(i, "mirror")' \/ AllButLast(source'.record)
  <2>1. i + 1 \in Places /\ todo[i + 1] = "save" /\ draft' = draft
    BY <1>3, Shift, WriteRest DEF IInv
  <2>2. /\ Preceded(i + 1, "seal") \/ Full(sealed.dir)
        /\ Preceded(i + 1, "mirror") \/ AllButLast(source.record)
    BY <1>3, <2>1 DEF SealedBeforeSaved
  <2>3. /\ Preceded(i + 1, "seal") => Preceded(i, "seal")' \/ w = "seal"
        /\ Preceded(i + 1, "mirror") => Preceded(i, "mirror")' \/ w = "mirror"
    BY PrecededShift DEF IInv
  <2>4. /\ w = "seal" \/ Full(sealed.dir) => Full(sealed'.dir)
        /\ w = "mirror" \/ AllButLast(source.record) => AllButLast(source'.record)
    BY <1>3, <2>1, WriteFull
  <2>5. QED
    BY <2>2, <2>3, <2>4
<1>4. ASSUME session', Exists', Passed(Record') = Phases, SavesPassed'
      PROVE  Full(sealed'.dir) /\ AllButLast(source'.record)
  <2>1. CASE w = "save"
    <3>1. Record' = draft
      BY <1>1, <2>1, TreeAfterType DEF IInv, Record
    <3>2. ~Preceded(1, "seal") /\ ~Preceded(1, "mirror")
      BY DEF Preceded
    <3>3. Full(sealed.dir) /\ AllButLast(source.record)
      BY <1>1, <1>4, <2>1, <3>1, <3>2 DEF SealedBeforeSaved
    <3>4. QED
      BY <1>4, <3>1, <3>3, WriteFull
  <2>2. CASE w = "remove"
    BY <1>1, <1>4, <2>2, TreeAfterType DEF IInv, Exists
  <2>3. CASE w \in Moves \ {"remove"}
    <3>1. PICK k \in Places : k > 1 /\ todo[k] = "save"
      BY <1>1, <1>4, <2>3 DEF IInv, RecordKnown
    <3>2. Passed(draft) = Phases
      BY <1>2, <1>4, <3>1 DEF SavesPassed
    <3>3. Clear(k, Moves \cup {"save"})
      BY <3>1, <3>2, LastPhase DEF IInv, SaveIsSealed
    <3>4. 1 \in 1 .. k - 1
      BY <3>1 DEF Places
    <3>5. QED
      BY <2>3, <3>3, <3>4 DEF Clear
  <2>4. CASE w \notin Moves \cup {"save"}
    <3>1. Record' = Record /\ Exists
      BY <1>1, <1>4, <2>4, TreeAfterType DEF IInv, Record, Exists
    <3>2. ASSUME NEW k \in Places, todo[k] = "save" PROVE Passed(draft) = Phases
      <4>1. k # 1
        BY <2>4, <3>2
      <4>2. QED
        BY <1>2, <1>4, <3>2, <4>1 DEF SavesPassed
    <3>3. Full(sealed.dir) /\ AllButLast(source.record)
      BY <1>1, <1>4, <3>1, <3>2 DEF SealedBeforeSaved, SavesPassed
    <3>4. CASE w \in {"seal", "mirror"}
      <4>1. \E k \in Places : todo[k] = "save"
        BY <1>1, <3>4 DEF Sealing
      <4>2. Passed(draft) = Phases
        BY <3>2, <4>1
      <4>3. QED
        BY <3>3, <4>2, WriteFull
    <3>5. CASE w \notin {"seal", "mirror"}
      <4>1. sealed' = sealed /\ source'.record = source.record
        BY <1>1, <3>5, Shift, RecordsMove DEF Write, SealedAfter, IInv
      <4>2. QED
        BY <3>3, <4>1 DEF AllButLast
    <3>6. QED
      BY <3>4, <3>5
  <2>5. QED
    BY <2>1, <2>2, <2>3, <2>4 DEF Moves
<1>5. QED
  BY <1>3, <1>4 DEF SealedBeforeSaved

LEMMA WriteOfficialKept ==
  ASSUME IInv, Backing, Final, Write
  PROVE  OfficialKept'
<1> DEFINE w == todo[1]
<1> SUFFICES ASSUME official'
             PROVE  /\ Full(sealed'.dir) /\ AllButLast(source'.record)
                    /\ Record' = NoRecord \/ AllButLast(Record')
  BY WriteAuthorizeFirst DEF OfficialKept, Final
<1>1. /\ 1 \in Places /\ Head(todo) = w /\ tree' = TreeAfter(w) /\ w \in Writes
      /\ w = "worktree" => spent.trees < MaxTrees
  BY Shift, WriteType DEF IInv
<1>2. w = "authorize" \/ (official /\ w # "withdraw")
  BY <1>1 DEF Write
<1>3. /\ Full(sealed.dir) /\ AllButLast(source.record)
      /\ Record = NoRecord \/ AllButLast(Record)
  BY <1>1, <1>2 DEF Final, OfficialKept
<1>4. w # "authorize" => Stands(1)
  BY <1>2 DEF Stands, Clear
<1>5. CASE w \in {"seal", "mirror"}
  <2>1. Passed(draft) = Phases
    BY <1>1, <1>4, <1>5 DEF Final, Honest
  <2>2. Full(sealed'.dir) /\ AllButLast(source'.record)
    BY <1>3, <2>1, WriteFull DEF Final
  <2>3. Record' = Record
    BY <1>1, <1>5, TreeAfterType DEF IInv, Record, Moves
  <2>4. QED
    BY <1>3, <2>2, <2>3
<1>6. CASE w = "save"
  <2>1. AllButLast(draft) /\ Record' = draft
    BY <1>1, <1>4, <1>6, TreeAfterType DEF Final, Honest, IInv, Record
  <2>2. sealed' = sealed /\ source'.record = source.record
    BY <1>1, <1>6, RecordsMove DEF Write, SealedAfter
  <2>3. QED
    BY <1>3, <2>1, <2>2 DEF AllButLast
<1>7. CASE w \notin {"seal", "mirror", "save"}
  <2>1. sealed' = sealed /\ source'.record = source.record
    BY <1>1, <1>7, RecordsMove DEF Write, SealedAfter
  <2>2. Record' \in {Record, sealed.dir.record, source.record, NoRecord}
    <3>1. CASE w \in {"worktree", "remove"}
      BY <1>1, <3>1, TreeAfterType, EmptyType DEF Record, IInv
    <3>2. CASE w \in {"copy", "restore"}
      BY <1>1, <3>2, TreeAfterType DEF Record, IInv
    <3>3. CASE w \notin Moves
      BY <1>1, <1>7, <3>3, TreeAfterType DEF Record, IInv
    <3>4. QED
      BY <3>1, <3>2, <3>3 DEF Moves
  <2>3. AllButLast(sealed.dir.record)
    BY <1>3 DEF Full, AllButLast
  <2>4. QED
    BY <1>3, <2>1, <2>2, <2>3 DEF AllButLast
<1>8. QED
  BY <1>5, <1>6, <1>7

LEMMA WriteFinal ==
  ASSUME IInv, Backing, Final, Write
  PROVE  Final'
<1>1. AuthorizeFirst'
  BY WriteAuthorizeFirst DEF Final, AuthorizeFirst
<1>2. QED
  BY <1>1, WriteSealing, WriteHonest, WriteSealedBeforeSaved, WriteOfficialKept DEF Final

\* A command that does not begin with making the result official keeps what it was.
LEMMA CommandKept ==
  ASSUME Final, UNCHANGED <<source, tree, sealed, official>>, todo' \in Seq(Writes),
         \A i \in Places' : todo'[i] # "authorize"
  PROVE  /\ AuthorizeFirst' /\ OfficialKept'
         /\ \A i \in Places' : Stands(i)' => official /\ Clear(i, {"withdraw"})'
<1>1. AuthorizeFirst'
  BY DEF AuthorizeFirst
<1>2. OfficialKept'
  <2> SUFFICES ASSUME official'
               PROVE  /\ Full(sealed'.dir) /\ AllButLast(source'.record)
                      /\ Record' = NoRecord \/ AllButLast(Record')
    BY DEF OfficialKept
  <2>1. official /\ Record' = Record
    BY DEF Record
  <2>2. /\ Full(sealed.dir) /\ AllButLast(source.record)
        /\ Record = NoRecord \/ AllButLast(Record)
    BY <2>1 DEF Final, OfficialKept
  <2>3. QED
    BY <2>1, <2>2
<1>3. ASSUME NEW i \in Places', Preceded(i, "authorize")' PROVE FALSE
  <2>1. PICK j \in 1 .. i - 1 : todo'[j] = "authorize"
    BY <1>3 DEF Preceded
  <2>2. Len(todo') \in Nat /\ i \in 1 .. Len(todo')
    BY DEF Places
  <2>3. j \in 1 .. Len(todo')
    BY <2>2
  <2>4. QED
    BY <2>1, <2>3 DEF Places
<1>4. ASSUME NEW i \in Places', Stands(i)' PROVE official /\ Clear(i, {"withdraw"})'
  BY <1>3, <1>4 DEF Stands
<1>5. QED
  BY <1>1, <1>2, <1>4

\* A command that saves a record with a phase still to pass, and seals none
LEMMA SaveFinal ==
  ASSUME Final, UNCHANGED <<source, tree, sealed, official>>, todo' \in Seq(Writes),
         \A i \in Places' : todo'[i] \notin {"authorize", "seal", "mirror"},
         \E i \in Places' : todo'[i] = "save",
         Passed(draft') # Phases,
         \A i \in Places' : todo'[i] = "save" /\ official /\ Clear(i, {"withdraw"})' =>
           AllButLast(draft')
  PROVE  Final'
<1>1. /\ AuthorizeFirst' /\ OfficialKept'
      /\ \A i \in Places' : Stands(i)' => official /\ Clear(i, {"withdraw"})'
  BY CommandKept
<1>2. Sealing' /\ Honest'
  BY <1>1 DEF Sealing, Honest
<1>3. SealedBeforeSaved'
  BY DEF SealedBeforeSaved, SavesPassed
<1>4. QED
  BY <1>1, <1>2, <1>3 DEF Final

LEMMA DispatchFinal ==
  ASSUME IInv, Final, NEW overrides \in BOOLEAN, Dispatch(overrides)
  PROVE  Final'
<1>1. /\ Passed(draft') # Phases /\ todo' \in Seq(Writes)
      /\ UNCHANGED <<source, tree, sealed, official>>
  BY DispatchFacts, LastPhase
<1>2. /\ Places' = 1 .. 8
      /\ todo'[1] = "activate" /\ todo'[2] = "worktree" /\ todo'[3] = "copy"
      /\ todo'[4] = "clearFailure" /\ todo'[5] = "markSource" /\ todo'[6] = "markTree"
      /\ todo'[7] = "withdraw" /\ todo'[8] = "save"
  BY DispatchFacts
<1>3. \A i \in Places' : /\ todo'[i] \notin {"authorize", "seal", "mirror"}
                         /\ todo'[i] = "save" => i = 8
  BY <1>2
<1>4. ~Clear(8, {"withdraw"})'
  BY <1>2 DEF Clear
<1>5. \E i \in Places' : todo'[i] = "save"
  BY <1>2
<1>6. QED
  BY <1>1, <1>3, <1>4, <1>5, SaveFinal

LEMMA ResumeFinal ==
  ASSUME IInv, Final, Resume
  PROVE  Final'
<1>1. /\ Record \in Prepared /\ NextPhase(Record) \in Phases
      /\ Passed(draft') = Passed(Record) \ {NextPhase(Record)}
      /\ UNCHANGED <<source, tree, sealed, official>>
      /\ \A i \in Places' : todo'[i] \in {"save", "clearFailure"}
      /\ \E i \in Places' : todo'[i] = "save"
  BY ResumeFacts
<1>2. todo' \in Seq(Writes)
  BY ResumeInv DEF IInv, Typed
<1>3. ASSUME official PROVE AllButLast(draft')
  <2>1. AllButLast(Record)
    BY <1>1, <1>3 DEF Final, OfficialKept, Prepared
  <2>2. CASE Passed(Record) = Phases
    <3>1. NextPhase(Record) = Last
      BY <2>2 DEF NextPhase, Last
    <3>2. QED
      BY <1>1, <2>1, <3>1 DEF AllButLast
  <2>3. CASE Passed(Record) # Phases
    <3>1. NextPhase(Record) \notin Passed(Record)
      BY <1>1, <2>3, FirstOpen DEF Prepared
    <3>2. QED
      BY <1>1, <2>1, <3>1 DEF AllButLast
  <2>4. QED
    BY <2>2, <2>3
<1>4. Passed(draft') # Phases
  BY <1>1
<1>5. \A i \in Places' : todo'[i] \notin {"authorize", "seal", "mirror"}
  BY <1>1
<1>6. QED
  BY <1>1, <1>2, <1>3, <1>4, <1>5, SaveFinal

LEMMA PhaseStartFinal ==
  ASSUME IInv, Final, PhaseStart
  PROVE  Final'
<1>1. /\ Record \in Prepared /\ Record.current \in Phases \ Passed(Record)
      /\ Passed(draft') = Passed(Record)
      /\ UNCHANGED <<source, tree, sealed, official>>
      /\ \A i \in Places' : todo'[i] \in {"save", "reset"}
      /\ \E i \in Places' : todo'[i] = "save"
  BY PhaseStartFacts
<1>2. todo' \in Seq(Writes)
  BY PhaseStartInv DEF IInv, Typed
<1>3. official => AllButLast(draft')
  BY <1>1 DEF Final, OfficialKept, Prepared, AllButLast
<1>4. Passed(draft') # Phases
  BY <1>1
<1>5. \A i \in Places' : todo'[i] \notin {"authorize", "seal", "mirror"}
  BY <1>1
<1>6. QED
  BY <1>1, <1>2, <1>3, <1>4, <1>5, SaveFinal

\* A record that has passed every phase is sealed already, unless a command is at work.
LEMMA HeldFull ==
  ASSUME IInv, Final, Held, Passed(Record) = Phases
  PROVE  Full(sealed.dir) /\ AllButLast(source.record)
<1>1. session /\ Exists /\ Places = {}
  BY HeldRecord DEF Held
<1>2. QED
  BY <1>1 DEF Final, SealedBeforeSaved, SavesPassed

LEMMA SealFinal ==
  ASSUME IInv, Final, PhaseComplete \/ PhaseFail \/ Fail
  PROVE  Final'
<1>1. /\ Held /\ Record # NoRecord /\ session' = session
      /\ UNCHANGED <<source, tree, sealed, official>>
      /\ \/ todo' = SealFirst
         \/ todo' = <<"withdraw">> \o SealFirst \o <<"report">>
  BY PhaseCompleteFacts, FailureFacts DEF Prepared
<1>2. todo' \in Seq(Writes)
  BY PhaseCompleteInv, FailureInv DEF IInv, Typed
<1>3. /\ \A i \in Places' : todo'[i] \in {"withdraw", "seal", "mirror", "save", "report"}
      /\ \A i \in Places' : todo'[i] = "save" => Preceded(i, "seal")' /\ Preceded(i, "mirror")'
      /\ \A i \in Places' : todo'[i] \in {"seal", "mirror"} =>
           \E k \in Places' : k > i /\ todo'[k] = "save"
      /\ \E i \in Places' : todo'[i] = "save"
  BY <1>1, SealOrder
<1>4. /\ AuthorizeFirst' /\ OfficialKept'
      /\ \A i \in Places' : Stands(i)' => official /\ Clear(i, {"withdraw"})'
  <2>1. \A i \in Places' : todo'[i] # "authorize"
    BY <1>3
  <2>2. QED
    BY <1>1, <1>2, <2>1, CommandKept
<1>5. Sealing'
  <2> SUFFICES ASSUME NEW i \in Places', todo'[i] \in {"seal", "mirror"}
               PROVE  session' /\ Exists' /\ Clear(i, Moves)'
    BY <1>3 DEF Sealing
  <2>1. session' /\ Exists'
    BY <1>1 DEF Held, Exists
  <2>2. Len(todo') \in Nat /\ i \in 1 .. Len(todo')
    BY <1>2 DEF Places
  <2>3. \A j \in 1 .. i - 1 : j \in Places'
    BY <2>2 DEF Places
  <2>4. QED
    BY <1>3, <2>1, <2>3 DEF Clear, Moves
<1>6. Honest'
  <2> SUFFICES ASSUME NEW i \in Places', official, Clear(i, {"withdraw"})',
                      todo'[i] \in {"seal", "mirror", "save"}
               PROVE  Passed(draft') = Phases
    BY <1>4 DEF Honest, AllButLast
  <2>1. CASE PhaseComplete
    <3>1. /\ Record.current \in Phases \ Passed(Record)
          /\ Passed(draft') = Passed(Record) \cup {Record.current}
      BY <2>1, PhaseCompleteFacts
    <3>2. Phases \ {Last} \subseteq Passed(Record)
      BY <1>1 DEF Final, OfficialKept, AllButLast
    <3>3. Passed(Record) \subseteq Phases
      BY DEF Passed
    <3>4. QED
      BY <3>1, <3>2, <3>3
  <2>2. CASE PhaseFail \/ Fail
    <3>1. todo' = <<"withdraw">> \o SealFirst \o <<"report">>
      BY <2>2, FailureFacts
    <3>2. todo'[1] = "withdraw" /\ Places' = 1 .. 5
      BY <3>1, Lists DEF Places
    <3>3. 1 \in 1 .. i - 1
      <4>1. i # 1
        BY <3>2
      <4>2. QED
        BY <3>2, <4>1
    <3>4. QED
      BY <3>2, <3>3 DEF Clear
  <2>3. QED
    BY <2>1, <2>2
<1>7. SealedBeforeSaved'
  <2> SUFFICES ASSUME session', Exists', Passed(Record') = Phases, SavesPassed'
               PROVE  Full(sealed'.dir) /\ AllButLast(source'.record)
    BY <1>3 DEF SealedBeforeSaved
  <2>1. Passed(Record) = Phases
    BY <1>1 DEF Record
  <2>2. QED
    BY <1>1, <2>1, HeldFull
<1>8. QED
  BY <1>4, <1>5, <1>6, <1>7 DEF Final

LEMMA CompleteFinal ==
  ASSUME IInv, Final, Complete
  PROVE  Final'
<1>1. /\ Held /\ Passed(Record) = Phases /\ Passed(draft') = Phases /\ session' = session
      /\ UNCHANGED <<source, tree, sealed, official>>
  BY CompleteFacts
<1>2. /\ Places' = 1 .. 13
      /\ todo'[1] = "authorize" /\ todo'[2] = "seal" /\ todo'[3] = "mirror" /\ todo'[4] = "save"
      /\ todo'[5] = "clear" /\ todo'[6] = "promote" /\ todo'[7] = "unmark" /\ todo'[8] = "empty"
      /\ todo'[9] = "publish" /\ todo'[10] = "unmarkSource" /\ todo'[11] = "clearFailure"
      /\ todo'[12] = "release" /\ todo'[13] = "remove"
  BY CompleteFacts
<1>3. /\ \A i \in Places' : todo'[i] \in {"seal", "mirror"} => i \in {2, 3}
      /\ \A i \in Places' : todo'[i] = "authorize" => i = 1
      /\ \A i \in Places' : todo'[i] = "save" => i = 4
  BY <1>2
<1>4. Full(sealed.dir) /\ AllButLast(source.record)
  BY <1>1, HeldFull
<1>5. Sealing'
  <2>1. session' /\ Exists'
    BY <1>1 DEF Held, Exists
  <2>2. Clear(2, Moves)' /\ Clear(3, Moves)'
    BY <1>2 DEF Clear, Moves
  <2>3. QED
    BY <1>2, <1>3, <2>1, <2>2 DEF Sealing
<1>6. AuthorizeFirst'
  BY <1>3 DEF AuthorizeFirst
<1>7. Honest'
  BY <1>1 DEF Honest, AllButLast
<1>8. SealedBeforeSaved'
  BY <1>1, <1>4 DEF SealedBeforeSaved
<1>9. OfficialKept'
  BY <1>1, <1>4 DEF OfficialKept, AllButLast, Record
<1>10. QED
  BY <1>5, <1>6, <1>7, <1>8, <1>9 DEF Final

\* A step after which no Coordinator works, and which saves nothing
LEMMA LeaveFinal ==
  ASSUME Final, UNCHANGED <<source, sealed, official>>, session' = FALSE,
         todo' \in Seq(Writes), tree' = tree \/ tree' = Gone,
         \A i \in Places' : todo'[i] \notin {"authorize", "save", "seal", "mirror"}
  PROVE  Final'
<1>1. Sealing' /\ AuthorizeFirst' /\ Honest' /\ SealedBeforeSaved'
  BY DEF Sealing, AuthorizeFirst, Honest, SealedBeforeSaved
<1>2. OfficialKept'
  <2> SUFFICES ASSUME official'
               PROVE  /\ Full(sealed'.dir) /\ AllButLast(source'.record)
                      /\ Record' = NoRecord \/ AllButLast(Record')
    BY DEF OfficialKept
  <2>1. Record' = Record \/ Record' = NoRecord
    BY EmptyType DEF Record, Gone
  <2>2. /\ Full(sealed.dir) /\ AllButLast(source.record)
        /\ Record = NoRecord \/ AllButLast(Record)
    BY DEF Final, OfficialKept
  <2>3. QED
    BY <2>1, <2>2
<1>3. QED
  BY <1>1, <1>2 DEF Final

LEMMA QuietFinal ==
  ASSUME IInv, Final, Rebuild \/ Discard
  PROVE  Final'
<1>1. /\ \/ todo' = <<"worktree", "restore", "markTree", "markSource">>
         \/ todo' = <<"unmark", "unmarkSource", "release", "remove">>
         \/ todo' = <<"unmarkSource", "release">>
      /\ UNCHANGED <<source, tree, sealed, official>> /\ session' = FALSE
  BY DEF Rebuild, Discard, Run
<1>2. \A i \in Places' : todo'[i] \notin {"authorize", "save", "seal", "mirror"}
  <2>1. CASE todo' = <<"worktree", "restore", "markTree", "markSource">>
    BY <2>1 DEF Places
  <2>2. CASE todo' = <<"unmark", "unmarkSource", "release", "remove">>
    BY <2>2 DEF Places
  <2>3. CASE todo' = <<"unmarkSource", "release">>
    BY <2>3 DEF Places
  <2>4. QED
    BY <1>1, <2>1, <2>2, <2>3
<1>3. todo' \in Seq(Writes)
  BY RebuildInv, DiscardInv DEF IInv, Typed
<1>4. QED
  BY <1>1, <1>2, <1>3, LeaveFinal

LEMMA WorkingFinal ==
  ASSUME IInv, Final, Working
  PROVE  Final'
<1>1. /\ Record' = Record /\ Held
      /\ UNCHANGED <<source, sealed, official, todo, session>>
  BY WorkingInv DEF Working, PlanJobs, Produce, PhaseReceipt
<1>2. Places' = {} /\ Places = {} /\ session /\ Exists
  BY <1>1, HeldRecord DEF Places, Held
<1>3. Sealing' /\ AuthorizeFirst' /\ Honest'
  BY <1>2 DEF Sealing, AuthorizeFirst, Honest
<1>4. SealedBeforeSaved'
  BY <1>1, <1>2, HeldFull DEF SealedBeforeSaved
<1>5. OfficialKept'
  BY <1>1, <1>2 DEF Final, OfficialKept
<1>6. QED
  BY <1>3, <1>4, <1>5 DEF Final

LEMMA StepFinal ==
  ASSUME IInv, Backing, Final, [Next]_vars
  PROVE  Final'
<1>1. CASE Write
  BY <1>1, WriteFinal
<1>2. ASSUME NEW overrides \in BOOLEAN, Dispatch(overrides) PROVE Final'
  BY <1>2, DispatchFinal
<1>3. CASE Rebuild \/ Discard \/ Resume \/ PhaseStart \/ Complete \/ Working
  BY <1>3, QuietFinal, ResumeFinal, PhaseStartFinal, CompleteFinal, WorkingFinal
<1>4. CASE PhaseComplete \/ PhaseFail \/ Fail
  BY <1>4, SealFinal
<1>5. CASE Leave \/ Kill \/ Undo \/ LoseTree \/ UserCommits
  <2>1. /\ todo' = <<>> /\ session' = FALSE /\ UNCHANGED <<source, sealed, official>>
        /\ tree' = tree \/ tree' = Gone
    BY <1>5, FaultInv
  <2>2. todo' \in Seq(Writes) /\ Places' = {}
    BY <2>1 DEF Places
  <2>3. QED
    BY <2>1, <2>2, LeaveFinal
<1>6. CASE UNCHANGED vars
  <2>1. Sealing' /\ AuthorizeFirst'
    BY <1>6 DEF vars, Final, Sealing, AuthorizeFirst, Places, Exists, Clear
  <2>2. Honest'
    BY <1>6 DEF vars, Final, Honest, Places, Stands, Clear, Preceded
  <2>3. SealedBeforeSaved'
    BY <1>6 DEF vars, Final, SealedBeforeSaved, SavesPassed, Places, Preceded, Exists, Record
  <2>4. OfficialKept'
    BY <1>6 DEF vars, Final, OfficialKept, Places, Record
  <2>5. QED
    BY <2>1, <2>2, <2>3, <2>4 DEF Final
<1>7. QED
  BY <1>1, <1>2, <1>3, <1>4, <1>5, <1>6 DEF Next

LEMMA InitFinal == Init => Final
<1> SUFFICES ASSUME Init PROVE Final
  OBVIOUS
<1>1. Places = {} /\ ~official /\ ~session
  BY DEF Init, Places
<1>2. QED
  BY <1>1 DEF Final, Sealing, AuthorizeFirst, Honest, SealedBeforeSaved, OfficialKept

\* An official result is that of an accepted checkpoint whose every phase has passed,
\* on artifacts of its own snapshot commit: no new dispatch, resume, failure, kill or
\* repeated sync leaves the mark on anything else.
THEOREM OfficialStaysComplete == Spec => []OfficialIsComplete
<1>1. Init => Final
  BY InitFinal
<1>2. (IInv /\ InOrder /\ Backing) /\ Final /\ [Next]_vars => Final'
  BY StepFinal
<1>3. Spec => []Final
  BY <1>1, <1>2, BackingInvariant, PTL DEF Spec
<1>4. Final => OfficialIsComplete
  BY DEF Final, OfficialKept, OfficialIsComplete, Full
<1>5. QED
  BY <1>3, <1>4, PTL
=============================================================================
