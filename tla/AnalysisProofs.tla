--------------------------- MODULE AnalysisProofs ---------------------------
(***************************************************************************)
(* Proofs about Analysis, for any plan of phases, any number of commits,   *)
(* worktrees, kills and failures.                                          *)
(***************************************************************************)
EXTENDS Analysis, WellFoundedInduction, TLAPS

Writes ==
  {"activate", "worktree", "copy", "clearFailure", "markSource", "markTree", "withdraw", "save",
   "restore", "unmark", "unmarkSource", "release", "remove", "reset", "seal", "mirror", "report",
   "authorize", "clear", "promote", "empty", "publish"}

\* The writes that put another record into the worktree than the command's own
Moves == {"worktree", "copy", "restore", "remove"}

Places   == 1 .. Len(todo)
Clear(i, W)    == \A j \in 1 .. i - 1 : todo[j] \notin W
Preceded(i, w) == \E j \in 1 .. i - 1 : todo[j] = w

Typed == TypeOK /\ todo \in Seq(Writes)

\* A command makes one worktree at most, within the bound.
WorktreeFits ==
  \A i \in Places : todo[i] = "worktree" => spent.trees < MaxTrees /\ Clear(i, {"worktree"})

\* A worktree gets its first files when there are none.
CopyIsFirst ==
  \A i \in Places : todo[i] = "copy" =>
    \/ i = 1 /\ tree.dir = Empty
    \/ i > 1 /\ todo[i - 1] = "worktree"

\* What a command saves calls nothing passed that is not sealed, or is about to be.
SaveIsSealed ==
  \A i \in Places : todo[i] = "save" =>
    /\ draft # NoRecord
    /\ \/ Passed(draft) = {}
       \/ /\ Clear(i, Moves \cup {"save"})
          /\ \/ Preceded(i, "seal")
             \/ Passed(draft) \subseteq Passed(Record) \cup Passed(sealed.dir.record)

\* A Coordinator has a record, or is about to save it.
RecordKnown ==
  /\ session /\ Exists => Record # NoRecord \/ \E i \in Places : todo[i] = "save"
  /\ \A i \in Places : session /\ todo[i] \in Moves \ {"remove"} =>
       \E k \in Places : k > i /\ todo[k] = "save"

\* The commit that is promoted is that of a sealed and official result.
PromoteIsOfficial ==
  \A i \in Places : todo[i] = "promote" =>
    /\ Clear(i, Moves \cup {"withdraw"})
    /\ tree.commit = draft.commit
    /\ official \/ Preceded(i, "authorize")
    /\ sealed.dir.record = draft \/ Preceded(i, "seal")

IInv ==
  /\ Typed /\ WorktreeFits /\ CopyIsFirst /\ SaveIsSealed /\ RecordKnown /\ PromoteIsOfficial

-----------------------------------------------------------------------------
(* Records, directories and worktrees *)

LEMMA NoRecordType == NoRecord \in Records /\ Passed(NoRecord) = {}
BY DEF NoRecord, Records, Passed

LEMMA EmptyType == Empty \in Dirs /\ Gone \in Trees /\ Empty.record = NoRecord
<1>1. NoMarker \in [tree: 0 .. MaxTrees, seal: Nat] /\ 0 \in 0 .. MaxTrees
  BY PlanAssumption DEF NoMarker
<1>2. [ph \in Phases |-> None] \in [Phases -> Commits \cup {None}] /\ {} \in SUBSET Phases
  OBVIOUS
<1>3. Empty \in Dirs
  BY <1>1, <1>2, NoRecordType DEF Empty, Dirs
<1>4. Gone \in Trees
  BY <1>1, <1>3 DEF Gone, Trees
<1>5. QED
  BY <1>3, <1>4 DEF Empty

\* The record of an analysis that has been prepared
Prepared == Records \ {NoRecord}

LEMMA PreparedType ==
  Prepared = [run: 1 .. MaxTrees, commit: Commits,
              status: {"running", "succeeded", "failed", "interrupted"}, current: Phases,
              phases: [Phases -> {"none", "running", "succeeded", "failed"}]]
<1> DEFINE R == [run: 1 .. MaxTrees, commit: Commits,
                 status: {"running", "succeeded", "failed", "interrupted"}, current: Phases,
                 phases: [Phases -> {"none", "running", "succeeded", "failed"}]]
<1>1. NoRecord.status = "none"
  BY DEF NoRecord
<1>2. \A r \in R : r.status # "none"
  OBVIOUS
<1>3. Records = {NoRecord} \cup R
  BY DEF Records
<1> HIDE DEF R
<1>4. Prepared = R
  BY <1>1, <1>2, <1>3 DEF Prepared
<1>5. QED
  BY <1>4 DEF R

\* The changes that the commands make to a record
LEMMA RecordChanges ==
  ASSUME NEW r \in Prepared, NEW ph \in Phases, NEW q \in Phases,
         NEW mark \in {"none", "running", "succeeded", "failed"},
         NEW status \in {"running", "succeeded", "failed", "interrupted"}
  PROVE  /\ [r EXCEPT !.status = status] \in Prepared
         /\ [r EXCEPT !.phases[ph] = mark] \in Prepared
         /\ [r EXCEPT !.phases[ph] = mark, !.current = q] \in Prepared
         /\ [r EXCEPT !.status = status, !.phases[ph] = mark] \in Prepared
         /\ [r EXCEPT !.status = status, !.current = q, !.phases[ph] = mark] \in Prepared
         /\ [r EXCEPT !.status = status].commit = r.commit
BY PreparedType

\* A phase marked anything but succeeded adds nothing to what has passed.
LEMMA UnpassedSubset ==
  ASSUME NEW r \in Prepared, NEW ph \in Phases, NEW q \in Phases,
         NEW mark \in {"none", "running", "failed"}
  PROVE  /\ Passed([r EXCEPT !.phases[ph] = mark]) \subseteq Passed(r)
         /\ Passed([r EXCEPT !.status = "running", !.current = q, !.phases[ph] = mark])
              \subseteq Passed(r)
BY PreparedType DEF Passed

\* The writes that change a directory keep its other files.
LEMMA DirRecord ==
  ASSUME NEW d \in Dirs, NEW r \in Records
  PROVE  [d EXCEPT !.record = r] \in Dirs /\ [d EXCEPT !.record = r].record = r
BY DEF Dirs

LEMMA DirFailed ==
  ASSUME NEW d \in Dirs, NEW n \in 0 .. MaxTrees
  PROVE  [d EXCEPT !.failed = n] \in Dirs /\ [d EXCEPT !.failed = n].record = d.record
BY DEF Dirs

LEMMA DirMarker ==
  ASSUME NEW d \in Dirs, NEW n \in 0 .. MaxTrees, NEW k \in Nat
  PROVE  /\ [d EXCEPT !.marker = [tree |-> n, seal |-> k]] \in Dirs
         /\ [d EXCEPT !.marker = [tree |-> n, seal |-> k]].record = d.record
BY DEF Dirs

LEMMA DirUnmarked ==
  ASSUME NEW d \in Dirs
  PROVE  /\ [d EXCEPT !.marker = NoMarker] \in Dirs
         /\ [d EXCEPT !.marker = NoMarker].record = d.record
         /\ [d EXCEPT !.marker = NoMarker, !.failed = 0] \in Dirs
         /\ [d EXCEPT !.marker = NoMarker, !.failed = 0].record = d.record
<1> NoMarker \in [tree: 0 .. MaxTrees, seal: Nat] /\ 0 \in 0 .. MaxTrees
  BY PlanAssumption DEF NoMarker
<1> QED
  BY DEF Dirs

LEMMA DirOutputs ==
  ASSUME NEW d \in Dirs, NEW outputs \in [Phases -> Commits \cup {None}]
  PROVE  /\ [d EXCEPT !.outputs = outputs] \in Dirs
         /\ [d EXCEPT !.outputs = outputs].record = d.record
         /\ [d EXCEPT !.receipts = {}, !.outputs = outputs] \in Dirs
         /\ [d EXCEPT !.receipts = {}, !.outputs = outputs].record = d.record
BY DEF Dirs

LEMMA DirMirror ==
  ASSUME NEW d \in Dirs, NEW r \in Records, NEW n \in 0 .. MaxTrees
  PROVE  [d EXCEPT !.record = r, !.failed = n] \in Dirs
BY DEF Dirs

\* A worktree with another directory is the same worktree.
LEMMA TreeWrites ==
  ASSUME NEW t \in Trees, NEW d \in Dirs
  PROVE  /\ [t EXCEPT !.dir = d] \in Trees /\ [t EXCEPT !.dir = d].dir = d
         /\ [t EXCEPT !.dir = d].commit = t.commit /\ [t EXCEPT !.dir = d].id = t.id
BY DEF Trees

-----------------------------------------------------------------------------
(* A durable write *)

LEMMA Shift ==
  ASSUME Typed, Write
  PROVE  /\ 1 \in Places /\ Head(todo) = todo[1] /\ todo[1] \in Writes
         /\ todo' \in Seq(Writes)
         /\ \A i \in Places' : i + 1 \in Places /\ i \in Nat /\ todo'[i] = todo[i + 1]
         /\ \A i \in Places : i # 1 => i - 1 \in Places' /\ todo'[i - 1] = todo[i]
<1>1. todo \in Seq(Writes) /\ todo # <<>> /\ todo' = Tail(todo)
  BY DEF Typed, Write, Idle
<1>2. QED
  BY <1>1 DEF Places

\* What lies before a write that is still to come
LEMMA ClearShift ==
  ASSUME Typed, Write, NEW i \in Places', NEW W
  PROVE  Clear(i + 1, W) => Clear(i, W)' /\ todo[1] \notin W
<1> SUFFICES ASSUME Clear(i + 1, W) PROVE Clear(i, W)' /\ todo[1] \notin W
  OBVIOUS
<1>1. i \in 1 .. Len(todo') /\ Len(todo') \in Nat
  BY Shift DEF Places
<1>2. \A j \in 1 .. i - 1 : j \in Places' /\ j + 1 \in 1 .. (i + 1) - 1 /\ todo'[j] = todo[j + 1]
  BY <1>1, Shift DEF Places
<1>3. 1 \in 1 .. (i + 1) - 1
  BY <1>1
<1>4. QED
  BY <1>2, <1>3 DEF Clear

LEMMA PrecededShift ==
  ASSUME Typed, Write, NEW i \in Places', NEW w, Preceded(i + 1, w)
  PROVE  Preceded(i, w)' \/ todo[1] = w
<1>1. i \in 1 .. Len(todo') /\ Len(todo') \in Nat
  BY Shift DEF Places
<1>2. PICK j \in 1 .. (i + 1) - 1 : todo[j] = w
  BY DEF Preceded
<1>3. CASE j = 1
  BY <1>2, <1>3
<1>4. CASE j # 1
  <2>1. j - 1 \in Places' /\ j - 1 \in 1 .. i - 1
    BY <1>1, <1>2, <1>4 DEF Places
  <2>2. todo'[j - 1] = todo[j]
    <3>1. todo'[j - 1] = todo[(j - 1) + 1]
      BY <2>1, Shift
    <3>2. QED
      BY <3>1, <1>2, <1>1
  <2>3. QED
    BY <1>2, <2>1, <2>2 DEF Preceded
<1>5. QED
  BY <1>3, <1>4

LEMMA TreeAfterType ==
  ASSUME Typed, WorktreeFits, NEW w \in Writes, w = "worktree" => spent.trees < MaxTrees
  PROVE  /\ TreeAfter(w) \in Trees
         /\ w \notin Moves => TreeAfter(w).commit = tree.commit /\ TreeAfter(w).id = tree.id
         /\ w \notin Moves \cup {"save"} => TreeAfter(w).dir.record = tree.dir.record
         /\ w = "save" => TreeAfter(w).dir.record = draft
         /\ w \in {"worktree", "remove"} => TreeAfter(w).dir = Empty
         /\ w = "remove" => TreeAfter(w).id = 0
         /\ w = "restore" => TreeAfter(w).dir.record = sealed.dir.record
         /\ w = "copy" => TreeAfter(w).dir = source
<1>1. tree \in Trees /\ tree.dir \in Dirs /\ tree.dir.outputs \in [Phases -> Commits \cup {None}]
  BY DEF Typed, TypeOK, Trees, Dirs
<1>2. CASE w = "worktree"
  <2>1. spent.trees + 1 \in 0 .. MaxTrees /\ git.active \in Commits \cup {None}
    BY <1>2, PlanAssumption DEF Typed, TypeOK
  <2>2. TreeAfter(w) = [Gone EXCEPT !.id = spent.trees + 1, !.commit = git.active]
    BY <1>2 DEF TreeAfter
  <2>3. QED
    BY <1>2, <2>1, <2>2, EmptyType DEF Trees, Gone, Moves
<1>3. CASE w = "copy"
  BY <1>1, <1>3, TreeWrites DEF TreeAfter, Moves, Typed, TypeOK
<1>4. CASE w = "restore"
  <2>1. /\ [sealed.dir EXCEPT !.marker = NoMarker, !.failed = 0] \in Dirs
        /\ [sealed.dir EXCEPT !.marker = NoMarker, !.failed = 0].record = sealed.dir.record
    BY DirUnmarked DEF Typed, TypeOK
  <2>2. QED
    BY <1>1, <1>4, <2>1, TreeWrites DEF TreeAfter, Moves
<1>5. CASE w = "markTree"
  <2> DEFINE k == IF draft = NoRecord THEN sealed.id ELSE 0
             d == [tree.dir EXCEPT !.marker = [tree |-> tree.id, seal |-> k]]
  <2>1. k \in Nat /\ tree.id \in 0 .. MaxTrees
    BY <1>1 DEF Trees, Typed, TypeOK
  <2>2. d \in Dirs /\ d.record = tree.dir.record
    BY <1>1, <2>1, DirMarker
  <2>3. TreeAfter(w) = [tree EXCEPT !.dir = d]
    BY <1>5 DEF TreeAfter
  <2> HIDE DEF d
  <2>4. /\ TreeAfter(w) \in Trees /\ TreeAfter(w).dir = d
        /\ TreeAfter(w).commit = tree.commit /\ TreeAfter(w).id = tree.id
    BY <1>1, <2>2, <2>3, TreeWrites
  <2>5. QED
    BY <1>5, <2>2, <2>4 DEF Moves
<1>6. CASE w = "reset"
  <2> DEFINE outputs == Kept(tree.dir.outputs)
             d == [tree.dir EXCEPT !.receipts = {}, !.outputs = outputs]
  <2>1. outputs \in [Phases -> Commits \cup {None}]
    BY <1>1 DEF Kept
  <2>2. d \in Dirs /\ d.record = tree.dir.record
    BY <1>1, <2>1, DirOutputs
  <2>3. TreeAfter(w) = [tree EXCEPT !.dir = d]
    BY <1>6 DEF TreeAfter
  <2> HIDE DEF d
  <2>4. /\ TreeAfter(w) \in Trees /\ TreeAfter(w).dir = d
        /\ TreeAfter(w).commit = tree.commit /\ TreeAfter(w).id = tree.id
    BY <1>1, <2>2, <2>3, TreeWrites
  <2>5. QED
    BY <1>6, <2>2, <2>4 DEF Moves
<1>7. CASE w = "save"
  <2> DEFINE d == [tree.dir EXCEPT !.record = draft]
  <2>2. d \in Dirs /\ d.record = draft
    BY <1>1, DirRecord DEF Typed, TypeOK
  <2>3. TreeAfter(w) = [tree EXCEPT !.dir = d]
    BY <1>7 DEF TreeAfter
  <2> HIDE DEF d
  <2>4. /\ TreeAfter(w) \in Trees /\ TreeAfter(w).dir = d
        /\ TreeAfter(w).commit = tree.commit /\ TreeAfter(w).id = tree.id
    BY <1>1, <2>2, <2>3, TreeWrites
  <2>5. QED
    BY <1>7, <2>2, <2>4 DEF Moves
<1>8. CASE w = "unmark"
  <2> DEFINE d == [tree.dir EXCEPT !.marker = NoMarker]
  <2>2. d \in Dirs /\ d.record = tree.dir.record
    BY <1>1, DirUnmarked
  <2>3. TreeAfter(w) = [tree EXCEPT !.dir = d]
    BY <1>8 DEF TreeAfter
  <2> HIDE DEF d
  <2>4. /\ TreeAfter(w) \in Trees /\ TreeAfter(w).dir = d
        /\ TreeAfter(w).commit = tree.commit /\ TreeAfter(w).id = tree.id
    BY <1>1, <2>2, <2>3, TreeWrites
  <2>5. QED
    BY <1>8, <2>2, <2>4 DEF Moves
<1>9. CASE w = "remove"
  BY <1>9, EmptyType DEF TreeAfter, Gone, Moves
<1>10. CASE w \notin {"worktree", "copy", "restore", "markTree", "reset", "save", "unmark", "remove"}
  BY <1>1, <1>10 DEF TreeAfter, Moves
<1>11. QED
  BY <1>2, <1>3, <1>4, <1>5, <1>6, <1>7, <1>8, <1>9, <1>10

LEMMA SourceAfterType ==
  ASSUME Typed, NEW w \in Writes
  PROVE  SourceAfter(w) \in Dirs
<1> USE DEF Typed, TypeOK
<1>1. /\ tree.dir \in Dirs /\ tree.dir.outputs \in [Phases -> Commits \cup {None}]
      /\ source.failed \in 0 .. MaxTrees /\ 0 \in 0 .. MaxTrees /\ tree.id \in 0 .. MaxTrees
      /\ tree.dir.failed \in 0 .. MaxTrees
  BY PlanAssumption DEF Trees, Dirs
<1>2. CASE w \in {"clearFailure", "empty", "publish", "unmarkSource"}
  <2>1. Empty.outputs \in [Phases -> Commits \cup {None}]
    BY EmptyType DEF Dirs
  <2>2. QED
    BY <1>1, <1>2, <2>1, DirFailed, DirOutputs, DirUnmarked DEF SourceAfter
<1>3. CASE w = "markSource"
  <2> DEFINE k == IF draft = NoRecord THEN sealed.id ELSE 0
  <2>1. k \in Nat
    OBVIOUS
  <2>2. SourceAfter(w) = [source EXCEPT !.marker = [tree |-> tree.id, seal |-> k]]
    BY <1>3 DEF SourceAfter
  <2> HIDE DEF k
  <2>3. [source EXCEPT !.marker = [tree |-> tree.id, seal |-> k]] \in Dirs
    <3>1. source \in Dirs
      OBVIOUS
    <3>2. QED
      BY <1>1, <2>1, <3>1, DirMarker DEF Typed, TypeOK
  <2>4. QED
    BY <2>2, <2>3
<1>4. CASE w = "mirror"
  <2> DEFINE n == IF tree.dir.failed # 0 THEN tree.dir.failed ELSE source.failed
  <2>1. n \in 0 .. MaxTrees
    BY <1>1
  <2>2. [tree.dir EXCEPT !.record = draft, !.failed = n] \in Dirs
    <3> HIDE DEF n
    <3> QED
      BY <1>1, <2>1, DirMirror
  <2>3. \/ SourceAfter(w) = source
        \/ SourceAfter(w) = [tree.dir EXCEPT !.record = draft, !.failed = n]
    BY <1>4 DEF SourceAfter
  <2>4. QED
    BY <2>2, <2>3
<1>5. CASE w = "report"
  <2>1. draft.run \in 0 .. MaxTrees
    BY PlanAssumption DEF Records, NoRecord
  <2>2. QED
    BY <1>5, <2>1, DirFailed DEF SourceAfter
<1>6. CASE w \notin {"clearFailure", "empty", "publish", "unmarkSource", "markSource", "mirror", "report"}
  BY <1>6 DEF SourceAfter
<1>7. QED
  BY <1>2, <1>3, <1>4, <1>5, <1>6

\* What a write leaves in the other files
LEMMA WriteRest ==
  ASSUME Typed, Write
  PROVE  /\ git' \in [head: Commits, active: Commits \cup {None}, baseline: Commits \cup {None}]
         /\ sealed' \in [id: Nat, dir: Dirs]
         /\ sealed' = sealed \/ sealed'.dir.record = draft
         /\ todo[1] = "seal" => sealed'.dir.record = draft
         /\ ledger' \in [Phases -> {"none", "open", "done"}]
         /\ official' \in BOOLEAN
         /\ todo[1] # "withdraw" => official' = (official \/ todo[1] = "authorize")
         /\ draft' \in Records
         /\ Places' # {} => draft' = draft
<1>1. todo[1] \in Writes /\ Head(todo) = todo[1]
  BY Shift
<1>2. tree \in Trees /\ tree.dir \in Dirs /\ tree.commit \in Commits \cup {None}
  BY DEF Typed, TypeOK, Trees
<1>3. draft \in Records /\ draft.commit \in Commits \cup {None}
  BY DEF Typed, TypeOK, Records, NoRecord
<1>4. git' \in [head: Commits, active: Commits \cup {None}, baseline: Commits \cup {None}]
  <2>1. git' = GitAfter(todo[1])
    BY <1>1 DEF Write
  <2>2. QED
    BY <1>2, <1>3, <2>1 DEF GitAfter, Typed, TypeOK
<1>5. /\ sealed' \in [id: Nat, dir: Dirs]
      /\ sealed' = sealed \/ sealed'.dir.record = draft
      /\ todo[1] = "seal" => sealed'.dir.record = draft
  <2>1. sealed' = SealedAfter(todo[1])
    BY <1>1 DEF Write
  <2>2. [tree.dir EXCEPT !.record = draft] \in Dirs
        /\ [tree.dir EXCEPT !.record = draft].record = draft
    BY <1>2, <1>3, DirRecord
  <2>3. QED
    BY <2>1, <2>2 DEF SealedAfter, Typed, TypeOK
<1>6. ledger' \in [Phases -> {"none", "open", "done"}]
  BY DEF Write, Typed, TypeOK
<1>7. /\ official' \in BOOLEAN
      /\ todo[1] # "withdraw" => official' = (official \/ todo[1] = "authorize")
  BY <1>1 DEF Write, Typed, TypeOK
<1>8. draft' \in Records
  BY <1>3, NoRecordType DEF Write
<1>9. Places' # {} => draft' = draft
  BY Shift DEF Write, Places
<1>10. QED
  BY <1>4, <1>5, <1>6, <1>7, <1>8, <1>9

LEMMA WriteType ==
  ASSUME Typed, WorktreeFits, Write
  PROVE  /\ Typed'
         /\ tree' = TreeAfter(todo[1])
         /\ todo[1] = "worktree" => spent.trees < MaxTrees
<1>1. todo[1] \in Writes /\ Head(todo) = todo[1] /\ 1 \in Places
  BY Shift
<1>2. todo[1] = "worktree" => spent.trees < MaxTrees
  BY <1>1 DEF WorktreeFits
<1>3. tree' = TreeAfter(todo[1]) /\ source' = SourceAfter(todo[1])
  BY <1>1 DEF Write
<1>4. tree' \in Trees /\ source' \in Dirs
  BY <1>1, <1>2, <1>3, TreeAfterType, SourceAfterType
<1>5. spent' \in [trees: 0 .. MaxTrees, kills: 0 .. MaxKills, failures: 0 .. MaxFailures]
  <2>1. spent \in [trees: 0 .. MaxTrees, kills: 0 .. MaxKills, failures: 0 .. MaxFailures]
    BY DEF Typed, TypeOK
  <2>2. spent.trees < MaxTrees => spent.trees + 1 \in 0 .. MaxTrees
    BY <2>1, PlanAssumption
  <2>3. \/ spent' = spent
        \/ todo[1] = "worktree" /\ spent' = [spent EXCEPT !.trees = spent.trees + 1]
    BY <1>1 DEF Write
  <2>4. ASSUME NEW n \in 0 .. MaxTrees
        PROVE  [spent EXCEPT !.trees = n]
                 \in [trees: 0 .. MaxTrees, kills: 0 .. MaxKills, failures: 0 .. MaxFailures]
    BY <2>1
  <2>5. QED
    BY <1>2, <2>1, <2>2, <2>3, <2>4
<1>6. session' \in BOOLEAN
  BY DEF Write, Typed, TypeOK
<1>7. TypeOK'
  BY <1>4, <1>5, <1>6, WriteRest DEF TypeOK
<1>8. QED
  BY <1>2, <1>3, <1>7, Shift DEF Typed

LEMMA WriteWorktreeFits ==
  ASSUME Typed, WorktreeFits, Write
  PROVE  WorktreeFits'
<1> SUFFICES ASSUME NEW i \in Places', todo'[i] = "worktree"
             PROVE  (spent.trees < MaxTrees)' /\ Clear(i, {"worktree"})'
  BY DEF WorktreeFits
<1>1. i + 1 \in Places /\ todo[i + 1] = "worktree"
  BY Shift
<1>2. spent.trees < MaxTrees /\ Clear(i + 1, {"worktree"})
  BY <1>1 DEF WorktreeFits
<1>3. Clear(i, {"worktree"})' /\ todo[1] # "worktree"
  BY <1>2, ClearShift
<1>4. spent' = spent
  BY <1>3, Shift DEF Write
<1>5. QED
  BY <1>2, <1>3, <1>4

LEMMA WriteCopyIsFirst ==
  ASSUME Typed, WorktreeFits, CopyIsFirst, Write
  PROVE  CopyIsFirst'
<1> SUFFICES ASSUME NEW i \in Places', todo'[i] = "copy"
             PROVE  \/ i = 1 /\ tree'.dir = Empty
                    \/ i > 1 /\ todo'[i - 1] = "worktree"
  BY DEF CopyIsFirst
<1>1. i + 1 \in Places /\ todo[i + 1] = "copy" /\ i \in 1 .. Len(todo')
  BY Shift DEF Places
<1>2. todo[i] = "worktree"
  BY <1>1 DEF CopyIsFirst
<1>3. CASE i = 1
  BY <1>2, <1>3, WriteType, TreeAfterType, Shift
<1>4. CASE i # 1
  BY <1>1, <1>2, <1>4, Shift DEF Places
<1>5. QED
  BY <1>3, <1>4

LEMMA WriteSaveIsSealed ==
  ASSUME Typed, WorktreeFits, SaveIsSealed, Write
  PROVE  SaveIsSealed'
<1> SUFFICES ASSUME NEW i \in Places', todo'[i] = "save"
             PROVE  /\ draft' # NoRecord
                    /\ \/ Passed(draft') = {}
                       \/ /\ Clear(i, Moves \cup {"save"})'
                          /\ \/ Preceded(i, "seal")'
                             \/ Passed(draft') \subseteq
                                  Passed(Record') \cup Passed(sealed'.dir.record)
  BY DEF SaveIsSealed
<1>1. i + 1 \in Places /\ todo[i + 1] = "save" /\ draft' = draft
  BY Shift, WriteRest
<1>2. /\ draft # NoRecord
      /\ \/ Passed(draft) = {}
         \/ /\ Clear(i + 1, Moves \cup {"save"})
            /\ \/ Preceded(i + 1, "seal")
               \/ Passed(draft) \subseteq Passed(Record) \cup Passed(sealed.dir.record)
  BY <1>1 DEF SaveIsSealed
<1>3. CASE Passed(draft) = {}
  BY <1>1, <1>2, <1>3
<1>4. CASE Clear(i + 1, Moves \cup {"save"})
  <2>1. Clear(i, Moves \cup {"save"})' /\ todo[1] \notin Moves \cup {"save"}
    BY <1>4, ClearShift
  <2>2. Record' = Record
    BY <2>1, Shift, WriteType, TreeAfterType DEF Record
  <2>3. CASE Preceded(i + 1, "seal")
    <3>1. Preceded(i, "seal")' \/ todo[1] = "seal"
      BY <2>3, PrecededShift
    <3>2. todo[1] = "seal" => Passed(draft') \subseteq Passed(sealed'.dir.record)
      BY <1>1, WriteRest
    <3>3. QED
      BY <1>1, <1>2, <2>1, <3>1, <3>2
  <2>4. CASE Passed(draft) \subseteq Passed(Record) \cup Passed(sealed.dir.record)
    <3>1. sealed' = sealed \/ sealed'.dir.record = draft
      BY WriteRest
    <3>2. QED
      BY <1>1, <1>2, <2>1, <2>2, <2>4, <3>1
  <2>5. QED
    BY <1>2, <1>3, <2>3, <2>4
<1>5. QED
  BY <1>2, <1>3, <1>4

LEMMA WriteRecordKnown ==
  ASSUME Typed, WorktreeFits, SaveIsSealed, RecordKnown, Write
  PROVE  RecordKnown'
<1>1. session' = session
  BY DEF Write
<1>2. /\ 1 \in Places /\ todo[1] \in Writes /\ tree' = TreeAfter(todo[1])
      /\ todo[1] = "worktree" => spent.trees < MaxTrees
  BY Shift, WriteType
<1>3. ASSUME NEW k \in Places, k # 1, todo[k] = "save"
      PROVE  \E i \in Places' : todo'[i] = "save"
  BY <1>3, Shift
<1>4. ASSUME session', Exists'
      PROVE  Record' # NoRecord \/ \E i \in Places' : todo'[i] = "save"
  <2>1. CASE todo[1] = "remove"
    BY <1>2, <1>4, <2>1, TreeAfterType DEF Exists
  <2>2. CASE todo[1] \in Moves \ {"remove"}
    <3>1. PICK k \in Places : k > 1 /\ todo[k] = "save"
      BY <1>1, <1>2, <1>4, <2>2 DEF RecordKnown
    <3>2. QED
      BY <1>3, <3>1
  <2>3. CASE todo[1] = "save"
    <3>1. draft # NoRecord
      BY <1>2, <2>3 DEF SaveIsSealed
    <3>2. QED
      BY <1>2, <2>3, <3>1, TreeAfterType DEF Record
  <2>4. CASE todo[1] \notin Moves \cup {"save"}
    <3>1. Record' = Record /\ Exists
      BY <1>2, <1>4, <2>4, TreeAfterType DEF Record, Exists
    <3>2. Record # NoRecord \/ \E i \in Places : todo[i] = "save"
      BY <1>1, <1>4, <3>1 DEF RecordKnown
    <3>3. QED
      BY <1>3, <2>4, <3>1, <3>2
  <2>5. QED
    BY <2>1, <2>2, <2>3, <2>4
<1>5. ASSUME NEW i \in Places', session', todo'[i] \in Moves \ {"remove"}
      PROVE  \E k \in Places' : k > i /\ todo'[k] = "save"
  <2>1. i + 1 \in Places /\ todo[i + 1] = todo'[i] /\ i \in Nat /\ i >= 1
    BY Shift DEF Places
  <2>2. PICK k \in Places : k > i + 1 /\ todo[k] = "save"
    BY <1>1, <1>5, <2>1 DEF RecordKnown
  <2>3. k - 1 \in Places' /\ todo'[k - 1] = "save" /\ k - 1 > i
    BY <2>1, <2>2, Shift DEF Places
  <2>4. QED
    BY <2>3
<1>6. QED
  BY <1>4, <1>5 DEF RecordKnown

LEMMA WritePromoteIsOfficial ==
  ASSUME Typed, WorktreeFits, PromoteIsOfficial, Write
  PROVE  PromoteIsOfficial'
<1> SUFFICES ASSUME NEW i \in Places', todo'[i] = "promote"
             PROVE  /\ Clear(i, Moves \cup {"withdraw"})'
                    /\ tree'.commit = draft'.commit
                    /\ official' \/ Preceded(i, "authorize")'
                    /\ sealed'.dir.record = draft' \/ Preceded(i, "seal")'
  BY DEF PromoteIsOfficial
<1>1. i + 1 \in Places /\ todo[i + 1] = "promote" /\ draft' = draft
  BY Shift, WriteRest
<1>2. /\ Clear(i + 1, Moves \cup {"withdraw"})
      /\ tree.commit = draft.commit
      /\ official \/ Preceded(i + 1, "authorize")
      /\ sealed.dir.record = draft \/ Preceded(i + 1, "seal")
  BY <1>1 DEF PromoteIsOfficial
<1>3. Clear(i, Moves \cup {"withdraw"})' /\ todo[1] \notin Moves \cup {"withdraw"}
  BY <1>2, ClearShift
<1>4. tree'.commit = tree.commit
  BY <1>3, Shift, WriteType, TreeAfterType
<1>5. official' \/ Preceded(i, "authorize")'
  <2>1. official' = (official \/ todo[1] = "authorize")
    BY <1>3, WriteRest
  <2>2. Preceded(i + 1, "authorize") => Preceded(i, "authorize")' \/ todo[1] = "authorize"
    BY PrecededShift
  <2>3. QED
    BY <1>2, <2>1, <2>2
<1>6. sealed'.dir.record = draft \/ Preceded(i, "seal")'
  <2>1. Preceded(i + 1, "seal") => Preceded(i, "seal")' \/ todo[1] = "seal"
    BY PrecededShift
  <2>2. QED
    BY <1>2, <2>1, WriteRest
<1>7. QED
  BY <1>1, <1>2, <1>3, <1>4, <1>5, <1>6

LEMMA WriteInv ==
  ASSUME IInv, Write
  PROVE  IInv'
BY WriteType, WriteWorktreeFits, WriteCopyIsFirst, WriteSaveIsSealed, WriteRecordKnown,
   WritePromoteIsOfficial DEF IInv


-----------------------------------------------------------------------------
(* The commands *)

\* The lists of writes, written out
LEMMA Lists ==
  /\ LET l == Creation \o <<"withdraw", "save">> IN
       /\ l \in Seq(Writes) /\ Len(l) = 8
       /\ l[1] = "activate" /\ l[2] = "worktree" /\ l[3] = "copy" /\ l[4] = "clearFailure"
       /\ l[5] = "markSource" /\ l[6] = "markTree" /\ l[7] = "withdraw" /\ l[8] = "save"
  /\ LET l == <<"withdraw">> \o SealFirst \o <<"report">> IN
       /\ l \in Seq(Writes) /\ Len(l) = 5
       /\ l[1] = "withdraw" /\ l[2] = "seal" /\ l[3] = "mirror" /\ l[4] = "save"
       /\ l[5] = "report"
  /\ LET l == <<"authorize">> \o SealFirst \o <<"clear">> \o Sync IN
       /\ l \in Seq(Writes) /\ Len(l) = 13
       /\ l[1] = "authorize" /\ l[2] = "seal" /\ l[3] = "mirror" /\ l[4] = "save"
       /\ l[5] = "clear" /\ l[6] = "promote" /\ l[7] = "unmark" /\ l[8] = "empty"
       /\ l[9] = "publish" /\ l[10] = "unmarkSource" /\ l[11] = "clearFailure"
       /\ l[12] = "release" /\ l[13] = "remove"
BY DEF Creation, SealFirst, Sync, Writes

LEMMA InitInv == Init => IInv
<1> SUFFICES ASSUME Init PROVE IInv
  OBVIOUS
<1>1. todo \in Seq(Writes) /\ Places = {}
  BY DEF Init, Places
<1>2. git \in [head: Commits, active: Commits \cup {None}, baseline: Commits \cup {None}]
  BY PlanAssumption DEF Init, Commits
<1>3. spent \in [trees: 0 .. MaxTrees, kills: 0 .. MaxKills, failures: 0 .. MaxFailures]
  BY PlanAssumption DEF Init
<1>4. TypeOK
  BY <1>2, <1>3, EmptyType, NoRecordType DEF Init, TypeOK
<1>5. QED
  BY <1>1, <1>4 DEF Init, IInv, Typed, WorktreeFits, CopyIsFirst, SaveIsSealed, RecordKnown,
     PromoteIsOfficial

\* A command that neither makes, removes nor promotes a worktree
LEMMA WorkInv ==
  ASSUME Typed', UNCHANGED <<tree, sealed>>, session', draft' \in Prepared, Idle,
         IInv,
         \A i \in Places' : todo'[i] \notin Moves \cup {"promote"},
         \A i \in Places' : todo'[i] = "save" =>
           /\ \A j \in Places' : todo'[j] = "save" => j = i
           /\ Preceded(i, "seal")' \/ Passed(draft') \subseteq Passed(Record),
         \E i \in Places' : todo'[i] = "save"
  PROVE  IInv'
<1>1. WorktreeFits' /\ CopyIsFirst' /\ PromoteIsOfficial'
  BY DEF WorktreeFits, CopyIsFirst, PromoteIsOfficial, Moves
<1>2. SaveIsSealed'
  <2> SUFFICES ASSUME NEW i \in Places', todo'[i] = "save"
               PROVE  /\ draft' # NoRecord
                      /\ Clear(i, Moves \cup {"save"})'
                      /\ \/ Preceded(i, "seal")'
                         \/ Passed(draft') \subseteq
                              Passed(Record') \cup Passed(sealed'.dir.record)
    BY DEF SaveIsSealed
  <2>1. \A j \in 1 .. i - 1 : j \in Places' /\ j # i
    BY DEF Places, Typed
  <2>2. Clear(i, Moves \cup {"save"})'
    BY <2>1 DEF Clear
  <2>3. QED
    BY <2>2 DEF Prepared, Record
<1>3. RecordKnown'
  BY DEF RecordKnown
<1>4. QED
  BY <1>1, <1>2, <1>3 DEF IInv

\* What a Coordinator that holds the worktree knows
LEMMA HeldRecord ==
  ASSUME IInv, Held
  PROVE  Record \in Prepared /\ Record.current \in Phases /\ Idle /\ Places = {}
<1>1. Idle /\ Places = {} /\ session /\ Exists
  BY DEF Held, Idle, Places
<1>2. Record # NoRecord
  BY <1>1 DEF IInv, RecordKnown
<1>3. Record \in Records
  BY DEF IInv, Typed, TypeOK, Trees, Dirs, Record
<1>4. Record \in Prepared
  BY <1>2, <1>3 DEF Prepared
<1>5. QED
  BY <1>1, <1>4, PreparedType

\* What a dispatch is going to write
LEMMA DispatchFacts ==
  ASSUME IInv, NEW overrides \in BOOLEAN, Dispatch(overrides)
  PROVE  /\ draft' \in Prepared /\ Passed(draft') = {} /\ draft'.current = Plan[1]
         /\ session' = TRUE /\ spent.trees < MaxTrees
         /\ UNCHANGED <<git, source, tree, sealed, ledger, official, spent>>
         /\ todo' \in Seq(Writes) /\ Len(todo') = 8 /\ Places' = 1 .. 8
         /\ todo'[1] = "activate" /\ todo'[2] = "worktree" /\ todo'[3] = "copy"
         /\ todo'[4] = "clearFailure" /\ todo'[5] = "markSource" /\ todo'[6] = "markTree"
         /\ todo'[7] = "withdraw" /\ todo'[8] = "save"
<1> DEFINE r == [NoRecord EXCEPT !.run = spent.trees + 1, !.commit = git.head,
                                 !.status = "running", !.current = Plan[1]]
<1>1. /\ todo' = Creation \o <<"withdraw", "save">> /\ draft' = r /\ session' = TRUE
      /\ UNCHANGED <<git, source, tree, sealed, ledger, official, spent>>
      /\ spent.trees < MaxTrees
  BY DEF Dispatch, Run
<1>2. r \in Prepared /\ Passed(r) = {} /\ r.current = Plan[1]
  <2>1. /\ spent.trees + 1 \in 1 .. MaxTrees /\ git.head \in Commits /\ Plan[1] \in Phases
        /\ [ph \in Phases |-> "none"] \in [Phases -> {"none", "running", "succeeded", "failed"}]
    BY <1>1, PlanAssumption DEF IInv, Typed, TypeOK, Phases
  <2>2. NoRecord \in [run: {0}, commit: {None}, status: {"none"}, current: {None},
                      phases: {[ph \in Phases |-> "none"]}]
    BY DEF NoRecord
  <2>3. r \in [run: 1 .. MaxTrees, commit: Commits, status: {"running"}, current: {Plan[1]},
               phases: {[ph \in Phases |-> "none"]}]
    BY <2>1, <2>2
  <2>4. QED
    BY <2>1, <2>3, PreparedType DEF Passed
<1> HIDE DEF r
<1>3. QED
  BY <1>1, <1>2, Lists DEF Places

LEMMA DispatchInv ==
  ASSUME IInv, NEW overrides \in BOOLEAN, Dispatch(overrides)
  PROVE  IInv'
<1>1. /\ draft' \in Prepared /\ Passed(draft') = {} /\ session' = TRUE
      /\ UNCHANGED <<git, source, tree, sealed, ledger, official, spent>>
      /\ spent.trees < MaxTrees /\ todo' \in Seq(Writes)
  BY DispatchFacts
<1>2. Typed'
  BY <1>1 DEF IInv, Typed, TypeOK, Prepared
<1>3. /\ Places' = 1 .. 8
      /\ todo'[1] = "activate" /\ todo'[2] = "worktree" /\ todo'[3] = "copy"
      /\ todo'[4] = "clearFailure" /\ todo'[5] = "markSource" /\ todo'[6] = "markTree"
      /\ todo'[7] = "withdraw" /\ todo'[8] = "save"
  BY DispatchFacts
<1>4. WorktreeFits'
  <2>1. \A i \in 1 .. 8 : todo'[i] = "worktree" => i = 2
    BY <1>3
  <2>2. Clear(2, {"worktree"})'
    BY <1>3 DEF Clear
  <2>3. QED
    BY <1>1, <1>3, <2>1, <2>2 DEF WorktreeFits
<1>5. CopyIsFirst'
  <2>1. \A i \in 1 .. 8 : todo'[i] = "copy" => i = 3
    BY <1>3
  <2>2. QED
    BY <1>3, <2>1 DEF CopyIsFirst
<1>6. SaveIsSealed'
  BY <1>1 DEF SaveIsSealed, Prepared
<1>7. RecordKnown'
  <2>1. \A i \in 1 .. 8 : todo'[i] \in Moves \ {"remove"} => i \in 1 .. 7
    BY <1>3 DEF Moves
  <2>2. QED
    BY <1>3, <2>1 DEF RecordKnown
<1>8. PromoteIsOfficial'
  <2>1. \A i \in 1 .. 8 : todo'[i] # "promote"
    BY <1>3
  <2>2. QED
    BY <1>3, <2>1 DEF PromoteIsOfficial
<1>9. QED
  BY <1>2, <1>4, <1>5, <1>6, <1>7, <1>8 DEF IInv

\* A command without a Coordinator that saves no record
LEMMA IdleInv ==
  ASSUME IInv, session' = FALSE, todo' \in Seq(Writes), draft' = NoRecord,
         UNCHANGED <<git, source, tree, sealed, ledger, official, spent>>,
         \A i \in Places' : todo'[i] \notin {"copy", "save", "promote"},
         WorktreeFits'
  PROVE  IInv'
<1>1. Typed'
  BY NoRecordType DEF IInv, Typed, TypeOK
<1>2. QED
  BY <1>1 DEF IInv, CopyIsFirst, SaveIsSealed, RecordKnown, PromoteIsOfficial

LEMMA RebuildInv ==
  ASSUME IInv, Rebuild
  PROVE  IInv'
<1>1. /\ todo' = <<"worktree", "restore", "markTree", "markSource">> /\ draft' = NoRecord
      /\ UNCHANGED <<git, source, tree, sealed, ledger, official, spent>>
      /\ spent.trees < MaxTrees /\ session' = FALSE
  BY DEF Rebuild, Run
<1>2. todo' \in Seq(Writes)
  BY <1>1 DEF Writes
<1>3. /\ Places' = 1 .. 4
      /\ todo'[1] = "worktree" /\ todo'[2] = "restore" /\ todo'[3] = "markTree"
      /\ todo'[4] = "markSource"
  BY <1>1 DEF Places
<1>4. WorktreeFits'
  <2>1. \A i \in 1 .. 4 : todo'[i] = "worktree" => i = 1
    BY <1>3
  <2>2. Clear(1, {"worktree"})'
    BY DEF Clear
  <2>3. QED
    BY <1>1, <1>3, <2>1, <2>2 DEF WorktreeFits
<1>5. \A i \in Places' : todo'[i] \notin {"copy", "save", "promote"}
  BY <1>3
<1>6. QED
  BY <1>1, <1>2, <1>4, <1>5, IdleInv

LEMMA DiscardInv ==
  ASSUME IInv, Discard
  PROVE  IInv'
<1>1. /\ \/ todo' = <<"unmark", "unmarkSource", "release", "remove">>
         \/ todo' = <<"unmarkSource", "release">>
      /\ draft' = NoRecord /\ session' = FALSE
      /\ UNCHANGED <<git, source, tree, sealed, ledger, official, spent>>
  BY DEF Discard, Run
<1>2. todo' \in Seq(Writes)
  <2>1. <<"unmark", "unmarkSource", "release", "remove">> \in Seq(Writes)
    BY DEF Writes
  <2>2. <<"unmarkSource", "release">> \in Seq(Writes)
    BY DEF Writes
  <2>3. QED
    BY <1>1, <2>1, <2>2
<1>3. \A i \in Places' : todo'[i] \in {"unmark", "unmarkSource", "release", "remove"}
  BY <1>1 DEF Places
<1>4. WorktreeFits'
  BY <1>3 DEF WorktreeFits
<1>5. QED
  BY <1>1, <1>2, <1>3, <1>4, IdleInv

\* A plan that has not passed has a first phase that has not passed.
LEMMA FirstOpen ==
  ASSUME NEW r \in Records, Passed(r) # Phases
  PROVE  NextPhase(r) \in Phases \ Passed(r) /\ Before(NextPhase(r)) \subseteq Passed(r)
<1>1. Plan \in Seq(Phases)
  BY PlanAssumption
<1> DEFINE Open == {i \in DOMAIN Plan : Plan[i] \notin Passed(r)}
<1>2. Open # {}
  BY DEF Passed, Phases
<1>3. Open \in SUBSET Nat
  BY <1>1
<1>4. PICK i \in Open : \A j \in Open : i <= j
  <2> HIDE DEF Open
  <2>1. PICK i \in Open : \A j \in Open : ~(<<j, i>> \in OpToRel(<, Nat))
    BY <1>2, <1>3, NatLessThanWellFounded, IsWellFoundedOnSubset, WFMin
  <2>2. ASSUME NEW j \in Open PROVE i <= j
    <3>1. i \in Nat /\ j \in Nat
      BY <1>3
    <3>2. ~(j < i)
      BY <2>1, <3>1 DEF OpToRel
    <3>3. QED
      BY <3>1, <3>2
  <2>3. QED
    BY <2>2
<1>5. Position(Plan[i]) = i
  BY PlanAssumption DEF Position
<1>6. Before(Plan[i]) \subseteq Passed(r)
  BY <1>1, <1>4, <1>5 DEF Before
<1>7. Plan[i] \in Phases \ Passed(r)
  BY DEF Phases
<1>8. QED
  BY <1>6, <1>7 DEF NextPhase

LEMMA NextPhaseType ==
  ASSUME NEW r \in Records
  PROVE  NextPhase(r) \in Phases
<1>1. Plan[Len(Plan)] \in Phases
  BY PlanAssumption DEF Phases
<1>2. QED
  BY <1>1, FirstOpen DEF NextPhase

LEMMA ResumeInv ==
  ASSUME IInv, Resume
  PROVE  IInv'
<1> DEFINE ph == NextPhase(Record)
           r  == [Record EXCEPT !.status = "running", !.current = ph, !.phases[ph] = "none"]
<1>1. /\ todo' = <<"save", "clearFailure">> \/ todo' = <<"save">>
      /\ draft' = r /\ session' = TRUE
      /\ UNCHANGED <<git, source, tree, sealed, ledger, official, spent>>
      /\ Idle /\ Record.status # "none"
  BY DEF Resume, Resumable, Run
<1>2. Record \in Records
  BY DEF IInv, Typed, TypeOK, Trees, Dirs, Record
<1>3. Record \in Prepared
  BY <1>1, <1>2 DEF Prepared, NoRecord
<1>4. ph \in Phases
  BY <1>2, NextPhaseType
<1> HIDE DEF ph
<1>5. r \in Prepared /\ Passed(r) \subseteq Passed(Record)
  BY <1>3, <1>4, RecordChanges, UnpassedSubset
<1> HIDE DEF r
<1>6. Typed'
  <2>1. <<"save", "clearFailure">> \in Seq(Writes)
    BY DEF Writes
  <2>2. <<"save">> \in Seq(Writes)
    BY DEF Writes
  <2>3. todo' \in Seq(Writes)
    BY <1>1, <2>1, <2>2
  <2>4. draft' \in Records
    BY <1>1, <1>5 DEF Prepared
  <2>5. /\ UNCHANGED <<git, source, tree, sealed, ledger, official, spent>>
        /\ session' \in BOOLEAN
    BY <1>1 DEF IInv, Typed, TypeOK
  <2>6. QED
    BY <2>3, <2>4, <2>5 DEF IInv, Typed, TypeOK
<1>7. /\ 1 \in Places' /\ todo'[1] = "save"
      /\ \A i \in Places' : todo'[i] \in {"save", "clearFailure"}
      /\ \A i \in Places' : todo'[i] = "save" => i = 1
  BY <1>1 DEF Places
<1>8. QED
  BY <1>1, <1>5, <1>6, <1>7, WorkInv DEF Moves

LEMMA PhaseStartInv ==
  ASSUME IInv, PhaseStart
  PROVE  IInv'
<1> DEFINE ph == Record.current
           r  == [Record EXCEPT !.phases[ph] = "running"]
<1>1. /\ todo' = <<"reset", "save">> \/ todo' = <<"save">>
      /\ draft' = r /\ session' = session /\ Held
      /\ UNCHANGED <<git, source, tree, sealed, ledger, official, spent>>
  BY DEF PhaseStart, Run
<1>2. Record \in Prepared /\ ph \in Phases /\ Idle /\ session
  BY <1>1, HeldRecord DEF Held
<1> HIDE DEF ph
<1>3. r \in Prepared /\ Passed(r) \subseteq Passed(Record)
  BY <1>2, RecordChanges, UnpassedSubset
<1> HIDE DEF r
<1>4. Typed'
  <2>1. <<"reset", "save">> \in Seq(Writes)
    BY DEF Writes
  <2>2. <<"save">> \in Seq(Writes)
    BY DEF Writes
  <2>3. todo' \in Seq(Writes)
    BY <1>1, <2>1, <2>2
  <2>4. draft' \in Records
    BY <1>1, <1>3 DEF Prepared
  <2>5. /\ UNCHANGED <<git, source, tree, sealed, ledger, official, spent>>
        /\ session' \in BOOLEAN
    BY <1>1 DEF IInv, Typed, TypeOK
  <2>6. QED
    BY <2>3, <2>4, <2>5 DEF IInv, Typed, TypeOK
<1>5. /\ \A i \in Places' : todo'[i] \in {"save", "reset"}
      /\ \A i, j \in Places' : todo'[i] = "save" /\ todo'[j] = "save" => i = j
      /\ \E i \in Places' : todo'[i] = "save"
  <2>1. CASE todo' = <<"reset", "save">>
    <3>1. Places' = 1 .. 2 /\ todo'[1] = "reset" /\ todo'[2] = "save"
      BY <2>1 DEF Places
    <3>2. QED
      BY <3>1
  <2>2. CASE todo' = <<"save">>
    <3>1. Places' = 1 .. 1 /\ todo'[1] = "save"
      BY <2>2 DEF Places
    <3>2. QED
      BY <3>1
  <2>3. QED
    BY <1>1, <2>1, <2>2
<1>6. QED
  BY <1>1, <1>2, <1>3, <1>4, <1>5, WorkInv DEF Moves

\* A command that takes a checkpoint before it saves its record
LEMMA SealInv ==
  ASSUME IInv, Held, draft' \in Prepared, session' = session,
         UNCHANGED <<git, source, tree, sealed, ledger, official>>,
         spent' \in [trees: 0 .. MaxTrees, kills: 0 .. MaxKills, failures: 0 .. MaxFailures],
         \/ todo' = SealFirst
         \/ todo' = <<"withdraw">> \o SealFirst \o <<"report">>
  PROVE  IInv'
<1>1. Idle /\ session
  BY DEF Held
<1>2. todo' \in Seq(Writes)
  <2>1. SealFirst \in Seq(Writes)
    BY DEF SealFirst, Writes
  <2>2. QED
    BY <2>1, Lists
<1>3. Typed'
  BY <1>2 DEF IInv, Typed, TypeOK, Prepared
<1>4. /\ \A i \in Places' : todo'[i] \in {"withdraw", "seal", "mirror", "save", "report"}
      /\ \A i, j \in Places' : todo'[i] = "save" /\ todo'[j] = "save" => i = j
      /\ \E i \in Places' : todo'[i] = "save"
      /\ \A i \in Places' : todo'[i] = "save" => Preceded(i, "seal")'
  <2>1. CASE todo' = SealFirst
    <3>1. Places' = 1 .. 3 /\ todo'[1] = "seal" /\ todo'[2] = "mirror" /\ todo'[3] = "save"
      BY <2>1 DEF Places, SealFirst
    <3>2. Preceded(3, "seal")'
      BY <3>1 DEF Preceded
    <3>3. QED
      BY <3>1, <3>2
  <2>2. CASE todo' = <<"withdraw">> \o SealFirst \o <<"report">>
    <3>1. /\ Places' = 1 .. 5 /\ todo'[1] = "withdraw" /\ todo'[2] = "seal"
          /\ todo'[3] = "mirror" /\ todo'[4] = "save" /\ todo'[5] = "report"
      BY <2>2, Lists DEF Places
    <3>2. Preceded(4, "seal")'
      BY <3>1 DEF Preceded
    <3>3. QED
      BY <3>1, <3>2
  <2>3. QED
    BY <2>1, <2>2
<1>5. QED
  BY <1>1, <1>3, <1>4, WorkInv DEF Moves

LEMMA PhaseCompleteInv ==
  ASSUME IInv, PhaseComplete
  PROVE  IInv'
<1> DEFINE ph == Record.current
           q  == Successor(ph)
           r  == [Record EXCEPT !.phases[ph] = "succeeded", !.current = q]
<1>1. /\ todo' = SealFirst /\ draft' = r /\ session' = session /\ Held
      /\ UNCHANGED <<git, source, tree, sealed, ledger, official, spent>>
  BY DEF PhaseComplete, Run
<1>2. Record \in Prepared /\ ph \in Phases
  BY <1>1, HeldRecord
<1>3. q \in Phases
  <2>1. Plan \in Seq(Phases) /\ Position(ph) \in DOMAIN Plan
    BY <1>2, PlanAssumption DEF Position, Phases
  <2>2. Position(ph) < Len(Plan) => Position(ph) + 1 \in DOMAIN Plan
    BY <2>1
  <2>3. QED
    BY <1>2, <2>1, <2>2 DEF Successor, Phases
<1> HIDE DEF ph, q
<1>4. r \in Prepared
  BY <1>2, <1>3, RecordChanges
<1> HIDE DEF r
<1>5. QED
  BY <1>1, <1>4, SealInv DEF IInv, Typed, TypeOK

LEMMA FailureInv ==
  ASSUME IInv, PhaseFail \/ Fail
  PROVE  IInv'
<1>1. PICK r : Failure(r) /\ (Held => r \in Prepared)
  <2>1. CASE PhaseFail
    <3>1. Held => [Record EXCEPT !.status = "failed", !.phases[Record.current] = "failed"]
                    \in Prepared
      BY HeldRecord, RecordChanges
    <3>2. QED
      BY <2>1, <3>1 DEF PhaseFail
  <2>2. CASE Fail
    <3> DEFINE status == IF Record.phases[Record.current] = "failed" THEN "failed"
                         ELSE "interrupted"
    <3>1. status \in {"running", "succeeded", "failed", "interrupted"}
      OBVIOUS
    <3>2. Failure([Record EXCEPT !.status = status])
      BY <2>2 DEF Fail
    <3> HIDE DEF status
    <3>3. Held => [Record EXCEPT !.status = status] \in Prepared
      BY <3>1, HeldRecord, PreparedType
    <3>4. QED
      BY <3>2, <3>3
  <2>3. QED
    BY <2>1, <2>2
<1>2. /\ Held /\ draft' \in Prepared /\ session' = session
      /\ UNCHANGED <<git, source, tree, sealed, ledger, official>>
      /\ todo' = <<"withdraw">> \o SealFirst \o <<"report">>
      /\ spent.failures < MaxFailures
      /\ spent' = [spent EXCEPT !.failures = spent.failures + 1]
  BY <1>1 DEF Failure
<1>3. spent' \in [trees: 0 .. MaxTrees, kills: 0 .. MaxKills, failures: 0 .. MaxFailures]
  <2>1. spent \in [trees: 0 .. MaxTrees, kills: 0 .. MaxKills, failures: 0 .. MaxFailures]
    BY DEF IInv, Typed, TypeOK
  <2>2. spent.failures + 1 \in 0 .. MaxFailures
    BY <1>2, <2>1, PlanAssumption
  <2>3. QED
    BY <1>2, <2>1, <2>2
<1>4. QED
  BY <1>2, <1>3, SealInv

\* What a completion is going to write
LEMMA CompleteFacts ==
  ASSUME IInv, Complete
  PROVE  /\ Record \in Prepared /\ draft' \in Prepared
         /\ Passed(Record) = Phases /\ Passed(draft') = Phases
         /\ draft'.commit = Record.commit /\ draft'.current = Record.current
         /\ tree.commit = Record.commit /\ Held /\ session' = session
         /\ UNCHANGED <<git, source, tree, sealed, ledger, official, spent>>
         /\ todo' \in Seq(Writes) /\ Places' = 1 .. 13
         /\ todo'[1] = "authorize" /\ todo'[2] = "seal" /\ todo'[3] = "mirror"
         /\ todo'[4] = "save" /\ todo'[5] = "clear" /\ todo'[6] = "promote"
         /\ todo'[7] = "unmark" /\ todo'[8] = "empty" /\ todo'[9] = "publish"
         /\ todo'[10] = "unmarkSource" /\ todo'[11] = "clearFailure"
         /\ todo'[12] = "release" /\ todo'[13] = "remove"
<1> DEFINE r == [Record EXCEPT !.status = "succeeded"]
<1>1. /\ todo' = <<"authorize">> \o SealFirst \o <<"clear">> \o Sync
      /\ draft' = r /\ session' = session /\ Held /\ tree.commit = Record.commit
      /\ Passed(Record) = Phases
      /\ UNCHANGED <<git, source, tree, sealed, ledger, official, spent>>
  BY DEF Complete, Run
<1>2. Record \in Prepared
  BY <1>1, HeldRecord
<1>3. /\ r \in Prepared /\ r.commit = Record.commit /\ r.current = Record.current
      /\ Passed(r) = Passed(Record)
  BY <1>2, PreparedType DEF Passed
<1> HIDE DEF r
<1>4. QED
  BY <1>1, <1>2, <1>3, Lists DEF Places

LEMMA CompleteInv ==
  ASSUME IInv, Complete
  PROVE  IInv'
<1>1. /\ draft' \in Prepared /\ draft'.commit = Record.commit /\ tree.commit = Record.commit
      /\ session' = session /\ todo' \in Seq(Writes)
      /\ UNCHANGED <<git, source, tree, sealed, ledger, official, spent>>
  BY CompleteFacts
<1>2. Typed'
  BY <1>1 DEF IInv, Typed, TypeOK, Prepared
<1>3. /\ Places' = 1 .. 13
      /\ todo'[1] = "authorize" /\ todo'[2] = "seal" /\ todo'[3] = "mirror" /\ todo'[4] = "save"
      /\ todo'[5] = "clear" /\ todo'[6] = "promote" /\ todo'[7] = "unmark" /\ todo'[8] = "empty"
      /\ todo'[9] = "publish" /\ todo'[10] = "unmarkSource" /\ todo'[11] = "clearFailure"
      /\ todo'[12] = "release" /\ todo'[13] = "remove"
  BY CompleteFacts
<1>4. /\ \A i \in Places' : todo'[i] \notin {"worktree", "copy", "restore"}
      /\ \A i \in Places' : todo'[i] = "save" => i = 4
      /\ \A i \in Places' : todo'[i] = "promote" => i = 6
  BY <1>3
<1>5. WorktreeFits' /\ CopyIsFirst'
  BY <1>4 DEF WorktreeFits, CopyIsFirst
<1>6. SaveIsSealed'
  <2>1. Clear(4, Moves \cup {"save"})' /\ Preceded(4, "seal")'
    BY <1>3 DEF Clear, Preceded, Moves
  <2>2. draft' # NoRecord
    BY <1>1 DEF Prepared
  <2>3. QED
    BY <1>4, <2>1, <2>2 DEF SaveIsSealed
<1>7. RecordKnown'
  <2>1. \E i \in Places' : todo'[i] = "save"
    BY <1>3
  <2>2. \A i \in Places' : todo'[i] \notin Moves \ {"remove"}
    BY <1>4 DEF Moves
  <2>3. QED
    BY <2>1, <2>2 DEF RecordKnown
<1>8. PromoteIsOfficial'
  <2>1. Clear(6, Moves \cup {"withdraw"})'
    BY <1>3 DEF Clear, Moves
  <2>2. Preceded(6, "authorize")' /\ Preceded(6, "seal")'
    BY <1>3 DEF Preceded
  <2>3. tree'.commit = draft'.commit
    BY <1>1
  <2>4. QED
    BY <1>4, <2>1, <2>2, <2>3 DEF PromoteIsOfficial
<1>9. QED
  BY <1>2, <1>5, <1>6, <1>7, <1>8 DEF IInv

-----------------------------------------------------------------------------
(* The steps that leave no write to be made *)

LEMMA QuietInv ==
  ASSUME TypeOK', todo' = <<>>, session' /\ Exists' => Record' # NoRecord
  PROVE  IInv'
<1>1. todo' \in Seq(Writes) /\ Places' = {}
  BY DEF Places
<1>2. QED
  BY <1>1 DEF IInv, Typed, WorktreeFits, CopyIsFirst, SaveIsSealed, RecordKnown, PromoteIsOfficial

LEMMA WorkingInv ==
  ASSUME IInv, Working
  PROVE  IInv' /\ Record' = Record
<1>1. PICK ph \in Phases : PlanJobs(ph) \/ Produce(ph) \/ PhaseReceipt(ph)
  BY DEF Working
<1>2. Held /\ UNCHANGED <<git, source, sealed, official, todo, draft, session, spent>>
  BY <1>1 DEF PlanJobs, Produce, PhaseReceipt
<1>3. todo' = <<>> /\ Record # NoRecord
  BY <1>2, HeldRecord DEF Prepared, Idle
<1>4. tree \in Trees /\ tree.dir \in Dirs
  BY DEF IInv, Typed, TypeOK, Trees
<1>5. tree' \in Trees /\ Record' = Record
  <2>1. CASE PlanJobs(ph)
    BY <1>4, <2>1 DEF PlanJobs, Record
  <2>2. CASE Produce(ph)
    <3> DEFINE outputs == [tree.dir.outputs EXCEPT ![ph] = tree.commit]
               d == [tree.dir EXCEPT !.outputs = outputs]
    <3>1. outputs \in [Phases -> Commits \cup {None}]
      BY <1>4 DEF Dirs, Trees
    <3>2. d \in Dirs /\ d.record = tree.dir.record
      BY <1>4, <3>1, DirOutputs
    <3>3. tree' = [tree EXCEPT !.dir = d]
      BY <2>2 DEF Produce
    <3> HIDE DEF d
    <3>4. QED
      BY <1>4, <3>2, <3>3, TreeWrites DEF Record
  <2>3. CASE PhaseReceipt(ph)
    <3> DEFINE receipts == IF ledger[ph] = "done" THEN tree.dir.receipts \cup {ph}
                           ELSE tree.dir.receipts \ {ph}
               d == [tree.dir EXCEPT !.receipts = receipts]
    <3>1. receipts \in SUBSET Phases
      BY <1>4 DEF Dirs
    <3>2. d \in Dirs /\ d.record = tree.dir.record
      BY <1>4, <3>1 DEF Dirs
    <3>3. tree' = [tree EXCEPT !.dir = d]
      BY <2>3 DEF PhaseReceipt
    <3> HIDE DEF d
    <3>4. QED
      BY <1>4, <3>2, <3>3, TreeWrites DEF Record
  <2>4. QED
    BY <1>1, <2>1, <2>2, <2>3
<1>6. ledger' \in [Phases -> {"none", "open", "done"}]
  BY <1>1 DEF PlanJobs, Produce, PhaseReceipt, IInv, Typed, TypeOK
<1>7. TypeOK'
  BY <1>2, <1>5, <1>6 DEF IInv, Typed, TypeOK
<1>8. QED
  BY <1>3, <1>5, <1>7, QuietInv

LEMMA KilledType ==
  ASSUME IInv, Killed
  PROVE  spent' \in [trees: 0 .. MaxTrees, kills: 0 .. MaxKills, failures: 0 .. MaxFailures]
<1>1. spent \in [trees: 0 .. MaxTrees, kills: 0 .. MaxKills, failures: 0 .. MaxFailures]
  BY DEF IInv, Typed, TypeOK
<1>2. spent' = [spent EXCEPT !.kills = spent.kills + 1] /\ spent.kills + 1 \in 0 .. MaxKills
  BY <1>1, PlanAssumption DEF Killed
<1>3. QED
  BY <1>1, <1>2

LEMMA FaultInv ==
  ASSUME IInv, Leave \/ Kill \/ Undo \/ LoseTree \/ UserCommits
  PROVE  /\ IInv' /\ todo' = <<>> /\ session' = FALSE
         /\ UNCHANGED <<source, sealed, ledger, official>>
         /\ draft' = draft \/ draft' = NoRecord
         /\ tree' = tree \/ tree' = Gone
<1>1. /\ UNCHANGED <<source, sealed, ledger, official>>
      /\ todo' = <<>> /\ session' = FALSE
      /\ draft' = draft \/ draft' = NoRecord
      /\ tree' = tree \/ tree' = Gone
  <2>1. session \in BOOLEAN
    BY DEF IInv, Typed, TypeOK
  <2>2. CASE Leave
    BY <2>2 DEF Leave, Idle
  <2>3. CASE Kill \/ Undo
    BY <2>3 DEF Kill, Undo
  <2>4. CASE LoseTree \/ UserCommits
    BY <2>1, <2>4 DEF LoseTree, UserCommits, Idle
  <2>5. QED
    BY <2>2, <2>3, <2>4
<1>2. git' \in [head: Commits, active: Commits \cup {None}, baseline: Commits \cup {None}]
  <2>1. git \in [head: Commits, active: Commits \cup {None}, baseline: Commits \cup {None}]
    BY DEF IInv, Typed, TypeOK
  <2>2. CASE UserCommits
    <3>1. git' = [git EXCEPT !.head = git.head + 1] /\ git.head + 1 \in Commits
      BY <2>1, <2>2, PlanAssumption DEF UserCommits, Commits
    <3>2. QED
      BY <2>1, <3>1
  <2>3. CASE Leave \/ Kill \/ Undo \/ LoseTree
    <3>1. git' = git \/ git' = [git EXCEPT !.active = None]
      BY <2>3 DEF Leave, Kill, Undo, LoseTree
    <3>2. QED
      BY <2>1, <3>1
  <2>4. QED
    BY <2>2, <2>3
<1>3. spent' \in [trees: 0 .. MaxTrees, kills: 0 .. MaxKills, failures: 0 .. MaxFailures]
  BY KilledType DEF Leave, Kill, Undo, LoseTree, UserCommits, IInv, Typed, TypeOK
<1>4. TypeOK'
  BY <1>1, <1>2, <1>3, EmptyType, NoRecordType DEF IInv, Typed, TypeOK
<1>5. QED
  BY <1>1, <1>4, QuietInv

LEMMA StepInv ==
  ASSUME IInv, [Next]_vars
  PROVE  IInv'
<1>1. CASE Write
  BY <1>1, WriteInv
<1>2. ASSUME NEW overrides \in BOOLEAN, Dispatch(overrides) PROVE IInv'
  BY <1>2, DispatchInv
<1>3. CASE Rebuild \/ Resume \/ Discard
  BY <1>3, RebuildInv, ResumeInv, DiscardInv
<1>4. CASE PhaseStart \/ PhaseComplete \/ PhaseFail \/ Fail \/ Complete
  BY <1>4, PhaseStartInv, PhaseCompleteInv, FailureInv, CompleteInv
<1>5. CASE Working
  BY <1>5, WorkingInv
<1>6. CASE Leave \/ Kill \/ Undo \/ LoseTree \/ UserCommits
  BY <1>6, FaultInv
<1>7. CASE UNCHANGED vars
  <2>1. Typed'
    BY <1>7 DEF vars, IInv, Typed, TypeOK
  <2>2. WorktreeFits' /\ CopyIsFirst'
    BY <1>7 DEF vars, IInv, WorktreeFits, CopyIsFirst, Places, Clear
  <2>3. SaveIsSealed'
    BY <1>7 DEF vars, IInv, SaveIsSealed, Places, Clear, Preceded, Record
  <2>4. RecordKnown'
    BY <1>7 DEF vars, IInv, RecordKnown, Places, Record, Exists
  <2>5. PromoteIsOfficial'
    BY <1>7 DEF vars, IInv, PromoteIsOfficial, Places, Clear, Preceded
  <2>6. QED
    BY <2>1, <2>2, <2>3, <2>4, <2>5 DEF IInv
<1>8. QED
  BY <1>1, <1>2, <1>3, <1>4, <1>5, <1>6, <1>7 DEF Next

THEOREM Invariant == Spec => []IInv
<1>1. Init => IInv
  BY InitInv
<1>2. IInv /\ [Next]_vars => IInv'
  BY StepInv
<1>3. QED
  BY <1>1, <1>2, PTL DEF Spec

\* Every file and row of an analysis has a value of its type, in any sequence of
\* commands, kills and failures.
THEOREM TypeCorrect == Spec => []TypeOK
<1>1. IInv => TypeOK
  BY DEF IInv, Typed
<1>2. QED
  BY <1>1, Invariant, PTL

\* A record without a passed phase, or an unchanged one, or the sealed one, is what
\* every step leaves in the worktree.
LEMMA StepPassed ==
  ASSUME IInv, [Next]_vars, tree.dir # Empty
  PROVE  Passed(Record') \subseteq Passed(Record) \cup Passed(sealed.dir.record)
<1>1. CASE Write
  <2>1. /\ 1 \in Places /\ todo[1] \in Writes /\ tree' = TreeAfter(todo[1])
        /\ todo[1] = "worktree" => spent.trees < MaxTrees
    BY <1>1, Shift, WriteType DEF IInv
  <2>2. CASE todo[1] \in {"worktree", "remove"}
    BY <2>1, <2>2, TreeAfterType, EmptyType, NoRecordType DEF Record, IInv
  <2>3. CASE todo[1] = "copy"
    BY <2>1, <2>3 DEF IInv, CopyIsFirst
  <2>4. CASE todo[1] = "restore"
    BY <2>1, <2>4, TreeAfterType DEF Record, IInv
  <2>5. CASE todo[1] = "save"
    <3>1. Record' = draft
      BY <2>1, <2>5, TreeAfterType DEF Record, IInv
    <3>2. ~Preceded(1, "seal")
      BY DEF Preceded
    <3>3. QED
      BY <2>1, <2>5, <3>1, <3>2 DEF IInv, SaveIsSealed
  <2>6. CASE todo[1] \notin Moves \cup {"save"}
    BY <2>1, <2>6, TreeAfterType DEF Record, IInv
  <2>7. QED
    BY <2>2, <2>3, <2>4, <2>5, <2>6 DEF Moves
<1>2. CASE Working
  BY <1>2, WorkingInv
<1>3. CASE Leave \/ Kill \/ Undo \/ LoseTree \/ UserCommits
  <2>1. tree' = tree \/ tree' = Gone
    BY <1>3, FaultInv
  <2>2. Passed(Gone.dir.record) = {}
    BY NoRecordType DEF Gone, Empty
  <2>3. QED
    BY <2>1, <2>2 DEF Record
<1>4. CASE \/ \E overrides \in BOOLEAN : Dispatch(overrides)
           \/ Rebuild \/ Resume \/ Discard
           \/ PhaseStart \/ PhaseComplete \/ PhaseFail \/ Fail \/ Complete
           \/ UNCHANGED vars
  <2>1. tree' = tree
    BY <1>4 DEF Dispatch, Rebuild, Resume, Discard, PhaseStart, PhaseComplete, PhaseFail, Fail,
       Failure, Complete, Run, vars
  <2>2. QED
    BY <2>1 DEF Record
<1>5. QED
  BY <1>1, <1>2, <1>3, <1>4 DEF Next

\* No step, and so no kill between two durable writes of any command, makes the
\* worktree's record call a phase passed that the accepted checkpoint does not have.
THEOREM PassedStaysSealed == Spec => PassedIsSealed
<1>1. IInv /\ [Next]_vars =>
        [tree.dir # Empty => Passed(Record') \subseteq Passed(Record) \cup Passed(sealed.dir.record)]_vars
  BY StepPassed
<1>2. QED
  BY <1>1, Invariant, PTL DEF Spec, PassedIsSealed

LEMMA StepBaseline ==
  ASSUME IInv, [Next]_vars, git'.baseline # git.baseline
  PROVE  official /\ git'.baseline = sealed.dir.record.commit
<1>1. git \in [head: Commits, active: Commits \cup {None}, baseline: Commits \cup {None}]
  BY DEF IInv, Typed, TypeOK
<1>2. CASE Write
  <2>1. 1 \in Places /\ git' = GitAfter(todo[1])
    BY <1>2, Shift DEF Write, IInv
  <2>2. todo[1] = "promote" /\ git'.baseline = tree.commit
    BY <1>1, <2>1 DEF GitAfter
  <2>3. ~Preceded(1, "authorize") /\ ~Preceded(1, "seal")
    BY DEF Preceded
  <2>4. QED
    BY <2>1, <2>2, <2>3 DEF IInv, PromoteIsOfficial
<1>3. CASE UserCommits \/ Undo
  BY <1>1, <1>3 DEF UserCommits, Undo
<1>4. CASE \/ \E overrides \in BOOLEAN : Dispatch(overrides)
           \/ Rebuild \/ Resume \/ Discard
           \/ PhaseStart \/ PhaseComplete \/ PhaseFail \/ Fail \/ Complete
           \/ Working \/ Leave \/ Kill \/ LoseTree
           \/ UNCHANGED vars
  BY <1>4 DEF Dispatch, Rebuild, Resume, Discard, PhaseStart, PhaseComplete, PhaseFail, Fail,
     Failure, Complete, Run, Working, PlanJobs, Produce, PhaseReceipt, Leave, Kill, LoseTree, vars
<1>5. QED
  BY <1>2, <1>3, <1>4 DEF Next

\* The baseline ref only ever moves to the commit of a result that is official and
\* that the accepted checkpoint holds, however a sync is killed and repeated.
THEOREM BaselineStaysOfficial == Spec => BaselineIsOfficial
<1>1. IInv /\ [Next]_vars =>
        [git'.baseline # git.baseline =>
           official /\ git'.baseline = sealed.dir.record.commit]_vars
  BY StepBaseline
<1>2. QED
  BY <1>1, Invariant, PTL DEF Spec, BaselineIsOfficial
=============================================================================
