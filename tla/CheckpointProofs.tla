-------------------------- MODULE CheckpointProofs --------------------------
(***************************************************************************)
(* Proofs about Checkpoint, for any phases, contents and number of rows.   *)
(*                                                                         *)
(* Validations and commits do not overlap, except in TypeCorrect, which    *)
(* needs no such assumption.                                               *)
(***************************************************************************)
EXTENDS Checkpoint, SequenceTheorems, WellFoundedInduction, TLAPS

-----------------------------------------------------------------------------
(* The newest of a set of rows *)

LEMMA NewestExists ==
  ASSUME NEW n \in Nat, NEW S \in SUBSET (1..n), S # {}
  PROVE  \E i \in S : \A j \in S : j <= i
<1> DEFINE T == {n - i : i \in S}
<1>1. T \subseteq Nat /\ T # {}
  <2>1. \A i \in S : n - i \in Nat
    OBVIOUS
  <2>2. PICK i \in S : TRUE
    OBVIOUS
  <2>3. n - i \in T
    OBVIOUS
  <2>4. QED
    BY <2>1, <2>3
<1>2. PICK x \in T : \A y \in T : ~ (<<y, x>> \in OpToRel(<, Nat))
  BY <1>1, NatLessThanWellFounded, WFMin
<1>3. PICK i \in S : x = n - i
  OBVIOUS
<1>4. ASSUME NEW j \in S PROVE j <= i
  <2>1. n - j \in T /\ n - j \in Nat /\ x \in Nat
    BY <1>1
  <2>2. ~ (n - j < x)
    BY <1>2, <2>1 DEF OpToRel
  <2>3. QED
    BY <2>1, <2>2, <1>3
<1>5. QED
  BY <1>4

LEMMA NewestMember ==
  ASSUME NEW n \in Nat, NEW S \in SUBSET (1..n), S # {}
  PROVE  Newest(S) \in S /\ \A j \in S : j <= Newest(S)
<1>1. \E i \in S : \A j \in S : j <= i
  BY NewestExists
<1>2. QED
  BY <1>1 DEF Newest

\* There is only one newest row.
LEMMA NewestUnique ==
  ASSUME NEW n \in Nat, NEW S \in SUBSET (1..n), NEW i \in S, \A j \in S : j <= i
  PROVE  Newest(S) = i
<1>1. Newest(S) \in S /\ \A j \in S : j <= Newest(S)
  BY NewestMember
<1>2. i <= Newest(S) /\ Newest(S) <= i
  BY <1>1
<1>3. i \in 1..n /\ Newest(S) \in 1..n
  BY <1>1, Zenon
<1>4. QED
  BY <1>2, <1>3

-----------------------------------------------------------------------------
(* Types *)

\* What the type invariant needs besides itself: the checkpoint being taken is
\* filled in, and so is the one a repair works for.
Filled ==
  /\ at # "idle" => new.phase \in Phases /\ new.content \in Contents
  /\ at \in {"head", "seal", "snapshot", "complete", "publish"} => new.id \in DOMAIN rows
  /\ fixing # "idle" => target \in DOMAIN rows

TypeInv == TypeOK /\ Filled

\* The table is a function on an initial segment of the numbers.
LEMMA Table ==
  ASSUME TypeOK
  PROVE  /\ Len(rows) \in Nat /\ DOMAIN rows = 1..Len(rows)
         /\ \A i \in DOMAIN rows : rows[i] \in Row
         /\ Complete \in SUBSET (1..Len(rows))
<1>1. rows \in Seq(Row)
  BY DEF TypeOK
<1>2. Len(rows) \in Nat /\ DOMAIN rows = 1..Len(rows)
  BY <1>1, LenProperties
<1>3. \A i \in DOMAIN rows : rows[i] \in Row
  BY <1>1, <1>2, ElementOfSeq
<1>4. QED
  BY <1>2, <1>3 DEF Complete

\* Whatever HEAD names, no row or a row of the table is accepted.
LEMMA AcceptedType ==
  ASSUME TypeOK
  PROVE  Accepted \in Ids
<1>1. /\ Len(rows) \in Nat /\ DOMAIN rows = 1..Len(rows)
      /\ Complete \in SUBSET (1..Len(rows))
  BY Table
<1>2. head \in Ids
  BY DEF TypeOK
<1>3. CASE head = 0 \/ head \in Complete
  BY <1>2, <1>3 DEF Accepted, Usable
<1>4. CASE ~(head = 0 \/ head \in Complete)
  <2> DEFINE S == rows[head].older \cap Complete
  <2>1. S \in SUBSET (1..Len(rows))
    BY <1>1
  <2>2. S # {} => Newest(S) \in S
    BY <1>1, <2>1, NewestMember
  <2>3. Newest(Complete) \in Ids
    <3>1. Complete # {} => Newest(Complete) \in Complete
      BY <1>1, NewestMember
    <3>2. Complete = {} => Newest(Complete) = 0
      BY DEF Newest
    <3>3. QED
      BY <1>1, <3>1, <3>2 DEF Ids
  <2>4. CASE S # {}
    BY <1>1, <1>4, <2>1, <2>2, <2>4 DEF Accepted, Usable, Ids
  <2>5. CASE S = {}
    BY <1>4, <2>3, <2>5 DEF Accepted, Usable
  <2>6. QED
    BY <2>4, <2>5
<1>5. QED
  BY <1>3, <1>4

\* A row appended, or one replaced, leaves a table whose other rows are as before.
LEMMA InsertTable ==
  ASSUME TypeInv, InsertRow
  PROVE  LET i == Len(rows) + 1
         IN  /\ rows' \in Seq(Row) /\ DOMAIN rows' = DOMAIN rows \cup {i}
             /\ i \notin DOMAIN rows /\ new'.id = i
             /\ \A j \in DOMAIN rows : rows'[j] = rows[j]
             /\ rows'[i] = [phase |-> new.phase, content |-> new.content, prev |-> new.prev,
                           older |-> IF new.prev = 0 THEN {} ELSE Chain(new.prev),
                           status |-> "committing"]
<1> DEFINE older == IF new.prev = 0 THEN {} ELSE Chain(new.prev)
           row == [phase |-> new.phase, content |-> new.content, prev |-> new.prev,
                   older |-> older, status |-> "committing"]
<1>1. /\ Len(rows) \in Nat /\ DOMAIN rows = 1..Len(rows) /\ rows \in Seq(Row)
      /\ \A j \in DOMAIN rows : rows[j] \in Row
  BY Table DEF TypeInv, TypeOK
<1>2. new.prev \in Ids /\ new.phase \in Phases /\ new.content \in Contents
  BY DEF TypeInv, TypeOK, Filled, InsertRow
<1>3. new.prev \in Nat
  BY <1>1, <1>2 DEF Ids
<1>4. older \in SUBSET Nat
  <2>1. CASE new.prev = 0
    BY <2>1
  <2>2. CASE new.prev # 0
    <3>1. rows[new.prev] \in Row
      BY <1>1, <1>2, <2>2 DEF Ids
    <3>2. rows[new.prev].older \in SUBSET Nat
      BY <3>1 DEF Row
    <3>3. QED
      BY <1>3, <3>2 DEF Chain
  <2>3. QED
    BY <2>1, <2>2
<1>5. row \in Row
  BY <1>2, <1>3, <1>4 DEF Row
<1>6. rows' = Append(rows, row) /\ new' = [new EXCEPT !.id = Len(rows) + 1]
  BY DEF InsertRow
<1> HIDE DEF row
<1>7. /\ rows' \in Seq(Row) /\ Len(rows') = Len(rows) + 1
      /\ \A j \in 1..Len(rows) : rows'[j] = rows[j]
      /\ rows'[Len(rows) + 1] = row
  BY <1>1, <1>5, <1>6, AppendProperties
<1>8. DOMAIN rows' = 1..(Len(rows) + 1)
  BY <1>1, <1>7, LenProperties
<1>9. new'.id = Len(rows) + 1
  BY <1>6 DEF TypeInv, TypeOK
<1>10. QED
  BY <1>1, <1>7, <1>8, <1>9 DEF row

LEMMA CompleteTable ==
  ASSUME TypeInv, MarkComplete
  PROVE  /\ rows' \in Seq(Row) /\ DOMAIN rows' = DOMAIN rows
         /\ new.id \in DOMAIN rows /\ rows[new.id] \in Row
         /\ \A j \in DOMAIN rows : j # new.id => rows'[j] = rows[j]
         /\ rows'[new.id] = [rows[new.id] EXCEPT !.status = "complete"]
<1> DEFINE row == [rows[new.id] EXCEPT !.status = "complete"]
<1>1. /\ Len(rows) \in Nat /\ DOMAIN rows = 1..Len(rows) /\ rows \in Seq(Row)
      /\ \A j \in DOMAIN rows : rows[j] \in Row
  BY Table DEF TypeInv, TypeOK
<1>2. new.id \in DOMAIN rows
  BY DEF TypeInv, Filled, MarkComplete
<1>3. rows[new.id] \in Row
  BY <1>1, <1>2
<1>4. row \in Row
  BY <1>3 DEF Row
<1>5. rows' = [rows EXCEPT ![new.id] = row]
  BY DEF MarkComplete
<1> HIDE DEF row
<1>6. /\ rows' \in Seq(Row) /\ Len(rows') = Len(rows)
      /\ \A j \in 1..Len(rows) : rows'[j] = IF j = new.id THEN row ELSE rows[j]
  BY <1>1, <1>2, <1>4, <1>5, ExceptSeq
<1>7. DOMAIN rows' = 1..Len(rows)
  BY <1>1, <1>6, LenProperties
<1>8. QED
  BY <1>1, <1>2, <1>3, <1>6, <1>7 DEF row

LEMMA TypeStep == TypeInv /\ [Next]_vars => TypeInv'
<1> SUFFICES ASSUME TypeInv, [Next]_vars PROVE TypeInv'
  OBVIOUS
<1> USE DEF TypeInv, TypeOK, Filled, Ids, coordinator, validator
<1>1. ASSUME NEW ph \in Phases, Begin(ph) PROVE TypeInv'
  <2>1. Accepted \in Ids
    BY AcceptedType
  <2>2. work \in Contents
    BY <1>1 DEF Begin
  <2>3. QED
    BY <1>1, <2>1, <2>2 DEF Begin
<1>2. CASE DropMirror
  BY <1>2 DEF DropMirror
<1>3. CASE NewMirror
  BY <1>3 DEF NewMirror
<1>4. CASE WriteManifest
  <2>1. -1 \in Int
    OBVIOUS
  <2>2. manifest' \in [Files -> Int]
    BY <1>4, <2>1 DEF WriteManifest, Unsealed
  <2>3. QED
    BY <1>4, <2>2 DEF WriteManifest
<1>5. CASE InsertRow
  <2>1. /\ rows' \in Seq(Row) /\ DOMAIN rows \subseteq DOMAIN rows'
        /\ new'.id \in DOMAIN rows'
    BY <1>5, InsertTable
  <2>2. QED
    BY <1>5, <2>1 DEF InsertRow
<1>6. CASE WriteHead
  BY <1>6 DEF WriteHead
<1>7. CASE SealManifest
  <2>1. new.id \in Int
    BY <1>7, Table DEF SealManifest
  <2>2. QED
    BY <1>7, <2>1 DEF SealManifest
<1>8. CASE WriteSnapshot
  BY <1>8 DEF WriteSnapshot
<1>9. CASE MarkComplete
  <2>1. rows' \in Seq(Row) /\ DOMAIN rows' = DOMAIN rows
    BY <1>9, CompleteTable
  <2>2. QED
    BY <1>9, <2>1 DEF MarkComplete
<1>10. CASE Publish
  BY <1>10 DEF Publish, Nothing
<1>11. CASE CommitDies
  BY <1>11 DEF CommitDies, Nothing
<1>12. CASE Validate
  <2>1. Accepted \in DOMAIN rows
    BY <1>12, AcceptedType DEF Validate
  <2>2. QED
    BY <1>12, <2>1 DEF Validate
<1>13. CASE RestoreMirror
  <2>1. rows[target] \in Row
    BY <1>13, Table DEF RestoreMirror
  <2>2. rows[target].content \in Contents
    BY <2>1 DEF Row
  <2>3. LatestOfPhase(target) \subseteq DOMAIN rows
    BY DEF LatestOfPhase, Complete
  <2>4. QED
    BY <1>13, <2>2, <2>3 DEF RestoreMirror
<1>14. CASE RestoreManifest
  <2>1. Newest(todo) \in todo
    BY <1>14, Table, NewestMember DEF RestoreManifest
  <2>2. Newest(todo) \in Int
    BY <2>1, Table
  <2>3. manifest' \in [Files -> Int]
    BY <1>14, <2>2 DEF RestoreManifest
  <2>4. QED
    BY <1>14, <2>3 DEF RestoreManifest
<1>15. CASE RemoveManifests
  <2>1. manifest' \in [Files -> Int]
    BY <1>15 DEF RemoveManifests, Absent
  <2>2. QED
    BY <1>15, <2>1 DEF RemoveManifests
<1>16. CASE RestoreHead
  BY <1>16 DEF RestoreHead
<1>17. CASE RestoreSnapshot
  BY <1>17 DEF RestoreSnapshot
<1>18. CASE Rebuild
  <2>1. rows[target] \in Row
    BY <1>18, Table DEF Rebuild
  <2>2. current \in Contents
    BY <1>18, <2>1 DEF Rebuild, Row
  <2>3. QED
    BY <1>18, <2>2 DEF Rebuild
<1>19. CASE ValidateEnds
  BY <1>19 DEF ValidateEnds
<1>20. CASE Write
  BY <1>20 DEF Write
<1>21. CASE Lose
  BY <1>21 DEF Lose
<1>22. CASE Damage
  BY <1>22 DEF Damage
<1>23. CASE UNCHANGED vars
  BY <1>23 DEF vars, Complete
<1>24. QED
  BY <1>1, <1>2, <1>3, <1>4, <1>5, <1>6, <1>7, <1>8, <1>9, <1>10, <1>11, <1>12, <1>13, <1>14, <1>15, <1>16, <1>17, <1>18, <1>19, <1>20, <1>21, <1>22, <1>23 DEF Next

\* Every step of every call keeps the store well formed, whether or not a
\* validation runs while a commit is in progress.
THEOREM TypeCorrect == Spec => []TypeOK
<1>1. Init => TypeInv
  <2>1. <<>> \in Seq(Row) /\ DOMAIN <<>> = {}
    BY EmptySeq
  <2>2. QED
    BY <2>1 DEF Init, TypeInv, TypeOK, Filled, Ids, Nothing, Absent
<1>2. TypeInv => TypeOK
  BY DEF TypeInv
<1>3. QED
  BY <1>1, <1>2, TypeStep, PTL DEF Spec

-----------------------------------------------------------------------------
(* The inductive invariant *)

\* What a commit builds on and a validation accepts, without a search: HEAD's
\* row or, while that is committing, the one it was built on.
Base == IF head = 0 \/ head \in Complete THEN head ELSE rows[head].prev

\* Row i was built on nothing, or on a complete row before it.
LinkedRow(i) ==
  \/ rows[i].prev = 0 /\ rows[i].older = {}
  \/ /\ rows[i].prev \in Complete /\ rows[i].prev < i
     /\ rows[i].older = Chain(rows[i].prev)
     /\ \A j \in rows[i].older : j \in Complete /\ j <= rows[i].prev
Linked == \A i \in DOMAIN rows : LinkedRow(i)

\* Every complete row is Base or behind it.
Covered == \A i \in Complete : Base # 0 /\ i \in Chain(Base)

\* The checkpoint being taken is built on Base, and its row says what it is.
Taking ==
  /\ at \notin {"idle", "publish"} => new.prev = Base
  /\ at \in {"head", "seal", "snapshot", "complete"} =>
       /\ rows[new.id].status = "committing" /\ rows[new.id].prev = new.prev
       /\ rows[new.id].phase = new.phase /\ rows[new.id].content = new.content
  /\ at \in {"seal", "snapshot", "complete"} => head = new.id
  /\ at = "publish" => new.id \in Complete

\* A repair works for Base, and leaves the mirror and HEAD there.
Repairing ==
  /\ fixing # "idle" => target = Base
  /\ fixing \in {"manifests", "head", "snapshot", "valid"} => current = rows[target].content
  /\ fixing \in {"snapshot", "valid"} => head = target

Exclusive == at = "idle" \/ fixing = "idle"

Published == progress # 0 => progress \in Complete

Inv ==
  TypeInv /\ Linked /\ Covered /\ Taking /\ Repairing /\ Exclusive /\ Published

LEMMA BaseComplete ==
  ASSUME TypeOK, Linked
  PROVE  Base = 0 \/ Base \in Complete
<1>1. CASE head = 0 \/ head \in Complete
  BY <1>1 DEF Base
<1>2. CASE ~(head = 0 \/ head \in Complete)
  <2>1. head \in DOMAIN rows
    BY <1>2 DEF TypeOK, Ids
  <2>2. LinkedRow(head)
    BY <2>1 DEF Linked
  <2>3. QED
    BY <1>2, <2>2 DEF Base, LinkedRow
<1>3. QED
  BY <1>1, <1>2

\* The search of _select_complete finds Base.
LEMMA AcceptedBase ==
  ASSUME TypeOK, Linked, Covered
  PROVE  Accepted = Base
<1>1. CASE head = 0 \/ head \in Complete
  BY <1>1 DEF Accepted, Usable, Base
<1>2. CASE ~(head = 0 \/ head \in Complete)
  <2> DEFINE S == rows[head].older \cap Complete
  <2>1. head \in DOMAIN rows
    BY <1>2 DEF TypeOK, Ids
  <2>2. LinkedRow(head)
    BY <2>1 DEF Linked
  <2>3. Base = rows[head].prev
    BY <1>2 DEF Base
  <2>4. CASE rows[head].prev = 0 /\ rows[head].older = {}
    <3>1. Complete = {}
      BY <2>3, <2>4 DEF Covered
    <3>2. Accepted = Newest({})
      BY <1>2, <2>4, <3>1 DEF Accepted, Usable
    <3>3. QED
      BY <2>3, <2>4, <3>2 DEF Newest
  <2>5. CASE ~(rows[head].prev = 0 /\ rows[head].older = {})
    <3>1. /\ rows[head].prev \in Complete /\ rows[head].older = Chain(rows[head].prev)
          /\ \A j \in rows[head].older : j <= rows[head].prev
      BY <2>2, <2>5 DEF LinkedRow
    <3>2. rows[head].prev \in S /\ \A j \in S : j <= rows[head].prev
      BY <3>1 DEF Chain
    <3>3. S \in SUBSET (1..Len(rows)) /\ Len(rows) \in Nat
      BY Table
    <3>4. Newest(S) = rows[head].prev
      BY <3>2, <3>3, NewestUnique
    <3>5. Accepted = Newest(S)
      BY <1>2, <3>2 DEF Accepted, Usable
    <3>6. QED
      BY <2>3, <3>4, <3>5
  <2>6. QED
    BY <2>4, <2>5
<1>3. QED
  BY <1>1, <1>2

\* Nothing about the chain changes while neither table nor HEAD does.
LEMMA SameTable ==
  ASSUME Linked, Covered, UNCHANGED <<rows, head>>
  PROVE  Linked' /\ Covered' /\ Base' = Base /\ Complete' = Complete
BY DEF Linked, LinkedRow, Covered, Base, Complete, Chain

\* A HEAD that leaves Base where it is leaves everything covered.
LEMMA NewHead ==
  ASSUME Linked, Covered, rows' = rows, Base' = Base
  PROVE  Linked' /\ Covered' /\ Complete' = Complete
<1>1. Complete' = Complete
  BY DEF Complete
<1>2. Linked'
  BY <1>1 DEF Linked, LinkedRow, Chain
<1>3. Covered'
  BY <1>1 DEF Covered, Chain
<1>4. QED
  BY <1>1, <1>2, <1>3

\* A new row is built on Base and changes nothing of what is accepted.
LEMMA InsertChain ==
  ASSUME Inv, InsertRow
  PROVE  /\ Linked' /\ Covered' /\ Base' = Base /\ Complete' = Complete
         /\ rows'[new'.id].status = "committing" /\ rows'[new'.id].prev = new.prev
         /\ rows'[new'.id].phase = new.phase /\ rows'[new'.id].content = new.content
<1>0. PICK i : i = Len(rows) + 1
  OBVIOUS
<1>1. /\ DOMAIN rows' = DOMAIN rows \cup {i} /\ i \notin DOMAIN rows /\ new'.id = i
      /\ \A j \in DOMAIN rows : rows'[j] = rows[j]
      /\ rows'[i] = [phase |-> new.phase, content |-> new.content, prev |-> new.prev,
                    older |-> IF new.prev = 0 THEN {} ELSE Chain(new.prev),
                    status |-> "committing"]
  BY <1>0, InsertTable DEF Inv
<1>2. /\ rows'[i].status = "committing" /\ rows'[i].prev = new.prev
      /\ rows'[i].phase = new.phase /\ rows'[i].content = new.content
      /\ rows'[i].older = IF new.prev = 0 THEN {} ELSE Chain(new.prev)
  BY <1>1
<1>3. new.prev = Base
  BY DEF Inv, Taking, InsertRow
<1>4. Len(rows) \in Nat /\ DOMAIN rows = 1..Len(rows) /\ Complete \subseteq DOMAIN rows
  BY Table DEF Inv, TypeInv
<1>5. Base = 0 \/ Base \in Complete
  BY BaseComplete DEF Inv, TypeInv
<1>6. Complete' = Complete
  BY <1>1, <1>2 DEF Complete
<1>7. \A j \in DOMAIN rows : Chain(j)' = Chain(j)
  BY <1>1 DEF Chain
<1>8. Base' = Base
  <2>1. head' = head /\ head \in Ids
    BY DEF InsertRow, Inv, TypeInv, TypeOK
  <2>2. head # 0 => rows'[head] = rows[head]
    BY <1>1, <2>1 DEF Ids
  <2>3. QED
    BY <1>6, <2>1, <2>2 DEF Base
<1>9. Linked'
  <2>1. ASSUME NEW j \in DOMAIN rows PROVE LinkedRow(j)'
    <3>1. LinkedRow(j) /\ rows'[j] = rows[j]
      BY <1>1 DEF Inv, Linked
    <3>2. QED
      BY <3>1, <1>4, <1>6, <1>7 DEF LinkedRow
  <2>2. LinkedRow(i)'
    <3>1. CASE Base = 0
      BY <1>2, <1>3, <3>1 DEF LinkedRow
    <3>2. CASE Base # 0
      <4>1. Base \in Complete /\ Base \in DOMAIN rows
        BY <1>4, <1>5, <3>2
      <4>2. LinkedRow(Base)
        BY <4>1 DEF Inv, Linked
      <4>3. rows'[i].older = Chain(Base) /\ rows'[i].prev = Base
        BY <1>2, <1>3, <3>2
      <4>4. \A j \in Chain(Base) : j \in Complete /\ j <= Base
        <5>1. \/ rows[Base].older = {}
              \/ /\ rows[Base].prev < Base
                 /\ \A j \in rows[Base].older : j \in Complete /\ j <= rows[Base].prev
          BY <4>2 DEF LinkedRow
        <5>2. \A j \in Complete : j \in Int
          BY <1>4
        <5>3. rows[Base].prev \in Nat
          BY <4>1, Table DEF Inv, TypeInv, Row
        <5>4. ASSUME NEW j \in rows[Base].older PROVE j \in Complete /\ j <= Base
          BY <4>1, <5>1, <5>2, <5>3
        <5>5. QED
          BY <4>1, <5>2, <5>4 DEF Chain
      <4>5. Base < i
        BY <1>0, <1>4, <4>1
      <4>6. Chain(Base)' = Chain(Base)
        BY <1>1, <1>8, <4>1 DEF Chain
      <4>7. rows'[i].older = {Base} \cup rows'[Base].older
        BY <1>1, <4>1, <4>3 DEF Chain
      <4>8. QED
        BY <1>6, <4>1, <4>3, <4>4, <4>5, <4>7 DEF LinkedRow, Chain
    <3>3. QED
      BY <3>1, <3>2
  <2>3. QED
    BY <1>1, <2>1, <2>2 DEF Linked
<1>10. Covered'
  <2>1. ASSUME NEW k \in Complete PROVE Base # 0 /\ k \in Chain(Base)
    BY DEF Inv, Covered
  <2>2. Base \in Complete => rows'[Base] = rows[Base]
    BY <1>1, <1>4
  <2>3. QED
    BY <1>5, <1>6, <1>8, <2>1, <2>2 DEF Covered, Chain
<1>11. QED
  BY <1>1, <1>2, <1>6, <1>8, <1>9, <1>10

\* A completed row takes the place of Base, with the old one behind it.
LEMMA CompleteChain ==
  ASSUME Inv, MarkComplete
  PROVE  /\ Linked' /\ Covered' /\ Base' = new.id /\ Complete' = Complete \cup {new.id}
         /\ rows'[new.id].phase = new.phase /\ rows'[new.id].content = new.content
<1> DEFINE i == new.id
<1>1. /\ DOMAIN rows' = DOMAIN rows /\ i \in DOMAIN rows /\ rows[i] \in Row
      /\ \A j \in DOMAIN rows : j # i => rows'[j] = rows[j]
      /\ rows'[i] = [rows[i] EXCEPT !.status = "complete"]
  BY CompleteTable DEF Inv
<1>2. /\ rows[i].status = "committing" /\ rows[i].prev = Base /\ head = i
      /\ rows[i].phase = new.phase /\ rows[i].content = new.content
  BY DEF Inv, Taking, MarkComplete
<1>3. /\ rows'[i].status = "complete" /\ rows'[i].prev = rows[i].prev
      /\ rows'[i].older = rows[i].older
      /\ rows'[i].phase = rows[i].phase /\ rows'[i].content = rows[i].content
  BY <1>1 DEF Row
<1>4. head' = head
  BY DEF MarkComplete
<1> HIDE DEF i
<1>5. Complete' = Complete \cup {i}
  BY <1>1, <1>3 DEF Complete
<1>6. \A j \in DOMAIN rows : rows'[j].prev = rows[j].prev /\ rows'[j].older = rows[j].older
  BY <1>1, <1>3
<1>7. Base' = i
  BY <1>2, <1>4, <1>5 DEF Base
<1>8. Linked'
  <2>1. SUFFICES ASSUME NEW j \in DOMAIN rows PROVE LinkedRow(j)'
    BY <1>1 DEF Linked
  <2>2. LinkedRow(j)
    BY DEF Inv, Linked
  <2>3. Complete \subseteq DOMAIN rows
    BY DEF Complete
  <2>4. QED
    BY <1>5, <1>6, <2>2, <2>3 DEF LinkedRow, Chain
<1>9. Covered'
  <2>1. ASSUME NEW k \in Complete PROVE k \in rows[i].older
    <3>1. Base # 0 /\ k \in Chain(Base)
      BY DEF Inv, Covered
    <3>2. LinkedRow(i)
      BY <1>1 DEF Inv, Linked
    <3>3. QED
      BY <1>2, <3>1, <3>2 DEF LinkedRow
  <2>2. i # 0
    BY <1>1, Table DEF Inv, TypeInv
  <2>3. QED
    BY <1>3, <1>5, <1>7, <2>1, <2>2 DEF Covered, Chain
<1>10. QED
  BY <1>2, <1>3, <1>5, <1>7, <1>8, <1>9 DEF i

LEMMA InvStep ==
  ASSUME ~Overlap, Inv, [Next]_vars
  PROVE  Inv'
<1>1. TypeInv'
  BY TypeStep DEF Inv
<1>2. Accepted = Base
  BY AcceptedBase DEF Inv, TypeInv
<1>3. ASSUME UNCHANGED <<rows, head>> PROVE Linked' /\ Covered' /\ Base' = Base /\ Complete' = Complete
  BY <1>3, SameTable DEF Inv
<1>4. ASSUME NEW ph \in Phases, Begin(ph) PROVE Inv'
  <2>1. UNCHANGED <<rows, head>>
    BY <1>4 DEF Begin
  <2>2. Linked' /\ Covered' /\ Base' = Base /\ Complete' = Complete
    BY <1>3, <2>1
  <2>3. Taking' /\ Repairing' /\ Exclusive' /\ Published'
    BY <1>4, <2>1, <2>2, <1>2 DEF Begin, Inv, Taking, Repairing, Exclusive, Published, coordinator, validator
  <2>4. QED
    BY <1>1, <2>2, <2>3 DEF Inv
<1>5. CASE DropMirror
  <2>1. UNCHANGED <<rows, head>>
    BY <1>5 DEF DropMirror
  <2>2. Linked' /\ Covered' /\ Base' = Base /\ Complete' = Complete
    BY <1>3, <2>1
  <2>3. Taking' /\ Repairing' /\ Exclusive' /\ Published'
    BY <1>5, <2>1, <2>2 DEF DropMirror, Inv, Taking, Repairing, Exclusive, Published, coordinator, validator
  <2>4. QED
    BY <1>1, <2>2, <2>3 DEF Inv
<1>6. CASE NewMirror
  <2>1. UNCHANGED <<rows, head>>
    BY <1>6 DEF NewMirror
  <2>2. Linked' /\ Covered' /\ Base' = Base /\ Complete' = Complete
    BY <1>3, <2>1
  <2>3. Taking' /\ Repairing' /\ Exclusive' /\ Published'
    BY <1>6, <2>1, <2>2 DEF NewMirror, Inv, Taking, Repairing, Exclusive, Published, coordinator, validator
  <2>4. QED
    BY <1>1, <2>2, <2>3 DEF Inv
<1>7. CASE WriteManifest
  <2>1. UNCHANGED <<rows, head>>
    BY <1>7 DEF WriteManifest
  <2>2. Linked' /\ Covered' /\ Base' = Base /\ Complete' = Complete
    BY <1>3, <2>1
  <2>3. Taking' /\ Repairing' /\ Exclusive' /\ Published'
    BY <1>7, <2>1, <2>2 DEF WriteManifest, Inv, Taking, Repairing, Exclusive, Published, coordinator, validator
  <2>4. QED
    BY <1>1, <2>2, <2>3 DEF Inv
<1>8. CASE InsertRow
  <2>1. /\ Linked' /\ Covered' /\ Base' = Base /\ Complete' = Complete
        /\ rows'[new'.id].status = "committing" /\ rows'[new'.id].prev = new.prev
        /\ rows'[new'.id].phase = new.phase /\ rows'[new'.id].content = new.content
    BY <1>8, InsertChain
  <2>2. /\ new' = [new EXCEPT !.id = Len(rows) + 1]
        /\ new'.prev = new.prev /\ new'.phase = new.phase /\ new'.content = new.content
    BY <1>8 DEF InsertRow, Inv, TypeInv, TypeOK
  <2>3. Taking' /\ Repairing' /\ Exclusive' /\ Published'
    BY <1>8, <2>1, <2>2 DEF InsertRow, Inv, Taking, Repairing, Exclusive, Published, validator
  <2>4. QED
    BY <1>1, <2>1, <2>3 DEF Inv
<1>9. CASE WriteHead
  <2>1. /\ rows' = rows /\ head' = new.id /\ new.id \in DOMAIN rows
        /\ rows[new.id].status = "committing" /\ rows[new.id].prev = Base
    BY <1>9 DEF WriteHead, Inv, Taking, TypeInv, Filled
  <2>2. Base' = Base
    <3>1. head' # 0
      BY <2>1, Table DEF Inv, TypeInv
    <3>2. Complete' = Complete /\ new.id \notin Complete
      BY <2>1 DEF Complete
    <3>3. QED
      BY <2>1, <3>1, <3>2 DEF Base
  <2>3. Linked' /\ Covered' /\ Complete' = Complete
    BY <2>1, <2>2, NewHead DEF Inv
  <2>4. Taking' /\ Repairing' /\ Exclusive' /\ Published'
    BY <1>9, <2>1, <2>2, <2>3 DEF WriteHead, Inv, Taking, Repairing, Exclusive, Published, validator
  <2>5. QED
    BY <1>1, <2>3, <2>4 DEF Inv
<1>10. CASE SealManifest
  <2>1. UNCHANGED <<rows, head>>
    BY <1>10 DEF SealManifest
  <2>2. Linked' /\ Covered' /\ Base' = Base /\ Complete' = Complete
    BY <1>3, <2>1
  <2>3. Taking' /\ Repairing' /\ Exclusive' /\ Published'
    BY <1>10, <2>1, <2>2 DEF SealManifest, Inv, Taking, Repairing, Exclusive, Published, coordinator, validator
  <2>4. QED
    BY <1>1, <2>2, <2>3 DEF Inv
<1>11. CASE WriteSnapshot
  <2>1. UNCHANGED <<rows, head>>
    BY <1>11 DEF WriteSnapshot
  <2>2. Linked' /\ Covered' /\ Base' = Base /\ Complete' = Complete
    BY <1>3, <2>1
  <2>3. Taking' /\ Repairing' /\ Exclusive' /\ Published'
    BY <1>11, <2>1, <2>2 DEF WriteSnapshot, Inv, Taking, Repairing, Exclusive, Published, coordinator, validator
  <2>4. QED
    BY <1>1, <2>2, <2>3 DEF Inv
<1>12. CASE MarkComplete
  <2>1. Linked' /\ Covered' /\ Base' = new.id /\ Complete' = Complete \cup {new.id}
    BY <1>12, CompleteChain
  <2>2. Taking' /\ Repairing' /\ Exclusive' /\ Published'
    BY <1>12, <2>1 DEF MarkComplete, Inv, Taking, Repairing, Exclusive, Published, validator
  <2>3. QED
    BY <1>1, <2>1, <2>2 DEF Inv
<1>13. CASE Publish
  <2>1. UNCHANGED <<rows, head>>
    BY <1>13 DEF Publish
  <2>2. Linked' /\ Covered' /\ Base' = Base /\ Complete' = Complete
    BY <1>3, <2>1
  <2>3. Taking' /\ Repairing' /\ Exclusive' /\ Published'
    BY <1>13, <2>1, <2>2 DEF Publish, Inv, Taking, Repairing, Exclusive, Published, coordinator, validator
  <2>4. QED
    BY <1>1, <2>2, <2>3 DEF Inv
<1>14. CASE CommitDies
  <2>1. UNCHANGED <<rows, head>>
    BY <1>14 DEF CommitDies
  <2>2. Linked' /\ Covered' /\ Base' = Base /\ Complete' = Complete
    BY <1>3, <2>1
  <2>3. Taking' /\ Repairing' /\ Exclusive' /\ Published'
    BY <1>14, <2>1, <2>2 DEF CommitDies, Inv, Taking, Repairing, Exclusive, Published, coordinator, validator
  <2>4. QED
    BY <1>1, <2>2, <2>3 DEF Inv
<1>15. CASE Validate
  <2>1. UNCHANGED <<rows, head>>
    BY <1>15 DEF Validate
  <2>2. Linked' /\ Covered' /\ Base' = Base /\ Complete' = Complete
    BY <1>3, <2>1
  <2>3. Taking' /\ Repairing' /\ Exclusive' /\ Published'
    BY <1>15, <2>1, <2>2, <1>2 DEF Validate, Sound, Inv, Taking, Repairing, Exclusive, Published, coordinator, validator
  <2>4. QED
    BY <1>1, <2>2, <2>3 DEF Inv
<1>16. CASE RestoreMirror
  <2>1. UNCHANGED <<rows, head>>
    BY <1>16 DEF RestoreMirror
  <2>2. Linked' /\ Covered' /\ Base' = Base /\ Complete' = Complete
    BY <1>3, <2>1
  <2>3. Taking' /\ Repairing' /\ Exclusive' /\ Published'
    BY <1>16, <2>1, <2>2 DEF RestoreMirror, Inv, Taking, Repairing, Exclusive, Published, coordinator, validator
  <2>4. QED
    BY <1>1, <2>2, <2>3 DEF Inv
<1>17. CASE RestoreManifest
  <2>1. UNCHANGED <<rows, head>>
    BY <1>17 DEF RestoreManifest
  <2>2. Linked' /\ Covered' /\ Base' = Base /\ Complete' = Complete
    BY <1>3, <2>1
  <2>3. Taking' /\ Repairing' /\ Exclusive' /\ Published'
    BY <1>17, <2>1, <2>2 DEF RestoreManifest, Inv, Taking, Repairing, Exclusive, Published, coordinator, validator
  <2>4. QED
    BY <1>1, <2>2, <2>3 DEF Inv
<1>18. CASE RemoveManifests
  <2>1. UNCHANGED <<rows, head>>
    BY <1>18 DEF RemoveManifests
  <2>2. Linked' /\ Covered' /\ Base' = Base /\ Complete' = Complete
    BY <1>3, <2>1
  <2>3. Taking' /\ Repairing' /\ Exclusive' /\ Published'
    BY <1>18, <2>1, <2>2 DEF RemoveManifests, Inv, Taking, Repairing, Exclusive, Published, coordinator, validator
  <2>4. QED
    BY <1>1, <2>2, <2>3 DEF Inv
<1>19. CASE RestoreHead
  <2>1. rows' = rows /\ head' = Base /\ target = Base /\ target \in DOMAIN rows
    BY <1>19 DEF RestoreHead, Inv, Repairing, TypeInv, Filled
  <2>2. Base \in Complete
    <3>1. Base # 0
      BY <2>1, Table DEF Inv, TypeInv
    <3>2. QED
      BY <3>1, BaseComplete DEF Inv, TypeInv
  <2>3. Base' = Base
    <3>1. Complete' = Complete
      BY <2>1 DEF Complete
    <3>2. head' \in Complete'
      BY <2>1, <2>2, <3>1
    <3>3. Base' = head'
      BY <3>2 DEF Base
    <3>4. QED
      BY <2>1, <3>3
  <2>4. Linked' /\ Covered' /\ Complete' = Complete
    BY <2>1, <2>3, NewHead DEF Inv
  <2>5. Taking' /\ Repairing' /\ Exclusive' /\ Published'
    BY <1>19, <2>1, <2>3, <2>4 DEF RestoreHead, Inv, Taking, Repairing, Exclusive, Published, coordinator
  <2>6. QED
    BY <1>1, <2>4, <2>5 DEF Inv
<1>20. CASE RestoreSnapshot
  <2>1. UNCHANGED <<rows, head>>
    BY <1>20 DEF RestoreSnapshot
  <2>2. Linked' /\ Covered' /\ Base' = Base /\ Complete' = Complete
    BY <1>3, <2>1
  <2>3. Taking' /\ Repairing' /\ Exclusive' /\ Published'
    BY <1>20, <2>1, <2>2 DEF RestoreSnapshot, Inv, Taking, Repairing, Exclusive, Published, coordinator, validator
  <2>4. QED
    BY <1>1, <2>2, <2>3 DEF Inv
<1>21. CASE Rebuild
  <2>1. UNCHANGED <<rows, head>>
    BY <1>21 DEF Rebuild
  <2>2. Linked' /\ Covered' /\ Base' = Base /\ Complete' = Complete
    BY <1>3, <2>1
  <2>3. Taking' /\ Repairing' /\ Exclusive' /\ Published'
    BY <1>21, <2>1, <2>2 DEF Rebuild, Inv, Taking, Repairing, Exclusive, Published, coordinator, validator
  <2>4. QED
    BY <1>1, <2>2, <2>3 DEF Inv
<1>22. CASE ValidateEnds
  <2>1. UNCHANGED <<rows, head>>
    BY <1>22 DEF ValidateEnds
  <2>2. Linked' /\ Covered' /\ Base' = Base /\ Complete' = Complete
    BY <1>3, <2>1
  <2>3. Taking' /\ Repairing' /\ Exclusive' /\ Published'
    BY <1>22, <2>1, <2>2 DEF ValidateEnds, Inv, Taking, Repairing, Exclusive, Published, coordinator, validator
  <2>4. QED
    BY <1>1, <2>2, <2>3 DEF Inv
<1>23. CASE Write
  <2>1. UNCHANGED <<rows, head>>
    BY <1>23 DEF Write
  <2>2. Linked' /\ Covered' /\ Base' = Base /\ Complete' = Complete
    BY <1>3, <2>1
  <2>3. Taking' /\ Repairing' /\ Exclusive' /\ Published'
    BY <1>23, <2>1, <2>2 DEF Write, Inv, Taking, Repairing, Exclusive, Published, coordinator, validator
  <2>4. QED
    BY <1>1, <2>2, <2>3 DEF Inv
<1>24. CASE Lose
  <2>1. UNCHANGED <<rows, head>>
    BY <1>24 DEF Lose
  <2>2. Linked' /\ Covered' /\ Base' = Base /\ Complete' = Complete
    BY <1>3, <2>1
  <2>3. Taking' /\ Repairing' /\ Exclusive' /\ Published'
    BY <1>24, <2>1, <2>2 DEF Lose, Inv, Taking, Repairing, Exclusive, Published, coordinator, validator
  <2>4. QED
    BY <1>1, <2>2, <2>3 DEF Inv
<1>25. CASE Damage
  <2>1. UNCHANGED <<rows, head>>
    BY <1>25 DEF Damage
  <2>2. Linked' /\ Covered' /\ Base' = Base /\ Complete' = Complete
    BY <1>3, <2>1
  <2>3. Taking' /\ Repairing' /\ Exclusive' /\ Published'
    BY <1>25, <2>1, <2>2 DEF Damage, Inv, Taking, Repairing, Exclusive, Published, coordinator, validator
  <2>4. QED
    BY <1>1, <2>2, <2>3 DEF Inv
<1>26. CASE UNCHANGED vars
  <2>1. UNCHANGED <<rows, head>>
    BY <1>26 DEF vars
  <2>2. Linked' /\ Covered' /\ Base' = Base /\ Complete' = Complete
    BY <1>3, <2>1
  <2>3. Taking' /\ Repairing' /\ Exclusive' /\ Published'
    BY <1>26, <2>1, <2>2 DEF vars, Inv, Taking, Repairing, Exclusive, Published, coordinator, validator
  <2>4. QED
    BY <1>1, <2>2, <2>3 DEF Inv
<1>27. QED
  BY <1>1, <1>4, <1>5, <1>6, <1>7, <1>8, <1>9, <1>10, <1>11, <1>12, <1>13, <1>14, <1>15, <1>16, <1>17, <1>18, <1>19, <1>20, <1>21, <1>22, <1>23, <1>24, <1>25, <1>26 DEF Next

LEMMA Invariant == ASSUME ~Overlap PROVE Spec => []Inv
<1>1. Init => Inv
  <2>1. <<>> \in Seq(Row) /\ DOMAIN <<>> = {}
    BY EmptySeq
  <2>2. QED
    BY <2>1 DEF Init, Inv, TypeInv, TypeOK, Filled, Ids, Nothing, Absent, Linked, Covered,
      Complete, Taking, Repairing, Exclusive, Published
<1>2. Inv /\ [Next]_vars => Inv'
  BY InvStep
<1>3. QED
  BY <1>1, <1>2, PTL DEF Spec

-----------------------------------------------------------------------------
(* What follows from it *)

LEMMA AcceptedIsBase == Inv => Accepted = Base
BY AcceptedBase DEF Inv, TypeInv

\* No checkpoint that was taken is ever skipped, whatever commits and repairs
\* died on the way and however long the chain is.
THEOREM NeverSkipped == ASSUME ~Overlap PROVE Spec => []NothingSkipped
<1>1. Inv => NothingSkipped
  BY AcceptedIsBase DEF NothingSkipped, Inv, Covered
<1>2. QED
  BY <1>1, Invariant, PTL

\* A validation that returns leaves HEAD and the mirror at what it accepted.
THEOREM Repaired == ASSUME ~Overlap PROVE Spec => []RepairedMirror
<1>1. Inv => RepairedMirror
  BY AcceptedIsBase DEF RepairedMirror, Inv, Repairing
<1>2. QED
  BY <1>1, Invariant, PTL

\* The mirror in the source project never names a checkpoint that was not taken
\* or that a resume would go back behind.
THEOREM OnlyTakenPublished == ASSUME ~Overlap PROVE Spec => []PublishedIsTaken
<1>1. Inv => PublishedIsTaken
  BY AcceptedIsBase DEF PublishedIsTaken, Inv, Published, Covered
<1>2. QED
  BY <1>1, Invariant, PTL

-----------------------------------------------------------------------------
(* The phase manifests, when no two phases share a file *)

OneFilePerPhase ==
  \A ph, other \in Phases : ManifestFile[ph] = ManifestFile[other] => ph = other

\* While the manifests are rewritten the target's own is either still to be
\* written or in place.
Filing ==
  /\ fixing = "manifests" =>
       /\ todo \subseteq LatestOfPhase(target)
       /\ target \in todo \/ PhaseFileAgrees(target)
  /\ fixing \in {"head", "snapshot", "valid"} => PhaseFileAgrees(target)

\* Of its own phase the target is the only one a repair rewrites.
LEMMA LatestTarget ==
  ASSUME Inv, fixing # "idle"
  PROVE  /\ target \in LatestOfPhase(target)
         /\ \A k \in LatestOfPhase(target) : rows[k].phase = rows[target].phase => k = target
         /\ \A k \in LatestOfPhase(target) : rows[k].phase \in Phases
<1>1. target = Base /\ target \in DOMAIN rows /\ LinkedRow(target)
  BY DEF Inv, Repairing, TypeInv, Filled, Linked
<1>2. /\ DOMAIN rows = 1..Len(rows) /\ Len(rows) \in Nat /\ Complete \subseteq DOMAIN rows
      /\ \A i \in DOMAIN rows : rows[i].phase \in Phases /\ rows[i].prev \in Nat
  BY Table DEF Inv, TypeInv, Row
<1>3. target \in Complete
  BY <1>1, <1>2, BaseComplete DEF Inv, TypeInv
<1>4. ASSUME NEW l \in Chain(target) \cap Complete PROVE l <= target
  <2>1. CASE l = target
    BY <1>1, <1>2, <2>1
  <2>2. CASE l \in rows[target].older
    <3>1. l <= rows[target].prev /\ rows[target].prev < target
      BY <1>1, <2>2 DEF LinkedRow
    <3>2. l \in Int /\ rows[target].prev \in Int /\ target \in Int
      BY <1>1, <1>2
    <3>3. QED
      BY <3>1, <3>2
  <2>3. QED
    BY <2>1, <2>2 DEF Chain
<1>5. target \in Chain(target) \cap Complete
  BY <1>3 DEF Chain
<1>6. ASSUME NEW k \in LatestOfPhase(target), rows[k].phase = rows[target].phase
      PROVE  k = target
  <2>1. k \in Chain(target) \cap Complete /\ target <= k
    BY <1>5, <1>6 DEF LatestOfPhase
  <2>2. k <= target
    BY <1>4, <2>1
  <2>3. k \in Int /\ target \in Int
    BY <1>1, <1>2, <2>1
  <2>4. QED
    BY <2>1, <2>2, <2>3
<1>7. QED
  BY <1>2, <1>4, <1>5, <1>6 DEF LatestOfPhase

LEMMA FilingStep ==
  ASSUME ~Overlap, OneFilePerPhase, Inv, Filing, [Next]_vars
  PROVE  Filing'
<1> USE DEF coordinator, validator
<1>1. CASE fixing = "idle"
  <2>1. CASE Validate
    BY <1>1, <2>1 DEF Validate, Filing, Sound, PhaseFileAgrees
  <2>2. CASE ~Validate
    <3>1. fixing' = "idle"
      BY <1>1, <2>2 DEF Next, vars, Begin, DropMirror, NewMirror, WriteManifest, InsertRow,
        WriteHead, SealManifest, WriteSnapshot, MarkComplete, Publish, CommitDies,
        RestoreMirror, RestoreManifest, RemoveManifests, RestoreHead, RestoreSnapshot,
        Rebuild, ValidateEnds, Write, Lose, Damage
    <3>2. QED
      BY <3>1 DEF Filing
  <2>3. QED
    BY <2>1, <2>2
<1>2. CASE fixing # "idle"
  <2>0. at = "idle"
    BY <1>2 DEF Inv, Exclusive
  <2>1. CASE RestoreMirror
    BY <1>2, <2>1, LatestTarget DEF RestoreMirror, Filing, LatestOfPhase, Chain, Complete
  <2>2. CASE RestoreManifest
    <3>1. PICK n : n = Newest(todo)
      OBVIOUS
    <3>2. n \in todo
      <4>1. todo \in SUBSET (1..Len(rows)) /\ Len(rows) \in Nat /\ todo # {}
        BY <2>2, Table DEF RestoreManifest, Inv, TypeInv, TypeOK
      <4>2. QED
        BY <3>1, <4>1, NewestMember
    <3>3. n \in LatestOfPhase(target) /\ rows[n].phase \in Phases
      BY <1>2, <2>2, <3>2, LatestTarget DEF RestoreManifest, Filing
    <3>4. /\ manifest' = [manifest EXCEPT ![ManifestFile[rows[n].phase]] = n]
          /\ todo' = todo \ {n} /\ rows' = rows /\ target' = target /\ fixing' = "manifests"
      BY <2>2, <3>1 DEF RestoreManifest
    <3>5. target \in todo' \/ manifest'[ManifestFile[rows[target].phase]] = target
      <4> DEFINE file == ManifestFile[rows[target].phase]
      <4>1. manifest \in [Files -> Int] /\ ManifestFile[rows[n].phase] \in Files
        BY <3>3 DEF Inv, TypeInv, TypeOK, Files
      <4>2. CASE n = target
        BY <3>4, <4>1, <4>2
      <4>3. CASE n # target
        <5>1. rows[n].phase # rows[target].phase
          BY <1>2, <3>3, <4>3, LatestTarget
        <5>2. rows[target].phase \in Phases
          BY <1>2, LatestTarget
        <5>3. ManifestFile[rows[n].phase] # file
          BY <3>3, <5>1, <5>2 DEF OneFilePerPhase
        <5>4. manifest'[file] = manifest[file]
          BY <3>4, <4>1, <5>3
        <5>5. target \in todo \/ manifest[file] = target
          BY <2>2 DEF RestoreManifest, Filing, PhaseFileAgrees
        <5>6. QED
          BY <3>4, <4>3, <5>4, <5>5
      <4>4. QED
        BY <4>2, <4>3
    <3>6. todo' \subseteq LatestOfPhase(target)
      BY <2>2, <3>4 DEF RestoreManifest, Filing
    <3>7. QED
      BY <3>4, <3>5, <3>6 DEF Filing, PhaseFileAgrees, LatestOfPhase, Chain, Complete
  <2>3. CASE RemoveManifests
    <3>1. target \in LatestOfPhase(target) /\ rows[target].phase \in Phases
      BY <1>2, LatestTarget
    <3>2. ManifestFile[rows[target].phase] \in Files
      BY <3>1 DEF Files
    <3>3. manifest[ManifestFile[rows[target].phase]] = target
      BY <2>3 DEF RemoveManifests, Filing, PhaseFileAgrees
    <3>4. manifest'[ManifestFile[rows[target].phase]] = target
      BY <2>3, <3>1, <3>2, <3>3 DEF RemoveManifests
    <3>5. QED
      BY <2>3, <3>4 DEF RemoveManifests, Filing, PhaseFileAgrees
  <2>4. CASE Rebuild \/ ValidateEnds
    BY <2>4 DEF Rebuild, ValidateEnds, Filing
  <2>5. CASE UNCHANGED <<rows, manifest, target>> /\ UNCHANGED <<fixing, todo>>
    BY <2>5 DEF Filing, PhaseFileAgrees, LatestOfPhase, Chain, Complete
  <2>6. CASE RestoreHead \/ RestoreSnapshot
    BY <2>6 DEF RestoreHead, RestoreSnapshot, Filing, PhaseFileAgrees
  <2>7. CASE DropMirror \/ Write \/ Lose \/ UNCHANGED vars
    BY <2>5, <2>7 DEF DropMirror, Write, Lose, vars
  <2>8. QED
    BY <1>2, <2>0, <2>1, <2>2, <2>3, <2>4, <2>6, <2>7 DEF Next, Begin, NewMirror,
      WriteManifest, InsertRow, WriteHead, SealManifest, WriteSnapshot, MarkComplete, Publish,
      CommitDies, Validate, Damage
<1>3. QED
  BY <1>1, <1>2

\* When every phase has a file of its own a validation that returns leaves the
\* sealed manifest of the accepted checkpoint in it.
THEOREM ManifestsRepaired ==
  ASSUME ~Overlap, OneFilePerPhase
  PROVE  Spec => []ManifestAgrees
<1>1. Init => Filing
  BY DEF Init, Filing
<1>2. Inv /\ Filing /\ [Next]_vars => Filing'
  BY FilingStep
<1>3. Filing => ManifestAgrees
  BY DEF Filing, ManifestAgrees
<1>4. QED
  BY <1>1, <1>2, <1>3, Invariant, PTL DEF Spec

-----------------------------------------------------------------------------
(* The store implements the one that takes a checkpoint in one step *)

AcceptsBase == Accepted = Base

LEMMA AcceptedIsBaseNext == Inv' => Accepted' = Base'
<1>1. Inv => AcceptsBase
  BY AcceptedIsBase DEF AcceptsBase
<1>2. Inv' => AcceptsBase'
  BY <1>1, PTL
<1>3. QED
  BY <1>2 DEF AcceptsBase

\* The accepted checkpoint is the same as long as Base and its row are.
LEMMA SameRecord ==
  ASSUME Inv, Inv', Base' = Base, Base # 0 => rows'[Base] = rows[Base]
  PROVE  AcceptedRecord' = AcceptedRecord
<1>1. Accepted = Base /\ Accepted' = Base
  BY AcceptedIsBase, AcceptedIsBaseNext
<1>2. QED
  BY <1>1 DEF AcceptedRecord

LEMMA StoreStep ==
  ASSUME ~Overlap, Inv, Inv', [Next]_vars
  PROVE  [Store!Next]_Store!store
<1> USE DEF coordinator, validator
<1>1. Accepted = Base /\ Accepted' = Base'
  BY AcceptedIsBase, AcceptedIsBaseNext
<1>2. ASSUME UNCHANGED <<rows, head>> PROVE AcceptedRecord' = AcceptedRecord
  <2>1. Base' = Base
    BY <1>2, SameTable DEF Inv
  <2>2. QED
    BY <1>2, <2>1, SameRecord
<1>3. ASSUME UNCHANGED work, AcceptedRecord' = AcceptedRecord, PendingRecord' = PendingRecord
      PROVE  UNCHANGED Store!store
  BY <1>3 DEF Store!store
<1>4. ASSUME NEW ph \in Phases, Begin(ph) PROVE Store!Next
  <2>1. AcceptedRecord' = AcceptedRecord
    BY <1>4, <1>2 DEF Begin
  <2>2. /\ PendingRecord = Store!None /\ PendingRecord' = [phase |-> ph, content |-> work]
        /\ work' = work /\ work # Missing
    BY <1>4 DEF Begin, PendingRecord, Store!None
  <2>3. Store!Begin
    BY <1>4, <2>1, <2>2 DEF Store!Begin
  <2>4. QED
    BY <2>3 DEF Store!Next
<1>5. CASE DropMirror
  <2>1. UNCHANGED <<rows, head, work>> /\ PendingRecord' = PendingRecord
    BY <1>5 DEF DropMirror, PendingRecord
  <2>2. QED
    BY <1>2, <1>3, <2>1
<1>6. CASE NewMirror
  <2>1. UNCHANGED <<rows, head, work>> /\ PendingRecord' = PendingRecord
    BY <1>6 DEF NewMirror, PendingRecord
  <2>2. QED
    BY <1>2, <1>3, <2>1
<1>7. CASE WriteManifest
  <2>1. UNCHANGED <<rows, head, work>> /\ PendingRecord' = PendingRecord
    BY <1>7 DEF WriteManifest, PendingRecord
  <2>2. QED
    BY <1>2, <1>3, <2>1
<1>8. CASE SealManifest
  <2>1. UNCHANGED <<rows, head, work>> /\ PendingRecord' = PendingRecord
    BY <1>8 DEF SealManifest, PendingRecord
  <2>2. QED
    BY <1>2, <1>3, <2>1
<1>9. CASE WriteSnapshot
  <2>1. UNCHANGED <<rows, head, work>> /\ PendingRecord' = PendingRecord
    BY <1>9 DEF WriteSnapshot, PendingRecord
  <2>2. QED
    BY <1>2, <1>3, <2>1
<1>10. CASE Publish
  <2>1. UNCHANGED <<rows, head, work>> /\ PendingRecord' = PendingRecord
    BY <1>10 DEF Publish, PendingRecord
  <2>2. QED
    BY <1>2, <1>3, <2>1
<1>11. CASE Validate
  <2>1. UNCHANGED <<rows, head, work>> /\ PendingRecord' = PendingRecord
    BY <1>11 DEF Validate, PendingRecord
  <2>2. QED
    BY <1>2, <1>3, <2>1
<1>12. CASE RestoreMirror
  <2>1. UNCHANGED <<rows, head, work>> /\ PendingRecord' = PendingRecord
    BY <1>12 DEF RestoreMirror, PendingRecord
  <2>2. QED
    BY <1>2, <1>3, <2>1
<1>13. CASE RestoreManifest
  <2>1. UNCHANGED <<rows, head, work>> /\ PendingRecord' = PendingRecord
    BY <1>13 DEF RestoreManifest, PendingRecord
  <2>2. QED
    BY <1>2, <1>3, <2>1
<1>14. CASE RemoveManifests
  <2>1. UNCHANGED <<rows, head, work>> /\ PendingRecord' = PendingRecord
    BY <1>14 DEF RemoveManifests, PendingRecord
  <2>2. QED
    BY <1>2, <1>3, <2>1
<1>15. CASE RestoreSnapshot
  <2>1. UNCHANGED <<rows, head, work>> /\ PendingRecord' = PendingRecord
    BY <1>15 DEF RestoreSnapshot, PendingRecord
  <2>2. QED
    BY <1>2, <1>3, <2>1
<1>16. CASE ValidateEnds
  <2>1. UNCHANGED <<rows, head, work>> /\ PendingRecord' = PendingRecord
    BY <1>16 DEF ValidateEnds, PendingRecord
  <2>2. QED
    BY <1>2, <1>3, <2>1
<1>17. CASE Damage
  <2>1. UNCHANGED <<rows, head, work>> /\ PendingRecord' = PendingRecord
    BY <1>17 DEF Damage, PendingRecord
  <2>2. QED
    BY <1>2, <1>3, <2>1
<1>18. CASE InsertRow
  <2>1. work' = work /\ PendingRecord' = PendingRecord
    <3>1. new'.phase = new.phase /\ new'.content = new.content
      BY <1>18 DEF InsertRow, Inv, TypeInv, TypeOK
    <3>2. QED
      BY <1>18, <3>1 DEF InsertRow, PendingRecord
  <2>2. Base' = Base
    BY <1>18, InsertChain
  <2>3. Base # 0 => rows'[Base] = rows[Base]
    <3>1. Base # 0 => Base \in DOMAIN rows
      BY BaseComplete DEF Inv, TypeInv, Complete
    <3>2. QED
      BY <1>18, <3>1, InsertTable DEF Inv
  <2>4. QED
    BY <1>3, <2>1, <2>2, <2>3, SameRecord
<1>19. CASE WriteHead
  <2>1. work' = work /\ rows' = rows /\ PendingRecord' = PendingRecord
    BY <1>19 DEF WriteHead, PendingRecord
  <2>2. Base' = Base
    <3>1. /\ head' = new.id /\ new.id \in DOMAIN rows
          /\ rows[new.id].status = "committing" /\ rows[new.id].prev = Base
      BY <1>19 DEF WriteHead, Inv, Taking, TypeInv, Filled
    <3>2. head' # 0
      BY <3>1, Table DEF Inv, TypeInv
    <3>3. Complete' = Complete /\ new.id \notin Complete
      BY <2>1, <3>1 DEF Complete
    <3>4. QED
      BY <2>1, <3>1, <3>2, <3>3 DEF Base
  <2>3. QED
    BY <1>3, <2>1, <2>2, SameRecord
<1>20. CASE MarkComplete
  <2>1. /\ Base' = new.id
        /\ rows'[new.id].phase = new.phase /\ rows'[new.id].content = new.content
    BY <1>20, CompleteChain
  <2>2. new.id # 0 /\ new.phase \in Phases
    BY <1>20, Table DEF MarkComplete, Inv, TypeInv, Filled
  <2>3. /\ PendingRecord = [phase |-> new.phase, content |-> new.content]
        /\ PendingRecord' = Store!None /\ work' = work
    BY <1>20 DEF MarkComplete, PendingRecord, Store!None
  <2>4. AcceptedRecord' = PendingRecord
    BY <1>1, <2>1, <2>2, <2>3 DEF AcceptedRecord
  <2>5. PendingRecord # Store!None
    BY <2>2, <2>3, StoreAssumption DEF Store!None
  <2>6. Store!Accept
    BY <2>3, <2>4, <2>5 DEF Store!Accept
  <2>7. QED
    BY <2>6 DEF Store!Next
<1>21. CASE CommitDies
  <2>1. UNCHANGED <<rows, head, work>> /\ PendingRecord' = Store!None
    BY <1>21 DEF CommitDies, PendingRecord, Store!None
  <2>2. Store!Abandon
    BY <1>2, <2>1 DEF Store!Abandon
  <2>3. QED
    BY <2>2 DEF Store!Next
<1>22. CASE RestoreHead
  <2>1. work' = work /\ rows' = rows /\ PendingRecord' = PendingRecord
    BY <1>22 DEF RestoreHead, PendingRecord
  <2>2. Base' = Base
    <3>1. head' = Base /\ target = Base /\ target \in DOMAIN rows
      BY <1>22 DEF RestoreHead, Inv, Repairing, TypeInv, Filled
    <3>2. Base # 0
      BY <3>1, Table DEF Inv, TypeInv
    <3>3. Base \in Complete /\ Complete' = Complete
      BY <2>1, <3>2, BaseComplete DEF Inv, TypeInv, Complete
    <3>4. Base' = head'
      BY <3>1, <3>3 DEF Base
    <3>5. QED
      BY <3>1, <3>4
  <2>3. QED
    BY <1>3, <2>1, <2>2, SameRecord
<1>23. CASE Rebuild
  <2>1. UNCHANGED <<rows, head>> /\ PendingRecord' = PendingRecord
    BY <1>23 DEF Rebuild, PendingRecord
  <2>2. work = Missing /\ work' = rows[target].content
    BY <1>23 DEF Rebuild
  <2>3. target = Base /\ target \in DOMAIN rows
    BY <1>23 DEF Rebuild, Inv, Repairing, TypeInv, Filled
  <2>4. target # 0 /\ rows[target].phase \in Phases
    BY <2>3, Table DEF Inv, TypeInv, Row
  <2>5. AcceptedRecord = [phase |-> rows[target].phase, content |-> rows[target].content]
    BY <1>1, <2>3, <2>4 DEF AcceptedRecord
  <2>6. AcceptedRecord # Store!None /\ work' = AcceptedRecord.content
    BY <2>2, <2>4, <2>5, StoreAssumption DEF Store!None
  <2>7. Store!Restore
    BY <1>2, <2>1, <2>2, <2>6 DEF Store!Restore
  <2>8. QED
    BY <2>7 DEF Store!Next
<1>24. CASE Write
  <2>1. UNCHANGED <<rows, head>> /\ PendingRecord' = PendingRecord
    BY <1>24 DEF Write, PendingRecord
  <2>2. Store!Write
    BY <1>24, <1>2, <2>1 DEF Write, Store!Write
  <2>3. QED
    BY <2>2 DEF Store!Next
<1>25. CASE Lose
  <2>1. UNCHANGED <<rows, head>> /\ PendingRecord' = PendingRecord
    BY <1>25 DEF Lose, PendingRecord
  <2>2. Store!Lose
    BY <1>25, <1>2, <2>1 DEF Lose, Store!Lose
  <2>3. QED
    BY <2>2 DEF Store!Next
<1>26. CASE UNCHANGED vars
  <2>1. UNCHANGED <<rows, head, work>> /\ PendingRecord' = PendingRecord
    BY <1>26 DEF vars, PendingRecord
  <2>2. QED
    BY <1>2, <1>3, <2>1
<1>27. QED
  BY <1>4, <1>5, <1>6, <1>7, <1>8, <1>9, <1>10, <1>11, <1>12, <1>13, <1>14, <1>15, <1>16, <1>17, <1>18, <1>19, <1>20, <1>21, <1>22, <1>23, <1>24, <1>25, <1>26 DEF Next

\* Every commit, repair and rebuild, cut off anywhere, is seen from outside as a
\* store that takes a checkpoint in one step or not at all.
THEOREM StoreImplemented == ASSUME ~Overlap PROVE Spec => ImplementsStore
<1>1. Init => Store!Init
  <2>1. ASSUME Init PROVE Accepted = 0
    BY <2>1 DEF Init, Accepted, Usable
  <2>2. QED
    BY <2>1 DEF Init, Store!Init, Store!None, AcceptedRecord, PendingRecord
<1>2. Inv /\ Inv' /\ [Next]_vars => [Store!Next]_Store!store
  BY StoreStep
<1>3. QED
  BY <1>1, <1>2, Invariant, PTL DEF Spec, ImplementsStore, Store!Spec

=============================================================================
