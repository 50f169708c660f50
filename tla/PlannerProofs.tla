--------------------------- MODULE PlannerProofs ---------------------------
(***************************************************************************)
(* Theorems about Planner.                                                 *)
(***************************************************************************)
EXTENDS Planner, FiniteSetTheorems, TLAPS

-----------------------------------------------------------------------------
(* Numbers *)

\* A set of numbers has a least one.
LEMMA Least ==
  ASSUME NEW S \in SUBSET Nat, S # {}
  PROVE  \E i \in S : \A k \in S : i <= k
<1>1. PICK i \in S : \A k \in S : ~(<<k, i>> \in OpToRel(<, Nat))
  BY NatLessThanWellFounded, IsWellFoundedOnSubset, WFMin
<1>2. ASSUME NEW k \in S PROVE i <= k
  <2>1. ~(k < i)
    BY <1>1 DEF OpToRel
  <2>2. QED
    BY <2>1
<1>3. QED
  BY <1>2

\* A bounded set of numbers has a greatest one.
LEMMA Greatest ==
  ASSUME NEW S \in SUBSET Nat, S # {}, NEW n \in Nat, \A k \in S : k <= n
  PROVE  \E i \in S : \A k \in S : i >= k
<1> DEFINE Bounds == {b \in Nat : \A k \in S : k <= b}
<1>1. Bounds # {}
  OBVIOUS
<1>2. PICK b \in Bounds : \A c \in Bounds : b <= c
  BY <1>1, Least
<1>3. b \in S
  <2>1. CASE b = 0
    <3>1. \A k \in S : k \in Nat /\ k <= 0
      BY <1>2, <2>1
    <3>2. \A k \in S : k = b
      BY <2>1, <3>1
    <3>3. QED
      BY <3>2
  <2>2. CASE b # 0
    <3>1. b - 1 \in Nat /\ ~(b <= b - 1)
      BY <2>2
    <3>2. PICK k \in S : ~(k <= b - 1)
      <4>1. b - 1 \notin Bounds
        BY <1>2, <3>1
      <4>2. QED
        BY <3>1, <4>1
    <3>3. k <= b /\ k \in Nat
      BY <1>2
    <3>4. k = b
      BY <3>2, <3>3
    <3>5. QED
      BY <3>4
  <2>3. QED
    BY <2>1, <2>2
<1>4. QED
  BY <1>2, <1>3

\* The functions are numbers.
LEMMA FunctionsType ==
  /\ IsFiniteSet(Functions) /\ Functions \subseteq Nat \ {0}
  /\ \A f \in Functions : f <= Cardinality(Functions)
  /\ Cardinality(Functions) \in Nat /\ Functions = 1 .. Cardinality(Functions)
<1>1. IsFiniteSet(Functions) /\ Functions = 1 .. Cardinality(Functions)
  BY PlannerAssumption
<1>2. Cardinality(Functions) \in Nat
  BY <1>1, FS_CardinalityType
<1> DEFINE n == Cardinality(Functions)
<1>3. n \in Nat /\ Functions = 1 .. n
  BY <1>1, <1>2
<1> HIDE DEF n
<1>4. Functions \subseteq Nat \ {0} /\ \A f \in Functions : f <= n
  BY <1>3
<1>5. QED
  BY <1>1, <1>2, <1>4 DEF n

\* The least and the greatest of some functions.
LEMMA Extremes ==
  ASSUME NEW S \in SUBSET Functions, S # {}
  PROVE  /\ Min(S) \in S /\ \A k \in S : Min(S) <= k
         /\ Max(S) \in S /\ \A k \in S : Max(S) >= k
<1>1. S \in SUBSET Nat /\ \A k \in S : k <= Cardinality(Functions)
  BY FunctionsType
<1>2. \E i \in S : \A k \in S : i <= k
  BY <1>1, Least
<1>3. \E i \in S : \A k \in S : i >= k
  BY <1>1, Greatest, FunctionsType
<1>4. QED
  BY <1>2, <1>3 DEF Min, Max

\* There is less in a part of a finite set.
LEMMA Smaller ==
  ASSUME NEW S, IsFiniteSet(S), NEW T \in SUBSET S, T # S
  PROVE  Cardinality(S) \in Nat /\ Cardinality(T) \in Nat /\ Cardinality(T) < Cardinality(S)
<1>1. IsFiniteSet(T)
  BY FS_Subset
<1>2. Cardinality(S) \in Nat /\ Cardinality(T) \in Nat
  BY <1>1, FS_CardinalityType
<1>3. Cardinality(T) <= Cardinality(S) /\ Cardinality(S) # Cardinality(T)
  BY <1>1, FS_Subset
<1>4. QED
  BY <1>2, <1>3

\* What is true of a part of a finite set when it is true of its own parts is true of
\* all of them.
LEMMA FromParts ==
  ASSUME NEW U, IsFiniteSet(U), NEW Good,
         \A S \in SUBSET U : (\A T \in SUBSET S : T # S => T \in Good) => S \in Good
  PROVE  SUBSET U \subseteq Good
<1> DEFINE Sizes == {Cardinality(S) : S \in (SUBSET U) \ Good}
<1>1. SUFFICES ASSUME (SUBSET U) \ Good # {} PROVE FALSE
  OBVIOUS
<1>2. Sizes \in SUBSET Nat /\ Sizes # {}
  <2>1. \A S \in SUBSET U : Cardinality(S) \in Nat
    <3>1. \A S \in SUBSET U : IsFiniteSet(S)
      BY FS_Subset
    <3>2. QED
      BY <3>1, FS_CardinalityType
  <2>2. QED
    BY <1>1, <2>1
<1>3. PICK n \in Sizes : \A k \in Sizes : n <= k
  <2> HIDE DEF Sizes
  <2>1. QED
    BY <1>2, Least
<1>4. PICK S \in (SUBSET U) \ Good : Cardinality(S) = n
  OBVIOUS
<1>5. PICK T \in SUBSET S : T # S /\ T \notin Good
  BY <1>4
<1>6. /\ Cardinality(S) \in Nat /\ Cardinality(T) \in Nat
      /\ Cardinality(T) < Cardinality(S)
  <2>1. IsFiniteSet(S)
    BY <1>4, FS_Subset
  <2>2. QED
    BY <1>5, <2>1, Smaller
<1>7. Cardinality(T) \in Sizes
  BY <1>4, <1>5
<1>8. n <= Cardinality(T)
  BY <1>3, <1>7
<1>9. QED
  BY <1>4, <1>6, <1>8

\* The rank of a number in a set
Rank(S, f) == Cardinality({g \in S : g <= f})

\* Every number of a set has a rank of its own, and there is one for every rank.
LEMMA Ranks ==
  ASSUME NEW n \in Nat, NEW S \in SUBSET (1 .. n)
  PROVE  /\ Cardinality(S) \in Nat
         /\ \A f \in S : Rank(S, f) \in 1 .. Cardinality(S)
         /\ \A f, g \in S : f # g => Rank(S, f) # Rank(S, g)
         /\ \A i \in 1 .. Cardinality(S) : \E f \in S : Rank(S, f) = i
<1> DEFINE Upto(T, f) == {g \in T : g <= f}
<1>1. IsFiniteSet(1 .. n)
  BY FS_Interval
<1>2. \A T \in SUBSET (1 .. n) : IsFiniteSet(T) /\ Cardinality(T) \in Nat
  <2>1. \A T \in SUBSET (1 .. n) : IsFiniteSet(T)
    BY <1>1, FS_Subset
  <2>2. QED
    BY <2>1, FS_CardinalityType
<1>3. \A T \in SUBSET (1 .. n) : \A f \in T : Rank(T, f) \in 1 .. Cardinality(T)
  <2>1. SUFFICES ASSUME NEW T \in SUBSET (1 .. n), NEW f \in T PROVE Rank(T, f) \in 1 .. Cardinality(T)
    OBVIOUS
  <2>2. Upto(T, f) \in SUBSET T /\ Upto(T, f) # {}
    <3>1. f \in Upto(T, f)
      OBVIOUS
    <3>2. QED
      BY <3>1
  <2>3. IsFiniteSet(Upto(T, f)) /\ Cardinality(Upto(T, f)) <= Cardinality(T)
    BY <1>2, <2>2, FS_Subset
  <2>4. Cardinality(Upto(T, f)) \in Nat /\ Cardinality(Upto(T, f)) # 0
    BY <2>2, <2>3, FS_CardinalityType, FS_EmptySet
  <2> HIDE DEF Upto
  <2>5. Cardinality(Upto(T, f)) \in 1 .. Cardinality(T)
    BY <1>2, <2>3, <2>4
  <2>6. QED
    BY <2>5 DEF Rank, Upto
<1>4. ASSUME NEW f \in S, NEW g \in S, f < g PROVE Rank(S, f) < Rank(S, g)
  <2>1. Upto(S, f) \in SUBSET Upto(S, g) /\ Upto(S, f) # Upto(S, g) /\ Upto(S, g) \in SUBSET (1 .. n)
    <3>1. g \in Upto(S, g) /\ g \notin Upto(S, f)
      BY <1>4
    <3>2. \A h \in S : h <= f => h <= g
      BY <1>4
    <3>3. QED
      BY <3>1, <3>2
  <2>2. IsFiniteSet(Upto(S, g))
    BY <1>2, <2>1
  <2> HIDE DEF Upto
  <2>3. Cardinality(Upto(S, f)) < Cardinality(Upto(S, g))
    BY <2>1, <2>2, Smaller
  <2>4. QED
    BY <2>3 DEF Rank, Upto
<1>5. ASSUME NEW f \in S, NEW g \in S, f # g PROVE Rank(S, f) # Rank(S, g)
  <2>1. f < g \/ g < f
    BY <1>5
  <2>2. Rank(S, f) \in Nat /\ Rank(S, g) \in Nat
    BY <1>2, <1>3
  <2>3. Rank(S, f) < Rank(S, g) \/ Rank(S, g) < Rank(S, f)
    BY <1>4, <2>1
  <2>4. QED
    BY <2>2, <2>3
<1> DEFINE Good == {T \in SUBSET (1 .. n) : \A i \in 1 .. Cardinality(T) : \E f \in T : Rank(T, f) = i}
<1>6. ASSUME NEW T \in SUBSET (1 .. n), \A R \in SUBSET T : R # T => R \in Good PROVE T \in Good
  <2>1. SUFFICES ASSUME NEW i \in 1 .. Cardinality(T) PROVE \E f \in T : Rank(T, f) = i
    OBVIOUS
  <2>2. Cardinality(T) # 0 /\ T # {}
    BY <1>2, <2>1, FS_EmptySet
  <2>3. PICK m \in T : \A k \in T : m >= k
    <3>1. T \in SUBSET Nat /\ \A k \in T : k <= n
      OBVIOUS
    <3>2. QED
      BY <2>2, <3>1, Greatest
  <2>4. CASE i = Cardinality(T)
    <3>1. Upto(T, m) = T
      BY <2>3
    <3>2. QED
      BY <2>3, <2>4, <3>1 DEF Rank
  <2>5. CASE i # Cardinality(T)
    <3> DEFINE R == T \ {m}
    <3>1. Cardinality(R) = Cardinality(T) - 1
      BY <1>2, <2>3, FS_RemoveElement
    <3>2. R \in Good
      BY <1>6, <2>3
    <3>3. i \in 1 .. Cardinality(R)
      BY <1>2, <2>5, <3>1
    <3>4. PICK f \in R : Rank(R, f) = i
      BY <3>2, <3>3
    <3>5. Upto(T, f) = Upto(R, f)
      <4>1. ~(m <= f)
        BY <2>3
      <4>2. QED
        BY <4>1
    <3>6. QED
      BY <3>4, <3>5 DEF Rank
  <2>6. QED
    BY <2>4, <2>5
<1>7. S \in Good
  <2>1. SUBSET (1 .. n) \subseteq Good
    <3> HIDE DEF Good
    <3> DEFINE U == 1 .. n
    <3>1. IsFiniteSet(U)
      BY <1>1
    <3>2. \A T \in SUBSET U : (\A R \in SUBSET T : R # T => R \in Good) => T \in Good
      BY <1>6
    <3> HIDE DEF U
    <3>3. SUBSET U \subseteq Good
      BY <3>1, <3>2, FromParts
    <3>4. QED
      BY <3>3 DEF U
  <2>2. QED
    BY <2>1
<1>8. QED
  BY <1>2, <1>3, <1>5, <1>7

\* Nth counts the numbers of a set through.
LEMMA NthCounts ==
  ASSUME NEW n \in Nat, NEW S \in SUBSET (1 .. n)
  PROVE  /\ Cardinality(S) \in Nat
         /\ \A i \in 1 .. Cardinality(S) : Nth(S, i) \in S
         /\ \A i, k \in 1 .. Cardinality(S) : i # k => Nth(S, i) # Nth(S, k)
         /\ \A f \in S : \E i \in 1 .. Cardinality(S) : Nth(S, i) = f
<1>1. \A i \in 1 .. Cardinality(S) : Nth(S, i) \in S /\ Rank(S, Nth(S, i)) = i
  <2>1. SUFFICES ASSUME NEW i \in 1 .. Cardinality(S)
                 PROVE  Nth(S, i) \in S /\ Rank(S, Nth(S, i)) = i
    OBVIOUS
  <2>2. \E f \in S : Rank(S, f) = i
    BY Ranks
  <2>3. Nth(S, i) = CHOOSE f \in S : Rank(S, f) = i
    BY DEF Nth, Rank
  <2>4. QED
    BY <2>2, <2>3
<1>2. \A f \in S : Rank(S, f) \in 1 .. Cardinality(S) /\ Nth(S, Rank(S, f)) = f
  BY <1>1, Ranks
<1>3. QED
  BY <1>1, <1>2, Ranks

-----------------------------------------------------------------------------
(* Cutting a set into a sequence *)

\* first takes something of every set of functions that has some.
Takes(first) == \A S \in SUBSET Functions : S # {} => first[S] \subseteq S /\ first[S] # {}

\* cut is what Cut(first) is on the sets of D.
CutOn(cut, first, D) ==
  /\ cut \in [D -> Seq(SUBSET Functions)]
  /\ \A S \in D : cut[S] = IF S = {} THEN <<>> ELSE <<first[S]>> \o cut[S \ first[S]]

\* The sets of at most n functions
UpTo(n) == {S \in SUBSET Functions : Cardinality(S) <= n}

\* The next larger sets can be cut, too.
LEMMA CutFurther ==
  ASSUME NEW first, Takes(first), NEW n \in Nat, NEW cut, CutOn(cut, first, UpTo(n))
  PROVE  \E c : CutOn(c, first, UpTo(n + 1))
<1> DEFINE Value(S) == IF S = {} THEN <<>> ELSE <<first[S]>> \o cut[S \ first[S]]
           c == [S \in UpTo(n + 1) |-> Value(S)]
<1>1. \A S \in UpTo(n + 1) : S # {} => /\ first[S] \in SUBSET Functions
                                       /\ S \ first[S] \in UpTo(n)
  <2>1. SUFFICES ASSUME NEW S \in UpTo(n + 1), S # {}
                 PROVE  first[S] \in SUBSET Functions /\ S \ first[S] \in UpTo(n)
    OBVIOUS
  <2>2. S \in SUBSET Functions /\ Cardinality(S) <= n + 1
    BY DEF UpTo
  <2>3. first[S] \subseteq S /\ first[S] # {}
    BY <2>1, <2>2 DEF Takes
  <2>4. S \ first[S] \in SUBSET S /\ S \ first[S] # S
    BY <2>3
  <2>5. /\ Cardinality(S) \in Nat /\ Cardinality(S \ first[S]) \in Nat
        /\ Cardinality(S \ first[S]) < Cardinality(S)
    BY <2>2, <2>4, FunctionsType, FS_Subset, Smaller
  <2>6. Cardinality(S \ first[S]) <= n
    BY <2>2, <2>5
  <2>7. QED
    BY <2>2, <2>3, <2>6 DEF UpTo
<1>2. \A S \in UpTo(n + 1) : Value(S) \in Seq(SUBSET Functions)
  <2>1. SUFFICES ASSUME NEW S \in UpTo(n + 1), S # {}
                 PROVE  <<first[S]>> \o cut[S \ first[S]] \in Seq(SUBSET Functions)
    <3>1. <<>> \in Seq(SUBSET Functions)
      OBVIOUS
    <3>2. QED
      BY <2>1, <3>1
  <2>2. <<first[S]>> \in Seq(SUBSET Functions)
    <3>1. first[S] \in SUBSET Functions
      BY <1>1, <2>1
    <3> DEFINE x == first[S]
               T == SUBSET Functions
    <3>2. x \in T
      BY <3>1
    <3> HIDE DEF x, T
    <3>3. <<x>> \in Seq(T)
      BY <3>2
    <3>4. QED
      BY <3>3 DEF x, T
  <2>3. cut[S \ first[S]] \in Seq(SUBSET Functions)
    BY <1>1, <2>1 DEF CutOn
  <2>4. QED
    BY <2>2, <2>3
<1>3. \A S \in UpTo(n) : S \in UpTo(n + 1) /\ Value(S) = cut[S]
  <2>1. \A S \in UpTo(n) : Cardinality(S) \in Nat
    BY FunctionsType, FS_Subset, FS_CardinalityType DEF UpTo
  <2>2. QED
    BY <2>1 DEF UpTo, CutOn
<1>4. c \in [UpTo(n + 1) -> Seq(SUBSET Functions)]
  BY <1>2
<1>5. \A S \in UpTo(n + 1) : c[S] = IF S = {} THEN <<>> ELSE <<first[S]>> \o c[S \ first[S]]
  <2>1. SUFFICES ASSUME NEW S \in UpTo(n + 1), S # {}
                 PROVE  c[S] = <<first[S]>> \o c[S \ first[S]]
    OBVIOUS
  <2>2. c[S \ first[S]] = cut[S \ first[S]]
    BY <1>1, <1>3, <2>1
  <2>3. QED
    BY <2>1, <2>2
<1>6. CutOn(c, first, UpTo(n + 1))
  BY <1>4, <1>5 DEF CutOn
<1>7. QED
  BY <1>6

\* What the recursion of Cut says is true of Cut.
LEMMA CutDefined ==
  ASSUME NEW first, Takes(first)
  PROVE  CutOn(Cut(first), first, SUBSET Functions)
<1> DEFINE Never == {n \in Nat : ~\E c : CutOn(c, first, UpTo(n))}
<1>1. \E c : CutOn(c, first, UpTo(0))
  <2>1. \A S \in UpTo(0) : S = {}
    <3>1. SUFFICES ASSUME NEW S \in UpTo(0) PROVE S = {}
      OBVIOUS
    <3>2. S \in SUBSET Functions /\ Cardinality(S) <= 0
      BY DEF UpTo
    <3>3. IsFiniteSet(S)
      BY <3>2, FunctionsType, FS_Subset
    <3>4. Cardinality(S) = 0
      BY <3>2, <3>3, FS_CardinalityType
    <3>5. QED
      BY <3>3, <3>4, FS_EmptySet
  <2>2. CutOn([S \in UpTo(0) |-> <<>>], first, UpTo(0))
    BY <2>1 DEF CutOn
  <2>3. QED
    BY <2>2
<1>2. Never = {}
  <2>1. SUFFICES ASSUME Never # {} PROVE FALSE
    OBVIOUS
  <2>2. PICK n \in Never : \A k \in Never : n <= k
    BY <2>1, Least
  <2>3. n \in Nat \ {0}
    BY <1>1, <2>2
  <2>4. n - 1 \in Nat /\ ~(n <= n - 1) /\ (n - 1) + 1 = n
    BY <2>3
  <2>5. PICK c : CutOn(c, first, UpTo(n - 1))
    BY <2>2, <2>4
  <2>6. \E d : CutOn(d, first, UpTo((n - 1) + 1))
    BY <2>4, <2>5, CutFurther
  <2>7. QED
    BY <2>2, <2>4, <2>6
<1>3. UpTo(Cardinality(Functions)) = SUBSET Functions
  BY FunctionsType, FS_Subset DEF UpTo
<1>4. PICK c : CutOn(c, first, SUBSET Functions)
  <2>1. Cardinality(Functions) \in Nat
    BY FunctionsType
  <2>2. Cardinality(Functions) \notin Never
    BY <1>2
  <2>3. \E c : CutOn(c, first, UpTo(Cardinality(Functions)))
    BY <2>1, <2>2
  <2>4. QED
    BY <1>3, <2>3
<1>5. c = [S \in SUBSET Functions |-> IF S = {} THEN <<>> ELSE <<first[S]>> \o c[S \ first[S]]]
  BY <1>4 DEF CutOn
<1>6. Cut(first) = [S \in SUBSET Functions |->
                     IF S = {} THEN <<>> ELSE <<first[S]>> \o Cut(first)[S \ first[S]]]
  BY <1>5 DEF Cut
<1> DEFINE cut == Cut(first)
           Good == {S \in SUBSET Functions : cut[S] = c[S]}
<1>7. SUBSET Functions \subseteq Good
  <2>1. SUFFICES ASSUME NEW S \in SUBSET Functions, \A T \in SUBSET S : T # S => T \in Good
                 PROVE  cut[S] = c[S]
    <3> HIDE DEF cut
    <3>1. \A S \in SUBSET Functions : (\A T \in SUBSET S : T # S => T \in Good) => S \in Good
      OBVIOUS
    <3> HIDE DEF Good
    <3>2. QED
      BY <3>1, FunctionsType, FromParts
  <2>2. CASE S = {}
    BY <1>4, <1>6, <2>2 DEF CutOn
  <2>3. CASE S # {}
    <3>1. first[S] \subseteq S /\ first[S] # {}
      BY <2>3 DEF Takes
    <3>2. S \ first[S] \in Good
      BY <2>1, <3>1
    <3>3. cut[S] = <<first[S]>> \o cut[S \ first[S]]
      BY <1>6, <2>3
    <3>4. c[S] = <<first[S]>> \o c[S \ first[S]]
      BY <1>4, <2>3 DEF CutOn
    <3> HIDE DEF cut
    <3>5. QED
      BY <3>2, <3>3, <3>4
  <2>4. QED
    BY <2>2, <2>3
<1>8. cut = c
  <2>1. cut = [S \in SUBSET Functions |-> cut[S]] /\ c = [S \in SUBSET Functions |-> c[S]]
    BY <1>4, <1>6 DEF CutOn
  <2> HIDE DEF cut
  <2>2. QED
    BY <1>7, <2>1
<1>9. QED
  BY <1>4, <1>8

\* A set before the sets of a sequence
LEMMA Prepended ==
  ASSUME NEW T, NEW x \in T, NEW s \in Seq(T)
  PROVE  /\ <<x>> \o s \in Seq(T)
         /\ Len(s) \in Nat /\ DOMAIN s = 1 .. Len(s)
         /\ DOMAIN (<<x>> \o s) = 1 .. Len(s) + 1
         /\ (<<x>> \o s)[1] = x
         /\ \A i \in 1 .. Len(s) : (<<x>> \o s)[i + 1] = s[i]
<1>1. <<x>> \in Seq(T) /\ Len(<<x>>) = 1 /\ <<x>>[1] = x
  OBVIOUS
<1>2. Len(<<x>> \o s) = 1 + Len(s)
  BY <1>1
<1>3. \A i \in 1 .. Len(s) : (<<x>> \o s)[i + 1] = s[i]
  BY <1>1
<1>4. QED
  BY <1>1, <1>2, <1>3

\* Two sequences after each other
LEMMA Concatenated ==
  ASSUME NEW T, NEW s \in Seq(T), NEW t \in Seq(T)
  PROVE  /\ s \o t \in Seq(T) /\ DOMAIN (s \o t) = 1 .. Len(s) + Len(t)
         /\ \A i \in 1 .. Len(s) : (s \o t)[i] = s[i]
         /\ \A i \in 1 .. Len(t) : (s \o t)[Len(s) + i] = t[i]
<1>1. s \o t \in Seq(T) /\ Len(s \o t) = Len(s) + Len(t)
  OBVIOUS
<1>2. \A i \in 1 .. Len(s) : (s \o t)[i] = s[i]
  OBVIOUS
<1>3. \A i \in 1 .. Len(t) : (s \o t)[Len(s) + i] = t[i]
  OBVIOUS
<1>4. QED
  BY <1>1, <1>2, <1>3

\* The sets of s are parts of S, disjoint, not empty, and all of S.
Cuts(s, S) ==
  /\ \A i \in DOMAIN s : s[i] \subseteq S /\ s[i] # {}
  /\ \A i, k \in DOMAIN s : i # k => s[i] \cap s[k] = {}
  /\ \A f \in S : \E i \in DOMAIN s : f \in s[i]

\* A cut of the rest of a set and what was taken from it first are a cut of the set.
LEMMA CutsPrepended ==
  ASSUME NEW S \in SUBSET Functions, NEW x \in SUBSET S, x # {},
         NEW s \in Seq(SUBSET Functions), Cuts(s, S \ x)
  PROVE  Cuts(<<x>> \o s, S)
<1> DEFINE t == <<x>> \o s
           n == Len(s)
<1>1. /\ n \in Nat /\ DOMAIN s = 1 .. n /\ DOMAIN t = 1 .. n + 1 /\ t[1] = x
      /\ \A i \in 1 .. n : t[i + 1] = s[i]
  BY Prepended
<1> HIDE DEF t, n
<1>2. \A i \in DOMAIN t : i = 1 \/ (i - 1 \in DOMAIN s /\ t[i] = s[i - 1])
  <2>1. SUFFICES ASSUME NEW i \in 1 .. n + 1, i # 1
                 PROVE  i - 1 \in 1 .. n /\ t[i] = s[i - 1]
    BY <1>1
  <2>2. i - 1 \in 1 .. n /\ (i - 1) + 1 = i
    BY <1>1, <2>1
  <2>3. QED
    BY <1>1, <2>2
<1>3. \A i \in DOMAIN s : s[i] \subseteq S \ x /\ s[i] # {}
  BY DEF Cuts
<1>4. \A i \in DOMAIN t : t[i] \subseteq S /\ t[i] # {}
  BY <1>1, <1>2, <1>3
<1>5. ASSUME NEW i \in DOMAIN t, NEW k \in DOMAIN t, i # k PROVE t[i] \cap t[k] = {}
  <2>1. CASE i = 1
    BY <1>1, <1>2, <1>3, <1>5, <2>1
  <2>2. CASE k = 1
    BY <1>1, <1>2, <1>3, <1>5, <2>2
  <2>3. CASE i # 1 /\ k # 1
    <3>1. /\ i - 1 \in DOMAIN s /\ k - 1 \in DOMAIN s
          /\ t[i] = s[i - 1] /\ t[k] = s[k - 1]
      BY <1>2, <2>3
    <3>2. i - 1 # k - 1
      BY <1>1, <1>5
    <3>3. QED
      BY <3>1, <3>2 DEF Cuts
  <2>4. QED
    BY <2>1, <2>2, <2>3
<1>6. ASSUME NEW f \in S PROVE \E i \in DOMAIN t : f \in t[i]
  <2>1. CASE f \in x
    <3>1. 1 \in DOMAIN t
      BY <1>1
    <3>2. QED
      BY <1>1, <2>1, <3>1
  <2>2. CASE f \notin x
    <3>1. PICK i \in DOMAIN s : f \in s[i]
      BY <1>6, <2>2 DEF Cuts
    <3>2. i \in 1 .. n /\ i + 1 \in DOMAIN t
      BY <1>1
    <3>3. t[i + 1] = s[i]
      BY <1>1, <3>2
    <3>4. QED
      BY <3>1, <3>2, <3>3
  <2>3. QED
    BY <2>1, <2>2
<1>7. Cuts(t, S)
  BY <1>4, <1>5, <1>6 DEF Cuts
<1>8. QED
  BY <1>7 DEF t

\* What is cut is cut into disjoint parts that are not empty, with nothing left over.
LEMMA CutParts ==
  ASSUME NEW first, Takes(first), NEW S \in SUBSET Functions
  PROVE  Cut(first)[S] \in Seq(SUBSET Functions) /\ Cuts(Cut(first)[S], S)
<1> DEFINE cut == Cut(first)
           Good == {R \in SUBSET Functions : Cuts(cut[R], R)}
<1>1. CutOn(cut, first, SUBSET Functions)
  BY CutDefined
<1> HIDE DEF cut
<1>2. ASSUME NEW R \in SUBSET Functions, \A T \in SUBSET R : T # R => T \in Good
      PROVE  R \in Good
  <2>1. CASE R = {}
    <3>1. cut[R] = <<>>
      BY <1>1, <2>1 DEF CutOn
    <3>2. QED
      BY <2>1, <3>1 DEF Cuts
  <2>2. CASE R # {}
    <3>1. first[R] \in SUBSET R /\ first[R] # {}
      BY <2>2 DEF Takes
    <3>2. cut[R] = <<first[R]>> \o cut[R \ first[R]]
      BY <1>1, <2>2 DEF CutOn
    <3>3. R \ first[R] \in Good
      BY <1>2, <3>1
    <3>4. cut[R \ first[R]] \in Seq(SUBSET Functions)
      BY <1>1 DEF CutOn
    <3>5. Cuts(cut[R], R)
      BY <3>1, <3>2, <3>3, <3>4, CutsPrepended
    <3>6. QED
      BY <3>5
  <2>3. QED
    BY <2>1, <2>2
<1>3. SUBSET Functions \subseteq Good
  <2> HIDE DEF Good
  <2>1. QED
    BY <1>2, FunctionsType, FromParts
<1>4. cut[S] \in Seq(SUBSET Functions) /\ Cuts(cut[S], S)
  BY <1>1, <1>3 DEF CutOn
<1>5. QED
  BY <1>4 DEF cut

-----------------------------------------------------------------------------
(* Layers and batches *)

\* The layers of some functions are a cut of them.
LEMMA LayersCut ==
  ASSUME NEW S \in SUBSET Functions
  PROVE  Layered[S] \in Seq(SUBSET Functions) /\ Cuts(Layered[S], S)
<1> DEFINE first == [R \in SUBSET Functions |-> NextLayer(R)]
<1>1. Takes(first)
  <2>1. ASSUME NEW R \in SUBSET Functions, R # {} PROVE first[R] \subseteq R /\ first[R] # {}
    <3>1. Min(R) \in R
      BY <2>1, Extremes
    <3>2. QED
      BY <3>1 DEF NextLayer
  <2>2. QED
    BY <2>1 DEF Takes
<1>2. Layered = Cut(first)
  BY DEF Layered
<1> HIDE DEF first
<1>3. QED
  BY <1>1, <1>2, CutParts

\* The first batch of some functions has some of them.
LEMMA BatchTaken == Takes(FirstBatch)
<1>1. ASSUME NEW R \in SUBSET Functions, R # {}
      PROVE  FirstBatch[R] \subseteq R /\ FirstBatch[R] # {}
  <2> DEFINE upTo(f) == {g \in R : g <= f}
             fits(f) == /\ Cardinality(upTo(f)) <= MaxFunctions /\ Size(upTo(f)) <= TargetTokens
                        /\ \A g \in upTo(f) \ {f} : Estimate(g) < TargetTokens
             full == {f \in R : fits(f) \/ f = Min(R)}
  <2>1. FirstBatch[R] = upTo(Max(full))
    BY DEF FirstBatch
  <2>2. Min(R) \in full
    BY <1>1, Extremes
  <2>3. full \in SUBSET Functions /\ full \subseteq R /\ full # {}
    BY <2>2
  <2> HIDE DEF full
  <2>4. Max(full) \in R
    BY <2>3, Extremes
  <2>5. Max(full) \in upTo(Max(full))
    <3>1. \A m \in R : m \in upTo(m)
      BY FunctionsType
    <3> HIDE DEF upTo
    <3>2. QED
      BY <2>4, <3>1
  <2>6. QED
    BY <2>1, <2>5
<1>2. QED
  BY <1>1 DEF Takes

\* The batches of some functions are a cut of them.
LEMMA BatchesCut ==
  ASSUME NEW S \in SUBSET Functions
  PROVE  Partition[S] \in Seq(SUBSET Functions) /\ Cuts(Partition[S], S)
BY BatchTaken, CutParts DEF Partition
-----------------------------------------------------------------------------
(* What a project phase waits for *)

\* Project phases are numbered from one on and depend on earlier ones.
LEMMA PhasesType ==
  /\ Len(DependsOn) \in Nat /\ ProjectPhases = 1 .. Len(DependsOn)
  /\ \A p \in ProjectPhases : DependsOn[p] \subseteq 1 .. p - 1 /\ DependsOn[p] \subseteq ProjectPhases
BY PlannerAssumption DEF ProjectPhases

\* What a phase hands on: nothing, what it waits for, or the last it has
Handed(base, none, last, r) == IF r \in none THEN {} ELSE IF last[r] = {} THEN base[r] ELSE last[r]

\* base is what the phases of D wait for.
OnPhases(base, ground, none, last, D) ==
  base = [q \in D |-> ground \cup UNION {Handed(base, none, last, r) : r \in DependsOn[q]}]

\* The recursion over project phases defines something.
LEMMA BaseExists ==
  ASSUME NEW ground, NEW none, NEW last
  PROVE  \E base : OnPhases(base, ground, none, last, ProjectPhases)
<1> DEFINE Never == {n \in Nat : ~\E base : OnPhases(base, ground, none, last, 1 .. n)}
<1>1. ASSUME NEW n \in Nat, n + 1 \in ProjectPhases,
             NEW base, OnPhases(base, ground, none, last, 1 .. n)
      PROVE  \E b : OnPhases(b, ground, none, last, 1 .. n + 1)
  <2> DEFINE b == [q \in 1 .. n + 1 |-> ground \cup UNION {Handed(base, none, last, r) : r \in DependsOn[q]}]
  <2>1. \A q \in 1 .. n : b[q] = base[q]
    <3>1. SUFFICES ASSUME NEW q \in 1 .. n PROVE b[q] = base[q]
      OBVIOUS
    <3>2. q \in 1 .. n + 1
      OBVIOUS
    <3>3. base[q] = ground \cup UNION {Handed(base, none, last, r) : r \in DependsOn[q]}
      BY <1>1 DEF OnPhases
    <3>4. QED
      BY <3>2, <3>3
  <2>2. \A q \in 1 .. n + 1 : q \in ProjectPhases /\ DependsOn[q] \subseteq 1 .. n
    <3>1. SUFFICES ASSUME NEW q \in 1 .. n + 1 PROVE q \in ProjectPhases /\ DependsOn[q] \subseteq 1 .. n
      OBVIOUS
    <3>2. q \in ProjectPhases
      BY <1>1, PhasesType
    <3>3. 1 .. q - 1 \subseteq 1 .. n
      OBVIOUS
    <3>4. QED
      BY <3>2, <3>3, PhasesType
  <2>3. \A q \in 1 .. n + 1 : \A r \in DependsOn[q] : Handed(b, none, last, r) = Handed(base, none, last, r)
    BY <2>1, <2>2 DEF Handed
  <2>4. \A q \in 1 .. n + 1 : {Handed(b, none, last, r) : r \in DependsOn[q]} = {Handed(base, none, last, r) : r \in DependsOn[q]}
    BY <2>3
  <2>5. b = [q \in 1 .. n + 1 |-> ground \cup UNION {Handed(b, none, last, r) : r \in DependsOn[q]}]
    BY <2>4
  <2>6. OnPhases(b, ground, none, last, 1 .. n + 1)
    BY <2>5 DEF OnPhases
  <2>7. QED
    BY <2>6
<1>2. 0 \notin Never
  <2>1. 1 .. 0 = {}
    OBVIOUS
  <2>2. OnPhases([q \in 1 .. 0 |-> {}], ground, none, last, 1 .. 0)
    BY <2>1 DEF OnPhases
  <2>3. QED
    BY <2>2
<1>3. Len(DependsOn) \notin Never
  <2>1. SUFFICES ASSUME Len(DependsOn) \in Never PROVE FALSE
    OBVIOUS
  <2>2. PICK n \in Never : \A k \in Never : n <= k
    BY <2>1, Least
  <2>3. n \in Nat \ {0} /\ n <= Len(DependsOn)
    BY <1>2, <2>1, <2>2
  <2>4. n - 1 \in Nat /\ ~(n <= n - 1) /\ (n - 1) + 1 = n /\ n \in ProjectPhases
    BY <2>3, PhasesType
  <2>5. PICK base : OnPhases(base, ground, none, last, 1 .. n - 1)
    BY <2>2, <2>4
  <2>6. \E b : OnPhases(b, ground, none, last, 1 .. (n - 1) + 1)
    BY <1>1, <2>4, <2>5
  <2>7. QED
    BY <2>2, <2>4, <2>6
<1>4. QED
  BY <1>3, PhasesType

\* The last jobs of a project phase
LastOf(r) == Prior(r, Len(layers[r]) + 1)

\* Base is what its recursion says.
LEMMA BaseDefined ==
  ASSUME NEW p \in ProjectPhases
  PROVE  Base(p) = Ground \cup UNION {IF layers[r] = <<>> THEN {}
                                      ELSE IF LastOf(r) = {} THEN Base(r) ELSE LastOf(r) : r \in DependsOn[p]}
<1> DEFINE none == {r \in ProjectPhases : layers[r] = <<>>}
           last == [r \in ProjectPhases |-> LastOf(r)]
           Given(b, r) == IF layers[r] = <<>> THEN {}
                          ELSE LET l == LastOf(r) IN IF l = {} THEN b[r] ELSE l
           base == CHOOSE b : b = [q \in ProjectPhases |-> Ground \cup UNION {Given(b, r) : r \in DependsOn[q]}]
<1>1. PICK c : OnPhases(c, Ground, none, last, ProjectPhases)
  BY BaseExists
<1>2. \A q \in ProjectPhases : \A r \in DependsOn[q] :
        Given(c, r) = Handed(c, none, last, r)
  BY PhasesType DEF Handed
<1>3. c = [q \in ProjectPhases |-> Ground \cup UNION {Given(c, r) : r \in DependsOn[q]}]
  <2> HIDE DEF Given, none, last
  <2>1. \A q \in ProjectPhases :
          {Given(c, r) : r \in DependsOn[q]} = {Handed(c, none, last, r) : r \in DependsOn[q]}
    BY <1>2
  <2>2. QED
    BY <1>1, <2>1 DEF OnPhases
<1>4. base = [q \in ProjectPhases |-> Ground \cup UNION {Given(base, r) : r \in DependsOn[q]}]
  BY <1>3
<1>5. \A q \in ProjectPhases : Base(q) = base[q]
  BY DEF Base, LastOf
<1> HIDE DEF base
<1>6. Base(p) = Ground \cup UNION {Given(base, r) : r \in DependsOn[p]}
  BY <1>4, <1>5
<1>7. \A r \in DependsOn[p] :
        Given(base, r) = IF layers[r] = <<>> THEN {} ELSE IF LastOf(r) = {} THEN Base(r) ELSE LastOf(r)
  BY <1>5, PhasesType
<1>8. QED
  BY <1>6, <1>7

-----------------------------------------------------------------------------
(* The invariant *)

JobIds == {"context", "spec", "verify", "bug"} \X Nat \X Nat \X Nat

JobRecords ==
  [kind : {"domain_context", "spec_batch", "verify_function", "verify_batch", "bug_validate"},
   artifacts : SUBSET Functions, done : SUBSET Functions, deps : SUBSET JobIds,
   status : {"queued", "running", "retryable", "succeeded"}, ticket : BOOLEAN]

\* What TypeOK leaves open
Typed ==
  /\ TypeOK
  /\ DOMAIN plan = Planned
  /\ DOMAIN jobs \subseteq JobIds /\ jobs \in [DOMAIN jobs -> JobRecords]

\* The layers of every project phase are a cut of its functions.
LayersGood ==
  \A p \in ProjectPhases :
    layers[p] \in Seq(SUBSET Functions) /\ Cuts(layers[p], {f \in Functions : PhaseOf[f] = p})

\* What a job is follows from its id, which names the layer of a specification job.
Fits(id, kind, artifacts) ==
  \/ id = Context /\ kind = "domain_context" /\ artifacts = {}
  \/ /\ id = <<"spec", id[2], id[3], id[4]>> /\ kind = "spec_batch"
     /\ id[2] \in ProjectPhases /\ id[3] \in DOMAIN layers[id[2]] /\ id[4] \in Nat \ {0}
     /\ artifacts # {} /\ artifacts \subseteq layers[id[2]][id[3]]
  \/ /\ id = <<"verify", 0, 0, id[4]>> /\ kind \in {"verify_function", "verify_batch"}
     /\ id[4] \in Nat \ {0} /\ artifacts # {} /\ artifacts \subseteq Functions
  \/ /\ id = <<"bug", 0, 0, id[4]>> /\ kind = "bug_validate"
     /\ id[4] \in Functions /\ artifacts = {id[4]}

JobsFit == \A j \in DOMAIN jobs : Fits(j, jobs[j].kind, jobs[j].artifacts)

\* A specification job that succeeded has written its specifications.
SpecsWritten ==
  \A j \in DOMAIN jobs :
    jobs[j].kind = "spec_batch" /\ jobs[j].status = "succeeded" => jobs[j].artifacts \subseteq specs

SpecJob(j, f) == j \in DOMAIN jobs /\ jobs[j].kind = "spec_batch" /\ f \in jobs[j].artifacts

\* Who specifies f, says the plan, if it is not specified?
SpecsPlanned ==
  \A f \in DOMAIN plan["specification"] : f \in specs \/ SpecJob(plan["specification"][f], f)

\* When verification is planned, the specification plan is there.
PlanWritten ==
  planner = "streaming" \/ phase # "specification" => DOMAIN plan["specification"] = Functions

\* A verification job depends on the jobs that write its specifications.
VerifyAwaits ==
  \A j \in DOMAIN jobs : \A f \in jobs[j].artifacts :
    PhaseOfJob(j) = "verification" => f \in specs \/ \E d \in jobs[j].deps : SpecJob(d, f)

\* The jobs of a layer and the verification jobs are numbered from one on.
Numbered ==
  \A j \in DOMAIN jobs : j[1] \in {"spec", "verify"} =>
    \A b \in 1 .. j[4] : <<j[1], j[2], j[3], b>> \in DOMAIN jobs

-----------------------------------------------------------------------------
(* The plans *)

\* The batches of verification are a cut of what is not verified.
LEMMA VerifyCut ==
  VerifyBatches \in Seq(SUBSET Functions) /\ Cuts(VerifyBatches, Functions \ results)
<1> DEFINE batches == Partition[Functions \ results]
           large == {b \in DOMAIN batches : Cardinality(batches[b]) >= 3}
           small == UNION {batches[b] : b \in DOMAIN batches \ large}
           n == Cardinality(small)
           m == Cardinality(large)
           ones == [i \in 1 .. n |-> {Nth(small, i)}]
           lots == [i \in 1 .. m |-> batches[Nth(large, i)]]
           all == ones \o lots
<1>1. batches \in Seq(SUBSET Functions) /\ Cuts(batches, Functions \ results)
  BY BatchesCut
<1>2. large \in SUBSET (1 .. Len(batches)) /\ Len(batches) \in Nat /\ DOMAIN batches = 1 .. Len(batches)
  BY <1>1
<1>5. VerifyBatches = all
  BY DEF VerifyBatches
<1> HIDE DEF batches
<1>3. /\ small \subseteq Functions \ results
      /\ \A f \in small : \E b \in DOMAIN batches \ large : f \in batches[b]
      /\ \A f \in Functions \ results : f \in small \/ \E b \in large : f \in batches[b]
  BY <1>1 DEF Cuts
<1>4. /\ \A b \in large : batches[b] \subseteq Functions \ results /\ batches[b] # {}
      /\ \A b, c \in large : b # c => batches[b] \cap batches[c] = {}
      /\ \A b \in large : batches[b] \cap small = {}
  BY <1>1, <1>3 DEF Cuts
<1>6. small \in SUBSET (1 .. Cardinality(Functions)) /\ Cardinality(Functions) \in Nat
  <2> HIDE DEF small
  <2>1. QED
    BY <1>3, FunctionsType
<1> HIDE DEF batches, large, small
<1>7. /\ n \in Nat
      /\ \A i \in 1 .. n : Nth(small, i) \in small
      /\ \A i, k \in 1 .. n : i # k => Nth(small, i) # Nth(small, k)
      /\ \A f \in small : \E i \in 1 .. n : Nth(small, i) = f
  BY <1>6, NthCounts
<1>8. /\ m \in Nat
      /\ \A i \in 1 .. m : Nth(large, i) \in large
      /\ \A i, k \in 1 .. m : i # k => Nth(large, i) # Nth(large, k)
      /\ \A b \in large : \E i \in 1 .. m : Nth(large, i) = b
  BY <1>2, NthCounts
<1> HIDE DEF n, m
<1>9. ones \in Seq(SUBSET Functions) /\ Len(ones) = n
  BY <1>3, <1>7
<1>10. lots \in Seq(SUBSET Functions) /\ Len(lots) = m
  <2>1. \A i \in 1 .. m : batches[Nth(large, i)] \in SUBSET Functions
    BY <1>4, <1>8
  <2>2. QED
    BY <1>8, <2>1
<1>11. /\ all \in Seq(SUBSET Functions) /\ DOMAIN all = 1 .. n + m
       /\ \A i \in 1 .. n : all[i] = {Nth(small, i)}
       /\ \A i \in 1 .. m : all[n + i] = batches[Nth(large, i)]
  <2>1. /\ all \in Seq(SUBSET Functions) /\ DOMAIN all = 1 .. Len(ones) + Len(lots)
        /\ \A i \in 1 .. Len(ones) : all[i] = ones[i]
        /\ \A i \in 1 .. Len(lots) : all[Len(ones) + i] = lots[i]
    <3> HIDE DEF ones, lots
    <3> DEFINE T == SUBSET Functions
    <3>1. ones \in Seq(T) /\ lots \in Seq(T)
      BY <1>9, <1>10
    <3> HIDE DEF T
    <3>2. /\ ones \o lots \in Seq(T) /\ DOMAIN (ones \o lots) = 1 .. Len(ones) + Len(lots)
          /\ \A i \in 1 .. Len(ones) : (ones \o lots)[i] = ones[i]
          /\ \A i \in 1 .. Len(lots) : (ones \o lots)[Len(ones) + i] = lots[i]
      BY <3>1, Concatenated
    <3>3. QED
      BY <3>2 DEF T
  <2>2. \A i \in 1 .. n : ones[i] = {Nth(small, i)}
    OBVIOUS
  <2>3. \A i \in 1 .. m : lots[i] = batches[Nth(large, i)]
    OBVIOUS
  <2> HIDE DEF all, ones, lots
  <2>4. QED
    BY <1>9, <1>10, <2>1, <2>2, <2>3
<1> HIDE DEF all, ones, lots
<1>12. \A i \in DOMAIN all :
         \/ i \in 1 .. n
         \/ i - n \in 1 .. m /\ all[i] = batches[Nth(large, i - n)]
  <2>1. SUFFICES ASSUME NEW i \in 1 .. n + m, i \notin 1 .. n
                 PROVE  i - n \in 1 .. m /\ all[i] = batches[Nth(large, i - n)]
    BY <1>11
  <2>2. i - n \in 1 .. m /\ n + (i - n) = i
    BY <1>7, <1>8, <2>1
  <2>3. QED
    BY <1>11, <2>2
<1>13. ASSUME NEW i \in DOMAIN all PROVE all[i] \subseteq Functions \ results /\ all[i] # {}
  <2>1. CASE i \in 1 .. n
    BY <1>3, <1>7, <1>11, <2>1
  <2>2. CASE i \notin 1 .. n
    <3>1. i - n \in 1 .. m /\ all[i] = batches[Nth(large, i - n)]
      BY <1>12, <2>2
    <3>2. Nth(large, i - n) \in large
      BY <1>8, <3>1
    <3>3. QED
      BY <1>4, <3>1, <3>2
  <2>3. QED
    BY <2>1, <2>2
<1>14. ASSUME NEW i \in DOMAIN all, NEW k \in DOMAIN all, i # k PROVE all[i] \cap all[k] = {}
  <2>1. CASE i \in 1 .. n /\ k \in 1 .. n
    BY <1>7, <1>11, <1>14, <2>1
  <2>2. CASE i \in 1 .. n /\ k \notin 1 .. n
    <3>1. k - n \in 1 .. m /\ all[k] = batches[Nth(large, k - n)]
      BY <1>12, <2>2
    <3>2. Nth(large, k - n) \in large
      BY <1>8, <3>1
    <3>3. all[i] = {Nth(small, i)} /\ Nth(small, i) \in small
      BY <1>7, <1>11, <2>2
    <3>4. QED
      BY <1>4, <3>1, <3>2, <3>3
  <2>3. CASE i \notin 1 .. n /\ k \in 1 .. n
    <3>1. i - n \in 1 .. m /\ all[i] = batches[Nth(large, i - n)]
      BY <1>12, <2>3
    <3>2. Nth(large, i - n) \in large
      BY <1>8, <3>1
    <3>3. all[k] = {Nth(small, k)} /\ Nth(small, k) \in small
      BY <1>7, <1>11, <2>3
    <3>4. QED
      BY <1>4, <3>1, <3>2, <3>3
  <2>4. CASE i \notin 1 .. n /\ k \notin 1 .. n
    <3>1. /\ i - n \in 1 .. m /\ k - n \in 1 .. m /\ i - n # k - n
          /\ all[i] = batches[Nth(large, i - n)] /\ all[k] = batches[Nth(large, k - n)]
      BY <1>7, <1>11, <1>12, <1>14, <2>4
    <3>2. QED
      BY <1>4, <1>8, <3>1
  <2>5. QED
    BY <2>1, <2>2, <2>3, <2>4
<1>15. ASSUME NEW f \in Functions \ results PROVE \E i \in DOMAIN all : f \in all[i]
  <2>1. CASE f \in small
    <3>1. PICK i \in 1 .. n : Nth(small, i) = f
      BY <1>7, <2>1
    <3>2. i \in DOMAIN all
      BY <1>7, <1>8, <1>11
    <3>3. QED
      BY <1>11, <3>1, <3>2
  <2>2. CASE f \notin small
    <3>1. PICK b \in large : f \in batches[b]
      BY <1>3, <2>2
    <3>2. PICK i \in 1 .. m : Nth(large, i) = b
      BY <1>8
    <3>3. n + i \in DOMAIN all
      BY <1>7, <1>8, <1>11
    <3>4. QED
      BY <1>11, <3>1, <3>2, <3>3
  <2>3. QED
    BY <2>1, <2>2
<1>16. Cuts(all, Functions \ results)
  BY <1>13, <1>14, <1>15 DEF Cuts
<1>17. QED
  BY <1>5, <1>11, <1>16
\* What is wanted at an id fits the id, and depends on jobs that are there and on what is
\* made before it.
GoodPlan(wanted) ==
  /\ \A id \in DOMAIN wanted :
       /\ wanted[id] = Wanted(id, wanted[id].kind, wanted[id].artifacts, wanted[id].deps)
       /\ id \in JobIds /\ Fits(id, wanted[id].kind, wanted[id].artifacts)
       /\ wanted[id].artifacts \subseteq Functions
       /\ wanted[id].deps \subseteq DOMAIN jobs \cup {wanted[k].id : k \in Before(wanted, id)}
  /\ \A i, k \in DOMAIN wanted : i # k => wanted[i].artifacts \cap wanted[k].artifacts = {}

\* A job with the kind and the artifacts is there, or the id is the plan's.
LEMMA IdOfCases ==
  ASSUME NEW kind, NEW artifacts, NEW id
  PROVE  \/ Existing(kind, artifacts) = {} /\ IdOf(kind, artifacts, id) = id
         \/ IdOf(kind, artifacts, id) \in Existing(kind, artifacts)
BY DEF IdOf

\* The batches of a layer are a cut of what is not specified of it.
LEMMA LayerBatches ==
  ASSUME LayersGood, NEW p \in ProjectPhases, NEW n \in DOMAIN layers[p]
  PROVE  /\ Batches(p, n) \in Seq(SUBSET Functions)
         /\ Cuts(Batches(p, n), layers[p][n] \ specs)
         /\ layers[p][n] \subseteq Functions
         /\ n \in Nat \ {0} /\ \A b \in DOMAIN Batches(p, n) : b \in Nat \ {0}
<1>1. layers[p] \in Seq(SUBSET Functions) /\ layers[p][n] \in SUBSET Functions
  <2> DEFINE s == layers[p]
             T == SUBSET Functions
  <2>1. s \in Seq(T) /\ n \in DOMAIN s
    BY DEF LayersGood
  <2> HIDE DEF s, T
  <2>2. s[n] \in T
    BY <2>1
  <2>3. QED
    BY <2>1, <2>2 DEF s, T
<1>2. n \in Nat \ {0}
  BY <1>1
<1>3. layers[p][n] \ specs \in SUBSET Functions
  BY <1>1
<1>4. Batches(p, n) \in Seq(SUBSET Functions) /\ Cuts(Batches(p, n), layers[p][n] \ specs)
  BY <1>3, BatchesCut DEF Batches
<1>5. \A b \in DOMAIN Batches(p, n) : b \in Nat \ {0}
  BY <1>4
<1>6. QED
  BY <1>1, <1>2, <1>4, <1>5

\* An id of the specification plan
SpecId(p, n, b) == <<"spec", p, n, b>>

\* What the specification plan wants at its ids
LEMMA SpecPlan ==
  /\ DOMAIN WantedSpecs = Ground \cup SpecIds
  /\ Context \in Ground => WantedSpecs[Context] = Wanted(Context, "domain_context", {}, {})
  /\ \A id \in SpecIds : \E p \in ProjectPhases : \E n \in DOMAIN layers[p] :
       \E b \in DOMAIN Batches(p, n) : id = SpecId(p, n, b)
  /\ \A p \in ProjectPhases : \A n \in DOMAIN layers[p] : \A b \in DOMAIN Batches(p, n) :
       /\ SpecId(p, n, b) \in SpecIds
       /\ WantedSpecs[SpecId(p, n, b)] =
            Wanted(SpecId(p, n, b), "spec_batch", Batches(p, n)[b], Base(p) \cup Prior(p, n))
<1> DEFINE at(id) == IF id = Context THEN Wanted(id, "domain_context", {}, {})
                     ELSE Wanted(id, "spec_batch", Batches(id[2], id[3])[id[4]], Base(id[2]) \cup Prior(id[2], id[3]))
<1>1. WantedSpecs = [id \in Ground \cup SpecIds |-> at(id)]
  BY DEF WantedSpecs
<1>2. \A id \in SpecIds : \E p \in ProjectPhases : \E n \in DOMAIN layers[p] :
        \E b \in DOMAIN Batches(p, n) : id = SpecId(p, n, b)
  BY DEF SpecIds, SpecId
<1>3. ASSUME NEW p \in ProjectPhases, NEW n \in DOMAIN layers[p], NEW b \in DOMAIN Batches(p, n)
      PROVE  /\ SpecId(p, n, b) \in SpecIds
             /\ WantedSpecs[SpecId(p, n, b)] =
                  Wanted(SpecId(p, n, b), "spec_batch", Batches(p, n)[b], Base(p) \cup Prior(p, n))
  <2>1. SpecId(p, n, b) \in SpecIds
    BY DEF SpecIds, SpecId
  <2> DEFINE id == SpecId(p, n, b)
  <2>2. id # Context /\ id[2] = p /\ id[3] = n /\ id[4] = b
    BY DEF SpecId, Context
  <2> HIDE DEF id
  <2>3. at(id) = Wanted(id, "spec_batch", Batches(p, n)[b], Base(p) \cup Prior(p, n))
    BY <2>2
  <2>4. WantedSpecs[id] = at(id)
    BY <1>1, <2>1 DEF id
  <2>5. QED
    BY <2>1, <2>3, <2>4 DEF id
<1>4. Context \in Ground => WantedSpecs[Context] = Wanted(Context, "domain_context", {}, {})
  BY <1>1
<1>5. QED
  BY <1>1, <1>2, <1>3, <1>4

\* The ids of the plan are in the order of project phases, layers and batches.
LEMMA SpecOrder ==
  /\ \A p, n, b, q, m, c :
       Earlier(SpecId(p, n, b), SpecId(q, m, c)) <=> \/ p < q
                                                     \/ p = q /\ n < m
                                                     \/ p = q /\ n = m /\ b < c
  /\ \A p \in Nat \ {0} : \A n, b : Earlier(Context, SpecId(p, n, b))
BY DEF Earlier, SpecId, Context

\* What the last layer before n with jobs has, is in the plan at an earlier layer.
LEMMA PriorPlanned ==
  ASSUME LayersGood, NEW p \in ProjectPhases, NEW n \in 1 .. Len(layers[p]) + 1, NEW d \in Prior(p, n)
  PROVE  \E i \in DOMAIN layers[p] : \E b \in DOMAIN Batches(p, i) :
           i < n /\ d = WantedSpecs[SpecId(p, i, b)].id
<1> DEFINE with == {i \in 1 .. n - 1 : SpecJobs(p, i) # {}}
           last == CHOOSE i \in with : \A k \in with : k <= i
<1>1. layers[p] \in Seq(SUBSET Functions)
  BY DEF LayersGood
<1>2. n \in Nat /\ with # {} /\ Prior(p, n) = SpecJobs(p, last)
  BY <1>1 DEF Prior
<1>3. with \in SUBSET Nat /\ \A k \in with : k <= n
  BY <1>2
<1>4. \E i \in with : \A k \in with : k <= i
  <2> HIDE DEF with
  <2>1. \E i \in with : \A k \in with : i >= k
    BY <1>2, <1>3, Greatest
  <2>2. QED
    BY <1>3, <2>1
<1>5. last \in with
  <2> HIDE DEF with
  <2>1. QED
    BY <1>4
<1> HIDE DEF last
<1>6. last \in 1 .. n - 1
  BY <1>5
<1>7. last \in DOMAIN layers[p] /\ last < n
  BY <1>1, <1>6
<1>8. PICK b \in DOMAIN Batches(p, last) : d = IdOf("spec_batch", Batches(p, last)[b], SpecId(p, last, b))
  BY <1>2 DEF SpecJobs, SpecId
<1>9. WantedSpecs[SpecId(p, last, b)].id = IdOf("spec_batch", Batches(p, last)[b], SpecId(p, last, b))
  <2>1. WantedSpecs[SpecId(p, last, b)] =
          Wanted(SpecId(p, last, b), "spec_batch", Batches(p, last)[b], Base(p) \cup Prior(p, last))
    BY <1>7, <1>8, SpecPlan
  <2>2. QED
    BY <2>1 DEF Wanted
<1>10. QED
  BY <1>7, <1>8, <1>9

\* What a project phase waits for is the ground or is in the plan at an earlier phase.
LEMMA BasePlanned ==
  ASSUME LayersGood, NEW p \in ProjectPhases, NEW d \in Base(p)
  PROVE  d \in Ground \/ \E r \in ProjectPhases : \E i \in DOMAIN layers[r] : \E b \in DOMAIN Batches(r, i) :
                             r < p /\ d = WantedSpecs[SpecId(r, i, b)].id
<1> DEFINE Found(q, e) == \E r \in ProjectPhases : \E i \in DOMAIN layers[r] : \E b \in DOMAIN Batches(r, i) :
                               r < q /\ e = WantedSpecs[SpecId(r, i, b)].id
           Bad == {q \in ProjectPhases : \E e \in Base(q) : e \notin Ground /\ ~Found(q, e)}
<1>1. SUFFICES ASSUME Bad # {} PROVE FALSE
  OBVIOUS
<1>2. ProjectPhases \subseteq Nat
  BY PhasesType
<1>3. PICK q \in Bad : \A k \in Bad : q <= k
  <2>1. Bad \in SUBSET Nat
    BY <1>2
  <2> HIDE DEF Bad
  <2>2. QED
    BY <1>1, <2>1, Least
<1>4. PICK e \in Base(q) : e \notin Ground /\ ~Found(q, e)
  OBVIOUS
<1>5. PICK r \in DependsOn[q] : /\ layers[r] # <<>>
                               /\ \/ LastOf(r) = {} /\ e \in Base(r)
                                  \/ e \in LastOf(r)
  BY <1>4, BaseDefined
<1>6. r \in ProjectPhases /\ r < q /\ q \in Nat /\ r \in Nat
  <2>1. r \in 1 .. q - 1 /\ r \in ProjectPhases
    BY PhasesType
  <2>2. QED
    BY <1>2, <2>1
<1>7. CASE e \in LastOf(r)
  <2>1. layers[r] \in Seq(SUBSET Functions)
    BY <1>6 DEF LayersGood
  <2>2. Len(layers[r]) + 1 \in 1 .. Len(layers[r]) + 1
    BY <2>1
  <2>3. \E i \in DOMAIN layers[r] : \E b \in DOMAIN Batches(r, i) : e = WantedSpecs[SpecId(r, i, b)].id
    BY <1>6, <1>7, <2>2, PriorPlanned DEF LastOf
  <2>4. QED
    BY <1>4, <1>6, <2>3
<1>8. CASE e \in Base(r)
  <2>1. r \notin Bad
    BY <1>3, <1>6
  <2>2. Found(r, e)
    BY <1>4, <1>6, <1>8, <2>1
  <2>3. PICK s \in ProjectPhases : \E i \in DOMAIN layers[s] : \E b \in DOMAIN Batches(s, i) :
               s < r /\ e = WantedSpecs[SpecId(s, i, b)].id
    BY <2>2
  <2>4. s < q
    BY <1>2, <1>6, <2>3
  <2>5. QED
    BY <1>4, <2>3, <2>4
<1>9. QED
  BY <1>5, <1>7, <1>8
\* The only job with the kind of the domain context is the one with its id.
LEMMA ContextId ==
  ASSUME JobsFit
  PROVE  IdOf("domain_context", {}, Context) = Context
<1>1. \A j \in Existing("domain_context", {}) : j = Context
  BY DEF Existing, JobsFit, Fits
<1>2. QED
  BY <1>1, IdOfCases

\* The specification plan is a good one.
LEMMA SpecsGood ==
  ASSUME Typed, LayersGood, JobsFit
  PROVE  GoodPlan(WantedSpecs)
<1> DEFINE wanted == WantedSpecs
           Kept(id) == /\ wanted[id] = Wanted(id, wanted[id].kind, wanted[id].artifacts, wanted[id].deps)
                       /\ id \in JobIds /\ Fits(id, wanted[id].kind, wanted[id].artifacts)
                       /\ wanted[id].artifacts \subseteq Functions
                       /\ wanted[id].deps \subseteq DOMAIN jobs \cup {wanted[k].id : k \in Before(wanted, id)}
<1>1. DOMAIN wanted = Ground \cup SpecIds
  BY SpecPlan
<1>2. ASSUME NEW p \in ProjectPhases, NEW n \in DOMAIN layers[p], NEW b \in DOMAIN Batches(p, n)
      PROVE  Kept(SpecId(p, n, b)) /\ wanted[SpecId(p, n, b)].artifacts = Batches(p, n)[b]
  <2> DEFINE id == SpecId(p, n, b)
             deps == Base(p) \cup Prior(p, n)
  <2>1. wanted[id] = Wanted(id, "spec_batch", Batches(p, n)[b], deps)
    BY SpecPlan
  <2>2. /\ wanted[id].kind = "spec_batch" /\ wanted[id].artifacts = Batches(p, n)[b]
        /\ wanted[id].deps = deps
    BY <2>1 DEF Wanted
  <2>3. /\ Batches(p, n)[b] # {} /\ Batches(p, n)[b] \subseteq layers[p][n]
        /\ layers[p][n] \subseteq Functions /\ n \in Nat \ {0} /\ b \in Nat \ {0} /\ p \in Nat \ {0}
    BY LayerBatches, PhasesType DEF Cuts
  <2>4. id \in JobIds /\ Fits(id, "spec_batch", Batches(p, n)[b])
    BY <2>3 DEF JobIds, Fits, SpecId
  <2>5. ASSUME NEW d \in deps PROVE d \in {wanted[k].id : k \in Before(wanted, id)}
    <3>1. CASE d \in Ground
      <4>1. d = Context /\ Context \in Ground
        BY <3>1 DEF Ground
      <4>2. wanted[Context].id = Context
        BY <4>1, SpecPlan, ContextId DEF Wanted
      <4>3. Context \in Before(wanted, id)
        BY <1>1, <2>3, <4>1, SpecOrder DEF Before
      <4>4. QED
        BY <4>1, <4>2, <4>3
    <3>2. ASSUME NEW r \in ProjectPhases, NEW i \in DOMAIN layers[r], NEW c \in DOMAIN Batches(r, i),
                 d = wanted[SpecId(r, i, c)].id,
                 \/ r < p
                 \/ r = p /\ i < n
          PROVE  d \in {wanted[k].id : k \in Before(wanted, id)}
      <4>1. SpecId(r, i, c) \in DOMAIN wanted
        BY <1>1, SpecPlan
      <4>2. Earlier(SpecId(r, i, c), id)
        BY <3>2, SpecOrder
      <4>3. QED
        BY <3>2, <4>1, <4>2 DEF Before
    <3>3. CASE d \in Base(p) /\ d \notin Ground
      BY <3>2, <3>3, BasePlanned
    <3>4. CASE d \in Prior(p, n)
      <4>1. n \in 1 .. Len(layers[p]) + 1
        <5>1. layers[p] \in Seq(SUBSET Functions)
          BY DEF LayersGood
        <5>2. QED
          BY <5>1
      <4>2. QED
        BY <3>2, <3>4, <4>1, PriorPlanned
    <3>5. QED
      BY <3>1, <3>3, <3>4
  <2> HIDE DEF id, deps
  <2>6. Kept(id)
    <3>1. wanted[id] = Wanted(id, wanted[id].kind, wanted[id].artifacts, wanted[id].deps)
      BY <2>1, <2>2
    <3>2. wanted[id].deps \subseteq DOMAIN jobs \cup {wanted[k].id : k \in Before(wanted, id)}
      BY <2>2, <2>5
    <3> HIDE DEF wanted
    <3>3. QED
      BY <2>2, <2>3, <2>4, <3>1, <3>2
  <2>7. QED
    BY <2>2, <2>6 DEF id
<1>3. ASSUME Context \in Ground PROVE Kept(Context) /\ wanted[Context].artifacts = {}
  <2>1. wanted[Context] = Wanted(Context, "domain_context", {}, {})
    BY <1>3, SpecPlan
  <2>2. wanted[Context].kind = "domain_context" /\ wanted[Context].artifacts = {} /\ wanted[Context].deps = {}
    BY <2>1 DEF Wanted
  <2>3. Context \in JobIds /\ Fits(Context, "domain_context", {})
    BY DEF JobIds, Fits, Context
  <2> HIDE DEF wanted
  <2>4. QED
    BY <2>1, <2>2, <2>3
<1>4. \A id \in Ground : id = Context
  BY DEF Ground
<1>5. \A id \in DOMAIN wanted : Kept(id)
  <2> HIDE DEF wanted, Kept
  <2>1. QED
    BY <1>1, <1>2, <1>3, <1>4, SpecPlan
<1>6. ASSUME NEW i \in DOMAIN wanted, NEW k \in DOMAIN wanted, i # k
      PROVE  wanted[i].artifacts \cap wanted[k].artifacts = {}
  <2>1. CASE i \in Ground \/ k \in Ground
    BY <1>3, <1>4, <2>1
  <2>2. CASE i \in SpecIds /\ k \in SpecIds
    <3>1. PICK p \in ProjectPhases : \E n \in DOMAIN layers[p] : \E b \in DOMAIN Batches(p, n) : i = SpecId(p, n, b)
      BY <2>2, SpecPlan
    <3>2. PICK n \in DOMAIN layers[p] : \E b \in DOMAIN Batches(p, n) : i = SpecId(p, n, b)
      BY <3>1
    <3>3. PICK b \in DOMAIN Batches(p, n) : i = SpecId(p, n, b)
      BY <3>2
    <3>4. PICK q \in ProjectPhases : \E m \in DOMAIN layers[q] : \E c \in DOMAIN Batches(q, m) : k = SpecId(q, m, c)
      BY <2>2, SpecPlan
    <3>5. PICK m \in DOMAIN layers[q] : \E c \in DOMAIN Batches(q, m) : k = SpecId(q, m, c)
      BY <3>4
    <3>6. PICK c \in DOMAIN Batches(q, m) : k = SpecId(q, m, c)
      BY <3>5
    <3>7. wanted[i].artifacts = Batches(p, n)[b] /\ wanted[k].artifacts = Batches(q, m)[c]
      BY <1>2, <3>3, <3>6
    <3>8. Batches(p, n)[b] \subseteq layers[p][n] /\ Batches(q, m)[c] \subseteq layers[q][m]
      BY LayerBatches DEF Cuts
    <3>9. CASE p = q /\ n = m
      <4>1. b # c
        BY <1>6, <3>3, <3>6, <3>9
      <4>2. Batches(p, n)[b] \cap Batches(p, n)[c] = {}
        BY <3>9, <4>1, LayerBatches DEF Cuts
      <4>3. QED
        BY <3>7, <3>9, <4>2
    <3>10. CASE p = q /\ n # m
      <4>1. layers[p][n] \cap layers[p][m] = {}
        BY <3>10 DEF LayersGood, Cuts
      <4>2. QED
        BY <3>7, <3>8, <3>10, <4>1
    <3>11. CASE p # q
      <4>1. \A f \in layers[p][n] : PhaseOf[f] = p
        BY DEF LayersGood, Cuts
      <4>2. \A f \in layers[q][m] : PhaseOf[f] = q
        BY DEF LayersGood, Cuts
      <4>3. QED
        BY <3>7, <3>8, <3>11, <4>1, <4>2
    <3>12. QED
      BY <3>9, <3>10, <3>11
  <2>3. QED
    BY <1>1, <2>1, <2>2
<1>7. QED
  BY <1>5, <1>6 DEF GoodPlan
\* The verification plan is a good one.
LEMMA VerificationsGood ==
  ASSUME Typed
  PROVE  GoodPlan(WantedVerifications)
<1> DEFINE wanted == WantedVerifications
           Id(n) == <<"verify", 0, 0, n>>
           kind(n) == IF Cardinality(VerifyBatches[n]) = 1 THEN "verify_function" ELSE "verify_batch"
<1>1. /\ DOMAIN wanted = {Id(n) : n \in DOMAIN VerifyBatches}
      /\ \A n \in DOMAIN VerifyBatches :
           wanted[Id(n)] = Wanted(Id(n), kind(n), VerifyBatches[n], SpecsOf(VerifyBatches[n]))
  BY DEF WantedVerifications
<1>2. \A S : SpecsOf(S) \subseteq DOMAIN jobs
  BY DEF Typed, TypeOK, Planned, SpecsOf
<1>3. ASSUME NEW n \in DOMAIN VerifyBatches
      PROVE  /\ wanted[Id(n)] = Wanted(Id(n), wanted[Id(n)].kind, wanted[Id(n)].artifacts, wanted[Id(n)].deps)
             /\ Id(n) \in JobIds /\ Fits(Id(n), wanted[Id(n)].kind, wanted[Id(n)].artifacts)
             /\ wanted[Id(n)].artifacts \subseteq Functions
             /\ wanted[Id(n)].deps \subseteq DOMAIN jobs
             /\ wanted[Id(n)].artifacts = VerifyBatches[n]
  <2>1. /\ wanted[Id(n)].kind = kind(n) /\ wanted[Id(n)].artifacts = VerifyBatches[n]
        /\ wanted[Id(n)].deps = SpecsOf(VerifyBatches[n])
    <3> HIDE DEF wanted, Id, kind
    <3>1. wanted[Id(n)] = Wanted(Id(n), kind(n), VerifyBatches[n], SpecsOf(VerifyBatches[n]))
      BY <1>1
    <3>2. QED
      BY <3>1 DEF Wanted
  <2>2. VerifyBatches[n] # {} /\ VerifyBatches[n] \subseteq Functions
    BY VerifyCut DEF Cuts
  <2>3. n \in Nat \ {0}
    BY VerifyCut
  <2>4. Id(n) \in JobIds /\ Fits(Id(n), kind(n), VerifyBatches[n])
    BY <2>2, <2>3 DEF JobIds, Fits
  <2> HIDE DEF wanted, Id, kind
  <2>5. QED
    BY <1>1, <1>2, <2>1, <2>2, <2>4
<1>4. ASSUME NEW i \in DOMAIN wanted, NEW k \in DOMAIN wanted, i # k
      PROVE  wanted[i].artifacts \cap wanted[k].artifacts = {}
  <2>1. PICK n \in DOMAIN VerifyBatches : i = Id(n)
    BY <1>1
  <2>2. PICK m \in DOMAIN VerifyBatches : k = Id(m)
    BY <1>1
  <2>3. n # m
    BY <1>4, <2>1, <2>2
  <2> HIDE DEF wanted
  <2>4. QED
    BY <1>3, <2>1, <2>2, <2>3, VerifyCut DEF Cuts
<1>5. \A id \in DOMAIN wanted :
        /\ wanted[id] = Wanted(id, wanted[id].kind, wanted[id].artifacts, wanted[id].deps)
        /\ id \in JobIds /\ Fits(id, wanted[id].kind, wanted[id].artifacts)
        /\ wanted[id].artifacts \subseteq Functions
        /\ wanted[id].deps \subseteq DOMAIN jobs
  <2> HIDE DEF wanted, Id
  <2>1. QED
    BY <1>1, <1>3
<1>6. QED
  BY <1>4, <1>5 DEF GoodPlan

\* The plan of bug validation is a good one.
LEMMA BugsGood ==
  ASSUME Typed
  PROVE  GoodPlan(WantedBugs)
<1> DEFINE wanted == WantedBugs
           Id(f) == <<"bug", 0, 0, f>>
<1>1. /\ DOMAIN wanted = {Id(f) : f \in Candidates}
      /\ \A f \in Candidates : wanted[Id(f)] = Wanted(Id(f), "bug_validate", {f}, {})
  BY DEF WantedBugs
<1>2. ASSUME NEW f \in Candidates
      PROVE  /\ wanted[Id(f)] = Wanted(Id(f), wanted[Id(f)].kind, wanted[Id(f)].artifacts, wanted[Id(f)].deps)
             /\ Id(f) \in JobIds /\ Fits(Id(f), wanted[Id(f)].kind, wanted[Id(f)].artifacts)
             /\ wanted[Id(f)].artifacts \subseteq Functions
             /\ wanted[Id(f)].deps \subseteq DOMAIN jobs
             /\ wanted[Id(f)].artifacts = {f}
  <2>1. /\ wanted[Id(f)].kind = "bug_validate" /\ wanted[Id(f)].artifacts = {f}
        /\ wanted[Id(f)].deps = {}
    <3> HIDE DEF wanted, Id
    <3>1. wanted[Id(f)] = Wanted(Id(f), "bug_validate", {f}, {})
      BY <1>1
    <3>2. QED
      BY <3>1 DEF Wanted
  <2>2. f \in Functions /\ f \in Nat
    BY FunctionsType DEF Candidates, Typed, TypeOK
  <2>3. Id(f) \in JobIds /\ Fits(Id(f), "bug_validate", {f})
    BY <2>2 DEF JobIds, Fits
  <2> HIDE DEF wanted, Id
  <2>4. QED
    BY <1>1, <2>1, <2>2, <2>3
<1>3. ASSUME NEW i \in DOMAIN wanted, NEW k \in DOMAIN wanted, i # k
      PROVE  wanted[i].artifacts \cap wanted[k].artifacts = {}
  <2>1. PICK f \in Candidates : i = Id(f)
    BY <1>1
  <2>2. PICK g \in Candidates : k = Id(g)
    BY <1>1
  <2> HIDE DEF wanted
  <2>3. QED
    BY <1>2, <1>3, <2>1, <2>2
<1>4. \A id \in DOMAIN wanted :
        /\ wanted[id] = Wanted(id, wanted[id].kind, wanted[id].artifacts, wanted[id].deps)
        /\ id \in JobIds /\ Fits(id, wanted[id].kind, wanted[id].artifacts)
        /\ wanted[id].artifacts \subseteq Functions
        /\ wanted[id].deps \subseteq DOMAIN jobs
  <2> HIDE DEF wanted, Id
  <2>1. QED
    BY <1>1, <1>2
<1>5. QED
  BY <1>3, <1>4 DEF GoodPlan

\* Whatever is planned, the plan is a good one.
LEMMA WantingGood ==
  ASSUME Typed, LayersGood, JobsFit
  PROVE  GoodPlan(Wanting)
BY SpecsGood, VerificationsGood, BugsGood DEF Wanting

\* Of three jobs in order the first is before the last.
LEMMA EarlierTransitive ==
  ASSUME NEW i \in JobIds, NEW k \in JobIds, NEW l \in JobIds, Earlier(i, k), Earlier(k, l)
  PROVE  Earlier(i, l)
BY DEF JobIds, Earlier

\* With a job, made has the jobs before it.
Closed(wanted, made) ==
  made \subseteq DOMAIN wanted /\ \A i \in made : Before(wanted, i) \subseteq made

\* What is made of a plan is closed.
LEMMA MadeClosed ==
  ASSUME NEW wanted, DOMAIN wanted \subseteq JobIds
  PROVE  /\ Closed(wanted, Accepted(wanted))
         /\ \A k \in Accepted(wanted) : Closed(wanted, Before(wanted, k))
<1>1. Closed(wanted, Accepted(wanted))
  BY EarlierTransitive DEF Closed, Accepted, Conflicts, Before
<1>2. ASSUME NEW k \in Accepted(wanted) PROVE Closed(wanted, Before(wanted, k))
  BY EarlierTransitive DEF Closed, Accepted, Before
<1>3. QED
  BY <1>1, <1>2

\* The jobs that are there stay, and the new ones are what the plan wants at their ids.
LEMMA CreatedJobs ==
  ASSUME NEW wanted, GoodPlan(wanted), NEW made, Closed(wanted, made), jobs' = Created(wanted, made)
  PROVE  /\ DOMAIN jobs \subseteq DOMAIN jobs'
         /\ \A j \in DOMAIN jobs : jobs'[j] = jobs[j]
         /\ \A j \in DOMAIN jobs' \ DOMAIN jobs :
              /\ j \in made /\ wanted[j].id = j
              /\ jobs'[j] = Job(wanted[j].kind, wanted[j].artifacts, wanted[j].deps)
              /\ wanted[j].deps \subseteq DOMAIN jobs'
         /\ \A i \in made : wanted[i].id \in DOMAIN jobs'
         /\ DOMAIN jobs' \subseteq DOMAIN jobs \cup made
<1> DEFINE new == {wanted[i].id : i \in made} \ DOMAIN jobs
<1>1. jobs' = [j \in DOMAIN jobs \cup new |->
                 IF j \in DOMAIN jobs THEN jobs[j] ELSE Job(wanted[j].kind, wanted[j].artifacts, wanted[j].deps)]
  BY DEF Created
<1>2. made \subseteq DOMAIN wanted
  BY DEF Closed
<1>3. ASSUME NEW i \in made, wanted[i].id \notin DOMAIN jobs PROVE wanted[i].id = i
  <2>1. wanted[i] = Wanted(i, wanted[i].kind, wanted[i].artifacts, wanted[i].deps)
    BY <1>2 DEF GoodPlan
  <2>2. wanted[i].id = IdOf(wanted[i].kind, wanted[i].artifacts, i)
    BY <2>1 DEF Wanted
  <2>3. QED
    BY <1>3, <2>2, IdOfCases DEF Existing
<1>4. DOMAIN jobs' = DOMAIN jobs \cup new /\ \A j \in DOMAIN jobs : jobs'[j] = jobs[j]
  BY <1>1
<1>5. \A i \in made : wanted[i].id \in DOMAIN jobs'
  BY <1>4
<1>6. ASSUME NEW j \in DOMAIN jobs' \ DOMAIN jobs
      PROVE  /\ j \in made /\ wanted[j].id = j
             /\ jobs'[j] = Job(wanted[j].kind, wanted[j].artifacts, wanted[j].deps)
             /\ wanted[j].deps \subseteq DOMAIN jobs'
  <2>1. j \in made /\ wanted[j].id = j
    BY <1>3, <1>4, <1>6
  <2>2. jobs'[j] = Job(wanted[j].kind, wanted[j].artifacts, wanted[j].deps)
    BY <1>1, <1>6
  <2>3. wanted[j].deps \subseteq DOMAIN jobs \cup {wanted[k].id : k \in Before(wanted, j)}
    BY <1>2, <2>1 DEF GoodPlan
  <2>4. Before(wanted, j) \subseteq made
    BY <2>1 DEF Closed
  <2> HIDE DEF new
  <2>5. QED
    BY <1>4, <1>5, <2>1, <2>2, <2>3, <2>4
<1>7. QED
  BY <1>4, <1>5, <1>6
-----------------------------------------------------------------------------
(* What the steps on a job do *)

Statuses == {"queued", "running", "retryable", "succeeded"}

\* Every step on a job keeps what it is and whom it waits for; only a verification batch
\* gives members back, which are done.
Moved(j) ==
  /\ DOMAIN jobs' = DOMAIN jobs /\ \A k \in DOMAIN jobs \ {j} : jobs'[k] = jobs[k]
  /\ jobs'[j] \in JobRecords
  /\ jobs'[j].kind = jobs[j].kind /\ jobs'[j].deps = jobs[j].deps
  /\ jobs'[j].artifacts \cup jobs'[j].done = jobs[j].artifacts \cup jobs[j].done
  /\ jobs'[j].artifacts \subseteq jobs[j].artifacts
  /\ jobs'[j].artifacts # {} \/ jobs[j].artifacts = {}
  /\ jobs'[j].artifacts = jobs[j].artifacts \/ jobs[j].kind = "verify_batch"
  /\ jobs'[j].done \subseteq jobs[j].done \cup results'
  /\ jobs[j].status # "succeeded"
  /\ jobs'[j].status = "running" => Dispatchable(j) /\ UNCHANGED specs
  /\ jobs'[j].status = "succeeded" => jobs[j].status = "running"

\* A job that has succeeded has written all its outputs.
Delivered(j) ==
  jobs'[j].status = "succeeded" =>
    /\ jobs[j].kind = "domain_context" => context'
    /\ jobs[j].kind = "spec_batch" => jobs[j].artifacts \subseteq specs'
    /\ PhaseOfJob(j) = "verification" => jobs[j].artifacts \subseteq results'
    /\ jobs[j].kind = "bug_validate" => jobs[j].artifacts \subseteq reports'

\* Artifacts are only added.
Grown ==
  /\ specs \subseteq specs' /\ results \subseteq results' /\ reports \subseteq reports'
  /\ specs' \subseteq Functions /\ results' \subseteq Functions /\ reports' \subseteq Functions
  /\ context' \in BOOLEAN
  /\ context => context'
  /\ UNCHANGED <<calls, layers, outcome>>

Steps(j) == Dispatch(j) \/ DispatchKilled(j) \/ Submit(j) \/ Rejected(j) \/ Retry(j) \/ Lost(j)

\* The phase of a job follows from its kind.
LEMMA PhaseOfKind ==
  ASSUME NEW id, NEW kind, NEW artifacts, Fits(id, kind, artifacts)
  PROVE  /\ PhaseOfJob(id) = "verification" <=> kind \in {"verify_function", "verify_batch"}
         /\ PhaseOfJob(id) = "bug_validation" <=> kind = "bug_validate"
         /\ PhaseOfJob(id) = "specification" <=> kind \in {"domain_context", "spec_batch"}
<1>1. CASE id = Context /\ kind = "domain_context"
  BY <1>1 DEF PhaseOfJob, Context
<1>2. CASE id = <<"spec", id[2], id[3], id[4]>> /\ kind = "spec_batch"
  <2>1. id[1] = "spec"
    BY <1>2
  <2>2. QED
    BY <1>2, <2>1 DEF PhaseOfJob
<1>3. CASE id = <<"verify", 0, 0, id[4]>> /\ kind \in {"verify_function", "verify_batch"}
  <2>1. id[1] = "verify"
    BY <1>3
  <2>2. QED
    BY <1>3, <2>1 DEF PhaseOfJob
<1>4. CASE id = <<"bug", 0, 0, id[4]>> /\ kind = "bug_validate"
  <2>1. id[1] = "bug"
    BY <1>4
  <2>2. QED
    BY <1>4, <2>1 DEF PhaseOfJob
<1>5. QED
  BY <1>1, <1>2, <1>3, <1>4 DEF Fits

\* What SetJob does
LEMMA SetJobFields ==
  ASSUME Typed, NEW j \in DOMAIN jobs, NEW status \in Statuses, NEW ticket \in BOOLEAN,
         SetJob(j, status, ticket)
  PROVE  /\ DOMAIN jobs' = DOMAIN jobs /\ \A k \in DOMAIN jobs \ {j} : jobs'[k] = jobs[k]
         /\ jobs'[j] \in JobRecords
         /\ jobs'[j].kind = jobs[j].kind /\ jobs'[j].deps = jobs[j].deps
         /\ jobs'[j].artifacts = jobs[j].artifacts /\ jobs'[j].done = jobs[j].done
         /\ jobs'[j].status = status
<1>1. jobs[j] \in JobRecords
  BY DEF Typed
<1>2. jobs' = [k \in DOMAIN jobs |-> IF k = j THEN [jobs[j] EXCEPT !.status = status, !.ticket = ticket] ELSE jobs[k]]
  BY <1>1 DEF SetJob, Typed, JobRecords
<1>3. [jobs[j] EXCEPT !.status = status, !.ticket = ticket] \in JobRecords
  BY <1>1 DEF JobRecords, Statuses
<1>4. QED
  BY <1>1, <1>2, <1>3 DEF JobRecords

\* What a Worker writes is added.
LEMMA WrittenGrows ==
  ASSUME Typed, NEW j \in DOMAIN jobs, NEW S \in SUBSET Functions, Written(j, S)
  PROVE  Grown
BY DEF Typed, TypeOK, Written, Grown

\* Every step on a job moves it.
LEMMA StepMoves ==
  ASSUME Typed, JobsFit, NEW j \in DOMAIN jobs, Steps(j)
  PROVE  /\ Moved(j) /\ Delivered(j) /\ Grown
         /\ UNCHANGED <<phase, refused, plan>> /\ planner' \in {planner, "due"} /\ faults' \in 0 .. MaxFaults
<1>1. jobs[j] \in JobRecords /\ jobs[j].artifacts \in SUBSET Functions
  BY DEF Typed, JobRecords
<1>2. faults \in 0 .. MaxFaults /\ MaxFaults \in Nat
  BY PlannerAssumption DEF Typed, TypeOK
<1>3. UNCHANGED Data => Grown
  BY DEF Data, Grown, Typed, TypeOK
<1>4. CASE Dispatch(j)
  <2>1. SetJob(j, "running", TRUE) /\ Dispatchable(j) /\ UNCHANGED <<phase, planner, refused, plan, faults, Data>>
    BY <1>4 DEF Dispatch
  <2>2. Moved(j) /\ Delivered(j)
    BY <1>1, <2>1, SetJobFields DEF Statuses, Moved, Delivered, Dispatchable, Data
  <2>3. QED
    BY <1>2, <1>3, <2>1, <2>2
<1>5. CASE DispatchKilled(j)
  <2>1. /\ SetJob(j, "running", FALSE) /\ Dispatchable(j) /\ Fault /\ planner' = "due"
        /\ UNCHANGED <<phase, refused, plan, Data>>
    BY <1>5 DEF DispatchKilled
  <2>2. Moved(j) /\ Delivered(j)
    BY <1>1, <2>1, SetJobFields DEF Statuses, Moved, Delivered, Dispatchable, Data
  <2>3. faults' \in 0 .. MaxFaults
    BY <1>2, <2>1 DEF Fault
  <2>4. QED
    BY <1>3, <2>1, <2>2, <2>3
<1>6. CASE Submit(j)
  <2>1. /\ SetJob(j, "succeeded", TRUE) /\ Written(j, jobs[j].artifacts) /\ jobs[j].status = "running"
        /\ UNCHANGED <<phase, planner, refused, plan, faults>>
    BY <1>6 DEF Submit
  <2>2. Grown
    BY <1>1, <2>1, WrittenGrows
  <2>3. Moved(j)
    BY <1>1, <2>1, SetJobFields DEF Statuses, Moved
  <2>4. Delivered(j)
    BY <2>1 DEF Delivered, Written
  <2>5. QED
    BY <1>2, <2>1, <2>2, <2>3, <2>4
<1>7. CASE Rejected(j)
  <2>1. PICK S \in (SUBSET jobs[j].artifacts) \ {jobs[j].artifacts} :
          /\ Written(j, S) /\ context' = context
          /\ jobs' = [jobs EXCEPT ![j] = [Shrunk(@, S) EXCEPT !.status = "retryable", !.ticket = FALSE]]
    BY <1>7 DEF Rejected
  <2>2. jobs[j].status = "running" /\ Fault /\ UNCHANGED <<phase, planner, refused, plan>>
    BY <1>7 DEF Rejected
  <2>3. Grown
    <3>1. S \in SUBSET Functions
      BY <1>1, <2>1
    <3>2. QED
      BY <2>1, <3>1, WrittenGrows
  <2> DEFINE new == [Shrunk(jobs[j], S) EXCEPT !.status = "retryable", !.ticket = FALSE]
  <2>4. /\ DOMAIN jobs' = DOMAIN jobs /\ \A k \in DOMAIN jobs \ {j} : jobs'[k] = jobs[k]
        /\ jobs'[j] = new
    BY <2>1 DEF Typed
  <2>5. CASE jobs[j].kind = "verify_batch"
    <3>1. Shrunk(jobs[j], S) = [jobs[j] EXCEPT !.artifacts = @ \ S, !.done = @ \cup S]
      BY <2>5 DEF Shrunk
    <3>2. /\ new \in JobRecords /\ new.kind = jobs[j].kind /\ new.deps = jobs[j].deps
          /\ new.artifacts = jobs[j].artifacts \ S /\ new.done = jobs[j].done \cup S
          /\ new.status = "retryable"
      BY <1>1, <2>1, <3>1 DEF JobRecords
    <3>3. S \subseteq results'
      <4>1. PhaseOfJob(j) = "verification"
        BY <2>5, PhaseOfKind DEF JobsFit
      <4>2. QED
        BY <2>1, <4>1 DEF Written
    <3>4. new.artifacts \cup new.done = jobs[j].artifacts \cup jobs[j].done /\ new.artifacts # {}
      BY <2>1, <3>2
    <3> HIDE DEF new
    <3>5. Moved(j) /\ Delivered(j)
      BY <2>2, <2>4, <2>5, <3>2, <3>3, <3>4 DEF Moved, Delivered
    <3>6. QED
      BY <1>2, <2>2, <2>3, <3>5 DEF Fault
  <2>6. CASE jobs[j].kind # "verify_batch"
    <3>1. Shrunk(jobs[j], S) = jobs[j]
      BY <2>6 DEF Shrunk
    <3>2. /\ new \in JobRecords /\ new.kind = jobs[j].kind /\ new.deps = jobs[j].deps
          /\ new.artifacts = jobs[j].artifacts /\ new.done = jobs[j].done
          /\ new.status = "retryable"
      BY <1>1, <3>1 DEF JobRecords
    <3> HIDE DEF new
    <3>3. Moved(j) /\ Delivered(j)
      BY <2>2, <2>4, <3>2 DEF Moved, Delivered
    <3>4. QED
      BY <1>2, <2>2, <2>3, <3>3 DEF Fault
  <2>7. QED
    BY <2>5, <2>6
<1>8. CASE Retry(j)
  <2>1. /\ SetJob(j, "queued", FALSE) /\ jobs[j].status = "retryable"
        /\ UNCHANGED <<phase, planner, refused, plan, faults, Data>>
    BY <1>8 DEF Retry
  <2>2. Moved(j) /\ Delivered(j)
    BY <1>1, <2>1, SetJobFields DEF Statuses, Moved, Delivered
  <2>3. QED
    BY <1>2, <1>3, <2>1, <2>2
<1>9. CASE Lost(j)
  <2>1. /\ SetJob(j, "queued", FALSE) /\ jobs[j].status = "running"
        /\ UNCHANGED <<phase, planner, refused, plan>>
    BY <1>9 DEF Lost
  <2>2. \/ Fault /\ \E S \in SUBSET jobs[j].artifacts : Written(j, S)
        \/ UNCHANGED <<faults, Data>>
    BY <1>9 DEF Lost
  <2>3. Grown
    <3>1. ASSUME NEW S \in SUBSET jobs[j].artifacts, Written(j, S) PROVE Grown
      <4>1. S \in SUBSET Functions
        BY <1>1
      <4>2. QED
        BY <3>1, <4>1, WrittenGrows
    <3>2. QED
      BY <1>3, <2>2, <3>1
  <2>4. Moved(j) /\ Delivered(j)
    BY <1>1, <2>1, SetJobFields DEF Statuses, Moved, Delivered
  <2>5. faults' \in 0 .. MaxFaults
    BY <1>2, <2>2 DEF Fault
  <2>6. QED
    BY <2>1, <2>3, <2>4, <2>5
<1>10. QED
  BY <1>4, <1>5, <1>6, <1>7, <1>8, <1>9 DEF Steps
-----------------------------------------------------------------------------
(* Types *)

Shaped == Typed /\ LayersGood /\ JobsFit

\* With what is made of a plan, the ledger keeps its form.
LEMMA CreatedShaped ==
  ASSUME Shaped, NEW wanted, GoodPlan(wanted), NEW made, Closed(wanted, made), jobs' = Created(wanted, made),
         UNCHANGED layers
  PROVE  /\ DOMAIN jobs' \subseteq JobIds /\ jobs' \in [DOMAIN jobs' -> JobRecords]
         /\ \A j \in DOMAIN jobs' : jobs'[j].deps \subseteq DOMAIN jobs'
         /\ JobsFit'
<1>1. /\ DOMAIN jobs \subseteq DOMAIN jobs' /\ \A j \in DOMAIN jobs : jobs'[j] = jobs[j]
      /\ DOMAIN jobs' \subseteq DOMAIN jobs \cup made
      /\ \A j \in DOMAIN jobs' \ DOMAIN jobs :
              /\ j \in made /\ wanted[j].id = j
              /\ jobs'[j] = Job(wanted[j].kind, wanted[j].artifacts, wanted[j].deps)
              /\ wanted[j].deps \subseteq DOMAIN jobs'
  BY CreatedJobs
<1>2. /\ DOMAIN jobs \subseteq JobIds /\ \A j \in DOMAIN jobs : jobs[j] \in JobRecords
      /\ \A j \in DOMAIN jobs : jobs[j].deps \subseteq DOMAIN jobs
  BY DEF Shaped, Typed, TypeOK
<1>3. \A j \in made : j \in DOMAIN wanted /\ j \in JobIds
  BY DEF Closed, GoodPlan
<1>4. DOMAIN jobs' \subseteq JobIds
  BY <1>1, <1>2, <1>3
<1>5. ASSUME NEW j \in DOMAIN jobs' \ DOMAIN jobs
      PROVE  jobs'[j] \in JobRecords /\ jobs'[j].deps \subseteq DOMAIN jobs' /\ Fits(j, jobs'[j].kind, jobs'[j].artifacts)
  <2>1. /\ Fits(j, wanted[j].kind, wanted[j].artifacts) /\ wanted[j].artifacts \subseteq Functions
        /\ wanted[j].deps \subseteq JobIds
    <3>1. Fits(j, wanted[j].kind, wanted[j].artifacts) /\ wanted[j].artifacts \subseteq Functions
      BY <1>1, <1>3, <1>5 DEF GoodPlan
    <3>2. QED
      BY <1>1, <1>4, <1>5, <3>1
  <2>2. wanted[j].kind \in {"domain_context", "spec_batch", "verify_function", "verify_batch", "bug_validate"}
    BY <2>1 DEF Fits
  <2>3. /\ jobs'[j] \in JobRecords /\ jobs'[j].kind = wanted[j].kind
        /\ jobs'[j].artifacts = wanted[j].artifacts /\ jobs'[j].deps = wanted[j].deps
    <3>1. jobs'[j] = [kind |-> wanted[j].kind, artifacts |-> wanted[j].artifacts, done |-> {},
                      deps |-> wanted[j].deps, status |-> "queued", ticket |-> FALSE]
      BY <1>1, <1>5 DEF Job
    <3>2. QED
      BY <2>1, <2>2, <3>1 DEF JobRecords
  <2>4. QED
    BY <1>1, <1>5, <2>1, <2>3
<1>6. \A j \in DOMAIN jobs' : jobs'[j] \in JobRecords /\ jobs'[j].deps \subseteq DOMAIN jobs'
  BY <1>1, <1>2, <1>5
<1>7. jobs' \in [DOMAIN jobs' -> JobRecords]
  <2>1. jobs' = [j \in DOMAIN jobs' |-> jobs'[j]]
    BY DEF Created
  <2>2. QED
    BY <1>6, <2>1
<1>8. JobsFit'
  <2>1. \A j \in DOMAIN jobs' : Fits(j, jobs'[j].kind, jobs'[j].artifacts)
    BY <1>1, <1>5 DEF Shaped, JobsFit
  <2>2. QED
    BY <2>1 DEF JobsFit, Fits
<1>9. QED
  BY <1>4, <1>6, <1>7, <1>8

\* A run of the planner makes a closed part of a good plan.
LEMMA PlanMakes ==
  ASSUME Shaped, Plan \/ PlanKilled
  PROVE  /\ GoodPlan(Wanting)
         /\ \E made : Closed(Wanting, made) /\ jobs' = Created(Wanting, made)
         /\ UNCHANGED Data /\ UNCHANGED phase /\ planner # "idle" /\ faults' \in 0 .. MaxFaults
<1>1. GoodPlan(Wanting)
  BY WantingGood DEF Shaped
<1>2. DOMAIN Wanting \subseteq JobIds
  BY <1>1 DEF GoodPlan
<1>3. CASE Plan
  <2>1. jobs' = Created(Wanting, Accepted(Wanting))
    BY <1>3 DEF Plan, PlanWith
  <2>2. Closed(Wanting, Accepted(Wanting))
    BY <1>2, MadeClosed
  <2>3. UNCHANGED <<phase, faults, Data>> /\ planner # "idle"
    BY <1>3 DEF Plan
  <2>4. QED
    BY <1>1, <2>1, <2>2, <2>3 DEF Shaped, Typed, TypeOK
<1>4. CASE PlanKilled
  <2>1. PICK made \in {Accepted(Wanting)} \cup {Before(Wanting, k) : k \in Accepted(Wanting)} :
               jobs' = Created(Wanting, made)
    BY <1>4 DEF PlanKilled
  <2>2. Closed(Wanting, made)
    BY <1>2, <2>1, MadeClosed
  <2>3. UNCHANGED <<phase, Data>> /\ planner # "idle" /\ Fault
    BY <1>4 DEF PlanKilled
  <2>4. faults' \in 0 .. MaxFaults
    BY <2>3, PlannerAssumption DEF Fault, Shaped, Typed, TypeOK
  <2>5. QED
    BY <1>1, <2>1, <2>2, <2>3, <2>4
<1>5. QED
  BY <1>3, <1>4

\* What the planner may end as
LEMMA PlanEnds ==
  ASSUME Plan \/ PlanKilled
  PROVE  /\ planner' \in {"idle", "due", "streaming"}
         /\ refused \in BOOLEAN => refused' \in BOOLEAN
         /\ \/ UNCHANGED plan
            \/ /\ Plan /\ Conflicts(Wanting) = {}
               /\ plan' = [plan EXCEPT ![PlannedPhase] =
                             Entries(Wanting, IF phase = "bug_validation" THEN Candidates ELSE Functions)]
<1>1. CASE Plan
  BY <1>1 DEF Plan, PlanWith
<1>2. CASE PlanKilled
  BY <1>2 DEF PlanKilled
<1>3. QED
  BY <1>1, <1>2
\* Every entry of a plan that is written names a job.
LEMMA EntriesKnown ==
  ASSUME GoodPlan(Wanting), NEW scope, jobs' = Created(Wanting, DOMAIN Wanting)
  PROVE  /\ DOMAIN Entries(Wanting, scope) = scope
         /\ \A f \in scope :
              \/ /\ Entries(Wanting, scope)[f] = NoJob
                 /\ \A i \in DOMAIN Wanting : f \notin Wanting[i].artifacts
              \/ \E i \in DOMAIN Wanting : /\ f \in Wanting[i].artifacts
                                           /\ Entries(Wanting, scope)[f] = Wanting[i].id
                                           /\ Wanting[i].id \in DOMAIN jobs'
<1>1. Closed(Wanting, DOMAIN Wanting)
  BY DEF Closed, Before
<1>2. \A i \in DOMAIN Wanting : Wanting[i].id \in DOMAIN jobs'
  BY <1>1, CreatedJobs
<1> DEFINE wanted == Wanting
<1> HIDE DEF wanted
<1>3. /\ DOMAIN Entries(wanted, scope) = scope
      /\ \A f \in scope :
           \/ /\ Entries(wanted, scope)[f] = NoJob
              /\ \A i \in DOMAIN wanted : f \notin wanted[i].artifacts
           \/ \E i \in DOMAIN wanted : f \in wanted[i].artifacts /\ Entries(wanted, scope)[f] = wanted[i].id
  BY DEF Entries
<1>4. QED
  BY <1>2, <1>3 DEF wanted

\* The initial states have the form.
LEMMA InitShaped ==
  ASSUME Init
  PROVE  Shaped
<1>1. DOMAIN jobs = {} /\ jobs \in [{} -> JobRecords]
  BY DEF Init
<1>2. LayersGood
  <2>1. ASSUME NEW p \in ProjectPhases
        PROVE  layers[p] \in Seq(SUBSET Functions) /\ Cuts(layers[p], {f \in Functions : PhaseOf[f] = p})
    <3> DEFINE S == {f \in Functions : PhaseOf[f] = p}
    <3>1. layers[p] = Layered[S] /\ S \in SUBSET Functions
      BY DEF Init
    <3> HIDE DEF S
    <3>2. layers[p] \in Seq(SUBSET Functions) /\ Cuts(layers[p], S)
      BY <3>1, LayersCut
    <3>3. QED
      BY <3>2 DEF S
  <2>2. QED
    BY <2>1 DEF LayersGood
<1>3. TypeOK
  <2>1. \A ph \in Planned : DOMAIN plan[ph] = {}
    BY DEF Init, NoPlan
  <2>2. /\ calls \subseteq MaxCalls /\ outcome \in Outcomes
        /\ phase \in Planned \cup {"insufficient", "finalize"}
        /\ planner \in {"idle", "due", "streaming"}
        /\ refused \in BOOLEAN /\ context \in BOOLEAN
        /\ specs \subseteq Functions /\ results \subseteq Functions /\ reports \subseteq Functions
    BY DEF Init, Planned
  <2>3. faults \in 0 .. MaxFaults
    BY PlannerAssumption DEF Init
  <2>4. QED
    BY <1>1, <2>1, <2>2, <2>3 DEF TypeOK
<1>4. DOMAIN plan = Planned
  BY DEF Init
<1>5. QED
  BY <1>1, <1>2, <1>3, <1>4 DEF Shaped, Typed, JobsFit

\* The planner keeps it.
LEMMA PlanShaped ==
  ASSUME Shaped, Plan \/ PlanKilled
  PROVE  Shaped'
<1>1. GoodPlan(Wanting) /\ UNCHANGED Data /\ UNCHANGED phase /\ planner # "idle" /\ faults' \in 0 .. MaxFaults
  BY PlanMakes
<1>2. PICK made : Closed(Wanting, made) /\ jobs' = Created(Wanting, made)
  BY PlanMakes
<1>3. UNCHANGED <<calls, layers, outcome, context, specs, results, reports>>
  BY <1>1 DEF Data
<1>4. /\ DOMAIN jobs' \subseteq JobIds /\ jobs' \in [DOMAIN jobs' -> JobRecords]
      /\ \A j \in DOMAIN jobs' : jobs'[j].deps \subseteq DOMAIN jobs'
      /\ JobsFit'
  BY <1>1, <1>2, <1>3, CreatedShaped
<1>5. DOMAIN jobs \subseteq DOMAIN jobs'
  BY <1>1, <1>2, CreatedJobs
<1>6. /\ DOMAIN plan' = Planned
      /\ \A ph \in Planned :
           DOMAIN plan'[ph] \subseteq Functions /\ \A f \in DOMAIN plan'[ph] : plan'[ph][f] \in DOMAIN jobs' \cup {NoJob}
  <2>1. /\ DOMAIN plan = Planned
        /\ \A ph \in Planned :
             DOMAIN plan[ph] \subseteq Functions /\ \A f \in DOMAIN plan[ph] : plan[ph][f] \in DOMAIN jobs \cup {NoJob}
    BY DEF Shaped, Typed, TypeOK
  <2>2. CASE UNCHANGED plan
    BY <1>5, <2>1, <2>2
  <2> DEFINE scope == IF phase = "bug_validation" THEN Candidates ELSE Functions
             entries == Entries(Wanting, scope)
  <2>3. CASE Plan /\ Conflicts(Wanting) = {} /\ plan' = [plan EXCEPT ![PlannedPhase] = entries]
    <3>1. jobs' = Created(Wanting, DOMAIN Wanting)
      <4>1. jobs' = Created(Wanting, Accepted(Wanting)) /\ Accepted(Wanting) = DOMAIN Wanting
        BY <2>3 DEF Plan, PlanWith, Accepted
      <4>2. QED
        BY <4>1
    <3>2. scope \subseteq Functions
      BY DEF Candidates, Shaped, Typed, TypeOK
    <3>3. DOMAIN entries \subseteq Functions /\ \A f \in DOMAIN entries : entries[f] \in DOMAIN jobs' \cup {NoJob}
      <4> HIDE DEF scope
      <4>1. QED
        BY <1>1, <3>1, <3>2, EntriesKnown
    <3> HIDE DEF entries, scope
    <3>4. QED
      BY <1>5, <2>1, <2>3, <3>3
  <2>4. QED
    BY <2>2, <2>3, PlanEnds
<1>7. planner' \in {"idle", "due", "streaming"} /\ refused' \in BOOLEAN
  BY PlanEnds DEF Shaped, Typed, TypeOK
<1>8. /\ calls' \subseteq MaxCalls /\ outcome' \in Outcomes
      /\ phase' \in Planned \cup {"insufficient", "finalize"}
      /\ context' \in BOOLEAN
      /\ specs' \subseteq Functions /\ results' \subseteq Functions /\ reports' \subseteq Functions
  BY <1>1, <1>3 DEF Shaped, Typed, TypeOK
<1>9. \A j \in DOMAIN jobs' : jobs'[j] \in JobRecords
  BY <1>4
<1>10. TypeOK'
  <2>1. \A j \in DOMAIN jobs' :
           /\ jobs'[j].kind \in {"domain_context", "spec_batch", "verify_function", "verify_batch", "bug_validate"}
           /\ jobs'[j].artifacts \subseteq Functions /\ jobs'[j].done \subseteq Functions
           /\ jobs'[j].status \in {"queued", "running", "retryable", "succeeded"}
           /\ jobs'[j].ticket \in BOOLEAN
    BY <1>9 DEF JobRecords
  <2>2. QED
    BY <1>1, <1>4, <1>6, <1>7, <1>8, <2>1 DEF TypeOK
<1>11. LayersGood'
  BY <1>3 DEF LayersGood, Shaped
<1>12. QED
  BY <1>4, <1>6, <1>10, <1>11 DEF Shaped, Typed

\* The steps on jobs keep it.
LEMMA StepShaped ==
  ASSUME Shaped, NEW j \in DOMAIN jobs, Steps(j)
  PROVE  Shaped'
<1>1. /\ Moved(j) /\ Grown
      /\ UNCHANGED <<phase, refused, plan>> /\ planner' \in {planner, "due"} /\ faults' \in 0 .. MaxFaults
  BY StepMoves DEF Shaped
<1>2. DOMAIN jobs' = DOMAIN jobs /\ \A k \in DOMAIN jobs : jobs'[k] \in JobRecords /\ jobs'[k].deps = jobs[k].deps
  BY <1>1 DEF Moved, Shaped, Typed
<1>3. jobs' \in [DOMAIN jobs' -> JobRecords]
  <2>1. jobs' = [k \in DOMAIN jobs' |-> jobs'[k]]
    BY DEF Steps, Dispatch, DispatchKilled, Submit, Rejected, Retry, Lost, SetJob
  <2>2. QED
    BY <1>2, <2>1
<1>4. TypeOK'
  <2>1. \A k \in DOMAIN jobs' :
           /\ jobs'[k].kind \in {"domain_context", "spec_batch", "verify_function", "verify_batch", "bug_validate"}
           /\ jobs'[k].artifacts \subseteq Functions /\ jobs'[k].done \subseteq Functions
           /\ jobs'[k].status \in {"queued", "running", "retryable", "succeeded"}
           /\ jobs'[k].ticket \in BOOLEAN
    BY <1>2 DEF JobRecords
  <2>2. /\ \A k \in DOMAIN jobs' : jobs'[k].deps \subseteq DOMAIN jobs'
        /\ \A ph \in Planned : /\ DOMAIN plan'[ph] \subseteq Functions
                               /\ \A f \in DOMAIN plan'[ph] : plan'[ph][f] \in DOMAIN jobs' \cup {NoJob}
    BY <1>1, <1>2 DEF Shaped, Typed, TypeOK
  <2>3. /\ calls' \subseteq MaxCalls /\ outcome' \in Outcomes
        /\ phase' \in Planned \cup {"insufficient", "finalize"}
        /\ planner' \in {"idle", "due", "streaming"}
        /\ refused' \in BOOLEAN /\ context' \in BOOLEAN
        /\ specs' \subseteq Functions /\ results' \subseteq Functions /\ reports' \subseteq Functions
    <3>1. /\ calls \subseteq MaxCalls /\ outcome \in Outcomes
          /\ phase \in Planned \cup {"insufficient", "finalize"}
          /\ planner \in {"idle", "due", "streaming"}
          /\ refused \in BOOLEAN
      BY DEF Shaped, Typed, TypeOK
    <3>2. /\ context' \in BOOLEAN
          /\ specs' \subseteq Functions /\ results' \subseteq Functions /\ reports' \subseteq Functions
      BY <1>1 DEF Grown
    <3>3. calls' = calls /\ outcome' = outcome
      BY <1>1 DEF Grown
    <3>4. QED
      BY <1>1, <3>1, <3>2, <3>3
  <2>4. QED
    BY <1>1, <2>1, <2>2, <2>3 DEF TypeOK
<1>5. JobsFit'
  <2>1. UNCHANGED layers
    BY <1>1 DEF Grown
  <2>2. ASSUME NEW k \in DOMAIN jobs PROVE Fits(k, jobs'[k].kind, jobs'[k].artifacts)
    <3>1. Fits(k, jobs[k].kind, jobs[k].artifacts)
      BY DEF Shaped, JobsFit
    <3>2. CASE k # j
      BY <1>1, <3>1, <3>2 DEF Moved
    <3>3. CASE k = j
      <4>1. /\ jobs'[k].kind = jobs[k].kind /\ jobs'[k].artifacts \subseteq jobs[k].artifacts
            /\ jobs'[k].artifacts # {} \/ jobs[k].artifacts = {}
            /\ jobs'[k].artifacts = jobs[k].artifacts \/ jobs[k].kind = "verify_batch"
        BY <1>1, <3>3 DEF Moved
      <4>2. QED
        BY <3>1, <4>1 DEF Fits
    <3>4. QED
      BY <3>2, <3>3
  <2>3. QED
    BY <1>2, <2>1, <2>2 DEF JobsFit, Fits
<1>6. LayersGood'
  BY <1>1 DEF Grown, LayersGood, Shaped
<1>7. QED
  BY <1>1, <1>2, <1>3, <1>4, <1>5, <1>6 DEF Shaped, Typed

\* What is left: the steps that only move the phase or the planner
LEMMA PassFacts ==
  ASSUME NEW ph, NEW next, Pass(ph, next)
  PROVE  /\ phase = ph /\ planner = "idle" /\ Gate(ph) /\ phase' = next /\ planner' \in {"idle", "due"}
         /\ UNCHANGED <<refused, plan, jobs, faults, Data>>
BY DEF Pass

\* The gates, and a resume, keep the form.
LEMMA RestShaped ==
  ASSUME Shaped,
         \/ PlanAgain \/ SpecificationPasses \/ VerificationPasses \/ BugValidationPasses
         \/ UNCHANGED vars
  PROVE  Shaped'
<1>1. /\ UNCHANGED <<refused, plan, jobs, Data>> /\ planner' \in {planner, "idle", "due"}
      /\ phase' \in Planned \cup {"insufficient", "finalize"} /\ faults' \in 0 .. MaxFaults
  <2>1. faults \in 0 .. MaxFaults /\ phase \in Planned \cup {"insufficient", "finalize"}
    BY DEF Shaped, Typed, TypeOK
  <2>2. CASE PlanAgain
    BY <2>1, <2>2, PlannerAssumption DEF PlanAgain, Fault
  <2>3. CASE SpecificationPasses
    BY <2>1, <2>3 DEF SpecificationPasses, Pass, Planned
  <2>4. CASE VerificationPasses
    BY <2>1, <2>4 DEF VerificationPasses, Pass, Planned
  <2>5. CASE BugValidationPasses
    BY <2>1, <2>5 DEF BugValidationPasses, Pass, Planned
  <2>6. CASE UNCHANGED vars
    BY <2>1, <2>6 DEF vars, Data
  <2>7. QED
    BY <2>2, <2>3, <2>4, <2>5, <2>6
<1>2. UNCHANGED <<refused, plan, jobs, calls, layers, outcome, context, specs, results, reports>>
  BY <1>1 DEF Data
<1>3. TypeOK'
  BY <1>1, <1>2 DEF Shaped, Typed, TypeOK
<1>4. JobsFit'
  <2>1. \A j, kind, artifacts : Fits(j, kind, artifacts)' <=> Fits(j, kind, artifacts)
    BY <1>2 DEF Fits
  <2>2. JobsFit
    BY DEF Shaped
  <2>3. QED
    BY <1>2, <2>1, <2>2 DEF JobsFit
<1>5. LayersGood'
  BY <1>2 DEF Shaped, LayersGood
<1>6. QED
  BY <1>2, <1>3, <1>4, <1>5 DEF Shaped, Typed

\* Every step is one of the planner, one on a job, or one of the rest.
LEMMA NextCases ==
  ASSUME [Next]_vars
  PROVE  \/ Plan \/ PlanKilled
         \/ \E j \in DOMAIN jobs : Steps(j)
         \/ PlanAgain \/ SpecificationPasses \/ VerificationPasses \/ BugValidationPasses
         \/ UNCHANGED vars
BY DEF Next, Steps

\* The ledger, the plans and the artifacts have values of their types: no dependency and no
\* entry of a plan ever names a job that is not in the ledger, however planners are killed,
\* refused and run again (job_planner.py).
THEOREM TypeCorrect == Spec => []TypeOK
<1>1. Init => Shaped
  BY InitShaped
<1>2. Shaped /\ [Next]_vars => Shaped'
  BY NextCases, PlanShaped, StepShaped, RestShaped
<1>3. Shaped => TypeOK
  BY DEF Shaped, Typed
<1>4. QED
  BY <1>1, <1>2, <1>3, PTL DEF Spec
=============================================================================
