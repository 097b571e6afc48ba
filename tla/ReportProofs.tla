---------------------------- MODULE ReportProofs ----------------------------
(***************************************************************************)
(* Theorems about the reports, for any chart, entries and days.  Every sum *)
(* of the reports is a fold over a set; what folds over finite sets are    *)
(* comes first (by induction on the set, as a least counterexample), then  *)
(* the inductive invariant of the books, then a statement at a time.       *)
(***************************************************************************)
EXTENDS ReportProperties, FiniteSetTheorems, WellFoundedInduction, TLAPS

-----------------------------------------------------------------------------
(* Sums over finite sets *)

\* Induction over the subsets of a finite set, F being those with the property: a
\* set has it if all that are smaller have it.
LEMMA SubsetInduction ==
    ASSUME NEW S, IsFiniteSet(S), NEW F,
           \A T \in SUBSET S : (\A U \in SUBSET T : U # T => U \in F) => T \in F
    PROVE  \A T \in SUBSET S : T \in F
<1>1. PICK B : B = {T \in SUBSET S : T \notin F}
  OBVIOUS
<1>2. ASSUME B # {} PROVE FALSE
  <2>1. B \subseteq FiniteSubsetsOf(S)
    BY <1>1, FS_Subset DEF FiniteSubsetsOf
  <2>2. PICK T \in B : \A U \in B : ~(<<U, T>> \in StrictSubsetOrdering(S))
    BY <1>2, <2>1, FS_StrictSubsetOrderingWellFounded, WFMin
  <2>3. T \in SUBSET S /\ T \notin F
    BY <1>1
  <2>4. ASSUME NEW U \in SUBSET T, U # T
        PROVE  U \in F
    <3>1. U \in SUBSET S /\ T \in SUBSET S
      BY <2>3
    <3>2. <<U, T>> \in StrictSubsetOrdering(S)
      BY <2>4, <3>1 DEF StrictSubsetOrdering
    <3> QED
      BY <1>1, <2>2, <3>1, <3>2
  <2> QED
    BY <2>3, <2>4
<1> QED
  BY <1>1, <1>2

\* Element by element.
LEMMA SetInduction ==
    ASSUME NEW S, IsFiniteSet(S), NEW F, {} \in F,
           \A T \in SUBSET S : \A x \in S \ T : T \in F => T \cup {x} \in F
    PROVE  S \in F
<1>1. ASSUME NEW T \in SUBSET S, \A U \in SUBSET T : U # T => U \in F
      PROVE  T \in F
  <2>1. CASE T = {}
    BY <2>1
  <2>2. CASE T # {}
    <3>1. PICK x \in T : TRUE
      BY <2>2
    <3>2. PICK U : U = T \ {x}
      OBVIOUS
    <3>3. U \in SUBSET S /\ x \in S \ U /\ U \cup {x} = T /\ U \in F
      BY <1>1, <3>1, <3>2
    <3> QED
      BY <3>3
  <2> QED
    BY <2>1, <2>2
<1> QED
  BY <1>1, SubsetInduction

-----------------------------------------------------------------------------
Sum(w, S) == MapThenSumSet(LAMBDA x : w[x], S)

\* One round of the fold, and what the fold is.
Round(w, it, s) == IF s = {} THEN 0
                   ELSE w[CHOOSE x \in s : TRUE] + it[s \ {CHOOSE x \in s : TRUE}]

IsFold(w, S, it) == it = [s \in SUBSET S |-> Round(w, it, s)]

\* A sum is a fold at the whole set.
LEMMA SumIs == \A w, S : Sum(w, S) = (CHOOSE it : IsFold(w, S, it))[S]
BY DEF Sum, MapThenSumSet, MapThenFoldSet, IsFold, Round

UpTo(S, n) == {s \in SUBSET S : Cardinality(s) <= n}
PartFolds(w, S, n, it) == it = [s \in UpTo(S, n) |-> Round(w, it, s)]

\* The folds over n elements and fewer exist, for every n.
LEMMA PartExists ==
    ASSUME NEW w, NEW S, IsFiniteSet(S), NEW n \in Nat
    PROVE  \E it : PartFolds(w, S, n, it)
<1>1. PICK B : B = {m \in Nat : ~\E it : PartFolds(w, S, m, it)}
  OBVIOUS
<1> SUFFICES ASSUME n \in B PROVE FALSE
  BY <1>1
<1>2. PICK m \in B : \A k \in B : ~(<<k, m>> \in OpToRel(<, Nat))
  BY <1>1, NatLessThanWellFounded, WFMin
<1>3. m \in Nat /\ \A k \in Nat : k < m => k \notin B
  BY <1>1, <1>2 DEF OpToRel
<1>4. \A s \in SUBSET S : IsFiniteSet(s) /\ Cardinality(s) \in Nat
  BY FS_Subset, FS_CardinalityType
<1>5. CASE m = 0
  <2>1. PICK it : it = [s \in UpTo(S, 0) |-> 0]
    OBVIOUS
  <2>2. \A s \in UpTo(S, 0) : s = {}
    BY <1>4, FS_EmptySet DEF UpTo
  <2>3. \A s \in UpTo(S, 0) : Round(w, it, s) = 0
    BY <2>2 DEF Round
  <2>4. PartFolds(w, S, 0, it)
    BY <2>1, <2>3 DEF PartFolds
  <2> QED
    BY <1>1, <1>2, <1>5, <2>4
<1>6. CASE m # 0
  <2>1. PICK k \in Nat : k = m - 1
    BY <1>3, <1>6
  <2>2. PICK g : PartFolds(w, S, k, g)
    BY <1>1, <1>3, <2>1
  <2>3. PICK h : h = [s \in UpTo(S, m) |-> Round(w, g, s)]
    OBVIOUS
  <2>4. ASSUME NEW s \in UpTo(S, m)
        PROVE  Round(w, h, s) = Round(w, g, s)
    <3>1. CASE s = {}
      BY <3>1 DEF Round
    <3>2. CASE s # {}
      <4>1. PICK x : x = CHOOSE y \in s : TRUE
        OBVIOUS
      <4>2. x \in s
        BY <3>2, <4>1
      <4>3. PICK t : t = s \ {x}
        OBVIOUS
      <4>4. Cardinality(t) = Cardinality(s) - 1 /\ t \in SUBSET S
        BY <1>4, <4>2, <4>3, FS_RemoveElement DEF UpTo
      <4>5. t \in UpTo(S, k) /\ t \in UpTo(S, m)
        BY <1>3, <1>4, <2>1, <4>4 DEF UpTo
      <4>6. h[t] = g[t]
        <5>1. h[t] = Round(w, g, t)
          BY <2>3, <4>5
        <5>2. g[t] = Round(w, g, t)
          BY <2>2, <4>5 DEF PartFolds
        <5> QED
          BY <5>1, <5>2
      <4> QED
        BY <3>2, <4>1, <4>3, <4>6 DEF Round
    <3> QED
      BY <3>1, <3>2
  <2>5. h = [s \in UpTo(S, m) |-> Round(w, h, s)]
    BY <2>3, <2>4
  <2>6. PartFolds(w, S, m, h)
    BY <2>5 DEF PartFolds
  <2> QED
    BY <1>1, <1>2, <2>6
<1> QED
  BY <1>5, <1>6

\* Every finite set has a fold, whose value is the sum.
LEMMA FoldExists ==
    ASSUME NEW w, NEW S, IsFiniteSet(S)
    PROVE  \E it : IsFold(w, S, it) /\ Sum(w, S) = it[S]
<1>1. Cardinality(S) \in Nat
  BY FS_CardinalityType
<1>2. UpTo(S, Cardinality(S)) = SUBSET S
  BY FS_Subset DEF UpTo
<1>3. PICK g : PartFolds(w, S, Cardinality(S), g)
  BY <1>1, PartExists
<1>4. IsFold(w, S, g)
  BY <1>2, <1>3 DEF PartFolds, IsFold
<1> QED
  BY <1>4, SumIs

\* Two folds agree where both are defined.
LEMMA FoldsAgree ==
    ASSUME NEW w, NEW S, IsFiniteSet(S), NEW f, IsFold(w, S, f),
           NEW T \in SUBSET S, NEW g, IsFold(w, T, g)
    PROVE  f[T] = g[T]
<1>1. PICK F : F = {s \in SUBSET T : f[s] = g[s]}
  OBVIOUS
<1>2. IsFiniteSet(T)
  BY FS_Subset
<1>3. ASSUME NEW s \in SUBSET T, \A u \in SUBSET s : u # s => u \in F
      PROVE  s \in F
  <2>1. f[s] = Round(w, f, s) /\ g[s] = Round(w, g, s)
    BY DEF IsFold
  <2>2. CASE s = {}
    BY <1>1, <2>1, <2>2 DEF Round
  <2>3. CASE s # {}
    <3>1. PICK x : x = CHOOSE y \in s : TRUE
      OBVIOUS
    <3>2. x \in s
      BY <2>3, <3>1
    <3>3. PICK t : t = s \ {x}
      OBVIOUS
    <3>4. f[t] = g[t]
      BY <1>1, <1>3, <3>2, <3>3
    <3>5. f[s] = w[x] + f[t] /\ g[s] = w[x] + g[t]
      BY <2>1, <2>3, <3>1, <3>3 DEF Round
    <3> QED
      BY <1>1, <3>4, <3>5
  <2> QED
    BY <2>2, <2>3
<1>4. T \in F
  BY <1>2, <1>3, SubsetInduction
<1> QED
  BY <1>1, <1>4

\* A fold over S gives the sum over each subset.
LEMMA FoldSums ==
    ASSUME NEW w, NEW S, IsFiniteSet(S), NEW f, IsFold(w, S, f), NEW T \in SUBSET S
    PROVE  f[T] = Sum(w, T)
<1>1. IsFiniteSet(T)
  BY FS_Subset
<1>2. PICK g : IsFold(w, T, g) /\ Sum(w, T) = g[T]
  BY <1>1, FoldExists
<1> QED
  BY <1>2, FoldsAgree

\* Nothing sums to 0.
LEMMA SumEmpty == \A w : Sum(w, {}) = 0
<1> SUFFICES ASSUME NEW w PROVE Sum(w, {}) = 0
  OBVIOUS
<1>1. PICK f : IsFold(w, {}, f) /\ Sum(w, {}) = f[{}]
  BY FoldExists, FS_EmptySet
<1> QED
  BY <1>1 DEF IsFold, Round

\* The round of the definition.
LEMMA SumChosen ==
    ASSUME NEW w, NEW S, IsFiniteSet(S), S # {}
    PROVE  \E x \in S : Sum(w, S) = w[x] + Sum(w, S \ {x})
<1>1. PICK x : x = CHOOSE y \in S : TRUE
  OBVIOUS
<1>2. x \in S
  BY <1>1
<1>3. PICK f : IsFold(w, S, f) /\ Sum(w, S) = f[S]
  BY FoldExists
<1>4. f[S] = w[x] + f[S \ {x}]
  BY <1>1, <1>3 DEF IsFold, Round
<1>5. f[S \ {x}] = Sum(w, S \ {x})
  <2>1. PICK T \in SUBSET S : T = S \ {x}
    OBVIOUS
  <2>2. f[T] = Sum(w, T)
    BY <1>3, FoldSums
  <2> QED
    BY <2>1, <2>2
<1>6. Sum(w, S) = w[x] + Sum(w, S \ {x})
  BY <1>3, <1>4, <1>5
<1> QED
  BY <1>2, <1>6

\* Any element may come first: the order does not matter.
LEMMA SumAdd ==
    ASSUME NEW D, NEW w \in [D -> Int], NEW S \in SUBSET D, IsFiniteSet(S)
    PROVE  Sum(w, S) \in Int /\ \A x \in S : Sum(w, S) = w[x] + Sum(w, S \ {x})
<1>1. PICK F : F = {T \in SUBSET S : /\ Sum(w, T) \in Int
                                    /\ \A x \in T : Sum(w, T) = w[x] + Sum(w, T \ {x})}
  OBVIOUS
<1>2. ASSUME NEW T \in SUBSET S, \A U \in SUBSET T : U # T => U \in F
      PROVE  T \in F
  <2>1. CASE T = {}
    BY <1>1, <2>1, SumEmpty
  <2>2. CASE T # {}
    <3>0. IsFiniteSet(T)
      BY FS_Subset
    <3>1. PICK c \in T : Sum(w, T) = w[c] + Sum(w, T \ {c})
      BY <2>2, <3>0, SumChosen
    <3>2. \A x \in T : T \ {x} \in F /\ w[x] \in Int
      BY <1>2
    <3>3. \A x \in T : Sum(w, T \ {x}) \in Int
      BY <1>1, <3>2
    <3>4. ASSUME NEW x \in T, x # c
          PROVE  Sum(w, T) = w[x] + Sum(w, T \ {x})
      <4>1. x \in T \ {c} /\ c \in T \ {x} /\ (T \ {c}) \ {x} = (T \ {x}) \ {c}
        BY <3>1, <3>4
      <4>2. Sum(w, T \ {c}) = w[x] + Sum(w, (T \ {c}) \ {x})
        BY <1>1, <3>1, <3>2, <4>1
      <4>3. Sum(w, T \ {x}) = w[c] + Sum(w, (T \ {x}) \ {c})
        BY <1>1, <3>2, <4>1
      <4>4. (T \ {c}) \ {x} \in F
        BY <1>2, <3>1
      <4>5. Sum(w, (T \ {c}) \ {x}) \in Int
        BY <1>1, <4>4
      <4>6. Sum(w, (T \ {x}) \ {c}) = Sum(w, (T \ {c}) \ {x})
        BY <4>1
      <4>7. w[c] \in Int /\ w[x] \in Int
        BY <3>2
      <4> QED
        BY <3>1, <4>2, <4>3, <4>5, <4>6, <4>7
    <3>5. Sum(w, T) \in Int
      BY <3>1, <3>2, <3>3
    <3> QED
      BY <1>1, <3>1, <3>4, <3>5
  <2> QED
    BY <2>1, <2>2
<1>3. S \in F
  BY <1>2, SubsetInduction
<1> QED
  BY <1>1, <1>3

-----------------------------------------------------------------------------
(* Sums of integers *)

\* Integers sum to an integer.
LEMMA SumType ==
    ASSUME NEW D, NEW w \in [D -> Int], NEW S \in SUBSET D, IsFiniteSet(S)
    PROVE  Sum(w, S) \in Int
BY SumAdd

\* One element more.
LEMMA SumInsert ==
    ASSUME NEW D, NEW w \in [D -> Int], NEW S \in SUBSET D, IsFiniteSet(S),
           NEW x \in D \ S
    PROVE  Sum(w, S \cup {x}) = w[x] + Sum(w, S)
<1>1. (S \cup {x}) \in SUBSET D /\ IsFiniteSet(S \cup {x}) /\ x \in S \cup {x}
  BY FS_AddElement
<1>2. (S \cup {x}) \ {x} = S
  OBVIOUS
<1> QED
  BY <1>1, <1>2, SumAdd

\* One element alone.
LEMMA SumOne ==
    ASSUME NEW D, NEW w \in [D -> Int], NEW x \in D
    PROVE  Sum(w, {x}) = w[x]
<1>1. IsFiniteSet({}) /\ {} \in SUBSET D /\ x \in D \ {} /\ {} \cup {x} = {x}
  BY FS_EmptySet
<1>2. Sum(w, {} \cup {x}) = w[x] + Sum(w, {})
  BY <1>1, SumInsert
<1> QED
  BY <1>1, <1>2, SumEmpty

\* Two parts that do not meet.
LEMMA SumSplit ==
    ASSUME NEW D, NEW w \in [D -> Int], NEW S \in SUBSET D, NEW T \in SUBSET D,
           IsFiniteSet(S), IsFiniteSet(T), S \cap T = {}
    PROVE  Sum(w, S \cup T) = Sum(w, S) + Sum(w, T)
<1>1. PICK F : F = {U \in SUBSET T : Sum(w, S \cup U) = Sum(w, S) + Sum(w, U)}
  OBVIOUS
<1>2. {} \in F
  <2>1. S \cup {} = S /\ Sum(w, {}) = 0 /\ Sum(w, S) \in Int
    BY SumEmpty, SumType
  <2> QED
    BY <1>1, <2>1
<1>3. ASSUME NEW U \in SUBSET T, NEW x \in T \ U, U \in F
      PROVE  U \cup {x} \in F
  <2>1. IsFiniteSet(U)
    BY FS_Subset
  <2>2. IsFiniteSet(S \cup U)
    BY <2>1, FS_Union
  <2>3. x \in D \ (S \cup U) /\ x \in D \ U /\ (S \cup U) \in SUBSET D /\ U \in SUBSET D
    OBVIOUS
  <2>4. Sum(w, (S \cup U) \cup {x}) = w[x] + Sum(w, S \cup U)
    BY <2>2, <2>3, SumInsert
  <2>5. Sum(w, U \cup {x}) = w[x] + Sum(w, U)
    BY <2>1, <2>3, SumInsert
  <2>6. Sum(w, S) \in Int /\ Sum(w, U) \in Int /\ w[x] \in Int
    BY <2>1, <2>3, SumType
  <2>7. Sum(w, S \cup U) = Sum(w, S) + Sum(w, U)
    BY <1>1, <1>3
  <2>8. Sum(w, (S \cup U) \cup {x}) = Sum(w, S) + Sum(w, U \cup {x})
    BY <2>4, <2>5, <2>6, <2>7
  <2>9. (S \cup U) \cup {x} = S \cup (U \cup {x}) /\ (U \cup {x}) \in SUBSET T
    OBVIOUS
  <2> QED
    BY <1>1, <2>8, <2>9
<1>4. T \in F
  BY <1>2, <1>3, SetInduction
<1> QED
  BY <1>1, <1>4

\* Equal summands.
LEMMA SumSame ==
    ASSUME NEW D, NEW w \in [D -> Int], NEW E, NEW v \in [E -> Int],
           NEW S \in SUBSET (D \cap E), IsFiniteSet(S), \A x \in S : w[x] = v[x]
    PROVE  Sum(w, S) = Sum(v, S)
<1>1. PICK F : F = {U \in SUBSET S : Sum(w, U) = Sum(v, U)}
  OBVIOUS
<1>2. {} \in F
  BY <1>1, SumEmpty
<1>3. ASSUME NEW U \in SUBSET S, NEW x \in S \ U, U \in F
      PROVE  U \cup {x} \in F
  <2>1. IsFiniteSet(U)
    BY FS_Subset
  <2>2. x \in D \ U /\ x \in E \ U /\ U \in SUBSET D /\ U \in SUBSET E
    OBVIOUS
  <2>3. Sum(w, U \cup {x}) = w[x] + Sum(w, U)
    BY <2>1, <2>2, SumInsert
  <2>4. Sum(v, U \cup {x}) = v[x] + Sum(v, U)
    BY <2>1, <2>2, SumInsert
  <2> QED
    BY <1>1, <1>3, <2>3, <2>4
<1>4. S \in F
  BY <1>2, <1>3, SetInduction
<1> QED
  BY <1>1, <1>4

\* Summands that are all 0.
LEMMA SumZero ==
    ASSUME NEW D, NEW w \in [D -> Int], NEW S \in SUBSET D, IsFiniteSet(S),
           \A x \in S : w[x] = 0
    PROVE  Sum(w, S) = 0
<1>1. PICK F : F = {U \in SUBSET S : Sum(w, U) = 0}
  OBVIOUS
<1>2. {} \in F
  BY <1>1, SumEmpty
<1>3. ASSUME NEW U \in SUBSET S, NEW x \in S \ U, U \in F
      PROVE  U \cup {x} \in F
  <2>1. IsFiniteSet(U)
    BY FS_Subset
  <2>2. Sum(w, U \cup {x}) = w[x] + Sum(w, U)
    BY <2>1, SumInsert
  <2> QED
    BY <1>1, <1>3, <2>2
<1>4. S \in F
  BY <1>2, <1>3, SetInduction
<1> QED
  BY <1>1, <1>4

\* The sum of differences is the difference of the sums.
LEMMA SumMinus ==
    ASSUME NEW D, NEW w \in [D -> Int], NEW u \in [D -> Int], NEW v \in [D -> Int],
           NEW S \in SUBSET D, IsFiniteSet(S), \A x \in S : w[x] = u[x] - v[x]
    PROVE  Sum(w, S) = Sum(u, S) - Sum(v, S)
<1>1. PICK F : F = {U \in SUBSET S : Sum(w, U) = Sum(u, U) - Sum(v, U)}
  OBVIOUS
<1>2. {} \in F
  BY <1>1, SumEmpty
<1>3. ASSUME NEW U \in SUBSET S, NEW x \in S \ U, U \in F
      PROVE  U \cup {x} \in F
  <2>1. IsFiniteSet(U)
    BY FS_Subset
  <2>2. x \in D \ U /\ U \in SUBSET D
    OBVIOUS
  <2>3. /\ Sum(w, U \cup {x}) = w[x] + Sum(w, U)
        /\ Sum(u, U \cup {x}) = u[x] + Sum(u, U)
        /\ Sum(v, U \cup {x}) = v[x] + Sum(v, U)
    BY <2>1, <2>2, SumInsert
  <2>4. /\ Sum(u, U) \in Int /\ Sum(v, U) \in Int
        /\ w[x] \in Int /\ u[x] \in Int /\ v[x] \in Int
    BY <2>1, <2>2, SumType
  <2>5. Sum(w, U) = Sum(u, U) - Sum(v, U) /\ w[x] = u[x] - v[x]
    BY <1>1, <1>3
  <2>6. Sum(w, U \cup {x}) = Sum(u, U \cup {x}) - Sum(v, U \cup {x})
    BY <2>3, <2>4, <2>5
  <2> QED
    BY <1>1, <2>6
<1>4. S \in F
  BY <1>2, <1>3, SetInduction
<1> QED
  BY <1>1, <1>4

\* What is summed in groups is summed: f names the group of an element.
Grouped(S, f, B) == {x \in S : f[x] \in B}
GroupSums(w, S, f, B, v) ==
    /\ w \in [DOMAIN w -> Int] /\ S \subseteq DOMAIN w /\ IsFiniteSet(S)
    /\ v \in [B -> Int] /\ IsFiniteSet(B)
    /\ \A b \in B : v[b] = Sum(w, {x \in S : f[x] = b})

\* A sum over groups is the sum of the sums of the groups.
LEMMA SumGroups ==
    ASSUME NEW w, NEW S, NEW f, NEW B, NEW v, GroupSums(w, S, f, B, v)
    PROVE  Sum(w, Grouped(S, f, B)) = Sum(v, B)
<1> DEFINE D == DOMAIN w
<1>0. /\ w \in [D -> Int] /\ S \in SUBSET D /\ IsFiniteSet(S)
      /\ v \in [B -> Int] /\ IsFiniteSet(B)
  BY DEF GroupSums
<1> HIDE DEF D
<1>1. PICK F : F = {U \in SUBSET B : Sum(w, Grouped(S, f, U)) = Sum(v, U)}
  OBVIOUS
<1>2. {} \in F
  <2>1. Grouped(S, f, {}) = {}
    BY DEF Grouped
  <2> QED
    BY <1>1, <2>1, SumEmpty
<1>3. ASSUME NEW U \in SUBSET B, NEW b \in B \ U, U \in F
      PROVE  U \cup {b} \in F
  <2>1. IsFiniteSet(U)
    BY <1>0, FS_Subset
  <2>2. PICK old : old = Grouped(S, f, U)
    OBVIOUS
  <2>3. PICK new : new = {x \in S : f[x] = b}
    OBVIOUS
  <2>4. old \in SUBSET S /\ new \in SUBSET S /\ old \cap new = {}
    BY <2>2, <2>3 DEF Grouped
  <2>5. IsFiniteSet(old) /\ IsFiniteSet(new)
    BY <1>0, <2>4, FS_Subset
  <2>6. Sum(w, old \cup new) = Sum(w, old) + Sum(w, new)
    BY <1>0, <2>4, <2>5, SumSplit
  <2>7. Grouped(S, f, U \cup {b}) = old \cup new
    BY <2>2, <2>3 DEF Grouped
  <2>8. Sum(v, U \cup {b}) = v[b] + Sum(v, U)
    BY <1>0, <2>1, SumInsert
  <2>9. Sum(w, old) = Sum(v, U) /\ Sum(w, new) = v[b]
    BY <1>1, <1>3, <2>2, <2>3 DEF GroupSums
  <2>10. Sum(v, U) \in Int /\ v[b] \in Int
    BY <1>0, <2>1, SumType
  <2>11. Sum(w, Grouped(S, f, U \cup {b})) = Sum(v, U \cup {b})
    <3>1. Sum(w, old) + Sum(w, new) = Sum(v, U) + v[b]
      BY <2>9
    <3>2. Sum(v, U) + v[b] = v[b] + Sum(v, U)
      BY <2>10
    <3>3. Sum(w, old \cup new) = Sum(v, U \cup {b})
      BY <2>6, <2>8, <3>1, <3>2
    <3> QED
      BY <2>7, <3>3
  <2>12. U \cup {b} \in SUBSET B
    OBVIOUS
  <2> QED
    BY <1>1, <2>11, <2>12
<1>4. B \in F
  BY <1>0, <1>2, <1>3, SetInduction
<1> QED
  BY <1>1, <1>4

-----------------------------------------------------------------------------
(* The sums of the reports are sums of functions *)

DebitOf  == [l \in Lines |-> At(l).debit]
CreditOf == [l \in Lines |-> At(l).credit]
NetOf    == [l \in Lines |-> At(l).debit - At(l).credit]

\* The total of the debits of some lines: the fold of the report is that of a sum.
LEMMA DebitsAreSums ==
    ASSUME IsFiniteSet(Lines), NEW ls \in SUBSET Lines
    PROVE  Debits(ls) = Sum(DebitOf, ls)
<1> DEFINE Fold(it) ==
      it = [s \in SUBSET ls |->
              IF s = {} THEN 0
              ELSE At(CHOOSE x \in s : TRUE).debit + it[s \ {CHOOSE x \in s : TRUE}]]
<1>1. IsFiniteSet(ls)
  BY FS_Subset
<1>2. ASSUME NEW it
      PROVE  Fold(it) <=> IsFold(DebitOf, ls, it)
  <2>1. ASSUME NEW s \in SUBSET ls
        PROVE  Round(DebitOf, it, s)
                 = IF s = {} THEN 0
                   ELSE At(CHOOSE x \in s : TRUE).debit + it[s \ {CHOOSE x \in s : TRUE}]
    <3>1. CASE s = {}
      BY <3>1 DEF Round
    <3>2. CASE s # {}
      <4>1. PICK c : c = CHOOSE x \in s : TRUE
        OBVIOUS
      <4>2. c \in ls
        BY <3>2, <4>1
      <4>3. DebitOf[c] = At(c).debit
        BY <4>2 DEF DebitOf
      <4> QED
        BY <3>2, <4>1, <4>3 DEF Round
    <3> QED
      BY <3>1, <3>2
  <2> QED
    BY <2>1 DEF IsFold
<1>3. PICK it : it = CHOOSE any : Fold(any)
  OBVIOUS
<1>4. Debits(ls) = it[ls]
  BY <1>3 DEF Debits, MapThenSumSet, MapThenFoldSet
<1>5. PICK g : IsFold(DebitOf, ls, g)
  BY <1>1, FoldExists
<1>6. IsFold(DebitOf, ls, it)
  <2> HIDE DEF Fold
  <2>1. Fold(g)
    BY <1>2, <1>5
  <2>2. Fold(it)
    BY <1>3, <2>1
  <2> QED
    BY <1>2, <2>2
<1> QED
  BY <1>1, <1>4, <1>6, FoldSums

\* The total of their credits.
LEMMA CreditsAreSums ==
    ASSUME IsFiniteSet(Lines), NEW ls \in SUBSET Lines
    PROVE  Credits(ls) = Sum(CreditOf, ls)
<1> DEFINE Fold(it) ==
      it = [s \in SUBSET ls |->
              IF s = {} THEN 0
              ELSE At(CHOOSE x \in s : TRUE).credit + it[s \ {CHOOSE x \in s : TRUE}]]
<1>1. IsFiniteSet(ls)
  BY FS_Subset
<1>2. ASSUME NEW it
      PROVE  Fold(it) <=> IsFold(CreditOf, ls, it)
  <2>1. ASSUME NEW s \in SUBSET ls
        PROVE  Round(CreditOf, it, s)
                 = IF s = {} THEN 0
                   ELSE At(CHOOSE x \in s : TRUE).credit + it[s \ {CHOOSE x \in s : TRUE}]
    <3>1. CASE s = {}
      BY <3>1 DEF Round
    <3>2. CASE s # {}
      <4>1. PICK c : c = CHOOSE x \in s : TRUE
        OBVIOUS
      <4>2. c \in ls
        BY <3>2, <4>1
      <4>3. CreditOf[c] = At(c).credit
        BY <4>2 DEF CreditOf
      <4> QED
        BY <3>2, <4>1, <4>3 DEF Round
    <3> QED
      BY <3>1, <3>2
  <2> QED
    BY <2>1 DEF IsFold
<1>3. PICK it : it = CHOOSE any : Fold(any)
  OBVIOUS
<1>4. Credits(ls) = it[ls]
  BY <1>3 DEF Credits, MapThenSumSet, MapThenFoldSet
<1>5. PICK g : IsFold(CreditOf, ls, g)
  BY <1>1, FoldExists
<1>6. IsFold(CreditOf, ls, it)
  <2> HIDE DEF Fold
  <2>1. Fold(g)
    BY <1>2, <1>5
  <2>2. Fold(it)
    BY <1>3, <2>1
  <2> QED
    BY <1>2, <2>2
<1> QED
  BY <1>1, <1>4, <1>6, FoldSums

\* The totals and the closing columns of the trial balance, the loans of the
\* portfolio, and what the balance sheet takes of the banks.
TotalOf(rows, f)   == MapThenSumSet(LAMBDA a : rows[a][f], DOMAIN rows)
DebtorsOf(rows)    == MapThenSumSet(LAMBDA a : Positive(Cumulative(rows[a])), DOMAIN rows)
CreditorsOf(rows)  == MapThenSumSet(LAMBDA a : Positive(-Cumulative(rows[a])), DOMAIN rows)
LoansOf(rows)      == MapThenSumSet(LAMBDA a : Positive(rows[a]), DOMAIN rows)
OverdrawnOf(A)     == MapThenSumSet(LAMBDA a : Positive(-Net(On({a}, Lines))), A)

Column(rows, f)    == [a \in DOMAIN rows |-> rows[a][f]]
Debtor(rows)       == [a \in DOMAIN rows |-> Positive(Cumulative(rows[a]))]
Creditor(rows)     == [a \in DOMAIN rows |-> Positive(-Cumulative(rows[a]))]
Loans(rows)        == [a \in DOMAIN rows |-> Positive(rows[a])]
Overdrawn(A)       == [a \in A |-> Positive(-Net(On({a}, Lines)))]

\* A column of the trial balance.
LEMMA ColumnsAreSums ==
    ASSUME NEW rows, IsFiniteSet(DOMAIN rows), NEW f
    PROVE  TotalOf(rows, f) = Sum(Column(rows, f), DOMAIN rows)
<1> DEFINE Fold(it) ==
      it = [s \in SUBSET DOMAIN rows |->
              IF s = {} THEN 0
              ELSE rows[CHOOSE x \in s : TRUE][f] + it[s \ {CHOOSE x \in s : TRUE}]]
<1>1. IsFiniteSet(DOMAIN rows)
  BY FS_Subset
<1>2. ASSUME NEW it
      PROVE  Fold(it) <=> IsFold(Column(rows, f), DOMAIN rows, it)
  <2>1. ASSUME NEW s \in SUBSET DOMAIN rows
        PROVE  Round(Column(rows, f), it, s)
                 = IF s = {} THEN 0
                   ELSE rows[CHOOSE x \in s : TRUE][f] + it[s \ {CHOOSE x \in s : TRUE}]
    <3>1. CASE s = {}
      BY <3>1 DEF Round
    <3>2. CASE s # {}
      <4>1. PICK c : c = CHOOSE x \in s : TRUE
        OBVIOUS
      <4>2. c \in DOMAIN rows
        BY <3>2, <4>1
      <4>3. Column(rows, f)[c] = rows[c][f]
        BY <4>2 DEF Column
      <4> QED
        BY <3>2, <4>1, <4>3 DEF Round
    <3> QED
      BY <3>1, <3>2
  <2> QED
    BY <2>1 DEF IsFold
<1>3. PICK it : it = CHOOSE any : Fold(any)
  OBVIOUS
<1>4. TotalOf(rows, f) = it[DOMAIN rows]
  BY <1>3 DEF TotalOf, MapThenSumSet, MapThenFoldSet
<1>5. PICK g : IsFold(Column(rows, f), DOMAIN rows, g)
  BY <1>1, FoldExists
<1>6. IsFold(Column(rows, f), DOMAIN rows, it)
  <2> HIDE DEF Fold
  <2>1. Fold(g)
    BY <1>2, <1>5
  <2>2. Fold(it)
    BY <1>3, <2>1
  <2> QED
    BY <1>2, <2>2
<1> QED
  BY <1>1, <1>4, <1>6, FoldSums

\* The debit column of the closing balances.
LEMMA DebtorsAreSums ==
    ASSUME NEW rows, IsFiniteSet(DOMAIN rows)
    PROVE  DebtorsOf(rows) = Sum(Debtor(rows), DOMAIN rows)
<1> DEFINE Fold(it) ==
      it = [s \in SUBSET DOMAIN rows |->
              IF s = {} THEN 0
              ELSE Positive(Cumulative(rows[CHOOSE x \in s : TRUE])) + it[s \ {CHOOSE x \in s : TRUE}]]
<1>1. IsFiniteSet(DOMAIN rows)
  BY FS_Subset
<1>2. ASSUME NEW it
      PROVE  Fold(it) <=> IsFold(Debtor(rows), DOMAIN rows, it)
  <2>1. ASSUME NEW s \in SUBSET DOMAIN rows
        PROVE  Round(Debtor(rows), it, s)
                 = IF s = {} THEN 0
                   ELSE Positive(Cumulative(rows[CHOOSE x \in s : TRUE])) + it[s \ {CHOOSE x \in s : TRUE}]
    <3>1. CASE s = {}
      BY <3>1 DEF Round
    <3>2. CASE s # {}
      <4>1. PICK c : c = CHOOSE x \in s : TRUE
        OBVIOUS
      <4>2. c \in DOMAIN rows
        BY <3>2, <4>1
      <4>3. Debtor(rows)[c] = Positive(Cumulative(rows[c]))
        BY <4>2 DEF Debtor
      <4> QED
        BY <3>2, <4>1, <4>3 DEF Round
    <3> QED
      BY <3>1, <3>2
  <2> QED
    BY <2>1 DEF IsFold
<1>3. PICK it : it = CHOOSE any : Fold(any)
  OBVIOUS
<1>4. DebtorsOf(rows) = it[DOMAIN rows]
  BY <1>3 DEF DebtorsOf, MapThenSumSet, MapThenFoldSet
<1>5. PICK g : IsFold(Debtor(rows), DOMAIN rows, g)
  BY <1>1, FoldExists
<1>6. IsFold(Debtor(rows), DOMAIN rows, it)
  <2> HIDE DEF Fold
  <2>1. Fold(g)
    BY <1>2, <1>5
  <2>2. Fold(it)
    BY <1>3, <2>1
  <2> QED
    BY <1>2, <2>2
<1> QED
  BY <1>1, <1>4, <1>6, FoldSums

\* The credit column of the closing balances.
LEMMA CreditorsAreSums ==
    ASSUME NEW rows, IsFiniteSet(DOMAIN rows)
    PROVE  CreditorsOf(rows) = Sum(Creditor(rows), DOMAIN rows)
<1> DEFINE Fold(it) ==
      it = [s \in SUBSET DOMAIN rows |->
              IF s = {} THEN 0
              ELSE Positive(-Cumulative(rows[CHOOSE x \in s : TRUE])) + it[s \ {CHOOSE x \in s : TRUE}]]
<1>1. IsFiniteSet(DOMAIN rows)
  BY FS_Subset
<1>2. ASSUME NEW it
      PROVE  Fold(it) <=> IsFold(Creditor(rows), DOMAIN rows, it)
  <2>1. ASSUME NEW s \in SUBSET DOMAIN rows
        PROVE  Round(Creditor(rows), it, s)
                 = IF s = {} THEN 0
                   ELSE Positive(-Cumulative(rows[CHOOSE x \in s : TRUE])) + it[s \ {CHOOSE x \in s : TRUE}]
    <3>1. CASE s = {}
      BY <3>1 DEF Round
    <3>2. CASE s # {}
      <4>1. PICK c : c = CHOOSE x \in s : TRUE
        OBVIOUS
      <4>2. c \in DOMAIN rows
        BY <3>2, <4>1
      <4>3. Creditor(rows)[c] = Positive(-Cumulative(rows[c]))
        BY <4>2 DEF Creditor
      <4> QED
        BY <3>2, <4>1, <4>3 DEF Round
    <3> QED
      BY <3>1, <3>2
  <2> QED
    BY <2>1 DEF IsFold
<1>3. PICK it : it = CHOOSE any : Fold(any)
  OBVIOUS
<1>4. CreditorsOf(rows) = it[DOMAIN rows]
  BY <1>3 DEF CreditorsOf, MapThenSumSet, MapThenFoldSet
<1>5. PICK g : IsFold(Creditor(rows), DOMAIN rows, g)
  BY <1>1, FoldExists
<1>6. IsFold(Creditor(rows), DOMAIN rows, it)
  <2> HIDE DEF Fold
  <2>1. Fold(g)
    BY <1>2, <1>5
  <2>2. Fold(it)
    BY <1>3, <2>1
  <2> QED
    BY <1>2, <2>2
<1> QED
  BY <1>1, <1>4, <1>6, FoldSums

\* The total of the portfolio.
LEMMA LoansAreSums ==
    ASSUME NEW rows, IsFiniteSet(DOMAIN rows)
    PROVE  LoansOf(rows) = Sum(Loans(rows), DOMAIN rows)
<1> DEFINE Fold(it) ==
      it = [s \in SUBSET DOMAIN rows |->
              IF s = {} THEN 0
              ELSE Positive(rows[CHOOSE x \in s : TRUE]) + it[s \ {CHOOSE x \in s : TRUE}]]
<1>1. IsFiniteSet(DOMAIN rows)
  BY FS_Subset
<1>2. ASSUME NEW it
      PROVE  Fold(it) <=> IsFold(Loans(rows), DOMAIN rows, it)
  <2>1. ASSUME NEW s \in SUBSET DOMAIN rows
        PROVE  Round(Loans(rows), it, s)
                 = IF s = {} THEN 0
                   ELSE Positive(rows[CHOOSE x \in s : TRUE]) + it[s \ {CHOOSE x \in s : TRUE}]
    <3>1. CASE s = {}
      BY <3>1 DEF Round
    <3>2. CASE s # {}
      <4>1. PICK c : c = CHOOSE x \in s : TRUE
        OBVIOUS
      <4>2. c \in DOMAIN rows
        BY <3>2, <4>1
      <4>3. Loans(rows)[c] = Positive(rows[c])
        BY <4>2 DEF Loans
      <4> QED
        BY <3>2, <4>1, <4>3 DEF Round
    <3> QED
      BY <3>1, <3>2
  <2> QED
    BY <2>1 DEF IsFold
<1>3. PICK it : it = CHOOSE any : Fold(any)
  OBVIOUS
<1>4. LoansOf(rows) = it[DOMAIN rows]
  BY <1>3 DEF LoansOf, MapThenSumSet, MapThenFoldSet
<1>5. PICK g : IsFold(Loans(rows), DOMAIN rows, g)
  BY <1>1, FoldExists
<1>6. IsFold(Loans(rows), DOMAIN rows, it)
  <2> HIDE DEF Fold
  <2>1. Fold(g)
    BY <1>2, <1>5
  <2>2. Fold(it)
    BY <1>3, <2>1
  <2> QED
    BY <1>2, <2>2
<1> QED
  BY <1>1, <1>4, <1>6, FoldSums

\* The total of the treasury liabilities.
LEMMA OverdraftsAreSums ==
    ASSUME NEW A, IsFiniteSet(A)
    PROVE  OverdrawnOf(A) = Sum(Overdrawn(A), A)
<1> DEFINE Fold(it) ==
      it = [s \in SUBSET A |->
              IF s = {} THEN 0
              ELSE Positive(-Net(On({CHOOSE x \in s : TRUE}, Lines))) + it[s \ {CHOOSE x \in s : TRUE}]]
<1>1. IsFiniteSet(A)
  BY FS_Subset
<1>2. ASSUME NEW it
      PROVE  Fold(it) <=> IsFold(Overdrawn(A), A, it)
  <2>1. ASSUME NEW s \in SUBSET A
        PROVE  Round(Overdrawn(A), it, s)
                 = IF s = {} THEN 0
                   ELSE Positive(-Net(On({CHOOSE x \in s : TRUE}, Lines))) + it[s \ {CHOOSE x \in s : TRUE}]
    <3>1. CASE s = {}
      BY <3>1 DEF Round
    <3>2. CASE s # {}
      <4>1. PICK c : c = CHOOSE x \in s : TRUE
        OBVIOUS
      <4>2. c \in A
        BY <3>2, <4>1
      <4>3. Overdrawn(A)[c] = Positive(-Net(On({c}, Lines)))
        BY <4>2 DEF Overdrawn
      <4> QED
        BY <3>2, <4>1, <4>3 DEF Round
    <3> QED
      BY <3>1, <3>2
  <2> QED
    BY <2>1 DEF IsFold
<1>3. PICK it : it = CHOOSE any : Fold(any)
  OBVIOUS
<1>4. OverdrawnOf(A) = it[A]
  BY <1>3 DEF OverdrawnOf, MapThenSumSet, MapThenFoldSet
<1>5. PICK g : IsFold(Overdrawn(A), A, g)
  BY <1>1, FoldExists
<1>6. IsFold(Overdrawn(A), A, it)
  <2> HIDE DEF Fold
  <2>1. Fold(g)
    BY <1>2, <1>5
  <2>2. Fold(it)
    BY <1>3, <2>1
  <2> QED
    BY <1>2, <2>2
<1> QED
  BY <1>1, <1>4, <1>6, FoldSums

-----------------------------------------------------------------------------
(* Nets *)

\* What the lines of the books are.
LinesOK ==
    /\ IsFiniteSet(Lines)
    /\ \A l \in Lines : /\ At(l).debit \in Nat /\ At(l).credit \in Nat
                        /\ At(l).account \in Opened

\* What lines weigh is a number.
LEMMA WeightTypes ==
    ASSUME LinesOK
    PROVE  DebitOf \in [Lines -> Int] /\ CreditOf \in [Lines -> Int] /\ NetOf \in [Lines -> Int]
BY DEF LinesOK, DebitOf, CreditOf, NetOf

\* A net balance is a sum over lines.
LEMMA NetsAreSums ==
    ASSUME LinesOK, NEW ls \in SUBSET Lines
    PROVE  /\ Net(ls) = Sum(NetOf, ls) /\ Net(ls) \in Int
           /\ Debits(ls) \in Int /\ Credits(ls) \in Int
           /\ Net(ls) = Debits(ls) - Credits(ls)
<1>1. IsFiniteSet(Lines) /\ IsFiniteSet(ls)
  BY FS_Subset DEF LinesOK
<1>2. Debits(ls) = Sum(DebitOf, ls) /\ Credits(ls) = Sum(CreditOf, ls)
  BY <1>1, DebitsAreSums, CreditsAreSums
<1>3. Sum(DebitOf, ls) \in Int /\ Sum(CreditOf, ls) \in Int
  BY <1>1, WeightTypes, SumType
<1>4. \A l \in ls : NetOf[l] = DebitOf[l] - CreditOf[l]
  BY DEF NetOf, DebitOf, CreditOf
<1>5. Sum(NetOf, ls) = Sum(DebitOf, ls) - Sum(CreditOf, ls)
  BY <1>1, <1>4, WeightTypes, SumMinus
<1> QED
  BY <1>2, <1>3, <1>5 DEF Net

\* Lines that fall into two parts.
LEMMA NetSplit ==
    ASSUME LinesOK, NEW ls \in SUBSET Lines, NEW ks \in SUBSET Lines, ls \cap ks = {}
    PROVE  Net(ls \cup ks) = Net(ls) + Net(ks)
<1>1. IsFiniteSet(ls) /\ IsFiniteSet(ks) /\ ls \cup ks \in SUBSET Lines
  BY FS_Subset DEF LinesOK
<1>2. Sum(NetOf, ls \cup ks) = Sum(NetOf, ls) + Sum(NetOf, ks)
  BY <1>1, WeightTypes, SumSplit
<1> QED
  BY <1>1, <1>2, NetsAreSums

\* No lines.
LEMMA NetNone ==
    ASSUME LinesOK
    PROVE  Net({}) = 0
BY NetsAreSums, SumEmpty

\* Account by account.
NetPerAccount(A, ls) == [a \in A |-> Net(On({a}, ls))]
AccountOf == [l \in Lines |-> At(l).account]

\* Lines are summed by account: what GROUP BY does.
LEMMA NetByAccount ==
    ASSUME LinesOK, NEW ls \in SUBSET Lines, NEW A, IsFiniteSet(A)
    PROVE  /\ NetPerAccount(A, ls) \in [A -> Int]
           /\ Sum(NetPerAccount(A, ls), A) = Net(On(A, ls))
<1>1. IsFiniteSet(ls)
  BY FS_Subset DEF LinesOK
<1>2. On(A, ls) = Grouped(ls, AccountOf, A) /\ On(A, ls) \in SUBSET Lines
  BY DEF On, Grouped, AccountOf
<1>3. ASSUME NEW a \in A
      PROVE  /\ On({a}, ls) = {l \in ls : AccountOf[l] = a}
             /\ On({a}, ls) \in SUBSET Lines
  BY DEF On, AccountOf
<1>4. ASSUME NEW a \in A
      PROVE  /\ NetPerAccount(A, ls)[a] = Sum(NetOf, {l \in ls : AccountOf[l] = a})
             /\ NetPerAccount(A, ls)[a] \in Int
  <2>1. Net(On({a}, ls)) = Sum(NetOf, On({a}, ls)) /\ Net(On({a}, ls)) \in Int
    BY <1>3, NetsAreSums
  <2>2. NetPerAccount(A, ls)[a] = Net(On({a}, ls))
    BY DEF NetPerAccount
  <2> QED
    BY <1>3, <2>1, <2>2
<1>5. NetPerAccount(A, ls) \in [A -> Int]
  <2>1. DOMAIN NetPerAccount(A, ls) = A /\ NetPerAccount(A, ls) = [a \in A |-> NetPerAccount(A, ls)[a]]
    BY DEF NetPerAccount
  <2> QED
    BY <1>4, <2>1
<1>6. GroupSums(NetOf, ls, AccountOf, A, NetPerAccount(A, ls))
  <2>1. DOMAIN NetOf = Lines /\ NetOf \in [Lines -> Int]
    BY WeightTypes
  <2> QED
    BY <1>1, <1>4, <1>5, <2>1 DEF GroupSums
<1>7. Sum(NetOf, Grouped(ls, AccountOf, A)) = Sum(NetPerAccount(A, ls), A)
  BY <1>6, SumGroups
<1> QED
  BY <1>2, <1>5, <1>7, NetsAreSums

\* Two groups of accounts that do not meet.
LEMMA NetOfAccounts ==
    ASSUME LinesOK, NEW ls \in SUBSET Lines, NEW A, NEW B, A \cap B = {}
    PROVE  Net(On(A \cup B, ls)) = Net(On(A, ls)) + Net(On(B, ls))
<1>1. /\ On(A \cup B, ls) = On(A, ls) \cup On(B, ls)
      /\ On(A, ls) \cap On(B, ls) = {}
      /\ On(A, ls) \in SUBSET Lines /\ On(B, ls) \in SUBSET Lines
  BY DEF On
<1> QED
  BY <1>1, NetSplit

-----------------------------------------------------------------------------
(* The books *)

\* The lines of every entry are in balance and on accounts that are open, and there
\* are not infinitely many.
BooksInv ==
    /\ entries \in [EntryIds -> Row \cup {NoRow}]
    /\ lastSeq \in [Journals -> Nat]
    /\ chart \in [Accounts -> AccountRow \cup {NoRow}]
    /\ IsFiniteSet(Recorded) /\ IsFiniteSet(Opened)
    /\ \A e \in Recorded : /\ Balanced(entries[e].lines)
                           /\ \A i \in DOMAIN entries[e].lines :
                                 entries[e].lines[i].account \in Opened

EntryLines(e) == {e} \X DOMAIN entries[e].lines

\* A recorded entry is a row.
LEMMA RowTypes ==
    ASSUME BooksInv, NEW e \in Recorded
    PROVE  /\ entries[e] \in Row /\ entries[e].lines \in Seq(Line)
           /\ entries[e].date \in Periods /\ e \in EntryIds
BY DEF BooksInv, Recorded, Row

\* The lines of the books are finitely many and on accounts that are open.
LEMMA BooksLines ==
    ASSUME BooksInv
    PROVE  /\ LinesOK
           /\ \A e \in Recorded : EntryLines(e) \in SUBSET Lines /\ IsFiniteSet(EntryLines(e))
           /\ \A l \in Lines : /\ l[1] \in Recorded /\ l[2] \in DOMAIN entries[l[1]].lines
                               /\ l = <<l[1], l[2]>> /\ DateOf(l) \in Periods
<1>1. ASSUME NEW e \in Recorded
      PROVE  IsFiniteSet(EntryLines(e))
  <2>1. entries[e].lines \in Seq(Line)
    BY RowTypes
  <2>2. Len(entries[e].lines) \in Nat /\ DOMAIN entries[e].lines = 1..Len(entries[e].lines)
    BY <2>1
  <2>3. IsFiniteSet(DOMAIN entries[e].lines)
    BY <2>2, FS_Interval
  <2>4. IsFiniteSet({e})
    BY FS_Singleton
  <2> QED
    BY <2>3, <2>4, FS_Product DEF EntryLines
<1>2. PICK Es : Es = {EntryLines(e) : e \in Recorded}
  OBVIOUS
<1>3. Lines = UNION Es
  BY <1>2 DEF Lines, EntryLines
<1>4. IsFiniteSet(Es)
  <2>1. IsFiniteSet(Recorded)
    BY DEF BooksInv
  <2>2. [e \in Recorded |-> EntryLines(e)] \in Surjection(Recorded, Es)
    BY <1>2 DEF Surjection
  <2> QED
    BY <2>1, <2>2, FS_Surjection
<1>5. IsFiniteSet(Lines)
  <2>1. \A T \in Es : IsFiniteSet(T)
    BY <1>1, <1>2
  <2> QED
    BY <1>3, <1>4, <2>1, FS_UNION
<1>6. ASSUME NEW l \in Lines
      PROVE  /\ l[1] \in Recorded /\ l[2] \in DOMAIN entries[l[1]].lines
             /\ l = <<l[1], l[2]>> /\ DateOf(l) \in Periods
             /\ At(l).debit \in Nat /\ At(l).credit \in Nat /\ At(l).account \in Opened
  <2>1. PICK e \in Recorded : l \in {e} \X DOMAIN entries[e].lines
    BY DEF Lines
  <2>2. l[1] = e /\ l[2] \in DOMAIN entries[e].lines /\ l = <<l[1], l[2]>>
    BY <2>1
  <2>3. entries[e].lines \in Seq(Line) /\ entries[e].date \in Periods
    BY RowTypes
  <2>4. entries[e].lines[l[2]] \in Line
    BY <2>2, <2>3
  <2>5. entries[e].lines[l[2]].account \in Opened
    BY <2>2 DEF BooksInv
  <2> QED
    BY <2>2, <2>3, <2>4, <2>5 DEF At, DateOf, Line
<1>7. \A e \in Recorded : EntryLines(e) \in SUBSET Lines
  BY DEF Lines, EntryLines
<1> QED
  BY <1>1, <1>5, <1>6, <1>7 DEF LinesOK

First  == [l \in Lines |-> l[1]]
Second == [l \in Lines |-> l[2]]

\* SumFunction, over the indices of the lines of an entry, is such a sum.
LEMMA FunctionSum ==
    ASSUME NEW v
    PROVE  SumFunction(v) = Sum(v, DOMAIN v)
BY DEF SumFunction, SumFunctionOnSet, FoldFunctionOnSet, Sum, MapThenSumSet, MapThenFoldSet

\* The two sides of an entry are the totals that were compared.
LEMMA EntryTotals ==
    ASSUME BooksInv, NEW e \in Recorded, NEW w, NEW v, w \in [Lines -> Int],
           v \in [DOMAIN entries[e].lines -> Int],
           \A i \in DOMAIN entries[e].lines : v[i] = w[<<e, i>>]
    PROVE  Sum(w, EntryLines(e)) = Sum(v, DOMAIN v)
<1>1. /\ EntryLines(e) \in SUBSET Lines /\ IsFiniteSet(EntryLines(e))
      /\ entries[e].lines \in Seq(Line)
  BY BooksLines, RowTypes
<1>2. IsFiniteSet(DOMAIN v)
  <2>1. Len(entries[e].lines) \in Nat /\ DOMAIN v = 1..Len(entries[e].lines)
    BY <1>1
  <2> QED
    BY <2>1, FS_Interval
<1>3. ASSUME NEW i \in DOMAIN v
      PROVE  v[i] = Sum(w, {l \in EntryLines(e) : Second[l] = i})
  <2>1. <<e, i>> \in EntryLines(e) /\ <<e, i>> \in Lines
    BY <1>1 DEF EntryLines
  <2>2. {l \in EntryLines(e) : Second[l] = i} = {<<e, i>>}
    <3>1. ASSUME NEW l \in EntryLines(e)
          PROVE  Second[l] = i <=> l = <<e, i>>
      BY <1>1 DEF EntryLines, Second
    <3> QED
      BY <2>1, <3>1
  <2>3. Sum(w, {<<e, i>>}) = w[<<e, i>>]
    BY <2>1, SumOne
  <2> QED
    BY <2>2, <2>3
<1>4. GroupSums(w, EntryLines(e), Second, DOMAIN v, v)
  BY <1>1, <1>2, <1>3 DEF GroupSums
<1>5. Grouped(EntryLines(e), Second, DOMAIN v) = EntryLines(e)
  BY <1>1 DEF Grouped, EntryLines, Second
<1> QED
  BY <1>4, <1>5, SumGroups

\* Debits and credits of an entry.
LEMMA AmountTypes ==
    ASSUME NEW ls \in Seq(Line)
    PROVE  /\ [i \in DOMAIN ls |-> ls[i].debit] \in [DOMAIN ls -> Int]
           /\ [i \in DOMAIN ls |-> ls[i].credit] \in [DOMAIN ls -> Int]
<1>1. \A i \in DOMAIN ls : ls[i] \in Line
  OBVIOUS
<1>2. \A i \in DOMAIN ls : ls[i].debit \in Int /\ ls[i].credit \in Int
  BY <1>1 DEF Line
<1> QED
  BY <1>2

\* The two totals that were compared are what the lines weigh on each side.
LEMMA EntrySides ==
    ASSUME BooksInv, NEW e \in Recorded
    PROVE  /\ TotalDebit(entries[e].lines) = Sum(DebitOf, EntryLines(e))
           /\ TotalCredit(entries[e].lines) = Sum(CreditOf, EntryLines(e))
           /\ TotalDebit(entries[e].lines) = TotalCredit(entries[e].lines)
<1>1. PICK ls : ls = entries[e].lines
  OBVIOUS
<1>2. /\ LinesOK /\ EntryLines(e) \in SUBSET Lines /\ IsFiniteSet(Lines)
      /\ ls \in Seq(Line) /\ Balanced(ls)
  BY <1>1, BooksLines, RowTypes DEF BooksInv, LinesOK
<1>3. ASSUME NEW i \in DOMAIN ls
      PROVE  <<e, i>> \in Lines /\ At(<<e, i>>) = ls[i]
  BY <1>1, <1>2 DEF At, EntryLines
<1>4. TotalDebit(ls) = Sum(DebitOf, EntryLines(e))
  <2>1. PICK v : v = [i \in DOMAIN ls |-> ls[i].debit]
    OBVIOUS
  <2>2. TotalDebit(ls) = Sum(v, DOMAIN v)
    BY <2>1, FunctionSum DEF TotalDebit
  <2>3. v \in [DOMAIN ls -> Int]
    BY <1>2, <2>1, AmountTypes
  <2>4. DebitOf \in [Lines -> Int]
    BY <1>2, WeightTypes
  <2>5. \A i \in DOMAIN ls : v[i] = DebitOf[<<e, i>>]
    BY <1>3, <2>1 DEF DebitOf
  <2>6. Sum(DebitOf, EntryLines(e)) = Sum(v, DOMAIN v)
    BY <1>1, <2>3, <2>4, <2>5, EntryTotals
  <2> QED
    BY <2>2, <2>6
<1>5. TotalCredit(ls) = Sum(CreditOf, EntryLines(e))
  <2>1. PICK v : v = [i \in DOMAIN ls |-> ls[i].credit]
    OBVIOUS
  <2>2. TotalCredit(ls) = Sum(v, DOMAIN v)
    BY <2>1, FunctionSum DEF TotalCredit
  <2>3. v \in [DOMAIN ls -> Int]
    BY <1>2, <2>1, AmountTypes
  <2>4. CreditOf \in [Lines -> Int]
    BY <1>2, WeightTypes
  <2>5. \A i \in DOMAIN ls : v[i] = CreditOf[<<e, i>>]
    BY <1>3, <2>1 DEF CreditOf
  <2>6. Sum(CreditOf, EntryLines(e)) = Sum(v, DOMAIN v)
    BY <1>1, <2>3, <2>4, <2>5, EntryTotals
  <2> QED
    BY <2>2, <2>6
<1>6. TotalDebit(ls) = TotalCredit(ls)
  BY <1>2 DEF Balanced
<1> QED
  BY <1>1, <1>4, <1>5, <1>6

\* The lines of an entry net to nothing.
LEMMA EntryNet ==
    ASSUME BooksInv, NEW e \in Recorded
    PROVE  Net(EntryLines(e)) = 0
<1>1. LinesOK /\ EntryLines(e) \in SUBSET Lines /\ IsFiniteSet(Lines)
  BY BooksLines DEF LinesOK
<1>2. Sum(DebitOf, EntryLines(e)) = Sum(CreditOf, EntryLines(e))
  BY EntrySides
<1>3. Debits(EntryLines(e)) = Credits(EntryLines(e)) /\ Debits(EntryLines(e)) \in Int
  BY <1>1, <1>2, DebitsAreSums, CreditsAreSums, NetsAreSums
<1> QED
  BY <1>3 DEF Net

\* Any entries together are in balance.
LEMMA EntriesNet ==
    ASSUME BooksInv, NEW Es \in SUBSET Recorded
    PROVE  Net({l \in Lines : l[1] \in Es}) = 0
<1>1. LinesOK /\ IsFiniteSet(Es) /\ IsFiniteSet(Lines)
  BY BooksLines, FS_Subset DEF BooksInv, LinesOK
<1>2. PICK zero : zero = [e \in Es |-> 0]
  OBVIOUS
<1>3. ASSUME NEW e \in Es
      PROVE  zero[e] = Sum(NetOf, {l \in Lines : First[l] = e})
  <2>1. {l \in Lines : First[l] = e} = EntryLines(e)
    <3>1. ASSUME NEW l \in Lines
          PROVE  First[l] = e <=> l \in EntryLines(e)
      BY BooksLines DEF First, EntryLines
    <3>2. EntryLines(e) \subseteq Lines
      BY BooksLines
    <3> QED
      BY <3>1, <3>2
  <2>2. Net(EntryLines(e)) = 0 /\ EntryLines(e) \in SUBSET Lines
    BY EntryNet, BooksLines
  <2>3. Sum(NetOf, EntryLines(e)) = 0
    BY <1>1, <2>2, NetsAreSums
  <2> QED
    BY <1>2, <2>1, <2>3
<1>4. GroupSums(NetOf, Lines, First, Es, zero)
  <2>1. NetOf \in [Lines -> Int] /\ DOMAIN NetOf = Lines /\ zero \in [Es -> Int]
    BY <1>1, <1>2, WeightTypes
  <2> QED
    BY <1>1, <1>3, <2>1 DEF GroupSums
<1>5. Sum(zero, Es) = 0
  <2>1. zero \in [Es -> Int] /\ \A e \in Es : zero[e] = 0
    BY <1>2
  <2> QED
    BY <1>1, <2>1, SumZero
<1>6. Sum(NetOf, Grouped(Lines, First, Es)) = 0
  BY <1>4, <1>5, SumGroups
<1>7. {l \in Lines : l[1] \in Es} = Grouped(Lines, First, Es)
  BY DEF Grouped, First
<1>8. {l \in Lines : l[1] \in Es} \in SUBSET Lines
  OBVIOUS
<1> QED
  BY <1>1, <1>6, <1>7, <1>8, NetsAreSums

\* The invariant holds of empty books.
LEMMA BooksInit ==
    ASSUME ChartInit
    PROVE  BooksInv
<1>1. \A p \in Accounts \cup {NoAccount} : Fresh(p) \in AccountRow /\ Fresh(p) # NoRow
  <2>1. \A p \in Accounts \cup {NoAccount} : Fresh(p) \in AccountRow
    BY DEF Fresh, AccountRow
  <2> QED
    BY <2>1, TemplateAssumption
<1>2. chart \in [Accounts -> AccountRow \cup {NoRow}] /\ Opened = Template
  BY <1>1, TemplateAssumption DEF ChartInit, Opened
<1>3. Recorded = {}
  BY DEF ChartInit, Init, Recorded
<1>4. entries \in [EntryIds -> Row \cup {NoRow}] /\ lastSeq \in [Journals -> Nat]
  BY DEF ChartInit, Init
<1> QED
  BY <1>2, <1>3, <1>4, TemplateAssumption, FS_EmptySet DEF BooksInv

\* Wherever an account is opened, the lines of an entry may be booked.
OnOpened(ls) == \A i \in DOMAIN ls : ls[i].account \in Opened

\* A row that balances, on accounts that are open, keeps the books so.
LEMMA EnterKeeps ==
    ASSUME BooksInv, NEW e \in EntryIds, NEW row \in Row, Enter(e, row),
           Balanced(row.lines), OnOpened(row.lines), UNCHANGED chart
    PROVE  BooksInv'
<1>1. Opened' = Opened
  BY DEF Opened
<1>2. /\ entries' = [entries EXCEPT ![e] = row] /\ lastSeq' = [lastSeq EXCEPT ![row.journal] = row.seq]
      /\ e \notin Recorded /\ row # NoRow
  BY NullAssumption DEF Enter
<1>3. Recorded' = Recorded \cup {e}
  BY <1>2 DEF Recorded, BooksInv
<1>4. IsFiniteSet(Recorded')
  BY <1>3, FS_AddElement DEF BooksInv
<1>5. entries' \in [EntryIds -> Row \cup {NoRow}] /\ lastSeq' \in [Journals -> Nat]
  BY <1>2 DEF BooksInv, Row
<1>6. ASSUME NEW f \in Recorded'
      PROVE  Balanced(entries'[f].lines) /\ \A i \in DOMAIN entries'[f].lines :
                                               entries'[f].lines[i].account \in Opened
  <2>1. CASE f = e
    BY <1>2, <2>1 DEF BooksInv, OnOpened
  <2>2. CASE f # e
    <3>1. f \in Recorded /\ entries'[f] = entries[f]
      BY <1>2, <1>3, <1>6, <2>2 DEF BooksInv, Recorded
    <3> QED
      BY <3>1 DEF BooksInv
  <2> QED
    BY <2>1, <2>2
<1> QED
  BY <1>1, <1>4, <1>5, <1>6 DEF BooksInv

\* create_entry.
LEMMA RecordKeeps ==
    ASSUME BooksInv, NEW e \in EntryIds, NEW x \in Submissions,
           RecordOnActive(e, x.journal, x.date, x.lines)
    PROVE  BooksInv'
<1>1. x.journal \in Journals /\ x.date \in Periods /\ x.lines \in Bodies
  BY SubmissionAssumption
<1>2. x.lines \in Seq(Line) /\ Balanced(x.lines)
  BY <1>1, BodyAssumption
<1>3. PICK row : row = [journal |-> x.journal, seq |-> lastSeq[x.journal] + 1, date |-> x.date,
                        lines |-> x.lines, status |-> "DRAFT", mirrorOf |-> NoEntry,
                        event |-> NoEvent, postedBy |-> NoUser]
  OBVIOUS
<1>4. row \in Row /\ row.lines = x.lines
  BY <1>1, <1>2, <1>3 DEF Row, Statuses, BooksInv
<1>5. Enter(e, row) /\ UNCHANGED chart
  BY <1>3 DEF RecordOnActive, Record
<1>6. OnOpened(x.lines)
  BY DEF RecordOnActive, OnOpened
<1> QED
  BY <1>2, <1>4, <1>5, <1>6, EnterKeeps

\* process_event.
LEMMA IngestKeeps ==
    ASSUME BooksInv, NEW e \in EntryIds, NEW ev \in Events, NEW u \in Users, Ingest(e, ev, u)
    PROVE  BooksInv'
<1>1. /\ Posting[ev].journal \in Journals /\ Posting[ev].date \in Periods
      /\ Posting[ev].lines \in Bodies
  BY BodyAssumption
<1>2. Posting[ev].lines \in Seq(Line) /\ Balanced(Posting[ev].lines)
  BY <1>1, BodyAssumption
<1>3. PICK row : row = [journal |-> Posting[ev].journal, seq |-> lastSeq[Posting[ev].journal] + 1,
                        date |-> Posting[ev].date, lines |-> Posting[ev].lines,
                        status |-> "POSTED", mirrorOf |-> NoEntry, event |-> ev, postedBy |-> u]
  OBVIOUS
<1>4. row \in Row /\ row.lines = Posting[ev].lines
  BY <1>1, <1>2, <1>3 DEF Row, Statuses, BooksInv
<1>5. Enter(e, row) /\ UNCHANGED chart
  BY <1>3 DEF Ingest, Book
<1>6. OnOpened(Posting[ev].lines)
  BY DEF Ingest, OnOpened
<1> QED
  BY <1>2, <1>4, <1>5, <1>6, EnterKeeps

\* post_entry.
LEMMA PostKeeps ==
    ASSUME BooksInv, NEW e \in EntryIds, NEW u \in Users, Post(e, u)
    PROVE  BooksInv'
<1>1. PICK row : row = [entries[e] EXCEPT !.status = "POSTED", !.postedBy = u]
  OBVIOUS
<1>2. e \in Recorded /\ entries[e] \in Row /\ UNCHANGED <<lastSeq, chart>>
  BY RowTypes DEF Post, Validate
<1>3. row \in Row /\ row.lines = entries[e].lines /\ row # NoRow
  <2>1. row \in Row
    BY <1>1, <1>2 DEF Row, Statuses
  <2>2. row.lines = entries[e].lines
    BY <1>1, <1>2 DEF Row
  <2>3. row # NoRow
    BY <2>1, NullAssumption
  <2> QED
    BY <2>1, <2>2, <2>3
<1>4. entries' = [entries EXCEPT ![e] = row]
  BY <1>1, <1>2 DEF Post, Validate, BooksInv
<1>5. Recorded' = Recorded /\ Opened' = Opened
  BY <1>2, <1>3, <1>4 DEF Recorded, Opened, BooksInv
<1>6. ASSUME NEW f \in Recorded
      PROVE  entries'[f].lines = entries[f].lines
  BY <1>3, <1>4 DEF BooksInv, Recorded
<1>7. entries' \in [EntryIds -> Row \cup {NoRow}]
  BY <1>3, <1>4 DEF BooksInv
<1> QED
  BY <1>2, <1>5, <1>6, <1>7 DEF BooksInv

\* The lines of a reversal balance when those it undoes do, on the same accounts.
LEMMA MirrorOK ==
    ASSUME NEW ls \in Seq(Line), Balanced(ls)
    PROVE  Mirror(ls) \in Seq(Line) /\ Balanced(Mirror(ls))
<1>1. Mirror(ls) \in Seq(Line)
  <2>1. \A i \in DOMAIN ls : ls[i] \in Line
    OBVIOUS
  <2>2. Len(ls) \in Nat /\ DOMAIN ls = 1..Len(ls)
    OBVIOUS
  <2>3. Mirror(ls) \in [1..Len(ls) -> Line]
    BY <2>1, <2>2 DEF Mirror, Line
  <2> QED
    BY <2>2, <2>3
<1>2. /\ [i \in DOMAIN Mirror(ls) |-> Mirror(ls)[i].debit] = [i \in DOMAIN ls |-> ls[i].credit]
      /\ [i \in DOMAIN Mirror(ls) |-> Mirror(ls)[i].credit] = [i \in DOMAIN ls |-> ls[i].debit]
  BY DEF Mirror
<1>3. TotalDebit(Mirror(ls)) = TotalCredit(ls) /\ TotalCredit(Mirror(ls)) = TotalDebit(ls)
  BY <1>2 DEF TotalDebit, TotalCredit
<1> QED
  BY <1>1, <1>3 DEF Balanced

\* reverse_entry.
LEMMA ReverseKeeps ==
    ASSUME BooksInv, NEW e \in EntryIds, NEW m \in EntryIds, NEW d \in Periods,
           NEW u \in Users, ReverseOn(e, m, d, u)
    PROVE  BooksInv'
<1>1. PICK ls : ls = entries[e].lines
  OBVIOUS
<1>2. /\ e \in Recorded /\ m \notin Recorded /\ e # m /\ entries[e] \in Row /\ UNCHANGED chart
      /\ ls \in Seq(Line) /\ Balanced(ls) /\ OnOpened(ls)
  BY <1>1, RowTypes DEF ReverseOn, Reverse, BooksInv, OnOpened
<1>3. PICK old : old = [entries[e] EXCEPT !.status = "REVERSED"]
  OBVIOUS
<1>4. PICK new : new = [journal |-> EX, seq |-> lastSeq[EX] + 1, date |-> d, lines |-> Mirror(ls),
                        status |-> "POSTED", mirrorOf |-> e, event |-> NoEvent, postedBy |-> u]
  OBVIOUS
<1>5. old \in Row /\ old.lines = ls /\ old # NoRow
  BY <1>1, <1>2, <1>3, NullAssumption DEF Row, Statuses
<1>6. Mirror(ls) \in Seq(Line) /\ Balanced(Mirror(ls)) /\ OnOpened(Mirror(ls))
  <2>1. OnOpened(Mirror(ls))
    BY <1>2 DEF OnOpened, Mirror
  <2> QED
    BY <1>2, <2>1, MirrorOK
<1>7. lastSeq[EX] + 1 \in Nat
  BY JournalAssumption DEF BooksInv
<1>8. new \in Row /\ new.lines = Mirror(ls) /\ new # NoRow
  BY <1>4, <1>6, <1>7, JournalAssumption, NullAssumption DEF Row, Statuses
<1>9. /\ entries' = [entries EXCEPT ![e] = old, ![m] = new]
      /\ lastSeq' = [lastSeq EXCEPT ![EX] = lastSeq[EX] + 1]
  BY <1>1, <1>3, <1>4 DEF ReverseOn, Reverse
<1>10. Recorded' = Recorded \cup {m} /\ Opened' = Opened
  BY <1>2, <1>5, <1>8, <1>9 DEF Recorded, Opened, BooksInv
<1>11. IsFiniteSet(Recorded')
  BY <1>10, FS_AddElement DEF BooksInv
<1>12. entries' \in [EntryIds -> Row \cup {NoRow}] /\ lastSeq' \in [Journals -> Nat]
  BY <1>5, <1>7, <1>8, <1>9 DEF BooksInv
<1>13. ASSUME NEW f \in Recorded'
       PROVE  Balanced(entries'[f].lines) /\ OnOpened(entries'[f].lines)
  <2>1. CASE f = m
    BY <1>2, <1>6, <1>8, <1>9, <2>1 DEF BooksInv
  <2>2. CASE f = e
    BY <1>2, <1>5, <1>9, <2>2 DEF BooksInv
  <2>3. CASE f # m /\ f # e
    <3>1. f \in Recorded /\ entries'[f] = entries[f]
      BY <1>9, <1>10, <1>13, <2>3 DEF BooksInv, Recorded
    <3> QED
      BY <3>1 DEF BooksInv, OnOpened
  <2> QED
    BY <2>1, <2>2, <2>3
<1> QED
  BY <1>2, <1>10, <1>11, <1>12, <1>13 DEF BooksInv, OnOpened

\* The chart changes under the entries, but closes no account.
LEMMA ChartKeeps ==
    ASSUME BooksInv, UNCHANGED vars, chart' \in [Accounts -> AccountRow \cup {NoRow}],
           Opened \subseteq Opened', IsFiniteSet(Opened')
    PROVE  BooksInv'
<1>1. UNCHANGED <<entries, lastSeq>>
  BY DEF vars
<1>2. Recorded' = Recorded
  BY <1>1 DEF Recorded
<1> QED
  BY <1>1, <1>2 DEF BooksInv

\* AccountService.create.
LEMMA OpenKeeps ==
    ASSUME BooksInv, NEW a \in Accounts, NEW p, OpenAccount(a, p)
    PROVE  BooksInv'
<1>1. \A q \in Accounts \cup {NoAccount} : Fresh(q) \in AccountRow /\ Fresh(q) # NoRow
  <2>1. \A q \in Accounts \cup {NoAccount} : Fresh(q) \in AccountRow
    BY DEF Fresh, AccountRow
  <2> QED
    BY <2>1, TemplateAssumption
<1>2. p \in Accounts \cup {NoAccount} /\ a \notin Opened /\ p # a /\ UNCHANGED vars
  BY TemplateAssumption DEF OpenAccount, Opened
<1>3. \A b \in Opened : chart[b] \in AccountRow
  BY DEF BooksInv, Opened
<1>4. ASSUME NEW b \in Opened
      PROVE  [chart[b] EXCEPT !.leaf = FALSE] \in AccountRow
  BY <1>3 DEF AccountRow
<1>5. ASSUME NEW b \in Accounts
      PROVE  /\ b = a => chart'[b] = Fresh(p)
             /\ b # a /\ b = p => chart'[b] = [chart[b] EXCEPT !.leaf = FALSE]
             /\ b # a /\ b # p => chart'[b] = chart[b]
  <2>1. CASE b = a
    BY <1>2, <2>1 DEF OpenAccount
  <2>2. CASE b # a /\ b = p
    <3>1. chart'[b] = CASE b = a -> Fresh(p)
                        [] b = p -> [chart[p] EXCEPT !.leaf = FALSE]
                        [] OTHER -> chart[b]
      BY DEF OpenAccount
    <3>2. chart'[p] = [chart[p] EXCEPT !.leaf = FALSE]
      BY <2>2, <3>1
    <3> QED
      BY <2>2, <3>2
  <2>3. CASE b # a /\ b # p
    BY <2>3 DEF OpenAccount
  <2> QED
    BY <2>1, <2>2, <2>3
<1>6. ASSUME NEW b \in Accounts
      PROVE  chart'[b] \in AccountRow \cup {NoRow} /\ (chart'[b] # NoRow <=> b \in Opened \cup {a})
  <2>1. CASE b = a
    BY <1>1, <1>2, <1>5, <2>1
  <2>2. CASE b # a /\ b = p
    <3>1. b \in Opened
      BY <2>2, TemplateAssumption DEF OpenAccount
    <3>2. chart'[b] \in AccountRow
      BY <1>4, <1>5, <2>2, <3>1
    <3> QED
      BY <3>1, <3>2, TemplateAssumption
  <2>3. CASE b # a /\ b # p
    BY <1>5, <2>3 DEF BooksInv, Opened
  <2> QED
    BY <2>1, <2>2, <2>3
<1>7. chart' \in [Accounts -> AccountRow \cup {NoRow}]
  <2>1. chart' = [b \in Accounts |-> chart'[b]]
    BY DEF OpenAccount
  <2> QED
    BY <1>6, <2>1
<1>8. Opened' = Opened \cup {a}
  BY <1>6 DEF Opened
<1>9. IsFiniteSet(Opened')
  BY <1>8, FS_AddElement DEF BooksInv
<1> QED
  BY <1>2, <1>7, <1>8, <1>9, ChartKeeps

\* deactivate and update
LEMMA SwitchKeeps ==
    ASSUME BooksInv, NEW a \in Opened, NEW active \in BOOLEAN, UNCHANGED vars,
           chart' = [chart EXCEPT ![a].active = active]
    PROVE  BooksInv'
<1>1. PICK row : row = [chart[a] EXCEPT !.active = active]
  OBVIOUS
<1>2. a \in Accounts /\ chart[a] \in AccountRow
  BY DEF BooksInv, Opened
<1>3. row \in AccountRow /\ row # NoRow
  <2>1. row \in AccountRow
    BY <1>1, <1>2 DEF AccountRow
  <2> QED
    BY <2>1, TemplateAssumption
<1>4. chart' = [chart EXCEPT ![a] = row]
  BY <1>1, <1>2 DEF BooksInv
<1>5. chart' \in [Accounts -> AccountRow \cup {NoRow}] /\ Opened' = Opened
  BY <1>2, <1>3, <1>4 DEF BooksInv, Opened
<1> QED
  BY <1>5, ChartKeeps DEF BooksInv

\* No operation on entries or accounts disturbs the books.
LEMMA BooksStep ==
    ASSUME BooksInv, [ReportNext]_reportVars
    PROVE  BooksInv'
<1>1. ASSUME NEW e \in EntryIds, NEW x \in Submissions,
             RecordOnActive(e, x.journal, x.date, x.lines)
      PROVE  BooksInv'
  BY <1>1, RecordKeeps
<1>2. ASSUME NEW e \in EntryIds, NEW u \in Users, Post(e, u)
      PROVE  BooksInv'
  BY <1>2, PostKeeps
<1>3. ASSUME NEW e \in EntryIds, NEW u \in Users, NEW ev \in Events, Ingest(e, ev, u)
      PROVE  BooksInv'
  BY <1>3, IngestKeeps
<1>4. ASSUME NEW e \in EntryIds, NEW u \in Users, NEW m \in EntryIds, NEW d \in Periods,
             ReverseOn(e, m, d, u)
      PROVE  BooksInv'
  BY <1>4, ReverseKeeps
<1>5. ASSUME NEW o \in Openings, OpenAccount(o[1], o[2])
      PROVE  BooksInv'
  BY <1>5, OpeningAssumption, OpenKeeps
<1>6. ASSUME NEW a \in Retirable, NEW today \in Periods, Deactivate(a, today)
      PROVE  BooksInv'
  <2>1. a \in Opened /\ chart' = [chart EXCEPT ![a].active = FALSE] /\ UNCHANGED vars
    BY <1>6 DEF Deactivate
  <2> QED
    BY <2>1, SwitchKeeps
<1>7. ASSUME NEW a \in Retirable, NEW active \in BOOLEAN, Patch(a, active)
      PROVE  BooksInv'
  <2>1. a \in Opened /\ chart' = [chart EXCEPT ![a].active = active] /\ UNCHANGED vars
    BY <1>7 DEF Patch
  <2> QED
    BY <2>1, SwitchKeeps
<1>8. CASE UNCHANGED reportVars
  BY <1>8 DEF reportVars, vars, BooksInv, Recorded, Opened
<1>9. CASE ReportNext
  <2>1. CASE \E e \in EntryIds : \/ \E x \in Submissions : RecordOnActive(e, x.journal, x.date, x.lines)
                                \/ \E u \in Users :
                                     \/ Post(e, u)
                                     \/ \E ev \in Events : Ingest(e, ev, u)
                                     \/ \E m \in EntryIds, d \in Periods : ReverseOn(e, m, d, u)
    BY <1>1, <1>2, <1>3, <1>4, <2>1
  <2>2. CASE \E o \in Openings : OpenAccount(o[1], o[2])
    BY <1>5, <2>2
  <2>3. CASE \E a \in Retirable : \/ \E today \in Periods : Deactivate(a, today)
                                 \/ \E active \in BOOLEAN : Patch(a, active)
    BY <1>6, <1>7, <2>3
  <2> QED
    BY <1>9, <2>1, <2>2, <2>3 DEF ReportNext
<1> QED
  BY <1>8, <1>9

\* The books stay in balance, on accounts that are open, whatever becomes of these.
LEMMA BooksSound == ReportSpec => []BooksInv
<1>1. ChartInit => BooksInv
  BY BooksInit
<1>2. BooksInv /\ [ReportNext]_reportVars => BooksInv'
  BY BooksStep
<1> QED
  BY <1>1, <1>2, PTL DEF ReportSpec

-----------------------------------------------------------------------------
(* What is posted in a window of days *)

\* What is posted in a window of days is whole entries: it nets to nothing.
LEMMA Windows ==
    ASSUME BooksInv, NEW s, NEW d
    PROVE  /\ Before(s) \in SUBSET Lines /\ Net(Before(s)) = 0
           /\ Within(s, d) \in SUBSET Lines /\ Net(Within(s, d)) = 0
           /\ Until(d) \in SUBSET Lines /\ Net(Until(d)) = 0
<1>1. Net(Before(s)) = 0
  <2>1. PICK Es \in SUBSET Recorded : Es = {e \in Recorded : entries[e].status = "POSTED" /\ entries[e].date < s}
    OBVIOUS
  <2>2. Before(s) = {l \in Lines : l[1] \in Es}
    BY <2>1, BooksLines DEF Before, PostedLines, DateOf
  <2> QED
    BY <2>1, <2>2, EntriesNet
<1>2. Net(Within(s, d)) = 0
  <2>1. PICK Es \in SUBSET Recorded : Es = {e \in Recorded : entries[e].status = "POSTED" /\ entries[e].date \in s..d}
    OBVIOUS
  <2>2. Within(s, d) = {l \in Lines : l[1] \in Es}
    BY <2>1, BooksLines DEF Within, PostedLines, DateOf
  <2> QED
    BY <2>1, <2>2, EntriesNet
<1>3. Net(Until(d)) = 0
  <2>1. PICK Es \in SUBSET Recorded : Es = {e \in Recorded : entries[e].status = "POSTED" /\ entries[e].date <= d}
    OBVIOUS
  <2>2. Until(d) = {l \in Lines : l[1] \in Es}
    BY <2>1, BooksLines DEF Until, PostedLines, DateOf
  <2> QED
    BY <2>1, <2>2, EntriesNet
<1> QED
  BY <1>1, <1>2, <1>3 DEF Before, Within, Until, PostedLines

\* What is posted until a day is what was before a window and what is in it.
LEMMA WindowsMeet ==
    ASSUME BooksInv, NEW s \in Periods, NEW d \in Periods, s <= d
    PROVE  Until(d) = Before(s) \cup Within(s, d) /\ Before(s) \cap Within(s, d) = {}
<1>1. s \in Nat /\ d \in Nat /\ \A l \in Lines : DateOf(l) \in Nat
  BY BooksLines, TemplateAssumption
<1>2. ASSUME NEW l \in Lines
      PROVE  /\ DateOf(l) <= d <=> DateOf(l) < s \/ DateOf(l) \in s..d
             /\ ~(DateOf(l) < s /\ DateOf(l) \in s..d)
  BY <1>1
<1> QED
  BY <1>2 DEF Until, Before, Within, PostedLines

\* What is booked on some accounts is missing from the others.
LEMMA NetOfRest ==
    ASSUME BooksInv, NEW ls \in SUBSET Lines, Net(ls) = 0, NEW A \in SUBSET Opened
    PROVE  Net(On(A, ls)) = -Net(On(Opened \ A, ls)) /\ Net(On(A, ls)) \in Int
<1>1. LinesOK /\ On(A, ls) \in SUBSET Lines /\ On(Opened \ A, ls) \in SUBSET Lines
  BY BooksLines DEF On
<1>2. On(A \cup (Opened \ A), ls) = ls
  BY <1>1 DEF On, LinesOK
<1>3. Net(On(A \cup (Opened \ A), ls)) = Net(On(A, ls)) + Net(On(Opened \ A, ls))
  BY <1>1, NetOfAccounts
<1>4. Net(On(A, ls)) \in Int /\ Net(On(Opened \ A, ls)) \in Int
  BY <1>1, NetsAreSums
<1> QED
  BY <1>2, <1>3, <1>4

\* Accounts that did not move may be left out of a sum.
LEMMA NetOfMoved ==
    ASSUME BooksInv, NEW ls \in SUBSET Lines, NEW B \in SUBSET Opened, NEW A \in SUBSET B,
           \A a \in B \ A : Net(On({a}, ls)) = 0
    PROVE  Net(On(A, ls)) = Net(On(B, ls)) /\ Net(On(A, ls)) \in Int
<1>1. LinesOK /\ IsFiniteSet(B \ A)
  BY BooksLines, FS_Subset DEF BooksInv
<1>2. Sum(NetPerAccount(B \ A, ls), B \ A) = 0
  <2>1. NetPerAccount(B \ A, ls) \in [B \ A -> Int]
    BY <1>1, NetByAccount
  <2>2. \A a \in B \ A : NetPerAccount(B \ A, ls)[a] = 0
    BY DEF NetPerAccount
  <2> QED
    BY <1>1, <2>1, <2>2, SumZero
<1>3. Net(On(B \ A, ls)) = 0
  BY <1>1, <1>2, NetByAccount
<1>4. Net(On(A \cup (B \ A), ls)) = Net(On(A, ls)) + Net(On(B \ A, ls))
  BY <1>1, NetOfAccounts
<1>5. A \cup (B \ A) = B
  OBVIOUS
<1>6. On(A \cup (B \ A), ls) = On(B, ls)
  BY <1>5
<1>7. Net(On(A, ls)) \in Int
  <2>1. On(A, ls) \in SUBSET Lines
    BY DEF On
  <2> QED
    BY <1>1, <2>1, NetsAreSums
<1>8. Net(On(B, ls)) = Net(On(A, ls)) + 0
  BY <1>3, <1>4, <1>6
<1> QED
  BY <1>7, <1>8

-----------------------------------------------------------------------------
(* The trial balance *)

\* Two columns of a statement differ by what is booked on its accounts.
Apart(u, v, A, ls) ==
    /\ u \in [A -> Int] /\ v \in [A -> Int]
    /\ \A a \in A : u[a] - v[a] = Net(On({a}, ls))

\* Summed over accounts, the columns differ by what is booked on all of them.
LEMMA ColumnsApart ==
    ASSUME BooksInv, NEW ls \in SUBSET Lines, NEW A \in SUBSET Opened, NEW u, NEW v,
           Apart(u, v, A, ls)
    PROVE  Sum(u, A) - Sum(v, A) = Net(On(A, ls))
<1>1. LinesOK /\ IsFiniteSet(A)
  BY BooksLines, FS_Subset DEF BooksInv
<1>2. /\ NetPerAccount(A, ls) \in [A -> Int]
      /\ Sum(NetPerAccount(A, ls), A) = Net(On(A, ls))
  BY <1>1, NetByAccount
<1>3. \A a \in A : NetPerAccount(A, ls)[a] = u[a] - v[a]
  BY DEF NetPerAccount, Apart
<1>4. u \in [A -> Int] /\ v \in [A -> Int]
  BY DEF Apart
<1>5. Sum(NetPerAccount(A, ls), A) = Sum(u, A) - Sum(v, A)
  BY <1>1, <1>2, <1>3, <1>4, SumMinus
<1> QED
  BY <1>2, <1>5

TrialRow(a, s, d) ==
    [opening_debit |-> Debits(On({a}, Before(s))),
     opening_credit |-> Credits(On({a}, Before(s))),
     period_debit |-> Debits(On({a}, Within(s, d))),
     period_credit |-> Credits(On({a}, Within(s, d)))]

Nothing == [opening_debit |-> 0, opening_credit |-> 0, period_debit |-> 0, period_credit |-> 0]

\* The trial balance is its rows that are not zero.
LEMMA TrialRows ==
    ASSUME NEW s, NEW d
    PROVE  get_trial_balance(s, d)
             = [a \in {b \in Listed : TrialRow(b, s, d) # Nothing} |-> TrialRow(a, s, d)]
<1> DEFINE row == [a \in Listed |-> TrialRow(a, s, d)]
<1>2. get_trial_balance(s, d) = Restrict(row, {a \in Listed : row[a] # Nothing})
  BY DEF get_trial_balance, TrialRow, Nothing
<1>3. \A a \in Listed : row[a] = TrialRow(a, s, d)
  OBVIOUS
<1>4. {a \in Listed : row[a] # Nothing} = {a \in Listed : TrialRow(a, s, d) # Nothing}
  BY <1>3
<1> QED
  BY <1>2, <1>3, <1>4 DEF Restrict

\* The accounts that the trial balance does not show did not move.
LEMMA TrialDomain ==
    ASSUME BooksInv, NEW s, NEW d, NEW rows, rows = get_trial_balance(s, d)
    PROVE  /\ DOMAIN rows \in SUBSET Listed
           /\ \A a \in DOMAIN rows : rows[a] = TrialRow(a, s, d)
           /\ \A a \in Listed \ DOMAIN rows :
                 Net(On({a}, Before(s))) = 0 /\ Net(On({a}, Within(s, d))) = 0
<1>1. ASSUME NEW a \in Listed, TrialRow(a, s, d) = Nothing
      PROVE  Net(On({a}, Before(s))) = 0 /\ Net(On({a}, Within(s, d))) = 0
  <2>1. /\ Debits(On({a}, Before(s))) = 0 /\ Credits(On({a}, Before(s))) = 0
        /\ Debits(On({a}, Within(s, d))) = 0 /\ Credits(On({a}, Within(s, d))) = 0
    BY <1>1 DEF TrialRow, Nothing
  <2> QED
    BY <2>1 DEF Net
<1>2. DOMAIN rows = {b \in Listed : TrialRow(b, s, d) # Nothing}
  BY TrialRows
<1>3. \A a \in DOMAIN rows : rows[a] = TrialRow(a, s, d)
  BY TrialRows
<1> QED
  BY <1>1, <1>2, <1>3

\* In the opening, in the period, and in the closing balances.
LEMMA TrialColumns ==
    ASSUME BooksInv, NEW s \in Periods, NEW d \in Periods, s <= d,
           NEW rows, rows = get_trial_balance(s, d)
    PROVE  /\ Apart(Column(rows, "opening_debit"), Column(rows, "opening_credit"),
                    DOMAIN rows, Before(s))
           /\ Apart(Column(rows, "period_debit"), Column(rows, "period_credit"),
                    DOMAIN rows, Within(s, d))
           /\ Apart(Debtor(rows), Creditor(rows), DOMAIN rows, Until(d))
<1>1. \A a \in DOMAIN rows : rows[a] = TrialRow(a, s, d)
  BY TrialDomain
<1>2. LinesOK
  BY BooksLines
<1>3. ASSUME NEW a \in DOMAIN rows
      PROVE  /\ rows[a].opening_debit \in Int /\ rows[a].opening_credit \in Int
             /\ rows[a].period_debit \in Int /\ rows[a].period_credit \in Int
             /\ rows[a].opening_debit - rows[a].opening_credit = Net(On({a}, Before(s)))
             /\ rows[a].period_debit - rows[a].period_credit = Net(On({a}, Within(s, d)))
             /\ Net(On({a}, Until(d))) = Net(On({a}, Before(s))) + Net(On({a}, Within(s, d)))
  <2>1. On({a}, Before(s)) \in SUBSET Lines /\ On({a}, Within(s, d)) \in SUBSET Lines
    BY Windows DEF On
  <2>2. /\ Debits(On({a}, Before(s))) \in Int /\ Credits(On({a}, Before(s))) \in Int
        /\ Net(On({a}, Before(s))) = Debits(On({a}, Before(s))) - Credits(On({a}, Before(s)))
    BY <1>2, <2>1, NetsAreSums
  <2>3. /\ Debits(On({a}, Within(s, d))) \in Int /\ Credits(On({a}, Within(s, d))) \in Int
        /\ Net(On({a}, Within(s, d))) = Debits(On({a}, Within(s, d))) - Credits(On({a}, Within(s, d)))
    BY <1>2, <2>1, NetsAreSums
  <2>4. /\ rows[a].opening_debit = Debits(On({a}, Before(s)))
        /\ rows[a].opening_credit = Credits(On({a}, Before(s)))
        /\ rows[a].period_debit = Debits(On({a}, Within(s, d)))
        /\ rows[a].period_credit = Credits(On({a}, Within(s, d)))
    BY <1>1 DEF TrialRow
  <2>5. Net(On({a}, Until(d))) = Net(On({a}, Before(s))) + Net(On({a}, Within(s, d)))
    <3>1. /\ On({a}, Until(d)) = On({a}, Before(s)) \cup On({a}, Within(s, d))
          /\ On({a}, Before(s)) \cap On({a}, Within(s, d)) = {}
      BY WindowsMeet DEF On
    <3> QED
      BY <1>2, <2>1, <3>1, NetSplit
  <2> QED
    BY <2>2, <2>3, <2>4, <2>5
<1>4. Apart(Column(rows, "opening_debit"), Column(rows, "opening_credit"), DOMAIN rows, Before(s))
  BY <1>3 DEF Apart, Column
<1>5. Apart(Column(rows, "period_debit"), Column(rows, "period_credit"), DOMAIN rows, Within(s, d))
  BY <1>3 DEF Apart, Column
<1>6. ASSUME NEW a \in DOMAIN rows
      PROVE  /\ Positive(Cumulative(rows[a])) \in Int /\ Positive(-Cumulative(rows[a])) \in Int
             /\ Positive(Cumulative(rows[a])) - Positive(-Cumulative(rows[a])) = Net(On({a}, Until(d)))
  <2>0. /\ Net(On({a}, Before(s))) \in Int /\ Net(On({a}, Within(s, d))) \in Int
        /\ rows[a].opening_debit = rows[a].opening_credit + Net(On({a}, Before(s)))
        /\ rows[a].period_debit = rows[a].period_credit + Net(On({a}, Within(s, d)))
    BY <1>3
  <2>1. Cumulative(rows[a]) \in Int /\ Cumulative(rows[a]) = Net(On({a}, Until(d)))
    BY <1>3, <2>0 DEF Cumulative
  <2> QED
    BY <2>1 DEF Positive
<1>7. Apart(Debtor(rows), Creditor(rows), DOMAIN rows, Until(d))
  BY <1>6 DEF Apart, Debtor, Creditor
<1> QED
  BY <1>4, <1>5, <1>7

\* The totals of the trial balance.
LEMMA TrialTotals ==
    ASSUME BooksInv, NEW s \in Periods, NEW d \in Periods, s <= d
    PROVE  LET t == trial_balance(s, d)
           IN  /\ t.opening_debit - t.opening_credit = -Net(On(Opened \ Listed, Before(s)))
               /\ t.period_debit - t.period_credit = -Net(On(Opened \ Listed, Within(s, d)))
               /\ t.closing_debit - t.closing_credit = -Net(On(Opened \ Listed, Until(d)))
<1>1. PICK rows : rows = get_trial_balance(s, d)
  OBVIOUS
<1>2. DOMAIN rows \in SUBSET Listed /\ Listed \in SUBSET Opened /\ DOMAIN rows \in SUBSET Opened
  BY <1>1, TrialDomain DEF Listed, Leaves
<1>3. IsFiniteSet(DOMAIN rows) /\ LinesOK
  BY <1>2, BooksLines, FS_Subset DEF BooksInv
<1>4. /\ trial_balance(s, d).opening_debit = Sum(Column(rows, "opening_debit"), DOMAIN rows)
      /\ trial_balance(s, d).opening_credit = Sum(Column(rows, "opening_credit"), DOMAIN rows)
      /\ trial_balance(s, d).period_debit = Sum(Column(rows, "period_debit"), DOMAIN rows)
      /\ trial_balance(s, d).period_credit = Sum(Column(rows, "period_credit"), DOMAIN rows)
  <2>1. /\ trial_balance(s, d).opening_debit = TotalOf(rows, "opening_debit")
        /\ trial_balance(s, d).opening_credit = TotalOf(rows, "opening_credit")
        /\ trial_balance(s, d).period_debit = TotalOf(rows, "period_debit")
        /\ trial_balance(s, d).period_credit = TotalOf(rows, "period_credit")
    BY <1>1 DEF trial_balance, TotalOf
  <2> QED
    BY <1>3, <2>1, ColumnsAreSums
<1>5. /\ trial_balance(s, d).closing_debit = Sum(Debtor(rows), DOMAIN rows)
      /\ trial_balance(s, d).closing_credit = Sum(Creditor(rows), DOMAIN rows)
  <2>1. /\ trial_balance(s, d).closing_debit = DebtorsOf(get_trial_balance(s, d))
        /\ trial_balance(s, d).closing_credit = CreditorsOf(get_trial_balance(s, d))
    <3> DEFINE T == get_trial_balance(s, d)
    <3>1. trial_balance(s, d)
            = [opening_debit |-> TotalOf(T, "opening_debit"),
               opening_credit |-> TotalOf(T, "opening_credit"),
               period_debit |-> TotalOf(T, "period_debit"),
               period_credit |-> TotalOf(T, "period_credit"),
               closing_debit |-> DebtorsOf(T), closing_credit |-> CreditorsOf(T)]
      BY Zenon DEF trial_balance, TotalOf, DebtorsOf, CreditorsOf
    <3> HIDE DEF T
    <3>2. trial_balance(s, d).closing_debit = DebtorsOf(T)
      BY <3>1
    <3>3. trial_balance(s, d).closing_credit = CreditorsOf(T)
      BY <3>1
    <3> QED
      BY <3>2, <3>3 DEF T
  <2> QED
    BY <1>1, <1>3, <2>1, DebtorsAreSums, CreditorsAreSums
<1>6. /\ Before(s) \in SUBSET Lines /\ Within(s, d) \in SUBSET Lines /\ Until(d) \in SUBSET Lines
      /\ Net(Before(s)) = 0 /\ Net(Within(s, d)) = 0 /\ Net(Until(d)) = 0
  BY Windows
<1>7. \A a \in Listed \ DOMAIN rows :
         /\ Net(On({a}, Before(s))) = 0 /\ Net(On({a}, Within(s, d))) = 0
         /\ Net(On({a}, Until(d))) = 0
  <2> SUFFICES ASSUME NEW a \in Listed \ DOMAIN rows
               PROVE  /\ Net(On({a}, Before(s))) = 0 /\ Net(On({a}, Within(s, d))) = 0
                      /\ Net(On({a}, Until(d))) = 0
    OBVIOUS
  <2>1. Net(On({a}, Before(s))) = 0 /\ Net(On({a}, Within(s, d))) = 0
    BY <1>1, TrialDomain
  <2>2. /\ On({a}, Until(d)) = On({a}, Before(s)) \cup On({a}, Within(s, d))
        /\ On({a}, Before(s)) \cap On({a}, Within(s, d)) = {}
        /\ On({a}, Before(s)) \in SUBSET Lines /\ On({a}, Within(s, d)) \in SUBSET Lines
    BY <1>6, WindowsMeet DEF On
  <2> QED
    BY <1>3, <2>1, <2>2, NetSplit
<1>8. ASSUME NEW u, NEW v, NEW ls \in SUBSET Lines, Net(ls) = 0, Apart(u, v, DOMAIN rows, ls),
             \A a \in Listed \ DOMAIN rows : Net(On({a}, ls)) = 0
      PROVE  Sum(u, DOMAIN rows) - Sum(v, DOMAIN rows) = -Net(On(Opened \ Listed, ls))
  <2>1. Sum(u, DOMAIN rows) - Sum(v, DOMAIN rows) = Net(On(DOMAIN rows, ls))
    BY <1>2, <1>8, ColumnsApart
  <2>2. Net(On(DOMAIN rows, ls)) = Net(On(Listed, ls))
    BY <1>2, <1>8, NetOfMoved
  <2>3. Net(On(Listed, ls)) = -Net(On(Opened \ Listed, ls))
    BY <1>2, <1>8, NetOfRest
  <2> QED
    BY <2>1, <2>2, <2>3
<1>9. /\ Apart(Column(rows, "opening_debit"), Column(rows, "opening_credit"), DOMAIN rows, Before(s))
      /\ Apart(Column(rows, "period_debit"), Column(rows, "period_credit"), DOMAIN rows, Within(s, d))
      /\ Apart(Debtor(rows), Creditor(rows), DOMAIN rows, Until(d))
  BY <1>1, TrialColumns
<1>10. trial_balance(s, d).opening_debit - trial_balance(s, d).opening_credit
         = -Net(On(Opened \ Listed, Before(s)))
  BY <1>4, <1>6, <1>7, <1>8, <1>9
<1>11. trial_balance(s, d).period_debit - trial_balance(s, d).period_credit
         = -Net(On(Opened \ Listed, Within(s, d)))
  BY <1>4, <1>6, <1>7, <1>8, <1>9
<1>12. trial_balance(s, d).closing_debit - trial_balance(s, d).closing_credit
         = -Net(On(Opened \ Listed, Until(d)))
  BY <1>5, <1>6, <1>7, <1>8, <1>9
<1> QED
  BY <1>10, <1>11, <1>12

\* "L'équilibre total_débit = total_crédit valide la partie double": whatever
\* becomes of the accounts under their entries, the trial balance is out of
\* balance by exactly what is booked on accounts that it does not list.
THEOREM TrialBalance == ReportSpec => []OutByUnlisted
<1>1. BooksInv => OutByUnlisted
  <2> SUFFICES ASSUME BooksInv, NEW r \in Ranges
               PROVE  LET t == trial_balance(r[1], r[2])
                          missing(ls) == -Net(On(Opened \ Listed, ls))
                      IN  /\ t.opening_debit - t.opening_credit = missing(Before(r[1]))
                          /\ t.period_debit - t.period_credit = missing(Within(r[1], r[2]))
                          /\ t.closing_debit - t.closing_credit = missing(Until(r[2]))
    BY DEF OutByUnlisted
  <2>1. r[1] \in Periods /\ r[2] \in Periods /\ r[1] <= r[2]
    BY DEF Ranges
  <2> QED
    BY <2>1, TrialTotals
<1> QED
  BY <1>1, BooksSound, PTL

-----------------------------------------------------------------------------
(* Totals of the reports that have a row per account *)

\* The total of some of the rows is the net of their accounts.
LEMMA TotalIs ==
    ASSUME BooksInv, NEW ls \in SUBSET Lines, NEW B \in SUBSET Opened, NEW A
    PROVE  Total(NetPerAccount(B, ls), A) = Net(On(A \cap B, ls))
<1>1. LinesOK /\ IsFiniteSet(B) /\ IsFiniteSet(A \cap B)
  BY BooksLines, FS_Subset DEF BooksInv
<1>2. /\ NetPerAccount(B, ls) \in [B -> Int] /\ DOMAIN NetPerAccount(B, ls) = B
      /\ NetPerAccount(A \cap B, ls) \in [A \cap B -> Int]
      /\ Sum(NetPerAccount(A \cap B, ls), A \cap B) = Net(On(A \cap B, ls))
  BY <1>1, NetByAccount
<1>3. \A a \in A \cap B : NetPerAccount(B, ls)[a] = NetPerAccount(A \cap B, ls)[a]
  BY DEF NetPerAccount
<1>4. Sum(NetPerAccount(B, ls), A \cap B) = Sum(NetPerAccount(A \cap B, ls), A \cap B)
  BY <1>1, <1>2, <1>3, SumSame
<1>5. Total(NetPerAccount(B, ls), A) = Sum(NetPerAccount(B, ls), A \cap DOMAIN NetPerAccount(B, ls))
  BY DEF Total, Sum
<1> QED
  BY <1>2, <1>4, <1>5

-----------------------------------------------------------------------------
(* The income statement *)

Produits == UNION {OfPrefix(p) : p \in families.produits}
Charges  == UNION {OfPrefix(p) : p \in families.charges}

\* No account is in a section of the income and in one of the expenses.
LEMMA SectionsApart ==
    /\ Produits \cap Charges = {}
    /\ Stated = Leaves \cap (Produits \cup Charges)
<1>1. ASSUME NEW a \in Produits, a \in Charges
      PROVE  FALSE
  <2>1. PICK p \in families.produits : a \in OfPrefix(p)
    BY DEF Produits
  <2>2. PICK q \in families.charges : a \in OfPrefix(q)
    BY <1>1 DEF Charges
  <2>3. a \in Accounts /\ {p, q} \subseteq PrefixesOf[a]
    BY <2>1, <2>2 DEF OfPrefix, Opened
  <2>4. p # q
    BY DEF families
  <2>5. {p, q} \subseteq {"701", "702", "706", "707", "781",
                         "663", "60", "61", "62", "63", "64", "65", "694"}
    BY DEF families
  <2> QED
    BY <2>3, <2>4, <2>5, PrefixAssumption
<1>2. families.produits \cup families.charges
        = {"701", "702", "706", "707", "781",
           "663", "60", "61", "62", "63", "64", "65", "694"}
  BY DEF families
<1>3. Stated = Leaves \cap UNION {OfPrefix(p) : p \in families.produits \cup families.charges}
  BY <1>2 DEF Stated
<1>4. UNION {OfPrefix(p) : p \in families.produits \cup families.charges} = Produits \cup Charges
  BY DEF Produits, Charges
<1> QED
  BY <1>1, <1>3, <1>4

\* The result of the income statement, from its two groups of sections.
LEMMA ResultatNet ==
    ASSUME NEW s, NEW d
    PROVE  compte_de_resultat(s, d).resultat_net
             = -Total(get_charges_produits(s, d), Produits)
                 - Total(get_charges_produits(s, d), Charges)
<1>1. compte_de_resultat(s, d).resultat_net
        = -Total(get_charges_produits(s, d), UNION {OfPrefix(p) : p \in families.produits})
            - Total(get_charges_produits(s, d), UNION {OfPrefix(p) : p \in families.charges})
  BY DEF compte_de_resultat
<1> QED
  BY <1>1 DEF Produits, Charges

\* The two results are taken from the same lines: what separates them is booked on
\* income and expense accounts that have no section in the income statement.
THEOREM IncomeStatement == ReportSpec => []IncomeAgrees
<1>1. BooksInv => IncomeAgrees
  <2> SUFFICES ASSUME BooksInv, NEW r \in Ranges
               PROVE  compte_de_resultat(r[1], r[2]).resultat_net
                        = get_net_income(r[1], r[2])
                            + Net(On(Results \ Stated, Within(r[1], r[2])))
    BY DEF IncomeAgrees
  <2>1. PICK W : W = Within(r[1], r[2])
    OBVIOUS
  <2>2. LinesOK /\ W \in SUBSET Lines
    BY <2>1, BooksLines, Windows
  <2>3. Results \in SUBSET Opened /\ Leaves \in SUBSET Opened /\ Leaves \cap Results \in SUBSET Opened
    BY DEF Results, OfClass, Leaves
  <2>4. get_charges_produits(r[1], r[2]) = NetPerAccount(Leaves \cap Results, W)
    BY <2>1 DEF get_charges_produits, NetPerAccount, Results
  <2>5. compte_de_resultat(r[1], r[2]).resultat_net
          = -Net(On(Produits \cap (Leaves \cap Results), W)) - Net(On(Charges \cap (Leaves \cap Results), W))
    BY <2>2, <2>3, <2>4, ResultatNet, TotalIs
  <2>6. /\ (Produits \cap (Leaves \cap Results)) \cap (Charges \cap (Leaves \cap Results)) = {}
        /\ (Produits \cap (Leaves \cap Results)) \cup (Charges \cap (Leaves \cap Results))
             = Stated \cap Results
    BY SectionsApart
  <2>7. Net(On(Stated \cap Results, W))
          = Net(On(Produits \cap (Leaves \cap Results), W)) + Net(On(Charges \cap (Leaves \cap Results), W))
    BY <2>2, <2>6, NetOfAccounts
  <2>8. Net(On(Results, W)) = Net(On(Stated \cap Results, W)) + Net(On(Results \ Stated, W))
    <3>1. Results = (Stated \cap Results) \cup (Results \ Stated)
      OBVIOUS
    <3>2. Net(On((Stated \cap Results) \cup (Results \ Stated), W))
            = Net(On(Stated \cap Results, W)) + Net(On(Results \ Stated, W))
      BY <2>2, NetOfAccounts
    <3> QED
      BY <3>1, <3>2
  <2>9. get_net_income(r[1], r[2]) = -Net(On(Results, W))
    BY <2>1 DEF get_net_income, Results
  <2>10. /\ Net(On(Produits \cap (Leaves \cap Results), W)) \in Int
         /\ Net(On(Charges \cap (Leaves \cap Results), W)) \in Int
         /\ Net(On(Results \ Stated, W)) \in Int /\ Net(On(Results, W)) \in Int
    <3>1. \A A : On(A, W) \in SUBSET Lines
      BY <2>2 DEF On
    <3> QED
      BY <2>2, <3>1, NetsAreSums
  <2> QED
    BY <2>1, <2>5, <2>7, <2>8, <2>9, <2>10
<1> QED
  BY <1>1, BooksSound, PTL

-----------------------------------------------------------------------------
(* The cash flow statement *)

\* When all is booked on listed accounts, no selection of accounts loses a line by
\* keeping the leaves, or the listed ones, alone.
LEMMA OnLeaves ==
    ASSUME AllCounted, NEW ls \in SUBSET Lines, NEW A \in SUBSET Opened
    PROVE  On(Leaves \cap A, ls) = On(A, ls) /\ On(Listed \cap A, ls) = On(A, ls)
<1>1. \A l \in Lines : At(l).account \notin Opened \ Listed
  BY DEF AllCounted, On
<1>2. \A l \in ls : At(l).account \in A => At(l).account \in Listed /\ At(l).account \in Leaves
  BY <1>1 DEF Listed
<1> QED
  BY <1>2 DEF On

\* A balance is the balance before a day plus what moved since.
LEMMA NetUntil ==
    ASSUME BooksInv, NEW s \in Periods, NEW d \in Periods, s <= d, NEW A
    PROVE  /\ Net(On(A, Until(d))) = Net(On(A, Before(s))) + Net(On(A, Within(s, d)))
           /\ Net(On(A, Before(s))) \in Int /\ Net(On(A, Within(s, d))) \in Int
<1>1. LinesOK
  BY BooksLines
<1>2. /\ On(A, Until(d)) = On(A, Before(s)) \cup On(A, Within(s, d))
      /\ On(A, Before(s)) \cap On(A, Within(s, d)) = {}
  BY WindowsMeet DEF On
<1>3. On(A, Before(s)) \in SUBSET Lines /\ On(A, Within(s, d)) \in SUBSET Lines
  BY Windows DEF On
<1>4. Net(On(A, Until(d))) = Net(On(A, Before(s))) + Net(On(A, Within(s, d)))
  BY <1>1, <1>2, <1>3, NetSplit
<1> QED
  BY <1>1, <1>3, <1>4, NetsAreSums

\* The six lines of the statement, and the accounts they name.
Flows == <<"251", "371", "701", "663", "21", "10">>
FlowsOf(n) == UNION {OfPrefix(Flows[i]) : i \in 1..n}

\* No account is in two lines of the statement, nor both in one and in cash.
LEMMA FlowsApart ==
    /\ \A n \in 1..5 : /\ FlowsOf(n) \cap OfPrefix(Flows[n + 1]) = {}
                       /\ FlowsOf(n + 1) = FlowsOf(n) \cup OfPrefix(Flows[n + 1])
    /\ FlowsOf(1) = OfPrefix(Flows[1])
    /\ FlowsOf(6) = UNION {OfPrefix(p) : p \in {"251", "371", "701", "663", "21", "10"}}
    /\ FlowsOf(6) \cap Cash = {}
<1> DEFINE ps == {"251", "371", "701", "663", "21", "10", "57", "52"}
<1>1. ASSUME NEW p \in ps, NEW q \in ps, p # q
      PROVE  OfPrefix(p) \cap OfPrefix(q) = {}
  <2>1. ASSUME NEW a \in Accounts, p \in PrefixesOf[a], q \in PrefixesOf[a]
        PROVE  FALSE
    <3>1. {p, q} \subseteq PrefixesOf[a]
      BY <2>1
    <3> QED
      BY <1>1, <3>1, PrefixAssumption
  <2> QED
    BY <2>1 DEF OfPrefix, Opened
<1>2. /\ Flows[1] = "251" /\ Flows[2] = "371" /\ Flows[3] = "701"
      /\ Flows[4] = "663" /\ Flows[5] = "21" /\ Flows[6] = "10"
  BY DEF Flows
<1>3. ASSUME NEW i \in 1..6, NEW j \in 1..6, i # j
      PROVE  Flows[i] \in ps /\ Flows[j] \in ps /\ Flows[i] # Flows[j]
  <2>1. i = 1 \/ i = 2 \/ i = 3 \/ i = 4 \/ i = 5 \/ i = 6
    OBVIOUS
  <2>2. j = 1 \/ j = 2 \/ j = 3 \/ j = 4 \/ j = 5 \/ j = 6
    OBVIOUS
  <2>3. \A k \in 1..6 : Flows[k] \in ps
    BY <1>2
  <2>4. Flows[i] # Flows[j]
    BY <1>2, <1>3, <2>1, <2>2
  <2> QED
    BY <2>3, <2>4
<1>4. ASSUME NEW n \in 1..5
      PROVE  /\ FlowsOf(n) \cap OfPrefix(Flows[n + 1]) = {}
             /\ FlowsOf(n + 1) = FlowsOf(n) \cup OfPrefix(Flows[n + 1])
  <2>1. \A i \in 1..n : OfPrefix(Flows[i]) \cap OfPrefix(Flows[n + 1]) = {}
    <3> SUFFICES ASSUME NEW i \in 1..n
                 PROVE  OfPrefix(Flows[i]) \cap OfPrefix(Flows[n + 1]) = {}
      OBVIOUS
    <3>1. i \in 1..6 /\ n + 1 \in 1..6 /\ i # n + 1
      OBVIOUS
    <3> QED
      BY <1>1, <1>3, <3>1
  <2>2. 1..(n + 1) = (1..n) \cup {n + 1}
    OBVIOUS
  <2>3. FlowsOf(n + 1) = UNION {OfPrefix(Flows[i]) : i \in (1..n) \cup {n + 1}}
    BY <2>2 DEF FlowsOf
  <2> QED
    BY <2>1, <2>3 DEF FlowsOf
<1>5. FlowsOf(1) = OfPrefix(Flows[1])
  BY DEF FlowsOf
<1>6. \A i \in 1..6 : /\ OfPrefix(Flows[i]) \cap OfPrefix("57") = {}
                      /\ OfPrefix(Flows[i]) \cap OfPrefix("52") = {}
  <2> SUFFICES ASSUME NEW i \in 1..6
               PROVE  /\ OfPrefix(Flows[i]) \cap OfPrefix("57") = {}
                      /\ OfPrefix(Flows[i]) \cap OfPrefix("52") = {}
    OBVIOUS
  <2>1. Flows[i] \in ps /\ Flows[i] # "57" /\ Flows[i] # "52"
    BY <1>2
  <2> QED
    BY <1>1, <2>1
<1>7. FlowsOf(6) = UNION {OfPrefix(p) : p \in {"251", "371", "701", "663", "21", "10"}}
  <2>1. {Flows[i] : i \in 1..6} = {"251", "371", "701", "663", "21", "10"}
    BY <1>2
  <2>2. FlowsOf(6) = UNION {OfPrefix(p) : p \in {Flows[i] : i \in 1..6}}
    BY DEF FlowsOf
  <2> QED
    BY <2>1, <2>2
<1>8. FlowsOf(6) \cap Cash = {}
  BY <1>6 DEF FlowsOf, Cash
<1> QED
  BY <1>4, <1>5, <1>7, <1>8

\* The lines of the statement add up.
LEMMA NetOfFlows ==
    ASSUME BooksInv, NEW W \in SUBSET Lines
    PROVE  Net(On(FlowsOf(6), W))
             = Net(On(OfPrefix("251"), W)) + Net(On(OfPrefix("371"), W))
                 + Net(On(OfPrefix("701"), W)) + Net(On(OfPrefix("663"), W))
                 + Net(On(OfPrefix("21"), W)) + Net(On(OfPrefix("10"), W))
<1>1. ASSUME NEW n \in 1..5
      PROVE  Net(On(FlowsOf(n + 1), W)) = Net(On(FlowsOf(n), W)) + Net(On(OfPrefix(Flows[n + 1]), W))
  <2>1. /\ FlowsOf(n) \cap OfPrefix(Flows[n + 1]) = {}
        /\ FlowsOf(n + 1) = FlowsOf(n) \cup OfPrefix(Flows[n + 1])
    BY FlowsApart
  <2>2. Net(On(FlowsOf(n) \cup OfPrefix(Flows[n + 1]), W))
          = Net(On(FlowsOf(n), W)) + Net(On(OfPrefix(Flows[n + 1]), W))
    BY <2>1, BooksLines, NetOfAccounts
  <2> QED
    BY <2>1, <2>2
<1>2. /\ Flows[1] = "251" /\ Flows[2] = "371" /\ Flows[3] = "701"
      /\ Flows[4] = "663" /\ Flows[5] = "21" /\ Flows[6] = "10"
  BY DEF Flows
<1>3. FlowsOf(1) = OfPrefix("251")
  BY <1>2, FlowsApart
<1>4. /\ Net(On(FlowsOf(2), W)) = Net(On(OfPrefix("251"), W)) + Net(On(OfPrefix("371"), W))
      /\ Net(On(FlowsOf(3), W)) = Net(On(FlowsOf(2), W)) + Net(On(OfPrefix("701"), W))
      /\ Net(On(FlowsOf(4), W)) = Net(On(FlowsOf(3), W)) + Net(On(OfPrefix("663"), W))
      /\ Net(On(FlowsOf(5), W)) = Net(On(FlowsOf(4), W)) + Net(On(OfPrefix("21"), W))
      /\ Net(On(FlowsOf(6), W)) = Net(On(FlowsOf(5), W)) + Net(On(OfPrefix("10"), W))
  <2>1. 1 + 1 = 2 /\ 2 + 1 = 3 /\ 3 + 1 = 4 /\ 4 + 1 = 5 /\ 5 + 1 = 6
    OBVIOUS
  <2>2. Net(On(FlowsOf(2), W)) = Net(On(OfPrefix("251"), W)) + Net(On(OfPrefix("371"), W))
    BY <1>1, <1>2, <1>3, <2>1
  <2>3. Net(On(FlowsOf(3), W)) = Net(On(FlowsOf(2), W)) + Net(On(OfPrefix("701"), W))
    BY <1>1, <1>2, <2>1
  <2>4. Net(On(FlowsOf(4), W)) = Net(On(FlowsOf(3), W)) + Net(On(OfPrefix("663"), W))
    BY <1>1, <1>2, <2>1
  <2>5. Net(On(FlowsOf(5), W)) = Net(On(FlowsOf(4), W)) + Net(On(OfPrefix("21"), W))
    BY <1>1, <1>2, <2>1
  <2>6. Net(On(FlowsOf(6), W)) = Net(On(FlowsOf(5), W)) + Net(On(OfPrefix("10"), W))
    BY <1>1, <1>2, <2>1
  <2> QED
    BY <2>2, <2>3, <2>4, <2>5, <2>6
<1> QED
  BY <1>4

\* The accounts fall into those of the six flows, the cash accounts, and those the
\* statement has no line for; what is booked on all of them sums to nothing.
THEOREM CashFlows == ReportSpec => []FlowsExplainCash
<1> DEFINE named == UNION {OfPrefix(p) : p \in {"251", "371", "701", "663", "21", "10"}}
<1>1. ASSUME BooksInv, AllCounted, NEW r \in Ranges
      PROVE  LET f == flux_tresorerie(r[1], r[2])
                 unnamed == Net(On(Opened \ (named \cup Cash), Within(r[1], r[2])))
                 inflow == f.var_depots + f.int_payes + f.var_immo
                             - f.var_credits - f.int_percus - f.var_cap
             IN  f.tresorerie_cloture - f.tresorerie_ouverture
                   = inflow - unnamed - Net(On(Cash, Within(r[1], r[1])))
  <2>1. PICK s \in Periods, d \in Periods : s = r[1] /\ d = r[2] /\ s <= d
    BY DEF Ranges
  <2>2. PICK W : W = Within(s, d)
    OBVIOUS
  <2>3. LinesOK /\ W \in SUBSET Lines /\ Net(W) = 0
    BY <1>1, <2>2, BooksLines, Windows
  <2>4. \A A : Net(On(A, W)) \in Int
    <3>1. \A A : On(A, W) \in SUBSET Lines
      BY <2>3 DEF On
    <3> QED
      BY <2>3, <3>1, NetsAreSums
  <2>5. ASSUME NEW p
        PROVE  get_cash_flows(s, d, p) = Net(On(OfPrefix(p), W))
    <3>1. On(Leaves \cap OfPrefix(p), W) = On(OfPrefix(p), W)
      <4>1. OfPrefix(p) \in SUBSET Opened
        BY DEF OfPrefix
      <4> QED
        BY <1>1, <2>3, <4>1, OnLeaves
    <3> QED
      BY <2>2, <3>1 DEF get_cash_flows
  <2>6. named \subseteq Opened /\ Cash \subseteq Opened /\ named \cap Cash = {} /\ named = FlowsOf(6)
    BY FlowsApart DEF OfPrefix, Cash, Leaves
  <2> HIDE DEF named
  <2>7. 0 = Net(On(named, W)) + Net(On(Cash, W)) + Net(On(Opened \ (named \cup Cash), W))
    <3>1. Net(On(named \cup Cash, W)) = Net(On(named, W)) + Net(On(Cash, W))
      BY <2>3, <2>6, NetOfAccounts
    <3>2. Net(On(named \cup Cash, W)) = -Net(On(Opened \ (named \cup Cash), W))
      BY <1>1, <2>3, <2>6, NetOfRest
    <3> QED
      BY <2>4, <3>1, <3>2
  <2>8. Net(On(named, W))
          = Net(On(OfPrefix("251"), W)) + Net(On(OfPrefix("371"), W))
              + Net(On(OfPrefix("701"), W)) + Net(On(OfPrefix("663"), W))
              + Net(On(OfPrefix("21"), W)) + Net(On(OfPrefix("10"), W))
    BY <1>1, <2>3, <2>6, NetOfFlows
  <2>9. /\ get_cash_balance(d) = Net(On(Cash, Before(s))) + Net(On(Cash, W))
        /\ get_cash_balance(s) = Net(On(Cash, Before(s))) + Net(On(Cash, Within(s, s)))
        /\ Net(On(Cash, Before(s))) \in Int /\ Net(On(Cash, Within(s, s))) \in Int
    <3>1. s <= s
      BY TemplateAssumption
    <3> QED
      BY <1>1, <2>1, <2>2, <3>1, NetUntil DEF get_cash_balance
  <2>10. /\ flux_tresorerie(s, d).var_credits = Net(On(OfPrefix("251"), W))
         /\ flux_tresorerie(s, d).var_depots = -Net(On(OfPrefix("371"), W))
         /\ flux_tresorerie(s, d).int_percus = Net(On(OfPrefix("701"), W))
         /\ flux_tresorerie(s, d).int_payes = -Net(On(OfPrefix("663"), W))
         /\ flux_tresorerie(s, d).var_immo = -Net(On(OfPrefix("21"), W))
         /\ flux_tresorerie(s, d).var_cap = Net(On(OfPrefix("10"), W))
         /\ flux_tresorerie(s, d).tresorerie_ouverture = get_cash_balance(s)
         /\ flux_tresorerie(s, d).tresorerie_cloture = get_cash_balance(d)
    BY <2>5 DEF flux_tresorerie
  <2>11. flux_tresorerie(s, d).tresorerie_cloture - flux_tresorerie(s, d).tresorerie_ouverture
           = Net(On(Cash, W)) - Net(On(Cash, Within(s, s)))
    BY <2>4, <2>9, <2>10
  <2>12. flux_tresorerie(s, d).var_depots + flux_tresorerie(s, d).int_payes
             + flux_tresorerie(s, d).var_immo - flux_tresorerie(s, d).var_credits
             - flux_tresorerie(s, d).int_percus - flux_tresorerie(s, d).var_cap
           = -Net(On(named, W))
    BY <2>4, <2>8, <2>10
  <2> QED
    BY <2>1, <2>2, <2>4, <2>7, <2>9, <2>11, <2>12
<1>2. BooksInv => FlowsExplainCash
  BY <1>1 DEF FlowsExplainCash
<1> QED
  BY <1>2, BooksSound, PTL

-----------------------------------------------------------------------------
(* The prudential ratios *)

\* Products keep order.
LEMMA Product ==
    ASSUME NEW x \in Int, NEW y \in Nat, NEW z \in Int, x <= z
    PROVE  x * y <= z * y
<1>1. z - x \in Nat
  OBVIOUS
<1>2. (z - x) * y \in Nat
  BY <1>1
<1>3. (z - x) * y = z * y - x * y
  OBVIOUS
<1>4. x * y \in Int /\ z * y \in Int
  OBVIOUS
<1> QED
  BY <1>2, <1>3, <1>4

\* A quotient rounded down reaches a bound when the dividend does.
LEMMA Quotient ==
    ASSUME NEW x \in Int, NEW y \in Nat \ {0}, NEW k \in Int
    PROVE  x \div y \in Int /\ (x \div y >= k <=> x >= k * y)
<1>1. PICK q \in Int, m \in Int : q = x \div y /\ x = q * y + m /\ 0 <= m /\ m < y
  <2>1. x \div y \in Int /\ x % y \in Int /\ 0 <= x % y /\ x % y < y
    OBVIOUS
  <2>2. x = (x \div y) * y + (x % y)
    OBVIOUS
  <2> QED
    BY <2>1, <2>2
<1>2. ASSUME q >= k
      PROVE  x >= k * y
  <2>1. k * y <= q * y
    BY <1>2, Product
  <2>2. k * y \in Int /\ q * y \in Int
    OBVIOUS
  <2> QED
    BY <1>1, <2>1, <2>2
<1>3. ASSUME ~(q >= k)
      PROVE  ~(x >= k * y)
  <2>1. q + 1 <= k
    BY <1>3
  <2>2. (q + 1) * y <= k * y
    BY <2>1, Product
  <2>3. (q + 1) * y = q * y + y
    OBVIOUS
  <2>4. k * y \in Int /\ q * y \in Int
    OBVIOUS
  <2> QED
    BY <1>1, <2>2, <2>3, <2>4
<1> QED
  BY <1>1, <1>2, <1>3

\* The percentage of a ratio with a positive denominator.
LEMMA PctIs ==
    ASSUME NEW num \in Int, NEW den \in Int, den > 0
    PROVE  /\ num >= 0 => pct(num, den) = (20000 * num + den) \div (2 * den)
           /\ num < 0 => /\ pct(num, den) = -((20000 * (-num) + den) \div (2 * den))
                         /\ (20000 * (-num) + den) \div (2 * den) \in Nat
<1>1. 2 * den \in Nat \ {0}
  OBVIOUS
<1>2. CASE num >= 0
  <2>1. ~(num < 0) /\ ~(den < 0) /\ den # 0
    BY <1>2
  <2> QED
    BY <1>2, <2>1 DEF pct
<1>3. CASE num < 0
  <2>1. num < 0 /\ ~(den < 0) /\ den # 0 /\ ~(num >= 0)
    BY <1>3
  <2>2. pct(num, den) = -((20000 * (-num) + den) \div (2 * den))
    BY <2>1 DEF pct
  <2>3. 20000 * (-num) + den \in Int /\ 20000 * (-num) + den >= 0 * (2 * den)
    BY <1>3
  <2>4. /\ (20000 * (-num) + den) \div (2 * den) \in Int
        /\ (20000 * (-num) + den) \div (2 * den) >= 0
    BY <1>1, <2>3, Quotient
  <2> QED
    BY <2>1, <2>2, <2>4
<1> QED
  BY <1>2, <1>3

\* A rounded percentage meets a norm when the amounts do, to half a hundredth.
LEMMA MeetsNorm ==
    ASSUME NEW num \in Int, NEW den \in Int, den > 0, NEW norm \in Nat \ {0}
    PROVE  /\ pct(num, den) >= norm <=> 20000 * num + den >= 2 * norm * den
           /\ pct(num, den) <= norm <=> 20000 * num - den < 2 * norm * den
<1>1. 2 * den \in Nat \ {0} /\ 20000 * num + den \in Int /\ norm * (2 * den) = 2 * norm * den
  OBVIOUS
<1>2. 2 * norm * den \in Int /\ 2 * norm * den >= 2 * den
  <2>1. 1 * (2 * den) <= norm * (2 * den)
    BY <1>1, Product
  <2>2. norm * (2 * den) \in Int
    OBVIOUS
  <2> QED
    BY <1>1, <2>1, <2>2
<1>3. CASE num >= 0
  <2>1. pct(num, den) = (20000 * num + den) \div (2 * den)
    BY <1>3, PctIs
  <2>2. pct(num, den) \in Int /\ (pct(num, den) >= norm <=> 20000 * num + den >= norm * (2 * den))
    BY <1>1, <2>1, Quotient
  <2>3. pct(num, den) >= norm + 1 <=> 20000 * num + den >= (norm + 1) * (2 * den)
    <3>1. norm + 1 \in Int
      OBVIOUS
    <3> QED
      BY <1>1, <2>1, <3>1, Quotient
  <2>4. (norm + 1) * (2 * den) = 2 * norm * den + 2 * den
    OBVIOUS
  <2>5. pct(num, den) <= norm <=> ~(pct(num, den) >= norm + 1)
    BY <2>2
  <2> QED
    BY <1>1, <1>2, <2>2, <2>3, <2>4, <2>5
<1>4. CASE num < 0
  <2>1. pct(num, den) \in Int /\ pct(num, den) <= 0
    BY <1>4, PctIs
  <2> QED
    BY <1>2, <1>4, <2>1
<1> QED
  BY <1>3, <1>4

\* The amounts of the ratios are numbers.
LEMMA RatioTypes ==
    ASSUME BooksInv, NEW d \in Periods, NEW A
    PROVE  /\ get_equity(d) \in Int /\ get_total_assets(d) \in Int
           /\ get_cash_balance(d) \in Int /\ Outstanding(d) \in Int
           /\ Total(get_deposits_by_type(d), A) \in Int
<1>1. LinesOK /\ (\A B : On(B, Until(d)) \in SUBSET Lines /\ On(B, Lines) \in SUBSET Lines)
  BY BooksLines DEF On, Until, PostedLines
<1>2. \A B : Net(On(B, Until(d))) \in Int /\ Net(On(B, Lines)) \in Int
  BY <1>1, NetsAreSums
<1>3. /\ get_equity(d) \in Int /\ get_total_assets(d) \in Int /\ get_cash_balance(d) \in Int
  BY <1>2 DEF get_equity, get_total_assets, get_cash_balance
<1>4. Outstanding(d) \in Int
  <2>1. PICK rows : rows = get_credit_portfolio(d)
    OBVIOUS
  <2>2. DOMAIN rows \in SUBSET Opened /\ \A a \in DOMAIN rows : rows[a] \in Int
    BY <1>2, <2>1 DEF get_credit_portfolio, Leaves
  <2>3. IsFiniteSet(DOMAIN rows)
    BY <2>2, FS_Subset DEF BooksInv
  <2>4. Loans(rows) \in [DOMAIN rows -> Int]
    BY <2>2 DEF Loans, Positive
  <2>5. Outstanding(d) = LoansOf(rows)
    BY <2>1 DEF Outstanding, LoansOf
  <2> QED
    BY <2>3, <2>4, <2>5, LoansAreSums, SumType
<1>5. Total(get_deposits_by_type(d), A) \in Int
  <2>1. PICK rows : rows = get_deposits_by_type(d)
    OBVIOUS
  <2>2. /\ DOMAIN rows \in SUBSET Opened
        /\ rows \in [DOMAIN rows -> Int]
    BY <1>2, <2>1 DEF get_deposits_by_type, Leaves
  <2>3. IsFiniteSet(A \cap DOMAIN rows) /\ A \cap DOMAIN rows \in SUBSET DOMAIN rows
    BY <2>2, FS_Subset DEF BooksInv
  <2>4. Total(rows, A) = Sum(rows, A \cap DOMAIN rows)
    BY DEF Total, Sum
  <2> QED
    BY <2>1, <2>2, <2>3, <2>4, SumType
<1> QED
  BY <1>3, <1>4, <1>5

\* The comparison of a rounded percentage with its norm decides as the amounts do,
\* whatever their signs.
THEOREM Ratios == ReportSpec => []RatiosFollowNorm
<1>1. ASSUME BooksInv, NEW d \in Periods
      PROVE  LET r == bceao_report(d)
                 atLeast(x, norm) == 20000 * x.num + x.den >= 2 * norm * x.den
                 atMost(x, norm) == 20000 * x.num - x.den < 2 * norm * x.den
             IN  /\ \A k \in {<<"R1", 800>>, <<"R2", 7500>>, <<"R5", 1000>>} :
                       r[k[1]].den > 0 => r[k[1]].conforme = atLeast(r[k[1]], k[2])
                 /\ r["R3"].den > 0 => r["R3"].conforme = atMost(r["R3"], 10000)
  <2>1. PICK funds, assets, cash, loans, short :
           /\ funds = get_equity(d) /\ assets = get_total_assets(d)
           /\ cash = get_cash_balance(d) /\ loans = Outstanding(d)
           /\ short = Total(get_deposits_by_type(d), OfPrefix("371") \cup OfPrefix("372"))
    OBVIOUS
  <2>2. funds \in Int /\ assets \in Int /\ cash \in Int /\ loans \in Int /\ short \in Int
    BY <1>1, <2>1, RatioTypes
  <2>3. PICK r : r = bceao_report(d)
    OBVIOUS
  <2>4. /\ r["R1"] = [num |-> funds, den |-> assets, conforme |-> pct(funds, assets) >= 800]
        /\ r["R2"] = [num |-> cash, den |-> short, conforme |-> pct(cash, short) >= 7500]
        /\ r["R3"] = [num |-> loans, den |-> funds + short,
                      conforme |-> pct(loans, funds + short) <= 10000]
        /\ r["R5"] = [num |-> funds, den |-> loans, conforme |-> pct(funds, loans) >= 1000]
    BY <2>1, <2>3 DEF bceao_report
  <2>5. assets > 0 => (pct(funds, assets) >= 800 <=> 20000 * funds + assets >= 2 * 800 * assets)
    BY <2>2, MeetsNorm
  <2>6. short > 0 => (pct(cash, short) >= 7500 <=> 20000 * cash + short >= 2 * 7500 * short)
    BY <2>2, MeetsNorm
  <2>7. funds + short > 0
          => (pct(loans, funds + short) <= 10000
                <=> 20000 * loans - (funds + short) < 2 * 10000 * (funds + short))
    BY <2>2, MeetsNorm
  <2>8. loans > 0 => (pct(funds, loans) >= 1000 <=> 20000 * funds + loans >= 2 * 1000 * loans)
    BY <2>2, MeetsNorm
  <2> QED
    BY <2>3, <2>4, <2>5, <2>6, <2>7, <2>8
<1>2. BooksInv => RatiosFollowNorm
  BY <1>1 DEF RatiosFollowNorm
<1> QED
  BY <1>2, BooksSound, PTL

-----------------------------------------------------------------------------
(* The positions of the whole books *)

\* The first and the last day.
LEMMA Extremes ==
    ASSUME NEW S \in SUBSET Nat, IsFiniteSet(S), S # {}
    PROVE  /\ Min(S) \in S /\ \A x \in S : Min(S) <= x
           /\ Max(S) \in S /\ \A x \in S : x <= Max(S)
<1>1. PICK F : F = {T \in SUBSET S : T # {} => /\ \E m \in T : \A x \in T : m <= x
                                               /\ \E m \in T : \A x \in T : x <= m}
  OBVIOUS
<1>2. {} \in F
  BY <1>1
<1>3. ASSUME NEW T \in SUBSET S, NEW y \in S \ T, T \in F
      PROVE  T \cup {y} \in F
  <2>1. CASE T = {}
    BY <1>1, <2>1
  <2>2. CASE T # {}
    <3>1. PICK m \in T, n \in T : \A x \in T : m <= x /\ x <= n
      BY <1>1, <1>3, <2>2
    <3>2. \E p \in T \cup {y} : \A x \in T \cup {y} : p <= x
      <4>1. CASE m <= y
        BY <3>1, <4>1
      <4>2. CASE ~(m <= y)
        <5>1. \A x \in T \cup {y} : y <= x
          BY <3>1, <4>2
        <5> QED
          BY <5>1
      <4> QED
        BY <4>1, <4>2
    <3>3. \E p \in T \cup {y} : \A x \in T \cup {y} : x <= p
      <4>1. CASE y <= n
        BY <3>1, <4>1
      <4>2. CASE ~(y <= n)
        <5>1. \A x \in T \cup {y} : x <= y
          BY <3>1, <4>2
        <5> QED
          BY <5>1
      <4> QED
        BY <4>1, <4>2
    <3> QED
      BY <1>1, <3>2, <3>3
  <2> QED
    BY <2>1, <2>2
<1>4. S \in F
  BY <1>2, <1>3, SetInduction
<1>5. (\E m \in S : \A x \in S : m <= x) /\ (\E m \in S : \A x \in S : x <= m)
  BY <1>1, <1>4
<1>6. Min(S) \in S /\ \A x \in S : Min(S) <= x
  BY <1>5 DEF Min
<1>7. Max(S) \in S /\ \A x \in S : Max(S) >= x
  BY <1>5 DEF Max
<1> QED
  BY <1>6, <1>7

\* In books without drafts nor reversed entries, the first day and the last one
\* take in every line.
LEMMA AllDays ==
    ASSUME BooksInv, AllCounted
    PROVE  /\ Within(FirstDay, LastDay) = Lines /\ Until(LastDay) = Lines
           /\ FirstDay \in Periods /\ LastDay \in Periods /\ FirstDay <= LastDay
           /\ Net(Lines) = 0 /\ LinesOK
<1>1. /\ FirstDay \in Periods /\ \A x \in Periods : FirstDay <= x
      /\ LastDay \in Periods /\ \A x \in Periods : x <= LastDay
  BY Extremes, DaysAssumption, TemplateAssumption DEF FirstDay, LastDay
<1>2. \A l \in Lines : DateOf(l) \in Periods /\ DateOf(l) \in Nat
  BY BooksLines, TemplateAssumption
<1>3. FirstDay \in Nat /\ LastDay \in Nat
  BY <1>1, TemplateAssumption
<1>4. \A l \in Lines : DateOf(l) \in FirstDay..LastDay /\ DateOf(l) <= LastDay
  BY <1>1, <1>2, <1>3
<1>5. Within(FirstDay, LastDay) = Lines /\ Until(LastDay) = Lines
  BY <1>4 DEF AllCounted, Within, Until
<1>6. Net(Until(LastDay)) = 0
  BY Windows
<1> QED
  BY <1>1, <1>5, <1>6, BooksLines

\* Deposits have the opposite sign.
LEMMA DepositTotals ==
    ASSUME BooksInv, NEW d, NEW A
    PROVE  /\ Total(get_deposits_by_type(d), A) = -Net(On(A \cap (Leaves \cap OfPrefix("37")), Lines))
           /\ Net(On(A \cap (Leaves \cap OfPrefix("37")), Lines)) \in Int
<1>1. PICK rows, B : /\ rows = get_deposits_by_type(d) /\ B = Leaves \cap OfPrefix("37")
                     /\ B \in SUBSET Opened
  BY DEF Leaves
<1>2. PICK T : T = A \cap B
  OBVIOUS
<1>3. LinesOK /\ IsFiniteSet(T)
  BY <1>1, <1>2, BooksLines, FS_Subset DEF BooksInv
<1>4. /\ NetPerAccount(T, Lines) \in [T -> Int]
      /\ Sum(NetPerAccount(T, Lines), T) = Net(On(T, Lines))
  BY <1>3, NetByAccount
<1>5. PICK zero : zero = [a \in T |-> 0]
  OBVIOUS
<1>6. zero \in [T -> Int] /\ \A a \in T : zero[a] = 0
  BY <1>5
<1>7. PICK own : own = [a \in T |-> -Net(On({a}, Lines))]
  OBVIOUS
<1>8. /\ own \in [T -> Int]
      /\ \A a \in T : own[a] = zero[a] - NetPerAccount(T, Lines)[a]
  <2>1. \A a \in T : NetPerAccount(T, Lines)[a] = Net(On({a}, Lines)) /\ Net(On({a}, Lines)) \in Int
    BY <1>4 DEF NetPerAccount
  <2> QED
    BY <1>6, <1>7, <2>1
<1>9. Sum(own, T) = Sum(zero, T) - Sum(NetPerAccount(T, Lines), T)
  BY <1>3, <1>4, <1>6, <1>8, SumMinus
<1>10. Sum(zero, T) = 0
  BY <1>3, <1>6, SumZero
<1>11. Total(rows, A) = Sum(rows, T)
  <2>1. DOMAIN rows = B
    BY <1>1 DEF get_deposits_by_type
  <2> QED
    BY <1>2, <2>1 DEF Total, Sum
<1>12. Sum(rows, T) = Sum(own, T)
  <2>1. \A a \in B : rows[a] = -Net(On({a}, Lines)) /\ Net(On({a}, Lines)) \in Int
    <3>1. \A a \in B : On({a}, Lines) \in SUBSET Lines
      BY DEF On
    <3>2. \A a \in B : Net(On({a}, Lines)) \in Int
      BY <1>3, <3>1, NetsAreSums
    <3> QED
      BY <1>1, <3>2 DEF get_deposits_by_type
  <2>2. rows \in [B -> Int]
    <3>1. DOMAIN rows = B /\ rows = [a \in B |-> rows[a]]
      BY <1>1 DEF get_deposits_by_type
    <3>2. \A a \in B : -Net(On({a}, Lines)) \in Int
      BY <2>1
    <3>3. \A a \in B : rows[a] \in Int
      BY <2>1, <3>2
    <3> QED
      BY <3>1, <3>3
  <2>3. \A a \in T : rows[a] = own[a]
    BY <1>2, <1>7, <2>1
  <2> QED
    BY <1>2, <1>3, <1>8, <2>2, <2>3, SumSame
<1>13. Net(On(T, Lines)) \in Int
  <2>1. On(T, Lines) \in SUBSET Lines
    BY DEF On
  <2> QED
    BY <1>3, <2>1, NetsAreSums
<1>14. Total(rows, A) = -Net(On(T, Lines))
  BY <1>4, <1>9, <1>10, <1>11, <1>12, <1>13
<1> QED
  BY <1>1, <1>2, <1>13, <1>14

\* What the balance sheet takes of the banks is what those in credit have.
LEMMA Overdrafts ==
    ASSUME BooksInv, NEW A \in SUBSET Opened
    PROVE  OverdrawnOf(A) = -Net(On({a \in A : Net(On({a}, Lines)) <= 0}, Lines))
<1>1. PICK B : B = {a \in A : Net(On({a}, Lines)) <= 0}
  OBVIOUS
<1>2. LinesOK /\ IsFiniteSet(A) /\ IsFiniteSet(B) /\ IsFiniteSet(A \ B) /\ B \in SUBSET A
  BY <1>1, BooksLines, FS_Subset DEF BooksInv
<1>3. ASSUME NEW a \in A
      PROVE  Net(On({a}, Lines)) \in Int
  <2>1. On({a}, Lines) \in SUBSET Lines
    BY DEF On
  <2> QED
    BY <1>2, <2>1, NetsAreSums
<1>4. PICK w : w = Overdrawn(A)
  OBVIOUS
<1>5. /\ w \in [A -> Int]
      /\ \A a \in A : w[a] = IF a \in B THEN -Net(On({a}, Lines)) ELSE 0
  <2>1. \A a \in A : w[a] = Positive(-Net(On({a}, Lines)))
    BY <1>4 DEF Overdrawn
  <2>2. ASSUME NEW a \in A
        PROVE  w[a] = IF a \in B THEN -Net(On({a}, Lines)) ELSE 0
    BY <1>1, <1>3, <2>1 DEF Positive
  <2>3. DOMAIN w = A /\ w = [a \in A |-> w[a]]
    BY <1>4 DEF Overdrawn
  <2>4. ASSUME NEW a \in A
        PROVE  w[a] \in Int
    <3>1. Net(On({a}, Lines)) \in Int /\ w[a] = IF a \in B THEN -Net(On({a}, Lines)) ELSE 0
      BY <1>3, <2>2
    <3> QED
      BY <3>1
  <2> QED
    BY <2>2, <2>3, <2>4
<1>6. Sum(w, A) = Sum(w, B) + Sum(w, A \ B)
  <2>1. A = B \cup (A \ B)
    BY <1>2
  <2>2. Sum(w, B \cup (A \ B)) = Sum(w, B) + Sum(w, A \ B)
    BY <1>2, <1>5, SumSplit
  <2> QED
    BY <2>1, <2>2
<1>7. Sum(w, A \ B) = 0
  BY <1>2, <1>5, SumZero
<1>8. /\ NetPerAccount(B, Lines) \in [B -> Int]
      /\ Sum(NetPerAccount(B, Lines), B) = Net(On(B, Lines))
  BY <1>2, NetByAccount
<1>9. Sum(w, B) = -Net(On(B, Lines))
  <2>1. PICK u, zero : u = [a \in B |-> w[a]] /\ zero = [a \in B |-> 0]
    OBVIOUS
  <2>2. u \in [B -> Int] /\ zero \in [B -> Int] /\ \A a \in B : u[a] = w[a] /\ zero[a] = 0
    BY <1>2, <1>5, <2>1
  <2>3. \A a \in B : u[a] = zero[a] - NetPerAccount(B, Lines)[a]
    <3>1. \A a \in B : /\ NetPerAccount(B, Lines)[a] = Net(On({a}, Lines))
                       /\ u[a] = -Net(On({a}, Lines))
      BY <1>2, <1>5, <2>2 DEF NetPerAccount
    <3> SUFFICES ASSUME NEW a \in B
                 PROVE  u[a] = zero[a] - NetPerAccount(B, Lines)[a]
      OBVIOUS
    <3>2. Net(On({a}, Lines)) \in Int /\ zero[a] = 0
      BY <1>2, <1>3, <2>2
    <3> QED
      BY <3>1, <3>2
  <2>4. Sum(w, B) = Sum(u, B)
    BY <1>2, <1>5, <2>2, SumSame
  <2>5. Sum(u, B) = Sum(zero, B) - Sum(NetPerAccount(B, Lines), B)
    BY <1>2, <1>8, <2>2, <2>3, SumMinus
  <2>6. Sum(zero, B) = 0
    BY <1>2, <2>2, SumZero
  <2>7. Net(On(B, Lines)) \in Int
    <3>1. On(B, Lines) \in SUBSET Lines
      BY DEF On
    <3> QED
      BY <1>2, <3>1, NetsAreSums
  <2> QED
    BY <1>8, <2>4, <2>5, <2>6, <2>7
<1>10. OverdrawnOf(A) = Sum(w, A)
  BY <1>2, <1>4, OverdraftsAreSums
<1>11. Net(On(B, Lines)) \in Int
  <2>1. On(B, Lines) \in SUBSET Lines
    BY DEF On
  <2> QED
    BY <1>2, <2>1, NetsAreSums
<1> QED
  BY <1>1, <1>6, <1>7, <1>9, <1>10, <1>11

\* Nets of selections of all the lines.
LEMMA NetsOfAll ==
    ASSUME BooksInv, NEW A, NEW B
    PROVE  /\ Net(On(A, Lines)) \in Int
           /\ A \cap B = {} => Net(On(A \cup B, Lines)) = Net(On(A, Lines)) + Net(On(B, Lines))
<1>1. On(A, Lines) \in SUBSET Lines
  BY DEF On
<1> QED
  BY <1>1, BooksLines, NetsAreSums, NetOfAccounts

InSection(i) ==
    CASE i = 1 -> OfClass("IMMOBILISE") \cap OfType("ACTIF")
      [] i = 2 -> OfClass("TIERS") \cap OfType("ACTIF")
      [] i = 3 -> OfClass("TRESORERIE") \cap OfType("ACTIF")
      [] i = 4 -> OfClass("CAPITAL") \cap OfType("PASSIF")
      [] i = 5 -> OfClass("STOCK") \cap OfType("PASSIF")
      [] i = 6 -> OfClass("TIERS") \cap OfType("PASSIF")
      [] i = 7 -> {a \in OfClass("TRESORERIE") \cap OfType("PASSIF") : Net(On({a}, Lines)) <= 0}
UpToSection(n) == UNION {InSection(i) : i \in 1..n}

\* The sections, one by one.
LEMMA SectionNames ==
    /\ InSection(1) = OfClass("IMMOBILISE") \cap OfType("ACTIF")
    /\ InSection(2) = OfClass("TIERS") \cap OfType("ACTIF")
    /\ InSection(3) = OfClass("TRESORERIE") \cap OfType("ACTIF")
    /\ InSection(4) = OfClass("CAPITAL") \cap OfType("PASSIF")
    /\ InSection(5) = OfClass("STOCK") \cap OfType("PASSIF")
    /\ InSection(6) = OfClass("TIERS") \cap OfType("PASSIF")
    /\ InSection(7) = {a \in OfClass("TRESORERIE") \cap OfType("PASSIF") : Net(On({a}, Lines)) <= 0}
BY DEF InSection

\* The seven sections are disjoint, and they are what is shown.
LEMMA SectionsShown ==
    /\ \A n \in 1..6 : /\ UpToSection(n) \cap InSection(n + 1) = {}
                       /\ UpToSection(n + 1) = UpToSection(n) \cup InSection(n + 1)
    /\ UpToSection(1) = InSection(1)
    /\ UpToSection(7) = Shown
    /\ Shown \cap Results = {} /\ Shown \in SUBSET Opened
    /\ \A i \in 1..7 : InSection(i) \in SUBSET Opened
<1>1. \A i \in 1..7 : \A a \in InSection(i) :
         /\ a \in Opened
         /\ i = 1 => ClassOf[a] = "IMMOBILISE" /\ TypeOf[a] = "ACTIF"
         /\ i = 2 => ClassOf[a] = "TIERS" /\ TypeOf[a] = "ACTIF"
         /\ i = 3 => ClassOf[a] = "TRESORERIE" /\ TypeOf[a] = "ACTIF"
         /\ i = 4 => ClassOf[a] = "CAPITAL" /\ TypeOf[a] = "PASSIF"
         /\ i = 5 => ClassOf[a] = "STOCK" /\ TypeOf[a] = "PASSIF"
         /\ i = 6 => ClassOf[a] = "TIERS" /\ TypeOf[a] = "PASSIF"
         /\ i = 7 => ClassOf[a] = "TRESORERIE" /\ TypeOf[a] = "PASSIF"
  <2> SUFFICES ASSUME NEW i \in 1..7, NEW a \in InSection(i)
               PROVE  /\ a \in Opened
                      /\ i = 1 => ClassOf[a] = "IMMOBILISE" /\ TypeOf[a] = "ACTIF"
                      /\ i = 2 => ClassOf[a] = "TIERS" /\ TypeOf[a] = "ACTIF"
                      /\ i = 3 => ClassOf[a] = "TRESORERIE" /\ TypeOf[a] = "ACTIF"
                      /\ i = 4 => ClassOf[a] = "CAPITAL" /\ TypeOf[a] = "PASSIF"
                      /\ i = 5 => ClassOf[a] = "STOCK" /\ TypeOf[a] = "PASSIF"
                      /\ i = 6 => ClassOf[a] = "TIERS" /\ TypeOf[a] = "PASSIF"
                      /\ i = 7 => ClassOf[a] = "TRESORERIE" /\ TypeOf[a] = "PASSIF"
    OBVIOUS
  <2>1. i = 1 \/ i = 2 \/ i = 3 \/ i = 4 \/ i = 5 \/ i = 6 \/ i = 7
    OBVIOUS
  <2>2. CASE i = 1
    BY <2>2, SectionNames DEF OfClass, OfType
  <2>3. CASE i = 2
    BY <2>3, SectionNames DEF OfClass, OfType
  <2>4. CASE i = 3
    BY <2>4, SectionNames DEF OfClass, OfType
  <2>5. CASE i = 4
    BY <2>5, SectionNames DEF OfClass, OfType
  <2>6. CASE i = 5
    BY <2>6, SectionNames DEF OfClass, OfType
  <2>7. CASE i = 6
    BY <2>7, SectionNames DEF OfClass, OfType
  <2>8. CASE i = 7
    BY <2>8, SectionNames DEF OfClass, OfType
  <2> QED
    BY <2>1, <2>2, <2>3, <2>4, <2>5, <2>6, <2>7, <2>8
<1>2. ASSUME NEW i \in 1..7, NEW j \in 1..7, i # j
      PROVE  InSection(i) \cap InSection(j) = {}
  <2> SUFFICES ASSUME NEW a \in InSection(i), a \in InSection(j)
               PROVE  FALSE
    OBVIOUS
  <2>1. i = 1 \/ i = 2 \/ i = 3 \/ i = 4 \/ i = 5 \/ i = 6 \/ i = 7
    OBVIOUS
  <2>2. j = 1 \/ j = 2 \/ j = 3 \/ j = 4 \/ j = 5 \/ j = 6 \/ j = 7
    OBVIOUS
  <2> QED
    BY <1>1, <1>2, <2>1, <2>2
<1>3. ASSUME NEW n \in 1..6
      PROVE  /\ UpToSection(n) \cap InSection(n + 1) = {}
             /\ UpToSection(n + 1) = UpToSection(n) \cup InSection(n + 1)
  <2>1. \A i \in 1..n : InSection(i) \cap InSection(n + 1) = {}
    <3> SUFFICES ASSUME NEW i \in 1..n
                 PROVE  InSection(i) \cap InSection(n + 1) = {}
      OBVIOUS
    <3>1. i \in 1..7 /\ n + 1 \in 1..7 /\ i # n + 1
      OBVIOUS
    <3> QED
      BY <1>2, <3>1
  <2>2. 1..(n + 1) = (1..n) \cup {n + 1}
    OBVIOUS
  <2>3. UpToSection(n + 1) = UNION {InSection(i) : i \in (1..n) \cup {n + 1}}
    BY <2>2 DEF UpToSection
  <2> QED
    BY <2>1, <2>3 DEF UpToSection
<1>4. UpToSection(1) = InSection(1)
  BY DEF UpToSection
<1>5. UpToSection(7) \subseteq Shown
  <2> SUFFICES ASSUME NEW i \in 1..7, NEW a \in InSection(i)
               PROVE  a \in Shown
    BY DEF UpToSection
  <2>1. i = 1 \/ i = 2 \/ i = 3 \/ i = 4 \/ i = 5 \/ i = 6 \/ i = 7
    OBVIOUS
  <2>2. CASE i = 7
    BY <1>1, <2>2, SectionNames DEF Shown
  <2>3. CASE i # 7
    <3>1. a \in Opened /\ <<ClassOf[a], TypeOf[a]>> \in Sections
      BY <1>1, <2>1, <2>3 DEF Sections
    <3> QED
      BY <3>1 DEF Shown
  <2> QED
    BY <2>2, <2>3
<1>6. Shown \subseteq UpToSection(7)
  <2> SUFFICES ASSUME NEW a \in Shown
               PROVE  \E i \in 1..7 : a \in InSection(i)
    BY DEF UpToSection
  <2>1. a \in Opened
    BY DEF Shown
  <2>2. CASE /\ <<ClassOf[a], TypeOf[a]>> = <<"TRESORERIE", "PASSIF">>
             /\ Net(On({a}, Lines)) <= 0
    <3>1. a \in InSection(7)
      BY <2>1, <2>2, SectionNames DEF OfClass, OfType
    <3> QED
      BY <3>1
  <2>3. CASE <<ClassOf[a], TypeOf[a]>> \in Sections
    <3>1. \/ ClassOf[a] = "IMMOBILISE" /\ TypeOf[a] = "ACTIF"
          \/ ClassOf[a] = "TIERS" /\ TypeOf[a] = "ACTIF"
          \/ ClassOf[a] = "TRESORERIE" /\ TypeOf[a] = "ACTIF"
          \/ ClassOf[a] = "CAPITAL" /\ TypeOf[a] = "PASSIF"
          \/ ClassOf[a] = "STOCK" /\ TypeOf[a] = "PASSIF"
          \/ ClassOf[a] = "TIERS" /\ TypeOf[a] = "PASSIF"
      BY <2>3 DEF Sections
    <3>2. \/ a \in InSection(1) \/ a \in InSection(2) \/ a \in InSection(3)
          \/ a \in InSection(4) \/ a \in InSection(5) \/ a \in InSection(6)
      BY <2>1, <3>1, SectionNames DEF OfClass, OfType
    <3> QED
      BY <3>2
  <2> QED
    BY <2>2, <2>3 DEF Shown
<1>7. Shown \cap Results = {}
  <2> SUFFICES ASSUME NEW a \in Shown, a \in Results
               PROVE  FALSE
    OBVIOUS
  <2>1. ClassOf[a] \in {"CHARGES", "PRODUITS"}
    BY DEF Results, OfClass
  <2>2. ClassOf[a] \in {"IMMOBILISE", "TIERS", "TRESORERIE", "CAPITAL", "STOCK"}
    BY DEF Shown, Sections
  <2> QED
    BY <2>1, <2>2
<1>8. Shown \in SUBSET Opened
  BY DEF Shown
<1> QED
  BY <1>1, <1>3, <1>4, <1>5, <1>6, <1>7, <1>8

\* The sections of the balance sheet add up to what is shown.
LEMMA NetOfSections ==
    ASSUME BooksInv
    PROVE  Net(On(Shown, Lines))
             = Net(On(InSection(1), Lines)) + Net(On(InSection(2), Lines))
                 + Net(On(InSection(3), Lines)) + Net(On(InSection(4), Lines))
                 + Net(On(InSection(5), Lines)) + Net(On(InSection(6), Lines))
                 + Net(On(InSection(7), Lines))
<1>1. ASSUME NEW n \in 1..6
      PROVE  Net(On(UpToSection(n + 1), Lines))
               = Net(On(UpToSection(n), Lines)) + Net(On(InSection(n + 1), Lines))
  <2>1. /\ UpToSection(n) \cap InSection(n + 1) = {}
        /\ UpToSection(n + 1) = UpToSection(n) \cup InSection(n + 1)
    BY SectionsShown
  <2>2. Net(On(UpToSection(n) \cup InSection(n + 1), Lines))
          = Net(On(UpToSection(n), Lines)) + Net(On(InSection(n + 1), Lines))
    BY <2>1, NetsOfAll
  <2> QED
    BY <2>1, <2>2
<1>2. 1 + 1 = 2 /\ 2 + 1 = 3 /\ 3 + 1 = 4 /\ 4 + 1 = 5 /\ 5 + 1 = 6 /\ 6 + 1 = 7
  OBVIOUS
<1>3. Net(On(UpToSection(2), Lines)) = Net(On(InSection(1), Lines)) + Net(On(InSection(2), Lines))
  BY <1>1, <1>2, SectionsShown
<1>4. Net(On(UpToSection(3), Lines)) = Net(On(UpToSection(2), Lines)) + Net(On(InSection(3), Lines))
  BY <1>1, <1>2
<1>5. Net(On(UpToSection(4), Lines)) = Net(On(UpToSection(3), Lines)) + Net(On(InSection(4), Lines))
  BY <1>1, <1>2
<1>6. Net(On(UpToSection(5), Lines)) = Net(On(UpToSection(4), Lines)) + Net(On(InSection(5), Lines))
  BY <1>1, <1>2
<1>7. Net(On(UpToSection(6), Lines)) = Net(On(UpToSection(5), Lines)) + Net(On(InSection(6), Lines))
  BY <1>1, <1>2
<1>8. Net(On(UpToSection(7), Lines)) = Net(On(UpToSection(6), Lines)) + Net(On(InSection(7), Lines))
  BY <1>1, <1>2
<1>9. UpToSection(7) = Shown
  BY SectionsShown
<1> QED
  BY <1>3, <1>4, <1>5, <1>6, <1>7, <1>8, <1>9

\* The balance sheet adds the sections up.
LEMMA BilanIs ==
    ASSUME BooksInv, AllCounted, NEW d
    PROVE  bilan(d).total_actif - bilan(d).total_passif = Net(On(Shown, Lines))
<1>1. ASSUME NEW c, NEW t
      PROVE  get_balance_by_account_class(d, c, t) = Net(On(OfClass(c) \cap OfType(t), Lines))
  <2>1. OfClass(c) \cap OfType(t) \in SUBSET Opened /\ Lines \in SUBSET Lines
    BY DEF OfClass
  <2>2. On(Listed \cap (OfClass(c) \cap OfType(t)), Lines) = On(OfClass(c) \cap OfType(t), Lines)
    BY <2>1, OnLeaves
  <2>3. Listed \cap (OfClass(c) \cap OfType(t)) = Listed \cap OfClass(c) \cap OfType(t)
    OBVIOUS
  <2> QED
    BY <2>2, <2>3 DEF get_balance_by_account_class
<1>2. PICK banks : banks = Listed \cap OfClass("TRESORERIE") \cap OfType("PASSIF")
  OBVIOUS
<1>3. OverdrawnOf(banks) = -Net(On(InSection(7), Lines))
  <2>1. banks \in SUBSET Opened
    BY <1>2 DEF OfClass
  <2>2. OverdrawnOf(banks) = -Net(On({a \in banks : Net(On({a}, Lines)) <= 0}, Lines))
    BY <2>1, Overdrafts
  <2>3. {a \in banks : Net(On({a}, Lines)) <= 0} = Listed \cap InSection(7)
    BY <1>2, SectionNames
  <2>4. InSection(7) \in SUBSET Opened /\ Lines \in SUBSET Lines
    BY SectionsShown
  <2>5. On(Listed \cap InSection(7), Lines) = On(InSection(7), Lines)
    BY <2>4, OnLeaves
  <2> QED
    BY <2>2, <2>3, <2>5
<1>4. /\ bilan(d).total_actif
           = get_balance_by_account_class(d, "IMMOBILISE", "ACTIF")
               + get_balance_by_account_class(d, "TIERS", "ACTIF")
               + get_balance_by_account_class(d, "TRESORERIE", "ACTIF")
      /\ bilan(d).total_passif
           = OverdrawnOf(banks) - get_balance_by_account_class(d, "CAPITAL", "PASSIF")
               - get_balance_by_account_class(d, "STOCK", "PASSIF")
               - get_balance_by_account_class(d, "TIERS", "PASSIF")
  BY <1>2 DEF bilan, OverdrawnOf
<1>5. /\ bilan(d).total_actif
           = Net(On(InSection(1), Lines)) + Net(On(InSection(2), Lines)) + Net(On(InSection(3), Lines))
      /\ bilan(d).total_passif
           = -Net(On(InSection(7), Lines)) - Net(On(InSection(4), Lines))
               - Net(On(InSection(5), Lines)) - Net(On(InSection(6), Lines))
  BY <1>1, <1>3, <1>4, SectionNames
<1>6. \A i \in 1..7 : Net(On(InSection(i), Lines)) \in Int
  BY NetsOfAll
<1> QED
  BY <1>5, <1>6, NetOfSections

\* The gap of the balance sheet.
LEMMA GapIs ==
    ASSUME BooksInv, AllCounted
    PROVE  GapIsResult
<1>1. bilan(LastDay).total_actif - bilan(LastDay).total_passif = Net(On(Shown, Lines))
  BY BilanIs
<1>2. get_net_income(FirstDay, LastDay) = -Net(On(Results, Lines))
  BY AllDays DEF get_net_income, Results
<1>3. Net(On(Shown \cup Results, Lines)) = Net(On(Shown, Lines)) + Net(On(Results, Lines))
  BY SectionsShown, NetsOfAll
<1>4. Net(On(Shown \cup Results, Lines)) = -Net(On(Opened \ (Shown \cup Results), Lines))
  <2>1. Shown \cup Results \in SUBSET Opened /\ Lines \in SUBSET Lines /\ Net(Lines) = 0
    BY AllDays, SectionsShown DEF Results, OfClass
  <2> QED
    BY <2>1, NetOfRest
<1>5. /\ Net(On(Shown, Lines)) \in Int /\ Net(On(Results, Lines)) \in Int
      /\ Net(On(Opened \ (Shown \cup Results), Lines)) \in Int
  BY NetsOfAll
<1>6. bilan(LastDay).total_actif - bilan(LastDay).total_passif
        = get_net_income(FirstDay, LastDay) - Net(On(Opened \ (Shown \cup Results), Lines))
  BY <1>1, <1>2, <1>3, <1>4, <1>5
<1> QED
  BY <1>6 DEF GapIsResult

\* Four positions that every line is in exactly one of share the books out.
LEMMA SharedOut ==
    ASSUME BooksInv, AllCounted, EachOnce
    PROVE  0 = Net(On(OfType("ACTIF"), Lines)) + Net(On(OfClass("CAPITAL"), Lines))
                 + Net(On(OfPrefix("37"), Lines)) + Net(On(Results, Lines))
<1>1. PICK P : P = [i \in 1..4 |-> On(Positions[i], Lines)]
  OBVIOUS
<1>2. /\ P[1] = On(OfType("ACTIF"), Lines) /\ P[2] = On(OfClass("CAPITAL"), Lines)
      /\ P[3] = On(OfPrefix("37"), Lines) /\ P[4] = On(Results, Lines)
  BY <1>1 DEF Positions
<1>3. \A i \in 1..4 : P[i] \in SUBSET Lines
  BY <1>2 DEF On
<1>4. ASSUME NEW l \in Lines
      PROVE  \E i \in 1..4 : l \in P[i] /\ \A j \in 1..4 : l \in P[j] => j = i
  <2>1. PICK I : I = {i \in 1..4 : At(l).account \in Positions[i]}
    OBVIOUS
  <2>2. Cardinality(I) = 1
    BY <2>1 DEF EachOnce
  <2>3. IsFiniteSet(I)
    <3>1. PICK n \in Int : n = 4
      OBVIOUS
    <3>2. IsFiniteSet(1..n)
      BY FS_Interval
    <3>3. I \in SUBSET (1..n)
      BY <2>1, <3>1
    <3> QED
      BY <3>2, <3>3, FS_Subset
  <2>4. PICK i : I = {i}
    BY <2>2, <2>3, FS_Singleton
  <2>5. i \in 1..4 /\ \A j \in 1..4 : At(l).account \in Positions[j] <=> j = i
    BY <2>1, <2>4
  <2>6. \A j \in 1..4 : l \in P[j] <=> At(l).account \in Positions[j]
    BY <1>1 DEF On
  <2> QED
    BY <2>5, <2>6
<1>5. Lines = P[1] \cup P[2] \cup P[3] \cup P[4]
  <2>1. ASSUME NEW l \in Lines
        PROVE  l \in P[1] \cup P[2] \cup P[3] \cup P[4]
    <3>1. PICK i \in 1..4 : l \in P[i]
      BY <1>4
    <3>2. i = 1 \/ i = 2 \/ i = 3 \/ i = 4
      OBVIOUS
    <3>3. l \in P[1] \/ l \in P[2] \/ l \in P[3] \/ l \in P[4]
      BY <3>1, <3>2
    <3> QED
      BY <3>3
  <2>2. P[1] \in SUBSET Lines /\ P[2] \in SUBSET Lines /\ P[3] \in SUBSET Lines /\ P[4] \in SUBSET Lines
    BY <1>3
  <2> QED
    BY <2>1, <2>2
<1>6. ASSUME NEW i \in 1..4, NEW j \in 1..4, i # j
      PROVE  P[i] \cap P[j] = {}
  BY <1>3, <1>4, <1>6
<1>7. /\ P[1] \cap P[2] = {} /\ (P[1] \cup P[2]) \cap P[3] = {}
      /\ (P[1] \cup P[2] \cup P[3]) \cap P[4] = {}
  <2>1. P[1] \cap P[2] = {} /\ P[1] \cap P[3] = {} /\ P[2] \cap P[3] = {}
    BY <1>6
  <2>2. P[1] \cap P[4] = {} /\ P[2] \cap P[4] = {} /\ P[3] \cap P[4] = {}
    BY <1>6
  <2> QED
    BY <2>1, <2>2
<1>8. /\ P[1] \in SUBSET Lines /\ P[2] \in SUBSET Lines /\ P[3] \in SUBSET Lines /\ P[4] \in SUBSET Lines
      /\ P[1] \cup P[2] \in SUBSET Lines /\ P[1] \cup P[2] \cup P[3] \in SUBSET Lines
  <2>1. P[1] \in SUBSET Lines /\ P[2] \in SUBSET Lines /\ P[3] \in SUBSET Lines /\ P[4] \in SUBSET Lines
    BY <1>3
  <2> QED
    BY <2>1
<1>9. LinesOK /\ Net(Lines) = 0
  BY AllDays
<1>10. Net(P[1] \cup P[2]) = Net(P[1]) + Net(P[2])
  BY <1>7, <1>8, <1>9, NetSplit
<1>11. Net(P[1] \cup P[2] \cup P[3]) = Net(P[1] \cup P[2]) + Net(P[3])
  BY <1>7, <1>8, <1>9, NetSplit
<1>12. Net(P[1] \cup P[2] \cup P[3] \cup P[4]) = Net(P[1] \cup P[2] \cup P[3]) + Net(P[4])
  BY <1>7, <1>8, <1>9, NetSplit
<1>13. Net(Lines) = Net(P[1]) + Net(P[2]) + Net(P[3]) + Net(P[4])
  BY <1>5, <1>10, <1>11, <1>12
<1> QED
  BY <1>2, <1>9, <1>13

\* Assets are equity, deposits and result.
LEMMA AssetsFit ==
    ASSUME BooksInv, AllCounted, EachOnce
    PROVE  get_total_assets(LastDay)
             = get_equity(LastDay) + dashboard(FirstDay, LastDay).encours_epargne
                 + dashboard(FirstDay, LastDay).resultat_net
<1>1. /\ OfType("ACTIF") \in SUBSET Opened /\ OfClass("CAPITAL") \in SUBSET Opened
      /\ OfPrefix("37") \in SUBSET Opened /\ Lines \in SUBSET Lines
  BY DEF OfType, OfClass, OfPrefix
<1>2. /\ On(Leaves \cap OfType("ACTIF"), Lines) = On(OfType("ACTIF"), Lines)
      /\ On(Leaves \cap OfClass("CAPITAL"), Lines) = On(OfClass("CAPITAL"), Lines)
      /\ On(Leaves \cap OfPrefix("37"), Lines) = On(OfPrefix("37"), Lines)
  BY <1>1, OnLeaves
<1>3. Until(LastDay) = Lines /\ Within(FirstDay, LastDay) = Lines
  BY AllDays
<1>4. get_total_assets(LastDay) = Net(On(OfType("ACTIF"), Lines))
  BY <1>2, <1>3 DEF get_total_assets
<1>5. get_equity(LastDay) = -Net(On(OfClass("CAPITAL"), Lines))
  BY <1>2, <1>3 DEF get_equity
<1>6. dashboard(FirstDay, LastDay).encours_epargne = -Net(On(OfPrefix("37"), Lines))
  <2>1. dashboard(FirstDay, LastDay).encours_epargne = Total(get_deposits_by_type(LastDay), Accounts)
    BY DEF dashboard
  <2>2. Accounts \cap (Leaves \cap OfPrefix("37")) = Leaves \cap OfPrefix("37")
    BY DEF Leaves, Opened
  <2>3. Total(get_deposits_by_type(LastDay), Accounts)
          = -Net(On(Accounts \cap (Leaves \cap OfPrefix("37")), Lines))
    BY DepositTotals
  <2> QED
    BY <1>2, <2>1, <2>2, <2>3
<1>7. dashboard(FirstDay, LastDay).resultat_net = -Net(On(Results, Lines))
  <2>1. dashboard(FirstDay, LastDay).resultat_net = get_net_income(FirstDay, LastDay)
    BY DEF dashboard
  <2> QED
    BY <1>3, <2>1 DEF get_net_income, Results
<1>8. /\ Net(On(OfType("ACTIF"), Lines)) \in Int /\ Net(On(OfClass("CAPITAL"), Lines)) \in Int
      /\ Net(On(OfPrefix("37"), Lines)) \in Int /\ Net(On(Results, Lines)) \in Int
  BY NetsOfAll
<1> QED
  BY <1>4, <1>5, <1>6, <1>7, <1>8, SharedOut

\* The dashboard's savings and the deposit report.
LEMMA DepositsFit ==
    ASSUME BooksInv, AllCounted
    PROVE  LET types == OfPrefix("371") \cup OfPrefix("372") \cup OfPrefix("375")
           IN  dashboard(FirstDay, LastDay).encours_epargne
                 - deposits(LastDay, FirstDay, LastDay).total_depots
                   = -Net(On(OfPrefix("37") \ types, Lines))
<1>1. PICK types : types = OfPrefix("371") \cup OfPrefix("372") \cup OfPrefix("375")
  OBVIOUS
<1>2. PICK D : D = Leaves \cap OfPrefix("37")
  OBVIOUS
<1>3. dashboard(FirstDay, LastDay).encours_epargne = -Net(On(D, Lines))
  <2>1. dashboard(FirstDay, LastDay).encours_epargne = Total(get_deposits_by_type(LastDay), Accounts)
    BY DEF dashboard
  <2>2. Accounts \cap D = D
    BY <1>2 DEF Leaves, Opened
  <2> QED
    BY <1>2, <2>1, <2>2, DepositTotals
<1>4. deposits(LastDay, FirstDay, LastDay).total_depots = -Net(On(types \cap D, Lines))
  <2>1. deposits(LastDay, FirstDay, LastDay).total_depots = Total(get_deposits_by_type(LastDay), types)
    BY <1>1 DEF deposits
  <2> QED
    BY <1>2, <2>1, DepositTotals
<1>5. Net(On(D, Lines)) = Net(On(types \cap D, Lines)) + Net(On(D \ types, Lines))
  <2>1. D = (types \cap D) \cup (D \ types) /\ (types \cap D) \cap (D \ types) = {}
    OBVIOUS
  <2>2. Net(On((types \cap D) \cup (D \ types), Lines))
          = Net(On(types \cap D, Lines)) + Net(On(D \ types, Lines))
    BY <2>1, NetsOfAll
  <2> QED
    BY <2>1, <2>2
<1>6. On(D \ types, Lines) = On(OfPrefix("37") \ types, Lines)
  <2>1. OfPrefix("37") \ types \in SUBSET Opened /\ Lines \in SUBSET Lines
    BY DEF OfPrefix
  <2>2. On(Leaves \cap (OfPrefix("37") \ types), Lines) = On(OfPrefix("37") \ types, Lines)
    BY <2>1, OnLeaves
  <2>3. Leaves \cap (OfPrefix("37") \ types) = D \ types
    BY <1>2
  <2> QED
    BY <2>2, <2>3
<1>7. /\ Net(On(D, Lines)) \in Int /\ Net(On(types \cap D, Lines)) \in Int
      /\ Net(On(D \ types, Lines)) \in Int
  BY NetsOfAll
<1> QED
  BY <1>1, <1>3, <1>4, <1>5, <1>6, <1>7

\* The dashboard's income and its result.
LEMMA IncomeFits ==
    ASSUME BooksInv, AllCounted
    PROVE  dashboard(FirstDay, LastDay).produit_net_bancaire - dashboard(FirstDay, LastDay).resultat_net
             = Net(On(OfClass("CHARGES") \ OfPrefix("663"), Lines))
<1>1. PICK banking : banking = OfClass("PRODUITS") \cup (OfClass("CHARGES") \cap OfPrefix("663"))
  OBVIOUS
<1>2. Within(FirstDay, LastDay) = Lines /\ Lines \in SUBSET Lines
  BY AllDays
<1>3. dashboard(FirstDay, LastDay).produit_net_bancaire = -Net(On(banking, Lines))
  <2>1. dashboard(FirstDay, LastDay).produit_net_bancaire
          = -Total(get_charges_produits(FirstDay, LastDay), banking)
    BY <1>1 DEF dashboard
  <2>2. get_charges_produits(FirstDay, LastDay) = NetPerAccount(Leaves \cap Results, Lines)
    BY <1>2 DEF get_charges_produits, NetPerAccount, Results
  <2>3. Leaves \cap Results \in SUBSET Opened
    BY DEF Leaves
  <2>4. Total(NetPerAccount(Leaves \cap Results, Lines), banking)
          = Net(On(banking \cap (Leaves \cap Results), Lines))
    BY <1>2, <2>3, TotalIs
  <2>5. banking \cap (Leaves \cap Results) = Leaves \cap banking /\ banking \in SUBSET Opened
    BY <1>1 DEF Results, OfClass
  <2>6. On(Leaves \cap banking, Lines) = On(banking, Lines)
    BY <1>2, <2>5, OnLeaves
  <2> QED
    BY <2>1, <2>2, <2>4, <2>5, <2>6
<1>4. dashboard(FirstDay, LastDay).resultat_net = -Net(On(Results, Lines))
  <2>1. dashboard(FirstDay, LastDay).resultat_net = get_net_income(FirstDay, LastDay)
    BY DEF dashboard
  <2> QED
    BY <1>2, <2>1 DEF get_net_income, Results
<1>5. Net(On(Results, Lines))
        = Net(On(banking, Lines)) + Net(On(OfClass("CHARGES") \ OfPrefix("663"), Lines))
  <2>1. Results = banking \cup (OfClass("CHARGES") \ OfPrefix("663"))
    BY <1>1 DEF Results
  <2>2. banking \cap (OfClass("CHARGES") \ OfPrefix("663")) = {}
    <3>1. OfClass("PRODUITS") \cap OfClass("CHARGES") = {}
      BY DEF OfClass
    <3> QED
      BY <1>1, <3>1
  <2>3. Net(On(banking \cup (OfClass("CHARGES") \ OfPrefix("663")), Lines))
          = Net(On(banking, Lines)) + Net(On(OfClass("CHARGES") \ OfPrefix("663"), Lines))
    BY <2>2, NetsOfAll
  <2> QED
    BY <2>1, <2>3
<1>6. /\ Net(On(banking, Lines)) \in Int /\ Net(On(Results, Lines)) \in Int
      /\ Net(On(OfClass("CHARGES") \ OfPrefix("663"), Lines)) \in Int
  BY NetsOfAll
<1> QED
  BY <1>3, <1>4, <1>5, <1>6

\* The positions of the balance sheet, of the dashboard and of the deposit report
\* are taken by queries of their own, and they fit together.
THEOREM PositionsFit == ReportSpec => []PositionsAddUp
<1>1. BooksInv => PositionsAddUp
  BY GapIs, AssetsFit, DepositsFit, IncomeFits DEF PositionsAddUp
<1> QED
  BY <1>1, BooksSound, PTL

-----------------------------------------------------------------------------
(* Events *)

\* An entry that names an event has the lines of its rule, and is alone to name it.
EventsInv ==
    /\ \A e \in Recorded : entries[e].event # NoEvent =>
          /\ entries[e].event \in Events
          /\ entries[e].lines = Posting[entries[e].event].lines
    /\ \A e, f \in Recorded :
          entries[e].event = entries[f].event /\ entries[e].event # NoEvent => e = f

\* A new entry names no event, or one that is new with the lines of its rule.
LEMMA EventsEnter ==
    ASSUME BooksInv, EventsInv, NEW e \in EntryIds, NEW row, Enter(e, row), row # NoRow,
           \/ row.event = NoEvent
           \/ /\ row.event \in Events /\ row.lines = Posting[row.event].lines
              /\ \A f \in Recorded : entries[f].event # row.event
    PROVE  EventsInv'
<1>1. entries' = [entries EXCEPT ![e] = row] /\ e \notin Recorded
  BY DEF Enter
<1>2. Recorded' = Recorded \cup {e} /\ entries'[e] = row
  BY <1>1 DEF Recorded, BooksInv
<1>3. \A f \in Recorded : entries'[f] = entries[f]
  BY <1>1 DEF Recorded, BooksInv
<1>4. ASSUME NEW f \in Recorded', entries'[f].event # NoEvent
      PROVE  entries'[f].event \in Events /\ entries'[f].lines = Posting[entries'[f].event].lines
  <2>1. CASE f = e
    BY <1>2, <1>4, <2>1
  <2>2. CASE f # e
    BY <1>2, <1>3, <1>4, <2>2 DEF EventsInv
  <2> QED
    BY <2>1, <2>2
<1>5. ASSUME NEW f \in Recorded', NEW g \in Recorded',
             entries'[f].event = entries'[g].event, entries'[f].event # NoEvent
      PROVE  f = g
  <2>1. CASE f = e \/ g = e
    BY <1>1, <1>2, <1>3, <1>5, <2>1
  <2>2. CASE f # e /\ g # e
    BY <1>2, <1>3, <1>5, <2>2 DEF EventsInv
  <2> QED
    BY <2>1, <2>2
<1> QED
  BY <1>4, <1>5 DEF EventsInv

\* A row that keeps its lines and its event.
SameEvent(row, old) == row # NoRow /\ row.event = old.event /\ row.lines = old.lines

\* Entries that keep lines and events, and new ones without an event.
LEMMA EventsMark ==
    ASSUME BooksInv, EventsInv, NEW e \in Recorded, NEW old, SameEvent(old, entries[e]),
           NEW S, Recorded' = Recorded \cup S,
           \A f \in Recorded : entries'[f] = IF f = e THEN old ELSE entries[f],
           \A f \in S : entries'[f].event = NoEvent
    PROVE  EventsInv'
<1>1. \A f \in Recorded : entries'[f].event = entries[f].event /\ entries'[f].lines = entries[f].lines
  BY DEF SameEvent
<1>2. \A f \in Recorded' : entries'[f].event # NoEvent => f \in Recorded
  OBVIOUS
<1>3. ASSUME NEW f \in Recorded', entries'[f].event # NoEvent
      PROVE  entries'[f].event \in Events /\ entries'[f].lines = Posting[entries'[f].event].lines
  BY <1>1, <1>2, <1>3 DEF EventsInv
<1>4. ASSUME NEW f \in Recorded', NEW g \in Recorded',
             entries'[f].event = entries'[g].event, entries'[f].event # NoEvent
      PROVE  f = g
  BY <1>1, <1>2, <1>4 DEF EventsInv
<1> QED
  BY <1>3, <1>4 DEF EventsInv

\* No operation disturbs that.
LEMMA EventsStep ==
    ASSUME BooksInv, EventsInv, [ReportNext]_reportVars
    PROVE  EventsInv'
<1>1. ASSUME NEW e \in EntryIds, NEW x \in Submissions,
             RecordOnActive(e, x.journal, x.date, x.lines)
      PROVE  EventsInv'
  <2>1. PICK row : /\ row = [journal |-> x.journal, seq |-> lastSeq[x.journal] + 1,
                            date |-> x.date, lines |-> x.lines, status |-> "DRAFT",
                            mirrorOf |-> NoEntry, event |-> NoEvent, postedBy |-> NoUser]
                   /\ Enter(e, row)
    BY <1>1 DEF RecordOnActive, Record
  <2>2. row \in Row
    <3>1. x.journal \in Journals /\ x.date \in Periods /\ x.lines \in Bodies
      BY SubmissionAssumption
    <3>2. x.lines \in Seq(Line) /\ lastSeq[x.journal] + 1 \in Nat
      BY <3>1, BodyAssumption DEF BooksInv
    <3> QED
      BY <2>1, <3>1, <3>2 DEF Row, Statuses
  <2>3. row.event = NoEvent /\ row # NoRow
    BY <2>1, <2>2, NullAssumption
  <2> QED
    BY <2>1, <2>3, EventsEnter
<1>2. ASSUME NEW e \in EntryIds, NEW u \in Users, NEW ev \in Events, Ingest(e, ev, u)
      PROVE  EventsInv'
  <2>1. PICK row : /\ row = [journal |-> Posting[ev].journal,
                            seq |-> lastSeq[Posting[ev].journal] + 1,
                            date |-> Posting[ev].date, lines |-> Posting[ev].lines,
                            status |-> "POSTED", mirrorOf |-> NoEntry, event |-> ev,
                            postedBy |-> u]
                   /\ Enter(e, row)
    BY <1>2 DEF Ingest, Book
  <2>2. row \in Row
    <3>1. /\ Posting[ev].journal \in Journals /\ Posting[ev].date \in Periods
          /\ Posting[ev].lines \in Bodies
      BY BodyAssumption
    <3>2. Posting[ev].lines \in Seq(Line) /\ lastSeq[Posting[ev].journal] + 1 \in Nat
      BY <3>1, BodyAssumption DEF BooksInv
    <3> QED
      BY <2>1, <3>1, <3>2 DEF Row, Statuses
  <2>3. row.event = ev /\ row.lines = Posting[ev].lines /\ row # NoRow
    BY <2>1, <2>2, NullAssumption
  <2>4. \A f \in Recorded : entries[f].event # ev
    BY <1>2 DEF Ingest, Book
  <2> QED
    BY <2>1, <2>3, <2>4, EventsEnter
<1>3. ASSUME NEW e \in EntryIds, NEW u \in Users, Post(e, u)
      PROVE  EventsInv'
  <2>1. PICK old : old = [entries[e] EXCEPT !.status = "POSTED", !.postedBy = u]
    OBVIOUS
  <2>2. e \in Recorded /\ entries[e] \in Row
    BY <1>3, RowTypes DEF Post, Validate
  <2>3. old \in Row /\ old.event = entries[e].event /\ old.lines = entries[e].lines
    BY <2>1, <2>2 DEF Row, Statuses
  <2>4. entries' = [entries EXCEPT ![e] = old]
    BY <1>3, <2>1 DEF Post, Validate, BooksInv
  <2>5. old # NoRow /\ SameEvent(old, entries[e])
    BY <2>3, NullAssumption DEF SameEvent
  <2>6. \A f \in EntryIds : entries'[f] = IF f = e THEN old ELSE entries[f]
    BY <2>4 DEF BooksInv
  <2>7. PICK S : S = {}
    OBVIOUS
  <2>9. Recorded' = Recorded \cup S /\ \A f \in S : entries'[f].event = NoEvent
    BY <2>2, <2>5, <2>6, <2>7 DEF Recorded
  <2>8. \A f \in Recorded : entries'[f] = IF f = e THEN old ELSE entries[f]
    BY <2>6 DEF Recorded
  <2> QED
    BY <2>2, <2>5, <2>8, <2>9, EventsMark
<1>4. ASSUME NEW e \in EntryIds, NEW u \in Users, NEW m \in EntryIds, NEW d \in Periods,
             ReverseOn(e, m, d, u)
      PROVE  EventsInv'
  <2>1. PICK old, new :
           /\ old = [entries[e] EXCEPT !.status = "REVERSED"]
           /\ new = [journal |-> EX, seq |-> lastSeq[EX] + 1, date |-> d,
                     lines |-> Mirror(entries[e].lines), status |-> "POSTED",
                     mirrorOf |-> e, event |-> NoEvent, postedBy |-> u]
    OBVIOUS
  <2>2. e \in Recorded /\ m \notin Recorded /\ e # m /\ entries[e] \in Row
    BY <1>4, RowTypes DEF ReverseOn, Reverse
  <2>3. old \in Row /\ old.event = entries[e].event /\ old.lines = entries[e].lines
    BY <2>1, <2>2 DEF Row, Statuses
  <2>4. entries' = [entries EXCEPT ![e] = old, ![m] = new]
    BY <1>4, <2>1 DEF ReverseOn, Reverse
  <2>5. old # NoRow /\ SameEvent(old, entries[e])
    BY <2>3, NullAssumption DEF SameEvent
  <2>6. /\ entries'[m] = new
        /\ \A f \in EntryIds \ {m} : entries'[f] = IF f = e THEN old ELSE entries[f]
    BY <2>2, <2>4 DEF BooksInv
  <2>7. new # NoRow /\ new.event = NoEvent
    <3>1. Mirror(entries[e].lines) \in Seq(Line) /\ lastSeq[EX] + 1 \in Nat
      BY <2>2, RowTypes, MirrorOK, JournalAssumption DEF BooksInv
    <3>2. new \in Row
      BY <2>1, <3>1, JournalAssumption DEF Row, Statuses
    <3> QED
      BY <2>1, <3>2, NullAssumption
  <2>8. PICK S : S = {m}
    OBVIOUS
  <2>11. Recorded' = Recorded \cup S
    BY <2>2, <2>5, <2>6, <2>7, <2>8 DEF Recorded
  <2>9. \A f \in Recorded : entries'[f] = IF f = e THEN old ELSE entries[f]
    BY <2>2, <2>6 DEF Recorded
  <2>10. \A f \in S : entries'[f].event = NoEvent
    BY <2>6, <2>7, <2>8
  <2> QED
    BY <2>2, <2>5, <2>9, <2>10, <2>11, EventsMark
<1>5. ASSUME UNCHANGED entries
      PROVE  EventsInv'
  BY <1>5 DEF EventsInv, Recorded
<1>6. CASE UNCHANGED reportVars
  BY <1>5, <1>6 DEF reportVars, vars
<1>7. CASE ReportNext
  <2>1. CASE \E e \in EntryIds :
                \/ \E x \in Submissions : RecordOnActive(e, x.journal, x.date, x.lines)
                \/ \E u \in Users :
                     \/ Post(e, u)
                     \/ \E ev \in Events : Ingest(e, ev, u)
                     \/ \E m \in EntryIds, d \in Periods : ReverseOn(e, m, d, u)
    BY <1>1, <1>2, <1>3, <1>4, <2>1
  <2>2. CASE \E o \in Openings : OpenAccount(o[1], o[2])
    BY <1>5, <2>2 DEF OpenAccount, vars
  <2>3. CASE \E a \in Retirable : \/ \E today \in Periods : Deactivate(a, today)
                                 \/ \E active \in BOOLEAN : Patch(a, active)
    BY <1>5, <2>3 DEF Deactivate, Patch, vars
  <2> QED
    BY <1>7, <2>1, <2>2, <2>3 DEF ReportNext
<1> QED
  BY <1>6, <1>7

\* Entries name the events that they book, each once.
LEMMA EventsSound == ReportSpec => []EventsInv
<1>1. ChartInit => EventsInv
  BY DEF ChartInit, Init, Recorded, EventsInv
<1>2. BooksInv /\ EventsInv /\ [ReportNext]_reportVars => EventsInv'
  BY EventsStep
<1> QED
  BY <1>1, <1>2, BooksSound, PTL DEF ReportSpec

-----------------------------------------------------------------------------
(* What the entries of events bring to some accounts *)

\* What is booked on the accounts A, as a weight of lines.
InSet(A) == [l \in Lines |-> IF At(l).account \in A THEN At(l).debit - At(l).credit ELSE 0]

\* The net of some accounts as a sum over all lines.
LEMMA NetIn ==
    ASSUME LinesOK, NEW ls \in SUBSET Lines, NEW A
    PROVE  InSet(A) \in [Lines -> Int] /\ Net(On(A, ls)) = Sum(InSet(A), ls)
<1>1. PICK w : w = InSet(A)
  OBVIOUS
<1>2. PICK on, off : on = On(A, ls) /\ off = ls \ on
  OBVIOUS
<1>3. /\ on \in SUBSET Lines /\ off \in SUBSET Lines /\ on \cap off = {} /\ ls = on \cup off
      /\ IsFiniteSet(on) /\ IsFiniteSet(off)
  <2>1. on \in SUBSET ls /\ off \in SUBSET ls /\ on \cap off = {} /\ ls = on \cup off
    BY <1>2 DEF On
  <2> QED
    BY <2>1, FS_Subset DEF LinesOK
<1>4. /\ DOMAIN w = Lines /\ w = [l \in Lines |-> w[l]]
      /\ \A l \in Lines : w[l] = IF At(l).account \in A THEN At(l).debit - At(l).credit ELSE 0
  BY <1>1 DEF InSet
<1>5. w \in [Lines -> Int]
  <2>1. \A l \in Lines : w[l] \in Int
    BY <1>4 DEF LinesOK
  <2> QED
    BY <1>4, <2>1
<1>6. Sum(w, on) = Sum(NetOf, on)
  <2>1. \A l \in on : w[l] = NetOf[l]
    BY <1>2, <1>3, <1>4 DEF On, NetOf
  <2> QED
    BY <1>3, <1>5, <2>1, WeightTypes, SumSame
<1>7. Sum(w, off) = 0
  <2>1. \A l \in off : w[l] = 0
    BY <1>2, <1>3, <1>4 DEF On
  <2> QED
    BY <1>3, <1>5, <2>1, SumZero
<1>8. Sum(w, on \cup off) = Sum(w, on) + Sum(w, off)
  BY <1>3, <1>5, SumSplit
<1>9. Net(on) = Sum(NetOf, on) /\ Net(on) \in Int
  BY <1>3, NetsAreSums
<1>10. Sum(w, ls) = Net(on)
  BY <1>3, <1>6, <1>7, <1>8, <1>9
<1> QED
  BY <1>1, <1>2, <1>5, <1>10

\* The same of the lines of one entry, in their list.
InList(A, ls) ==
    [i \in DOMAIN ls |-> IF ls[i].account \in A THEN ls[i].debit - ls[i].credit ELSE 0]
ListNet(A, ls) == Sum(InList(A, ls), DOMAIN ls)

\* What the lines of an entry bring is a number.
LEMMA ListWeights ==
    ASSUME NEW ls \in Seq(Line), NEW A
    PROVE  /\ InList(A, ls) \in [DOMAIN ls -> Int] /\ IsFiniteSet(DOMAIN ls)
           /\ ListNet(A, ls) \in Int
<1>1. Len(ls) \in Nat /\ DOMAIN ls = 1..Len(ls)
  OBVIOUS
<1>2. IsFiniteSet(DOMAIN ls)
  BY <1>1, FS_Interval
<1>3. ASSUME NEW i \in DOMAIN ls
      PROVE  InList(A, ls)[i] \in Int
  <2>1. ls[i] \in Line
    BY <1>1
  <2> QED
    BY <2>1 DEF InList, Line
<1>4. /\ DOMAIN InList(A, ls) = DOMAIN ls
      /\ InList(A, ls) = [i \in DOMAIN ls |-> InList(A, ls)[i]]
  BY DEF InList
<1>5. InList(A, ls) \in [DOMAIN ls -> Int]
  BY <1>3, <1>4
<1> QED
  BY <1>2, <1>5, SumType DEF ListNet

\* An entry brings to accounts what its list does.
LEMMA EntryOn ==
    ASSUME BooksInv, NEW e \in Recorded, NEW A
    PROVE  Sum(InSet(A), EntryLines(e)) = ListNet(A, entries[e].lines)
<1>1. PICK ls : ls = entries[e].lines
  OBVIOUS
<1>2. /\ LinesOK /\ EntryLines(e) \in SUBSET Lines /\ ls \in Seq(Line)
  BY <1>1, BooksLines, RowTypes
<1>3. PICK v : v = InList(A, ls)
  OBVIOUS
<1>4. PICK w : w = InSet(A)
  OBVIOUS
<1>5. v \in [DOMAIN ls -> Int] /\ w \in [Lines -> Int]
  BY <1>2, <1>3, <1>4, ListWeights, NetIn
<1>6. ASSUME NEW i \in DOMAIN ls
      PROVE  v[i] = w[<<e, i>>]
  <2>1. <<e, i>> \in Lines /\ At(<<e, i>>) = ls[i]
    BY <1>1, <1>2 DEF At, EntryLines
  <2> QED
    BY <1>3, <1>4, <2>1 DEF InSet, InList
<1>7. Sum(w, EntryLines(e)) = Sum(v, DOMAIN v)
  BY <1>1, <1>5, <1>6, EntryTotals
<1>8. DOMAIN v = DOMAIN ls
  BY <1>5
<1> QED
  BY <1>1, <1>3, <1>4, <1>7, <1>8 DEF ListNet

\* By entry: of those that may bring something.
PerEntry(A, Es) == [e \in Es |-> ListNet(A, entries[e].lines)]

\* Lines are summed by entry.
LEMMA NetByEntry ==
    ASSUME BooksInv, NEW Es \in SUBSET Recorded, NEW A,
           \A l \in Lines : At(l).account \in A => l[1] \in Es
    PROVE  /\ PerEntry(A, Es) \in [Es -> Int] /\ IsFiniteSet(Es)
           /\ Net(On(A, Lines)) = Sum(PerEntry(A, Es), Es)
<1>1. LinesOK /\ IsFiniteSet(Es) /\ IsFiniteSet(Lines)
  BY BooksLines, FS_Subset DEF BooksInv, LinesOK
<1>2. PICK v : v = PerEntry(A, Es)
  OBVIOUS
<1>3. PICK w : w = InSet(A)
  OBVIOUS
<1>4. w \in [Lines -> Int] /\ DOMAIN w = Lines
  BY <1>1, <1>3, NetIn
<1>5. ASSUME NEW e \in Es
      PROVE  v[e] \in Int /\ v[e] = Sum(w, {l \in Lines : First[l] = e})
  <2>1. {l \in Lines : First[l] = e} = EntryLines(e)
    <3>1. ASSUME NEW l \in Lines
          PROVE  First[l] = e <=> l \in EntryLines(e)
      BY BooksLines DEF First, EntryLines
    <3>2. EntryLines(e) \subseteq Lines
      BY BooksLines
    <3> QED
      BY <3>1, <3>2
  <2>2. PICK ls : ls = entries[e].lines
    OBVIOUS
  <2>3. v[e] = ListNet(A, ls)
    BY <1>2, <2>2 DEF PerEntry
  <2>4. ListNet(A, ls) \in Int
    BY <2>2, RowTypes, ListWeights
  <2>5. Sum(w, EntryLines(e)) = ListNet(A, ls)
    BY <1>3, <2>2, EntryOn
  <2> QED
    BY <2>1, <2>3, <2>4, <2>5
<1>6. v \in [Es -> Int]
  <2>1. DOMAIN v = Es /\ v = [e \in Es |-> v[e]]
    BY <1>2 DEF PerEntry
  <2> QED
    BY <1>5, <2>1
<1>7. GroupSums(w, Lines, First, Es, v)
  BY <1>1, <1>4, <1>5, <1>6 DEF GroupSums
<1>8. Sum(w, Grouped(Lines, First, Es)) = Sum(v, Es)
  BY <1>7, SumGroups
<1>9. PICK ls, rest : ls = Grouped(Lines, First, Es) /\ rest = Lines \ ls
  OBVIOUS
<1>10. /\ ls \in SUBSET Lines /\ rest \in SUBSET Lines /\ ls \cap rest = {} /\ ls \cup rest = Lines
       /\ IsFiniteSet(ls) /\ IsFiniteSet(rest)
  <2>1. ls \in SUBSET Lines
    BY <1>9 DEF Grouped
  <2> QED
    BY <1>1, <1>9, <2>1, FS_Subset
<1>11. Sum(w, rest) = 0
  <2>1. \A l \in rest : w[l] = 0
    BY <1>3, <1>9, <1>10 DEF InSet, Grouped, First
  <2> QED
    BY <1>4, <1>10, <2>1, SumZero
<1>12. Sum(w, ls \cup rest) = Sum(w, ls) + Sum(w, rest)
  BY <1>4, <1>10, SumSplit
<1>13. Sum(w, ls) \in Int
  BY <1>4, <1>10, SumType
<1>14. Sum(w, Lines) = Sum(v, Es)
  <2>1. Sum(w, ls) = Sum(v, Es)
    BY <1>8, <1>9
  <2>2. Sum(w, ls \cup rest) = Sum(w, ls)
    BY <1>11, <1>12, <1>13
  <2> QED
    BY <1>10, <2>1, <2>2
<1>15. Net(On(A, Lines)) = Sum(w, Lines)
  <2>1. Lines \in SUBSET Lines
    OBVIOUS
  <2> QED
    BY <1>1, <1>3, <2>1, NetIn
<1> QED
  BY <1>1, <1>2, <1>6, <1>14, <1>15

\* By event: each has brought what its rule gives it, once.
EventEntries == {e \in Recorded : entries[e].event # NoEvent}
Booked == {entries[e].event : e \in Recorded} \ {NoEvent}
PerEvent(A) == [ev \in Booked |-> ListNet(A, Posting[ev].lines)]
EventOf == [e \in EventEntries |-> entries[e].event]

\* Each event that is booked has one entry, with the lines of its rule.
LEMMA BookedEvents ==
    ASSUME BooksInv, EventsInv
    PROVE  /\ Booked \in SUBSET Events /\ IsFiniteSet(Booked)
           /\ EventOf \in [EventEntries -> Booked]
           /\ \A ev \in Booked : \E e \in EventEntries :
                 /\ EventOf[e] = ev /\ entries[e].lines = Posting[ev].lines
                 /\ {f \in EventEntries : EventOf[f] = ev} = {e}
<1>1. EventEntries \in SUBSET Recorded /\ IsFiniteSet(EventEntries)
  <2>1. EventEntries \in SUBSET Recorded
    BY DEF EventEntries
  <2> QED
    BY <2>1, FS_Subset DEF BooksInv
<1>2. /\ EventOf \in [EventEntries -> Booked]
      /\ \A e \in EventEntries : EventOf[e] = entries[e].event
  BY DEF EventOf, EventEntries, Booked
<1>3. ASSUME NEW ev \in Booked
      PROVE  \E e \in EventEntries :
                /\ EventOf[e] = ev /\ entries[e].lines = Posting[ev].lines
                /\ {f \in EventEntries : EventOf[f] = ev} = {e}
  <2>1. PICK e \in Recorded : entries[e].event = ev /\ ev # NoEvent
    BY DEF Booked
  <2>2. e \in EventEntries /\ EventOf[e] = ev /\ entries[e].lines = Posting[ev].lines
    BY <1>2, <2>1 DEF EventEntries, EventsInv
  <2>3. \A f \in EventEntries : EventOf[f] = ev => f = e
    BY <1>1, <1>2, <2>1 DEF EventsInv
  <2> QED
    BY <2>2, <2>3
<1>4. Booked \in SUBSET Events
  BY DEF Booked, EventsInv
<1>5. EventOf \in Surjection(EventEntries, Booked)
  BY <1>2, <1>3 DEF Surjection
<1>6. IsFiniteSet(Booked)
  BY <1>1, <1>5, FS_Surjection
<1> QED
  BY <1>2, <1>3, <1>4, <1>6

\* Lines are summed by event, on accounts that nothing else moves.
LEMMA NetByEvent ==
    ASSUME BooksInv, EventsInv, NEW A,
           \A l \in Lines : At(l).account \in A => entries[l[1]].event # NoEvent
    PROVE  /\ PerEvent(A) \in [Booked -> Int]
           /\ Net(On(A, Lines)) = Sum(PerEvent(A), Booked)
<1>1. PICK Es \in SUBSET Recorded : Es = EventEntries
  BY DEF EventEntries
<1>2. PICK w : w = PerEntry(A, Es)
  OBVIOUS
<1>3. PICK v : v = PerEvent(A)
  OBVIOUS
<1>4. \A l \in Lines : At(l).account \in A => l[1] \in Es
  BY <1>1, BooksLines DEF EventEntries
<1>5. w \in [Es -> Int] /\ IsFiniteSet(Es) /\ Net(On(A, Lines)) = Sum(w, Es)
  BY <1>2, <1>4, NetByEntry
<1>6. ASSUME NEW ev \in Booked
      PROVE  v[ev] \in Int /\ v[ev] = Sum(w, {e \in Es : EventOf[e] = ev})
  <2>1. PICK e \in Es : /\ EventOf[e] = ev /\ entries[e].lines = Posting[ev].lines
                        /\ {f \in Es : EventOf[f] = ev} = {e}
    BY <1>1, BookedEvents
  <2>2. Sum(w, {e}) = w[e] /\ w[e] \in Int
    BY <1>5, SumOne
  <2>3. w[e] = ListNet(A, entries[e].lines)
    BY <1>2 DEF PerEntry
  <2>4. v[ev] = ListNet(A, Posting[ev].lines)
    BY <1>3 DEF PerEvent
  <2>5. w[e] = v[ev]
    BY <2>1, <2>3, <2>4
  <2> QED
    BY <2>1, <2>2, <2>5
<1>7. v \in [Booked -> Int]
  <2>1. DOMAIN v = Booked /\ v = [ev \in Booked |-> v[ev]]
    BY <1>3 DEF PerEvent
  <2> QED
    BY <1>6, <2>1
<1>8. GroupSums(w, Es, EventOf, Booked, v)
  <2>1. IsFiniteSet(Booked) /\ DOMAIN w = Es
    BY <1>5, BookedEvents
  <2> QED
    BY <1>5, <1>6, <1>7, <2>1 DEF GroupSums
<1>9. Grouped(Es, EventOf, Booked) = Es
  BY <1>1, BookedEvents DEF Grouped
<1>10. Sum(w, Es) = Sum(v, Booked)
  BY <1>8, <1>9, SumGroups
<1> QED
  BY <1>3, <1>5, <1>7, <1>10

\* What the lists of movements of the rules bring to some accounts.
Codes == {"251100", "371100", "411100", "571100", "663100", "694100", "701100", "701900"}
Movement == [account : Codes, debit : Int, credit : Int]
Uses(ls) == {ls[i].account : i \in DOMAIN ls}
Share(A, x, n) == IF x \in A THEN n ELSE 0

\* What the movements of a rule bring is a number.
LEMMA MovementWeights ==
    ASSUME NEW ls \in Seq(Movement), NEW A
    PROVE  /\ InList(A, ls) \in [DOMAIN ls -> Int] /\ IsFiniteSet(DOMAIN ls)
           /\ ListNet(A, ls) \in Int
<1>1. Len(ls) \in Nat /\ DOMAIN ls = 1..Len(ls)
  OBVIOUS
<1>2. IsFiniteSet(DOMAIN ls)
  BY <1>1, FS_Interval
<1>3. ASSUME NEW i \in DOMAIN ls
      PROVE  InList(A, ls)[i] \in Int
  <2>1. ls[i] \in Movement
    BY <1>1
  <2> QED
    BY <2>1 DEF InList, Movement
<1>4. /\ DOMAIN InList(A, ls) = DOMAIN ls
      /\ InList(A, ls) = [i \in DOMAIN ls |-> InList(A, ls)[i]]
  BY DEF InList
<1>5. InList(A, ls) \in [DOMAIN ls -> Int]
  BY <1>3, <1>4
<1> QED
  BY <1>2, <1>5, SumType DEF ListNet

\* Nothing.
LEMMA NoMovement ==
    ASSUME NEW A
    PROVE  << >> \in Seq(Movement) /\ ListNet(A, << >>) = 0 /\ Uses(<< >>) = {}
<1>1. << >> \in Seq(Movement) /\ DOMAIN << >> = {}
  OBVIOUS
<1>2. ListNet(A, << >>) = 0
  BY <1>1, SumEmpty DEF ListNet
<1> QED
  BY <1>1, <1>2 DEF Uses

\* A debit and a credit.
LEMMA PairNet ==
    ASSUME NEW A, NEW x \in Codes, NEW y \in Codes, NEW n \in Int
    PROVE  /\ Pair(x, y, n) \in Seq(Movement) /\ Uses(Pair(x, y, n)) = {x, y}
           /\ ListNet(A, Pair(x, y, n)) = Share(A, x, n) - Share(A, y, n)
<1>1. PICK ls : ls = Pair(x, y, n)
  OBVIOUS
<1>2. /\ DOMAIN ls = {1} \cup {2}
      /\ ls[1].account = x /\ ls[1].debit = n /\ ls[1].credit = 0
      /\ ls[2].account = y /\ ls[2].debit = 0 /\ ls[2].credit = n
  BY <1>1 DEF Pair
<1>3. ls \in Seq(Movement)
  BY <1>1 DEF Pair, Movement
<1>4. Uses(ls) = {x, y}
  BY <1>2 DEF Uses
<1>5. PICK w : w = InList(A, ls)
  OBVIOUS
<1>6. w \in [{1} \cup {2} -> Int]
  BY <1>2, <1>3, <1>5, MovementWeights
<1>7. w[1] = Share(A, x, n) /\ w[2] = -Share(A, y, n)
  BY <1>2, <1>5 DEF InList, Share
<1>8. Sum(w, {1} \cup {2}) = w[1] + w[2]
  <2>1. /\ {1} \in SUBSET ({1} \cup {2}) /\ {2} \in SUBSET ({1} \cup {2}) /\ {1} \cap {2} = {}
        /\ 1 \in {1} \cup {2} /\ 2 \in {1} \cup {2}
    OBVIOUS
  <2>2. IsFiniteSet({1}) /\ IsFiniteSet({2})
    BY FS_Singleton
  <2>3. Sum(w, {1}) = w[1] /\ Sum(w, {2}) = w[2]
    BY <1>6, <2>1, SumOne
  <2> QED
    BY <1>6, <2>1, <2>2, <2>3, SumSplit
<1>9. Share(A, x, n) \in Int /\ Share(A, y, n) \in Int
  BY DEF Share
<1>10. ListNet(A, ls) = Share(A, x, n) - Share(A, y, n)
  BY <1>2, <1>5, <1>7, <1>8, <1>9 DEF ListNet
<1> QED
  BY <1>1, <1>3, <1>4, <1>10

\* One list after another.
LEMMA JoinNet ==
    ASSUME NEW A, NEW s \in Seq(Movement), NEW t \in Seq(Movement)
    PROVE  /\ s \o t \in Seq(Movement) /\ Uses(s \o t) = Uses(s) \cup Uses(t)
           /\ ListNet(A, s \o t) = ListNet(A, s) + ListNet(A, t)
<1>1. PICK m, n \in Nat : /\ m = Len(s) /\ n = Len(t)
                          /\ DOMAIN s = 1..m /\ DOMAIN t = 1..n
  OBVIOUS
<1>2. PICK ls : ls = s \o t
  OBVIOUS
<1>3. /\ ls \in Seq(Movement) /\ DOMAIN ls = 1..(m + n)
      /\ \A i \in 1..m : ls[i] = s[i]
      /\ \A i \in 1..n : ls[i + m] = t[i]
  BY <1>1, <1>2
<1>4. Uses(ls) = Uses(s) \cup Uses(t)
  <2>1. ASSUME NEW i \in DOMAIN ls
        PROVE  ls[i].account \in Uses(s) \cup Uses(t)
    <3>1. CASE i <= m
      BY <1>1, <1>3, <3>1 DEF Uses
    <3>2. CASE i > m
      <4>1. i - m \in 1..n /\ (i - m) + m = i
        BY <1>1, <1>3, <3>2
      <4>2. ls[i] = t[i - m]
        BY <1>3, <4>1
      <4> QED
        BY <1>1, <4>1, <4>2 DEF Uses
    <3> QED
      BY <1>1, <1>3, <3>1, <3>2
  <2>2. \A i \in DOMAIN s : s[i].account \in Uses(ls)
    <3>1. \A i \in DOMAIN s : i \in DOMAIN ls /\ ls[i] = s[i]
      BY <1>1, <1>3
    <3> QED
      BY <3>1 DEF Uses
  <2>3. \A i \in DOMAIN t : t[i].account \in Uses(ls)
    <3>1. ASSUME NEW i \in 1..n
          PROVE  i + m \in DOMAIN ls /\ ls[i + m] = t[i]
      <4>1. i + m \in 1..(m + n)
        BY <1>1
      <4> QED
        BY <1>3, <4>1
    <3>2. \A i \in DOMAIN t : i + m \in DOMAIN ls /\ ls[i + m] = t[i]
      BY <1>1, <3>1
    <3> QED
      BY <3>2 DEF Uses
  <2> QED
    BY <2>1, <2>2, <2>3 DEF Uses
<1>5. PICK w, u, v : w = InList(A, ls) /\ u = InList(A, s) /\ v = InList(A, t)
  OBVIOUS
<1>6. w \in [1..(m + n) -> Int] /\ u \in [1..m -> Int] /\ v \in [1..n -> Int]
  BY <1>1, <1>3, <1>5, MovementWeights
<1>7. /\ \A i \in 1..m : w[i] = u[i]
      /\ \A i \in 1..n : w[i + m] = v[i]
  <2>1. \A i \in 1..m : i \in 1..(m + n)
    BY <1>1
  <2>2. \A i \in 1..n : i + m \in 1..(m + n)
    BY <1>1
  <2> QED
    BY <1>1, <1>3, <1>5, <2>1, <2>2 DEF InList
<1>8. PICK all, first, rest : all = 1..(m + n) /\ first = 1..m /\ rest = (m + 1)..(m + n)
  OBVIOUS
<1>9. /\ first \in SUBSET all /\ rest \in SUBSET all /\ first \cap rest = {}
      /\ all = first \cup rest
  BY <1>1, <1>8
<1>10. IsFiniteSet(first) /\ IsFiniteSet(rest) /\ IsFiniteSet(1..n)
  <2>1. 1 \in Int /\ m \in Int /\ n \in Int /\ m + 1 \in Int /\ m + n \in Int
    BY <1>1
  <2> QED
    BY <1>8, <2>1, FS_Interval
<1>11. Sum(w, first) = Sum(u, first)
  <2>1. first \in SUBSET (all \cap first)
    BY <1>9
  <2>2. w \in [all -> Int] /\ u \in [first -> Int] /\ \A i \in first : w[i] = u[i]
    BY <1>6, <1>7, <1>8
  <2> QED
    BY <1>10, <2>1, <2>2, SumSame, SMTT(30)
<1>12. Sum(w, rest) = Sum(v, 1..n)
  <2>1. PICK back : back = [i \in all |-> i - m]
    OBVIOUS
  <2>2. ASSUME NEW b \in 1..n
        PROVE  v[b] = Sum(w, {i \in rest : back[i] = b})
    <3>1. b + m \in all /\ b + m \in rest /\ back[b + m] = b
      BY <1>1, <1>8, <2>1
    <3>2. ASSUME NEW i \in rest
          PROVE  back[i] = b <=> i = b + m
      <4>1. i \in all /\ i \in Int
        BY <1>1, <1>8
      <4> QED
        BY <1>1, <2>1, <4>1
    <3>3. {i \in rest : back[i] = b} = {b + m}
      BY <3>1, <3>2
    <3>4. Sum(w, {b + m}) = w[b + m]
      BY <1>6, <1>8, <3>1, SumOne
    <3> QED
      BY <1>7, <3>3, <3>4
  <2>3. GroupSums(w, rest, back, 1..n, v)
    <3>1. DOMAIN w = all
      BY <1>6, <1>8
    <3> QED
      BY <1>6, <1>8, <1>9, <1>10, <2>2, <3>1 DEF GroupSums
  <2>4. Grouped(rest, back, 1..n) = rest
    <3>1. ASSUME NEW i \in rest
          PROVE  back[i] \in 1..n
      <4>1. i \in all /\ i \in Int /\ i >= m + 1 /\ i <= m + n
        BY <1>1, <1>8
      <4> QED
        BY <1>1, <2>1, <4>1
    <3> QED
      BY <3>1 DEF Grouped
  <2> QED
    BY <2>3, <2>4, SumGroups
<1>13. Sum(w, first \cup rest) = Sum(w, first) + Sum(w, rest)
  <2>1. w \in [all -> Int]
    BY <1>6, <1>8
  <2> QED
    BY <1>9, <1>10, <2>1, SumSplit, SMTT(30)
<1>14. ListNet(A, ls) = ListNet(A, s) + ListNet(A, t)
  BY <1>1, <1>3, <1>5, <1>8, <1>9, <1>11, <1>12, <1>13 DEF ListNet
<1> QED
  BY <1>2, <1>3, <1>4, <1>14

\* One part of a repayment.
Part(x, n) == IF n > 0 THEN Pair("571100", x, n) ELSE << >>

\* A part that is there, or is left out.
LEMMA PartNet ==
    ASSUME NEW A, "571100" \notin A, NEW x \in Codes, NEW n \in Int
    PROVE  /\ Part(x, n) \in Seq(Movement)
           /\ n > 0 => x \in Uses(Part(x, n))
           /\ ListNet(A, Part(x, n)) = -Share(A, x, Positive(n))
<1>1. CASE n > 0
  <2>1. Part(x, n) = Pair("571100", x, n) /\ Positive(n) = n /\ "571100" \in Codes
    BY <1>1 DEF Part, Positive, Codes
  <2>2. Share(A, "571100", n) = 0 /\ Share(A, x, n) \in Int
    BY DEF Share
  <2>3. PICK y \in Codes : y = "571100"
    BY <2>1
  <2>4. /\ Pair(y, x, n) \in Seq(Movement) /\ Uses(Pair(y, x, n)) = {y, x}
        /\ ListNet(A, Pair(y, x, n)) = Share(A, y, n) - Share(A, x, n)
    BY PairNet
  <2> QED
    BY <2>1, <2>2, <2>3, <2>4
<1>2. CASE ~(n > 0)
  BY <1>2, NoMovement DEF Part, Positive, Share
<1> QED
  BY <1>1, <1>2

\* The three parts of a repayment.
LEMMA RepaymentNet ==
    ASSUME NEW A, "571100" \notin A, NEW p, p.principal \in Int, p.interest \in Int,
           p.penalty \in Int
    PROVE  /\ ListNet(A, credit_repayment(p))
                = -Share(A, "251100", Positive(p.principal))
                    - Share(A, "701100", Positive(p.interest))
                    - Share(A, "701900", Positive(p.penalty))
           /\ p.principal > 0 => "251100" \in Uses(credit_repayment(p))
           /\ p.interest > 0 => "701100" \in Uses(credit_repayment(p))
           /\ p.penalty > 0 => "701900" \in Uses(credit_repayment(p))
<1>1. PICK a, b, c : /\ a = Part("251100", p.principal)
                     /\ b = Part("701100", p.interest)
                     /\ c = Part("701900", p.penalty)
  OBVIOUS
<1>2. credit_repayment(p) = (a \o b) \o c
  BY <1>1 DEF credit_repayment, Part
<1>3. "251100" \in Codes /\ "701100" \in Codes /\ "701900" \in Codes
  BY DEF Codes
<1>4. /\ a \in Seq(Movement) /\ b \in Seq(Movement) /\ c \in Seq(Movement)
      /\ ListNet(A, a) = -Share(A, "251100", Positive(p.principal))
      /\ ListNet(A, b) = -Share(A, "701100", Positive(p.interest))
      /\ ListNet(A, c) = -Share(A, "701900", Positive(p.penalty))
      /\ p.principal > 0 => "251100" \in Uses(a)
      /\ p.interest > 0 => "701100" \in Uses(b)
      /\ p.penalty > 0 => "701900" \in Uses(c)
  BY <1>1, <1>3, PartNet
<1>5. /\ a \o b \in Seq(Movement) /\ Uses(a \o b) = Uses(a) \cup Uses(b)
      /\ ListNet(A, a \o b) = ListNet(A, a) + ListNet(A, b)
  BY <1>4, JoinNet
<1>6. /\ Uses((a \o b) \o c) = Uses(a \o b) \cup Uses(c)
      /\ ListNet(A, (a \o b) \o c) = ListNet(A, a \o b) + ListNet(A, c)
  BY <1>4, <1>5, JoinNet
<1>7. /\ Share(A, "251100", Positive(p.principal)) \in Int
      /\ Share(A, "701100", Positive(p.interest)) \in Int
      /\ Share(A, "701900", Positive(p.penalty)) \in Int
  BY DEF Share, Positive
<1> QED
  BY <1>2, <1>4, <1>5, <1>6, <1>7

\* What an event is worth to a report.
ByType(type, part) ==
    [ev \in Booked |-> IF Payload[ev].type = type THEN Positive(Payload[ev][part]) ELSE 0]

\* The rules, one by one.
LEMMA Rules ==
    /\ RuledTypes = {"CREDIT_REPAYMENT",
                     "CREDIT_DISBURSED",
                     "CREDIT_WRITEOFF",
                     "SAVINGS_DEPOSIT",
                     "SAVINGS_WITHDRAWAL",
                     "SAVINGS_INTEREST_CREDITED",
                     "CASH_DEPOSIT",
                     "CASH_WITHDRAWAL"}
    /\ OneAmount["CREDIT_DISBURSED"] = <<"251100", "571100">>
    /\ OneAmount["CREDIT_WRITEOFF"] = <<"694100", "251100">>
    /\ OneAmount["SAVINGS_DEPOSIT"] = <<"571100", "371100">>
    /\ OneAmount["SAVINGS_WITHDRAWAL"] = <<"371100", "571100">>
    /\ OneAmount["SAVINGS_INTEREST_CREDITED"] = <<"663100", "371100">>
    /\ OneAmount["CASH_DEPOSIT"] = <<"571100", "411100">>
    /\ OneAmount["CASH_WITHDRAWAL"] = <<"411100", "571100">>
BY DEF RuledTypes, OneAmount

\* An event that is booked has the lines of its rule, on accounts that are open.
LEMMA EventLines ==
    ASSUME BooksInv, EventsInv, NEW ev \in Booked
    PROVE  /\ Posting[ev].lines = get_movements(Payload[ev])
           /\ Posting[ev].lines \in Seq(Line)
           /\ Uses(Posting[ev].lines) \subseteq Opened
           /\ Payload[ev].type \in RuledTypes
           /\ Payload[ev].amount \in Int /\ Payload[ev].principal \in Int
           /\ Payload[ev].interest \in Int /\ Payload[ev].penalty \in Int
<1>1. ev \in Events
  BY BookedEvents
<1>2. Posting[ev] = PostingOf(Payload[ev])
  BY <1>1, PayloadAssumption
<1>3. PICK e \in Recorded : entries[e].lines = Posting[ev].lines
  BY BookedEvents DEF EventEntries
<1>4. PICK ls : ls = entries[e].lines
  OBVIOUS
<1>5. ls \in Seq(Line) /\ \A i \in DOMAIN ls : ls[i].account \in Opened
  BY <1>4, RowTypes DEF BooksInv
<1>6. Uses(ls) \subseteq Opened
  BY <1>5 DEF Uses
<1>7. /\ Payload[ev].type \in RuledTypes
      /\ Payload[ev].amount \in Int /\ Payload[ev].principal \in Int
      /\ Payload[ev].interest \in Int /\ Payload[ev].penalty \in Int
  BY <1>1, PayloadAssumption
<1>8. Posting[ev].lines = get_movements(Payload[ev])
  BY <1>2 DEF PostingOf
<1> QED
  BY <1>3, <1>4, <1>5, <1>6, <1>7, <1>8

\* An event of one amount moves it from one account to the other.
LEMMA OneAmountNet ==
    ASSUME BooksInv, EventsInv, NEW ev \in Booked, NEW A,
           Payload[ev].type # "CREDIT_REPAYMENT", NEW x \in Codes, NEW y \in Codes,
           OneAmount[Payload[ev].type] = <<x, y>>
    PROVE  /\ ListNet(A, Posting[ev].lines) = Share(A, x, Positive(Payload[ev].amount))
                                                - Share(A, y, Positive(Payload[ev].amount))
           /\ x \in Opened /\ y \in Opened
<1>1. PICK n \in Int : n = Payload[ev].amount
  BY EventLines
<1>2. Posting[ev].lines = Pair(x, y, n)
  BY <1>1, EventLines DEF get_movements
<1>3. Pair(x, y, n) \in Seq(Line) /\ Uses(Pair(x, y, n)) \subseteq Opened
  BY <1>2, EventLines
<1>4. n \in Nat
  <2>1. PICK ls \in Seq(Line) : ls = Pair(x, y, n)
    BY <1>3
  <2>2. 1 \in DOMAIN ls /\ ls[1].debit = n
    BY <2>1 DEF Pair
  <2>3. ls[1] \in Line
    BY <2>1, <2>2
  <2> QED
    BY <2>2, <2>3 DEF Line
<1>5. Positive(n) = n
  BY <1>4 DEF Positive
<1>6. /\ Uses(Pair(x, y, n)) = {x, y}
      /\ ListNet(A, Pair(x, y, n)) = Share(A, x, n) - Share(A, y, n)
  BY PairNet
<1> QED
  BY <1>1, <1>2, <1>3, <1>5, <1>6

\* Which of the accounts of the rules a report takes.
LEMMA RuleAccounts ==
    ASSUME NEW c \in Codes
    PROVE  /\ c \in OfPrefix("25") <=> c \in Opened /\ c = "251100"
           /\ c \in OfPrefix("37") <=> c \in Opened /\ c = "371100"
           /\ c \in Results <=> c \in Opened /\ c \in {"663100", "694100", "701100", "701900"}
<1>1. c \in Opened => c \in Accounts
  BY DEF Opened
<1>2. c \in Opened => /\ "25" \in PrefixesOf[c] <=> c = "251100"
                      /\ "37" \in PrefixesOf[c] <=> c = "371100"
                      /\ ClassOf[c] \in {"CHARGES", "PRODUITS"}
                            <=> c \in {"663100", "694100", "701100", "701900"}
  BY <1>1, RuleAccountAssumption DEF Codes
<1> QED
  BY <1>2 DEF OfPrefix, Results, OfClass

\* To the portfolio: what is lent, less what is repaid or written off.
LEMMA LoanMoves ==
    ASSUME BooksInv, EventsInv, NEW ev \in Booked
    PROVE  ListNet(OfPrefix("25"), Posting[ev].lines)
             = ByType("CREDIT_DISBURSED", "amount")[ev]
                 - ByType("CREDIT_REPAYMENT", "principal")[ev]
                 - ByType("CREDIT_WRITEOFF", "amount")[ev]
<1>1. PICK A, n, a, b, c :
        /\ A = OfPrefix("25")
        /\ n = Positive(Payload[ev].amount) /\ n \in Int
        /\ a = Positive(Payload[ev].principal) /\ a \in Int
        /\ b = Positive(Payload[ev].interest) /\ b \in Int
        /\ c = Positive(Payload[ev].penalty) /\ c \in Int
  BY EventLines DEF Positive
<1>2. /\ "251100" \in Codes /\ "371100" \in Codes /\ "411100" \in Codes /\ "571100" \in Codes
      /\ "663100" \in Codes /\ "694100" \in Codes /\ "701100" \in Codes /\ "701900" \in Codes
  BY DEF Codes
<1>3. CASE Payload[ev].type = "CREDIT_DISBURSED"
  <2>1. /\ ListNet(A, Posting[ev].lines) = Share(A, "251100", n) - Share(A, "571100", n)
        /\ "251100" \in Opened /\ "571100" \in Opened
    BY <1>1, <1>2, <1>3, Rules, OneAmountNet
  <2>2. /\ "251100" \in A <=> TRUE
        /\ "571100" \in A <=> FALSE
    BY <1>1, <1>2, <2>1, RuleAccounts
  <2>3. ListNet(A, Posting[ev].lines) = n - 0
    BY <1>1, <2>1, <2>2 DEF Share
  <2> QED
    BY <1>1, <1>3, <2>3 DEF ByType
<1>4. CASE Payload[ev].type = "CREDIT_WRITEOFF"
  <2>1. /\ ListNet(A, Posting[ev].lines) = Share(A, "694100", n) - Share(A, "251100", n)
        /\ "694100" \in Opened /\ "251100" \in Opened
    BY <1>1, <1>2, <1>4, Rules, OneAmountNet
  <2>2. /\ "694100" \in A <=> FALSE
        /\ "251100" \in A <=> TRUE
    BY <1>1, <1>2, <2>1, RuleAccounts
  <2>3. ListNet(A, Posting[ev].lines) = 0 - n
    BY <1>1, <2>1, <2>2 DEF Share
  <2> QED
    BY <1>1, <1>4, <2>3 DEF ByType
<1>5. CASE Payload[ev].type = "SAVINGS_DEPOSIT"
  <2>1. /\ ListNet(A, Posting[ev].lines) = Share(A, "571100", n) - Share(A, "371100", n)
        /\ "571100" \in Opened /\ "371100" \in Opened
    BY <1>1, <1>2, <1>5, Rules, OneAmountNet
  <2>2. /\ "571100" \in A <=> FALSE
        /\ "371100" \in A <=> FALSE
    BY <1>1, <1>2, <2>1, RuleAccounts
  <2>3. ListNet(A, Posting[ev].lines) = 0 - 0
    BY <1>1, <2>1, <2>2 DEF Share
  <2> QED
    BY <1>1, <1>5, <2>3 DEF ByType
<1>6. CASE Payload[ev].type = "SAVINGS_WITHDRAWAL"
  <2>1. /\ ListNet(A, Posting[ev].lines) = Share(A, "371100", n) - Share(A, "571100", n)
        /\ "371100" \in Opened /\ "571100" \in Opened
    BY <1>1, <1>2, <1>6, Rules, OneAmountNet
  <2>2. /\ "371100" \in A <=> FALSE
        /\ "571100" \in A <=> FALSE
    BY <1>1, <1>2, <2>1, RuleAccounts
  <2>3. ListNet(A, Posting[ev].lines) = 0 - 0
    BY <1>1, <2>1, <2>2 DEF Share
  <2> QED
    BY <1>1, <1>6, <2>3 DEF ByType
<1>7. CASE Payload[ev].type = "SAVINGS_INTEREST_CREDITED"
  <2>1. /\ ListNet(A, Posting[ev].lines) = Share(A, "663100", n) - Share(A, "371100", n)
        /\ "663100" \in Opened /\ "371100" \in Opened
    BY <1>1, <1>2, <1>7, Rules, OneAmountNet
  <2>2. /\ "663100" \in A <=> FALSE
        /\ "371100" \in A <=> FALSE
    BY <1>1, <1>2, <2>1, RuleAccounts
  <2>3. ListNet(A, Posting[ev].lines) = 0 - 0
    BY <1>1, <2>1, <2>2 DEF Share
  <2> QED
    BY <1>1, <1>7, <2>3 DEF ByType
<1>8. CASE Payload[ev].type = "CASH_DEPOSIT"
  <2>1. /\ ListNet(A, Posting[ev].lines) = Share(A, "571100", n) - Share(A, "411100", n)
        /\ "571100" \in Opened /\ "411100" \in Opened
    BY <1>1, <1>2, <1>8, Rules, OneAmountNet
  <2>2. /\ "571100" \in A <=> FALSE
        /\ "411100" \in A <=> FALSE
    BY <1>1, <1>2, <2>1, RuleAccounts
  <2>3. ListNet(A, Posting[ev].lines) = 0 - 0
    BY <1>1, <2>1, <2>2 DEF Share
  <2> QED
    BY <1>1, <1>8, <2>3 DEF ByType
<1>9. CASE Payload[ev].type = "CASH_WITHDRAWAL"
  <2>1. /\ ListNet(A, Posting[ev].lines) = Share(A, "411100", n) - Share(A, "571100", n)
        /\ "411100" \in Opened /\ "571100" \in Opened
    BY <1>1, <1>2, <1>9, Rules, OneAmountNet
  <2>2. /\ "411100" \in A <=> FALSE
        /\ "571100" \in A <=> FALSE
    BY <1>1, <1>2, <2>1, RuleAccounts
  <2>3. ListNet(A, Posting[ev].lines) = 0 - 0
    BY <1>1, <2>1, <2>2 DEF Share
  <2> QED
    BY <1>1, <1>9, <2>3 DEF ByType
<1>10. CASE Payload[ev].type = "CREDIT_REPAYMENT"
  <2>1. PICK p : p = Payload[ev]
    OBVIOUS
  <2>2. "571100" \notin A
    BY <1>1, <1>2, RuleAccounts
  <2>3. /\ p.principal \in Int /\ p.interest \in Int /\ p.penalty \in Int
        /\ Posting[ev].lines = credit_repayment(p) /\ Uses(credit_repayment(p)) \subseteq Opened
    BY <1>10, <2>1, EventLines DEF get_movements
  <2>4. /\ ListNet(A, credit_repayment(p)) = -Share(A, "251100", a) - Share(A, "701100", b)
                                               - Share(A, "701900", c)
        /\ p.principal > 0 => "251100" \in Opened
        /\ p.interest > 0 => "701100" \in Opened
        /\ p.penalty > 0 => "701900" \in Opened
    BY <1>1, <2>1, <2>2, <2>3, RepaymentNet
  <2>5. /\ a # 0 => "251100" \in Opened
        /\ b # 0 => "701100" \in Opened
        /\ c # 0 => "701900" \in Opened
    BY <1>1, <2>1, <2>3, <2>4 DEF Positive
  <2>6. /\ Share(A, "251100", a) = a
        /\ Share(A, "701100", b) = 0
        /\ Share(A, "701900", c) = 0
    BY <1>1, <1>2, <2>5, RuleAccounts DEF Share
  <2>7. ListNet(A, Posting[ev].lines) = -a
    BY <1>1, <2>3, <2>4, <2>6
  <2> QED
    BY <1>1, <1>10, <2>7 DEF ByType
<1> QED
  BY <1>3, <1>4, <1>5, <1>6, <1>7, <1>8, <1>9, <1>10, Rules, EventLines

\* To the savings, which are in credit.
LEMMA SavingsMoves ==
    ASSUME BooksInv, EventsInv, NEW ev \in Booked
    PROVE  ListNet(OfPrefix("37"), Posting[ev].lines)
             = ByType("SAVINGS_WITHDRAWAL", "amount")[ev]
                 - ByType("SAVINGS_DEPOSIT", "amount")[ev]
                 - ByType("SAVINGS_INTEREST_CREDITED", "amount")[ev]
<1>1. PICK A, n, a, b, c :
        /\ A = OfPrefix("37")
        /\ n = Positive(Payload[ev].amount) /\ n \in Int
        /\ a = Positive(Payload[ev].principal) /\ a \in Int
        /\ b = Positive(Payload[ev].interest) /\ b \in Int
        /\ c = Positive(Payload[ev].penalty) /\ c \in Int
  BY EventLines DEF Positive
<1>2. /\ "251100" \in Codes /\ "371100" \in Codes /\ "411100" \in Codes /\ "571100" \in Codes
      /\ "663100" \in Codes /\ "694100" \in Codes /\ "701100" \in Codes /\ "701900" \in Codes
  BY DEF Codes
<1>3. CASE Payload[ev].type = "CREDIT_DISBURSED"
  <2>1. /\ ListNet(A, Posting[ev].lines) = Share(A, "251100", n) - Share(A, "571100", n)
        /\ "251100" \in Opened /\ "571100" \in Opened
    BY <1>1, <1>2, <1>3, Rules, OneAmountNet
  <2>2. /\ "251100" \in A <=> FALSE
        /\ "571100" \in A <=> FALSE
    BY <1>1, <1>2, <2>1, RuleAccounts
  <2>3. ListNet(A, Posting[ev].lines) = 0 - 0
    BY <1>1, <2>1, <2>2 DEF Share
  <2> QED
    BY <1>1, <1>3, <2>3 DEF ByType
<1>4. CASE Payload[ev].type = "CREDIT_WRITEOFF"
  <2>1. /\ ListNet(A, Posting[ev].lines) = Share(A, "694100", n) - Share(A, "251100", n)
        /\ "694100" \in Opened /\ "251100" \in Opened
    BY <1>1, <1>2, <1>4, Rules, OneAmountNet
  <2>2. /\ "694100" \in A <=> FALSE
        /\ "251100" \in A <=> FALSE
    BY <1>1, <1>2, <2>1, RuleAccounts
  <2>3. ListNet(A, Posting[ev].lines) = 0 - 0
    BY <1>1, <2>1, <2>2 DEF Share
  <2> QED
    BY <1>1, <1>4, <2>3 DEF ByType
<1>5. CASE Payload[ev].type = "SAVINGS_DEPOSIT"
  <2>1. /\ ListNet(A, Posting[ev].lines) = Share(A, "571100", n) - Share(A, "371100", n)
        /\ "571100" \in Opened /\ "371100" \in Opened
    BY <1>1, <1>2, <1>5, Rules, OneAmountNet
  <2>2. /\ "571100" \in A <=> FALSE
        /\ "371100" \in A <=> TRUE
    BY <1>1, <1>2, <2>1, RuleAccounts
  <2>3. ListNet(A, Posting[ev].lines) = 0 - n
    BY <1>1, <2>1, <2>2 DEF Share
  <2> QED
    BY <1>1, <1>5, <2>3 DEF ByType
<1>6. CASE Payload[ev].type = "SAVINGS_WITHDRAWAL"
  <2>1. /\ ListNet(A, Posting[ev].lines) = Share(A, "371100", n) - Share(A, "571100", n)
        /\ "371100" \in Opened /\ "571100" \in Opened
    BY <1>1, <1>2, <1>6, Rules, OneAmountNet
  <2>2. /\ "371100" \in A <=> TRUE
        /\ "571100" \in A <=> FALSE
    BY <1>1, <1>2, <2>1, RuleAccounts
  <2>3. ListNet(A, Posting[ev].lines) = n - 0
    BY <1>1, <2>1, <2>2 DEF Share
  <2> QED
    BY <1>1, <1>6, <2>3 DEF ByType
<1>7. CASE Payload[ev].type = "SAVINGS_INTEREST_CREDITED"
  <2>1. /\ ListNet(A, Posting[ev].lines) = Share(A, "663100", n) - Share(A, "371100", n)
        /\ "663100" \in Opened /\ "371100" \in Opened
    BY <1>1, <1>2, <1>7, Rules, OneAmountNet
  <2>2. /\ "663100" \in A <=> FALSE
        /\ "371100" \in A <=> TRUE
    BY <1>1, <1>2, <2>1, RuleAccounts
  <2>3. ListNet(A, Posting[ev].lines) = 0 - n
    BY <1>1, <2>1, <2>2 DEF Share
  <2> QED
    BY <1>1, <1>7, <2>3 DEF ByType
<1>8. CASE Payload[ev].type = "CASH_DEPOSIT"
  <2>1. /\ ListNet(A, Posting[ev].lines) = Share(A, "571100", n) - Share(A, "411100", n)
        /\ "571100" \in Opened /\ "411100" \in Opened
    BY <1>1, <1>2, <1>8, Rules, OneAmountNet
  <2>2. /\ "571100" \in A <=> FALSE
        /\ "411100" \in A <=> FALSE
    BY <1>1, <1>2, <2>1, RuleAccounts
  <2>3. ListNet(A, Posting[ev].lines) = 0 - 0
    BY <1>1, <2>1, <2>2 DEF Share
  <2> QED
    BY <1>1, <1>8, <2>3 DEF ByType
<1>9. CASE Payload[ev].type = "CASH_WITHDRAWAL"
  <2>1. /\ ListNet(A, Posting[ev].lines) = Share(A, "411100", n) - Share(A, "571100", n)
        /\ "411100" \in Opened /\ "571100" \in Opened
    BY <1>1, <1>2, <1>9, Rules, OneAmountNet
  <2>2. /\ "411100" \in A <=> FALSE
        /\ "571100" \in A <=> FALSE
    BY <1>1, <1>2, <2>1, RuleAccounts
  <2>3. ListNet(A, Posting[ev].lines) = 0 - 0
    BY <1>1, <2>1, <2>2 DEF Share
  <2> QED
    BY <1>1, <1>9, <2>3 DEF ByType
<1>10. CASE Payload[ev].type = "CREDIT_REPAYMENT"
  <2>1. PICK p : p = Payload[ev]
    OBVIOUS
  <2>2. "571100" \notin A
    BY <1>1, <1>2, RuleAccounts
  <2>3. /\ p.principal \in Int /\ p.interest \in Int /\ p.penalty \in Int
        /\ Posting[ev].lines = credit_repayment(p) /\ Uses(credit_repayment(p)) \subseteq Opened
    BY <1>10, <2>1, EventLines DEF get_movements
  <2>4. /\ ListNet(A, credit_repayment(p)) = -Share(A, "251100", a) - Share(A, "701100", b)
                                               - Share(A, "701900", c)
        /\ p.principal > 0 => "251100" \in Opened
        /\ p.interest > 0 => "701100" \in Opened
        /\ p.penalty > 0 => "701900" \in Opened
    BY <1>1, <2>1, <2>2, <2>3, RepaymentNet
  <2>5. /\ a # 0 => "251100" \in Opened
        /\ b # 0 => "701100" \in Opened
        /\ c # 0 => "701900" \in Opened
    BY <1>1, <2>1, <2>3, <2>4 DEF Positive
  <2>6. /\ Share(A, "251100", a) = 0
        /\ Share(A, "701100", b) = 0
        /\ Share(A, "701900", c) = 0
    BY <1>1, <1>2, <2>5, RuleAccounts DEF Share
  <2>7. ListNet(A, Posting[ev].lines) = 0
    BY <1>1, <2>3, <2>4, <2>6
  <2> QED
    BY <1>1, <1>10, <2>7 DEF ByType
<1> QED
  BY <1>3, <1>4, <1>5, <1>6, <1>7, <1>8, <1>9, <1>10, Rules, EventLines

\* To income, which is in credit, and expenses.
LEMMA ResultMoves ==
    ASSUME BooksInv, EventsInv, NEW ev \in Booked
    PROVE  ListNet(Results, Posting[ev].lines)
             = ByType("SAVINGS_INTEREST_CREDITED", "amount")[ev]
                 + ByType("CREDIT_WRITEOFF", "amount")[ev]
                 - ByType("CREDIT_REPAYMENT", "interest")[ev]
                 - ByType("CREDIT_REPAYMENT", "penalty")[ev]
<1>1. PICK A, n, a, b, c :
        /\ A = Results
        /\ n = Positive(Payload[ev].amount) /\ n \in Int
        /\ a = Positive(Payload[ev].principal) /\ a \in Int
        /\ b = Positive(Payload[ev].interest) /\ b \in Int
        /\ c = Positive(Payload[ev].penalty) /\ c \in Int
  BY EventLines DEF Positive
<1>2. /\ "251100" \in Codes /\ "371100" \in Codes /\ "411100" \in Codes /\ "571100" \in Codes
      /\ "663100" \in Codes /\ "694100" \in Codes /\ "701100" \in Codes /\ "701900" \in Codes
  BY DEF Codes
<1>3. CASE Payload[ev].type = "CREDIT_DISBURSED"
  <2>1. /\ ListNet(A, Posting[ev].lines) = Share(A, "251100", n) - Share(A, "571100", n)
        /\ "251100" \in Opened /\ "571100" \in Opened
    BY <1>1, <1>2, <1>3, Rules, OneAmountNet
  <2>2. /\ "251100" \in A <=> FALSE
        /\ "571100" \in A <=> FALSE
    BY <1>1, <1>2, <2>1, RuleAccounts
  <2>3. ListNet(A, Posting[ev].lines) = 0 - 0
    BY <1>1, <2>1, <2>2 DEF Share
  <2> QED
    BY <1>1, <1>3, <2>3 DEF ByType
<1>4. CASE Payload[ev].type = "CREDIT_WRITEOFF"
  <2>1. /\ ListNet(A, Posting[ev].lines) = Share(A, "694100", n) - Share(A, "251100", n)
        /\ "694100" \in Opened /\ "251100" \in Opened
    BY <1>1, <1>2, <1>4, Rules, OneAmountNet
  <2>2. /\ "694100" \in A <=> TRUE
        /\ "251100" \in A <=> FALSE
    BY <1>1, <1>2, <2>1, RuleAccounts
  <2>3. ListNet(A, Posting[ev].lines) = n - 0
    BY <1>1, <2>1, <2>2 DEF Share
  <2> QED
    BY <1>1, <1>4, <2>3 DEF ByType
<1>5. CASE Payload[ev].type = "SAVINGS_DEPOSIT"
  <2>1. /\ ListNet(A, Posting[ev].lines) = Share(A, "571100", n) - Share(A, "371100", n)
        /\ "571100" \in Opened /\ "371100" \in Opened
    BY <1>1, <1>2, <1>5, Rules, OneAmountNet
  <2>2. /\ "571100" \in A <=> FALSE
        /\ "371100" \in A <=> FALSE
    BY <1>1, <1>2, <2>1, RuleAccounts
  <2>3. ListNet(A, Posting[ev].lines) = 0 - 0
    BY <1>1, <2>1, <2>2 DEF Share
  <2> QED
    BY <1>1, <1>5, <2>3 DEF ByType
<1>6. CASE Payload[ev].type = "SAVINGS_WITHDRAWAL"
  <2>1. /\ ListNet(A, Posting[ev].lines) = Share(A, "371100", n) - Share(A, "571100", n)
        /\ "371100" \in Opened /\ "571100" \in Opened
    BY <1>1, <1>2, <1>6, Rules, OneAmountNet
  <2>2. /\ "371100" \in A <=> FALSE
        /\ "571100" \in A <=> FALSE
    BY <1>1, <1>2, <2>1, RuleAccounts
  <2>3. ListNet(A, Posting[ev].lines) = 0 - 0
    BY <1>1, <2>1, <2>2 DEF Share
  <2> QED
    BY <1>1, <1>6, <2>3 DEF ByType
<1>7. CASE Payload[ev].type = "SAVINGS_INTEREST_CREDITED"
  <2>1. /\ ListNet(A, Posting[ev].lines) = Share(A, "663100", n) - Share(A, "371100", n)
        /\ "663100" \in Opened /\ "371100" \in Opened
    BY <1>1, <1>2, <1>7, Rules, OneAmountNet
  <2>2. /\ "663100" \in A <=> TRUE
        /\ "371100" \in A <=> FALSE
    BY <1>1, <1>2, <2>1, RuleAccounts
  <2>3. ListNet(A, Posting[ev].lines) = n - 0
    BY <1>1, <2>1, <2>2 DEF Share
  <2> QED
    BY <1>1, <1>7, <2>3 DEF ByType
<1>8. CASE Payload[ev].type = "CASH_DEPOSIT"
  <2>1. /\ ListNet(A, Posting[ev].lines) = Share(A, "571100", n) - Share(A, "411100", n)
        /\ "571100" \in Opened /\ "411100" \in Opened
    BY <1>1, <1>2, <1>8, Rules, OneAmountNet
  <2>2. /\ "571100" \in A <=> FALSE
        /\ "411100" \in A <=> FALSE
    BY <1>1, <1>2, <2>1, RuleAccounts
  <2>3. ListNet(A, Posting[ev].lines) = 0 - 0
    BY <1>1, <2>1, <2>2 DEF Share
  <2> QED
    BY <1>1, <1>8, <2>3 DEF ByType
<1>9. CASE Payload[ev].type = "CASH_WITHDRAWAL"
  <2>1. /\ ListNet(A, Posting[ev].lines) = Share(A, "411100", n) - Share(A, "571100", n)
        /\ "411100" \in Opened /\ "571100" \in Opened
    BY <1>1, <1>2, <1>9, Rules, OneAmountNet
  <2>2. /\ "411100" \in A <=> FALSE
        /\ "571100" \in A <=> FALSE
    BY <1>1, <1>2, <2>1, RuleAccounts
  <2>3. ListNet(A, Posting[ev].lines) = 0 - 0
    BY <1>1, <2>1, <2>2 DEF Share
  <2> QED
    BY <1>1, <1>9, <2>3 DEF ByType
<1>10. CASE Payload[ev].type = "CREDIT_REPAYMENT"
  <2>1. PICK p : p = Payload[ev]
    OBVIOUS
  <2>2. "571100" \notin A
    BY <1>1, <1>2, RuleAccounts
  <2>3. /\ p.principal \in Int /\ p.interest \in Int /\ p.penalty \in Int
        /\ Posting[ev].lines = credit_repayment(p) /\ Uses(credit_repayment(p)) \subseteq Opened
    BY <1>10, <2>1, EventLines DEF get_movements
  <2>4. /\ ListNet(A, credit_repayment(p)) = -Share(A, "251100", a) - Share(A, "701100", b)
                                               - Share(A, "701900", c)
        /\ p.principal > 0 => "251100" \in Opened
        /\ p.interest > 0 => "701100" \in Opened
        /\ p.penalty > 0 => "701900" \in Opened
    BY <1>1, <2>1, <2>2, <2>3, RepaymentNet
  <2>5. /\ a # 0 => "251100" \in Opened
        /\ b # 0 => "701100" \in Opened
        /\ c # 0 => "701900" \in Opened
    BY <1>1, <2>1, <2>3, <2>4 DEF Positive
  <2>6. /\ Share(A, "251100", a) = 0
        /\ Share(A, "701100", b) = b
        /\ Share(A, "701900", c) = c
    BY <1>1, <1>2, <2>5, RuleAccounts DEF Share
  <2>7. ListNet(A, Posting[ev].lines) = -b - c
    BY <1>1, <2>3, <2>4, <2>6
  <2> QED
    BY <1>1, <1>10, <2>7 DEF ByType
<1> QED
  BY <1>3, <1>4, <1>5, <1>6, <1>7, <1>8, <1>9, <1>10, Rules, EventLines

\* The total of a part of some events.
Happened(S, part) == MapThenSumSet(LAMBDA ev : Positive(Payload[ev][part]), S)
Parts(S, part) == [ev \in S |-> Positive(Payload[ev][part])]

\* The fold of the property is that of a sum.
LEMMA PartsAreSums ==
    ASSUME NEW S, IsFiniteSet(S), NEW part
    PROVE  Happened(S, part) = Sum(Parts(S, part), S)
<1> DEFINE Fold(it) ==
      it = [s \in SUBSET S |->
              IF s = {} THEN 0
              ELSE Positive(Payload[CHOOSE x \in s : TRUE][part]) + it[s \ {CHOOSE x \in s : TRUE}]]
<1>1. IsFiniteSet(S)
  BY FS_Subset
<1>2. ASSUME NEW it
      PROVE  Fold(it) <=> IsFold(Parts(S, part), S, it)
  <2>1. ASSUME NEW s \in SUBSET S
        PROVE  Round(Parts(S, part), it, s)
                 = IF s = {} THEN 0
                   ELSE Positive(Payload[CHOOSE x \in s : TRUE][part]) + it[s \ {CHOOSE x \in s : TRUE}]
    <3>1. CASE s = {}
      BY <3>1 DEF Round
    <3>2. CASE s # {}
      <4>1. PICK c : c = CHOOSE x \in s : TRUE
        OBVIOUS
      <4>2. c \in S
        BY <3>2, <4>1
      <4>3. Parts(S, part)[c] = Positive(Payload[c][part])
        BY <4>2 DEF Parts
      <4> QED
        BY <3>2, <4>1, <4>3 DEF Round
    <3> QED
      BY <3>1, <3>2
  <2> QED
    BY <2>1 DEF IsFold
<1>3. PICK it : it = CHOOSE any : Fold(any)
  OBVIOUS
<1>4. Happened(S, part) = it[S]
  BY <1>3 DEF Happened, MapThenSumSet, MapThenFoldSet
<1>5. PICK g : IsFold(Parts(S, part), S, g)
  BY <1>1, FoldExists
<1>6. IsFold(Parts(S, part), S, it)
  <2> HIDE DEF Fold
  <2>1. Fold(g)
    BY <1>2, <1>5
  <2>2. Fold(it)
    BY <1>3, <2>1
  <2> QED
    BY <1>2, <2>2
<1> QED
  BY <1>1, <1>4, <1>6, FoldSums

OfEvents(type, part) == Happened({ev \in Booked : Payload[ev].type = type}, part)

\* The total of a part of the events of one type, as a sum over all events.
LEMMA ByTypeSums ==
    ASSUME BooksInv, EventsInv, NEW type, NEW part \in {"amount", "principal", "interest", "penalty"}
    PROVE  /\ ByType(type, part) \in [Booked -> Int]
           /\ OfEvents(type, part) = Sum(ByType(type, part), Booked)
           /\ OfEvents(type, part) \in Int
<1>1. PICK S, rest : S = {ev \in Booked : Payload[ev].type = type} /\ rest = Booked \ S
  OBVIOUS
<1>2. /\ S \in SUBSET Booked /\ rest \in SUBSET Booked /\ S \cap rest = {} /\ Booked = S \cup rest
      /\ IsFiniteSet(S) /\ IsFiniteSet(rest) /\ IsFiniteSet(Booked)
  <2>1. S \in SUBSET Booked /\ rest \in SUBSET Booked /\ S \cap rest = {} /\ Booked = S \cup rest
    BY <1>1
  <2> QED
    BY <2>1, BookedEvents, FS_Subset
<1>3. PICK w, v : w = ByType(type, part) /\ v = Parts(S, part)
  OBVIOUS
<1>4. \A ev \in Booked : Positive(Payload[ev][part]) \in Int
  BY BookedEvents, PayloadAssumption DEF Positive
<1>5. w \in [Booked -> Int]
  <2>1. \A ev \in Booked : w[ev] \in Int
    BY <1>3, <1>4 DEF ByType
  <2>2. DOMAIN w = Booked /\ w = [ev \in Booked |-> w[ev]]
    BY <1>3 DEF ByType
  <2> QED
    BY <2>1, <2>2
<1>6. v \in [S -> Int]
  <2>1. \A ev \in S : v[ev] \in Int
    BY <1>2, <1>3, <1>4 DEF Parts
  <2>2. DOMAIN v = S /\ v = [ev \in S |-> v[ev]]
    BY <1>3 DEF Parts
  <2> QED
    BY <2>1, <2>2
<1>7. Sum(w, S) = Sum(v, S)
  <2>1. \A ev \in S : w[ev] = v[ev]
    BY <1>1, <1>2, <1>3 DEF ByType, Parts
  <2>2. S \in SUBSET (Booked \cap S)
    BY <1>2
  <2> QED
    BY <1>2, <1>5, <1>6, <2>1, <2>2, SumSame
<1>8. Sum(w, rest) = 0
  <2>1. \A ev \in rest : w[ev] = 0
    BY <1>1, <1>2, <1>3 DEF ByType
  <2> QED
    BY <1>2, <1>5, <2>1, SumZero
<1>9. Sum(w, S \cup rest) = Sum(w, S) + Sum(w, rest)
  BY <1>2, <1>5, SumSplit
<1>10. Sum(w, S) \in Int
  BY <1>2, <1>5, SumType
<1>11. Sum(w, Booked) = Sum(v, S)
  <2>1. Sum(w, S \cup rest) = Sum(v, S)
    BY <1>7, <1>8, <1>9, <1>10
  <2> QED
    BY <1>2, <2>1
<1>12. OfEvents(type, part) = Sum(v, S)
  BY <1>1, <1>2, <1>3, PartsAreSums DEF OfEvents
<1> QED
  BY <1>3, <1>5, <1>7, <1>10, <1>11, <1>12

\* Functions that are u - v - x, or u + v - x - y, point by point.
Differ(w, u, v, D) == \A d \in D : w[d] = u[d] - v[d]

\* A difference.
LEMMA SumOfTwo ==
    ASSUME NEW D, IsFiniteSet(D), NEW w \in [D -> Int], NEW u \in [D -> Int],
           NEW v \in [D -> Int], Differ(w, u, v, D)
    PROVE  Sum(w, D) = Sum(u, D) - Sum(v, D)
<1>1. PICK S \in SUBSET D : S = D
  OBVIOUS
<1>2. IsFiniteSet(S) /\ \A d \in S : w[d] = u[d] - v[d]
  BY <1>1 DEF Differ
<1>3. Sum(w, S) = Sum(u, S) - Sum(v, S)
  BY <1>2, SumMinus
<1> QED
  BY <1>1, <1>3

\* Two differences.
LEMMA SumOfThree ==
    ASSUME NEW D, IsFiniteSet(D), NEW w \in [D -> Int], NEW u \in [D -> Int],
           NEW v \in [D -> Int], NEW x \in [D -> Int], \A d \in D : w[d] = u[d] - v[d] - x[d]
    PROVE  Sum(w, D) = Sum(u, D) - Sum(v, D) - Sum(x, D)
<1>1. PICK y : y = [d \in D |-> u[d] - v[d]]
  OBVIOUS
<1>2. y \in [D -> Int]
  BY <1>1
<1>3. Differ(y, u, v, D) /\ Differ(w, y, x, D)
  BY <1>1 DEF Differ
<1>4. Sum(y, D) = Sum(u, D) - Sum(v, D)
  BY <1>2, <1>3, SumOfTwo
<1>5. Sum(w, D) = Sum(y, D) - Sum(x, D)
  BY <1>2, <1>3, SumOfTwo
<1> QED
  BY <1>4, <1>5

\* A sum and two differences.
LEMMA SumOfFour ==
    ASSUME NEW D, IsFiniteSet(D), NEW w \in [D -> Int], NEW u \in [D -> Int],
           NEW v \in [D -> Int], NEW x \in [D -> Int], NEW y \in [D -> Int],
           \A d \in D : w[d] = u[d] + v[d] - x[d] - y[d]
    PROVE  Sum(w, D) = Sum(u, D) + Sum(v, D) - Sum(x, D) - Sum(y, D)
<1>1. PICK z : z = [d \in D |-> w[d] - v[d]]
  OBVIOUS
<1>2. PICK S \in SUBSET D : S = D
  OBVIOUS
<1>3. z \in [D -> Int] /\ IsFiniteSet(S)
  BY <1>1, <1>2
<1>4. \A d \in S : z[d] = w[d] - v[d]
  BY <1>1
<1>5. \A d \in D : z[d] = u[d] - x[d] - y[d]
  BY <1>1
<1>6. Sum(z, S) = Sum(w, S) - Sum(v, S)
  BY <1>3, <1>4, SumMinus
<1>7. Sum(z, D) = Sum(u, D) - Sum(x, D) - Sum(y, D)
  BY <1>3, <1>5, SumOfThree
<1>8. /\ Sum(w, S) \in Int /\ Sum(v, S) \in Int /\ Sum(u, S) \in Int
      /\ Sum(x, S) \in Int /\ Sum(y, S) \in Int
  BY <1>3, SumType
<1> QED
  BY <1>2, <1>6, <1>7, <1>8

-----------------------------------------------------------------------------
(* The dashboard and the events *)

ByHand == {l \in Lines : entries[l[1]].event = NoEvent}
FromEvents == On(OfPrefix("25") \cup OfPrefix("37") \cup Results, ByHand) = {}

\* Then loans, deposits and results hold what events brought.
LEMMA NetOfEvents ==
    ASSUME BooksInv, EventsInv, FromEvents,
           NEW A \in SUBSET (OfPrefix("25") \cup OfPrefix("37") \cup Results)
    PROVE  /\ PerEvent(A) \in [Booked -> Int]
           /\ Net(On(A, Lines)) = Sum(PerEvent(A), Booked)
<1>1. ASSUME NEW l \in Lines, At(l).account \in A
      PROVE  entries[l[1]].event # NoEvent
  <2>1. At(l).account \in OfPrefix("25") \cup OfPrefix("37") \cup Results
    BY <1>1
  <2> QED
    BY <2>1 DEF FromEvents, ByHand, On
<1> QED
  BY <1>1, NetByEvent

\* The loans.
LEMMA LoansFollow ==
    ASSUME BooksInv, EventsInv, FromEvents
    PROVE  Net(On(OfPrefix("25"), Lines))
             = OfEvents("CREDIT_DISBURSED", "amount") - OfEvents("CREDIT_REPAYMENT", "principal")
                 - OfEvents("CREDIT_WRITEOFF", "amount")
<1>1. PICK w, u, v, x : /\ w = PerEvent(OfPrefix("25"))
                        /\ u = ByType("CREDIT_DISBURSED", "amount")
                        /\ v = ByType("CREDIT_REPAYMENT", "principal")
                        /\ x = ByType("CREDIT_WRITEOFF", "amount")
  OBVIOUS
<1>2. /\ w \in [Booked -> Int] /\ u \in [Booked -> Int] /\ v \in [Booked -> Int]
      /\ x \in [Booked -> Int] /\ IsFiniteSet(Booked)
      /\ OfEvents("CREDIT_DISBURSED", "amount") = Sum(u, Booked)
      /\ OfEvents("CREDIT_REPAYMENT", "principal") = Sum(v, Booked)
      /\ OfEvents("CREDIT_WRITEOFF", "amount") = Sum(x, Booked)
      /\ Net(On(OfPrefix("25"), Lines)) = Sum(w, Booked)
  BY <1>1, NetOfEvents, ByTypeSums, BookedEvents
<1>3. ASSUME NEW ev \in Booked
      PROVE  w[ev] = u[ev] - v[ev] - x[ev]
  <2>1. w[ev] = ListNet(OfPrefix("25"), Posting[ev].lines)
    BY <1>1 DEF PerEvent
  <2> QED
    BY <1>1, <2>1, LoanMoves
<1> QED
  BY <1>2, <1>3, SumOfThree

\* The savings.
LEMMA SavingsFollow ==
    ASSUME BooksInv, EventsInv, FromEvents
    PROVE  Net(On(OfPrefix("37"), Lines))
             = OfEvents("SAVINGS_WITHDRAWAL", "amount") - OfEvents("SAVINGS_DEPOSIT", "amount")
                 - OfEvents("SAVINGS_INTEREST_CREDITED", "amount")
<1>1. PICK w, u, v, x : /\ w = PerEvent(OfPrefix("37"))
                        /\ u = ByType("SAVINGS_WITHDRAWAL", "amount")
                        /\ v = ByType("SAVINGS_DEPOSIT", "amount")
                        /\ x = ByType("SAVINGS_INTEREST_CREDITED", "amount")
  OBVIOUS
<1>2. /\ w \in [Booked -> Int] /\ u \in [Booked -> Int] /\ v \in [Booked -> Int]
      /\ x \in [Booked -> Int] /\ IsFiniteSet(Booked)
      /\ OfEvents("SAVINGS_WITHDRAWAL", "amount") = Sum(u, Booked)
      /\ OfEvents("SAVINGS_DEPOSIT", "amount") = Sum(v, Booked)
      /\ OfEvents("SAVINGS_INTEREST_CREDITED", "amount") = Sum(x, Booked)
      /\ Net(On(OfPrefix("37"), Lines)) = Sum(w, Booked)
  BY <1>1, NetOfEvents, ByTypeSums, BookedEvents
<1>3. ASSUME NEW ev \in Booked
      PROVE  w[ev] = u[ev] - v[ev] - x[ev]
  <2>1. w[ev] = ListNet(OfPrefix("37"), Posting[ev].lines)
    BY <1>1 DEF PerEvent
  <2> QED
    BY <1>1, <2>1, SavingsMoves
<1> QED
  BY <1>2, <1>3, SumOfThree

\* Income and expenses.
LEMMA ResultFollows ==
    ASSUME BooksInv, EventsInv, FromEvents
    PROVE  Net(On(Results, Lines))
             = OfEvents("SAVINGS_INTEREST_CREDITED", "amount")
                 + OfEvents("CREDIT_WRITEOFF", "amount")
                 - OfEvents("CREDIT_REPAYMENT", "interest")
                 - OfEvents("CREDIT_REPAYMENT", "penalty")
<1>1. PICK w, u, v, x, y : /\ w = PerEvent(Results)
                           /\ u = ByType("SAVINGS_INTEREST_CREDITED", "amount")
                           /\ v = ByType("CREDIT_WRITEOFF", "amount")
                           /\ x = ByType("CREDIT_REPAYMENT", "interest")
                           /\ y = ByType("CREDIT_REPAYMENT", "penalty")
  OBVIOUS
<1>2. /\ w \in [Booked -> Int] /\ u \in [Booked -> Int] /\ v \in [Booked -> Int]
      /\ x \in [Booked -> Int] /\ y \in [Booked -> Int] /\ IsFiniteSet(Booked)
      /\ OfEvents("SAVINGS_INTEREST_CREDITED", "amount") = Sum(u, Booked)
      /\ OfEvents("CREDIT_WRITEOFF", "amount") = Sum(v, Booked)
      /\ OfEvents("CREDIT_REPAYMENT", "interest") = Sum(x, Booked)
      /\ OfEvents("CREDIT_REPAYMENT", "penalty") = Sum(y, Booked)
      /\ Net(On(Results, Lines)) = Sum(w, Booked)
  BY <1>1, NetOfEvents, ByTypeSums, BookedEvents
<1>3. ASSUME NEW ev \in Booked
      PROVE  w[ev] = u[ev] + v[ev] - x[ev] - y[ev]
  <2>1. w[ev] = ListNet(Results, Posting[ev].lines)
    BY <1>1 DEF PerEvent
  <2> QED
    BY <1>1, <2>1, ResultMoves
<1> QED
  BY <1>2, <1>3, SumOfFour

\* The accounts that the rules name.
LEMMA RuleCodes ==
    ASSUME NEW p, p.type \in RuledTypes, p.amount \in Int, p.principal \in Int,
           p.interest \in Int, p.penalty \in Int
    PROVE  Uses(get_movements(p)) \subseteq Codes
<1>1. /\ "251100" \in Codes /\ "371100" \in Codes /\ "411100" \in Codes /\ "571100" \in Codes
      /\ "663100" \in Codes /\ "694100" \in Codes /\ "701100" \in Codes /\ "701900" \in Codes
  BY DEF Codes
<1>2. ASSUME NEW x \in Codes, NEW n \in Int
      PROVE  Part(x, n) \in Seq(Movement) /\ Uses(Part(x, n)) \subseteq Codes
  <2>1. CASE n > 0
    <3>1. PICK y \in Codes : y = "571100"
      BY <1>1
    <3>2. Pair(y, x, n) \in Seq(Movement) /\ Uses(Pair(y, x, n)) = {y, x}
      BY PairNet
    <3> QED
      BY <2>1, <3>1, <3>2 DEF Part
  <2>2. CASE ~(n > 0)
    BY <2>2, NoMovement DEF Part
  <2> QED
    BY <2>1, <2>2
<1>3. CASE p.type = "CREDIT_REPAYMENT"
  <2>1. PICK a, b, c : /\ a = Part("251100", p.principal)
                       /\ b = Part("701100", p.interest)
                       /\ c = Part("701900", p.penalty)
    OBVIOUS
  <2>2. get_movements(p) = (a \o b) \o c
    BY <1>3, <2>1 DEF get_movements, credit_repayment, Part
  <2>3. /\ a \in Seq(Movement) /\ b \in Seq(Movement) /\ c \in Seq(Movement)
        /\ Uses(a) \subseteq Codes /\ Uses(b) \subseteq Codes /\ Uses(c) \subseteq Codes
    BY <1>1, <1>2, <2>1
  <2>4. a \o b \in Seq(Movement) /\ Uses(a \o b) = Uses(a) \cup Uses(b)
    BY <2>3, JoinNet
  <2>5. Uses((a \o b) \o c) = Uses(a \o b) \cup Uses(c)
    BY <2>3, <2>4, JoinNet
  <2> QED
    BY <2>2, <2>3, <2>4, <2>5
<1>4. ASSUME NEW x \in Codes, NEW y \in Codes, OneAmount[p.type] = <<x, y>>,
             p.type # "CREDIT_REPAYMENT"
      PROVE  Uses(get_movements(p)) \subseteq Codes
  <2>1. PICK n \in Int : n = p.amount
    OBVIOUS
  <2>2. get_movements(p) = Pair(x, y, n)
    BY <1>4, <2>1 DEF get_movements
  <2>3. Uses(Pair(x, y, n)) = {x, y}
    BY PairNet
  <2> QED
    BY <2>2, <2>3
<1> QED
  BY <1>1, <1>3, <1>4, Rules

\* The loans of the events are all on one account.
LEMMA LoansOnOne ==
    ASSUME BooksInv, EventsInv, FromEvents, NEW l \in Lines, At(l).account \in OfPrefix("25")
    PROVE  At(l).account = "251100"
<1>1. PICK e : e = l[1]
  OBVIOUS
<1>2. e \in Recorded /\ l[2] \in DOMAIN entries[e].lines /\ entries[e].event # NoEvent
  <2>1. At(l).account \in OfPrefix("25") \cup OfPrefix("37") \cup Results
    OBVIOUS
  <2>2. l \notin ByHand
    BY <2>1 DEF FromEvents, On, ByHand
  <2> QED
    BY <1>1, <2>2, BooksLines DEF ByHand
<1>3. PICK ev \in Booked : ev = entries[e].event /\ entries[e].lines = Posting[ev].lines
  BY <1>2 DEF Booked, EventsInv
<1>4. At(l).account \in Uses(Posting[ev].lines)
  BY <1>1, <1>2, <1>3 DEF At, Uses
<1>5. Uses(get_movements(Payload[ev])) \subseteq Codes
  BY EventLines, RuleCodes
<1>6. At(l).account \in Codes
  BY <1>4, <1>5, EventLines
<1> QED
  BY <1>6, RuleAccounts

\* The portfolio is then that account's, when it is not in credit.
LEMMA PortfolioIs ==
    ASSUME BooksInv, EventsInv, AllCounted, FromEvents
    PROVE  dashboard(FirstDay, LastDay).encours_credits = Positive(Net(On(OfPrefix("25"), Lines)))
<1>1. PICK D, rows : D = Leaves \cap OfPrefix("25") /\ rows = get_credit_portfolio(LastDay)
  OBVIOUS
<1>2. /\ IsFiniteSet(D) /\ D \in SUBSET Opened /\ DOMAIN rows = D
      /\ \A a \in D : rows[a] = Net(On({a}, Lines))
  <2>1. D \in SUBSET Opened
    BY <1>1 DEF Leaves
  <2> QED
    BY <1>1, <2>1, FS_Subset DEF BooksInv, get_credit_portfolio
<1>3. dashboard(FirstDay, LastDay).encours_credits = Sum(Loans(rows), D)
  <2>1. Outstanding(LastDay) = LoansOf(rows)
    BY <1>1 DEF Outstanding, LoansOf
  <2>2. LoansOf(rows) = Sum(Loans(rows), D)
    BY <1>2, LoansAreSums
  <2> QED
    BY <2>1, <2>2 DEF dashboard
<1>4. PICK w : w = Loans(rows)
  OBVIOUS
<1>5. \A a \in D : w[a] = Positive(Net(On({a}, Lines))) /\ w[a] \in Int
  BY <1>2, <1>4, NetsOfAll DEF Loans, Positive
<1>6. w \in [D -> Int]
  <2>1. DOMAIN w = D /\ w = [a \in D |-> w[a]]
    BY <1>2, <1>4 DEF Loans
  <2> QED
    BY <1>5, <2>1
<1>7. Net({}) = 0
  BY BooksLines, NetNone
<1>8. ASSUME NEW a \in D, a # "251100"
      PROVE  w[a] = 0
  <2>1. On({a}, Lines) = {}
    BY <1>1, <1>8, LoansOnOne DEF On
  <2> QED
    BY <1>5, <1>7, <2>1 DEF Positive
<1>9. CASE "251100" \in D
  <2>1. On({"251100"}, Lines) = On(OfPrefix("25"), Lines)
    BY <1>1, <1>9, LoansOnOne DEF On
  <2>2. w["251100"] = Positive(Net(On(OfPrefix("25"), Lines)))
    BY <1>5, <1>9, <2>1
  <2>3. PICK rest : rest = D \ {"251100"}
    OBVIOUS
  <2>4. /\ rest \in SUBSET D /\ IsFiniteSet(rest) /\ D \in SUBSET D
        /\ \A a \in rest : w[a] = 0
    BY <1>2, <1>8, <2>3, FS_Subset
  <2>5. Sum(w, rest) = 0
    BY <1>6, <2>4, SumZero
  <2>6. Sum(w, D) = w["251100"] + Sum(w, rest)
    BY <1>2, <1>6, <1>9, <2>3, <2>4, SumAdd
  <2>7. w["251100"] \in Int
    BY <1>5, <1>9
  <2> QED
    BY <1>3, <1>4, <2>2, <2>5, <2>6, <2>7
<1>10. CASE "251100" \notin D
  <2>1. On(OfPrefix("25"), Lines) = {}
    <3>1. ASSUME NEW l \in Lines, At(l).account \in OfPrefix("25")
          PROVE  FALSE
      <4>1. At(l).account = "251100" /\ At(l).account \in Opened
        BY <3>1, LoansOnOne, BooksLines DEF LinesOK
      <4>2. At(l).account \in Listed
        BY <4>1 DEF AllCounted, On
      <4>3. At(l).account \in Leaves
        BY <4>2 DEF Listed
      <4> QED
        BY <1>1, <1>10, <3>1, <4>1, <4>3
    <3> QED
      BY <3>1 DEF On
  <2>2. \A a \in D : w[a] = 0
    BY <1>8, <1>10
  <2>3. Sum(w, D) = 0
    BY <1>2, <1>6, <2>2, SumZero
  <2>4. Net(On(OfPrefix("25"), Lines)) = 0
    BY <1>7, <2>1
  <2> QED
    BY <1>3, <1>4, <2>3, <2>4 DEF Positive
<1> QED
  BY <1>9, <1>10

\* The savings on the dashboard.
LEMMA SavingsAre ==
    ASSUME BooksInv, AllCounted
    PROVE  dashboard(FirstDay, LastDay).encours_epargne = -Net(On(OfPrefix("37"), Lines))
<1>1. On(Leaves \cap OfPrefix("37"), Lines) = On(OfPrefix("37"), Lines)
  <2>1. OfPrefix("37") \in SUBSET Opened /\ Lines \in SUBSET Lines
    BY DEF OfPrefix
  <2> QED
    BY <2>1, OnLeaves
<1>2. dashboard(FirstDay, LastDay).encours_epargne = Total(get_deposits_by_type(LastDay), Accounts)
  BY DEF dashboard
<1>3. Accounts \cap (Leaves \cap OfPrefix("37")) = Leaves \cap OfPrefix("37")
  BY DEF Leaves, Opened
<1>4. Total(get_deposits_by_type(LastDay), Accounts)
        = -Net(On(Accounts \cap (Leaves \cap OfPrefix("37")), Lines))
  BY DepositTotals
<1> QED
  BY <1>1, <1>2, <1>3, <1>4

\* The result on the dashboard.
LEMMA ResultIs ==
    ASSUME BooksInv, AllCounted
    PROVE  dashboard(FirstDay, LastDay).resultat_net = -Net(On(Results, Lines))
<1>1. dashboard(FirstDay, LastDay).resultat_net = get_net_income(FirstDay, LastDay)
  BY DEF dashboard
<1>2. Within(FirstDay, LastDay) = Lines
  BY AllDays
<1> QED
  BY <1>1, <1>2 DEF get_net_income, Results

\* The three figures of the dashboard.
Follows ==
    LET kpi == dashboard(FirstDay, LastDay)
    IN  /\ kpi.encours_credits = Positive(OfEvents("CREDIT_DISBURSED", "amount")
              - OfEvents("CREDIT_REPAYMENT", "principal") - OfEvents("CREDIT_WRITEOFF", "amount"))
        /\ kpi.encours_epargne = OfEvents("SAVINGS_DEPOSIT", "amount")
              - OfEvents("SAVINGS_WITHDRAWAL", "amount")
              + OfEvents("SAVINGS_INTEREST_CREDITED", "amount")
        /\ kpi.resultat_net = OfEvents("CREDIT_REPAYMENT", "interest")
              + OfEvents("CREDIT_REPAYMENT", "penalty")
              - OfEvents("SAVINGS_INTEREST_CREDITED", "amount")
              - OfEvents("CREDIT_WRITEOFF", "amount")

\* The dashboard shows what events told.
LEMMA FiguresFollow ==
    ASSUME BooksInv, EventsInv, AllCounted, FromEvents
    PROVE  Follows
<1>1. /\ OfEvents("CREDIT_DISBURSED", "amount") \in Int
      /\ OfEvents("CREDIT_REPAYMENT", "principal") \in Int
      /\ OfEvents("CREDIT_REPAYMENT", "interest") \in Int
      /\ OfEvents("CREDIT_REPAYMENT", "penalty") \in Int
      /\ OfEvents("CREDIT_WRITEOFF", "amount") \in Int
      /\ OfEvents("SAVINGS_DEPOSIT", "amount") \in Int
      /\ OfEvents("SAVINGS_WITHDRAWAL", "amount") \in Int
      /\ OfEvents("SAVINGS_INTEREST_CREDITED", "amount") \in Int
  BY ByTypeSums
<1>2. dashboard(FirstDay, LastDay).encours_credits
        = Positive(OfEvents("CREDIT_DISBURSED", "amount")
            - OfEvents("CREDIT_REPAYMENT", "principal") - OfEvents("CREDIT_WRITEOFF", "amount"))
  BY PortfolioIs, LoansFollow
<1>3. dashboard(FirstDay, LastDay).encours_epargne
        = OfEvents("SAVINGS_DEPOSIT", "amount") - OfEvents("SAVINGS_WITHDRAWAL", "amount")
            + OfEvents("SAVINGS_INTEREST_CREDITED", "amount")
  BY <1>1, SavingsAre, SavingsFollow
<1>4. dashboard(FirstDay, LastDay).resultat_net
        = OfEvents("CREDIT_REPAYMENT", "interest") + OfEvents("CREDIT_REPAYMENT", "penalty")
            - OfEvents("SAVINGS_INTEREST_CREDITED", "amount") - OfEvents("CREDIT_WRITEOFF", "amount")
  BY <1>1, ResultIs, ResultFollows
<1> QED
  BY <1>2, <1>3, <1>4 DEF Follows

\* That is the property.
LEMMA FollowForm == (AllCounted /\ FromEvents => Follows) => StatementsFollowEvents
BY DEF StatementsFollowEvents, FromEvents, ByHand, Follows, OfEvents, Happened, Booked

\* StatementsFollowEvents: the dashboard shows what the events told, for any
\* events, rules applied in any order, and any other entries and chart.
THEOREM EventsTold == ReportSpec => []StatementsFollowEvents
<1>1. BooksInv /\ EventsInv => StatementsFollowEvents
  BY FiguresFollow, FollowForm
<1> QED
  BY <1>1, BooksSound, EventsSound, PTL


-----------------------------------------------------------------------------
(* ORDER BY *)

\* Earlier is a strict order of the lines ls that leaves no two side by side.
Ordered(ls) ==
    /\ \A l \in ls : ~Earlier(l, l)
    /\ \A l, k \in ls : l # k => Earlier(l, k) \/ Earlier(k, l)
    /\ \A l, k, m \in ls : Earlier(l, k) /\ Earlier(k, m) => Earlier(l, m)

Preceding(l, ls) == {k \in ls : Earlier(k, l)}

\* Different lines have different numbers of lines before them.
LEMMA PrecedingDiffer ==
    ASSUME NEW ls, IsFiniteSet(ls), Ordered(ls), NEW l \in ls, NEW k \in ls, Earlier(l, k)
    PROVE  Cardinality(Preceding(l, ls)) < Cardinality(Preceding(k, ls))
<1>1. PICK L \in SUBSET ls : L = Preceding(l, ls)
  BY DEF Preceding
<1>2. PICK K \in SUBSET ls : K = Preceding(k, ls)
  BY DEF Preceding
<1>3. L \in SUBSET K /\ l \in K /\ l \notin L
  BY <1>1, <1>2 DEF Preceding, Ordered
<1>4. IsFiniteSet(K)
  BY FS_Subset
<1>5. /\ Cardinality(L) <= Cardinality(K) /\ Cardinality(L) # Cardinality(K)
  BY <1>3, <1>4, FS_Subset
<1>6. Cardinality(L) \in Nat /\ Cardinality(K) \in Nat
  BY <1>3, <1>4, FS_Subset, FS_CardinalityType
<1> QED
  BY <1>1, <1>2, <1>5, <1>6

\* Every number below that of all lines precedes exactly one of them.
LEMMA PlacesTaken ==
    ASSUME NEW ls, IsFiniteSet(ls), Ordered(ls)
    PROVE  /\ \A l \in ls : Cardinality(Preceding(l, ls)) \in 0..(Cardinality(ls) - 1)
           /\ \A i \in 0..(Cardinality(ls) - 1) :
                 \E l \in ls : Cardinality(Preceding(l, ls)) = i
           /\ \A l, k \in ls :
                 Cardinality(Preceding(l, ls)) = Cardinality(Preceding(k, ls)) => l = k
<1>1. PICK n \in Nat : n = Cardinality(ls)
  BY FS_CardinalityType
<1>2. ASSUME NEW l \in ls
      PROVE  Cardinality(Preceding(l, ls)) \in 0..(n - 1)
  <2>1. PICK rest \in SUBSET ls : rest = ls \ {l}
    OBVIOUS
  <2>2. IsFiniteSet(rest) /\ Cardinality(rest) = n - 1
    BY <1>1, <2>1, FS_RemoveElement
  <2>3. PICK L \in SUBSET rest : L = Preceding(l, ls)
    BY <2>1 DEF Preceding, Ordered
  <2>4. Cardinality(L) <= Cardinality(rest) /\ Cardinality(L) \in Nat
    BY <2>2, FS_Subset, FS_CardinalityType
  <2> QED
    BY <1>1, <2>2, <2>3, <2>4
<1>3. ASSUME NEW l \in ls, NEW k \in ls,
             Cardinality(Preceding(l, ls)) = Cardinality(Preceding(k, ls))
      PROVE  l = k
  <2>1. Cardinality(Preceding(l, ls)) \in Int
    BY <1>1, <1>2
  <2>2. ~Earlier(l, k) /\ ~Earlier(k, l)
    BY <1>3, <2>1, PrecedingDiffer
  <2> QED
    BY <2>2 DEF Ordered
<1>4. PICK T : T = 0..(n - 1)
  OBVIOUS
<1>5. IsFiniteSet(T) /\ Cardinality(T) = n
  <2>1. 0 \in Int /\ n - 1 \in Int
    BY <1>1
  <2>2. IsFiniteSet(0..(n - 1)) /\ Cardinality(0..(n - 1)) = IF 0 > n - 1 THEN 0 ELSE n - 1 - 0 + 1
    BY <2>1, FS_Interval
  <2> QED
    BY <1>1, <1>4, <2>2
<1>6. PICK f : f = [l \in ls |-> Cardinality(Preceding(l, ls))]
  OBVIOUS
<1>7. f \in Injection(ls, T)
  BY <1>2, <1>3, <1>4, <1>6 DEF Injection, IsInjective
<1>8. f \in Surjection(ls, T)
  BY <1>1, <1>5, <1>7, FS_Injection
<1>9. \A i \in T : \E l \in ls : f[l] = i
  BY <1>8 DEF Surjection
<1> QED
  BY <1>1, <1>2, <1>3, <1>4, <1>6, <1>9

\* What sorts the lines ls lists each of them once.
Lists(rows, ls) ==
    /\ rows \in [1..Cardinality(ls) -> ls]
    /\ \A i, j \in 1..Cardinality(ls) : rows[i] = rows[j] => i = j
    /\ \A l \in ls : \E i \in 1..Cardinality(ls) : rows[i] = l

\* A ledger lists each of the lines once.
LEMMA SortedLists ==
    ASSUME NEW ls, IsFiniteSet(ls), Ordered(ls)
    PROVE  Lists(Sorted(ls), ls)
<1>1. PICK n \in Nat : n = Cardinality(ls)
  BY FS_CardinalityType
<1>2. ASSUME NEW i \in 1..n
      PROVE  Sorted(ls)[i] \in ls /\ Cardinality(Preceding(Sorted(ls)[i], ls)) = i - 1
  <2>1. i - 1 \in 0..(n - 1)
    BY <1>1
  <2>2. \E l \in ls : Cardinality(Preceding(l, ls)) = i - 1
    BY <1>1, <2>1, PlacesTaken
  <2>3. Sorted(ls)[i] = CHOOSE l \in ls : Cardinality({k \in ls : Earlier(k, l)}) = i - 1
    BY <1>1 DEF Sorted
  <2> QED
    BY <2>2, <2>3 DEF Preceding
<1>3. Sorted(ls) \in [1..n -> ls]
  <2> DEFINE at(i) == CHOOSE l \in ls : Cardinality({k \in ls : Earlier(k, l)}) = i - 1
  <2>1. Sorted(ls) = [i \in 1..n |-> at(i)]
    BY <1>1 DEF Sorted
  <2>2. \A i \in 1..n : at(i) = Sorted(ls)[i]
    BY <2>1
  <2> HIDE DEF at
  <2>3. \A i \in 1..n : at(i) \in ls
    BY <1>2, <2>2
  <2> QED
    BY <2>1, <2>3
<1>4. ASSUME NEW i \in 1..n, NEW j \in 1..n, Sorted(ls)[i] = Sorted(ls)[j]
      PROVE  i = j
  <2>1. i - 1 = j - 1
    BY <1>2, <1>4
  <2> QED
    BY <1>1, <2>1
<1>5. ASSUME NEW l \in ls
      PROVE  \E i \in 1..n : Sorted(ls)[i] = l
  <2>1. PICK p : p = Cardinality(Preceding(l, ls))
    OBVIOUS
  <2>2. p \in 0..(n - 1)
    BY <1>1, <2>1, PlacesTaken
  <2>3. PICK i \in 1..n : i = p + 1
    BY <1>1, <2>2
  <2>4. Cardinality(Preceding(Sorted(ls)[i], ls)) = p /\ Sorted(ls)[i] \in ls
    BY <1>1, <1>2, <2>2, <2>3
  <2>5. Sorted(ls)[i] = l
    BY <2>1, <2>4, PlacesTaken
  <2> QED
    BY <2>5
<1> QED
  BY <1>1, <1>3, <1>4, <1>5 DEF Lists

-----------------------------------------------------------------------------
(* Entry numbers *)

\* No two entries of a journal have a number, nor one that is still to come.
NumbersInv ==
    /\ \A e \in Recorded : entries[e].seq <= lastSeq[entries[e].journal]
    /\ \A e, f \in Recorded :
          entries[e].journal = entries[f].journal /\ entries[e].seq = entries[f].seq => e = f

\* An entry takes the number after the last of its journal; others keep theirs.
LEMMA NumbersTaken ==
    ASSUME BooksInv, NumbersInv, NEW e \in EntryIds, e \notin Recorded,
           entries'[e].journal \in Journals,
           entries'[e].seq = lastSeq[entries'[e].journal] + 1,
           lastSeq' = [lastSeq EXCEPT ![entries'[e].journal] = entries'[e].seq],
           Recorded' = Recorded \cup {e},
           \A f \in Recorded : /\ entries'[f].journal = entries[f].journal
                               /\ entries'[f].seq = entries[f].seq
    PROVE  NumbersInv'
<1>1. PICK j, n : j = entries'[e].journal /\ n = entries'[e].seq
  OBVIOUS
<1>2. /\ j \in Journals /\ lastSeq[j] \in Nat /\ n = lastSeq[j] + 1
      /\ lastSeq'[j] = n /\ \A k \in Journals : k # j => lastSeq'[k] = lastSeq[k]
  BY <1>1 DEF BooksInv
<1>3. ASSUME NEW f \in Recorded
      PROVE  /\ entries[f].journal \in Journals /\ entries[f].seq \in Nat
             /\ entries[f].seq <= lastSeq[entries[f].journal]
  BY RowTypes DEF NumbersInv, Row
<1>4. ASSUME NEW f \in Recorded'
      PROVE  entries'[f].seq <= lastSeq'[entries'[f].journal]
  <2>1. CASE f = e
    BY <1>1, <1>2, <2>1
  <2>2. CASE f # e
    <3>1. f \in Recorded
      BY <2>2
    <3>2. CASE entries[f].journal = j
      <4>1. entries[f].seq \in Nat /\ entries[f].seq <= lastSeq[j]
        BY <1>3, <3>1, <3>2
      <4>2. entries'[f].seq = entries[f].seq /\ entries'[f].journal = j
        BY <3>1, <3>2
      <4> QED
        BY <1>2, <4>1, <4>2
    <3>3. CASE entries[f].journal # j
      BY <1>2, <1>3, <3>1, <3>3
    <3> QED
      BY <3>2, <3>3
  <2> QED
    BY <2>1, <2>2
<1>5. ASSUME NEW f \in Recorded, entries'[f].journal = j, entries'[f].seq = n
      PROVE  FALSE
  <2>1. entries[f].journal = j /\ entries[f].seq = n
    BY <1>5
  <2>2. n <= lastSeq[j]
    BY <1>3, <2>1
  <2> QED
    BY <1>2, <2>2
<1>6. ASSUME NEW f \in Recorded', NEW g \in Recorded',
             entries'[f].journal = entries'[g].journal, entries'[f].seq = entries'[g].seq
      PROVE  f = g
  <2>1. CASE f \in Recorded /\ g \in Recorded
    BY <1>6, <2>1 DEF NumbersInv
  <2>2. CASE f = e \/ g = e
    BY <1>1, <1>5, <1>6, <2>2
  <2> QED
    BY <2>1, <2>2
<1> QED
  BY <1>4, <1>6 DEF NumbersInv

\* A new row in the books.
LEMMA NumbersEnter ==
    ASSUME BooksInv, NumbersInv, NEW e \in EntryIds, NEW row \in Row, Enter(e, row)
    PROVE  NumbersInv'
<1>1. /\ entries' = [entries EXCEPT ![e] = row] /\ e \notin Recorded
      /\ row.seq = lastSeq[row.journal] + 1
      /\ lastSeq' = [lastSeq EXCEPT ![row.journal] = row.seq]
  BY DEF Enter
<1>2. Recorded' = Recorded \cup {e} /\ entries'[e] = row
  BY <1>1, NullAssumption DEF Recorded, BooksInv
<1>3. \A f \in Recorded : entries'[f] = entries[f]
  BY <1>1 DEF Recorded, BooksInv
<1>4. row.journal \in Journals
  BY DEF Row
<1> QED
  BY <1>1, <1>2, <1>3, <1>4, NumbersTaken

\* No operation disturbs that.
LEMMA NumbersStep ==
    ASSUME BooksInv, NumbersInv, [ReportNext]_reportVars
    PROVE  NumbersInv'
<1>1. ASSUME NEW e \in EntryIds, NEW x \in Submissions,
             RecordOnActive(e, x.journal, x.date, x.lines)
      PROVE  NumbersInv'
  <2>1. PICK row : /\ row = [journal |-> x.journal, seq |-> lastSeq[x.journal] + 1,
                            date |-> x.date, lines |-> x.lines, status |-> "DRAFT",
                            mirrorOf |-> NoEntry, event |-> NoEvent, postedBy |-> NoUser]
                   /\ Enter(e, row)
    BY <1>1 DEF RecordOnActive, Record
  <2>2. x.journal \in Journals /\ x.date \in Periods /\ x.lines \in Bodies
    BY SubmissionAssumption
  <2>3. x.lines \in Seq(Line) /\ lastSeq[x.journal] + 1 \in Nat
    BY <2>2, BodyAssumption DEF BooksInv
  <2>4. row \in Row
    BY <2>1, <2>2, <2>3 DEF Row, Statuses
  <2> QED
    BY <2>1, <2>4, NumbersEnter
<1>2. ASSUME NEW e \in EntryIds, NEW u \in Users, NEW ev \in Events, Ingest(e, ev, u)
      PROVE  NumbersInv'
  <2>1. PICK row : /\ row = [journal |-> Posting[ev].journal,
                            seq |-> lastSeq[Posting[ev].journal] + 1,
                            date |-> Posting[ev].date, lines |-> Posting[ev].lines,
                            status |-> "POSTED", mirrorOf |-> NoEntry, event |-> ev,
                            postedBy |-> u]
                   /\ Enter(e, row)
    BY <1>2 DEF Ingest, Book
  <2>2. /\ Posting[ev].journal \in Journals /\ Posting[ev].date \in Periods
        /\ Posting[ev].lines \in Bodies
    BY BodyAssumption
  <2>3. Posting[ev].lines \in Seq(Line) /\ lastSeq[Posting[ev].journal] + 1 \in Nat
    BY <2>2, BodyAssumption DEF BooksInv
  <2>4. row \in Row
    BY <2>1, <2>2, <2>3 DEF Row, Statuses
  <2> QED
    BY <2>1, <2>4, NumbersEnter
<1>3. ASSUME NEW e \in EntryIds, NEW u \in Users, Post(e, u)
      PROVE  NumbersInv'
  <2>1. PICK old : old = [entries[e] EXCEPT !.status = "POSTED", !.postedBy = u]
    OBVIOUS
  <2>2. e \in Recorded /\ entries[e] \in Row
    BY <1>3, RowTypes DEF Post, Validate
  <2>3. old \in Row /\ old.journal = entries[e].journal /\ old.seq = entries[e].seq
    BY <2>1, <2>2 DEF Row, Statuses
  <2>4. entries' = [entries EXCEPT ![e] = old] /\ lastSeq' = lastSeq
    BY <1>3, <2>1 DEF Post, Validate, BooksInv
  <2>5. \A f \in EntryIds : entries'[f] = IF f = e THEN old ELSE entries[f]
    BY <2>4 DEF BooksInv
  <2>6. Recorded' = Recorded
    BY <2>2, <2>3, <2>5, NullAssumption DEF Recorded
  <2>7. \A f \in Recorded : /\ entries'[f].journal = entries[f].journal
                            /\ entries'[f].seq = entries[f].seq
    BY <2>3, <2>5 DEF Recorded
  <2> QED
    BY <2>4, <2>6, <2>7 DEF NumbersInv
<1>4. ASSUME NEW e \in EntryIds, NEW u \in Users, NEW m \in EntryIds, NEW d \in Periods,
             ReverseOn(e, m, d, u)
      PROVE  NumbersInv'
  <2>1. PICK old, new :
           /\ old = [entries[e] EXCEPT !.status = "REVERSED"]
           /\ new = [journal |-> EX, seq |-> lastSeq[EX] + 1, date |-> d,
                     lines |-> Mirror(entries[e].lines), status |-> "POSTED",
                     mirrorOf |-> e, event |-> NoEvent, postedBy |-> u]
    OBVIOUS
  <2>2. e \in Recorded /\ m \notin Recorded /\ e # m /\ entries[e] \in Row
    BY <1>4, RowTypes DEF ReverseOn, Reverse
  <2>3. old \in Row /\ old.journal = entries[e].journal /\ old.seq = entries[e].seq
    BY <2>1, <2>2 DEF Row, Statuses
  <2>4. /\ entries' = [entries EXCEPT ![e] = old, ![m] = new]
        /\ lastSeq' = [lastSeq EXCEPT ![EX] = lastSeq[EX] + 1]
    BY <1>4, <2>1 DEF ReverseOn, Reverse
  <2>5. /\ entries'[m] = new
        /\ \A f \in EntryIds \ {m} : entries'[f] = IF f = e THEN old ELSE entries[f]
    BY <2>2, <2>4 DEF BooksInv
  <2>6. new \in Row
    <3>1. Mirror(entries[e].lines) \in Seq(Line) /\ lastSeq[EX] + 1 \in Nat
      BY <2>2, RowTypes, MirrorOK, JournalAssumption DEF BooksInv
    <3> QED
      BY <2>1, <3>1, JournalAssumption DEF Row, Statuses
  <2>7. Recorded' = Recorded \cup {m}
    BY <2>2, <2>3, <2>5, <2>6, NullAssumption DEF Recorded
  <2>8. \A f \in Recorded : /\ entries'[f].journal = entries[f].journal
                            /\ entries'[f].seq = entries[f].seq
    BY <2>2, <2>3, <2>5 DEF Recorded
  <2>9. /\ entries'[m].journal = EX /\ entries'[m].seq = lastSeq[EX] + 1
        /\ lastSeq' = [lastSeq EXCEPT ![EX] = entries'[m].seq]
    <3>1. new.journal = EX /\ new.seq = lastSeq[EX] + 1
      BY <2>1
    <3>2. entries'[m].journal = EX /\ entries'[m].seq = lastSeq[EX] + 1
      BY <2>5, <3>1
    <3> QED
      BY <2>4, <3>2
  <2> QED
    BY <2>2, <2>7, <2>8, <2>9, NumbersTaken, JournalAssumption
<1>5. ASSUME UNCHANGED <<entries, lastSeq>>
      PROVE  NumbersInv'
  BY <1>5 DEF NumbersInv, Recorded
<1>6. CASE UNCHANGED reportVars
  BY <1>5, <1>6 DEF reportVars, vars
<1>7. CASE ReportNext
  <2>1. CASE \E e \in EntryIds :
                \/ \E x \in Submissions : RecordOnActive(e, x.journal, x.date, x.lines)
                \/ \E u \in Users :
                     \/ Post(e, u)
                     \/ \E ev \in Events : Ingest(e, ev, u)
                     \/ \E m \in EntryIds, d \in Periods : ReverseOn(e, m, d, u)
    BY <1>1, <1>2, <1>3, <1>4, <2>1
  <2>2. CASE \E o \in Openings : OpenAccount(o[1], o[2])
    BY <1>5, <2>2 DEF OpenAccount, vars
  <2>3. CASE \E a \in Retirable : \/ \E today \in Periods : Deactivate(a, today)
                                 \/ \E active \in BOOLEAN : Patch(a, active)
    BY <1>5, <2>3 DEF Deactivate, Patch, vars
  <2> QED
    BY <1>7, <2>1, <2>2, <2>3 DEF ReportNext
<1> QED
  BY <1>6, <1>7

\* Entry numbers are given once.
LEMMA NumbersSound == ReportSpec => []NumbersInv
<1>1. ChartInit => NumbersInv
  BY DEF ChartInit, Init, Recorded, NumbersInv
<1>2. BooksInv /\ NumbersInv /\ [ReportNext]_reportVars => NumbersInv'
  BY NumbersStep
<1> QED
  BY <1>1, <1>2, BooksSound, PTL DEF ReportSpec

\* What the order compares: day, journal, number, place in the entry.
DayOf == [l \in Lines |-> DateOf(l)]
JournalRank == [l \in Lines |-> Rank[entries[l[1]].journal]]
NumberOf == [l \in Lines |-> entries[l[1]].seq]

\* Lexicographic order, spelt out: date, journal, number, line.
LEMMA EarlierIs ==
    ASSUME NEW l \in Lines, NEW k \in Lines
    PROVE  Earlier(l, k) <=>
             \/ DayOf[l] < DayOf[k]
             \/ DayOf[l] = DayOf[k] /\ JournalRank[l] < JournalRank[k]
             \/ /\ DayOf[l] = DayOf[k] /\ JournalRank[l] = JournalRank[k]
                /\ NumberOf[l] < NumberOf[k]
             \/ /\ DayOf[l] = DayOf[k] /\ JournalRank[l] = JournalRank[k]
                /\ NumberOf[l] = NumberOf[k] /\ l[2] < k[2]
<1> DEFINE u == <<DayOf[l], JournalRank[l], NumberOf[l], l[2]>>
           v == <<DayOf[k], JournalRank[k], NumberOf[k], k[2]>>
<1>1. Earlier(l, k) <=> \E i \in 1..4 : u[i] < v[i] /\ \A j \in 1..(i - 1) : u[j] = v[j]
  BY DEF Earlier, DayOf, JournalRank, NumberOf
<1>2. /\ u[1] = DayOf[l] /\ u[2] = JournalRank[l] /\ u[3] = NumberOf[l] /\ u[4] = l[2]
      /\ v[1] = DayOf[k] /\ v[2] = JournalRank[k] /\ v[3] = NumberOf[k] /\ v[4] = k[2]
  OBVIOUS
<1>3. \A i \in 1..4 : i = 1 \/ i = 2 \/ i = 3 \/ i = 4
  OBVIOUS
<1>4. /\ \A j \in 1..(1 - 1) : FALSE
      /\ \A j : j \in 1..(2 - 1) <=> j = 1
      /\ \A j : j \in 1..(3 - 1) <=> j = 1 \/ j = 2
      /\ \A j : j \in 1..(4 - 1) <=> j = 1 \/ j = 2 \/ j = 3
  OBVIOUS
<1> HIDE DEF u, v
<1>5. (\E i \in 1..4 : u[i] < v[i] /\ \A j \in 1..(i - 1) : u[j] = v[j]) <=>
        \/ u[1] < v[1]
        \/ u[1] = v[1] /\ u[2] < v[2]
        \/ u[1] = v[1] /\ u[2] = v[2] /\ u[3] < v[3]
        \/ u[1] = v[1] /\ u[2] = v[2] /\ u[3] = v[3] /\ u[4] < v[4]
  BY <1>3, <1>4
<1> QED
  BY <1>1, <1>2, <1>5

\* Lines with one key are one line.
LEMMA KeysDiffer ==
    ASSUME BooksInv, NumbersInv, NEW l \in Lines, NEW k \in Lines,
           JournalRank[l] = JournalRank[k], NumberOf[l] = NumberOf[k], l[2] = k[2]
    PROVE  l = k
<1>1. PICK e \in Recorded : \E i : l = <<e, i>>
  BY DEF Lines
<1>2. PICK f \in Recorded : \E j : k = <<f, j>>
  BY DEF Lines
<1>3. Rank[entries[e].journal] = Rank[entries[f].journal] /\ entries[e].seq = entries[f].seq
  BY <1>1, <1>2 DEF JournalRank, NumberOf
<1>4. entries[e].journal \in Journals /\ entries[f].journal \in Journals
  BY RowTypes DEF Row
<1>5. e = f
  BY <1>3, <1>4, RankAssumption DEF NumbersInv
<1> QED
  BY <1>1, <1>2, <1>5

\* A ledger has one order.
LEMMA LinesOrdered ==
    ASSUME BooksInv, NumbersInv, NEW ls \in SUBSET Lines
    PROVE  Ordered(ls)
<1>1. ASSUME NEW l \in Lines
      PROVE  DayOf[l] \in Int /\ JournalRank[l] \in Int /\ NumberOf[l] \in Int /\ l[2] \in Int
  <2>0. PICK e \in Recorded : \E i \in DOMAIN entries[e].lines : l = <<e, i>>
    BY DEF Lines
  <2>1. PICK i \in DOMAIN entries[e].lines : l = <<e, i>>
    BY <2>0
  <2>2. entries[e] \in Row /\ entries[e].lines \in Seq(Line)
    BY RowTypes
  <2>3. entries[e].journal \in Journals /\ entries[e].seq \in Nat /\ entries[e].date \in Periods
    BY <2>2 DEF Row
  <2>4. PICK rows \in Seq(Line) : rows = entries[e].lines
    BY <2>2
  <2>5. i \in Int
    BY <2>1, <2>4
  <2>6. DayOf[l] = entries[e].date /\ NumberOf[l] = entries[e].seq /\ l[2] = i
    BY <2>1 DEF DayOf, DateOf, NumberOf
  <2>7. JournalRank[l] = Rank[entries[e].journal]
    BY <2>1 DEF JournalRank
  <2>8. Rank[entries[e].journal] \in Int
    BY <2>3, RankAssumption
  <2>9. entries[e].date \in Int /\ entries[e].seq \in Int
    <3>1. Periods \subseteq Int
      BY TemplateAssumption
    <3>2. entries[e].seq \in Int
      BY <2>3
    <3> QED
      BY <2>3, <3>1, <3>2
  <2> QED
    BY <2>5, <2>6, <2>7, <2>8, <2>9
<1>2. ASSUME NEW l \in ls
      PROVE  ~Earlier(l, l)
  BY <1>1, EarlierIs
<1>3. ASSUME NEW l \in ls, NEW k \in ls, l # k
      PROVE  Earlier(l, k) \/ Earlier(k, l)
  <2>1. ~(JournalRank[l] = JournalRank[k] /\ NumberOf[l] = NumberOf[k] /\ l[2] = k[2])
    BY <1>3, KeysDiffer
  <2> QED
    BY <1>1, <2>1, EarlierIs
<1>4. ASSUME NEW l \in ls, NEW k \in ls, NEW m \in ls, Earlier(l, k), Earlier(k, m)
      PROVE  Earlier(l, m)
  BY <1>1, <1>4, EarlierIs
<1> QED
  BY <1>2, <1>3, <1>4 DEF Ordered

-----------------------------------------------------------------------------
(* One day's closing balances are the next day's opening ones *)

\* Sums of what is not negative are not.
LEMMA SumNatural ==
    ASSUME NEW D, NEW w \in [D -> Int], NEW S \in SUBSET D, IsFiniteSet(S),
           \A x \in S : w[x] >= 0
    PROVE  Sum(w, S) >= 0
<1>1. PICK F : F = {U \in SUBSET S : Sum(w, U) >= 0}
  OBVIOUS
<1>2. {} \in F
  BY <1>1, SumEmpty
<1>3. ASSUME NEW U \in SUBSET S, NEW x \in S \ U, U \in F
      PROVE  U \cup {x} \in F
  <2>1. IsFiniteSet(U)
    BY FS_Subset
  <2>2. Sum(w, U \cup {x}) = w[x] + Sum(w, U)
    BY <2>1, SumInsert
  <2>3. Sum(w, U) \in Int /\ w[x] \in Int /\ w[x] >= 0 /\ Sum(w, U) >= 0
    BY <1>1, <1>3, <2>1, SumType
  <2>4. Sum(w, U \cup {x}) >= 0
    BY <2>2, <2>3
  <2> QED
    BY <1>1, <1>3, <2>4
<1>4. S \in F
  BY <1>2, <1>3, SetInduction
<1> QED
  BY <1>1, <1>4

\* Debits and credits of lines that fall into two parts.
LEMMA AmountsSplit ==
    ASSUME LinesOK, NEW ls \in SUBSET Lines, NEW ks \in SUBSET Lines, ls \cap ks = {}
    PROVE  /\ Debits(ls \cup ks) = Debits(ls) + Debits(ks)
           /\ Credits(ls \cup ks) = Credits(ls) + Credits(ks)
<1>1. /\ IsFiniteSet(ls) /\ IsFiniteSet(ks) /\ ls \cup ks \in SUBSET Lines
      /\ IsFiniteSet(Lines)
  BY FS_Subset DEF LinesOK
<1>2. /\ Sum(DebitOf, ls \cup ks) = Sum(DebitOf, ls) + Sum(DebitOf, ks)
      /\ Sum(CreditOf, ls \cup ks) = Sum(CreditOf, ls) + Sum(CreditOf, ks)
  BY <1>1, WeightTypes, SumSplit
<1> QED
  BY <1>1, <1>2, DebitsAreSums, CreditsAreSums

\* They are natural numbers.
LEMMA AmountsNatural ==
    ASSUME LinesOK, NEW ls \in SUBSET Lines
    PROVE  Debits(ls) \in Nat /\ Credits(ls) \in Nat
<1>1. IsFiniteSet(ls) /\ IsFiniteSet(Lines)
  BY FS_Subset DEF LinesOK
<1>2. \A l \in ls : DebitOf[l] >= 0 /\ CreditOf[l] >= 0
  BY DEF LinesOK, DebitOf, CreditOf
<1>3. Sum(DebitOf, ls) >= 0 /\ Sum(CreditOf, ls) >= 0
  BY <1>1, <1>2, WeightTypes, SumNatural
<1>4. Debits(ls) >= 0 /\ Credits(ls) >= 0 /\ Debits(ls) \in Int /\ Credits(ls) \in Int
  BY <1>1, <1>3, DebitsAreSums, CreditsAreSums, NetsAreSums
<1> QED
  BY <1>4

\* What an account has before the next day.
LEMMA NextOpening ==
    ASSUME BooksInv, NEW s \in Periods, NEW d \in Periods, s <= d, NEW a
    PROVE  /\ Debits(On({a}, Before(d + 1)))
                = Debits(On({a}, Before(s))) + Debits(On({a}, Within(s, d)))
           /\ Credits(On({a}, Before(d + 1)))
                = Credits(On({a}, Before(s))) + Credits(On({a}, Within(s, d)))
<1>1. d \in Nat /\ \A l \in Lines : DateOf(l) \in Nat
  BY BooksLines, TemplateAssumption
<1>2. Before(d + 1) = Until(d)
  <2>1. \A l \in Lines : DateOf(l) < d + 1 <=> DateOf(l) <= d
    BY <1>1
  <2> QED
    BY <2>1 DEF Before, Until, PostedLines
<1>3. PICK u, v : u = On({a}, Before(s)) /\ v = On({a}, Within(s, d))
  OBVIOUS
<1>4. On({a}, Before(d + 1)) = u \cup v /\ u \cap v = {}
  BY <1>2, <1>3, WindowsMeet DEF On
<1>5. u \in SUBSET Lines /\ v \in SUBSET Lines /\ LinesOK
  BY <1>3, Windows, BooksLines DEF On
<1>6. Debits(u \cup v) = Debits(u) + Debits(v) /\ Credits(u \cup v) = Credits(u) + Credits(v)
  BY <1>4, <1>5, AmountsSplit
<1> QED
  BY <1>3, <1>4, <1>6

\* The amounts of the row of an account.
LEMMA RowAmounts ==
    ASSUME BooksInv, NEW a, NEW s, NEW d, NEW row, row = TrialRow(a, s, d)
    PROVE  /\ row.opening_debit = Debits(On({a}, Before(s))) /\ row.opening_debit \in Nat
           /\ row.opening_credit = Credits(On({a}, Before(s))) /\ row.opening_credit \in Nat
           /\ row.period_debit = Debits(On({a}, Within(s, d))) /\ row.period_debit \in Nat
           /\ row.period_credit = Credits(On({a}, Within(s, d))) /\ row.period_credit \in Nat
<1>1. On({a}, Before(s)) \in SUBSET Lines /\ On({a}, Within(s, d)) \in SUBSET Lines /\ LinesOK
  BY Windows, BooksLines DEF On
<1>2. /\ Debits(On({a}, Before(s))) \in Nat /\ Credits(On({a}, Before(s))) \in Nat
      /\ Debits(On({a}, Within(s, d))) \in Nat /\ Credits(On({a}, Within(s, d))) \in Nat
  BY <1>1, AmountsNatural
<1> QED
  BY <1>2 DEF TrialRow

\* An account's closing balance is its opening balance the next day.
LEMMA ForwardRow ==
    ASSUME BooksInv, NEW s \in Periods, NEW d \in Periods, s <= d, NEW a \in Listed,
           NEW old, old = TrialRow(a, s, d), NEW new, new = TrialRow(a, d + 1, d + 1)
    PROVE  /\ Cumulative(old) = new.opening_debit - new.opening_credit
           /\ old # Nothing => new # Nothing
<1>1. /\ old.opening_debit \in Nat /\ old.opening_credit \in Nat
      /\ old.period_debit \in Nat /\ old.period_credit \in Nat
      /\ new.opening_debit = old.opening_debit + old.period_debit
      /\ new.opening_credit = old.opening_credit + old.period_credit
  <2>1. /\ old.opening_debit = Debits(On({a}, Before(s))) /\ old.opening_debit \in Nat
        /\ old.opening_credit = Credits(On({a}, Before(s))) /\ old.opening_credit \in Nat
        /\ old.period_debit = Debits(On({a}, Within(s, d))) /\ old.period_debit \in Nat
        /\ old.period_credit = Credits(On({a}, Within(s, d))) /\ old.period_credit \in Nat
    BY RowAmounts
  <2>2. PICK t : t = d + 1
    OBVIOUS
  <2>3. new = TrialRow(a, t, t)
    BY <2>2
  <2>4. /\ new.opening_debit = Debits(On({a}, Before(t)))
        /\ new.opening_credit = Credits(On({a}, Before(t)))
    BY <2>3, RowAmounts
  <2>5. /\ Debits(On({a}, Before(t)))
             = Debits(On({a}, Before(s))) + Debits(On({a}, Within(s, d)))
        /\ Credits(On({a}, Before(t)))
             = Credits(On({a}, Before(s))) + Credits(On({a}, Within(s, d)))
    BY <2>2, NextOpening
  <2> QED
    BY <2>1, <2>4, <2>5
<1>2. Cumulative(old) = new.opening_debit - new.opening_credit
  BY <1>1 DEF Cumulative
<1>3. ASSUME new = Nothing
      PROVE  old = Nothing
  <2>1. new.opening_debit = 0 /\ new.opening_credit = 0
    BY <1>3 DEF Nothing
  <2>2. /\ old.opening_debit = 0 /\ old.opening_credit = 0
        /\ old.period_debit = 0 /\ old.period_credit = 0
    BY <1>1, <2>1
  <2> QED
    BY <2>2 DEF TrialRow, Nothing
<1> QED
  BY <1>2, <1>3

\* No balance is lost from one window of days to the next.
LEMMA BalancesForward == BooksInv => CarriedForward
<1> SUFFICES ASSUME BooksInv, NEW r \in Ranges, r[2] + 1 \in Periods
             PROVE  LET before == get_trial_balance(r[1], r[2])
                        after == get_trial_balance(r[2] + 1, r[2] + 1)
                    IN  /\ DOMAIN before \subseteq DOMAIN after
                        /\ \A a \in DOMAIN before :
                              Cumulative(before[a]) = after[a].opening_debit - after[a].opening_credit
  BY DEF CarriedForward
<1>1. PICK s, d : s = r[1] /\ d = r[2] /\ s \in Periods /\ d \in Periods /\ s <= d
  BY DEF Ranges
<1>2. PICK before, after : /\ before = get_trial_balance(s, d)
                           /\ after = get_trial_balance(d + 1, d + 1)
  OBVIOUS
<1>3. /\ before = [a \in {b \in Listed : TrialRow(b, s, d) # Nothing} |-> TrialRow(a, s, d)]
      /\ after = [a \in {b \in Listed : TrialRow(b, d + 1, d + 1) # Nothing}
                    |-> TrialRow(a, d + 1, d + 1)]
  BY <1>2, TrialRows
<1>4. ASSUME NEW a \in DOMAIN before
      PROVE  /\ a \in DOMAIN after
             /\ Cumulative(before[a]) = after[a].opening_debit - after[a].opening_credit
  <2>1. PICK old, new : old = TrialRow(a, s, d) /\ new = TrialRow(a, d + 1, d + 1)
    OBVIOUS
  <2>2. a \in Listed /\ before[a] = old /\ old # Nothing
    BY <1>3, <1>4, <2>1
  <2>3. new # Nothing /\ Cumulative(old) = new.opening_debit - new.opening_credit
    BY <1>1, <2>1, <2>2, ForwardRow
  <2>4. a \in DOMAIN after /\ after[a] = new
    BY <1>3, <2>1, <2>2, <2>3
  <2> QED
    BY <2>2, <2>3, <2>4
<1> QED
  BY <1>1, <1>2, <1>4

-----------------------------------------------------------------------------
(* Ledgers *)

\* The first n lines of a list.
FirstLines(rows, n) == {rows[i] : i \in 1..n}

\* All of a list that fits on the first page is on it.
LEMMA WholePage ==
    ASSUME NEW ls, IsFiniteSet(ls), NEW rows, Lists(rows, ls), Cardinality(ls) <= 500
    PROVE  /\ PageOf(rows, 1, 500) = rows /\ rows \in Seq(ls) /\ Len(rows) = Cardinality(ls)
           /\ DOMAIN rows = 1..Cardinality(ls)
           /\ FirstLines(rows, Len(rows)) = ls
<1>1. PICK n \in Nat : n = Cardinality(ls)
  BY FS_CardinalityType
<1>2. rows \in [1..n -> ls] /\ rows \in Seq(ls)
  BY <1>1 DEF Lists
<1>3. Len(rows) = n /\ DOMAIN rows = 1..n
  BY <1>1, <1>2
<1>4. PageOf(rows, 1, 500) = SubSeq(rows, 1, n)
  <2>1. (IF 500 > Len(rows) THEN Len(rows) ELSE 500) = n
    BY <1>1, <1>3
  <2>2. PageOf(rows, 1, 500) = SubSeq(rows, 1, IF 500 > Len(rows) THEN Len(rows) ELSE 500)
    BY DEF PageOf, Slice
  <2> QED
    BY <2>1, <2>2
<1>5. SubSeq(rows, 1, n) = rows
  BY <1>1, <1>2, <1>3
<1>6. FirstLines(rows, n) = ls
  BY <1>1, <1>2 DEF Lists, FirstLines
<1> QED
  BY <1>1, <1>2, <1>3, <1>4, <1>5, <1>6

\* The movements of an account in a window.
Moves(own, a, s, d) == own = On({a}, Within(s, d))

\* They are some of its lines.
LEMMA Movements ==
    ASSUME BooksInv, NumbersInv, NEW a, NEW s, NEW d, NEW own, Moves(own, a, s, d)
    PROVE  /\ own \in SUBSET Lines /\ own \subseteq On({a}, Lines) /\ IsFiniteSet(own)
           /\ Cardinality(On({a}, Lines)) <= 500 => Cardinality(own) <= 500
<1>1. LinesOK
  BY BooksLines
<1>2. own \in SUBSET Lines /\ own \subseteq On({a}, Lines)
  BY Windows DEF On, Moves
<1>3. IsFiniteSet(Lines) /\ IsFiniteSet(own) /\ IsFiniteSet(On({a}, Lines))
  <2>1. IsFiniteSet(Lines)
    BY <1>1 DEF LinesOK
  <2>2. On({a}, Lines) \in SUBSET Lines
    BY DEF On
  <2> QED
    BY <1>2, <2>1, <2>2, FS_Subset
<1>4. /\ Cardinality(own) <= Cardinality(On({a}, Lines))
      /\ Cardinality(own) \in Nat /\ Cardinality(On({a}, Lines)) \in Nat
  BY <1>2, <1>3, FS_Subset, FS_CardinalityType
<1> QED
  BY <1>2, <1>3, <1>4

\* A ledger orders them, each once.
LEMMA MovementsListed ==
    ASSUME BooksInv, NumbersInv, NEW a, NEW s, NEW d, NEW own, Moves(own, a, s, d)
    PROVE  Lists(Sorted(own), own)
<1>1. own \in SUBSET Lines
  BY Movements
<1>2. IsFiniteSet(own)
  BY Movements
<1> QED
  BY <1>1, <1>2, LinesOrdered, SortedLists

\* The ledger of an account from its opening balance and the lines on the page.
Ledger(a, opening, rows) ==
    [opening |-> opening,
     running |-> [i \in DOMAIN rows |->
        opening + Signed(a, Debits(FirstLines(rows, i)), Credits(FirstLines(rows, i)))],
     total_debit |-> Debits(FirstLines(rows, Len(rows))),
     total_credit |-> Credits(FirstLines(rows, Len(rows))),
     closing |-> opening + Signed(a, Debits(FirstLines(rows, Len(rows))),
                                     Credits(FirstLines(rows, Len(rows))))]

OpeningOf(a, s) == Signed(a, Debits(On({a}, Before(s))), Credits(On({a}, Before(s))))

\* The ledger of a page.
LEMMA LedgerOfPage ==
    ASSUME NEW a, NEW s, NEW d, NEW n, NEW size,
           NEW rows, rows = PageOf(Sorted(On({a}, Within(s, d))), n, size)
    PROVE  general_ledger(a, s, d, n, size) = Ledger(a, OpeningOf(a, s), rows)
BY DEF general_ledger, Ledger, OpeningOf, FirstLines

\* What a ledger on one page says of the movements own.
Told(ledger, a, s, own) ==
    /\ ledger.total_debit = Debits(own) /\ ledger.total_credit = Credits(own)
    /\ ledger.opening = OpeningOf(a, s)
    /\ ledger.closing = OpeningOf(a, s) + Signed(a, Debits(own), Credits(own))
    /\ DOMAIN ledger.running = 1..Cardinality(own) /\ Len(ledger.running) = Cardinality(own)
    /\ \A i \in 1..Cardinality(own) :
          ledger.running[i] = OpeningOf(a, s) + Signed(a, Debits(FirstLines(Sorted(own), i)),
                                                       Credits(FirstLines(Sorted(own), i)))

\* The ledger of all movements.
LEMMA LedgerIs ==
    ASSUME BooksInv, NumbersInv, NEW a, NEW s, NEW d, Cardinality(On({a}, Lines)) <= 500
    PROVE  Told(general_ledger(a, s, d, 1, 500), a, s, On({a}, Within(s, d)))
<1>1. PICK own, rows : own = On({a}, Within(s, d)) /\ rows = Sorted(own)
  OBVIOUS
<1>2. IsFiniteSet(own) /\ Lists(rows, own) /\ Cardinality(own) <= 500
  <2>1. Moves(own, a, s, d)
    BY <1>1 DEF Moves
  <2>2. Lists(Sorted(own), own)
    BY <2>1, MovementsListed
  <2>3. IsFiniteSet(own)
    BY <2>1, Movements
  <2>4. Cardinality(own) <= 500
    BY <2>1, Movements
  <2> QED
    BY <1>1, <2>2, <2>3, <2>4
<1>3. /\ PageOf(rows, 1, 500) = rows /\ FirstLines(rows, Len(rows)) = own
      /\ DOMAIN rows = 1..Cardinality(own) /\ Cardinality(own) \in Nat
  BY <1>2, WholePage, FS_CardinalityType
<1>4. PICK ledger : ledger = general_ledger(a, s, d, 1, 500)
  OBVIOUS
<1>5. ledger = Ledger(a, OpeningOf(a, s), rows)
  BY <1>1, <1>3, <1>4, LedgerOfPage
<1>6. /\ ledger.total_debit = Debits(own) /\ ledger.total_credit = Credits(own)
      /\ ledger.opening = OpeningOf(a, s)
      /\ ledger.closing = OpeningOf(a, s) + Signed(a, Debits(own), Credits(own))
  BY <1>3, <1>5 DEF Ledger
<1>7. PICK running : running = [i \in DOMAIN rows |-> OpeningOf(a, s)
         + Signed(a, Debits(FirstLines(rows, i)), Credits(FirstLines(rows, i)))]
  OBVIOUS
<1>8. ledger.running = running
  BY <1>5, <1>7 DEF Ledger
<1>9. /\ DOMAIN running = 1..Cardinality(own)
      /\ \A i \in 1..Cardinality(own) : running[i] = OpeningOf(a, s)
            + Signed(a, Debits(FirstLines(rows, i)), Credits(FirstLines(rows, i)))
  BY <1>3, <1>7
<1>10. Len(running) = Cardinality(own)
  BY <1>3, <1>9
<1>11. Told(ledger, a, s, own)
  BY <1>1, <1>6, <1>8, <1>9, <1>10 DEF Told
<1> QED
  BY <1>1, <1>4, <1>11

\* The accounting service's ledger starts from nothing.
LEMMA RunningIs ==
    ASSUME NEW a, NEW s, NEW d, NEW rows, rows = Sorted(On({a}, Within(s, d)))
    PROVE  running_balance(a, s, d) = [n \in DOMAIN rows |->
              Signed(a, Debits(FirstLines(rows, n)), Credits(FirstLines(rows, n)))]
BY DEF running_balance, FirstLines

\* A signed balance is a number, and adds up.
LEMMA SignedTypes ==
    ASSUME NEW a, NEW x \in Int, NEW y \in Int
    PROVE  Signed(a, x, y) \in Int
BY DEF Signed

\* Ledgers, trial balances and balances of accounts agree.
LEMMA LedgersBalance == BooksInv /\ NumbersInv /\ InOnePage => LedgersAgree
<1> SUFFICES ASSUME BooksInv, NumbersInv, InOnePage, NEW r \in Ranges, NEW a \in Opened
             PROVE  LET balance == get_trial_balance(r[1], r[2])
                        other == PeriodBalance(r[1], r[2])
                        ledger == general_ledger(a, r[1], r[2], 1, 500)
                    IN  /\ a \in DOMAIN balance =>
                              ledger.closing = Signed(a, Cumulative(balance[a]), 0)
                        /\ ledger.closing - ledger.opening = get_balance(a, r[1], r[2])
                        /\ running_balance(a, r[1], r[2])
                             = [n \in DOMAIN ledger.running |-> ledger.running[n] - ledger.opening]
                        /\ a \in DOMAIN other =>
                              /\ ledger.total_debit = other[a].debit
                              /\ ledger.total_credit = other[a].credit
  BY DEF LedgersAgree
<1>1. PICK s, d : s = r[1] /\ d = r[2] /\ s \in Periods /\ d \in Periods /\ s <= d
  BY DEF Ranges
<1>2. PICK own, rows, ledger : /\ own = On({a}, Within(s, d)) /\ rows = Sorted(own)
                               /\ ledger = general_ledger(a, s, d, 1, 500)
  OBVIOUS
<1>3. /\ ledger.total_debit = Debits(own) /\ ledger.total_credit = Credits(own)
      /\ ledger.opening = Signed(a, Debits(On({a}, Before(s))), Credits(On({a}, Before(s))))
      /\ ledger.closing = ledger.opening + Signed(a, Debits(own), Credits(own))
      /\ DOMAIN ledger.running = 1..Cardinality(own)
      /\ \A i \in 1..Cardinality(own) : ledger.running[i] = ledger.opening
            + Signed(a, Debits(FirstLines(rows, i)), Credits(FirstLines(rows, i)))
      /\ DOMAIN rows = 1..Cardinality(own)
  <2>1. Cardinality(On({a}, Lines)) <= 500
    BY DEF InOnePage
  <2>2. Told(general_ledger(a, s, d, 1, 500), a, s, On({a}, Within(s, d)))
    BY <2>1, LedgerIs
  <2>3. Told(ledger, a, s, own)
    BY <1>2, <2>2
  <2>4. Lists(rows, own)
    <3>1. Moves(own, a, s, d)
      BY <1>2 DEF Moves
    <3>2. Lists(Sorted(own), own)
      BY <3>1, MovementsListed
    <3> QED
      BY <1>2, <3>2
  <2>5. DOMAIN rows = 1..Cardinality(own)
    BY <2>4 DEF Lists
  <2>6. /\ ledger.total_debit = Debits(own) /\ ledger.total_credit = Credits(own)
        /\ ledger.opening = OpeningOf(a, s)
        /\ ledger.closing = OpeningOf(a, s) + Signed(a, Debits(own), Credits(own))
        /\ DOMAIN ledger.running = 1..Cardinality(own)
    BY <2>3 DEF Told
  <2>7. \A i \in 1..Cardinality(own) : ledger.running[i] = OpeningOf(a, s)
           + Signed(a, Debits(FirstLines(Sorted(own), i)), Credits(FirstLines(Sorted(own), i)))
    BY <2>3 DEF Told
  <2>8. \A i \in 1..Cardinality(own) : ledger.running[i] = ledger.opening
           + Signed(a, Debits(FirstLines(rows, i)), Credits(FirstLines(rows, i)))
    BY <1>2, <2>6, <2>7
  <2> QED
    BY <2>5, <2>6, <2>8 DEF OpeningOf
<1>4. own \in SUBSET Lines /\ On({a}, Before(s)) \in SUBSET Lines /\ LinesOK
  BY <1>2, Windows, BooksLines DEF On
<1>5. /\ Debits(own) \in Int /\ Credits(own) \in Int
      /\ Debits(On({a}, Before(s))) \in Int /\ Credits(On({a}, Before(s))) \in Int
  BY <1>4, NetsAreSums
<1>6. ledger.opening \in Int /\ Signed(a, Debits(own), Credits(own)) \in Int
  BY <1>3, <1>5, SignedTypes
<1>7. ASSUME NEW balance, balance = get_trial_balance(s, d), a \in DOMAIN balance
      PROVE  ledger.closing = Signed(a, Cumulative(balance[a]), 0)
  <2>1. PICK row : row = TrialRow(a, s, d)
    OBVIOUS
  <2>2. balance[a] = row
    BY <1>7, <2>1, TrialRows
  <2>3. /\ row.opening_debit = Debits(On({a}, Before(s)))
        /\ row.opening_credit = Credits(On({a}, Before(s)))
        /\ row.period_debit = Debits(own) /\ row.period_credit = Credits(own)
    BY <1>2, <2>1, RowAmounts
  <2>4. Cumulative(row) = Debits(On({a}, Before(s))) + Debits(own)
                            - Credits(On({a}, Before(s))) - Credits(own)
    BY <2>3 DEF Cumulative
  <2> QED
    BY <1>3, <1>5, <2>2, <2>4 DEF Signed
<1>8. ledger.closing - ledger.opening = get_balance(a, s, d)
  <2>1. get_balance(a, s, d) = Signed(a, Debits(own), Credits(own))
    BY <1>2 DEF get_balance
  <2> QED
    BY <1>3, <1>6, <2>1
<1>9. running_balance(a, s, d)
        = [n \in DOMAIN ledger.running |-> ledger.running[n] - ledger.opening]
  <2>1. running_balance(a, s, d) = [n \in DOMAIN rows |->
           Signed(a, Debits(FirstLines(rows, n)), Credits(FirstLines(rows, n)))]
    BY <1>2, RunningIs
  <2>2. ASSUME NEW n \in DOMAIN rows
        PROVE  /\ ledger.running[n] = ledger.opening
                    + Signed(a, Debits(FirstLines(rows, n)), Credits(FirstLines(rows, n)))
               /\ Signed(a, Debits(FirstLines(rows, n)), Credits(FirstLines(rows, n))) \in Int
    <3>1. ledger.running[n] = ledger.opening
             + Signed(a, Debits(FirstLines(rows, n)), Credits(FirstLines(rows, n)))
      BY <1>3
    <3>2. PICK some : some = FirstLines(rows, n)
      OBVIOUS
    <3>3. some \in SUBSET Lines
      <4>0. Lists(Sorted(own), own) /\ IsFiniteSet(own)
        <5>1. Moves(own, a, s, d)
          BY <1>2 DEF Moves
        <5>2. Lists(Sorted(own), own)
          BY <5>1, MovementsListed
        <5>3. IsFiniteSet(own)
          BY <5>1, Movements
        <5> QED
          BY <5>2, <5>3
      <4>1. rows \in [1..Cardinality(own) -> own]
        BY <1>2, <4>0 DEF Lists
      <4>2. Cardinality(own) \in Nat
        BY <4>0, FS_CardinalityType
      <4>3. \A i \in 1..n : rows[i] \in own
        BY <4>1, <4>2
      <4> QED
        BY <1>4, <3>2, <4>3 DEF FirstLines
    <3>4. Signed(a, Debits(some), Credits(some)) \in Int
      BY <1>4, <3>3, NetsAreSums, SignedTypes
    <3> QED
      BY <3>1, <3>2, <3>4
  <2>3. \A n \in DOMAIN rows : ledger.running[n] - ledger.opening =
           Signed(a, Debits(FirstLines(rows, n)), Credits(FirstLines(rows, n)))
    BY <1>6, <2>2
  <2>4. DOMAIN ledger.running = DOMAIN rows
    BY <1>3
  <2> QED
    BY <2>1, <2>3, <2>4
<1>10. ASSUME NEW other, other = PeriodBalance(s, d), a \in DOMAIN other
       PROVE  ledger.total_debit = other[a].debit /\ ledger.total_credit = other[a].credit
  <2>1. other[a] = [debit |-> Debits(own), credit |-> Credits(own)]
    BY <1>2, <1>10 DEF PeriodBalance
  <2> QED
    BY <1>3, <2>1
<1> QED
  BY <1>1, <1>2, <1>7, <1>8, <1>9, <1>10

-----------------------------------------------------------------------------
(* Pages *)

\* The totals of the pages of a ledger.
PageDebits(a, ns)  ==
    MapThenSumSet(LAMBDA n : general_ledger(a, FirstDay, LastDay, n, 1).total_debit, ns)
PageCredits(a, ns) ==
    MapThenSumSet(LAMBDA n : general_ledger(a, FirstDay, LastDay, n, 1).total_credit, ns)
DebitOfPage(a, ns)  == [n \in ns |-> general_ledger(a, FirstDay, LastDay, n, 1).total_debit]
CreditOfPage(a, ns) == [n \in ns |-> general_ledger(a, FirstDay, LastDay, n, 1).total_credit]

\* The total of the debits of some pages.
LEMMA PageDebitsAreSums ==
    ASSUME NEW a, NEW ns, IsFiniteSet(ns)
    PROVE  PageDebits(a, ns) = Sum(DebitOfPage(a, ns), ns)
<1> DEFINE Fold(it) ==
      it = [s \in SUBSET ns |->
              IF s = {} THEN 0
              ELSE general_ledger(a, FirstDay, LastDay, CHOOSE x \in s : TRUE, 1).total_debit + it[s \ {CHOOSE x \in s : TRUE}]]
<1>1. IsFiniteSet(ns)
  BY FS_Subset
<1>2. ASSUME NEW it
      PROVE  Fold(it) <=> IsFold(DebitOfPage(a, ns), ns, it)
  <2>1. ASSUME NEW s \in SUBSET ns
        PROVE  Round(DebitOfPage(a, ns), it, s)
                 = IF s = {} THEN 0
                   ELSE general_ledger(a, FirstDay, LastDay, CHOOSE x \in s : TRUE, 1).total_debit + it[s \ {CHOOSE x \in s : TRUE}]
    <3>1. CASE s = {}
      BY <3>1 DEF Round
    <3>2. CASE s # {}
      <4>1. PICK c : c = CHOOSE x \in s : TRUE
        OBVIOUS
      <4>2. c \in ns
        BY <3>2, <4>1
      <4>3. DebitOfPage(a, ns)[c] = general_ledger(a, FirstDay, LastDay, c, 1).total_debit
        BY <4>2 DEF DebitOfPage
      <4> QED
        BY <3>2, <4>1, <4>3 DEF Round
    <3> QED
      BY <3>1, <3>2
  <2> QED
    BY <2>1 DEF IsFold
<1>3. PICK it : it = CHOOSE any : Fold(any)
  OBVIOUS
<1>4. PageDebits(a, ns) = it[ns]
  BY <1>3 DEF PageDebits, MapThenSumSet, MapThenFoldSet
<1>5. PICK g : IsFold(DebitOfPage(a, ns), ns, g)
  BY <1>1, FoldExists
<1>6. IsFold(DebitOfPage(a, ns), ns, it)
  <2> HIDE DEF Fold
  <2>1. Fold(g)
    BY <1>2, <1>5
  <2>2. Fold(it)
    BY <1>3, <2>1
  <2> QED
    BY <1>2, <2>2
<1> QED
  BY <1>1, <1>4, <1>6, FoldSums

\* The total of the credits of some pages.
LEMMA PageCreditsAreSums ==
    ASSUME NEW a, NEW ns, IsFiniteSet(ns)
    PROVE  PageCredits(a, ns) = Sum(CreditOfPage(a, ns), ns)
<1> DEFINE Fold(it) ==
      it = [s \in SUBSET ns |->
              IF s = {} THEN 0
              ELSE general_ledger(a, FirstDay, LastDay, CHOOSE x \in s : TRUE, 1).total_credit + it[s \ {CHOOSE x \in s : TRUE}]]
<1>1. IsFiniteSet(ns)
  BY FS_Subset
<1>2. ASSUME NEW it
      PROVE  Fold(it) <=> IsFold(CreditOfPage(a, ns), ns, it)
  <2>1. ASSUME NEW s \in SUBSET ns
        PROVE  Round(CreditOfPage(a, ns), it, s)
                 = IF s = {} THEN 0
                   ELSE general_ledger(a, FirstDay, LastDay, CHOOSE x \in s : TRUE, 1).total_credit + it[s \ {CHOOSE x \in s : TRUE}]
    <3>1. CASE s = {}
      BY <3>1 DEF Round
    <3>2. CASE s # {}
      <4>1. PICK c : c = CHOOSE x \in s : TRUE
        OBVIOUS
      <4>2. c \in ns
        BY <3>2, <4>1
      <4>3. CreditOfPage(a, ns)[c] = general_ledger(a, FirstDay, LastDay, c, 1).total_credit
        BY <4>2 DEF CreditOfPage
      <4> QED
        BY <3>2, <4>1, <4>3 DEF Round
    <3> QED
      BY <3>1, <3>2
  <2> QED
    BY <2>1 DEF IsFold
<1>3. PICK it : it = CHOOSE any : Fold(any)
  OBVIOUS
<1>4. PageCredits(a, ns) = it[ns]
  BY <1>3 DEF PageCredits, MapThenSumSet, MapThenFoldSet
<1>5. PICK g : IsFold(CreditOfPage(a, ns), ns, g)
  BY <1>1, FoldExists
<1>6. IsFold(CreditOfPage(a, ns), ns, it)
  <2> HIDE DEF Fold
  <2>1. Fold(g)
    BY <1>2, <1>5
  <2>2. Fold(it)
    BY <1>3, <2>1
  <2> QED
    BY <1>2, <2>2
<1> QED
  BY <1>1, <1>4, <1>6, FoldSums

\* Of the lines rows, the n-th page of one line has the n-th; the page after the last
\* has none.
PageLines(rows, n) == FirstLines(PageOf(rows, n, 1), Len(PageOf(rows, n, 1)))

\* The line of a page of one.
LEMMA OneLine ==
    ASSUME NEW ls, IsFiniteSet(ls), NEW rows, Lists(rows, ls), NEW n \in 1..(Cardinality(ls) + 1)
    PROVE  PageLines(rows, n) = IF n <= Cardinality(ls) THEN {rows[n]} ELSE {}
<1>1. PICK N \in Nat : N = Cardinality(ls)
  BY FS_CardinalityType
<1>2. rows \in [1..N -> ls] /\ rows \in Seq(ls) /\ n \in Nat /\ n >= 1 /\ n <= N + 1
  BY <1>1 DEF Lists
<1>3. Len(rows) = N
  BY <1>1, <1>2
<1>4. PICK page : page = PageOf(rows, n, 1)
  OBVIOUS
<1>5. page = SubSeq(rows, n, IF n > N THEN N ELSE n)
  <2>1. (n - 1) * 1 + 1 = n /\ n * 1 = n
    BY <1>2
  <2>2. page = Slice(rows, n, n)
    BY <1>4, <2>1 DEF PageOf
  <2> QED
    BY <1>3, <2>2 DEF Slice
<1>6. CASE n <= N
  <2>1. page = SubSeq(rows, n, n)
    BY <1>1, <1>2, <1>5, <1>6
  <2>2. Len(page) = 1 /\ page[1] = rows[n]
    BY <1>1, <1>2, <1>3, <1>6, <2>1
  <2>3. FirstLines(page, Len(page)) = {rows[n]}
    BY <2>2 DEF FirstLines
  <2> QED
    BY <1>1, <1>4, <1>6, <2>3 DEF PageLines
<1>7. CASE ~(n <= N)
  <2>1. n = N + 1 /\ page = SubSeq(rows, N + 1, N)
    BY <1>1, <1>2, <1>5, <1>7
  <2>2. Len(page) = 0
    BY <1>1, <1>2, <1>3, <2>1
  <2>3. FirstLines(page, Len(page)) = {}
    BY <2>2 DEF FirstLines
  <2> QED
    BY <1>1, <1>4, <1>7, <2>3 DEF PageLines
<1> QED
  BY <1>6, <1>7

\* v is what each page weighs.
PageWeights(v, w, rows, ns) ==
    v = [n \in ns |-> v[n]] /\ \A n \in ns : v[n] = Sum(w, PageLines(rows, n))

\* What the pages weigh together is what all lines weigh.
LEMMA PagesSum ==
    ASSUME NEW w \in [Lines -> Int], NEW ls \in SUBSET Lines, IsFiniteSet(ls),
           NEW rows, Lists(rows, ls),
           NEW ns, ns = 1..(Cardinality(ls) + 1), NEW v, PageWeights(v, w, rows, ns)
    PROVE  Sum(v, ns) = Sum(w, ls)
<1>1. PICK N \in Nat : N = Cardinality(ls)
  BY FS_CardinalityType
<1>2. /\ rows \in [1..N -> ls] /\ \A i, j \in 1..N : rows[i] = rows[j] => i = j
      /\ \A l \in ls : \E i \in 1..N : rows[i] = l
  BY <1>1 DEF Lists
<1>3. PICK place : place = [l \in Lines |-> CHOOSE i \in 1..N : rows[i] = l]
  OBVIOUS
<1>4. ASSUME NEW l \in ls
      PROVE  place[l] \in 1..N /\ rows[place[l]] = l
  <2>1. place[l] = CHOOSE i \in 1..N : rows[i] = l
    BY <1>3
  <2> QED
    BY <1>2, <2>1
<1>5. IsFiniteSet(ns) /\ 1..N \subseteq ns
  <2>1. N + 1 \in Int
    BY <1>1
  <2>2. PICK k \in Int, m \in Int : k = 1 /\ m = N + 1
    BY <2>1
  <2>3. IsFiniteSet(k..m)
    BY FS_Interval
  <2> QED
    BY <1>1, <2>2, <2>3
<1>6. ASSUME NEW n \in ns
      PROVE  {l \in ls : place[l] = n} = PageLines(rows, n)
  <2>1. PageLines(rows, n) = IF n <= N THEN {rows[n]} ELSE {}
    BY <1>1, OneLine
  <2>2. n \in Int /\ n >= 1
    BY <1>1
  <2>3. CASE n <= N
    <3>1. n \in 1..N /\ rows[n] \in ls
      BY <1>1, <1>2, <2>2, <2>3
    <3>2. \A l \in ls : place[l] = n <=> l = rows[n]
      BY <1>2, <1>4, <3>1
    <3> QED
      BY <2>1, <2>3, <3>1, <3>2
  <2>4. CASE ~(n <= N)
    <3>1. \A l \in ls : place[l] # n
      BY <1>1, <1>4, <2>4
    <3> QED
      BY <2>1, <2>4, <3>1
  <2> QED
    BY <2>3, <2>4
<1>7. \A n \in ns : v[n] = Sum(w, {l \in ls : place[l] = n}) /\ v[n] \in Int
  <2>1. ASSUME NEW n \in ns
        PROVE  v[n] = Sum(w, {l \in ls : place[l] = n}) /\ v[n] \in Int
    <3>1. PICK some \in SUBSET ls : some = {l \in ls : place[l] = n}
      OBVIOUS
    <3>2. v[n] = Sum(w, some)
      BY <1>6, <3>1 DEF PageWeights
    <3>3. Sum(w, some) \in Int
      BY FS_Subset, SumType
    <3> QED
      BY <3>1, <3>2, <3>3
  <2> QED
    BY <2>1
<1>8. v \in [ns -> Int]
  BY <1>7 DEF PageWeights
<1>9. GroupSums(w, ls, place, ns, v)
  BY <1>5, <1>7, <1>8 DEF GroupSums
<1>10. Grouped(ls, place, ns) = ls
  BY <1>4, <1>5 DEF Grouped
<1> QED
  BY <1>9, <1>10, SumGroups

\* Page by page, a ledger shows each movement once.
LEMMA PagesBalance == BooksInv /\ NumbersInv /\ InOnePage => PagesAddUp
<1> SUFFICES ASSUME BooksInv, NumbersInv, InOnePage, NEW a \in Opened
             PROVE  LET page(n) == general_ledger(a, FirstDay, LastDay, n, 1)
                        whole == general_ledger(a, FirstDay, LastDay, 1, 500)
                        pages == 1..(Len(whole.running) + 1)
                    IN  /\ MapThenSumSet(LAMBDA n : page(n).total_debit, pages)
                             = whole.total_debit
                        /\ MapThenSumSet(LAMBDA n : page(n).total_credit, pages)
                             = whole.total_credit
  BY DEF PagesAddUp
<1>1. PICK own, rows, whole : /\ own = On({a}, Within(FirstDay, LastDay)) /\ rows = Sorted(own)
                              /\ whole = general_ledger(a, FirstDay, LastDay, 1, 500)
  OBVIOUS
<1>2. Told(whole, a, FirstDay, own)
  <2>1. Cardinality(On({a}, Lines)) <= 500
    BY DEF InOnePage
  <2>2. Told(general_ledger(a, FirstDay, LastDay, 1, 500), a, FirstDay,
             On({a}, Within(FirstDay, LastDay)))
    BY <2>1, LedgerIs
  <2> QED
    BY <1>1, <2>2
<1>3. PICK ns : ns = 1..(Cardinality(own) + 1)
  OBVIOUS
<1>4. /\ 1..(Len(whole.running) + 1) = ns
      /\ whole.total_debit = Debits(own) /\ whole.total_credit = Credits(own)
  BY <1>2, <1>3 DEF Told
<1>5. own \in SUBSET Lines /\ IsFiniteSet(own) /\ Lists(rows, own) /\ LinesOK /\ IsFiniteSet(Lines)
  <2>1. Moves(own, a, FirstDay, LastDay)
    BY <1>1 DEF Moves
  <2>2. own \in SUBSET Lines /\ IsFiniteSet(own) /\ Lists(Sorted(own), own)
    <3>1. own \in SUBSET Lines
      BY <2>1, Windows DEF On, Moves
    <3>2. IsFiniteSet(own)
      BY <2>1, Movements
    <3>3. Lists(Sorted(own), own)
      BY <2>1, MovementsListed
    <3> QED
      BY <3>1, <3>2, <3>3
  <2>3. LinesOK /\ IsFiniteSet(Lines)
    BY BooksLines DEF LinesOK
  <2> QED
    BY <1>1, <2>2, <2>3
<1>6. IsFiniteSet(ns)
  <2>1. PICK m \in Int : m = Cardinality(own) + 1
    BY <1>5, FS_CardinalityType
  <2>2. IsFiniteSet(1..m)
    BY FS_Interval
  <2> QED
    BY <1>3, <2>1, <2>2
<1>7. ASSUME NEW n \in ns
      PROVE  /\ general_ledger(a, FirstDay, LastDay, n, 1).total_debit = Debits(PageLines(rows, n))
             /\ general_ledger(a, FirstDay, LastDay, n, 1).total_credit = Credits(PageLines(rows, n))
             /\ PageLines(rows, n) \in SUBSET Lines
  <2>1. PICK pg : pg = PageOf(rows, n, 1)
    OBVIOUS
  <2>2. general_ledger(a, FirstDay, LastDay, n, 1) = Ledger(a, OpeningOf(a, FirstDay), pg)
    BY <1>1, <2>1, LedgerOfPage
  <2>3. PageLines(rows, n) = FirstLines(pg, Len(pg))
    BY <2>1 DEF PageLines
  <2>4. PageLines(rows, n) \in SUBSET Lines
    <3>1. PageLines(rows, n) = IF n <= Cardinality(own) THEN {rows[n]} ELSE {}
      BY <1>3, <1>5, OneLine
    <3>2. n <= Cardinality(own) => rows[n] \in own
      <4>1. rows \in [1..Cardinality(own) -> own] /\ Cardinality(own) \in Nat
        BY <1>5, FS_CardinalityType DEF Lists
      <4> QED
        BY <1>3, <4>1
    <3> QED
      BY <1>5, <3>1, <3>2
  <2> QED
    BY <2>2, <2>3, <2>4 DEF Ledger
<1>8. /\ DebitOf \in [Lines -> Int] /\ CreditOf \in [Lines -> Int]
      /\ Debits(own) = Sum(DebitOf, own) /\ Credits(own) = Sum(CreditOf, own)
  BY <1>5, WeightTypes, DebitsAreSums, CreditsAreSums
<1>9. PageDebits(a, ns) = Debits(own)
  <2>1. PICK v : v = DebitOfPage(a, ns)
    OBVIOUS
  <2>2. v = [n \in ns |-> v[n]]
    BY <2>1 DEF DebitOfPage
  <2>3. ASSUME NEW n \in ns
        PROVE  v[n] = Sum(DebitOf, PageLines(rows, n))
    <3>1. v[n] = Debits(PageLines(rows, n))
      BY <1>7, <2>1 DEF DebitOfPage
    <3>2. Debits(PageLines(rows, n)) = Sum(DebitOf, PageLines(rows, n))
      BY <1>5, <1>7, DebitsAreSums
    <3> QED
      BY <3>1, <3>2
  <2>4. PageWeights(v, DebitOf, rows, ns)
    BY <2>2, <2>3 DEF PageWeights
  <2>5. Sum(v, ns) = Sum(DebitOf, own)
    BY <1>3, <1>5, <1>8, <2>4, PagesSum
  <2> QED
    BY <1>6, <1>8, <2>1, <2>5, PageDebitsAreSums
<1>10. PageCredits(a, ns) = Credits(own)
  <2>1. PICK v : v = CreditOfPage(a, ns)
    OBVIOUS
  <2>2. v = [n \in ns |-> v[n]]
    BY <2>1 DEF CreditOfPage
  <2>3. ASSUME NEW n \in ns
        PROVE  v[n] = Sum(CreditOf, PageLines(rows, n))
    <3>1. v[n] = Credits(PageLines(rows, n))
      BY <1>7, <2>1 DEF CreditOfPage
    <3>2. Credits(PageLines(rows, n)) = Sum(CreditOf, PageLines(rows, n))
      BY <1>5, <1>7, CreditsAreSums
    <3> QED
      BY <3>1, <3>2
  <2>4. PageWeights(v, CreditOf, rows, ns)
    BY <2>2, <2>3 DEF PageWeights
  <2>5. Sum(v, ns) = Sum(CreditOf, own)
    BY <1>3, <1>5, <1>8, <2>4, PagesSum
  <2> QED
    BY <1>6, <1>8, <2>1, <2>5, PageCreditsAreSums
<1> QED
  BY <1>1, <1>4, <1>9, <1>10 DEF PageDebits, PageCredits

-----------------------------------------------------------------------------
(* Journals *)

DebitOfEntry(e)  == TotalDebit(entries[e].lines)
CreditOfEntry(e) == TotalCredit(entries[e].lines)
MovedBy(r, a)    == general_ledger(a, r[1], r[2], 1, 500).total_debit

\* The totals of some entries, and what the ledgers of some accounts move.
DebitsOfEntries(Es)  == MapThenSumSet(LAMBDA e : DebitOfEntry(e), Es)
CreditsOfEntries(Es) == MapThenSumSet(LAMBDA e : CreditOfEntry(e), Es)
LedgerDebits(r, A) == MapThenSumSet(LAMBDA a : MovedBy(r, a), A)

EntryDebit(Es)  == [e \in Es |-> DebitOfEntry(e)]
EntryCredit(Es) == [e \in Es |-> CreditOfEntry(e)]
LedgerDebit(r, A) == [a \in A |-> MovedBy(r, a)]

\* The total of the debits of some entries.
LEMMA EntryDebitsAreSums ==
    ASSUME NEW Es, IsFiniteSet(Es)
    PROVE  DebitsOfEntries(Es) = Sum(EntryDebit(Es), Es)
<1> DEFINE Fold(it) ==
      it = [s \in SUBSET Es |->
              IF s = {} THEN 0
              ELSE DebitOfEntry(CHOOSE x \in s : TRUE) + it[s \ {CHOOSE x \in s : TRUE}]]
<1>1. IsFiniteSet(Es)
  BY FS_Subset
<1>2. ASSUME NEW it
      PROVE  Fold(it) <=> IsFold(EntryDebit(Es), Es, it)
  <2>1. ASSUME NEW s \in SUBSET Es
        PROVE  Round(EntryDebit(Es), it, s)
                 = IF s = {} THEN 0
                   ELSE DebitOfEntry(CHOOSE x \in s : TRUE) + it[s \ {CHOOSE x \in s : TRUE}]
    <3>1. CASE s = {}
      BY <3>1 DEF Round
    <3>2. CASE s # {}
      <4>1. PICK c : c = CHOOSE x \in s : TRUE
        OBVIOUS
      <4>2. c \in Es
        BY <3>2, <4>1
      <4>3. EntryDebit(Es)[c] = DebitOfEntry(c)
        BY <4>2 DEF EntryDebit
      <4> QED
        BY <3>2, <4>1, <4>3 DEF Round
    <3> QED
      BY <3>1, <3>2
  <2> QED
    BY <2>1 DEF IsFold
<1>3. PICK it : it = CHOOSE any : Fold(any)
  OBVIOUS
<1>4. DebitsOfEntries(Es) = it[Es]
  BY <1>3 DEF DebitsOfEntries, MapThenSumSet, MapThenFoldSet
<1>5. PICK g : IsFold(EntryDebit(Es), Es, g)
  BY <1>1, FoldExists
<1>6. IsFold(EntryDebit(Es), Es, it)
  <2> HIDE DEF Fold
  <2>1. Fold(g)
    BY <1>2, <1>5
  <2>2. Fold(it)
    BY <1>3, <2>1
  <2> QED
    BY <1>2, <2>2
<1> QED
  BY <1>1, <1>4, <1>6, FoldSums

\* The total of the credits of some entries.
LEMMA EntryCreditsAreSums ==
    ASSUME NEW Es, IsFiniteSet(Es)
    PROVE  CreditsOfEntries(Es) = Sum(EntryCredit(Es), Es)
<1> DEFINE Fold(it) ==
      it = [s \in SUBSET Es |->
              IF s = {} THEN 0
              ELSE CreditOfEntry(CHOOSE x \in s : TRUE) + it[s \ {CHOOSE x \in s : TRUE}]]
<1>1. IsFiniteSet(Es)
  BY FS_Subset
<1>2. ASSUME NEW it
      PROVE  Fold(it) <=> IsFold(EntryCredit(Es), Es, it)
  <2>1. ASSUME NEW s \in SUBSET Es
        PROVE  Round(EntryCredit(Es), it, s)
                 = IF s = {} THEN 0
                   ELSE CreditOfEntry(CHOOSE x \in s : TRUE) + it[s \ {CHOOSE x \in s : TRUE}]
    <3>1. CASE s = {}
      BY <3>1 DEF Round
    <3>2. CASE s # {}
      <4>1. PICK c : c = CHOOSE x \in s : TRUE
        OBVIOUS
      <4>2. c \in Es
        BY <3>2, <4>1
      <4>3. EntryCredit(Es)[c] = CreditOfEntry(c)
        BY <4>2 DEF EntryCredit
      <4> QED
        BY <3>2, <4>1, <4>3 DEF Round
    <3> QED
      BY <3>1, <3>2
  <2> QED
    BY <2>1 DEF IsFold
<1>3. PICK it : it = CHOOSE any : Fold(any)
  OBVIOUS
<1>4. CreditsOfEntries(Es) = it[Es]
  BY <1>3 DEF CreditsOfEntries, MapThenSumSet, MapThenFoldSet
<1>5. PICK g : IsFold(EntryCredit(Es), Es, g)
  BY <1>1, FoldExists
<1>6. IsFold(EntryCredit(Es), Es, it)
  <2> HIDE DEF Fold
  <2>1. Fold(g)
    BY <1>2, <1>5
  <2>2. Fold(it)
    BY <1>3, <2>1
  <2> QED
    BY <1>2, <2>2
<1> QED
  BY <1>1, <1>4, <1>6, FoldSums

\* The total of what some ledgers move.
LEMMA LedgerDebitsAreSums ==
    ASSUME NEW r, NEW A, IsFiniteSet(A)
    PROVE  LedgerDebits(r, A) = Sum(LedgerDebit(r, A), A)
<1> DEFINE Fold(it) ==
      it = [s \in SUBSET A |->
              IF s = {} THEN 0
              ELSE MovedBy(r, CHOOSE x \in s : TRUE) + it[s \ {CHOOSE x \in s : TRUE}]]
<1>1. IsFiniteSet(A)
  BY FS_Subset
<1>2. ASSUME NEW it
      PROVE  Fold(it) <=> IsFold(LedgerDebit(r, A), A, it)
  <2>1. ASSUME NEW s \in SUBSET A
        PROVE  Round(LedgerDebit(r, A), it, s)
                 = IF s = {} THEN 0
                   ELSE MovedBy(r, CHOOSE x \in s : TRUE) + it[s \ {CHOOSE x \in s : TRUE}]
    <3>1. CASE s = {}
      BY <3>1 DEF Round
    <3>2. CASE s # {}
      <4>1. PICK c : c = CHOOSE x \in s : TRUE
        OBVIOUS
      <4>2. c \in A
        BY <3>2, <4>1
      <4>3. LedgerDebit(r, A)[c] = MovedBy(r, c)
        BY <4>2 DEF LedgerDebit
      <4> QED
        BY <3>2, <4>1, <4>3 DEF Round
    <3> QED
      BY <3>1, <3>2
  <2> QED
    BY <2>1 DEF IsFold
<1>3. PICK it : it = CHOOSE any : Fold(any)
  OBVIOUS
<1>4. LedgerDebits(r, A) = it[A]
  BY <1>3 DEF LedgerDebits, MapThenSumSet, MapThenFoldSet
<1>5. PICK g : IsFold(LedgerDebit(r, A), A, g)
  BY <1>1, FoldExists
<1>6. IsFold(LedgerDebit(r, A), A, it)
  <2> HIDE DEF Fold
  <2>1. Fold(g)
    BY <1>2, <1>5
  <2>2. Fold(it)
    BY <1>3, <2>1
  <2> QED
    BY <1>2, <2>2
<1> QED
  BY <1>1, <1>4, <1>6, FoldSums

\* The two totals of an entry are what its lines weigh.
LEMMA EntryWeights ==
    ASSUME BooksInv, NEW e \in Recorded
    PROVE  /\ DebitOfEntry(e) = Sum(DebitOf, EntryLines(e)) /\ DebitOfEntry(e) \in Int
           /\ DebitOfEntry(e) = CreditOfEntry(e)
<1>1. EntryLines(e) \in SUBSET Lines /\ IsFiniteSet(EntryLines(e)) /\ LinesOK
  BY BooksLines
<1>2. Sum(DebitOf, EntryLines(e)) \in Int
  BY <1>1, WeightTypes, SumType
<1>3. PICK n, m : n = DebitOfEntry(e) /\ m = CreditOfEntry(e)
  OBVIOUS
<1>4. n = Sum(DebitOf, EntryLines(e)) /\ n = m
  BY <1>3, EntrySides DEF DebitOfEntry, CreditOfEntry
<1> QED
  BY <1>2, <1>3, <1>4

\* The totals of entries are numbers.
LEMMA EntryWeightTypes ==
    ASSUME BooksInv, NEW Es \in SUBSET Recorded
    PROVE  EntryDebit(Es) \in [Es -> Int] /\ EntryCredit(Es) \in [Es -> Int]
<1>1. ASSUME NEW e \in Es
      PROVE  DebitOfEntry(e) \in Int /\ CreditOfEntry(e) \in Int
  BY EntryWeights
<1> QED
  BY <1>1 DEF EntryDebit, EntryCredit

\* Entries debit what their lines do, and credit as much.
LEMMA EntriesBalance ==
    ASSUME BooksInv, NEW Es \in SUBSET Recorded
    PROVE  /\ DebitsOfEntries(Es) = CreditsOfEntries(Es)
           /\ DebitsOfEntries(Es) = Sum(EntryDebit(Es), Es)
           /\ DebitsOfEntries(Es) \in Int
           /\ DebitsOfEntries(Es) = Debits({l \in Lines : l[1] \in Es})
<1>1. LinesOK /\ IsFiniteSet(Es) /\ IsFiniteSet(Lines)
  BY BooksLines, FS_Subset DEF BooksInv, LinesOK
<1>2. PICK v, u : v = EntryDebit(Es) /\ u = EntryCredit(Es)
  OBVIOUS
<1>3. v \in [Es -> Int] /\ u \in [Es -> Int]
  BY <1>2, EntryWeightTypes
<1>4. DebitsOfEntries(Es) = Sum(v, Es) /\ CreditsOfEntries(Es) = Sum(u, Es)
  BY <1>1, <1>2, EntryDebitsAreSums, EntryCreditsAreSums
<1>5. Sum(v, Es) = Sum(u, Es)
  <2>1. \A e \in Es : v[e] = u[e]
    BY <1>2, EntryWeights DEF EntryDebit, EntryCredit
  <2>2. PICK D, E : D = Es /\ E = Es
    OBVIOUS
  <2>3. Es \in SUBSET (D \cap E)
    BY <2>2
  <2> QED
    BY <1>1, <1>3, <2>1, <2>2, <2>3, SumSame
<1>6. Sum(v, Es) \in Int
  BY <1>1, <1>3, SumType
<1>7. ASSUME NEW e \in Es
      PROVE  v[e] = Sum(DebitOf, {l \in Lines : First[l] = e})
  <2>1. {l \in Lines : First[l] = e} = EntryLines(e)
    <3>1. ASSUME NEW l \in Lines
          PROVE  First[l] = e <=> l \in EntryLines(e)
      BY BooksLines DEF First, EntryLines
    <3>2. EntryLines(e) \subseteq Lines
      BY BooksLines
    <3> QED
      BY <3>1, <3>2
  <2>2. v[e] = DebitOfEntry(e)
    BY <1>2 DEF EntryDebit
  <2> QED
    BY <2>1, <2>2, EntryWeights
<1>8. GroupSums(DebitOf, Lines, First, Es, v)
  <2>1. DebitOf \in [Lines -> Int] /\ DOMAIN DebitOf = Lines
    BY <1>1, WeightTypes
  <2> QED
    BY <1>1, <1>3, <1>7, <2>1 DEF GroupSums
<1>9. PICK ls \in SUBSET Lines : ls = {l \in Lines : l[1] \in Es}
  OBVIOUS
<1>10. Sum(DebitOf, ls) = Sum(v, Es)
  <2>1. ls = Grouped(Lines, First, Es)
    BY <1>9 DEF Grouped, First
  <2> QED
    BY <1>8, <2>1, SumGroups
<1>11. Debits(ls) = Sum(DebitOf, ls)
  BY <1>1, DebitsAreSums
<1> QED
  BY <1>2, <1>4, <1>5, <1>6, <1>9, <1>10, <1>11

\* What the ledgers of all accounts move is what moved.
LEMMA DebitsByAccount ==
    ASSUME LinesOK, IsFiniteSet(Opened), NEW ls \in SUBSET Lines,
           NEW v, v = [a \in Opened |-> Debits(On({a}, ls))]
    PROVE  Sum(v, Opened) = Debits(ls)
<1>1. IsFiniteSet(ls) /\ IsFiniteSet(Lines) /\ DebitOf \in [Lines -> Int] /\ DOMAIN DebitOf = Lines
  BY FS_Subset, WeightTypes DEF LinesOK
<1>2. ls = Grouped(ls, AccountOf, Opened)
  BY DEF Grouped, AccountOf, LinesOK
<1>3. ASSUME NEW a \in Opened
      PROVE  v[a] = Sum(DebitOf, {l \in ls : AccountOf[l] = a}) /\ v[a] \in Int
  <2>1. PICK own \in SUBSET Lines : own = On({a}, ls)
    BY DEF On
  <2>2. own = {l \in ls : AccountOf[l] = a}
    BY <2>1 DEF On, AccountOf
  <2>3. Debits(own) = Sum(DebitOf, own) /\ Debits(own) \in Int
    BY <1>1, DebitsAreSums, NetsAreSums
  <2>4. v[a] = Debits(own)
    BY <2>1
  <2> QED
    BY <2>2, <2>3, <2>4
<1>4. v \in [Opened -> Int]
  <2>1. DOMAIN v = Opened /\ v = [a \in Opened |-> v[a]]
    OBVIOUS
  <2> QED
    BY <1>3, <2>1
<1>5. GroupSums(DebitOf, ls, AccountOf, Opened, v)
  BY <1>1, <1>3, <1>4 DEF GroupSums
<1>6. Sum(DebitOf, Grouped(ls, AccountOf, Opened)) = Sum(v, Opened)
  BY <1>5, SumGroups
<1>7. Debits(ls) = Sum(DebitOf, ls)
  BY <1>1, DebitsAreSums
<1> QED
  BY <1>2, <1>6, <1>7

\* The ledgers of all accounts move what was posted in the window.
LEMMA LedgersMove ==
    ASSUME BooksInv, NumbersInv, InOnePage, NEW r
    PROVE  LedgerDebits(r, Opened) = Debits(Within(r[1], r[2]))
<1>1. PICK v : v = LedgerDebit(r, Opened)
  OBVIOUS
<1>2. LinesOK /\ IsFiniteSet(Opened) /\ Within(r[1], r[2]) \in SUBSET Lines
  BY BooksLines, Windows DEF BooksInv
<1>3. ASSUME NEW a \in Opened
      PROVE  v[a] = Debits(On({a}, Within(r[1], r[2])))
  <2>1. Cardinality(On({a}, Lines)) <= 500
    BY DEF InOnePage
  <2>2. Told(general_ledger(a, r[1], r[2], 1, 500), a, r[1], On({a}, Within(r[1], r[2])))
    BY <2>1, LedgerIs
  <2> QED
    BY <1>1, <2>2 DEF Told, LedgerDebit, MovedBy
<1>4. v = [a \in Opened |-> Debits(On({a}, Within(r[1], r[2])))]
  <2>1. v = [a \in Opened |-> v[a]]
    BY <1>1 DEF LedgerDebit
  <2> QED
    BY <1>3, <2>1
<1>5. Sum(v, Opened) = Debits(Within(r[1], r[2]))
  BY <1>2, <1>4, DebitsByAccount
<1> QED
  BY <1>1, <1>2, <1>5, LedgerDebitsAreSums

\* The entries of a window, and those of them in a journal.
PostedIn(s, d) ==
    {e \in Recorded : entries[e].status = "POSTED" /\ entries[e].date \in s..d}
InJournal(j, s, d) ==
    {e \in Recorded : /\ entries[e].journal = j
                      /\ entries[e].status = "POSTED"
                      /\ entries[e].date \in s..d}
JournalOf == [e \in Recorded |-> entries[e].journal]

\* A row of the centralizer totals the entries of its journal.
LEMMA JournalRows ==
    ASSUME NEW s, NEW d, NEW rows, rows = get_journal_centralizer(s, d)
    PROVE  /\ DOMAIN rows = Journals
           /\ \A j \in Journals :
                 /\ rows[j].total_debit = DebitsOfEntries(InJournal(j, s, d))
                 /\ rows[j].total_credit = CreditsOfEntries(InJournal(j, s, d))
BY DEF get_journal_centralizer, DebitsOfEntries, CreditsOfEntries, InJournal,
       DebitOfEntry, CreditOfEntry

\* The journals move together what was posted in the window.
LEMMA JournalsMove ==
    ASSUME BooksInv, NEW s, NEW d, NEW rows, rows = get_journal_centralizer(s, d)
    PROVE  TotalOf(rows, "total_debit") = Debits(Within(s, d))
<1>1. PICK Es \in SUBSET Recorded : Es = PostedIn(s, d)
  BY DEF PostedIn
<1>2. PICK v, w : v = Column(rows, "total_debit") /\ w = EntryDebit(Es)
  OBVIOUS
<1>3. IsFiniteSet(Es) /\ IsFiniteSet(Journals) /\ w \in [Es -> Int] /\ DOMAIN w = Es
  BY <1>2, FS_Subset, RankAssumption, EntryWeightTypes DEF BooksInv
<1>4. DOMAIN rows = Journals /\ v = [j \in Journals |-> v[j]]
  BY <1>2, JournalRows DEF Column
<1>5. ASSUME NEW j \in Journals
      PROVE  v[j] = Sum(w, {e \in Es : JournalOf[e] = j}) /\ v[j] \in Int
  <2>1. PICK own \in SUBSET Recorded : own = InJournal(j, s, d)
    BY DEF InJournal
  <2>2. own = {e \in Es : JournalOf[e] = j} /\ own \in SUBSET Es
    BY <1>1, <2>1 DEF PostedIn, InJournal, JournalOf
  <2>3. v[j] = DebitsOfEntries(own)
    <3>1. v[j] = rows[j].total_debit
      BY <1>2, <1>4 DEF Column
    <3>2. rows[j].total_debit = DebitsOfEntries(InJournal(j, s, d))
      BY JournalRows
    <3> QED
      BY <2>1, <3>1, <3>2
  <2>4. PICK u : u = EntryDebit(own)
    OBVIOUS
  <2>5. DebitsOfEntries(own) = Sum(u, own) /\ DebitsOfEntries(own) \in Int
    BY <2>4, EntriesBalance
  <2>6. Sum(u, own) = Sum(w, own)
    <3>1. u \in [own -> Int]
      BY <2>4, EntryWeightTypes
    <3>2. own \in SUBSET (own \cap Es) /\ IsFiniteSet(own)
      BY <1>3, <2>2, FS_Subset
    <3>3. \A e \in own : u[e] = w[e]
      BY <1>2, <2>2, <2>4 DEF EntryDebit
    <3> QED
      BY <1>3, <3>1, <3>2, <3>3, SumSame
  <2> QED
    BY <2>2, <2>3, <2>5, <2>6
<1>6. v \in [Journals -> Int]
  BY <1>4, <1>5
<1>7. GroupSums(w, Es, JournalOf, Journals, v)
  BY <1>3, <1>5, <1>6 DEF GroupSums
<1>8. Es = Grouped(Es, JournalOf, Journals)
  <2>1. \A e \in Es : JournalOf[e] \in Journals
    <3>1. ASSUME NEW e \in Es
          PROVE  JournalOf[e] \in Journals
      <4>1. JournalOf[e] = entries[e].journal
        BY DEF JournalOf
      <4>2. entries[e] \in Row
        BY RowTypes
      <4> QED
        BY <4>1, <4>2 DEF Row
    <3> QED
      BY <3>1
  <2> QED
    BY <2>1 DEF Grouped
<1>9. Sum(w, Es) = Sum(v, Journals)
  BY <1>7, <1>8, SumGroups
<1>10. Within(s, d) = {l \in Lines : l[1] \in Es}
  BY <1>1, BooksLines DEF PostedIn, Within, PostedLines, DateOf
<1>11. Sum(w, Es) = Debits(Within(s, d))
  <2>1. DebitsOfEntries(Es) = Sum(w, Es) /\ DebitsOfEntries(Es) = Debits({l \in Lines : l[1] \in Es})
    BY <1>2, EntriesBalance
  <2> QED
    BY <1>10, <2>1
<1>12. TotalOf(rows, "total_debit") = Sum(v, Journals)
  BY <1>2, <1>3, <1>4, ColumnsAreSums
<1> QED
  BY <1>9, <1>11, <1>12

\* Journals balance, and match the ledgers.
LEMMA JournalsBalance == BooksInv /\ NumbersInv /\ InOnePage => JournalsMatchLedgers
<1> SUFFICES ASSUME BooksInv, NumbersInv, InOnePage, NEW r \in Ranges
             PROVE  LET rows == get_journal_centralizer(r[1], r[2])
                        grand == journal_centralizer(r[1], r[2])
                        ledger(a) == general_ledger(a, r[1], r[2], 1, 500)
                    IN  /\ \A j \in Journals : rows[j].total_debit = rows[j].total_credit
                        /\ grand.grand_total_debit
                             = MapThenSumSet(LAMBDA a : ledger(a).total_debit, Opened)
  BY DEF JournalsMatchLedgers
<1>1. PICK rows : rows = get_journal_centralizer(r[1], r[2])
  OBVIOUS
<1>2. ASSUME NEW j \in Journals
      PROVE  rows[j].total_debit = rows[j].total_credit
  <2>1. PICK own \in SUBSET Recorded : own = InJournal(j, r[1], r[2])
    BY DEF InJournal
  <2>2. DebitsOfEntries(own) = CreditsOfEntries(own)
    BY EntriesBalance
  <2>3. /\ rows[j].total_debit = DebitsOfEntries(InJournal(j, r[1], r[2]))
        /\ rows[j].total_credit = CreditsOfEntries(InJournal(j, r[1], r[2]))
    BY <1>1, JournalRows
  <2> QED
    BY <2>1, <2>2, <2>3
<1>3. journal_centralizer(r[1], r[2]).grand_total_debit
        = TotalOf(get_journal_centralizer(r[1], r[2]), "total_debit")
  BY DEF journal_centralizer, TotalOf
<1>4. journal_centralizer(r[1], r[2]).grand_total_debit = LedgerDebits(r, Opened)
  BY <1>1, <1>3, JournalsMove, LedgersMove
<1> QED
  BY <1>1, <1>2, <1>4 DEF LedgerDebits, MovedBy

\* However entries are recorded, posted and reversed and accounts opened, retired and
\* given children, statements taken by different queries of the two services agree.
THEOREM Statements == ReportSpec => []StatementsAgree
<1>1. BooksInv /\ NumbersInv => StatementsAgree
  BY BalancesForward, LedgersBalance, PagesBalance, JournalsBalance DEF StatementsAgree
<1> QED
  BY <1>1, BooksSound, NumbersSound, PTL

=============================================================================
