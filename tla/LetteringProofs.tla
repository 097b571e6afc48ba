-------------------------- MODULE LetteringProofs --------------------------
(***************************************************************************)
(* Lettering, for any number of requests, lines and codes: types, and that *)
(* requests whose line sets overlap never wait for each other in a circle, *)
(* and that a group can be unbalanced only by taking over lettered lines.  *)
(***************************************************************************)
EXTENDS Lettering, FiniteSetTheorems, WellFoundedInduction, TLAPS

-----------------------------------------------------------------------------
(* Least and greatest elements *)

\* Min is what it says on every set of naturals that is not empty.
LEMMA MinIsLeast ==
    ASSUME NEW S \in SUBSET Nat, S # {}
    PROVE  Min(S) \in S /\ \A x \in S : Min(S) <= x
<1>1. PICK x \in S : \A y \in S : ~(<<y, x>> \in OpToRel(<, Nat))
  BY NatLessThanWellFounded, WFMin
<1>2. \A y \in S : x <= y
  <2> SUFFICES ASSUME NEW y \in S PROVE x <= y
    OBVIOUS
  <2>1. ~(y < x)
    BY <1>1 DEF OpToRel
  <2> QED
    BY <2>1
<1> QED
  BY <1>2 DEF Min

Above(S, x) == {y \in S : x < y}

\* A finite set of naturals that is not empty has an element no other exceeds:
\* one with the fewest elements above it.
LEMMA Greatest ==
    ASSUME NEW S \in SUBSET Nat, IsFiniteSet(S), S # {}
    PROVE  \E x \in S : \A y \in S : y <= x
<1> DEFINE Sizes == {Cardinality(Above(S, x)) : x \in S}
<1>1. \A x \in S : IsFiniteSet(Above(S, x)) /\ Cardinality(Above(S, x)) \in Nat
  BY FS_Subset, FS_CardinalityType DEF Above
<1>2. Sizes \in SUBSET Nat /\ Sizes # {}
  BY <1>1
<1>3. Min(Sizes) \in Sizes /\ \A n \in Sizes : Min(Sizes) <= n
  <2> HIDE DEF Sizes
  <2> QED
    BY <1>2, MinIsLeast
<1>4. PICK x \in S : \A y \in S : Cardinality(Above(S, x)) <= Cardinality(Above(S, y))
  BY <1>3
<1>5. ASSUME NEW y \in S, x < y
      PROVE  FALSE
  <2>1. Above(S, y) \subseteq Above(S, x) /\ y \in Above(S, x) /\ y \notin Above(S, y)
    <3>1. \A z \in S : y < z => x < z
      BY <1>5
    <3>2. ~(y < y)
      BY <1>5
    <3>3. Above(S, y) \subseteq Above(S, x)
      BY <3>1 DEF Above
    <3>4. y \in Above(S, x)
      BY <1>5 DEF Above
    <3>5. y \notin Above(S, y)
      BY <3>2 DEF Above
    <3> QED
      BY <3>3, <3>4, <3>5
  <2>2. Cardinality(Above(S, y)) <= Cardinality(Above(S, x))
        /\ (Cardinality(Above(S, x)) = Cardinality(Above(S, y)) => Above(S, x) = Above(S, y))
    BY <1>1, <2>1, FS_Subset
  <2>3. Cardinality(Above(S, x)) <= Cardinality(Above(S, y))
    BY <1>4
  <2>4. Cardinality(Above(S, x)) = Cardinality(Above(S, y))
    BY <2>2, <2>3, <1>1
  <2> QED
    BY <2>1, <2>2, <2>4
<1> QED
  BY <1>5

-----------------------------------------------------------------------------
(* The inductive invariant *)

\* A request updates its lines from the least up, and no row is held twice.
Ascending == \A r \in Requests : \A l \in held[r], m \in todo[r] : l < m
HeldOnce  == \A r, q \in Requests : r # q => held[r] \cap held[q] = {}

IInv == TypeOK /\ Ascending /\ HeldOnce

LEMMA InitInv == Init => IInv
BY DEF Init, IInv, TypeOK, Ascending, HeldOnce

LEMMA ReadStep ==
    ASSUME IInv, NEW r \in Requests, NEW ls \in SUBSET Lines, NEW c \in Codes,
           ReadLines(r, ls, c)
    PROVE  IInv'
<1>1. held[r] = {}
  BY DEF IInv, TypeOK, ReadLines
<1>2. TypeOK'
  BY DEF IInv, TypeOK, ReadLines
<1>3. Ascending'
  BY <1>1 DEF IInv, TypeOK, Ascending, ReadLines
<1>4. HeldOnce'
  BY DEF IInv, HeldOnce, ReadLines
<1> QED
  BY <1>2, <1>3, <1>4 DEF IInv

LEMMA UpdateStep ==
    ASSUME IInv, NEW r \in Requests, UpdateLine(r)
    PROVE  IInv'
<1> DEFINE l == Min(todo[r])
<1>1. todo[r] \in SUBSET Nat /\ todo[r] \subseteq Lines /\ todo[r] # {}
  BY LineAssumption DEF IInv, TypeOK, UpdateLine
<1>2. l \in todo[r] /\ \A m \in todo[r] : l <= m
  BY <1>1, MinIsLeast
<1>3. /\ held' = [held EXCEPT ![r] = @ \cup {l}]
      /\ todo' = [todo EXCEPT ![r] = @ \ {l}]
      /\ RowFree(r, l) /\ pc[r] = "flush"
      /\ UNCHANGED <<code, pc, wanted>>
  BY DEF UpdateLine
<1> HIDE DEF l
<1>4. TypeOK'
  BY <1>1, <1>2, <1>3 DEF IInv, TypeOK
<1>5. Ascending'
  <2> SUFFICES ASSUME NEW q \in Requests, NEW k \in held'[q], NEW m \in todo'[q]
               PROVE  k < m
    BY DEF Ascending
  <2>1. CASE q # r
    BY <2>1, <1>3 DEF IInv, TypeOK, Ascending
  <2>2. CASE q = r
    <3>1. held'[r] = held[r] \cup {l} /\ todo'[r] = todo[r] \ {l}
      BY <1>3 DEF IInv, TypeOK
    <3>2. CASE k \in held[r]
      BY <2>2, <3>1, <3>2 DEF IInv, Ascending
    <3>3. CASE k = l
      BY <2>2, <3>1, <3>3, <1>1, <1>2
    <3> QED
      BY <2>2, <3>1, <3>2, <3>3
  <2> QED
    BY <2>1, <2>2
<1>6. HeldOnce'
  BY <1>3 DEF IInv, TypeOK, HeldOnce, RowFree
<1> QED
  BY <1>4, <1>5, <1>6 DEF IInv

LEMMA ReleaseStep ==
    ASSUME IInv, NEW r \in Requests, Release(r),
           code' \in [Lines -> Codes \cup {NoCode}]
    PROVE  IInv'
<1>1. TypeOK'
  BY DEF IInv, TypeOK, Release
<1>2. Ascending'
  BY DEF IInv, TypeOK, Ascending, Release
<1>3. HeldOnce'
  BY DEF IInv, TypeOK, HeldOnce, Release
<1> QED
  BY <1>1, <1>2, <1>3 DEF IInv

LEMMA StepInv == IInv /\ [Next]_vars => IInv'
<1> SUFFICES ASSUME IInv, [Next]_vars PROVE IInv'
  OBVIOUS
<1>1. CASE UNCHANGED vars
  BY <1>1 DEF vars, IInv, TypeOK, Ascending, HeldOnce
<1>2. ASSUME NEW r \in Requests, Commit(r)
      PROVE  IInv'
  <2>1. code' \in [Lines -> Codes \cup {NoCode}]
    BY <1>2 DEF Commit, IInv, TypeOK
  <2> QED
    BY <1>2, <2>1, ReleaseStep DEF Commit
<1>3. ASSUME NEW r \in Requests, Crash(r)
      PROVE  IInv'
  BY <1>3, ReleaseStep DEF Crash, IInv, TypeOK
<1> QED
  BY <1>1, <1>2, <1>3, ReadStep, UpdateStep DEF Next

LEMMA Invariant == Spec => []IInv
<1> QED
  BY InitInv, StepInv, PTL DEF Spec

\* Types: every variable keeps its type, and a request between two calls of
\* letter_lines holds no row.
THEOREM TypeCorrect == Spec => []TypeOK
<1>1. IInv => TypeOK
  BY DEF IInv
<1> QED
  BY <1>1, Invariant, PTL

-----------------------------------------------------------------------------
(* No circle of requests *)

LEMMA Progress == IInv => SomeoneProceeds
<1> SUFFICES ASSUME IInv, Flushing # {},
                    \A r \in Flushing : todo[r] # {} /\ ~RowFree(r, Min(todo[r]))
             PROVE  FALSE
  BY DEF SomeoneProceeds
<1> DEFINE Next1 == {Min(todo[r]) : r \in Flushing}
<1>1. ASSUME NEW r \in Flushing
      PROVE  /\ r \in Requests /\ todo[r] \in SUBSET Nat /\ todo[r] \subseteq Lines
             /\ Min(todo[r]) \in todo[r]
  BY LineAssumption, MinIsLeast DEF Flushing, IInv, TypeOK
<1>2. Next1 \subseteq Lines /\ Next1 # {}
  BY <1>1
<1>3. Next1 \in SUBSET Nat /\ IsFiniteSet(Next1)
  BY <1>2, LineAssumption, FS_Subset
<1>4. PICK x \in Next1 : \A y \in Next1 : y <= x
  <2> HIDE DEF Next1
  <2> QED
    BY <1>2, <1>3, Greatest
<1>5. PICK r \in Flushing : x = Min(todo[r])
  BY <1>4
<1>6. PICK q \in Requests \ {r} : x \in held[q]
  BY <1>5 DEF RowFree
<1>7. q \in Flushing
  BY <1>6 DEF Flushing, IInv, TypeOK
<1>8. Min(todo[q]) \in Next1 /\ Min(todo[q]) \in todo[q]
  BY <1>1, <1>7
<1>9. x < Min(todo[q])
  BY <1>6, <1>8 DEF IInv, Ascending
<1>10. Min(todo[q]) <= x /\ x \in Nat /\ Min(todo[q]) \in Nat
  BY <1>3, <1>4, <1>8
<1> QED
  BY <1>9, <1>10

\* No deadlock: whatever lines concurrent calls of letter_lines were given, one
\* of those under way at least can go on, because COMMIT flushes the lines in the
\* order of their keys.
THEOREM NoDeadlock == Spec => []SomeoneProceeds
BY Progress, Invariant, PTL

-----------------------------------------------------------------------------
(* Totals over finite sets of lines, by induction on the set: a set without *)
(* the property that has no smaller one does not exist.                     *)

\* Induction over the subsets of a finite set, F being those with the property: a
\* set has it if all that are smaller have it.
LEMMA SubsetInduction ==
    ASSUME NEW S, IsFiniteSet(S), NEW F,
           \A T \in SUBSET S : (\A U \in SUBSET T : U # T => U \in F) => T \in F
    PROVE  \A T \in SUBSET S : T \in F
<1>1. PICK B : B = {T \in SUBSET S : T \notin F}
  OBVIOUS
<1>2. ASSUME B # {} PROVE FALSE
  <2>1. B \subseteq FiniteSubsetsOf(S)
    BY <1>1, FS_Subset DEF FiniteSubsetsOf
  <2>2. PICK T \in B : \A U \in B : ~(<<U, T>> \in StrictSubsetOrdering(S))
    BY <1>2, <2>1, FS_StrictSubsetOrderingWellFounded, WFMin
  <2>3. T \in SUBSET S /\ T \notin F
    BY <1>1
  <2>4. ASSUME NEW U \in SUBSET T, U # T
        PROVE  U \in F
    <3>1. U \in SUBSET S /\ T \in SUBSET S
      BY <2>3
    <3>2. <<U, T>> \in StrictSubsetOrdering(S)
      BY <2>4, <3>1 DEF StrictSubsetOrdering
    <3> QED
      BY <1>1, <2>2, <3>1, <3>2
  <2> QED
    BY <2>3, <2>4
<1> QED
  BY <1>1, <1>2

\* Element by element.
LEMMA SetInduction ==
    ASSUME NEW S, IsFiniteSet(S), NEW F, {} \in F,
           \A T \in SUBSET S : \A x \in S \ T : T \in F => T \cup {x} \in F
    PROVE  S \in F
<1>1. ASSUME NEW T \in SUBSET S, \A U \in SUBSET T : U # T => U \in F
      PROVE  T \in F
  <2>1. CASE T = {}
    BY <2>1
  <2>2. CASE T # {}
    <3>1. PICK x \in T : TRUE
      BY <2>2
    <3>2. PICK U : U = T \ {x}
      OBVIOUS
    <3>3. U \in SUBSET S /\ x \in S \ U /\ U \cup {x} = T /\ U \in F
      BY <1>1, <3>1, <3>2
    <3> QED
      BY <3>3
  <2> QED
    BY <2>1, <2>2
<1> QED
  BY <1>1, SubsetInduction

\* One round of the fold, and what the fold is.
Round(w, it, s) == IF s = {} THEN 0
                   ELSE w[CHOOSE x \in s : TRUE] + it[s \ {CHOOSE x \in s : TRUE}]

IsFold(w, S, it) == it = [s \in SUBSET S |-> Round(w, it, s)]

\* A total is a fold at the whole set.
LEMMA TotalIs == \A w, S : Total(w, S) = (CHOOSE it : IsFold(w, S, it))[S]
BY DEF Total, MapThenSumSet, MapThenFoldSet, IsFold, Round

UpTo(S, n) == {s \in SUBSET S : Cardinality(s) <= n}
PartFolds(w, S, n, it) == it = [s \in UpTo(S, n) |-> Round(w, it, s)]

\* The folds over n elements and fewer exist, for every n.
LEMMA PartExists ==
    ASSUME NEW w, NEW S, IsFiniteSet(S), NEW n \in Nat
    PROVE  \E it : PartFolds(w, S, n, it)
<1>1. PICK B : B = {m \in Nat : ~\E it : PartFolds(w, S, m, it)}
  OBVIOUS
<1> SUFFICES ASSUME n \in B PROVE FALSE
  BY <1>1
<1>2. PICK m \in B : \A k \in B : ~(<<k, m>> \in OpToRel(<, Nat))
  BY <1>1, NatLessThanWellFounded, WFMin
<1>3. m \in Nat /\ \A k \in Nat : k < m => k \notin B
  BY <1>1, <1>2 DEF OpToRel
<1>4. \A s \in SUBSET S : IsFiniteSet(s) /\ Cardinality(s) \in Nat
  BY FS_Subset, FS_CardinalityType
<1>5. CASE m = 0
  <2>1. PICK it : it = [s \in UpTo(S, 0) |-> 0]
    OBVIOUS
  <2>2. \A s \in UpTo(S, 0) : s = {}
    BY <1>4, FS_EmptySet DEF UpTo
  <2>3. \A s \in UpTo(S, 0) : Round(w, it, s) = 0
    BY <2>2 DEF Round
  <2>4. PartFolds(w, S, 0, it)
    BY <2>1, <2>3 DEF PartFolds
  <2> QED
    BY <1>1, <1>2, <1>5, <2>4
<1>6. CASE m # 0
  <2>1. PICK k \in Nat : k = m - 1
    BY <1>3, <1>6
  <2>2. PICK g : PartFolds(w, S, k, g)
    BY <1>1, <1>3, <2>1
  <2>3. PICK h : h = [s \in UpTo(S, m) |-> Round(w, g, s)]
    OBVIOUS
  <2>4. ASSUME NEW s \in UpTo(S, m)
        PROVE  Round(w, h, s) = Round(w, g, s)
    <3>1. CASE s = {}
      BY <3>1 DEF Round
    <3>2. CASE s # {}
      <4>1. PICK x : x = CHOOSE y \in s : TRUE
        OBVIOUS
      <4>2. x \in s
        BY <3>2, <4>1
      <4>3. PICK t : t = s \ {x}
        OBVIOUS
      <4>4. Cardinality(t) = Cardinality(s) - 1 /\ t \in SUBSET S
        BY <1>4, <4>2, <4>3, FS_RemoveElement DEF UpTo
      <4>5. t \in UpTo(S, k) /\ t \in UpTo(S, m)
        BY <1>3, <1>4, <2>1, <4>4 DEF UpTo
      <4>6. h[t] = g[t]
        <5>1. h[t] = Round(w, g, t)
          BY <2>3, <4>5
        <5>2. g[t] = Round(w, g, t)
          BY <2>2, <4>5 DEF PartFolds
        <5> QED
          BY <5>1, <5>2
      <4> QED
        BY <3>2, <4>1, <4>3, <4>6 DEF Round
    <3> QED
      BY <3>1, <3>2
  <2>5. h = [s \in UpTo(S, m) |-> Round(w, h, s)]
    BY <2>3, <2>4
  <2>6. PartFolds(w, S, m, h)
    BY <2>5 DEF PartFolds
  <2> QED
    BY <1>1, <1>2, <2>6
<1> QED
  BY <1>5, <1>6

\* Every finite set has a fold, whose value is the total.
LEMMA FoldExists ==
    ASSUME NEW w, NEW S, IsFiniteSet(S)
    PROVE  \E it : IsFold(w, S, it) /\ Total(w, S) = it[S]
<1>1. Cardinality(S) \in Nat
  BY FS_CardinalityType
<1>2. UpTo(S, Cardinality(S)) = SUBSET S
  BY FS_Subset DEF UpTo
<1>3. PICK g : PartFolds(w, S, Cardinality(S), g)
  BY <1>1, PartExists
<1>4. IsFold(w, S, g)
  BY <1>2, <1>3 DEF PartFolds, IsFold
<1> QED
  BY <1>4, TotalIs

\* Two folds agree where both are defined.
LEMMA FoldsAgree ==
    ASSUME NEW w, NEW S, IsFiniteSet(S), NEW f, IsFold(w, S, f),
           NEW T \in SUBSET S, NEW g, IsFold(w, T, g)
    PROVE  f[T] = g[T]
<1>1. PICK F : F = {s \in SUBSET T : f[s] = g[s]}
  OBVIOUS
<1>2. IsFiniteSet(T)
  BY FS_Subset
<1>3. ASSUME NEW s \in SUBSET T, \A u \in SUBSET s : u # s => u \in F
      PROVE  s \in F
  <2>1. f[s] = Round(w, f, s) /\ g[s] = Round(w, g, s)
    BY DEF IsFold
  <2>2. CASE s = {}
    BY <1>1, <2>1, <2>2 DEF Round
  <2>3. CASE s # {}
    <3>1. PICK x : x = CHOOSE y \in s : TRUE
      OBVIOUS
    <3>2. x \in s
      BY <2>3, <3>1
    <3>3. PICK t : t = s \ {x}
      OBVIOUS
    <3>4. f[t] = g[t]
      BY <1>1, <1>3, <3>2, <3>3
    <3>5. f[s] = w[x] + f[t] /\ g[s] = w[x] + g[t]
      BY <2>1, <2>3, <3>1, <3>3 DEF Round
    <3> QED
      BY <1>1, <3>4, <3>5
  <2> QED
    BY <2>2, <2>3
<1>4. T \in F
  BY <1>2, <1>3, SubsetInduction
<1> QED
  BY <1>1, <1>4

\* A fold over S gives the sum over each subset.
LEMMA FoldSums ==
    ASSUME NEW w, NEW S, IsFiniteSet(S), NEW f, IsFold(w, S, f), NEW T \in SUBSET S
    PROVE  f[T] = Total(w, T)
<1>1. IsFiniteSet(T)
  BY FS_Subset
<1>2. PICK g : IsFold(w, T, g) /\ Total(w, T) = g[T]
  BY <1>1, FoldExists
<1> QED
  BY <1>2, FoldsAgree

\* Nothing totals 0.
LEMMA TotalEmpty == \A w : Total(w, {}) = 0
<1> SUFFICES ASSUME NEW w PROVE Total(w, {}) = 0
  OBVIOUS
<1>1. PICK f : IsFold(w, {}, f) /\ Total(w, {}) = f[{}]
  BY FoldExists, FS_EmptySet
<1> QED
  BY <1>1 DEF IsFold, Round

\* The round of the definition.
LEMMA TotalChosen ==
    ASSUME NEW w, NEW S, IsFiniteSet(S), S # {}
    PROVE  \E x \in S : Total(w, S) = w[x] + Total(w, S \ {x})
<1>1. PICK x : x = CHOOSE y \in S : TRUE
  OBVIOUS
<1>2. x \in S
  BY <1>1
<1>3. PICK f : IsFold(w, S, f) /\ Total(w, S) = f[S]
  BY FoldExists
<1>4. f[S] = w[x] + f[S \ {x}]
  BY <1>1, <1>3 DEF IsFold, Round
<1>5. f[S \ {x}] = Total(w, S \ {x})
  <2>1. PICK T \in SUBSET S : T = S \ {x}
    OBVIOUS
  <2>2. f[T] = Total(w, T)
    BY <1>3, FoldSums
  <2> QED
    BY <2>1, <2>2
<1>6. Total(w, S) = w[x] + Total(w, S \ {x})
  BY <1>3, <1>4, <1>5
<1> QED
  BY <1>2, <1>6

\* Any element may come first: the order does not matter.
LEMMA TotalAdd ==
    ASSUME NEW D, NEW w \in [D -> Int], NEW S \in SUBSET D, IsFiniteSet(S)
    PROVE  Total(w, S) \in Int /\ \A x \in S : Total(w, S) = w[x] + Total(w, S \ {x})
<1>1. PICK F : F = {T \in SUBSET S : /\ Total(w, T) \in Int
                                    /\ \A x \in T : Total(w, T) = w[x] + Total(w, T \ {x})}
  OBVIOUS
<1>2. ASSUME NEW T \in SUBSET S, \A U \in SUBSET T : U # T => U \in F
      PROVE  T \in F
  <2>1. CASE T = {}
    BY <1>1, <2>1, TotalEmpty
  <2>2. CASE T # {}
    <3>0. IsFiniteSet(T)
      BY FS_Subset
    <3>1. PICK c \in T : Total(w, T) = w[c] + Total(w, T \ {c})
      BY <2>2, <3>0, TotalChosen
    <3>2. \A x \in T : T \ {x} \in F /\ w[x] \in Int
      BY <1>2
    <3>3. \A x \in T : Total(w, T \ {x}) \in Int
      BY <1>1, <3>2
    <3>4. ASSUME NEW x \in T, x # c
          PROVE  Total(w, T) = w[x] + Total(w, T \ {x})
      <4>1. x \in T \ {c} /\ c \in T \ {x} /\ (T \ {c}) \ {x} = (T \ {x}) \ {c}
        BY <3>1, <3>4
      <4>2. Total(w, T \ {c}) = w[x] + Total(w, (T \ {c}) \ {x})
        BY <1>1, <3>1, <3>2, <4>1
      <4>3. Total(w, T \ {x}) = w[c] + Total(w, (T \ {x}) \ {c})
        BY <1>1, <3>2, <4>1
      <4>4. (T \ {c}) \ {x} \in F
        BY <1>2, <3>1
      <4>5. Total(w, (T \ {c}) \ {x}) \in Int
        BY <1>1, <4>4
      <4>6. Total(w, (T \ {x}) \ {c}) = Total(w, (T \ {c}) \ {x})
        BY <4>1
      <4>7. w[c] \in Int /\ w[x] \in Int
        BY <3>2
      <4> QED
        BY <3>1, <4>2, <4>3, <4>5, <4>6, <4>7
    <3>5. Total(w, T) \in Int
      BY <3>1, <3>2, <3>3
    <3> QED
      BY <1>1, <3>1, <3>4, <3>5
  <2> QED
    BY <2>1, <2>2
<1>3. S \in F
  BY <1>2, SubsetInduction
<1> QED
  BY <1>1, <1>3

-----------------------------------------------------------------------------
(* Sums of integers *)

\* Integers total an integer.
LEMMA TotalType ==
    ASSUME NEW D, NEW w \in [D -> Int], NEW S \in SUBSET D, IsFiniteSet(S)
    PROVE  Total(w, S) \in Int
BY TotalAdd

\* One line more.
LEMMA TotalInsert ==
    ASSUME NEW D, NEW w \in [D -> Int], NEW S \in SUBSET D, IsFiniteSet(S),
           NEW x \in D \ S
    PROVE  Total(w, S \cup {x}) = w[x] + Total(w, S)
<1>1. (S \cup {x}) \in SUBSET D /\ IsFiniteSet(S \cup {x}) /\ x \in S \cup {x}
  BY FS_AddElement
<1>2. (S \cup {x}) \ {x} = S
  OBVIOUS
<1> QED
  BY <1>1, <1>2, TotalAdd

\* One line alone.
LEMMA TotalOne ==
    ASSUME NEW D, NEW w \in [D -> Int], NEW x \in D
    PROVE  Total(w, {x}) = w[x]
<1>1. IsFiniteSet({}) /\ {} \in SUBSET D /\ x \in D \ {} /\ {} \cup {x} = {x}
  BY FS_EmptySet
<1>2. Total(w, {} \cup {x}) = w[x] + Total(w, {})
  BY <1>1, TotalInsert
<1> QED
  BY <1>1, <1>2, TotalEmpty

\* Two groups that do not meet.
LEMMA TotalSplit ==
    ASSUME NEW D, NEW w \in [D -> Int], NEW S \in SUBSET D, NEW T \in SUBSET D,
           IsFiniteSet(S), IsFiniteSet(T), S \cap T = {}
    PROVE  Total(w, S \cup T) = Total(w, S) + Total(w, T)
<1>1. PICK F : F = {U \in SUBSET T : Total(w, S \cup U) = Total(w, S) + Total(w, U)}
  OBVIOUS
<1>2. {} \in F
  <2>1. S \cup {} = S /\ Total(w, {}) = 0 /\ Total(w, S) \in Int
    BY TotalEmpty, TotalType
  <2> QED
    BY <1>1, <2>1
<1>3. ASSUME NEW U \in SUBSET T, NEW x \in T \ U, U \in F
      PROVE  U \cup {x} \in F
  <2>1. IsFiniteSet(U)
    BY FS_Subset
  <2>2. IsFiniteSet(S \cup U)
    BY <2>1, FS_Union
  <2>3. x \in D \ (S \cup U) /\ x \in D \ U /\ (S \cup U) \in SUBSET D /\ U \in SUBSET D
    OBVIOUS
  <2>4. Total(w, (S \cup U) \cup {x}) = w[x] + Total(w, S \cup U)
    BY <2>2, <2>3, TotalInsert
  <2>5. Total(w, U \cup {x}) = w[x] + Total(w, U)
    BY <2>1, <2>3, TotalInsert
  <2>6. Total(w, S) \in Int /\ Total(w, U) \in Int /\ w[x] \in Int
    BY <2>1, <2>3, TotalType
  <2>7. Total(w, S \cup U) = Total(w, S) + Total(w, U)
    BY <1>1, <1>3
  <2>8. Total(w, (S \cup U) \cup {x}) = Total(w, S) + Total(w, U \cup {x})
    BY <2>4, <2>5, <2>6, <2>7
  <2>9. (S \cup U) \cup {x} = S \cup (U \cup {x}) /\ (U \cup {x}) \in SUBSET T
    OBVIOUS
  <2> QED
    BY <1>1, <2>8, <2>9
<1>4. T \in F
  BY <1>2, <1>3, SetInduction
<1> QED
  BY <1>1, <1>4

-----------------------------------------------------------------------------
(* The groups stay balanced *)

\* Balanced lines with balanced lines that are not among them.
LEMMA Joined ==
    ASSUME NEW S \in SUBSET Lines, NEW T \in SUBSET Lines, S \cap T = {},
           Balances(S), Balances(T)
    PROVE  Balances(S \cup T)
<1>1. IsFiniteSet(S) /\ IsFiniteSet(T)
  BY LineAssumption, FS_Subset
<1>2. Debit \in [Lines -> Int] /\ Credit \in [Lines -> Int]
  BY LineAssumption
<1>3. /\ Total(Debit, S \cup T) = Total(Debit, S) + Total(Debit, T)
      /\ Total(Credit, S \cup T) = Total(Credit, S) + Total(Credit, T)
  BY <1>1, <1>2, TotalSplit
<1> QED
  BY <1>3 DEF Balances

\* What a request has updated and has still to update is what it has checked.
Weighed == \A r \in Requests : pc[r] = "flush" => Balances(held[r] \cup todo[r])

LEMMA WeighedStep == IInv /\ Weighed /\ [Next]_vars => Weighed'
<1> SUFFICES ASSUME IInv, Weighed, [Next]_vars PROVE Weighed'
  OBVIOUS
<1>1. CASE UNCHANGED vars
  BY <1>1 DEF vars, Weighed
<1>2. ASSUME NEW r \in Requests, NEW ls \in SUBSET Lines, NEW c \in Codes, ReadLines(r, ls, c)
      PROVE  Weighed'
  <2>1. /\ held' = held /\ held[r] = {} /\ todo' = [todo EXCEPT ![r] = ls]
        /\ pc' = [pc EXCEPT ![r] = "flush"] /\ Balances(ls)
    BY <1>2 DEF ReadLines, IInv, TypeOK
  <2>2. held'[r] \cup todo'[r] = ls
    BY <2>1 DEF IInv, TypeOK
  <2>3. \A q \in Requests : q # r => pc'[q] = pc[q] /\ held'[q] \cup todo'[q] = held[q] \cup todo[q]
    BY <2>1 DEF IInv, TypeOK
  <2> QED
    BY <2>1, <2>2, <2>3 DEF Weighed
<1>3. ASSUME NEW r \in Requests, UpdateLine(r)
      PROVE  Weighed'
  <2>1. todo[r] \in SUBSET Nat /\ todo[r] # {}
    BY <1>3, LineAssumption DEF IInv, TypeOK, UpdateLine
  <2>2. PICK l \in todo[r] : /\ held' = [held EXCEPT ![r] = @ \cup {l}]
                             /\ todo' = [todo EXCEPT ![r] = @ \ {l}]
                             /\ pc' = pc
    BY <1>3, <2>1, MinIsLeast DEF UpdateLine
  <2>3. \A q \in Requests : held'[q] \cup todo'[q] = held[q] \cup todo[q]
    BY <2>2 DEF IInv, TypeOK
  <2> QED
    BY <2>2, <2>3 DEF Weighed
<1>4. ASSUME NEW r \in Requests, Release(r)
      PROVE  Weighed'
  <2>1. pc'[r] = "idle"
    BY <1>4 DEF Release, IInv, TypeOK
  <2>2. \A q \in Requests : q # r => pc'[q] = pc[q] /\ held'[q] \cup todo'[q] = held[q] \cup todo[q]
    BY <1>4 DEF Release, IInv, TypeOK
  <2> QED
    BY <2>1, <2>2 DEF Weighed
<1> QED
  BY <1>1, <1>2, <1>3, <1>4 DEF Next, Commit, Crash

\* Every step but a COMMIT leaves the codes alone; a COMMIT gives its code to
\* lines that balance, and that had none unless it overwrites one.
LEMMA GroupsStep ==
    ASSUME IInv, Weighed, [Next]_vars
    PROVE  [GroupsBalance /\ ~Overwrite => GroupsBalance']_code
<1>1. CASE UNCHANGED code
  BY <1>1
<1>2. ASSUME NEW r \in Requests, Commit(r), GroupsBalance, ~Overwrite
      PROVE  GroupsBalance'
  <2>1. /\ held[r] \in SUBSET Lines /\ \A l \in held[r] : code[l] = NoCode
        /\ code' = [l \in Lines |-> IF l \in held[r] THEN wanted[r] ELSE code[l]]
    BY <1>2 DEF IInv, TypeOK, Commit, Overwrite
  <2>2. Balances(held[r])
    <3>1. held[r] \cup todo[r] = held[r] /\ pc[r] = "flush"
      BY <1>2 DEF Commit
    <3> QED
      BY <3>1 DEF Weighed
  <2>3. ASSUME NEW c \in Codes
        PROVE  Balances({l \in Lines : code'[l] = c})
    <3>1. c # NoCode /\ Group(c) \in SUBSET Lines /\ Balances(Group(c)) /\ Group(c) \cap held[r] = {}
      BY <1>2, <2>1, LineAssumption DEF Group, GroupsBalance
    <3>2. {l \in Lines : code'[l] = c}
            = IF c = wanted[r] THEN Group(c) \cup held[r] ELSE Group(c)
      BY <2>1, <3>1 DEF Group
    <3>3. Balances(Group(c) \cup held[r])
      BY <2>1, <2>2, <3>1, Joined
    <3> QED
      BY <3>1, <3>2, <3>3
  <2> QED
    BY <2>3 DEF GroupsBalance, Group
<1> QED
  BY <1>1, <1>2 DEF Next, vars, ReadLines, UpdateLine, Crash

\* BalancedUnlessOverwritten: only a letter_lines that takes over a line which
\* another lettered after its check can leave the lines of a code unbalanced,
\* whatever groups of lines and codes the requests name.
THEOREM GroupsStay == Spec => BalancedUnlessOverwritten
<1>1. Init => Weighed
  BY DEF Init, Weighed
<1>2. Spec => []Weighed
  BY <1>1, WeighedStep, Invariant, PTL DEF Spec
<1>3. Spec => [][GroupsBalance /\ ~Overwrite => GroupsBalance']_code
  BY <1>2, GroupsStep, Invariant, PTL DEF Spec
<1> QED
  BY <1>3 DEF BalancedUnlessOverwritten

=============================================================================
