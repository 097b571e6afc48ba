------------------------ MODULE FiscalPeriodsProofs ------------------------
(***************************************************************************)
(* The periods of a fiscal year split it, for every calendar, every year   *)
(* and any number of concurrent creations.                                 *)
(*                                                                         *)
(* PeriodsSplitYear speaks of committed years only.  The invariant adds    *)
(* what the loop has done so far: the periods it inserted split the days   *)
(* from the first of the year to the eve of the current one, which is the  *)
(* end of the year when the loop is over (LoopSplits); and two requests    *)
(* never create the same year (OwnYear), so that the periods that a COMMIT *)
(* adds are all the periods of its year.                                   *)
(***************************************************************************)
EXTENDS FiscalPeriods, TLAPS

\* The day before the current one, or the end of the year.
Eve(r) == IF current[r] > making[r].last THEN making[r].last ELSE current[r] - 1

LoopSplits ==
    \A r \in Requests : pc[r] = "periods" =>
        /\ making[r].first <= making[r].last
        /\ making[r].first <= current[r]
        /\ \A p \in made[r] : p.year = making[r].year /\ p.status = "OPEN"
        /\ Splits(made[r], making[r].first, Eve(r))

OwnYear ==
    /\ \A r \in Requests : making[r] # NoYear => ~Created(making[r].year)
    /\ \A r, q \in Requests :
          making[r] # NoYear /\ making[q] # NoYear /\ r # q =>
              making[r].year # making[q].year
    /\ \A p \in periods : Created(p.year)

\* Outside of a transaction nothing is inserted.
IdleHasNone == \A r \in Requests : pc[r] = "idle" => made[r] = {}

Inv == IdleHasNone /\ LoopSplits /\ OwnYear /\ PeriodsSplitYear /\ ClosedTogether

-----------------------------------------------------------------------------
LEMMA Calendar ==
    /\ LastDay \in Nat
    /\ \A d \in Days : MonthEnd[d] \in Days /\ d <= MonthEnd[d]
    /\ \A d \in Days : d \in Int /\ 1 <= d /\ d <= LastDay
BY CalendarAssumption DEF Days

LEMMA RecordNotNull ==
    ASSUME NEW y \in Years, NEW first \in Days, NEW last \in Days
    PROVE  [year |-> y, first |-> first, last |-> last] # NoYear
BY CalendarAssumption

LEMMA MakingType ==
    ASSUME TypeOK, NEW r \in Requests, pc[r] = "periods"
    PROVE  /\ making[r] # NoYear
           /\ making[r].year \in Years
           /\ making[r].first \in Days /\ making[r].last \in Days
<1>1. making[r] # NoYear /\ making[r] \in Making
  BY DEF TypeOK
<1>2. making[r] \in [year : Years, first : Days, last : Days]
  BY <1>1 DEF Making
<1> QED
  BY <1>1, <1>2

LEMMA LoopType ==
    ASSUME TypeOK, NEW r \in Requests, Looping(r)
    PROVE  /\ current[r] \in Days
           /\ PeriodEnd(r) \in Days
           /\ current[r] <= PeriodEnd(r)
<1>1. making[r].last \in Days
  BY MakingType DEF Looping
<1>2. current[r] \in Days
  <2>1. current[r] \in Days \cup {LastDay + 1}
    BY DEF TypeOK
  <2>2. current[r] <= making[r].last
    BY DEF Looping
  <2> QED
    BY <1>1, <2>1, <2>2, Calendar
<1>3. MonthEnd[current[r]] \in Days /\ current[r] <= MonthEnd[current[r]]
  BY <1>2, Calendar
<1> QED
  BY <1>1, <1>2, <1>3 DEF PeriodEnd, Looping

LEMMA ReleaseType ==
    ASSUME TypeOK, NEW r \in Requests, Release(r)
    PROVE  /\ pc' \in [Requests -> {"idle", "periods"}]
           /\ making' \in [Requests -> Making]
           /\ \A q \in Requests : making'[q] = NoYear <=> pc'[q] = "idle"
           /\ current' \in [Requests -> Days \cup {LastDay + 1}]
           /\ made' \in [Requests -> SUBSET PeriodRow]
<1>1. 1 \in Days \cup {LastDay + 1}
  BY Calendar DEF Days
<1>2. current' \in [Requests -> Days \cup {LastDay + 1}]
  BY <1>1 DEF Release, TypeOK
<1> QED
  BY <1>2 DEF Release, TypeOK, Making

LEMMA TypeInit == Init => TypeOK
<1> SUFFICES ASSUME Init  PROVE TypeOK
  OBVIOUS
<1>1. 1 \in Days \cup {LastDay + 1}
  BY Calendar DEF Days
<1> QED
  BY <1>1 DEF Init, TypeOK, Making

LEMMA TypeStep ==
    ASSUME TypeOK, [Next]_vars
    PROVE  TypeOK'
<1>1. CASE UNCHANGED vars
  BY <1>1 DEF vars, TypeOK
<1>2. ASSUME NEW r \in Requests, NEW y \in Years, NEW first \in Days, NEW last \in Days,
             InsertYear(r, y, first, last)
      PROVE  TypeOK'
  <2>1. [year |-> y, first |-> first, last |-> last] \in Making
    BY DEF Making
  <2>2. making' = [making EXCEPT ![r] = [year |-> y, first |-> first, last |-> last]]
    BY <1>2 DEF InsertYear
  <2>3. [year |-> y, first |-> first, last |-> last] # NoYear
    BY <1>2, <2>1, RecordNotNull
  <2> QED
    BY <1>2, <2>1, <2>2, <2>3 DEF InsertYear, TypeOK
<1>3. ASSUME NEW r \in Requests, InsertPeriod(r)  PROVE TypeOK'
  <2>1. current[r] \in Days /\ PeriodEnd(r) \in Days /\ making[r].year \in Years
    BY <1>3, LoopType, MakingType DEF InsertPeriod, Looping
  <2>2. [year |-> making[r].year, first |-> current[r],
         last |-> PeriodEnd(r), status |-> "OPEN"] \in PeriodRow
    BY <1>3, <2>1 DEF InsertPeriod, PeriodRow
  <2>3. made' \in [Requests -> SUBSET PeriodRow]
    BY <1>3, <2>2 DEF InsertPeriod, TypeOK
  <2>4. MonthEnd[current[r]] + 1 \in Days \cup {LastDay + 1}
    BY <2>1, Calendar DEF Days
  <2>5. current' \in [Requests -> Days \cup {LastDay + 1}]
    BY <1>3, <2>4 DEF InsertPeriod, TypeOK
  <2> QED
    BY <1>3, <2>3, <2>5 DEF InsertPeriod, TypeOK
<1>4. ASSUME NEW r \in Requests, RefusePeriod(r) \/ Crash(r)  PROVE TypeOK'
  BY <1>4, ReleaseType DEF RefusePeriod, Crash, TypeOK
<1>5. ASSUME NEW r \in Requests, Commit(r)  PROVE TypeOK'
  <2>1. making[r].year \in Years /\ making[r].first \in Days /\ making[r].last \in Days
    BY <1>5, MakingType DEF Commit
  <2>2. year' \in [Years -> FiscalYear \cup {NoDates}]
    BY <1>5, <2>1 DEF Commit, TypeOK, FiscalYear
  <2>3. periods' \subseteq PeriodRow
    BY <1>5 DEF Commit, TypeOK
  <2>4. Release(r)
    BY <1>5 DEF Commit
  <2> QED
    BY <2>2, <2>3, <2>4, ReleaseType DEF TypeOK
<1>6. ASSUME NEW y \in Years, Close(y)  PROVE TypeOK'
  <2>1. year[y] \in FiscalYear
    BY <1>6 DEF Close, TypeOK, NoDates
  <2>2. [year[y] EXCEPT !.status = "CLOSED"] \in FiscalYear
    BY <2>1 DEF FiscalYear
  <2>3. year' = [year EXCEPT ![y] = [year[y] EXCEPT !.status = "CLOSED"]]
    BY <1>6 DEF Close
  <2>4. year' \in [Years -> FiscalYear \cup {NoDates}]
    BY <2>2, <2>3 DEF TypeOK
  <2>5. \A p \in PeriodRow : [p EXCEPT !.status = "LOCKED"] \in PeriodRow
    BY DEF PeriodRow
  <2>6. periods' \subseteq PeriodRow
    BY <1>6, <2>5 DEF Close, TypeOK
  <2> QED
    BY <1>6, <2>4, <2>6 DEF Close, TypeOK
<1> QED
  BY <1>1, <1>2, <1>3, <1>4, <1>5, <1>6 DEF Next

-----------------------------------------------------------------------------
(* Splitting days *)

\* The next period starts on the day after the last one ends: still a split.
LEMMA SplitsGrow ==
    ASSUME NEW ps, NEW first \in Int, NEW p, p.first \in Int, p.last \in Int,
           first <= p.first, p.first <= p.last,
           \A q \in ps : q.first \in Int /\ q.last \in Int,
           Splits(ps, first, p.first - 1)
    PROVE  Splits(ps \cup {p}, first, p.last)
<1>1. \A q \in ps : first <= q.first /\ q.last <= p.first - 1
  BY DEF Splits
<1>2. \A q \in ps \cup {p} : first <= q.first /\ q.last <= p.last
  BY <1>1
<1>3. ASSUME NEW d \in first..p.last
      PROVE  \E q \in ps \cup {p} : In(d, q) /\ \A o \in ps \cup {p} : In(d, o) => o = q
  <2>1. CASE d < p.first
    <3>1. d \in first..p.first - 1
      BY <2>1
    <3>2. PICK q \in ps : In(d, q) /\ \A o \in ps : In(d, o) => o = q
      BY <3>1 DEF Splits
    <3>3. ~In(d, p)
      BY <2>1 DEF In
    <3> QED
      BY <3>2, <3>3
  <2>2. CASE p.first <= d
    <3>1. In(d, p)
      BY <2>2 DEF In
    <3>2. \A q \in ps : ~In(d, q)
      BY <1>1, <2>2 DEF In
    <3> QED
      BY <3>1, <3>2
  <2> QED
    BY <2>1, <2>2
<1> QED
  BY <1>2, <1>3 DEF Splits

\* The status of the periods does not matter.
LEMMA SplitsMap ==
    ASSUME NEW ps, NEW qs, NEW first, NEW last, NEW f,
           qs = {f[p] : p \in ps},
           \A p \in ps : f[p].first = p.first /\ f[p].last = p.last,
           Splits(ps, first, last)
    PROVE  Splits(qs, first, last)
<1>1. \A q \in qs : first <= q.first /\ q.last <= last
  BY DEF Splits
<1>2. ASSUME NEW d \in first..last
      PROVE  \E q \in qs : In(d, q) /\ \A o \in qs : In(d, o) => o = q
  <2>1. PICK p \in ps : In(d, p) /\ \A o \in ps : In(d, o) => o = p
    BY DEF Splits
  <2>2. f[p] \in qs /\ In(d, f[p])
    BY <2>1 DEF In
  <2>3. ASSUME NEW o \in ps, In(d, f[o])
        PROVE  f[o] = f[p]
    <3>1. In(d, o)
      BY <2>3 DEF In
    <3> QED
      BY <2>1, <3>1
  <2> QED
    BY <2>2, <2>3
<1> QED
  BY <1>1, <1>2 DEF Splits

-----------------------------------------------------------------------------
(* The steps *)

LEMMA InvInit == Init => Inv
BY DEF Init, Inv, IdleHasNone, LoopSplits, OwnYear, PeriodsSplitYear, ClosedTogether,
       Created

\* A request that ends leaves the others what they have.
LEMMA LoopRelease ==
    ASSUME TypeOK, Inv, NEW r \in Requests, Release(r)
    PROVE  LoopSplits'
<1> SUFFICES ASSUME NEW q \in Requests, pc'[q] = "periods"
             PROVE  /\ making'[q].first <= making'[q].last
                    /\ making'[q].first <= current'[q]
                    /\ \A p \in made'[q] : p.year = making'[q].year /\ p.status = "OPEN"
                    /\ Splits(made'[q], making'[q].first, Eve(q)')
  BY DEF LoopSplits
<1>1. q # r
  BY DEF Release, TypeOK
<1>2. /\ pc'[q] = pc[q] /\ making'[q] = making[q]
      /\ current'[q] = current[q] /\ made'[q] = made[q]
  BY <1>1 DEF Release, TypeOK
<1>3. Eve(q)' = Eve(q)
  BY <1>2 DEF Eve
<1> QED
  BY <1>2, <1>3 DEF Inv, LoopSplits

LEMMA OwnRelease ==
    ASSUME TypeOK, Inv, NEW r \in Requests, Release(r), UNCHANGED <<year, periods>>
    PROVE  OwnYear'
<1>1. \A q \in Requests : making'[q] # NoYear => q # r /\ making'[q] = making[q]
  BY DEF Release, TypeOK
<1> QED
  BY <1>1 DEF Inv, OwnYear, Created

LEMMA BooksSame ==
    ASSUME Inv, UNCHANGED <<year, periods>>
    PROVE  PeriodsSplitYear' /\ ClosedTogether'
<1>1. \A y \in Years : PeriodsOf(y)' = PeriodsOf(y)
  BY DEF PeriodsOf
<1> QED
  BY <1>1 DEF Inv, PeriodsSplitYear, ClosedTogether, Created

LEMMA InsertYearStep ==
    ASSUME TypeOK, Inv, NEW r \in Requests, NEW y \in Years, NEW first \in Days,
           NEW last \in Days, InsertYear(r, y, first, last)
    PROVE  Inv'
<1> DEFINE m == [year |-> y, first |-> first, last |-> last]
<1>1. /\ making' = [making EXCEPT ![r] = m] /\ pc' = [pc EXCEPT ![r] = "periods"]
      /\ current' = [current EXCEPT ![r] = first]
      /\ UNCHANGED <<year, periods, made>> /\ pc[r] = "idle" /\ first < last
  BY DEF InsertYear
<1>2. /\ making'[r] = m /\ current'[r] = first
      /\ \A q \in Requests \ {r} : /\ making'[q] = making[q] /\ current'[q] = current[q]
                                   /\ pc'[q] = pc[q]
  BY <1>1 DEF TypeOK
<1>3. made[r] = {}
  BY <1>1 DEF Inv, IdleHasNone
<1>4. LoopSplits'
  <2> SUFFICES ASSUME NEW q \in Requests, pc'[q] = "periods"
               PROVE  /\ making'[q].first <= making'[q].last
                      /\ making'[q].first <= current'[q]
                      /\ \A p \in made[q] : p.year = making'[q].year /\ p.status = "OPEN"
                      /\ Splits(made[q], making'[q].first, Eve(q)')
    BY <1>1 DEF LoopSplits
  <2>1. CASE q = r
    <3>1. first \in Int /\ last \in Int
      BY Calendar
    <3>2. Eve(q)' = first - 1
      BY <1>1, <1>2, <2>1, <3>1 DEF Eve
    <3>3. Splits({}, first, first - 1)
      BY <3>1 DEF Splits
    <3>4. made[q] = {} /\ making'[q].first = first
      BY <1>2, <1>3, <2>1
    <3>5. Splits(made[q], making'[q].first, Eve(q)')
      BY <3>2, <3>3, <3>4
    <3>6. making'[q].last = last /\ current'[q] = first
      BY <1>2, <2>1
    <3> QED
      BY <1>1, <3>1, <3>4, <3>5, <3>6
  <2>2. CASE q # r
    <3>1. Eve(q)' = Eve(q)
      BY <1>2, <2>2 DEF Eve
    <3> QED
      BY <1>2, <2>2, <3>1 DEF Inv, LoopSplits
  <2> QED
    BY <2>1, <2>2
<1>5. OwnYear'
  BY <1>1, <1>2 DEF InsertYear, Inv, OwnYear, Created
<1>6. IdleHasNone'
  BY <1>1, <1>2 DEF Inv, IdleHasNone, TypeOK
<1> QED
  BY <1>1, <1>4, <1>5, <1>6, BooksSame DEF Inv

LEMMA InsertPeriodStep ==
    ASSUME TypeOK, Inv, NEW r \in Requests, InsertPeriod(r)
    PROVE  Inv'
<1> DEFINE p == [year |-> making[r].year, first |-> current[r],
                 last |-> PeriodEnd(r), status |-> "OPEN"]
<1>1. /\ made' = [made EXCEPT ![r] = made[r] \cup {p}]
      /\ current' = [current EXCEPT ![r] = MonthEnd[current[r]] + 1]
      /\ UNCHANGED <<year, periods, pc, making>>
      /\ pc[r] = "periods" /\ current[r] <= making[r].last
  BY DEF InsertPeriod, Looping
<1>2. /\ made'[r] = made[r] \cup {p} /\ current'[r] = MonthEnd[current[r]] + 1
      /\ \A q \in Requests \ {r} : made'[q] = made[q] /\ current'[q] = current[q]
  BY <1>1 DEF TypeOK
<1>3. /\ current[r] \in Days /\ PeriodEnd(r) \in Days /\ current[r] <= PeriodEnd(r)
      /\ making[r].first \in Days /\ making[r].last \in Days
      /\ MonthEnd[current[r]] \in Days /\ current[r] <= MonthEnd[current[r]]
  BY <1>1, LoopType, MakingType, Calendar DEF Looping
<1>4. LoopSplits'
  <2> SUFFICES ASSUME NEW q \in Requests, pc[q] = "periods"
               PROVE  /\ making[q].first <= making[q].last
                      /\ making[q].first <= current'[q]
                      /\ \A o \in made'[q] : o.year = making[q].year /\ o.status = "OPEN"
                      /\ Splits(made'[q], making[q].first, Eve(q)')
    BY <1>1 DEF LoopSplits
  <2>1. /\ making[q].first <= making[q].last /\ making[q].first <= current[q]
        /\ \A o \in made[q] : o.year = making[q].year /\ o.status = "OPEN"
        /\ Splits(made[q], making[q].first, Eve(q))
    BY DEF Inv, LoopSplits
  <2>2. CASE q # r
    <3>1. Eve(q)' = Eve(q)
      BY <1>1, <1>2, <2>2 DEF Eve
    <3> QED
      BY <1>2, <2>1, <2>2, <3>1
  <2>3. CASE q = r
    <3>1. Eve(r) = current[r] - 1
      BY <1>1, <1>3, Calendar DEF Eve
    <3>2. Eve(q)' = PeriodEnd(r)
      BY <1>1, <1>2, <1>3, <2>3, Calendar DEF Eve, PeriodEnd
    <3>3. \A o \in made[r] : o.first \in Int /\ o.last \in Int
      BY Calendar DEF TypeOK, PeriodRow
    <3>4. Splits(made[r], making[r].first, p.first - 1)
      BY <2>1, <2>3, <3>1
    <3>5. /\ p.first \in Int /\ p.last \in Int /\ making[r].first \in Int
          /\ making[r].first <= p.first /\ p.first <= p.last
      BY <1>3, <2>1, <2>3, Calendar
    <3>6. Splits(made[r] \cup {p}, making[r].first, p.last)
      BY <3>3, <3>4, <3>5, SplitsGrow
    <3>7. making[r].first <= MonthEnd[current[r]] + 1
      BY <1>3, <2>1, <2>3, Calendar
    <3>8. Splits(made'[q], making[q].first, Eve(q)')
      BY <1>2, <2>3, <3>2, <3>6
    <3>9. \A o \in made'[q] : o.year = making[q].year /\ o.status = "OPEN"
      BY <1>2, <2>1, <2>3
    <3> QED
      BY <1>2, <2>1, <2>3, <3>7, <3>8, <3>9
  <2> QED
    BY <2>2, <2>3
<1>5. OwnYear'
  BY <1>1 DEF Inv, OwnYear, Created
<1>6. IdleHasNone'
  BY <1>1, <1>2 DEF Inv, IdleHasNone
<1> QED
  BY <1>1, <1>4, <1>5, <1>6, BooksSame DEF Inv

LEMMA EndStep ==
    ASSUME TypeOK, Inv, NEW r \in Requests, RefusePeriod(r) \/ Crash(r)
    PROVE  Inv'
<1>1. Release(r) /\ UNCHANGED <<year, periods>>
  BY DEF RefusePeriod, Crash
<1>2. IdleHasNone'
  BY <1>1 DEF Release, Inv, IdleHasNone, TypeOK
<1> QED
  BY <1>1, <1>2, LoopRelease, OwnRelease, BooksSame DEF Inv

LEMMA CommitStep ==
    ASSUME TypeOK, Inv, NEW r \in Requests, Commit(r)
    PROVE  Inv'
<1>0. pc[r] = "periods"
  BY DEF Commit
<1>1. making[r] # NoYear /\ making[r].year \in Years /\ making[r].last \in Int
  BY <1>0, MakingType, Calendar
<1> PICK y \in Years : y = making[r].year
  BY <1>1
<1> DEFINE dates == [first |-> making[r].first, last |-> making[r].last, status |-> "OPEN"]
<1>2. /\ current[r] > making[r].last
      /\ year' = [year EXCEPT ![y] = dates]
      /\ periods' = periods \cup made[r]
      /\ Release(r)
  BY DEF Commit
<1>3. year'[y] = dates /\ \A z \in Years \ {y} : year'[z] = year[z]
  BY <1>2 DEF TypeOK
<1>4. dates # NoDates
  BY DEF NoDates
<1>5. /\ \A p \in made[r] : p.year = y /\ p.status = "OPEN"
      /\ Splits(made[r], making[r].first, making[r].last)
  <2>1. Eve(r) = making[r].last
    BY <1>2 DEF Eve
  <2> QED
    BY <1>0, <2>1 DEF Inv, LoopSplits
<1>6. \A p \in periods : p.year \in Years /\ p.year # y
  BY <1>1 DEF Inv, OwnYear, TypeOK, PeriodRow
<1>7. PeriodsOf(y)' = made[r]
  BY <1>2, <1>5, <1>6 DEF PeriodsOf
<1>8. \A z \in Years \ {y} : PeriodsOf(z)' = PeriodsOf(z)
  BY <1>2, <1>5, <1>6 DEF PeriodsOf
<1>9. PeriodsSplitYear'
  <2> SUFFICES ASSUME NEW z \in Years, Created(z)'
               PROVE  Splits(PeriodsOf(z)', year'[z].first, year'[z].last)
    BY DEF PeriodsSplitYear
  <2>1. CASE z = y
    BY <1>3, <1>5, <1>7, <2>1
  <2>2. CASE z # y
    BY <1>3, <1>8, <2>2 DEF Inv, PeriodsSplitYear, Created
  <2> QED
    BY <2>1, <2>2
<1>10. ClosedTogether'
  <2> SUFFICES ASSUME NEW p \in periods'
               PROVE  p.status = "LOCKED" <=> year'[p.year].status = "CLOSED"
    BY DEF ClosedTogether
  <2>1. CASE p \in periods
    BY <1>3, <1>6, <2>1 DEF Inv, ClosedTogether
  <2>2. CASE p \in made[r]
    BY <1>3, <1>5, <2>2
  <2> QED
    BY <1>2, <2>1, <2>2
<1>11. OwnYear'
  <2>1. \A q \in Requests : making'[q] # NoYear => q # r /\ making'[q] = making[q]
    BY <1>2 DEF Release, TypeOK
  <2>2. \A q \in Requests : making'[q] # NoYear =>
            making[q].year # y /\ making[q].year \in Years
    BY <1>1, <2>1, MakingType DEF Inv, OwnYear, TypeOK
  <2>3. \A q \in Requests : making'[q] # NoYear => year'[making'[q].year] = NoDates
    BY <1>3, <2>1, <2>2 DEF Inv, OwnYear, Created
  <2>4. \A p \in periods' : year'[p.year] # NoDates
    <3>1. \A p \in periods : year'[p.year] = year[p.year]
      BY <1>3, <1>6
    <3>2. \A p \in made[r] : p.year = y
      BY <1>5
    <3> QED
      BY <1>2, <1>3, <1>4, <3>1, <3>2 DEF Inv, OwnYear, Created
  <2> QED
    BY <2>1, <2>3, <2>4 DEF Inv, OwnYear, Created
<1>12. IdleHasNone'
  BY <1>2 DEF Release, Inv, IdleHasNone, TypeOK
<1> QED
  BY <1>2, <1>9, <1>10, <1>11, <1>12, LoopRelease DEF Inv

LEMMA CloseStep ==
    ASSUME TypeOK, Inv, NEW y \in Years, Close(y)
    PROVE  Inv'
<1> DEFINE f == [p \in periods |-> IF p.year = y THEN [p EXCEPT !.status = "LOCKED"] ELSE p]
<1>1. /\ year[y].status = "OPEN"
      /\ year' = [year EXCEPT ![y].status = "CLOSED"]
      /\ periods' = {f[p] : p \in periods}
      /\ UNCHANGED <<pc, making, current, made>>
  BY DEF Close
<1>2. year[y] \in FiscalYear /\ year[y] # NoDates
  BY <1>1 DEF TypeOK, NoDates
<1>3. /\ year'[y] \in FiscalYear /\ year'[y] # NoDates /\ year'[y].status = "CLOSED"
      /\ year'[y].first = year[y].first /\ year'[y].last = year[y].last
      /\ \A z \in Years \ {y} : year'[z] = year[z]
  BY <1>1, <1>2 DEF TypeOK, FiscalYear, NoDates
<1>4. \A p \in periods : /\ f[p].year = p.year /\ f[p].first = p.first /\ f[p].last = p.last
                         /\ p.year = y => f[p].status = "LOCKED"
                         /\ p.year # y => f[p] = p
                         /\ p.year \in Years
  BY DEF TypeOK, PeriodRow
<1> HIDE DEF f
<1>5. \A z \in Years : year'[z] # NoDates <=> year[z] # NoDates
  BY <1>2, <1>3
<1>6. LoopSplits' /\ IdleHasNone'
  BY <1>1 DEF Inv, LoopSplits, Eve, IdleHasNone
<1>7. OwnYear'
  <2>1. \A q \in Requests : making[q] # NoYear => making[q].year \in Years
    BY MakingType DEF TypeOK
  <2> QED
    BY <1>1, <1>4, <1>5, <2>1 DEF Inv, OwnYear, Created
<1>8. ClosedTogether'
  <2> SUFFICES ASSUME NEW p \in periods
               PROVE  f[p].status = "LOCKED" <=> year'[f[p].year].status = "CLOSED"
    BY <1>1 DEF ClosedTogether
  <2>1. CASE p.year = y
    BY <1>3, <1>4, <2>1
  <2>2. CASE p.year # y
    BY <1>3, <1>4, <2>2 DEF Inv, ClosedTogether
  <2> QED
    BY <2>1, <2>2
<1>9. PeriodsSplitYear'
  <2> SUFFICES ASSUME NEW z \in Years, year[z] # NoDates
               PROVE  Splits(PeriodsOf(z)', year'[z].first, year'[z].last)
    BY <1>5 DEF PeriodsSplitYear, Created
  <2>1. PeriodsOf(z)' = {f[p] : p \in PeriodsOf(z)}
    <3>1. PeriodsOf(z)' = {q \in periods' : q.year = z}
      BY DEF PeriodsOf
    <3>2. \A q \in PeriodsOf(z)' : \E p \in PeriodsOf(z) : q = f[p]
      BY <1>1, <1>4, <3>1 DEF PeriodsOf
    <3>3. \A p \in PeriodsOf(z) : f[p] \in PeriodsOf(z)'
      BY <1>1, <1>4, <3>1 DEF PeriodsOf
    <3> QED
      BY <3>2, <3>3
  <2>2. Splits(PeriodsOf(z), year[z].first, year[z].last)
    BY DEF Inv, PeriodsSplitYear, Created
  <2>3. \A p \in PeriodsOf(z) : f[p].first = p.first /\ f[p].last = p.last
    BY <1>4 DEF PeriodsOf
  <2>4. Splits(PeriodsOf(z)', year[z].first, year[z].last)
    <3> QED
      BY <2>1, <2>2, <2>3, SplitsMap
  <2> QED
    BY <1>3, <2>4
<1> QED
  BY <1>6, <1>7, <1>8, <1>9 DEF Inv

LEMMA InvStep ==
    ASSUME TypeOK, Inv, [Next]_vars
    PROVE  Inv'
<1>1. CASE UNCHANGED vars
  <2>1. \A r \in Requests : Eve(r)' = Eve(r)
    BY <1>1 DEF vars, Eve
  <2> QED
    BY <1>1, <2>1, BooksSame DEF vars, Inv, LoopSplits, OwnYear, Created, IdleHasNone
<1>2. CASE Next
  BY <1>2, InsertYearStep, InsertPeriodStep, EndStep, CommitStep, CloseStep DEF Next
<1> QED
  BY <1>1, <1>2

-----------------------------------------------------------------------------
LEMMA Invariant == Spec => [](TypeOK /\ Inv)
<1>1. Init => TypeOK /\ Inv
  BY TypeInit, InvInit
<1>2. TypeOK /\ Inv /\ [Next]_vars => (TypeOK /\ Inv)'
  BY TypeStep, InvStep
<1> QED
  BY <1>1, <1>2, PTL DEF Spec

\* Every variable keeps its type, ck_period_dates included.
THEOREM TypeCorrect == Spec => []TypeOK
<1>1. TypeOK /\ Inv => TypeOK
  OBVIOUS
<1> QED
  BY Invariant, <1>1, PTL

\* Whatever the calendar and wherever in a month a fiscal year begins and ends,
\* each of its dates has one of its periods and no other.
THEOREM PeriodPartition == Spec => []PeriodsSplitYear
<1>1. TypeOK /\ Inv => PeriodsSplitYear
  BY DEF Inv
<1> QED
  BY Invariant, <1>1, PTL

\* The periods of a year are LOCKED exactly when it is CLOSED.
THEOREM ClosedAlike == Spec => []ClosedTogether
<1>1. TypeOK /\ Inv => ClosedTogether
  BY DEF Inv
<1> QED
  BY Invariant, <1>1, PTL

\* What get_open_period_for_date finds: one period for each open year of the date.
THEOREM OpenPeriods == Spec => []OneOpenPeriodPerYear
<1>1. TypeOK /\ Inv => OneOpenPeriodPerYear
  <2> SUFFICES ASSUME TypeOK, Inv, NEW d \in Days
               PROVE  /\ {p.year : p \in OpenPeriodsFor(d)} = OpenYearsAt(d)
                      /\ \A p, q \in OpenPeriodsFor(d) : p.year = q.year => p = q
    BY DEF OneOpenPeriodPerYear
  <2>1. \A p \in periods : /\ p.year \in Years
                           /\ p.status \in {"OPEN", "LOCKED"}
                           /\ p.first \in Int /\ p.last \in Int
    <3>1. \A p \in PeriodRow : /\ p.year \in Years
                               /\ p.status \in {"OPEN", "LOCKED"}
                               /\ p.first \in Int /\ p.last \in Int
      BY Calendar DEF PeriodRow
    <3> QED
      BY <3>1 DEF TypeOK
  <2>2. \A y \in Years : /\ year[y].status \in {"OPEN", "CLOSED", "NONE"}
                         /\ year[y].status # "NONE" <=> Created(y)
                         /\ year[y].first \in Int /\ year[y].last \in Int
    <3> TAKE y \in Years
    <3>1. year[y] \in FiscalYear \/ year[y] = NoDates
      BY DEF TypeOK
    <3>2. CASE year[y] \in FiscalYear
      BY <3>2, Calendar DEF FiscalYear, NoDates, Created
    <3>3. CASE year[y] = NoDates
      BY <3>3 DEF NoDates, Created
    <3> QED
      BY <3>1, <3>2, <3>3
  <2>3. \A p \in periods : p.status = "OPEN" => year[p.year].status # "CLOSED"
    BY <2>1 DEF Inv, ClosedTogether
  <2>4. \A p \in periods : Created(p.year)
    BY DEF Inv, OwnYear
  <2>5. \A y \in Years : Created(y) => Splits(PeriodsOf(y), year[y].first, year[y].last)
    BY DEF Inv, PeriodsSplitYear
  <2>6. ASSUME NEW p \in OpenPeriodsFor(d)
        PROVE  p.year \in OpenYearsAt(d)
    <3>1. p \in periods /\ In(d, p) /\ p.status = "OPEN"
      BY <2>6 DEF OpenPeriodsFor
    <3>2. year[p.year].status = "OPEN"
      BY <3>1, <2>1, <2>2, <2>3, <2>4
    <3>3. year[p.year].first <= p.first /\ p.last <= year[p.year].last
      BY <3>1, <2>1, <2>4, <2>5 DEF Splits, PeriodsOf
    <3> QED
      BY <3>1, <3>2, <3>3, <2>1, <2>2, Calendar DEF OpenYearsAt, In
  <2>7. ASSUME NEW y \in OpenYearsAt(d)
        PROVE  \E p \in OpenPeriodsFor(d) :
                  /\ p.year = y
                  /\ \A q \in OpenPeriodsFor(d) : q.year = y => q = p
    <3>1. /\ y \in Years /\ year[y].status = "OPEN"
          /\ year[y].first <= d /\ d <= year[y].last
      BY <2>7 DEF OpenYearsAt
    <3>2. d \in year[y].first..year[y].last
      BY <3>1, <2>2, Calendar
    <3>3. Splits(PeriodsOf(y), year[y].first, year[y].last)
      BY <3>1, <2>2, <2>5
    <3>4. PICK p \in PeriodsOf(y) :
             In(d, p) /\ \A q \in PeriodsOf(y) : In(d, q) => q = p
      BY <3>2, <3>3 DEF Splits
    <3>5. p \in OpenPeriodsFor(d) /\ p.year = y
      BY <3>1, <3>4, <2>1 DEF OpenPeriodsFor, PeriodsOf, Inv, ClosedTogether
    <3>6. \A q \in OpenPeriodsFor(d) : q.year = y => q = p
      BY <3>4 DEF OpenPeriodsFor, PeriodsOf
    <3> QED
      BY <3>5, <3>6
  <2> QED
    BY <2>6, <2>7
<1> QED
  BY Invariant, <1>1, PTL

=============================================================================
