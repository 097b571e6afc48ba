--------------------------- MODULE FiscalPeriods ---------------------------
(***************************************************************************)
(* Fiscal years and the monthly periods that FiscalYearService.create      *)
(* generates for them.  A creation is one transaction whose loop inserts   *)
(* one period per month; several may run at once.  Closing is atomic here: *)
(* JournalEntries interleaves it with the requests it races with.          *)
(*                                                                         *)
(* A date is the number of its day, and all the calendar needs to say is   *)
(* which day is the last of the month of a given day.                      *)
(***************************************************************************)
EXTENDS Integers

CONSTANTS
    Requests,
    Years,       \* names of fiscal years, unique in the database
    LastDay,     \* the days are 1..LastDay
    MonthEnd,    \* the last day of the month of a day
    NoYear

Days == 1..LastDay

ASSUME CalendarAssumption ==
    /\ LastDay \in Nat
    /\ MonthEnd \in [Days -> Days]
    /\ \A d \in Days : d <= MonthEnd[d]
    /\ \A d \in Days : \A e \in d..MonthEnd[d] : MonthEnd[e] = MonthEnd[d]
    /\ NoYear \notin [year : Years, first : Days, last : Days]

VARIABLES
    year,      \* fiscal years: their dates and status, committed
    periods,   \* accounting periods, committed
    pc,
    making,    \* the year that each request creates
    current,   \* first day of the next period of its loop
    made       \* the periods it has inserted and not committed

vars == <<year, periods, pc, making, current, made>>

FiscalYear == [first : Days, last : Days, status : {"OPEN", "CLOSED"}]
NoDates    == [first |-> 1, last |-> 0, status |-> "NONE"]

\* ck_period_dates: a period has two days at least.
PeriodRow == {p \in [year : Years, first : Days, last : Days, status : {"OPEN", "LOCKED"}] :
                p.first < p.last}

Making == [year : Years, first : Days, last : Days] \cup {NoYear}

Init ==
    /\ year = [y \in Years |-> NoDates]
    /\ periods = {}
    /\ pc = [r \in Requests |-> "idle"]
    /\ making = [r \in Requests |-> NoYear]
    /\ current = [r \in Requests |-> 1]
    /\ made = [r \in Requests |-> {}]

Created(y) == year[y] # NoDates

-----------------------------------------------------------------------------
(* FiscalYearService.create *)

\* The schema wants two days at least; the INSERT waits for a request that
\* inserts the same name, and fails, without effect, if that one committed.
InsertYear(r, y, first, last) ==
    /\ pc[r] = "idle"
    /\ first < last
    /\ ~Created(y)
    /\ \A q \in Requests : making[q] # NoYear => making[q].year # y
    /\ pc' = [pc EXCEPT ![r] = "periods"]
    /\ making' = [making EXCEPT ![r] = [year |-> y, first |-> first, last |-> last]]
    /\ current' = [current EXCEPT ![r] = first]
    /\ UNCHANGED <<year, periods, made>>

\* Mutant: the last month is not cut at the end of the year.
WholeMonth(r) == MonthEnd[current[r]]

\* The end of the month, cut at the end of the year.
PeriodEnd(r) == IF MonthEnd[current[r]] > making[r].last
                THEN making[r].last
                ELSE MonthEnd[current[r]]

Looping(r) == pc[r] = "periods" /\ current[r] <= making[r].last

\* One turn of the loop: a period, then the first day of the next month.
InsertPeriod(r) ==
    /\ Looping(r)
    /\ current[r] < PeriodEnd(r)
    /\ made' = [made EXCEPT ![r] = @ \cup
                  {[year |-> making[r].year, first |-> current[r],
                    last |-> PeriodEnd(r), status |-> "OPEN"]}]
    /\ current' = [current EXCEPT ![r] = MonthEnd[@] + 1]
    /\ UNCHANGED <<year, periods, pc, making>>

Release(r) ==
    /\ pc' = [pc EXCEPT ![r] = "idle"]
    /\ making' = [making EXCEPT ![r] = NoYear]
    /\ current' = [current EXCEPT ![r] = 1]
    /\ made' = [made EXCEPT ![r] = {}]

\* A period of one day violates ck_period_dates: IntegrityError, rollback.
RefusePeriod(r) ==
    /\ Looping(r)
    /\ current[r] = PeriodEnd(r)
    /\ Release(r)
    /\ UNCHANGED <<year, periods>>

Commit(r) ==
    /\ pc[r] = "periods"
    /\ current[r] > making[r].last
    /\ year' = [year EXCEPT ![making[r].year] =
                  [first |-> making[r].first, last |-> making[r].last, status |-> "OPEN"]]
    /\ periods' = periods \cup made[r]
    /\ Release(r)

Crash(r) == pc[r] = "periods" /\ Release(r) /\ UNCHANGED <<year, periods>>

-----------------------------------------------------------------------------
(* FiscalYearService.close *)

\* Mutant: the first period only.
CloseFirst(y) ==
    /\ year[y].status = "OPEN"
    /\ year' = [year EXCEPT ![y].status = "CLOSED"]
    /\ periods' = {IF p.year = y /\ p.first = year[y].first
                   THEN [p EXCEPT !.status = "LOCKED"] ELSE p : p \in periods}
    /\ UNCHANGED <<pc, making, current, made>>

\* The year and all of its open periods.
Close(y) ==
    /\ year[y].status = "OPEN"
    /\ year' = [year EXCEPT ![y].status = "CLOSED"]
    /\ periods' = {IF p.year = y THEN [p EXCEPT !.status = "LOCKED"] ELSE p : p \in periods}
    /\ UNCHANGED <<pc, making, current, made>>

Next ==
    \/ \E r \in Requests :
         \/ \E y \in Years, first, last \in Days : InsertYear(r, y, first, last)
         \/ InsertPeriod(r) \/ RefusePeriod(r) \/ Commit(r) \/ Crash(r)
    \/ \E y \in Years : Close(y)

Spec == Init /\ [][Next]_vars

-----------------------------------------------------------------------------
(* Properties *)

\* Every variable keeps its type.
TypeOK ==
    /\ year \in [Years -> FiscalYear \cup {NoDates}]
    /\ periods \subseteq PeriodRow
    /\ pc \in [Requests -> {"idle", "periods"}]
    /\ making \in [Requests -> Making]
    /\ \A r \in Requests : making[r] = NoYear <=> pc[r] = "idle"
    /\ current \in [Requests -> Days \cup {LastDay + 1}]
    /\ made \in [Requests -> SUBSET PeriodRow]

In(d, p) == p.first <= d /\ d <= p.last

\* A set of periods splits the days from first to last: each day is in exactly
\* one of them, and they contain no other day.
Splits(ps, first, last) ==
    /\ \A p \in ps : first <= p.first /\ p.last <= last
    /\ \A d \in first..last : \E p \in ps : In(d, p) /\ \A q \in ps : In(d, q) => q = p

PeriodsOf(y) == {p \in periods : p.year = y}

\* The periods that the loop makes of a year split it, wherever in a month the
\* year begins and ends: every date of a year has its period, and one only.
PeriodsSplitYear ==
    \A y \in Years : Created(y) => Splits(PeriodsOf(y), year[y].first, year[y].last)

\* get_open_period_for_date, which expects one row at most.
OpenPeriodsFor(d) == {p \in periods : In(d, p) /\ p.status = "OPEN"}

OpenYearsAt(d) == {y \in Years : /\ year[y].status = "OPEN"
                                 /\ year[y].first <= d /\ d <= year[y].last}

\* A date has one open period for each open year it is in.  So every date of an
\* open year can be booked on, and the only dates with more than one open period
\* (where create_entry raises) are those on which open years overlap: nothing in
\* create compares a year with the others.
OneOpenPeriodPerYear ==
    \A d \in Days : /\ {p.year : p \in OpenPeriodsFor(d)} = OpenYearsAt(d)
                    /\ \A p, q \in OpenPeriodsFor(d) : p.year = q.year => p = q

\* Year and periods are closed together: create_entry reads both, post_entry and
\* reverse_entry the period only, and they must not disagree.
ClosedTogether ==
    \A p \in periods : p.status = "LOCKED" <=> year[p.year].status = "CLOSED"

=============================================================================
