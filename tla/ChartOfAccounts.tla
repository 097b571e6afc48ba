-------------------------- MODULE ChartOfAccounts --------------------------
(***************************************************************************)
(* The chart of accounts beside the entries: AccountService, with every    *)
(* operation of it and of JournalEntryService one step.  The chart changes *)
(* under entries that already use its accounts.                            *)
(*                                                                         *)
(* Periods are single days here: the status of a day is its period's.      *)
(***************************************************************************)
EXTENDS EntryBook, FiniteSetsExt

CONSTANTS
    Template,    \* the accounts of the plan loaded at the start
    NoAccount

VARIABLE chart   \* rows of account_plans

AccountRow == [active : BOOLEAN, leaf : BOOLEAN, parent : Accounts \cup {NoAccount}]

ASSUME TemplateAssumption ==
    /\ Template \subseteq Accounts /\ IsFiniteSet(Template)
    /\ NoAccount \notin Accounts /\ NoRow \notin AccountRow
    /\ Usable = Accounts        \* what is usable is for the chart to say
    /\ Periods \subseteq Nat

Fresh(p) == [active |-> TRUE, leaf |-> TRUE, parent |-> p]

ChartInit ==
    /\ Init
    /\ chart = [a \in Accounts |-> IF a \in Template THEN Fresh(NoAccount) ELSE NoRow]

Opened == {a \in Accounts : chart[a] # NoRow}
Children(a) == {b \in Opened : chart[b].parent = a}

-----------------------------------------------------------------------------
(* The lines of the books, as <<entry, index>> *)

Lines == UNION {{e} \X DOMAIN entries[e].lines : e \in Recorded}
At(l) == entries[l[1]].lines[l[2]]
DateOf(l) == entries[l[1]].date

On(as, ls) == {l \in ls : At(l).account \in as}
Debits(ls)  == MapThenSumSet(LAMBDA l : At(l).debit, ls)
Credits(ls) == MapThenSumSet(LAMBDA l : At(l).credit, ls)

\* je.status = 'POSTED': a draft does not count, nor does a reversed entry.
PostedLines == {l \in Lines : entries[l[1]].status = "POSTED"}

Until(d)      == {l \in PostedLines : DateOf(l) <= d}
Within(s, d)  == {l \in PostedLines : DateOf(l) \in s..d}

-----------------------------------------------------------------------------
(* Operations *)

\* create: the parent is no leaf any more, whatever is booked on it.
OpenAccount(a, p) ==
    /\ a \notin Opened
    /\ p \in Opened \cup {NoAccount}
    /\ chart' = [b \in Accounts |->
          CASE b = a -> Fresh(p)
            [] b = p -> [chart[p] EXCEPT !.leaf = FALSE]
            [] OTHER -> chart[b]]
    /\ UNCHANGED vars

\* deactivate, called on day "today": no child, and nothing booked up to today.
Deactivate(a, today) ==
    /\ a \in Opened
    /\ Children(a) = {}
    /\ Debits(On({a}, Until(today))) = 0
    /\ Credits(On({a}, Until(today))) = 0
    /\ chart' = [chart EXCEPT ![a].active = FALSE]
    /\ UNCHANGED vars

\* update with is_active: none of the checks of deactivate.
Patch(a, active) ==
    /\ a \in Opened
    /\ chart' = [chart EXCEPT ![a].active = active]
    /\ UNCHANGED vars

\* create_entry looks at is_active, neither at is_leaf nor at
\* allow_manual_entry; post_entry and reverse_entry look at no account.
RecordOnActive(e, j, d, ls) ==
    /\ \A i \in DOMAIN ls : ls[i].account \in Opened /\ chart[ls[i].account].active
    /\ Record(e, j, d, ls)
    /\ UNCHANGED chart

\* process_event checks the accounts of the rules, then creates and posts.
Ingest(e, ev, u) ==
    /\ \A i \in DOMAIN Posting[ev].lines :
          LET a == Posting[ev].lines[i].account IN a \in Opened /\ chart[a].active
    /\ Book(e, ev, u)
    /\ UNCHANGED chart

Post(e, u) == Validate(e, u) /\ UNCHANGED chart

ReverseOn(e, m, d, u) == Reverse(e, m, d, u) /\ UNCHANGED chart

=============================================================================
