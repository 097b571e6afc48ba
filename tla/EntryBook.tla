----------------------------- MODULE EntryBook -----------------------------
(***************************************************************************)
(* What the accounting service promises of its journal entries, with no    *)
(* transactions and no interleaving: every operation of JournalEntryService*)
(* and FiscalYearService.close is one step on the books.                   *)
(***************************************************************************)
EXTENDS LedgerTypes

VARIABLES entries, lastSeq, period, year

vars == <<entries, lastSeq, period, year>>

Init ==
    /\ entries = [e \in EntryIds |-> NoRow]
    /\ lastSeq = [j \in Journals |-> 0]
    /\ period = [p \in Periods |-> "OPEN"]
    /\ year = [y \in Years |-> "OPEN"]

Recorded == {e \in EntryIds : entries[e] # NoRow}

OpenFor(p) == period[p] = "OPEN" /\ year[YearOf[p]] = "OPEN"

Accepts(ls) == \A i \in DOMAIN ls : ls[i].account \in Usable

\* A new row takes the next number of its journal.
Enter(e, row) ==
    /\ e \notin Recorded
    /\ row.seq = lastSeq[row.journal] + 1
    /\ OpenFor(row.date)
    /\ entries' = [entries EXCEPT ![e] = row]
    /\ lastSeq' = [lastSeq EXCEPT ![row.journal] = row.seq]
    /\ UNCHANGED <<period, year>>

\* create_entry
Record(e, j, p, ls) ==
    /\ Accepts(ls)
    /\ Enter(e, [journal |-> j, seq |-> lastSeq[j] + 1, date |-> p, lines |-> ls,
                  status |-> "DRAFT", mirrorOf |-> NoEntry, event |-> NoEvent,
                  postedBy |-> NoUser])

\* process_event: recorded and posted at once, the first time it is seen
Book(e, ev, u) ==
    /\ \A f \in Recorded : entries[f].event # ev
    /\ Accepts(Posting[ev].lines)
    /\ LET j == Posting[ev].journal
       IN  Enter(e, [journal |-> j, seq |-> lastSeq[j] + 1, date |-> Posting[ev].date,
                      lines |-> Posting[ev].lines, status |-> "POSTED",
                      mirrorOf |-> NoEntry, event |-> ev, postedBy |-> u])

\* post_entry
Validate(e, u) ==
    /\ e \in Recorded
    /\ entries[e].status = "DRAFT"
    /\ OpenFor(entries[e].date)
    /\ entries' = [entries EXCEPT ![e].status = "POSTED", ![e].postedBy = u]
    /\ UNCHANGED <<lastSeq, period, year>>

\* reverse_entry: the mirror is appended and the original marked, together
Reverse(e, m, p, u) ==
    /\ e \in Recorded
    /\ m \notin Recorded
    /\ entries[e].status = "POSTED"
    /\ \A f \in Recorded : entries[f].mirrorOf # e
    /\ OpenFor(p)
    /\ entries' = [entries EXCEPT
          ![e].status = "REVERSED",
          ![m] = [journal |-> EX, seq |-> lastSeq[EX] + 1, date |-> p,
                  lines |-> Mirror(entries[e].lines), status |-> "POSTED",
                  mirrorOf |-> e, event |-> NoEvent, postedBy |-> u]]
    /\ lastSeq' = [lastSeq EXCEPT ![EX] = lastSeq[EX] + 1]
    /\ UNCHANGED <<period, year>>

\* FiscalYearService.close
Close(y) ==
    /\ year[y] = "OPEN"
    /\ year' = [year EXCEPT ![y] = "CLOSED"]
    /\ period' = [p \in Periods |-> IF YearOf[p] = y THEN "LOCKED" ELSE period[p]]
    /\ UNCHANGED <<entries, lastSeq>>

Next ==
    \/ \E e \in EntryIds :
         \/ \E j \in Journals, p \in Periods, ls \in Bodies : Record(e, j, p, ls)
         \/ \E ev \in Events, u \in Users : Book(e, ev, u)
         \/ \E u \in Users : Validate(e, u)
         \/ \E m \in EntryIds, p \in Periods, u \in Users : Reverse(e, m, p, u)
    \/ \E y \in Years : Close(y)

Spec == Init /\ [][Next]_vars

=============================================================================
