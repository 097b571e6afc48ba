-------------------------- MODULE MCJournalEntries --------------------------
(* The instances of JournalEntries that TLC checks. *)
EXTENDS JournalEntriesRefinement, TLC

CONSTANTS cash, loans, closedAcct, OD, ev1, p1, p2, y1

\* A loan paid out in cash, and the same on an account that is not active.
PaidOut(a) == <<[account |-> loans, debit |-> 2, credit |-> 0],
                [account |-> a, debit |-> 0, credit |-> 1],
                [account |-> a, debit |-> 0, credit |-> 1]>>

MCBodies  == {PaidOut(cash), PaidOut(closedAcct)}
MCPosting == [e \in Events |-> [journal |-> OD, date |-> p1, lines |-> PaidOut(cash)]]
OneYear   == [p \in Periods |-> y1]

Symmetric    == Permutations(Requests) \cup Permutations(EntryIds)
SymmetricIds == Permutations(EntryIds)

=============================================================================
