---------------------- MODULE JournalEntriesRefinement ----------------------
(***************************************************************************)
(* One request at a time, JournalEntries implements EntryBook: the         *)
(* committed rows are the books, a COMMIT is one operation and every other *)
(* statement is a stutter.                                                 *)
(***************************************************************************)
EXTENDS JournalEntries

Books == INSTANCE EntryBook WITH entries <- entries, lastSeq <- lastSeq,
                               period <- period, year <- year

\* Served one at a time, the requests of the service do to the committed
\* database exactly what EntryBook lets an operation do, whatever crashes:
\* the guards read before the writes still hold when the writes commit, and
\* the fiscal year that reverse_entry and post_entry do not read is open.
ImplementsBook == Books!Spec

=============================================================================
