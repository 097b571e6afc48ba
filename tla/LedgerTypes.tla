---------------------------- MODULE LedgerTypes ----------------------------
(***************************************************************************)
(* The data of the general ledger (accounting_service/app/models): journal *)
(* entries with their lines, and the fixed part of the database they refer *)
(* to.  EntryBook and JournalEntries are both built on it.                 *)
(***************************************************************************)
EXTENDS Integers, Sequences, Functions

CONSTANTS
    EntryIds,    \* primary keys the run may use (uuid4 in the code)
    Journals,    \* journals of the plan
    EX,          \* the journal of reversals, JournalCode.EX
    Periods,     \* accounting periods
    Years,       \* fiscal years
    YearOf,      \* period.fiscal_year_id
    Accounts,    \* chart of accounts
    Usable,      \* the accounts that are active
    Bodies,      \* line lists a client may submit (JournalEntryCreate.lines)
    Events,      \* (source_service, source_event_id) pairs
    Posting,     \* what the accounting rules make of an event
    Users,       \* who posts: the sub of the token, or "kafka-consumer"
    NoRow, NoEntry, NoEvent, NoUser

-----------------------------------------------------------------------------
(* Lines *)

Line == [account : Accounts, debit : Nat, credit : Nat]

TotalDebit(ls)  == SumFunction([i \in DOMAIN ls |-> ls[i].debit])
TotalCredit(ls) == SumFunction([i \in DOMAIN ls |-> ls[i].credit])
Balanced(ls)    == TotalDebit(ls) = TotalCredit(ls)

\* Mutants: the credit side is forgotten; no swap.
MirrorHalf(ls) == [i \in DOMAIN ls |-> [account |-> ls[i].account,
                                        debit   |-> ls[i].credit,
                                        credit  |-> 0]]
MirrorCopied(ls) == ls

\* The lines of a reversal: same accounts, debit and credit exchanged.
Mirror(ls) == [i \in DOMAIN ls |-> [account |-> ls[i].account,
                                    debit   |-> ls[i].credit,
                                    credit  |-> ls[i].debit]]

(* Entries *)

Statuses == {"DRAFT", "POSTED", "REVERSED"}

Row == [journal : Journals, seq : Nat, date : Periods, lines : Seq(Line),
        status : Statuses, mirrorOf : EntryIds \cup {NoEntry},
        event : Events \cup {NoEvent}, postedBy : Users \cup {NoUser}]

-----------------------------------------------------------------------------
(* Assumptions *)

ASSUME JournalAssumption == EX \in Journals
ASSUME CalendarAssumption == YearOf \in [Periods -> Years]
\* JournalEntryCreate.validate_double_entry and the rules' debit/credit pairs
ASSUME BodyAssumption ==
    /\ \A b \in Bodies : b \in Seq(Line) /\ Balanced(b)
    /\ Posting \in [Events -> [journal : Journals, date : Periods, lines : Bodies]]
ASSUME NullAssumption ==
    /\ NoRow \notin Row
    /\ NoEntry \notin EntryIds
    /\ NoEvent \notin Events
    /\ NoUser \notin Users

=============================================================================
