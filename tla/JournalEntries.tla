--------------------------- MODULE JournalEntries ---------------------------
(***************************************************************************)
(* The life of journal entries in the accounting service, at the grain at  *)
(* which PostgreSQL interleaves requests (READ COMMITTED).                 *)
(*                                                                         *)
(* A request is one HTTP call or one attempt of the Kafka consumer.  It    *)
(* runs in one database transaction (db/session.py): every SELECT sees the *)
(* rows committed at that moment plus the request's own flushed rows, what *)
(* it writes becomes visible to the others at COMMIT only, and an UPDATE   *)
(* holds its row until the transaction ends.  Each action below is one     *)
(* statement of JournalEntryService or FiscalYearService.close.            *)
(*                                                                         *)
(* Accounting dates are represented by the period that contains them;      *)
(* FiscalPeriods.tla is about how periods cover dates.                     *)
(***************************************************************************)
EXTENDS LedgerTypes, FiniteSets

CONSTANTS
    Requests,    \* concurrent requests, each acting for a user of its own
    Delivery,    \* outcomes of a send to Kafka: {TRUE, FALSE}, or one of them
    NoPeriod, NoYear

VARIABLES
    entries,     \* committed rows of journal_entries, with their lines
    lastSeq,     \* journals.last_sequence, committed
    period,      \* accounting_periods.status, committed
    year,        \* fiscal_years.status, committed
    announced,   \* what was sent to accounting.events
    pc,          \* next statement of each request
    job,         \* its arguments
    drawn,       \* sequence numbers it took, 0 when none: it holds the row
    writes,      \* rows of journal_entries it flushed and did not commit
    toLock       \* periods FiscalYearService.close found OPEN

db      == <<entries, lastSeq, period, year>>
private == <<job, drawn, writes, toLock>>
vars    == <<entries, lastSeq, period, year, announced, pc, job, drawn, writes, toLock>>

-----------------------------------------------------------------------------
(* Types *)

Ops == {"none", "create", "ingest", "post", "reverse", "close"}

Job == [op : Ops, target : EntryIds \cup {NoEntry}, date : Periods \cup {NoPeriod},
        event : Events \cup {NoEvent}, year : Years \cup {NoYear}]

NoJob == [op |-> "none", target |-> NoEntry, date |-> NoPeriod,
          event |-> NoEvent, year |-> NoYear]

Statements ==
    {"idle", "findEvent", "openPeriod", "openYear", "sequence", "insertDraft",
     "checkAccounts", "readDraft", "postPeriod", "flushPosted", "announcePosted",
     "readOriginal", "findReversals", "insertReversal", "flushReversed",
     "readYear", "readPeriods", "announceClosed", "commit", "failed"}

ASSUME DeliveryAssumption == Delivery \subseteq BOOLEAN /\ Delivery # {}
ASSUME RequestAssumption == Requests \subseteq Users /\ NoYear \notin Years

-----------------------------------------------------------------------------
Init ==
    /\ entries = [e \in EntryIds |-> NoRow]
    /\ lastSeq = [j \in Journals |-> 0]
    /\ period = [p \in Periods |-> "OPEN"]
    /\ year = [y \in Years |-> "OPEN"]
    /\ announced = {}
    /\ pc = [r \in Requests |-> "idle"]
    /\ job = [r \in Requests |-> NoJob]
    /\ drawn = [r \in Requests |-> [j \in Journals |-> 0]]
    /\ writes = [r \in Requests |-> [e \in EntryIds |-> NoRow]]
    /\ toLock = [r \in Requests |-> {}]

Exists(e) == entries[e] # NoRow

\* A row as request r reads it: its own flushed version first.
View(r, e) == IF writes[r][e] # NoRow THEN writes[r][e] ELSE entries[e]

Free(e) == entries[e] = NoRow /\ \A r \in Requests : writes[r][e] = NoRow

\* UPDATE journal_entries WHERE id = e waits while another request holds e.
RowFree(r, e) == \A q \in Requests \ {r} : writes[q][e] = NoRow

\* The statement succeeded and the handler goes on, or it raised.
Go(r, ok, next) == pc' = [pc EXCEPT ![r] = IF ok THEN next ELSE "failed"]

\* Bound of the model: a request that may insert starts only when an id is left.
Room == Cardinality({e \in EntryIds : Free(e)})
          > Cardinality({r \in Requests : job[r].op \in {"create", "ingest", "reverse"}})

-----------------------------------------------------------------------------
(* Requests arriving *)

Start(r, j, first) ==
    /\ pc[r] = "idle"
    /\ job' = [job EXCEPT ![r] = j]
    /\ pc' = [pc EXCEPT ![r] = first]
    /\ UNCHANGED <<db, announced, drawn, writes, toLock>>

\* POST /journal-entries
StartCreate(r) == Room /\ \E p \in Periods :
    Start(r, [NoJob EXCEPT !.op = "create", !.date = p], "openPeriod")

\* process_event: create_entry and post_entry in one transaction
StartIngest(r) == Room /\ \E ev \in Events :
    Start(r, [NoJob EXCEPT !.op = "ingest", !.event = ev, !.date = Posting[ev].date],
          "findEvent")

\* POST /journal-entries/{id}/post; an unknown id is a 404 without effect
StartPost(r) == \E e \in EntryIds :
    Exists(e) /\ Start(r, [NoJob EXCEPT !.op = "post", !.target = e], "readDraft")

\* POST /journal-entries/{id}/reverse
StartReverse(r) == Room /\ \E e \in EntryIds, p \in Periods :
    Exists(e) /\ Start(r, [NoJob EXCEPT !.op = "reverse", !.target = e, !.date = p],
                       "readOriginal")

\* POST /fiscal-years/{id}/close
StartClose(r) == \E y \in Years :
    Start(r, [NoJob EXCEPT !.op = "close", !.year = y], "readYear")

-----------------------------------------------------------------------------
(* create_entry *)

\* Idempotence: an event that already has a committed entry gets that entry.
FindEvent(r) ==
    /\ pc[r] = "findEvent"
    /\ LET known == {e \in EntryIds : Exists(e) /\ entries[e].event = job[r].event}
       IN  \/ known = {} /\ Go(r, TRUE, "openPeriod") /\ UNCHANGED job
           \/ \E e \in known : /\ job' = [job EXCEPT ![r].target = e]
                               /\ Go(r, TRUE, "readDraft")
    /\ UNCHANGED <<db, announced, drawn, writes, toLock>>

\* get_open_period_for_date, of create_entry and of reverse_entry
OpenPeriod(r) ==
    /\ pc[r] = "openPeriod"
    /\ Go(r, period[job[r].date] = "OPEN",
          IF job[r].op = "reverse" THEN "sequence" ELSE "openYear")
    /\ UNCHANGED <<db, announced, private>>

OpenYear(r) ==
    /\ pc[r] = "openYear"
    /\ Go(r, year[YearOf[job[r].date]] = "OPEN", "sequence")
    /\ UNCHANGED <<db, announced, private>>

JournalsFor(r) ==
    CASE job[r].op = "reverse" -> {EX}
      [] job[r].op = "ingest"  -> {Posting[job[r].event].journal}
      [] OTHER                 -> Journals

\* Mutant: the counter is read and written back without holding its row.
CounterUnlocked(j) == TRUE

CounterFree(j) == \A q \in Requests : drawn[q][j] = 0

\* UPDATE journals SET last_sequence = last_sequence + 1 ... RETURNING: waits
\* for the row, then reads the last committed value; held until the end.
NextSequence(r) ==
    /\ pc[r] = "sequence"
    /\ \E j \in JournalsFor(r) :
         /\ CounterFree(j)
         /\ drawn' = [drawn EXCEPT ![r][j] = lastSeq[j] + 1]
    /\ Go(r, TRUE, IF job[r].op = "reverse" THEN "insertReversal" ELSE "insertDraft")
    /\ UNCHANGED <<db, announced, job, writes, toLock>>

LinesFor(r) == IF job[r].op = "ingest" THEN {Posting[job[r].event].lines} ELSE Bodies

\* uq_event_idempotence: an INSERT waits for a request that inserted the same
\* event, and fails once that event is committed.
EventPending(r) == /\ job[r].event # NoEvent
                   /\ \E q \in Requests \ {r}, e \in EntryIds :
                        writes[q][e] # NoRow /\ writes[q][e].event = job[r].event
\* Mutant: no unique constraint on the event.
EventNeverTaken(r) == FALSE

EventTaken(r) == /\ job[r].event # NoEvent
                 /\ \E e \in EntryIds : Exists(e) /\ entries[e].event = job[r].event

\* The draft is inserted, and its lines once the accounts are checked.
InsertDraft(r) ==
    /\ pc[r] = "insertDraft"
    /\ ~EventPending(r)
    /\ ~EventTaken(r)
    /\ \E e \in EntryIds, j \in Journals, ls \in LinesFor(r) :
         /\ Free(e)
         /\ drawn[r][j] # 0
         /\ writes' = [writes EXCEPT ![r][e] =
              [journal |-> j, seq |-> drawn[r][j], date |-> job[r].date, lines |-> ls,
               status |-> "DRAFT", mirrorOf |-> NoEntry, event |-> job[r].event,
               postedBy |-> NoUser]]
         /\ job' = [job EXCEPT ![r].target = e]
    /\ Go(r, TRUE, "checkAccounts")
    /\ UNCHANGED <<db, announced, drawn, toLock>>

\* The INSERT meets a committed entry of the same event: IntegrityError.
DuplicateEvent(r) ==
    /\ pc[r] = "insertDraft"
    /\ EventTaken(r)
    /\ Go(r, FALSE, "failed")
    /\ UNCHANGED <<db, announced, private>>

\* Mutant: an account that is not active is accepted.
AcceptAccounts(r) ==
    /\ pc[r] = "checkAccounts"
    /\ Go(r, TRUE, IF job[r].op = "ingest" THEN "readDraft" ELSE "commit")
    /\ UNCHANGED <<db, announced, private>>

\* Every account is known and active, or the request raises.
CheckAccounts(r) ==
    /\ pc[r] = "checkAccounts"
    /\ LET ls == writes[r][job[r].target].lines
       IN  Go(r, \A i \in DOMAIN ls : ls[i].account \in Usable,
              IF job[r].op = "ingest" THEN "readDraft" ELSE "commit")
    /\ UNCHANGED <<db, announced, private>>

-----------------------------------------------------------------------------
(* post_entry *)

\* Mutant: only an already posted entry is refused.
ReadNotPosted(r) ==
    /\ pc[r] = "readDraft"
    /\ LET row == View(r, job[r].target)
       IN  Go(r, row.status # "POSTED" /\ Balanced(row.lines), "postPeriod")
    /\ UNCHANGED <<db, announced, private>>

\* The entry must be a draft, and its lines balance.
ReadDraft(r) ==
    /\ pc[r] = "readDraft"
    /\ LET row == View(r, job[r].target)
       IN  Go(r, row.status = "DRAFT" /\ Balanced(row.lines), "postPeriod")
    /\ UNCHANGED <<db, announced, private>>

\* Mutant: the period is not read again.
PostAnyPeriod(r) ==
    /\ pc[r] = "postPeriod"
    /\ Go(r, TRUE, "flushPosted")
    /\ UNCHANGED <<db, announced, private>>

\* Its period must be open; the fiscal year is not read.
PostPeriod(r) ==
    /\ pc[r] = "postPeriod"
    /\ Go(r, period[View(r, job[r].target).date] = "OPEN", "flushPosted")
    /\ UNCHANGED <<db, announced, private>>

\* Mutant: the entry takes its number when it is posted.
FlushThenNumber(r) ==
    /\ pc[r] = "flushPosted"
    /\ LET e == job[r].target
       IN  /\ RowFree(r, e)
           /\ writes' = [writes EXCEPT ![r][e] =
                           [View(r, e) EXCEPT !.status = "POSTED", !.postedBy = r]]
    /\ Go(r, TRUE, "sequence")
    /\ UNCHANGED <<db, announced, job, drawn, toLock>>

\* UPDATE ... SET status, posted_by WHERE id: on the row as it is by then.
FlushPosted(r) ==
    /\ pc[r] = "flushPosted"
    /\ LET e == job[r].target
       IN  /\ RowFree(r, e)
           /\ writes' = [writes EXCEPT ![r][e] =
                           [View(r, e) EXCEPT !.status = "POSTED", !.postedBy = r]]
    /\ Go(r, TRUE, "announcePosted")
    /\ UNCHANGED <<db, announced, job, drawn, toLock>>

\* ENTRY_POSTED is sent before COMMIT; a Kafka error is logged and dropped.
AnnouncePosted(r) ==
    /\ pc[r] = "announcePosted"
    /\ \E sent \in Delivery :
         announced' = IF sent THEN announced \cup {job[r].target} ELSE announced
    /\ Go(r, TRUE, "commit")
    /\ UNCHANGED <<db, private>>

-----------------------------------------------------------------------------
(* reverse_entry *)

\* Mutant: everything but an already reversed entry is accepted.
ReadNotReversed(r) ==
    /\ pc[r] = "readOriginal"
    /\ Go(r, entries[job[r].target].status # "REVERSED", "findReversals")
    /\ UNCHANGED <<db, announced, private>>

ReadOriginal(r) ==
    /\ pc[r] = "readOriginal"
    /\ Go(r, entries[job[r].target].status = "POSTED", "findReversals")
    /\ UNCHANGED <<db, announced, private>>

FindReversals(r) ==
    /\ pc[r] = "findReversals"
    /\ Go(r, ~\E e \in EntryIds : Exists(e) /\ entries[e].mirrorOf = job[r].target,
          "openPeriod")
    /\ UNCHANGED <<db, announced, private>>

\* The mirror entry is inserted, already POSTED, in journal EX.
InsertReversal(r) ==
    /\ pc[r] = "insertReversal"
    /\ \E e \in EntryIds :
         /\ Free(e)
         /\ writes' = [writes EXCEPT ![r][e] =
              [journal |-> EX, seq |-> drawn[r][EX], date |-> job[r].date,
               lines |-> Mirror(entries[job[r].target].lines), status |-> "POSTED",
               mirrorOf |-> job[r].target, event |-> NoEvent, postedBy |-> r]]
    /\ Go(r, TRUE, "flushReversed")
    /\ UNCHANGED <<db, announced, job, drawn, toLock>>

\* UPDATE of the original's status WHERE id: on the row as it is by then.
FlushReversed(r) ==
    /\ pc[r] = "flushReversed"
    /\ LET e == job[r].target
       IN  /\ RowFree(r, e)
           /\ writes' = [writes EXCEPT ![r][e] = [entries[e] EXCEPT !.status = "REVERSED"]]
    /\ Go(r, TRUE, "commit")
    /\ UNCHANGED <<db, announced, job, drawn, toLock>>

-----------------------------------------------------------------------------
(* FiscalYearService.close *)

ReadYear(r) ==
    /\ pc[r] = "readYear"
    /\ Go(r, year[job[r].year] # "CLOSED", "readPeriods")
    /\ UNCHANGED <<db, announced, private>>

ReadPeriods(r) ==
    /\ pc[r] = "readPeriods"
    /\ toLock' = [toLock EXCEPT ![r] =
                    {p \in Periods : YearOf[p] = job[r].year /\ period[p] = "OPEN"}]
    /\ Go(r, TRUE, "announceClosed")
    /\ UNCHANGED <<db, announced, job, drawn, writes>>

AnnounceClosed(r) ==
    /\ pc[r] = "announceClosed"
    /\ \E sent \in Delivery :
         announced' = IF sent THEN announced \cup {job[r].year} ELSE announced
    /\ Go(r, TRUE, "commit")
    /\ UNCHANGED <<db, private>>

-----------------------------------------------------------------------------
(* End of the transaction *)

Release(r) ==
    /\ pc' = [pc EXCEPT ![r] = "idle"]
    /\ job' = [job EXCEPT ![r] = NoJob]
    /\ drawn' = [drawn EXCEPT ![r] = [j \in Journals |-> 0]]
    /\ writes' = [writes EXCEPT ![r] = [e \in EntryIds |-> NoRow]]
    /\ toLock' = [toLock EXCEPT ![r] = {}]

Commit(r) ==
    /\ pc[r] = "commit"
    /\ entries' = [e \in EntryIds |-> View(r, e)]
    /\ lastSeq' = [j \in Journals |-> IF drawn[r][j] # 0 THEN drawn[r][j] ELSE lastSeq[j]]
    /\ period' = [p \in Periods |-> IF p \in toLock[r] THEN "LOCKED" ELSE period[p]]
    /\ year' = [y \in Years |-> IF y = job[r].year THEN "CLOSED" ELSE year[y]]
    /\ Release(r)
    /\ UNCHANGED announced

\* Mutant: the connection is given back without a rollback, and keeps its rows.
GiveBack(r) ==
    /\ pc[r] = "failed"
    /\ pc' = [pc EXCEPT ![r] = "idle"]
    /\ job' = [job EXCEPT ![r] = NoJob]
    /\ UNCHANGED <<db, announced, drawn, writes, toLock>>

\* The handler raised: get_session rolls back.
Rollback(r) == pc[r] = "failed" /\ Release(r) /\ UNCHANGED <<db, announced>>

\* The process, the connection or the client dies; PostgreSQL rolls back.
Crash(r) == pc[r] \notin {"idle", "failed"} /\ Release(r) /\ UNCHANGED <<db, announced>>

-----------------------------------------------------------------------------
Arrive(r) == StartCreate(r) \/ StartIngest(r) \/ StartPost(r) \/ StartReverse(r) \/ StartClose(r)

Step(r) ==
    \/ FindEvent(r) \/ OpenPeriod(r) \/ OpenYear(r) \/ NextSequence(r)
    \/ InsertDraft(r) \/ DuplicateEvent(r) \/ CheckAccounts(r)
    \/ ReadDraft(r) \/ PostPeriod(r) \/ FlushPosted(r) \/ AnnouncePosted(r)
    \/ ReadOriginal(r) \/ FindReversals(r) \/ InsertReversal(r) \/ FlushReversed(r)
    \/ ReadYear(r) \/ ReadPeriods(r) \/ AnnounceClosed(r)
    \/ Commit(r) \/ Rollback(r)

Next == \E r \in Requests : Arrive(r) \/ Step(r) \/ Crash(r)

Spec == Init /\ [][Next]_vars

\* The event loop and PostgreSQL keep executing a request they accepted, and
\* PostgreSQL serves the waiters of a row in turn, so a statement that can go
\* ahead again and again does; nothing obliges a client to send a request, nor
\* a process to crash.
FairSpec == Spec /\ \A r \in Requests : SF_vars(Step(r))

-----------------------------------------------------------------------------
(* Properties *)

\* Every variable keeps its type.
TypeOK ==
    /\ entries \in [EntryIds -> Row \cup {NoRow}]
    /\ lastSeq \in [Journals -> Nat]
    /\ period \in [Periods -> {"OPEN", "LOCKED"}]
    /\ year \in [Years -> {"OPEN", "CLOSED"}]
    /\ announced \subseteq EntryIds \cup Years
    /\ pc \in [Requests -> Statements]
    /\ job \in [Requests -> Job]
    /\ drawn \in [Requests -> [Journals -> Nat]]
    /\ writes \in [Requests -> [EntryIds -> Row \cup {NoRow}]]
    /\ toLock \in [Requests -> SUBSET Periods]

\* The committed entries of a journal carry the numbers 1..last_sequence, each
\* once, whatever is rolled back or crashes: no hole and no duplicate, the
\* continuous numbering an auditor expects of next_sequence.
GaplessNumbering ==
    \A j \in Journals :
        LET inJournal == {e \in EntryIds : Exists(e) /\ entries[e].journal = j}
        IN  /\ \A e, f \in inJournal : entries[e].seq = entries[f].seq => e = f
            /\ {entries[e].seq : e \in inJournal} = 1..lastSeq[j]

\* An external event is booked by one entry at most, although two requests can
\* both miss it in get_by_event_id: the unique constraint has the last word.
OneEntryPerEvent ==
    \A e, f \in EntryIds :
        Exists(e) /\ Exists(f) /\ entries[e].event # NoEvent
            /\ entries[e].event = entries[f].event => e = f

\* Double entry: the lines of every committed entry balance, those that
\* reverse_entry derives included (the schema checks only what clients send).
EveryEntryBalanced == \A e \in EntryIds : Exists(e) => Balanced(entries[e].lines)

\* m undoes e line by line.
Undoes(m, e) ==
    /\ Len(entries[m].lines) = Len(entries[e].lines)
    /\ \A i \in DOMAIN entries[e].lines :
          /\ entries[m].lines[i].account = entries[e].lines[i].account
          /\ entries[m].lines[i].debit = entries[e].lines[i].credit
          /\ entries[m].lines[i].credit = entries[e].lines[i].debit

Mirrors(e) == {m \in EntryIds : Exists(m) /\ entries[m].mirrorOf = e}

\* A mirror undoes an entry that exists and had been posted, and no entry is
\* REVERSED without one: the two writes of reverse_entry commit together.
MirrorsMatch ==
    \A e \in EntryIds :
        /\ \A m \in Mirrors(e) : /\ Exists(e) /\ entries[e].status # "DRAFT"
                                /\ entries[m].status # "DRAFT"
                                /\ Undoes(m, e)
        /\ Exists(e) /\ entries[e].status = "REVERSED" => Mirrors(e) # {}

\* No step takes an entry back to DRAFT, skips POSTED on the way to REVERSED,
\* or makes a committed entry disappear.
StatusPath ==
    [][\A e \in EntryIds : Exists(e) =>
          /\ entries'[e] # NoRow
          /\ entries'[e].status = "DRAFT" => entries[e].status = "DRAFT"
          /\ entries'[e].status = "REVERSED" => entries[e].status # "DRAFT"]_entries

\* "Vérifier que l'écriture n'a pas déjà été extournée": one mirror at most.
AtMostOneReversal == \A e \in EntryIds : Cardinality(Mirrors(e)) <= 1

\* "Une écriture validée est immuable": a posted entry can only become
\* REVERSED, and a reversed one does not change any more.
PostedIsImmutable ==
    [][\A e \in EntryIds :
          /\ Exists(e) /\ entries[e].status = "POSTED" =>
                entries'[e] \in {entries[e], [entries[e] EXCEPT !.status = "REVERSED"]}
          /\ Exists(e) /\ entries[e].status = "REVERSED" =>
                entries'[e] = entries[e]]_entries

\* "Clôture de période : plus d'écritures possibles sur la période": an entry
\* enters the books, as a draft or as posted, in an open period only.
NothingBookedInClosedPeriod ==
    [][\A e \in EntryIds :
          /\ entries'[e] # NoRow
          /\ Exists(e) => entries[e].status = "DRAFT"
          /\ entries'[e] # entries[e]
          => period[entries'[e].date] = "OPEN"]_entries

\* Request r waits for a row or a key that request q holds.
WaitsFor(r, q) ==
    /\ q # r
    /\ \/ pc[r] = "sequence" /\ \E j \in JournalsFor(r) : drawn[q][j] # 0
       \/ /\ pc[r] = "insertDraft"
          /\ \E e \in EntryIds : /\ writes[q][e] # NoRow
                                /\ job[r].event # NoEvent
                                /\ writes[q][e].event = job[r].event
       \/ /\ pc[r] \in {"flushPosted", "flushReversed"}
          /\ writes[q][job[r].target] # NoRow

\* How far a statement is in its transaction, as far as locks go.
Rank(s) ==
    CASE s \in {"sequence"} -> 0
      [] s \in {"insertDraft", "insertReversal", "flushReversed"} -> 1
      [] s \in {"checkAccounts", "readDraft", "postPeriod", "flushPosted"} -> 2
      [] OTHER -> 3

\* No deadlock: a request only waits for one that is further in its transaction
\* (journal row, then event key, then entry row), so waits never form a circle.
LockOrder == \A r, q \in Requests : WaitsFor(r, q) => Rank(pc[r]) < Rank(pc[q])

\* A request that started ends, if the waiters of a row are served in turn: no
\* transaction keeps a row for ever and none waits in a circle.
RequestsEnd == \A r \in Requests : pc[r] # "idle" ~> pc[r] = "idle"

=============================================================================
