------------------------ MODULE JournalEntriesProofs ------------------------
(***************************************************************************)
(* Theorems about JournalEntries, for any number of requests, entries,     *)
(* journals, periods and years: first what holds however requests          *)
(* interleave, then that a service that runs one request at a time         *)
(* implements EntryBook.                                                   *)
(***************************************************************************)
EXTENDS JournalEntriesRefinement, TLAPS

-----------------------------------------------------------------------------
(* Lines *)

\* A reversal has well-formed lines: Mirror, in reverse_entry, loses none.
LEMMA MirrorType ==
    ASSUME NEW ls \in Seq(Line)
    PROVE  /\ Mirror(ls) \in Seq(Line)
           /\ Len(Mirror(ls)) = Len(ls)
  <1>1. DOMAIN ls = 1..Len(ls) /\ Len(ls) \in Nat
    OBVIOUS
  <1>2. \A i \in 1..Len(ls) : ls[i] \in Line
    OBVIOUS
  <1>3. Mirror(ls) = [i \in 1..Len(ls) |-> [account |-> ls[i].account,
                                            debit   |-> ls[i].credit,
                                            credit  |-> ls[i].debit]]
    BY <1>1 DEF Mirror
  <1>4. \A i \in 1..Len(ls) : [account |-> ls[i].account, debit |-> ls[i].credit,
                               credit |-> ls[i].debit] \in Line
    BY <1>2 DEF Line
  <1> QED
    BY <1>1, <1>3, <1>4

\* A reversal balances when the entry it undoes does.
LEMMA MirrorBalanced ==
    ASSUME NEW ls \in Seq(Line), Balanced(ls)
    PROVE  Balanced(Mirror(ls))
  <1>1. TotalDebit(Mirror(ls)) = TotalCredit(ls)
    <2>1. [i \in DOMAIN Mirror(ls) |-> Mirror(ls)[i].debit]
             = [i \in DOMAIN ls |-> ls[i].credit]
      BY DEF Mirror
    <2> QED
      BY <2>1 DEF TotalDebit, TotalCredit
  <1>2. TotalCredit(Mirror(ls)) = TotalDebit(ls)
    <2>1. [i \in DOMAIN Mirror(ls) |-> Mirror(ls)[i].credit]
             = [i \in DOMAIN ls |-> ls[i].debit]
      BY DEF Mirror
    <2> QED
      BY <2>1 DEF TotalDebit, TotalCredit
  <1> QED
    BY <1>1, <1>2 DEF Balanced

-----------------------------------------------------------------------------
(* Types *)

\* The arguments each statement relies on are there.
JobOK(r) ==
    /\ pc[r] = "findEvent" => job[r].op = "ingest"
    /\ pc[r] \in {"openPeriod", "sequence"} => job[r].op \in {"create", "ingest", "reverse"}
    /\ pc[r] \in {"openYear", "insertDraft", "checkAccounts"} => job[r].op \in {"create", "ingest"}
    /\ pc[r] \in {"readOriginal", "findReversals", "insertReversal", "flushReversed"}
         => job[r].op = "reverse"
    /\ pc[r] = "checkAccounts" => job[r].target \in EntryIds /\ writes[r][job[r].target] # NoRow
    /\ pc[r] \in {"readDraft", "postPeriod", "flushPosted", "announcePosted"}
         => /\ job[r].op \in {"ingest", "post"}
            /\ job[r].target \in EntryIds
            /\ View(r, job[r].target) # NoRow
    /\ pc[r] \in {"readYear", "readPeriods", "announceClosed"} => job[r].op = "close"
    /\ job[r].op \in {"create", "ingest", "reverse"} => job[r].date \in Periods
    /\ job[r].op = "ingest" => job[r].event \in Events
    /\ job[r].op = "reverse" => job[r].target \in EntryIds /\ Exists(job[r].target)
    /\ job[r].op = "close" => job[r].year \in Years

TypeInv == TypeOK /\ \A r \in Requests : JobOK(r)

LEMMA TypeInvInit == Init => TypeInv
  <1> SUFFICES ASSUME Init PROVE TypeInv
    OBVIOUS
  <1>1. TypeOK
    BY DEF Init, TypeOK, NoJob, Job, Ops, Statements
  <1>2. \A r \in Requests : JobOK(r)
    BY DEF Init, JobOK, NoJob
  <1> QED
    BY <1>1, <1>2 DEF TypeInv

\* What a request must be given to start with statement first.
Admissible(j, first) ==
    \/ j.op = "create" /\ first = "openPeriod" /\ j.date \in Periods
    \/ j.op = "ingest" /\ first = "findEvent" /\ j.date \in Periods /\ j.event \in Events
    \/ j.op = "post" /\ first = "readDraft" /\ j.target \in EntryIds /\ Exists(j.target)
    \/ /\ j.op = "reverse" /\ first = "readOriginal" /\ j.date \in Periods
       /\ j.target \in EntryIds /\ Exists(j.target)
    \/ j.op = "close" /\ first = "readYear" /\ j.year \in Years

LEMMA ArriveStarts ==
    ASSUME NEW r \in Requests, Arrive(r)
    PROVE  \E j \in Job, first \in Statements : Start(r, j, first) /\ Admissible(j, first)
  <1>1. CASE StartCreate(r)
    <2>1. PICK p \in Periods : Start(r, [NoJob EXCEPT !.op = "create", !.date = p], "openPeriod")
      BY <1>1 DEF StartCreate
    <2>2. [NoJob EXCEPT !.op = "create", !.date = p] \in Job
      BY DEF NoJob, Job, Ops
    <2> QED
      BY <2>1, <2>2 DEF Admissible, Statements, NoJob
  <1>2. CASE StartIngest(r)
    <2>1. PICK ev \in Events :
            Start(r, [NoJob EXCEPT !.op = "ingest", !.event = ev, !.date = Posting[ev].date],
                  "findEvent")
      BY <1>2 DEF StartIngest
    <2>2. Posting[ev].date \in Periods
      BY BodyAssumption
    <2>3. [NoJob EXCEPT !.op = "ingest", !.event = ev, !.date = Posting[ev].date] \in Job
      BY <2>2 DEF NoJob, Job, Ops
    <2> QED
      BY <2>1, <2>2, <2>3 DEF Admissible, Statements, NoJob
  <1>3. CASE StartPost(r)
    <2>1. PICK e \in EntryIds :
            Exists(e) /\ Start(r, [NoJob EXCEPT !.op = "post", !.target = e], "readDraft")
      BY <1>3 DEF StartPost
    <2>2. [NoJob EXCEPT !.op = "post", !.target = e] \in Job
      BY DEF NoJob, Job, Ops
    <2> QED
      BY <2>1, <2>2 DEF Admissible, Statements, NoJob
  <1>4. CASE StartReverse(r)
    <2>1. PICK e \in EntryIds, p \in Periods :
            /\ Exists(e)
            /\ Start(r, [NoJob EXCEPT !.op = "reverse", !.target = e, !.date = p], "readOriginal")
      BY <1>4 DEF StartReverse
    <2>2. [NoJob EXCEPT !.op = "reverse", !.target = e, !.date = p] \in Job
      BY DEF NoJob, Job, Ops
    <2> QED
      BY <2>1, <2>2 DEF Admissible, Statements, NoJob
  <1>5. CASE StartClose(r)
    <2>1. PICK y \in Years : Start(r, [NoJob EXCEPT !.op = "close", !.year = y], "readYear")
      BY <1>5 DEF StartClose
    <2>2. [NoJob EXCEPT !.op = "close", !.year = y] \in Job
      BY DEF NoJob, Job, Ops
    <2> QED
      BY <2>1, <2>2 DEF Admissible, Statements, NoJob
  <1> QED
    BY <1>1, <1>2, <1>3, <1>4, <1>5 DEF Arrive

LEMMA ArriveType ==
    ASSUME TypeInv, NEW r \in Requests, Arrive(r)
    PROVE  TypeInv'
  <1> USE DEF TypeInv
  <1>1. PICK j \in Job, first \in Statements : Start(r, j, first) /\ Admissible(j, first)
    BY ArriveStarts
  <1>2. TypeOK'
    BY <1>1 DEF TypeOK, Start, db
  <1>3. JobOK(r)'
    BY <1>1 DEF TypeOK, Start, db, JobOK, Exists, View, Admissible
  <1>4. ASSUME NEW q \in Requests, q # r PROVE JobOK(q)'
    BY <1>1, <1>4 DEF TypeOK, Start, db, JobOK, Exists, View
  <1> QED
    BY <1>2, <1>3, <1>4

\* A statement that only moves pc keeps the types, if the next one has what it needs.
LEMMA QuietType ==
    ASSUME TypeInv, NEW r \in Requests, NEW ok, NEW next \in Statements,
           Go(r, ok, next), UNCHANGED <<db, announced, private>>, JobOK(r)'
    PROVE  TypeInv'
  <1>1. TypeOK'
    BY DEF TypeInv, TypeOK, Go, db, private, Statements
  <1>2. ASSUME NEW q \in Requests, q # r PROVE JobOK(q)'
    BY <1>2 DEF TypeInv, TypeOK, Go, db, private, JobOK, Exists, View
  <1> QED
    BY <1>1, <1>2 DEF TypeInv

LEMMA ReadsType ==
    ASSUME TypeInv, NEW r \in Requests,
           \/ OpenPeriod(r) \/ OpenYear(r) \/ DuplicateEvent(r) \/ CheckAccounts(r)
           \/ ReadDraft(r) \/ PostPeriod(r) \/ ReadOriginal(r) \/ FindReversals(r) \/ ReadYear(r)
    PROVE  TypeInv'
  <1>1. CASE OpenPeriod(r)
    <2>1. JobOK(r)'
      BY <1>1 DEF OpenPeriod, TypeInv, TypeOK, Go, db, private, JobOK, Exists, View
    <2> QED
      BY <1>1, <2>1, QuietType DEF OpenPeriod, Statements
  <1>2. CASE OpenYear(r)
    <2>1. JobOK(r)'
      BY <1>2 DEF OpenYear, TypeInv, TypeOK, Go, db, private, JobOK, Exists, View
    <2> QED
      BY <1>2, <2>1, QuietType DEF OpenYear, Statements
  <1>3. CASE DuplicateEvent(r)
    <2>1. JobOK(r)'
      BY <1>3 DEF DuplicateEvent, TypeInv, TypeOK, Go, db, private, JobOK, Exists, View
    <2> QED
      BY <1>3, <2>1, QuietType DEF DuplicateEvent, Statements
  <1>4. CASE CheckAccounts(r)
    <2>1. JobOK(r)'
      BY <1>4 DEF CheckAccounts, TypeInv, TypeOK, Go, db, private, JobOK, Exists, View
    <2> QED
      BY <1>4, <2>1, QuietType, Zenon DEF CheckAccounts, Statements
  <1>5. CASE ReadDraft(r)
    <2>1. JobOK(r)'
      BY <1>5 DEF ReadDraft, TypeInv, TypeOK, Go, db, private, JobOK, Exists, View
    <2> QED
      BY <1>5, <2>1, QuietType DEF ReadDraft, Statements
  <1>6. CASE PostPeriod(r)
    <2>1. JobOK(r)'
      BY <1>6 DEF PostPeriod, TypeInv, TypeOK, Go, db, private, JobOK, Exists, View
    <2> QED
      BY <1>6, <2>1, QuietType, Zenon DEF PostPeriod, Statements
  <1>7. CASE ReadOriginal(r)
    <2>1. JobOK(r)'
      BY <1>7 DEF ReadOriginal, TypeInv, TypeOK, Go, db, private, JobOK, Exists, View
    <2> QED
      BY <1>7, <2>1, QuietType DEF ReadOriginal, Statements
  <1>8. CASE FindReversals(r)
    <2>1. JobOK(r)'
      BY <1>8 DEF FindReversals, TypeInv, TypeOK, Go, db, private, JobOK, Exists, View
    <2> QED
      BY <1>8, <2>1, QuietType DEF FindReversals, Statements
  <1>9. CASE ReadYear(r)
    <2>1. JobOK(r)'
      BY <1>9 DEF ReadYear, TypeInv, TypeOK, Go, db, private, JobOK, Exists, View
    <2> QED
      BY <1>9, <2>1, QuietType DEF ReadYear, Statements
  <1> QED
    BY <1>1, <1>2, <1>3, <1>4, <1>5, <1>6, <1>7, <1>8, <1>9

LEMMA RetargetType ==
    ASSUME TypeInv, NEW r \in Requests, NEW e \in EntryIds
    PROVE  [job[r] EXCEPT !.target = e] \in Job
  <1>1. job[r] \in Job
    BY DEF TypeInv, TypeOK
  <1> QED
    BY <1>1 DEF Job

LEMMA FindEventType ==
    ASSUME TypeInv, NEW r \in Requests, FindEvent(r)
    PROVE  TypeInv'
  <1> DEFINE known == {e \in EntryIds : Exists(e) /\ entries[e].event = job[r].event}
  <1>1. CASE Go(r, TRUE, "openPeriod") /\ UNCHANGED job
    <2>1. JobOK(r)'
      BY <1>1 DEF FindEvent, TypeInv, TypeOK, Go, db, JobOK, Exists, View
    <2> QED
      BY <1>1, <2>1, QuietType DEF FindEvent, Statements, private
  <1>2. ASSUME NEW e \in known, job' = [job EXCEPT ![r].target = e], Go(r, TRUE, "readDraft")
        PROVE  TypeInv'
    <2>0. e \in EntryIds /\ Exists(e)
      OBVIOUS
    <2> HIDE DEF known
    <2>1. [job[r] EXCEPT !.target = e] \in Job
      BY <2>0, RetargetType
    <2>2. TypeOK'
      BY <1>2, <2>1 DEF FindEvent, TypeInv, TypeOK, Go, db, Statements
    <2>3. job'[r] = [job[r] EXCEPT !.target = e] /\ pc'[r] = "readDraft"
      BY <1>2 DEF TypeInv, TypeOK, Go
    <2>4. JobOK(r)'
      <3>1. /\ job'[r].target = e /\ job'[r].op = "ingest" /\ job'[r].date \in Periods
            /\ job'[r].event \in Events
        BY <2>3 DEF FindEvent, TypeInv, TypeOK, JobOK, Job
      <3>2. View(r, e)' # NoRow
        BY <2>0 DEF FindEvent, db, View, Exists
      <3> QED
        BY <2>0, <2>3, <3>1, <3>2 DEF JobOK
    <2>5. ASSUME NEW q \in Requests, q # r PROVE JobOK(q)'
      BY <1>2, <2>5 DEF FindEvent, TypeInv, TypeOK, Go, db, JobOK, Exists, View
    <2> QED
      BY <2>2, <2>4, <2>5 DEF TypeInv
  <1> QED
    BY <1>1, <1>2 DEF FindEvent

LEMMA NextSequenceType ==
    ASSUME TypeInv, NEW r \in Requests, NextSequence(r)
    PROVE  TypeInv'
  <1>1. PICK j \in JournalsFor(r) : drawn' = [drawn EXCEPT ![r][j] = lastSeq[j] + 1]
    BY DEF NextSequence
  <1>2. j \in Journals
    BY JournalAssumption, BodyAssumption DEF JournalsFor, TypeInv, JobOK
  <1>3. TypeOK'
    <2>1. [drawn[r] EXCEPT ![j] = lastSeq[j] + 1] \in [Journals -> Nat]
      BY <1>2 DEF TypeInv, TypeOK
    <2>2. drawn' = [drawn EXCEPT ![r] = [drawn[r] EXCEPT ![j] = lastSeq[j] + 1]]
      BY <1>1 DEF TypeInv, TypeOK
    <2> QED
      BY <2>1, <2>2 DEF NextSequence, TypeInv, TypeOK, Go, db, Statements
  <1>4. JobOK(r)'
    BY DEF NextSequence, TypeInv, TypeOK, Go, db, JobOK, Exists, View
  <1>5. ASSUME NEW q \in Requests, q # r PROVE JobOK(q)'
    BY <1>5 DEF NextSequence, TypeInv, TypeOK, Go, db, JobOK, Exists, View
  <1> QED
    BY <1>3, <1>4, <1>5 DEF TypeInv

LEMMA InsertDraftType ==
    ASSUME TypeInv, NEW r \in Requests, InsertDraft(r)
    PROVE  TypeInv'
  <1> DEFINE row(j, ls) ==
        [journal |-> j, seq |-> drawn[r][j], date |-> job[r].date, lines |-> ls,
         status |-> "DRAFT", mirrorOf |-> NoEntry, event |-> job[r].event,
         postedBy |-> NoUser]
  <1>1. PICK e \in EntryIds, j \in Journals, ls \in LinesFor(r) :
          /\ writes' = [writes EXCEPT ![r][e] = row(j, ls)]
          /\ job' = [job EXCEPT ![r].target = e]
    BY DEF InsertDraft
  <1>2. ls \in Seq(Line)
    BY BodyAssumption DEF LinesFor, InsertDraft, TypeInv, JobOK
  <1>3. row(j, ls) \in Row
    <2>1. job[r] \in Job /\ drawn[r][j] \in Nat
      BY DEF TypeInv, TypeOK
    <2>2. job[r].date \in Periods
      BY DEF InsertDraft, TypeInv, JobOK
    <2> QED
      BY <1>2, <2>1, <2>2 DEF Row, Statuses, Job
  <1>4. row(j, ls) # NoRow
    BY <1>3, NullAssumption
  <1>5. [job[r] EXCEPT !.target = e] \in Job
    BY RetargetType
  <1> HIDE DEF row
  <1>6. TypeOK'
    BY <1>1, <1>3, <1>5 DEF InsertDraft, TypeInv, TypeOK, Go, db, Statements
  <1>7. /\ job'[r] = [job[r] EXCEPT !.target = e] /\ pc'[r] = "checkAccounts"
        /\ writes'[r][e] = row(j, ls)
    BY <1>1 DEF InsertDraft, TypeInv, TypeOK, Go
  <1>8. JobOK(r)'
    BY <1>4, <1>7 DEF InsertDraft, TypeInv, TypeOK, db, JobOK, Exists, View, Job
  <1>9. ASSUME NEW q \in Requests, q # r PROVE JobOK(q)'
    BY <1>1, <1>9 DEF InsertDraft, TypeInv, TypeOK, Go, db, JobOK, Exists, View
  <1> QED
    BY <1>6, <1>8, <1>9 DEF TypeInv

LEMMA FlushPostedType ==
    ASSUME TypeInv, NEW r \in Requests, FlushPosted(r)
    PROVE  TypeInv'
  <1> DEFINE e == job[r].target
             row == [View(r, e) EXCEPT !.status = "POSTED", !.postedBy = r]
  <1>1. e \in EntryIds /\ View(r, e) \in Row
    BY DEF FlushPosted, TypeInv, TypeOK, JobOK, View
  <1>2. row \in Row
    BY <1>1, RequestAssumption DEF Row, Statuses
  <1>3. row # NoRow
    BY <1>2, NullAssumption
  <1>4. writes' = [writes EXCEPT ![r][e] = row]
    BY DEF FlushPosted
  <1> HIDE DEF row
  <1>5. TypeOK'
    BY <1>1, <1>2, <1>4 DEF FlushPosted, TypeInv, TypeOK, Go, db, Statements
  <1>6. JobOK(r)'
    <2>1. pc'[r] = "announcePosted" /\ job' = job /\ entries' = entries
      BY DEF FlushPosted, TypeInv, TypeOK, Go, db
    <2>2. writes'[r][e] = row
      BY <1>1, <1>4 DEF TypeInv, TypeOK
    <2> QED
      BY <1>1, <1>3, <2>1, <2>2 DEF FlushPosted, TypeInv, JobOK, Exists, View
  <1>7. ASSUME NEW q \in Requests, q # r PROVE JobOK(q)'
    BY <1>4, <1>7 DEF FlushPosted, TypeInv, TypeOK, Go, db, JobOK, Exists, View
  <1> QED
    BY <1>5, <1>6, <1>7 DEF TypeInv

\* The mirror of InsertReversal(r).
Reversal(r) ==
    [journal |-> EX, seq |-> drawn[r][EX], date |-> job[r].date,
     lines |-> Mirror(entries[job[r].target].lines), status |-> "POSTED",
     mirrorOf |-> job[r].target, event |-> NoEvent, postedBy |-> r]

LEMMA ReversalRow ==
    ASSUME TypeInv, NEW r \in Requests, pc[r] = "insertReversal"
    PROVE  Reversal(r) \in Row /\ Reversal(r) # NoRow
  <1>1. job[r].op = "reverse"
    BY DEF TypeInv, JobOK
  <1>2. job[r].target \in EntryIds /\ Exists(job[r].target) /\ job[r].date \in Periods
    BY <1>1 DEF TypeInv, JobOK
  <1>3. entries[job[r].target] \in Row
    BY <1>2 DEF TypeInv, TypeOK, Exists
  <1>4. drawn[r][EX] \in Nat
    BY JournalAssumption DEF TypeInv, TypeOK
  <1>5. Mirror(entries[job[r].target].lines) \in Seq(Line)
    BY <1>3, MirrorType DEF Row
  <1>6. Reversal(r) \in Row
    BY <1>2, <1>4, <1>5, RequestAssumption, JournalAssumption DEF Reversal, Row, Statuses
  <1> QED
    BY <1>6, NullAssumption

LEMMA InsertReversalType ==
    ASSUME TypeInv, NEW r \in Requests, InsertReversal(r)
    PROVE  TypeInv'
  <1> DEFINE row == Reversal(r)
  <1>1. PICK e \in EntryIds : writes' = [writes EXCEPT ![r][e] = row]
    BY DEF InsertReversal, Reversal
  <1>4. row \in Row /\ row # NoRow
    BY ReversalRow DEF InsertReversal
  <1> HIDE DEF row
  <1>6. TypeOK'
    BY <1>1, <1>4 DEF InsertReversal, TypeInv, TypeOK, Go, db, Statements
  <1>7. JobOK(r)'
    BY <1>1 DEF InsertReversal, TypeInv, TypeOK, Go, db, JobOK, Exists, View
  <1>8. ASSUME NEW q \in Requests, q # r PROVE JobOK(q)'
    BY <1>1, <1>8 DEF InsertReversal, TypeInv, TypeOK, Go, db, JobOK, Exists, View
  <1> QED
    BY <1>6, <1>7, <1>8 DEF TypeInv

LEMMA FlushReversedType ==
    ASSUME TypeInv, NEW r \in Requests, FlushReversed(r)
    PROVE  TypeInv'
  <1> DEFINE e == job[r].target
             row == [entries[e] EXCEPT !.status = "REVERSED"]
  <1>1. e \in EntryIds /\ entries[e] \in Row
    BY DEF FlushReversed, TypeInv, TypeOK, JobOK, Exists
  <1>2. row \in Row
    BY <1>1 DEF Row, Statuses
  <1>3. writes' = [writes EXCEPT ![r][e] = row]
    BY DEF FlushReversed
  <1> HIDE DEF row
  <1>4. TypeOK'
    BY <1>1, <1>2, <1>3 DEF FlushReversed, TypeInv, TypeOK, Go, db, Statements
  <1>5. JobOK(r)'
    BY <1>3 DEF FlushReversed, TypeInv, TypeOK, Go, db, JobOK, Exists, View
  <1>6. ASSUME NEW q \in Requests, q # r PROVE JobOK(q)'
    BY <1>3, <1>6 DEF FlushReversed, TypeInv, TypeOK, Go, db, JobOK, Exists, View
  <1> QED
    BY <1>4, <1>5, <1>6 DEF TypeInv

LEMMA AnnounceType ==
    ASSUME TypeInv, NEW r \in Requests, AnnouncePosted(r) \/ AnnounceClosed(r)
    PROVE  TypeInv'
  <1>1. announced' \subseteq EntryIds \cup Years
    <2>1. announced \subseteq EntryIds \cup Years
      BY DEF TypeInv, TypeOK
    <2>2. CASE AnnouncePosted(r)
      <3>1. job[r].target \in EntryIds
        BY <2>2 DEF AnnouncePosted, TypeInv, JobOK
      <3> QED
        BY <2>1, <2>2, <3>1 DEF AnnouncePosted
    <2>3. CASE AnnounceClosed(r)
      <3>1. job[r].year \in Years
        BY <2>3 DEF AnnounceClosed, TypeInv, JobOK
      <3> QED
        BY <2>1, <2>3, <3>1 DEF AnnounceClosed
    <2> QED
      BY <2>2, <2>3
  <1>2. Go(r, TRUE, "commit") /\ UNCHANGED <<db, private>>
    BY DEF AnnouncePosted, AnnounceClosed
  <1>3. TypeOK'
    BY <1>1, <1>2 DEF TypeInv, TypeOK, Go, db, private, Statements
  <1>4. ASSUME NEW q \in Requests PROVE JobOK(q)'
    BY <1>2, <1>4 DEF TypeInv, TypeOK, Go, db, private, JobOK, Exists, View
  <1> QED
    BY <1>3, <1>4 DEF TypeInv

LEMMA ReadPeriodsType ==
    ASSUME TypeInv, NEW r \in Requests, ReadPeriods(r)
    PROVE  TypeInv'
  <1>1. TypeOK'
    BY DEF ReadPeriods, TypeInv, TypeOK, Go, db, Statements
  <1>2. ASSUME NEW q \in Requests PROVE JobOK(q)'
    BY <1>2 DEF ReadPeriods, TypeInv, TypeOK, Go, db, JobOK, Exists, View
  <1> QED
    BY <1>1, <1>2 DEF TypeInv

\* Committed entries do not disappear, so the jobs of the others stay sensible.
LEMMA ReleaseType ==
    ASSUME TypeInv, NEW r \in Requests, Release(r),
           entries' \in [EntryIds -> Row \cup {NoRow}],
           lastSeq' \in [Journals -> Nat],
           period' \in [Periods -> {"OPEN", "LOCKED"}],
           year' \in [Years -> {"OPEN", "CLOSED"}],
           UNCHANGED announced,
           \A e \in EntryIds : Exists(e) => Exists(e)'
    PROVE  TypeInv'
  <1>1. NoJob \in Job
    BY DEF NoJob, Job, Ops
  <1>2. TypeOK'
    BY <1>1 DEF Release, TypeInv, TypeOK, Statements
  <1>3. JobOK(r)'
    BY DEF Release, TypeInv, TypeOK, JobOK, NoJob
  <1>4. ASSUME NEW q \in Requests, q # r PROVE JobOK(q)'
    <2>1. pc'[q] = pc[q] /\ job'[q] = job[q] /\ writes'[q] = writes[q]
      BY <1>4 DEF Release, TypeInv, TypeOK
    <2>2. \A e \in EntryIds : View(q, e) # NoRow => View(q, e)' # NoRow
      BY <2>1 DEF View, Exists
    <2> QED
      BY <2>1, <2>2 DEF TypeInv, JobOK
  <1> QED
    BY <1>2, <1>3, <1>4 DEF TypeInv

LEMMA CommitType ==
    ASSUME TypeInv, NEW r \in Requests, Commit(r)
    PROVE  TypeInv'
  <1>1. entries' \in [EntryIds -> Row \cup {NoRow}]
    BY DEF Commit, TypeInv, TypeOK, View
  <1>2. lastSeq' \in [Journals -> Nat]
    BY DEF Commit, TypeInv, TypeOK
  <1>3. period' \in [Periods -> {"OPEN", "LOCKED"}] /\ year' \in [Years -> {"OPEN", "CLOSED"}]
    BY DEF Commit, TypeInv, TypeOK
  <1>4. \A e \in EntryIds : Exists(e) => Exists(e)'
    BY DEF Commit, Exists, View
  <1> QED
    BY <1>1, <1>2, <1>3, <1>4, ReleaseType DEF Commit

LEMMA EndType ==
    ASSUME TypeInv, NEW r \in Requests, Rollback(r) \/ Crash(r)
    PROVE  TypeInv'
  <1>1. Release(r) /\ UNCHANGED <<db, announced>>
    BY DEF Rollback, Crash
  <1>2. \A e \in EntryIds : Exists(e) => Exists(e)'
    BY <1>1 DEF db, Exists
  <1> QED
    BY <1>1, <1>2, ReleaseType DEF TypeInv, TypeOK, db

LEMMA TypeInvNext == TypeInv /\ [Next]_vars => TypeInv'
  <1> SUFFICES ASSUME TypeInv, [Next]_vars PROVE TypeInv'
    OBVIOUS
  <1>1. CASE UNCHANGED vars
    BY <1>1 DEF vars, TypeInv, TypeOK, JobOK, Exists, View
  <1>2. ASSUME NEW r \in Requests, Arrive(r) PROVE TypeInv'
    BY <1>2, ArriveType
  <1>3. ASSUME NEW r \in Requests, Step(r) PROVE TypeInv'
    BY <1>3, FindEventType, ReadsType, NextSequenceType, InsertDraftType, FlushPostedType,
       InsertReversalType, FlushReversedType, AnnounceType, ReadPeriodsType, CommitType,
       EndType DEF Step
  <1>4. ASSUME NEW r \in Requests, Crash(r) PROVE TypeInv'
    BY <1>4, EndType
  <1> QED
    BY <1>1, <1>2, <1>3, <1>4 DEF Next

\* Every variable of the ledger and of the requests keeps its type, for any
\* number of requests.
THEOREM TypeCorrect == Spec => []TypeOK
  <1>1. TypeInv => TypeOK
    BY DEF TypeInv
  <1> QED
    BY <1>1, TypeInvInit, TypeInvNext, PTL DEF Spec

-----------------------------------------------------------------------------
(* Who holds which row *)

\* Until it draws a number or flushes a row, a request holds nothing.
Early == {"idle", "findEvent", "openPeriod", "openYear", "sequence", "readOriginal",
          "findReversals", "readYear", "readPeriods", "announceClosed"}

NoWrites(r) == \A e \in EntryIds : writes[r][e] = NoRow

\* The rows of r that are not committed in any version.
New(r) == {e \in EntryIds : writes[r][e] # NoRow /\ ~Exists(e)}

\* A row is held by one request at a time.
Exclusive ==
    \A r, q \in Requests :
        /\ \A j \in Journals : drawn[r][j] # 0 /\ drawn[q][j] # 0 => r = q
        /\ \A e \in EntryIds : writes[r][e] # NoRow /\ writes[q][e] # NoRow => r = q

\* What r holds at each statement.
Holds(r) ==
    /\ pc[r] \in Early => NoWrites(r) /\ \A j \in Journals : drawn[r][j] = 0
    /\ pc[r] \in {"insertDraft", "insertReversal"} => NoWrites(r)
    /\ pc[r] \in {"checkAccounts", "readDraft", "postPeriod", "flushPosted", "flushReversed"}
         => \A e \in EntryIds : writes[r][e] # NoRow => ~Exists(e)
    /\ pc[r] = "flushReversed"
         => \A e \in EntryIds : writes[r][e] # NoRow => writes[r][e].event = NoEvent

LockInv == Exclusive /\ \A r \in Requests : Holds(r)

-----------------------------------------------------------------------------
(* Numbers *)

\* r holds at most one journal row, with the number after the committed one.
Counter(r) ==
    /\ \A j \in Journals : drawn[r][j] # 0 => drawn[r][j] = lastSeq[j] + 1
    /\ \A i, j \in Journals : drawn[r][i] # 0 /\ drawn[r][j] # 0 => i = j
    /\ pc[r] = "insertReversal" => drawn[r][EX] # 0

\* A flushed version of a committed entry is the same entry with another status.
Kept(r) == \A e \in EntryIds :
    writes[r][e] # NoRow /\ Exists(e) =>
        /\ writes[r][e].status # "DRAFT"
        /\ writes[r][e].journal = entries[e].journal
        /\ writes[r][e].seq = entries[e].seq
        /\ writes[r][e].lines = entries[e].lines
        /\ writes[r][e].event = entries[e].event
        /\ writes[r][e].mirrorOf = entries[e].mirrorOf

\* One new entry carries the number that was drawn, and there is no other.
Numbered(r) ==
    /\ \A e \in New(r) : /\ drawn[r][writes[r][e].journal] # 0
                         /\ writes[r][e].seq = drawn[r][writes[r][e].journal]
    /\ \A e, f \in New(r) : e = f
    /\ pc[r] \notin {"insertDraft", "insertReversal", "failed"}
         => \A j \in Journals : drawn[r][j] # 0 => \E e \in New(r) : writes[r][e].journal = j

NumberInv ==
    /\ GaplessNumbering
    /\ \A r \in Requests : Counter(r) /\ Kept(r) /\ Numbered(r)

-----------------------------------------------------------------------------
(* Events *)

\* The entry that r is about to book is the only one of its event.
Unbooked(r) == \A e \in New(r) :
    writes[r][e].event # NoEvent =>
        /\ \A f \in EntryIds : Exists(f) => entries[f].event # writes[r][e].event
        /\ \A q \in Requests, f \in EntryIds :
              writes[q][f] # NoRow /\ writes[q][f].event = writes[r][e].event => q = r

EventInv == OneEntryPerEvent /\ \A r \in Requests : Unbooked(r)

-----------------------------------------------------------------------------
(* The shapes of a step *)

\* The other requests do not notice.
OthersKept(r) == \A q \in Requests \ {r} :
    pc'[q] = pc[q] /\ job'[q] = job[q] /\ drawn'[q] = drawn[q] /\ writes'[q] = writes[q]

\* r moves on without touching a row or a counter.
Quiet(r) ==
    /\ UNCHANGED <<entries, lastSeq, drawn, writes>>
    /\ OthersKept(r)
    /\ \/ pc[r] \in Early /\ pc'[r] \in Early \cup {"readDraft", "commit", "failed"}
       \/ pc[r] = "insertDraft" /\ pc'[r] = "failed"
       \/ pc[r] = "checkAccounts" /\ pc'[r] \in {"readDraft", "commit", "failed"}
       \/ pc[r] = "readDraft" /\ pc'[r] \in {"postPeriod", "failed"}
       \/ pc[r] = "postPeriod" /\ pc'[r] \in {"flushPosted", "failed"}
       \/ pc[r] = "announcePosted" /\ pc'[r] = "commit"

\* r draws the next number of j.
Draws(r, j) ==
    /\ UNCHANGED <<entries, lastSeq, writes, job>>
    /\ OthersKept(r)
    /\ CounterFree(j)
    /\ drawn'[r][j] = lastSeq[j] + 1
    /\ \A i \in Journals \ {j} : drawn'[r][i] = drawn[r][i]
    /\ pc[r] = "sequence"
    /\ \/ pc'[r] = "insertReversal" /\ j = EX
       \/ pc'[r] = "insertDraft"

\* r flushes a version of entry e.
Flushes(r, e, row) ==
    /\ UNCHANGED <<entries, lastSeq, drawn>>
    /\ OthersKept(r)
    /\ row \in Row /\ row # NoRow
    /\ RowFree(r, e)
    /\ writes'[r][e] = row
    /\ \A f \in EntryIds \ {e} : writes'[r][f] = writes[r][f]

\* Nothing of r is left.
Released(r) == pc'[r] = "idle" /\ (\A j \in Journals : drawn'[r][j] = 0) /\ NoWrites(r)'

LEMMA ArriveQuiet ==
    ASSUME TypeInv, NEW r \in Requests, Arrive(r)
    PROVE  Quiet(r)
  <1>1. PICK j \in Job, first \in Statements : Start(r, j, first) /\ Admissible(j, first)
    BY ArriveStarts
  <1> QED
    BY <1>1 DEF Quiet, OthersKept, Start, Admissible, Early, db, TypeInv, TypeOK

LEMMA ReadsQuiet ==
    ASSUME TypeInv, NEW r \in Requests,
           \/ FindEvent(r) \/ OpenPeriod(r) \/ OpenYear(r) \/ DuplicateEvent(r)
           \/ CheckAccounts(r) \/ ReadDraft(r) \/ PostPeriod(r) \/ AnnouncePosted(r)
           \/ ReadOriginal(r) \/ FindReversals(r) \/ ReadYear(r) \/ ReadPeriods(r)
           \/ AnnounceClosed(r)
    PROVE  Quiet(r)
  <1>1. /\ UNCHANGED <<entries, lastSeq, drawn, writes>>
        /\ \A q \in Requests \ {r} : job'[q] = job[q]
    BY DEF FindEvent, OpenPeriod, OpenYear, DuplicateEvent, CheckAccounts, ReadDraft, PostPeriod,
           AnnouncePosted, ReadOriginal, FindReversals, ReadYear, ReadPeriods, AnnounceClosed,
           db, private, TypeInv, TypeOK
  <1>2. \A ok, next : Go(r, ok, next) =>
            pc'[r] \in {next, "failed"} /\ \A q \in Requests \ {r} : pc'[q] = pc[q]
    BY DEF Go, TypeInv, TypeOK
  <1>3. CASE FindEvent(r)
    <2>1. Go(r, TRUE, "openPeriod") \/ Go(r, TRUE, "readDraft")
      BY <1>3 DEF FindEvent
    <2> QED
      BY <1>1, <1>2, <1>3, <2>1 DEF FindEvent, Quiet, OthersKept, Early
  <1>4. CASE CheckAccounts(r)
    <2>1. PICK ok : Go(r, ok, IF job[r].op = "ingest" THEN "readDraft" ELSE "commit")
      BY <1>4, Zenon DEF CheckAccounts
    <2>2. pc[r] = "checkAccounts"
      BY <1>4, Zenon DEF CheckAccounts
    <2> QED
      BY <1>1, <1>2, <2>1, <2>2 DEF Quiet, OthersKept
  <1>5. CASE OpenPeriod(r)
    BY <1>1, <1>2, <1>5 DEF OpenPeriod, Quiet, OthersKept, Early
  <1>6. CASE OpenYear(r) \/ ReadOriginal(r) \/ FindReversals(r) \/ ReadYear(r)
    BY <1>1, <1>2, <1>6 DEF OpenYear, ReadOriginal, FindReversals, ReadYear, Quiet, OthersKept,
       Early
  <1>7. CASE DuplicateEvent(r)
    <2>1. pc[r] = "insertDraft" /\ Go(r, FALSE, "failed")
      BY <1>7 DEF DuplicateEvent
    <2>2. pc'[r] = "failed" /\ \A q \in Requests \ {r} : pc'[q] = pc[q]
      BY <2>1 DEF Go, TypeInv, TypeOK
    <2> QED
      BY <1>1, <2>1, <2>2 DEF Quiet, OthersKept
  <1>8. CASE ReadPeriods(r)
    BY <1>1, <1>2, <1>8 DEF ReadPeriods, Quiet, OthersKept, Early
  <1>9. CASE AnnounceClosed(r)
    BY <1>1, <1>2, <1>9 DEF AnnounceClosed, Quiet, OthersKept, Early
  <1>10. CASE AnnouncePosted(r)
    <2>1. pc[r] = "announcePosted" /\ Go(r, TRUE, "commit")
      BY <1>10 DEF AnnouncePosted
    <2>2. pc'[r] = "commit" /\ \A q \in Requests \ {r} : pc'[q] = pc[q]
      BY <2>1 DEF Go, TypeInv, TypeOK
    <2> QED
      BY <1>1, <2>1, <2>2 DEF Quiet, OthersKept
  <1>11. CASE ReadDraft(r)
    <2>1. PICK ok : Go(r, ok, "postPeriod")
      BY <1>11, Zenon DEF ReadDraft
    <2>2. pc[r] = "readDraft"
      BY <1>11, Zenon DEF ReadDraft
    <2> QED
      BY <1>1, <1>2, <2>1, <2>2 DEF Quiet, OthersKept
  <1>12. CASE PostPeriod(r)
    <2>1. PICK ok : Go(r, ok, "flushPosted")
      BY <1>12, Zenon DEF PostPeriod
    <2>2. pc[r] = "postPeriod"
      BY <1>12, Zenon DEF PostPeriod
    <2> QED
      BY <1>1, <1>2, <2>1, <2>2 DEF Quiet, OthersKept
  <1> QED
    BY <1>3, <1>4, <1>5, <1>6, <1>7, <1>8, <1>9, <1>10, <1>11, <1>12

LEMMA NextSequenceDraws ==
    ASSUME TypeInv, NEW r \in Requests, NextSequence(r)
    PROVE  \E j \in Journals : Draws(r, j)
  <1>1. PICK j \in JournalsFor(r) :
          CounterFree(j) /\ drawn' = [drawn EXCEPT ![r][j] = lastSeq[j] + 1]
    BY DEF NextSequence
  <1>2. j \in Journals /\ (job[r].op = "reverse" => j = EX)
    BY JournalAssumption, BodyAssumption DEF JournalsFor, NextSequence, TypeInv, JobOK
  <1>3. /\ drawn'[r][j] = lastSeq[j] + 1
        /\ \A i \in Journals \ {j} : drawn'[r][i] = drawn[r][i]
        /\ \A q \in Requests \ {r} : drawn'[q] = drawn[q]
    BY <1>1, <1>2 DEF TypeInv, TypeOK
  <1>4. /\ pc'[r] = IF job[r].op = "reverse" THEN "insertReversal" ELSE "insertDraft"
        /\ \A q \in Requests \ {r} : pc'[q] = pc[q]
    BY DEF NextSequence, Go, TypeInv, TypeOK
  <1>5. OthersKept(r)
    BY <1>3, <1>4 DEF OthersKept, NextSequence
  <1>6. Draws(r, j)
    BY <1>1, <1>2, <1>3, <1>4, <1>5 DEF Draws, NextSequence, db
  <1> QED
    BY <1>2, <1>6

\* The draft of InsertDraft(r).
Draft(r, j, ls) ==
    [journal |-> j, seq |-> drawn[r][j], date |-> job[r].date, lines |-> ls,
     status |-> "DRAFT", mirrorOf |-> NoEntry, event |-> job[r].event, postedBy |-> NoUser]

LEMMA InsertDraftFlushes ==
    ASSUME TypeInv, NEW r \in Requests, InsertDraft(r)
    PROVE  \E e \in EntryIds, j \in Journals, ls \in LinesFor(r) :
              /\ Flushes(r, e, Draft(r, j, ls)) /\ Free(e) /\ drawn[r][j] # 0
              /\ pc[r] = "insertDraft" /\ pc'[r] = "checkAccounts"
  <1>1. PICK e \in EntryIds, j \in Journals, ls \in LinesFor(r) :
          /\ Free(e)
          /\ drawn[r][j] # 0
          /\ writes' = [writes EXCEPT ![r][e] = Draft(r, j, ls)]
          /\ job' = [job EXCEPT ![r].target = e]
    BY DEF InsertDraft, Draft
  <1>2. ls \in Seq(Line)
    BY BodyAssumption DEF LinesFor, InsertDraft, TypeInv, JobOK
  <1>3. Draft(r, j, ls) \in Row /\ Draft(r, j, ls) # NoRow
    <2>1. job[r] \in Job /\ drawn[r][j] \in Nat
      BY DEF TypeInv, TypeOK
    <2>2. job[r].date \in Periods
      BY DEF InsertDraft, TypeInv, JobOK
    <2> QED
      BY <1>2, <2>1, <2>2, NullAssumption DEF Draft, Row, Statuses, Job
  <1> HIDE DEF Draft
  <1>4. OthersKept(r)
    BY <1>1 DEF InsertDraft, OthersKept, Go, TypeInv, TypeOK
  <1>5. Flushes(r, e, Draft(r, j, ls))
    BY <1>1, <1>3, <1>4 DEF Flushes, Free, RowFree, InsertDraft, db, TypeInv, TypeOK
  <1> QED
    BY <1>1, <1>5 DEF InsertDraft, Go, TypeInv, TypeOK

LEMMA InsertReversalFlushes ==
    ASSUME TypeInv, NEW r \in Requests, InsertReversal(r)
    PROVE  \E e \in EntryIds :
              /\ Flushes(r, e, Reversal(r)) /\ Free(e)
              /\ pc[r] = "insertReversal" /\ pc'[r] = "flushReversed" /\ job' = job
  <1>1. PICK e \in EntryIds : Free(e) /\ writes' = [writes EXCEPT ![r][e] = Reversal(r)]
    BY DEF InsertReversal, Reversal
  <1>2. Reversal(r) \in Row /\ Reversal(r) # NoRow
    BY ReversalRow DEF InsertReversal
  <1>3. OthersKept(r)
    BY <1>1 DEF InsertReversal, OthersKept, Go, TypeInv, TypeOK
  <1>4. Flushes(r, e, Reversal(r))
    BY <1>1, <1>2, <1>3 DEF Flushes, Free, RowFree, InsertReversal, db, TypeInv, TypeOK
  <1> QED
    BY <1>1, <1>4 DEF InsertReversal, Go, TypeInv, TypeOK

LEMMA FlushPostedFlushes ==
    ASSUME TypeInv, NEW r \in Requests, FlushPosted(r)
    PROVE  LET e == job[r].target
           IN  /\ e \in EntryIds /\ View(r, e) \in Row
               /\ Flushes(r, e, [View(r, e) EXCEPT !.status = "POSTED", !.postedBy = r])
               /\ pc[r] = "flushPosted" /\ pc'[r] = "announcePosted" /\ job' = job
  <1> DEFINE e == job[r].target
             row == [View(r, e) EXCEPT !.status = "POSTED", !.postedBy = r]
  <1>1. e \in EntryIds /\ View(r, e) \in Row
    BY DEF FlushPosted, TypeInv, TypeOK, JobOK, View
  <1>2. row \in Row /\ row # NoRow
    <2>1. row \in Row
      BY <1>1, RequestAssumption DEF Row, Statuses
    <2> QED
      BY <2>1, NullAssumption
  <1>3. writes' = [writes EXCEPT ![r][e] = row] /\ RowFree(r, e)
    BY DEF FlushPosted
  <1> HIDE DEF row
  <1>4. OthersKept(r)
    BY <1>1, <1>3 DEF FlushPosted, OthersKept, Go, TypeInv, TypeOK
  <1>5. Flushes(r, e, row)
    BY <1>1, <1>2, <1>3, <1>4 DEF Flushes, FlushPosted, db, TypeInv, TypeOK
  <1>6. pc[r] = "flushPosted" /\ pc'[r] = "announcePosted" /\ job' = job
    BY DEF FlushPosted, Go, TypeInv, TypeOK
  <1> QED
    BY <1>1, <1>5, <1>6 DEF row

LEMMA FlushReversedFlushes ==
    ASSUME TypeInv, NEW r \in Requests, FlushReversed(r)
    PROVE  LET e == job[r].target
           IN  /\ e \in EntryIds /\ Exists(e) /\ entries[e] \in Row
               /\ Flushes(r, e, [entries[e] EXCEPT !.status = "REVERSED"])
               /\ pc[r] = "flushReversed" /\ pc'[r] = "commit" /\ job' = job
  <1> DEFINE e == job[r].target
             row == [entries[e] EXCEPT !.status = "REVERSED"]
  <1>1. e \in EntryIds /\ Exists(e) /\ entries[e] \in Row
    BY DEF FlushReversed, TypeInv, TypeOK, JobOK, Exists
  <1>2. row \in Row /\ row # NoRow
    <2>1. row \in Row
      BY <1>1 DEF Row, Statuses
    <2> QED
      BY <2>1, NullAssumption
  <1>3. writes' = [writes EXCEPT ![r][e] = row] /\ RowFree(r, e)
    BY DEF FlushReversed
  <1> HIDE DEF row
  <1>4. OthersKept(r)
    BY <1>1, <1>3 DEF FlushReversed, OthersKept, Go, TypeInv, TypeOK
  <1>5. Flushes(r, e, row)
    BY <1>1, <1>2, <1>3, <1>4 DEF Flushes, FlushReversed, db, TypeInv, TypeOK
  <1>6. pc[r] = "flushReversed" /\ pc'[r] = "commit" /\ job' = job
    BY DEF FlushReversed, Go, TypeInv, TypeOK
  <1> QED
    BY <1>1, <1>5, <1>6 DEF row

LEMMA ReleaseReleases ==
    ASSUME TypeInv, NEW r \in Requests, Release(r)
    PROVE  OthersKept(r) /\ Released(r)
  BY DEF Release, OthersKept, Released, NoWrites, TypeInv, TypeOK

-----------------------------------------------------------------------------
(* Locks *)

LEMMA LockInvInit == Init => LockInv
  BY DEF Init, LockInv, Exclusive, Holds, NoWrites, Early

LEMMA QuietLock ==
    ASSUME LockInv, NEW r \in Requests, Quiet(r)
    PROVE  LockInv'
  <1>1. Exclusive'
    BY DEF LockInv, Exclusive, Quiet
  <1>2. Holds(r)'
    BY DEF LockInv, Quiet, Holds, NoWrites, Early, Exists
  <1>3. ASSUME NEW q \in Requests \ {r} PROVE Holds(q)'
    BY <1>3 DEF LockInv, Quiet, OthersKept, Holds, NoWrites, Exists
  <1> QED
    BY <1>1, <1>2, <1>3 DEF LockInv

LEMMA DrawsLock ==
    ASSUME LockInv, NEW r \in Requests, NEW j \in Journals, Draws(r, j)
    PROVE  LockInv'
  <1>1. \A q \in Requests \ {r} : drawn'[q] = drawn[q] /\ drawn[q][j] = 0
    BY DEF Draws, OthersKept, CounterFree
  <1>2. Exclusive'
    BY <1>1 DEF LockInv, Exclusive, Draws
  <1>3. Holds(r)'
    BY DEF LockInv, Draws, Holds, NoWrites, Early
  <1>4. ASSUME NEW q \in Requests \ {r} PROVE Holds(q)'
    BY <1>4 DEF LockInv, Draws, OthersKept, Holds, NoWrites, Exists
  <1> QED
    BY <1>2, <1>3, <1>4 DEF LockInv

LEMMA FlushesLock ==
    ASSUME LockInv, NEW r \in Requests, NEW e \in EntryIds, NEW row, Flushes(r, e, row),
           \/ pc'[r] \in {"announcePosted", "commit"}
           \/ /\ Free(e) /\ pc[r] \in {"insertDraft", "insertReversal"}
              /\ \/ pc'[r] = "checkAccounts"
                 \/ pc'[r] = "flushReversed" /\ row.event = NoEvent
    PROVE  LockInv'
  <1>1. \A q \in Requests \ {r} : writes'[q] = writes[q] /\ writes[q][e] = NoRow
    BY DEF Flushes, OthersKept, RowFree
  <1>2. Exclusive'
    BY <1>1 DEF LockInv, Exclusive, Flushes
  <1>3. Holds(r)'
    BY DEF LockInv, Flushes, Holds, NoWrites, Early, Exists, Free
  <1>4. ASSUME NEW q \in Requests \ {r} PROVE Holds(q)'
    BY <1>4 DEF LockInv, Flushes, OthersKept, Holds, NoWrites, Exists
  <1> QED
    BY <1>2, <1>3, <1>4 DEF LockInv

\* What r commits is in rows that no other request holds.
LEMMA ReleasedLock ==
    ASSUME LockInv, NEW r \in Requests, OthersKept(r), Released(r),
           \A e \in EntryIds : writes[r][e] = NoRow => entries'[e] = entries[e]
    PROVE  LockInv'
  <1>1. Exclusive'
    BY DEF LockInv, Exclusive, OthersKept, Released, NoWrites
  <1>2. Holds(r)'
    BY DEF Released, Holds, NoWrites, Early
  <1>3. ASSUME NEW q \in Requests \ {r} PROVE Holds(q)'
    <2>1. \A e \in EntryIds : writes[q][e] # NoRow => entries'[e] = entries[e]
      BY <1>3 DEF LockInv, Exclusive
    <2> QED
      BY <1>3, <2>1 DEF LockInv, OthersKept, Holds, NoWrites, Exists
  <1> QED
    BY <1>1, <1>2, <1>3 DEF LockInv

LEMMA CommitWrites ==
    ASSUME NEW r \in Requests, Commit(r)
    PROVE  \A e \in EntryIds : entries'[e] = View(r, e)
  BY DEF Commit

LEMMA LockInvNext == TypeInv /\ LockInv /\ [Next]_vars => LockInv'
  <1> SUFFICES ASSUME TypeInv, LockInv, [Next]_vars PROVE LockInv'
    OBVIOUS
  <1>1. CASE UNCHANGED vars
    BY <1>1 DEF vars, LockInv, Exclusive, Holds, NoWrites, Exists
  <1>2. ASSUME NEW r \in Requests, Arrive(r) PROVE LockInv'
    BY <1>2, ArriveQuiet, QuietLock
  <1>3. ASSUME NEW r \in Requests, Step(r) PROVE LockInv'
    <2>1. CASE NextSequence(r)
      BY <2>1, NextSequenceDraws, DrawsLock
    <2>2. CASE InsertDraft(r)
      BY <2>2, InsertDraftFlushes, FlushesLock
    <2>3. CASE InsertReversal(r)
      <3>1. Reversal(r).event = NoEvent
        BY DEF Reversal
      <3> QED
        BY <2>3, <3>1, InsertReversalFlushes, FlushesLock
    <2>4. CASE FlushPosted(r)
      BY <2>4, FlushPostedFlushes, FlushesLock
    <2>5. CASE FlushReversed(r)
      BY <2>5, FlushReversedFlushes, FlushesLock
    <2>6. CASE Commit(r)
      BY <2>6, CommitWrites, ReleaseReleases, ReleasedLock DEF Commit, View
    <2>7. CASE Rollback(r)
      BY <2>7, ReleaseReleases, ReleasedLock DEF Rollback, db
    <2> QED
      BY <1>3, <2>1, <2>2, <2>3, <2>4, <2>5, <2>6, <2>7, ReadsQuiet, QuietLock DEF Step
  <1>4. ASSUME NEW r \in Requests, Crash(r) PROVE LockInv'
    BY <1>4, ReleaseReleases, ReleasedLock DEF Crash, db
  <1> QED
    BY <1>1, <1>2, <1>3, <1>4 DEF Next

\* No circle of waits: in any run, with any number of requests, a request only
\* waits for one that is further in its transaction.
THEOREM NoDeadlock == Spec => []LockOrder
  <1>1. ASSUME TypeInv, LockInv PROVE LockOrder
    <2> SUFFICES ASSUME NEW r \in Requests, NEW q \in Requests, WaitsFor(r, q)
                 PROVE  Rank(pc[r]) < Rank(pc[q])
      BY DEF LockOrder
    <2>1. pc[q] \in Statements /\ Holds(q) /\ Exclusive /\ q # r
      BY <1>1 DEF TypeInv, TypeOK, LockInv, WaitsFor
    <2>2. CASE pc[r] = "sequence" /\ \E j \in JournalsFor(r) : drawn[q][j] # 0
      <3>1. PICK j \in JournalsFor(r) : drawn[q][j] # 0
        BY <2>2
      <3>2. j \in Journals
        BY <1>1, <2>2, JournalAssumption, BodyAssumption DEF JournalsFor, TypeInv, JobOK
      <3>3. pc[q] \notin Early
        BY <2>1, <3>1, <3>2 DEF Holds
      <3> QED
        BY <2>1, <2>2, <3>3 DEF Rank, Statements, Early
    <2>3. CASE pc[r] = "insertDraft"
      <3>1. PICK e \in EntryIds : /\ writes[q][e] # NoRow
                                 /\ job[r].event # NoEvent
                                 /\ writes[q][e].event = job[r].event
        BY <2>3 DEF WaitsFor
      <3>2. pc[q] \notin Early \cup {"insertDraft", "insertReversal", "flushReversed"}
        BY <2>1, <3>1 DEF Holds, NoWrites
      <3> QED
        BY <2>1, <2>3, <3>2 DEF Rank, Statements, Early
    <2>4. CASE pc[r] \in {"flushPosted", "flushReversed"}
      <3>1. job[r].target \in EntryIds /\ View(r, job[r].target) # NoRow
        BY <1>1, <2>4 DEF TypeInv, JobOK, View, Exists
      <3>2. writes[q][job[r].target] # NoRow
        BY <2>4 DEF WaitsFor
      <3>3. Exists(job[r].target)
        BY <2>1, <3>1, <3>2 DEF Exclusive, View, Exists
      <3>4. pc[q] \in {"announcePosted", "commit", "failed"}
        BY <2>1, <3>1, <3>2, <3>3 DEF Holds, NoWrites, Statements, Early
      <3> QED
        BY <2>4, <3>4 DEF Rank
    <2> QED
      BY <2>2, <2>3, <2>4 DEF WaitsFor
  <1> QED
    BY <1>1, TypeInvInit, TypeInvNext, LockInvInit, LockInvNext, PTL DEF Spec

-----------------------------------------------------------------------------
(* Numbering *)

In(e, j) == Exists(e) /\ entries[e].journal = j

\* GaplessNumbering, one quantifier at a time.
Gapless ==
    \A j \in Journals :
        /\ \A e \in EntryIds : In(e, j) => entries[e].seq \in 1..lastSeq[j]
        /\ \A e, f \in EntryIds :
              In(e, j) /\ In(f, j) /\ entries[e].seq = entries[f].seq => e = f
        /\ \A n \in 1..lastSeq[j] : \E e \in EntryIds : In(e, j) /\ entries[e].seq = n

LEMMA GaplessNumberingGapless == GaplessNumbering <=> Gapless
  BY DEF GaplessNumbering, Gapless, In

LEMMA NumberInvInit == TypeInv /\ Init => NumberInv
  <1> SUFFICES ASSUME TypeInv, Init PROVE NumberInv
    OBVIOUS
  <1>1. Gapless
    BY DEF Init, Gapless, In, Exists
  <1>2. \A r \in Requests : Counter(r) /\ Kept(r) /\ Numbered(r)
    BY DEF Init, Counter, Kept, Numbered, New, Exists
  <1> QED
    BY <1>1, <1>2, GaplessNumberingGapless DEF NumberInv

\* While the committed rows stay, so do the invariants of the other requests.
LEMMA OthersNumber ==
    ASSUME NumberInv, NEW r \in Requests, OthersKept(r), UNCHANGED <<entries, lastSeq>>
    PROVE  /\ GaplessNumbering'
           /\ \A q \in Requests \ {r} : (Counter(q) /\ Kept(q) /\ Numbered(q))'
  <1>1. GaplessNumbering'
    BY DEF NumberInv, GaplessNumbering, Exists
  <1>2. ASSUME NEW q \in Requests \ {r} PROVE (Counter(q) /\ Kept(q) /\ Numbered(q))'
    <2>1. Counter(q)'
      BY <1>2 DEF NumberInv, OthersKept, Counter
    <2>2. Kept(q)'
      BY <1>2 DEF NumberInv, OthersKept, Kept, Exists
    <2>3. New(q)' = New(q)
      BY <1>2 DEF OthersKept, New, Exists
    <2>4. Numbered(q)'
      BY <1>2, <2>3 DEF NumberInv, OthersKept, Numbered
    <2> QED
      BY <2>1, <2>2, <2>4
  <1> QED
    BY <1>1, <1>2

LEMMA QuietNumber ==
    ASSUME LockInv, NumberInv, NEW r \in Requests, Quiet(r)
    PROVE  NumberInv'
  <1>1. Counter(r)'
    BY DEF NumberInv, Quiet, Counter, Early
  <1>2. Kept(r)'
    BY DEF NumberInv, Quiet, Kept, Exists
  <1>3. New(r)' = New(r)
    BY DEF Quiet, New, Exists
  <1>4. Numbered(r)'
    BY <1>3 DEF LockInv, NumberInv, Holds, Quiet, Numbered, Early
  <1> QED
    BY <1>1, <1>2, <1>4, OthersNumber DEF NumberInv, Quiet

LEMMA DrawsNumber ==
    ASSUME TypeInv, LockInv, NumberInv, NEW r \in Requests, NEW j \in Journals, Draws(r, j)
    PROVE  NumberInv'
  <1>1. lastSeq[j] \in Nat /\ NoWrites(r)' /\ \A i \in Journals : drawn[r][i] = 0
    BY DEF TypeInv, TypeOK, LockInv, Holds, Draws, Early, NoWrites
  <1>2. Counter(r)'
    BY <1>1 DEF Draws, Counter
  <1>3. Kept(r)'
    BY <1>1 DEF Kept, NoWrites
  <1>4. Numbered(r)'
    BY <1>1 DEF Draws, Numbered, New, NoWrites
  <1> QED
    BY <1>2, <1>3, <1>4, OthersNumber DEF NumberInv, Draws

\* A new entry with the number its request drew.
LEMMA InsertsNumber ==
    ASSUME LockInv, NumberInv, NEW r \in Requests, NEW e \in EntryIds, NEW row,
           Flushes(r, e, row), Free(e), pc[r] \in {"insertDraft", "insertReversal"},
           pc'[r] \in {"checkAccounts", "flushReversed"},
           drawn[r][row.journal] # 0, row.seq = drawn[r][row.journal]
    PROVE  NumberInv'
  <1>1. NoWrites(r) /\ ~Exists(e)
    BY DEF LockInv, Holds, Free, Exists
  <1>2. Counter(r)'
    BY DEF NumberInv, Flushes, Counter
  <1>3. Kept(r)'
    BY <1>1 DEF Kept, Flushes, NoWrites, Exists
  <1>4. New(r)' = {e}
    BY <1>1 DEF New, Flushes, NoWrites, Exists
  <1>5. row.journal \in Journals
    BY DEF Flushes, Row
  <1>6. Numbered(r)'
    BY <1>4, <1>5 DEF NumberInv, Counter, Numbered, Flushes
  <1> QED
    BY <1>2, <1>3, <1>6, OthersNumber DEF NumberInv, Flushes

\* The new version of a row keeps everything but its status and its user.
Restated(r, e, row) ==
    /\ View(r, e) # NoRow
    /\ row.status # "DRAFT"
    /\ row.journal = View(r, e).journal
    /\ row.seq = View(r, e).seq
    /\ row.lines = View(r, e).lines
    /\ row.event = View(r, e).event
    /\ row.mirrorOf = View(r, e).mirrorOf

LEMMA FlushPostedRestates ==
    ASSUME TypeInv, NEW r \in Requests, FlushPosted(r)
    PROVE  \E e \in EntryIds, row \in Row :
              /\ Flushes(r, e, row) /\ Restated(r, e, row) /\ row.status = "POSTED"
              /\ e = job[r].target
              /\ pc[r] = "flushPosted" /\ pc'[r] = "announcePosted" /\ job' = job
  <1> DEFINE e == job[r].target
             row == [View(r, e) EXCEPT !.status = "POSTED", !.postedBy = r]
  <1>1. e \in EntryIds /\ View(r, e) \in Row /\ Flushes(r, e, row)
        /\ pc[r] = "flushPosted" /\ pc'[r] = "announcePosted" /\ job' = job
    BY FlushPostedFlushes
  <1>2. row \in Row
    BY <1>1 DEF Flushes
  <1>3. Restated(r, e, row) /\ row.status = "POSTED"
    BY <1>1, NullAssumption DEF Restated, Row
  <1> QED
    BY <1>1, <1>2, <1>3

LEMMA FlushReversedRestates ==
    ASSUME TypeInv, LockInv, NEW r \in Requests, FlushReversed(r)
    PROVE  \E e \in EntryIds, row \in Row :
              /\ Flushes(r, e, row) /\ Restated(r, e, row) /\ row.status = "REVERSED"
              /\ e = job[r].target
              /\ pc[r] = "flushReversed" /\ pc'[r] = "commit" /\ job' = job
  <1> DEFINE e == job[r].target
             row == [entries[e] EXCEPT !.status = "REVERSED"]
  <1>1. e \in EntryIds /\ Exists(e) /\ entries[e] \in Row /\ Flushes(r, e, row)
        /\ pc[r] = "flushReversed" /\ pc'[r] = "commit" /\ job' = job
    BY FlushReversedFlushes
  <1>2. row \in Row
    BY <1>1 DEF Flushes
  <1>3. View(r, e) = entries[e]
    BY <1>1 DEF LockInv, Holds, View
  <1>4. Restated(r, e, row) /\ row.status = "REVERSED"
    BY <1>1, <1>3, NullAssumption DEF Restated, Row
  <1> QED
    BY <1>1, <1>2, <1>4

LEMMA RestatesNumber ==
    ASSUME NumberInv, NEW r \in Requests, NEW e \in EntryIds, NEW row,
           Flushes(r, e, row), Restated(r, e, row),
           pc[r] \in {"flushPosted", "flushReversed"},
           pc'[r] \in {"announcePosted", "commit"}
    PROVE  NumberInv'
  <1>1. Counter(r)'
    BY DEF NumberInv, Flushes, Counter
  <1>2. Kept(r)'
    BY DEF NumberInv, Flushes, Kept, Restated, View, Exists
  <1>3. New(r)' = New(r)
    BY DEF New, Flushes, Restated, View, Exists
  <1>4. \A f \in New(r) : /\ writes'[r][f].journal = writes[r][f].journal
                          /\ writes'[r][f].seq = writes[r][f].seq
    BY DEF New, Flushes, Restated, View
  <1>5. Numbered(r)'
    BY <1>3, <1>4 DEF NumberInv, Numbered, Flushes
  <1> QED
    BY <1>1, <1>2, <1>5, OthersNumber DEF NumberInv, Flushes

LEMMA ReleasedNumber ==
    ASSUME NEW r \in Requests, Released(r)
    PROVE  (Counter(r) /\ Kept(r) /\ Numbered(r))'
  BY DEF Released, NoWrites, Counter, Kept, Numbered, New

\* A COMMIT adds the new entries of its request and changes nothing else but
\* statuses and users.
LEMMA CommitAdds ==
    ASSUME TypeInv, NumberInv, NEW r \in Requests, Commit(r)
    PROVE  /\ \A e \in EntryIds : Exists(e)' <=> Exists(e) \/ e \in New(r)
           /\ \A e \in New(r) : entries'[e] = writes[r][e]
           /\ \A e \in EntryIds : Exists(e) =>
                 /\ entries'[e].journal = entries[e].journal
                 /\ entries'[e].seq = entries[e].seq
                 /\ entries'[e].lines = entries[e].lines
                 /\ entries'[e].event = entries[e].event
                 /\ entries'[e].mirrorOf = entries[e].mirrorOf
                 /\ entries'[e].status = "DRAFT" => entries[e].status = "DRAFT"
  <1>1. \A e \in EntryIds : entries'[e] = View(r, e)
    BY CommitWrites
  <1> QED
    BY <1>1 DEF View, New, Exists, NumberInv, Kept

LEMMA CommitGapless ==
    ASSUME TypeInv, NumberInv, NEW r \in Requests, Commit(r)
    PROVE  GaplessNumbering'
  <1> SUFFICES Gapless'
    BY DEF GaplessNumbering, Gapless, In
  <1> SUFFICES ASSUME NEW j \in Journals
               PROVE  /\ \A e \in EntryIds : In(e, j)' => entries'[e].seq \in 1..lastSeq'[j]
                      /\ \A e, f \in EntryIds :
                            In(e, j)' /\ In(f, j)' /\ entries'[e].seq = entries'[f].seq => e = f
                      /\ \A n \in 1..lastSeq'[j] :
                            \E e \in EntryIds : In(e, j)' /\ entries'[e].seq = n
    BY DEF Gapless
  <1>1. lastSeq[j] \in Nat /\ Gapless /\ Counter(r) /\ Numbered(r)
    BY GaplessNumberingGapless DEF TypeInv, TypeOK, NumberInv
  <1>2. lastSeq'[j] = IF drawn[r][j] # 0 THEN drawn[r][j] ELSE lastSeq[j]
    BY DEF Commit
  <1>3. \A e \in EntryIds : In(e, j) => In(e, j)' /\ entries'[e].seq = entries[e].seq
    BY CommitAdds DEF In
  <1>4. \A e \in EntryIds : In(e, j)' /\ ~In(e, j) =>
            e \in New(r) /\ writes[r][e].journal = j /\ entries'[e].seq = writes[r][e].seq
    BY CommitAdds DEF In
  <1>5. CASE drawn[r][j] = 0
    <2>1. \A e \in EntryIds : In(e, j)' <=> In(e, j)
      BY <1>1, <1>3, <1>4, <1>5 DEF Numbered
    <2> QED
      BY <1>1, <1>2, <1>3, <1>5, <2>1 DEF Gapless
  <1>6. CASE drawn[r][j] # 0
    <2>1. drawn[r][j] = lastSeq[j] + 1 /\ lastSeq'[j] = lastSeq[j] + 1
      BY <1>1, <1>2, <1>6 DEF Counter
    <2>2. PICK n \in New(r) : writes[r][n].journal = j
      BY <1>1, <1>6 DEF Commit, Numbered
    <2>3. n \in EntryIds /\ In(n, j)' /\ ~In(n, j) /\ entries'[n].seq = lastSeq[j] + 1
      BY <1>1, <2>1, <2>2, CommitAdds DEF Numbered, New, In
    <2>4. \A e \in EntryIds : In(e, j)' <=> In(e, j) \/ e = n
      BY <1>1, <1>3, <1>4, <2>2, <2>3 DEF Numbered
    <2>5. \A e \in EntryIds : In(e, j) => entries'[e].seq \in 1..lastSeq[j]
      BY <1>1, <1>3 DEF Gapless
    <2>6. \A e \in EntryIds : In(e, j)' => entries'[e].seq \in 1..lastSeq'[j]
      BY <1>1, <2>1, <2>3, <2>4, <2>5
    <2>7. \A e, f \in EntryIds :
             In(e, j)' /\ In(f, j)' /\ entries'[e].seq = entries'[f].seq => e = f
      BY <1>1, <1>3, <2>3, <2>4, <2>5 DEF Gapless
    <2>8. ASSUME NEW k \in 1..lastSeq'[j]
          PROVE  \E e \in EntryIds : In(e, j)' /\ entries'[e].seq = k
      <3>1. CASE k = lastSeq[j] + 1
        BY <2>3, <3>1
      <3>2. CASE k \in 1..lastSeq[j]
        BY <1>1, <1>3, <3>2 DEF Gapless
      <3> QED
        BY <1>1, <2>1, <3>1, <3>2
    <2> QED
      BY <2>6, <2>7, <2>8
  <1> QED
    BY <1>5, <1>6

\* What r commits is not in the rows of another request.
LEMMA CommitOthers ==
    ASSUME TypeInv, LockInv, NumberInv, NEW r \in Requests, Commit(r), NEW q \in Requests \ {r}
    PROVE  /\ pc'[q] = pc[q] /\ job'[q] = job[q] /\ drawn'[q] = drawn[q] /\ writes'[q] = writes[q]
           /\ \A e \in EntryIds : writes[q][e] # NoRow => entries'[e] = entries[e]
           /\ New(q)' = New(q)
  <1>1. OthersKept(r)
    BY ReleaseReleases DEF Commit
  <1>2. \A e \in EntryIds : writes[q][e] # NoRow => writes[r][e] = NoRow
    BY DEF LockInv, Exclusive
  <1>3. \A e \in EntryIds : writes[q][e] # NoRow => entries'[e] = entries[e]
    BY <1>2, CommitWrites DEF View
  <1>4. New(q)' = New(q)
    BY <1>1, <1>3 DEF OthersKept, New, Exists
  <1> QED
    BY <1>1, <1>3, <1>4 DEF OthersKept

LEMMA CommitNumber ==
    ASSUME TypeInv, LockInv, NumberInv, NEW r \in Requests, Commit(r)
    PROVE  NumberInv'
  <1>1. (Counter(r) /\ Kept(r) /\ Numbered(r))'
    BY ReleaseReleases, ReleasedNumber DEF Commit
  <1>2. ASSUME NEW q \in Requests \ {r} PROVE (Counter(q) /\ Kept(q) /\ Numbered(q))'
    <2>1. \A j \in Journals : drawn[q][j] # 0 => lastSeq'[j] = lastSeq[j]
      BY DEF Commit, LockInv, Exclusive
    <2>2. Counter(q)'
      BY <1>2, <2>1, CommitOthers DEF NumberInv, Counter
    <2>3. Kept(q)'
      BY <1>2, CommitOthers DEF NumberInv, Kept, Exists
    <2>4. Numbered(q)'
      BY <1>2, CommitOthers DEF NumberInv, Numbered
    <2> QED
      BY <2>2, <2>3, <2>4
  <1> QED
    BY <1>1, <1>2, CommitGapless DEF NumberInv

LEMMA NumberInvNext == TypeInv /\ LockInv /\ NumberInv /\ [Next]_vars => NumberInv'
  <1> SUFFICES ASSUME TypeInv, LockInv, NumberInv, [Next]_vars PROVE NumberInv'
    OBVIOUS
  <1>1. CASE UNCHANGED vars
    BY <1>1 DEF vars, NumberInv, GaplessNumbering, Counter, Kept, Numbered, New, Exists
  <1>2. ASSUME NEW r \in Requests, Arrive(r) PROVE NumberInv'
    BY <1>2, ArriveQuiet, QuietNumber
  <1>3. ASSUME NEW r \in Requests, Step(r) PROVE NumberInv'
    <2>1. CASE NextSequence(r)
      BY <2>1, NextSequenceDraws, DrawsNumber
    <2>2. CASE InsertDraft(r)
      <3>1. PICK e \in EntryIds, j \in Journals, ls \in LinesFor(r) :
              /\ Flushes(r, e, Draft(r, j, ls)) /\ Free(e) /\ drawn[r][j] # 0
              /\ pc[r] = "insertDraft" /\ pc'[r] = "checkAccounts"
        BY <2>2, InsertDraftFlushes
      <3>2. Draft(r, j, ls).journal = j /\ Draft(r, j, ls).seq = drawn[r][j]
        BY DEF Draft
      <3> QED
        BY <3>1, <3>2, InsertsNumber
    <2>3. CASE InsertReversal(r)
      <3>1. Reversal(r).journal = EX /\ Reversal(r).seq = drawn[r][EX]
        BY DEF Reversal
      <3>2. drawn[r][EX] # 0
        BY <2>3 DEF NumberInv, Counter, InsertReversal
      <3> QED
        BY <2>3, <3>1, <3>2, InsertReversalFlushes, InsertsNumber
    <2>4. CASE FlushPosted(r)
      BY <2>4, FlushPostedRestates, RestatesNumber
    <2>5. CASE FlushReversed(r)
      BY <2>5, FlushReversedRestates, RestatesNumber
    <2>6. CASE Commit(r)
      BY <2>6, CommitNumber
    <2>7. CASE Rollback(r)
      BY <2>7, ReleaseReleases, ReleasedNumber, OthersNumber DEF Rollback, db, NumberInv
    <2> QED
      BY <1>3, <2>1, <2>2, <2>3, <2>4, <2>5, <2>6, <2>7, ReadsQuiet, QuietNumber DEF Step
  <1>4. ASSUME NEW r \in Requests, Crash(r) PROVE NumberInv'
    BY <1>4, ReleaseReleases, ReleasedNumber, OthersNumber DEF Crash, db, NumberInv
  <1> QED
    BY <1>1, <1>2, <1>3, <1>4 DEF Next

\* The numbers of every journal are 1..last_sequence, each carried by one
\* committed entry, whatever the requests interleave, roll back or crash.
THEOREM Numbering == Spec => []GaplessNumbering
  <1>1. NumberInv => GaplessNumbering
    BY DEF NumberInv
  <1> QED
    BY <1>1, TypeInvInit, TypeInvNext, LockInvInit, LockInvNext, NumberInvInit, NumberInvNext,
       PTL DEF Spec

-----------------------------------------------------------------------------
(* Idempotence *)

LEMMA EventInvInit == Init => EventInv
  BY DEF Init, EventInv, OneEntryPerEvent, Unbooked, New, Exists

\* Nothing happens to events while rows are only dropped.
LEMMA ShrinkEvent ==
    ASSUME EventInv, UNCHANGED entries,
           \A q \in Requests, e \in EntryIds : writes'[q][e] \in {writes[q][e], NoRow}
    PROVE  EventInv'
  <1>1. OneEntryPerEvent'
    BY DEF EventInv, OneEntryPerEvent, Exists
  <1>2. ASSUME NEW q \in Requests PROVE Unbooked(q)'
    BY <1>2 DEF EventInv, Unbooked, New, Exists
  <1> QED
    BY <1>1, <1>2 DEF EventInv

LEMMA InsertsEvent ==
    ASSUME LockInv, EventInv, NEW r \in Requests, NEW e \in EntryIds, NEW row,
           Flushes(r, e, row), Free(e), pc[r] \in {"insertDraft", "insertReversal"},
           \/ row.event = NoEvent
           \/ /\ \A f \in EntryIds : Exists(f) => entries[f].event # row.event
              /\ \A q \in Requests \ {r}, f \in EntryIds :
                    writes[q][f] # NoRow => writes[q][f].event # row.event
    PROVE  EventInv'
  <1>1. NoWrites(r)
    BY DEF LockInv, Holds
  <1>2. OneEntryPerEvent'
    BY DEF EventInv, OneEntryPerEvent, Flushes, Exists
  <1>3. Unbooked(r)'
    BY <1>1 DEF Unbooked, New, Flushes, OthersKept, NoWrites, Exists
  <1>4. ASSUME NEW q \in Requests \ {r} PROVE Unbooked(q)'
    <2>1. New(q)' = New(q) /\ writes'[q] = writes[q]
      BY <1>4 DEF New, Flushes, OthersKept, Exists
    <2>2. \A g \in New(q), f \in EntryIds :
             writes'[r][f] # NoRow /\ writes[q][g].event # NoEvent
               => writes'[r][f].event # writes[q][g].event
      BY <1>1, <1>4 DEF New, Flushes, NoWrites
    <2> QED
      BY <1>4, <2>1, <2>2 DEF EventInv, Unbooked, Flushes, OthersKept, Exists
  <1> QED
    BY <1>2, <1>3, <1>4 DEF EventInv

LEMMA RestatesEvent ==
    ASSUME EventInv, NEW r \in Requests, NEW e \in EntryIds, NEW row,
           Flushes(r, e, row), Restated(r, e, row)
    PROVE  EventInv'
  <1>1. OneEntryPerEvent'
    BY DEF EventInv, OneEntryPerEvent, Flushes, Exists
  <1>2. \A f \in EntryIds : writes'[r][f] # NoRow =>
            View(r, f) # NoRow /\ writes'[r][f].event = View(r, f).event
    BY DEF Flushes, Restated, View
  <1>3. New(r)' = New(r)
    BY DEF New, Flushes, Restated, View, Exists
  <1>4. Unbooked(r)'
    BY <1>2, <1>3 DEF EventInv, Unbooked, Flushes, OthersKept, New, View, Exists
  <1>5. ASSUME NEW q \in Requests \ {r} PROVE Unbooked(q)'
    <2>1. New(q)' = New(q) /\ writes'[q] = writes[q]
      BY <1>5 DEF New, Flushes, OthersKept, Exists
    <2>2. \A g \in New(q), f \in EntryIds :
             writes'[r][f] # NoRow /\ writes[q][g].event # NoEvent
               => writes'[r][f].event # writes[q][g].event
      BY <1>2, <1>5 DEF EventInv, Unbooked, View, Exists
    <2> QED
      BY <1>5, <2>1, <2>2 DEF EventInv, Unbooked, Flushes, OthersKept, Exists
  <1> QED
    BY <1>1, <1>4, <1>5 DEF EventInv

LEMMA CommitEvent ==
    ASSUME TypeInv, LockInv, NumberInv, EventInv, NEW r \in Requests, Commit(r)
    PROVE  EventInv'
  <1>1. \A e, f \in New(r) : e = f
    BY DEF NumberInv, Numbered
  <1>2. OneEntryPerEvent'
    <2> SUFFICES ASSUME NEW e \in EntryIds, NEW f \in EntryIds, Exists(e)', Exists(f)',
                        entries'[e].event # NoEvent, entries'[e].event = entries'[f].event
                 PROVE  e = f
      BY DEF OneEntryPerEvent
    <2>1. CASE Exists(e) /\ Exists(f)
      BY <2>1, CommitAdds DEF EventInv, OneEntryPerEvent
    <2>2. CASE e \in New(r) /\ Exists(f)
      BY <2>2, CommitAdds DEF EventInv, Unbooked
    <2>3. CASE f \in New(r) /\ Exists(e)
      BY <2>3, CommitAdds DEF EventInv, Unbooked
    <2> QED
      BY <1>1, <2>1, <2>2, <2>3, CommitAdds
  <1>3. \A q \in Requests, e \in EntryIds :
            writes'[q][e] # NoRow => q # r /\ writes'[q][e] = writes[q][e]
    BY ReleaseReleases DEF Commit, OthersKept, Released, NoWrites
  <1>4. ASSUME NEW q \in Requests PROVE Unbooked(q)'
    <2>1. CASE q = r
      BY <1>3, <2>1 DEF Unbooked, New
    <2>2. CASE q # r
      <3>1. New(q)' = New(q) /\ writes'[q] = writes[q]
        BY <2>2, CommitOthers
      <3>2. ASSUME NEW e \in New(q), writes[q][e].event # NoEvent,
                   NEW f \in EntryIds, Exists(f)'
            PROVE  entries'[f].event # writes[q][e].event
        <4>1. CASE Exists(f)
          BY <3>2, <4>1, CommitAdds DEF EventInv, Unbooked
        <4>2. CASE f \in New(r)
          BY <2>2, <3>2, <4>2, CommitAdds DEF EventInv, Unbooked, New
        <4> QED
          BY <3>2, <4>1, <4>2, CommitAdds
      <3> QED
        BY <1>3, <3>1, <3>2 DEF EventInv, Unbooked
    <2> QED
      BY <2>1, <2>2
  <1> QED
    BY <1>2, <1>4 DEF EventInv

LEMMA EventInvNext ==
    TypeInv /\ LockInv /\ NumberInv /\ EventInv /\ [Next]_vars => EventInv'
  <1> SUFFICES ASSUME TypeInv, LockInv, NumberInv, EventInv, [Next]_vars PROVE EventInv'
    OBVIOUS
  <1>1. CASE UNCHANGED vars
    BY <1>1, ShrinkEvent DEF vars
  <1>2. ASSUME NEW r \in Requests, Quiet(r) PROVE EventInv'
    BY <1>2, ShrinkEvent DEF Quiet
  <1>3. ASSUME NEW r \in Requests, Release(r), UNCHANGED entries PROVE EventInv'
    BY <1>3, ShrinkEvent, ReleaseReleases DEF OthersKept, Released, NoWrites
  <1>4. ASSUME NEW r \in Requests, Step(r) PROVE EventInv'
    <2>1. CASE NextSequence(r)
      BY <2>1, ShrinkEvent DEF NextSequence, db
    <2>2. CASE InsertDraft(r)
      <3>1. PICK e \in EntryIds, j \in Journals, ls \in LinesFor(r) :
              Flushes(r, e, Draft(r, j, ls)) /\ Free(e) /\ pc[r] = "insertDraft"
        BY <2>2, InsertDraftFlushes
      <3>2. Draft(r, j, ls).event = job[r].event
        BY DEF Draft
      <3>3. ~EventTaken(r) /\ ~EventPending(r)
        BY <2>2 DEF InsertDraft
      <3> QED
        BY <3>1, <3>2, <3>3, InsertsEvent DEF EventTaken, EventPending
    <2>3. CASE InsertReversal(r)
      <3>1. Reversal(r).event = NoEvent
        BY DEF Reversal
      <3> QED
        BY <2>3, <3>1, InsertReversalFlushes, InsertsEvent
    <2>4. CASE FlushPosted(r)
      BY <2>4, FlushPostedRestates, RestatesEvent
    <2>5. CASE FlushReversed(r)
      BY <2>5, FlushReversedRestates, RestatesEvent
    <2>6. CASE Commit(r)
      BY <2>6, CommitEvent
    <2>7. CASE Rollback(r)
      BY <2>7, <1>3 DEF Rollback, db
    <2> QED
      BY <1>4, <2>1, <2>2, <2>3, <2>4, <2>5, <2>6, <2>7, ReadsQuiet, <1>2 DEF Step
  <1>5. ASSUME NEW r \in Requests, Arrive(r) \/ Crash(r) PROVE EventInv'
    BY <1>2, <1>3, <1>5, ArriveQuiet DEF Crash, db
  <1> QED
    BY <1>1, <1>4, <1>5 DEF Next

\* An external event is booked by one entry at most, for any number of
\* consumers and of concurrent deliveries.
THEOREM Idempotence == Spec => []OneEntryPerEvent
  <1>1. EventInv => OneEntryPerEvent
    BY DEF EventInv
  <1> QED
    BY <1>1, TypeInvInit, TypeInvNext, LockInvInit, LockInvNext, NumberInvInit, NumberInvNext,
       EventInvInit, EventInvNext, PTL DEF Spec

-----------------------------------------------------------------------------
(* Double entry *)

BalanceInv ==
    /\ EveryEntryBalanced
    /\ \A r \in Requests, e \in EntryIds :
          writes[r][e] # NoRow => Balanced(writes[r][e].lines)

LEMMA BalanceInvInit == Init => BalanceInv
  BY DEF Init, BalanceInv, EveryEntryBalanced, Exists

LEMMA FlushesBalance ==
    ASSUME BalanceInv, NEW r \in Requests, NEW e \in EntryIds, NEW row,
           Flushes(r, e, row), Balanced(row.lines)
    PROVE  BalanceInv'
  BY DEF BalanceInv, EveryEntryBalanced, Flushes, OthersKept, Exists

LEMMA ShrinkBalance ==
    ASSUME BalanceInv,
           \A e \in EntryIds : \/ entries'[e] = entries[e]
                               \/ \E q \in Requests : entries'[e] = writes[q][e],
           \A q \in Requests, e \in EntryIds : writes'[q][e] \in {writes[q][e], NoRow}
    PROVE  BalanceInv'
  BY DEF BalanceInv, EveryEntryBalanced, Exists

LEMMA RestatesBalance ==
    ASSUME BalanceInv, NEW r \in Requests, NEW e \in EntryIds, NEW row,
           Restated(r, e, row)
    PROVE  Balanced(row.lines)
  BY DEF BalanceInv, EveryEntryBalanced, Restated, View, Exists

LEMMA BalanceInvNext == TypeInv /\ LockInv /\ BalanceInv /\ [Next]_vars => BalanceInv'
  <1> SUFFICES ASSUME TypeInv, LockInv, BalanceInv, [Next]_vars PROVE BalanceInv'
    OBVIOUS
  <1>1. CASE UNCHANGED vars
    BY <1>1, ShrinkBalance DEF vars
  <1>2. ASSUME NEW r \in Requests, Quiet(r) PROVE BalanceInv'
    BY <1>2, ShrinkBalance DEF Quiet
  <1>3. ASSUME NEW r \in Requests, Release(r), UNCHANGED entries PROVE BalanceInv'
    BY <1>3, ShrinkBalance, ReleaseReleases DEF OthersKept, Released, NoWrites
  <1>4. ASSUME NEW r \in Requests, Step(r) PROVE BalanceInv'
    <2>1. CASE NextSequence(r)
      BY <2>1, ShrinkBalance DEF NextSequence, db
    <2>2. CASE InsertDraft(r)
      <3>1. PICK e \in EntryIds, j \in Journals, ls \in LinesFor(r) :
              Flushes(r, e, Draft(r, j, ls))
        BY <2>2, InsertDraftFlushes
      <3>2. ls \in Bodies
        BY <2>2, BodyAssumption DEF LinesFor, InsertDraft, TypeInv, JobOK
      <3>3. Balanced(Draft(r, j, ls).lines)
        BY <3>2, BodyAssumption DEF Draft
      <3> QED
        BY <3>1, <3>3, FlushesBalance
    <2>3. CASE InsertReversal(r)
      <3>1. job[r].target \in EntryIds /\ Exists(job[r].target)
        BY <2>3 DEF InsertReversal, TypeInv, JobOK
      <3>2. /\ entries[job[r].target].lines \in Seq(Line)
            /\ Balanced(entries[job[r].target].lines)
        BY <3>1 DEF TypeInv, TypeOK, Row, Exists, BalanceInv, EveryEntryBalanced
      <3>3. Balanced(Reversal(r).lines)
        BY <3>2, MirrorBalanced DEF Reversal
      <3> QED
        BY <2>3, <3>3, InsertReversalFlushes, FlushesBalance
    <2>4. CASE FlushPosted(r)
      BY <2>4, FlushPostedRestates, RestatesBalance, FlushesBalance
    <2>5. CASE FlushReversed(r)
      BY <2>5, FlushReversedRestates, RestatesBalance, FlushesBalance
    <2>6. CASE Commit(r)
      <3>1. \A q \in Requests, e \in EntryIds : writes'[q][e] \in {writes[q][e], NoRow}
        BY <2>6, ReleaseReleases DEF Commit, OthersKept, Released, NoWrites
      <3>2. \A e \in EntryIds : \/ entries'[e] = entries[e]
                                \/ \E q \in Requests : entries'[e] = writes[q][e]
        BY <2>6, CommitWrites DEF View
      <3> QED
        BY <3>1, <3>2, ShrinkBalance
    <2>7. CASE Rollback(r)
      BY <2>7, <1>3 DEF Rollback, db
    <2> QED
      BY <1>4, <2>1, <2>2, <2>3, <2>4, <2>5, <2>6, <2>7, ReadsQuiet, <1>2 DEF Step
  <1>5. ASSUME NEW r \in Requests, Arrive(r) \/ Crash(r) PROVE BalanceInv'
    BY <1>2, <1>3, <1>5, ArriveQuiet DEF Crash, db
  <1> QED
    BY <1>1, <1>4, <1>5 DEF Next

\* Double entry: whatever clients and events submit balances, and reversals of
\* any number of lines keep it so.
THEOREM DoubleEntry == Spec => []EveryEntryBalanced
  <1>1. BalanceInv => EveryEntryBalanced
    BY DEF BalanceInv
  <1> QED
    BY <1>1, TypeInvInit, TypeInvNext, LockInvInit, LockInvNext, BalanceInvInit, BalanceInvNext,
       PTL DEF Spec

-----------------------------------------------------------------------------
(* Reversals *)

\* Once the original was read as POSTED it never is a draft again.
Reversing == {"findReversals", "openPeriod", "sequence", "insertReversal", "flushReversed"}

Past(r) ==
    pc[r] \in Reversing /\ job[r].op = "reverse" => entries[job[r].target].status # "DRAFT"

\* The mirror is flushed before the original is marked, and is among the new rows.
FlushedMirror(r) ==
    pc[r] = "flushReversed" => \E m \in New(r) : writes[r][m].mirrorOf = job[r].target

NewMirrors(r) == \A m \in New(r) : writes[r][m].mirrorOf # NoEntry =>
    LET e == writes[r][m].mirrorOf
    IN  /\ Exists(e) /\ entries[e].status # "DRAFT"
        /\ writes[r][m].status # "DRAFT"
        /\ writes[r][m].lines = Mirror(entries[e].lines)

NewlyReversed(r) == \A e \in EntryIds :
    writes[r][e] # NoRow /\ writes[r][e].status = "REVERSED" =>
        \E m \in New(r) : writes[r][m].mirrorOf = e

MirrorInv ==
    /\ MirrorsMatch
    /\ \A r \in Requests : Past(r) /\ FlushedMirror(r) /\ NewMirrors(r) /\ NewlyReversed(r)

LEMMA MirrorInvInit == Init => MirrorInv
  BY DEF Init, MirrorInv, MirrorsMatch, Mirrors, Past, Reversing, FlushedMirror, NewMirrors,
         NewlyReversed, New, Exists

\* While the committed rows stay, the mirrors of the others stay right.
LEMMA OthersMirror ==
    ASSUME MirrorInv, NEW r \in Requests, OthersKept(r), UNCHANGED entries
    PROVE  /\ MirrorsMatch'
           /\ \A q \in Requests \ {r} :
                 (Past(q) /\ FlushedMirror(q) /\ NewMirrors(q) /\ NewlyReversed(q))'
  <1>1. MirrorsMatch'
    BY DEF MirrorInv, MirrorsMatch, Mirrors, Undoes, Exists
  <1>2. ASSUME NEW q \in Requests \ {r}
        PROVE  (Past(q) /\ FlushedMirror(q) /\ NewMirrors(q) /\ NewlyReversed(q))'
    <2>1. New(q)' = New(q) /\ writes'[q] = writes[q] /\ pc'[q] = pc[q] /\ job'[q] = job[q]
      BY <1>2 DEF OthersKept, New, Exists
    <2> QED
      BY <2>1, <1>2 DEF MirrorInv, Past, FlushedMirror, NewMirrors, NewlyReversed, Exists
  <1> QED
    BY <1>1, <1>2

\* A step that keeps the rows of r keeps its mirrors.
LEMMA SameRowsMirror ==
    ASSUME MirrorInv, NEW r \in Requests, OthersKept(r), UNCHANGED <<entries, writes>>,
           Past(r)', pc'[r] # "flushReversed"
    PROVE  MirrorInv'
  <1>1. New(r)' = New(r)
    BY DEF New, Exists
  <1>2. (FlushedMirror(r) /\ NewMirrors(r) /\ NewlyReversed(r))'
    BY <1>1 DEF MirrorInv, FlushedMirror, NewMirrors, NewlyReversed, Exists
  <1> QED
    BY <1>2, OthersMirror DEF MirrorInv

LEMMA ArrivePast ==
    ASSUME TypeInv, NEW r \in Requests, Arrive(r)
    PROVE  Past(r)'
  <1>1. PICK j \in Job, first \in Statements : Start(r, j, first) /\ Admissible(j, first)
    BY ArriveStarts
  <1>2. pc'[r] = first /\ job'[r] = j
    BY <1>1 DEF Start, TypeInv, TypeOK
  <1> QED
    BY <1>1, <1>2 DEF Admissible, Past, Reversing

LEMMA ReadsPast ==
    ASSUME TypeInv, NEW r \in Requests, Past(r),
           \/ FindEvent(r) \/ OpenPeriod(r) \/ OpenYear(r) \/ DuplicateEvent(r)
           \/ CheckAccounts(r) \/ ReadDraft(r) \/ PostPeriod(r) \/ AnnouncePosted(r)
           \/ ReadOriginal(r) \/ FindReversals(r) \/ ReadYear(r) \/ ReadPeriods(r)
           \/ AnnounceClosed(r) \/ NextSequence(r)
    PROVE  Past(r)'
  <1> USE DEF Past, Reversing, db, private, Go, TypeInv, TypeOK
  <1>1. CASE FindEvent(r)
    <2>1. job'[r].op = job[r].op
      BY <1>1 DEF FindEvent, Job
    <2>2. job[r].op = "ingest"
      BY <1>1 DEF FindEvent, JobOK
    <2> QED
      BY <2>1, <2>2
  <1>2. CASE OpenPeriod(r) \/ FindReversals(r) \/ NextSequence(r)
    BY <1>2 DEF OpenPeriod, FindReversals, NextSequence
  <1>3. CASE OpenYear(r)
    <2>1. job' = job /\ job[r].op # "reverse"
      BY <1>3 DEF OpenYear, JobOK
    <2> QED
      BY <2>1
  <1>4. CASE ReadOriginal(r)
    BY <1>4 DEF ReadOriginal
  <1>5. CASE DuplicateEvent(r) \/ CheckAccounts(r)
    <2>1. pc'[r] \in {"readDraft", "commit", "failed"}
      BY <1>5, ReadsQuiet DEF Quiet, DuplicateEvent, CheckAccounts
    <2> QED
      BY <2>1
  <1>6. CASE ReadDraft(r) \/ PostPeriod(r) \/ AnnouncePosted(r)
    BY <1>6 DEF ReadDraft, PostPeriod, AnnouncePosted
  <1>7. CASE ReadYear(r) \/ ReadPeriods(r) \/ AnnounceClosed(r)
    BY <1>7 DEF ReadYear, ReadPeriods, AnnounceClosed
  <1> QED
    BY <1>1, <1>2, <1>3, <1>4, <1>5, <1>6, <1>7

LEMMA InsertDraftMirror ==
    ASSUME TypeInv, LockInv, MirrorInv, NEW r \in Requests, InsertDraft(r)
    PROVE  MirrorInv'
  <1>1. PICK e \in EntryIds, j \in Journals, ls \in LinesFor(r) :
          /\ Flushes(r, e, Draft(r, j, ls)) /\ Free(e)
          /\ pc[r] = "insertDraft" /\ pc'[r] = "checkAccounts"
    BY InsertDraftFlushes
  <1>2. Draft(r, j, ls).mirrorOf = NoEntry /\ Draft(r, j, ls).status = "DRAFT"
    BY DEF Draft
  <1>3. NoWrites(r)
    BY <1>1 DEF LockInv, Holds
  <1>4. (Past(r) /\ FlushedMirror(r))'
    BY <1>1 DEF Past, Reversing, FlushedMirror
  <1>5. (NewMirrors(r) /\ NewlyReversed(r))'
    BY <1>1, <1>2, <1>3 DEF NewMirrors, NewlyReversed, New, Flushes, NoWrites, Exists
  <1> QED
    BY <1>1, <1>4, <1>5, OthersMirror DEF MirrorInv, Flushes

LEMMA InsertReversalMirror ==
    ASSUME TypeInv, LockInv, MirrorInv, NEW r \in Requests, InsertReversal(r)
    PROVE  MirrorInv'
  <1>1. PICK m \in EntryIds :
          /\ Flushes(r, m, Reversal(r)) /\ Free(m)
          /\ pc[r] = "insertReversal" /\ pc'[r] = "flushReversed" /\ job' = job
    BY InsertReversalFlushes
  <1>2. /\ Reversal(r).mirrorOf = job[r].target /\ Reversal(r).status = "POSTED"
        /\ Reversal(r).lines = Mirror(entries[job[r].target].lines)
    BY DEF Reversal
  <1>3. NoWrites(r)
    BY <1>1 DEF LockInv, Holds
  <1>4. Exists(job[r].target) /\ entries[job[r].target].status # "DRAFT"
    BY <1>1 DEF TypeInv, JobOK, MirrorInv, Past, Reversing
  <1>5. New(r)' = {m} /\ entries' = entries /\ writes'[r][m] = Reversal(r)
    BY <1>1, <1>3 DEF New, Flushes, NoWrites, Free, Exists
  <1>6. Past(r)'
    BY <1>1, <1>4, <1>5 DEF Past
  <1>7. FlushedMirror(r)'
    BY <1>1, <1>2, <1>5 DEF FlushedMirror
  <1>8. NewMirrors(r)'
    BY <1>2, <1>4, <1>5 DEF NewMirrors, Exists
  <1>9. NewlyReversed(r)'
    BY <1>1, <1>2, <1>3, <1>5 DEF NewlyReversed, Flushes, NoWrites
  <1> QED
    BY <1>1, <1>6, <1>7, <1>8, <1>9, OthersMirror DEF MirrorInv, Flushes

LEMMA RestatesMirror ==
    ASSUME MirrorInv, NEW r \in Requests, NEW e \in EntryIds, NEW row,
           Flushes(r, e, row), Restated(r, e, row),
           pc'[r] \in {"announcePosted", "commit"},
           row.status = "REVERSED" => \E m \in New(r) : writes[r][m].mirrorOf = e
    PROVE  MirrorInv'
  <1>1. New(r)' = New(r) /\ entries' = entries
    BY DEF New, Flushes, Restated, View, Exists
  <1>2. \A m \in New(r) : /\ writes'[r][m].mirrorOf = writes[r][m].mirrorOf
                          /\ writes'[r][m].lines = writes[r][m].lines
                          /\ writes'[r][m].status = "DRAFT" => writes[r][m].status = "DRAFT"
    BY DEF New, Flushes, Restated, View
  <1>3. (Past(r) /\ FlushedMirror(r))'
    BY DEF Past, Reversing, FlushedMirror
  <1>4. NewMirrors(r)'
    BY <1>1, <1>2 DEF MirrorInv, NewMirrors, Exists
  <1>5. NewlyReversed(r)'
    BY <1>1, <1>2 DEF MirrorInv, NewlyReversed, Flushes
  <1> QED
    BY <1>3, <1>4, <1>5, OthersMirror DEF MirrorInv, Flushes

LEMMA CommitMirrors ==
    ASSUME TypeInv, NumberInv, MirrorInv, NEW r \in Requests, Commit(r)
    PROVE  MirrorsMatch'
  <1>1. ASSUME NEW e \in EntryIds, NEW m \in Mirrors(e)'
        PROVE  /\ Exists(e)' /\ entries'[e].status # "DRAFT"
               /\ entries'[m].status # "DRAFT"
               /\ Undoes(m, e)'
    <2>1. m \in EntryIds /\ Exists(m)' /\ entries'[m].mirrorOf = e
      BY <1>1 DEF Mirrors
    <2>2. CASE Exists(m)
      <3>1. m \in Mirrors(e)
        BY <2>1, <2>2, CommitAdds DEF Mirrors
      <3>2. Exists(e) /\ entries[e].status # "DRAFT" /\ entries[m].status # "DRAFT" /\ Undoes(m, e)
        BY <3>1 DEF MirrorInv, MirrorsMatch
      <3>3. entries'[e].lines = entries[e].lines /\ entries'[m].lines = entries[m].lines
        BY <2>1, <2>2, <3>2, CommitAdds
      <3>4. Undoes(m, e)'
        BY <3>2, <3>3 DEF Undoes
      <3> QED
        BY <2>1, <2>2, <3>2, <3>4, CommitAdds
    <2>3. CASE m \in New(r)
      <3>1. entries'[m] = writes[r][m] /\ e # NoEntry
        BY <2>3, CommitAdds, NullAssumption
      <3>2. /\ Exists(e) /\ entries[e].status # "DRAFT" /\ writes[r][m].status # "DRAFT"
            /\ writes[r][m].lines = Mirror(entries[e].lines)
        BY <2>1, <2>3, <3>1 DEF MirrorInv, NewMirrors
      <3>3. entries'[e].lines = entries[e].lines
        BY <3>2, CommitAdds
      <3>4. entries[e].lines \in Seq(Line)
        BY <3>2 DEF TypeInv, TypeOK, Row, Exists
      <3>5. Len(Mirror(entries[e].lines)) = Len(entries[e].lines)
        BY <3>4, MirrorType
      <3>6. Undoes(m, e)'
        BY <3>1, <3>2, <3>3, <3>5 DEF Undoes, Mirror
      <3> QED
        BY <3>1, <3>2, <3>6, CommitAdds
    <2> QED
      BY <2>1, <2>2, <2>3, CommitAdds
  <1>2. ASSUME NEW e \in EntryIds, Exists(e)', entries'[e].status = "REVERSED"
        PROVE  Mirrors(e)' # {}
    <2>1. CASE writes[r][e] # NoRow
      <3>1. PICK m \in New(r) : writes[r][m].mirrorOf = e
        BY <1>2, <2>1, CommitWrites DEF View, MirrorInv, NewlyReversed
      <3>2. m \in EntryIds /\ Exists(m)' /\ entries'[m].mirrorOf = e
        BY <3>1, CommitAdds DEF New
      <3> QED
        BY <3>2 DEF Mirrors
    <2>2. CASE writes[r][e] = NoRow
      <3>1. Exists(e) /\ entries[e].status = "REVERSED"
        BY <1>2, <2>2, CommitWrites DEF View, Exists
      <3>2. PICK m \in EntryIds : Exists(m) /\ entries[m].mirrorOf = e
        BY <3>1 DEF MirrorInv, MirrorsMatch, Mirrors
      <3>3. Exists(m)' /\ entries'[m].mirrorOf = e
        BY <3>2, CommitAdds
      <3> QED
        BY <3>3 DEF Mirrors
    <2> QED
      BY <2>1, <2>2
  <1> QED
    BY <1>1, <1>2 DEF MirrorsMatch

LEMMA ReleasedMirror ==
    ASSUME NEW r \in Requests, Released(r)
    PROVE  (Past(r) /\ FlushedMirror(r) /\ NewMirrors(r) /\ NewlyReversed(r))'
  BY DEF Released, NoWrites, Past, Reversing, FlushedMirror, NewMirrors, NewlyReversed, New

LEMMA CommitMirror ==
    ASSUME TypeInv, LockInv, NumberInv, MirrorInv, NEW r \in Requests, Commit(r)
    PROVE  MirrorInv'
  <1>1. ASSUME NEW q \in Requests \ {r}
        PROVE  (Past(q) /\ FlushedMirror(q) /\ NewMirrors(q) /\ NewlyReversed(q))'
    <2>1. pc'[q] = pc[q] /\ job'[q] = job[q] /\ writes'[q] = writes[q] /\ New(q)' = New(q)
      BY CommitOthers
    <2>2. Past(q)'
      <3>1. job[q].op = "reverse" => job[q].target \in EntryIds /\ Exists(job[q].target)
        BY DEF TypeInv, JobOK
      <3> QED
        BY <2>1, <3>1, CommitAdds DEF MirrorInv, Past
    <2>3. FlushedMirror(q)'
      BY <2>1 DEF MirrorInv, FlushedMirror
    <2>4. NewMirrors(q)'
      <3> SUFFICES ASSUME NEW m \in New(q), NEW e \in EntryIds, writes[q][m].mirrorOf = e
                   PROVE  /\ Exists(e)' /\ entries'[e].status # "DRAFT"
                          /\ writes[q][m].status # "DRAFT"
                          /\ writes[q][m].lines = Mirror(entries[e].lines)'
        <4>1. \A m \in New(q) : writes[q][m].mirrorOf \in EntryIds \cup {NoEntry}
          BY DEF TypeInv, TypeOK, New, Row
        <4> QED
          BY <2>1, <4>1 DEF NewMirrors
      <3>1. e # NoEntry
        BY NullAssumption
      <3>2. /\ Exists(e) /\ entries[e].status # "DRAFT" /\ writes[q][m].status # "DRAFT"
            /\ writes[q][m].lines = Mirror(entries[e].lines)
        BY <3>1 DEF MirrorInv, NewMirrors
      <3>3. Exists(e)' /\ entries'[e].status # "DRAFT" /\ entries'[e].lines = entries[e].lines
        BY <3>2, CommitAdds
      <3>4. Mirror(entries[e].lines)' = Mirror(entries[e].lines)
        BY <3>3 DEF Mirror
      <3> QED
        BY <3>2, <3>3, <3>4
    <2>5. NewlyReversed(q)'
      BY <2>1 DEF MirrorInv, NewlyReversed
    <2> QED
      BY <2>2, <2>3, <2>4, <2>5
  <1> QED
    BY <1>1, CommitMirrors, ReleaseReleases, ReleasedMirror DEF MirrorInv, Commit

LEMMA MirrorInvNext ==
    TypeInv /\ LockInv /\ NumberInv /\ MirrorInv /\ [Next]_vars => MirrorInv'
  <1> SUFFICES ASSUME TypeInv, LockInv, NumberInv, MirrorInv, [Next]_vars PROVE MirrorInv'
    OBVIOUS
  <1>1. CASE UNCHANGED vars
    BY <1>1 DEF vars, MirrorInv, MirrorsMatch, Mirrors, Undoes, Past, FlushedMirror,
               NewMirrors, NewlyReversed, New, Exists
  <1>2. ASSUME NEW r \in Requests, Quiet(r), Past(r)' PROVE MirrorInv'
    BY <1>2, SameRowsMirror DEF Quiet, Early
  <1>3. ASSUME NEW r \in Requests, Release(r), UNCHANGED entries PROVE MirrorInv'
    BY <1>3, ReleaseReleases, ReleasedMirror, OthersMirror DEF MirrorInv
  <1>4. ASSUME NEW r \in Requests, Step(r) PROVE MirrorInv'
    <2>0. Past(r)
      BY DEF MirrorInv
    <2>1. CASE NextSequence(r)
      <3>1. OthersKept(r) /\ UNCHANGED <<entries, writes>> /\ pc'[r] # "flushReversed"
        BY <2>1, NextSequenceDraws DEF Draws
      <3> QED
        BY <2>0, <2>1, <3>1, ReadsPast, SameRowsMirror
    <2>2. CASE InsertDraft(r)
      BY <2>2, InsertDraftMirror
    <2>3. CASE InsertReversal(r)
      BY <2>3, InsertReversalMirror
    <2>4. CASE FlushPosted(r)
      BY <2>4, FlushPostedRestates, RestatesMirror
    <2>5. CASE FlushReversed(r)
      BY <2>5, FlushReversedRestates, RestatesMirror DEF MirrorInv, FlushedMirror
    <2>6. CASE Commit(r)
      BY <2>6, CommitMirror
    <2>7. CASE Rollback(r)
      BY <2>7, <1>3 DEF Rollback, db
    <2> QED
      BY <1>4, <2>0, <2>1, <2>2, <2>3, <2>4, <2>5, <2>6, <2>7, ReadsQuiet, ReadsPast, <1>2
         DEF Step
  <1>5. ASSUME NEW r \in Requests, Arrive(r) \/ Crash(r) PROVE MirrorInv'
    BY <1>2, <1>3, <1>5, ArriveQuiet, ArrivePast DEF Crash, db
  <1> QED
    BY <1>1, <1>4, <1>5 DEF Next

\* A mirror undoes an entry that had been posted, and no entry is REVERSED
\* without one, although reverse_entry writes the two rows separately and
\* another request may commit in between.
THEOREM Reversals == Spec => []MirrorsMatch
  <1>1. MirrorInv => MirrorsMatch
    BY DEF MirrorInv
  <1> QED
    BY <1>1, TypeInvInit, TypeInvNext, LockInvInit, LockInvNext, NumberInvInit, NumberInvNext,
       MirrorInvInit, MirrorInvNext, PTL DEF Spec

\* No step takes an entry back to DRAFT, or from DRAFT to REVERSED, or loses it.
THEOREM LifeCycle == Spec => StatusPath
  <1> DEFINE A == \A e \in EntryIds : Exists(e) =>
                    /\ entries'[e] # NoRow
                    /\ entries'[e].status = "DRAFT" => entries[e].status = "DRAFT"
                    /\ entries'[e].status = "REVERSED" => entries[e].status # "DRAFT"
  <1>1. TypeInv /\ NumberInv /\ MirrorInv /\ [Next]_vars => [A]_entries
    <2> SUFFICES ASSUME TypeInv, NumberInv, MirrorInv, [Next]_vars, entries' # entries
                 PROVE  A
      OBVIOUS
    <2>1. PICK r \in Requests : Arrive(r) \/ Step(r) \/ Crash(r)
      BY DEF Next, vars
    <2>2. Commit(r)
      BY <2>1, ArriveQuiet, ReadsQuiet DEF Step, Quiet, NextSequence, InsertDraft, InsertReversal,
         FlushPosted, FlushReversed, Rollback, Crash, db
    <2>3. ASSUME NEW e \in EntryIds, Exists(e), entries'[e].status = "REVERSED"
          PROVE  entries[e].status # "DRAFT"
      <3>1. CASE writes[r][e] # NoRow
        <4>1. PICK m \in New(r) : writes[r][m].mirrorOf = e
          BY <2>2, <2>3, <3>1, CommitWrites DEF View, MirrorInv, NewlyReversed
        <4> QED
          BY <4>1, NullAssumption DEF MirrorInv, NewMirrors
      <3>2. CASE writes[r][e] = NoRow
        BY <2>2, <2>3, <3>2, CommitWrites DEF View
      <3> QED
        BY <3>1, <3>2
    <2> QED
      BY <2>2, <2>3, CommitAdds DEF Exists
  <1> HIDE DEF A
  <1>2. [][A]_entries => StatusPath
    BY DEF A, StatusPath
  <1> QED
    BY <1>1, <1>2, TypeInvInit, TypeInvNext, LockInvInit, LockInvNext, NumberInvInit,
       NumberInvNext, MirrorInvInit, MirrorInvNext, PTL DEF Spec

-----------------------------------------------------------------------------
(***************************************************************************)
(* One request at a time: the refinement of EntryBook, for any journals,   *)
(* periods, years, bodies and events.  Each COMMIT is one operation on the *)
(* books, and no other statement touches them.  What EntryBook promises of *)
(* posted entries and of closed periods follows.                           *)
(***************************************************************************)

(* What a request that runs alone has read and written *)

Zero    == [j \in Journals |-> 0]
Blank   == [e \in EntryIds |-> NoRow]
Drew(j) == [Zero EXCEPT ![j] = lastSeq[j] + 1]

\* Periods are closed with their year: who reads one has read the other.
ClosedAsYear == \A p \in Periods : period[p] = "OPEN" <=> year[YearOf[p]] = "OPEN"

Opened(p) == p \in Periods /\ period[p] = "OPEN" /\ year[YearOf[p]] = "OPEN"

Accepted(ls) == \A i \in DOMAIN ls : ls[i].account \in Usable

\* The arguments an operation does not have are empty.
Shaped(j) ==
    /\ j.op # "close" => j.year = NoYear
    /\ j.op # "ingest" => j.event = NoEvent
    /\ j.op = "ingest" => j.event \in Events /\ j.date = Posting[j.event].date

\* create_entry: the row that is to be, in journal jn with lines ls.
DraftOf(j, jn, ls) ==
    [journal |-> jn, seq |-> lastSeq[jn] + 1, date |-> j.date, lines |-> ls,
     status |-> "DRAFT", mirrorOf |-> NoEntry, event |-> j.event, postedBy |-> NoUser]

IsNew(j, jn, ls) ==
    /\ j.target \in EntryIds /\ entries[j.target] = NoRow /\ Opened(j.date)
    /\ jn \in Journals /\ ls \in Bodies
    /\ j.op = "ingest" => /\ jn = Posting[j.event].journal /\ ls = Posting[j.event].lines
                          /\ \A f \in EntryIds : Exists(f) => entries[f].event # j.event

Drafted(j, d, w) ==
    /\ j.op \in {"create", "ingest"}
    /\ \E jn \in Journals, ls \in Bodies :
          IsNew(j, jn, ls) /\ d = Drew(jn) /\ w = [Blank EXCEPT ![j.target] = DraftOf(j, jn, ls)]

Checked(j, d, w) == Drafted(j, d, w) /\ Accepted(w[j.target].lines)

\* post_entry
ToPost(j) == j.target \in EntryIds /\ Exists(j.target) /\ entries[j.target].status = "DRAFT"

Posted(row, r) == [row EXCEPT !.status = "POSTED", !.postedBy = r]

Booked(r, j, d, w) ==
    /\ j.op = "ingest"
    /\ \E jn \in Journals, ls \in Bodies :
          /\ IsNew(j, jn, ls) /\ Accepted(ls) /\ d = Drew(jn)
          /\ w = [Blank EXCEPT ![j.target] = Posted(DraftOf(j, jn, ls), r)]

Validated(r, j, d, w) ==
    /\ j.op \in {"ingest", "post"} /\ ToPost(j) /\ Opened(entries[j.target].date) /\ d = Zero
    /\ w = [Blank EXCEPT ![j.target] = Posted(entries[j.target], r)]

\* reverse_entry
ToReverse(j) ==
    j.op = "reverse" /\ j.target \in EntryIds /\ Exists(j.target) /\ entries[j.target].status = "POSTED"

Unmirrored(j) == \A f \in EntryIds : Exists(f) => entries[f].mirrorOf # j.target

MirrorOf(r, j) ==
    [journal |-> EX, seq |-> lastSeq[EX] + 1, date |-> j.date,
     lines |-> Mirror(entries[j.target].lines), status |-> "POSTED",
     mirrorOf |-> j.target, event |-> NoEvent, postedBy |-> r]

Reversible(j, d) == ToReverse(j) /\ Unmirrored(j) /\ Opened(j.date) /\ d = Drew(EX)

Mirrored(r, j, d, w) ==
    /\ Reversible(j, d)
    /\ \E m \in EntryIds : entries[m] = NoRow /\ w = [Blank EXCEPT ![m] = MirrorOf(r, j)]

Undone(r, j, d, w) ==
    /\ Reversible(j, d)
    /\ \E m \in EntryIds :
          /\ entries[m] = NoRow
          /\ w = [Blank EXCEPT ![m] = MirrorOf(r, j),
                               ![j.target] = [entries[j.target] EXCEPT !.status = "REVERSED"]]

\* FiscalYearService.close
Closing(j, d, w, k) ==
    /\ j.op = "close" /\ j.year \in Years /\ year[j.year] = "OPEN" /\ d = Zero /\ w = Blank
    /\ k = {p \in Periods : YearOf[p] = j.year /\ period[p] = "OPEN"}

\* What request r knows before statement s, alone: with arguments j, having drawn d,
\* flushed w and found k to lock.
Pending(r, s, j, d, w, k) ==
    /\ Shaped(j)
    /\ j.op # "close" => k = {}
    /\ s \in {"idle", "findEvent", "openPeriod", "openYear", "sequence", "readOriginal",
              "findReversals", "readYear", "readPeriods"} => d = Zero /\ w = Blank /\ k = {}
    /\ s \in {"openYear", "sequence"} => Opened(j.date)
    /\ s \in {"findReversals", "openPeriod", "sequence"} /\ j.op = "reverse" => ToReverse(j)
    /\ s \in {"openPeriod", "sequence"} /\ j.op = "reverse" => Unmirrored(j)
    /\ s = "readPeriods" => j.year \in Years /\ year[j.year] = "OPEN"
    /\ s = "insertDraft" =>
          /\ Opened(j.date) /\ w = Blank
          /\ \E jn \in Journals : d = Drew(jn) /\ (j.op = "ingest" => jn = Posting[j.event].journal)
    /\ s = "checkAccounts" => Drafted(j, d, w)
    /\ s \in {"readDraft", "postPeriod", "flushPosted"} =>
          \/ j.op = "ingest" /\ Checked(j, d, w)
          \/ /\ j.op \in {"ingest", "post"} /\ d = Zero /\ w = Blank
             /\ s # "readDraft" => ToPost(j)
             /\ s = "flushPosted" => Opened(entries[j.target].date)
    /\ s = "announcePosted" => Booked(r, j, d, w) \/ Validated(r, j, d, w)
    /\ s = "insertReversal" => Reversible(j, d) /\ w = Blank
    /\ s = "flushReversed" => Mirrored(r, j, d, w)
    /\ s = "announceClosed" => Closing(j, d, w, k)
    /\ s = "commit" => \/ j.op = "create" /\ Checked(j, d, w)
                       \/ Booked(r, j, d, w) \/ Validated(r, j, d, w)
                       \/ Undone(r, j, d, w)
                       \/ Closing(j, d, w, k)

At(r, s, j, d, w, k) ==
    pc[r] = s /\ job[r] = j /\ drawn[r] = d /\ writes[r] = w /\ toLock[r] = k

AloneInv(r) ==
    /\ ClosedAsYear
    /\ \E s, j, d, w, k : At(r, s, j, d, w, k) /\ Pending(r, s, j, d, w, k)

\* A statement that does not commit leaves the request knowing what the next needs.
Goes(r) == /\ UNCHANGED db
           /\ \E s, j, d, w, k : At(r, s, j, d, w, k)' /\ Pending(r, s, j, d, w, k)

LEMMA GoesOn ==
    ASSUME NEW r \in Requests, AloneInv(r), Goes(r)
    PROVE  AloneInv(r)'
<1>1. PICK s, j, d, w, k : At(r, s, j, d, w, k)' /\ Pending(r, s, j, d, w, k)
  BY DEF Goes
<1>2. UNCHANGED <<entries, lastSeq, period, year>>
  BY DEF Goes, db
<1>3. Pending(r, s, j, d, w, k)'
  <2>1. /\ \A jn : Drew(jn)' = Drew(jn)
        /\ \A p : Opened(p)' <=> Opened(p)
        /\ \A jn, ls : DraftOf(j, jn, ls)' = DraftOf(j, jn, ls)
        /\ MirrorOf(r, j)' = MirrorOf(r, j)
    BY <1>2 DEF Drew, Opened, DraftOf, MirrorOf
  <2>2. \A jn, ls : IsNew(j, jn, ls)' <=> IsNew(j, jn, ls)
    BY <1>2, <2>1 DEF IsNew, Exists
  <2>3. /\ Drafted(j, d, w)' <=> Drafted(j, d, w)
        /\ Booked(r, j, d, w)' <=> Booked(r, j, d, w)
    BY <2>1, <2>2 DEF Drafted, Booked
  <2>4. Checked(j, d, w)' <=> Checked(j, d, w)
    BY <2>3 DEF Checked
  <2>5. (ToPost(j)' <=> ToPost(j)) /\ (Validated(r, j, d, w)' <=> Validated(r, j, d, w))
    BY <1>2, <2>1 DEF ToPost, Validated, Exists
  <2>6. /\ ToReverse(j)' <=> ToReverse(j)
        /\ Unmirrored(j)' <=> Unmirrored(j)
        /\ Reversible(j, d)' <=> Reversible(j, d)
    BY <1>2, <2>1 DEF ToReverse, Unmirrored, Reversible, Exists
  <2>7. /\ Mirrored(r, j, d, w)' <=> Mirrored(r, j, d, w)
        /\ Undone(r, j, d, w)' <=> Undone(r, j, d, w)
    BY <1>2, <2>1, <2>6 DEF Mirrored, Undone
  <2>8. Closing(j, d, w, k)' <=> Closing(j, d, w, k)
    BY <1>2 DEF Closing
  <2> QED
    BY <1>1, <1>2, <2>1, <2>3, <2>4, <2>5, <2>6, <2>7, <2>8 DEF Pending
<1>4. ClosedAsYear'
  BY <1>2 DEF AloneInv, ClosedAsYear
<1> QED
  BY <1>1, <1>3, <1>4 DEF AloneInv

LEMMA AloneInit ==
    ASSUME NEW r \in Requests, Init
    PROVE  AloneInv(r)
<1>1. At(r, "idle", NoJob, Zero, Blank, {})
  BY DEF Init, At, Zero, Blank
<1>2. Pending(r, "idle", NoJob, Zero, Blank, {})
  BY DEF Pending, Shaped, NoJob
<1>3. ClosedAsYear
  BY CalendarAssumption DEF Init, ClosedAsYear
<1> QED
  BY <1>1, <1>2, <1>3 DEF AloneInv

-----------------------------------------------------------------------------
(* The statements one by one *)

LEMMA ArriveGoes ==
    ASSUME TypeInv, NEW r \in Requests, AloneInv(r), Arrive(r)
    PROVE  Goes(r)
<1>1. drawn[r] = Zero /\ writes[r] = Blank /\ toLock[r] = {}
  <2>1. pc[r] = "idle"
    BY DEF Arrive, StartCreate, StartIngest, StartPost, StartReverse, StartClose, Start
  <2> QED
    BY <2>1 DEF AloneInv, At, Pending
<1>2. ASSUME NEW j \in Job, NEW s \in Statements, Start(r, j, s), Shaped(j),
             s \in {"readDraft", "openPeriod", "findEvent", "readOriginal", "readYear"},
             s = "openPeriod" => j.op = "create", s = "readDraft" => j.op = "post"
      PROVE  Goes(r)
  <2>1. At(r, s, j, Zero, Blank, {})'
    BY <1>1, <1>2 DEF Start, At, TypeInv, TypeOK
  <2>2. Pending(r, s, j, Zero, Blank, {})
    BY <1>2 DEF Pending
  <2> QED
    BY <1>2, <2>1, <2>2 DEF Start, Goes
<1>3. CASE StartCreate(r)
  <2>1. PICK p \in Periods : Start(r, [NoJob EXCEPT !.op = "create", !.date = p], "openPeriod")
    BY <1>3 DEF StartCreate
  <2>2. [NoJob EXCEPT !.op = "create", !.date = p] \in Job
        /\ Shaped([NoJob EXCEPT !.op = "create", !.date = p])
        /\ [NoJob EXCEPT !.op = "create", !.date = p].op = "create"
    BY DEF NoJob, Job, Ops, Shaped
  <2> QED
    BY <1>2, <2>1, <2>2 DEF Statements
<1>4. CASE StartIngest(r)
  <2>1. PICK ev \in Events :
          Start(r, [NoJob EXCEPT !.op = "ingest", !.event = ev, !.date = Posting[ev].date],
                "findEvent")
    BY <1>4 DEF StartIngest
  <2>2. Posting[ev].date \in Periods
    BY BodyAssumption
  <2>3. [NoJob EXCEPT !.op = "ingest", !.event = ev, !.date = Posting[ev].date] \in Job
        /\ Shaped([NoJob EXCEPT !.op = "ingest", !.event = ev, !.date = Posting[ev].date])
    BY <2>2 DEF NoJob, Job, Ops, Shaped
  <2> QED
    BY <1>2, <2>1, <2>3 DEF Statements
<1>5. CASE StartPost(r)
  <2>1. PICK e \in EntryIds : Start(r, [NoJob EXCEPT !.op = "post", !.target = e], "readDraft")
    BY <1>5 DEF StartPost
  <2>2. [NoJob EXCEPT !.op = "post", !.target = e] \in Job
        /\ Shaped([NoJob EXCEPT !.op = "post", !.target = e])
        /\ [NoJob EXCEPT !.op = "post", !.target = e].op = "post"
    BY DEF NoJob, Job, Ops, Shaped
  <2> QED
    BY <1>2, <2>1, <2>2 DEF Statements
<1>6. CASE StartReverse(r)
  <2>1. PICK e \in EntryIds, p \in Periods :
          Start(r, [NoJob EXCEPT !.op = "reverse", !.target = e, !.date = p], "readOriginal")
    BY <1>6 DEF StartReverse
  <2>2. [NoJob EXCEPT !.op = "reverse", !.target = e, !.date = p] \in Job
        /\ Shaped([NoJob EXCEPT !.op = "reverse", !.target = e, !.date = p])
    BY DEF NoJob, Job, Ops, Shaped
  <2> QED
    BY <1>2, <2>1, <2>2 DEF Statements
<1>7. CASE StartClose(r)
  <2>1. PICK y \in Years : Start(r, [NoJob EXCEPT !.op = "close", !.year = y], "readYear")
    BY <1>7 DEF StartClose
  <2>2. [NoJob EXCEPT !.op = "close", !.year = y] \in Job
        /\ Shaped([NoJob EXCEPT !.op = "close", !.year = y])
    BY DEF NoJob, Job, Ops, Shaped
  <2> QED
    BY <1>2, <2>1, <2>2 DEF Statements
<1> QED
  BY <1>3, <1>4, <1>5, <1>6, <1>7 DEF Arrive


\* A statement that only reads, or raises.
LEMMA ReadsGo ==
    ASSUME TypeInv, NEW r \in Requests, NEW s, NEW j, NEW d, NEW w, NEW k, NEW n,
           At(r, s, j, d, w, k), pc'[r] = n, UNCHANGED db, UNCHANGED private,
           Pending(r, n, j, d, w, k)
    PROVE  Goes(r)
<1>1. At(r, n, j, d, w, k)'
  BY DEF At, private
<1> QED
  BY <1>1 DEF Goes

LEMMA CreateReadsGo ==
    ASSUME TypeInv, NEW r \in Requests, AloneInv(r),
           FindEvent(r) \/ OpenPeriod(r) \/ OpenYear(r) \/ DuplicateEvent(r) \/ CheckAccounts(r)
    PROVE  Goes(r)
<1>1. PICK s, j, d, w, k : At(r, s, j, d, w, k) /\ Pending(r, s, j, d, w, k)
  BY DEF AloneInv
<1>2. pc[r] = s /\ job[r] = j /\ drawn[r] = d /\ writes[r] = w /\ toLock[r] = k
  BY <1>1 DEF At
<1>3. JobOK(r) /\ TypeOK
  BY DEF TypeInv
<1>4. UNCHANGED db
  BY DEF FindEvent, OpenPeriod, OpenYear, DuplicateEvent, CheckAccounts, db
<1>5. k = {} => Pending(r, "failed", j, d, w, k)
  BY <1>1 DEF Pending
<1>6. CASE FindEvent(r)
  <2>1. s = "findEvent" /\ j.op = "ingest" /\ d = Zero /\ w = Blank /\ k = {}
    BY <1>1, <1>2, <1>3, <1>6 DEF FindEvent, JobOK, Pending
  <2>2. CASE Go(r, TRUE, "openPeriod") /\ UNCHANGED job
    <3>1. pc'[r] = "openPeriod" /\ UNCHANGED private
      BY <1>3, <1>6, <2>2 DEF FindEvent, Go, private, TypeOK
    <3>2. Pending(r, "openPeriod", j, d, w, k)
      BY <1>1, <2>1 DEF Pending
    <3> QED
      BY <1>1, <1>4, <3>1, <3>2, ReadsGo
  <2>3. ASSUME NEW e \in EntryIds, job' = [job EXCEPT ![r].target = e], Go(r, TRUE, "readDraft")
        PROVE  Goes(r)
    <3>1. PICK j1 : j1 = [j EXCEPT !.target = e]
      OBVIOUS
    <3>2. At(r, "readDraft", j1, d, w, k)'
      BY <1>2, <1>3, <1>6, <2>3, <3>1 DEF FindEvent, Go, At, TypeOK
    <3>3. j \in Job
      BY <1>2, <1>3 DEF TypeOK
    <3>4. j1.op = j.op /\ j1.date = j.date /\ j1.event = j.event /\ j1.year = j.year
      BY <3>1, <3>3 DEF Job
    <3>5. Pending(r, "readDraft", j1, d, w, k)
      BY <1>1, <2>1, <3>4 DEF Pending, Shaped
    <3> QED
      BY <1>4, <3>2, <3>5 DEF Goes
  <2> QED
    BY <1>6, <2>2, <2>3 DEF FindEvent
<1>7. CASE OpenPeriod(r)
  <2>1. s = "openPeriod" /\ j.op \in {"create", "ingest", "reverse"} /\ j.date \in Periods
        /\ d = Zero /\ w = Blank /\ k = {}
    BY <1>1, <1>2, <1>3, <1>7 DEF OpenPeriod, JobOK, Pending
  <2>2. UNCHANGED private
    BY <1>7 DEF OpenPeriod, private
  <2>3. CASE period[j.date] = "OPEN"
    <3>1. pc'[r] = IF j.op = "reverse" THEN "sequence" ELSE "openYear"
      BY <1>2, <1>3, <1>7, <2>3 DEF OpenPeriod, Go, TypeOK
    <3>2. Opened(j.date)
      BY <2>1, <2>3 DEF AloneInv, ClosedAsYear, Opened
    <3>3. CASE j.op = "reverse"
      <4>1. Pending(r, "sequence", j, d, w, k)
        BY <1>1, <2>1, <3>2, <3>3 DEF Pending
      <4> QED
        BY <1>1, <1>4, <2>2, <3>1, <3>3, <4>1, ReadsGo
    <3>4. CASE j.op # "reverse"
      <4>1. Pending(r, "openYear", j, d, w, k)
        BY <1>1, <2>1, <3>2, <3>4 DEF Pending
      <4> QED
        BY <1>1, <1>4, <2>2, <3>1, <3>4, <4>1, ReadsGo
    <3> QED
      BY <3>3, <3>4
  <2>4. CASE period[j.date] # "OPEN"
    <3>1. pc'[r] = "failed"
      BY <1>2, <1>3, <1>7, <2>4 DEF OpenPeriod, Go, TypeOK
    <3> QED
      BY <1>1, <1>4, <1>5, <2>1, <2>2, <3>1, ReadsGo
  <2> QED
    BY <2>3, <2>4
<1>8. CASE OpenYear(r)
  <2>1. s = "openYear" /\ j.op \in {"create", "ingest"} /\ d = Zero /\ w = Blank /\ k = {}
        /\ Opened(j.date)
    BY <1>1, <1>2, <1>3, <1>8 DEF OpenYear, JobOK, Pending
  <2>2. UNCHANGED private /\ (pc'[r] = "sequence" \/ pc'[r] = "failed")
    BY <1>3, <1>8 DEF OpenYear, Go, TypeOK, private
  <2>3. Pending(r, "sequence", j, d, w, k)
    BY <1>1, <2>1 DEF Pending
  <2> QED
    BY <1>1, <1>4, <1>5, <2>1, <2>2, <2>3, ReadsGo
<1>9. CASE DuplicateEvent(r)
  <2>1. s = "insertDraft" /\ j.op \in {"create", "ingest"} /\ k = {}
    BY <1>1, <1>2, <1>3, <1>9 DEF DuplicateEvent, JobOK, Pending
  <2>2. UNCHANGED private /\ pc'[r] = "failed"
    BY <1>3, <1>9 DEF DuplicateEvent, Go, TypeOK, private
  <2> QED
    BY <1>1, <1>4, <1>5, <2>1, <2>2, ReadsGo
<1>10. CASE CheckAccounts(r)
  <2>1. s = "checkAccounts" /\ j.op \in {"create", "ingest"} /\ k = {} /\ Drafted(j, d, w)
    BY <1>1, <1>2, <1>3, <1>10 DEF CheckAccounts, JobOK, Pending
  <2>2. UNCHANGED private
    BY <1>10 DEF CheckAccounts, private
  <2>3. CASE Accepted(w[j.target].lines)
    <3>1. pc'[r] = IF j.op = "ingest" THEN "readDraft" ELSE "commit"
      BY <1>2, <1>3, <1>10, <2>3 DEF CheckAccounts, Go, TypeOK, Accepted
    <3>2. Checked(j, d, w)
      BY <2>1, <2>3 DEF Checked
    <3>3. CASE j.op = "ingest"
      <4>1. Pending(r, "readDraft", j, d, w, k)
        BY <1>1, <2>1, <3>2, <3>3 DEF Pending
      <4> QED
        BY <1>1, <1>4, <2>2, <3>1, <3>3, <4>1, ReadsGo
    <3>4. CASE j.op # "ingest"
      <4>1. Pending(r, "commit", j, d, w, k)
        BY <1>1, <2>1, <3>2, <3>4 DEF Pending
      <4> QED
        BY <1>1, <1>4, <2>2, <3>1, <3>4, <4>1, ReadsGo
    <3> QED
      BY <3>3, <3>4
  <2>4. CASE ~Accepted(w[j.target].lines)
    <3>1. pc'[r] = "failed"
      BY <1>2, <1>3, <1>10, <2>4 DEF CheckAccounts, Go, TypeOK, Accepted
    <3> QED
      BY <1>1, <1>4, <1>5, <2>1, <2>2, <3>1, ReadsGo
  <2> QED
    BY <2>3, <2>4
<1> QED
  BY <1>6, <1>7, <1>8, <1>9, <1>10


LEMMA NextSequenceGoes ==
    ASSUME TypeInv, NEW r \in Requests, AloneInv(r), NextSequence(r)
    PROVE  Goes(r)
<1>1. PICK s, j, d, w, k : At(r, s, j, d, w, k) /\ Pending(r, s, j, d, w, k)
  BY DEF AloneInv
<1>2. pc[r] = s /\ job[r] = j /\ drawn[r] = d /\ writes[r] = w /\ toLock[r] = k
  BY <1>1 DEF At
<1>3. JobOK(r) /\ TypeOK
  BY DEF TypeInv
<1>4. /\ s = "sequence" /\ j.op \in {"create", "ingest", "reverse"}
      /\ d = Zero /\ w = Blank /\ k = {} /\ Opened(j.date) /\ Shaped(j)
      /\ j.op = "reverse" => ToReverse(j) /\ Unmirrored(j)
  BY <1>1, <1>2, <1>3 DEF NextSequence, JobOK, Pending
<1>5. PICK jn \in JournalsFor(r) : drawn' = [drawn EXCEPT ![r][jn] = lastSeq[jn] + 1]
  BY DEF NextSequence
<1>6. jn \in Journals /\ (j.op = "reverse" => jn = EX)
      /\ (j.op = "ingest" => jn = Posting[j.event].journal)
  <2>1. j.op = "ingest" => Posting[j.event].journal \in Journals
    BY <1>4, BodyAssumption DEF Shaped
  <2> QED
    BY <1>2, <1>4, <1>5, <2>1, JournalAssumption DEF JournalsFor
<1>7. drawn'[r] = Drew(jn)
  BY <1>2, <1>3, <1>4, <1>5 DEF TypeOK, Drew
<1>8. /\ pc'[r] = IF j.op = "reverse" THEN "insertReversal" ELSE "insertDraft"
      /\ UNCHANGED db /\ UNCHANGED <<job, writes, toLock>>
  BY <1>2, <1>3 DEF NextSequence, Go, TypeOK
<1>9. CASE j.op = "reverse"
  <2>1. PICK x : x = Drew(jn)
    OBVIOUS
  <2>2. Pending(r, "insertReversal", j, x, w, k)
    BY <1>4, <1>6, <1>9, <2>1 DEF Pending, Reversible
  <2>3. At(r, "insertReversal", j, x, w, k)'
    BY <1>2, <1>7, <1>8, <1>9, <2>1 DEF At
  <2> QED
    BY <1>8, <2>2, <2>3 DEF Goes
<1>10. CASE j.op # "reverse"
  <2>1. PICK x : x = Drew(jn)
    OBVIOUS
  <2>2. Pending(r, "insertDraft", j, x, w, k)
    BY <1>4, <1>6, <1>10, <2>1 DEF Pending
  <2>3. At(r, "insertDraft", j, x, w, k)'
    BY <1>2, <1>7, <1>8, <1>10, <2>1 DEF At
  <2> QED
    BY <1>8, <2>2, <2>3 DEF Goes
<1> QED
  BY <1>9, <1>10

LEMMA InsertDraftGoes ==
    ASSUME TypeInv, NEW r \in Requests, AloneInv(r), InsertDraft(r)
    PROVE  Goes(r)
<1>1. PICK s, j, d, w, k : At(r, s, j, d, w, k) /\ Pending(r, s, j, d, w, k)
  BY DEF AloneInv
<1>2. pc[r] = s /\ job[r] = j /\ drawn[r] = d /\ writes[r] = w /\ toLock[r] = k
  BY <1>1 DEF At
<1>3. JobOK(r) /\ TypeOK /\ j \in Job
  BY <1>2 DEF TypeInv, TypeOK
<1>4. /\ s = "insertDraft" /\ j.op \in {"create", "ingest"} /\ w = Blank /\ k = {}
      /\ Opened(j.date) /\ Shaped(j)
  BY <1>1, <1>2, <1>3 DEF InsertDraft, JobOK, Pending
<1>5. PICK j0 \in Journals : d = Drew(j0) /\ (j.op = "ingest" => j0 = Posting[j.event].journal)
  BY <1>1, <1>4 DEF Pending
<1>6. PICK e \in EntryIds, jn \in Journals, ls \in LinesFor(r) :
        /\ Free(e) /\ d[jn] # 0
        /\ writes' = [writes EXCEPT ![r][e] =
              [journal |-> jn, seq |-> d[jn], date |-> j.date, lines |-> ls,
               status |-> "DRAFT", mirrorOf |-> NoEntry, event |-> j.event,
               postedBy |-> NoUser]]
        /\ job' = [job EXCEPT ![r].target = e]
  BY <1>2 DEF InsertDraft
<1>7. jn = j0 /\ d[jn] = lastSeq[jn] + 1
  <2>1. lastSeq \in [Journals -> Nat]
    BY <1>3 DEF TypeOK
  <2> QED
    BY <1>5, <1>6, <2>1 DEF Drew, Zero
<1>8. PICK j1 : j1 = [j EXCEPT !.target = e]
  OBVIOUS
<1>9. /\ j1.op = j.op /\ j1.date = j.date /\ j1.event = j.event /\ j1.year = j.year
      /\ j1.target = e
  BY <1>3, <1>8 DEF Job
<1>10. PICK w1 : w1 = [Blank EXCEPT ![e] = DraftOf(j1, jn, ls)]
  OBVIOUS
<1>11. At(r, "checkAccounts", j1, d, w1, k)'
  <2>1. pc'[r] = "checkAccounts" /\ drawn' = drawn /\ toLock' = toLock
    BY <1>3 DEF InsertDraft, Go, TypeOK
  <2>2. job'[r] = j1
    BY <1>2, <1>3, <1>6, <1>8 DEF TypeOK
  <2>3. writes'[r] = w1
    BY <1>2, <1>3, <1>4, <1>6, <1>7, <1>9, <1>10 DEF TypeOK, DraftOf
  <2> QED
    BY <1>2, <2>1, <2>2, <2>3 DEF At
<1>12. IsNew(j1, jn, ls)
  <2>1. entries[e] = NoRow
    BY <1>6 DEF Free
  <2>2. ls \in Bodies /\ (j.op = "ingest" => ls = Posting[j.event].lines)
    BY <1>2, <1>4, <1>6, BodyAssumption DEF LinesFor, Shaped
  <2>3. j.op = "ingest" => \A f \in EntryIds : Exists(f) => entries[f].event # j.event
    BY <1>2, <1>4, NullAssumption DEF InsertDraft, EventTaken, Shaped
  <2> QED
    BY <1>4, <1>5, <1>7, <1>9, <2>1, <2>2, <2>3 DEF IsNew
<1>13. Drafted(j1, d, w1)
  <2>1. ls \in Bodies
    BY <1>12 DEF IsNew
  <2> QED
    BY <1>4, <1>5, <1>7, <1>9, <1>10, <1>12, <2>1 DEF Drafted
<1>14. Pending(r, "checkAccounts", j1, d, w1, k)
  BY <1>4, <1>9, <1>13 DEF Pending, Shaped
<1>15. UNCHANGED db
  BY DEF InsertDraft
<1> QED
  BY <1>11, <1>14, <1>15 DEF Goes

\* A draft as its request sees it before the flush.
LEMMA ToPostIs ==
    ASSUME TypeInv, NEW r \in Requests, NEW s, NEW j, NEW d, NEW w, NEW k,
           At(r, s, j, d, w, k), Pending(r, s, j, d, w, k),
           s \in {"readDraft", "postPeriod", "flushPosted"}
    PROVE  /\ j.target \in EntryIds /\ j.op \in {"ingest", "post"} /\ k = {}
           /\ \/ /\ j.op = "ingest" /\ Checked(j, d, w)
                 /\ View(r, j.target) = w[j.target]
                 /\ \E jn \in Journals, ls \in Bodies :
                       /\ IsNew(j, jn, ls) /\ Accepted(ls) /\ d = Drew(jn)
                       /\ w = [Blank EXCEPT ![j.target] = DraftOf(j, jn, ls)]
                       /\ View(r, j.target) = DraftOf(j, jn, ls)
              \/ /\ d = Zero /\ w = Blank /\ Exists(j.target)
                 /\ View(r, j.target) = entries[j.target]
                 /\ s # "readDraft" => ToPost(j)
                 /\ s = "flushPosted" => Opened(entries[j.target].date)
<1>1. pc[r] = s /\ job[r] = j /\ drawn[r] = d /\ writes[r] = w /\ toLock[r] = k
  BY DEF At
<1>2. j.target \in EntryIds /\ j.op \in {"ingest", "post"} /\ k = {} /\ View(r, j.target) # NoRow
  BY <1>1 DEF TypeInv, JobOK, Pending
<1>3. CASE j.op = "ingest" /\ Checked(j, d, w)
  <2>1. PICK jn \in Journals, ls \in Bodies :
          IsNew(j, jn, ls) /\ d = Drew(jn) /\ w = [Blank EXCEPT ![j.target] = DraftOf(j, jn, ls)]
    BY <1>3 DEF Checked, Drafted
  <2>2. w[j.target] = DraftOf(j, jn, ls)
    BY <1>2, <2>1 DEF Blank
  <2>3. DraftOf(j, jn, ls).lines = ls
    BY DEF DraftOf
  <2>4. Accepted(ls)
    BY <1>3, <2>2, <2>3 DEF Checked
  <2>5. DraftOf(j, jn, ls) # NoRow
    <3>1. j.date \in Periods /\ j.event \in Events \cup {NoEvent} /\ lastSeq[jn] + 1 \in Nat
      BY <1>1, <2>1, <1>3 DEF IsNew, Opened, TypeInv, TypeOK, Job
    <3>2. DraftOf(j, jn, ls) \in Row
      BY <3>1, BodyAssumption DEF DraftOf, Row, Statuses
    <3> QED
      BY <3>2, NullAssumption
  <2>6. View(r, j.target) = w[j.target]
    BY <1>1, <2>2, <2>5 DEF View
  <2> QED
    BY <1>2, <1>3, <2>1, <2>2, <2>4, <2>6
<1>4. CASE /\ d = Zero /\ w = Blank
           /\ s # "readDraft" => ToPost(j)
           /\ s = "flushPosted" => Opened(entries[j.target].date)
  <2>1. View(r, j.target) = entries[j.target]
    BY <1>1, <1>2, <1>4 DEF View, Blank
  <2> QED
    BY <1>2, <1>4, <2>1 DEF Exists
<1> QED
  BY <1>3, <1>4 DEF Pending

LEMMA PostReadsGo ==
    ASSUME TypeInv, NEW r \in Requests, AloneInv(r), ReadDraft(r) \/ PostPeriod(r)
    PROVE  Goes(r)
<1>1. PICK s, j, d, w, k : At(r, s, j, d, w, k) /\ Pending(r, s, j, d, w, k)
  BY DEF AloneInv
<1>2. pc[r] = s /\ job[r] = j /\ TypeOK
  BY <1>1 DEF At, TypeInv
<1>3. s \in {"readDraft", "postPeriod"} /\ UNCHANGED db /\ UNCHANGED private
  BY <1>2 DEF ReadDraft, PostPeriod, private
<1>4. j.op \in {"ingest", "post"} /\ k = {}
  BY <1>1, <1>3, ToPostIs
<1>5. Pending(r, "failed", j, d, w, k)
  BY <1>1, <1>4 DEF Pending
<1>6. CASE ReadDraft(r)
  <2>1. s = "readDraft" /\ (pc'[r] = "failed" \/ pc'[r] = "postPeriod")
        /\ (pc'[r] = "postPeriod" => View(r, j.target).status = "DRAFT")
    BY <1>2, <1>6 DEF ReadDraft, Go, TypeOK
  <2>2. ASSUME pc'[r] = "postPeriod"
        PROVE  Pending(r, "postPeriod", j, d, w, k)
    <3>1. CASE j.op = "ingest" /\ Checked(j, d, w)
      BY <1>1, <1>4, <3>1 DEF Pending
    <3>2. CASE /\ d = Zero /\ w = Blank /\ Exists(j.target)
               /\ View(r, j.target) = entries[j.target]
      <4>1. ToPost(j)
        BY <1>1, <1>3, <2>1, <2>2, <3>2, ToPostIs DEF ToPost
      <4> QED
        BY <1>1, <1>4, <3>2, <4>1 DEF Pending
    <3> QED
      BY <1>1, <1>3, <3>1, <3>2, ToPostIs
  <2> QED
    BY <1>1, <1>3, <1>5, <2>1, <2>2, ReadsGo
<1>7. CASE PostPeriod(r)
  <2>1. s = "postPeriod" /\ (pc'[r] = "failed" \/ pc'[r] = "flushPosted")
        /\ (pc'[r] = "flushPosted" => period[View(r, j.target).date] = "OPEN")
    BY <1>2, <1>7 DEF PostPeriod, Go, TypeOK
  <2>2. ASSUME pc'[r] = "flushPosted"
        PROVE  Pending(r, "flushPosted", j, d, w, k)
    <3>1. CASE j.op = "ingest" /\ Checked(j, d, w)
      BY <1>1, <1>4, <3>1 DEF Pending
    <3>2. CASE /\ d = Zero /\ w = Blank /\ Exists(j.target)
               /\ View(r, j.target) = entries[j.target]
               /\ s # "readDraft" => ToPost(j)
      <4>1. entries[j.target] \in Row
        BY <1>1, <1>2, <1>3, <3>2, ToPostIs DEF TypeOK, Exists
      <4>2. entries[j.target].date \in Periods
        BY <4>1 DEF Row
      <4>3. Opened(entries[j.target].date)
        BY <2>1, <2>2, <3>2, <4>2 DEF Opened, AloneInv, ClosedAsYear
      <4> QED
        BY <1>1, <1>4, <2>1, <3>2, <4>3 DEF Pending
    <3> QED
      BY <1>1, <1>3, <3>1, <3>2, ToPostIs
  <2> QED
    BY <1>1, <1>3, <1>5, <2>1, <2>2, ReadsGo
<1> QED
  BY <1>6, <1>7

LEMMA FlushPostedGoes ==
    ASSUME TypeInv, NEW r \in Requests, AloneInv(r), FlushPosted(r)
    PROVE  Goes(r)
<1>1. PICK s, j, d, w, k : At(r, s, j, d, w, k) /\ Pending(r, s, j, d, w, k)
  BY DEF AloneInv
<1>2. /\ pc[r] = s /\ job[r] = j /\ drawn[r] = d /\ writes[r] = w /\ toLock[r] = k
      /\ TypeOK /\ s = "flushPosted"
  BY <1>1 DEF At, TypeInv, FlushPosted
<1>3. j.target \in EntryIds /\ k = {} /\ Shaped(j)
  BY <1>1, <1>2, ToPostIs DEF Pending
<1>4. PICK w1 : w1 = [w EXCEPT ![j.target] = Posted(View(r, j.target), r)]
  OBVIOUS
<1>5. At(r, "announcePosted", j, d, w1, k)'
  <2>1. /\ pc'[r] = "announcePosted" /\ UNCHANGED <<job, drawn, toLock>>
    BY <1>2 DEF FlushPosted, Go, TypeOK
  <2>2. writes'[r] = w1
    BY <1>2, <1>3, <1>4 DEF FlushPosted, TypeOK, Posted
  <2> QED
    BY <1>2, <2>1, <2>2 DEF At
<1>6. Booked(r, j, d, w1) \/ Validated(r, j, d, w1)
  <2>1. ASSUME NEW jn \in Journals, NEW ls \in Bodies, j.op = "ingest",
               IsNew(j, jn, ls), Accepted(ls), d = Drew(jn),
               w = [Blank EXCEPT ![j.target] = DraftOf(j, jn, ls)],
               View(r, j.target) = DraftOf(j, jn, ls)
        PROVE  Booked(r, j, d, w1)
    <3>1. w1 = [Blank EXCEPT ![j.target] = Posted(DraftOf(j, jn, ls), r)]
      BY <1>3, <1>4, <2>1 DEF Blank
    <3> QED
      BY <2>1, <3>1 DEF Booked
  <2>2. ASSUME d = Zero, w = Blank, View(r, j.target) = entries[j.target],
               ToPost(j), Opened(entries[j.target].date), j.op \in {"ingest", "post"}
        PROVE  Validated(r, j, d, w1)
    BY <1>4, <2>2 DEF Validated
  <2> QED
    BY <1>1, <1>2, <2>1, <2>2, ToPostIs
<1>7. Pending(r, "announcePosted", j, d, w1, k)
  BY <1>3, <1>6 DEF Pending
<1>8. UNCHANGED db
  BY DEF FlushPosted
<1> QED
  BY <1>5, <1>7, <1>8 DEF Goes

LEMMA AnnounceGoes ==
    ASSUME TypeInv, NEW r \in Requests, AloneInv(r), AnnouncePosted(r) \/ AnnounceClosed(r)
    PROVE  Goes(r)
<1>1. PICK s, j, d, w, k : At(r, s, j, d, w, k) /\ Pending(r, s, j, d, w, k)
  BY DEF AloneInv
<1>2. /\ s \in {"announcePosted", "announceClosed"} /\ UNCHANGED db /\ UNCHANGED private
      /\ pc'[r] = "commit"
  BY <1>1 DEF At, AnnouncePosted, AnnounceClosed, Go, TypeInv, TypeOK
<1>3. Pending(r, "commit", j, d, w, k)
  BY <1>1, <1>2 DEF Pending
<1> QED
  BY <1>1, <1>2, <1>3, ReadsGo

LEMMA ReverseReadsGo ==
    ASSUME TypeInv, NEW r \in Requests, AloneInv(r), ReadOriginal(r) \/ FindReversals(r)
    PROVE  Goes(r)
<1>1. PICK s, j, d, w, k : At(r, s, j, d, w, k) /\ Pending(r, s, j, d, w, k)
  BY DEF AloneInv
<1>2. pc[r] = s /\ job[r] = j /\ TypeOK /\ JobOK(r)
  BY <1>1 DEF At, TypeInv
<1>3. s \in {"readOriginal", "findReversals"} /\ UNCHANGED db /\ UNCHANGED private
  BY <1>2 DEF ReadOriginal, FindReversals, private
<1>4. j.op = "reverse" /\ j.target \in EntryIds /\ Exists(j.target) /\ k = {}
  BY <1>1, <1>2, <1>3 DEF JobOK, Pending
<1>5. Pending(r, "failed", j, d, w, k)
  BY <1>1, <1>4 DEF Pending
<1>6. CASE ReadOriginal(r)
  <2>1. /\ s = "readOriginal" /\ (pc'[r] = "failed" \/ pc'[r] = "findReversals")
        /\ pc'[r] = "findReversals" => entries[j.target].status = "POSTED"
    BY <1>2, <1>6 DEF ReadOriginal, Go, TypeOK
  <2>2. ASSUME pc'[r] = "findReversals"
        PROVE  Pending(r, "findReversals", j, d, w, k)
    <3>1. ToReverse(j)
      BY <1>4, <2>1, <2>2 DEF ToReverse
    <3> QED
      BY <1>1, <1>4, <2>1, <3>1 DEF Pending
  <2> QED
    BY <1>1, <1>3, <1>5, <2>1, <2>2, ReadsGo
<1>7. CASE FindReversals(r)
  <2>1. /\ s = "findReversals" /\ (pc'[r] = "failed" \/ pc'[r] = "openPeriod")
        /\ pc'[r] = "openPeriod" => Unmirrored(j)
    BY <1>2, <1>7 DEF FindReversals, Go, TypeOK, Unmirrored
  <2>2. ASSUME pc'[r] = "openPeriod"
        PROVE  Pending(r, "openPeriod", j, d, w, k)
    BY <1>1, <1>4, <2>1, <2>2 DEF Pending
  <2> QED
    BY <1>1, <1>3, <1>5, <2>1, <2>2, ReadsGo
<1> QED
  BY <1>6, <1>7

LEMMA InsertReversalGoes ==
    ASSUME TypeInv, NEW r \in Requests, AloneInv(r), InsertReversal(r)
    PROVE  Goes(r)
<1>1. PICK s, j, d, w, k : At(r, s, j, d, w, k) /\ Pending(r, s, j, d, w, k)
  BY DEF AloneInv
<1>2. /\ pc[r] = s /\ job[r] = j /\ drawn[r] = d /\ writes[r] = w /\ toLock[r] = k
      /\ TypeOK /\ JobOK(r) /\ s = "insertReversal"
  BY <1>1 DEF At, TypeInv, InsertReversal
<1>3. Shaped(j) /\ j.op = "reverse" /\ k = {} /\ Reversible(j, d) /\ w = Blank
  BY <1>1, <1>2 DEF Pending, JobOK
<1>4. d[EX] = lastSeq[EX] + 1
  BY <1>3, JournalAssumption DEF Reversible, Drew, Zero
<1>5. PICK m \in EntryIds :
        /\ Free(m)
        /\ writes' = [writes EXCEPT ![r][m] = MirrorOf(r, j)]
  BY <1>2, <1>4 DEF InsertReversal, MirrorOf
<1>6. PICK w1 : w1 = [Blank EXCEPT ![m] = MirrorOf(r, j)]
  OBVIOUS
<1>7. At(r, "flushReversed", j, d, w1, k)'
  <2>1. pc'[r] = "flushReversed" /\ UNCHANGED <<job, drawn, toLock>>
    BY <1>2 DEF InsertReversal, Go, TypeOK
  <2>2. writes'[r] = w1
    BY <1>2, <1>3, <1>5, <1>6 DEF TypeOK
  <2> QED
    BY <1>2, <2>1, <2>2 DEF At
<1>8. Mirrored(r, j, d, w1)
  BY <1>3, <1>5, <1>6 DEF Mirrored, Free
<1>9. Pending(r, "flushReversed", j, d, w1, k)
  BY <1>3, <1>8 DEF Pending
<1>10. UNCHANGED db
  BY DEF InsertReversal
<1> QED
  BY <1>7, <1>9, <1>10 DEF Goes

LEMMA FlushReversedGoes ==
    ASSUME TypeInv, NEW r \in Requests, AloneInv(r), FlushReversed(r)
    PROVE  Goes(r)
<1>1. PICK s, j, d, w, k : At(r, s, j, d, w, k) /\ Pending(r, s, j, d, w, k)
  BY DEF AloneInv
<1>2. /\ pc[r] = s /\ job[r] = j /\ drawn[r] = d /\ writes[r] = w /\ toLock[r] = k
      /\ TypeOK /\ JobOK(r) /\ s = "flushReversed"
  BY <1>1 DEF At, TypeInv, FlushReversed
<1>3. Shaped(j) /\ j.op = "reverse" /\ k = {} /\ Mirrored(r, j, d, w)
  BY <1>1, <1>2 DEF Pending, JobOK
<1>4. PICK m \in EntryIds : entries[m] = NoRow /\ w = [Blank EXCEPT ![m] = MirrorOf(r, j)]
  BY <1>3 DEF Mirrored
<1>5. PICK x : x = [entries[j.target] EXCEPT !.status = "REVERSED"]
  OBVIOUS
<1>6. PICK w1 : w1 = [w EXCEPT ![j.target] = x]
  OBVIOUS
<1>7. At(r, "commit", j, d, w1, k)'
  <2>1. pc'[r] = "commit" /\ UNCHANGED <<job, drawn, toLock>>
    BY <1>2 DEF FlushReversed, Go, TypeOK
  <2>2. writes'[r] = w1
    <3>1. writes' = [writes EXCEPT ![r][j.target] = x]
      BY <1>2, <1>5 DEF FlushReversed
    <3> QED
      BY <1>2, <1>6, <3>1 DEF TypeOK
  <2> QED
    BY <1>2, <2>1, <2>2 DEF At
<1>8. Undone(r, j, d, w1)
  <2>1. w1 = [Blank EXCEPT ![m] = MirrorOf(r, j), ![j.target] = x]
    BY <1>4, <1>6
  <2>2. Reversible(j, d)
    BY <1>3 DEF Mirrored
  <2> QED
    BY <1>4, <1>5, <2>1, <2>2 DEF Undone
<1>9. Pending(r, "commit", j, d, w1, k)
  BY <1>3, <1>8 DEF Pending
<1>10. UNCHANGED db
  BY DEF FlushReversed
<1> QED
  BY <1>7, <1>9, <1>10 DEF Goes

LEMMA CloseReadsGo ==
    ASSUME TypeInv, NEW r \in Requests, AloneInv(r), ReadYear(r) \/ ReadPeriods(r)
    PROVE  Goes(r)
<1>1. PICK s, j, d, w, k : At(r, s, j, d, w, k) /\ Pending(r, s, j, d, w, k)
  BY DEF AloneInv
<1>2. /\ pc[r] = s /\ job[r] = j /\ drawn[r] = d /\ writes[r] = w /\ toLock[r] = k
      /\ TypeOK /\ JobOK(r) /\ s \in {"readYear", "readPeriods"}
  BY <1>1 DEF At, TypeInv, ReadYear, ReadPeriods
<1>3. /\ Shaped(j) /\ j.op = "close" /\ j.year \in Years
      /\ d = Zero /\ w = Blank /\ k = {} /\ UNCHANGED db
  BY <1>1, <1>2 DEF Pending, JobOK, ReadYear, ReadPeriods
<1>4. CASE ReadYear(r)
  <2>1. /\ UNCHANGED private /\ (pc'[r] = "failed" \/ pc'[r] = "readPeriods")
        /\ pc'[r] = "readPeriods" => year[j.year] = "OPEN"
    BY <1>2, <1>3, <1>4 DEF ReadYear, Go, TypeOK, private
  <2>2. ASSUME pc'[r] = "readPeriods"
        PROVE  Pending(r, "readPeriods", j, d, w, k)
    BY <1>3, <2>1, <2>2 DEF Pending
  <2>3. Pending(r, "failed", j, d, w, k)
    BY <1>1, <1>3 DEF Pending
  <2> QED
    BY <1>1, <1>3, <2>1, <2>2, <2>3, ReadsGo
<1>5. CASE ReadPeriods(r)
  <2>1. PICK k1 : k1 = {p \in Periods : YearOf[p] = j.year /\ period[p] = "OPEN"}
    OBVIOUS
  <2>2. toLock'[r] = k1
    BY <1>2, <1>5, <2>1 DEF ReadPeriods, TypeOK
  <2>3. pc'[r] = "announceClosed" /\ UNCHANGED <<job, drawn, writes>>
    BY <1>2, <1>5 DEF ReadPeriods, Go, TypeOK
  <2>4. At(r, "announceClosed", j, d, w, k1)'
    BY <1>2, <2>2, <2>3 DEF At
  <2>5. year[j.year] = "OPEN"
    BY <1>1, <1>2, <1>5 DEF Pending, ReadPeriods
  <2>6. Closing(j, d, w, k1)
    BY <1>3, <2>1, <2>5 DEF Closing
  <2>7. Pending(r, "announceClosed", j, d, w, k1)
    BY <1>3, <2>6 DEF Pending
  <2> QED
    BY <1>3, <2>4, <2>7 DEF Goes
<1> QED
  BY <1>4, <1>5

LEMMA ReleasedAlone ==
    ASSUME TypeInv, NEW r \in Requests, Release(r)
    PROVE  /\ At(r, "idle", NoJob, Zero, Blank, {})'
           /\ Pending(r, "idle", NoJob, Zero, Blank, {})
<1>1. At(r, "idle", NoJob, Zero, Blank, {})'
  BY DEF Release, At, TypeInv, TypeOK, Zero, Blank
<1>2. Pending(r, "idle", NoJob, Zero, Blank, {})
  BY DEF Pending, Shaped, NoJob
<1> QED
  BY <1>1, <1>2

LEMMA EndGoes ==
    ASSUME TypeInv, NEW r \in Requests, Rollback(r) \/ Crash(r)
    PROVE  Goes(r)
<1>1. Release(r) /\ UNCHANGED db
  BY DEF Rollback, Crash
<1> QED
  BY <1>1, ReleasedAlone DEF Goes

-----------------------------------------------------------------------------
(* COMMIT is one operation on the books *)

LEMMA CommitEffect ==
    ASSUME TypeInv, NEW r \in Requests, NEW s, NEW j, NEW d, NEW w, NEW k,
           At(r, s, j, d, w, k), Commit(r)
    PROVE  /\ s = "commit" /\ j \in Job
           /\ entries' = [e \in EntryIds |-> IF w[e] # NoRow THEN w[e] ELSE entries[e]]
           /\ lastSeq' = [jn \in Journals |-> IF d[jn] # 0 THEN d[jn] ELSE lastSeq[jn]]
           /\ period' = [p \in Periods |-> IF p \in k THEN "LOCKED" ELSE period[p]]
           /\ year' = [y \in Years |-> IF y = j.year THEN "CLOSED" ELSE year[y]]
           /\ k = {} => period' = period
           /\ j.year = NoYear => year' = year
<1>1. pc[r] = s /\ job[r] = j /\ drawn[r] = d /\ writes[r] = w /\ toLock[r] = k
  BY DEF At
<1>2. TypeOK
  BY DEF TypeInv
<1>3. s = "commit" /\ j \in Job
  BY <1>1, <1>2 DEF Commit, TypeOK
<1>4. entries' = [e \in EntryIds |-> IF w[e] # NoRow THEN w[e] ELSE entries[e]]
  BY <1>1 DEF Commit, View
<1>5. lastSeq' = [jn \in Journals |-> IF d[jn] # 0 THEN d[jn] ELSE lastSeq[jn]]
  BY <1>1 DEF Commit
<1>6. /\ period' = [p \in Periods |-> IF p \in k THEN "LOCKED" ELSE period[p]]
      /\ k = {} => period' = period
  BY <1>1, <1>2 DEF Commit, TypeOK
<1>7. /\ year' = [y \in Years |-> IF y = j.year THEN "CLOSED" ELSE year[y]]
      /\ j.year = NoYear => year' = year
  BY <1>1, <1>2, RequestAssumption DEF Commit, TypeOK
<1> QED
  BY <1>3, <1>4, <1>5, <1>6, <1>7

\* A request with one new row appends it and moves its journal by one.
LEMMA CommitEnters ==
    ASSUME TypeInv, NEW r \in Requests, NEW s, NEW j, NEW d, NEW w, NEW k,
           At(r, s, j, d, w, k), Commit(r), k = {}, j.year = NoYear,
           NEW jn \in Journals, NEW row, d = Drew(jn),
           j.target \in EntryIds, entries[j.target] = NoRow, row # NoRow,
           w = [Blank EXCEPT ![j.target] = row],
           row.journal = jn, row.seq = lastSeq[jn] + 1, Opened(row.date)
    PROVE  Books!Enter(j.target, row)
<1>1. entries \in [EntryIds -> Row \cup {NoRow}] /\ lastSeq \in [Journals -> Nat]
  BY DEF TypeInv, TypeOK
<1>2. /\ entries' = [e \in EntryIds |-> IF w[e] # NoRow THEN w[e] ELSE entries[e]]
      /\ lastSeq' = [i \in Journals |-> IF d[i] # 0 THEN d[i] ELSE lastSeq[i]]
      /\ period' = period /\ year' = year
  BY RequestAssumption DEF At, Commit, View, TypeInv, TypeOK
<1>3. entries' = [entries EXCEPT ![j.target] = row]
  BY <1>1, <1>2 DEF Blank
<1>4. lastSeq' = [lastSeq EXCEPT ![jn] = lastSeq[jn] + 1]
  <2>1. d = [Zero EXCEPT ![jn] = lastSeq[jn] + 1]
    BY DEF Drew
  <2>2. d[jn] = lastSeq[jn] + 1 /\ d[jn] # 0
    BY <1>1, <2>1 DEF Zero
  <2>3. \A i \in Journals : i # jn => d[i] = 0
    BY <2>1 DEF Zero
  <2> QED
    BY <1>1, <1>2, <2>2, <2>3
<1> QED
  BY <1>2, <1>3, <1>4 DEF Books!Enter, Books!Recorded, Books!OpenFor, Opened

LEMMA DraftRow ==
    ASSUME TypeInv, NEW r \in Requests, NEW j \in Job, NEW jn, NEW ls, IsNew(j, jn, ls)
    PROVE  /\ DraftOf(j, jn, ls) \in Row /\ DraftOf(j, jn, ls) # NoRow
           /\ Posted(DraftOf(j, jn, ls), r) \in Row /\ Posted(DraftOf(j, jn, ls), r) # NoRow
<1>1. j.date \in Periods /\ j.event \in Events \cup {NoEvent} /\ lastSeq[jn] + 1 \in Nat
  BY DEF IsNew, Opened, TypeInv, TypeOK, Job
<1>2. DraftOf(j, jn, ls) \in Row
  BY <1>1, BodyAssumption DEF IsNew, DraftOf, Row, Statuses
<1>3. Posted(DraftOf(j, jn, ls), r) \in Row
  BY <1>2, RequestAssumption DEF Posted, Row, Statuses
<1> QED
  BY <1>2, <1>3, NullAssumption

LEMMA CommitRecords ==
    ASSUME TypeInv, NEW r \in Requests, NEW s, NEW j, NEW d, NEW w, NEW k,
           At(r, s, j, d, w, k), Pending(r, s, j, d, w, k), Commit(r),
           j.op = "create", Checked(j, d, w)
    PROVE  Books!Next
<1>1. PICK jn \in Journals, ls \in Bodies :
        IsNew(j, jn, ls) /\ d = Drew(jn) /\ w = [Blank EXCEPT ![j.target] = DraftOf(j, jn, ls)]
  BY DEF Checked, Drafted
<1>2. PICK row : row = DraftOf(j, jn, ls)
  OBVIOUS
<1>3. s = "commit" /\ j \in Job
  BY CommitEffect
<1>4. row # NoRow
  BY <1>1, <1>2, <1>3, DraftRow
<1>5. k = {} /\ j.year = NoYear /\ j.event = NoEvent
  BY DEF Pending, Shaped
<1>6. /\ j.target \in EntryIds /\ entries[j.target] = NoRow /\ Opened(j.date)
      /\ row.journal = jn /\ row.seq = lastSeq[jn] + 1 /\ row.date = j.date
  BY <1>1, <1>2 DEF IsNew, DraftOf
<1>7. Books!Enter(j.target, row)
  BY <1>1, <1>2, <1>3, <1>4, <1>5, <1>6, CommitEnters
<1>8. Accepted(ls)
  BY <1>1, <1>6 DEF Checked, Blank, DraftOf
<1>9. Books!Record(j.target, jn, j.date, ls)
  BY <1>2, <1>5, <1>7, <1>8 DEF Books!Record, Books!Accepts, Accepted, DraftOf
<1> QED
  BY <1>6, <1>9 DEF Books!Next, Opened

LEMMA CommitBooks ==
    ASSUME TypeInv, NEW r \in Requests, NEW s, NEW j, NEW d, NEW w, NEW k,
           At(r, s, j, d, w, k), Pending(r, s, j, d, w, k), Commit(r), Booked(r, j, d, w)
    PROVE  Books!Next
<1>1. PICK jn \in Journals, ls \in Bodies :
        /\ IsNew(j, jn, ls) /\ Accepted(ls) /\ d = Drew(jn)
        /\ w = [Blank EXCEPT ![j.target] = Posted(DraftOf(j, jn, ls), r)]
  BY DEF Booked
<1>2. PICK row : row = Posted(DraftOf(j, jn, ls), r)
  OBVIOUS
<1>3. s = "commit" /\ j \in Job
  BY CommitEffect
<1>4. row # NoRow
  BY <1>1, <1>2, <1>3, DraftRow
<1>5. /\ j.op = "ingest" /\ k = {} /\ j.year = NoYear
      /\ j.event \in Events /\ j.date = Posting[j.event].date
  BY DEF Pending, Shaped, Booked
<1>6. row = [journal |-> jn, seq |-> lastSeq[jn] + 1, date |-> j.date, lines |-> ls,
             status |-> "POSTED", mirrorOf |-> NoEntry, event |-> j.event, postedBy |-> r]
  BY <1>2 DEF Posted, DraftOf
<1>7. /\ j.target \in EntryIds /\ entries[j.target] = NoRow /\ Opened(j.date)
      /\ row.journal = jn /\ row.seq = lastSeq[jn] + 1 /\ row.date = j.date
      /\ jn = Posting[j.event].journal /\ ls = Posting[j.event].lines
      /\ \A f \in EntryIds : Exists(f) => entries[f].event # j.event
  BY <1>1, <1>5, <1>6 DEF IsNew
<1>8. Books!Enter(j.target, row)
  <2>1. w = [Blank EXCEPT ![j.target] = row] /\ Opened(row.date) /\ d = Drew(jn)
    BY <1>1, <1>2, <1>7
  <2> QED
    BY <1>4, <1>5, <1>7, <2>1, CommitEnters
<1>9. Books!Book(j.target, j.event, r)
  <2>1. \A f \in Books!Recorded : entries[f].event # j.event
    BY <1>7 DEF Books!Recorded, Exists
  <2>2. Books!Accepts(Posting[j.event].lines)
    BY <1>1, <1>7 DEF Books!Accepts, Accepted
  <2> QED
    BY <1>5, <1>6, <1>7, <1>8, <2>1, <2>2 DEF Books!Book
<1> QED
  BY <1>5, <1>7, <1>9, RequestAssumption DEF Books!Next

LEMMA CommitValidates ==
    ASSUME TypeInv, NEW r \in Requests, NEW s, NEW j, NEW d, NEW w, NEW k,
           At(r, s, j, d, w, k), Pending(r, s, j, d, w, k), Commit(r), Validated(r, j, d, w)
    PROVE  Books!Next
<1>1. /\ j.op \in {"ingest", "post"} /\ j.target \in EntryIds /\ Exists(j.target)
      /\ entries[j.target].status = "DRAFT" /\ Opened(entries[j.target].date) /\ d = Zero
      /\ w = [Blank EXCEPT ![j.target] = Posted(entries[j.target], r)]
  BY DEF Validated, ToPost
<1>2. k = {} /\ j.year = NoYear
  BY <1>1 DEF Pending, Shaped
<1>3. entries \in [EntryIds -> Row \cup {NoRow}] /\ lastSeq \in [Journals -> Nat]
  BY DEF TypeInv, TypeOK
<1>4. PICK row : row = Posted(entries[j.target], r)
  OBVIOUS
<1>5. row # NoRow
  <2>1. entries[j.target] \in Row
    BY <1>1, <1>3 DEF Exists
  <2>2. row \in Row
    BY <1>4, <2>1, RequestAssumption DEF Posted, Row, Statuses
  <2> QED
    BY <2>2, NullAssumption
<1>6. /\ entries' = [e \in EntryIds |-> IF w[e] # NoRow THEN w[e] ELSE entries[e]]
      /\ lastSeq' = [jn \in Journals |-> IF d[jn] # 0 THEN d[jn] ELSE lastSeq[jn]]
      /\ period' = period /\ year' = year
  BY <1>2, CommitEffect
<1>7. entries' = [entries EXCEPT ![j.target] = row]
  BY <1>1, <1>3, <1>4, <1>5, <1>6 DEF Blank
<1>8. lastSeq' = lastSeq
  BY <1>1, <1>3, <1>6 DEF Zero
<1>9. entries' = [entries EXCEPT ![j.target].status = "POSTED", ![j.target].postedBy = r]
  BY <1>1, <1>3, <1>4, <1>7 DEF Posted
<1>10. Books!Validate(j.target, r)
  BY <1>1, <1>6, <1>8, <1>9
  DEF Books!Validate, Books!Recorded, Books!OpenFor, Opened, Exists
<1> QED
  BY <1>1, <1>10, RequestAssumption DEF Books!Next

LEMMA CommitReverses ==
    ASSUME TypeInv, NEW r \in Requests, NEW s, NEW j, NEW d, NEW w, NEW k,
           At(r, s, j, d, w, k), Pending(r, s, j, d, w, k), Commit(r), Undone(r, j, d, w)
    PROVE  Books!Next
<1>1. /\ j.op = "reverse" /\ j.target \in EntryIds /\ Exists(j.target)
      /\ entries[j.target].status = "POSTED" /\ Opened(j.date) /\ d = Drew(EX)
      /\ \A f \in EntryIds : Exists(f) => entries[f].mirrorOf # j.target
  BY DEF Undone, Reversible, ToReverse, Unmirrored
<1>2. k = {} /\ j.year = NoYear
  BY <1>1 DEF Pending, Shaped
<1>3. entries \in [EntryIds -> Row \cup {NoRow}] /\ lastSeq \in [Journals -> Nat]
  BY DEF TypeInv, TypeOK
<1>4. PICK mirror : mirror = MirrorOf(r, j)
  OBVIOUS
<1>5. PICK old : old = [entries[j.target] EXCEPT !.status = "REVERSED"]
  OBVIOUS
<1>6. PICK m \in EntryIds :
        entries[m] = NoRow /\ w = [Blank EXCEPT ![m] = mirror, ![j.target] = old]
  BY <1>4, <1>5 DEF Undone
<1>7. m # j.target
  BY <1>1, <1>6 DEF Exists
<1>8. mirror # NoRow /\ old # NoRow
  <2>1. entries[j.target] \in Row
    BY <1>1, <1>3 DEF Exists
  <2>2. old \in Row
    BY <1>5, <2>1 DEF Row, Statuses
  <2>3. Mirror(entries[j.target].lines) \in Seq(Line)
    BY <2>1, MirrorType DEF Row
  <2>4. lastSeq[EX] + 1 \in Nat /\ j.date \in Periods
    BY <1>1, <1>3, JournalAssumption DEF Opened
  <2>5. mirror \in Row
    BY <1>1, <1>4, <2>3, <2>4, JournalAssumption, RequestAssumption DEF MirrorOf, Row, Statuses
  <2> QED
    BY <2>2, <2>5, NullAssumption
<1>9. /\ entries' = [e \in EntryIds |-> IF w[e] # NoRow THEN w[e] ELSE entries[e]]
      /\ lastSeq' = [jn \in Journals |-> IF d[jn] # 0 THEN d[jn] ELSE lastSeq[jn]]
      /\ period' = period /\ year' = year
  BY <1>2, CommitEffect
<1>10. entries' = [entries EXCEPT ![j.target] = old, ![m] = mirror]
  BY <1>1, <1>3, <1>6, <1>7, <1>8, <1>9 DEF Blank
<1>11. lastSeq' = [lastSeq EXCEPT ![EX] = lastSeq[EX] + 1]
  <2>1. d = [Zero EXCEPT ![EX] = lastSeq[EX] + 1]
    BY <1>1 DEF Drew
  <2>2. d[EX] = lastSeq[EX] + 1 /\ d[EX] # 0
    BY <1>3, <2>1, JournalAssumption DEF Zero
  <2>3. \A i \in Journals : i # EX => d[i] = 0
    BY <2>1 DEF Zero
  <2> QED
    BY <1>3, <1>9, <2>2, <2>3
<1>12. Books!Reverse(j.target, m, j.date, r)
  <2>1. entries' = [entries EXCEPT ![j.target].status = "REVERSED", ![m] = mirror]
    BY <1>5, <1>10
  <2>2. j.target \in Books!Recorded /\ m \notin Books!Recorded
    BY <1>1, <1>6 DEF Books!Recorded, Exists
  <2>3. \A f \in Books!Recorded : entries[f].mirrorOf # j.target
    BY <1>1 DEF Books!Recorded, Exists
  <2>4. Books!OpenFor(j.date)
    BY <1>1 DEF Books!OpenFor, Opened
  <2>5. mirror = [journal |-> EX, seq |-> lastSeq[EX] + 1, date |-> j.date,
                  lines |-> Mirror(entries[j.target].lines), status |-> "POSTED",
                  mirrorOf |-> j.target, event |-> NoEvent, postedBy |-> r]
    BY <1>4 DEF MirrorOf
  <2>6. Books!Mirror(entries[j.target].lines) = Mirror(entries[j.target].lines)
    BY DEF Books!Mirror, Mirror
  <2> QED
    BY <1>1, <1>9, <1>11, <2>1, <2>2, <2>3, <2>4, <2>5, <2>6 DEF Books!Reverse
<1>13. j.date \in Periods /\ r \in Users
  BY <1>1, RequestAssumption DEF Opened
<1> QED
  BY <1>1, <1>12, <1>13 DEF Books!Next

LEMMA CommitCloses ==
    ASSUME TypeInv, NEW r \in Requests, ClosedAsYear, NEW s, NEW j, NEW d, NEW w, NEW k,
           At(r, s, j, d, w, k), Commit(r), Closing(j, d, w, k)
    PROVE  Books!Next /\ ClosedAsYear'
<1>1. /\ j.op = "close" /\ j.year \in Years /\ year[j.year] = "OPEN" /\ d = Zero /\ w = Blank
      /\ k = {p \in Periods : YearOf[p] = j.year /\ period[p] = "OPEN"}
  BY DEF Closing
<1>2. /\ entries \in [EntryIds -> Row \cup {NoRow}] /\ lastSeq \in [Journals -> Nat]
      /\ period \in [Periods -> {"OPEN", "LOCKED"}] /\ year \in [Years -> {"OPEN", "CLOSED"}]
  BY DEF TypeInv, TypeOK
<1>3. /\ entries' = [e \in EntryIds |-> IF w[e] # NoRow THEN w[e] ELSE entries[e]]
      /\ lastSeq' = [jn \in Journals |-> IF d[jn] # 0 THEN d[jn] ELSE lastSeq[jn]]
      /\ period' = [p \in Periods |-> IF p \in k THEN "LOCKED" ELSE period[p]]
      /\ year' = [y \in Years |-> IF y = j.year THEN "CLOSED" ELSE year[y]]
  BY CommitEffect
<1>4. entries' = entries /\ lastSeq' = lastSeq
  BY <1>1, <1>2, <1>3 DEF Blank, Zero
<1>5. year' = [year EXCEPT ![j.year] = "CLOSED"]
  BY <1>1, <1>2, <1>3
<1>6. period' = [p \in Periods |-> IF YearOf[p] = j.year THEN "LOCKED" ELSE period[p]]
  BY <1>1, <1>2, <1>3
<1>7. Books!Close(j.year)
  BY <1>1, <1>4, <1>5, <1>6 DEF Books!Close
<1>8. ClosedAsYear'
  BY <1>1, <1>2, <1>3, <1>6, CalendarAssumption DEF ClosedAsYear
<1> QED
  BY <1>1, <1>7, <1>8 DEF Books!Next

LEMMA CommitGoes ==
    ASSUME TypeInv, NEW r \in Requests, AloneInv(r), Commit(r)
    PROVE  Books!Next /\ AloneInv(r)'
<1>1. PICK s, j, d, w, k : At(r, s, j, d, w, k) /\ Pending(r, s, j, d, w, k)
  BY DEF AloneInv
<1>2. s = "commit"
  BY <1>1, CommitEffect
<1>3. ClosedAsYear
  BY DEF AloneInv
<1>4. ASSUME j.op # "close" PROVE ClosedAsYear'
  <2>1. k = {} /\ j.year = NoYear
    BY <1>1, <1>4 DEF Pending, Shaped
  <2>2. period' = period /\ year' = year
    BY <1>1, <2>1, CommitEffect
  <2> QED
    BY <1>3, <2>2 DEF ClosedAsYear
<1>5. Books!Next /\ ClosedAsYear'
  <2>1. CASE j.op = "create" /\ Checked(j, d, w)
    BY <1>1, <1>4, <2>1, CommitRecords
  <2>2. CASE Booked(r, j, d, w)
    <3>1. j.op # "close"
      BY <2>2 DEF Booked
    <3> QED
      BY <1>1, <1>4, <2>2, <3>1, CommitBooks
  <2>3. CASE Validated(r, j, d, w)
    <3>1. j.op # "close"
      BY <2>3 DEF Validated
    <3> QED
      BY <1>1, <1>4, <2>3, <3>1, CommitValidates
  <2>4. CASE Undone(r, j, d, w)
    <3>1. j.op # "close"
      BY <2>4 DEF Undone, Reversible, ToReverse
    <3> QED
      BY <1>1, <1>4, <2>4, <3>1, CommitReverses
  <2>5. CASE Closing(j, d, w, k)
    BY <1>1, <1>3, <2>5, CommitCloses
  <2> QED
    BY <1>1, <1>2, <2>1, <2>2, <2>3, <2>4, <2>5 DEF Pending
<1>6. At(r, "idle", NoJob, Zero, Blank, {})'
  BY ReleasedAlone DEF Commit
<1>7. Pending(r, "idle", NoJob, Zero, Blank, {})'
  BY DEF Pending, Shaped, NoJob
<1> QED
  BY <1>5, <1>6, <1>7 DEF AloneInv

-----------------------------------------------------------------------------
(* The refinement *)

LEMMA InitSimulates == Init => Books!Init
  BY DEF Init, Books!Init

LEMMA StepSimulates ==
    ASSUME NEW r, Requests = {r}, TypeInv, AloneInv(r), [Next]_vars
    PROVE  AloneInv(r)' /\ [Books!Next]_Books!vars
<1>1. CASE UNCHANGED vars
  <2>1. Goes(r)
    <3>1. PICK s, j, d, w, k : At(r, s, j, d, w, k) /\ Pending(r, s, j, d, w, k)
      BY DEF AloneInv
    <3>2. At(r, s, j, d, w, k)'
      BY <1>1, <3>1 DEF vars, At
    <3> QED
      BY <1>1, <3>1, <3>2 DEF Goes, vars, db
  <2> QED
    BY <1>1, <2>1, GoesOn DEF vars, Books!vars
<1>2. ASSUME Goes(r) PROVE AloneInv(r)' /\ [Books!Next]_Books!vars
  BY <1>2, GoesOn DEF Goes, db, Books!vars
<1>3. CASE Arrive(r) \/ Step(r) \/ Crash(r)
  <2>1. CASE Commit(r)
    BY <2>1, CommitGoes
  <2>2. CASE ~Commit(r)
    <3>1. Goes(r)
      BY <1>3, <2>2, ArriveGoes, CreateReadsGo, NextSequenceGoes, InsertDraftGoes, PostReadsGo,
         FlushPostedGoes, AnnounceGoes, ReverseReadsGo, InsertReversalGoes, FlushReversedGoes,
         CloseReadsGo, EndGoes DEF Step
    <3> QED
      BY <1>2, <3>1
  <2> QED
    BY <2>1, <2>2
<1> QED
  BY <1>1, <1>3 DEF Next

\* With one request at a time the service, crashes included, is an EntryBook:
\* what a request read before it wrote still holds when it commits, and the
\* year that post_entry and reverse_entry never read is open with the period.
THEOREM Alone ==
    ASSUME NEW r, Requests = {r}
    PROVE  Spec => ImplementsBook
<1>1. Init => TypeInv /\ AloneInv(r) /\ Books!Init
  BY TypeInvInit, AloneInit, InitSimulates
<1>2. TypeInv /\ AloneInv(r) /\ [Next]_vars
        => TypeInv' /\ AloneInv(r)' /\ [Books!Next]_Books!vars
  BY TypeInvNext, StepSimulates
<1> QED
  BY <1>1, <1>2, PTL DEF Spec, ImplementsBook, Books!Spec

-----------------------------------------------------------------------------
(* What the books promise *)

\* One operation on the books leaves posted entries as they are, up to their
\* reversal, and enters an entry in an open period only.
LEMMA BooksKeep ==
    ASSUME TypeOK, [Books!Next]_Books!vars, NEW e \in EntryIds
    PROVE  /\ Exists(e) /\ entries[e].status = "POSTED" =>
                 entries'[e] \in {entries[e], [entries[e] EXCEPT !.status = "REVERSED"]}
           /\ Exists(e) /\ entries[e].status = "REVERSED" => entries'[e] = entries[e]
           /\ entries'[e] # NoRow /\ (Exists(e) => entries[e].status = "DRAFT")
                 /\ entries'[e] # entries[e] => period[entries'[e].date] = "OPEN"
<1>1. entries \in [EntryIds -> Row \cup {NoRow}]
  BY DEF TypeOK
<1>2. Exists(e) => entries[e] \in Row
  BY <1>1 DEF Exists
<1>3. ASSUME NEW f \in EntryIds, NEW row, Books!Enter(f, row)
      PROVE  /\ Exists(e) => entries'[e] = entries[e]
             /\ entries'[e] # entries[e] => entries'[e] = row /\ period[row.date] = "OPEN"
  BY <1>1, <1>3 DEF Books!Enter, Books!Recorded, Books!OpenFor, Exists
<1>4. ASSUME NEW f \in EntryIds, NEW j \in Journals, NEW p \in Periods, NEW ls \in Bodies,
             Books!Record(f, j, p, ls)
      PROVE  /\ Exists(e) => entries'[e] = entries[e]
             /\ entries'[e] # entries[e] => period[entries'[e].date] = "OPEN"
  <2>1. PICK row : Books!Enter(f, row)
    BY <1>4 DEF Books!Record
  <2> QED
    BY <1>3, <2>1
<1>5. ASSUME NEW f \in EntryIds, NEW ev \in Events, NEW u \in Users, Books!Book(f, ev, u)
      PROVE  /\ Exists(e) => entries'[e] = entries[e]
             /\ entries'[e] # entries[e] => period[entries'[e].date] = "OPEN"
  <2>1. PICK row : Books!Enter(f, row)
    BY <1>5 DEF Books!Book
  <2> QED
    BY <1>3, <2>1
<1>6. ASSUME NEW f \in EntryIds, NEW u \in Users, Books!Validate(f, u)
      PROVE  /\ entries[e].status # "DRAFT" => entries'[e] = entries[e]
             /\ entries'[e] # entries[e] => period[entries'[e].date] = "OPEN"
  <2>1. /\ entries[f] \in Row /\ entries[f].status = "DRAFT" /\ period[entries[f].date] = "OPEN"
        /\ entries' = [entries EXCEPT ![f].status = "POSTED", ![f].postedBy = u]
    BY <1>1, <1>6 DEF Books!Validate, Books!Recorded, Books!OpenFor
  <2>2. CASE f = e
    BY <1>1, <2>1, <2>2 DEF Row
  <2>3. CASE f # e
    BY <1>1, <2>1, <2>3
  <2> QED
    BY <2>2, <2>3
<1>7. ASSUME NEW f \in EntryIds, NEW m \in EntryIds, NEW p \in Periods, NEW u \in Users,
             Books!Reverse(f, m, p, u)
      PROVE  \/ e = f /\ entries[e].status = "POSTED"
                /\ entries'[e] = [entries[e] EXCEPT !.status = "REVERSED"]
             \/ e = m /\ ~Exists(e) /\ period[entries'[e].date] = "OPEN"
             \/ entries'[e] = entries[e]
  <2>1. PICK row : row = [journal |-> EX, seq |-> lastSeq[EX] + 1, date |-> p,
                          lines |-> Mirror(entries[f].lines), status |-> "POSTED",
                          mirrorOf |-> f, event |-> NoEvent, postedBy |-> u]
    OBVIOUS
  <2>2. /\ entries[f] # NoRow /\ entries[m] = NoRow /\ entries[f].status = "POSTED"
        /\ period[row.date] = "OPEN"
        /\ entries' = [entries EXCEPT ![f].status = "REVERSED", ![m] = row]
    BY <1>7, <2>1
    DEF Books!Reverse, Books!Recorded, Books!OpenFor, Books!Mirror, Mirror
  <2>3. f # m
    BY <2>2
  <2>4. CASE e = f
    BY <1>1, <2>2, <2>3, <2>4
  <2>5. CASE e = m
    BY <1>1, <2>2, <2>3, <2>5 DEF Exists
  <2>6. CASE e # f /\ e # m
    BY <1>1, <2>2, <2>6
  <2> QED
    BY <2>4, <2>5, <2>6
<1>8. ASSUME NEW y \in Years, Books!Close(y) PROVE entries' = entries
  BY <1>8 DEF Books!Close
<1>9. ASSUME UNCHANGED Books!vars PROVE entries' = entries
  BY <1>9 DEF Books!vars
<1>10. \/ entries'[e] = entries[e]
       \/ entries[e].status = "POSTED" /\ entries'[e] = [entries[e] EXCEPT !.status = "REVERSED"]
             /\ Exists(e)
       \/ (Exists(e) => entries[e].status = "DRAFT") /\ period[entries'[e].date] = "OPEN"
  <2>1. CASE \E f \in EntryIds, j \in Journals, p \in Periods, ls \in Bodies :
                Books!Record(f, j, p, ls)
    BY <1>4, <2>1
  <2>2. CASE \E f \in EntryIds, ev \in Events, u \in Users : Books!Book(f, ev, u)
    BY <1>5, <2>2
  <2>3. CASE \E f \in EntryIds, u \in Users : Books!Validate(f, u)
    BY <1>6, <2>3
  <2>4. ASSUME NEW f \in EntryIds, NEW m \in EntryIds, NEW p \in Periods, NEW u \in Users,
               Books!Reverse(f, m, p, u)
        PROVE  \/ entries'[e] = entries[e]
               \/ entries[e].status = "POSTED"
                     /\ entries'[e] = [entries[e] EXCEPT !.status = "REVERSED"] /\ Exists(e)
               \/ (Exists(e) => entries[e].status = "DRAFT") /\ period[entries'[e].date] = "OPEN"
    <3>1. entries[f] # NoRow
      BY <2>4 DEF Books!Reverse, Books!Recorded
    <3> QED
      BY <1>7, <2>4, <3>1 DEF Exists
  <2>5. CASE \E y \in Years : Books!Close(y)
    BY <1>8, <2>5
  <2>6. CASE \E f \in EntryIds, m \in EntryIds, p \in Periods, u \in Users :
                Books!Reverse(f, m, p, u)
    BY <2>4, <2>6
  <2>7. CASE Books!Next
    BY <2>1, <2>2, <2>3, <2>5, <2>6, <2>7 DEF Books!Next
  <2> QED
    BY <1>9, <2>7
<1> QED
  BY <1>10

\* One request at a time, a posted entry can only become REVERSED and a
\* reversed one does not change: neither survives two requests that overlap.
THEOREM Immutability ==
    ASSUME NEW r, Requests = {r}
    PROVE  Spec => PostedIsImmutable
<1>1. Init => TypeInv /\ AloneInv(r)
  BY TypeInvInit, AloneInit
<1>2. TypeInv /\ AloneInv(r) /\ [Next]_vars => TypeInv' /\ AloneInv(r)'
  BY TypeInvNext, StepSimulates
<1>3. TypeInv /\ AloneInv(r) /\ [Next]_vars =>
        [\A e \in EntryIds :
          /\ Exists(e) /\ entries[e].status = "POSTED" =>
                entries'[e] \in {entries[e], [entries[e] EXCEPT !.status = "REVERSED"]}
          /\ Exists(e) /\ entries[e].status = "REVERSED" =>
                entries'[e] = entries[e]]_entries
  BY StepSimulates, BooksKeep DEF TypeInv
<1> QED
  BY <1>1, <1>2, <1>3, PTL DEF Spec, PostedIsImmutable

\* One request at a time, a closed period takes no new draft and no posting,
\* although post_entry and reverse_entry read the period long before COMMIT.
THEOREM ClosedPeriods ==
    ASSUME NEW r, Requests = {r}
    PROVE  Spec => NothingBookedInClosedPeriod
<1>1. Init => TypeInv /\ AloneInv(r)
  BY TypeInvInit, AloneInit
<1>2. TypeInv /\ AloneInv(r) /\ [Next]_vars => TypeInv' /\ AloneInv(r)'
  BY TypeInvNext, StepSimulates
<1>3. TypeInv /\ AloneInv(r) /\ [Next]_vars =>
        [\A e \in EntryIds :
          /\ entries'[e] # NoRow
          /\ Exists(e) => entries[e].status = "DRAFT"
          /\ entries'[e] # entries[e]
          => period[entries'[e].date] = "OPEN"]_entries
  BY StepSimulates, BooksKeep DEF TypeInv
<1> QED
  BY <1>1, <1>2, <1>3, PTL DEF Spec, NothingBookedInClosedPeriod

=============================================================================
