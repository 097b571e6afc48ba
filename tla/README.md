# Fine CoreBanking — TLA+ models and proofs

Fine CoreBanking is the accounting core of a microfinance institution.
`accounting_service` keeps the general ledger in PostgreSQL, `reporting_service`
computes the financial statements from the same tables and caches them in Redis,
Kafka carries the business events in (credit, savings, cash) and the accounting
events out, and a Next.js front end calls both services. This directory models
their core in TLA+, checks the models with TLC and proves the main theorems with
TLAPS. It quotes source files relative to the repository's root.

Contents: [inventory](#inventory) · [modules](#modules) · [runs](#runs) ·
[proofs](#proofs) · [where the code departs from its documentation](#where-the-code-departs-from-its-documentation) ·
[what is not modelled](#what-is-not-modelled)

## Inventory

### Components

| Component | State | Operations | Modelled in |
|---|---|---|---|
| Journal entries: `JournalEntryService` in `accounting_service/app/services/accounting.py` | `journal_entries`, `journal_lines`, `journals.last_sequence` | `create_entry`, `post_entry`, `reverse_entry` | `JournalEntries`, `EntryBook` |
| Fiscal years and periods: `FiscalYearService` | `fiscal_years`, `accounting_periods` | `create` and its loop over the months, `close` | `FiscalPeriods`; `close` also in `JournalEntries` |
| Lettering: `JournalEntryService.letter_lines` | `journal_lines.lettering_code` | `letter_lines` | `Lettering` |
| Chart of accounts: `AccountService` | `account_plans` (active, leaf, parent, path, version) | `create`, `update`, `deactivate`, `get_balance` | `AccountPlan` (as racing transactions); `ChartOfAccounts` (each operation one step, beside the entries) |
| Business event consumer: `services/kafka_consumer.py` of accounting | Kafka offsets, attempts, DLQ | `run_consumer`, `process_event`, `_publish_dlq` | `EventConsumer`; one attempt is `ingest` in `JournalEntries` |
| Accounting rules: `AccountingRules`, same file | none | event to movements | `AccountingRules`, used by `MCFinancialReports` and `MCEventConsumer` |
| Event producer: `services/kafka_producer.py` | none | best-effort send of `ENTRY_POSTED`, `FISCAL_YEAR_CLOSED` | `JournalEntries` (`Announce...`), `ReportCache` |
| Report cache: `utils/cache.py`, `services/kafka_consumer.py` of reporting, `api/v1/reports.py` | Redis keys, Kafka offsets | cached reads, invalidation | `ReportCache` |
| Report computations: `repositories/reporting.py`, `services/reporting.py` | reads only | the statements | `FinancialReports`, `ReportProperties` |
| Plan templates, import of a file, seed script: `api/v1/accounts.py`, `data/plan_templates.py`, `scripts/seed_chart_of_accounts.py` | `account_plans`, `journals` | load a template, seed, import | `PlanTemplates` (the plans), `AccountPlan` (the operations) |
| Authentication, tokens, users: `services/auth.py`, `api/v1/auth.py`, `api/v1/users.py`, `core/security.py`, `main.py` | `users`, refresh tokens in Redis, JWTs at the clients | login, refresh (the service has no logout); creation, PATCH and deactivation of users; seed of the first administrator | `Sessions`, `SessionLife` |
| Audit trail: `core/audit.py` | `audit_logs` | record each mutation | `AuditTrail` |
| DLQ monitor, exporters, rate limits, telemetry, health, migrations, front end, deployment | — | — | no ([see below](#what-is-not-modelled)) |

### How they interact

* **HTTP request = one database transaction.** `db/session.py` opens a session per
  request, commits when the handler returns and rolls back when it raises. The
  isolation is PostgreSQL's READ COMMITTED: every SELECT sees what is committed at
  that moment and the request's own flushed rows; an UPDATE locks its row until
  the transaction ends. Nothing in the service locks explicitly, except
  `UPDATE journals SET last_sequence = last_sequence + 1 ... RETURNING`.
* **Events in.** `run_consumer` books an event in a transaction of its own
  (`create_entry`, then `post_entry`), then commits the Kafka offsets; after
  `MAX_RETRIES` failures it publishes the message in the DLQ and commits.
* **Events out.** `post_entry` and `FiscalYearService.close` send an event *before*
  their transaction commits, and swallow any failure of the send.
* **Invalidation.** The reporting service drops the cached reports that a map names
  for the type of an event; a reversal sends no event.
* **Reports** read the committed tables of the accounting service.
* **Authority.** A request is admitted by the role written in its JWT; the table of
  users is not read again. A refresh token is a key of Redis that a renewal takes
  out (`GETDEL`), before the user is read and the next one stored. The two services
  share the key that signs.
* **Audit.** A middleware around every request leaves the record of a mutation to a task
  that starts once the answer is there, with a transaction of its own.

### What is hard

| Kind | Where it bites |
|---|---|
| Interleaving | check-then-act on statuses, periods, mirrors, lettering codes, children and balances of accounts |
| Atomicity | the sequence number and the entry it numbers; entry, mirror and original; year and periods |
| Ordering | event before COMMIT; offset commit after the entry; a poisonous message put aside while others go on |
| Crash and restart | between COMMIT and offset commit, between send and COMMIT, between the answer and its audit record, between two uses of Redis, in every transaction |
| Unreliable calls | Kafka sends that are lost or answered late; Redis that fails during an invalidation |
| Deadlock | rows of `journals`, `journal_entries` and periods taken in different orders; lines of two lettering groups; accounts inserted by two loads |
| Staleness | ORM rows read before an UPDATE; cached reports; accounts that change under their entries; JWTs that outlive a role; versions read before an UPDATE |
| Boundaries | years that begin or end inside a month; pages of a ledger; ratios with a zero denominator; days on the edge of a report |

`PROJECT.json` lists 40 hazards at their lines, with the properties that cover
them and, where none does, why.

### What makes each component correct

* *Journal entries*: numbers without holes; one entry per event; every entry
  balanced; a mirror undoes exactly one entry that was posted; statuses only move
  forward; nothing is booked in a closed period; requests never wait in a circle
  and end.
* *Fiscal periods*: the periods of a year split its days; they are locked with it.
* *Lettering*: the lines of a group balance; no lock is left, no deadlock.
* *Consumer*: what is committed to Kafka is accounted for, in order; retries end.
* *Cache*: a report is never older than its time to live; what the map promises
  holds when nothing races.
* *Reports*: the statements agree with the books and with one another.
* *Chart of accounts*: the hierarchy is one of committed accounts; no update is lost; what is
  loaded is complete; loads of one plan do not block each other.
* *Sessions*: one refresh token per login; a withdrawn role lasts as long as a JWT at most; a
  change of a user touches the columns it names; the last administrator stays, but for the
  cases named below.
* *Audit*: a record tells the truth about a request and its author; when nothing fails, every
  committed mutation has a record.

## Modules

```
LedgerTypes ── EntryBook ── ChartOfAccounts ── FinancialReports ── ReportProperties ── MCFinancialReports
     │             ▲                                                      └── ReportProofs
     │             │ refines (JournalEntriesRefinement)
     └── JournalEntries ── JournalEntriesRefinement ── MCJournalEntries
                                     └── JournalEntriesProofs
AccountingRules ── ReportProperties, MCEventConsumer
EventConsumer ── MCEventConsumer        Lettering ── MCLettering
     └── EventConsumerProofs                 └── LetteringProofs
FiscalPeriods ── MCFiscalPeriods        ReportCache ── MCReportCache
     └── FiscalPeriodsProofs                 └── ReportCacheProofs
PlanTemplates ── MCAccountPlan          SessionLife
AccountPlan ── MCAccountPlan                 ▲ refines (SessionsRefinement)
     └── AccountPlanProofs              Sessions ── SessionsRefinement ── SessionsProofs (with AuditTrail)
                                             └── AuditTrail ── MCSessions (with SessionsRefinement)
```

**`LedgerTypes`** has the rows of the ledger, what it is to balance and `Mirror`, the
lines that `reverse_entry` writes. A client's entry is one of a set of `Bodies`.

**`EntryBook`** is the abstract specification: what the service promises when
operations are atomic. One action per operation: `Record`, `Book` (an event recorded
and posted at once), `Validate`, `Reverse`, `Close`.

**`JournalEntries`** is the same service as PostgreSQL runs it. A request has a program
counter (`pc`), its arguments (`job`), the sequence numbers it has drawn (`drawn`),
the rows it has flushed (`writes`) and, for a closing, the periods it found open
(`toLock`); an action is one statement of a handler. `View` is what a SELECT returns,
`RowFree` and `CounterFree` are row locks, `Commit` makes `writes` visible and releases,
`Rollback` follows a raised exception, `Crash` may happen at any statement.
Correspondence: `FindEvent`, `OpenPeriod`, `OpenYear`, `NextSequence`, `InsertDraft`,
`CheckAccounts` for `create_entry`; `ReadDraft`, `PostPeriod`, `FlushPosted`,
`AnnouncePosted` for `post_entry`; `ReadOriginal`, `FindReversals`, `OpenPeriod`,
`NextSequence`, `InsertReversal`, `FlushReversed` for `reverse_entry`; `ReadYear`,
`ReadPeriods`, `AnnounceClosed` for `close`. Four remarks on fidelity:

* an accounting date is represented by its period; `FiscalPeriods` is about how
  periods cover dates;
* `process_event` looks its accounts up before `create_entry`, which looks at them
  again: with a constant set of usable accounts both have one outcome, and the model
  has the second;
* `post_entry` reads the period again with a new SELECT, so that only what happens
  after it can make it stale;
* the key-share locks that foreign keys take conflict with no UPDATE of the service.

**`JournalEntriesRefinement`** is the mapping from the second to the first: the committed
tables are the books (`ImplementsBook`).

**`FiscalPeriods`** has creations as transactions whose loop inserts one period per
month (`InsertPeriod`), the CHECK constraint that refuses a period of one day
(`RefusePeriod`) and `Close`. Dates are day numbers; `MonthEnd` gives the last day of a
day's month.

**`Lettering`** has the SELECT with the service's checks (`ReadLines`), the UPDATEs that
the flush sends in the order of primary keys (`UpdateLine`), each waiting for its row,
and `Commit`.

**`EventConsumer`** has a group of processes, the assignment of topics, positions and
committed offsets, the attempts at a message, the DLQ and the death of the consumer
task. `consumer.commit()` commits the positions of *every* assigned topic
(`CommitPositions`); a rebalance resets positions to the committed offsets, but the
process that lost a topic still finishes the message at hand. A failed commit or send may
have succeeded (its answer is lost). The loop over messages has no `try` of its own: a
message that does not parse, or a fetch that raises, ends the task (`FetchFails`). What a
message is to the consumer (booked, without a rule, refused, foreign, not JSON) is given
with the log; `MCEventConsumer` checks that its log is what `AccountingRules` makes of actual
payloads.

**`AccountingRules`** has the movements of every event, its journal, and whether it is booked,
skipped or refused (`KindOf`). Account codes are those of the source.

**`ReportCache`** has the books as a sequence of dated changes, reports that are computed
and stored in two steps, Redis with expiry, the topic, and the consumer with its
offsets, retries, DLQ and death. A report is worth the changes its first query saw.
`KEYS` and `DEL` are one step. `calm` is chosen in `Init`: when it holds, requests come
one at a time and Redis answers. The reporting service is one process.

**`PlanTemplates`** is data: the accounts and journals of the templates PCIMF, PCEC and CUSTOM
and of the seed script, as sections (a class), groups and leaves, in the order in which a load
inserts them. `MCAccountPlan` has TLC evaluate that no list has a code twice and that every parent comes before
its children and is no leaf (`WellFormed`).

**`AccountPlan`** has the operations on the chart as transactions. A request has a job: what it
read in its first SELECT (`known`, `leaves`), what is left to insert (`todo`), the row and version
it patches (`target`, `seen`). `Create` reads the parent; `Load`, `StartSeed` and `Import` index the
chart once, then insert account by account (`Find`, `Mark`, `Insert`); `Update` is the
`UPDATE ... WHERE version = ...` of an optimistic lock; `Commit` makes rows visible, `Fail` is an
exception, a crash or a deadlock that PostgreSQL broke. A unique code makes an INSERT wait for
another's, and the UPDATE of a row or of a parent's `is_leaf` for whoever has updated that row and
not committed (`WaitsFor`). `Resume` passes over what a load has no statement for. That two templates never list the same
accounts in two orders (`TemplateAssumption`) and that the seed lists parents before children
(`SeedOrderAssumption`) are facts about `PlanTemplates` that TLC evaluates.

**`Sessions`** cuts a request where it awaits: `Login` (read the user, sign), `Refresh` (`GETDEL`),
`ReadUser`, `Store` (`SETEX`), the administration of users (`CreateUser`, `UpdateUser`,
`DeactivateUser`, `Write`), `Seed`, `Commit`, `Answer`, `Fail`. `users` is the table, `redis` the refresh
tokens, `access` the JWTs that clients hold, `known` the refresh tokens they received. `Tick` is time, with the
expiry of both. `Updated` is what SQLAlchemy writes: the columns whose value differs from
the one that was *loaded*.

**`SessionLife`** is what authentication promises without requests, Redis or transactions:
`Grant`, `Open`, `Extend`, `Withdraw`, `Manage`, `First`. **`SessionsRefinement`** maps the one to the
other: a grant is a JWT in a client's hands or in a request's, a session is open while its token
is in Redis or a renewal has it.

**`AuditTrail`** wraps the middleware round each request of `Sessions`: `Dispatched` is the record, made when
the answer is there, `Persist` its task, `LoseTask` the death of it.

**`ChartOfAccounts`** adds the chart to `EntryBook`: `OpenAccount` (the parent ceases to
be a leaf, whatever is booked on it), `Deactivate`, `Patch` (the PATCH of `is_active`,
which skips the checks of `deactivate`), `RecordOnActive`, `Ingest` (an event). Every
operation is one step, `AccountPlan` being about how they race. Its periods are days.

**`FinancialReports`** defines each report as a function of the books and the chart, keeping the
names of the code: joins and sums are set comprehensions and `MapThenSumSet` over lines.
A LEFT JOIN whose condition is in ON is modelled by what it does: it filters nothing from
the sum (`get_balance_by_account_class`). `pct` is in hundredths of a percent with the
code's rounding. The accounting service's own SQL passes dates as strings; it is modelled
by what its text says. **`ReportProperties`** relates the reports to each other.

## Runs

`cd tla; tlc -config <cfg> <module>`. Deadlock is checked in every run but `year_creation`,
which stops when every year has been created and closed, and `sessions`, which stops when
the clock and the number of requests are at their bounds. Type invariants are theorems
(`TypeCorrect` of each module of proofs) and are not run again, but for `AuditTypeOK`.

| Run | Module, configuration | States | Question |
|---|---|---|---|
| `entries_concurrent` | `MCJournalEntries`, `MCEntriesConcurrent.cfg` | 57 692 | Two requests of any kind race and crash: numbering, idempotence, balance, mirrors, order of locks, statuses; and every request ends |
| `entries_serial` | `MCJournalEntries`, `MCEntriesSerial.cfg` | 322 928 | One request at a time, with crashes: the service implements `EntryBook`; posted entries are immutable, nothing is booked in a closed period |
| `double_reversal` | `MCJournalEntries`, `MCDoubleReversal.cfg` | violated | Two reversals of an entry |
| `consumer` | `MCEventConsumer`, `MCConsumer.cfg` | 541 846 | At least once, in order, offsets forward, everything settled in the end |
| `lettering` | `MCLettering`, `MCLettering.cfg` | 30 537 | Balance of groups, deadlock |
| `year_creation` | `MCFiscalPeriods`, `MCFiscalPeriods.cfg` | 4 371 | Every choice of dates for two years over three months: periods split their year, a date has one open period per year |
| `cache` | `MCReportCache`, `MCReportCache.cfg` | 912 316 | Staleness, and freshness when calm |
| `reports` | `MCFinancialReports`, `MCFinancialReports.cfg` | 8 748 | The statements against the books and one another |
| `reversal_cancels` | `MCFinancialReports`, `MCReversalCancels.cfg` | violated | What a reversal does to balances |
| `bilan_as_of` | `MCFinancialReports`, `MCBilanAsOf.cfg` | violated | What the balance sheet counts |
| `sessions` | `MCSessions`, `MCSessions.cfg` | 370 295 | Renewals, logins, administration and the audit of them race and fail: tokens, revocation, columns, the last administrator, records; `Sessions` implements `SessionLife` |
| `account_plan` | `MCAccountPlan`, `MCAccountPlan.cfg` | 459 025 | Creations, loads, imports and PATCHes race and fail: tree, optimistic lock, what a load completes and what it leaves alone, deadlock |

### Bounds, and why they are enough

* **Entries.** Two requests meet at most two at a time in every conflict the code can
  have (a row, a counter, a status). With two ids an entry and its mirror, or two entries of one
  journal, exist; that is enough for a run whose invariants are all theorems for any
  number and which also checks liveness. A third id would add a second mirror, which
  `double_reversal` has. One period in the concurrent run (closing it is one of the requests), three
  ids and two periods in one year in the serial run. `Delivery` has one value where nobody looks at
  `announced`.
* **Consumer.** Two processes and two topics are what it takes for a commit of one topic
  to cover another and for two processes to hold a message at once; the log has every
  kind of message but "poison", whose effect `FetchFails` may have at any message (with
  one in the log every behaviour would end with all tasks dead, and `EverythingSettled`
  would say little); two attempts have a first, a last and a retry.
* **Lettering.** Four lines, three requests and two codes: three requests can wait in a
  circle, and codes can be reused.
* **Periods.** Eight days in three months of two days or more, every first and last day:
  years that begin or end on, before or after a month's boundary, and span all three.
* **Cache.** Two requests, two reports of different time to live, one change, one event,
  three units of time: a change is announced, committed, computed, stored, handled and
  expires in every order. The proofs cover any number.
* **Reports.** Capital and a loan by hand, five events (a loan, a repayment with interest
  and penalty, savings, interest on them, a loss), three entries of these (or one, its
  reversal and another) over two days: a range has a before, an inside and an after. One
  account is opened under another; one is deactivated and activated. Amounts are small;
  only their sums and signs matter.
* **Sessions.** Two users, one of them the default administrator, start as two administrators or as an
  empty table; two requests at a time and three in all let a renewal race a renewal, a
  deactivation or a login. A JWT lives one unit, a refresh token two, the clock goes to three: either
  expires while the other does not. The theorems have no bound.
* **Account plan.** The heads 2 and 4, the group 25 and its account 251000: PCIMF and the seed script have 25
  under 4, PCEC under 2, so the excerpts of the plans differ in parents and in order. Two requests, each free to be any operation, and a version up to 2: an account
  is updated once, so that a second update meets a stale version. The theorems have no bound.

### Fairness

* `JournalEntries`: strong fairness of each request's `Step`. A request that waits for a row
  is enabled each time the row is free, and PostgreSQL queues lock waiters, so one that is
  enabled again and again proceeds. Nothing obliges requests to arrive or to crash.
* `EventConsumer`: weak fairness of each task's `Step` (the event loop runs it), of `Join`
  (`restart` in `docker-compose.yml`) and of giving an unowned topic an owner (the group
  coordinator). `EverythingSettled` assumes that crashes and needless rebalances stop
  in the end: with them going on for ever nothing is promised.
* The other models state safety only.

### What holds, and how far

* `GaplessNumbering`: the UPDATE of the journal holds its row until the end, so that a
  number that was drawn and rolled back is drawn again.
* `PostedIsImmutable`, `NothingBookedInClosedPeriod` and `ImplementsBook` hold one request at a time and
  not otherwise: each check is stale by its COMMIT when another request commits in between.
* `OneOpenPeriodPerYear`: a date has exactly one open period for each open year it is in. Where two
  open years *overlap* it has two, and no request on that date succeeds.
* `BalancedUnlessOverwritten`: unlike what `letter_lines` promises, groups *can* be
  unbalanced, by a COMMIT that takes over a line which another request lettered after the
  check; the property says that nothing else can.
* `BoundedStaleness` has `MaxCompute`, the time from a report's query to its storing,
  which nothing in the code bounds: an assumption on the environment.
* `OutByUnlisted`: the trial balance is out by exactly what is booked on accounts that a later
  change of the chart hides from it.
* `IncomeAgrees`: the result of the income statement and that of the dashboard differ by exactly what is booked
  on income and expense accounts that are no leaves any more or have no section in the statement.
* `StatementsAgree` has four named parts: the closing of a range is the opening of the next
  (`CarriedForward`), ledgers agree with balances across the two services (`LedgersAgree`), the pages of a
  ledger show every movement once (`PagesAddUp`), and journals balance and move what ledgers move
  (`JournalsMatchLedgers`). The last three compare with a ledger of one page of 500, the default of the API, and
  hold of accounts with no more movements than that (`InOnePage`, which no check of the code ensures): beyond,
  the totals and the closing balance of a page are those of the page.
* `PositionsAddUp`: in books where nothing is a draft or reversed and every account is listed, the
  balance sheet is out by the result, which it never shows, and by the accounts that it has no section for
  (`GapIsResult`), and assets, deposits and dashboard fit together.
* `StatementsFollowEvents` goes across both services: what events say of loans, savings and
  interest is what the dashboard shows, through the rules' accounts and the prefixes by
  which reports select. It speaks of books where nothing else was booked on loans, savings or results, and
  of the positive part of an amount, since `credit_repayment` books nothing for the others.
* `FlowsExplainCash`: the cash-flow statement explains its closing cash only when the flows on
  loans, interest and capital are turned round, the movements of its first day are taken out
  of the opening, and the accounts that it has no line for are added.
* The *progressive balance* of a ledger is another matter: each page starts again from the balance
  before the first day (`reporting_service/app/services/reporting.py:169`).
* `RatiosFollowNorm` is about positive denominators: with a zero one the code takes 0 as the
  value, conforming or not as the norm is an upper or a lower bound.
* `OneLivePerLogin`: `GETDEL` is one command, so two renewals with one token cannot both go on. A
  failure after it loses the session, never doubles it.
* `BoundedRevocation` compares with `lastHeld`, the history of when a user last had a role.
* `LastAdminStays` names its exceptions: a PATCH on oneself, and a request of somebody who is no
  administrator any more when it commits.
* `CompleteWhenCalm` speaks of histories without a failure; `TrailTruthful` of all.
* `NoLostUpdate`: of two PATCHes that read one version the second finds none to update.
* `SamePlanNoDeadlock`: requests that load one template, or seed, never wait for one another in a circle,
  whatever else goes on, as they insert in one order. Two *different* plans order their
  accounts differently and can wait for each other; PostgreSQL then fails one.
* `ExistingKept` is the other half of "idempotent" (`accounts.py:280`, "ignore les comptes déjà existants"):
  `LoadComplete` says what a load leaves behind, `ExistingKept` that it changes nothing else. The one exception is
  needed: `is_leaf` of a parent is set before the `INSERT` of its child, from a copy read when
  the chart was indexed; it may be committed with that child only.

## Proofs

TLAPS checks eight modules, for every value of the
constants that satisfies the named assumptions: `NullAssumption`, ids and "none" values are distinct;
`BodyAssumption`, the lines of a request balance, as its schema requires, and those of the rules do;
`CalendarAssumption`, months are intervals, a period has a year; `CacheAssumption`, every row of the invalidation
map names a report; `SeedAssumption` of `Sessions`, a table of users that is not empty has the default
administrator's row, since no row is ever deleted; `TemplateAssumption` and `SeedOrderAssumption` of `AccountPlan`, see above;
for the reports, `DaysAssumption`, days are finitely many, `PayloadAssumption`, events are posted as `AccountingRules` says,
`RuleAccountAssumption`, the eight accounts of the rules have the prefixes and classes that the plans give them, and
`PrefixAssumption`, of the prefixes that a statement adds up an account has one at most, and
`RankAssumption`, journals are finitely many and no two share their code, with which entry numbers begin; the
others give constants their types. TLC evaluates the assumptions in every run. Every module of proofs follows the same line: a type invariant, an inductive invariant in layers,
each layer proved from the ones below it, and the property as a consequence.

| Module | Theorems | Argument |
|---|---|---|
| `JournalEntriesProofs` | `TypeCorrect`, `NoDeadlock`, `Numbering`, `Idempotence`, `DoubleEntry`, `Reversals`, `LifeCycle` (any number of requests) | `TypeInv` ties each request's arguments to its statement (`JobOK`). `LockInv`: no two requests have flushed a row, and what a request holds follows from where it is, whence the order of locks. `NumberInv`: numbers of committed entries and of the request that holds the counter are 1..n. `EventInv`: an event is committed once and no pending row repeats a committed one. `BalanceInv`: what is flushed balances too. `MirrorInv`: a flushed mirror goes with a flushed REVERSED original that had been posted. The properties speak of committed rows; the strengthenings speak of what is flushed, because COMMIT makes it so. Actions are grouped by what they do (`Quiet`, `Draws`, `Flushes`, `Restated`, `Released`) so that each layer has one lemma per group. |
| `JournalEntriesProofs` | `Alone`, `Immutability`, `ClosedPeriods` | Assume there is one request. `AloneInv`: before each statement, what the request has read, drawn and flushed is what the operation of `EntryBook` will need (`Pending`), and periods are closed exactly as their year (`ClosedAsYear`), which is why a check of the period alone suffices. A statement leaves the books alone and establishes what the next one needs (`Goes`); a COMMIT is `Record`, `Book`, `Validate`, `Reverse` or `Close`, by what the request was about. The two action properties follow from the steps of `EntryBook` (`BooksKeep`). |
| `EventConsumerProofs` | `TypeCorrect`, `AtLeastOnce`, `InOrder`, `Forward` | `Busy`: where a task is determines whether it has a message. `Taken`: all that a member has taken of its topics, but the message at hand, is accounted for. `SettledBeforeCommit`: at a commit the message at hand is too. So a commit of all positions covers only what is settled. |
| `FiscalPeriodsProofs` | `TypeCorrect`, `PeriodPartition`, `ClosedAlike`, `OpenPeriods` | `LoopSplits`: in the loop, the periods made so far split the days before the next. `OpenPeriods` follows from the partition: of the periods of one year one has the day. |
| `ReportCacheProofs` | `TypeCorrect`, `Staleness`, `Freshness` | `WorkTimed` and `CacheTimed`: a change that a report misses is not older than the report's start. For freshness: `Offsets`, `Slots` (each change has its message), `Alone` (when calm, nothing else is at work) and `ReachedIsFresh` (what the consumer's scan has passed is fresh). |
| `LetteringProofs` | `TypeCorrect`, `NoDeadlock`, `GroupsStay` | `Ascending`: a request holds rows below those it still wants only, since the flush goes by ids; `HeldOnce`: no row is held twice. If all waited, the holder of the greatest row that is waited for would wait for a greater one. `Weighed`: what a request has flushed and what it still has to flush balance together, as the check of the whole group found before the flush; at the COMMIT nothing is left to flush, so the group that it writes balances, and a group loses a line only to a COMMIT that takes that line over. |
| `AccountPlanProofs` | `TypeCorrect`, `Hierarchy`, `OptimisticLock`, `Loaded`, `Kept`, `NoLoadDeadlock` | `IInv`, one conjunct per concern. `Placed`: the parent of an account that is not committed yet is committed or the request's own, and no leaf once the request has committed (`Opened`). `Holds`: between the UPDATE of a PATCH and its COMMIT the row has the version that was read. `Staged` and `Knows`: what a load has not left to insert is committed or its own. `Apart`: no two requests hold one row. For `Kept`, `SInv`: a row that is marked is the parent of one the same request inserted or is about to insert (`Sheltered`). For `NoLoadDeadlock`, `LInv`: a load has passed some definitions of its list, knows all of them, has inserted and marked rows of these only, and will not write the flag of a parent under which it has inserted again (`Settled`). Of two loads of one list the one behind has inserted nothing, so at most one has; and the one that it would wait for waits for nobody (`AheadSettled`). |
| `SessionsProofs` | `TypeCorrect`, `Rotation`, `Revocation`, `NamedColumns`, `LastAdmin`, `Refinement`; `AuditOnlyWatches`, `AuditTypeCorrect`, `Truthful`, `Complete`, `OneLineEach` | `Base`: types, and what each request has at each statement. `Tok`: of a login, at most one token is in Redis or in a renewal's hands, and no login is yet to come. `Fresh`: every JWT, in any hands, has a role its user held at most `AccessTTL` before it expires. `Led`: until the first account is there, nothing is granted. The refinement follows action by action from these. Every step of `AuditTrail` is one of `Sessions`, so these hold under it too. `Witnessed`: who is answered 2xx and presented a JWT has changed the database, and so has whoever a line names. `Numbered`: requests, mutations and lines are matched one to one, which is what keeps a task that runs late from telling of another request. |
| `ReportProofs` | `TrialBalance`, `IncomeStatement`, `CashFlows`, `Ratios`, `PositionsFit`, `EventsTold`, `Statements` | The reports are sums over sets of lines: the module begins with a theory of them (below). `BooksInv`: the lines of every entry are well-typed, balance and are on opened accounts, and books are finite. From it the lines of any period net to nothing, and a statement is out by what its selection of accounts leaves out; each theorem splits the opened accounts by selection, window by window. `EventsInv`: an entry that names an event has the lines of its rule and is alone to name it; so what is booked by events is, on any set of accounts, a sum over events, which `AccountingRules` decides rule by rule. `NumbersInv`: no two entries of a journal have one number, so that `ORDER BY entry_date, entry_number, line_number` is a strict total order, and a ledger lists each line of its account once (`SortedLists`, by counting the lines before each); the first page of 500 is then all of them, and the pages of one are a partition of them. |

*Sums.* `MapThenSumSet` of the community modules folds over a set in an order that `CHOOSE` picks, and the
provers cannot instantiate the induction theorems of the library, which take an operator. `ReportProofs` therefore does
induction over a *set* of counterexamples, which has a minimal member (`WFMin` in `SubsetInduction` and `SetInduction`), and
proves what it needs of sums from their definition: a function that satisfies the recursive equation of the fold exists, and
any two agree (`PartExists`, `FoldsAgree`); then the sum of a union, of a difference, of equal or zero weights, and of
a set split into groups (`SumInsert`, `SumSplit`, `SumMinus`, `SumSame`, `SumGroups`). `LetteringProofs` has its own copy of
the first of these.

Only model-checked: the liveness properties (`RequestsEnd`, `EverythingSettled`), as the
prover has no ENABLED.

## Where the code departs from its documentation

Three runs check what a comment or a document says and find it violated:

* **`double_reversal`** — `reverse_entry` looks for earlier reversals of its entry, then
  inserts: two requests both find none.
* **`reversal_cancels`** — the original becomes `REVERSED` and is no longer counted, its mirror
  is `POSTED` and is: a reversal leaves the opposite of the entry.
* **`bilan_as_of`** — drafts, reversed and later entries count in the balance sheet.

The models exhibit more, which no run of its own shows:

* an event that was booked, but whose offset was not committed, is tried again: `create_entry`
  returns the entry and `post_entry` refuses a posted one, three times; it ends in the DLQ.
  `kafka_consumer.py:226` promises to ignore it silently;
* a `post_entry` that read a draft overwrites the status of an entry that was posted and
  reversed meanwhile (it is `POSTED` again beside its mirror);
* an entry commits into a period that was closed after the request had read it;
* fiscal years may overlap, and a date then has two open periods: `scalar_one_or_none`
  raises on every operation of that date;
* a year whose first or last month would have a single day is refused by
  `ck_period_dates`;
* a lettering group may be unbalanced by a race;
* `ENTRY_POSTED` may announce an entry whose transaction then rolls back;
* a report computed before a change and stored after its invalidation stays until it expires,
  as do the reports after a reversal, and those that the map does not name.
* the balance sheet has no section for stocks among the assets, capital among the assets or fixed assets among the
  liabilities: what is booked there is in no section;
* PATCH `is_active = false` on oneself passes by the check of `users.py:103`, and two administrators
  can deactivate each other: no administrator is left, and `seed_admin` inserts one into an empty table only;
* deactivation and a change of role do not revoke JWTs, which last until they expire; refresh
  tokens are refused at their next renewal only;
* `audit.py:2` records all mutations ("enregistre toutes les mutations"): a record is lost with its task or its transaction, an
  exception passes the middleware without one, an expired JWT leaves it without
  an author, and `username`, which no JWT has, is always NULL;
* an import of a file adds no account: `api/v1/accounts.py:521` gives the *name* of a class where
  `AccountClass` wants its value, and every row is reported as invalid. The docstring says "Importe des comptes depuis
  un fichier CSV ou PDF" (line 462) and "Les chiffres 1-9 sont aussi acceptés" (line 474), lines 443-444
  give the names as valid values, and `accounting_service/README.md:52` lists the operation. `Import` models the code as it is;
  the first file shows it, so no run is made for it.
  `validate_code_class` (`schemas/accounting.py:119-123`) never refuses;
* template PCIMF lacks the accounts 251100, 411100, 663100 and 701900 of the rules: with it alone only
  the deposits to and withdrawals from savings can be booked, with PCEC alone no event; the plan of
  the seed script has all. A PCEC loaded over the seed leaves codes with the meaning of the other plan;
* loads of two different plans can deadlock;
* `letter_lines` accepts lines of different accounts.

## What is not modelled

* *Parsing* of CSV and PDF files into rows: an import starts from a sequence of rows. The
  wording of errors.
* *Hashing* of passwords and *signatures*: taken as working; a wrong password or a forged token changes
  nothing.
* A *login* sent with a Bearer header: `audit.py:30-45` would name its bearer as the author; in the model
  nobody who logs in shows a token.
* *Reports*: the largest exposure (ratio R4) and third parties, which need a dimension that lines do not have in
  the models; the columns of the previous year, which are the same functions of other dates.
* The *DLQ monitor* and *telemetry* observe; *exporters* lay out documents; *rate limits* configure a library;
  *migrations* create the tables that the models declare; the *front end* calls the services; *deployment*
  is configuration, of which restarts and the number of replicas are used.
* Out of reach: the latency of queries, the size of numbers (`NUMERIC(20, 4)` is far from its
  limit), the internals of PostgreSQL, Kafka and Redis beyond what is stated above, and more than
  one process of the reporting service.
* Not composed: `Sessions` and the ledger in one model. What a request may do depends on its role only, which
  `Sessions` follows; what it then does is in the other modules.
