-------------------------- MODULE FinancialReports --------------------------
(***************************************************************************)
(* The reports as functions of the books and of the chart: the SQL of      *)
(* reporting_service/app/repositories/reporting.py and what                *)
(* services/reporting.py makes of it, and the balances that the accounting *)
(* service computes itself.  Names, headings, third parties, percentages   *)
(* and the columns of the previous year are left out.                      *)
(***************************************************************************)
EXTENDS ChartOfAccounts

CONSTANTS
    ClassOf, TypeOf, NatureOf,   \* account_class, account_type, account_nature
    PrefixesOf,                  \* the prefixes of its code that reports filter on
    Rank,                        \* order of the journals' entry numbers
    Submissions,                 \* entries that clients submit
    Openings,                    \* <<account, parent>> that clients create (bound)
    Retirable                    \* accounts whose is_active changes (bound)

\* JournalEntryCreate.validate_double_entry
ASSUME SubmissionAssumption ==
    Submissions \subseteq [journal : Journals, date : Periods, lines : Bodies]

\* Entry numbers begin with the journal's code, which no two journals share.
ASSUME RankAssumption ==
    /\ IsFiniteSet(Journals) /\ Rank \in [Journals -> Nat]
    /\ \A j, k \in Journals : Rank[j] = Rank[k] => j = k

ASSUME OpeningAssumption == Openings \subseteq Accounts \X (Accounts \cup {NoAccount})

\* Of the prefixes that a statement adds up, none is a prefix of another.
ASSUME PrefixAssumption ==
    \A ps \in {{"701", "702", "706", "707", "781",
               "663", "60", "61", "62", "63", "64", "65", "694"},
              {"251", "371", "701", "663", "21", "10", "57", "52"}} :
        \A a \in Accounts, p, q \in ps : {p, q} \subseteq PrefixesOf[a] => p = q

ReportNext ==
    \/ \E e \in EntryIds :
         \/ \E x \in Submissions : RecordOnActive(e, x.journal, x.date, x.lines)
         \/ \E u \in Users :
              \/ Post(e, u)
              \/ \E ev \in Events : Ingest(e, ev, u)
              \/ \E m \in EntryIds, d \in Periods : ReverseOn(e, m, d, u)
    \/ \E o \in Openings : OpenAccount(o[1], o[2])
    \/ \E a \in Retirable :
         \/ \E today \in Periods : Deactivate(a, today)
         \/ \E active \in BOOLEAN : Patch(a, active)

reportVars == <<vars, chart>>
ReportSpec == ChartInit /\ [][ReportNext]_reportVars

-----------------------------------------------------------------------------
(* Selections *)

Leaves == {a \in Opened : chart[a].leaf}
Listed == {a \in Leaves : chart[a].active}

OfClass(c) == {a \in Opened : ClassOf[a] = c}
OfType(t) == {a \in Opened : TypeOf[a] = t}
OfPrefix(p) == {a \in Opened : p \in PrefixesOf[a]}

Net(ls) == Debits(ls) - Credits(ls)
Positive(n) == IF n > 0 THEN n ELSE 0

\* entry_date < :start_date
Before(s) == {l \in PostedLines : DateOf(l) < s}

-----------------------------------------------------------------------------
(* Trial balance *)

\* Mutant: accounts that did not move in the period are left out.
get_moved_accounts(s, d) ==
    LET own(a) == On({a}, Within(s, d))
    IN  [a \in {b \in Listed : own(b) # {}} |->
            [opening_debit |-> Debits(On({a}, Before(s))),
             opening_credit |-> Credits(On({a}, Before(s))),
             period_debit |-> Debits(own(a)), period_credit |-> Credits(own(a))]]

get_trial_balance(s, d) ==
    LET opening == Before(s)
        moved == Within(s, d)
        row == [a \in Listed |->
                  [opening_debit |-> Debits(On({a}, opening)),
                   opening_credit |-> Credits(On({a}, opening)),
                   period_debit |-> Debits(On({a}, moved)),
                   period_credit |-> Credits(On({a}, moved))]]
        zero == [opening_debit |-> 0, opening_credit |-> 0,
                 period_debit |-> 0, period_credit |-> 0]
    IN  Restrict(row, {a \in Listed : row[a] # zero})

Cumulative(row) == row.opening_debit + row.period_debit
                     - row.opening_credit - row.period_credit

trial_balance(s, d) ==
    LET rows == get_trial_balance(s, d)
        total(f) == MapThenSumSet(LAMBDA a : rows[a][f], DOMAIN rows)
    IN  [opening_debit |-> total("opening_debit"),
         opening_credit |-> total("opening_credit"),
         period_debit |-> total("period_debit"),
         period_credit |-> total("period_credit"),
         closing_debit |->
            MapThenSumSet(LAMBDA a : Positive(Cumulative(rows[a])), DOMAIN rows),
         closing_credit |->
            MapThenSumSet(LAMBDA a : Positive(-Cumulative(rows[a])), DOMAIN rows)]

\* The accounting service's own: all leaves, the period alone.
PeriodBalance(s, d) ==
    LET own(a) == On({a}, Within(s, d))
    IN  [a \in {b \in Leaves : own(b) # {}} |->
            [debit |-> Debits(own(a)), credit |-> Credits(own(a))]]

-----------------------------------------------------------------------------
(* General ledger of an account, in pages of "size" movements *)

Signed(a, debit, credit) ==
    IF NatureOf[a] = "DEBITEUR" THEN debit - credit ELSE credit - debit

\* ORDER BY entry_date, entry_number, line_number
Earlier(l, k) ==
    LET key(x) == <<DateOf(x), Rank[entries[x[1]].journal], entries[x[1]].seq, x[2]>>
    IN  \E i \in 1..4 : /\ key(l)[i] < key(k)[i]
                       /\ \A j \in 1..(i - 1) : key(l)[j] = key(k)[j]

\* Each line at the place that as many precede.
Sorted(ls) ==
    LET before(l) == {k \in ls : Earlier(k, l)}
    IN  [i \in 1..Cardinality(ls) |-> CHOOSE l \in ls : Cardinality(before(l)) = i - 1]

Slice(ls, m, n) == SubSeq(ls, m, IF n > Len(ls) THEN Len(ls) ELSE n)

\* OFFSET (page - 1) * size LIMIT size
PageOf(ls, page, size) == Slice(ls, (page - 1) * size + 1, page * size)

\* Every page starts from the balance before the first day: what the pages
\* before it hold is not carried over.
general_ledger(a, s, d, page, size) ==
    LET rows == PageOf(Sorted(On({a}, Within(s, d))), page, size)
        opening == Signed(a, Debits(On({a}, Before(s))), Credits(On({a}, Before(s))))
        upTo(n) == {rows[i] : i \in 1..n}
        balance(n) == opening + Signed(a, Debits(upTo(n)), Credits(upTo(n)))
    IN  [opening |-> opening,
         running |-> [i \in DOMAIN rows |-> balance(i)],
         total_debit |-> Debits(upTo(Len(rows))),
         total_credit |-> Credits(upTo(Len(rows))),
         closing |-> balance(Len(rows))]

\* Mutant: the last day is left out.
get_balance_before(a, s, d) ==
    Signed(a, Debits(On({a}, Within(s, d - 1))), Credits(On({a}, Within(s, d - 1))))

\* AccountService.get_balance
get_balance(a, s, d) ==
    Signed(a, Debits(On({a}, Within(s, d))), Credits(On({a}, Within(s, d))))

\* The accounting service's own, which starts from nothing.
running_balance(a, s, d) ==
    LET rows == Sorted(On({a}, Within(s, d)))
        upTo(n) == {rows[i] : i \in 1..n}
    IN  [n \in DOMAIN rows |-> Signed(a, Debits(upTo(n)), Credits(upTo(n)))]

-----------------------------------------------------------------------------
(* Balance sheet *)

\* The status and the date are conditions of a LEFT JOIN: they remove no line
\* from the sum, so that neither drafts nor later entries are left out.
get_balance_by_account_class(d, class, type) ==
    Net(On(Listed \cap OfClass(class) \cap OfType(type), Lines))

\* Mutant: what is owed to third parties is forgotten.
bilan_without_creditors(d) ==
    LET section(class, type) == get_balance_by_account_class(d, class, type)
    IN  [total_actif |-> section("IMMOBILISE", "ACTIF") + section("TIERS", "ACTIF")
                           + section("TRESORERIE", "ACTIF"),
         total_passif |-> -section("CAPITAL", "PASSIF") - section("STOCK", "PASSIF")]

\* Of the treasury liabilities, each account counts when it is in credit.
bilan(d) ==
    LET section(class, type) == get_balance_by_account_class(d, class, type)
        overdrawn(a) == Positive(-Net(On({a}, Lines)))
        banks == Listed \cap OfClass("TRESORERIE") \cap OfType("PASSIF")
    IN  [total_actif |-> section("IMMOBILISE", "ACTIF") + section("TIERS", "ACTIF")
                           + section("TRESORERIE", "ACTIF"),
         total_passif |-> MapThenSumSet(overdrawn, banks) - section("CAPITAL", "PASSIF")
                            - section("STOCK", "PASSIF") - section("TIERS", "PASSIF")]

-----------------------------------------------------------------------------
(* Income *)

\* Mutant: the provisions are forgotten.
families_without_provisions ==
    [produits |-> {"701", "702", "706", "707", "781"},
     charges |-> {"663", "60", "61", "62", "63", "64", "65"}]

families == [produits |-> {"701", "702", "706", "707", "781"},
             charges |-> {"663", "60", "61", "62", "63", "64", "65", "694"}]

get_charges_produits(s, d) ==
    [a \in Leaves \cap (OfClass("CHARGES") \cup OfClass("PRODUITS")) |->
        Net(On({a}, Within(s, d)))]

Total(rows, as) == MapThenSumSet(LAMBDA a : rows[a], as \cap DOMAIN rows)

compte_de_resultat(s, d) ==
    LET rows == get_charges_produits(s, d)
        of(ps) == Total(rows, UNION {OfPrefix(p) : p \in ps})
        produits == -of(families.produits)
        charges == of(families.charges)
    IN  [total_produits |-> produits, total_charges |-> charges,
         produit_net_bancaire |-> -of({"701", "702"}) - of({"663"}),
         resultat_net |-> produits - charges]

\* The dashboard's result: of all accounts of the classes, leaves or not.
get_net_income(s, d) ==
    -Net(On(OfClass("CHARGES") \cup OfClass("PRODUITS"), Within(s, d)))

get_provisions(d) == Net(On(OfPrefix("694"), Until(d)))
get_interest_charges(s, d) == Debits(On(OfPrefix("663"), Within(s, d)))

-----------------------------------------------------------------------------
(* Positions *)

get_equity(d) == -Net(On(Leaves \cap OfClass("CAPITAL"), Until(d)))
get_total_assets(d) == Net(On(Leaves \cap OfType("ACTIF"), Until(d)))

Cash == Leaves \cap (OfPrefix("57") \cup OfPrefix("52"))

get_cash_balance(d) == Net(On(Cash, Until(d)))

\* Mutant: the first day is left out.
flows_after(s, d, p) == Net(On(Leaves \cap OfPrefix(p), Within(s + 1, d)))

get_cash_flows(s, d, p) == Net(On(Leaves \cap OfPrefix(p), Within(s, d)))

\* Some flows have the sign of their account, others the opposite; the opening
\* cash is that of the evening of the first day.
flux_tresorerie(s, d) ==
    [var_credits |-> get_cash_flows(s, d, "251"),
     var_depots |-> -get_cash_flows(s, d, "371"),
     int_percus |-> get_cash_flows(s, d, "701"),
     int_payes |-> -get_cash_flows(s, d, "663"),
     var_immo |-> -get_cash_flows(s, d, "21"),
     var_cap |-> get_cash_flows(s, d, "10"),
     tresorerie_ouverture |-> get_cash_balance(s),
     tresorerie_cloture |-> get_cash_balance(d)]

\* The same LEFT JOIN as the balance sheet's.
get_credit_portfolio(d) ==
    [a \in Leaves \cap OfPrefix("25") |-> Net(On({a}, Lines))]
get_deposits_by_type(d) ==
    [a \in Leaves \cap OfPrefix("37") |-> -Net(On({a}, Lines))]

Outstanding(d) ==
    LET rows == get_credit_portfolio(d)
    IN  MapThenSumSet(LAMBDA a : Positive(rows[a]), DOMAIN rows)

credit_portfolio(d) ==
    LET doubtful == Total(get_credit_portfolio(d), OfPrefix("2570") \cup OfPrefix("2580"))
    IN  [total_portefeuille |-> Outstanding(d),
         provisions_constituees |-> get_provisions(d),
         \* in halves: half of what is doubtful is to be covered
         deficit_provisionnement |-> Positive(doubtful - 2 * get_provisions(d))]

deposits(d, s, e) ==
    [total_depots |-> Total(get_deposits_by_type(d),
                            OfPrefix("371") \cup OfPrefix("372") \cup OfPrefix("375")),
     charges_interets_periode |-> get_interest_charges(s, e)]

-----------------------------------------------------------------------------
(* Journals *)

get_journal_centralizer(s, d) ==
    [j \in Journals |->
        LET own == {e \in Recorded : /\ entries[e].journal = j
                                     /\ entries[e].status = "POSTED"
                                     /\ entries[e].date \in s..d}
        IN  [nb_ecritures |-> Cardinality(own),
             total_debit |-> MapThenSumSet(LAMBDA e : TotalDebit(entries[e].lines), own),
             total_credit |-> MapThenSumSet(LAMBDA e : TotalCredit(entries[e].lines), own)]]

journal_centralizer(s, d) ==
    LET rows == get_journal_centralizer(s, d)
        total(f) == MapThenSumSet(LAMBDA j : rows[j][f], DOMAIN rows)
    IN  [total_ecritures |-> total("nb_ecritures"),
         grand_total_debit |-> total("total_debit"),
         grand_total_credit |-> total("total_credit")]

-----------------------------------------------------------------------------
(* Dashboard and prudential ratios *)

dashboard(start, d) ==
    LET banking == OfClass("PRODUITS") \cup (OfClass("CHARGES") \cap OfPrefix("663"))
    IN  [encours_credits |-> Outstanding(d),
         encours_epargne |-> Total(get_deposits_by_type(d), Accounts),
         tresorerie |-> get_cash_balance(d),
         produit_net_bancaire |-> -Total(get_charges_produits(start, d), banking),
         resultat_net |-> get_net_income(start, d)]

\* Mutant: the sign is lost.
pct_of_size(num, den) ==
    LET size(n) == IF n < 0 THEN -n ELSE n
    IN  IF den = 0 THEN 0 ELSE (20000 * size(num) + size(den)) \div (2 * size(den))

\* pct(): hundredths of a percent, rounded half away from zero; None, which
\* becomes 0, when the denominator is 0.
pct(num, den) ==
    LET size(n) == IF n < 0 THEN -n ELSE n
        rounded == (20000 * size(num) + size(den)) \div (2 * size(den))
    IN  CASE den = 0 -> 0
          [] den # 0 /\ (num < 0) = (den < 0) -> rounded
          [] OTHER -> -rounded

\* R4, the largest risk, needs the third parties of the lines.
bceao_report(d) ==
    LET funds == get_equity(d)
        short == Total(get_deposits_by_type(d), OfPrefix("371") \cup OfPrefix("372"))
        ratio(num, den, conforme(_)) ==
            [num |-> num, den |-> den, conforme |-> conforme(pct(num, den))]
    IN  [R1 |-> ratio(funds, get_total_assets(d), LAMBDA v : v >= 800),
         R2 |-> ratio(get_cash_balance(d), short, LAMBDA v : v >= 7500),
         R3 |-> ratio(Outstanding(d), funds + short, LAMBDA v : v <= 10000),
         R5 |-> ratio(funds, Outstanding(d), LAMBDA v : v >= 1000)]

=============================================================================
