-------------------------- MODULE ReportProperties --------------------------
(* What the reports owe to the books and to one another. *)
EXTENDS FinancialReports, AccountingRules

CONSTANT Payload   \* the payload of each event

ASSUME PayloadAssumption ==
    /\ Posting = [ev \in Events |-> PostingOf(Payload[ev])]
    /\ \A ev \in Events :
          /\ Payload[ev].type \in RuledTypes
          /\ \A part \in {"amount", "principal", "interest", "penalty"} : Payload[ev][part] \in Int

\* The accounts of the rules have the prefixes of their codes, and of the two
\* classes of the income statement those that the plans give it.
ASSUME RuleAccountAssumption ==
    \A a \in Accounts \cap {"251100", "371100", "411100", "571100",
                           "663100", "694100", "701100", "701900"} :
        /\ "25" \in PrefixesOf[a] <=> a = "251100"
        /\ "37" \in PrefixesOf[a] <=> a = "371100"
        /\ ClassOf[a] \in {"CHARGES", "PRODUITS"}
              <=> a \in {"663100", "694100", "701100", "701900"}

\* A date of the database has a first value and a last one.
ASSUME DaysAssumption == IsFiniteSet(Periods) /\ Periods # {}

FirstDay == Min(Periods)
LastDay == Max(Periods)
Ranges == {r \in Periods \X Periods : r[1] <= r[2]}

\* "L'équilibre total_débit = total_crédit valide la partie double": whatever
\* becomes of the accounts under their entries, the trial balance is out of
\* balance by exactly what is booked on accounts it does not list (inactive, or
\* parents by now), in its opening, its period and its closing.
OutByUnlisted ==
    \A r \in Ranges :
        LET t == trial_balance(r[1], r[2])
            missing(ls) == -Net(On(Opened \ Listed, ls))
        IN  /\ t.opening_debit - t.opening_credit = missing(Before(r[1]))
            /\ t.period_debit - t.period_credit = missing(Within(r[1], r[2]))
            /\ t.closing_debit - t.closing_credit = missing(Until(r[2]))

\* The closing balance of a trial balance is the opening one of the next, and
\* no account is dropped on the way.
CarriedForward ==
    \A r \in Ranges : r[2] + 1 \in Periods =>
        LET before == get_trial_balance(r[1], r[2])
            after == get_trial_balance(r[2] + 1, r[2] + 1)
        IN  /\ DOMAIN before \subseteq DOMAIN after
            /\ \A a \in DOMAIN before :
                  Cumulative(before[a]) = after[a].opening_debit - after[a].opening_credit

\* The statements of an account agree across the two services: the ledger
\* closes at the trial balance, and moves by what AccountService.get_balance, the
\* accounting service's trial balance and its own ledger, movement by movement,
\* give for the same days.
LedgersAgree ==
    \A r \in Ranges :
        LET balance == get_trial_balance(r[1], r[2])
            other == PeriodBalance(r[1], r[2])
        IN  \A a \in Opened :
                LET ledger == general_ledger(a, r[1], r[2], 1, 500)
                IN  /\ a \in DOMAIN balance =>
                          ledger.closing = Signed(a, Cumulative(balance[a]), 0)
                    /\ ledger.closing - ledger.opening = get_balance(a, r[1], r[2])
                    /\ running_balance(a, r[1], r[2])
                         = [n \in DOMAIN ledger.running |-> ledger.running[n] - ledger.opening]
                    /\ a \in DOMAIN other =>
                          /\ ledger.total_debit = other[a].debit
                          /\ ledger.total_credit = other[a].credit

\* Read page by page, a ledger shows every movement of its account once.
PagesAddUp ==
    \A a \in Opened :
        LET page(n) == general_ledger(a, FirstDay, LastDay, n, 1)
            whole == general_ledger(a, FirstDay, LastDay, 1, 500)
            pages == 1..(Len(whole.running) + 1)
        IN  /\ MapThenSumSet(LAMBDA n : page(n).total_debit, pages) = whole.total_debit
            /\ MapThenSumSet(LAMBDA n : page(n).total_credit, pages) = whole.total_credit

\* "Permet de vérifier la cohérence globale avant clôture": every journal
\* balances, and together they move what the ledgers of all accounts move.
JournalsMatchLedgers ==
    \A r \in Ranges :
        LET rows == get_journal_centralizer(r[1], r[2])
            grand == journal_centralizer(r[1], r[2])
            ledger(a) == general_ledger(a, r[1], r[2], 1, 500)
        IN  /\ \A j \in Journals : rows[j].total_debit = rows[j].total_credit
            /\ grand.grand_total_debit
                 = MapThenSumSet(LAMBDA a : ledger(a).total_debit, Opened)

\* The movements of an account fit on one page of the size that the API asks for.
InOnePage == \A a \in Opened : Cardinality(On({a}, Lines)) <= 500

\* The statements about the accounts, taken by different queries of the two
\* services with bounds of their own, agree: one day's closing with the next day's
\* opening, ledgers with balances, pages with the whole, journals with ledgers.
StatementsAgree ==
    /\ CarriedForward
    /\ InOnePage => LedgersAgree /\ PagesAddUp /\ JournalsMatchLedgers

Results == OfClass("CHARGES") \cup OfClass("PRODUITS")

\* The accounts of the sections of the income statement.
Stated == Leaves \cap UNION {OfPrefix(p) :
              p \in {"701", "702", "706", "707", "781",
                    "663", "60", "61", "62", "63", "64", "65", "694"}}

\* The result of the income statement and that of the dashboard differ by what is
\* booked on income and expense accounts that are parents by now, or that have no
\* section in the statement (of the template PCIMF: 664, 703 and 740; of PCEC: all
\* income but 781).
IncomeAgrees ==
    \A r \in Ranges :
        compte_de_resultat(r[1], r[2]).resultat_net
          = get_net_income(r[1], r[2]) + Net(On(Results \ Stated, Within(r[1], r[2])))

\* Nothing is a draft nor reversed, and all is booked on listed accounts.
AllCounted == Lines = PostedLines /\ On(Opened \ Listed, Lines) = {}

\* The sections of the balance sheet, and the accounts they show: of the treasury
\* liabilities those that are not in debit.
Sections == {<<"IMMOBILISE", "ACTIF">>, <<"TIERS", "ACTIF">>, <<"TRESORERIE", "ACTIF">>,
             <<"CAPITAL", "PASSIF">>, <<"STOCK", "PASSIF">>, <<"TIERS", "PASSIF">>}
Shown ==
    {a \in Opened : \/ <<ClassOf[a], TypeOf[a]>> \in Sections
                    \/ /\ <<ClassOf[a], TypeOf[a]>> = <<"TRESORERIE", "PASSIF">>
                       /\ Net(On({a}, Lines)) <= 0}

\* The balance sheet is then out of balance by the result, which no section shows,
\* and by what is booked on the other accounts that no section shows (of PCIMF:
\* 311, between banks).
GapIsResult ==
    LET b == bilan(LastDay)
    IN  b.total_actif - b.total_passif
          = get_net_income(FirstDay, LastDay) - Net(On(Opened \ (Shown \cup Results), Lines))

\* What the dashboard and the ratios take for assets, equity, deposits and result.
Positions == <<OfType("ACTIF"), OfClass("CAPITAL"), OfPrefix("37"), Results>>
EachOnce == \A l \in Lines : Cardinality({i \in 1..4 : At(l).account \in Positions[i]}) = 1

\* In such books the positions that different queries take fit together: the
\* balance sheet lacks the result and what it does not show; assets are equity,
\* deposits and result, if every account counts as one of these; the deposits by
\* type lack the types that have no line; and the dashboard's income exceeds its
\* result by the charges other than interest.
PositionsAddUp ==
    AllCounted =>
       LET kpi == dashboard(FirstDay, LastDay)
           types == OfPrefix("371") \cup OfPrefix("372") \cup OfPrefix("375")
       IN  /\ GapIsResult
           /\ EachOnce => get_total_assets(LastDay)
                            = get_equity(LastDay) + kpi.encours_epargne + kpi.resultat_net
           /\ kpi.encours_epargne - deposits(LastDay, FirstDay, LastDay).total_depots
                = -Net(On(OfPrefix("37") \ types, Lines))
           /\ kpi.produit_net_bancaire - kpi.resultat_net
                = Net(On(OfClass("CHARGES") \ OfPrefix("663"), Lines))

\* "Flux de trésorerie classés en trois catégories": in the same books, the cash
\* at the two ends of the report is explained by its flows, once those that have
\* the wrong sign are turned round, what was already in the opening cash is taken
\* out, and the accounts that it has no line for are added.
FlowsExplainCash ==
    AllCounted => \A r \in Ranges :
       LET f == flux_tresorerie(r[1], r[2])
           named == UNION {OfPrefix(p) : p \in {"251", "371", "701", "663", "21", "10"}}
           unnamed == Net(On(Opened \ (named \cup Cash), Within(r[1], r[2])))
           inflow == f.var_depots + f.int_payes + f.var_immo
                       - f.var_credits - f.int_percus - f.var_cap
       IN  f.tresorerie_cloture - f.tresorerie_ouverture
             = inflow - unnamed - Net(On(Cash, Within(r[1], r[1])))

\* The entry of an event shows in the reports as what happened to the client: in
\* the same books, if nothing else was booked on loans, deposits or results, the
\* portfolio is what was lent and neither repaid nor written off, savings are
\* what was saved, and the result is interest and penalties less the interest on
\* savings and what was written off (credit_repayment books no negative part).
StatementsFollowEvents ==
    LET booked == {entries[e].event : e \in Recorded} \ {NoEvent}
        sum(type, part) == MapThenSumSet(LAMBDA ev : Positive(Payload[ev][part]),
                                         {ev \in booked : Payload[ev].type = type})
        byHand == {l \in Lines : entries[l[1]].event = NoEvent}
        fromEvents == On(OfPrefix("25") \cup OfPrefix("37") \cup Results, byHand) = {}
        kpi == dashboard(FirstDay, LastDay)
    IN  AllCounted /\ fromEvents =>
          /\ kpi.encours_credits = Positive(sum("CREDIT_DISBURSED", "amount")
                - sum("CREDIT_REPAYMENT", "principal") - sum("CREDIT_WRITEOFF", "amount"))
          /\ kpi.encours_epargne = sum("SAVINGS_DEPOSIT", "amount")
                - sum("SAVINGS_WITHDRAWAL", "amount")
                + sum("SAVINGS_INTEREST_CREDITED", "amount")
          /\ kpi.resultat_net = sum("CREDIT_REPAYMENT", "interest")
                + sum("CREDIT_REPAYMENT", "penalty")
                - sum("SAVINGS_INTEREST_CREDITED", "amount") - sum("CREDIT_WRITEOFF", "amount")

\* "Indique la conformité de chaque ratio": with a positive denominator, a ratio
\* is conforming exactly when its amounts meet the norm, to half a hundredth of
\* a percent.
RatiosFollowNorm ==
    \A d \in Periods :
        LET r == bceao_report(d)
            atLeast(x, norm) == 20000 * x.num + x.den >= 2 * norm * x.den
            atMost(x, norm) == 20000 * x.num - x.den < 2 * norm * x.den
        IN  /\ \A k \in {<<"R1", 800>>, <<"R2", 7500>>, <<"R5", 1000>>} :
                  r[k[1]].den > 0 => r[k[1]].conforme = atLeast(r[k[1]], k[2])
            /\ r["R3"].den > 0 => r["R3"].conforme = atMost(r["R3"], 10000)

-----------------------------------------------------------------------------
(* What the documentation says and the code does not *)

Brought(e, a) ==
    LET own == On({a}, {e} \X DOMAIN entries[e].lines)
    IN  Signed(a, Debits(own), Credits(own))

\* "Extourne : seule façon de corriger une écriture validée": a reversal takes
\* out of the balances what its entry brought, once.
ReversalCancels ==
    [][\A e, m \in EntryIds, d \in Periods, u \in Users :
          ReverseOn(e, m, d, u) => \A a \in Opened :
              get_balance(a, FirstDay, LastDay)'
                = get_balance(a, FirstDay, LastDay) - Brought(e, a)]_reportVars

\* "Soldes à une date donnée": the balances of the balance sheet are those of
\* what is posted on its date.
BilanAsOf ==
    \A d \in Periods, a \in Listed :
        get_balance_by_account_class(d, ClassOf[a], TypeOf[a])
          = Net(On(Listed \cap OfClass(ClassOf[a]) \cap OfType(TypeOf[a]), Until(d)))

=============================================================================
