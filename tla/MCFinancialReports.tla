------------------------- MODULE MCFinancialReports -------------------------
(***************************************************************************)
(* The seed's plan, cut down to an account or two of every kind, and       *)
(* account 740000 of the template PCIMF, which the income statement does   *)
(* not know.                                                               *)
(***************************************************************************)
EXTENDS ReportProperties, TLC

CONSTANTS lent, repaid, saved, credited, lost, y1

P == INSTANCE PlanTemplates

Capital == "101000"
Interbank == "311000"
Grant == "740000"
Extra == "251200"    \* created by a client
MCTemplate == {"571100", "251100", "371100", "701100", "701900", "663100", "694100",
               Capital, Interbank, Grant}
MCAccounts == MCTemplate \cup {Extra}

MCClass == "571100" :> "TRESORERIE" @@ "251100" :> "TIERS" @@ "371100" :> "TIERS"
             @@ "701100" :> "PRODUITS" @@ "701900" :> "PRODUITS" @@ "663100" :> "CHARGES"
             @@ "694100" :> "CHARGES" @@ Capital :> "CAPITAL" @@ Interbank :> "STOCK"
             @@ Grant :> "PRODUITS" @@ Extra :> "TIERS"
MCType == "571100" :> "ACTIF" @@ "251100" :> "ACTIF" @@ "371100" :> "PASSIF"
            @@ "701100" :> "PRODUIT" @@ "701900" :> "PRODUIT" @@ "663100" :> "CHARGE"
            @@ "694100" :> "CHARGE" @@ Capital :> "PASSIF" @@ Interbank :> "ACTIF"
            @@ Grant :> "PRODUIT" @@ Extra :> "ACTIF"
MCNature == [a \in MCAccounts |->
    IF MCType[a] \in {"ACTIF", "CHARGE"} THEN "DEBITEUR" ELSE "CREDITEUR"]

\* As the plans have them.
ASSUME \A a \in MCTemplate :
    \E d \in Range(P!Seed) \cup Range(P!PCIMF) :
        /\ d.code = a /\ d.class = MCClass[a] /\ d.type = MCType[a]
        /\ P!Nature(d.type) = MCNature[a]

MCPrefixes == "571100" :> {"57"} @@ "251100" :> {"25", "251"} @@ "371100" :> {"37", "371"}
                @@ "701100" :> {"701"} @@ "701900" :> {"701"} @@ "663100" :> {"663"}
                @@ "694100" :> {"694"} @@ Capital :> {"10"} @@ Extra :> {"25", "251"}
                @@ Interbank :> {} @@ Grant :> {}

Of(type, source, date, amount, principal, interest, penalty) ==
    [type |-> type, source |-> source, date |-> date, amount |-> amount,
     principal |-> principal, interest |-> interest, penalty |-> penalty]
MCPayload ==
    lent :> Of("CREDIT_DISBURSED", "credit-service", 1, 2, 0, 0, 0)
 @@ repaid :> Of("CREDIT_REPAYMENT", "credit-service", 2, 0, 1, 1, 1)
 @@ saved :> Of("SAVINGS_DEPOSIT", "savings-service", 1, 2, 0, 0, 0)
 @@ credited :> Of("SAVINGS_INTEREST_CREDITED", "savings-service", 2, 1, 0, 0, 0)
 @@ lost :> Of("CREDIT_WRITEOFF", "credit-service", 1, 1, 0, 0, 0)
MCPosting == [ev \in Events |-> PostingOf(MCPayload[ev])]

\* By hand: capital is paid in; a loan is taken over with it, and a grant received.
ByHand == {Pair("571100", Capital, 3), Pair("251100", Capital, 1) \o Pair(Interbank, Grant, 1)}
MCBodies == ByHand \cup {MCPosting[ev].lines : ev \in Events}
MCSubmissions == [journal : {"OD"}, date : Periods, lines : ByHand]

MCOpenings == {<<Extra, "251100">>, <<Extra, "701100">>}
MCRank == "CR" :> 1 @@ "EP" :> 2 @@ "EX" :> 3 @@ "OD" :> 4
OneYear == [d \in Periods |-> y1]

Symmetric == Permutations(EntryIds)

=============================================================================
