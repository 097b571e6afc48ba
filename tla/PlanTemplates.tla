--------------------------- MODULE PlanTemplates ---------------------------
(***************************************************************************)
(* The charts of accounts the service can be given: the templates PCIMF    *)
(* (microfinance), PCEC (banks) and CUSTOM of data/plan_templates.py and   *)
(* the SYSCOHADA plan of scripts/seed_chart_of_accounts.py.                *)
(*                                                                         *)
(* The three lists have the same shape, which the definitions keep: a head *)
(* of class (one digit), its groups (two digits), and the accounts of a    *)
(* group (six digits), each list in the order of the source.  A head or a  *)
(* group is no leaf, an account is one, and all of them have the class of  *)
(* the head.  Names, and the flag allow_manual_entry, are left out.        *)
(***************************************************************************)
EXTENDS Naturals, FiniteSets, Sequences, SequencesExt

Account(code, class, type, parent, leaf) ==
    [code |-> code, class |-> class, type |-> type, parent |-> parent, leaf |-> leaf]

\* account_nature of every definition of the three lists.
Nature(type) == IF type \in {"ACTIF", "CHARGE"} THEN "DEBITEUR" ELSE "CREDITEUR"

\* parent_code = None
NoParent == "none"

Group(code, type, leaves) == [code |-> code, type |-> type, leaves |-> leaves]

GroupAccounts(class, head, g) ==
    <<Account(g.code, class, g.type, head, FALSE)>> \o
    [i \in DOMAIN g.leaves |-> Account(g.leaves[i], class, g.type, g.code, TRUE)]

Section(head, class, type, groups) ==
    <<Account(head, class, type, NoParent, FALSE)>> \o
    FlattenSeq([i \in DOMAIN groups |-> GroupAccounts(class, head, groups[i])])

-----------------------------------------------------------------------------
(* PCIMF: microfinance institutions *)

\* CAPITAUX PROPRES
PCIMF_1 ==
    Section("1", "CAPITAL", "PASSIF", <<
      Group("10", "PASSIF", <<"101000", "102000", "103000">>),
      Group("11", "PASSIF", <<"110000", "111000">>),
      Group("12", "PASSIF", <<"120000">>),
      Group("13", "PASSIF", <<"130000", "131000">>)>>)

\* ACTIFS IMMOBILISÉS
PCIMF_2 ==
    Section("2", "IMMOBILISE", "ACTIF", <<
      Group("21", "ACTIF", <<"211000", "212000", "213000", "218000">>),
      Group("22", "ACTIF", <<"221000">>)>>)

\* OPÉRATIONS INTERBANCAIRES
PCIMF_3 ==
    Section("3", "STOCK", "ACTIF", <<
      Group("31", "ACTIF", <<"311000">>),
      Group("32", "PASSIF", <<"321000">>)>>)

\* OPÉRATIONS MEMBRES / CLIENTÈLE
PCIMF_4 ==
    Section("4", "TIERS", "ACTIF", <<
      Group("25", "ACTIF", <<"251000", "252000", "253000", "254000", "257000", "258000">>),
      Group("37", "PASSIF", <<"371000", "371100", "372000", "373000", "374000">>),
      Group("41", "ACTIF", <<"411000", "412000">>),
      Group("43", "PASSIF", <<"431000">>),
      Group("44", "PASSIF", <<"441000", "442000">>)>>)

\* TRÉSORERIE
PCIMF_5 ==
    Section("5", "TRESORERIE", "ACTIF", <<
      Group("57", "ACTIF", <<"571000", "571100", "572000">>),
      Group("52", "ACTIF", <<"521000", "522000">>)>>)

\* CHARGES
PCIMF_6 ==
    Section("6", "CHARGES", "CHARGE", <<
      Group("61", "CHARGE", <<"611000", "612000">>),
      Group("63", "CHARGE", <<"631000", "632000", "633000">>),
      Group("66", "CHARGE", <<"663000", "664000">>),
      Group("69", "CHARGE", <<"694000", "694100">>)>>)

\* PRODUITS
PCIMF_7 ==
    Section("7", "PRODUITS", "PRODUIT", <<
      Group("70", "PRODUIT", <<"701000", "701100", "702000", "703000">>),
      Group("74", "PRODUIT", <<"740000">>),
      Group("78", "PRODUIT", <<"781000">>)>>)

PCIMF == PCIMF_1 \o PCIMF_2 \o PCIMF_3 \o PCIMF_4 \o PCIMF_5 \o PCIMF_6 \o PCIMF_7

-----------------------------------------------------------------------------
(* PCEC: banks *)

\* TRÉSORERIE ET INTERBANCAIRE
PCEC_1 ==
    Section("1", "CAPITAL", "ACTIF", <<
      Group("11", "ACTIF", <<"110000", "110100">>),
      Group("12", "ACTIF", <<"121000", "122000">>),
      Group("13", "ACTIF", <<"131000", "132000">>),
      Group("14", "PASSIF", <<"141000", "142000">>),
      Group("15", "PASSIF", <<"151000">>)>>)

\* OPÉRATIONS CLIENTÈLE
PCEC_2 ==
    Section("2", "IMMOBILISE", "ACTIF", <<
      Group("21", "ACTIF", <<"211000", "212000", "213000">>),
      Group("22", "ACTIF", <<"221000", "222000">>),
      Group("23", "ACTIF", <<"231000">>),
      Group("24", "ACTIF", <<"241000", "242000">>),
      Group("25", "PASSIF", <<"251000", "252000", "253000", "254000">>)>>)

\* OPÉRATIONS SUR TITRES
PCEC_3 ==
    Section("3", "STOCK", "ACTIF", <<
      Group("31", "ACTIF", <<"311000", "312000">>),
      Group("32", "ACTIF", <<"321000">>),
      Group("33", "ACTIF", <<"331000", "332000">>)>>)

\* VALEURS IMMOBILISÉES
PCEC_4 ==
    Section("4", "TIERS", "ACTIF", <<
      Group("41", "ACTIF", <<"411000", "412000">>),
      Group("42", "ACTIF", <<"421000", "422000">>),
      Group("43", "ACTIF", <<"431000">>),
      Group("44", "ACTIF", <<"441000">>),
      Group("45", "PASSIF", <<"451000", "452000", "453000">>)>>)

\* FONDS PROPRES ET PROVISIONS
PCEC_5 ==
    Section("5", "TRESORERIE", "PASSIF", <<
      Group("51", "PASSIF", <<"511000", "512000", "513000", "514000", "515000">>),
      Group("52", "PASSIF", <<"521000", "522000">>),
      Group("53", "PASSIF", <<"531000">>)>>)

\* CHARGES
PCEC_6 ==
    Section("6", "CHARGES", "CHARGE", <<
      Group("61", "CHARGE", <<"611000", "612000", "613000">>),
      Group("62", "CHARGE", <<"621000">>),
      Group("63", "CHARGE", <<"631000", "632000">>),
      Group("64", "CHARGE", <<"641000", "642000">>),
      Group("67", "CHARGE", <<"671000">>),
      Group("68", "CHARGE", <<"681000">>)>>)

\* PRODUITS
PCEC_7 ==
    Section("7", "PRODUITS", "PRODUIT", <<
      Group("71", "PRODUIT", <<"711000", "712000", "713000", "714000">>),
      Group("72", "PRODUIT", <<"721000", "722000", "723000">>),
      Group("73", "PRODUIT", <<"731000">>),
      Group("78", "PRODUIT", <<"781000">>)>>)

PCEC == PCEC_1 \o PCEC_2 \o PCEC_3 \o PCEC_4 \o PCEC_5 \o PCEC_6 \o PCEC_7

-----------------------------------------------------------------------------
(* The plan of the seed script *)

\* CAPITAUX
Seed_1 ==
    Section("1", "CAPITAL", "PASSIF", <<
      Group("10", "PASSIF", <<"101000", "106000">>),
      Group("12", "PASSIF", <<"120000">>)>>)

\* ACTIFS IMMOBILISÉS
Seed_2 ==
    Section("2", "IMMOBILISE", "ACTIF", <<
      Group("21", "ACTIF", <<"211000", "213000", "218000">>)>>)

\* OPÉRATIONS INTERBANCAIRES
Seed_3 ==
    Section("3", "STOCK", "ACTIF", <<
      Group("31", "ACTIF", <<"311000">>)>>)

\* OPÉRATIONS AVEC LA CLIENTÈLE
Seed_4 ==
    Section("4", "TIERS", "ACTIF", <<
      Group("25", "ACTIF", <<"251000", "251100", "252000", "253000", "257000", "258000">>),
      Group("37", "PASSIF", <<"371000", "371100", "372000", "375000">>),
      Group("41", "ACTIF", <<"411000", "411100">>)>>)

\* TRÉSORERIE
Seed_5 ==
    Section("5", "TRESORERIE", "ACTIF", <<
      Group("57", "ACTIF", <<"571000", "571100", "572000">>),
      Group("52", "ACTIF", <<"521000">>)>>)

\* CHARGES
Seed_6 ==
    Section("6", "CHARGES", "CHARGE", <<
      Group("66", "CHARGE", <<"663000", "663100", "663200">>),
      Group("69", "CHARGE", <<"694000", "694100">>)>>)

\* PRODUITS
Seed_7 ==
    Section("7", "PRODUITS", "PRODUIT", <<
      Group("70", "PRODUIT", <<"701000", "701100", "701200", "701900">>),
      Group("78", "PRODUIT", <<"781000">>)>>)

Seed == Seed_1 \o Seed_2 \o Seed_3 \o Seed_4 \o Seed_5 \o Seed_6 \o Seed_7

-----------------------------------------------------------------------------
(* Journals, and the registry of templates *)

CommonJournals == {"GJ", "OD", "AN", "EX"}
PCIMFJournals  == CommonJournals \cup {"CJ", "BJ", "CR", "EP"}
PCECJournals   == CommonJournals \cup {"CJ", "BJ", "IB", "TR", "CR", "LC", "FX"}
SeedJournals   == {"GJ", "CJ", "BJ", "OD", "AN", "EX", "CR", "EP"}

Plan(accounts, journals) == [accounts |-> accounts, journals |-> journals]

Templates == [pcimf  |-> Plan(PCIMF, PCIMFJournals),
              pcec   |-> Plan(PCEC, PCECJournals),
              custom |-> Plan(<< >>, CommonJournals)]

-----------------------------------------------------------------------------
(* What a loader relies on *)

CodesOf(plan) == {plan[i].code : i \in DOMAIN plan}

\* No code twice, and a parent stands before its children.
WellFormed(plan) ==
    /\ Cardinality(CodesOf(plan)) = Len(plan)
    /\ \A i \in DOMAIN plan : plan[i].parent # NoParent =>
          \E k \in 1..(i - 1) : plan[k].code = plan[i].parent /\ ~plan[k].leaf
=============================================================================
