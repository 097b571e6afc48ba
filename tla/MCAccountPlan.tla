--------------------------- MODULE MCAccountPlan ---------------------------
(***************************************************************************)
(* AccountPlan with the templates of the service, cut down to a few codes. *)
(***************************************************************************)
EXTENDS AccountPlan, TLC

CONSTANTS r1, r2

P == INSTANCE PlanTemplates

\* The lists of the source are what a loader relies on.
ASSUME \A plan \in {P!PCIMF, P!PCEC, P!Seed} : P!WellFormed(plan)
ASSUME \A s, t \in DOMAIN P!Templates :
    P!CodesOf(P!Templates[s].accounts) = P!CodesOf(P!Templates[t].accounts) => s = t

\* The accounts of credits to members: PCIMF and the seed script put the group 25
\* under class 4.  PCEC has it among the deposits, under class 2.
MCCodes == {"2", "25", "251000", "4"}

Cut(plan, codes) == [accounts |-> SelectSeq(plan.accounts, LAMBDA d : d.code \in codes),
                     journals |-> plan.journals \cap Journals]

MCPlans == [pcimf |-> Cut(P!Templates.pcimf, MCCodes \ {"2"}),
            pcec  |-> Cut(P!Templates.pcec, MCCodes \ {"4"})]
MCSeed  == Cut(P!Plan(P!Seed, P!SeedJournals), MCCodes \ {"2"})

ASSUME \A plan \in {MCPlans.pcimf, MCPlans.pcec, MCSeed} : P!WellFormed(plan.accounts)

MCCreations == {P!Account("251000", "TIERS", "ACTIF", "25", TRUE),
                P!Account("25", "TIERS", "ACTIF", P!NoParent, TRUE)}

MCFiles == {<<P!Account("2", "2", "ACTIF", P!NoParent, TRUE),
              P!Account("25", "IMMOBILISE", "ACTIF", "2", TRUE)>>}

Symmetric == Permutations({r1, r2})
=============================================================================
