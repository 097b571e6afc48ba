SPECIFICATION Spec
CONSTANTS
    r1 = r1
    r2 = r2
    Requests = {r1, r2}
    Codes <- MCCodes
    NoCode = "none"
    Plans <- MCPlans
    SeedPlan <- MCSeed
    Creations <- MCCreations
    Files <- MCFiles
    Journals = {"GJ", "IB"}
    MaxVersion = 2
SYMMETRY Symmetric
INVARIANTS TreeOK SamePlanNoDeadlock
PROPERTIES NoLostUpdate LoadComplete ExistingKept
