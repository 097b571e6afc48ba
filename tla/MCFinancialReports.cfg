SPECIFICATION ReportSpec
CONSTANTS
    EntryIds = {e1, e2, e3}
    Journals = {"CR", "EP", "EX", "OD"}
    EX = "EX"
    Periods = {1, 2}
    Years = {y1}
    y1 = y1
    YearOf <- OneYear
    Accounts <- MCAccounts
    Usable <- MCAccounts
    Template <- MCTemplate
    Bodies <- MCBodies
    Submissions <- MCSubmissions
    Events = {lent, repaid, saved, credited, lost}
    lent = lent
    repaid = repaid
    saved = saved
    credited = credited
    lost = lost
    Payload <- MCPayload
    Posting <- MCPosting
    Users = {u1}
    NoRow = NoRow
    NoEntry = NoEntry
    NoEvent = NoEvent
    NoUser = NoUser
    NoAccount = NoAccount
    ClassOf <- MCClass
    TypeOf <- MCType
    NatureOf <- MCNature
    PrefixesOf <- MCPrefixes
    Rank <- MCRank
    Openings <- MCOpenings
    Retirable = {"371100"}
SYMMETRY Symmetric
INVARIANT OutByUnlisted
INVARIANT StatementsAgree
INVARIANT IncomeAgrees
INVARIANT PositionsAddUp
INVARIANT RatiosFollowNorm
INVARIANT FlowsExplainCash
INVARIANT StatementsFollowEvents
