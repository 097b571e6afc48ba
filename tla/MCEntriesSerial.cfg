SPECIFICATION Spec
CONSTANTS
    Requests = {r1}
    Users = {r1}
    EntryIds = {e1, e2, e3}
    Journals = {OD, EX}
    EX = EX
    OD = OD
    Periods = {p1, p2}
    Years = {y1}
    YearOf <- OneYear
    Accounts = {cash, loans, closedAcct}
    Usable = {cash, loans}
    Bodies <- MCBodies
    Events = {ev1}
    Posting <- MCPosting
    Delivery = {TRUE, FALSE}
    NoRow = NoRow
    NoEntry = NoEntry
    NoEvent = NoEvent
    NoPeriod = NoPeriod
    NoYear = NoYear
    NoUser = NoUser
    cash = cash
    loans = loans
    closedAcct = closedAcct
    ev1 = ev1
    p1 = p1
    p2 = p2
    y1 = y1
SYMMETRY SymmetricIds
PROPERTY PostedIsImmutable
PROPERTY NothingBookedInClosedPeriod
PROPERTY ImplementsBook
