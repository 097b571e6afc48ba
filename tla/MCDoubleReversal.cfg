SPECIFICATION Spec
CONSTANTS
    Requests = {r1, r2}
    Users = {r1, r2}
    EntryIds = {e1, e2, e3}
    Journals = {OD, EX}
    EX = EX
    OD = OD
    Periods = {p1}
    Years = {y1}
    YearOf <- OneYear
    Accounts = {cash, loans, closedAcct}
    Usable = {cash, loans}
    Bodies <- MCBodies
    Events = {ev1}
    Posting <- MCPosting
    Delivery = {FALSE}
    NoRow = NoRow
    NoEntry = NoEntry
    NoEvent = NoEvent
    NoPeriod = NoPeriod
    NoYear = NoYear
    NoUser = NoUser
    cash = cash
    loans = loans
    closedAcct = closedAcct
    ev1 = ev1
    p1 = p1
    p2 = p2
    y1 = y1
SYMMETRY Symmetric
INVARIANT AtMostOneReversal
