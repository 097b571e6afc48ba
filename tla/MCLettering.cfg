SPECIFICATION Spec
CONSTANTS
    Requests = {r1, r2, r3}
    Lines = {1, 2, 3, 4}
    Debit <- MCDebit
    Credit <- MCCredit
    Codes = {A, B}
    NoCode = NoCode
INVARIANT SomeoneProceeds
PROPERTY BalancedUnlessOverwritten
