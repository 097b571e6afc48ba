SPECIFICATION Spec
CONSTANTS
    Requests = {r1, r2}
    Years = {y1, y2}
    LastDay = 8
    MonthEnd <- MCMonthEnd
    NoYear = NoYear
SYMMETRY Symmetric
INVARIANT PeriodsSplitYear
INVARIANT OneOpenPeriodPerYear
\* every name is taken and every year closed: no client has anything left to ask
CHECK_DEADLOCK FALSE
