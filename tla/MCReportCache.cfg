SPECIFICATION Spec
CONSTANTS
    Requests = {r1, r2}
    Reports = {dashboard, bceao}
    TTL <- MCTTL
    Patterns <- MCPatterns
    MAX_RETRIES = 2
    MaxCompute = 1
    MaxTime = 3
    MaxChanges = 1
    MaxEvents = 1
    NoReport = NoReport
    dashboard = dashboard
    bceao = bceao
SYMMETRY Symmetric
INVARIANT BoundedStaleness
INVARIANT FreshOnceHandled
