SPECIFICATION AuditSpec
CONSTANTS
    admin = admin
    alice = alice
    r1 = r1
    r2 = r2
    Users = {admin, alice}
    DefaultAdmin = admin
    Requests = {r1, r2}
    InitialUsers <- MCInitialUsers
    Bodies <- MCBodies
    NewRoles = {"ACCOUNTANT"}
    AccessTTL = 1
    RefreshTTL = 2
    MaxTime = 3
    MaxRequests = 3
SYMMETRY Symmetric
INVARIANTS AuditTypeOK TrailTruthful CompleteWhenCalm OneLivePerLogin BoundedRevocation
PROPERTIES LastAdminStays OnlyNamedColumns ImplementsSessionLife
CHECK_DEADLOCK FALSE
