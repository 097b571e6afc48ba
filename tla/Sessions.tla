------------------------------ MODULE Sessions ------------------------------
(***************************************************************************)
(* Users, access tokens and refresh tokens of the accounting service:      *)
(* services/auth.py, api/v1/auth.py, api/v1/users.py, core/security.py and *)
(* the seed of the first administrator in main.py.                         *)
(*                                                                         *)
(* A request is one HTTP call.  What it does between two awaits is one     *)
(* step: SELECT of the user and signature of the JWT (nothing is awaited   *)
(* between them), GETDEL or SETEX in Redis, COMMIT, and the answer, which  *)
(* FastAPI sends after the COMMIT.  An optional value is a set of at most  *)
(* one element.                                                            *)
(***************************************************************************)
EXTENDS Naturals, FiniteSets

CONSTANTS
    Users,         \* usernames, unique in the table
    DefaultAdmin,  \* the username seed_admin inserts
    Requests,      \* concurrent requests
    InitialUsers,  \* tables the service may be started on
    Bodies,        \* bodies of PATCH /users/{id}
    NewRoles,      \* roles POST /users is called with
    AccessTTL,     \* JWT_EXPIRE_MINUTES
    RefreshTTL,    \* REFRESH_TOKEN_TTL
    MaxTime,       \* bound: the clock stops there
    MaxRequests    \* bound: HTTP requests begun

VARIABLES
    now,       \* the clock
    users,     \* committed rows of the table users
    redis,     \* keys refresh:<token> and their values
    issued,    \* refresh tokens stored so far: the next token is a new one
    known,     \* refresh tokens some client received
    access,    \* JWTs some client received and exp has not passed
    req,       \* the requests in flight
    begun,     \* how many HTTP requests have begun
    lastHeld   \* history: when a user was last active with a role, 0 if never

vars == <<now, users, redis, issued, known, access, req, begun, lastHeld>>

-----------------------------------------------------------------------------
(* Types *)

Roles == {"ADMIN", "ACCOUNTANT", "AUDITOR"}

AdminOnly   == {"ADMIN"}
WriteAccess == {"ADMIN", "ACCOUNTANT"}

Row   == [role : Roles, active : BOOLEAN]
NoRow == [role |-> "none", active |-> FALSE]

JWT == [sub : Users, role : Roles, exp : Nat]

Body == [role : SUBSET Roles, active : SUBSET BOOLEAN]

NoBody == [role |-> {}, active |-> {}]

RefreshToken == [id : Nat, user : Users, login : Nat, until : Nat]

\* op and pc: the operation and its next step; user: whom it is about; by: the
\* JWT it presented; new, token: the JWT and the refresh token it issues; login:
\* the login a renewal continues; seen: the row it loaded; ok: answered 2xx.
Request ==
    [op : {"none", "refused", "seed", "login", "refresh", "create", "patch", "delete", "write"},
     pc : {"idle", "read", "store", "commit", "answer"},
     user : SUBSET Users, by : SUBSET JWT, new : SUBSET JWT, token : SUBSET Nat,
     login : SUBSET Nat, seen : SUBSET Row, body : Body, ok : BOOLEAN]

Idle == [op |-> "none", pc |-> "idle", user |-> {}, by |-> {}, new |-> {}, token |-> {},
         login |-> {}, seen |-> {}, body |-> NoBody, ok |-> FALSE]

ASSUME UserAssumption == DefaultAdmin \in Users
ASSUME InitialAssumption == InitialUsers \subseteq [Users -> Row \cup {NoRow}]
\* A table that is not empty holds the administrator it was seeded with: no row is
\* deleted and no username changes.
ASSUME SeedAssumption ==
    \A us \in InitialUsers :
        us[DefaultAdmin] = NoRow => \A u \in Users : us[u] = NoRow
ASSUME BodyAssumption == Bodies \subseteq Body /\ NewRoles \subseteq Roles
ASSUME TimeAssumption == AccessTTL \in Nat /\ RefreshTTL \in Nat /\ MaxTime \in Nat
ASSUME BoundAssumption == MaxRequests \in Nat

\* Who holds which role at time t in the table us, and what was held before.
HeldAfter(us, t) ==
    [u \in Users |-> [role \in Roles |->
        IF us[u].active /\ us[u].role = role THEN t ELSE lastHeld[u][role]]]

JWTsAt(t) == [sub : Users, role : Roles, exp : {t + AccessTTL}]

\* The service starts on an empty table, or again on one whose users have just
\* logged in: the key that signed their JWTs and the keys in Redis are still there.
Init ==
    /\ now = 1
    /\ req = [r \in Requests |-> Idle]
    /\ users \in InitialUsers
    /\ access = {j \in JWTsAt(now) : users[j.sub].active /\ users[j.sub].role = j.role}
    /\ redis = {[id |-> 1, user |-> u, login |-> 1, until |-> now + RefreshTTL] :
                   u \in {u \in {DefaultAdmin} : users[u].active}}
    /\ known = {t.id : t \in redis} /\ issued = Cardinality(redis)
    /\ begun = issued
    /\ lastHeld = [u \in Users |-> [role \in Roles |->
                      IF users[u].active /\ users[u].role = role THEN now ELSE 0]]

-----------------------------------------------------------------------------
(* Steps of a request *)

Start(r, q) ==
    /\ req[r] = Idle /\ begun < MaxRequests
    /\ req' = [req EXCEPT ![r] = q]
    /\ begun' = begun + 1

\* A 4xx answer: nothing is written, and j is the JWT that was presented.
Refused(j) == [Idle EXCEPT !.op = "refused", !.pc = "answer", !.by = j]

\* create_access_token: the role is the one in the row just read.
Issue(u) == {j \in JWTsAt(now) : j.sub = u /\ j.role = users[u].role}

\* POST /auth/login, with the right password.
Login(r, u) ==
    /\ Start(r, IF users[u].active
                THEN [Idle EXCEPT !.op = "login", !.pc = "store",
                                  !.user = {u}, !.new = Issue(u)]
                ELSE Refused({}))
    /\ UNCHANGED <<now, users, redis, issued, known, access>>

\* Mutant: the token is read here and deleted only when its successor is stored.
Refresh_GetThenDel(r, id) ==
    LET found == {t \in redis : t.id = id /\ now < t.until}
    IN  /\ id \in known
        /\ Start(r, IF found = {} THEN Refused({})
                    ELSE [Idle EXCEPT !.op = "refresh", !.pc = "read",
                                      !.user = {t.user : t \in found},
                                      !.login = {t.login : t \in found}])
        /\ UNCHANGED <<now, users, redis, issued, known, access>>

\* POST /auth/refresh: GETDEL finds the token, before Redis expired it, and
\* deletes it; whatever comes next, it is spent.
Refresh(r, id) ==
    LET found == {t \in redis : t.id = id /\ now < t.until}
    IN  /\ id \in known
        /\ redis' = redis \ found
        /\ Start(r, IF found = {} THEN Refused({})
                    ELSE [Idle EXCEPT !.op = "refresh", !.pc = "read",
                                      !.user = {t.user : t \in found},
                                      !.login = {t.login : t \in found}])
        /\ UNCHANGED <<now, users, issued, known, access>>

\* Mutant: a renewal does not look at is_active.
ReadUser_Unchecked(r) ==
    /\ req[r].pc = "read"
    /\ \E u \in req[r].user :
          req' = [req EXCEPT ![r].pc = "store", ![r].new = Issue(u)]
    /\ UNCHANGED <<now, users, redis, issued, known, access, begun>>

\* The renewal reads the user; a user who is no longer active gets nothing.
ReadUser(r) ==
    /\ req[r].pc = "read"
    /\ \E u \in req[r].user :
          req' = [req EXCEPT ![r] =
                     IF users[u].active THEN [@ EXCEPT !.pc = "store", !.new = Issue(u)]
                                        ELSE Refused({})]
    /\ UNCHANGED <<now, users, redis, issued, known, access, begun>>

\* create_refresh_token: SETEX of a new token, for a login or a renewal.
Store(r) ==
    /\ req[r].pc = "store"
    /\ issued' = issued + 1
    /\ \E u \in req[r].user :
          redis' = redis \cup
             {[id |-> issued', user |-> u, until |-> now + RefreshTTL,
               login |-> IF req[r].login = {} THEN issued'
                         ELSE CHOOSE l \in req[r].login : TRUE]}
    /\ req' = [req EXCEPT ![r].pc = "answer", ![r].token = {issued'}, ![r].ok = TRUE]
    /\ UNCHANGED <<now, users, known, access, begun>>

-----------------------------------------------------------------------------
(* Requests that present a JWT *)

\* require_roles: the token carries an allowed role.  Nothing is read from the
\* table: the row of the caller may have changed.
Admitted(j, roles) == j.role \in roles

\* get_current_principal: no token, one that does not decode or past its exp.
Unauthenticated(r) ==
    /\ Start(r, Refused({}))
    /\ UNCHANGED <<now, users, redis, issued, known, access>>

Demand(o, j, u, b) == [Idle EXCEPT !.op = o, !.pc = "commit", !.by = {j}, !.user = {u},
                                   !.seen = {users[u]} \ {NoRow}, !.body = b]

\* POST /users: the name must be free when it is looked up.
CreateUser(r, u, role, j) ==
    /\ Start(r, IF Admitted(j, AdminOnly) /\ users[u] = NoRow
                THEN Demand("create", j, u, [role |-> {role}, active |-> {TRUE}])
                ELSE Refused({j}))
    /\ UNCHANGED <<now, users, redis, issued, known, access>>

\* PATCH /users/{id}
UpdateUser(r, u, b, j) ==
    /\ Start(r, IF Admitted(j, AdminOnly) /\ users[u] # NoRow
                THEN Demand("patch", j, u, b) ELSE Refused({j}))
    /\ UNCHANGED <<now, users, redis, issued, known, access>>

\* Mutant: an administrator may delete herself.
DeactivateUser_Self(r, u, j) ==
    /\ Start(r, IF Admitted(j, AdminOnly) /\ users[u] # NoRow
                THEN Demand("delete", j, u, [role |-> {}, active |-> {FALSE}])
                ELSE Refused({j}))
    /\ UNCHANGED <<now, users, redis, issued, known, access>>

\* DELETE /users/{id}: never oneself, by this road.
DeactivateUser(r, u, j) ==
    /\ Start(r, IF Admitted(j, AdminOnly) /\ u # j.sub /\ users[u] # NoRow
                THEN Demand("delete", j, u, [role |-> {}, active |-> {FALSE}])
                ELSE Refused({j}))
    /\ UNCHANGED <<now, users, redis, issued, known, access>>

\* Any other mutation of the API behind WriteAccess: posting an entry, closing a
\* year, opening an account.  What it writes is the subject of other modules.
Write(r, j) ==
    /\ Start(r, IF Admitted(j, WriteAccess)
                THEN [Idle EXCEPT !.op = "write", !.pc = "commit", !.by = {j}]
                ELSE Refused({j}))
    /\ UNCHANGED <<now, users, redis, issued, known, access>>

\* seed_admin, when a replica starts: only if the table is seen empty.
Seed(r) ==
    /\ \A u \in Users : users[u] = NoRow
    /\ req[r] = Idle
    /\ req' = [req EXCEPT ![r] =
          [Idle EXCEPT !.op = "seed", !.pc = "commit", !.user = {DefaultAdmin},
                       !.body = [role |-> {"ADMIN"}, active |-> {TRUE}]]]
    /\ UNCHANGED <<now, users, redis, issued, known, access, begun>>

-----------------------------------------------------------------------------
(* COMMIT *)

\* The UPDATE names the columns whose value differs from the one that was loaded.
Column(value, loaded, stored) ==
    IF value \subseteq loaded THEN stored ELSE CHOOSE v \in value : TRUE

\* Mutant: the whole loaded row is written back.
Updated_WholeRow(q, row) ==
    LET seen == CHOOSE s \in q.seen : TRUE
    IN  [role   |-> Column(q.body.role, {}, seen.role),
         active |-> Column(q.body.active, {}, seen.active)]

\* Mutant: what the body leaves out is stored as NULL.
Updated_Null(q, row) ==
    [role   |-> IF q.body.role = {} THEN "none" ELSE Column(q.body.role, {}, row.role),
     active |-> Column(q.body.active, {s.active : s \in q.seen}, row.active)]

\* What the UPDATE (or the INSERT) of request q makes of the row.
Updated(q, row) ==
    [role   |-> Column(q.body.role, {s.role : s \in q.seen}, row.role),
     active |-> Column(q.body.active, {s.active : s \in q.seen}, row.active)]

\* The unique constraint on users.username, at the INSERT.
Collides(q) == q.op \in {"create", "seed"} /\ \E u \in q.user : users[u] # NoRow

\* A seed answers nobody.  An IntegrityError ends the request with a 500, or the
\* replica that was starting.
Commit(r) ==
    LET q == req[r]
    IN  /\ q.pc = "commit"
        /\ users' = IF Collides(q) THEN users
                    ELSE [u \in Users |-> IF u \in q.user THEN Updated(q, users[u])
                                          ELSE users[u]]
        /\ req' = [req EXCEPT ![r] = IF Collides(q) \/ q.op = "seed" THEN Idle
                                     ELSE [@ EXCEPT !.pc = "answer", !.ok = TRUE]]
        /\ UNCHANGED <<now, redis, issued, known, access, begun>>

\* The client receives the answer, and with it what was issued.
Answer(r) ==
    /\ req[r].pc = "answer"
    /\ access' = access \cup {j \in req[r].new : now <= j.exp}
    /\ known' = known \cup req[r].token
    /\ req' = [req EXCEPT ![r] = Idle]
    /\ UNCHANGED <<now, users, redis, issued, begun>>

\* The request ends without an answer: Redis or PostgreSQL fails, the process
\* stops, the client is gone.
Fail(r) ==
    /\ req[r].pc # "idle"
    /\ req' = [req EXCEPT ![r] = Idle]
    /\ UNCHANGED <<now, users, redis, issued, known, access, begun>>

\* Mutant: exp is not verified.
Tick_NoExpiry ==
    /\ now < MaxTime
    /\ now' = now + 1
    /\ UNCHANGED <<users, redis, issued, known, access, req, begun>>

\* From the second after its exp on, jwt.decode refuses a token.
Tick ==
    /\ now < MaxTime
    /\ now' = now + 1
    /\ access' = {j \in access : now' <= j.exp}
    /\ UNCHANGED <<users, redis, issued, known, req, begun>>

-----------------------------------------------------------------------------
Begin(r) ==
    \/ Unauthenticated(r)
    \/ \E u \in Users : Login(r, u)
    \/ \E id \in known : Refresh(r, id)
    \/ \E j \in access : Write(r, j)
    \/ \E j \in access, u \in Users : DeactivateUser(r, u, j)
    \/ \E j \in access, u \in Users, b \in Bodies : UpdateUser(r, u, b, j)
    \/ \E j \in access, u \in Users, role \in NewRoles : CreateUser(r, u, role, j)
    \/ Seed(r)

Continue(r) == ReadUser(r) \/ Store(r) \/ Commit(r)

\* The history follows every step.
Observe == lastHeld' = HeldAfter(users', now')

Next ==
    /\ \/ Tick
       \/ \E r \in Requests : Begin(r) \/ Continue(r) \/ Answer(r) \/ Fail(r)
    /\ Observe

Spec == Init /\ [][Next]_vars

-----------------------------------------------------------------------------
(* Properties *)

TypeOK ==
    /\ now \in Nat /\ issued \in Nat /\ begun \in Nat
    /\ users \in [Users -> Row \cup {NoRow}]
    /\ redis \subseteq RefreshToken
    /\ known \subseteq Nat
    /\ access \subseteq JWT
    /\ req \in [Requests -> Request]
    /\ lastHeld \in [Users -> [Roles -> Nat]]

\* The logins some renewal has taken from Redis and not yet given back.
Renewing(r) == IF req[r].pc \in {"read", "store"} THEN req[r].login ELSE {}

\* Rotation (services/auth.py, "Atomically invalidate old token"): of all the
\* refresh tokens that descend from one login at most one is usable, and none
\* while a renewal of that login is under way, whatever the interleaving of two
\* renewals that present the same token.
OneLivePerLogin ==
    /\ \A s, t \in redis : s.login = t.login => s = t
    /\ \A r \in Requests : \A t \in redis : t.login \notin Renewing(r)
    /\ \A r, p \in Requests : Renewing(r) \cap Renewing(p) # {} => r = p

\* The price of tokens that are not looked up (core/security.py): a client may
\* act with a role its user lost, but never later than AccessTTL after the loss,
\* renewals included.
BoundedRevocation ==
    \A j \in access : /\ lastHeld[j.sub][j.role] > 0
                      /\ now <= lastHeld[j.sub][j.role] + AccessTTL

IsAdmin(u) == users[u].active /\ users[u].role = "ADMIN"

Acts(r) == req[r].pc = "commit" /\ req'[r] # req[r]

\* "Impossible de se désactiver soi-même" (users.py): the last administrator
\* disappears only by a PATCH on oneself, which has no such check, or by a
\* request of someone who is no longer an administrator when it commits.
LastAdminStays ==
    [][(\E u \in Users : IsAdmin(u)) /\ ~(\E u \in Users : IsAdmin(u)')
          => \E r \in Requests :
                /\ Acts(r)
                /\ \/ req[r].op = "patch" /\ req[r].user = {j.sub : j \in req[r].by}
                   \/ \A j \in req[r].by : ~IsAdmin(j.sub)]_vars

\* Two requests may change one user at a time: a column changes only to the value
\* a PATCH or a DELETE named.  A deactivation is not undone by a concurrent
\* change of role, nor the other way round.
OnlyNamedColumns ==
    [][\A u \in Users : users[u] # NoRow =>
          /\ users'[u].role # users[u].role =>
                \E r \in Requests : Acts(r) /\ users'[u].role \in req[r].body.role
          /\ users'[u].active # users[u].active =>
                \E r \in Requests : Acts(r) /\ users'[u].active \in req[r].body.active]_vars

=============================================================================
