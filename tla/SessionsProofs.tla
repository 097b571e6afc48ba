--------------------------- MODULE SessionsProofs ---------------------------
(***************************************************************************)
(* Sessions of the accounting service, for any number of users, requests,  *)
(* replicas and any times to live: rotation of refresh tokens, how long a  *)
(* lost role survives, who may change an account, and the refinement of    *)
(* SessionLife.  Then the audit trail around them: it only watches, so     *)
(* that all of this holds of the audited requests too, and its lines tell  *)
(* the truth.                                                              *)
(***************************************************************************)
EXTENDS SessionsRefinement, AuditTrail, FiniteSetTheorems, TLAPS

-----------------------------------------------------------------------------
(* Types of what the steps build *)

LEMMA Constants ==
    /\ AccessTTL \in Nat /\ RefreshTTL \in Nat /\ MaxTime \in Nat
    /\ DefaultAdmin \in Users
    /\ Bodies \subseteq Body /\ NewRoles \subseteq Roles
BY TimeAssumption, UserAssumption, BodyAssumption

LEMMA IdleType == Idle \in Request /\ NoBody \in Body /\ NoRow \notin Row
BY DEF Idle, Request, NoBody, Body, NoRow, Row, Roles

\* A request stands where its operation says.
Shaped(q) ==
    /\ q.pc = "idle" => q = Idle
    /\ q.pc # "answer" => q.token = {} /\ q.op # "refused"
    /\ q.pc \in {"read", "store"} =>
          /\ q.op \in {"login", "refresh"} /\ q.by = {}
          /\ \E u \in Users : q.user = {u}
          /\ q.login = {} \/ \E l \in Nat : q.login = {l}
    /\ q.pc = "read" => q.new = {} /\ q.login # {}
    /\ q.pc = "commit" =>
          /\ q.new = {} /\ q.login = {}
          /\ \/ q.op = "write" /\ q.user = {}
             \/ /\ q.op = "seed" /\ q.user = {DefaultAdmin} /\ q.by = {} /\ q.seen = {}
                /\ q.body.role = {"ADMIN"} /\ q.body.active = {TRUE}
             \/ /\ q.op \in {"create", "patch", "delete"}
                /\ \E u \in Users, j \in JWT :
                      /\ q.user = {u} /\ q.by = {j} /\ j.role = "ADMIN"
                      /\ q.op = "delete" => u # j.sub
                /\ q.op = "create" =>
                      q.seen = {} /\ q.body.active = {TRUE} /\ \E role \in Roles : q.body.role = {role}

\* The row a PATCH or a DELETE is about is there.
Aimed(q) == q.pc = "commit" /\ q.op \in {"patch", "delete"} => \A u \in q.user : users[u] # NoRow

LEMMA IdleShape == Shaped(Idle) /\ Aimed(Idle)
BY DEF Shaped, Aimed, Idle

LEMMA RefusedType ==
    ASSUME NEW js \in SUBSET JWT
    PROVE  /\ Refused(js) \in Request /\ Shaped(Refused(js)) /\ Aimed(Refused(js))
           /\ Refused(js).pc = "answer" /\ Refused(js).new = {} /\ Refused(js).by = js
           /\ Refused(js).login = {} /\ Refused(js).token = {}
BY IdleType DEF Refused, Idle, Request, Shaped, Aimed

LEMMA DemandType ==
    ASSUME TypeOK, NEW o \in {"create", "patch", "delete"}, NEW j \in JWT, NEW u \in Users,
           NEW b \in Body
    PROVE  /\ Demand(o, j, u, b) \in Request
           /\ Demand(o, j, u, b).pc = "commit" /\ Demand(o, j, u, b).op = o
           /\ Demand(o, j, u, b).by = {j} /\ Demand(o, j, u, b).user = {u}
           /\ Demand(o, j, u, b).seen = {users[u]} \ {NoRow}
           /\ Demand(o, j, u, b).body = b /\ Demand(o, j, u, b).token = {}
           /\ Demand(o, j, u, b).new = {} /\ Demand(o, j, u, b).login = {}
<1>1. {users[u]} \ {NoRow} \subseteq Row
  BY DEF TypeOK
<1> QED
  BY <1>1, IdleType DEF Demand, Idle, Request

\* What is issued to an active user: one JWT, with the role of the row.
LEMMA IssueType ==
    ASSUME TypeOK, NEW u \in Users
    PROVE  /\ Issue(u) \subseteq JWT
           /\ \A j \in Issue(u) : j.sub = u /\ j.role = users[u].role /\ j.exp = now + AccessTTL
           /\ users[u].active =>
                 Issue(u) = {[sub |-> u, role |-> users[u].role, exp |-> now + AccessTTL]}
<1>1. now + AccessTTL \in Nat
  BY Constants DEF TypeOK
<1>2. users[u].active => users[u].role \in Roles
  BY DEF TypeOK, Row, NoRow
<1>3. /\ Issue(u) \subseteq JWT
      /\ \A j \in Issue(u) : j.sub = u /\ j.role = users[u].role /\ j.exp = now + AccessTTL
  BY <1>1 DEF Issue, JWTsAt, JWT
<1>4. ASSUME users[u].active
      PROVE  Issue(u) = {[sub |-> u, role |-> users[u].role, exp |-> now + AccessTTL]}
  <2> DEFINE g == [sub |-> u, role |-> users[u].role, exp |-> now + AccessTTL]
  <2>1. g \in Issue(u)
    BY <1>2, <1>4 DEF Issue, JWTsAt
  <2>2. \A j \in Issue(u) : j = g
    BY DEF Issue, JWTsAt
  <2> QED
    BY <2>1, <2>2
<1> QED
  BY <1>3, <1>4

\* The history: it does not go back.
LEMMA HeldIs ==
    ASSUME TypeOK, NEW us, NEW t \in Nat
    PROVE  /\ HeldAfter(us, t) \in [Users -> [Roles -> Nat]]
           /\ \A u \in Users, role \in Roles :
                 HeldAfter(us, t)[u][role] =
                    IF us[u].active /\ us[u].role = role THEN t ELSE lastHeld[u][role]
BY DEF TypeOK, HeldAfter

-----------------------------------------------------------------------------
(* The invariant the others rest on: types and shapes *)

\* Tokens in Redis differ in their ids, none of which is still to come.
Ids == /\ \A s, t \in redis : s.id = t.id => s = t
       /\ \A t \in redis : t.id <= issued

Base == TypeOK /\ Ids /\ \A r \in Requests : Shaped(req[r]) /\ Aimed(req[r])

\* How a request begins: with an answer or a demand, with a JWT to deliver, or
\* with a token taken out of Redis.
Begun(r, q) ==
    /\ req[r] = Idle /\ req' = [req EXCEPT ![r] = q]
    /\ q \in Request /\ Shaped(q) /\ Aimed(q) /\ q.pc # "idle"
    /\ UNCHANGED <<now, users, issued, known, access>> /\ begun' \in Nat
    /\ q.by \subseteq access
    /\ q.op = "seed" => \A u \in Users : users[u] = NoRow
    /\ \/ q.pc \in {"answer", "commit"} /\ q.login = {} /\ q.new = {} /\ redis' = redis
       \/ /\ q.pc = "store" /\ q.login = {} /\ q.by = {} /\ redis' = redis
          /\ \E u \in Users : users[u].active /\ q.user = {u} /\ q.new = Issue(u)
       \/ /\ q.pc = "read" /\ q.new = {} /\ q.by = {}
          /\ \E t \in redis : /\ q.user = {t.user} /\ q.login = {t.login}
                              /\ redis' = redis \ {t}

LEMMA StartRefused ==
    ASSUME Base, NEW r \in Requests, NEW js \in SUBSET JWT, js \subseteq access,
           Start(r, Refused(js)), redis' = redis,
           UNCHANGED <<now, users, issued, known, access>>
    PROVE  Begun(r, Refused(js))
<1>1. begun' \in Nat
  BY DEF Base, TypeOK, Start
<1>2. Refused(js).op = "refused"
  BY DEF Refused, Idle
<1> QED
  BY <1>1, <1>2, RefusedType DEF Begun, Start

LEMMA StartDemand ==
    ASSUME Base, NEW r \in Requests, NEW o \in {"create", "patch", "delete"},
           NEW j \in access, NEW u \in Users, NEW b \in Body,
           j.role = "ADMIN",
           o = "delete" => u # j.sub,
           o = "create" => users[u] = NoRow /\ b.active = {TRUE} /\ \E role \in Roles : b.role = {role},
           o # "create" => users[u] # NoRow,
           Start(r, Demand(o, j, u, b)), redis' = redis,
           UNCHANGED <<now, users, issued, known, access>>
    PROVE  Begun(r, Demand(o, j, u, b))
<1> DEFINE q == Demand(o, j, u, b)
<1>1. j \in JWT /\ begun' \in Nat
  BY DEF Base, TypeOK, Start
<1>2. /\ q \in Request /\ q.pc = "commit" /\ q.op = o
      /\ q.by = {j} /\ q.user = {u} /\ q.seen = {users[u]} \ {NoRow}
      /\ q.body = b /\ q.token = {} /\ q.new = {} /\ q.login = {}
  BY <1>1, DemandType DEF Base
<1> HIDE DEF q
<1>3. Shaped(q)
  BY <1>1, <1>2 DEF Shaped
<1>4. Aimed(q)
  BY <1>2 DEF Aimed
<1>5. req[r] = Idle /\ req' = [req EXCEPT ![r] = q]
  BY DEF Start, q
<1> QED
  BY <1>1, <1>2, <1>3, <1>4, <1>5 DEF Begun, q

LEMMA BeginLogin ==
    ASSUME Base, NEW r \in Requests, NEW u \in Users, Login(r, u)
    PROVE  \E q : Begun(r, q)
<1>1. CASE users[u].active
  <2> DEFINE q == [Idle EXCEPT !.op = "login", !.pc = "store", !.user = {u}, !.new = Issue(u)]
  <2>1. Issue(u) \subseteq JWT
    BY IssueType DEF Base
  <2>2. /\ q \in Request /\ q.op = "login" /\ q.pc = "store" /\ q.user = {u}
        /\ q.new = Issue(u) /\ q.by = {} /\ q.login = {} /\ q.token = {}
    BY <2>1, IdleType DEF Idle, Request
  <2>3. Start(r, q) /\ UNCHANGED <<now, users, redis, issued, known, access>>
    BY <1>1 DEF Login
  <2> HIDE DEF q
  <2>4. Shaped(q) /\ Aimed(q)
    BY <2>2 DEF Shaped, Aimed
  <2>5. begun' \in Nat
    BY <2>3 DEF Base, TypeOK, Start
  <2> QED
    BY <1>1, <2>2, <2>3, <2>4, <2>5 DEF Begun, Start
<1>2. CASE ~users[u].active
  BY <1>2, StartRefused DEF Login
<1> QED
  BY <1>1, <1>2

LEMMA BeginRefresh ==
    ASSUME Base, NEW r \in Requests, NEW id, Refresh(r, id)
    PROVE  \E q : Begun(r, q)
<1> DEFINE found == {t \in redis : t.id = id /\ now < t.until}
           q == [Idle EXCEPT !.op = "refresh", !.pc = "read",
                             !.user = {t.user : t \in found}, !.login = {t.login : t \in found}]
<1>1. redis' = redis \ found /\ UNCHANGED <<now, users, issued, known, access>>
      /\ Start(r, IF found = {} THEN Refused({}) ELSE q)
  BY DEF Refresh
<1>2. CASE found = {}
  BY <1>1, <1>2, StartRefused
<1>3. CASE found # {}
  <2>1. PICK t \in redis : found = {t}
    BY <1>3 DEF Base, Ids
  <2>2. t.user \in Users /\ t.login \in Nat
    BY DEF Base, TypeOK, RefreshToken
  <2>3. {s.user : s \in found} = {t.user} /\ {s.login : s \in found} = {t.login}
    BY <2>1
  <2>4. /\ q \in Request /\ q.op = "refresh" /\ q.pc = "read" /\ q.user = {t.user}
        /\ q.login = {t.login} /\ q.new = {} /\ q.by = {} /\ q.token = {}
    BY <2>2, <2>3, IdleType DEF Idle, Request
  <2>5. Start(r, q) /\ redis' = redis \ {t}
    BY <1>1, <1>3, <2>1
  <2> HIDE DEF q, found
  <2>6. Shaped(q) /\ Aimed(q)
    BY <2>2, <2>4 DEF Shaped, Aimed
  <2>7. begun' \in Nat
    BY <2>5 DEF Base, TypeOK, Start
  <2> QED
    BY <1>1, <2>4, <2>5, <2>6, <2>7 DEF Begun, Start
<1> QED
  BY <1>2, <1>3

LEMMA BeginDemand ==
    ASSUME Base, NEW r \in Requests, NEW j \in access, NEW u \in Users
    PROVE  /\ \A role \in NewRoles : CreateUser(r, u, role, j) => \E q : Begun(r, q)
           /\ \A b \in Bodies : UpdateUser(r, u, b, j) => \E q : Begun(r, q)
           /\ DeactivateUser(r, u, j) => \E q : Begun(r, q)
<1>1. {j} \in SUBSET JWT /\ {j} \subseteq access
  BY DEF Base, TypeOK
<1>2. Admitted(j, AdminOnly) => j.role = "ADMIN"
  BY DEF Admitted, AdminOnly
<1>3. ASSUME NEW role \in NewRoles, CreateUser(r, u, role, j)
      PROVE  \E q : Begun(r, q)
  <2> DEFINE b == [role |-> {role}, active |-> {TRUE}]
  <2>1. role \in Roles /\ b \in Body /\ b.active = {TRUE} /\ b.role = {role}
    BY Constants DEF Body
  <2>2. /\ Start(r, IF Admitted(j, AdminOnly) /\ users[u] = NoRow
                    THEN Demand("create", j, u, b) ELSE Refused({j}))
        /\ UNCHANGED <<now, users, redis, issued, known, access>>
    BY <1>3 DEF CreateUser
  <2> HIDE DEF b
  <2>3. CASE Admitted(j, AdminOnly) /\ users[u] = NoRow
    BY <1>2, <2>1, <2>2, <2>3, StartDemand
  <2>4. CASE ~(Admitted(j, AdminOnly) /\ users[u] = NoRow)
    BY <1>1, <2>2, <2>4, StartRefused
  <2> QED
    BY <2>3, <2>4
<1>4. ASSUME NEW b \in Bodies, UpdateUser(r, u, b, j)
      PROVE  \E q : Begun(r, q)
  <2>1. b \in Body
    BY Constants
  <2>2. CASE Admitted(j, AdminOnly) /\ users[u] # NoRow
    BY <1>2, <1>4, <2>1, <2>2, StartDemand DEF UpdateUser
  <2>3. CASE ~(Admitted(j, AdminOnly) /\ users[u] # NoRow)
    BY <1>1, <1>4, <2>3, StartRefused DEF UpdateUser
  <2> QED
    BY <2>2, <2>3
<1>5. ASSUME DeactivateUser(r, u, j)
      PROVE  \E q : Begun(r, q)
  <2> DEFINE b == [role |-> {}, active |-> {FALSE}]
  <2>1. b \in Body
    BY DEF Body
  <2>2. /\ Start(r, IF Admitted(j, AdminOnly) /\ u # j.sub /\ users[u] # NoRow
                    THEN Demand("delete", j, u, b) ELSE Refused({j}))
        /\ UNCHANGED <<now, users, redis, issued, known, access>>
    BY <1>5 DEF DeactivateUser
  <2> HIDE DEF b
  <2>3. CASE Admitted(j, AdminOnly) /\ u # j.sub /\ users[u] # NoRow
    BY <1>2, <2>1, <2>2, <2>3, StartDemand
  <2>4. CASE ~(Admitted(j, AdminOnly) /\ u # j.sub /\ users[u] # NoRow)
    BY <1>1, <2>2, <2>4, StartRefused
  <2> QED
    BY <2>3, <2>4
<1> QED
  BY <1>3, <1>4, <1>5

LEMMA BeginOther ==
    ASSUME Base, NEW r \in Requests
    PROVE  /\ Unauthenticated(r) => \E q : Begun(r, q)
           /\ \A j \in access : Write(r, j) => \E q : Begun(r, q)
           /\ Seed(r) => \E q : Begun(r, q)
<1>1. ASSUME Unauthenticated(r)
      PROVE  \E q : Begun(r, q)
  BY <1>1, StartRefused DEF Unauthenticated
<1>2. ASSUME NEW j \in access, Write(r, j)
      PROVE  \E q : Begun(r, q)
  <2> DEFINE q == [Idle EXCEPT !.op = "write", !.pc = "commit", !.by = {j}]
  <2>1. j \in JWT /\ {j} \subseteq access /\ {j} \in SUBSET JWT
    BY DEF Base, TypeOK
  <2>2. /\ q \in Request /\ q.op = "write" /\ q.pc = "commit" /\ q.by = {j} /\ q.user = {}
        /\ q.new = {} /\ q.login = {} /\ q.token = {}
    BY <2>1, IdleType DEF Idle, Request
  <2>3. CASE Admitted(j, WriteAccess)
    <3>1. Start(r, q) /\ UNCHANGED <<now, users, redis, issued, known, access>>
      BY <1>2, <2>3 DEF Write
    <3> HIDE DEF q
    <3>2. Shaped(q) /\ Aimed(q)
      BY <2>2 DEF Shaped, Aimed
    <3>3. begun' \in Nat
      BY <3>1 DEF Base, TypeOK, Start
    <3> QED
      BY <2>1, <2>2, <3>1, <3>2, <3>3 DEF Begun, Start
  <2>4. CASE ~Admitted(j, WriteAccess)
    BY <1>2, <2>1, <2>4, StartRefused DEF Write
  <2> QED
    BY <2>3, <2>4
<1>3. ASSUME Seed(r)
      PROVE  \E q : Begun(r, q)
  <2> DEFINE q == [Idle EXCEPT !.op = "seed", !.pc = "commit", !.user = {DefaultAdmin},
                       !.body = [role |-> {"ADMIN"}, active |-> {TRUE}]]
  <2>1. [role |-> {"ADMIN"}, active |-> {TRUE}] \in Body
    BY DEF Body, Roles
  <2>2. /\ q \in Request /\ q.op = "seed" /\ q.pc = "commit" /\ q.by = {}
        /\ q.user = {DefaultAdmin} /\ q.new = {} /\ q.login = {} /\ q.token = {} /\ q.seen = {}
        /\ q.body.role = {"ADMIN"} /\ q.body.active = {TRUE}
    BY <2>1, IdleType, Constants DEF Idle, Request
  <2>3. /\ req[r] = Idle /\ req' = [req EXCEPT ![r] = q] /\ begun' = begun
        /\ \A u \in Users : users[u] = NoRow
        /\ UNCHANGED <<now, users, redis, issued, known, access>>
    BY <1>3 DEF Seed
  <2> HIDE DEF q
  <2>4. Shaped(q) /\ Aimed(q)
    BY <2>2 DEF Shaped, Aimed
  <2> QED
    BY <2>2, <2>3, <2>4 DEF Begun, Base, TypeOK
<1> QED
  BY <1>1, <1>2, <1>3

LEMMA Beginning ==
    ASSUME Base, NEW r \in Requests, Begin(r)
    PROVE  \E q : Begun(r, q)
BY BeginLogin, BeginRefresh, BeginDemand, BeginOther DEF Begin

-----------------------------------------------------------------------------
(* What the other steps do *)

\* SETEX adds one token, of a new id and of the login that is renewed or begun.
LEMMA StoreIs ==
    ASSUME Base, NEW r \in Requests, Store(r)
    PROVE  \E t \in RefreshToken :
              /\ req[r].pc = "store" /\ req[r].user = {t.user} /\ req[r].by = {}
              /\ t.id = issued + 1 /\ redis' = redis \cup {t} /\ issued' = issued + 1
              /\ \/ req[r].login = {} /\ t.login = issued + 1
                 \/ req[r].login = {t.login}
<1>1. req[r].pc = "store" /\ Shaped(req[r]) /\ issued' = issued + 1 /\ issued \in Nat
  BY DEF Store, Base, TypeOK
<1>2. PICK u \in Users : req[r].user = {u}
  BY <1>1 DEF Shaped
<1>3. now + RefreshTTL \in Nat /\ issued' \in Nat
  BY <1>1, Constants DEF Base, TypeOK
<1>4. CASE req[r].login = {}
  <2> DEFINE t == [id |-> issued', user |-> u, until |-> now + RefreshTTL, login |-> issued']
  <2>1. redis' = redis \cup {t}
    BY <1>2, <1>4 DEF Store
  <2>2. /\ t \in RefreshToken /\ t.id = issued' /\ t.user = u /\ t.login = issued'
    BY <1>3 DEF RefreshToken
  <2> QED
    BY <1>1, <1>2, <1>4, <2>1, <2>2 DEF Shaped
<1>5. CASE req[r].login # {}
  <2>1. PICK l \in Nat : req[r].login = {l}
    BY <1>1, <1>5 DEF Shaped
  <2>2. (CHOOSE k \in req[r].login : TRUE) = l
    BY <2>1
  <2> DEFINE t == [id |-> issued', user |-> u, until |-> now + RefreshTTL, login |-> l]
  <2>3. redis' = redis \cup {t}
    BY <1>2, <1>5, <2>2 DEF Store
  <2>4. /\ t \in RefreshToken /\ t.id = issued' /\ t.user = u /\ t.login = l
    BY <1>3 DEF RefreshToken
  <2> QED
    BY <1>1, <1>2, <2>1, <2>3, <2>4 DEF Shaped
<1> QED
  BY <1>4, <1>5

\* A column keeps what is stored or takes what the body names.
LEMMA ColumnIs ==
    ASSUME NEW value, NEW loaded, NEW stored
    PROVE  /\ Column(value, loaded, stored) = stored \/ Column(value, loaded, stored) \in value
           /\ loaded = {} /\ value # {} => Column(value, loaded, stored) \in value
<1>1. CASE value \subseteq loaded
  BY <1>1 DEF Column
<1>2. CASE ~(value \subseteq loaded)
  <2>1. \E v \in value : TRUE
    BY <1>2
  <2> QED
    BY <1>2, <2>1 DEF Column
<1> QED
  BY <1>1, <1>2

\* The row a COMMIT leaves is complete, and it is there if it was there.
LEMMA UpdatedType ==
    ASSUME Base, NEW r \in Requests, req[r].pc = "commit", ~Collides(req[r]),
           NEW u \in req[r].user
    PROVE  /\ u \in Users /\ req[r].user = {u} /\ Updated(req[r], users[u]) \in Row
           /\ users[u] = NoRow => req[r].op \in {"seed", "create"}
           /\ req[r].op = "seed" => Updated(req[r], users[u]) = [role |-> "ADMIN", active |-> TRUE]
<1> DEFINE q == req[r]
           row == users[u]
           ro == Column(q.body.role, {s.role : s \in q.seen}, row.role)
           ac == Column(q.body.active, {s.active : s \in q.seen}, row.active)
<1>1. /\ Shaped(q) /\ Aimed(q) /\ q.body.role \subseteq Roles /\ q.body.active \subseteq BOOLEAN
  BY DEF Base, TypeOK, Request, Body
<1>2. q.user = {u} /\ u \in Users /\ q.op \in {"seed", "create", "patch", "delete"}
  BY <1>1, Constants DEF Shaped
<1>3. row \in Row \cup {NoRow}
  BY <1>2 DEF Base, TypeOK
<1>4. Updated(q, row) = [role |-> ro, active |-> ac]
  BY DEF Updated
<1>5. (ro = row.role \/ ro \in q.body.role) /\ (ac = row.active \/ ac \in q.body.active)
  BY ColumnIs
<1>6. CASE q.op \in {"patch", "delete"}
  <2>1. row \in Row
    BY <1>1, <1>2, <1>3, <1>6 DEF Aimed
  <2>2. row.role \in Roles /\ row.active \in BOOLEAN
    BY <2>1 DEF Row
  <2>3. ro \in Roles /\ ac \in BOOLEAN
    BY <1>1, <1>5, <2>2
  <2> HIDE DEF ro, ac
  <2>4. Updated(q, row) \in Row
    BY <1>4, <2>3 DEF Row
  <2> QED
    BY <1>2, <1>6, <2>1, <2>4, IdleType
<1>7. CASE q.op \in {"seed", "create"}
  <2>1. q.seen = {} /\ q.body.role # {} /\ q.body.active = {TRUE}
        /\ (q.op = "seed" => q.body.role = {"ADMIN"})
    BY <1>1, <1>7 DEF Shaped
  <2>2. {s.role : s \in q.seen} = {} /\ {s.active : s \in q.seen} = {}
    BY <2>1
  <2>3. ro \in q.body.role /\ ac \in q.body.active
    BY <2>1, <2>2, ColumnIs
  <2> HIDE DEF ro, ac
  <2>4. Updated(q, row) \in Row
    BY <1>1, <1>4, <2>3 DEF Row
  <2>5. q.op = "seed" => Updated(q, row) = [role |-> "ADMIN", active |-> TRUE]
    BY <1>4, <2>1, <2>3
  <2> QED
    BY <1>2, <1>7, <2>4, <2>5
<1> QED
  BY <1>2, <1>6, <1>7

\* What a COMMIT does to each account.
LEMMA CommitIs ==
    ASSUME Base, NEW r \in Requests, Commit(r)
    PROVE  /\ users' \in [Users -> Row \cup {NoRow}]
           /\ \A u \in Users :
                 /\ users[u] # NoRow => users'[u] # NoRow
                 /\ users'[u] # users[u] =>
                       /\ req[r].user = {u} /\ ~Collides(req[r]) /\ users'[u] \in Row
                       /\ users'[u].role = users[u].role \/ users'[u].role \in req[r].body.role
                       /\ users'[u].active = users[u].active
                          \/ users'[u].active \in req[r].body.active
<1>1. /\ req[r].pc = "commit"
      /\ users' = IF Collides(req[r]) THEN users
                  ELSE [u \in Users |-> IF u \in req[r].user THEN Updated(req[r], users[u])
                                        ELSE users[u]]
  BY DEF Commit
<1>2. users \in [Users -> Row \cup {NoRow}]
  BY DEF Base, TypeOK
<1>3. CASE Collides(req[r])
  BY <1>1, <1>2, <1>3
<1>4. CASE ~Collides(req[r])
  <2>1. \A u \in Users : users'[u] = IF u \in req[r].user THEN Updated(req[r], users[u])
                                     ELSE users[u]
    BY <1>1, <1>4
  <2>2. \A u \in req[r].user : req[r].user = {u} /\ Updated(req[r], users[u]) \in Row
    BY <1>1, <1>4, UpdatedType
  <2>3. \A u \in Users : users'[u] \in Row \cup {NoRow}
    BY <1>2, <2>1, <2>2
  <2>4. users' \in [Users -> Row \cup {NoRow}]
    BY <1>1, <1>4, <2>1, <2>3
  <2>5. ASSUME NEW u \in Users
        PROVE  /\ users[u] # NoRow => users'[u] # NoRow
               /\ users'[u] # users[u] =>
                    /\ req[r].user = {u} /\ users'[u] \in Row
                    /\ users'[u].role = users[u].role \/ users'[u].role \in req[r].body.role
                    /\ users'[u].active = users[u].active
                       \/ users'[u].active \in req[r].body.active
    <3>1. CASE u \in req[r].user
      <4>1. users'[u] = Updated(req[r], users[u]) /\ users'[u] \in Row
        BY <2>1, <2>2, <3>1
      <4>2. users'[u].role = Column(req[r].body.role, {s.role : s \in req[r].seen}, users[u].role)
            /\ users'[u].active =
                  Column(req[r].body.active, {s.active : s \in req[r].seen}, users[u].active)
        BY <4>1 DEF Updated
      <4> QED
        BY <2>2, <3>1, <4>1, <4>2, ColumnIs, IdleType
    <3>2. CASE u \notin req[r].user
      BY <2>1, <3>2
    <3> QED
      BY <3>1, <3>2
  <2> QED
    BY <1>4, <2>4, <2>5
<1> QED
  BY <1>3, <1>4

\* A renewal that read its user goes on with a new JWT or is refused.
LEMMA ReadIs ==
    ASSUME Base, NEW r \in Requests, ReadUser(r)
    PROVE  \E u \in Users, q \in Request :
              /\ req[r].pc = "read" /\ req[r].user = {u} /\ req[r].by = {} /\ req[r].new = {}
              /\ req' = [req EXCEPT ![r] = q] /\ Shaped(q) /\ Aimed(q)
              /\ \/ /\ users[u].active /\ q.pc = "store" /\ q.new = Issue(u) /\ q.by = {}
                    /\ q.user = {u} /\ q.login = req[r].login
                 \/ /\ ~users[u].active /\ q.pc = "answer" /\ q.new = {} /\ q.by = {}
                    /\ q.login = {} /\ q.token = {}
<1>1. req[r].pc = "read" /\ Shaped(req[r]) /\ req[r] \in Request
  BY DEF ReadUser, Base, TypeOK
<1>2. PICK u \in Users : req[r].user = {u}
  BY <1>1 DEF Shaped
<1>3. req' = [req EXCEPT ![r] = IF users[u].active
                                THEN [req[r] EXCEPT !.pc = "store", !.new = Issue(u)]
                                ELSE Refused({})]
  BY <1>2 DEF ReadUser
<1>4. CASE users[u].active
  <2> DEFINE q == [req[r] EXCEPT !.pc = "store", !.new = Issue(u)]
  <2>1. Issue(u) \subseteq JWT
    BY IssueType DEF Base
  <2>2. /\ q \in Request /\ q.pc = "store" /\ q.new = Issue(u) /\ q.by = req[r].by
        /\ q.user = req[r].user /\ q.login = req[r].login /\ q.op = req[r].op
        /\ q.token = req[r].token
    BY <1>1, <2>1 DEF Request
  <2>3. req' = [req EXCEPT ![r] = q]
    BY <1>3, <1>4
  <2> HIDE DEF q
  <2>4. Shaped(q) /\ Aimed(q)
    BY <1>1, <1>2, <2>2 DEF Shaped, Aimed
  <2> QED
    BY <1>1, <1>2, <1>4, <2>2, <2>3, <2>4 DEF Shaped
<1>5. CASE ~users[u].active
  <2>1. req' = [req EXCEPT ![r] = Refused({})]
    BY <1>3, <1>5
  <2>2. PICK q : q = Refused({})
    OBVIOUS
  <2>3. {} \in SUBSET JWT
    OBVIOUS
  <2>4. /\ q \in Request /\ Shaped(q) /\ Aimed(q) /\ q.pc = "answer" /\ q.new = {}
        /\ q.by = {} /\ q.login = {} /\ q.token = {} /\ req' = [req EXCEPT ![r] = q]
    BY <2>1, <2>2, <2>3, RefusedType
  <2>5. req[r].by = {} /\ req[r].new = {}
    BY <1>1 DEF Shaped
  <2> QED
    BY <1>1, <1>2, <1>5, <2>4, <2>5
<1> QED
  BY <1>4, <1>5

\* The request that is answered next keeps what it presented and what it issued.
LEMMA DoneIs ==
    ASSUME NEW p \in Request, Shaped(p), NEW ts \in SUBSET Nat
    PROVE  LET q == [p EXCEPT !.pc = "answer", !.token = ts, !.ok = TRUE]
               s == [p EXCEPT !.pc = "answer", !.ok = TRUE]
           IN  /\ q \in Request /\ Shaped(q) /\ Aimed(q) /\ q.pc = "answer"
               /\ q.by = p.by /\ q.new = p.new /\ q.token = ts
               /\ s \in Request /\ Shaped(s) /\ Aimed(s) /\ s.pc = "answer"
               /\ s.by = p.by /\ s.new = p.new
BY DEF Request, Shaped, Aimed

\* A step of one request, and what it must preserve of types and shapes.
LEMMA Moved ==
    ASSUME Base, NEW r \in Requests, NEW q \in Request, req' = [req EXCEPT ![r] = q],
           Shaped(q), Aimed(q)',
           users' \in [Users -> Row \cup {NoRow}],
           \A u \in Users : users[u] # NoRow => users'[u] # NoRow,
           now' \in Nat, issued' \in Nat, begun' \in Nat,
           redis' \subseteq RefreshToken, Ids', known' \subseteq Nat, access' \subseteq JWT,
           Observe
    PROVE  Base'
<1>1. lastHeld' \in [Users -> [Roles -> Nat]]
  BY HeldIs DEF Observe, Base
<1>2. TypeOK'
  BY <1>1 DEF Base, TypeOK
<1>3. ASSUME NEW p \in Requests
      PROVE  (Shaped(req[p]) /\ Aimed(req[p]))'
  <2>1. PICK k : k = req'[p]
    OBVIOUS
  <2>2. Shaped(k) /\ Aimed(k)'
    <3>1. CASE p = r
      BY <2>1, <3>1 DEF Base, TypeOK
    <3>2. CASE p # r
      <4>1. k = req[p] /\ k \in Request
        BY <2>1, <3>2 DEF Base, TypeOK
      <4>2. Shaped(k) /\ Aimed(k)
        BY <4>1 DEF Base
      <4>3. k.pc = "commit" /\ k.op \in {"patch", "delete"} => k.user \subseteq Users
        BY <4>1 DEF Request
      <4> QED
        BY <4>2, <4>3 DEF Aimed
    <3> QED
      BY <3>1, <3>2
  <2> QED
    BY <2>1, <2>2 DEF Shaped, Aimed
<1> QED
  BY <1>2, <1>3 DEF Base

LEMMA InitBase == Init => Base
<1> SUFFICES ASSUME Init PROVE Base
  OBVIOUS
<1>1. users \in [Users -> Row \cup {NoRow}]
  BY InitialAssumption DEF Init
<1>2. access \subseteq JWT /\ now = 1
  BY Constants DEF Init, JWTsAt, JWT
<1>3. /\ redis \subseteq RefreshToken /\ issued \in Nat /\ begun \in Nat /\ known \subseteq Nat
      /\ Ids
  <2> DEFINE tok == [id |-> 1, user |-> DefaultAdmin, login |-> 1, until |-> now + RefreshTTL]
  <2>1. tok \in RefreshToken
    BY <1>2, Constants DEF RefreshToken
  <2>2. redis = {} \/ redis = {tok}
    BY DEF Init
  <2>3. CASE redis = {}
    <3>1. issued = 0 /\ begun = 0 /\ known = {}
      BY <2>3, FS_EmptySet DEF Init
    <3> QED
      BY <2>3, <3>1 DEF Ids
  <2>4. CASE redis = {tok}
    <3>1. issued = 1 /\ begun = 1
      BY <2>4, FS_Singleton DEF Init
    <3>2. known = {1}
      <4>1. known = {t.id : t \in {tok}} /\ tok.id = 1
        BY <2>4 DEF Init
      <4> HIDE DEF tok
      <4> QED
        BY <4>1
    <3> QED
      BY <2>1, <2>4, <3>1, <3>2 DEF Ids
  <2> QED
    BY <2>2, <2>3, <2>4
<1>4. lastHeld \in [Users -> [Roles -> Nat]]
  BY <1>2 DEF Init
<1>5. req \in [Requests -> Request] /\ \A r \in Requests : req[r] = Idle
  BY IdleType DEF Init
<1> QED
  BY <1>1, <1>2, <1>3, <1>4, <1>5, IdleShape DEF Base, TypeOK

LEMMA StepBase == Base /\ [Next]_vars => Base'
<1> SUFFICES ASSUME Base, [Next]_vars PROVE Base'
  OBVIOUS
<1>0. ASSUME UNCHANGED <<req, users>>
      PROVE  (\A r \in Requests : Shaped(req[r]) /\ Aimed(req[r]))'
  <2> SUFFICES ASSUME NEW r \in Requests PROVE (Shaped(req[r]) /\ Aimed(req[r]))'
    OBVIOUS
  <2>1. PICK q : q = req[r] /\ q = req'[r]
    BY <1>0
  <2>2. Shaped(q) /\ Aimed(q)
    BY <2>1 DEF Base
  <2> QED
    BY <1>0, <2>1, <2>2 DEF Shaped, Aimed
<1>1. CASE UNCHANGED vars
  <2>1. TypeOK' /\ Ids'
    BY <1>1 DEF vars, Base, TypeOK, Ids
  <2> QED
    BY <1>0, <1>1, <2>1 DEF vars, Base
<1>2. CASE Tick /\ Observe
  <2>1. /\ now' \in Nat /\ access' \subseteq JWT
        /\ UNCHANGED <<users, redis, issued, known, req, begun>>
    BY <1>2 DEF Tick, Base, TypeOK
  <2>2. lastHeld' \in [Users -> [Roles -> Nat]]
    BY <1>2, <2>1, HeldIs DEF Observe, Base
  <2>3. TypeOK' /\ Ids'
    BY <2>1, <2>2 DEF Base, TypeOK, Ids
  <2> QED
    BY <1>0, <2>1, <2>3 DEF Base
<1>3. ASSUME NEW r \in Requests, Begin(r), Observe
      PROVE  Base'
  <2>1. PICK q : Begun(r, q)
    BY <1>3, Beginning
  <2>2. redis' \subseteq redis
    BY <2>1 DEF Begun
  <2>3. Ids' /\ redis' \subseteq RefreshToken
    BY <2>1, <2>2 DEF Begun, Base, Ids, TypeOK
  <2>4. Aimed(q)'
    BY <2>1 DEF Begun, Aimed
  <2> QED
    BY <1>3, <2>1, <2>3, <2>4, Moved DEF Begun, Base, TypeOK
<1>4. ASSUME NEW r \in Requests, ReadUser(r), Observe
      PROVE  Base'
  <2>1. UNCHANGED <<now, users, redis, issued, known, access, begun>>
    BY <1>4 DEF ReadUser
  <2>2. PICK q \in Request : req' = [req EXCEPT ![r] = q] /\ Shaped(q) /\ Aimed(q)
    BY <1>4, ReadIs
  <2>3. Aimed(q)' /\ Ids'
    BY <2>1, <2>2 DEF Aimed, Base, Ids
  <2> QED
    BY <1>4, <2>1, <2>2, <2>3, Moved DEF Base, TypeOK
<1>5. ASSUME NEW r \in Requests, Store(r), Observe
      PROVE  Base'
  <2>1. PICK t \in RefreshToken : t.id = issued + 1 /\ redis' = redis \cup {t}
                                  /\ issued' = issued + 1
    BY <1>5, StoreIs
  <2>2. issued \in Nat /\ \A s \in redis : s.id \in Nat
    BY DEF Base, TypeOK, RefreshToken
  <2>3. Ids'
    BY <2>1, <2>2 DEF Base, Ids
  <2>4. req[r] \in Request /\ Shaped(req[r]) /\ {issued'} \in SUBSET Nat
    BY <2>1, <2>2 DEF Base, TypeOK
  <2>5. PICK q : q = [req[r] EXCEPT !.pc = "answer", !.token = {issued'}, !.ok = TRUE]
    OBVIOUS
  <2>6. q \in Request /\ Shaped(q) /\ q.pc = "answer"
    BY <2>4, <2>5, DoneIs
  <2>7. req' = [req EXCEPT ![r] = q] /\ UNCHANGED <<now, users, known, access, begun>>
    BY <1>5, <2>5 DEF Store
  <2>8. Aimed(q)'
    BY <2>6 DEF Aimed
  <2> QED
    <3>1. /\ users' \in [Users -> Row \cup {NoRow}]
          /\ \A u \in Users : users[u] # NoRow => users'[u] # NoRow
          /\ now' \in Nat /\ issued' \in Nat /\ begun' \in Nat
          /\ redis' \subseteq RefreshToken /\ known' \subseteq Nat /\ access' \subseteq JWT
      BY <2>1, <2>2, <2>7 DEF Base, TypeOK
    <3> QED
      BY <1>5, <2>3, <2>6, <2>7, <2>8, <3>1, Moved
<1>6. ASSUME NEW r \in Requests, Commit(r), Observe
      PROVE  Base'
  <2>1. /\ users' \in [Users -> Row \cup {NoRow}]
        /\ \A u \in Users : users[u] # NoRow => users'[u] # NoRow
    BY <1>6, CommitIs
  <2>2. UNCHANGED <<now, redis, issued, known, access, begun>>
    BY <1>6 DEF Commit
  <2>3. req[r] \in Request /\ Shaped(req[r])
    BY DEF Base, TypeOK
  <2>4. PICK q : q = IF Collides(req[r]) \/ req[r].op = "seed" THEN Idle
                     ELSE [req[r] EXCEPT !.pc = "answer", !.ok = TRUE]
    OBVIOUS
  <2>5. q \in Request /\ Shaped(q) /\ q.pc # "commit"
    <3>1. CASE q = Idle
      BY <3>1, IdleType, IdleShape DEF Idle
    <3>2. CASE q = [req[r] EXCEPT !.pc = "answer", !.ok = TRUE]
      BY <2>3, <3>2, DoneIs
    <3> QED
      BY <2>4, <3>1, <3>2
  <2>6. req' = [req EXCEPT ![r] = q]
    BY <1>6, <2>4 DEF Commit
  <2>7. Aimed(q)' /\ Ids'
    BY <2>2, <2>5 DEF Aimed, Base, Ids
  <2>8. /\ now' \in Nat /\ issued' \in Nat /\ begun' \in Nat
        /\ redis' \subseteq RefreshToken /\ known' \subseteq Nat /\ access' \subseteq JWT
    BY <2>2 DEF Base, TypeOK
  <2> QED
    BY <1>6, <2>1, <2>5, <2>6, <2>7, <2>8, Moved
<1>7. ASSUME NEW r \in Requests, Answer(r) \/ Fail(r), Observe
      PROVE  Base'
  <2>1. /\ req' = [req EXCEPT ![r] = Idle]
        /\ UNCHANGED <<now, users, redis, issued, begun>>
    BY <1>7 DEF Answer, Fail
  <2>2. known' \subseteq Nat /\ access' \subseteq JWT
    BY <1>7 DEF Answer, Fail, Base, TypeOK, Request
  <2>3. Aimed(Idle)' /\ Ids'
    BY <2>1 DEF Aimed, Idle, Base, Ids
  <2> QED
    <3>1. /\ users' \in [Users -> Row \cup {NoRow}]
          /\ \A u \in Users : users[u] # NoRow => users'[u] # NoRow
          /\ now' \in Nat /\ issued' \in Nat /\ begun' \in Nat /\ redis' \subseteq RefreshToken
      BY <2>1 DEF Base, TypeOK
    <3> QED
      BY <1>7, <2>1, <2>2, <2>3, <3>1, IdleType, IdleShape, Moved
<1> QED
  BY <1>1, <1>2, <1>3, <1>4, <1>5, <1>6, <1>7 DEF Next, Continue

\* TypeOK: every variable of Sessions keeps its type.
THEOREM TypeCorrect == Spec => []TypeOK
<1>1. Base => TypeOK
  BY DEF Base
<1> QED
  BY InitBase, StepBase, <1>1, PTL DEF Spec

-----------------------------------------------------------------------------
(* Rotation *)

\* What a request q has taken from Redis and not yet given back.
Taken(q) == IF q.pc \in {"read", "store"} THEN q.login ELSE {}

\* No login is yet to come: a new one takes the id of its first token.
Tok == /\ OneLivePerLogin
       /\ \A t \in redis : t.login <= issued
       /\ \A r \in Requests : \A l \in req[r].login : l <= issued

\* A step that makes q of request r takes nothing from Redis, takes the one token of
\* a login, or gives one back for what it had taken or for a new login.
Keeps(r, q) ==
    /\ redis' = redis /\ Taken(q) \subseteq Taken(req[r]) /\ issued' = issued
    /\ \A l \in q.login : l <= issued

Takes(r, q) ==
    /\ \E t \in redis : redis' = redis \ {t} /\ Taken(q) = {t.login}
    /\ issued' = issued
    /\ \A l \in q.login : l <= issued

Gives(r, q) ==
    /\ \E t \in RefreshToken :
          /\ redis' = redis \cup {t} /\ Taken(q) = {} /\ t.login <= issued'
          /\ (t.login = issued + 1 \/ Taken(req[r]) = {t.login})
    /\ issued' = issued + 1
    /\ \A l \in q.login : l <= issued'

LEMMA TokMoved ==
    ASSUME Base, Tok, NEW r \in Requests, NEW q \in Request, req' = [req EXCEPT ![r] = q],
           Keeps(r, q) \/ Takes(r, q) \/ Gives(r, q)
    PROVE  Tok'
<1>0. issued \in Nat /\ issued' \in Nat /\ issued <= issued' /\ \A l \in q.login : l <= issued'
  BY DEF Base, TypeOK, Keeps, Takes, Gives
<1>1. \A p \in Requests : Renewing(p) = Taken(req[p])
  BY DEF Renewing, Taken
<1>2. \A p \in Requests : Renewing(p)' = IF p = r THEN Taken(q) ELSE Taken(req[p])
  BY DEF Renewing, Taken, Base, TypeOK
<1>3. /\ issued \in Nat /\ redis \subseteq RefreshToken
      /\ \A t \in RefreshToken : t.login \in Nat
      /\ \A p \in Requests : req[p].login \subseteq Nat /\ Taken(req[p]) \subseteq Nat
  BY DEF Base, TypeOK, RefreshToken, Request, Taken
<1>4. \A p \in Requests : \A l \in Taken(req[p]) : l <= issued
  BY DEF Tok, Taken
<1>5. /\ \A s, t \in redis : s.login = t.login => s = t
      /\ \A p \in Requests : \A t \in redis : t.login \notin Taken(req[p])
      /\ \A p, w \in Requests : Taken(req[p]) \cap Taken(req[w]) # {} => p = w
      /\ \A t \in redis : t.login <= issued
  BY <1>1 DEF Tok, OneLivePerLogin
<1>6. \A p \in Requests : \A l \in req'[p].login : l <= issued'
  <2> SUFFICES ASSUME NEW p \in Requests, NEW l \in req'[p].login PROVE l <= issued'
    OBVIOUS
  <2>1. CASE p = r
    BY <1>0, <2>1 DEF Base, TypeOK
  <2>2. CASE p # r
    <3>1. l \in req[p].login
      BY <2>2 DEF Base, TypeOK
    <3> QED
      BY <1>0, <1>3, <3>1 DEF Tok
  <2> QED
    BY <2>1, <2>2
<1>7. SUFFICES OneLivePerLogin' /\ \A t \in redis' : t.login <= issued'
  BY <1>6 DEF Tok
<1> HIDE DEF Taken
<1>8. ASSUME redis' = redis, Taken(q) \subseteq Taken(req[r])
      PROVE  OneLivePerLogin' /\ \A s \in redis' : s.login <= issued'
  <2>1. \A t \in redis' : t.login <= issued'
    BY <1>0, <1>3, <1>5, <1>8
  <2>2. \A s, t \in redis' : s.login = t.login => s = t
    BY <1>5, <1>8
  <2>3. \A p \in Requests : \A t \in redis' : t.login \notin Renewing(p)'
    BY <1>2, <1>5, <1>8
  <2>4. \A p, w \in Requests : Renewing(p)' \cap Renewing(w)' # {} => p = w
    BY <1>2, <1>5, <1>8
  <2> QED
    BY <2>1, <2>2, <2>3, <2>4 DEF OneLivePerLogin
<1>9. ASSUME NEW t \in redis, redis' = redis \ {t}, Taken(q) = {t.login}
      PROVE  OneLivePerLogin' /\ \A s \in redis' : s.login <= issued'
  <2>1. \A s \in redis' : s \in redis /\ s # t
    BY <1>9
  <2>2. \A s \in redis' : s.login <= issued'
    BY <1>0, <1>3, <1>5, <2>1
  <2>3. \A s, v \in redis' : s.login = v.login => s = v
    BY <1>5, <2>1
  <2>4. \A p \in Requests : \A s \in redis' : s.login \notin Renewing(p)'
    BY <1>2, <1>5, <1>9, <2>1
  <2>5. \A p, w \in Requests : Renewing(p)' \cap Renewing(w)' # {} => p = w
    BY <1>2, <1>5, <1>9
  <2> QED
    BY <2>2, <2>3, <2>4, <2>5 DEF OneLivePerLogin
<1>10. ASSUME NEW t \in RefreshToken, redis' = redis \cup {t}, Taken(q) = {},
              t.login <= issued', t.login = issued + 1 \/ Taken(req[r]) = {t.login}
       PROVE  OneLivePerLogin' /\ \A s \in redis' : s.login <= issued'
  <2>1. \A s \in redis' : s.login <= issued'
    BY <1>0, <1>3, <1>5, <1>10
  <2>2. \A s \in redis : s.login # t.login
    BY <1>3, <1>5, <1>10
  <2>3. \A p \in Requests : p # r => t.login \notin Taken(req[p])
    <3>1. CASE t.login = issued + 1
      <4>1. \A p \in Requests : issued + 1 \in Taken(req[p]) => issued + 1 <= issued
        BY <1>4
      <4> QED
        BY <1>0, <3>1, <4>1
    <3>2. CASE Taken(req[r]) = {t.login}
      BY <1>5, <3>2
    <3> QED
      BY <1>10, <3>1, <3>2
  <2>4. \A s, v \in redis' : s.login = v.login => s = v
    BY <1>5, <1>10, <2>2
  <2>5. \A p \in Requests : \A s \in redis' : s.login \notin Renewing(p)'
    BY <1>2, <1>5, <1>10, <2>3
  <2>6. \A p, w \in Requests : Renewing(p)' \cap Renewing(w)' # {} => p = w
    BY <1>2, <1>5, <1>10
  <2> QED
    BY <2>1, <2>4, <2>5, <2>6 DEF OneLivePerLogin
<1> QED
  BY <1>8, <1>9, <1>10 DEF Keeps, Takes, Gives

LEMMA InitTok == Init => Tok
<1> SUFFICES ASSUME Init PROVE Tok
  OBVIOUS
<1> DEFINE tok == [id |-> 1, user |-> DefaultAdmin, login |-> 1, until |-> now + RefreshTTL]
<1>1. \A r \in Requests : req[r].login = {} /\ Renewing(r) = {}
  BY DEF Init, Renewing, Idle
<1>2. redis = {} \/ redis = {tok}
  BY DEF Init
<1>3. \A t \in redis : t = tok /\ t.login = 1 /\ issued = 1
  <2>1. \A t \in redis : t = tok /\ redis = {tok}
    BY <1>2
  <2>2. issued = Cardinality(redis) /\ tok.login = 1
    BY DEF Init
  <2> HIDE DEF tok
  <2> QED
    BY <2>1, <2>2, FS_Singleton
<1> HIDE DEF tok
<1> QED
  BY <1>1, <1>3 DEF Tok, OneLivePerLogin

LEMMA StepTok == Base /\ Tok /\ [Next]_vars => Tok'
<1> SUFFICES ASSUME Base, Tok, [Next]_vars PROVE Tok'
  OBVIOUS
<1>0. issued \in Nat /\ \A r \in Requests : req[r] \in Request /\ Shaped(req[r])
  BY DEF Base, TypeOK
<1>1. CASE UNCHANGED <<req, redis, issued>>
  BY <1>1 DEF Tok, OneLivePerLogin, Renewing
<1>2. ASSUME NEW r \in Requests, Begin(r)
      PROVE  Tok'
  <2>1. PICK q : Begun(r, q)
    BY <1>2, Beginning
  <2>2. q \in Request /\ req' = [req EXCEPT ![r] = q] /\ issued' = issued
    BY <2>1 DEF Begun
  <2>3. CASE q.pc \in {"answer", "commit"} \/ (q.pc = "store" /\ q.login = {})
    <3>1. Taken(q) = {} /\ q.login = {} /\ redis' = redis
      BY <2>1, <2>3 DEF Begun, Taken
    <3>2. Keeps(r, q)
      BY <2>2, <3>1 DEF Keeps
    <3> QED
      BY <2>2, <3>2, TokMoved
  <2>4. ASSUME NEW t \in redis, q.pc = "read", q.login = {t.login}, redis' = redis \ {t}
        PROVE  Tok'
    <3>1. Taken(q) = {t.login} /\ t.login <= issued
      BY <2>4 DEF Taken, Tok
    <3>2. Takes(r, q)
      BY <2>2, <2>4, <3>1 DEF Takes
    <3> QED
      BY <2>2, <3>2, TokMoved
  <2> QED
    BY <2>1, <2>3, <2>4 DEF Begun
<1>3. ASSUME NEW r \in Requests, ReadUser(r)
      PROVE  Tok'
  <2>1. PICK q \in Request :
           /\ req[r].pc = "read" /\ req' = [req EXCEPT ![r] = q]
           /\ (q.login = req[r].login /\ q.pc = "store") \/ (q.pc = "answer" /\ q.login = {})
    BY <1>3, ReadIs
  <2>2. redis' = redis /\ issued' = issued
    BY <1>3 DEF ReadUser
  <2>3. Taken(q) \subseteq Taken(req[r]) /\ \A l \in q.login : l <= issued
    BY <2>1 DEF Taken, Tok
  <2>4. Keeps(r, q)
    BY <2>2, <2>3 DEF Keeps
  <2> QED
    BY <2>1, <2>4, TokMoved
<1>4. ASSUME NEW r \in Requests, Store(r)
      PROVE  Tok'
  <2>1. PICK t \in RefreshToken :
           /\ req[r].pc = "store" /\ redis' = redis \cup {t} /\ issued' = issued + 1
           /\ \/ req[r].login = {} /\ t.login = issued + 1
              \/ req[r].login = {t.login}
    BY <1>4, StoreIs
  <2>2. PICK q : q = [req[r] EXCEPT !.pc = "answer", !.token = {issued'}, !.ok = TRUE]
    OBVIOUS
  <2>3. {issued'} \in SUBSET Nat
    BY <1>0, <2>1
  <2>4. q \in Request /\ q.pc = "answer" /\ q.login = req[r].login
    <3>1. q \in Request /\ q.pc = "answer"
      BY <1>0, <2>2, <2>3, DoneIs
    <3>2. q.login = req[r].login
      BY <1>0, <2>2 DEF Request
    <3> QED
      BY <3>1, <3>2
  <2>5. req' = [req EXCEPT ![r] = q]
    BY <1>4, <2>2 DEF Store
  <2>6. Taken(q) = {} /\ Taken(req[r]) = req[r].login
    BY <2>1, <2>4 DEF Taken
  <2>7. \A l \in req[r].login : l <= issued /\ l \in Nat
    BY <1>0 DEF Tok, Request
  <2>8. t.login <= issued' /\ \A l \in q.login : l <= issued'
    BY <1>0, <2>1, <2>4, <2>7
  <2>9. Gives(r, q)
    BY <2>1, <2>6, <2>8 DEF Gives
  <2> QED
    BY <2>4, <2>5, <2>9, TokMoved
<1>5. ASSUME NEW r \in Requests, Commit(r)
      PROVE  Tok'
  <2>1. req[r].pc = "commit" /\ redis' = redis /\ issued' = issued /\ req[r].login = {}
    BY <1>0, <1>5 DEF Commit, Shaped
  <2>2. PICK q : q = IF Collides(req[r]) \/ req[r].op = "seed" THEN Idle
                     ELSE [req[r] EXCEPT !.pc = "answer", !.ok = TRUE]
    OBVIOUS
  <2>3. q \in Request /\ q.login = {} /\ req' = [req EXCEPT ![r] = q]
    <3>1. Idle.login = {}
      BY DEF Idle
    <3>2. [req[r] EXCEPT !.pc = "answer", !.ok = TRUE] \in Request
          /\ [req[r] EXCEPT !.pc = "answer", !.ok = TRUE].login = {}
      BY <1>0, <2>1, DoneIs DEF Request
    <3> QED
      BY <1>5, <2>2, <3>1, <3>2, IdleType DEF Commit
  <2>4. Keeps(r, q)
    BY <2>1, <2>3 DEF Taken, Keeps
  <2> QED
    BY <2>3, <2>4, TokMoved
<1>6. ASSUME NEW r \in Requests, Answer(r) \/ Fail(r)
      PROVE  Tok'
  <2>1. req' = [req EXCEPT ![r] = Idle] /\ redis' = redis /\ issued' = issued
    BY <1>6 DEF Answer, Fail
  <2>2. Taken(Idle) = {} /\ Idle.login = {}
    BY DEF Taken, Idle
  <2>3. Keeps(r, Idle)
    BY <2>1, <2>2 DEF Keeps
  <2> QED
    BY <2>1, <2>3, IdleType, TokMoved
<1> QED
  BY <1>1, <1>2, <1>3, <1>4, <1>5, <1>6 DEF Next, Continue, Tick, vars

\* OneLivePerLogin: of the refresh tokens that descend from one login at most one
\* is usable, and none while a renewal of that login is under way.
THEOREM Rotation == Spec => []OneLivePerLogin
<1>1. Tok => OneLivePerLogin
  BY DEF Tok
<1> QED
  BY InitBase, StepBase, InitTok, StepTok, <1>1, PTL DEF Spec


-----------------------------------------------------------------------------
(* How long a lost role survives *)

\* The role in JWT j was held, and not too long ago for its exp.
Backed(j) ==
    /\ lastHeld[j.sub][j.role] > 0
    /\ j.exp <= lastHeld[j.sub][j.role] + AccessTTL

Fresh ==
    /\ now > 0
    /\ \A u \in Users, role \in Roles :
          /\ lastHeld[u][role] <= now
          /\ users[u].active /\ users[u].role = role => lastHeld[u][role] = now
    /\ \A j \in access : Backed(j) /\ now <= j.exp
    /\ \A r \in Requests : \A j \in req[r].new : Backed(j)

LEMMA BackedStays ==
    ASSUME Base, Fresh, Observe, now' \in Nat, now <= now'
    PROVE  /\ \A j \in JWT : Backed(j) => Backed(j)'
           /\ \A u \in Users, role \in Roles :
                 /\ lastHeld'[u][role] <= now'
                 /\ users'[u].active /\ users'[u].role = role => lastHeld'[u][role] = now'
<1>1. now \in Nat /\ AccessTTL \in Nat /\ lastHeld \in [Users -> [Roles -> Nat]]
  BY Constants DEF Base, TypeOK
<1>2. \A u \in Users, role \in Roles :
         lastHeld'[u][role] =
            IF users'[u].active /\ users'[u].role = role THEN now' ELSE lastHeld[u][role]
  BY HeldIs DEF Observe, Base
<1>3. \A u \in Users, role \in Roles :
         lastHeld[u][role] \in Nat /\ lastHeld[u][role] <= now
  BY <1>1 DEF Fresh
<1>4. \A u \in Users, role \in Roles :
         /\ lastHeld'[u][role] <= now'
         /\ users'[u].active /\ users'[u].role = role => lastHeld'[u][role] = now'
         /\ lastHeld[u][role] <= lastHeld'[u][role] /\ lastHeld'[u][role] \in Nat
  BY <1>1, <1>2, <1>3
<1>5. ASSUME NEW j \in JWT, Backed(j)
      PROVE  Backed(j)'
  <2>1. j.sub \in Users /\ j.role \in Roles /\ j.exp \in Nat
    BY DEF JWT
  <2>2. /\ lastHeld[j.sub][j.role] \in Nat /\ lastHeld'[j.sub][j.role] \in Nat
        /\ lastHeld[j.sub][j.role] <= lastHeld'[j.sub][j.role]
    BY <1>3, <1>4, <2>1
  <2> QED
    BY <1>1, <1>5, <2>1, <2>2 DEF Backed
<1> QED
  BY <1>4, <1>5

LEMMA FreshMoved ==
    ASSUME Base, Fresh, Observe, now' \in Nat, now <= now',
           access' \subseteq JWT, \A j \in access' : Backed(j) /\ now' <= j.exp,
           \A r \in Requests : \A j \in req'[r].new : j \in JWT /\ Backed(j)
    PROVE  Fresh'
<1>1. now \in Nat /\ now' > 0
  BY DEF Base, TypeOK, Fresh
<1>2. \A j \in access' : Backed(j)' /\ now' <= j.exp
  BY BackedStays
<1>3. \A r \in Requests : \A j \in req'[r].new : Backed(j)'
  BY BackedStays
<1> QED
  BY <1>1, <1>2, <1>3, BackedStays DEF Fresh

\* A step of one request, to which only what is backed is issued.
LEMMA FreshRequest ==
    ASSUME Base, Fresh, Observe, NEW r \in Requests, NEW q \in Request,
           req' = [req EXCEPT ![r] = q], now' = now,
           access' \subseteq access \cup {j \in req[r].new : now <= j.exp},
           \A j \in q.new : Backed(j)
    PROVE  Fresh'
<1>1. /\ now \in Nat /\ access \subseteq JWT /\ req \in [Requests -> Request]
      /\ \A p \in Request : p.new \subseteq JWT
  BY DEF Base, TypeOK, Request
<1>2. access' \subseteq JWT /\ \A j \in access' : Backed(j) /\ now' <= j.exp
  BY <1>1 DEF Fresh
<1>3. ASSUME NEW p \in Requests, NEW j \in req'[p].new
      PROVE  j \in JWT /\ Backed(j)
  <2>1. CASE p = r
    BY <1>1, <1>3, <2>1
  <2>2. CASE p # r
    BY <1>1, <1>3, <2>2 DEF Fresh
  <2> QED
    BY <2>1, <2>2
<1> QED
  BY <1>1, <1>2, <1>3, FreshMoved

LEMMA IssuedBacked ==
    ASSUME Base, Fresh, NEW u \in Users, users[u].active
    PROVE  \A j \in Issue(u) : Backed(j)
<1>1. now \in Nat /\ AccessTTL \in Nat
  BY Constants DEF Base, TypeOK
<1> SUFFICES ASSUME NEW j \in Issue(u) PROVE Backed(j)
  OBVIOUS
<1>2. j \in JWT /\ j.sub = u /\ j.role = users[u].role /\ j.exp = now + AccessTTL
  BY IssueType DEF Base
<1>3. j.role \in Roles
  BY <1>2 DEF JWT
<1>4. lastHeld[u][j.role] = now
  BY <1>2, <1>3 DEF Fresh
<1> QED
  BY <1>1, <1>2, <1>4 DEF Fresh, Backed

LEMMA InitFresh == Init => Fresh
<1> SUFFICES ASSUME Init PROVE Fresh
  OBVIOUS
<1>1. /\ now = 1 /\ AccessTTL \in Nat /\ \A r \in Requests : req[r].new = {}
  BY Constants DEF Init, Idle
<1>2. \A u \in Users, role \in Roles :
         lastHeld[u][role] = IF users[u].active /\ users[u].role = role THEN now ELSE 0
  BY DEF Init
<1>3. ASSUME NEW j \in access
      PROVE  Backed(j) /\ now <= j.exp
  <2>1. /\ j \in JWTsAt(now) /\ users[j.sub].active /\ users[j.sub].role = j.role
    BY <1>3 DEF Init
  <2>2. j.sub \in Users /\ j.role \in Roles /\ j.exp = now + AccessTTL
    BY <2>1 DEF JWTsAt
  <2>3. lastHeld[j.sub][j.role] = now
    BY <1>2, <2>1, <2>2
  <2> QED
    BY <1>1, <2>2, <2>3 DEF Backed
<1> QED
  BY <1>1, <1>2, <1>3 DEF Fresh

LEMMA StepFresh == Base /\ Fresh /\ [Next]_vars => Fresh'
<1> SUFFICES ASSUME Base, Fresh, [Next]_vars PROVE Fresh'
  OBVIOUS
<1>0. \A r \in Requests : req[r] \in Request /\ Shaped(req[r])
  BY DEF Base, TypeOK
<1>1. CASE UNCHANGED vars
  BY <1>1 DEF Fresh, Backed, vars
<1>2. CASE Tick /\ Observe
  <2>1. now' = now + 1 /\ access' = {j \in access : now' <= j.exp} /\ req' = req
    BY <1>2 DEF Tick
  <2>2. /\ now \in Nat /\ access \subseteq JWT
        /\ \A r \in Requests : \A j \in req[r].new : j \in JWT
    BY DEF Base, TypeOK, Request
  <2>3. now' \in Nat /\ now <= now' /\ access' \subseteq JWT
    BY <2>1, <2>2
  <2>4. \A j \in access' : Backed(j) /\ now' <= j.exp
    BY <2>1 DEF Fresh
  <2>5. \A r \in Requests : \A j \in req'[r].new : j \in JWT /\ Backed(j)
    BY <2>1, <2>2 DEF Fresh
  <2> QED
    BY <1>2, <2>3, <2>4, <2>5, FreshMoved
<1>3. ASSUME NEW r \in Requests, Begin(r), Observe
      PROVE  Fresh'
  <2>1. PICK q : Begun(r, q)
    BY <1>3, Beginning
  <2>2. /\ q \in Request /\ req' = [req EXCEPT ![r] = q] /\ now' = now /\ access' = access
    BY <2>1 DEF Begun
  <2>3. q.new = {} \/ \E u \in Users : users[u].active /\ q.new = Issue(u)
    BY <2>1 DEF Begun
  <2>4. \A j \in q.new : Backed(j)
    BY <2>3, IssuedBacked
  <2> QED
    BY <1>3, <2>2, <2>4, FreshRequest
<1>4. ASSUME NEW r \in Requests, ReadUser(r), Observe
      PROVE  Fresh'
  <2>1. PICK u \in Users, q \in Request :
           /\ req' = [req EXCEPT ![r] = q]
           /\ (users[u].active /\ q.new = Issue(u)) \/ q.new = {}
    BY <1>4, ReadIs
  <2>2. now' = now /\ access' = access
    BY <1>4 DEF ReadUser
  <2>3. \A j \in q.new : Backed(j)
    BY <2>1, IssuedBacked
  <2> QED
    BY <1>4, <2>1, <2>2, <2>3, FreshRequest
<1>5. ASSUME NEW r \in Requests, Store(r), Observe
      PROVE  Fresh'
  <2>1. PICK q : q = [req[r] EXCEPT !.pc = "answer", !.token = {issued'}, !.ok = TRUE]
    OBVIOUS
  <2>2. {issued'} \in SUBSET Nat
    BY <1>5 DEF Store, Base, TypeOK
  <2>3. q \in Request /\ q.new = req[r].new
    BY <1>0, <2>1, <2>2, DoneIs
  <2>4. req' = [req EXCEPT ![r] = q] /\ now' = now /\ access' = access
    BY <1>5, <2>1 DEF Store
  <2>5. \A j \in q.new : Backed(j)
    BY <2>3 DEF Fresh
  <2> QED
    BY <1>5, <2>3, <2>4, <2>5, FreshRequest
<1>6. ASSUME NEW r \in Requests, Commit(r), Observe
      PROVE  Fresh'
  <2>1. PICK q : q = IF Collides(req[r]) \/ req[r].op = "seed" THEN Idle
                     ELSE [req[r] EXCEPT !.pc = "answer", !.ok = TRUE]
    OBVIOUS
  <2>2. q \in Request /\ q.new \subseteq req[r].new
    <3>1. CASE q = Idle
      BY <3>1, IdleType DEF Idle
    <3>2. CASE q = [req[r] EXCEPT !.pc = "answer", !.ok = TRUE]
      BY <1>0, <3>2, DoneIs
    <3> QED
      BY <2>1, <3>1, <3>2
  <2>3. req' = [req EXCEPT ![r] = q] /\ now' = now /\ access' = access
    BY <1>6, <2>1 DEF Commit
  <2>4. \A j \in q.new : Backed(j)
    BY <2>2 DEF Fresh
  <2> QED
    BY <1>6, <2>2, <2>3, <2>4, FreshRequest
<1>7. ASSUME NEW r \in Requests, Answer(r) \/ Fail(r), Observe
      PROVE  Fresh'
  <2>1. /\ req' = [req EXCEPT ![r] = Idle] /\ now' = now
        /\ access' \subseteq access \cup {j \in req[r].new : now <= j.exp}
    BY <1>7 DEF Answer, Fail
  <2>2. Idle.new = {}
    BY DEF Idle
  <2>3. \A j \in Idle.new : Backed(j)
    BY <2>2
  <2> QED
    BY <1>7, <2>1, <2>3, IdleType, FreshRequest
<1> QED
  BY <1>1, <1>2, <1>3, <1>4, <1>5, <1>6, <1>7 DEF Next, Continue

\* BoundedRevocation: a client may act with a role its user lost, but never later
\* than AccessTTL after the loss, renewals included.
THEOREM Revocation == Spec => []BoundedRevocation
<1>1. Base /\ Fresh => BoundedRevocation
  <2> SUFFICES ASSUME Base, Fresh, NEW j \in access
               PROVE  /\ lastHeld[j.sub][j.role] > 0
                      /\ now <= lastHeld[j.sub][j.role] + AccessTTL
    BY DEF BoundedRevocation
  <2>1. /\ j.sub \in Users /\ j.role \in Roles /\ j.exp \in Nat /\ now \in Nat
        /\ AccessTTL \in Nat
    BY Constants DEF Base, TypeOK, JWT
  <2>2. lastHeld[j.sub][j.role] \in Nat
    BY <2>1 DEF Base, TypeOK
  <2> QED
    BY <2>1, <2>2 DEF Fresh, Backed
<1> QED
  BY InitBase, StepBase, InitFresh, StepFresh, <1>1, PTL DEF Spec

-----------------------------------------------------------------------------
(* Who changes an account *)

\* Nothing but a COMMIT changes the table.
LEMMA OnlyCommits ==
    ASSUME Base, [Next]_vars, users' # users
    PROVE  \E r \in Requests : Commit(r)
<1>1. \A r \in Requests : Begin(r) => users' = users
  BY Beginning DEF Begun
<1> QED
  BY <1>1 DEF Next, Continue, Tick, ReadUser, Store, Answer, Fail, vars

\* Whoever commits is at the commit, and moves on.
LEMMA CommitActs ==
    ASSUME Base, NEW r \in Requests, Commit(r)
    PROVE  Acts(r)
<1>1. req[r].pc = "commit" /\ req \in [Requests -> Request]
  BY DEF Commit, Base, TypeOK
<1>2. PICK q : q = IF Collides(req[r]) \/ req[r].op = "seed" THEN Idle
                   ELSE [req[r] EXCEPT !.pc = "answer", !.ok = TRUE]
  OBVIOUS
<1>3. req'[r] = q
  BY <1>1, <1>2 DEF Commit
<1>4. Idle.pc = "idle" /\ [req[r] EXCEPT !.pc = "answer", !.ok = TRUE].pc # "commit"
  BY <1>1 DEF Idle, Request
<1> QED
  BY <1>1, <1>2, <1>3, <1>4 DEF Acts

\* OnlyNamedColumns: a column of a user changes only to the value a PATCH or a
\* DELETE named, whatever the two requests that change the user.
THEOREM NamedColumns == Spec => OnlyNamedColumns
<1>1. ASSUME Base, [Next]_vars, NEW u \in Users, users[u] # NoRow
      PROVE  /\ users'[u].role # users[u].role =>
                   \E r \in Requests : Acts(r) /\ users'[u].role \in req[r].body.role
             /\ users'[u].active # users[u].active =>
                   \E r \in Requests : Acts(r) /\ users'[u].active \in req[r].body.active
  <2>1. CASE users' = users
    BY <2>1
  <2>2. CASE users' # users
    <3>1. PICK r \in Requests : Commit(r)
      BY <1>1, <2>2, OnlyCommits
    <3>2. Acts(r)
      BY <1>1, <3>1, CommitActs
    <3> QED
      BY <1>1, <3>1, <3>2, CommitIs
  <2> QED
    BY <2>1, <2>2
<1>2. Base /\ [Next]_vars =>
        [\A u \in Users : users[u] # NoRow =>
          /\ users'[u].role # users[u].role =>
                \E r \in Requests : Acts(r) /\ users'[u].role \in req[r].body.role
          /\ users'[u].active # users[u].active =>
                \E r \in Requests : Acts(r) /\ users'[u].active \in req[r].body.active]_vars
  BY <1>1
<1> QED
  BY InitBase, StepBase, <1>2, PTL DEF Spec, OnlyNamedColumns

\* LastAdminStays: the last administrator disappears only by a PATCH on oneself or
\* by a request of someone who is no longer an administrator when it commits.
THEOREM LastAdmin == Spec => LastAdminStays
<1>1. ASSUME Base, [Next]_vars, NEW a \in Users, IsAdmin(a), ~(\E u \in Users : IsAdmin(u)')
      PROVE  \E r \in Requests :
                /\ Acts(r)
                /\ \/ req[r].op = "patch" /\ req[r].user = {j.sub : j \in req[r].by}
                   \/ \A j \in req[r].by : ~IsAdmin(j.sub)
  <2>1. users'[a] # users[a]
    BY <1>1 DEF IsAdmin
  <2>2. PICK r \in Requests : Commit(r)
    BY <1>1, <2>1, OnlyCommits
  <2>3. req[r].pc = "commit" /\ Shaped(req[r])
    BY <1>1, <2>2 DEF Commit, Base
  <2>4. Acts(r) /\ req[r].user = {a} /\ ~Collides(req[r]) /\ users[a] # NoRow
    BY <1>1, <2>1, <2>2, CommitIs, CommitActs DEF IsAdmin, NoRow
  <2>5. req[r].op \in {"patch", "delete"}
    BY <2>3, <2>4 DEF Shaped, Collides
  <2>6. PICK j \in JWT : req[r].by = {j} /\ (req[r].op = "delete" => a # j.sub)
    BY <2>3, <2>4, <2>5 DEF Shaped
  <2>7. CASE j.sub = a
    <3>1. {k.sub : k \in req[r].by} = {a}
      BY <2>6, <2>7
    <3> QED
      BY <2>4, <2>5, <2>6, <2>7, <3>1
  <2>8. CASE j.sub # a
    <3>1. j.sub \in Users
      BY DEF JWT
    <3>2. users'[j.sub] = users[j.sub]
      BY <1>1, <2>2, <2>4, <2>8, <3>1, CommitIs
    <3>3. ~IsAdmin(j.sub)
      BY <1>1, <3>1, <3>2 DEF IsAdmin
    <3> QED
      BY <2>4, <2>6, <3>3
  <2> QED
    BY <2>7, <2>8
<1>2. Base /\ [Next]_vars =>
        [(\E u \in Users : IsAdmin(u)) /\ ~(\E u \in Users : IsAdmin(u)')
          => \E r \in Requests :
                /\ Acts(r)
                /\ \/ req[r].op = "patch" /\ req[r].user = {j.sub : j \in req[r].by}
                   \/ \A j \in req[r].by : ~IsAdmin(j.sub)]_vars
  BY <1>1
<1> QED
  BY InitBase, StepBase, <1>2, PTL DEF Spec, LastAdminStays


-----------------------------------------------------------------------------
(* Refinement of SessionLife *)

\* The sessions a token in Redis and a request q hold open.
SessionOf(t) == [login |-> t.login, user |-> t.user]
SessionsOf(q) == [login : Taken(q), user : q.user]

LEMMA GrantedHas ==
    \A g : g \in Granted <=> \/ g \in access
                             \/ \E p \in Requests : g \in req[p].new \cup req[p].by
BY DEF Granted

LEMMA GrantedHasNext ==
    \A g : g \in Granted' <=> \/ g \in access'
                              \/ \E p \in Requests : g \in req'[p].new \cup req'[p].by
BY DEF Granted

LEMMA OpenHas ==
    \A c : c \in Open <=> \/ \E t \in redis : c = SessionOf(t)
                          \/ \E p \in Requests : c \in SessionsOf(req[p])
BY DEF Open, SessionOf, SessionsOf, Renewing, Taken

LEMMA OpenHasNext ==
    \A c : c \in Open' <=> \/ \E t \in redis' : c = SessionOf(t)
                           \/ \E p \in Requests : c \in SessionsOf(req'[p])
BY DEF Open, SessionOf, SessionsOf, Renewing, Taken

LEMMA SessionsOfOne ==
    ASSUME NEW q
    PROVE  /\ Taken(q) = {} => SessionsOf(q) = {}
           /\ \A t : Taken(q) = {t.login} /\ q.user = {t.user} => SessionsOf(q) = {SessionOf(t)}
<1>1. Taken(q) = {} => SessionsOf(q) = {}
  BY DEF SessionsOf
<1>2. ASSUME NEW t, Taken(q) = {t.login}, q.user = {t.user}
      PROVE  SessionsOf(q) = {SessionOf(t)}
  <2>1. SessionsOf(q) = [login : {t.login}, user : {t.user}]
    BY <1>2 DEF SessionsOf
  <2>2. SessionOf(t) \in SessionsOf(q)
    BY <2>1 DEF SessionOf
  <2>3. \A c \in SessionsOf(q) : c = SessionOf(t)
    BY <2>1 DEF SessionOf
  <2> QED
    BY <2>2, <2>3
<1> QED
  BY <1>1, <1>2

\* What a step of request r does to the grants ...
LEMMA GrantedMoved ==
    ASSUME Base, NEW r \in Requests, NEW q \in Request, req' = [req EXCEPT ![r] = q]
    PROVE  /\ access' = access /\ q.new = req[r].new /\ q.by \cup access = req[r].by \cup access
                 => Granted' = Granted
           /\ access' \subseteq access \cup req[r].new
              /\ q.new \cup q.by \subseteq req[r].new \cup req[r].by
                 => Granted' \subseteq Granted
           /\ \A g : access' = access /\ q.new = {g} /\ q.by = {}
                     /\ req[r].new = {} /\ req[r].by = {}
                        => Granted' = Granted \cup {g}
<1>1. \A p \in Requests : req'[p] = IF p = r THEN q ELSE req[p]
  BY DEF Base, TypeOK
<1>2. \A g : g \in Granted' <=> \/ g \in access' \/ g \in q.new \cup q.by
                                \/ \E p \in Requests \ {r} : g \in req[p].new \cup req[p].by
  BY <1>1, GrantedHasNext
<1>3. \A g : g \in Granted <=> \/ g \in access \/ g \in req[r].new \cup req[r].by
                               \/ \E p \in Requests \ {r} : g \in req[p].new \cup req[p].by
  BY GrantedHas
<1>4. ASSUME access' = access, q.new = req[r].new, q.by \cup access = req[r].by \cup access
      PROVE  Granted' = Granted
  <2>1. \A g : g \in access \/ g \in q.new \cup q.by
               <=> g \in access \/ g \in req[r].new \cup req[r].by
    BY <1>4
  <2> QED
    BY <1>2, <1>3, <1>4, <2>1
<1>5. ASSUME access' \subseteq access \cup req[r].new,
             q.new \cup q.by \subseteq req[r].new \cup req[r].by
      PROVE  Granted' \subseteq Granted
  BY <1>2, <1>3, <1>5
<1>6. ASSUME NEW g, access' = access, q.new = {g}, q.by = {}, req[r].new = {}, req[r].by = {}
      PROVE  Granted' = Granted \cup {g}
  BY <1>2, <1>3, <1>6
<1> QED
  BY <1>4, <1>5, <1>6

\* ... and to the sessions.
LEMMA OpenMoved ==
    ASSUME Base, NEW r \in Requests, NEW q \in Request, req' = [req EXCEPT ![r] = q]
    PROVE  /\ redis' = redis /\ SessionsOf(q) = SessionsOf(req[r]) => Open' = Open
           /\ redis' = redis /\ SessionsOf(q) = {} => Open' \subseteq Open
           /\ \A t \in redis : redis' = redis \ {t} /\ SessionsOf(q) = {SessionOf(t)}
                               /\ SessionsOf(req[r]) = {} => Open' = Open
           /\ \A t : redis' = redis \cup {t} /\ SessionsOf(q) = {}
                     /\ SessionsOf(req[r]) = {} => Open' = Open \cup {SessionOf(t)}
           /\ \A t : redis' = redis \cup {t} /\ SessionsOf(q) = {}
                     /\ SessionsOf(req[r]) = {SessionOf(t)} => Open' = Open
<1>1. \A p \in Requests : req'[p] = IF p = r THEN q ELSE req[p]
  BY DEF Base, TypeOK
<1>2. \A c : c \in Open' <=> \/ \E s \in redis' : c = SessionOf(s)
                             \/ c \in SessionsOf(q)
                             \/ \E p \in Requests \ {r} : c \in SessionsOf(req[p])
  BY <1>1, OpenHasNext
<1>3. \A c : c \in Open <=> \/ \E s \in redis : c = SessionOf(s)
                            \/ c \in SessionsOf(req[r])
                            \/ \E p \in Requests \ {r} : c \in SessionsOf(req[p])
  BY OpenHas
<1>4. ASSUME redis' = redis, SessionsOf(q) = SessionsOf(req[r])
      PROVE  Open' = Open
  BY <1>2, <1>3, <1>4
<1>5. ASSUME redis' = redis, SessionsOf(q) = {}
      PROVE  Open' \subseteq Open
  BY <1>2, <1>3, <1>5
<1>6. ASSUME NEW t \in redis, redis' = redis \ {t}, SessionsOf(q) = {SessionOf(t)},
             SessionsOf(req[r]) = {}
      PROVE  Open' = Open
  BY <1>2, <1>3, <1>6
<1>7. ASSUME NEW t, redis' = redis \cup {t}, SessionsOf(q) = {}, SessionsOf(req[r]) = {}
      PROVE  Open' = Open \cup {SessionOf(t)}
  BY <1>2, <1>3, <1>7
<1>8. ASSUME NEW t, redis' = redis \cup {t}, SessionsOf(q) = {},
             SessionsOf(req[r]) = {SessionOf(t)}
      PROVE  Open' = Open
  BY <1>2, <1>3, <1>8
<1> QED
  BY <1>4, <1>5, <1>6, <1>7, <1>8


\* Until the first account is there, nothing is granted.
Led == users[DefaultAdmin] = NoRow => Granted = {} /\ \A u \in Users : users[u] = NoRow

LEMMA InitLed == Init => Led
<1> SUFFICES ASSUME Init, users[DefaultAdmin] = NoRow
             PROVE  Granted = {} /\ \A u \in Users : users[u] = NoRow
  BY DEF Led
<1>1. \A u \in Users : users[u] = NoRow
  BY SeedAssumption DEF Init
<1>2. \A j \in access : j.sub \in Users /\ users[j.sub].active
  BY DEF Init, JWTsAt
<1>3. access = {}
  BY <1>1, <1>2 DEF NoRow
<1>4. \A r \in Requests : req[r].new = {} /\ req[r].by = {}
  BY DEF Init, Idle
<1> QED
  BY <1>1, <1>3, <1>4, GrantedHas

\* The answers of SessionLife to a step of Sessions.
LEMMA BeginSimulates ==
    ASSUME Base, NEW r \in Requests, Begin(r)
    PROVE  \/ UNCHANGED <<now, users, Granted, Open, issued>>
           \/ \E u \in Users : Life!Grant(u)
<1>1. PICK q : Begun(r, q)
  BY Beginning
<1>2. /\ q \in Request /\ req' = [req EXCEPT ![r] = q] /\ access' = access
      /\ now' = now /\ users' = users /\ issued' = issued /\ q.by \subseteq access
      /\ req[r] = Idle
  BY <1>1 DEF Begun
<1>3. /\ req[r].new = {} /\ req[r].by = {} /\ Taken(req[r]) = {}
      /\ SessionsOf(req[r]) = {}
  BY <1>2, SessionsOfOne DEF Idle, Taken
<1>4. CASE q.pc \in {"answer", "commit"} /\ q.new = {} /\ redis' = redis
  <2>1. SessionsOf(q) = {}
    BY <1>4, SessionsOfOne DEF Taken
  <2>2. Open' = Open
    BY <1>2, <1>3, <1>4, <2>1, OpenMoved
  <2>3. q.new = req[r].new /\ q.by \cup access = req[r].by \cup access
    BY <1>2, <1>3, <1>4
  <2>4. Granted' = Granted
    BY <1>2, <2>3, GrantedMoved
  <2> QED
    BY <1>2, <2>2, <2>4
<1>5. ASSUME NEW u \in Users, users[u].active, q.new = Issue(u), q.by = {},
             q.pc = "store", q.login = {}, redis' = redis
      PROVE  Life!Grant(u)
  <2> DEFINE g == [sub |-> u, role |-> users[u].role, exp |-> now + AccessTTL]
  <2>1. SessionsOf(q) = {}
    BY <1>5, SessionsOfOne DEF Taken
  <2>2. Open' = Open
    BY <1>2, <1>3, <1>5, <2>1, OpenMoved
  <2>3. q.new = {g}
    BY <1>5, IssueType DEF Base
  <2> HIDE DEF g
  <2>4. Granted' = Granted \cup {g}
    BY <1>2, <1>3, <1>5, <2>3, GrantedMoved
  <2> QED
    BY <1>2, <1>5, <2>2, <2>4 DEF Life!Grant, g
<1>6. ASSUME NEW t \in redis, q.pc = "read", q.new = {}, q.by = {},
             q.user = {t.user}, q.login = {t.login}, redis' = redis \ {t}
      PROVE  UNCHANGED <<now, users, Granted, Open, issued>>
  <2>1. Taken(q) = {t.login}
    BY <1>6 DEF Taken
  <2>2. SessionsOf(q) = {SessionOf(t)}
    BY <1>6, <2>1, SessionsOfOne
  <2>3. Open' = Open
    BY <1>2, <1>3, <1>6, <2>2, OpenMoved
  <2>4. Granted' = Granted
    BY <1>2, <1>3, <1>6, GrantedMoved
  <2> QED
    BY <1>2, <2>3, <2>4
<1> QED
  BY <1>1, <1>4, <1>5, <1>6 DEF Begun

LEMMA ReadSimulates ==
    ASSUME Base, NEW r \in Requests, ReadUser(r)
    PROVE  Life!Withdraw \/ \E u \in Users : Life!Grant(u)
<1>1. PICK u \in Users, q \in Request :
        /\ req[r].pc = "read" /\ req[r].user = {u} /\ req[r].by = {} /\ req[r].new = {}
        /\ req' = [req EXCEPT ![r] = q]
        /\ \/ /\ users[u].active /\ q.pc = "store" /\ q.new = Issue(u) /\ q.by = {}
              /\ q.user = {u} /\ q.login = req[r].login
           \/ /\ ~users[u].active /\ q.pc = "answer" /\ q.new = {} /\ q.by = {}
              /\ q.login = {} /\ q.token = {}
  BY ReadIs
<1>2. UNCHANGED <<now, users, redis, issued, access>>
  BY DEF ReadUser
<1>3. ASSUME users[u].active, q.pc = "store", q.new = Issue(u), q.by = {},
             q.user = {u}, q.login = req[r].login
      PROVE  Life!Grant(u)
  <2> DEFINE g == [sub |-> u, role |-> users[u].role, exp |-> now + AccessTTL]
  <2>1. SessionsOf(q) = SessionsOf(req[r])
    BY <1>1, <1>3 DEF SessionsOf, Taken
  <2>2. Open' = Open
    BY <1>1, <1>2, <2>1, OpenMoved
  <2>3. q.new = {g}
    BY <1>3, IssueType DEF Base
  <2> HIDE DEF g
  <2>4. Granted' = Granted \cup {g}
    BY <1>1, <1>2, <1>3, <2>3, GrantedMoved
  <2> QED
    BY <1>2, <1>3, <2>2, <2>4 DEF Life!Grant, g
<1>4. ASSUME q.pc = "answer", q.new = {}, q.by = {}
      PROVE  Life!Withdraw
  <2>1. SessionsOf(q) = {}
    BY <1>4, SessionsOfOne DEF Taken
  <2>2. Open' \subseteq Open
    BY <1>1, <1>2, <2>1, OpenMoved
  <2>3. Granted' = Granted
    BY <1>1, <1>2, <1>4, GrantedMoved
  <2> QED
    BY <1>2, <2>2, <2>3 DEF Life!Withdraw
<1> QED
  BY <1>1, <1>3, <1>4

LEMMA StoreSimulates ==
    ASSUME Base, NEW r \in Requests, Store(r)
    PROVE  Life!Extend \/ \E u \in Users : Life!Open(u)
<1>1. PICK t \in RefreshToken :
        /\ req[r].pc = "store" /\ req[r].user = {t.user} /\ req[r].by = {}
        /\ redis' = redis \cup {t} /\ issued' = issued + 1
        /\ \/ req[r].login = {} /\ t.login = issued + 1
           \/ req[r].login = {t.login}
  BY StoreIs
<1>2. /\ UNCHANGED <<now, users, access>> /\ issued \in Nat
      /\ req[r] \in Request /\ Shaped(req[r])
  BY DEF Store, Base, TypeOK
<1>3. PICK q : q = [req[r] EXCEPT !.pc = "answer", !.token = {issued'}, !.ok = TRUE]
  OBVIOUS
<1>4. {issued'} \in SUBSET Nat
  BY <1>1, <1>2
<1>5. q \in Request /\ q.pc = "answer" /\ q.new = req[r].new /\ q.by = req[r].by
  BY <1>2, <1>3, <1>4, DoneIs
<1>6. req' = [req EXCEPT ![r] = q]
  BY <1>3 DEF Store
<1>7. Granted' = Granted
  BY <1>2, <1>5, <1>6, GrantedMoved
<1>8. SessionsOf(q) = {}
  BY <1>5, SessionsOfOne DEF Taken
<1>9. Taken(req[r]) = req[r].login
  BY <1>1 DEF Taken
<1>10. issued' > issued
  BY <1>1, <1>2
<1>11. CASE req[r].login = {} /\ t.login = issued + 1
  <2>1. SessionsOf(req[r]) = {}
    BY <1>9, <1>11, SessionsOfOne
  <2>2. Open' = Open \cup {SessionOf(t)}
    BY <1>1, <1>5, <1>6, <1>8, <2>1, OpenMoved
  <2>3. SessionOf(t) = [login |-> issued', user |-> t.user] /\ t.user \in Users
    BY <1>1, <1>11 DEF SessionOf, RefreshToken
  <2>4. Life!Open(t.user)
    BY <1>2, <1>7, <1>10, <2>2, <2>3 DEF Life!Open
  <2> QED
    BY <2>3, <2>4
<1>12. CASE req[r].login = {t.login}
  <2>1. SessionsOf(req[r]) = {SessionOf(t)}
    BY <1>1, <1>9, <1>12, SessionsOfOne
  <2>2. Open' = Open
    BY <1>1, <1>5, <1>6, <1>8, <2>1, OpenMoved
  <2> QED
    BY <1>2, <1>7, <1>10, <2>2 DEF Life!Extend
<1> QED
  BY <1>1, <1>11, <1>12


LEMMA CommitSimulates ==
    ASSUME Base, Led, NEW r \in Requests, Commit(r)
    PROVE  \/ UNCHANGED <<now, users, Granted, Open, issued>>
           \/ Life!Withdraw
           \/ \E u \in Users : Life!Manage(u) \/ Life!First(u)
<1>1. /\ req[r].pc = "commit" /\ Shaped(req[r]) /\ req[r] \in Request
      /\ UNCHANGED <<now, redis, issued, access>>
      /\ users \in [Users -> Row \cup {NoRow}]
      /\ users' = IF Collides(req[r]) THEN users
                  ELSE [u \in Users |-> IF u \in req[r].user THEN Updated(req[r], users[u])
                                        ELSE users[u]]
  BY DEF Commit, Base, TypeOK
<1>2. PICK q : q = IF Collides(req[r]) \/ req[r].op = "seed" THEN Idle
                   ELSE [req[r] EXCEPT !.pc = "answer", !.ok = TRUE]
  OBVIOUS
<1>3. req' = [req EXCEPT ![r] = q]
  BY <1>2 DEF Commit
<1>4. \/ q = Idle /\ (Collides(req[r]) \/ req[r].op = "seed")
      \/ /\ q = [req[r] EXCEPT !.pc = "answer", !.ok = TRUE]
         /\ ~Collides(req[r]) /\ req[r].op # "seed"
  BY <1>2
<1>5. /\ q \in Request /\ q.pc # "read" /\ q.pc # "store"
      /\ q.new \cup q.by \subseteq req[r].new \cup req[r].by
      /\ q # Idle => q.new = req[r].new /\ q.by = req[r].by
  <2>1. CASE q = Idle
    BY <2>1, IdleType DEF Idle
  <2>2. CASE q = [req[r] EXCEPT !.pc = "answer", !.ok = TRUE]
    BY <1>1, <2>2, DoneIs
  <2> QED
    BY <1>4, <2>1, <2>2
<1>6. Open' = Open
  <2>1. SessionsOf(q) = {} /\ SessionsOf(req[r]) = {}
    BY <1>1, <1>5, SessionsOfOne DEF Taken
  <2> QED
    BY <1>1, <1>3, <1>5, <2>1, OpenMoved
<1>7. Granted' \subseteq Granted
  BY <1>1, <1>3, <1>5, GrantedMoved
<1>8. CASE Collides(req[r])
  BY <1>1, <1>6, <1>7, <1>8 DEF Life!Withdraw
<1>9. CASE ~Collides(req[r]) /\ req[r].op = "write"
  <2>1. req[r].user = {}
    BY <1>1, <1>9 DEF Shaped
  <2>2. users' = users
    BY <1>1, <1>9, <2>1
  <2>3. Granted' = Granted
    BY <1>1, <1>3, <1>4, <1>5, <1>9, GrantedMoved DEF Idle
  <2> QED
    BY <1>1, <1>6, <2>2, <2>3
<1>10. CASE ~Collides(req[r]) /\ req[r].op = "seed"
  <2>1. req[r].user = {DefaultAdmin} /\ req[r].by = {} /\ req[r].new = {} /\ q = Idle
    BY <1>1, <1>4, <1>10 DEF Shaped
  <2>2. users[DefaultAdmin] = NoRow
    BY <1>10, <2>1 DEF Collides
  <2>3. \A v \in Users : users[v] = NoRow
    BY <2>2 DEF Led
  <2>4. Updated(req[r], users[DefaultAdmin]) = [role |-> "ADMIN", active |-> TRUE]
    BY <1>1, <1>10, <2>1, UpdatedType
  <2>5. users'[DefaultAdmin] = [role |-> "ADMIN", active |-> TRUE] /\ DefaultAdmin \in Users
        /\ \A v \in Users \ {DefaultAdmin} : users'[v] = NoRow
    BY <1>1, <1>10, <2>1, <2>3, <2>4, Constants
  <2>6. q.new = {} /\ q.by = {}
    BY <2>1 DEF Idle
  <2>7. Granted' = Granted
    BY <1>1, <1>3, <1>5, <2>1, <2>6, GrantedMoved
  <2>8. Life!First(DefaultAdmin)
    BY <1>1, <1>6, <2>3, <2>5, <2>7 DEF Life!First
  <2> QED
    BY <2>5, <2>8
<1>11. CASE ~Collides(req[r]) /\ req[r].op \in {"create", "patch", "delete"}
  <2>1. PICK u \in Users, j \in JWT : req[r].user = {u} /\ req[r].by = {j} /\ j.role = "ADMIN"
    BY <1>1, <1>11 DEF Shaped
  <2>2. j \in Granted
    BY <2>1, GrantedHas
  <2>3. Updated(req[r], users[u]) \in Row
    BY <1>1, <1>11, <2>1, UpdatedType
  <2>4. users'[u].role \in Roles /\ \A v \in Users \ {u} : users'[v] = users[v]
    BY <1>1, <1>11, <2>1, <2>3 DEF Row
  <2>5. q.new = req[r].new /\ q.by = req[r].by
    BY <1>4, <1>5, <1>11, <2>1 DEF Idle
  <2>6. Granted' = Granted
    BY <1>1, <1>3, <1>5, <2>5, GrantedMoved
  <2>7. Life!Manage(u)
    BY <1>1, <1>6, <2>1, <2>2, <2>4, <2>6 DEF Life!Manage
  <2> QED
    BY <2>7
<1> QED
  BY <1>1, <1>8, <1>9, <1>10, <1>11 DEF Shaped

LEMMA EndSimulates ==
    ASSUME Base, NEW r \in Requests, Answer(r) \/ Fail(r)
    PROVE  Life!Withdraw
<1>1. /\ UNCHANGED <<now, users, redis, issued>> /\ req' = [req EXCEPT ![r] = Idle]
      /\ access' \subseteq access \cup req[r].new
  BY DEF Answer, Fail
<1>2. Taken(Idle) = {} /\ Idle.new \cup Idle.by = {}
  BY DEF Taken, Idle
<1>3. SessionsOf(Idle) = {}
  BY <1>2, SessionsOfOne
<1>4. Open' \subseteq Open
  BY <1>1, <1>3, IdleType, OpenMoved
<1>5. Granted' \subseteq Granted
  BY <1>1, <1>2, IdleType, GrantedMoved
<1> QED
  BY <1>1, <1>4, <1>5 DEF Life!Withdraw

LEMMA TickSimulates ==
    ASSUME Base, Tick
    PROVE  Life!Pass
<1>1. UNCHANGED <<users, redis, issued, req>> /\ now' = now + 1 /\ access' \subseteq access
  BY DEF Tick
<1>2. Open' = Open
  BY <1>1 DEF Open, Renewing
<1>3. Granted' \subseteq Granted
  BY <1>1, GrantedHas, GrantedHasNext
<1> QED
  BY <1>1, <1>2, <1>3 DEF Life!Pass

\* Every step is a step of SessionLife or no step of it.
LEMMA StepSimulates ==
    ASSUME Base, Led, [Next]_vars
    PROVE  [Life!LifeNext]_<<now, users, Granted, Open, issued>>
<1>1. CASE UNCHANGED vars
  BY <1>1 DEF vars, Granted, Open, Renewing
<1>2. CASE Tick
  BY <1>2, TickSimulates DEF Life!LifeNext
<1>3. ASSUME NEW r \in Requests, Begin(r)
      PROVE  [Life!LifeNext]_<<now, users, Granted, Open, issued>>
  BY <1>3, BeginSimulates DEF Life!LifeNext
<1>4. ASSUME NEW r \in Requests, ReadUser(r)
      PROVE  [Life!LifeNext]_<<now, users, Granted, Open, issued>>
  BY <1>4, ReadSimulates DEF Life!LifeNext
<1>5. ASSUME NEW r \in Requests, Store(r)
      PROVE  [Life!LifeNext]_<<now, users, Granted, Open, issued>>
  BY <1>5, StoreSimulates DEF Life!LifeNext
<1>6. ASSUME NEW r \in Requests, Commit(r)
      PROVE  [Life!LifeNext]_<<now, users, Granted, Open, issued>>
  BY <1>6, CommitSimulates DEF Life!LifeNext
<1>7. ASSUME NEW r \in Requests, Answer(r) \/ Fail(r)
      PROVE  [Life!LifeNext]_<<now, users, Granted, Open, issued>>
  BY <1>7, EndSimulates DEF Life!LifeNext
<1> QED
  BY <1>1, <1>2, <1>3, <1>4, <1>5, <1>6, <1>7 DEF Next, Continue

LEMMA StepLed == Base /\ Led /\ [Next]_vars => Led'
<1> SUFFICES ASSUME Base, Led, [Next]_vars, users'[DefaultAdmin] = NoRow
             PROVE  Granted' = {} /\ \A u \in Users : users'[u] = NoRow
  BY DEF Led
<1>1. users[DefaultAdmin] = NoRow
  <2>1. CASE users' = users
    BY <2>1
  <2>2. CASE users' # users
    BY <2>2, OnlyCommits, CommitIs, Constants
  <2> QED
    BY <2>1, <2>2
<1>2. Granted = {} /\ \A u \in Users : users[u] = NoRow /\ ~users[u].active
  BY <1>1 DEF Led, NoRow
<1>3. [Life!LifeNext]_<<now, users, Granted, Open, issued>>
  BY StepSimulates
<1>4. \A u \in Users : ~Life!Grant(u) /\ ~Life!Manage(u)
  BY <1>2 DEF Life!Grant, Life!Manage
<1>5. \A u \in Users : ~Life!First(u)
  <2> SUFFICES ASSUME NEW u \in Users, Life!First(u) PROVE FALSE
    OBVIOUS
  <2>1. PICK r \in Requests : Commit(r)
    <3>1. users' # users
      BY <1>2 DEF Life!First
    <3> QED
      BY <3>1, OnlyCommits
  <2>2. req[r].user = {u} /\ ~Collides(req[r]) /\ req[r].pc = "commit" /\ Shaped(req[r])
    BY <1>2, <2>1, CommitIs DEF Life!First, Commit, Base
  <2>3. req[r].by = {}
    BY <1>2, <2>1, GrantedHas
  <2>4. req[r].op = "seed"
    BY <1>2, <2>2, <2>3 DEF Shaped, Aimed, Base
  <2>5. u = DefaultAdmin
    BY <2>2, <2>4 DEF Shaped
  <2> QED
    BY <2>5 DEF Life!First, NoRow
<1> QED
  BY <1>2, <1>3, <1>4, <1>5 DEF Life!LifeNext, Life!Pass, Life!Extend, Life!Withdraw, Life!Open

LEMMA InitSimulates == Init => Life!LifeInit
<1> SUFFICES ASSUME Init PROVE Life!LifeInit
  OBVIOUS
<1>1. now \in Nat /\ issued \in Nat
  BY InitBase DEF Base, TypeOK
<1>2. \A r \in Requests : req[r].new = {} /\ req[r].by = {} /\ Taken(req[r]) = {}
  BY DEF Init, Idle, Taken
<1>3. \A g \in Granted : users[g.sub].active /\ users[g.sub].role = g.role
  BY <1>2, GrantedHas DEF Init
<1>4. ASSUME NEW c \in Open
      PROVE  users[c.user].active /\ c.login <= issued
  <2>1. \A r \in Requests : SessionsOf(req[r]) = {}
    BY <1>2, SessionsOfOne
  <2>2. PICK t \in redis : c = SessionOf(t)
    BY <2>1, OpenHas
  <2>3. users[t.user].active
    BY DEF Init
  <2>4. t.login <= issued
    BY InitTok DEF Tok
  <2> QED
    BY <2>2, <2>3, <2>4 DEF SessionOf
<1> QED
  BY <1>1, <1>3, <1>4 DEF Life!LifeInit

\* ImplementsSessionLife: what requests, Redis and PostgreSQL do together is what
\* SessionLife promises. Nobody who is not active is granted a role, a session that
\* was spent is never open again, and accounts change only at the hand of someone
\* who was granted ADMIN.
THEOREM Refinement == Spec => ImplementsSessionLife
<1>1. Base /\ Led /\ [Next]_vars => [Life!LifeNext]_Life!lifeVars
  BY StepSimulates DEF Life!lifeVars
<1> QED
  BY InitBase, StepBase, InitLed, StepLed, InitSimulates, <1>1, PTL
     DEF Spec, ImplementsSessionLife, Life!LifeSpec

-----------------------------------------------------------------------------
(* The audit trail: the sessions it wraps are those of Spec *)

\* The history has been told of the present.
Noted == lastHeld = HeldAfter(users, now)

\* What the middleware does never changes what the requests do.
LEMMA AuditedInit == AuditInit => Init /\ Noted
<1> SUFFICES ASSUME Init PROVE Noted
  BY DEF AuditInit
<1>1. /\ now = 1
      /\ lastHeld = [u \in Users |-> [role \in Roles |->
            IF users[u].active /\ users[u].role = role THEN now ELSE 0]]
  BY DEF Init
<1>2. \A u \in Users, role \in Roles :
         lastHeld[u][role] = IF users[u].active /\ users[u].role = role THEN now ELSE 0
  BY <1>1
<1>3. HeldAfter(users, now) = [u \in Users |-> [role \in Roles |->
         IF users[u].active /\ users[u].role = role THEN now ELSE 0]]
  BY <1>2 DEF HeldAfter
<1> QED
  BY <1>1, <1>3 DEF Noted

LEMMA AuditedStep == TypeOK /\ Noted /\ [AuditNext]_allVars => [Next]_vars /\ Noted'
<1> SUFFICES ASSUME TypeOK, Noted, [AuditNext]_allVars PROVE [Next]_vars /\ Noted'
  OBVIOUS
<1>1. ASSUME Observe
      PROVE  Noted'
  <2>1. PICK us, t : us = users' /\ t = now'
    OBVIOUS
  <2>2. lastHeld' = HeldAfter(us, t)
    BY <1>1, <2>1 DEF Observe
  <2>3. lastHeld' = [u \in Users |-> [role \in Roles |->
            IF us[u].active /\ us[u].role = role THEN t ELSE lastHeld[u][role]]]
    BY <2>2 DEF HeldAfter
  <2>4. \A u \in Users, role \in Roles :
           lastHeld'[u][role] = IF us[u].active /\ us[u].role = role THEN t ELSE lastHeld[u][role]
    BY <2>3
  <2>5. \A u \in Users, role \in Roles :
           us[u].active /\ us[u].role = role => lastHeld'[u][role] = t
    BY <2>4
  <2>6. lastHeld' = [u \in Users |-> [role \in Roles |->
            IF us[u].active /\ us[u].role = role THEN t ELSE lastHeld'[u][role]]]
    BY <2>3, <2>4
  <2> QED
    BY <2>1, <2>6 DEF Noted, HeldAfter
<1>2. CASE UNCHANGED allVars
  <2>1. UNCHANGED vars
    BY <1>2 DEF allVars
  <2> QED
    BY <2>1 DEF vars, Noted, HeldAfter
<1>3. CASE AuditNext
  <2>1. Observe
    BY <1>3 DEF AuditNext
  <2>2. CASE AuditTick
    BY <1>1, <2>1, <2>2 DEF AuditTick, Next
  <2>3. ASSUME NEW r \in Requests,
               AuditBegin(r) \/ AuditContinue(r) \/ AuditAnswer(r) \/ AuditFail(r)
        PROVE  Next
    BY <2>1, <2>3 DEF AuditBegin, AuditContinue, AuditAnswer, AuditFail, Next
  <2>4. ASSUME NEW t \in tasks, Persist(t) \/ LoseTask(t)
        PROVE  UNCHANGED vars
    <3>1. UNCHANGED <<now, users, redis, issued, known, access, req, begun>>
      BY <2>4 DEF Persist, LoseTask
    <3>2. lastHeld' = lastHeld
      BY <2>1, <3>1 DEF Observe, Noted, HeldAfter
    <3> QED
      BY <3>1, <3>2 DEF vars
  <2> QED
    BY <1>1, <1>3, <2>1, <2>2, <2>3, <2>4 DEF AuditNext
<1> QED
  BY <1>2, <1>3

\* The middleware only watches: every behaviour of the audited requests is one of
\* the requests, of which all the theorems above hold.
THEOREM AuditOnlyWatches == AuditSpec => Spec
<1>1. AuditInit => Init /\ Base /\ Noted
  BY AuditedInit, InitBase
<1>2. Base => TypeOK
  BY DEF Base
<1>3. Base /\ Noted /\ [AuditNext]_allVars => [Next]_vars /\ Base' /\ Noted'
  BY <1>2, AuditedStep, StepBase
<1> QED
  BY <1>1, <1>3, PTL DEF AuditSpec, Spec

-----------------------------------------------------------------------------
(* Slots and the requests they serve *)

\* A request presented at most one JWT; the seed of a replica is never answered.
Single(q) == /\ \A i, j \in q.by : i = j
             /\ q.pc = "answer" => q.op # "seed"

\* A request over HTTP; the seed has no number of its own.
Asks(q) == q.pc # "idle" /\ q.op # "seed"

Lines == tasks \cup trail

\* The mutation number n, asked for with the JWTs js, is in the database.
Told(n, js) == \E e \in effects : e.n = n /\ e.caller = Callers(js)

\* Who is answered 2xx and presented a JWT has changed the database, and so has
\* whoever a line names.
Witnessed ==
    /\ \A r \in Requests : Single(req[r])
    /\ \A r \in Requests :
          req[r].pc = "answer" /\ req[r].ok /\ req[r].by # {} => Told(serial[r], req[r].by)
    /\ \A t \in Lines : t.ok /\ t.author # {} =>
          \E e \in effects : e.n = t.n /\ e.caller = t.author

\* Numbers are given once: no two slots, lines or mutations share one, and a slot
\* shares its own with no line, and with no mutation before its answer.
Numbered ==
    /\ \A r \in Requests : serial[r] <= begun
    /\ \A e \in effects : e.n <= begun
    /\ \A t \in Lines : t.n <= begun
    /\ \A r, p \in Requests :
          Asks(req[r]) /\ Asks(req[p]) /\ serial[r] = serial[p] => r = p
    /\ \A r \in Requests : Asks(req[r]) =>
          /\ \A t \in Lines : t.n # serial[r]
          /\ req[r].pc # "answer" => \A e \in effects : e.n # serial[r]
    /\ \A s, t \in Lines : s.n = t.n => s = t
    /\ \A e, f \in effects : e.n = f.n => e = f

-----------------------------------------------------------------------------
(* What the steps of a request do to its slot *)

\* How request r begins in the slot: q, with a number of its own unless it is the seed.
Opened(r, q) ==
    /\ req[r] = Idle /\ req' = [req EXCEPT ![r] = q]
    /\ q \in Request /\ Single(q) /\ q.pc # "idle" /\ q.ok = FALSE
    /\ begun' = IF q.op = "seed" THEN begun ELSE begun + 1

LEMMA OpenedBy ==
    ASSUME Base, NEW r \in Requests, Begin(r)
    PROVE  \E q : Opened(r, q)
<1>1. PICK q : Begun(r, q)
  BY Beginning
<1>2. q = req'[r] /\ q \in Request /\ q.pc # "idle" /\ req[r] = Idle /\ req' = [req EXCEPT ![r] = q]
  BY <1>1 DEF Begun, Base, TypeOK
<1>3. ASSUME NEW js, js = {} \/ (\E j : js = {j}), Start(r, Refused(js))
      PROVE  Opened(r, q)
  <2>1. req'[r] = Refused(js)
    BY <1>3 DEF Start, Base, TypeOK
  <2>2. q.ok = FALSE /\ q.by = js /\ q.op = "refused"
    BY <1>2, <2>1 DEF Refused, Idle
  <2> QED
    BY <1>2, <1>3, <2>2 DEF Opened, Single, Start
<1>4. ASSUME NEW o \in {"create", "patch", "delete"}, NEW j, NEW u, NEW b, Start(r, Demand(o, j, u, b))
      PROVE  Opened(r, q)
  <2>1. req'[r] = Demand(o, j, u, b)
    BY <1>4 DEF Start, Base, TypeOK
  <2>2. q.ok = FALSE /\ q.by = {j} /\ q.op = o
    BY <1>2, <2>1 DEF Demand, Idle
  <2> QED
    BY <1>2, <1>4, <2>2 DEF Opened, Single, Start
<1>5. CASE Unauthenticated(r)
  BY <1>3, <1>5 DEF Unauthenticated
<1>6. ASSUME NEW u \in Users, Login(r, u)
      PROVE  Opened(r, q)
  <2>1. CASE users[u].active
    <3>1. Start(r, [Idle EXCEPT !.op = "login", !.pc = "store", !.user = {u}, !.new = Issue(u)])
      BY <1>6, <2>1 DEF Login
    <3>2. q = [Idle EXCEPT !.op = "login", !.pc = "store", !.user = {u}, !.new = Issue(u)]
      BY <1>2, <3>1 DEF Start, Base, TypeOK
    <3>3. q.ok = FALSE /\ q.by = {} /\ q.op = "login"
      BY <3>2 DEF Idle
    <3> QED
      BY <1>2, <3>1, <3>3 DEF Opened, Single, Start
  <2>2. CASE ~users[u].active
    BY <1>3, <1>6, <2>2 DEF Login
  <2> QED
    BY <2>1, <2>2
<1>7. ASSUME NEW id, Refresh(r, id)
      PROVE  Opened(r, q)
  <2>1. PICK us, ls : \/ Start(r, Refused({}))
                     \/ Start(r, [Idle EXCEPT !.op = "refresh", !.pc = "read",
                                              !.user = us, !.login = ls])
    BY <1>7 DEF Refresh
  <2>2. CASE Start(r, Refused({}))
    BY <1>3, <2>2
  <2>3. CASE Start(r, [Idle EXCEPT !.op = "refresh", !.pc = "read", !.user = us, !.login = ls])
    <3>1. q = [Idle EXCEPT !.op = "refresh", !.pc = "read", !.user = us, !.login = ls]
      BY <1>2, <2>3 DEF Start, Base, TypeOK
    <3>2. q.ok = FALSE /\ q.by = {} /\ q.op = "refresh"
      BY <3>1 DEF Idle
    <3> QED
      BY <1>2, <2>3, <3>2 DEF Opened, Single, Start
  <2> QED
    BY <2>1, <2>2, <2>3
<1>8. ASSUME NEW j \in access, Write(r, j)
      PROVE  Opened(r, q)
  <2>1. CASE Admitted(j, WriteAccess)
    <3>1. Start(r, [Idle EXCEPT !.op = "write", !.pc = "commit", !.by = {j}])
      BY <1>8, <2>1 DEF Write
    <3>2. q = [Idle EXCEPT !.op = "write", !.pc = "commit", !.by = {j}]
      BY <1>2, <3>1 DEF Start, Base, TypeOK
    <3>3. q.ok = FALSE /\ q.by = {j} /\ q.op = "write"
      BY <3>2 DEF Idle
    <3> QED
      BY <1>2, <3>1, <3>3 DEF Opened, Single, Start
  <2>2. CASE ~Admitted(j, WriteAccess)
    BY <1>3, <1>8, <2>2 DEF Write
  <2> QED
    BY <2>1, <2>2
<1>9. ASSUME NEW j \in access, NEW u \in Users,
             \/ DeactivateUser(r, u, j)
             \/ \E b \in Bodies : UpdateUser(r, u, b, j)
             \/ \E role \in NewRoles : CreateUser(r, u, role, j)
      PROVE  Opened(r, q)
  BY <1>3, <1>4, <1>9 DEF DeactivateUser, UpdateUser, CreateUser
<1>10. CASE Seed(r)
  <2>1. q = [Idle EXCEPT !.op = "seed", !.pc = "commit", !.user = {DefaultAdmin},
                         !.body = [role |-> {"ADMIN"}, active |-> {TRUE}]]
    BY <1>2, <1>10 DEF Seed, Base, TypeOK
  <2>2. q.ok = FALSE /\ q.by = {} /\ q.op = "seed" /\ q.pc = "commit"
    BY <2>1 DEF Idle
  <2> QED
    BY <1>2, <1>10, <2>2 DEF Opened, Single, Seed
<1> QED
  <2>1. \/ Unauthenticated(r) \/ Seed(r)
        \/ \E u \in Users : Login(r, u)
        \/ \E id \in known : Refresh(r, id)
        \/ \E j \in access : Write(r, j)
        \/ \E j \in access, u \in Users :
              \/ DeactivateUser(r, u, j)
              \/ \E b \in Bodies : UpdateUser(r, u, b, j)
              \/ \E role \in NewRoles : CreateUser(r, u, role, j)
    BY DEF Begin
  <2> QED
    BY <1>5, <1>6, <1>7, <1>8, <1>9, <1>10, <2>1

\* How it goes on: with q, which is answered 2xx to who presented a JWT only if a
\* COMMIT succeeded.
Moves(r, q) ==
    /\ req' = [req EXCEPT ![r] = q] /\ q \in Request
    /\ req[r].pc \notin {"idle", "answer"}
    /\ Single(q) /\ begun' = begun
    /\ q = Idle \/ (q.pc # "idle" /\ (q.op = "seed" <=> req[r].op = "seed"))
    /\ q.pc = "answer" /\ q.ok /\ q.by # {} =>
          req[r].pc = "commit" /\ req[r].op # "seed" /\ q.by = req[r].by

LEMMA MovesBy ==
    ASSUME Base, NEW r \in Requests, Single(req[r]), Continue(r)
    PROVE  \E q : Moves(r, q)
<1>1. req[r] \in Request /\ Shaped(req[r]) /\ req \in [Requests -> Request]
  BY DEF Base, TypeOK
<1>2. CASE ReadUser(r)
  <2>1. PICK u \in Users : req[r].user = {u} /\ req[r].by = {} /\ req[r].pc = "read"
    BY <1>2, ReadIs
  <2>2. req' = [req EXCEPT ![r] = IF users[u].active
                                  THEN [req[r] EXCEPT !.pc = "store", !.new = Issue(u)]
                                  ELSE Refused({})]
        /\ begun' = begun
    BY <1>2, <2>1 DEF ReadUser
  <2>3. CASE users[u].active
    <3>1. PICK q : q = [req[r] EXCEPT !.pc = "store", !.new = Issue(u)]
      OBVIOUS
    <3>2. q \in Request /\ q.by = {} /\ q.pc = "store" /\ q.op = req[r].op
      BY <1>1, <2>1, <3>1, IssueType DEF Request, Base
    <3>3. req' = [req EXCEPT ![r] = q]
      BY <2>2, <2>3, <3>1
    <3> QED
      BY <2>1, <2>2, <3>2, <3>3 DEF Moves, Single
  <2>4. CASE ~users[u].active
    <3>1. PICK q : q = Refused({})
      OBVIOUS
    <3>2. q \in Request /\ q.by = {} /\ q.pc = "answer" /\ q.op = "refused"
      BY <3>1, IdleType DEF Refused, Idle, Request
    <3>3. req' = [req EXCEPT ![r] = q] /\ req[r].op # "seed"
      BY <1>1, <2>1, <2>2, <2>4, <3>1 DEF Shaped
    <3> QED
      BY <2>1, <2>2, <3>2, <3>3 DEF Moves, Single
  <2> QED
    BY <2>3, <2>4
<1>3. CASE Store(r)
  <2>1. req[r].pc = "store" /\ req[r].by = {} /\ req[r].op # "seed" /\ issued' \in Nat
    BY <1>1, <1>3 DEF Store, Shaped, Base, TypeOK
  <2>2. PICK q : q = [req[r] EXCEPT !.pc = "answer", !.token = {issued'}, !.ok = TRUE]
    OBVIOUS
  <2>3. q \in Request /\ q.by = {} /\ q.pc = "answer" /\ q.op = req[r].op
    BY <1>1, <2>1, <2>2 DEF Request
  <2>4. req' = [req EXCEPT ![r] = q] /\ begun' = begun
    BY <1>3, <2>2 DEF Store
  <2> QED
    BY <2>1, <2>3, <2>4 DEF Moves, Single
<1>4. CASE Commit(r)
  <2>1. req[r].pc = "commit" /\ begun' = begun
        /\ req' = [req EXCEPT ![r] = IF Collides(req[r]) \/ req[r].op = "seed" THEN Idle
                                     ELSE [req[r] EXCEPT !.pc = "answer", !.ok = TRUE]]
    BY <1>4 DEF Commit
  <2>2. CASE Collides(req[r]) \/ req[r].op = "seed"
    <3>1. req' = [req EXCEPT ![r] = Idle]
      BY <2>1, <2>2
    <3>2. Single(Idle) /\ Idle.pc # "answer"
      BY DEF Single, Idle
    <3> QED
      BY <2>1, <3>1, <3>2, IdleType DEF Moves
  <2>3. CASE ~(Collides(req[r]) \/ req[r].op = "seed")
    <3>1. PICK q : q = [req[r] EXCEPT !.pc = "answer", !.ok = TRUE]
      OBVIOUS
    <3>2. q \in Request /\ q.by = req[r].by /\ q.pc = "answer" /\ q.op = req[r].op
      BY <1>1, <3>1 DEF Request
    <3>3. req' = [req EXCEPT ![r] = q]
      BY <2>1, <2>3, <3>1
    <3>4. Single(q) /\ q.op # "seed" /\ req[r].op # "seed"
      BY <2>3, <3>2 DEF Single
    <3> QED
      BY <2>1, <3>2, <3>3, <3>4 DEF Moves
  <2> QED
    BY <2>2, <2>3
<1> QED
  BY <1>2, <1>3, <1>4 DEF Continue

-----------------------------------------------------------------------------
(* The invariant of the trail *)

Rows ==
    /\ serial \in [Requests -> Nat]
    /\ effects \subseteq Effect
    /\ tasks \subseteq Record /\ trail \subseteq Record
    /\ faults \in BOOLEAN

Watch == Rows /\ Witnessed /\ Numbered /\ CompleteWhenCalm

LEMMA CallersType ==
    ASSUME NEW js, js \subseteq JWT
    PROVE  Callers(js) \subseteq Users
BY DEF Callers, JWT

LEMMA InitWatch == AuditInit => Watch
<1> SUFFICES ASSUME AuditInit PROVE Watch
  OBVIOUS
<1>1. /\ serial = [r \in Requests |-> 0] /\ req = [r \in Requests |-> Idle]
      /\ effects = {} /\ tasks = {} /\ trail = {} /\ faults = FALSE /\ Base
  BY InitBase DEF AuditInit, Init
<1>2. Single(Idle) /\ Idle.pc = "idle"
  BY DEF Single, Idle
<1>3. begun \in Nat
  BY <1>1 DEF Base, TypeOK
<1>4. Rows
  BY <1>1 DEF Rows
<1>5. Witnessed
  BY <1>1, <1>2 DEF Witnessed, Lines
<1>6. Numbered
  BY <1>1, <1>2, <1>3 DEF Numbered, Lines, Asks
<1> QED
  BY <1>1, <1>4, <1>5, <1>6 DEF Watch, CompleteWhenCalm

\* Steps that touch neither the slots nor the trail.
LEMMA StillWatch ==
    ASSUME Watch, UNCHANGED <<req, begun, serial, effects, tasks, trail, faults>>
    PROVE  Watch'
<1>1. Rows'
  BY DEF Watch, Rows
<1>2. Witnessed'
  <2>1. Lines' = Lines
    BY DEF Lines
  <2> QED
    BY <2>1 DEF Watch, Witnessed, Told
<1>3. Numbered'
  BY DEF Watch, Numbered, Lines
<1>4. CompleteWhenCalm'
  BY DEF Watch, CompleteWhenCalm
<1> QED
  BY <1>1, <1>2, <1>3, <1>4 DEF Watch

LEMMA BeginWatch ==
    ASSUME Base, Watch, NEW r \in Requests, AuditBegin(r)
    PROVE  Watch'
<1>1. PICK q : Opened(r, q)
  BY OpenedBy DEF AuditBegin
<1>2. /\ req[r] = Idle /\ q \in Request /\ Single(q) /\ q.pc # "idle" /\ q.ok = FALSE
      /\ req' = [req EXCEPT ![r] = q]
      /\ begun' = IF q.op = "seed" THEN begun ELSE begun + 1
      /\ serial' = [serial EXCEPT ![r] = begun'] /\ UNCHANGED <<effects, tasks, trail, faults>>
  BY <1>1 DEF Opened, AuditBegin
<1>3. \A p \in Requests : /\ req'[p] = IF p = r THEN q ELSE req[p]
                          /\ serial'[p] = IF p = r THEN begun' ELSE serial[p]
  BY <1>2 DEF Base, TypeOK, Watch, Rows
<1>4. begun \in Nat /\ begun' \in Nat /\ begun <= begun' /\ (q.op # "seed" => begun < begun')
  BY <1>2 DEF Base, TypeOK
<1>5. Rows'
  BY <1>2, <1>4 DEF Watch, Rows
<1>6. req[r].pc = "idle"
  BY <1>2 DEF Idle
<1>7. Witnessed'
  <2>1. Lines' = Lines
    BY <1>2 DEF Lines
  <2> QED
    BY <1>2, <1>3, <2>1 DEF Watch, Witnessed, Told
<1>8. Numbered'
  <2>1. Lines' = Lines /\ effects' = effects
    BY <1>2 DEF Lines
  <2>2. /\ \A p \in Requests : serial[p] \in Nat /\ serial[p] <= begun
        /\ \A e \in effects : e.n \in Nat /\ e.n <= begun
        /\ \A t \in Lines : t.n \in Nat /\ t.n <= begun
    BY DEF Watch, Rows, Numbered, Effect, Record, Lines
  <2>3. ASSUME NEW p \in Requests, NEW o \in Requests, Asks(req'[p]), Asks(req'[o]),
               serial'[p] = serial'[o]
        PROVE  p = o
    BY <1>3, <1>4, <2>2, <2>3 DEF Watch, Numbered, Asks
  <2>4. ASSUME NEW p \in Requests, Asks(req'[p])
        PROVE  /\ \A t \in Lines : t.n # serial'[p]
               /\ req'[p].pc # "answer" => \A e \in effects : e.n # serial'[p]
    BY <1>3, <1>4, <2>2, <2>4 DEF Watch, Numbered, Asks
  <2>5. /\ \A p \in Requests : serial'[p] <= begun'
        /\ \A e \in effects : e.n <= begun'
        /\ \A t \in Lines : t.n <= begun'
    BY <1>3, <1>4, <2>2
  <2> QED
    BY <2>1, <2>3, <2>4, <2>5 DEF Watch, Numbered, Asks
<1>9. CompleteWhenCalm'
  BY <1>2, <1>3, <1>6 DEF Watch, CompleteWhenCalm
<1> QED
  BY <1>5, <1>7, <1>8, <1>9 DEF Watch

\* The mutation a step of r adds.
Effected(r) == [n |-> serial[r], caller |-> Callers(req[r].by)]

LEMMA ContinueWatch ==
    ASSUME Base, Watch, NEW r \in Requests, AuditContinue(r)
    PROVE  Watch'
<1>1. PICK q : Moves(r, q)
  BY MovesBy DEF AuditContinue, Watch, Witnessed
<1>2. /\ req' = [req EXCEPT ![r] = q] /\ q \in Request /\ req[r].pc \notin {"idle", "answer"}
      /\ Single(q) /\ begun' = begun
      /\ q = Idle \/ (q.pc # "idle" /\ (q.op = "seed" <=> req[r].op = "seed"))
      /\ q.pc = "answer" /\ q.ok /\ q.by # {} =>
            req[r].pc = "commit" /\ req[r].op # "seed" /\ q.by = req[r].by
  BY <1>1 DEF Moves
<1>3. \A p \in Requests : req'[p] = IF p = r THEN q ELSE req[p]
  BY <1>2 DEF Base, TypeOK
<1>4. /\ \/ effects' = effects
         \/ /\ effects' = effects \cup {Effected(r)}
            /\ req[r].pc = "commit" /\ req[r].op # "seed" /\ q.pc = "answer"
      /\ req[r].pc = "commit" /\ req[r].op # "seed" /\ q.pc = "answer" =>
            Effected(r) \in effects'
      /\ effects \subseteq effects' /\ faults' \in BOOLEAN /\ (faults => faults')
      /\ UNCHANGED <<tasks, trail>>
  BY <1>3 DEF AuditContinue, Effected, Watch, Rows
<1>5. PICK k : k = Effected(r)
  OBVIOUS
<1>6. k.n = serial[r] /\ k.caller = Callers(req[r].by) /\ k \in Effect
  <2>1. serial[r] \in Nat /\ req[r].by \subseteq JWT
    BY DEF Watch, Rows, Base, TypeOK, Request
  <2> QED
    BY <1>5, <2>1, CallersType DEF Effected, Effect
<1>7. \A p \in Requests : serial'[p] = IF p = r /\ q = Idle THEN 0 ELSE serial[p]
  BY <1>3 DEF AuditContinue, Watch, Rows
<1>8. Idle.pc = "idle"
  BY DEF Idle
<1>9. Lines' = Lines
  BY <1>4 DEF Lines
<1>10. Rows'
  <2>1. effects' \subseteq Effect
    BY <1>4, <1>5, <1>6 DEF Watch, Rows
  <2> QED
    BY <1>4, <2>1 DEF Watch, Rows, AuditContinue
<1>11. Witnessed'
  <2>1. ASSUME NEW p \in Requests, req'[p].pc = "answer", req'[p].ok, req'[p].by # {}
        PROVE  \E e \in effects' : e.n = serial'[p] /\ e.caller = Callers(req'[p].by)
    <3>1. CASE p = r
      <4>1. req'[p] = q /\ serial'[p] = serial[r] /\ q.by = req[r].by /\ k \in effects'
        BY <1>2, <1>3, <1>4, <1>5, <1>7, <1>8, <2>1, <3>1
      <4> QED
        BY <1>6, <4>1
    <3>2. CASE p # r
      <4>1. req'[p] = req[p] /\ serial'[p] = serial[p]
        BY <1>3, <1>7, <3>2
      <4>2. Told(serial[p], req[p].by)
        BY <2>1, <4>1 DEF Watch, Witnessed
      <4> QED
        BY <1>4, <4>1, <4>2 DEF Told
    <3> QED
      BY <3>1, <3>2
  <2>2. \A p \in Requests : Single(req'[p])
    BY <1>2, <1>3 DEF Watch, Witnessed
  <2>3. \A t \in Lines' : t.ok /\ t.author # {} =>
           \E e \in effects' : e.n = t.n /\ e.caller = t.author
    BY <1>4, <1>9 DEF Watch, Witnessed
  <2> QED
    BY <2>1, <2>2, <2>3 DEF Witnessed, Told, Single
<1>12. Numbered'
  <2>1. /\ \A p \in Requests : serial[p] \in Nat /\ serial[p] <= begun
        /\ begun \in Nat /\ \A e \in effects : e.n <= begun
        /\ \A t \in Lines : t.n <= begun
    BY DEF Watch, Rows, Numbered, Base, TypeOK
  <2>2. Asks(q) => Asks(req[r]) /\ q # Idle
    BY <1>2, <1>8 DEF Asks
  <2>3. \A p \in Requests : Asks(req'[p]) => Asks(req[p]) /\ serial'[p] = serial[p]
    BY <1>3, <1>7, <2>2
  <2>4. \A e \in effects' : (e.n = serial[r] /\ e = k) \/ e \in effects
    BY <1>4, <1>5, <1>6
  <2>5. ASSUME NEW e \in effects', NEW f \in effects', e.n = f.n
        PROVE  e = f
    <3>1. CASE effects' = effects
      BY <2>5, <3>1 DEF Watch, Numbered
    <3>2. CASE effects' = effects \cup {k} /\ req[r].pc = "commit" /\ req[r].op # "seed"
      <4>1. \A g \in effects : g.n # serial[r]
        BY <3>2 DEF Watch, Numbered, Asks
      <4> QED
        BY <1>6, <2>5, <3>2, <4>1 DEF Watch, Numbered
    <3> QED
      BY <1>4, <1>5, <3>1, <3>2
  <2>6. ASSUME NEW p \in Requests, Asks(req'[p])
        PROVE  /\ \A t \in Lines : t.n # serial'[p]
               /\ req'[p].pc # "answer" => \A e \in effects' : e.n # serial'[p]
    <3>1. Asks(req[p]) /\ serial'[p] = serial[p]
      BY <2>3, <2>6
    <3>2. \A t \in Lines : t.n # serial'[p]
      BY <3>1 DEF Watch, Numbered
    <3>3. ASSUME req'[p].pc # "answer", NEW e \in effects', e.n = serial[p]
          PROVE  FALSE
      <4>1. req[p].pc # "answer"
        BY <1>2, <1>3, <3>3
      <4>2. e \notin effects
        BY <3>1, <3>3, <4>1 DEF Watch, Numbered
      <4>3. e = k /\ q.pc = "answer" /\ Asks(req[r]) /\ p # r
        BY <1>2, <1>3, <1>4, <1>5, <3>3, <4>2 DEF Asks
      <4>4. serial[p] = serial[r]
        BY <1>6, <3>3, <4>3
      <4> QED
        BY <3>1, <4>3, <4>4 DEF Watch, Numbered
    <3> QED
      BY <3>1, <3>2, <3>3
  <2>7. \A p \in Requests : serial'[p] <= begun
    BY <1>7, <2>1
  <2>8. \A e \in effects' : e.n <= begun
    BY <2>1, <2>4
  <2>9. \A p, o \in Requests :
           Asks(req'[p]) /\ Asks(req'[o]) /\ serial'[p] = serial'[o] => p = o
    BY <2>3 DEF Watch, Numbered
  <2>10. \A s, t \in Lines : s.n = t.n => s = t
    BY DEF Watch, Numbered
  <2> QED
    BY <1>2, <1>9, <2>1, <2>5, <2>6, <2>7, <2>8, <2>9, <2>10 DEF Numbered, Asks
<1>13. CompleteWhenCalm'
  <2> SUFFICES ASSUME ~faults', NEW e \in effects'
               PROVE  \/ \E t \in trail \cup tasks : t.n = e.n
                      \/ \E p \in Requests : serial'[p] = e.n /\ req'[p].pc = "answer"
    BY <1>4 DEF CompleteWhenCalm
  <2>1. CASE e \in effects
    <3>1. CASE \E t \in trail \cup tasks : t.n = e.n
      BY <3>1
    <3>2. ASSUME NEW p \in Requests, serial[p] = e.n, req[p].pc = "answer"
          PROVE  serial'[p] = e.n /\ req'[p].pc = "answer"
      BY <1>2, <1>3, <1>7, <3>2
    <3> QED
      BY <1>4, <2>1, <3>1, <3>2 DEF Watch, CompleteWhenCalm
  <2>2. CASE e \notin effects
    <3>1. e = k /\ q.pc = "answer"
      BY <1>4, <1>5, <2>2
    <3> QED
      BY <1>3, <1>6, <1>7, <1>8, <3>1
  <2> QED
    BY <2>1, <2>2
<1> QED
  BY <1>10, <1>11, <1>12, <1>13 DEF Watch

\* The line of a request that is answered: it takes over the slot's number.
LEMMA AnswerWatch ==
    ASSUME Base, Watch, NEW r \in Requests, AuditAnswer(r)
    PROVE  Watch'
<1>1. /\ req[r].pc = "answer" /\ req' = [req EXCEPT ![r] = Idle]
      /\ begun' = begun /\ serial' = [serial EXCEPT ![r] = 0] /\ now \in Nat
      /\ tasks' = tasks \cup {Dispatched(r)} /\ UNCHANGED <<effects, trail, faults>>
  BY DEF AuditAnswer, Answer, Base, TypeOK
<1>2. \A p \in Requests : /\ req'[p] = IF p = r THEN Idle ELSE req[p]
                          /\ serial'[p] = IF p = r THEN 0 ELSE serial[p]
  BY <1>1 DEF Base, TypeOK, Watch, Rows
<1>3. Idle.pc = "idle" /\ Single(Idle)
  BY DEF Idle, Single
<1>4. PICK valid : valid = {j \in req[r].by : now <= j.exp}
  OBVIOUS
<1>5. PICK d : d = [n |-> serial[r], ok |-> req[r].ok, author |-> Callers(valid)]
  OBVIOUS
<1>6. /\ Lines' = Lines \cup {d} /\ tasks' = tasks \cup {d}
      /\ d.n = serial[r] /\ d.ok = req[r].ok /\ d.author = Callers(valid)
  BY <1>1, <1>4, <1>5 DEF Dispatched, Lines
<1>7. req[r] \in Request /\ valid \subseteq JWT /\ serial[r] \in Nat /\ Asks(req[r])
  BY <1>1, <1>4 DEF Base, TypeOK, Request, Watch, Rows, Witnessed, Single, Asks
<1>8. d \in Record
  BY <1>5, <1>7, CallersType DEF Record, Request
<1>9. Rows'
  BY <1>1, <1>6, <1>8 DEF Watch, Rows
<1>10. Witnessed'
  <2>1. ASSUME NEW p \in Requests
        PROVE  /\ Single(req'[p])
               /\ req'[p].pc = "answer" /\ req'[p].ok /\ req'[p].by # {} =>
                     \E e \in effects : e.n = serial'[p] /\ e.caller = Callers(req'[p].by)
    BY <1>2, <1>3 DEF Watch, Witnessed, Told
  <2>2. ASSUME d.ok, d.author # {}
        PROVE  \E e \in effects : e.n = d.n /\ e.caller = d.author
    <3>1. valid # {}
      BY <1>6, <2>2 DEF Callers
    <3>2. valid = req[r].by
      BY <1>4, <3>1 DEF Watch, Witnessed, Single
    <3>3. Told(serial[r], req[r].by)
      BY <1>1, <1>6, <2>2, <3>1, <3>2 DEF Watch, Witnessed
    <3> QED
      BY <1>6, <3>2, <3>3 DEF Told
  <2>3. \A t \in Lines' : t.ok /\ t.author # {} =>
           \E e \in effects : e.n = t.n /\ e.caller = t.author
    BY <1>6, <2>2 DEF Watch, Witnessed
  <2> QED
    BY <1>1, <2>1, <2>3 DEF Witnessed, Told, Single
<1>11. Numbered'
  <2>1. /\ \A p \in Requests : serial[p] \in Nat /\ serial[p] <= begun
        /\ begun \in Nat /\ \A t \in Lines : t.n <= begun
    BY DEF Watch, Rows, Numbered, Base, TypeOK
  <2>2. \A p \in Requests : Asks(req'[p]) => p # r /\ Asks(req[p]) /\ serial'[p] = serial[p]
    BY <1>2, <1>3 DEF Asks
  <2>3. /\ \A p \in Requests : serial'[p] <= begun
        /\ \A t \in Lines' : t.n <= begun
    BY <1>2, <1>6, <2>1
  <2>4. ASSUME NEW p \in Requests, Asks(req'[p])
        PROVE  /\ \A t \in Lines' : t.n # serial'[p]
               /\ req'[p].pc # "answer" => \A e \in effects : e.n # serial'[p]
    <3>1. serial[p] # d.n
      BY <1>6, <1>7, <2>2, <2>4 DEF Watch, Numbered
    <3> QED
      BY <1>2, <1>6, <2>2, <2>4, <3>1 DEF Watch, Numbered
  <2>5. \A p, o \in Requests :
           Asks(req'[p]) /\ Asks(req'[o]) /\ serial'[p] = serial'[o] => p = o
    BY <2>2 DEF Watch, Numbered
  <2>6. \A s, t \in Lines' : s.n = t.n => s = t
    <3>1. \A t \in Lines : t.n # d.n
      BY <1>6, <1>7 DEF Watch, Numbered
    <3> QED
      BY <1>6, <3>1 DEF Watch, Numbered
  <2>7. /\ \A e, f \in effects : e.n = f.n => e = f
        /\ \A e \in effects : e.n <= begun
    BY DEF Watch, Numbered
  <2> QED
    BY <1>1, <2>3, <2>4, <2>5, <2>6, <2>7 DEF Numbered, Asks
<1>12. CompleteWhenCalm'
  <2>1. ASSUME NEW e \in effects, ~faults
        PROVE  \/ \E t \in trail \cup tasks' : t.n = e.n
               \/ \E p \in Requests : serial'[p] = e.n /\ req'[p].pc = "answer"
    BY <1>2, <1>6, <2>1 DEF Watch, CompleteWhenCalm
  <2> QED
    BY <1>1, <2>1 DEF CompleteWhenCalm
<1> QED
  BY <1>9, <1>10, <1>11, <1>12 DEF Watch

LEMMA FailWatch ==
    ASSUME Base, Watch, NEW r \in Requests, AuditFail(r)
    PROVE  Watch'
<1>1. /\ req' = [req EXCEPT ![r] = Idle] /\ faults' = TRUE
      /\ begun' = begun /\ serial' = [serial EXCEPT ![r] = 0]
      /\ UNCHANGED <<effects, tasks, trail>>
  BY DEF AuditFail, Fail
<1>2. \A p \in Requests : /\ req'[p] = IF p = r THEN Idle ELSE req[p]
                          /\ serial'[p] = IF p = r THEN 0 ELSE serial[p]
  BY <1>1 DEF Base, TypeOK, Watch, Rows
<1>3. Idle.pc = "idle" /\ Single(Idle)
  BY DEF Idle, Single
<1>4. Lines' = Lines
  BY <1>1 DEF Lines
<1>5. Rows'
  BY <1>1 DEF Watch, Rows
<1>6. Witnessed'
  <2>1. ASSUME NEW p \in Requests
        PROVE  /\ Single(req'[p])
               /\ req'[p].pc = "answer" /\ req'[p].ok /\ req'[p].by # {} =>
                     \E e \in effects : e.n = serial'[p] /\ e.caller = Callers(req'[p].by)
    BY <1>2, <1>3 DEF Watch, Witnessed, Told
  <2>2. \A t \in Lines : t.ok /\ t.author # {} =>
           \E e \in effects : e.n = t.n /\ e.caller = t.author
    BY DEF Watch, Witnessed
  <2> QED
    BY <1>1, <1>4, <2>1, <2>2 DEF Witnessed, Told, Single
<1>7. Numbered'
  <2>1. \A p \in Requests : serial[p] \in Nat /\ serial[p] <= begun /\ begun \in Nat
    BY DEF Watch, Rows, Numbered, Base, TypeOK
  <2>2. \A p \in Requests : serial'[p] <= begun
    BY <1>2, <2>1
  <2>3. \A p \in Requests : Asks(req'[p]) => req'[p] = req[p] /\ serial'[p] = serial[p]
    BY <1>2, <1>3 DEF Asks
  <2> QED
    BY <1>1, <1>4, <2>2, <2>3 DEF Watch, Numbered, Asks
<1>8. CompleteWhenCalm'
  BY <1>1 DEF CompleteWhenCalm
<1> QED
  BY <1>5, <1>6, <1>7, <1>8 DEF Watch

LEMMA TaskWatch ==
    ASSUME Watch, NEW t \in tasks, Persist(t) \/ LoseTask(t)
    PROVE  Watch'
<1>1. /\ Lines' \subseteq Lines /\ tasks' \subseteq tasks
      /\ trail' \subseteq Lines
      /\ UNCHANGED <<serial, effects, req, begun>>
  BY DEF Persist, LoseTask, Lines
<1>2. Rows'
  BY <1>1 DEF Persist, LoseTask, Watch, Rows, Lines
<1>3. Witnessed'
  BY <1>1 DEF Watch, Witnessed, Told
<1>4. Numbered'
  BY <1>1 DEF Watch, Numbered
<1>5. CompleteWhenCalm'
  BY DEF Watch, CompleteWhenCalm, Persist, LoseTask
<1> QED
  BY <1>2, <1>3, <1>4, <1>5 DEF Watch

LEMMA StepWatch == Base /\ Watch /\ [AuditNext]_allVars => Watch'
<1> SUFFICES ASSUME Base, Watch, [AuditNext]_allVars PROVE Watch'
  OBVIOUS
<1>1. CASE UNCHANGED allVars
  BY <1>1, StillWatch DEF allVars, vars, auditVars
<1>2. CASE AuditTick
  BY <1>2, StillWatch DEF AuditTick, Tick, auditVars
<1>3. ASSUME NEW r \in Requests,
             AuditBegin(r) \/ AuditContinue(r) \/ AuditAnswer(r) \/ AuditFail(r)
      PROVE  Watch'
  BY <1>3, BeginWatch, ContinueWatch, AnswerWatch, FailWatch
<1>4. ASSUME NEW t \in tasks, Persist(t) \/ LoseTask(t)
      PROVE  Watch'
  BY <1>4, TaskWatch
<1> QED
  BY <1>1, <1>2, <1>3, <1>4 DEF AuditNext

LEMMA Watching == AuditSpec => []Base /\ []Watch
<1>1. AuditInit => Base /\ Noted /\ Watch
  BY AuditedInit, InitBase, InitWatch
<1>2. Base => TypeOK
  BY DEF Base
<1>3. Base /\ Noted /\ Watch /\ [AuditNext]_allVars => Base' /\ Noted' /\ Watch'
  BY <1>2, AuditedStep, StepBase, StepWatch
<1> QED
  BY <1>1, <1>3, PTL DEF AuditSpec

\* AuditTypeOK: the variables of the audited requests keep their types.
THEOREM AuditTypeCorrect == AuditSpec => []AuditTypeOK
<1>1. Base /\ Watch => AuditTypeOK
  BY DEF Base, Watch, Rows, AuditTypeOK
<1> QED
  BY Watching, <1>1, PTL

\* TrailTruthful: a 2xx line with an author stands for a mutation in the database,
\* asked for by that author.
THEOREM Truthful == AuditSpec => []TrailTruthful
<1>1. Watch => TrailTruthful
  BY DEF Watch, Witnessed, Lines, TrailTruthful
<1> QED
  BY Watching, <1>1, PTL

\* CompleteWhenCalm: until something fails, every committed mutation is in the
\* trail, on its way to it, or not yet answered.
THEOREM Complete == AuditSpec => []CompleteWhenCalm
<1>1. Watch => CompleteWhenCalm
  BY DEF Watch
<1> QED
  BY Watching, <1>1, PTL

\* No two lines of the trail are about one request, and no two mutations are: the
\* mutation a line stands for is one, and no other line stands for it, in whatever
\* order the tasks of the middleware wrote their lines.
THEOREM OneLineEach ==
    AuditSpec => [](/\ \A s, t \in trail \cup tasks : s.n = t.n => s = t
                    /\ \A e, f \in effects : e.n = f.n => e = f)
<1>1. Watch => /\ \A s, t \in trail \cup tasks : s.n = t.n => s = t
               /\ \A e, f \in effects : e.n = f.n => e = f
  BY DEF Watch, Numbered, Lines
<1> QED
  BY Watching, <1>1, PTL
=============================================================================
