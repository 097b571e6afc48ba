------------------------- MODULE SessionsRefinement -------------------------
(***************************************************************************)
(* Sessions.tla implements SessionLife.tla: a grant is a JWT somebody may  *)
(* still use, in a client's hands or in those of a request; a session is   *)
(* open while its refresh token is in Redis or a renewal has taken it out. *)
(***************************************************************************)
EXTENDS Sessions

Granted == access \cup UNION {req[r].new \cup req[r].by : r \in Requests}

Open == {[login |-> t.login, user |-> t.user] : t \in redis} \cup
        UNION {[login : Renewing(r), user : req[r].user] : r \in Requests}

Life == INSTANCE SessionLife WITH
            TTL <- AccessTTL, NoAccount <- NoRow, clock <- now, accounts <- users,
            grants <- Granted, chains <- Open, last <- issued

\* What requests, Redis and PostgreSQL do together is what SessionLife promises:
\* nobody who is not active is granted a role, a session that was spent is never
\* open again, and accounts change only at the hand of an administrator.
ImplementsSessionLife == Life!LifeSpec
=============================================================================
