----------------------------- MODULE SessionLife -----------------------------
(***************************************************************************)
(* What the authentication of the service promises, without requests,      *)
(* Redis or transactions: who is granted a role, which sessions can renew  *)
(* the grant, and who may change an account.                               *)
(***************************************************************************)
EXTENDS Naturals

CONSTANTS Users, Roles, TTL, NoAccount

VARIABLES
    clock,
    accounts,  \* each user's role, and whether the user is active
    grants,    \* roles granted, to whom and until when
    chains,    \* sessions that may still renew a grant
    last       \* serial number of the last refresh token

lifeVars == <<clock, accounts, grants, chains, last>>

LifeInit ==
    /\ clock \in Nat /\ last \in Nat
    /\ \A g \in grants : accounts[g.sub].active /\ accounts[g.sub].role = g.role
    /\ \A c \in chains : accounts[c.user].active /\ c.login <= last

Pass ==
    /\ clock' = clock + 1
    /\ grants' \subseteq grants
    /\ UNCHANGED <<accounts, chains, last>>

\* Only an active user is granted anything, and only the role of the account.
Grant(u) ==
    /\ accounts[u].active
    /\ grants' = grants \cup {[sub |-> u, role |-> accounts[u].role, exp |-> clock + TTL]}
    /\ UNCHANGED <<clock, accounts, chains, last>>

\* A login opens a session no other login ever had.
Open(u) ==
    /\ last' > last
    /\ chains' = chains \cup {[login |-> last', user |-> u]}
    /\ UNCHANGED <<clock, accounts, grants>>

\* A session passes from a token to the next.
Extend ==
    /\ last' > last
    /\ UNCHANGED <<clock, accounts, grants, chains>>

\* Grants and sessions may be lost at any time; what is lost does not come back.
Withdraw ==
    /\ grants' \subseteq grants
    /\ chains' \subseteq chains
    /\ UNCHANGED <<clock, accounts, last>>

\* An account changes at the hand of someone who was granted ADMIN.
Manage(u) ==
    /\ \E g \in grants : g.role = "ADMIN"
    /\ \A v \in Users \ {u} : accounts'[v] = accounts[v]
    /\ accounts'[u].role \in Roles
    /\ UNCHANGED <<clock, grants, chains, last>>

\* The first account is made when there is none.
First(u) ==
    /\ \A v \in Users : accounts[v] = NoAccount
    /\ \A v \in Users \ {u} : accounts'[v] = NoAccount
    /\ accounts'[u].role = "ADMIN" /\ accounts'[u].active
    /\ UNCHANGED <<clock, grants, chains, last>>

LifeNext ==
    \/ Pass \/ Extend \/ Withdraw
    \/ \E u \in Users : Grant(u) \/ Open(u) \/ Manage(u) \/ First(u)

LifeSpec == LifeInit /\ [][LifeNext]_lifeVars
=============================================================================
