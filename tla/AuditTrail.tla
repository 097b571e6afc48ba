----------------------------- MODULE AuditTrail -----------------------------
(***************************************************************************)
(* AuditMiddleware (core/audit.py) around the requests of Sessions.tla.    *)
(* When a request is answered, dispatch decodes the JWT a second time and  *)
(* leaves the record to a task of its own, which has a transaction of its  *)
(* own.  A request that ends without an answer passes the middleware as an *)
(* exception, and the task of a record dies with its process.              *)
(***************************************************************************)
EXTENDS Sessions

VARIABLES
    serial,   \* which request each slot is serving
    effects,  \* history: the requests that committed, with their callers
    tasks,    \* audit records some task is about to write
    trail,    \* committed rows of audit_logs
    faults    \* history: did a request or a task ever fail?

auditVars == <<serial, effects, tasks, trail, faults>>
allVars   == <<vars, auditVars>>

Record == [n : Nat, author : SUBSET Users, ok : BOOLEAN]
Effect == [n : Nat, caller : SUBSET Users]

AuditInit ==
    /\ Init
    /\ serial = [r \in Requests |-> 0]
    /\ effects = {} /\ tasks = {} /\ trail = {}
    /\ faults = FALSE

Callers(js) == {j.sub : j \in js}

\* Mutant: the author is whoever the request concerns.
Dispatched_Subject(r) ==
    [n |-> serial[r], ok |-> req[r].ok, author |-> req[r].user]

\* dispatch, once call_next has returned: the JWT is decoded again, and by now it
\* may have expired; then the record has no author.
Dispatched(r) ==
    [n |-> serial[r], ok |-> req[r].ok,
     author |-> Callers({j \in req[r].by : now <= j.exp})]

AuditBegin(r) ==
    /\ Begin(r)
    /\ serial' = [serial EXCEPT ![r] = begun']
    /\ UNCHANGED <<effects, tasks, trail, faults>>

\* Nothing is recorded while the request runs; a COMMIT that succeeds is the
\* moment its effect is there.
AuditContinue(r) ==
    /\ Continue(r)
    /\ effects' = effects \cup
          IF req[r].pc = "commit" /\ req[r].op # "seed" /\ req'[r].pc = "answer"
          THEN {[n |-> serial[r], caller |-> Callers(req[r].by)]} ELSE {}
    /\ faults' = (faults \/ (req[r].pc = "commit" /\ Collides(req[r])))
    /\ serial' = [serial EXCEPT ![r] = IF req'[r] = Idle THEN 0 ELSE @]
    /\ UNCHANGED <<tasks, trail>>

\* Mutant: a record without an author is not worth a row.
AuditAnswer_Named(r) ==
    /\ Answer(r)
    /\ tasks' = tasks \cup {t \in {Dispatched(r)} : t.author # {}}
    /\ serial' = [serial EXCEPT ![r] = 0]
    /\ UNCHANGED <<effects, trail, faults>>

\* The answer leaves through dispatch, which starts the task of its record.
AuditAnswer(r) ==
    /\ Answer(r)
    /\ tasks' = tasks \cup {Dispatched(r)}
    /\ serial' = [serial EXCEPT ![r] = 0]
    /\ UNCHANGED <<effects, trail, faults>>

\* An exception goes past dispatch: no record.
AuditFail(r) ==
    /\ Fail(r)
    /\ faults' = TRUE
    /\ serial' = [serial EXCEPT ![r] = 0]
    /\ UNCHANGED <<effects, tasks, trail>>

AuditTick == Tick /\ UNCHANGED auditVars

\* _persist_audit commits its row.
Persist(t) ==
    /\ tasks' = tasks \ {t}
    /\ trail' = trail \cup {t}
    /\ UNCHANGED <<serial, effects, faults>>
    /\ UNCHANGED <<now, users, redis, issued, known, access, req, begun>>

\* Its exception is logged and swallowed, or the process stops first.
LoseTask(t) ==
    /\ tasks' = tasks \ {t}
    /\ faults' = TRUE
    /\ UNCHANGED <<serial, effects, trail>>
    /\ UNCHANGED <<now, users, redis, issued, known, access, req, begun>>

AuditNext ==
    /\ \/ AuditTick
       \/ \E r \in Requests :
             AuditBegin(r) \/ AuditContinue(r) \/ AuditAnswer(r) \/ AuditFail(r)
       \/ \E t \in tasks : Persist(t) \/ LoseTask(t)
    /\ Observe

AuditSpec == AuditInit /\ [][AuditNext]_allVars

-----------------------------------------------------------------------------
(* Properties *)

AuditTypeOK ==
    /\ TypeOK
    /\ serial \in [Requests -> Nat]
    /\ effects \subseteq Effect
    /\ tasks \subseteq Record /\ trail \subseteq Record
    /\ faults \in BOOLEAN

\* A 2xx line of the trail that names an author stands for a mutation that is in
\* the database, and its author is who asked for it; records written out of order,
\* by tasks that overtake each other, never exchange them.
TrailTruthful ==
    \A t \in trail : t.ok /\ t.author # {} =>
        \E e \in effects : e.n = t.n /\ e.caller = t.author

\* "Enregistre toutes les mutations" (core/audit.py:2): as long as nothing failed,
\* every committed mutation is in the trail, on its way, or not yet answered.
CompleteWhenCalm ==
    ~faults => \A e \in effects :
        \/ \E t \in trail \cup tasks : t.n = e.n
        \/ \E r \in Requests : serial[r] = e.n /\ req[r].pc = "answer"
=============================================================================
