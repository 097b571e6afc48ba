----------------------------- MODULE AccountPlan -----------------------------
(***************************************************************************)
(* The table account_plans under concurrent requests: AccountService,      *)
(* api/v1/accounts.py (templates, import of a file) and the seed script,   *)
(* each a transaction in READ COMMITTED.                                   *)
(*                                                                         *)
(* Accounts are known by their code: ids are minted by the writer, and no  *)
(* row is ever deleted.  What a request wrote is visible to the others at  *)
(* its COMMIT; until then its rows are locked, and the unique constraint   *)
(* on the code makes an INSERT of the same code wait.  Steps that only     *)
(* compute, between two statements, belong to the statement before.        *)
(***************************************************************************)
EXTENDS Naturals, FiniteSets, Sequences, SequencesExt

CONSTANTS
    Codes,        \* account codes
    NoCode,       \* parent_code = None
    Requests,
    Plans,        \* accounts and journals of each template
    SeedPlan,     \* those of the seed script
    Creations,    \* bodies of POST /accounts
    Files,        \* rows of the files that are imported
    Journals,
    MaxVersion    \* bound: updates of one account

VARIABLES
    chart,     \* committed rows of account_plans
    journals,  \* committed rows of journals
    mine,      \* rows a request inserted and did not commit
    marked,    \* rows whose is_leaf it has set to FALSE: it holds them
    job        \* what it is doing

vars == <<chart, journals, mine, marked, job>>

-----------------------------------------------------------------------------
(* Types *)

Def == [code : Codes, class : STRING, type : STRING, parent : Codes \cup {NoCode},
        leaf : BOOLEAN]

Row == [class : STRING, type : STRING, parent : Codes \cup {NoCode}, path : Seq(Codes),
        leaf : BOOLEAN, active : BOOLEAN, version : Nat \ {0}]

NoRow == [class |-> "none", type |-> "none", parent |-> NoCode, path |-> << >>,
          leaf |-> FALSE, active |-> FALSE, version |-> 0]

\* known: code_to_id; leaves: which of the accounts it indexed were leaves then;
\* todo: definitions still to insert; goal: all it was given;
\* target, value, seen: the account a PATCH is about, is_active, the version read.
Job == [op : {"none", "create", "load", "seed", "import", "patch"},
        pc : {"idle", "next", "insert", "journals", "commit", "update"},
        known : SUBSET Codes, leaves : SUBSET Codes, todo : Seq(Def), goal : SUBSET Codes,
        wanted : SUBSET Journals, target : Codes \cup {NoCode}, value : BOOLEAN,
        seen : Nat]

Idle == [op |-> "none", pc |-> "idle", known |-> {}, leaves |-> {}, todo |-> << >>,
         goal |-> {}, wanted |-> {}, target |-> NoCode, value |-> FALSE, seen |-> 0]

ASSUME CodeAssumption == NoCode \notin Codes
ASSUME PlanAssumption ==
    \A p \in DOMAIN Plans : Plans[p].accounts \in Seq(Def) /\ Plans[p].journals \subseteq Journals
ASSUME SeedAssumption == SeedPlan.accounts \in Seq(Def) /\ SeedPlan.journals \subseteq Journals
\* Two templates do not list the same accounts; the seed script lists a parent
\* before its children.
ASSUME TemplateAssumption ==
    \A p, q \in DOMAIN Plans :
        {Plans[p].accounts[i].code : i \in DOMAIN Plans[p].accounts} =
        {Plans[q].accounts[i].code : i \in DOMAIN Plans[q].accounts}
        => Plans[p].accounts = Plans[q].accounts
ASSUME SeedOrderAssumption ==
    \A i, k \in DOMAIN SeedPlan.accounts :
        SeedPlan.accounts[i].parent = SeedPlan.accounts[k].code => k < i
ASSUME InputAssumption == Creations \subseteq Def /\ Files \subseteq Seq(Def)

Init ==
    /\ chart = [c \in Codes |-> NoRow]
    /\ journals = {}
    /\ mine = [r \in Requests |-> [c \in Codes |-> NoRow]]
    /\ marked = [r \in Requests |-> {}]
    /\ job = [r \in Requests |-> Idle]

Committed == {c \in Codes : chart[c] # NoRow}
Leaves    == {c \in Committed : chart[c].leaf}
Pending(r) == {c \in Codes : mine[r][c] # NoRow}

\* The row as request r sees it.
Seen(r, c) == IF c \in Pending(r) THEN mine[r][c] ELSE chart[c]

\* Rows it holds until its transaction ends.
Held(r) == marked[r] \cup (IF job[r].op = "patch" /\ job[r].pc = "commit"
                           THEN {job[r].target} ELSE {})

Others(r) == Requests \ {r}

-----------------------------------------------------------------------------
(* Beginning *)

Begin(r, j) ==
    /\ job[r] = Idle
    /\ job' = [job EXCEPT ![r] = j]
    /\ UNCHANGED <<chart, journals, mine, marked>>

\* The members of AccountClass, and their values.
ClassValue == [CAPITAL |-> "1", IMMOBILISE |-> "2", STOCK |-> "3", TIERS |-> "4",
               TRESORERIE |-> "5", CHARGES |-> "6", PRODUITS |-> "7",
               SPECIAUX |-> "8", ANALYTIQUE |-> "9"]

ClassNames  == DOMAIN ClassValue
ClassValues == {ClassValue[n] : n \in ClassNames}

\* ACCOUNT_CLASS_VALUES: a digit or a name becomes the name.
Normalised(raw) ==
    IF raw \in ClassValues THEN CHOOSE n \in ClassNames : ClassValue[n] = raw ELSE raw

\* AccountClass(raw_class) looks a member up by its value, and raises otherwise;
\* the row is then reported and left out.
Accepted(raw) == Normalised(raw) \in ClassValues

\* A definition is skipped if its code is known, a row of a file also if its class
\* raises.
Wanted(j, d) == d.code \notin j.known /\ (j.op = "import" => Accepted(d.class))

\* The next definition that is not skipped; after the last one, the journals.
Resume(j) ==
    LET left == {i \in DOMAIN j.todo : Wanted(j, j.todo[i])}
    IN  IF left = {}
        THEN [j EXCEPT !.todo = << >>,
                       !.pc = IF j.op \in {"load", "seed"} THEN "journals" ELSE "commit"]
        ELSE [j EXCEPT !.todo = SubSeq(@, Min(left), Len(@)), !.pc = "next"]

\* AccountService.create: the code is free, the parent exists.
Create(r, d) ==
    /\ d.code \notin Committed
    /\ d.parent \in Committed \cup {NoCode}
    /\ Begin(r, Resume([Idle EXCEPT !.op = "create", !.todo = <<d>>,
            !.known = Committed, !.leaves = Leaves, !.goal = {d.code}]))

\* Mutant: a chart that has accounts is taken for a loaded one.
Load_Once(r, plan) ==
    Begin(r, Resume([Idle EXCEPT !.op = "load", !.known = Committed, !.leaves = Leaves,
        !.todo = IF Committed = {} THEN plan.accounts ELSE << >>,
        !.goal = {plan.accounts[i].code : i \in DOMAIN plan.accounts},
        !.wanted = plan.journals]))

\* Mutant: the definitions are a set, which each process walks in an order of its own.
Load_AnyOrder(r, plan) ==
    \E todo \in {plan.accounts, Reverse(plan.accounts)} :
        Begin(r, Resume([Idle EXCEPT !.op = "load", !.known = Committed, !.leaves = Leaves,
            !.todo = todo,
            !.goal = {plan.accounts[i].code : i \in DOMAIN plan.accounts},
            !.wanted = plan.journals]))

\* POST /accounts/templates/{id}/load: the committed codes are indexed once.
Load(r, plan) ==
    Begin(r, Resume([Idle EXCEPT !.op = "load", !.known = Committed, !.leaves = Leaves,
        !.todo = plan.accounts,
        !.goal = {plan.accounts[i].code : i \in DOMAIN plan.accounts},
        !.wanted = plan.journals]))

\* The seed script looks each code up when its turn comes.
StartSeed(r) ==
    Begin(r, Resume([Idle EXCEPT !.op = "seed", !.todo = SeedPlan.accounts,
        !.goal = {SeedPlan.accounts[i].code : i \in DOMAIN SeedPlan.accounts},
        !.wanted = SeedPlan.journals]))

\* POST /accounts/import.  A row whose parent is unknown is reported and inserted
\* as a root; every inserted row is a leaf.
Import(r, file) ==
    Begin(r, Resume([Idle EXCEPT !.op = "import", !.known = Committed, !.leaves = Leaves,
        !.todo = [i \in DOMAIN file |-> [file[i] EXCEPT !.leaf = TRUE]]]))

\* update and deactivate read the row, and its version.
StartPatch(r, c, value) ==
    /\ c \in Committed
    /\ Begin(r, [Idle EXCEPT !.op = "patch", !.pc = "update", !.target = c,
                             !.value = value, !.seen = chart[c].version])

\* deactivate adds two reads: no committed child, and nothing booked.
StartDeactivate(r, c) ==
    /\ \A b \in Committed : chart[b].parent # c
    /\ StartPatch(r, c, FALSE)

-----------------------------------------------------------------------------
(* Statements *)

\* The SELECT the seed script does for each code.
Find(r) ==
    LET d == Head(job[r].todo)
    IN  /\ job[r].pc = "next" /\ job[r].op = "seed" /\ d.code \in Committed
        /\ job' = [job EXCEPT ![r] = Resume([job[r] EXCEPT
                      !.known = @ \cup {d.code}, !.todo = Tail(@)])]
        /\ UNCHANGED <<chart, journals, mine, marked>>

\* Where the next account goes: under its parent if the request knows it.
ParentOf(r, d) == IF d.parent \in job[r].known THEN d.parent ELSE NoCode

\* is_leaf as the request's session has it: its own row, or the one it loaded when
\* it indexed the chart; the seed script loads the parent again.
LeafFor(r, p) ==
    IF p \in Pending(r) THEN mine[r][p].leaf
    ELSE IF job[r].op = "seed" THEN p \in Leaves ELSE p \in job[r].leaves

\* Mutant: a parent stays what it was.
Mark_Never(r) ==
    /\ job[r].pc = "next"
    /\ ~(job[r].op = "seed" /\ Head(job[r].todo).code \in Committed)
    /\ job' = [job EXCEPT ![r].pc = "insert"]
    /\ UNCHANGED <<chart, journals, mine, marked>>

\* The flush writes is_leaf = FALSE on a parent that was loaded as a leaf, and
\* waits for whoever holds its row; then comes the INSERT.
Mark(r) ==
    LET p == ParentOf(r, Head(job[r].todo))
    IN  /\ job[r].pc = "next"
        /\ ~(job[r].op = "seed" /\ Head(job[r].todo).code \in Committed)
        /\ IF p = NoCode \/ ~LeafFor(r, p) \/ p \in marked[r]
           THEN UNCHANGED <<mine, marked>>
           ELSE IF p \in Pending(r)
           THEN mine' = [mine EXCEPT ![r][p].leaf = FALSE] /\ UNCHANGED marked
           ELSE /\ \A q \in Others(r) : p \notin Held(q)
                /\ marked' = [marked EXCEPT ![r] = @ \cup {p}]
                /\ UNCHANGED mine
        /\ job' = [job EXCEPT ![r].pc = "insert"]
        /\ UNCHANGED <<chart, journals>>

\* level and path come from the parent: the level is the length of the path.
Inserted(r, d) ==
    LET p == ParentOf(r, d)
    IN  [class |-> d.class, type |-> d.type, parent |-> p,
         path |-> IF p = NoCode THEN << >> ELSE Append(Seen(r, p).path, p),
         leaf |-> d.leaf, active |-> TRUE, version |-> 1]

\* The unique constraint: wait for a pending row, fail on a committed one.
Insert(r) ==
    LET d == Head(job[r].todo)
    IN  /\ job[r].pc = "insert"
        /\ \A q \in Others(r) : d.code \notin Pending(q)
        /\ d.code \notin Committed
        /\ mine' = [mine EXCEPT ![r][d.code] = Inserted(r, d)]
        /\ job' = [job EXCEPT ![r] = Resume([job[r] EXCEPT
                      !.known = @ \cup {d.code}, !.todo = Tail(@)])]
        /\ UNCHANGED <<chart, journals, marked>>

\* A journal of the template that is not found is added to the session.
FindJournals(r) ==
    /\ job[r].pc = "journals"
    /\ job' = [job EXCEPT ![r].pc = "commit", ![r].wanted = @ \ journals]
    /\ UNCHANGED <<chart, journals, mine, marked>>

\* Mutant: the version is not part of the WHERE clause.
Update_Blind(r) ==
    /\ job[r].pc = "update"
    /\ \A q \in Others(r) : job[r].target \notin Held(q)
    /\ job' = [job EXCEPT ![r].pc = "commit"]
    /\ UNCHANGED <<chart, journals, mine, marked>>

\* UPDATE ... WHERE id = ... AND version = ...: it waits for the row, then looks
\* at the version that is committed; no row, and the request fails (Fail).
Update(r) ==
    /\ job[r].pc = "update"
    /\ \A q \in Others(r) : job[r].target \notin Held(q)
    /\ chart[job[r].target].version = job[r].seen
    /\ job' = [job EXCEPT ![r].pc = "commit"]
    /\ UNCHANGED <<chart, journals, mine, marked>>

\* Mutant: the seed script gives an account that it finds the class of its list.
Written_Merged(r, c) ==
    CASE c \in Pending(r) -> mine[r][c]
      [] c \in marked[r] -> [chart[c] EXCEPT !.leaf = FALSE]
      [] job[r].op = "patch" /\ c = job[r].target ->
            [chart[c] EXCEPT !.active = job[r].value, !.version = job[r].seen + 1]
      [] job[r].op = "seed" /\ c \in job[r].goal \cap Committed ->
            [chart[c] EXCEPT !.class =
               (CHOOSE d \in ToSet(SeedPlan.accounts) : d.code = c).class]
      [] OTHER -> chart[c]

\* The rows of request r as its COMMIT leaves them.
Written(r, c) ==
    CASE c \in Pending(r) -> mine[r][c]
      [] c \in marked[r] -> [chart[c] EXCEPT !.leaf = FALSE]
      [] job[r].op = "patch" /\ c = job[r].target ->
            [chart[c] EXCEPT !.active = job[r].value, !.version = job[r].seen + 1]
      [] OTHER -> chart[c]

\* New journals are inserted in the flush of the COMMIT, which fails if another
\* request committed one of them since they were looked up.
Commit(r) ==
    /\ job[r].pc = "commit"
    /\ job[r].wanted \cap journals = {}
    /\ job[r].op = "patch" => job[r].seen < MaxVersion
    /\ chart' = [c \in Codes |-> Written(r, c)]
    /\ journals' = journals \cup job[r].wanted
    /\ mine' = [mine EXCEPT ![r] = [c \in Codes |-> NoRow]]
    /\ marked' = [marked EXCEPT ![r] = {}]
    /\ job' = [job EXCEPT ![r] = Idle]

\* The transaction is rolled back: unique constraint, version conflict, deadlock
\* found by PostgreSQL, lost connection, process stopped.
Fail(r) ==
    /\ job[r] # Idle
    /\ mine' = [mine EXCEPT ![r] = [c \in Codes |-> NoRow]]
    /\ marked' = [marked EXCEPT ![r] = {}]
    /\ job' = [job EXCEPT ![r] = Idle]
    /\ UNCHANGED <<chart, journals>>

-----------------------------------------------------------------------------
Next ==
    \E r \in Requests :
        \/ \E d \in Creations : Create(r, d)
        \/ \E p \in DOMAIN Plans : Load(r, Plans[p])
        \/ StartSeed(r)
        \/ \E f \in Files : Import(r, f)
        \/ \E c \in Codes : StartDeactivate(r, c)
        \/ \E c \in Codes, v \in BOOLEAN : StartPatch(r, c, v)
        \/ Find(r) \/ Mark(r) \/ Insert(r) \/ FindJournals(r) \/ Update(r)
        \/ Commit(r) \/ Fail(r)

Spec == Init /\ [][Next]_vars

-----------------------------------------------------------------------------
(* Properties *)

TypeOK ==
    /\ chart \in [Codes -> Row \cup {NoRow}]
    /\ journals \subseteq Journals
    /\ mine \in [Requests -> [Codes -> Row \cup {NoRow}]]
    /\ marked \in [Requests -> SUBSET Codes]
    /\ job \in [Requests -> Job]

\* The hierarchy: the parent of an account is there and is no leaf, and the path
\* of the account is its parent's, one longer.  Accounts, their parents and the
\* flag of the parents come from different requests, and each may fail.
TreeOK ==
    \A c \in Committed : chart[c].parent # NoCode =>
        LET p == chart[c].parent
        IN  /\ p \in Committed /\ ~chart[p].leaf
            /\ chart[c].path = Append(chart[p].path, p)

\* Optimistic locking (repositories/accounting.py): a request changes is_active
\* only of the row it read; of two that read the same version one fails.
NoLostUpdate ==
    [][\A c \in Committed : chart'[c].active # chart[c].active =>
          \E r \in Requests : /\ job[r].target = c /\ job'[r] = Idle
                              /\ job[r].seen = chart[c].version
                              /\ chart'[c].version = chart[c].version + 1]_vars

\* "Idempotent": once a template or the seed is loaded, all its accounts and its
\* journals are there, whoever created them and whatever is loaded beside it.
LoadComplete ==
    [][\A r \in Requests :
          (/\ job[r].op \in {"load", "seed"} /\ job'[r] # job[r] /\ job'[r] = Idle
           /\ <<chart, journals>>' # <<chart, journals>>)
          => /\ job[r].goal \subseteq {c \in Codes : chart'[c] # NoRow}
             /\ job[r].wanted \subseteq journals']_vars

\* "Ignore les comptes déjà existants" (accounts.py:280): a request that inserts
\* accounts changes no account that is there when it commits, except that the ones
\* it gives a child stop being leaves.  The parent is marked a statement before the
\* child is inserted, from a copy that was read before either.
ExistingKept ==
    [][\A r \in Requests :
          job[r].op # "patch" /\ job'[r] # job[r] /\ job'[r] = Idle =>
             \A c \in Committed : chart'[c] # chart[c] =>
                /\ chart'[c] = [chart[c] EXCEPT !.leaf = FALSE]
                /\ \E b \in Codes \ Committed : chart'[b].parent = c]_vars

\* r cannot go on before q ends: each disjunct is what a statement of r waits for.
WaitsFor(r, q) ==
    LET d == Head(job[r].todo)
        p == ParentOf(r, d)
    IN  \/ /\ job[r].pc = "insert" /\ d.code \in Pending(q)
        \/ /\ job[r].pc = "next" /\ ~(job[r].op = "seed" /\ d.code \in Committed)
           /\ p # NoCode /\ LeafFor(r, p) /\ p \notin marked[r] \cup Pending(r)
           /\ p \in Held(q)
        \/ /\ job[r].pc = "update" /\ job[r].target \in Held(q)

\* Loads of one template insert in the same order: in any group of them there is
\* one that waits for none of the others, so that no cycle of waits is ever closed
\* among them, however long.  (Two different plans may deadlock; PostgreSQL then
\* fails one of them.)
SamePlanNoDeadlock ==
    \A G \in (SUBSET Requests) \ {{}} :
        (\A r, q \in G : /\ job[r].op \in {"load", "seed"}
                         /\ job[q].op = job[r].op /\ job[q].goal = job[r].goal)
        => \E r \in G : \A q \in G \ {r} : ~WaitsFor(r, q)
=============================================================================
