----------------------------- MODULE Lettering -----------------------------
(***************************************************************************)
(* Lettering: grouping the journal lines that settle one another (an       *)
(* invoice and its payment) under a code (letter_lines in                  *)
(* services/accounting.py).                                                *)
(*                                                                         *)
(* As in JournalEntries, a request is a READ COMMITTED transaction.  The   *)
(* codes are assigned in memory and flushed by COMMIT, one UPDATE per line *)
(* in the order of their primary keys; an UPDATE waits for the line's row. *)
(***************************************************************************)
EXTENDS Integers, FiniteSets, FiniteSetsExt

CONSTANTS
    Requests,
    Lines,       \* primary keys of the lines, ordered
    Debit, Credit,
    Codes,       \* lettering codes: the client's, or a fresh uuid
    NoCode

ASSUME LineAssumption ==
    /\ Lines \subseteq Nat /\ IsFiniteSet(Lines)
    /\ Debit \in [Lines -> Nat] /\ Credit \in [Lines -> Nat]
    /\ NoCode \notin Codes

VARIABLES
    code,    \* lettering_code of each line, committed
    pc,      \* where each request is
    todo,    \* lines whose UPDATE it has still to send
    held,    \* lines it has updated, whose rows it holds
    wanted   \* the code it assigns

vars == <<code, pc, todo, held, wanted>>

Init ==
    /\ code = [l \in Lines |-> NoCode]
    /\ pc = [r \in Requests |-> "idle"]
    /\ todo = [r \in Requests |-> {}]
    /\ held = [r \in Requests |-> {}]
    /\ wanted = [r \in Requests |-> NoCode]

Total(amount, ls) == MapThenSumSet(LAMBDA l : amount[l], ls)
Balances(ls) == Total(Debit, ls) = Total(Credit, ls)

-----------------------------------------------------------------------------
\* Mutant: the totals are not compared.
ReadUnbalanced(r, ls, c) ==
    /\ pc[r] = "idle"
    /\ \A l \in ls : code[l] = NoCode
    /\ pc' = [pc EXCEPT ![r] = "flush"]
    /\ todo' = [todo EXCEPT ![r] = ls]
    /\ wanted' = [wanted EXCEPT ![r] = c]
    /\ UNCHANGED <<code, held>>

\* SELECT of the lines that exist among line_ids, and the two checks; a request
\* that fails them has no effect.  The accounts are not compared.
ReadLines(r, ls, c) ==
    /\ pc[r] = "idle"
    /\ \A l \in ls : code[l] = NoCode
    /\ Balances(ls)
    /\ pc' = [pc EXCEPT ![r] = "flush"]
    /\ todo' = [todo EXCEPT ![r] = ls]
    /\ wanted' = [wanted EXCEPT ![r] = c]
    /\ UNCHANGED <<code, held>>

RowFree(r, l) == \A q \in Requests \ {r} : l \notin held[q]

\* Mutant: the lines are updated in the order the client named them.
UpdateInAnyOrder(r) ==
    /\ pc[r] = "flush"
    /\ \E l \in todo[r] :
          /\ RowFree(r, l)
          /\ held' = [held EXCEPT ![r] = @ \cup {l}]
          /\ todo' = [todo EXCEPT ![r] = @ \ {l}]
    /\ UNCHANGED <<code, pc, wanted>>

\* UPDATE journal_lines ... WHERE id: on the row as it is by then.
UpdateLine(r) ==
    /\ pc[r] = "flush"
    /\ todo[r] # {}
    /\ LET l == Min(todo[r])
       IN  /\ RowFree(r, l)
           /\ held' = [held EXCEPT ![r] = @ \cup {l}]
           /\ todo' = [todo EXCEPT ![r] = @ \ {l}]
    /\ UNCHANGED <<code, pc, wanted>>

Release(r) ==
    /\ pc' = [pc EXCEPT ![r] = "idle"]
    /\ todo' = [todo EXCEPT ![r] = {}]
    /\ held' = [held EXCEPT ![r] = {}]
    /\ wanted' = [wanted EXCEPT ![r] = NoCode]

Commit(r) ==
    /\ pc[r] = "flush"
    /\ todo[r] = {}
    /\ code' = [l \in Lines |-> IF l \in held[r] THEN wanted[r] ELSE code[l]]
    /\ Release(r)

Crash(r) == pc[r] = "flush" /\ Release(r) /\ UNCHANGED code

Next == \E r \in Requests :
    \/ \E ls \in SUBSET Lines, c \in Codes : ReadLines(r, ls, c)
    \/ UpdateLine(r) \/ Commit(r) \/ Crash(r)

Spec == Init /\ [][Next]_vars

-----------------------------------------------------------------------------
(* Properties *)

\* Every variable keeps its type, and a request between two calls holds nothing.
TypeOK ==
    /\ code \in [Lines -> Codes \cup {NoCode}]
    /\ pc \in [Requests -> {"idle", "flush"}]
    /\ todo \in [Requests -> SUBSET Lines]
    /\ held \in [Requests -> SUBSET Lines]
    /\ wanted \in [Requests -> Codes \cup {NoCode}]
    /\ \A r \in Requests : pc[r] = "idle" =>
          held[r] = {} /\ todo[r] = {} /\ wanted[r] = NoCode

Flushing == {r \in Requests : pc[r] = "flush"}

\* No deadlock, however the line sets of concurrent requests overlap: one of
\* the flushing requests at least has all its rows or finds the next one free.
SomeoneProceeds ==
    Flushing # {} => \E r \in Flushing : todo[r] = {} \/ RowFree(r, Min(todo[r]))

Group(c) == {l \in Lines : code[l] = c}

\* "Le lettrage doit être équilibré (Σdébit = Σcrédit)": the lines that carry a
\* code balance.
GroupsBalance == \A c \in Codes : Balances(Group(c))

\* A COMMIT takes over a line that another request lettered meanwhile, be it
\* with the same code.
Overwrite == \E r \in Requests : Commit(r) /\ \E l \in held[r] : code[l] # NoCode

\* However requests share lines, reuse codes and interleave their updates, a
\* COMMIT that overwrites no code leaves the groups balanced: taking over a line
\* between another's check and flush is the only way to unbalance one.
BalancedUnlessOverwritten ==
    [][GroupsBalance /\ ~Overwrite => GroupsBalance']_code

=============================================================================
