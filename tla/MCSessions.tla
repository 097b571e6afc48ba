----------------------------- MODULE MCSessions -----------------------------
(* Small instances of Sessions for TLC. *)
EXTENDS AuditTrail, SessionsRefinement, TLC

CONSTANTS admin, alice, r1, r2

\* An empty table, and one with two administrators.
MCInitialUsers ==
    {[u \in Users |-> NoRow],
     [u \in Users |-> [role |-> "ADMIN", active |-> TRUE]]}

MCBodies ==
    {[role |-> {"AUDITOR"}, active |-> {}],
     [role |-> {}, active |-> {FALSE}],
     [role |-> {}, active |-> {TRUE}]}

Symmetric == Permutations({r1, r2})
=============================================================================
