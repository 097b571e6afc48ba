---------------------------- MODULE MCLettering ----------------------------
(* The instance of Lettering that TLC checks. *)
EXTENDS Lettering

\* Two invoices of 1, a payment of 1 and one of 2: three groups overlap.
MCDebit  == [l \in Lines |-> IF l \in {1, 3} THEN 1 ELSE 0]
MCCredit == [l \in Lines |-> CASE l = 2 -> 1 [] l = 4 -> 2 [] OTHER -> 0]

=============================================================================
