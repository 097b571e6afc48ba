-------------------------- MODULE MCFiscalPeriods --------------------------
(* The instances of FiscalPeriods that TLC checks. *)
EXTENDS FiscalPeriods, TLC

\* Months of three, two and three days.
MCMonthEnd == <<3, 3, 3, 5, 5, 8, 8, 8>>

Symmetric == Permutations(Requests) \cup Permutations(Years)

=============================================================================
