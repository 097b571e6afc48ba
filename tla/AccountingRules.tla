--------------------------- MODULE AccountingRules ---------------------------
(***************************************************************************)
(* What the consumer of business events makes of an event: the entry that  *)
(* AccountingRules (services/kafka_consumer.py) gives it, and whether the  *)
(* event comes to nothing (no rule), or is refused at every attempt.       *)
(*                                                                         *)
(* A payload is [type, source, date, amount, principal, interest, penalty],*)
(* an amount that is missing being 0: both are refused alike, or skipped   *)
(* alike by credit_repayment.                                              *)
(***************************************************************************)
EXTENDS Integers, Sequences

Pair(debited, credited, n) ==
    <<[account |-> debited, debit |-> n, credit |-> 0],
      [account |-> credited, debit |-> 0, credit |-> n]>>

\* The rules that book one amount: the account debited, the account credited.
OneAmount ==
    [CREDIT_DISBURSED          |-> <<"251100", "571100">>,
     CREDIT_WRITEOFF           |-> <<"694100", "251100">>,
     SAVINGS_DEPOSIT           |-> <<"571100", "371100">>,
     SAVINGS_WITHDRAWAL        |-> <<"371100", "571100">>,
     SAVINGS_INTEREST_CREDITED |-> <<"663100", "371100">>,
     CASH_DEPOSIT              |-> <<"571100", "411100">>,
     CASH_WITHDRAWAL           |-> <<"411100", "571100">>]

\* Mutant: interest is booked as principal.
repaid_in_full(p) == Pair("571100", "251100", p.principal + p.interest)

\* A repayment is split: what it does not have is left out.
credit_repayment(p) ==
    LET part(credited, n) == IF n > 0 THEN Pair("571100", credited, n) ELSE <<>>
    IN  part("251100", p.principal) \o part("701100", p.interest)
          \o part("701900", p.penalty)

RuledTypes == DOMAIN OneAmount \cup {"CREDIT_REPAYMENT"}
EventTypes == RuledTypes \cup
    {"CREDIT_INTEREST_ACCRUAL", "CREDIT_PENALTY_APPLIED", "CASH_TRANSFER"}

get_movements(p) ==
    IF p.type = "CREDIT_REPAYMENT" THEN credit_repayment(p)
    ELSE Pair(OneAmount[p.type][1], OneAmount[p.type][2], p.amount)

journal_map(source) ==
    CASE source = "credit-service" -> "CR"
      [] source = "savings-service" -> "EP"
      [] source = "cash-service" -> "CJ"
      [] OTHER -> "OD"

\* What create_entry and post_entry are given.
PostingOf(p) == [journal |-> journal_map(p.source), date |-> p.date, lines |-> get_movements(p)]

\* The accounts exist and are active, and JournalEntryCreate is valid: two lines
\* or more, none of them zero, an amount that is negative being refused.
Acceptable(ls, active) ==
    /\ Len(ls) >= 2
    /\ \A i \in DOMAIN ls :
          /\ ls[i].account \in active
          /\ ls[i].debit >= 0 /\ ls[i].credit >= 0
          /\ ls[i].debit > 0 \/ ls[i].credit > 0

\* What a message is to run_consumer, on a topic that is reserved to a source
\* and with these active accounts, on a date whose period is open.
KindOf(p, expected, active) ==
    CASE p.source # expected -> "foreign"
      [] p.source = expected /\ p.type \in EventTypes \ RuledTypes -> "unruled"
      [] p.source = expected /\ p.type \in RuledTypes /\ Acceptable(get_movements(p), active)
            -> "bookable"
      [] OTHER -> "rejected"

=============================================================================
