-------------------------- MODULE MCEventConsumer --------------------------
(* The instances of EventConsumer that TLC checks. *)
EXTENDS EventConsumer, AccountingRules, TLC

CONSTANTS credit, cash, ev1, ev2

Of(e, k) == [event |-> e, kind |-> k]

\* Every kind of message but "poison", which ends every task that meets it:
\* FetchFails has that happen at any message.
EveryKind == credit :> <<Of(ev2, "foreign"), Of(ev2, "rejected"), Of(ev1, "bookable")>>
          @@ cash   :> <<Of(ev2, "unruled")>>

Plan == {"251100", "571100", "701100"}
Sent(type, source, amount) ==
    [type |-> type, source |-> source, date |-> 1, amount |-> amount,
     principal |-> amount, interest |-> 0, penalty |-> 0]
Payloads ==
    credit :> <<Sent("SAVINGS_DEPOSIT", "savings-service", 1),
                Sent("CREDIT_DISBURSED", "credit-service", 0),
                Sent("CREDIT_REPAYMENT", "credit-service", 1)>>
 @@ cash   :> <<Sent("CASH_TRANSFER", "cash-service", 1)>>
Expected == credit :> "credit-service" @@ cash :> "cash-service"

\* What AccountingRules makes of these payloads.
ASSUME KindsAreReal ==
    \A t \in Topics : \A o \in DOMAIN EveryKind[t] :
        EveryKind[t][o].kind = KindOf(Payloads[t][o], Expected[t], Plan)

=============================================================================
