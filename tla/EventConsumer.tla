--------------------------- MODULE EventConsumer ---------------------------
(***************************************************************************)
(* The consumer of business events (run_consumer in services/              *)
(* kafka_consumer.py of the accounting service): it books the events of    *)
(* the credit, savings and cash topics, retries, and sends what it cannot  *)
(* book to a dead letter queue (DLQ).                                      *)
(*                                                                         *)
(* One attempt at an event is one transaction, the "ingest" request of     *)
(* JournalEntries; here it is one action, because what matters is the      *)
(* order between that commit, the DLQ and the commit of Kafka offsets.     *)
(***************************************************************************)
EXTENDS Integers, Sequences

CONSTANTS
    Consumers,     \* processes of the service, all in one consumer group
    Topics,        \* each has one partition
    Events,        \* event_id
    Log,           \* messages of each topic
    MAX_RETRIES,
    NoConsumer, NoMessage

(* What run_consumer and process_event make of a message, before looking at
   what is booked: "bookable", a rule gives an entry that create_entry and
   post_entry accept; "unruled", RULE_MAP has no rule for its type; "rejected",
   it raises at every attempt (unknown account or type, closed period, a field
   missing, no amount); "foreign", source_service is not the one its topic
   expects; "poison", it is not a JSON object. *)
Kinds   == {"bookable", "unruled", "rejected", "foreign", "poison"}
Message == [event : Events, kind : Kinds]

ASSUME LogAssumption ==
    /\ Log \in [Topics -> Seq(Message)]
    /\ MAX_RETRIES \in Nat \ {0}
    /\ NoConsumer \notin Consumers
    /\ NoMessage \notin [topic : Topics, offset : Nat]

VARIABLES
    committed,   \* messages of each topic that the group has committed
    owner,       \* which consumer a topic is assigned to
    pos,         \* messages a consumer has taken from its topics
    pc,          \* where each consumer task is
    msg,         \* the message it handles
    attempt,
    booked,      \* events that have a committed entry
    dlq          \* messages that were sent to the DLQ

work == <<pos, msg, attempt>>
vars == <<committed, owner, pos, pc, msg, attempt, booked, dlq>>

Points == {"down", "poll", "attempt", "commit", "sendDlq", "commitDlq", "dead"}

Init ==
    /\ committed = [t \in Topics |-> 0]
    /\ owner = [t \in Topics |-> NoConsumer]
    /\ pos = [c \in Consumers |-> [t \in Topics |-> 0]]
    /\ pc = [c \in Consumers |-> "down"]
    /\ msg = [c \in Consumers |-> NoMessage]
    /\ attempt = [c \in Consumers |-> 1]
    /\ booked = {}
    /\ dlq = {}

Members == {c \in Consumers : pc[c] \notin {"down", "dead"}}
Handling(c) == Log[msg[c].topic][msg[c].offset]

-----------------------------------------------------------------------------
(* The consumer group *)

\* The process starts and its lifespan creates the task.
Join(c) ==
    /\ pc[c] = "down"
    /\ pc' = [pc EXCEPT ![c] = "poll"]
    /\ UNCHANGED <<committed, owner, work, booked, dlq>>

\* Kafka shares the topics out again.  A consumer takes up what it is given at
\* the committed offset; one that is in the middle of a message goes on with it.
Rebalance ==
    /\ owner' \in [Topics -> Members]
    /\ pos' = [c \in Consumers |-> [t \in Topics |->
                 IF owner'[t] = c THEN committed[t] ELSE pos[c][t]]]
    /\ UNCHANGED <<committed, pc, msg, attempt, booked, dlq>>

\* The task ends, by an exception or with its process, and leaves the group.
Leave(c, where) ==
    /\ pc' = [pc EXCEPT ![c] = where]
    /\ owner' = [t \in Topics |-> IF owner[t] = c THEN NoConsumer ELSE owner[t]]
    /\ msg' = [msg EXCEPT ![c] = NoMessage]
    /\ UNCHANGED <<pos, attempt>>

\* Nothing restarts a task that died while its process lives.
Crash(c) == pc[c] # "down" /\ Leave(c, "down") /\ UNCHANGED <<committed, booked, dlq>>

-----------------------------------------------------------------------------
(* Taking a message *)

Poll(c) ==
    /\ pc[c] = "poll"
    /\ \E t \in Topics :
         /\ owner[t] = c
         /\ pos[c][t] < Len(Log[t])
         /\ Log[t][pos[c][t] + 1].kind \notin {"foreign", "poison"}
         /\ pos' = [pos EXCEPT ![c][t] = @ + 1]
         /\ msg' = [msg EXCEPT ![c] = [topic |-> t, offset |-> pos[c][t] + 1]]
    /\ attempt' = [attempt EXCEPT ![c] = 1]
    /\ pc' = [pc EXCEPT ![c] = "attempt"]
    /\ UNCHANGED <<committed, owner, booked, dlq>>

\* A message of another service than its topic's is passed over, not committed.
SkipForeign(c) ==
    /\ pc[c] = "poll"
    /\ \E t \in Topics :
         /\ owner[t] = c
         /\ pos[c][t] < Len(Log[t])
         /\ Log[t][pos[c][t] + 1].kind = "foreign"
         /\ pos' = [pos EXCEPT ![c][t] = @ + 1]
    /\ UNCHANGED <<committed, owner, pc, msg, attempt, booked, dlq>>

\* The loop has no try of its own: when the next message does not parse, or
\* fetching it raises (topic no longer authorized, offset out of range), the
\* task is dead.
FetchFails(c) ==
    /\ pc[c] = "poll"
    /\ \E t \in Topics : owner[t] = c /\ pos[c][t] < Len(Log[t])
    /\ Leave(c, "dead")
    /\ UNCHANGED <<committed, booked, dlq>>

-----------------------------------------------------------------------------
(* One attempt *)

\* Mutant: the consumer never gives up.
RetryForever(c) ==
    /\ pc' = [pc EXCEPT ![c] = "attempt"]
    /\ UNCHANGED attempt

\* Mutant: after the last attempt the message is dropped.
RetryThenDrop(c) ==
    IF attempt[c] < MAX_RETRIES
    THEN /\ attempt' = [attempt EXCEPT ![c] = @ + 1]
         /\ pc' = [pc EXCEPT ![c] = "attempt"]
    ELSE /\ pc' = [pc EXCEPT ![c] = "poll"]
         /\ UNCHANGED attempt

\* The attempt raised: another one, or the DLQ after MAX_RETRIES.
Retry(c) ==
    IF attempt[c] < MAX_RETRIES
    THEN /\ attempt' = [attempt EXCEPT ![c] = @ + 1]
         /\ pc' = [pc EXCEPT ![c] = "attempt"]
    ELSE /\ pc' = [pc EXCEPT ![c] = "sendDlq"]
         /\ UNCHANGED attempt

\* process_event commits an entry; the answer to COMMIT may be lost.
Book(c) ==
    /\ pc[c] = "attempt"
    /\ Handling(c).kind = "bookable"
    /\ Handling(c).event \notin booked
    /\ booked' = booked \cup {Handling(c).event}
    /\ \/ pc' = [pc EXCEPT ![c] = "commit"] /\ UNCHANGED attempt
       \/ Retry(c)
    /\ UNCHANGED <<committed, owner, pos, msg, dlq>>

\* No rule: process_event logs it and returns.
Ignore(c) ==
    /\ pc[c] = "attempt"
    /\ Handling(c).kind = "unruled"
    /\ pc' = [pc EXCEPT ![c] = "commit"]
    /\ UNCHANGED <<committed, owner, work, booked, dlq>>

\* It raises: always for a rejected event and, as post_entry refuses an entry
\* that is posted, for one already booked; for any other when the database fails.
Fail(c) ==
    /\ pc[c] = "attempt"
    /\ Handling(c).kind \in {"bookable", "rejected"}
    /\ Retry(c)
    /\ UNCHANGED <<committed, owner, pos, msg, booked, dlq>>

-----------------------------------------------------------------------------
(* Committing offsets *)

\* Mutant: the offset of the message at hand is committed, not the position.
CommitMessage(c) ==
    committed' = [committed EXCEPT ![msg[c].topic] =
                    IF owner[msg[c].topic] = c THEN msg[c].offset ELSE @]

\* consumer.commit(): the positions of all the topics assigned to it by now.
CommitPositions(c) ==
    committed' = [t \in Topics |-> IF owner[t] = c THEN pos[c][t] ELSE committed[t]]

Done(c) == /\ pc' = [pc EXCEPT ![c] = "poll"]
           /\ msg' = [msg EXCEPT ![c] = NoMessage]

CommitOffsets(c) ==
    /\ pc[c] = "commit"
    /\ CommitPositions(c)
    /\ Done(c)
    /\ UNCHANGED <<owner, pos, attempt, booked, dlq>>

\* A commit that fails, or whose answer is lost, counts as a failed attempt.
CommitFails(c) ==
    /\ pc[c] = "commit"
    /\ CommitPositions(c) \/ UNCHANGED committed
    /\ Retry(c)
    /\ UNCHANGED <<owner, pos, msg, booked, dlq>>

\* Mutant: the message is taken for delivered whatever the producer says.
SendDlqUnacknowledged(c) ==
    /\ pc[c] = "sendDlq"
    /\ dlq' \in {dlq, dlq \cup {msg[c]}}
    /\ pc' = [pc EXCEPT ![c] = "commitDlq"]
    /\ UNCHANGED <<committed, owner, work, booked>>

\* send_and_wait: the broker has acknowledged the message.
SendDlq(c) ==
    /\ pc[c] = "sendDlq"
    /\ dlq' = dlq \cup {msg[c]}
    /\ pc' = [pc EXCEPT ![c] = "commitDlq"]
    /\ UNCHANGED <<committed, owner, work, booked>>

\* send_and_wait raises, delivered or not, outside the try: the task is dead.
SendDlqFails(c) ==
    /\ pc[c] = "sendDlq"
    /\ dlq' \in {dlq, dlq \cup {msg[c]}}
    /\ Leave(c, "dead")
    /\ UNCHANGED <<committed, booked>>

CommitDlq(c) ==
    /\ pc[c] = "commitDlq"
    /\ CommitPositions(c)
    /\ Done(c)
    /\ UNCHANGED <<owner, pos, attempt, booked, dlq>>

CommitDlqFails(c) ==
    /\ pc[c] = "commitDlq"
    /\ CommitPositions(c) \/ UNCHANGED committed
    /\ Leave(c, "dead")
    /\ UNCHANGED <<booked, dlq>>

-----------------------------------------------------------------------------
Step(c) ==
    \/ Poll(c) \/ SkipForeign(c) \/ FetchFails(c)
    \/ Book(c) \/ Ignore(c) \/ Fail(c)
    \/ CommitOffsets(c) \/ CommitFails(c)
    \/ SendDlq(c) \/ SendDlqFails(c) \/ CommitDlq(c) \/ CommitDlqFails(c)

Next == Rebalance \/ \E c \in Consumers : Join(c) \/ Step(c) \/ Crash(c)

Spec == Init /\ [][Next]_vars

\* Docker restarts the process, Kafka gives every topic to a member of the
\* group, and the event loop runs the task.
Unowned == Rebalance /\ \E t \in Topics : owner[t] = NoConsumer

FairSpec ==
    /\ Spec
    /\ WF_vars(Unowned)
    /\ \A c \in Consumers : WF_vars(Join(c)) /\ WF_vars(Step(c))

-----------------------------------------------------------------------------
(* Properties *)

\* Every variable keeps its type.
TypeOK ==
    /\ committed \in [Topics -> Nat]
    /\ owner \in [Topics -> Consumers \cup {NoConsumer}]
    /\ pos \in [Consumers -> [Topics -> Nat]]
    /\ pc \in [Consumers -> Points]
    /\ msg \in [Consumers -> [topic : Topics, offset : Nat] \cup {NoMessage}]
    /\ attempt \in [Consumers -> 1..MAX_RETRIES]
    /\ booked \subseteq Events
    /\ dlq \subseteq [topic : Topics, offset : Nat]

\* A message is accounted for: booked, in the DLQ, or one the service ignores.
Settled(t, o) ==
    \/ Log[t][o].kind \in {"unruled", "foreign"}
    \/ Log[t][o].event \in booked
    \/ [topic |-> t, offset |-> o] \in dlq

\* At least once: what the group has committed is accounted for, whatever
\* crashes, rebalances, fails or loses its answer.  consumer.commit() names no
\* message, it commits every topic's position.
NoEventLost == \A t \in Topics : \A o \in 1..committed[t] : Settled(t, o)

\* A message is handled only after all earlier ones of its topic are accounted
\* for (a repayment after the disbursement), by whichever process handled them.
OrderedHandling ==
    \A c \in Consumers : msg[c] # NoMessage =>
        \A o \in 1..msg[c].offset - 1 : Settled(msg[c].topic, o)

\* The group's offset never goes back, although a process that lost a topic and
\* got it again still finishes the message it was handling.
NoRewind == [][\A t \in Topics : committed'[t] >= committed[t]]_committed

Disturbance == Rebalance \/ \E c \in Consumers : Crash(c)

\* Once processes stop crashing and Kafka stops rebalancing, every message is
\* accounted for, unless every task died: the retries end.
EverythingSettled ==
    <>[][~Disturbance \/ Unowned]_vars =>
        <>(\/ \A t \in Topics : \A o \in DOMAIN Log[t] : Settled(t, o)
           \/ \A c \in Consumers : pc[c] = "dead")

=============================================================================
