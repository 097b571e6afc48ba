------------------------ MODULE EventConsumerProofs ------------------------
(***************************************************************************)
(* No event of the business topics is lost, for any number of processes,   *)
(* topics and messages and any number of retries.                          *)
(*                                                                         *)
(* NoEventLost is not inductive: a commit moves the group's offset to the  *)
(* position of the owner of the topic, and NoEventLost says nothing of     *)
(* positions.  Inv adds that all the owner has taken is settled but the    *)
(* message it handles (Taken), and that this one is settled too when       *)
(* offsets are committed (SettledBeforeCommit).                            *)
(***************************************************************************)
EXTENDS EventConsumer, TLAPS

Offset == [topic : Topics, offset : Nat]

\* A task handles a message of the log from its first attempt to the commit.
Busy ==
    /\ \A c \in Consumers :
          msg[c] # NoMessage => msg[c].offset \in 1..Len(Log[msg[c].topic])
    /\ \A c \in Consumers :
          msg[c] # NoMessage <=> pc[c] \in {"attempt", "commit", "sendDlq", "commitDlq"}
    /\ \A c \in Consumers, t \in Topics : owner[t] = c => c \in Members

Taken ==
    \A c \in Consumers, t \in Topics : owner[t] = c =>
        /\ committed[t] <= pos[c][t]
        /\ \A o \in 1..pos[c][t] :
              Settled(t, o) \/ msg[c] = [topic |-> t, offset |-> o]

SettledBeforeCommit ==
    \A c \in Consumers : pc[c] \in {"commit", "commitDlq"} =>
        Settled(msg[c].topic, msg[c].offset)

Inv == Busy /\ NoEventLost /\ OrderedHandling /\ Taken /\ SettledBeforeCommit

-----------------------------------------------------------------------------
(* Types *)

LEMMA LogTypes == MAX_RETRIES \in Nat /\ MAX_RETRIES >= 1
                  /\ NoConsumer \notin Consumers /\ NoMessage \notin Offset
BY LogAssumption DEF Offset

LEMMA TypeInit == Init => TypeOK
BY LogTypes DEF Init, TypeOK, Points

LEMMA RetryType ==
    ASSUME TypeOK, NEW c \in Consumers, Retry(c)
    PROVE  /\ pc' \in [Consumers -> Points]
           /\ attempt' \in [Consumers -> 1..MAX_RETRIES]
<1>1. attempt \in [Consumers -> 1..MAX_RETRIES] /\ pc \in [Consumers -> Points]
  BY DEF TypeOK
<1>2. CASE attempt[c] < MAX_RETRIES
  <2>1. attempt[c] + 1 \in 1..MAX_RETRIES
    BY <1>1, <1>2, LogTypes
  <2>2. /\ attempt' = [attempt EXCEPT ![c] = attempt[c] + 1]
        /\ pc' = [pc EXCEPT ![c] = "attempt"]
    BY <1>2 DEF Retry
  <2> QED
    BY <1>1, <2>1, <2>2 DEF Points
<1>3. CASE ~(attempt[c] < MAX_RETRIES)
  BY <1>1, <1>3 DEF Retry, Points
<1> QED
  BY <1>2, <1>3

LEMMA LeaveType ==
    ASSUME TypeOK, NEW c \in Consumers, NEW where \in {"down", "dead"}, Leave(c, where)
    PROVE  /\ pc' \in [Consumers -> Points]
           /\ owner' \in [Topics -> Consumers \cup {NoConsumer}]
           /\ msg' \in [Consumers -> Offset \cup {NoMessage}]
           /\ pos' = pos /\ attempt' = attempt
BY DEF Leave, TypeOK, Points, Offset

LEMMA CommitType ==
    ASSUME TypeOK, NEW c \in Consumers, CommitPositions(c) \/ UNCHANGED committed
    PROVE  committed' \in [Topics -> Nat]
BY DEF CommitPositions, TypeOK

\* What a task handles is a message of a topic.
LEMMA MessageType ==
    ASSUME TypeOK, Busy, NEW c \in Consumers,
           pc[c] \in {"attempt", "commit", "sendDlq", "commitDlq"}
    PROVE  msg[c] \in Offset
BY DEF TypeOK, Busy, Offset

LEMMA HandlingType ==
    ASSUME TypeOK, Busy, NEW c \in Consumers,
           pc[c] \in {"attempt", "commit", "sendDlq", "commitDlq"}
    PROVE  Handling(c) \in Message
<1>1. msg[c].topic \in Topics
  BY MessageType DEF Offset
<1>2. msg[c].offset \in 1..Len(Log[msg[c].topic])
  BY DEF Busy
<1> QED
  BY <1>1, <1>2, LogAssumption DEF Handling


\* Every step keeps the types.
LEMMA TypeStep ==
    ASSUME TypeOK, Busy, [Next]_vars
    PROVE  TypeOK'
<1> USE DEF Offset
<1>1. CASE UNCHANGED vars
  BY <1>1 DEF vars, TypeOK
<1>2. CASE Rebalance
  <2>1. owner' \in [Topics -> Consumers \cup {NoConsumer}]
    BY <1>2 DEF Rebalance, Members
  <2>2. pos' \in [Consumers -> [Topics -> Nat]]
    BY <1>2 DEF Rebalance, TypeOK
  <2> QED
    BY <1>2, <2>1, <2>2 DEF Rebalance, TypeOK
<1>3. ASSUME NEW c \in Consumers, Join(c)  PROVE TypeOK'
  BY <1>3 DEF Join, work, TypeOK, Points
<1>4. ASSUME NEW c \in Consumers, Crash(c)  PROVE TypeOK'
  BY <1>4, LeaveType DEF Crash, TypeOK
<1>5. ASSUME NEW c \in Consumers, Poll(c)  PROVE TypeOK'
  <2>1. PICK t \in Topics :
          /\ pos' = [pos EXCEPT ![c][t] = pos[c][t] + 1]
          /\ msg' = [msg EXCEPT ![c] = [topic |-> t, offset |-> pos[c][t] + 1]]
    BY <1>5 DEF Poll
  <2>2. pos[c][t] + 1 \in Nat
    BY DEF TypeOK
  <2>3. pos' \in [Consumers -> [Topics -> Nat]]
    BY <2>1, <2>2 DEF TypeOK
  <2>4. msg' \in [Consumers -> Offset \cup {NoMessage}]
    BY <2>1, <2>2 DEF TypeOK
  <2>5. attempt' \in [Consumers -> 1..MAX_RETRIES]
    BY <1>5, LogTypes DEF Poll, TypeOK
  <2>6. pc' \in [Consumers -> Points]
    BY <1>5 DEF Poll, TypeOK, Points
  <2> QED
    BY <1>5, <2>3, <2>4, <2>5, <2>6 DEF Poll, TypeOK
<1>6. ASSUME NEW c \in Consumers, SkipForeign(c)  PROVE TypeOK'
  <2>1. PICK t \in Topics : pos' = [pos EXCEPT ![c][t] = pos[c][t] + 1]
    BY <1>6 DEF SkipForeign
  <2>2. pos' \in [Consumers -> [Topics -> Nat]]
    BY <2>1 DEF TypeOK
  <2> QED
    BY <1>6, <2>2 DEF SkipForeign, TypeOK
<1>7. ASSUME NEW c \in Consumers, FetchFails(c)  PROVE TypeOK'
  BY <1>7, LeaveType DEF FetchFails, TypeOK
<1>8. ASSUME NEW c \in Consumers, Book(c)  PROVE TypeOK'
  <2>1. Handling(c).event \in Events
    <3>1. Handling(c) \in Message
      BY <1>8, HandlingType DEF Book
    <3> QED
      BY <3>1 DEF Message
  <2>2. pc' \in [Consumers -> Points] /\ attempt' \in [Consumers -> 1..MAX_RETRIES]
    <3>1. CASE pc' = [pc EXCEPT ![c] = "commit"] /\ UNCHANGED attempt
      BY <3>1 DEF TypeOK, Points
    <3> QED
      BY <1>8, <3>1, RetryType DEF Book
  <2> QED
    BY <1>8, <2>1, <2>2 DEF Book, TypeOK
<1>9. ASSUME NEW c \in Consumers, Ignore(c)  PROVE TypeOK'
  BY <1>9 DEF Ignore, work, TypeOK, Points
<1>10. ASSUME NEW c \in Consumers, Fail(c)  PROVE TypeOK'
  BY <1>10, RetryType DEF Fail, TypeOK
<1>11. ASSUME NEW c \in Consumers, CommitOffsets(c) \/ CommitDlq(c)  PROVE TypeOK'
  <2>1. committed' \in [Topics -> Nat]
    BY <1>11, CommitType DEF CommitOffsets, CommitDlq
  <2> QED
    BY <1>11, <2>1 DEF CommitOffsets, CommitDlq, Done, TypeOK, Points
<1>12. ASSUME NEW c \in Consumers, CommitFails(c)  PROVE TypeOK'
  BY <1>12, CommitType, RetryType DEF CommitFails, TypeOK
<1>13. ASSUME NEW c \in Consumers, SendDlq(c) \/ SendDlqFails(c)  PROVE TypeOK'
  <2>1. msg[c] \in Offset
    BY <1>13, MessageType DEF SendDlq, SendDlqFails
  <2>2. dlq' \subseteq Offset
    BY <1>13, <2>1 DEF SendDlq, SendDlqFails, TypeOK
  <2>3. CASE SendDlq(c)
    BY <2>2, <2>3 DEF SendDlq, work, TypeOK, Points
  <2>4. CASE SendDlqFails(c)
    BY <2>2, <2>4, LeaveType DEF SendDlqFails, TypeOK
  <2> QED
    BY <1>13, <2>3, <2>4
<1>14. ASSUME NEW c \in Consumers, CommitDlqFails(c)  PROVE TypeOK'
  BY <1>14, CommitType, LeaveType DEF CommitDlqFails, TypeOK
<1> QED
  BY <1>1, <1>2, <1>3, <1>4, <1>5, <1>6, <1>7, <1>8, <1>9, <1>10, <1>11, <1>12,
     <1>13, <1>14 DEF Next, Step

-----------------------------------------------------------------------------
(* Busy *)

LEMMA BusyInit == Init => Busy
BY LogTypes DEF Init, Busy, Members

\* A task that leaves holds neither a message nor a topic.
LEMMA BusyLeave ==
    ASSUME TypeOK, Busy, NEW c \in Consumers, NEW where \in {"down", "dead"},
           Leave(c, where)
    PROVE  Busy'
<1>1. ASSUME NEW d \in Consumers
      PROVE  /\ msg'[d] # NoMessage =>
                   msg'[d].offset \in 1..Len(Log[msg'[d].topic])
             /\ msg'[d] # NoMessage
                  <=> pc'[d] \in {"attempt", "commit", "sendDlq", "commitDlq"}
  <2>1. CASE d = c
    BY <2>1 DEF Leave, TypeOK
  <2>2. CASE d # c
    BY <2>2 DEF Leave, TypeOK, Busy
  <2> QED
    BY <2>1, <2>2
<1>2. ASSUME NEW d \in Consumers, NEW t \in Topics, owner'[t] = d
      PROVE  pc'[d] \notin {"down", "dead"}
  <2>1. d # c /\ owner[t] = d
    BY <1>2, LogTypes DEF Leave, TypeOK
  <2> QED
    BY <2>1 DEF Leave, TypeOK, Busy, Members
<1> QED
  BY <1>1, <1>2 DEF Busy, Members

\* A step of one task among the points where it handles its message.
LEMMA BusyStays ==
    ASSUME TypeOK, Busy, NEW c \in Consumers,
           pc[c] \in {"attempt", "commit", "sendDlq", "commitDlq"},
           NEW there \in {"attempt", "commit", "sendDlq", "commitDlq"},
           pc' = [pc EXCEPT ![c] = there], msg' = msg, owner' = owner
    PROVE  Busy'
BY DEF TypeOK, Busy, Members

LEMMA BusyRetry ==
    ASSUME TypeOK, Busy, NEW c \in Consumers,
           pc[c] \in {"attempt", "commit", "sendDlq", "commitDlq"},
           Retry(c), msg' = msg, owner' = owner
    PROVE  Busy'
<1>1. PICK there \in {"attempt", "sendDlq"} : pc' = [pc EXCEPT ![c] = there]
  BY DEF Retry
<1> QED
  BY <1>1, BusyStays

LEMMA BusyDone ==
    ASSUME TypeOK, Busy, NEW c \in Consumers, pc[c] \in {"commit", "commitDlq"},
           Done(c), owner' = owner
    PROVE  Busy'
BY DEF TypeOK, Busy, Members, Done

LEMMA BusyStep ==
    ASSUME TypeOK, Busy, [Next]_vars
    PROVE  Busy'
<1>1. CASE UNCHANGED vars
  BY <1>1 DEF vars, Busy, Members
<1>2. CASE Rebalance
  BY <1>2, LogTypes DEF Rebalance, Busy, Members, TypeOK
<1>3. ASSUME NEW c \in Consumers, Join(c)  PROVE Busy'
  BY <1>3 DEF Join, work, Busy, Members, TypeOK
<1>4. ASSUME NEW c \in Consumers, Crash(c)  PROVE Busy'
  BY <1>4, BusyLeave DEF Crash
<1>5. ASSUME NEW c \in Consumers, Poll(c)  PROVE Busy'
  <2>1. PICK t \in Topics :
          /\ pos[c][t] < Len(Log[t])
          /\ msg' = [msg EXCEPT ![c] = [topic |-> t, offset |-> pos[c][t] + 1]]
    BY <1>5 DEF Poll
  <2>2. pos[c][t] \in Nat /\ pos[c][t] + 1 \in Nat /\ Len(Log[t]) \in Nat
    BY LogAssumption DEF TypeOK
  <2>3. /\ msg'[c] # NoMessage
        /\ msg'[c].offset \in 1..Len(Log[msg'[c].topic])
    BY <2>1, <2>2, LogTypes DEF TypeOK, Offset
  <2>4. pc' = [pc EXCEPT ![c] = "attempt"] /\ owner' = owner
    BY <1>5 DEF Poll
  <2>5. \A d \in Consumers \ {c} : msg'[d] = msg[d] /\ pc'[d] = pc[d]
    BY <2>1, <2>4 DEF TypeOK
  <2>6. pc'[c] = "attempt"
    BY <2>4 DEF TypeOK
  <2> QED
    BY <2>3, <2>4, <2>5, <2>6 DEF Busy, Members
<1>6. ASSUME NEW c \in Consumers, SkipForeign(c)  PROVE Busy'
  BY <1>6 DEF SkipForeign, Busy, Members
<1>7. ASSUME NEW c \in Consumers, FetchFails(c)  PROVE Busy'
  BY <1>7, BusyLeave DEF FetchFails
<1>8. ASSUME NEW c \in Consumers, Book(c)  PROVE Busy'
  BY <1>8, BusyStays, BusyRetry DEF Book
<1>9. ASSUME NEW c \in Consumers, Ignore(c)  PROVE Busy'
  BY <1>9, BusyStays DEF Ignore, work
<1>10. ASSUME NEW c \in Consumers, Fail(c)  PROVE Busy'
  BY <1>10, BusyRetry DEF Fail
<1>11. ASSUME NEW c \in Consumers, CommitOffsets(c) \/ CommitDlq(c)  PROVE Busy'
  BY <1>11, BusyDone DEF CommitOffsets, CommitDlq
<1>12. ASSUME NEW c \in Consumers, CommitFails(c)  PROVE Busy'
  BY <1>12, BusyRetry DEF CommitFails
<1>13. ASSUME NEW c \in Consumers, SendDlq(c)  PROVE Busy'
  BY <1>13, BusyStays DEF SendDlq, work
<1>14. ASSUME NEW c \in Consumers, SendDlqFails(c)  PROVE Busy'
  BY <1>14, BusyLeave DEF SendDlqFails
<1>15. ASSUME NEW c \in Consumers, CommitDlqFails(c)  PROVE Busy'
  BY <1>15, BusyLeave DEF CommitDlqFails
<1> QED
  BY <1>1, <1>2, <1>3, <1>4, <1>5, <1>6, <1>7, <1>8, <1>9, <1>10, <1>11, <1>12,
     <1>13, <1>14, <1>15 DEF Next, Step

-----------------------------------------------------------------------------
(* Nothing is lost *)

\* What is accounted for stays so.
LEMMA Kept ==
    ASSUME [Next]_vars
    PROVE  booked \subseteq booked' /\ dlq \subseteq dlq'
<1> USE DEF work
<1>1. CASE UNCHANGED vars
  BY <1>1 DEF vars
<1>2. CASE Rebalance
  BY <1>2 DEF Rebalance
<1>3. ASSUME NEW c \in Consumers, Join(c) \/ Crash(c)
      PROVE  booked \subseteq booked' /\ dlq \subseteq dlq'
  BY <1>3 DEF Join, Crash
<1>4. ASSUME NEW c \in Consumers, Step(c)
      PROVE  booked \subseteq booked' /\ dlq \subseteq dlq'
  BY <1>4 DEF Step, Poll, SkipForeign, FetchFails, Book, Ignore, Fail, CommitOffsets,
              CommitFails, SendDlq, SendDlqFails, CommitDlq, CommitDlqFails
<1> QED
  BY <1>1, <1>2, <1>3, <1>4 DEF Next

LEMMA SettledKept ==
    ASSUME [Next]_vars, NEW t, NEW o, Settled(t, o)
    PROVE  Settled(t, o)'
BY Kept DEF Settled

\* Every message before the one at hand is settled: what Poll finds.
LEMMA TakenByIdle ==
    ASSUME Busy, Taken, NEW c \in Consumers, NEW t \in Topics, owner[t] = c, pc[c] = "poll"
    PROVE  \A o \in 1..pos[c][t] : Settled(t, o)
<1>1. msg[c] = NoMessage
  BY DEF Busy
<1>2. \A o \in 1..pos[c][t] : Settled(t, o) \/ msg[c] = [topic |-> t, offset |-> o]
  BY DEF Taken
<1>3. ASSUME NEW o \in 1..pos[c][t], msg[c] = [topic |-> t, offset |-> o]
      PROVE  FALSE
  <2>1. [topic |-> t, offset |-> o] \in Offset
    BY DEF Offset
  <2> QED
    BY <1>1, <1>3, <2>1, LogTypes
<1> QED
  BY <1>2, <1>3

\* At a commit everything the task has taken is settled, so the offsets that
\* it commits, of all its topics, cover settled messages only.
LEMMA CommitSafe ==
    ASSUME TypeOK, Inv, NEW c \in Consumers, pc[c] \in {"commit", "commitDlq"},
           CommitPositions(c) \/ UNCHANGED committed, [Next]_vars
    PROVE  /\ NoEventLost'
           /\ \A t \in Topics : committed'[t] >= committed[t]
           /\ \A t \in Topics : owner[t] = c => committed'[t] <= pos[c][t]
           /\ \A t \in Topics : owner[t] # c => committed'[t] = committed[t]
<1>1. ASSUME NEW t \in Topics, owner[t] = c
      PROVE  committed[t] <= pos[c][t] /\ \A o \in 1..pos[c][t] : Settled(t, o)
  <2>1. /\ committed[t] <= pos[c][t]
        /\ \A o \in 1..pos[c][t] : Settled(t, o) \/ msg[c] = [topic |-> t, offset |-> o]
    BY <1>1 DEF Inv, Taken
  <2>2. Settled(msg[c].topic, msg[c].offset)
    BY DEF Inv, SettledBeforeCommit
  <2>3. ASSUME NEW o \in 1..pos[c][t], msg[c] = [topic |-> t, offset |-> o]
        PROVE  Settled(t, o)
    <3>1. msg[c].topic = t /\ msg[c].offset = o
      BY <2>3
    <3> QED
      BY <2>2, <3>1
  <2> QED
    BY <2>1, <2>3
<1>2. \A t \in Topics : committed[t] \in Nat /\ pos[c][t] \in Nat
  BY DEF TypeOK
<1>3. \A t \in Topics :
         /\ committed'[t] >= committed[t]
         /\ owner[t] = c => committed'[t] <= pos[c][t]
         /\ owner[t] # c => committed'[t] = committed[t]
         /\ committed'[t] \in {committed[t], pos[c][t]}
  BY <1>1, <1>2 DEF CommitPositions
<1>4. ASSUME NEW t \in Topics, NEW o \in 1..committed'[t]
      PROVE  Settled(t, o)
  <2>1. CASE owner[t] = c
    <3>1. o \in 1..pos[c][t]
      BY <1>2, <1>3, <2>1
    <3> QED
      BY <1>1, <2>1, <3>1
  <2>2. CASE owner[t] # c
    BY <1>3, <2>2 DEF Inv, NoEventLost
  <2> QED
    BY <2>1, <2>2
<1>5. NoEventLost'
  BY <1>4, SettledKept DEF NoEventLost
<1> QED
  BY <1>3, <1>5

\* Taken, when positions and owners stay and only c may end its message.
LEMMA TakenSame ==
    ASSUME TypeOK, Inv, [Next]_vars, UNCHANGED <<owner, pos>>,
           NEW c \in Consumers,
           \A d \in Consumers \ {c} : msg'[d] = msg[d],
           msg'[c] = msg[c] \/ Settled(msg[c].topic, msg[c].offset),
           \A t \in Topics : committed'[t] <= committed[t]
                              \/ (owner[t] = c /\ committed'[t] <= pos[c][t]),
           committed' \in [Topics -> Nat]
    PROVE  Taken'
<1> SUFFICES ASSUME NEW d \in Consumers, NEW t \in Topics, owner[t] = d
             PROVE  /\ committed'[t] <= pos[d][t]
                    /\ \A o \in 1..pos[d][t] :
                          Settled(t, o)' \/ msg'[d] = [topic |-> t, offset |-> o]
  BY DEF Taken
<1>1. committed[t] <= pos[d][t] /\ committed'[t] \in Nat
      /\ committed[t] \in Nat /\ pos[d][t] \in Nat
  BY DEF Inv, Taken, TypeOK
<1>2. committed'[t] <= pos[d][t]
  BY <1>1
<1>3. ASSUME NEW o \in 1..pos[d][t]
      PROVE  Settled(t, o) \/ msg'[d] = [topic |-> t, offset |-> o]
  <2>1. Settled(t, o) \/ msg[d] = [topic |-> t, offset |-> o]
    BY DEF Inv, Taken
  <2>2. CASE msg[d] = [topic |-> t, offset |-> o] /\ d = c
    BY <2>2
  <2> QED
    BY <2>1, <2>2
<1> QED
  BY <1>2, <1>3, SettledKept

\* Taken, when messages, positions and offsets stay.
LEMMA TakenStill ==
    ASSUME TypeOK, Inv, [Next]_vars, UNCHANGED <<committed, owner, pos, msg>>
    PROVE  Taken'
BY SettledKept DEF Inv, Taken

\* Taken, when c leaves: the others keep what they have.
LEMMA TakenLeave ==
    ASSUME TypeOK, Inv, [Next]_vars, NEW c \in Consumers,
           NEW where \in {"down", "dead"}, Leave(c, where),
           \A t \in Topics : owner[t] # c => committed'[t] = committed[t]
    PROVE  Taken'
<1> SUFFICES ASSUME NEW d \in Consumers, NEW t \in Topics, owner'[t] = d
             PROVE  /\ committed'[t] <= pos'[d][t]
                    /\ \A o \in 1..pos'[d][t] :
                          Settled(t, o)' \/ msg'[d] = [topic |-> t, offset |-> o]
  BY DEF Taken
<1>1. d # c /\ owner[t] = d
  BY LogTypes DEF Leave, TypeOK
<1>2. pos' = pos /\ msg'[d] = msg[d] /\ committed'[t] = committed[t]
  BY <1>1 DEF Leave, TypeOK
<1>3. /\ committed[t] <= pos[d][t]
      /\ \A o \in 1..pos[d][t] : Settled(t, o) \/ msg[d] = [topic |-> t, offset |-> o]
  BY <1>1 DEF Inv, Taken
<1> QED
  BY <1>2, <1>3, SettledKept

\* OrderedHandling and NoEventLost, when no message is taken and nothing is committed.
LEMMA OrderedSame ==
    ASSUME Inv, [Next]_vars,
           \A d \in Consumers : msg'[d] \in {msg[d], NoMessage}
    PROVE  OrderedHandling'
BY SettledKept DEF Inv, OrderedHandling

LEMMA LostSame ==
    ASSUME Inv, [Next]_vars, committed' = committed
    PROVE  NoEventLost'
BY SettledKept DEF Inv, NoEventLost

\* SettledBeforeCommit, when no task comes to a commit.
LEMMA BeforeSame ==
    ASSUME TypeOK, Inv, [Next]_vars,
           \A d \in Consumers : pc'[d] \in {"commit", "commitDlq"} =>
               pc[d] \in {"commit", "commitDlq"} /\ msg'[d] = msg[d]
    PROVE  SettledBeforeCommit'
BY SettledKept DEF Inv, SettledBeforeCommit

LEMMA InvInit == Init => Inv
<1> SUFFICES ASSUME Init  PROVE Inv
  OBVIOUS
<1>1. NoEventLost /\ OrderedHandling /\ Taken /\ SettledBeforeCommit
  BY LogTypes DEF Init, NoEventLost, OrderedHandling, Taken, SettledBeforeCommit
<1> QED
  BY <1>1, BusyInit DEF Inv

LEMMA InvStep ==
    ASSUME TypeOK, Inv, [Next]_vars
    PROVE  Inv' /\ \A t \in Topics : committed'[t] >= committed[t]
<1> DEFINE Rest == /\ NoEventLost' /\ OrderedHandling' /\ Taken' /\ SettledBeforeCommit'
                   /\ \A t \in Topics : committed'[t] >= committed[t]
<1>0. Busy' /\ TypeOK' /\ \A t \in Topics : committed[t] \in Nat
  BY BusyStep, TypeStep DEF Inv, TypeOK
<1>1. CASE UNCHANGED vars
  BY <1>0, <1>1 DEF vars, Inv, NoEventLost, OrderedHandling, Taken,
                    SettledBeforeCommit, Settled
<1>2. CASE Rebalance
  <2>1. NoEventLost' /\ OrderedHandling' /\ SettledBeforeCommit'
    BY <1>2, LostSame, OrderedSame, BeforeSame DEF Rebalance
  <2>2. Taken'
    <3> SUFFICES ASSUME NEW d \in Consumers, NEW t \in Topics, owner'[t] = d
                 PROVE  /\ committed'[t] <= pos'[d][t]
                        /\ \A o \in 1..pos'[d][t] : Settled(t, o)'
      BY DEF Taken
    <3>1. pos'[d][t] = committed[t] /\ committed' = committed
      BY <1>2 DEF Rebalance
    <3> QED
      BY <1>0, <3>1, <2>1 DEF NoEventLost
  <2> QED
    BY <1>0, <1>2, <2>1, <2>2 DEF Rebalance, Inv
<1>3. ASSUME NEW c \in Consumers, Join(c)  PROVE Rest
  <2>1. UNCHANGED <<committed, owner, pos, msg>>
    BY <1>3 DEF Join, work
  <2>2. SettledBeforeCommit'
    BY <1>3, <2>1, BeforeSame DEF Join, TypeOK
  <2> QED
    BY <1>0, <2>1, <2>2, LostSame, OrderedSame, TakenStill
<1>4. ASSUME NEW c \in Consumers, NEW where \in {"down", "dead"}, Leave(c, where),
             CommitDlqFails(c) \/ committed' = committed,
             CommitDlqFails(c) => pc[c] = "commitDlq"
      PROVE  Rest
  <2>1. OrderedHandling'
    BY <1>4, OrderedSame DEF Leave, TypeOK
  <2>2. SettledBeforeCommit'
    BY <1>4, BeforeSame DEF Leave, TypeOK
  <2>3. CASE CommitDlqFails(c)
    <3>1. CommitPositions(c) \/ UNCHANGED committed
      BY <2>3 DEF CommitDlqFails
    <3>2. /\ NoEventLost'
          /\ \A t \in Topics : committed'[t] >= committed[t]
          /\ \A t \in Topics : owner[t] # c => committed'[t] = committed[t]
      BY <1>4, <2>3, <3>1, CommitSafe
    <3> QED
      BY <1>4, <2>1, <2>2, <3>2, TakenLeave
  <2>4. CASE committed' = committed
    BY <1>0, <1>4, <2>1, <2>2, <2>4, TakenLeave, LostSame
  <2> QED
    BY <1>4, <2>3, <2>4
<1>5. ASSUME NEW c \in Consumers, Crash(c) \/ FetchFails(c) \/ SendDlqFails(c)
                                    \/ CommitDlqFails(c)
      PROVE  Rest
  BY <1>4, <1>5 DEF Crash, FetchFails, SendDlqFails, CommitDlqFails
<1>6. ASSUME NEW c \in Consumers, Poll(c)  PROVE Rest
  <2>1. PICK t \in Topics :
          /\ owner[t] = c
          /\ pos' = [pos EXCEPT ![c][t] = pos[c][t] + 1]
          /\ msg' = [msg EXCEPT ![c] = [topic |-> t, offset |-> pos[c][t] + 1]]
    BY <1>6 DEF Poll
  <2>2. pos[c][t] \in Nat
    BY DEF TypeOK
  <2>3. /\ committed' = committed /\ owner' = owner
        /\ pc[c] = "poll" /\ pc' = [pc EXCEPT ![c] = "attempt"]
    BY <1>6 DEF Poll
  <2>4. \A u \in Topics : owner[u] = c => \A o \in 1..pos[c][u] : Settled(u, o)'
    BY <2>3, TakenByIdle, SettledKept DEF Inv
  <2>5. OrderedHandling'
    <3> SUFFICES ASSUME NEW d \in Consumers, NEW u \in Topics, NEW n \in Nat,
                        msg'[d] = [topic |-> u, offset |-> n], NEW o \in 1..n - 1
                 PROVE  Settled(u, o)'
      BY <1>0 DEF OrderedHandling, TypeOK, Offset
    <3>1. CASE d = c
      <4>1. msg'[d] = [topic |-> t, offset |-> pos[c][t] + 1]
        BY <2>1, <3>1 DEF TypeOK
      <4>2. u = t /\ n = pos[c][t] + 1
        BY <4>1
      <4> QED
        BY <2>1, <2>2, <2>4, <4>2
    <3>2. CASE d # c
      <4>1. msg[d] = [topic |-> u, offset |-> n]
        BY <2>1, <3>2 DEF TypeOK
      <4>2. msg[d] # NoMessage
        BY <4>1, LogTypes DEF Offset
      <4>3. Settled(u, o)
        BY <4>1, <4>2 DEF Inv, OrderedHandling
      <4> QED
        BY <4>3, SettledKept
    <3> QED
      BY <3>1, <3>2
  <2>6. Taken'
    <3> SUFFICES ASSUME NEW d \in Consumers, NEW u \in Topics, owner[u] = d
                 PROVE  /\ committed[u] <= pos'[d][u]
                        /\ \A o \in 1..pos'[d][u] :
                              Settled(u, o)' \/ msg'[d] = [topic |-> u, offset |-> o]
      BY <2>3 DEF Taken
    <3>1. /\ committed[u] <= pos[d][u]
          /\ \A o \in 1..pos[d][u] : Settled(u, o) \/ msg[d] = [topic |-> u, offset |-> o]
      BY DEF Inv, Taken
    <3>2. CASE d # c
      <4>1. pos'[d][u] = pos[d][u] /\ msg'[d] = msg[d]
        BY <2>1, <3>2 DEF TypeOK
      <4> QED
        BY <3>1, <4>1, SettledKept
    <3>3. CASE d = c /\ u # t
      <4>1. pos'[d][u] = pos[d][u]
        BY <2>1, <3>3 DEF TypeOK
      <4> QED
        BY <2>4, <3>1, <3>3, <4>1
    <3>4. CASE d = c /\ u = t
      <4>1. pos'[d][u] = pos[c][t] + 1
        BY <2>1, <3>4 DEF TypeOK
      <4>2. msg'[d] = [topic |-> t, offset |-> pos[c][t] + 1]
        BY <2>1, <3>4 DEF TypeOK
      <4>3. committed[u] \in Nat
        BY <1>0
      <4>4. ASSUME NEW o \in 1..pos[c][t] + 1
            PROVE  Settled(t, o)' \/ o = pos[c][t] + 1
        <5>1. o \in 1..pos[c][t] \/ o = pos[c][t] + 1
          BY <2>2
        <5> QED
          BY <2>1, <2>4, <5>1
      <4> QED
        BY <2>2, <3>1, <3>4, <4>1, <4>2, <4>3, <4>4
    <3> QED
      BY <3>2, <3>3, <3>4
  <2>7. SettledBeforeCommit'
    BY <2>1, <2>3, BeforeSame DEF TypeOK
  <2> QED
    BY <1>0, <2>3, <2>5, <2>6, <2>7, LostSame
<1>7. ASSUME NEW c \in Consumers, SkipForeign(c)  PROVE Rest
  <2>1. PICK t \in Topics :
          /\ owner[t] = c
          /\ Log[t][pos[c][t] + 1].kind = "foreign"
          /\ pos' = [pos EXCEPT ![c][t] = pos[c][t] + 1]
    BY <1>7 DEF SkipForeign
  <2>2. /\ UNCHANGED <<committed, owner, pc, msg>> /\ pc[c] = "poll"
    BY <1>7 DEF SkipForeign
  <2>3. pos[c][t] \in Nat
    BY DEF TypeOK
  <2>4. Settled(t, pos[c][t] + 1)
    BY <2>1 DEF Settled
  <2>5. Taken'
    <3> SUFFICES ASSUME NEW d \in Consumers, NEW u \in Topics, owner[u] = d
                 PROVE  /\ committed[u] <= pos'[d][u]
                        /\ \A o \in 1..pos'[d][u] :
                              Settled(u, o)' \/ msg[d] = [topic |-> u, offset |-> o]
      BY <2>2 DEF Taken
    <3>1. /\ committed[u] <= pos[d][u]
          /\ \A o \in 1..pos[d][u] : Settled(u, o) \/ msg[d] = [topic |-> u, offset |-> o]
      BY DEF Inv, Taken
    <3>2. CASE d # c \/ u # t
      <4>1. pos'[d][u] = pos[d][u]
        BY <2>1, <3>2 DEF TypeOK
      <4> QED
        BY <3>1, <4>1, SettledKept
    <3>3. CASE d = c /\ u = t
      <4>1. pos'[d][u] = pos[c][t] + 1
        BY <2>1, <3>3 DEF TypeOK
      <4>2. ASSUME NEW o \in 1..pos[c][t] + 1
            PROVE  Settled(t, o) \/ msg[c] = [topic |-> t, offset |-> o]
        <5>1. o \in 1..pos[c][t] \/ o = pos[c][t] + 1
          BY <2>3
        <5> QED
          BY <2>4, <3>1, <3>3, <5>1
      <4> QED
        BY <1>0, <2>3, <3>1, <3>3, <4>1, <4>2, SettledKept
    <3> QED
      BY <3>2, <3>3
  <2> QED
    BY <1>0, <2>2, <2>5, LostSame, OrderedSame, BeforeSame
<1>8. ASSUME NEW c \in Consumers, Book(c) \/ Ignore(c) \/ Fail(c) \/ SendDlq(c)
      PROVE  Rest
  <2>1. UNCHANGED <<committed, owner, pos, msg>>
    BY <1>8 DEF Book, Ignore, Fail, SendDlq, work
  <2>2. pc'[c] \in {"commit", "commitDlq"} =>
          \A t, o : t = msg[c].topic /\ o = msg[c].offset => Settled(t, o)'
    <3>1. CASE Book(c)
      <4>1. Log[msg[c].topic][msg[c].offset].event \in booked'
        BY <3>1 DEF Book, Handling
      <4> QED
        BY <4>1 DEF Settled
    <3>2. CASE Ignore(c)
      BY <3>2 DEF Ignore, Settled, Handling
    <3>3. CASE Fail(c)
      BY <3>3 DEF Fail, Retry, TypeOK
    <3>4. CASE SendDlq(c)
      <4>1. msg[c] \in Offset
        BY <3>4, MessageType DEF SendDlq, Inv
      <4>2. msg[c] = [topic |-> msg[c].topic, offset |-> msg[c].offset]
        BY <4>1 DEF Offset
      <4>3. msg[c] \in dlq'
        BY <3>4 DEF SendDlq
      <4> QED
        BY <4>2, <4>3 DEF Settled
    <3> QED
      BY <1>8, <3>1, <3>2, <3>3, <3>4
  <2>3. \A d \in Consumers \ {c} : pc'[d] = pc[d]
    BY <1>8 DEF Book, Ignore, Fail, SendDlq, Retry, TypeOK
  <2>4. SettledBeforeCommit'
    <3> SUFFICES ASSUME NEW d \in Consumers, pc'[d] \in {"commit", "commitDlq"},
                        NEW t, NEW o, t = msg[d].topic, o = msg[d].offset
                 PROVE  Settled(t, o)'
      BY <2>1 DEF SettledBeforeCommit
    <3>1. CASE d = c
      BY <2>2, <3>1
    <3>2. CASE d # c
      BY <2>3, <3>2, SettledKept DEF Inv, SettledBeforeCommit
    <3> QED
      BY <3>1, <3>2
  <2> QED
    BY <1>0, <2>1, <2>4, LostSame, OrderedSame, TakenStill
<1>9. ASSUME NEW c \in Consumers, CommitOffsets(c) \/ CommitFails(c) \/ CommitDlq(c)
      PROVE  Rest
  <2>1. /\ pc[c] \in {"commit", "commitDlq"}
        /\ CommitPositions(c) \/ UNCHANGED committed
        /\ UNCHANGED <<owner, pos>>
    BY <1>9 DEF CommitOffsets, CommitFails, CommitDlq
  <2>2. /\ \A d \in Consumers \ {c} : msg'[d] = msg[d] /\ pc'[d] = pc[d]
        /\ msg'[c] \in {msg[c], NoMessage}
        /\ pc'[c] \notin {"commit", "commitDlq"}
    BY <1>9 DEF CommitOffsets, CommitFails, CommitDlq, Done, Retry, TypeOK
  <2>3. /\ NoEventLost'
        /\ \A t \in Topics : committed'[t] >= committed[t]
        /\ \A t \in Topics : owner[t] = c => committed'[t] <= pos[c][t]
        /\ \A t \in Topics : owner[t] # c => committed'[t] = committed[t]
    BY <2>1, CommitSafe
  <2>4. Settled(msg[c].topic, msg[c].offset)
    BY <2>1 DEF Inv, SettledBeforeCommit
  <2>5. Taken'
    <3>1. \A t \in Topics : committed'[t] <= committed[t]
                              \/ (owner[t] = c /\ committed'[t] <= pos[c][t])
      BY <1>0, <2>3
    <3>2. committed' \in [Topics -> Nat]
      BY <1>0 DEF TypeOK
    <3>3. \A d \in Consumers \ {c} : msg'[d] = msg[d]
      BY <2>2
    <3>4. msg'[c] = msg[c] \/ Settled(msg[c].topic, msg[c].offset)
      BY <2>4
    <3> QED
      BY <2>1, <3>1, <3>2, <3>3, <3>4, TakenSame
  <2>6. OrderedHandling'
    BY <2>2, OrderedSame
  <2>7. SettledBeforeCommit'
    BY <2>2, BeforeSame
  <2> QED
    BY <2>3, <2>5, <2>6, <2>7
<1> QED
  <2>1. CASE \E c \in Consumers : Join(c) \/ Step(c) \/ Crash(c)
    BY <1>0, <1>3, <1>5, <1>6, <1>7, <1>8, <1>9, <2>1 DEF Step, Inv
  <2> QED
    BY <1>1, <1>2, <2>1 DEF Next

-----------------------------------------------------------------------------
LEMMA Invariant == Spec => [](TypeOK /\ Inv)
<1>1. Init => TypeOK /\ Inv
  BY TypeInit, InvInit
<1>2. TypeOK /\ Inv /\ [Next]_vars => (TypeOK /\ Inv)'
  BY TypeStep, InvStep DEF Inv
<1> QED
  BY <1>1, <1>2, PTL DEF Spec

\* Every variable keeps its type.
THEOREM TypeCorrect == Spec => []TypeOK
<1>1. TypeOK /\ Inv => TypeOK
  OBVIOUS
<1> QED
  BY Invariant, <1>1, PTL

\* What the consumer group has committed is booked, in the DLQ, or nothing the
\* service books: run_consumer loses no event, whatever fails and wherever.
THEOREM AtLeastOnce == Spec => []NoEventLost
<1>1. TypeOK /\ Inv => NoEventLost
  BY DEF Inv
<1> QED
  BY Invariant, <1>1, PTL

\* The events of a topic are handled in order, even by a process that lost the
\* topic while it was handling one of them.
THEOREM InOrder == Spec => []OrderedHandling
<1>1. TypeOK /\ Inv => OrderedHandling
  BY DEF Inv
<1> QED
  BY Invariant, <1>1, PTL

\* consumer.commit() never takes the group back to an earlier message.
THEOREM Forward == Spec => NoRewind
<1>1. TypeOK /\ Inv /\ [Next]_vars =>
        [\A t \in Topics : committed'[t] >= committed[t]]_committed
  BY InvStep
<1> QED
  BY Invariant, <1>1, PTL DEF Spec, NoRewind

=============================================================================
