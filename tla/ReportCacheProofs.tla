------------------------- MODULE ReportCacheProofs -------------------------
(***************************************************************************)
(* For every map, every time to live and any number of requests: a report  *)
(* is never served without a change older than its time to live and the    *)
(* time it took to compute, whatever the consumer and Redis fail to do;    *)
(* and when calm, a report that an acknowledged message names is fresh.    *)
(*                                                                         *)
(* BoundedStaleness is about the age of a change.  The invariant relates   *)
(* instead two instants that do not move: a change that a report misses    *)
(* was committed after the report's query, which was at most MaxCompute    *)
(* before Redis began to count (CacheTimed, WorkTimed).                    *)
(***************************************************************************)
EXTENDS ReportCache, TLAPS

\* No change is dated after now.
Dated == \A v \in DOMAIN changes : changes[v].time <= now

\* A report being stored has a query younger than MaxCompute, and sees all the
\* changes that were committed before it.
WorkTimed ==
    \A r \in Requests : pc[r] = "computed" =>
        /\ computed[r] \in Work
        /\ computed[r].started <= now
        /\ now <= computed[r].started + MaxCompute
        /\ \A v \in DOMAIN changes :
              v > computed[r].data => computed[r].started <= changes[v].time

\* Redis holds a report until it expires, and counts from its SETEX.
CacheTimed ==
    \A k \in Reports : cache[k] # NoReport =>
        /\ now <= cache[k].expires
        /\ cache[k].expires <= now + TTL[k]
        /\ \A v \in DOMAIN changes :
              v > cache[k].data => cache[k].expires <= changes[v].time + TTL[k] + MaxCompute

Inv == Dated /\ WorkTimed /\ CacheTimed

-----------------------------------------------------------------------------
(* Types *)

LEMMA FinishType ==
    ASSUME TypeOK, NEW r \in Requests, Finish(r)
    PROVE  /\ pc' \in [Requests -> {"idle", "announced", "computed"}]
           /\ announced' \in [Requests -> [kind : Kinds \cup {"REVERSAL"}, slot : Nat]]
           /\ computed' \in [Requests -> Work \cup {NoWork}]
BY DEF Finish, TypeOK, NoChange

LEMMA RecordType ==
    ASSUME TypeOK, NEW c \in [kind : Kinds \cup {"REVERSAL"}, slot : Nat], Record(c)
    PROVE  changes' \in Seq(Change)
<1>1. [kind |-> c.kind, slot |-> c.slot, time |-> now] \in Change
  BY DEF TypeOK, Change
<1> QED
  BY <1>1 DEF Record, TypeOK

LEMMA MessageType ==
    ASSUME TypeOK, NEW i \in 1..Len(topic)
    PROVE  Patterns[topic[i]] \in Seq(Reports) /\ Patterns[topic[i]] # <<>>
<1>1. topic[i] \in Kinds
  BY DEF TypeOK
<1> QED
  BY <1>1, CacheAssumption

LEMMA EmptySeq == \A S : <<>> \in Seq(S)
OBVIOUS

LEMMA TypeInit == Init => TypeOK
BY CacheAssumption, EmptySeq DEF Init, TypeOK, NoChange, Places

LEMMA TypeRequest ==
    ASSUME TypeOK, UNCHANGED calm, NEW r \in Requests, Request(r)
    PROVE  TypeOK'
<1>1. ASSUME NEW kind \in Kinds, Announce(r, kind)  PROVE TypeOK'
  <2>1. Len(topic) + 1 \in Nat /\ Append(topic, kind) \in Seq(Kinds)
    BY DEF TypeOK
  <2>2. PICK s \in Nat :
          announced' = [announced EXCEPT ![r] = [kind |-> kind, slot |-> s]]
    BY <1>1, <2>1 DEF Announce
  <2>3. [kind |-> kind, slot |-> s] \in [kind : Kinds \cup {"REVERSAL"}, slot : Nat]
    OBVIOUS
  <2>4. announced' \in [Requests -> [kind : Kinds \cup {"REVERSAL"}, slot : Nat]]
    BY <2>2, <2>3 DEF TypeOK
  <2>5. topic' \in Seq(Kinds)
    BY <1>1, <2>1 DEF Announce, TypeOK
  <2> QED
    BY <1>1, <2>4, <2>5 DEF Announce, TypeOK, consumer
<1>2. CASE CommitChange(r)
  <2>1. announced[r] \in [kind : Kinds \cup {"REVERSAL"}, slot : Nat]
    BY DEF TypeOK
  <2>2. changes' \in Seq(Change)
    BY <1>2, <2>1, RecordType DEF CommitChange
  <2> QED
    BY <1>2, <2>2, FinishType DEF CommitChange, TypeOK, consumer
<1>3. CASE LoseChange(r)
  BY <1>3, FinishType DEF LoseChange, TypeOK, books, consumer
<1>4. CASE Reverse(r)
  <2>1. NoChange \in [kind : Kinds \cup {"REVERSAL"}, slot : Nat]
    BY DEF NoChange
  <2>2. changes' \in Seq(Change)
    BY <1>4, <2>1, RecordType DEF Reverse
  <2> QED
    BY <1>4, <2>2 DEF Reverse, TypeOK, requests, consumer
<1>5. ASSUME NEW k \in Reports, Compute(r, k)  PROVE TypeOK'
  <2>1. [report |-> k, data |-> Len(changes), started |-> now] \in Work
    BY DEF TypeOK, Work
  <2>2. computed' \in [Requests -> Work \cup {NoWork}]
    BY <1>5, <2>1 DEF Compute, TypeOK
  <2> QED
    BY <1>5, <2>2 DEF Compute, TypeOK, books, consumer
<1>6. CASE Store(r)
  <2>1. cache' \in [Reports -> [data : Nat, expires : Nat] \cup {NoReport}]
    <3>1. CASE UNCHANGED cache
      BY <3>1 DEF TypeOK
    <3>2. CASE cache' = [cache EXCEPT ![computed[r].report] =
                 [data |-> computed[r].data,
                  expires |-> now + TTL[computed[r].report]]]
      <4>1. ASSUME NEW k \in Reports, k = computed[r].report
            PROVE  [data |-> computed[r].data, expires |-> now + TTL[k]]
                      \in [data : Nat, expires : Nat]
        BY CacheAssumption DEF TypeOK, Work, NoWork
      <4> QED
        BY <3>2, <4>1 DEF TypeOK
    <3> QED
      BY <1>6, <3>1, <3>2 DEF Store
  <2> QED
    BY <1>6, <2>1, FinishType DEF Store, TypeOK, books, consumer
<1> QED
  BY <1>1, <1>2, <1>3, <1>4, <1>5, <1>6 DEF Request

\* The message at hand, and what is left to drop for it.
InHand ==
    /\ at \in {"drop", "commit"} => pos \in 1..Len(topic)
    /\ at = "drop" => left # <<>>

LEMMA TypeConsumer ==
    ASSUME TypeOK, UNCHANGED calm, InHand,
           Join \/ Crash \/ Poll \/ Drop \/ Acknowledge \/ Refused \/ SendDlq \/ Die
    PROVE  TypeOK' /\ InHand'
<1>1. CASE Join
  BY <1>1 DEF Join, TypeOK, InHand, books, requests, Places
<1>2. CASE Crash
  BY <1>2, EmptySeq DEF Crash, Stop, TypeOK, InHand, books, requests, Places
<1>3. CASE Poll
  <2>1. pos + 1 \in 1..Len(topic)
    BY <1>3 DEF Poll, TypeOK
  <2>2. left' \in Seq(Reports) /\ left' # <<>> /\ attempt' \in 1..MAX_RETRIES
    BY <1>3, <2>1, MessageType, CacheAssumption DEF Poll
  <2> QED
    BY <1>3, <2>1, <2>2 DEF Poll, TypeOK, InHand, books, requests, Places
<1>4. CASE Drop
  <2>1. cache' \in [Reports -> [data : Nat, expires : Nat] \cup {NoReport}]
    BY <1>4 DEF Drop, TypeOK
  <2>2. Tail(left) \in Seq(Reports)
    BY <1>4 DEF Drop, TypeOK, InHand
  <2> QED
    BY <1>4, <2>1, <2>2 DEF Drop, TypeOK, InHand, books, requests, Places
<1>5. CASE Acknowledge
  BY <1>5 DEF Acknowledge, TypeOK, InHand, books, requests, Places
<1>6. CASE Refused
  <2>1. Patterns[topic[pos]] \in Seq(Reports) /\ Patterns[topic[pos]] # <<>>
    BY <1>6, MessageType DEF Refused, InHand
  <2>2. left' \in Seq(Reports) /\ (at' = "drop" => left' # <<>>)
    BY <1>6, <2>1, EmptySeq DEF Refused
  <2>3. attempt' \in 1..MAX_RETRIES
    BY <1>6, CacheAssumption DEF Refused, TypeOK
  <2> QED
    BY <1>6, <2>2, <2>3 DEF Refused, TypeOK, InHand, books, requests, Places
<1>7. CASE SendDlq
  BY <1>7 DEF SendDlq, TypeOK, InHand, books, requests, Places
<1>8. CASE Die
  BY <1>8, EmptySeq DEF Die, Stop, TypeOK, InHand, books, requests, Places
<1> QED
  BY <1>1, <1>2, <1>3, <1>4, <1>5, <1>6, <1>7, <1>8

LEMMA HandRequest ==
    ASSUME TypeOK, InHand, NEW r \in Requests, Request(r)
    PROVE  InHand'
<1>1. Len(topic) <= Len(topic)' /\ Len(topic)' \in Nat
  <2>1. ASSUME NEW kind \in Kinds, topic' = Append(topic, kind)
        PROVE  Len(topic)' = Len(topic) + 1
    BY <2>1 DEF TypeOK
  <2>2. Len(topic) \in Nat
    BY DEF TypeOK
  <2>3. UNCHANGED topic \/ \E kind \in Kinds : topic' = Append(topic, kind)
    BY DEF Request, Announce, CommitChange, LoseChange, Reverse, Compute, Store, books
  <2> QED
    BY <2>1, <2>2, <2>3
<1>2. UNCHANGED <<at, pos, left>>
  BY DEF Request, Announce, CommitChange, LoseChange, Reverse, Compute, Store, consumer
<1> QED
  BY <1>1, <1>2 DEF InHand, TypeOK

LEMMA TypeStep ==
    ASSUME TypeOK, InHand, [Next]_vars
    PROVE  TypeOK' /\ InHand'
<1>1. CASE UNCHANGED vars
  BY <1>1 DEF vars, TypeOK, InHand
<1>2. CASE Tick /\ UNCHANGED calm
  BY <1>2 DEF Tick, TypeOK, InHand, books, requests, consumer
<1>3. ASSUME UNCHANGED calm, NEW r \in Requests, Request(r)
      PROVE  TypeOK' /\ InHand'
  BY <1>3, TypeRequest, HandRequest
<1> QED
  BY <1>1, <1>2, <1>3, TypeConsumer DEF Next

\* Every variable of the books, of the requests, of the consumer and of Redis
\* keeps its type, for any number of requests and reports.
THEOREM TypeCorrect == Spec => []TypeOK
<1>1. Init => TypeOK /\ InHand
  BY TypeInit DEF Init, InHand
<1>2. TypeOK /\ InHand /\ [Next]_vars => (TypeOK /\ InHand)'
  BY TypeStep
<1> QED
  BY <1>1, <1>2, PTL DEF Spec

-----------------------------------------------------------------------------
(* Ages *)

LEMMA ChangeType ==
    ASSUME TypeOK, NEW v \in DOMAIN changes
    PROVE  changes[v].time \in Nat
<1>1. changes \in Seq(Change)
  BY DEF TypeOK
<1>2. changes[v] \in Change
  BY <1>1
<1> QED
  BY <1>2 DEF Change

LEMMA Arithmetic ==
    \A n, s, t, e, ttl, m \in Nat :
        /\ n <= s + m /\ s <= t => n + ttl <= t + ttl + m
        /\ n <= e /\ e <= t + ttl + m => n - t <= ttl + m
OBVIOUS

LEMMA InvInit == Init => Inv
BY DEF Init, Inv, Dated, WorkTimed, CacheTimed

\* A request that is not storing a report, or goes on as it was.
LEMMA WorkKept ==
    ASSUME TypeOK, WorkTimed, UNCHANGED <<now, changes>>,
           \A r \in Requests : pc'[r] = "computed" =>
              pc[r] = "computed" /\ computed'[r] = computed[r]
    PROVE  WorkTimed'
BY DEF WorkTimed

LEMMA FinishKeeps ==
    ASSUME TypeOK, NEW r \in Requests, Finish(r)
    PROVE  \A q \in Requests : pc'[q] = "computed" =>
              pc[q] = "computed" /\ computed'[q] = computed[q]
BY DEF Finish, TypeOK

\* A change dated now is younger than every query, and than what any cached
\* report may still be served for.
LEMMA RecordKeeps ==
    ASSUME TypeOK, Inv, NEW c, Record(c), UNCHANGED <<now, cache>>,
           \A r \in Requests : pc'[r] = "computed" =>
              pc[r] = "computed" /\ computed'[r] = computed[r]
    PROVE  Inv'
<1>1. \A v \in DOMAIN changes' :
         \/ v \in DOMAIN changes /\ changes'[v] = changes[v]
         \/ changes'[v].time = now
  BY DEF Record, TypeOK
<1>2. now \in Nat
  BY DEF TypeOK
<1>3. Dated'
  BY <1>1, <1>2 DEF Inv, Dated
<1>4. WorkTimed'
  <2> SUFFICES ASSUME NEW r \in Requests, pc'[r] = "computed"
               PROVE  /\ computed'[r] \in Work
                      /\ computed'[r].started <= now
                      /\ now <= computed'[r].started + MaxCompute
                      /\ \A v \in DOMAIN changes' :
                            v > computed'[r].data => computed'[r].started <= changes'[v].time
    BY DEF WorkTimed
  <2>1. pc[r] = "computed" /\ computed'[r] = computed[r] /\ computed[r] \in Work
    BY DEF Inv, WorkTimed
  <2>2. computed[r].started <= now
    BY <2>1 DEF Inv, WorkTimed
  <2> QED
    BY <1>1, <2>1, <2>2 DEF Inv, WorkTimed
<1>5. CacheTimed'
  <2> SUFFICES ASSUME NEW k \in Reports, cache[k] # NoReport
               PROVE  /\ now <= cache[k].expires
                      /\ cache[k].expires <= now + TTL[k]
                      /\ \A v \in DOMAIN changes' : v > cache[k].data =>
                            cache[k].expires <= changes'[v].time + TTL[k] + MaxCompute
    BY DEF CacheTimed
  <2>1. now <= cache[k].expires /\ cache[k].expires <= now + TTL[k]
    BY DEF Inv, CacheTimed
  <2>2. cache[k].expires \in Nat /\ TTL[k] \in Nat /\ MaxCompute \in Nat
    BY CacheAssumption DEF TypeOK
  <2>3. ASSUME NEW v \in DOMAIN changes', v > cache[k].data
        PROVE  cache[k].expires <= changes'[v].time + TTL[k] + MaxCompute
    <3>1. CASE v \in DOMAIN changes /\ changes'[v] = changes[v]
      BY <2>3, <3>1 DEF Inv, CacheTimed
    <3>2. CASE changes'[v].time = now
      BY <2>1, <2>2, <1>2, <3>2
    <3> QED
      BY <1>1, <3>1, <3>2
  <2> QED
    BY <2>1, <2>3
<1> QED
  BY <1>3, <1>4, <1>5 DEF Inv

LEMMA InvRequest ==
    ASSUME TypeOK, Inv, NEW r \in Requests, Request(r)
    PROVE  Inv'
<1>1. ASSUME NEW kind \in Kinds, Announce(r, kind)  PROVE Inv'
  <2>1. \A q \in Requests : pc'[q] = "computed" =>
           pc[q] = "computed" /\ computed'[q] = computed[q]
    BY <1>1 DEF Announce, TypeOK
  <2> QED
    BY <1>1, <2>1, WorkKept DEF Announce, Inv, Dated, CacheTimed
<1>2. CASE CommitChange(r)
  BY <1>2, FinishKeeps, RecordKeeps DEF CommitChange
<1>3. CASE LoseChange(r)
  BY <1>3, FinishKeeps, WorkKept DEF LoseChange, Inv, Dated, CacheTimed, books
<1>4. CASE Reverse(r)
  BY <1>4, RecordKeeps DEF Reverse, requests
<1>5. ASSUME NEW k \in Reports, Compute(r, k)  PROVE Inv'
  <2> DEFINE work == [report |-> k, data |-> Len(changes), started |-> now]
  <2>1. work \in Work /\ now \in Nat /\ DOMAIN changes = 1..Len(changes)
    BY DEF TypeOK, Work
  <2>2. \A q \in Requests : pc'[q] = "computed" =>
           IF q = r THEN computed'[q] = work
                    ELSE pc[q] = "computed" /\ computed'[q] = computed[q]
    BY <1>5 DEF Compute, TypeOK
  <2>3. WorkTimed'
    <3> SUFFICES ASSUME NEW q \in Requests, pc'[q] = "computed"
                 PROVE  /\ computed'[q] \in Work
                        /\ computed'[q].started <= now'
                        /\ now' <= computed'[q].started + MaxCompute
                        /\ \A v \in DOMAIN changes' :
                              v > computed'[q].data => computed'[q].started <= changes'[v].time
      BY DEF WorkTimed
    <3>1. CASE q = r
      <4>1. computed'[q] = work
        BY <2>2, <3>1
      <4>2. \A v \in DOMAIN changes : ~(v > work.data)
        BY <2>1
      <4>3. work.started <= now /\ now <= work.started + MaxCompute
        BY <2>1, CacheAssumption
      <4> QED
        BY <1>5, <2>1, <4>1, <4>2, <4>3 DEF Compute, books
    <3>2. CASE q # r
      BY <1>5, <2>2, <3>2 DEF Compute, books, Inv, WorkTimed
    <3> QED
      BY <3>1, <3>2
  <2> QED
    BY <1>5, <2>3 DEF Compute, Inv, Dated, CacheTimed, books
<1>6. CASE Store(r)
  <2>1. UNCHANGED <<now, changes>>
    BY <1>6 DEF Store, books
  <2>2. WorkTimed'
    BY <1>6, <2>1, FinishKeeps, WorkKept DEF Store, Inv
  <2>3. CacheTimed'
    <3>1. CASE UNCHANGED cache
      BY <2>1, <3>1 DEF Inv, CacheTimed
    <3>2. CASE cache' = [cache EXCEPT ![computed[r].report] =
                 [data |-> computed[r].data,
                  expires |-> now + TTL[computed[r].report]]]
      <4> SUFFICES ASSUME NEW k \in Reports, cache'[k] # NoReport
                   PROVE  /\ now <= cache'[k].expires
                          /\ cache'[k].expires <= now + TTL[k]
                          /\ \A v \in DOMAIN changes : v > cache'[k].data =>
                                cache'[k].expires <= changes[v].time + TTL[k] + MaxCompute
        BY <2>1 DEF CacheTimed
      <4>1. CASE k # computed[r].report
        <5>1. cache'[k] = cache[k]
          BY <3>2, <4>1 DEF TypeOK
        <5> QED
          BY <5>1 DEF Inv, CacheTimed
      <4>2. CASE k = computed[r].report
        <5>1. cache'[k] = [data |-> computed[r].data, expires |-> now + TTL[k]]
          BY <3>2, <4>2 DEF TypeOK
        <5>2. /\ computed[r] \in Work
              /\ now <= computed[r].started + MaxCompute
              /\ \A v \in DOMAIN changes :
                    v > computed[r].data => computed[r].started <= changes[v].time
          BY <1>6 DEF Store, Inv, WorkTimed
        <5>3. now \in Nat /\ TTL[k] \in Nat /\ MaxCompute \in Nat /\ computed[r].started \in Nat
          BY <5>2, CacheAssumption DEF TypeOK, Work
        <5>4. ASSUME NEW v \in DOMAIN changes, v > computed[r].data
              PROVE  now + TTL[k] <= changes[v].time + TTL[k] + MaxCompute
          <6>1. changes[v].time \in Nat
            BY ChangeType
          <6>2. now <= computed[r].started + MaxCompute
                /\ computed[r].started <= changes[v].time
            BY <5>2, <5>4
          <6> QED
            BY <5>3, <6>1, <6>2, Arithmetic
        <5> QED
          BY <5>1, <5>3, <5>4
      <4> QED
        BY <4>1, <4>2
    <3> QED
      BY <1>6, <3>1, <3>2 DEF Store
  <2> QED
    BY <2>1, <2>2, <2>3 DEF Inv, Dated
<1> QED
  BY <1>1, <1>2, <1>3, <1>4, <1>5, <1>6 DEF Request

LEMMA InvTick ==
    ASSUME TypeOK, Inv, Tick
    PROVE  Inv'
<1>1. now \in Nat /\ now' = now + 1 /\ UNCHANGED <<changes, pc, computed>>
  BY DEF Tick, TypeOK, books, requests
<1>2. Dated'
  BY <1>1, ChangeType DEF Inv, Dated
<1>3. WorkTimed'
  <2> SUFFICES ASSUME NEW r \in Requests, pc[r] = "computed"
               PROVE  /\ computed[r].started <= now + 1
                      /\ now + 1 <= computed[r].started + MaxCompute
    BY <1>1 DEF Inv, WorkTimed
  <2>1. computed[r].started \in Nat /\ MaxCompute \in Nat
    BY CacheAssumption DEF Inv, WorkTimed, Work
  <2>2. computed[r].started <= now /\ now < computed[r].started + MaxCompute
    BY DEF Tick, Inv, WorkTimed
  <2> QED
    BY <1>1, <2>1, <2>2
<1>4. CacheTimed'
  <2> SUFFICES ASSUME NEW k \in Reports, cache'[k] # NoReport
               PROVE  /\ now + 1 <= cache'[k].expires
                      /\ cache'[k].expires <= now + 1 + TTL[k]
                      /\ \A v \in DOMAIN changes : v > cache'[k].data =>
                            cache'[k].expires <= changes[v].time + TTL[k] + MaxCompute
    BY <1>1 DEF CacheTimed
  <2>1. cache[k] # NoReport /\ cache'[k] = cache[k] /\ ~(cache[k].expires <= now + 1)
    BY DEF Tick
  <2>2. cache[k].expires \in Nat /\ TTL[k] \in Nat
    BY <2>1, CacheAssumption DEF TypeOK
  <2>3. cache[k].expires <= now + TTL[k]
    BY <2>1 DEF Inv, CacheTimed
  <2>4. now + 1 <= cache[k].expires /\ cache[k].expires <= now + 1 + TTL[k]
    BY <1>1, <2>1, <2>2, <2>3
  <2> QED
    BY <2>1, <2>4 DEF Inv, CacheTimed
<1> QED
  BY <1>2, <1>3, <1>4 DEF Inv

LEMMA InvConsumer ==
    ASSUME TypeOK, Inv,
           Join \/ Crash \/ Poll \/ Drop \/ Acknowledge \/ Refused \/ SendDlq \/ Die
    PROVE  Inv'
<1>1. UNCHANGED <<now, changes, pc, computed>>
  BY DEF Join, Crash, Poll, Drop, Acknowledge, Refused, SendDlq, Die, books, requests
<1>2. \A k \in Reports : cache'[k] = cache[k] \/ cache'[k] = NoReport
  BY DEF Join, Crash, Poll, Drop, Acknowledge, Refused, SendDlq, Die, TypeOK
<1> QED
  BY <1>1, <1>2 DEF Inv, Dated, WorkTimed, CacheTimed

LEMMA InvStep ==
    ASSUME TypeOK, Inv, [Next]_vars
    PROVE  Inv'
<1>1. CASE UNCHANGED vars
  BY <1>1 DEF vars, Inv, Dated, WorkTimed, CacheTimed
<1> QED
  BY <1>1, InvTick, InvRequest, InvConsumer DEF Next

LEMMA InvBounds ==
    ASSUME TypeOK, Inv
    PROVE  BoundedStaleness
<1> SUFFICES ASSUME NEW k \in Reports, cache[k] # NoReport,
                    NEW v \in DOMAIN changes, v > cache[k].data
             PROVE  now - changes[v].time <= TTL[k] + MaxCompute
  BY DEF BoundedStaleness
<1>1. /\ now <= cache[k].expires
      /\ cache[k].expires <= changes[v].time + TTL[k] + MaxCompute
  BY DEF Inv, CacheTimed
<1>2. /\ now \in Nat /\ cache[k].expires \in Nat /\ changes[v].time \in Nat
      /\ TTL[k] \in Nat /\ MaxCompute \in Nat
  BY CacheAssumption, ChangeType DEF TypeOK
<1> QED
  BY <1>1, <1>2, Arithmetic

\* No report is served without a change that is older than its time to live and
\* the time the report took, whatever is lost, refused, raced or dead: the
\* expiry in Redis does not depend on the invalidation.
THEOREM Staleness == Spec => []BoundedStaleness
<1>1. Init => TypeOK /\ InHand /\ Inv
  BY TypeInit, InvInit DEF Init, InHand
<1>2. TypeOK /\ InHand /\ Inv /\ [Next]_vars => (TypeOK /\ InHand /\ Inv)'
  BY TypeStep, InvStep
<1>3. TypeOK /\ Inv => BoundedStaleness
  BY InvBounds
<1> QED
  BY <1>1, <1>2, <1>3, PTL DEF Spec

-----------------------------------------------------------------------------
(* Freshness, when calm.  A message reaches a report either while it is at  *)
(* hand or once it is acknowledged, and a report it has reached has been    *)
(* computed since; retries, the DLQ and a crash keep that because the       *)
(* group's offset follows the position by one message at most.              *)

Handling == at \in {"drop", "commit", "sendDlq", "commitDlq"}

Offsets ==
    /\ first <= acked /\ acked <= Len(topic) /\ pos <= Len(topic)
    /\ at = "poll" => acked = pos
    /\ Handling => acked <= pos /\ pos <= acked + 1

Announcement == [kind : Kinds \cup {"REVERSAL"}, slot : Nat]

\* A change and its message are of one kind.
OfOneKind(c) == c.slot = 0 \/ (c.slot \in 1..Len(topic) /\ topic[c.slot] = c.kind)

Slots ==
    /\ \A v \in DOMAIN changes : OfOneKind(changes[v])
    /\ \A r \in Requests : OfOneKind(announced[r])

\* The message of c has dropped the report k, which its row names: it is
\* acknowledged, or it is at hand and past k, or past its first attempt.
Reached(c, k) ==
    /\ c.slot > first
    /\ Dropped(k, c.kind)
    /\ \/ c.slot <= acked
       \/ /\ Handling
          /\ c.slot = pos
          /\ at = "drop" => attempt > 1 \/ \A i \in DOMAIN left : left[i] # k

\* When calm one request runs at a time, and a report being stored is up to date.
Alone ==
    calm =>
        /\ \A r, q \in Requests : pc[r] # "idle" /\ pc[q] # "idle" => r = q
        /\ \A r \in Requests : pc[r] = "computed" => computed[r].data = Len(changes)

\* A change whose message has reached a cached report is in it, and the message of
\* a change that is yet to commit has reached none.
ReachedIsFresh ==
    calm => \A k \in Reports : cache[k] # NoReport =>
        /\ \A v \in DOMAIN changes : Reached(changes[v], k) => v <= cache[k].data
        /\ \A r \in Requests : pc[r] = "announced" => ~Reached(announced[r], k)

Fresh == Offsets /\ Slots /\ Alone /\ ReachedIsFresh

LEMMA FreshInit == Init => Fresh
BY DEF Init, Fresh, Offsets, Handling, Slots, OfOneKind, Alone, ReachedIsFresh, NoChange

\* What a step may do to the topic.
LEMMA TopicStep ==
    ASSUME TypeOK, TypeOK', [Next]_vars
    PROVE  /\ Len(topic) \in Nat /\ Len(topic)' \in Nat /\ Len(topic) <= Len(topic)'
           /\ \A s \in 1..Len(topic) : topic'[s] = topic[s]
<1>1. Len(topic) \in Nat /\ Len(topic)' \in Nat
  BY DEF TypeOK
<1>2. UNCHANGED topic \/ \E kind \in Kinds : topic' = Append(topic, kind)
  BY DEF Next, vars, Tick, Request, Announce, CommitChange, LoseChange, Reverse, Compute,
         Store, Join, Crash, Poll, Drop, Acknowledge, Refused, SendDlq, Die, books
<1>3. ASSUME NEW kind \in Kinds, topic' = Append(topic, kind)
      PROVE  Len(topic) <= Len(topic)' /\ \A s \in 1..Len(topic) : topic'[s] = topic[s]
  BY <1>3 DEF TypeOK
<1>4. CASE UNCHANGED topic
  BY <1>1, <1>4
<1> QED
  BY <1>1, <1>2, <1>3, <1>4

LEMMA OffsetsStep ==
    ASSUME TypeOK, TypeOK', Offsets, [Next]_vars
    PROVE  Offsets'
<1>1. Len(topic) \in Nat /\ Len(topic)' \in Nat /\ Len(topic) <= Len(topic)'
  BY TopicStep
<1>2. pos \in Nat /\ acked \in Nat /\ first \in Nat
  BY DEF TypeOK
<1>3. CASE UNCHANGED consumer
  BY <1>1, <1>2, <1>3 DEF Offsets, Handling, consumer
<1>4. CASE Join
  BY <1>1, <1>2, <1>4 DEF Join, Offsets, Handling, books
<1>5. CASE Crash
  BY <1>1, <1>2, <1>5 DEF Crash, Stop, Offsets, Handling, books
<1>6. CASE Poll
  BY <1>1, <1>2, <1>6 DEF Poll, Offsets, Handling, books
<1>7. CASE Drop
  BY <1>1, <1>2, <1>7 DEF Drop, Offsets, Handling, books
<1>8. CASE Acknowledge
  BY <1>1, <1>2, <1>8 DEF Acknowledge, Offsets, Handling, books
<1>9. CASE Refused
  <2>1. acked <= pos /\ pos <= acked + 1 /\ UNCHANGED <<topic, pos, first>>
    BY <1>9 DEF Refused, Offsets, Handling, books
  <2>2. acked' = acked \/ acked' = pos
    BY <1>9 DEF Refused
  <2>3. at' # "poll"
    BY <1>9 DEF Refused
  <2> QED
    BY <1>1, <1>2, <2>1, <2>2, <2>3 DEF Offsets
<1>10. CASE SendDlq
  BY <1>1, <1>2, <1>10 DEF SendDlq, Offsets, Handling, books
<1>11. CASE Die
  BY <1>1, <1>2, <1>11 DEF Die, Stop, Offsets, Handling, books
<1>12. ASSUME NEW r \in Requests, Request(r)  PROVE UNCHANGED consumer
  BY <1>12 DEF Request, Announce, CommitChange, LoseChange, Reverse, Compute, Store
<1>13. CASE Tick \/ UNCHANGED vars
  BY <1>3, <1>13 DEF Tick, vars, consumer
<1> QED
  BY <1>3, <1>4, <1>5, <1>6, <1>7, <1>8, <1>9, <1>10, <1>11, <1>12, <1>13 DEF Next

\* What a record of changes or of announced keeps when the topic grows.
LEMMA KindKept ==
    ASSUME TypeOK, TypeOK', [Next]_vars, NEW c, OfOneKind(c)
    PROVE  c.slot = 0 \/ (c.slot \in 1..Len(topic') /\ topic'[c.slot] = c.kind)
<1>1. CASE c.slot = 0
  BY <1>1
<1>2. CASE c.slot \in 1..Len(topic) /\ topic[c.slot] = c.kind
  <2>1. c.slot \in 1..Len(topic')
    BY <1>2, TopicStep
  <2>2. topic'[c.slot] = topic[c.slot]
    BY <1>2, TopicStep
  <2> QED
    BY <1>2, <2>1, <2>2
<1> QED
  BY <1>1, <1>2 DEF OfOneKind

\* A change that commits is the one announced, or a reversal.
LEMMA ChangesStep ==
    ASSUME TypeOK, [Next]_vars
    PROVE  \/ UNCHANGED changes
           \/ \E r \in Requests : CommitChange(r)
           \/ \E r \in Requests : Reverse(r)
BY DEF Next, vars, Tick, Request, Announce, LoseChange, Compute,
       Store, Join, Crash, Poll, Drop, Acknowledge, Refused, SendDlq, Die, books

LEMMA RecordLast ==
    ASSUME TypeOK, NEW c, Record(c)
    PROVE  /\ \A v \in DOMAIN changes' :
                 \/ v \in DOMAIN changes /\ changes'[v] = changes[v]
                 \/ v = Len(changes) + 1 /\ changes'[v].slot = c.slot /\ changes'[v].kind = c.kind
BY DEF Record, TypeOK

\* What is announced stays, is forgotten, or is the message just sent, if it was.
LEMMA AnnouncedStep ==
    ASSUME TypeOK, [Next]_vars, NEW q \in Requests
    PROVE  \/ announced'[q] = announced[q] /\ (pc'[q] = "announced" => pc[q] = "announced")
           \/ announced'[q] = NoChange /\ pc'[q] # "announced"
           \/ \E kind \in Kinds : Announce(q, kind)
<1>1. ASSUME NEW r \in Requests, Finish(r)
      PROVE  \/ announced'[q] = announced[q] /\ pc'[q] = pc[q]
             \/ announced'[q] = NoChange /\ pc'[q] = "idle"
  BY <1>1 DEF Finish, TypeOK
<1>2. ASSUME NEW r \in Requests, Request(r)
      PROVE  \/ announced'[q] = announced[q] /\ (pc'[q] = "announced" => pc[q] = "announced")
             \/ announced'[q] = NoChange /\ pc'[q] # "announced"
             \/ \E kind \in Kinds : Announce(q, kind)
  <2>1. ASSUME NEW kind \in Kinds, Announce(r, kind), r # q
        PROVE  announced'[q] = announced[q] /\ pc'[q] = pc[q]
    BY <2>1 DEF Announce, TypeOK
  <2>2. ASSUME NEW k \in Reports, Compute(r, k)
        PROVE  announced'[q] = announced[q] /\ (pc'[q] = "announced" => pc[q] = "announced")
    BY <2>2 DEF Compute, TypeOK
  <2>3. CASE CommitChange(r) \/ LoseChange(r) \/ Store(r)
    BY <1>1, <2>3 DEF CommitChange, LoseChange, Store
  <2>4. CASE Reverse(r)
    BY <2>4 DEF Reverse, requests
  <2> QED
    BY <1>2, <2>1, <2>2, <2>3, <2>4 DEF Request
<1>3. CASE UNCHANGED requests
  BY <1>3 DEF requests
<1> QED
  BY <1>2, <1>3 DEF Next, vars, Tick, requests, Join, Crash, Poll, Drop, Acknowledge,
                    Refused, SendDlq, Die

LEMMA SlotsStep ==
    ASSUME TypeOK, TypeOK', Slots, [Next]_vars
    PROVE  Slots'
<1>1. ASSUME NEW v \in DOMAIN changes'
      PROVE  OfOneKind(changes[v])'
  <2>1. CASE v \in DOMAIN changes /\ changes'[v] = changes[v]
    BY <2>1, KindKept DEF Slots, OfOneKind
  <2>2. ASSUME NEW c, OfOneKind(c), Record(c), ~(v \in DOMAIN changes /\ changes'[v] = changes[v])
        PROVE  OfOneKind(changes[v])'
    <3>1. changes'[v].slot = c.slot /\ changes'[v].kind = c.kind
      BY <2>2, RecordLast
    <3> QED
      BY <2>2, <3>1, KindKept DEF OfOneKind
  <2>3. ASSUME NEW r \in Requests, CommitChange(r)
        PROVE  OfOneKind(announced[r]) /\ Record(announced[r])
    BY <2>3 DEF CommitChange, Slots
  <2>4. ASSUME NEW r \in Requests, Reverse(r)
        PROVE  OfOneKind(NoChange) /\ Record(NoChange)
    BY <2>4 DEF Reverse, OfOneKind, NoChange
  <2> QED
    BY <2>1, <2>2, <2>3, <2>4, ChangesStep
<1>2. ASSUME NEW q \in Requests
      PROVE  OfOneKind(announced[q])'
  <2>1. CASE announced'[q] = announced[q]
    BY <2>1, KindKept DEF Slots, OfOneKind
  <2>2. CASE announced'[q] = NoChange
    BY <2>2 DEF OfOneKind, NoChange
  <2>3. ASSUME NEW kind \in Kinds, Announce(q, kind)
        PROVE  OfOneKind(announced[q])'
    <3>1. CASE /\ topic' = Append(topic, kind)
               /\ announced' = [announced EXCEPT ![q] = [kind |-> kind, slot |-> Len(topic) + 1]]
      <4>1. announced'[q] = [kind |-> kind, slot |-> Len(topic) + 1]
        BY <3>1 DEF TypeOK
      <4>2. Len(topic') = Len(topic) + 1 /\ topic'[Len(topic) + 1] = kind /\ Len(topic) \in Nat
        BY <3>1 DEF TypeOK
      <4> QED
        BY <4>1, <4>2 DEF OfOneKind
    <3>2. CASE announced' = [announced EXCEPT ![q] = [kind |-> kind, slot |-> 0]]
      BY <3>2 DEF TypeOK, OfOneKind
    <3> QED
      BY <2>3, <3>1, <3>2 DEF Announce
  <2> QED
    BY <2>1, <2>2, <2>3, AnnouncedStep
<1> QED
  BY <1>1, <1>2 DEF Slots

LEMMA AloneStep ==
    ASSUME TypeOK, Alone, [Next]_vars
    PROVE  Alone'
<1> SUFFICES ASSUME calm
             PROVE  Alone'
  BY DEF Next, vars, Alone
<1>1. CASE UNCHANGED <<calm, pc, computed, changes>>
  BY <1>1 DEF Alone
<1>2. ASSUME NEW r \in Requests, Request(r), UNCHANGED calm
      PROVE  Alone'
  <2>1. \A q \in Requests \ {r} : pc[q] = "idle" /\ pc'[q] = "idle"
    <3>1. \A q \in Requests \ {r} : pc[q] = "idle"
      BY <1>2 DEF Alone, Request, MayStart, Announce, CommitChange, LoseChange, Reverse,
                  Compute, Store
    <3>2. \A q \in Requests \ {r} : pc'[q] = pc[q]
      BY <1>2 DEF TypeOK, Request, Announce, CommitChange, LoseChange, Reverse, Compute,
                  Store, Finish, requests
    <3> QED
      BY <3>1, <3>2
  <2>2. pc'[r] = "computed" => computed'[r].data = Len(changes')
    <3>1. ASSUME NEW k \in Reports, Compute(r, k)
          PROVE  computed'[r].data = Len(changes')
      BY <3>1 DEF Compute, TypeOK, books
    <3>2. ASSUME NEW kind \in Kinds, Announce(r, kind)
          PROVE  pc'[r] = "announced"
      BY <3>2 DEF Announce, TypeOK
    <3>3. CASE CommitChange(r) \/ LoseChange(r) \/ Store(r)
      BY <3>3 DEF CommitChange, LoseChange, Store, Finish, TypeOK
    <3>4. CASE Reverse(r)
      BY <3>4 DEF Reverse, MayStart, requests
    <3> QED
      BY <1>2, <3>1, <3>2, <3>3, <3>4 DEF Request
  <2> QED
    BY <2>1, <2>2 DEF Alone
<1> QED
  BY <1>1, <1>2 DEF Next, vars, Tick, Join, Crash, Poll, Drop, Acknowledge, Refused, SendDlq,
                    Die, books, requests

\* A step of the consumer reaches no report, unless it drops it.
LEMMA ReachedBefore ==
    ASSUME TypeOK, InHand, Offsets,
           Join \/ Crash \/ Poll \/ Acknowledge \/ Refused \/ SendDlq \/ Die,
           NEW c \in Announcement, OfOneKind(c), NEW k \in Reports, Reached(c, k)'
    PROVE  Reached(c, k)
<1> USE DEF Reached, Handling, Announcement, Offsets
<1>1. pos \in Nat /\ acked \in Nat /\ first \in Nat /\ c.slot \in Nat /\ Len(topic) \in Nat
  BY DEF TypeOK
<1>2. CASE Join
  BY <1>1, <1>2 DEF Join, OfOneKind
<1>3. CASE Crash
  BY <1>1, <1>3 DEF Crash, Stop
<1>4. CASE Poll
  <2>1. CASE c.slot <= acked
    BY <1>1, <1>4, <2>1 DEF Poll
  <2>2. CASE c.slot = pos + 1
    <3>1. topic[pos + 1] = c.kind /\ left' = Patterns[c.kind]
      BY <1>1, <1>4, <2>2 DEF Poll, OfOneKind
    <3>2. \E i \in DOMAIN left' : left'[i] = k
      BY <3>1 DEF Dropped
    <3> QED
      BY <1>1, <1>4, <2>2, <3>2 DEF Poll
  <2> QED
    BY <1>1, <1>4, <2>1, <2>2 DEF Poll
<1>5. CASE Acknowledge
  BY <1>1, <1>5 DEF Acknowledge
<1>6. CASE Refused
  BY <1>1, <1>6 DEF Refused
<1>7. CASE SendDlq
  BY <1>1, <1>7 DEF SendDlq
<1>8. CASE Die
  BY <1>1, <1>8 DEF Die, Stop
<1> QED
  BY <1>2, <1>3, <1>4, <1>5, <1>6, <1>7, <1>8

LEMMA HeadOrTail ==
    ASSUME NEW s \in Seq(Reports), s # <<>>, NEW k, k # Head(s),
           \A i \in DOMAIN Tail(s) : Tail(s)[i] # k
    PROVE  \A i \in DOMAIN s : s[i] # k
<1> SUFFICES ASSUME NEW i \in DOMAIN s
             PROVE  s[i] # k
  OBVIOUS
<1>1. CASE i = 1
  BY <1>1
<1>2. CASE i # 1
  <2>1. i - 1 \in DOMAIN Tail(s) /\ Tail(s)[i - 1] = s[i]
    BY <1>2
  <2> QED
    BY <2>1
<1> QED
  BY <1>1, <1>2

LEMMA ReachedBeforeDrop ==
    ASSUME TypeOK, InHand, Drop,
           NEW c, NEW k \in Reports, k # Head(left), Reached(c, k)'
    PROVE  Reached(c, k)
<1>1. at = "drop" /\ left \in Seq(Reports) /\ left # <<>> /\ left' = Tail(left)
  BY DEF Drop, TypeOK, InHand
<1>2. CASE at' = "drop"
  BY <1>1, <1>2, HeadOrTail DEF Drop, Reached, Handling
<1>3. CASE at' # "drop"
  <2>1. Tail(left) = <<>>
    BY <1>3 DEF Drop
  <2>2. \A i \in DOMAIN left : left[i] # k
    BY <1>1, <2>1, HeadOrTail
  <2> QED
    BY <1>1, <2>2 DEF Drop, Reached, Handling
<1> QED
  BY <1>2, <1>3

LEMMA RecordTyped ==
    ASSUME TypeOK
    PROVE  /\ \A v \in DOMAIN changes : changes[v].slot \in Nat /\ changes[v].kind \in Kinds \cup {"REVERSAL"}
           /\ \A r \in Requests : announced[r] \in Announcement
<1>1. ASSUME NEW v \in DOMAIN changes
      PROVE  changes[v] \in Change
  BY DEF TypeOK
<1> QED
  BY <1>1 DEF Change, TypeOK, Announcement

\* A step that neither changes the books nor stores a report keeps what Redis
\* holds, if it reaches no report that Redis still holds.
LEMMA NothingReached ==
    ASSUME TypeOK, Slots, ReachedIsFresh, calm, UNCHANGED <<changes, announced, pc>>,
           \A k \in Reports : cache'[k] # NoReport => cache'[k] = cache[k],
           \A c \in Announcement, k \in Reports :
              OfOneKind(c) /\ cache'[k] # NoReport /\ Reached(c, k)' => Reached(c, k)
    PROVE  ReachedIsFresh'
<1> SUFFICES ASSUME NEW k \in Reports, cache'[k] # NoReport
             PROVE  /\ \A v \in DOMAIN changes : Reached(changes[v], k)' => v <= cache'[k].data
                    /\ \A r \in Requests : pc[r] = "announced" => ~Reached(announced[r], k)'
  BY DEF ReachedIsFresh
<1>1. cache[k] = cache'[k]
  OBVIOUS
<1>2. ASSUME NEW v \in DOMAIN changes, Reached(changes[v], k)'
      PROVE  v <= cache'[k].data
  <2> DEFINE c == [kind |-> changes[v].kind, slot |-> changes[v].slot]
  <2>1. c \in Announcement
    BY RecordTyped DEF Announcement
  <2>2. OfOneKind(c)
    BY DEF Slots, OfOneKind
  <2>3. Reached(changes[v], k)
    <3>1. PICK d \in Announcement : d = c
      BY <2>1
    <3>2. d.slot = changes[v].slot /\ d.kind = changes[v].kind /\ OfOneKind(d)
      BY <2>2, <3>1
    <3>3. Reached(d, k)'
      BY <1>2, <3>2 DEF Reached
    <3>4. Reached(d, k)
      BY <3>2, <3>3
    <3> QED
      BY <3>2, <3>4 DEF Reached
  <2> QED
    BY <1>1, <2>3 DEF ReachedIsFresh
<1>3. ASSUME NEW r \in Requests, pc[r] = "announced"
      PROVE  ~Reached(announced[r], k)'
  <2>1. PICK d \in Announcement : d = announced[r]
    BY RecordTyped
  <2>2. OfOneKind(d) /\ ~Reached(d, k)
    BY <1>1, <1>3, <2>1 DEF ReachedIsFresh, Slots
  <2>3. ~Reached(d, k)'
    BY <2>2
  <2> QED
    BY <2>1, <2>3 DEF Reached
<1> QED
  BY <1>2, <1>3

LEMMA ReachedRequest ==
    ASSUME TypeOK, TypeOK', Offsets, Alone, ReachedIsFresh, calm, UNCHANGED calm,
           NEW r \in Requests, Request(r)
    PROVE  ReachedIsFresh'
<1>1. UNCHANGED consumer
  BY DEF Request, Announce, CommitChange, LoseChange, Reverse, Compute, Store
<1>2. \A k \in Reports : \A v \in DOMAIN changes :
         cache[k] # NoReport /\ Reached(changes[v], k) => v <= cache[k].data
  BY DEF ReachedIsFresh
<1>3. \A k \in Reports : \A q \in Requests :
         cache[k] # NoReport /\ pc[q] = "announced" => ~Reached(announced[q], k)
  BY DEF ReachedIsFresh
<1>4. [Next]_vars
  BY DEF Next
<1> SUFFICES ASSUME NEW k \in Reports, cache'[k] # NoReport
             PROVE  /\ \A v \in DOMAIN changes' : Reached(changes[v], k)' => v <= cache'[k].data
                    /\ \A q \in Requests : pc'[q] = "announced" => ~Reached(announced[q], k)'
  BY DEF ReachedIsFresh
<1>5. ASSUME NEW kind \in Kinds, Announce(r, kind), NEW q \in Requests, pc'[q] = "announced"
      PROVE  ~Reached(announced[q], k)'
  <2>1. CASE q # r
    BY <1>1, <1>3, <1>5, <2>1 DEF Announce, TypeOK, Reached, Handling, consumer
  <2>2. CASE q = r
    <3>1. announced'[q].slot = 0 \/ announced'[q].slot = Len(topic) + 1
      BY <1>5, <2>2 DEF Announce, TypeOK
    <3> QED
      BY <1>1, <3>1 DEF Reached, Offsets, Handling, TypeOK, consumer
  <2> QED
    BY <2>1, <2>2
<1>6. ASSUME UNCHANGED changes, cache'[k] = cache[k]
      PROVE  \A v \in DOMAIN changes' : Reached(changes[v], k)' => v <= cache'[k].data
  BY <1>1, <1>2, <1>6 DEF Reached, Handling, consumer
<1>7. ASSUME ~(\E kind \in Kinds : Announce(r, kind)), cache'[k] = cache[k],
             NEW q \in Requests, pc'[q] = "announced"
      PROVE  ~Reached(announced[q], k)'
  <2>1. announced'[q] = announced[q] /\ pc[q] = "announced"
    <3>1. CASE \E kind \in Kinds : Announce(q, kind)
      <4>1. q # r /\ pc[q] = "idle"
        BY <1>7, <3>1 DEF Announce, MayStart
      <4>2. pc'[q] = pc[q]
        BY <1>7, <4>1 DEF Request, CommitChange, LoseChange, Reverse, Compute, Store, Finish,
                          requests, TypeOK
      <4> QED
        BY <1>7, <4>1, <4>2
    <3> QED
      BY <1>4, <1>7, <3>1, AnnouncedStep
  <2> QED
    BY <1>1, <1>3, <1>7, <2>1 DEF Reached, Handling, consumer
<1>8. CASE \E kind \in Kinds : Announce(r, kind)
  BY <1>5, <1>6, <1>8 DEF Announce
<1>9. CASE LoseChange(r)
  BY <1>6, <1>7, <1>9 DEF LoseChange, Announce, MayStart, books
<1>10. ASSUME NEW j \in Reports, Compute(r, j)  PROVE
          /\ \A v \in DOMAIN changes' : Reached(changes[v], k)' => v <= cache'[k].data
          /\ \A q \in Requests : pc'[q] = "announced" => ~Reached(announced[q], k)'
  <2>1. pc'[r] = "computed"
    BY <1>10 DEF Compute, TypeOK
  <2>2. ~(\E kind \in Kinds : Announce(r, kind))
    BY <2>1 DEF Announce, TypeOK
  <2> QED
    BY <1>6, <1>7, <1>10, <2>2 DEF Compute, books
<1>11. CASE CommitChange(r)
  <2>1. ASSUME NEW v \in DOMAIN changes', Reached(changes[v], k)'
        PROVE  v <= cache'[k].data
    <3>1. CASE v \in DOMAIN changes /\ changes'[v] = changes[v]
      BY <1>1, <1>2, <1>11, <2>1, <3>1 DEF CommitChange, Reached, Handling, consumer
    <3>2. CASE changes'[v].slot = announced[r].slot /\ changes'[v].kind = announced[r].kind
      BY <1>1, <1>3, <1>11, <2>1, <3>2 DEF CommitChange, Reached, Handling, consumer
    <3> QED
      BY <1>11, <3>1, <3>2, RecordLast DEF CommitChange
  <2> QED
    BY <1>7, <1>11, <2>1 DEF CommitChange, Announce, MayStart
<1>12. CASE Reverse(r)
  <2>1. ASSUME NEW v \in DOMAIN changes', Reached(changes[v], k)'
        PROVE  v <= cache'[k].data
    <3>1. CASE v \in DOMAIN changes /\ changes'[v] = changes[v]
      BY <1>1, <1>2, <1>12, <2>1, <3>1 DEF Reverse, Reached, Handling, consumer
    <3>2. CASE changes'[v].slot = 0
      BY <1>1, <2>1, <3>2 DEF Reached, TypeOK, consumer
    <3> QED
      BY <1>12, <3>1, <3>2, RecordLast DEF Reverse, NoChange
  <2>2. \A q \in Requests : pc'[q] # "announced"
    BY <1>12 DEF Reverse, MayStart, requests
  <2> QED
    BY <2>1, <2>2
<1>13. CASE Store(r)
  <2>1. \A q \in Requests : pc'[q] # "announced"
    BY <1>13 DEF Store, Finish, Alone, TypeOK
  <2>2. CASE cache'[k] = cache[k]
    BY <1>6, <1>13, <2>1, <2>2 DEF Store, books
  <2>3. CASE cache'[k] # cache[k]
    <3>1. cache'[k].data = Len(changes)
      BY <1>13, <2>3 DEF Store, Alone, TypeOK
    <3>2. \A v \in DOMAIN changes' : v <= Len(changes)
      BY <1>13 DEF Store, books, TypeOK
    <3> QED
      BY <2>1, <3>1, <3>2
  <2> QED
    BY <2>2, <2>3
<1> QED
  BY <1>8, <1>9, <1>10, <1>11, <1>12, <1>13 DEF Request

LEMMA FreshStep ==
    ASSUME TypeOK, TypeOK', InHand, Fresh, [Next]_vars
    PROVE  Fresh'
<1>1. Offsets' /\ Slots' /\ Alone'
  BY OffsetsStep, SlotsStep, AloneStep DEF Fresh
<1>2. ReachedIsFresh'
  <2> SUFFICES ASSUME calm
               PROVE  ReachedIsFresh'
    BY DEF Next, vars, ReachedIsFresh
  <2>1. CASE UNCHANGED vars
    BY <2>1 DEF vars, Fresh, ReachedIsFresh, Reached, Handling
  <2>2. CASE Tick
    <3>1. \A k \in Reports : cache'[k] # NoReport => cache'[k] = cache[k]
      BY <2>2 DEF Tick
    <3> QED
      BY <2>2, <3>1, NothingReached DEF Tick, Fresh, Reached, Handling, books, requests, consumer
  <2>3. ASSUME NEW r \in Requests, Request(r), UNCHANGED calm
        PROVE  ReachedIsFresh'
    BY <2>3, ReachedRequest DEF Fresh
  <2>4. CASE Drop
    <3>1. \A k \in Reports : cache'[k] # NoReport => cache'[k] = cache[k] /\ k # Head(left)
      BY <2>4 DEF Drop, TypeOK
    <3> QED
      BY <2>4, <3>1, NothingReached, ReachedBeforeDrop DEF Drop, Fresh, books, requests
  <2>5. CASE Join \/ Crash \/ Poll \/ Acknowledge \/ Refused \/ SendDlq \/ Die
    <3>1. UNCHANGED <<changes, announced, pc, cache>>
      BY <2>5 DEF Join, Crash, Poll, Acknowledge, Refused, SendDlq, Die, books, requests
    <3> QED
      BY <2>5, <3>1, NothingReached, ReachedBefore DEF Fresh
  <2> QED
    BY <2>1, <2>2, <2>3, <2>4, <2>5 DEF Next
<1> QED
  BY <1>1, <1>2 DEF Fresh

LEMMA FreshMeans == TypeOK /\ Fresh => FreshOnceHandled
BY RecordTyped DEF Fresh, Offsets, ReachedIsFresh, FreshOnceHandled, Handled, Reached, TypeOK

\* When requests come one at a time and Redis answers, a cached report that the map
\* names for a change is not older than it once its message is acknowledged,
\* whatever the consumer retries, puts aside or does again after a crash.
THEOREM Freshness == Spec => []FreshOnceHandled
<1>1. Init => TypeOK /\ InHand /\ Fresh
  BY TypeInit, FreshInit DEF Init, InHand
<1>2. TypeOK /\ InHand /\ Fresh /\ [Next]_vars => (TypeOK /\ InHand /\ Fresh)'
  BY TypeStep, FreshStep
<1>3. TypeOK /\ Fresh => FreshOnceHandled
  BY FreshMeans
<1> QED
  BY <1>1, <1>2, <1>3, PTL DEF Spec

=============================================================================
