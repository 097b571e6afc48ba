---------------------------- MODULE ReportCache ----------------------------
(***************************************************************************)
(* The cache of financial reports: the reporting service computes a report *)
(* from the accounting tables, keeps it in Redis for a time to live, and   *)
(* drops it when a message of accounting.events says that the books have   *)
(* changed (run_cache_invalidation_consumer).                              *)
(*                                                                         *)
(* The books are a sequence of committed changes, and a report is worth    *)
(* the number of changes its query saw; a report type stands for one key.  *)
(* A report made of several queries counts from its first.                 *)
(***************************************************************************)
EXTENDS Integers, Sequences

CONSTANTS
    Requests,      \* concurrent requests to either service
    Reports,       \* report types that are cached
    TTL,           \* time to live of each in Redis
    Patterns,      \* _INVALIDATION_MAP: reports dropped for a type of event
    MAX_RETRIES,
    MaxCompute,    \* the longest a report takes from its query to Redis
    MaxTime, MaxChanges, MaxEvents,   \* bounds of the model
    NoReport

Kinds == {"ENTRY_POSTED", "FISCAL_YEAR_CLOSED"}

ASSUME CacheAssumption ==
    /\ TTL \in [Reports -> Nat \ {0}]
    /\ Patterns \in [Kinds -> Seq(Reports)]
    /\ \A e \in Kinds : Patterns[e] # <<>>
    /\ MAX_RETRIES \in Nat \ {0}
    /\ MaxCompute \in Nat
    /\ NoReport \notin [data : Nat, expires : Nat]

VARIABLES
    calm,        \* requests come one at a time and Redis never fails
    now,
    changes,     \* committed changes: when, and their message (0 when none)
    topic,       \* accounting.events, one partition
    cache,       \* what Redis holds for each report
    pc,          \* what each request is doing
    announced,   \* the change a request is about to commit
    computed,    \* the report a request is about to store
    at,          \* where the consumer task is
    pos,         \* messages it has taken
    left,        \* reports it has yet to drop for the message at hand
    attempt,
    first,       \* the group began after this message (auto_offset_reset)
    acked        \* messages the group has committed

books    == <<changes, topic>>
requests == <<pc, announced, computed>>
consumer == <<at, pos, left, attempt, first, acked>>
vars     == <<calm, now, changes, topic, cache, pc, announced, computed,
              at, pos, left, attempt, first, acked>>

Change   == [kind : Kinds \cup {"REVERSAL"}, slot : Nat, time : Nat]
Work     == [report : Reports, data : Nat, started : Nat]
NoChange == [kind |-> "REVERSAL", slot |-> 0]
NoWork   == [report |-> NoReport, data |-> 0, started |-> 0]
Places   == {"down", "poll", "drop", "commit", "sendDlq", "commitDlq", "dead"}

Init ==
    /\ calm \in BOOLEAN
    /\ now = 0
    /\ changes = <<>>
    /\ topic = <<>>
    /\ cache = [k \in Reports |-> NoReport]
    /\ pc = [r \in Requests |-> "idle"]
    /\ announced = [r \in Requests |-> NoChange]
    /\ computed = [r \in Requests |-> NoWork]
    /\ at = "down"
    /\ pos = 0
    /\ left = <<>>
    /\ attempt = 1
    /\ first = 0
    /\ acked = 0

MayStart(r) == pc[r] = "idle" /\ (calm => \A q \in Requests : pc[q] = "idle")

-----------------------------------------------------------------------------
(* The accounting service changes the books *)

\* post_entry and close await the producer inside their transaction; a send that
\* fails is only logged.
Announce(r, kind) ==
    /\ MayStart(r)
    /\ Len(topic) < MaxEvents
    /\ \/ /\ topic' = Append(topic, kind)
          /\ announced' = [announced EXCEPT ![r] = [kind |-> kind, slot |-> Len(topic) + 1]]
       \/ /\ announced' = [announced EXCEPT ![r] = [kind |-> kind, slot |-> 0]]
          /\ UNCHANGED topic
    /\ pc' = [pc EXCEPT ![r] = "announced"]
    /\ UNCHANGED <<now, changes, cache, computed, consumer>>

Record(c) ==
    /\ Len(changes) < MaxChanges
    /\ changes' = Append(changes, [kind |-> c.kind, slot |-> c.slot, time |-> now])

Finish(r) ==
    /\ pc' = [pc EXCEPT ![r] = "idle"]
    /\ announced' = [announced EXCEPT ![r] = NoChange]
    /\ computed' = [computed EXCEPT ![r] = NoWork]

CommitChange(r) ==
    /\ pc[r] = "announced"
    /\ Record(announced[r])
    /\ Finish(r)
    /\ UNCHANGED <<now, topic, cache, consumer>>

\* The transaction does not commit: its message stays.
LoseChange(r) ==
    /\ pc[r] = "announced"
    /\ Finish(r)
    /\ UNCHANGED <<now, books, cache, consumer>>

\* reverse_entry posts a mirror entry and sends nothing.
Reverse(r) ==
    /\ MayStart(r)
    /\ Record(NoChange)
    /\ UNCHANGED <<now, topic, cache, requests, consumer>>

-----------------------------------------------------------------------------
(* The reporting service answers; a hit changes nothing *)

\* A miss, GET failing, or a format that is not JSON: the report is computed.
Compute(r, k) ==
    /\ MayStart(r)
    /\ computed' = [computed EXCEPT ![r] =
                      [report |-> k, data |-> Len(changes), started |-> now]]
    /\ pc' = [pc EXCEPT ![r] = "computed"]
    /\ UNCHANGED <<now, books, cache, announced, consumer>>

\* Mutant: every report gets the longest time to live.
StoreLongest(r) ==
    LET work == computed[r]
        Longest == CHOOSE t \in {TTL[k] : k \in Reports} : \A k \in Reports : TTL[k] <= t
    IN  /\ pc[r] = "computed"
        /\ cache' = [cache EXCEPT ![work.report] =
                       [data |-> work.data, expires |-> now + Longest]]
        /\ Finish(r)
        /\ UNCHANGED <<now, books, consumer>>

\* set_cached: SETEX, whose failure goes unnoticed.
Store(r) ==
    LET work == computed[r]
    IN  /\ pc[r] = "computed"
        /\ \/ cache' = [cache EXCEPT ![work.report] =
                          [data |-> work.data, expires |-> now + TTL[work.report]]]
           \/ ~calm /\ UNCHANGED cache
        /\ Finish(r)
        /\ UNCHANGED <<now, books, consumer>>

-----------------------------------------------------------------------------
(* The consumer of accounting.events *)

\* It takes up at the committed offset, at the end of the topic when none is.
Join ==
    /\ at = "down"
    /\ at' = "poll"
    /\ first' = IF acked > first THEN first ELSE Len(topic)
    /\ acked' = IF acked > first THEN acked ELSE Len(topic)
    /\ pos' = acked'
    /\ UNCHANGED <<now, books, cache, requests, left, attempt>>

Stop(where) == at' = where /\ left' = <<>> /\ UNCHANGED <<pos, attempt, first>>

Crash ==
    /\ at # "down"
    /\ Stop("down")
    /\ UNCHANGED <<now, books, cache, requests, acked>>

Poll ==
    /\ at = "poll"
    /\ pos < Len(topic)
    /\ pos' = pos + 1
    /\ left' = Patterns[topic[pos + 1]]
    /\ attempt' = 1
    /\ at' = "drop"
    /\ UNCHANGED <<now, books, cache, requests, first, acked>>

\* Mutant: the loop over the patterns ends after the first.
DropFirst ==
    /\ at = "drop"
    /\ cache' = [cache EXCEPT ![Head(left)] = NoReport]
    /\ left' = <<>>
    /\ at' = "commit"
    /\ UNCHANGED <<now, books, requests, pos, attempt, first, acked>>

\* invalidate_pattern: KEYS then DEL, whose failure goes unnoticed.
Drop ==
    /\ at = "drop"
    /\ \/ cache' = [cache EXCEPT ![Head(left)] = NoReport]
       \/ ~calm /\ UNCHANGED cache
    /\ left' = Tail(left)
    /\ at' = IF Tail(left) = <<>> THEN "commit" ELSE "drop"
    /\ UNCHANGED <<now, books, requests, pos, attempt, first, acked>>

Acknowledge ==
    /\ at \in {"commit", "commitDlq"}
    /\ acked' = pos
    /\ at' = "poll"
    /\ UNCHANGED <<now, books, cache, requests, pos, left, attempt, first>>

\* commit() raises, committed or not: the patterns again, or the DLQ.
Refused ==
    /\ at = "commit"
    /\ acked' \in {acked, pos}
    /\ \/ attempt < MAX_RETRIES /\ attempt' = attempt + 1 /\ at' = "drop"
       \/ attempt = MAX_RETRIES /\ at' = "sendDlq" /\ UNCHANGED attempt
    /\ left' = IF at' = "drop" THEN Patterns[topic[pos]] ELSE <<>>
    /\ UNCHANGED <<now, books, cache, requests, pos, first>>

SendDlq ==
    /\ at = "sendDlq"
    /\ at' = "commitDlq"
    /\ UNCHANGED <<now, books, cache, requests, pos, left, attempt, first, acked>>

\* An exception outside the try ends the task, and nothing starts it again.
Die ==
    /\ at \in {"sendDlq", "commitDlq"}
    /\ acked' \in IF at = "commitDlq" THEN {acked, pos} ELSE {acked}
    /\ Stop("dead")
    /\ UNCHANGED <<now, books, cache, requests>>

-----------------------------------------------------------------------------
\* Time passes, no request outlasts MaxCompute, and Redis drops what expires.
Tick ==
    /\ now < MaxTime
    /\ \A r \in Requests : pc[r] = "computed" => now < computed[r].started + MaxCompute
    /\ now' = now + 1
    /\ cache' = [k \in Reports |->
                   IF cache[k] # NoReport /\ cache[k].expires <= now + 1
                   THEN NoReport ELSE cache[k]]
    /\ UNCHANGED <<books, requests, consumer>>

Request(r) ==
    \/ \E kind \in Kinds : Announce(r, kind)
    \/ CommitChange(r) \/ LoseChange(r) \/ Reverse(r)
    \/ \E k \in Reports : Compute(r, k)
    \/ Store(r)

Next ==
    /\ \/ Tick
       \/ \E r \in Requests : Request(r)
       \/ Join \/ Crash \/ Poll \/ Drop \/ Acknowledge \/ Refused \/ SendDlq \/ Die
    /\ UNCHANGED calm

Spec == Init /\ [][Next]_vars

-----------------------------------------------------------------------------
(* Properties *)

\* Every variable keeps its type.
TypeOK ==
    /\ calm \in BOOLEAN
    /\ now \in Nat
    /\ changes \in Seq(Change)
    /\ topic \in Seq(Kinds)
    /\ cache \in [Reports -> [data : Nat, expires : Nat] \cup {NoReport}]
    /\ pc \in [Requests -> {"idle", "announced", "computed"}]
    /\ announced \in [Requests -> [kind : Kinds \cup {"REVERSAL"}, slot : Nat]]
    /\ computed \in [Requests -> Work \cup {NoWork}]
    /\ at \in Places
    /\ pos \in Nat
    /\ left \in Seq(Reports)
    /\ attempt \in 1..MAX_RETRIES
    /\ first \in Nat
    /\ acked \in Nat

\* Whatever is lost or refused, a report is never served without a change that
\* is older than its time to live and the time it took to compute.
BoundedStaleness ==
    \A k \in Reports : cache[k] # NoReport =>
        \A v \in DOMAIN changes :
            v > cache[k].data => now - changes[v].time <= TTL[k] + MaxCompute

Handled(v) == changes[v].slot \in first + 1 .. acked
Dropped(k, kind) == \E i \in DOMAIN Patterns[kind] : Patterns[kind][i] = k

\* "On invalide leurs clés pour forcer un recalcul à la prochaine requête": once
\* the message of a change is acknowledged, the reports that the map names for it
\* are not older than the change, however often the consumer crashes, retries or
\* sees the message before its COMMIT.  Only when calm: a report computed while
\* the books change is stored after the invalidation.
FreshOnceHandled ==
    calm => \A v \in DOMAIN changes : \A k \in Reports :
        (Handled(v) /\ Dropped(k, changes[v].kind) /\ cache[k] # NoReport)
            => cache[k].data >= v

=============================================================================
