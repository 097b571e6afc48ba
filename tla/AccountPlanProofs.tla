------------------------- MODULE AccountPlanProofs -------------------------
(***************************************************************************)
(* The chart of accounts under concurrent requests, for any codes, plans,  *)
(* files and number of requests: the hierarchy, the optimistic lock, what  *)
(* a load leaves behind and what it leaves alone, and that loads of one    *)
(* template never wait for each other in a circle.                         *)
(***************************************************************************)
EXTENDS AccountPlan, SequenceTheorems, FiniteSetTheorems, WellFoundedInduction, TLAPS

-----------------------------------------------------------------------------
(* The list a request works through *)

\* Min is what it says on every set of naturals that is not empty.
LEMMA MinIsLeast ==
    ASSUME NEW S \in SUBSET Nat, S # {}
    PROVE  Min(S) \in S /\ \A x \in S : Min(S) <= x
<1>1. PICK x \in S : \A y \in S : ~(<<y, x>> \in OpToRel(<, Nat))
  BY NatLessThanWellFounded, WFMin
<1>2. \A y \in S : x <= y
  <2> SUFFICES ASSUME NEW y \in S PROVE x <= y
    OBVIOUS
  <2>1. ~(y < x)
    BY <1>1 DEF OpToRel
  <2> QED
    BY <2>1
<1> QED
  BY <1>2 DEF Min

\* A suffix of a list, and what it contains.
LEMMA Suffix ==
    ASSUME NEW T, NEW s \in Seq(T), NEW m \in 1..Len(s)
    PROVE  /\ SubSeq(s, m, Len(s)) \in Seq(T) /\ SubSeq(s, m, Len(s)) # << >>
           /\ Head(SubSeq(s, m, Len(s))) = s[m]
           /\ \A i \in m..Len(s) : \E k \in DOMAIN SubSeq(s, m, Len(s)) :
                 SubSeq(s, m, Len(s))[k] = s[i]
<1> DEFINE t == SubSeq(s, m, Len(s))
<1>1. /\ t \in Seq(T) /\ Len(t) = Len(s) - m + 1
      /\ \A k \in 1..(Len(s) - m + 1) : t[k] = s[m + k - 1]
  BY SubSeqProperties
<1>2. t # << >> /\ Head(t) = t[1] /\ t[1] = s[m]
  <2> HIDE DEF t
  <2>1. 1 \in 1..(Len(s) - m + 1) /\ Len(t) > 0
    BY <1>1
  <2>2. t[1] = s[m + 1 - 1] /\ m + 1 - 1 = m
    BY <1>1, <2>1
  <2>3. t # << >> /\ Head(t) = t[1]
    BY <1>1, <2>1
  <2> QED
    BY <2>2, <2>3
<1>3. ASSUME NEW i \in m..Len(s)
      PROVE  \E k \in DOMAIN t : t[k] = s[i]
  <2>1. i - m + 1 \in 1..(Len(s) - m + 1) /\ m + (i - m + 1) - 1 = i
    OBVIOUS
  <2>2. i - m + 1 \in DOMAIN t
    BY <1>1, <2>1
  <2> QED
    BY <1>1, <2>1, <2>2
<1> QED
  BY <1>1, <1>2, <1>3

\* What Resume does to a job: it drops definitions that are skipped, and stops at
\* the first that is not.
Resumed(j, k) ==
    /\ k \in Job
    /\ k.op = j.op /\ k.known = j.known /\ k.leaves = j.leaves /\ k.goal = j.goal
    /\ k.wanted = j.wanted /\ k.target = j.target /\ k.value = j.value /\ k.seen = j.seen
    /\ k.pc \in {"next", "journals", "commit"}
    /\ k.pc = "journals" => k.op \in {"load", "seed"}
    /\ k.pc = "next" => k.todo # << >> /\ Wanted(j, Head(k.todo))
    /\ k.pc # "next" => k.todo = << >>
    /\ \A i \in DOMAIN j.todo :
          Wanted(j, j.todo[i]) => \E m \in DOMAIN k.todo : k.todo[m] = j.todo[i]

LEMMA ResumeIs ==
    ASSUME NEW j \in Job
    PROVE  Resumed(j, Resume(j))
<1> DEFINE left == {i \in DOMAIN j.todo : Wanted(j, j.todo[i])}
           m == Min(left)
           n == IF j.op \in {"load", "seed"} THEN "journals" ELSE "commit"
           s == SubSeq(j.todo, m, Len(j.todo))
<1>1. j.todo \in Seq(Def) /\ DOMAIN j.todo = 1..Len(j.todo)
  BY DEF Job
<1>2. CASE left = {}
  <2>1. Resume(j) = [j EXCEPT !.todo = << >>, !.pc = n]
    BY <1>2 DEF Resume
  <2>2. << >> \in Seq(Def)
    OBVIOUS
  <2> QED
    BY <1>2, <2>1, <2>2 DEF Resumed, Job
<1>3. CASE left # {}
  <2>1. left \in SUBSET Nat
    BY <1>1
  <2>2. m \in left /\ \A i \in left : m <= i
    <3> HIDE DEF left
    <3> QED
      BY <1>3, <2>1, MinIsLeast
  <2>3. m \in 1..Len(j.todo) /\ Wanted(j, j.todo[m])
    BY <1>1, <2>2
  <2>4. Resume(j) = [j EXCEPT !.todo = s, !.pc = "next"]
    BY <1>3 DEF Resume
  <2>5. /\ s \in Seq(Def) /\ s # << >> /\ Head(s) = j.todo[m]
        /\ \A i \in m..Len(j.todo) : \E k \in DOMAIN s : s[k] = j.todo[i]
    <3> HIDE DEF m
    <3> QED
      BY <1>1, <2>3, Suffix
  <2>6. \A i \in DOMAIN j.todo : Wanted(j, j.todo[i]) => \E k \in DOMAIN s : s[k] = j.todo[i]
    <3> SUFFICES ASSUME NEW i \in DOMAIN j.todo, Wanted(j, j.todo[i])
                 PROVE  \E k \in DOMAIN s : s[k] = j.todo[i]
      OBVIOUS
    <3>1. i \in m..Len(j.todo)
      BY <1>1, <2>2, <2>3
    <3> QED
      BY <2>5, <3>1
  <2> HIDE DEF s, m, left
  <2>7. Resume(j) \in Job
    BY <2>4, <2>5 DEF Job
  <2>8. /\ Resume(j).todo = s /\ Resume(j).pc = "next" /\ Resume(j).op = j.op
        /\ Resume(j).known = j.known /\ Resume(j).leaves = j.leaves
        /\ Resume(j).goal = j.goal /\ Resume(j).wanted = j.wanted
        /\ Resume(j).target = j.target /\ Resume(j).value = j.value
        /\ Resume(j).seen = j.seen
    BY <2>4 DEF Job
  <2> QED
    BY <2>3, <2>5, <2>6, <2>7, <2>8 DEF Resumed
<1> QED
  BY <1>2, <1>3

LEMMA IdleJob == Idle \in Job /\ NoRow \notin Row
BY CodeAssumption DEF Idle, Job, NoRow, Row

-----------------------------------------------------------------------------
(* The inductive invariant *)

\* Where a job stands, for each of its stages.
Staged(j) ==
    /\ j.pc = "idle" <=> j = Idle
    /\ j.pc \in {"next", "insert"} =>
          /\ j.op \in {"create", "load", "seed"}
          /\ j.todo # << >> /\ Head(j.todo).code \notin j.known
    /\ j.pc = "journals" => j.op \in {"load", "seed"}
    /\ j.pc \in {"journals", "commit"} => j.todo = << >>
    /\ j.pc = "update" => j.op = "patch" /\ j.todo = << >>
    /\ j.op = "patch" => j.pc \in {"update", "commit"}
    /\ j.op = "import" => j.pc = "commit"
    /\ j.op \in {"load", "seed"} =>
          \A c \in j.goal : c \in j.known \/ \E i \in DOMAIN j.todo : j.todo[i].code = c

\* What the job of r knows is there, and what it inserted is new.
Knows(r, j) ==
    /\ Pending(r) \subseteq j.known
    /\ j.known \subseteq Committed \cup Pending(r)
    /\ Pending(r) \cap Committed = {}
    /\ marked[r] \subseteq Committed
    /\ j.op \in {"none", "patch", "import"} => Pending(r) = {} /\ marked[r] = {}
    /\ j.op # "seed" => \A p \in j.known \ Pending(r) : p \in j.leaves \/ ~chart[p].leaf

\* p is no leaf, or will be none when r has committed.
Opened(r, p) ==
    IF p \in Pending(r) THEN ~mine[r][p].leaf
    ELSE p \in Committed /\ (p \in marked[r] \/ ~chart[p].leaf)

Under(j) == IF Head(j.todo).parent \in j.known THEN Head(j.todo).parent ELSE NoCode

Ready(r, j) == j.pc = "insert" /\ Under(j) # NoCode => Opened(r, Under(j))

\* The version a PATCH read is still the one it overwrites.
Holds(j) ==
    /\ j.op = "patch" => j.target \in Committed
    /\ j.op = "patch" /\ j.pc = "commit" => j.seen = chart[j.target].version

Placed(r) ==
    \A c \in Pending(r) : mine[r][c].parent # NoCode =>
        /\ Opened(r, mine[r][c].parent)
        /\ mine[r][c].path = Append(Seen(r, mine[r][c].parent).path, mine[r][c].parent)

Apart ==
    \A r, q \in Requests : r # q =>
        /\ Pending(r) \cap Pending(q) = {}
        /\ ~(/\ job[r].op = "patch" /\ job[r].pc = "commit"
             /\ job[q].op = "patch" /\ job[q].pc = "commit"
             /\ job[r].target = job[q].target)

Orderly(r, j) == Staged(j) /\ Knows(r, j) /\ Ready(r, j) /\ Holds(j)

IInv ==
    /\ TypeOK /\ TreeOK /\ Apart
    /\ \A r \in Requests : Orderly(r, job[r]) /\ Placed(r)

LEMMA InitInv == Init => IInv
<1> SUFFICES ASSUME Init PROVE IInv
  OBVIOUS
<1>1. TypeOK
  BY IdleJob DEF Init, TypeOK
<1>2. Committed = {} /\ \A r \in Requests : Pending(r) = {}
  BY DEF Init, Committed, Pending
<1>3. TreeOK /\ Apart
  BY <1>2 DEF TreeOK, Apart, Init, Idle
<1>4. ASSUME NEW r \in Requests
      PROVE  Orderly(r, job[r]) /\ Placed(r)
  <2>1. job[r] = Idle /\ marked[r] = {}
    BY DEF Init
  <2> QED
    BY <1>2, <2>1 DEF Orderly, Staged, Knows, Ready, Holds, Placed, Idle
<1> QED
  BY <1>1, <1>3, <1>4 DEF IInv

\* A step that changes nothing but the job of one request.
LEMMA JobStep ==
    ASSUME IInv, NEW r \in Requests, NEW j \in Job,
           job' = [job EXCEPT ![r] = j], UNCHANGED <<chart, mine, marked>>,
           journals' = journals,
           Orderly(r, j),
           \A q \in Requests \ {r} :
              ~(/\ j.op = "patch" /\ j.pc = "commit"
                /\ job[q].op = "patch" /\ job[q].pc = "commit"
                /\ j.target = job[q].target)
    PROVE  IInv'
<1>1. TypeOK'
  BY DEF IInv, TypeOK
<1>2. Committed' = Committed /\ \A q \in Requests : Pending(q)' = Pending(q)
  BY DEF Committed, Pending
<1>3. TreeOK'
  BY <1>2 DEF IInv, TreeOK
<1>4. \A q \in Requests : job'[q] = IF q = r THEN j ELSE job[q]
  BY DEF IInv, TypeOK
<1>5. Apart'
  BY <1>2, <1>4 DEF IInv, Apart
<1>6. ASSUME NEW q \in Requests
      PROVE  (Orderly(q, job[q]) /\ Placed(q))'
  <2>1. Placed(q) /\ (q # r => Orderly(q, job[q]))
    BY DEF IInv
  <2>2. Placed(q)'
    BY <1>2, <2>1 DEF Placed, Opened, Seen
  <2>3. PICK k : k = job'[q]
    OBVIOUS
  <2>4. Orderly(q, k)
    BY <1>4, <2>1, <2>3
  <2>5. Orderly(q, k)'
    BY <1>2, <2>4 DEF Orderly, Knows, Ready, Opened, Holds
  <2>6. Orderly(q, job[q])'
    BY <2>3, <2>5 DEF Orderly, Staged, Knows, Ready, Holds, Under
  <2> QED
    BY <2>2, <2>6
<1> QED
  BY <1>1, <1>3, <1>5, <1>6 DEF IInv

-----------------------------------------------------------------------------
(* Beginning *)

\* No class of a file is ever accepted: the name of a class is not a value.
LEMMA NeverAccepted == \A raw : ~Accepted(raw)
<1>1. ClassNames = {"CAPITAL", "IMMOBILISE", "STOCK", "TIERS", "TRESORERIE", "CHARGES",
                    "PRODUITS", "SPECIAUX", "ANALYTIQUE"}
  BY DEF ClassNames, ClassValue
<1>2. ClassValues = {"1", "2", "3", "4", "5", "6", "7", "8", "9"}
  <2>1. \A n \in ClassNames : ClassValue[n] \in {"1", "2", "3", "4", "5", "6", "7", "8", "9"}
    BY <1>1 DEF ClassValue
  <2>2. /\ ClassValue["CAPITAL"] = "1" /\ ClassValue["IMMOBILISE"] = "2"
        /\ ClassValue["STOCK"] = "3" /\ ClassValue["TIERS"] = "4"
        /\ ClassValue["TRESORERIE"] = "5" /\ ClassValue["CHARGES"] = "6"
        /\ ClassValue["PRODUITS"] = "7" /\ ClassValue["SPECIAUX"] = "8"
        /\ ClassValue["ANALYTIQUE"] = "9"
    BY DEF ClassValue
  <2> QED
    BY <1>1, <2>1, <2>2 DEF ClassValues
<1>3. ClassNames \cap ClassValues = {}
  BY <1>1, <1>2
<1> SUFFICES ASSUME NEW raw PROVE Normalised(raw) \notin ClassValues
  BY DEF Accepted
<1>4. CASE raw \in ClassValues
  <2>1. \E n \in ClassNames : ClassValue[n] = raw
    BY <1>4 DEF ClassValues
  <2>2. Normalised(raw) \in ClassNames
    BY <1>4, <2>1 DEF Normalised
  <2> QED
    BY <1>3, <2>2
<1>5. CASE raw \notin ClassValues
  BY <1>5 DEF Normalised
<1> QED
  BY <1>4, <1>5

\* A job that is resumed stands where it should, whatever the tables hold.
LEMMA ResumedStaged ==
    ASSUME NEW j \in Job,
           j.op \in {"create", "load", "seed", "import"},
           j.op \in {"load", "seed"} =>
              \A c \in j.goal : c \in j.known \/ \E i \in DOMAIN j.todo : j.todo[i].code = c
    PROVE  /\ Resume(j) \in Job /\ Staged(Resume(j))
           /\ Resume(j).op = j.op /\ Resume(j).op # "patch" /\ Resume(j).pc # "insert"
           /\ Resume(j).known = j.known /\ Resume(j).leaves = j.leaves
<1> DEFINE k == Resume(j)
<1>1. Resumed(j, k)
  BY ResumeIs
<1> HIDE DEF k
<1>2. j.op = "import" => k.pc = "commit"
  <2>1. j.op = "import" => ~Wanted(j, Head(k.todo))
    BY NeverAccepted DEF Wanted
  <2> QED
    BY <1>1, <2>1 DEF Resumed
<1>3. ASSUME j.op \in {"load", "seed"}, NEW c \in j.goal, c \notin j.known
      PROVE  \E i \in DOMAIN k.todo : k.todo[i].code = c
  <2>1. PICK i \in DOMAIN j.todo : j.todo[i].code = c
    BY <1>3
  <2>2. Wanted(j, j.todo[i])
    BY <1>3, <2>1 DEF Wanted
  <2> QED
    BY <1>1, <2>1, <2>2 DEF Resumed
<1>4. Staged(k)
  <2>1. k.pc # "idle" /\ k # Idle
    BY <1>1 DEF Resumed, Idle
  <2>2. k.pc = "next" => k.op \in {"create", "load", "seed"} /\ Head(k.todo).code \notin k.known
    BY <1>1, <1>2 DEF Resumed, Wanted
  <2>3. k.op \in {"load", "seed"} =>
          \A c \in k.goal : c \in k.known \/ \E i \in DOMAIN k.todo : k.todo[i].code = c
    BY <1>1, <1>3 DEF Resumed
  <2> QED
    BY <1>1, <1>2, <2>1, <2>2, <2>3 DEF Resumed, Staged
<1> QED
  BY <1>1, <1>4 DEF Resumed, k

LEMMA ResumedOrderly ==
    ASSUME NEW r \in Requests, NEW j \in Job,
           j.op \in {"create", "load", "seed", "import"},
           Knows(r, j),
           j.op \in {"load", "seed"} =>
              \A c \in j.goal : c \in j.known \/ \E i \in DOMAIN j.todo : j.todo[i].code = c
    PROVE  Resume(j) \in Job /\ Orderly(r, Resume(j)) /\ Resume(j).op # "patch"
<1>1. /\ Resume(j) \in Job /\ Staged(Resume(j))
      /\ Resume(j).op = j.op /\ Resume(j).op # "patch" /\ Resume(j).pc # "insert"
      /\ Resume(j).known = j.known /\ Resume(j).leaves = j.leaves
  BY ResumedStaged
<1> QED
  BY <1>1 DEF Orderly, Knows, Ready, Holds

LEMMA BeginStep ==
    ASSUME IInv, NEW r \in Requests, NEW j \in Job,
           j.op \in {"create", "load", "seed", "import"},
           j.known \in {Committed, {}}, j.op # "seed" => j.leaves = Leaves,
           j.op \in {"load", "seed"} =>
              \A c \in j.goal : \E i \in DOMAIN j.todo : j.todo[i].code = c,
           Begin(r, Resume(j))
    PROVE  IInv'
<1>1. job[r] = Idle /\ Orderly(r, job[r])
  BY DEF IInv, Begin
<1>2. Pending(r) = {} /\ marked[r] = {}
  BY <1>1 DEF Orderly, Knows, Idle
<1>3. \A p \in Committed : p \in Leaves \/ ~chart[p].leaf
  BY DEF Leaves
<1>4. Knows(r, j)
  BY <1>2, <1>3 DEF Knows
<1>5. /\ Resume(j) \in Job /\ Orderly(r, Resume(j))
      /\ Resume(j).op # "patch"
  BY <1>4, ResumedOrderly
<1>6. job' = [job EXCEPT ![r] = Resume(j)] /\ UNCHANGED <<chart, journals, mine, marked>>
  BY DEF Begin
<1> HIDE DEF Resume
<1> QED
  BY <1>5, <1>6, JobStep

LEMMA Beginnings ==
    ASSUME IInv, NEW r \in Requests
    PROVE  /\ \A d \in Creations : Create(r, d) => IInv'
           /\ \A p \in DOMAIN Plans : Load(r, Plans[p]) => IInv'
           /\ StartSeed(r) => IInv'
           /\ \A f \in Files : Import(r, f) => IInv'
           /\ \A c \in Codes, v \in BOOLEAN : StartPatch(r, c, v) => IInv'
<1>0. Committed \subseteq Codes /\ Leaves \subseteq Codes
  BY DEF Committed, Leaves
<1>1. ASSUME NEW d \in Creations, Create(r, d)
      PROVE  IInv'
  <2> DEFINE j == [Idle EXCEPT !.op = "create", !.todo = <<d>>, !.known = Committed,
                               !.leaves = Leaves, !.goal = {d.code}]
  <2>1. d \in Def /\ <<d>> \in Seq(Def)
    BY InputAssumption
  <2>2. /\ j \in Job /\ j.op = "create" /\ j.known = Committed /\ j.leaves = Leaves
    BY <1>0, <2>1, IdleJob DEF Job, Idle, Def
  <2>3. Begin(r, Resume(j))
    BY <1>1 DEF Create
  <2> HIDE DEF j
  <2> QED
    BY <2>2, <2>3, BeginStep
<1>2. ASSUME NEW p \in DOMAIN Plans, Load(r, Plans[p])
      PROVE  IInv'
  <2> DEFINE plan == Plans[p]
             j == [Idle EXCEPT !.op = "load", !.known = Committed, !.leaves = Leaves,
                     !.todo = plan.accounts,
                     !.goal = {plan.accounts[i].code : i \in DOMAIN plan.accounts},
                     !.wanted = plan.journals]
  <2>1. /\ plan.accounts \in Seq(Def) /\ plan.journals \subseteq Journals
        /\ \A i \in DOMAIN plan.accounts : plan.accounts[i] \in Def
    BY PlanAssumption
  <2>2. {plan.accounts[i].code : i \in DOMAIN plan.accounts} \subseteq Codes
    BY <2>1 DEF Def
  <2>3. /\ j \in Job /\ j.op = "load" /\ j.known = Committed /\ j.leaves = Leaves
        /\ j.todo = plan.accounts
        /\ j.goal = {plan.accounts[i].code : i \in DOMAIN plan.accounts}
    BY <1>0, <2>1, <2>2, IdleJob DEF Job, Idle
  <2>4. Begin(r, Resume(j))
    BY <1>2 DEF Load
  <2> HIDE DEF j
  <2> QED
    BY <2>3, <2>4, BeginStep
<1>3. ASSUME StartSeed(r)
      PROVE  IInv'
  <2> DEFINE j == [Idle EXCEPT !.op = "seed", !.todo = SeedPlan.accounts,
                     !.goal = {SeedPlan.accounts[i].code : i \in DOMAIN SeedPlan.accounts},
                     !.wanted = SeedPlan.journals]
  <2>1. /\ SeedPlan.accounts \in Seq(Def) /\ SeedPlan.journals \subseteq Journals
        /\ \A i \in DOMAIN SeedPlan.accounts : SeedPlan.accounts[i] \in Def
    BY SeedAssumption
  <2>2. {SeedPlan.accounts[i].code : i \in DOMAIN SeedPlan.accounts} \subseteq Codes
    BY <2>1 DEF Def
  <2>3. /\ j \in Job /\ j.op = "seed" /\ j.known = {}
        /\ j.todo = SeedPlan.accounts
        /\ j.goal = {SeedPlan.accounts[i].code : i \in DOMAIN SeedPlan.accounts}
    BY <2>1, <2>2, IdleJob DEF Job, Idle
  <2>4. Begin(r, Resume(j))
    BY <1>3 DEF StartSeed
  <2> HIDE DEF j
  <2> QED
    BY <2>3, <2>4, BeginStep
<1>4. ASSUME NEW f \in Files, Import(r, f)
      PROVE  IInv'
  <2> DEFINE rows == [i \in DOMAIN f |-> [f[i] EXCEPT !.leaf = TRUE]]
             j == [Idle EXCEPT !.op = "import", !.known = Committed, !.leaves = Leaves,
                     !.todo = rows]
  <2>1. f \in Seq(Def) /\ \A i \in DOMAIN f : f[i] \in Def
    BY InputAssumption
  <2>2. \A i \in DOMAIN f : [f[i] EXCEPT !.leaf = TRUE] \in Def
    BY <2>1 DEF Def
  <2>3. rows \in Seq(Def)
    <3>1. DOMAIN f = 1..Len(f) /\ Len(f) \in Nat
      BY <2>1
    <3>2. rows \in [1..Len(f) -> Def]
      BY <2>2, <3>1
    <3> QED
      BY <3>1, <3>2, IsASeq
  <2> HIDE DEF rows
  <2>4. j \in Job /\ j.op = "import" /\ j.known = Committed /\ j.leaves = Leaves
    BY <1>0, <2>3, IdleJob DEF Job, Idle
  <2>5. Begin(r, Resume(j))
    BY <1>4 DEF Import, rows
  <2> HIDE DEF j
  <2> QED
    BY <2>4, <2>5, BeginStep
<1>5. ASSUME NEW c \in Codes, NEW v \in BOOLEAN, StartPatch(r, c, v)
      PROVE  IInv'
  <2> DEFINE j == [Idle EXCEPT !.op = "patch", !.pc = "update", !.target = c,
                     !.value = v, !.seen = chart[c].version]
  <2>1. c \in Committed /\ Begin(r, j)
    BY <1>5 DEF StartPatch
  <2>2. chart[c] \in Row
    BY <2>1 DEF IInv, TypeOK, Committed
  <2>3. chart[c].version \in Nat
    BY <2>2 DEF Row
  <2>4. /\ j \in Job /\ j.op = "patch" /\ j.pc = "update" /\ j.target = c
        /\ j.known = {} /\ j.todo = << >>
    BY <2>3, IdleJob DEF Job, Idle
  <2>5. job[r] = Idle /\ Orderly(r, job[r])
    BY <2>1 DEF IInv, Begin
  <2>6. Pending(r) = {} /\ marked[r] = {}
    BY <2>5 DEF Orderly, Knows, Idle
  <2>7. j # Idle
    BY <2>4 DEF Idle
  <2> HIDE DEF j
  <2>8. Orderly(r, j)
    BY <2>1, <2>4, <2>6, <2>7 DEF Orderly, Staged, Knows, Ready, Holds
  <2> QED
    BY <2>1, <2>4, <2>8, JobStep DEF Begin
<1> QED
  BY <1>1, <1>2, <1>3, <1>4, <1>5

-----------------------------------------------------------------------------
(* Statements *)

\* The tail of a list, and what it contains.
LEMMA TailOf ==
    ASSUME NEW T, NEW s \in Seq(T), s # << >>
    PROVE  /\ Head(s) \in T /\ Tail(s) \in Seq(T)
           /\ \A i \in DOMAIN s : s[i] = Head(s) \/ \E k \in DOMAIN Tail(s) : Tail(s)[k] = s[i]
<1>1. Len(s) \in Nat /\ Len(s) > 0 /\ DOMAIN s = 1..Len(s) /\ Head(s) = s[1]
  OBVIOUS
<1>2. /\ Tail(s) \in Seq(T) /\ Len(Tail(s)) = Len(s) - 1
      /\ DOMAIN Tail(s) = 1..(Len(s) - 1)
      /\ \A k \in 1..(Len(s) - 1) : Tail(s)[k] = s[k + 1]
  OBVIOUS
<1>3. ASSUME NEW i \in DOMAIN s, i # 1
      PROVE  \E k \in DOMAIN Tail(s) : Tail(s)[k] = s[i]
  <2>1. i - 1 \in 1..(Len(s) - 1) /\ (i - 1) + 1 = i
    BY <1>1, <1>3
  <2> QED
    BY <1>2, <2>1
<1>4. Head(s) \in T
  BY <1>1
<1> QED
  BY <1>1, <1>2, <1>3, <1>4

\* The definition at the head of a list is done: what it leaves to resume.
LEMMA DoneHead ==
    ASSUME NEW j \in Job, j.pc \in {"next", "insert"}, Staged(j)
    PROVE  /\ Head(j.todo) \in Def /\ j.op \in {"create", "load", "seed"}
           /\ Head(j.todo).code \in Codes \ j.known
           /\ LET k == [j EXCEPT !.known = @ \cup {Head(j.todo).code}, !.todo = Tail(@)]
              IN  /\ k \in Job /\ k.op = j.op /\ k.leaves = j.leaves
                  /\ k.known = j.known \cup {Head(j.todo).code}
                  /\ k.op \in {"load", "seed"} =>
                        \A c \in k.goal :
                           c \in k.known \/ \E i \in DOMAIN k.todo : k.todo[i].code = c
<1> DEFINE k == [j EXCEPT !.known = @ \cup {Head(j.todo).code}, !.todo = Tail(@)]
<1>1. /\ j.todo \in Seq(Def) /\ j.todo # << >> /\ j.op \in {"create", "load", "seed"}
      /\ Head(j.todo).code \notin j.known
  BY DEF Staged, Job
<1>2. /\ Head(j.todo) \in Def /\ Tail(j.todo) \in Seq(Def)
      /\ \A i \in DOMAIN j.todo : \/ j.todo[i] = Head(j.todo)
                                  \/ \E m \in DOMAIN Tail(j.todo) : Tail(j.todo)[m] = j.todo[i]
  BY <1>1, TailOf
<1>3. Head(j.todo).code \in Codes
  BY <1>2 DEF Def
<1>4. /\ k \in Job /\ k.op = j.op /\ k.leaves = j.leaves /\ k.todo = Tail(j.todo)
      /\ k.known = j.known \cup {Head(j.todo).code} /\ k.goal = j.goal
  BY <1>2, <1>3 DEF Job
<1>5. ASSUME k.op \in {"load", "seed"}, NEW c \in k.goal, c \notin k.known
      PROVE  \E i \in DOMAIN k.todo : k.todo[i].code = c
  <2>1. c \in j.goal /\ c \notin j.known /\ c # Head(j.todo).code
    BY <1>4, <1>5
  <2>2. PICK i \in DOMAIN j.todo : j.todo[i].code = c
    BY <1>4, <1>5, <2>1 DEF Staged
  <2> QED
    BY <1>2, <1>4, <2>1, <2>2
<1> QED
  BY <1>1, <1>2, <1>3, <1>4, <1>5

LEMMA FindStep ==
    ASSUME IInv, NEW r \in Requests, Find(r)
    PROVE  IInv'
<1> DEFINE j == job[r]
           d == Head(j.todo)
           k == [j EXCEPT !.known = @ \cup {d.code}, !.todo = Tail(@)]
<1>0. job' = [job EXCEPT ![r] = Resume(k)] /\ UNCHANGED <<chart, journals, mine, marked>>
  BY DEF Find
<1>1. /\ j \in Job /\ Orderly(r, j) /\ j.pc = "next" /\ j.op = "seed" /\ d.code \in Committed
      /\ job' = [job EXCEPT ![r] = Resume(k)] /\ UNCHANGED <<chart, journals, mine, marked>>
  <2>1. j \in Job /\ Orderly(r, j)
    BY DEF IInv, TypeOK
  <2> HIDE DEF k
  <2> QED
    BY <1>0, <2>1 DEF Find
<1>2. Staged(j)
  BY <1>1 DEF Orderly
<1>3. /\ k \in Job /\ k.op = "seed" /\ k.known = j.known \cup {d.code}
      /\ k.op \in {"load", "seed"} =>
            \A c \in k.goal : c \in k.known \/ \E i \in DOMAIN k.todo : k.todo[i].code = c
  <2> HIDE DEF j
  <2> QED
    BY <1>1, <1>2, DoneHead
<1> HIDE DEF k, j
<1>4. Knows(r, k)
  BY <1>1, <1>3 DEF Orderly, Knows
<1>5. Resume(k) \in Job /\ Orderly(r, Resume(k)) /\ Resume(k).op # "patch"
  BY <1>3, <1>4, ResumedOrderly
<1> QED
  BY <1>1, <1>5, JobStep

LEMMA FindJournalsStep ==
    ASSUME IInv, NEW r \in Requests, FindJournals(r)
    PROVE  IInv'
<1> DEFINE k == [job[r] EXCEPT !.pc = "commit", !.wanted = @ \ journals]
<1>1. /\ job[r] \in Job /\ Orderly(r, job[r]) /\ job[r].pc = "journals"
      /\ job' = [job EXCEPT ![r] = k] /\ UNCHANGED <<chart, journals, mine, marked>>
  BY DEF IInv, TypeOK, FindJournals
<1>2. /\ k \in Job /\ k.op = job[r].op /\ k.pc = "commit" /\ k.known = job[r].known
      /\ k.leaves = job[r].leaves /\ k.todo = job[r].todo /\ k.goal = job[r].goal
      /\ k # Idle
  BY <1>1 DEF Job, Idle
<1>3. job[r].op \in {"load", "seed"}
  BY <1>1 DEF Orderly, Staged
<1> HIDE DEF k
<1>4. Orderly(r, k)
  BY <1>1, <1>2, <1>3 DEF Orderly, Staged, Knows, Ready, Holds
<1> QED
  BY <1>1, <1>2, <1>3, <1>4, JobStep

LEMMA UpdateStep ==
    ASSUME IInv, NEW r \in Requests, Update(r)
    PROVE  IInv'
<1> DEFINE k == [job[r] EXCEPT !.pc = "commit"]
<1>1. /\ job[r] \in Job /\ Orderly(r, job[r]) /\ job[r].pc = "update"
      /\ job' = [job EXCEPT ![r] = k] /\ UNCHANGED <<chart, journals, mine, marked>>
      /\ \A q \in Others(r) : job[r].target \notin Held(q)
      /\ chart[job[r].target].version = job[r].seen
  BY DEF IInv, TypeOK, Update
<1>2. /\ k \in Job /\ k.op = job[r].op /\ k.pc = "commit" /\ k.known = job[r].known
      /\ k.leaves = job[r].leaves /\ k.todo = job[r].todo /\ k.goal = job[r].goal
      /\ k.target = job[r].target /\ k.seen = job[r].seen /\ k # Idle
  BY <1>1 DEF Job, Idle
<1>3. job[r].op = "patch"
  BY <1>1 DEF Orderly, Staged
<1> HIDE DEF k
<1>5. Orderly(r, k)
  BY <1>1, <1>2, <1>3 DEF Orderly, Staged, Knows, Ready, Holds
<1>6. \A q \in Requests \ {r} :
         ~(/\ k.op = "patch" /\ k.pc = "commit"
           /\ job[q].op = "patch" /\ job[q].pc = "commit"
           /\ k.target = job[q].target)
  BY <1>1, <1>2 DEF Others, Held
<1> QED
  BY <1>1, <1>2, <1>5, <1>6, JobStep

-----------------------------------------------------------------------------
(* What a step leaves to the other requests *)

\* The chart only grows: an account keeps its parent and its path, and does not
\* become a leaf again.
Grows ==
    \A c \in Committed :
        /\ chart'[c] \in Row
        /\ chart'[c].parent = chart[c].parent /\ chart'[c].path = chart[c].path
        /\ chart'[c].leaf => chart[c].leaf

LEMMA Aside ==
    ASSUME IInv, NEW q \in Requests,
           mine'[q] = mine[q], marked'[q] = marked[q], job'[q] = job[q],
           Committed \subseteq Committed', Grows,
           Pending(q) \cap Committed' = {},
           /\ job[q].op = "patch" /\ job[q].pc = "commit"
           => chart'[job[q].target].version = chart[job[q].target].version
    PROVE  (Orderly(q, job[q]) /\ Placed(q))'
<1>1. Orderly(q, job[q]) /\ Placed(q)
  BY DEF IInv
<1>2. PICK k : k = job[q]
  OBVIOUS
<1>3. Pending(q)' = Pending(q) /\ Pending(q) \cap Committed = {}
  BY <1>1 DEF Pending, Orderly, Knows
<1>4. \A p : Opened(q, p) => Opened(q, p)'
  BY <1>3 DEF Opened, Grows
<1>5. Knows(q, k)'
  <2>1. Knows(q, k)
    BY <1>1, <1>2 DEF Orderly
  <2>2. \A p \in k.known \ Pending(q) : p \in Committed
    BY <2>1 DEF Knows
  <2> QED
    BY <1>3, <2>1, <2>2 DEF Knows, Grows
<1>6. Ready(q, k)' /\ Holds(k)'
  <2>1. Ready(q, k) /\ Holds(k)
    BY <1>1, <1>2 DEF Orderly
  <2>2. Ready(q, k)'
    BY <1>4, <2>1 DEF Ready
  <2>3. Holds(k)'
    BY <1>2, <2>1 DEF Holds
  <2> QED
    BY <2>2, <2>3
<1>7. Orderly(q, job[q])'
  <2>1. Staged(k)
    BY <1>1, <1>2 DEF Orderly
  <2>2. k = job'[q]
    BY <1>2
  <2> QED
    BY <1>5, <1>6, <2>1, <2>2 DEF Orderly, Staged, Knows, Ready, Holds, Under
<1>8. Placed(q)'
  <2>1. \A p : Opened(q, p) => (Seen(q, p).path)' = Seen(q, p).path
    BY <1>3 DEF Opened, Seen, Grows
  <2>2. \A c \in Pending(q) : mine[q][c].parent # NoCode =>
           /\ Opened(q, mine[q][c].parent)
           /\ mine[q][c].path = Append(Seen(q, mine[q][c].parent).path, mine[q][c].parent)
    BY <1>1 DEF Placed
  <2> SUFFICES ASSUME NEW c \in Pending(q), mine[q][c].parent # NoCode
               PROVE  (/\ Opened(q, mine[q][c].parent)
                       /\ mine[q][c].path = Append(Seen(q, mine[q][c].parent).path,
                                                   mine[q][c].parent))'
    BY <1>3 DEF Placed
  <2>3. PICK p : p = mine[q][c].parent
    OBVIOUS
  <2>4. Opened(q, p) /\ mine[q][c].path = Append(Seen(q, p).path, p)
    BY <2>2, <2>3
  <2>5. Opened(q, p)' /\ (Seen(q, p).path)' = Seen(q, p).path
    BY <1>4, <2>1, <2>4
  <2> QED
    BY <2>3, <2>4, <2>5 DEF Opened, Seen
<1> QED
  BY <1>7, <1>8

LEMMA MarkStep ==
    ASSUME IInv, NEW r \in Requests, Mark(r)
    PROVE  IInv'
<1>0. PICK j : j = job[r]
  OBVIOUS
<1> DEFINE p == Under(j)
           k == [j EXCEPT !.pc = "insert"]
<1>1. /\ j \in Job /\ Orderly(r, j) /\ Placed(r) /\ TypeOK /\ Apart /\ TreeOK
      /\ \A q \in Requests : Pending(q) \subseteq Codes
  BY <1>0 DEF IInv, TypeOK, Pending
<1>2. /\ j.pc = "next" /\ job' = [job EXCEPT ![r].pc = "insert"]
      /\ UNCHANGED <<chart, journals>>
      /\ \/ (p = NoCode \/ ~LeafFor(r, p) \/ p \in marked[r]) /\ UNCHANGED <<mine, marked>>
         \/ /\ p \in Pending(r) /\ UNCHANGED marked
            /\ mine' = [mine EXCEPT ![r][p].leaf = FALSE]
         \/ /\ p # NoCode /\ p \notin Pending(r) /\ UNCHANGED mine
            /\ marked' = [marked EXCEPT ![r] = @ \cup {p}]
  BY <1>0 DEF Mark, ParentOf, Under
<1>3. /\ k \in Job /\ k.op = j.op /\ k.pc = "insert" /\ k.known = j.known
      /\ k.leaves = j.leaves /\ k.todo = j.todo /\ k.goal = j.goal /\ Under(k) = p
      /\ k # Idle /\ job' = [job EXCEPT ![r] = k]
  BY <1>0, <1>1, <1>2 DEF Job, Idle, Under, TypeOK
<1>4. Staged(k) /\ Holds(k) /\ j.op \in {"create", "load", "seed"}
  BY <1>1, <1>2, <1>3 DEF Orderly, Staged, Holds
<1>5. p # NoCode => p \in j.known
  BY DEF Under
<1> HIDE DEF k, p
<1>6. /\ Pending(r) \subseteq j.known /\ j.known \subseteq Committed \cup Pending(r)
      /\ Pending(r) \cap Committed = {} /\ marked[r] \subseteq Committed
      /\ j.op # "seed" => \A c \in j.known \ Pending(r) : c \in j.leaves \/ ~chart[c].leaf
  BY <1>1 DEF Orderly, Knows
<1>7. \A q \in Requests : job'[q] = IF q = r THEN k ELSE job[q]
  BY <1>1, <1>3 DEF TypeOK
<1>8. CASE (p = NoCode \/ ~LeafFor(r, p) \/ p \in marked[r]) /\ UNCHANGED <<mine, marked>>
  <2>1. Knows(r, k)
    BY <1>3, <1>4, <1>1 DEF Orderly, Knows
  <2>2. p # NoCode => Opened(r, p)
    <3> SUFFICES ASSUME p # NoCode PROVE Opened(r, p)
      OBVIOUS
    <3>1. CASE p \in Pending(r)
      BY <1>0, <1>6, <1>8, <3>1 DEF Opened, LeafFor
    <3>2. CASE p \notin Pending(r)
      BY <1>0, <1>5, <1>6, <1>8, <3>2 DEF Opened, LeafFor, Leaves
    <3> QED
      BY <3>1, <3>2
  <2>3. Orderly(r, k)
    BY <1>3, <1>4, <2>1, <2>2 DEF Orderly, Ready
  <2> QED
    BY <1>2, <1>3, <1>4, <1>8, <2>3, JobStep
<1>9. Committed' = Committed /\ Grows
  BY <1>1, <1>2 DEF Committed, Grows, TypeOK
<1>10. CASE /\ p \in Pending(r) /\ UNCHANGED marked
            /\ mine' = [mine EXCEPT ![r][p].leaf = FALSE]
  <2>1. p \in Codes /\ mine[r][p] \in Row
    BY <1>1, <1>10 DEF Pending, TypeOK
  <2>2. /\ [mine[r][p] EXCEPT !.leaf = FALSE] \in Row
        /\ [mine[r][p] EXCEPT !.leaf = FALSE].leaf = FALSE
        /\ [mine[r][p] EXCEPT !.leaf = FALSE].path = mine[r][p].path
        /\ [mine[r][p] EXCEPT !.leaf = FALSE].parent = mine[r][p].parent
    BY <2>1 DEF Row
  <2>3. /\ \A q \in Requests \ {r} : mine'[q] = mine[q]
        /\ mine'[r] = [mine[r] EXCEPT ![p] = [mine[r][p] EXCEPT !.leaf = FALSE]]
        /\ mine' \in [Requests -> [Codes -> Row \cup {NoRow}]]
    BY <1>1, <1>10, <2>1, <2>2 DEF TypeOK
  <2>4. \A c \in Codes : mine'[r][c] = IF c = p THEN [mine[r][p] EXCEPT !.leaf = FALSE]
                                                 ELSE mine[r][c]
    BY <1>1, <2>3 DEF TypeOK
  <2>5. \A q \in Requests : Pending(q)' = Pending(q)
    <3>1. Pending(r)' = Pending(r)
      BY <1>10, <2>2, <2>4, IdleJob DEF Pending
    <3>2. \A q \in Requests \ {r} : Pending(q)' = Pending(q)
      BY <2>3 DEF Pending
    <3> QED
      BY <3>1, <3>2
  <2>6. TypeOK'
    <3>1. job' \in [Requests -> Job]
      BY <1>1, <1>3 DEF TypeOK
    <3>2. chart' = chart /\ journals' = journals /\ marked' = marked
      BY <1>2, <1>10
    <3> QED
      BY <1>1, <2>3, <3>1, <3>2 DEF TypeOK
  <2>7. TreeOK'
    BY <1>1, <1>2, <1>9 DEF TreeOK
  <2>8. Apart'
    BY <1>1, <1>3, <1>4, <1>7, <2>5 DEF Apart
  <2>9. ASSUME NEW q \in Requests \ {r}
        PROVE  (Orderly(q, job[q]) /\ Placed(q))'
    <3>1. Pending(q) \cap Committed' = {}
      BY <1>9 DEF IInv, Orderly, Knows
    <3> QED
      BY <1>2, <1>7, <1>9, <1>10, <2>3, <3>1, Aside
  <2>10. \A c : Opened(r, c) => Opened(r, c)'
    BY <1>2, <1>9, <1>10, <2>2, <2>4, <2>5, <1>1 DEF Opened
  <2>11. Opened(r, p)'
    BY <1>10, <2>2, <2>1, <2>4, <2>5 DEF Opened
  <2>12. Knows(r, k)'
    BY <1>2, <1>3, <1>4, <1>6, <1>9, <1>10, <2>5 DEF Knows
  <2>13. Ready(r, k)'
    BY <1>3, <2>11 DEF Ready
  <2>14. Holds(k)'
    BY <1>3, <1>4 DEF Holds
  <2>15. Orderly(r, job[r])'
    <3>1. k = job'[r]
      BY <1>7
    <3> QED
      BY <1>4, <2>12, <2>13, <2>14, <3>1 DEF Orderly, Staged, Knows, Ready, Holds, Under
  <2>16. Placed(r)'
    <3>1. \A c \in Codes : mine'[r][c].path = mine[r][c].path
                           /\ mine'[r][c].parent = mine[r][c].parent
      BY <2>2, <2>4
    <3>2. \A c \in Codes : (Seen(r, c).path)' = Seen(r, c).path
      BY <1>2, <2>5, <3>1 DEF Seen
    <3> SUFFICES ASSUME NEW c \in Pending(r), mine'[r][c].parent # NoCode
                 PROVE  (/\ Opened(r, mine[r][c].parent)
                         /\ mine[r][c].path = Append(Seen(r, mine[r][c].parent).path,
                                                     mine[r][c].parent))'
      BY <2>5 DEF Placed
    <3>3. PICK b : b = mine'[r][c].parent
      OBVIOUS
    <3>4. c \in Codes /\ b = mine[r][c].parent /\ b # NoCode
      BY <1>1, <3>1, <3>3
    <3>5. Opened(r, b) /\ mine[r][c].path = Append(Seen(r, b).path, b)
      BY <1>1, <3>4 DEF Placed
    <3>6. b \in Codes
      BY <1>1, <3>5 DEF Opened, Committed
    <3>7. Opened(r, b)' /\ mine'[r][c].path = Append((Seen(r, b).path)', b)
      BY <2>10, <3>1, <3>2, <3>4, <3>5, <3>6
    <3> QED
      BY <3>3, <3>7 DEF Opened, Seen
  <2> QED
    BY <2>6, <2>7, <2>8, <2>9, <2>15, <2>16 DEF IInv
<1>11. CASE /\ p # NoCode /\ p \notin Pending(r) /\ UNCHANGED mine
            /\ marked' = [marked EXCEPT ![r] = @ \cup {p}]
  <2>1. p \in Committed /\ p \in Codes
    BY <1>5, <1>6, <1>11 DEF Committed
  <2>2. /\ \A q \in Requests \ {r} : marked'[q] = marked[q]
        /\ marked'[r] = marked[r] \cup {p}
        /\ marked' \in [Requests -> SUBSET Codes]
    BY <1>1, <1>11, <2>1 DEF TypeOK
  <2>3. \A q \in Requests : Pending(q)' = Pending(q)
    BY <1>11 DEF Pending
  <2>4. TypeOK' /\ TreeOK' /\ Apart'
    <3>1. TypeOK'
      BY <1>1, <1>2, <1>3, <1>11, <2>2 DEF TypeOK
    <3>2. TreeOK'
      BY <1>1, <1>2, <1>9 DEF TreeOK
    <3>3. Apart'
      BY <1>1, <1>3, <1>4, <1>7, <2>3 DEF Apart
    <3> QED
      BY <3>1, <3>2, <3>3
  <2>5. ASSUME NEW q \in Requests \ {r}
        PROVE  (Orderly(q, job[q]) /\ Placed(q))'
    <3>1. Pending(q) \cap Committed' = {}
      BY <1>9 DEF IInv, Orderly, Knows
    <3> QED
      BY <1>2, <1>7, <1>9, <1>11, <2>2, <3>1, Aside
  <2>6. \A c : Opened(r, c) => Opened(r, c)'
    BY <1>2, <1>9, <1>11, <2>2, <2>3 DEF Opened
  <2>7. Opened(r, p)'
    BY <1>9, <1>11, <2>1, <2>2, <2>3 DEF Opened
  <2>8. Knows(r, k)'
    BY <1>2, <1>3, <1>4, <1>6, <1>9, <2>1, <2>2, <2>3 DEF Knows
  <2>9. Ready(r, k)' /\ Holds(k)'
    BY <1>3, <1>4, <2>7 DEF Ready, Holds
  <2>10. Orderly(r, job[r])'
    <3>1. k = job'[r]
      BY <1>7
    <3> QED
      BY <1>4, <2>8, <2>9, <3>1 DEF Orderly, Staged, Knows, Ready, Holds, Under
  <2>11. Placed(r)'
    BY <1>1, <1>2, <1>11, <2>3, <2>6 DEF Placed, Seen
  <2> QED
    BY <2>4, <2>5, <2>10, <2>11 DEF IInv
<1> QED
  BY <1>2, <1>8, <1>10, <1>11

LEMMA InsertStep ==
    ASSUME IInv, NEW r \in Requests, Insert(r)
    PROVE  IInv'
<1>0. PICK j : j = job[r]
  OBVIOUS
<1> DEFINE d == Head(j.todo)
           p == Under(j)
           k == [j EXCEPT !.known = @ \cup {d.code}, !.todo = Tail(@)]
<1>1. /\ j \in Job /\ Orderly(r, j) /\ Placed(r) /\ TypeOK /\ Apart /\ TreeOK
      /\ \A q \in Requests : Pending(q) \subseteq Codes
  BY <1>0 DEF IInv, TypeOK, Pending
<1>2. /\ j.pc = "insert" /\ d.code \notin Committed
      /\ \A q \in Requests \ {r} : d.code \notin Pending(q)
      /\ mine' = [mine EXCEPT ![r][d.code] = Inserted(r, d)]
      /\ UNCHANGED <<chart, journals, marked>>
  BY <1>0 DEF Insert, Others
<1>3. job' = [job EXCEPT ![r] = Resume(k)]
  BY <1>0 DEF Insert
<1>4. Staged(j)
  BY <1>1 DEF Orderly
<1>5. /\ d \in Def /\ d.code \in Codes \ j.known /\ j.op \in {"create", "load", "seed"}
      /\ k \in Job /\ k.op = j.op /\ k.leaves = j.leaves
      /\ k.known = j.known \cup {d.code}
      /\ k.op \in {"load", "seed"} =>
            \A c \in k.goal : c \in k.known \/ \E i \in DOMAIN k.todo : k.todo[i].code = c
  BY <1>1, <1>2, <1>4, DoneHead
<1>6. ParentOf(r, d) = p /\ (p # NoCode => p \in j.known)
  BY <1>0 DEF ParentOf, Under
<1> HIDE DEF k, p, d
<1>7. PICK n : n = Resume(k)
  OBVIOUS
<1>8. /\ n \in Job /\ Staged(n) /\ n.op = j.op /\ n.op # "patch" /\ n.pc # "insert"
      /\ n.known = j.known \cup {d.code} /\ n.leaves = j.leaves
  BY <1>5, <1>7, ResumedStaged
<1>9. \A q \in Requests : job'[q] = IF q = r THEN n ELSE job[q]
  BY <1>1, <1>3, <1>7 DEF TypeOK
<1>10. /\ Pending(r) \subseteq j.known /\ j.known \subseteq Committed \cup Pending(r)
       /\ Pending(r) \cap Committed = {} /\ marked[r] \subseteq Committed
       /\ j.op # "seed" => \A c \in j.known \ Pending(r) : c \in j.leaves \/ ~chart[c].leaf
       /\ p # NoCode => Opened(r, p)
  BY <1>1, <1>2 DEF Orderly, Knows, Ready, p
<1>11. PICK row : row = Inserted(r, d)
  OBVIOUS
<1>12. /\ row \in Row /\ row.parent = p
       /\ p # NoCode => row.path = Append(Seen(r, p).path, p)
  <2>1. CASE p = NoCode
    <3>1. row = [class |-> d.class, type |-> d.type, parent |-> p, path |-> << >>,
                 leaf |-> d.leaf, active |-> TRUE, version |-> 1]
      BY <1>6, <1>11, <2>1 DEF Inserted
    <3>2. d.class \in STRING /\ d.type \in STRING /\ d.leaf \in BOOLEAN /\ << >> \in Seq(Codes)
      BY <1>5 DEF Def
    <3> QED
      BY <2>1, <3>1, <3>2 DEF Row
  <2>2. CASE p # NoCode
    <3>1. row = [class |-> d.class, type |-> d.type, parent |-> p,
                 path |-> Append(Seen(r, p).path, p),
                 leaf |-> d.leaf, active |-> TRUE, version |-> 1]
      BY <1>6, <1>11, <2>2 DEF Inserted
    <3>2. d.class \in STRING /\ d.type \in STRING /\ d.leaf \in BOOLEAN
      BY <1>5 DEF Def
    <3>3. p \in Codes /\ Seen(r, p) \in Row
      BY <1>1, <1>10, <2>2 DEF Opened, Seen, Pending, Committed, TypeOK
    <3>4. Append(Seen(r, p).path, p) \in Seq(Codes)
      BY <3>3 DEF Row
    <3> QED
      BY <3>1, <3>2, <3>3, <3>4 DEF Row
  <2> QED
    BY <2>1, <2>2
<1>13. /\ \A q \in Requests \ {r} : mine'[q] = mine[q]
       /\ mine'[r] = [mine[r] EXCEPT ![d.code] = row]
       /\ mine' \in [Requests -> [Codes -> Row \cup {NoRow}]]
  BY <1>1, <1>2, <1>5, <1>11, <1>12 DEF TypeOK
<1>14. \A c \in Codes : mine'[r][c] = IF c = d.code THEN row ELSE mine[r][c]
  BY <1>1, <1>5, <1>13 DEF TypeOK
<1>15. /\ \A q \in Requests \ {r} : Pending(q)' = Pending(q)
       /\ Pending(r)' = Pending(r) \cup {d.code}
       /\ d.code \notin Pending(r) /\ d.code \notin Committed
  <2>1. \A q \in Requests \ {r} : Pending(q)' = Pending(q)
    BY <1>13 DEF Pending
  <2>2. Pending(r)' = Pending(r) \cup {d.code}
    BY <1>5, <1>12, <1>14, IdleJob DEF Pending
  <2> QED
    BY <1>2, <1>5, <1>10, <2>1, <2>2
<1>16. Committed' = Committed /\ Grows
  BY <1>1, <1>2 DEF Committed, Grows, TypeOK
<1>17. TypeOK'
  <2>1. job' \in [Requests -> Job]
    BY <1>1, <1>3, <1>7, <1>8 DEF TypeOK
  <2> QED
    BY <1>1, <1>2, <1>13, <2>1 DEF TypeOK
<1>18. TreeOK'
  BY <1>1, <1>2, <1>16 DEF TreeOK
<1>19. Apart'
  <2> SUFFICES ASSUME NEW a \in Requests, NEW b \in Requests, a # b
               PROVE  /\ Pending(a)' \cap Pending(b)' = {}
                      /\ ~(/\ job'[a].op = "patch" /\ job'[a].pc = "commit"
                           /\ job'[b].op = "patch" /\ job'[b].pc = "commit"
                           /\ job'[a].target = job'[b].target)
    BY DEF Apart
  <2>1. Pending(a) \cap Pending(b) = {}
    BY <1>1 DEF Apart
  <2>2. Pending(a)' \cap Pending(b)' = {}
    BY <1>2, <1>15, <2>1
  <2>3. ~(/\ job'[a].op = "patch" /\ job'[a].pc = "commit"
          /\ job'[b].op = "patch" /\ job'[b].pc = "commit"
          /\ job'[a].target = job'[b].target)
    BY <1>1, <1>8, <1>9 DEF Apart
  <2> QED
    BY <2>2, <2>3
<1>20. ASSUME NEW q \in Requests \ {r}
       PROVE  (Orderly(q, job[q]) /\ Placed(q))'
  <2>1. Pending(q) \cap Committed' = {}
    BY <1>16 DEF IInv, Orderly, Knows
  <2> QED
    BY <1>2, <1>9, <1>13, <1>16, <2>1, Aside
<1>21. \A c : Opened(r, c) => /\ c # d.code /\ Opened(r, c)'
                              /\ (Seen(r, c).path)' = Seen(r, c).path
  <2> SUFFICES ASSUME NEW c, Opened(r, c)
               PROVE  /\ c # d.code /\ Opened(r, c)'
                      /\ (Seen(r, c).path)' = Seen(r, c).path
    OBVIOUS
  <2>1. c # d.code /\ c \in Codes
    BY <1>1, <1>15 DEF Opened, Committed
  <2>2. mine'[r][c] = mine[r][c] /\ (c \in Pending(r)' <=> c \in Pending(r))
    BY <1>14, <1>15, <2>1
  <2> QED
    BY <1>2, <1>16, <2>1, <2>2 DEF Opened, Seen
<1>22. Orderly(r, job[r])'
  <2>1. n = job'[r]
    BY <1>9
  <2>2. Knows(r, n)'
    BY <1>2, <1>5, <1>8, <1>10, <1>15, <1>16 DEF Knows
  <2>3. Ready(r, n)' /\ Holds(n)'
    BY <1>8 DEF Ready, Holds
  <2> QED
    BY <1>8, <2>1, <2>2, <2>3 DEF Orderly, Staged, Knows, Ready, Holds, Under
<1>23. Placed(r)'
  <2> SUFFICES ASSUME NEW c \in Pending(r)', mine'[r][c].parent # NoCode
               PROVE  (/\ Opened(r, mine[r][c].parent)
                       /\ mine[r][c].path = Append(Seen(r, mine[r][c].parent).path,
                                                   mine[r][c].parent))'
    BY DEF Placed
  <2>1. PICK b : b = mine'[r][c].parent
    OBVIOUS
  <2>2. c \in Codes
    BY <1>1, <1>5, <1>15
  <2>3. Opened(r, b) /\ mine'[r][c].path = Append(Seen(r, b).path, b)
    <3>1. CASE c = d.code
      BY <1>10, <1>12, <1>14, <2>1, <2>2, <3>1
    <3>2. CASE c # d.code
      BY <1>1, <1>14, <1>15, <2>1, <2>2, <3>2 DEF Placed
    <3> QED
      BY <3>1, <3>2
  <2>4. Opened(r, b)' /\ mine'[r][c].path = Append((Seen(r, b).path)', b)
    BY <1>21, <2>3
  <2> QED
    BY <2>1, <2>4 DEF Opened, Seen
<1> QED
  BY <1>17, <1>18, <1>19, <1>20, <1>22, <1>23 DEF IInv

-----------------------------------------------------------------------------
(* The end of a request *)

\* A request that ended leaves nothing behind but what it committed.
LEMMA Ended ==
    ASSUME IInv, NEW r \in Requests,
           mine' = [mine EXCEPT ![r] = [c \in Codes |-> NoRow]],
           marked' = [marked EXCEPT ![r] = {}],
           job' = [job EXCEPT ![r] = Idle],
           chart' \in [Codes -> Row \cup {NoRow}], journals' \subseteq Journals,
           TreeOK', Committed \subseteq Committed', Grows,
           \A q \in Requests \ {r} :
              /\ Pending(q) \cap Committed' = {}
              /\ job[q].op = "patch" /\ job[q].pc = "commit"
                 => chart'[job[q].target].version = chart[job[q].target].version
    PROVE  IInv'
<1>1. TypeOK
  BY DEF IInv
<1>2. /\ \A q \in Requests \ {r} :
            mine'[q] = mine[q] /\ marked'[q] = marked[q] /\ job'[q] = job[q]
      /\ mine'[r] = [c \in Codes |-> NoRow] /\ marked'[r] = {} /\ job'[r] = Idle
  BY <1>1 DEF TypeOK
<1>3. TypeOK'
  BY <1>1, IdleJob DEF TypeOK
<1>4. /\ \A q \in Requests \ {r} : Pending(q)' = Pending(q)
      /\ Pending(r)' = {}
  BY <1>2 DEF Pending
<1>5. Apart'
  <2> SUFFICES ASSUME NEW a \in Requests, NEW b \in Requests, a # b
               PROVE  /\ Pending(a)' \cap Pending(b)' = {}
                      /\ ~(/\ job'[a].op = "patch" /\ job'[a].pc = "commit"
                           /\ job'[b].op = "patch" /\ job'[b].pc = "commit"
                           /\ job'[a].target = job'[b].target)
    BY DEF Apart
  <2>1. Pending(a)' \cap Pending(b)' = {}
    BY <1>4 DEF IInv, Apart
  <2>2. Idle.op # "patch"
    BY DEF Idle
  <2> QED
    BY <1>2, <2>1, <2>2 DEF IInv, Apart
<1>6. ASSUME NEW q \in Requests \ {r}
      PROVE  (Orderly(q, job[q]) /\ Placed(q))'
  BY <1>2, Aside
<1>7. (Orderly(r, job[r]) /\ Placed(r))'
  BY <1>2, <1>4 DEF Orderly, Staged, Knows, Ready, Holds, Placed, Idle
<1> QED
  BY <1>3, <1>5, <1>6, <1>7 DEF IInv

LEMMA FailStep ==
    ASSUME IInv, NEW r \in Requests, Fail(r)
    PROVE  IInv'
<1>1. Committed' = Committed /\ Grows
  BY DEF IInv, TypeOK, Fail, Committed, Grows
<1>2. TreeOK'
  BY <1>1 DEF IInv, TreeOK, Fail
<1>3. \A q \in Requests : Pending(q) \cap Committed' = {}
  BY <1>1 DEF IInv, Orderly, Knows
<1> QED
  BY <1>1, <1>2, <1>3, Ended DEF Fail, IInv, TypeOK

\* What a COMMIT makes of each account.
LEMMA CommitIs ==
    ASSUME IInv, NEW r \in Requests, Commit(r), NEW c \in Codes
    PROVE  /\ c \in Pending(r) => chart'[c] = mine[r][c] /\ chart'[c] \in Row
           /\ c \in Committed =>
                 /\ chart'[c] \in Row
                 /\ chart'[c].parent = chart[c].parent /\ chart'[c].path = chart[c].path
                 /\ chart'[c].leaf => chart[c].leaf
                 /\ c \in marked[r] => ~chart'[c].leaf
                 /\ chart'[c].active # chart[c].active =>
                       /\ job[r].op = "patch" /\ job[r].target = c
                       /\ job[r].seen = chart[c].version
                       /\ chart'[c].version = chart[c].version + 1
                 /\ job[r].op # "patch" \/ job[r].target # c =>
                       chart'[c].version = chart[c].version
           /\ c \notin Committed \cup Pending(r) => chart'[c] = NoRow
<1>1. chart'[c] = Written(r, c) /\ job[r].pc = "commit"
  BY DEF Commit
<1>2. Pending(r) \cap Committed = {} /\ marked[r] \subseteq Committed
      /\ (job[r].op = "patch" =>
            /\ Pending(r) = {} /\ marked[r] = {} /\ job[r].target \in Committed
            /\ job[r].seen = chart[job[r].target].version)
  BY <1>1 DEF IInv, Orderly, Knows, Holds
<1>3. CASE c \in Pending(r)
  <2>1. chart'[c] = mine[r][c]
    BY <1>1, <1>2, <1>3 DEF Written
  <2>2. mine[r][c] \in Row
    BY <1>3 DEF Pending, IInv, TypeOK
  <2> QED
    BY <1>2, <1>3, <2>1, <2>2
<1>4. CASE c \in Committed /\ c \in marked[r]
  <2>1. chart'[c] = [chart[c] EXCEPT !.leaf = FALSE]
    BY <1>1, <1>2, <1>4 DEF Written
  <2>2. chart[c] \in Row
    BY <1>4 DEF Committed, IInv, TypeOK
  <2>3. /\ chart'[c] \in Row /\ ~chart'[c].leaf
        /\ chart'[c].parent = chart[c].parent /\ chart'[c].path = chart[c].path
        /\ chart'[c].active = chart[c].active /\ chart'[c].version = chart[c].version
    BY <2>1, <2>2 DEF Row
  <2> QED
    BY <1>2, <1>4, <2>3
<1>5. CASE c \in Committed /\ c \notin marked[r] /\ job[r].op = "patch" /\ c = job[r].target
  <2>1. chart'[c] = [chart[c] EXCEPT !.active = job[r].value, !.version = job[r].seen + 1]
    BY <1>1, <1>2, <1>5 DEF Written
  <2>2. chart[c] \in Row /\ job[r].value \in BOOLEAN /\ job[r].seen \in Nat
    BY <1>5 DEF Committed, IInv, TypeOK, Job
  <2>3. job[r].seen + 1 \in Nat \ {0}
    BY <2>2
  <2>4. /\ chart'[c] \in Row /\ chart'[c].leaf = chart[c].leaf
        /\ chart'[c].parent = chart[c].parent /\ chart'[c].path = chart[c].path
        /\ chart'[c].version = job[r].seen + 1
    BY <2>1, <2>2, <2>3 DEF Row
  <2> QED
    BY <1>2, <1>5, <2>4
<1>6. CASE /\ c \notin Pending(r) /\ c \notin marked[r]
           /\ ~(job[r].op = "patch" /\ c = job[r].target)
  <2>1. chart'[c] = chart[c]
    BY <1>1, <1>6 DEF Written
  <2>2. c \in Committed => chart[c] \in Row
    BY DEF Committed, IInv, TypeOK
  <2>3. c \notin Committed => chart[c] = NoRow
    BY DEF Committed
  <2> QED
    BY <1>6, <2>1, <2>2, <2>3
<1> QED
  BY <1>2, <1>3, <1>4, <1>5, <1>6

LEMMA CommitStep ==
    ASSUME IInv, NEW r \in Requests, Commit(r)
    PROVE  IInv' /\ Committed' = Committed \cup Pending(r)
<1>1. /\ chart' \in [Codes -> Row \cup {NoRow}]
      /\ Committed' = Committed \cup Pending(r)
      /\ Committed \cup Pending(r) \subseteq Codes
  <2>1. \A c \in Codes : chart'[c] \in Row \cup {NoRow}
                         /\ (chart'[c] # NoRow <=> c \in Committed \cup Pending(r))
    BY CommitIs, IdleJob
  <2>2. chart' = [c \in Codes |-> chart'[c]]
    BY DEF Commit
  <2>3. Committed \cup Pending(r) \subseteq Codes
    BY DEF Committed, Pending
  <2> QED
    BY <2>1, <2>2, <2>3 DEF Committed
<1>2. Grows
  BY <1>1, CommitIs DEF Grows
<1>3. journals' \subseteq Journals
  BY DEF Commit, IInv, TypeOK, Job
<1>4. Placed(r) /\ TreeOK /\ Pending(r) \cap Committed = {}
  BY DEF IInv, Orderly, Knows
<1>5. TreeOK'
  <2> SUFFICES ASSUME NEW c \in Committed', NEW p, p = chart'[c].parent, p # NoCode
               PROVE  /\ p \in Committed' /\ ~chart'[p].leaf
                      /\ chart'[c].path = Append(chart'[p].path, p)
    BY DEF TreeOK
  <2>1. CASE c \in Committed
    <3>1. chart[c].parent = p /\ chart'[c].path = chart[c].path
      BY <1>2, <2>1 DEF Grows
    <3>2. p \in Committed /\ ~chart[p].leaf /\ chart[c].path = Append(chart[p].path, p)
      BY <1>4, <2>1, <3>1 DEF TreeOK
    <3>3. ~chart'[p].leaf /\ chart'[p].path = chart[p].path
      BY <1>2, <3>2 DEF Grows
    <3> QED
      BY <1>1, <3>1, <3>2, <3>3
  <2>2. CASE c \in Pending(r)
    <3>1. chart'[c] = mine[r][c]
      BY <1>1, <2>2, CommitIs
    <3>2. Opened(r, p) /\ mine[r][c].path = Append(Seen(r, p).path, p)
      BY <1>4, <2>2, <3>1 DEF Placed
    <3>3. CASE p \in Pending(r)
      <4>1. ~mine[r][p].leaf /\ mine[r][c].path = Append(mine[r][p].path, p)
        BY <3>2, <3>3 DEF Opened, Seen
      <4>2. chart'[p] = mine[r][p]
        BY <1>1, <3>3, CommitIs
      <4> QED
        BY <1>1, <3>1, <3>3, <4>1, <4>2
    <3>4. CASE p \notin Pending(r)
      <4>1. p \in Committed /\ (p \in marked[r] \/ ~chart[p].leaf)
            /\ mine[r][c].path = Append(chart[p].path, p)
        BY <3>2, <3>4 DEF Opened, Seen
      <4>2. ~chart'[p].leaf /\ chart'[p].path = chart[p].path
        BY <1>1, <4>1, CommitIs
      <4> QED
        BY <1>1, <3>1, <4>1, <4>2
    <3> QED
      BY <3>3, <3>4
  <2> QED
    BY <1>1, <2>1, <2>2
<1>6. ASSUME NEW q \in Requests \ {r}
      PROVE  /\ Pending(q) \cap Committed' = {}
             /\ job[q].op = "patch" /\ job[q].pc = "commit"
                => chart'[job[q].target].version = chart[job[q].target].version
  <2>1. Pending(q) \cap Committed = {} /\ Pending(q) \cap Pending(r) = {}
    BY DEF IInv, Orderly, Knows, Apart
  <2>2. ASSUME job[q].op = "patch", job[q].pc = "commit"
        PROVE  chart'[job[q].target].version = chart[job[q].target].version
    <3>1. job[q].target \in Committed
      BY <2>2 DEF IInv, Orderly, Holds
    <3>2. job[r].op # "patch" \/ job[r].target # job[q].target
      BY <2>2 DEF IInv, Apart, Commit
    <3> QED
      BY <1>1, <3>1, <3>2, CommitIs
  <2> QED
    BY <1>1, <2>1, <2>2
<1>7. /\ mine' = [mine EXCEPT ![r] = [c \in Codes |-> NoRow]]
      /\ marked' = [marked EXCEPT ![r] = {}]
      /\ job' = [job EXCEPT ![r] = Idle]
  BY DEF Commit
<1>8. IInv'
  BY <1>1, <1>2, <1>3, <1>5, <1>6, <1>7, Ended
<1> QED
  BY <1>1, <1>8

LEMMA StepInv == IInv /\ [Next]_vars => IInv'
<1> SUFFICES ASSUME IInv, [Next]_vars PROVE IInv'
  OBVIOUS
<1>1. CASE UNCHANGED vars
  <2>1. /\ Committed' = Committed /\ \A r \in Requests : Pending(r)' = Pending(r)
        /\ UNCHANGED <<chart, journals, mine, marked, job>>
    BY <1>1 DEF vars, Committed, Pending
  <2>2. TypeOK' /\ TreeOK' /\ Apart'
    BY <2>1 DEF IInv, TypeOK, TreeOK, Apart
  <2>3. \A r \in Requests : Orderly(r, job[r])'
    BY <2>1 DEF IInv, Orderly, Staged, Knows, Ready, Holds, Under, Opened
  <2>4. \A r \in Requests : Placed(r)'
    BY <2>1 DEF IInv, Placed, Opened, Seen
  <2> QED
    BY <2>2, <2>3, <2>4 DEF IInv
<1>2. ASSUME NEW r \in Requests, NEW c \in Codes, StartDeactivate(r, c)
      PROVE  IInv'
  BY <1>2, Beginnings DEF StartDeactivate
<1> QED
  BY <1>1, <1>2, Beginnings, FindStep, MarkStep, InsertStep, FindJournalsStep, UpdateStep,
     CommitStep, FailStep DEF Next

LEMMA Invariant == Spec => []IInv
BY InitInv, StepInv, PTL DEF Spec

-----------------------------------------------------------------------------
(* The theorems *)

\* Types: every variable keeps its type.
THEOREM TypeCorrect == Spec => []TypeOK
<1>1. IInv => TypeOK
  BY DEF IInv
<1> QED
  BY <1>1, Invariant, PTL

\* The hierarchy: whatever requests create accounts, load templates, run the seed
\* script or fail beside each other, the parent of an account is there, is no leaf,
\* and is the last of its path.
THEOREM Hierarchy == Spec => []TreeOK
<1>1. IInv => TreeOK
  BY DEF IInv
<1> QED
  BY <1>1, Invariant, PTL

\* Only a COMMIT changes the chart, and it is the request that ends.
LEMMA OnlyCommit ==
    ASSUME IInv, [Next]_vars, <<chart, journals>>' # <<chart, journals>>
    PROVE  \E r \in Requests : Commit(r)
BY DEF Next, vars, Create, Load, StartSeed, Import, StartDeactivate, StartPatch, Begin,
       Find, Mark, Insert, FindJournals, Update, Fail

\* Optimistic locking (AccountPlanRepository.update): a COMMIT changes is_active
\* only of the row its request read, in the version it read.
THEOREM OptimisticLock == Spec => NoLostUpdate
<1>1. IInv /\ [Next]_vars =>
         [\A c \in Committed : chart'[c].active # chart[c].active =>
             \E r \in Requests : /\ job[r].target = c /\ job'[r] = Idle
                                 /\ job[r].seen = chart[c].version
                                 /\ chart'[c].version = chart[c].version + 1]_vars
  <2> SUFFICES ASSUME IInv, [Next]_vars, NEW c \in Committed, chart'[c].active # chart[c].active
               PROVE  \E r \in Requests : /\ job[r].target = c /\ job'[r] = Idle
                                          /\ job[r].seen = chart[c].version
                                          /\ chart'[c].version = chart[c].version + 1
    OBVIOUS
  <2>1. PICK r \in Requests : Commit(r)
    BY OnlyCommit
  <2>2. c \in Codes
    BY DEF Committed
  <2>3. job'[r] = Idle
    BY <2>1 DEF Commit, IInv, TypeOK
  <2> QED
    BY <2>1, <2>2, <2>3, CommitIs
<1> QED
  BY <1>1, Invariant, PTL DEF Spec, NoLostUpdate

\* "Idempotent" (accounts.py, the loading of a template): whoever created accounts
\* before it or beside it, a load that commits leaves all of its accounts and
\* journals there.
THEOREM Loaded == Spec => LoadComplete
<1>1. IInv /\ [Next]_vars =>
         [\A r \in Requests :
             (/\ job[r].op \in {"load", "seed"} /\ job'[r] # job[r] /\ job'[r] = Idle
              /\ <<chart, journals>>' # <<chart, journals>>)
             => /\ job[r].goal \subseteq {c \in Codes : chart'[c] # NoRow}
                /\ job[r].wanted \subseteq journals']_vars
  <2> SUFFICES ASSUME IInv, [Next]_vars, NEW r \in Requests,
                      job[r].op \in {"load", "seed"}, job'[r] # job[r],
                      <<chart, journals>>' # <<chart, journals>>
               PROVE  /\ job[r].goal \subseteq {c \in Codes : chart'[c] # NoRow}
                      /\ job[r].wanted \subseteq journals'
    OBVIOUS
  <2>1. PICK q \in Requests : Commit(q)
    BY OnlyCommit
  <2>2. q = r
    BY <2>1 DEF Commit, IInv, TypeOK
  <2>3. job[r].todo = << >> /\ Staged(job[r]) /\ Knows(r, job[r])
    BY <2>1, <2>2 DEF Commit, IInv, Orderly, Staged
  <2>4. job[r].goal \subseteq Committed \cup Pending(r)
    BY <2>3 DEF Staged, Knows
  <2>5. Committed' = Committed \cup Pending(r)
    BY <2>1, <2>2, CommitStep
  <2>6. job[r].goal \subseteq {c \in Codes : chart'[c] # NoRow}
    BY <2>4, <2>5 DEF Committed
  <2>7. job[r].wanted \subseteq journals'
    BY <2>1, <2>2 DEF Commit
  <2> QED
    BY <2>6, <2>7
<1> QED
  BY <1>1, Invariant, PTL DEF Spec, LoadComplete

-----------------------------------------------------------------------------
(* Accounts that are there are kept *)

\* A row that r has marked is the parent of one it inserted, or of the one it is
\* about to insert.
Sheltered(r, j) ==
    \A c \in marked[r] : \/ \E b \in Pending(r) : mine[r][b].parent = c
                         \/ j.pc = "insert" /\ Under(j) = c

SInv == \A r \in Requests : Sheltered(r, job[r])

\* Nothing that r inserted and marked is touched, and it does not insert.
LEMMA StillSheltered ==
    ASSUME NEW r \in Requests, Sheltered(r, job[r]),
           marked'[r] = marked[r], mine'[r] = mine[r],
           job[r].pc # "insert" \/ job'[r] = job[r]
    PROVE  Sheltered(r, job[r])'
<1>1. Pending(r)' = Pending(r)
  BY DEF Pending
<1>2. ASSUME NEW c \in marked'[r]
      PROVE  \/ \E b \in Pending(r)' : mine'[r][b].parent = c
             \/ job'[r].pc = "insert" /\ Under(job'[r]) = c
  BY <1>1, <1>2 DEF Sheltered
<1> QED
  BY <1>2 DEF Sheltered, Under

LEMMA NoneMarked ==
    ASSUME NEW r \in Requests, marked'[r] = {}
    PROVE  Sheltered(r, job[r])'
BY DEF Sheltered

\* A step of one request leaves what the others hold.
LEMMA StepOfOne ==
    ASSUME IInv, NEW r \in Requests, NEW q \in Requests \ {r},
           \/ \E j : Begin(r, j)
           \/ Find(r) \/ Mark(r) \/ Insert(r) \/ FindJournals(r) \/ Update(r)
           \/ Commit(r) \/ Fail(r)
    PROVE  marked'[q] = marked[q] /\ mine'[q] = mine[q] /\ job'[q] = job[q]
<1>1. /\ mine \in [Requests -> [Codes -> Row \cup {NoRow}]]
      /\ marked \in [Requests -> SUBSET Codes] /\ job \in [Requests -> Job]
  BY DEF IInv, TypeOK
<1>2. mine'[q] = mine[q]
  BY <1>1 DEF Begin, Find, Mark, Insert, FindJournals, Update, Commit, Fail
<1>3. marked'[q] = marked[q]
  BY <1>1 DEF Begin, Find, Mark, Insert, FindJournals, Update, Commit, Fail
<1>4. job'[q] = job[q]
  BY <1>1 DEF Begin, Find, Mark, Insert, FindJournals, Update, Commit, Fail
<1> QED
  BY <1>2, <1>3, <1>4

\* Mark: the row that it marks is the parent of the definition at the head.
LEMMA MarkShelters ==
    ASSUME IInv, NEW r \in Requests, Sheltered(r, job[r]), Mark(r)
    PROVE  Sheltered(r, job[r])'
<1>1. PICK j : j = job[r]
  OBVIOUS
<1>2. PICK p : p = Under(j)
  OBVIOUS
<1>3. PICK k : k = [j EXCEPT !.pc = "insert"]
  OBVIOUS
<1>4. /\ j \in Job /\ j.pc = "next" /\ TypeOK /\ job'[r] = k
      /\ \/ UNCHANGED <<mine, marked>>
         \/ /\ p \in Pending(r) /\ UNCHANGED marked
            /\ mine' = [mine EXCEPT ![r][p].leaf = FALSE]
         \/ /\ UNCHANGED mine
            /\ marked' = [marked EXCEPT ![r] = @ \cup {p}]
  BY <1>1, <1>2, <1>3 DEF Mark, ParentOf, Under, IInv, TypeOK
<1>5. k.pc = "insert" /\ Under(k) = p
  BY <1>2, <1>3, <1>4 DEF Job, Under
<1>6. \A b \in Pending(r) : b \in Pending(r)' /\ mine'[r][b].parent = mine[r][b].parent
  <2>1. CASE UNCHANGED mine
    BY <2>1 DEF Pending
  <2>2. CASE p \in Pending(r) /\ mine' = [mine EXCEPT ![r][p].leaf = FALSE]
    <3>1. p \in Codes /\ mine[r][p] \in Row
      BY <1>4, <2>2 DEF Pending, TypeOK
    <3>2. /\ [mine[r][p] EXCEPT !.leaf = FALSE] \in Row
          /\ [mine[r][p] EXCEPT !.leaf = FALSE].parent = mine[r][p].parent
      BY <3>1 DEF Row
    <3>3. \A c \in Codes : mine'[r][c] = IF c = p THEN [mine[r][p] EXCEPT !.leaf = FALSE]
                                                  ELSE mine[r][c]
      BY <1>4, <2>2, <3>1 DEF TypeOK
    <3> QED
      BY <3>1, <3>2, <3>3, IdleJob DEF Pending
  <2> QED
    BY <1>4, <2>1, <2>2
<1>7. marked'[r] \subseteq marked[r] \cup {p}
  BY <1>4 DEF TypeOK
<1>8. \A c \in marked[r] : \E b \in Pending(r) : mine[r][b].parent = c
  BY <1>1, <1>4 DEF Sheltered
<1>9. Sheltered(r, k)'
  BY <1>5, <1>6, <1>7, <1>8 DEF Sheltered, Under
<1> QED
  BY <1>4, <1>9 DEF Sheltered, Under

\* Insert: the row that was marked for the new account is its parent.
LEMMA InsertShelters ==
    ASSUME IInv, NEW r \in Requests, Sheltered(r, job[r]), Insert(r)
    PROVE  Sheltered(r, job[r])'
<1>1. PICK j : j = job[r]
  OBVIOUS
<1>2. PICK d : d = Head(j.todo)
  OBVIOUS
<1>3. PICK row : row = Inserted(r, d)
  OBVIOUS
<1>4. /\ j \in Job /\ Orderly(r, j) /\ j.pc = "insert" /\ TypeOK /\ UNCHANGED marked
      /\ mine' = [mine EXCEPT ![r][d.code] = row]
  BY <1>1, <1>2, <1>3 DEF Insert, IInv, TypeOK
<1>5. /\ d.code \in Codes /\ d.code \notin Pending(r)
  BY <1>2, <1>4, DoneHead DEF Orderly, Staged, Knows
<1>6. row # NoRow /\ row.parent = Under(j)
  <2>1. row.version = 1 /\ row.parent = ParentOf(r, d)
    BY <1>3 DEF Inserted
  <2> QED
    BY <1>1, <1>2, <2>1 DEF NoRow, ParentOf, Under
<1>7. \A c \in Codes : mine'[r][c] = IF c = d.code THEN row ELSE mine[r][c]
  BY <1>4, <1>5 DEF TypeOK
<1>8. /\ d.code \in Pending(r)' /\ mine'[r][d.code].parent = Under(j)
      /\ \A b \in Pending(r) : b \in Pending(r)' /\ mine'[r][b].parent = mine[r][b].parent
  BY <1>5, <1>6, <1>7 DEF Pending
<1>9. \A c \in marked'[r] : \E b \in Pending(r)' : mine'[r][b].parent = c
  BY <1>1, <1>4, <1>8 DEF Sheltered
<1> QED
  BY <1>9 DEF Sheltered

LEMMA StepShelters == IInv /\ SInv /\ [Next]_vars => SInv'
<1> SUFFICES ASSUME IInv, SInv, [Next]_vars, NEW q \in Requests PROVE Sheltered(q, job[q])'
  BY DEF SInv
<1>0. Sheltered(q, job[q])
  BY DEF SInv
<1>1. CASE UNCHANGED vars
  BY <1>0, <1>1, StillSheltered DEF vars
<1>2. ASSUME NEW r \in Requests,
             \/ \E j : Begin(r, j)
             \/ Find(r) \/ Mark(r) \/ Insert(r) \/ FindJournals(r) \/ Update(r)
             \/ Commit(r) \/ Fail(r)
      PROVE  Sheltered(q, job[q])'
  <2>1. CASE q # r
    BY <1>0, <1>2, <2>1, StepOfOne, StillSheltered
  <2>2. CASE q = r /\ \E j : Begin(r, j)
    <3>1. job[r].pc # "insert" /\ UNCHANGED <<mine, marked>>
      BY <2>2 DEF Begin, Idle
    <3> QED
      BY <1>0, <2>2, <3>1, StillSheltered
  <2>3. CASE q = r /\ (Find(r) \/ FindJournals(r) \/ Update(r))
    <3>1. job[r].pc # "insert" /\ UNCHANGED <<mine, marked>>
      BY <2>3 DEF Find, FindJournals, Update
    <3> QED
      BY <1>0, <2>3, <3>1, StillSheltered
  <2>4. CASE q = r /\ Mark(r)
    BY <1>0, <2>4, MarkShelters
  <2>5. CASE q = r /\ Insert(r)
    BY <1>0, <2>5, InsertShelters
  <2>6. CASE q = r /\ (Commit(r) \/ Fail(r))
    <3>1. marked'[r] = {}
      BY <2>6 DEF Commit, Fail, IInv, TypeOK
    <3> QED
      BY <2>6, <3>1, NoneMarked
  <2> QED
    BY <1>2, <2>1, <2>2, <2>3, <2>4, <2>5, <2>6
<1>3. ASSUME NEW r \in Requests,
             \/ \E d \in Creations : Create(r, d)
             \/ \E p \in DOMAIN Plans : Load(r, Plans[p])
             \/ StartSeed(r)
             \/ \E f \in Files : Import(r, f)
             \/ \E c \in Codes : StartDeactivate(r, c)
             \/ \E c \in Codes, v \in BOOLEAN : StartPatch(r, c, v)
      PROVE  \E j : Begin(r, j)
  BY <1>3 DEF Create, Load, StartSeed, Import, StartDeactivate, StartPatch
<1> QED
  BY <1>1, <1>2, <1>3 DEF Next

\* "Ignore les comptes déjà existants" (accounts.py:280): whatever runs beside it,
\* a request that inserts accounts changes of those that are there only the leaf
\* flag, and only of one that it gives a child.
THEOREM Kept == Spec => ExistingKept
<1>1. Init => SInv
  BY DEF Init, SInv, Sheltered
<1>2. IInv /\ SInv /\ [Next]_vars =>
         [\A r \in Requests :
             job[r].op # "patch" /\ job'[r] # job[r] /\ job'[r] = Idle =>
                \A c \in Committed : chart'[c] # chart[c] =>
                   /\ chart'[c] = [chart[c] EXCEPT !.leaf = FALSE]
                   /\ \E b \in Codes \ Committed : chart'[b].parent = c]_vars
  <2> SUFFICES ASSUME IInv, SInv, [Next]_vars, NEW r \in Requests, job[r].op # "patch",
                      job'[r] # job[r], NEW c \in Committed, chart'[c] # chart[c]
               PROVE  /\ chart'[c] = [chart[c] EXCEPT !.leaf = FALSE]
                      /\ \E b \in Codes \ Committed : chart'[b].parent = c
    OBVIOUS
  <2>1. PICK q \in Requests : Commit(q)
    BY OnlyCommit
  <2>2. q = r
    BY <2>1 DEF Commit, IInv, TypeOK
  <2>3. Knows(r, job[r]) /\ Sheltered(r, job[r]) /\ Commit(r) /\ job[r].pc = "commit"
    BY <2>1, <2>2 DEF IInv, Orderly, SInv, Commit
  <2>4. c \in Codes /\ c \notin Pending(r) /\ chart'[c] = Written(r, c)
    BY <2>3 DEF Knows, Committed, Commit
  <2>5. c \in marked[r] /\ chart'[c] = [chart[c] EXCEPT !.leaf = FALSE]
    BY <2>4 DEF Written
  <2>6. PICK b \in Pending(r) : mine[r][b].parent = c
    BY <2>3, <2>5 DEF Sheltered
  <2>7. b \in Codes \ Committed /\ chart'[b].parent = c
    BY <2>3, <2>6, CommitIs DEF Knows, Pending
  <2> QED
    BY <2>5, <2>7
<1> QED
  BY <1>1, <1>2, Invariant, StepShelters, PTL DEF Spec, ExistingKept

-----------------------------------------------------------------------------
(* Loads of one template walk one list *)

\* The lists a load may walk through.
Lists(op) == IF op = "seed" THEN {SeedPlan.accounts}
             ELSE {Plans[p].accounts : p \in DOMAIN Plans}

LEMMA ListType == \A op : \A P \in Lists(op) : P \in Seq(Def)
BY PlanAssumption, SeedAssumption DEF Lists

\* The flag of p is not written again by r.
Settled(r, j, p) ==
    \/ p \in Pending(r) \cup marked[r]
    \/ IF j.op = "seed" THEN p \notin Leaves ELSE p \notin j.leaves

\* The code at position m does not stand before it.
First(P, m) == \A i \in 1..(m - 1) : P[i].code # P[m].code

\* The job j is past n definitions of the list P, all of which it knows.
Along(j, P, n) ==
    /\ j.goal = {P[i].code : i \in DOMAIN P}
    /\ Len(j.todo) = Len(P) - n
    /\ \A i \in 1..Len(j.todo) : j.todo[i] = P[n + i]
    /\ \A i \in 1..n : P[i].code \in j.known

\* What r inserted is among them, and under a parent whose flag is settled; before
\* its first INSERT it holds at most one parent.
Traced(r, j, P, n) ==
    /\ \A c \in Pending(r) : \E m \in 1..n : P[m].code = c
    /\ \A m \in 1..n :
          P[m].code \in Pending(r) /\ First(P, m) /\ P[m].parent \in j.known =>
             Settled(r, j, P[m].parent)
    /\ j.pc = "insert" /\ Under(j) # NoCode => Settled(r, j, Under(j))
    /\ Pending(r) = {} => marked[r] \subseteq {Under(j)}
    /\ Pending(r) = {} /\ j.pc # "insert" => marked[r] = {}

Walks(r, j) ==
    j.op \in {"load", "seed"} =>
        \E P \in Lists(j.op) : \E n \in 0..Len(P) : Along(j, P, n) /\ Traced(r, j, P, n)

LInv == \A r \in Requests : Walks(r, job[r])

\* Resume goes on in the same list, past definitions the request knows.
LEMMA ResumeAlong ==
    ASSUME NEW j \in Job, j.op \in {"load", "seed"},
           NEW P \in Seq(Def), NEW n \in 0..Len(P), Along(j, P, n)
    PROVE  \E m \in n..Len(P) : Along(Resume(j), P, m)
<1> DEFINE left == {i \in DOMAIN j.todo : Wanted(j, j.todo[i])}
<1>1. /\ j.todo \in Seq(Def) /\ DOMAIN j.todo = 1..Len(j.todo) /\ Len(j.todo) \in Nat
      /\ Len(P) \in Nat /\ n \in Nat /\ n <= Len(P) /\ Len(j.todo) = Len(P) - n
      /\ \A i \in 1..Len(j.todo) : j.todo[i] = P[n + i]
      /\ \A i \in 1..n : P[i].code \in j.known
      /\ j.goal = {P[i].code : i \in DOMAIN P}
  BY DEF Job, Along
<1>2. \A i \in DOMAIN j.todo : i \notin left => P[n + i].code \in j.known
  BY <1>1 DEF Wanted
<1>3. PICK k : k = Resume(j)
  OBVIOUS
<1>4. k.known = j.known /\ k.goal = j.goal
  BY <1>3, ResumeIs DEF Resumed
<1>5. CASE left = {}
  <2>1. k.todo = << >>
    BY <1>3, <1>5 DEF Resume, Job
  <2>2. \A i \in 1..Len(P) : P[i].code \in k.known
    <3> SUFFICES ASSUME NEW i \in 1..Len(P), i > n PROVE P[i].code \in k.known
      BY <1>1, <1>4
    <3>1. i - n \in 1..Len(j.todo) /\ n + (i - n) = i
      BY <1>1
    <3> QED
      BY <1>1, <1>2, <1>4, <1>5, <3>1
  <2>3. Along(k, P, Len(P))
    BY <1>1, <1>4, <2>1, <2>2 DEF Along
  <2> QED
    BY <1>1, <1>3, <2>3
<1>6. CASE left # {}
  <2>1. PICK a : a = Min(left)
    OBVIOUS
  <2>2. a \in left /\ \A i \in left : a <= i
    <3>1. left \in SUBSET Nat
      BY <1>1
    <3> HIDE DEF left
    <3> QED
      BY <1>6, <2>1, <3>1, MinIsLeast
  <2>3. a \in 1..Len(j.todo)
    BY <1>1, <2>2
  <2>4. k.todo = SubSeq(j.todo, a, Len(j.todo))
    BY <1>3, <1>6, <2>1 DEF Resume, Job
  <2>5. /\ Len(k.todo) = Len(j.todo) - a + 1
        /\ \A i \in 1..(Len(j.todo) - a + 1) : k.todo[i] = j.todo[a + i - 1]
    BY <1>1, <2>3, <2>4, SubSeqProperties
  <2>6. PICK m : m = n + a - 1
    OBVIOUS
  <2>7. m \in n..Len(P) /\ Len(k.todo) = Len(P) - m
    BY <1>1, <2>3, <2>5, <2>6
  <2>8. ASSUME NEW i \in 1..Len(k.todo)
        PROVE  k.todo[i] = P[m + i]
    <3>1. a + i - 1 \in 1..Len(j.todo) /\ n + (a + i - 1) = m + i
      BY <1>1, <2>3, <2>5, <2>6
    <3> QED
      BY <1>1, <2>5, <3>1
  <2>9. ASSUME NEW i \in 1..m
        PROVE  P[i].code \in k.known
    <3>1. CASE i <= n
      BY <1>1, <1>4, <3>1
    <3>2. CASE i > n
      <4>1. i - n \in 1..Len(j.todo) /\ n + (i - n) = i /\ i - n < a
        BY <1>1, <2>3, <2>6, <3>2
      <4>2. i - n \notin left
        BY <2>2, <2>3, <4>1
      <4> QED
        BY <1>1, <1>2, <1>4, <4>1, <4>2
    <3> QED
      BY <1>1, <2>7, <3>1, <3>2
  <2>10. Along(k, P, m)
    BY <1>1, <1>4, <2>7, <2>8, <2>9 DEF Along
  <2> QED
    BY <1>3, <2>7, <2>10
<1> QED
  BY <1>5, <1>6

\* A request that goes on from n definitions of P.
LEMMA Onward ==
    ASSUME NEW r \in Requests, NEW k \in Job, k.op \in {"load", "seed"},
           NEW P \in Lists(k.op), NEW n \in 0..Len(P), Along(k, P, n),
           job'[r] = Resume(k),
           \A c \in Pending(r)' : \E m \in 1..n : P[m].code = c,
           \A m \in 1..n :
              P[m].code \in Pending(r)' /\ First(P, m) /\ P[m].parent \in k.known =>
                 Settled(r, k, P[m].parent)',
           Pending(r)' = {} => marked'[r] = {}
    PROVE  Walks(r, job[r])'
<1>1. P \in Seq(Def) /\ Len(P) \in Nat
  BY ListType
<1>2. PICK h : h = Resume(k)
  OBVIOUS
<1>3. PICK m \in n..Len(P) : Along(h, P, m)
  BY <1>1, <1>2, ResumeAlong
<1>4. h.op = k.op /\ h.known = k.known /\ h.leaves = k.leaves /\ h.pc # "insert"
  BY <1>2, ResumeIs DEF Resumed
<1>5. \A i \in 1..m : i \notin 1..n /\ P[i].code \in Pending(r)' => ~First(P, i)
  <2> SUFFICES ASSUME NEW i \in 1..m, i \notin 1..n, P[i].code \in Pending(r)'
               PROVE  ~First(P, i)
    OBVIOUS
  <2>1. PICK l \in 1..n : P[l].code = P[i].code
    OBVIOUS
  <2>2. l \in 1..(i - 1)
    BY <1>1
  <2> QED
    BY <2>1, <2>2 DEF First
<1>6. \A p : Settled(r, k, p)' => Settled(r, h, p)'
  BY <1>4 DEF Settled
<1>7. Traced(r, h, P, m)'
  <2>1. \A c \in Pending(r)' : \E l \in 1..m : P[l].code = c
    <3>1. \A l \in 1..n : l \in 1..m
      BY <1>1
    <3> QED
      BY <3>1
  <2>2. \A l \in 1..m :
           P[l].code \in Pending(r)' /\ First(P, l) /\ P[l].parent \in h.known =>
              Settled(r, h, P[l].parent)'
    BY <1>4, <1>5, <1>6
  <2> QED
    BY <1>4, <2>1, <2>2 DEF Traced
<1>8. Walks(r, h)'
  <2>1. m \in 0..Len(P) /\ P \in Lists(h.op)
    BY <1>1, <1>4
  <2> QED
    BY <1>3, <1>4, <1>7, <2>1 DEF Walks
<1>9. h = job'[r]
  BY <1>2
<1> QED
  BY <1>8, <1>9 DEF Walks, Traced, Settled, Under

\* The definition at the head of the list, and the list past it.
LEMMA PastHead ==
    ASSUME NEW j \in Job, NEW P \in Seq(Def), NEW n \in 0..Len(P), Along(j, P, n), j.todo # << >>
    PROVE  /\ n + 1 \in 0..Len(P) /\ Head(j.todo) = P[n + 1]
           /\ Along([j EXCEPT !.known = @ \cup {Head(j.todo).code}, !.todo = Tail(@)], P, n + 1)
<1>1. /\ j.todo \in Seq(Def) /\ Len(j.todo) \in Nat /\ Len(j.todo) > 0
      /\ Len(P) \in Nat /\ n \in Nat /\ n <= Len(P) /\ Len(j.todo) = Len(P) - n
      /\ \A i \in 1..Len(j.todo) : j.todo[i] = P[n + i]
      /\ \A i \in 1..n : P[i].code \in j.known
      /\ j.goal = {P[i].code : i \in DOMAIN P}
  BY DEF Job, Along
<1>2. /\ Head(j.todo) = j.todo[1] /\ Len(Tail(j.todo)) = Len(j.todo) - 1
      /\ \A i \in 1..(Len(j.todo) - 1) : Tail(j.todo)[i] = j.todo[i + 1]
  BY <1>1
<1>3. PICK k : k = [j EXCEPT !.known = @ \cup {Head(j.todo).code}, !.todo = Tail(@)]
  OBVIOUS
<1>4. k.known = j.known \cup {Head(j.todo).code} /\ k.todo = Tail(j.todo) /\ k.goal = j.goal
  BY <1>3 DEF Job
<1>5. n + 1 \in 0..Len(P) /\ Head(j.todo) = P[n + 1]
  BY <1>1, <1>2
<1>6. ASSUME NEW i \in 1..Len(k.todo)
      PROVE  k.todo[i] = P[(n + 1) + i]
  <2>1. i \in 1..(Len(j.todo) - 1) /\ i + 1 \in 1..Len(j.todo) /\ n + (i + 1) = (n + 1) + i
    BY <1>1, <1>2, <1>4
  <2> QED
    BY <1>1, <1>2, <1>4, <2>1
<1>7. ASSUME NEW i \in 1..(n + 1)
      PROVE  P[i].code \in k.known
  <2>1. CASE i = n + 1
    BY <1>4, <1>5, <2>1
  <2>2. CASE i # n + 1
    BY <1>1, <1>4, <2>2
  <2> QED
    BY <2>1, <2>2
<1>8. Len(k.todo) = Len(P) - (n + 1)
  BY <1>1, <1>2, <1>4
<1>9. Along(k, P, n + 1)
  BY <1>1, <1>4, <1>6, <1>7, <1>8 DEF Along
<1> QED
  BY <1>3, <1>5, <1>9

-----------------------------------------------------------------------------
(* Each step of a load, and those beside it *)

\* A request that another one's step does not touch.
LEMMA AsideWalks ==
    ASSUME IInv, NEW q \in Requests, Walks(q, job[q]),
           mine'[q] = mine[q], marked'[q] = marked[q], job'[q] = job[q], Grows
    PROVE  Walks(q, job[q])'
<1>1. PICK k : k = job[q]
  OBVIOUS
<1>2. Pending(q)' = Pending(q) /\ Walks(q, k) /\ Knows(q, k)
  BY <1>1 DEF Pending, IInv, Orderly
<1>3. ASSUME k.op \in {"load", "seed"}, NEW p \in k.known, Settled(q, k, p)
      PROVE  Settled(q, k, p)'
  <2>1. p \in Committed \cup Pending(q)
    BY <1>2, <1>3 DEF Knows
  <2>2. p \notin Leaves /\ p \in Committed => p \notin Leaves'
    BY DEF Leaves, Grows
  <2> QED
    BY <1>2, <1>3, <2>1, <2>2 DEF Settled
<1>4. Walks(q, k)'
  <2> SUFFICES ASSUME k.op \in {"load", "seed"}
               PROVE  \E P \in Lists(k.op) : \E n \in 0..Len(P) : Along(k, P, n) /\ Traced(q, k, P, n)'
    BY DEF Walks
  <2>1. PICK P \in Lists(k.op) : \E n \in 0..Len(P) : Along(k, P, n) /\ Traced(q, k, P, n)
    BY <1>2 DEF Walks
  <2>1a. PICK n \in 0..Len(P) : Along(k, P, n) /\ Traced(q, k, P, n)
    BY <2>1
  <2>2. Under(k) # NoCode => Under(k) \in k.known
    BY DEF Under
  <2>3. Traced(q, k, P, n)'
    BY <1>2, <1>3, <2>1, <2>1a, <2>2 DEF Traced
  <2> QED
    BY <2>1, <2>1a, <2>3
<1>5. k = job'[q]
  BY <1>1
<1> QED
  BY <1>4, <1>5 DEF Walks, Traced, Settled, Under

LEMMA BeginWalks ==
    ASSUME IInv, NEW r \in Requests, NEW j \in Job, j.op \in {"load", "seed"},
           j.todo \in Lists(j.op), j.goal = {j.todo[i].code : i \in DOMAIN j.todo},
           Begin(r, Resume(j))
    PROVE  Walks(r, job[r])'
<1>1. /\ job[r] = Idle /\ Orderly(r, job[r]) /\ job'[r] = Resume(j)
      /\ UNCHANGED <<mine, marked>>
  BY DEF IInv, TypeOK, Begin
<1>2. Pending(r) = {} /\ marked[r] = {}
  BY <1>1 DEF Orderly, Knows, Idle
<1>3. Pending(r)' = {} /\ marked'[r] = {}
  BY <1>1, <1>2 DEF Pending
<1>4. PICK P : P = j.todo
  OBVIOUS
<1>5. P \in Lists(j.op) /\ P \in Seq(Def) /\ Len(P) \in Nat
  BY <1>4, ListType
<1>6. Along(j, P, 0) /\ 0 \in 0..Len(P)
  BY <1>4, <1>5 DEF Along
<1> QED
  BY <1>1, <1>3, <1>5, <1>6, Onward

LEMMA FindWalks ==
    ASSUME IInv, NEW r \in Requests, Walks(r, job[r]), Find(r)
    PROVE  Walks(r, job[r])'
<1>1. PICK j : j = job[r]
  OBVIOUS
<1>2. PICK d : d = Head(j.todo)
  OBVIOUS
<1>3. PICK k : k = [j EXCEPT !.known = @ \cup {Head(j.todo).code}, !.todo = Tail(@)]
  OBVIOUS
<1>4. /\ j \in Job /\ Orderly(r, j) /\ j.pc = "next" /\ j.op = "seed" /\ d.code \in Committed
      /\ job'[r] = Resume(k) /\ UNCHANGED <<chart, mine, marked>>
  BY <1>1, <1>2, <1>3 DEF Find, IInv, TypeOK
<1>5. j.todo # << >> /\ Staged(j) /\ Knows(r, j)
  BY <1>4 DEF Orderly, Staged
<1>6. PICK P \in Lists(j.op) : \E n \in 0..Len(P) : Along(j, P, n) /\ Traced(r, j, P, n)
  BY <1>1, <1>4 DEF Walks
<1>6a. PICK n \in 0..Len(P) : Along(j, P, n) /\ Traced(r, j, P, n)
  BY <1>6
<1>7. P \in Seq(Def) /\ Len(P) \in Nat /\ P = SeedPlan.accounts
  BY <1>4, <1>6, <1>6a, ListType DEF Lists
<1>8. n + 1 \in 0..Len(P) /\ d = P[n + 1] /\ Along(k, P, n + 1)
  BY <1>2, <1>3, <1>4, <1>5, <1>6, <1>6a, <1>7, PastHead
<1>9. k \in Job /\ k.op = "seed" /\ k.known = j.known \cup {d.code} /\ k.leaves = j.leaves
  BY <1>2, <1>3, <1>4, <1>5, DoneHead
<1>10. /\ Pending(r)' = Pending(r) /\ Leaves' = Leaves /\ d.code \notin Pending(r)
  BY <1>4, <1>5 DEF Pending, Leaves, Committed, Knows
<1>11. \A c \in Pending(r)' : \E m \in 1..(n + 1) : P[m].code = c
  <2>1. \A m \in 1..n : m \in 1..(n + 1)
    BY <1>7
  <2> QED
    BY <1>6, <1>6a, <1>10, <2>1 DEF Traced
<1>12. ASSUME NEW m \in 1..(n + 1), P[m].code \in Pending(r)', First(P, m), P[m].parent \in k.known
       PROVE  Settled(r, k, P[m].parent)'
  <2>1. m \in 1..n
    BY <1>7, <1>8, <1>10, <1>12
  <2>2. P[m].parent # d.code
    <3>1. DOMAIN P = 1..Len(P) /\ m \in DOMAIN P /\ n + 1 \in DOMAIN P /\ ~(n + 1 < m)
      BY <1>7, <1>8, <2>1
    <3> QED
      BY <1>7, <1>8, <3>1, SeedOrderAssumption
  <2>3. Settled(r, j, P[m].parent)
    BY <1>6, <1>6a, <1>9, <1>10, <1>12, <2>1, <2>2 DEF Traced
  <2> QED
    BY <1>4, <1>9, <1>10, <2>3 DEF Settled
<1>13. Pending(r)' = {} => marked'[r] = {}
  BY <1>4, <1>6, <1>6a, <1>10 DEF Traced
<1> QED
  BY <1>4, <1>6, <1>6a, <1>8, <1>9, <1>11, <1>12, <1>13, Onward

LEMMA MarkWalks ==
    ASSUME IInv, NEW r \in Requests, Walks(r, job[r]), Mark(r)
    PROVE  Walks(r, job[r])'
<1>1. PICK j : j = job[r]
  OBVIOUS
<1>2. PICK p : p = Under(j)
  OBVIOUS
<1>3. PICK k : k = [j EXCEPT !.pc = "insert"]
  OBVIOUS
<1>4. /\ j \in Job /\ Orderly(r, j) /\ j.pc = "next" /\ TypeOK
      /\ chart' = chart /\ job'[r] = k
      /\ \/ (p = NoCode \/ ~LeafFor(r, p) \/ p \in marked[r]) /\ UNCHANGED <<mine, marked>>
         \/ /\ p \in Pending(r) /\ UNCHANGED marked
            /\ mine' = [mine EXCEPT ![r][p].leaf = FALSE]
         \/ /\ p # NoCode /\ p \notin Pending(r) /\ UNCHANGED mine
            /\ marked' = [marked EXCEPT ![r] = @ \cup {p}]
  BY <1>1, <1>2, <1>3 DEF Mark, ParentOf, Under, IInv, TypeOK
<1>5. /\ k.op = j.op /\ k.pc = "insert" /\ k.known = j.known /\ k.leaves = j.leaves
      /\ k.todo = j.todo /\ k.goal = j.goal /\ Under(k) = p
  BY <1>2, <1>3, <1>4 DEF Job, Under
<1>6. p # NoCode => p \in j.known /\ p \in Committed \cup Pending(r)
  BY <1>2, <1>4 DEF Under, Orderly, Knows
<1>7. Pending(r)' = Pending(r)
  <2>1. CASE mine' = mine
    BY <2>1 DEF Pending
  <2>2. CASE p \in Pending(r) /\ mine' = [mine EXCEPT ![r][p].leaf = FALSE]
    <3>1. p \in Codes /\ mine[r][p] \in Row
      BY <1>4, <2>2 DEF Pending, TypeOK
    <3>2. [mine[r][p] EXCEPT !.leaf = FALSE] \in Row
      BY <3>1 DEF Row
    <3>3. \A c \in Codes : mine'[r][c] = IF c = p THEN [mine[r][p] EXCEPT !.leaf = FALSE]
                                                  ELSE mine[r][c]
      BY <1>4, <2>2, <3>1 DEF TypeOK
    <3> QED
      BY <2>2, <3>1, <3>2, <3>3, IdleJob DEF Pending
  <2> QED
    BY <1>4, <2>1, <2>2
<1>8. Leaves' = Leaves /\ marked[r] \subseteq marked'[r] /\ marked'[r] \subseteq marked[r] \cup {p}
  BY <1>4 DEF Leaves, Committed, TypeOK
<1>9. ASSUME j.op \in {"load", "seed"}, p # NoCode
      PROVE  Settled(r, k, p)'
  <2>1. CASE p \in Pending(r) \cup marked'[r]
    BY <1>7, <2>1 DEF Settled
  <2>2. CASE p \notin Pending(r) \cup marked'[r]
    <3>1. ~LeafFor(r, p)
      BY <1>4, <1>9, <2>2 DEF TypeOK
    <3> QED
      BY <1>1, <1>5, <1>8, <2>2, <3>1 DEF LeafFor, Settled
  <2> QED
    BY <2>1, <2>2
<1>10. \A c : Settled(r, j, c) => Settled(r, k, c)'
  BY <1>5, <1>7, <1>8 DEF Settled
<1>11. Walks(r, k)'
  <2> SUFFICES ASSUME k.op \in {"load", "seed"}
               PROVE  \E P \in Lists(k.op) : \E n \in 0..Len(P) : Along(k, P, n) /\ Traced(r, k, P, n)'
    BY DEF Walks
  <2>1. PICK P \in Lists(k.op) : \E n \in 0..Len(P) : Along(j, P, n) /\ Traced(r, j, P, n)
    BY <1>1, <1>5 DEF Walks
  <2>1a. PICK n \in 0..Len(P) : Along(j, P, n) /\ Traced(r, j, P, n)
    BY <2>1
  <2>2. Along(k, P, n)
    BY <1>5, <2>1, <2>1a DEF Along
  <2>3. Pending(r) = {} => marked'[r] \subseteq {p}
    BY <1>4, <1>8, <2>1, <2>1a DEF Traced
  <2>4. Traced(r, k, P, n)'
    BY <1>5, <1>7, <1>9, <1>10, <2>1, <2>1a, <2>3 DEF Traced
  <2> QED
    BY <2>2, <2>4
<1>12. k = job'[r]
  BY <1>4
<1> QED
  BY <1>11, <1>12 DEF Walks, Traced, Settled, Under

LEMMA InsertWalks ==
    ASSUME IInv, NEW r \in Requests, Walks(r, job[r]), Insert(r)
    PROVE  Walks(r, job[r])'
<1>1. PICK j : j = job[r]
  OBVIOUS
<1>2. PICK d : d = Head(j.todo)
  OBVIOUS
<1>3. PICK k : k = [j EXCEPT !.known = @ \cup {Head(j.todo).code}, !.todo = Tail(@)]
  OBVIOUS
<1>4. /\ j \in Job /\ Orderly(r, j) /\ j.pc = "insert" /\ TypeOK
      /\ job'[r] = Resume(k) /\ UNCHANGED <<chart, marked>>
      /\ mine' = [mine EXCEPT ![r][d.code] = Inserted(r, d)]
  BY <1>1, <1>2, <1>3 DEF Insert, IInv, TypeOK
<1>5. Staged(j) /\ Knows(r, j) /\ j.todo # << >> /\ d.code \notin j.known
  BY <1>2, <1>4 DEF Orderly, Staged
<1>6. /\ k \in Job /\ k.op = j.op /\ k.known = j.known \cup {d.code} /\ k.leaves = j.leaves
      /\ d.code \in Codes
  BY <1>2, <1>3, <1>4, <1>5, DoneHead
<1>7. Pending(r)' = Pending(r) \cup {d.code} /\ Leaves' = Leaves
  <2>1. Inserted(r, d) # NoRow
    <3>1. Inserted(r, d).version = 1
      BY DEF Inserted
    <3> QED
      BY <3>1 DEF NoRow
  <2>2. PICK row : row = Inserted(r, d)
    OBVIOUS
  <2>3. \A c \in Codes : mine'[r][c] = IF c = d.code THEN row ELSE mine[r][c]
    BY <1>4, <1>6, <2>2 DEF TypeOK
  <2>4. Pending(r)' = Pending(r) \cup {d.code}
    BY <1>6, <2>1, <2>2, <2>3 DEF Pending
  <2> QED
    BY <1>4, <2>4 DEF Leaves, Committed
<1>8. CASE j.op \notin {"load", "seed"}
  <2>1. job'[r].op \notin {"load", "seed"}
    BY <1>4, <1>6, <1>8, ResumeIs DEF Resumed
  <2> QED
    BY <2>1 DEF Walks
<1>9. CASE j.op \in {"load", "seed"}
  <2>1. PICK P \in Lists(j.op) : \E n \in 0..Len(P) : Along(j, P, n) /\ Traced(r, j, P, n)
    BY <1>1, <1>9 DEF Walks
  <2>1a. PICK n \in 0..Len(P) : Along(j, P, n) /\ Traced(r, j, P, n)
    BY <2>1
  <2>2. P \in Seq(Def) /\ Len(P) \in Nat /\ n \in Nat
    BY <2>1, <2>1a, ListType
  <2>3. n + 1 \in 0..Len(P) /\ d = P[n + 1] /\ Along(k, P, n + 1)
    BY <1>2, <1>3, <1>4, <1>5, <2>1, <2>1a, <2>2, PastHead
  <2>4. \A c \in Pending(r)' : \E m \in 1..(n + 1) : P[m].code = c
    <3>1. \A m \in 1..n : m \in 1..(n + 1)
      BY <2>2
    <3>2. n + 1 \in 1..(n + 1)
      BY <2>2
    <3> QED
      BY <1>7, <2>1, <2>1a, <2>3, <3>1, <3>2 DEF Traced
  <2>5. \A c : Settled(r, j, c) => Settled(r, k, c)'
    BY <1>4, <1>6, <1>7 DEF Settled
  <2>6. ASSUME NEW m \in 1..(n + 1), P[m].code \in Pending(r)', First(P, m), P[m].parent \in k.known
        PROVE  Settled(r, k, P[m].parent)'
    <3>1. CASE P[m].parent = d.code
      <4>1. P[m].parent \in Pending(r)'
        BY <1>7, <3>1
      <4> QED
        BY <4>1 DEF Settled
    <3>2. CASE P[m].parent # d.code /\ m = n + 1
      <4>1. Under(j) = P[m].parent
        BY <1>2, <1>6, <2>3, <2>6, <3>2 DEF Under
      <4>2. P[m].parent \in Codes
        BY <1>4, <1>6, <2>6, <3>2 DEF Job
      <4>3. Settled(r, j, P[m].parent)
        BY <1>4, <2>1, <2>1a, <4>1, <4>2, CodeAssumption DEF Traced
      <4> QED
        BY <2>5, <4>3
    <3>3. CASE P[m].parent # d.code /\ m # n + 1
      <4>1. m \in 1..n
        BY <2>2, <3>3
      <4>2. P[m].code # d.code
        BY <1>5, <2>1, <2>1a, <4>1 DEF Along
      <4>3. Settled(r, j, P[m].parent)
        BY <1>6, <1>7, <2>1, <2>1a, <2>6, <3>3, <4>1, <4>2 DEF Traced
      <4> QED
        BY <2>5, <4>3
    <3> QED
      BY <3>1, <3>2, <3>3
  <2>7. Pending(r)' # {}
    BY <1>7
  <2> QED
    BY <1>4, <1>6, <1>9, <2>1, <2>1a, <2>3, <2>4, <2>6, <2>7, Onward
<1> QED
  BY <1>8, <1>9

\* The other steps of a load keep its place; the other operations have none.
LEMMA OtherWalks ==
    ASSUME IInv, NEW r \in Requests, Walks(r, job[r]),
           FindJournals(r) \/ Update(r) \/ Commit(r) \/ Fail(r)
    PROVE  Walks(r, job[r])'
<1>1. CASE FindJournals(r)
  <2>1. PICK j : j = job[r]
    OBVIOUS
  <2>2. PICK k : k = [j EXCEPT !.pc = "commit", !.wanted = @ \ journals]
    OBVIOUS
  <2>3. /\ j \in Job /\ j.pc = "journals" /\ TypeOK
        /\ job' = [job EXCEPT ![r].pc = "commit", ![r].wanted = @ \ journals]
        /\ UNCHANGED <<chart, mine, marked>>
    BY <1>1, <2>1 DEF FindJournals, IInv, TypeOK
  <2>3a. job'[r] = k
    BY <2>1, <2>2, <2>3 DEF TypeOK, Job
  <2>4. /\ k.op = j.op /\ k.pc = "commit" /\ k.known = j.known /\ k.leaves = j.leaves
        /\ k.todo = j.todo /\ k.goal = j.goal
    BY <2>2, <2>3 DEF Job
  <2>5. Pending(r)' = Pending(r) /\ Leaves' = Leaves
    BY <2>3 DEF Pending, Leaves, Committed
  <2>6. Walks(r, k)'
    <3> SUFFICES ASSUME k.op \in {"load", "seed"}
                 PROVE  \E P \in Lists(k.op) : \E n \in 0..Len(P) : Along(k, P, n) /\ Traced(r, k, P, n)'
      BY DEF Walks
    <3>1. PICK P \in Lists(k.op) : \E n \in 0..Len(P) : Along(j, P, n) /\ Traced(r, j, P, n)
      BY <2>1, <2>4 DEF Walks
    <3>2. PICK n \in 0..Len(P) : Along(j, P, n) /\ Traced(r, j, P, n)
      BY <3>1
    <3>3. Along(k, P, n)
      BY <2>4, <3>2 DEF Along
    <3>4. \A c : Settled(r, j, c) => Settled(r, k, c)'
      BY <2>3, <2>4, <2>5 DEF Settled
    <3>5. Traced(r, k, P, n)'
      BY <2>3, <2>4, <2>5, <3>2, <3>4 DEF Traced
    <3> QED
      BY <3>3, <3>5
  <2>7. k = job'[r]
    BY <2>3a
  <2> QED
    BY <2>6, <2>7 DEF Walks, Traced, Settled, Under
<1>2. CASE Update(r)
  <2>1. job[r] \in Job /\ job'[r] = [job[r] EXCEPT !.pc = "commit"] /\ job[r].op = "patch"
    BY <1>2 DEF Update, IInv, TypeOK, Orderly, Staged
  <2>2. job'[r].op = "patch"
    BY <2>1 DEF Job
  <2> QED
    BY <2>2 DEF Walks
<1>3. CASE Commit(r) \/ Fail(r)
  <2>1. job'[r] = Idle
    BY <1>3 DEF Commit, Fail, IInv, TypeOK
  <2>2. Idle.op = "none"
    BY DEF Idle
  <2> QED
    BY <2>1, <2>2 DEF Walks
<1> QED
  BY <1>1, <1>2, <1>3

\* The operations that begin.
LEMMA Begun ==
    ASSUME IInv, NEW r \in Requests
    PROVE  /\ \A d \in Creations : Create(r, d) => Walks(r, job[r])'
           /\ \A p \in DOMAIN Plans : Load(r, Plans[p]) => Walks(r, job[r])'
           /\ StartSeed(r) => Walks(r, job[r])'
           /\ \A f \in Files : Import(r, f) => Walks(r, job[r])'
           /\ \A c \in Codes, v \in BOOLEAN : StartPatch(r, c, v) => Walks(r, job[r])'
<1>0. Committed \subseteq Codes /\ Leaves \subseteq Codes /\ TypeOK
  BY DEF Committed, Leaves, IInv
<1>1. ASSUME NEW d \in Creations, Create(r, d)
      PROVE  Walks(r, job[r])'
  <2>1. PICK j : j = [Idle EXCEPT !.op = "create", !.todo = <<d>>, !.known = Committed,
                                  !.leaves = Leaves, !.goal = {d.code}]
    OBVIOUS
  <2>2. d \in Def /\ <<d>> \in Seq(Def)
    BY InputAssumption
  <2>3. j \in Job /\ j.op = "create"
    BY <1>0, <2>1, <2>2, IdleJob DEF Job, Idle, Def
  <2>4. job'[r] = Resume(j)
    BY <1>0, <1>1, <2>1 DEF Create, Begin, TypeOK
  <2>5. job'[r].op = "create"
    BY <2>3, <2>4, ResumeIs DEF Resumed
  <2> QED
    BY <2>5 DEF Walks
<1>2. ASSUME NEW p \in DOMAIN Plans, Load(r, Plans[p])
      PROVE  Walks(r, job[r])'
  <2>0. PICK plan : plan = Plans[p]
    OBVIOUS
  <2>1. PICK j : j = [Idle EXCEPT !.op = "load", !.known = Committed, !.leaves = Leaves,
                     !.todo = plan.accounts,
                     !.goal = {plan.accounts[i].code : i \in DOMAIN plan.accounts},
                     !.wanted = plan.journals]
    OBVIOUS
  <2>2. /\ plan.accounts \in Seq(Def) /\ plan.journals \subseteq Journals
        /\ \A i \in DOMAIN plan.accounts : plan.accounts[i] \in Def
    BY <2>0, PlanAssumption
  <2>3. {plan.accounts[i].code : i \in DOMAIN plan.accounts} \subseteq Codes
    BY <2>2 DEF Def
  <2>4. /\ j \in Job /\ j.op = "load" /\ j.todo = plan.accounts
        /\ j.goal = {j.todo[i].code : i \in DOMAIN j.todo}
    BY <1>0, <2>1, <2>2, <2>3, IdleJob DEF Job, Idle
  <2>5. j.todo \in Lists(j.op)
    BY <2>0, <2>4 DEF Lists
  <2>6. Begin(r, Resume(j))
    BY <1>2, <2>0, <2>1 DEF Load
  <2> QED
    BY <2>4, <2>5, <2>6, BeginWalks
<1>3. ASSUME StartSeed(r)
      PROVE  Walks(r, job[r])'
  <2>1. PICK j : j = [Idle EXCEPT !.op = "seed", !.todo = SeedPlan.accounts,
                     !.goal = {SeedPlan.accounts[i].code : i \in DOMAIN SeedPlan.accounts},
                     !.wanted = SeedPlan.journals]
    OBVIOUS
  <2>2. /\ SeedPlan.accounts \in Seq(Def) /\ SeedPlan.journals \subseteq Journals
        /\ \A i \in DOMAIN SeedPlan.accounts : SeedPlan.accounts[i] \in Def
    BY SeedAssumption
  <2>3. {SeedPlan.accounts[i].code : i \in DOMAIN SeedPlan.accounts} \subseteq Codes
    BY <2>2 DEF Def
  <2>4. /\ j \in Job /\ j.op = "seed" /\ j.todo = SeedPlan.accounts
        /\ j.goal = {j.todo[i].code : i \in DOMAIN j.todo}
    BY <2>1, <2>2, <2>3, IdleJob DEF Job, Idle
  <2>5. j.todo \in Lists(j.op)
    BY <2>4 DEF Lists
  <2>6. Begin(r, Resume(j))
    BY <1>3, <2>1 DEF StartSeed
  <2> QED
    BY <2>4, <2>5, <2>6, BeginWalks
<1>4. ASSUME NEW f \in Files, Import(r, f)
      PROVE  Walks(r, job[r])'
  <2>1. PICK rows : rows = [i \in DOMAIN f |-> [f[i] EXCEPT !.leaf = TRUE]]
    OBVIOUS
  <2>2. PICK j : j = [Idle EXCEPT !.op = "import", !.known = Committed, !.leaves = Leaves,
                     !.todo = rows]
    OBVIOUS
  <2>3. rows \in Seq(Def)
    <3>1. f \in Seq(Def) /\ \A i \in DOMAIN f : f[i] \in Def
      BY InputAssumption
    <3>2. \A i \in DOMAIN f : [f[i] EXCEPT !.leaf = TRUE] \in Def
      BY <3>1 DEF Def
    <3>3. DOMAIN f = 1..Len(f) /\ Len(f) \in Nat
      BY <3>1
    <3>4. rows \in [1..Len(f) -> Def]
      BY <2>1, <3>2, <3>3
    <3> QED
      BY <3>3, <3>4, IsASeq
  <2>4. j \in Job /\ j.op = "import"
    BY <1>0, <2>2, <2>3, IdleJob DEF Job, Idle
  <2>5. job'[r] = Resume(j)
    BY <1>0, <1>4, <2>1, <2>2 DEF Import, Begin, TypeOK
  <2>6. job'[r].op = "import"
    BY <2>4, <2>5, ResumeIs DEF Resumed
  <2> QED
    BY <2>6 DEF Walks
<1>5. ASSUME NEW c \in Codes, NEW v \in BOOLEAN, StartPatch(r, c, v)
      PROVE  Walks(r, job[r])'
  <2>1. job'[r].op = "patch"
    BY <1>0, <1>5 DEF StartPatch, Begin, TypeOK, Idle
  <2> QED
    BY <2>1 DEF Walks
<1> QED
  BY <1>1, <1>2, <1>3, <1>4, <1>5

\* What a step of r leaves alone.
Spares(r) ==
    /\ Grows
    /\ \A q \in Requests \ {r} :
          mine'[q] = mine[q] /\ marked'[q] = marked[q] /\ job'[q] = job[q]

LEMMA StepSpares ==
    ASSUME IInv, NEW r \in Requests
    PROVE  /\ \A j : Begin(r, j) => Spares(r)
           /\ Find(r) \/ Mark(r) \/ Insert(r) \/ FindJournals(r) \/ Update(r) \/ Fail(r)
              => Spares(r)
           /\ Commit(r) => Spares(r)
<1>1. TypeOK /\ (chart' = chart => Grows)
  BY DEF IInv, TypeOK, Grows, Committed
<1>2. Commit(r) => Grows
  BY CommitIs DEF Grows, Committed
<1>3. \A j : Begin(r, j) => Spares(r)
  BY <1>1 DEF Begin, Spares, TypeOK
<1>4. Commit(r) => Spares(r)
  BY <1>1, <1>2 DEF Commit, Spares, TypeOK
<1>5. Find(r) \/ FindJournals(r) \/ Update(r) \/ Fail(r) => Spares(r)
  BY <1>1 DEF Find, FindJournals, Update, Fail, Spares, TypeOK
<1>6. Mark(r) \/ Insert(r) => Spares(r)
  BY <1>1 DEF Mark, Insert, Spares, TypeOK
<1> QED
  BY <1>3, <1>4, <1>5, <1>6

\* Together.
LEMMA Together ==
    ASSUME IInv, LInv, NEW r \in Requests, Spares(r), Walks(r, job[r])'
    PROVE  LInv'
<1>1. ASSUME NEW q \in Requests, q # r
      PROVE  Walks(q, job[q])'
  BY <1>1, AsideWalks DEF LInv, Spares
<1> QED
  BY <1>1 DEF LInv

LEMMA InitLoads == Init => LInv
BY DEF Init, LInv, Walks, Idle

LEMMA StepLoads == IInv /\ LInv /\ [Next]_vars => LInv'
<1> SUFFICES ASSUME IInv, LInv, [Next]_vars PROVE LInv'
  OBVIOUS
<1>1. CASE UNCHANGED vars
  <2>1. UNCHANGED <<chart, mine, marked, job>>
    BY <1>1 DEF vars
  <2>2. Grows
    BY <2>1 DEF IInv, TypeOK, Grows, Committed
  <2> QED
    BY <2>1, <2>2, AsideWalks DEF LInv
<1>2. ASSUME NEW r \in Requests, Find(r) \/ Mark(r) \/ Insert(r)
      PROVE  LInv'
  <2>1. Walks(r, job[r])
    BY DEF LInv
  <2>2. Walks(r, job[r])'
    BY <1>2, <2>1, FindWalks, MarkWalks, InsertWalks
  <2> QED
    BY <1>2, <2>2, StepSpares, Together
<1>3. ASSUME NEW r \in Requests, FindJournals(r) \/ Update(r) \/ Commit(r) \/ Fail(r)
      PROVE  LInv'
  <2>1. Walks(r, job[r])
    BY DEF LInv
  <2>2. Walks(r, job[r])'
    BY <1>3, <2>1, OtherWalks
  <2> QED
    BY <1>3, <2>2, StepSpares, Together
<1>4. ASSUME NEW r \in Requests,
             \/ \E d \in Creations : Create(r, d)
             \/ \E p \in DOMAIN Plans : Load(r, Plans[p])
             \/ StartSeed(r)
             \/ \E f \in Files : Import(r, f)
             \/ \E c \in Codes : StartDeactivate(r, c)
             \/ \E c \in Codes, v \in BOOLEAN : StartPatch(r, c, v)
      PROVE  LInv'
  <2>1. Walks(r, job[r])'
    BY <1>4, Begun DEF StartDeactivate
  <2>2. \E j : Begin(r, j)
    BY <1>4 DEF Create, Load, StartSeed, Import, StartDeactivate, StartPatch
  <2> QED
    BY <2>1, <2>2, StepSpares, Together
<1> QED
  BY <1>1, <1>2, <1>3, <1>4 DEF Next

LoadInv == IInv /\ LInv

LEMMA LoadInvariant == Spec => []LoadInv
<1>1. Init => LoadInv
  BY InitInv, InitLoads DEF LoadInv
<1>2. LoadInv /\ [Next]_vars => LoadInv'
  BY StepInv, StepLoads DEF LoadInv
<1> QED
  BY <1>1, <1>2, PTL DEF Spec

-----------------------------------------------------------------------------
(* Nobody waits in a circle *)

\* Two lists of one operation with the same accounts are one list.
LEMMA OneList ==
    ASSUME NEW op, NEW P \in Lists(op), NEW Q \in Lists(op),
           {P[i].code : i \in DOMAIN P} = {Q[i].code : i \in DOMAIN Q}
    PROVE  P = Q
<1>1. CASE op = "seed"
  BY <1>1 DEF Lists
<1>2. CASE op # "seed"
  <2>1. PICK p \in DOMAIN Plans : P = Plans[p].accounts
    BY <1>2 DEF Lists
  <2>2. PICK q \in DOMAIN Plans : Q = Plans[q].accounts
    BY <1>2 DEF Lists
  <2>3. {Plans[p].accounts[i].code : i \in DOMAIN Plans[p].accounts} =
        {Plans[q].accounts[i].code : i \in DOMAIN Plans[q].accounts}
    BY <2>1, <2>2
  <2>4. Plans[p].accounts = Plans[q].accounts
    BY <2>3, TemplateAssumption
  <2> QED
    BY <2>1, <2>2, <2>4
<1> QED
  BY <1>1, <1>2

\* r is past n definitions of P.
At(r, P, n) == n \in 0..Len(P) /\ Along(job[r], P, n) /\ Traced(r, job[r], P, n)

\* All that the request behind might have inserted, the one ahead knows.
LEMMA Behind ==
    ASSUME IInv, NEW r \in Requests, NEW q \in Requests, r # q,
           NEW P \in Seq(Def), NEW n, NEW k, At(r, P, n), At(q, P, k), n <= k
    PROVE  Pending(r) = {}
<1> SUFFICES ASSUME NEW c \in Pending(r) PROVE FALSE
  OBVIOUS
<1>1. PICK m \in 1..n : P[m].code = c
  BY DEF At, Traced
<1>2. n \in 0..Len(P) /\ k \in 0..Len(P) /\ Len(P) \in Nat
  BY DEF At
<1>3. m \in 1..k
  BY <1>1, <1>2
<1>4. c \in job[q].known
  BY <1>1, <1>3 DEF At, Along
<1>5. Knows(q, job[q]) /\ Knows(r, job[r]) /\ Pending(r) \cap Pending(q) = {}
  BY DEF IInv, Orderly, Apart
<1> QED
  BY <1>4, <1>5 DEF Knows

\* A load waits for a code another one inserted or for a parent it marked.
LEMMA WaitIs ==
    ASSUME IInv, NEW r \in Requests, NEW q \in Requests,
           job[r].op \in {"load", "seed"}, job[q].op \in {"load", "seed"}, WaitsFor(r, q)
    PROVE  \/ /\ job[r].pc = "insert" /\ Head(job[r].todo).code \in Pending(q)
           \/ /\ job[r].pc = "next" /\ Under(job[r]) # NoCode /\ LeafFor(r, Under(job[r]))
              /\ Under(job[r]) \notin marked[r] \cup Pending(r)
              /\ Under(job[r]) \in marked[q]
<1>1. job[r].pc # "update"
  BY DEF IInv, Orderly, Staged
<1>2. Held(q) = marked[q]
  BY DEF Held
<1>3. ParentOf(r, Head(job[r].todo)) = Under(job[r])
  BY DEF ParentOf, Under
<1> QED
  BY <1>1, <1>2, <1>3 DEF WaitsFor

\* Where t inserts under p, s, which is ahead, does not wait for p.
LEMMA AheadSettled ==
    ASSUME IInv, NEW s \in Requests, NEW t \in Requests,
           NEW P \in Seq(Def), NEW n, NEW k, At(s, P, n), At(t, P, k), k < n,
           job[t].pc = "insert", Head(job[t].todo).code \in Pending(s),
           NEW p, p = Under(job[t]), p # NoCode, p \in job[s].known
    PROVE  Settled(s, job[s], p)
<1>1. PICK j : j = job[t]
  OBVIOUS
<1>2. /\ j \in Job /\ j.todo # << >> /\ Head(j.todo).code \notin j.known /\ Along(j, P, k)
      /\ k \in 0..Len(P) /\ n \in 0..Len(P) /\ Len(P) \in Nat
  BY <1>1 DEF IInv, TypeOK, Orderly, Staged, At
<1>3. k + 1 \in 0..Len(P) /\ Head(j.todo) = P[k + 1]
  BY <1>2, PastHead
<1>4. PICK m : m = k + 1
  OBVIOUS
<1>5. m \in 1..n
  BY <1>2, <1>4
<1>6. First(P, m)
  <2>1. \A i \in 1..(m - 1) : i \in 1..k
    BY <1>2, <1>4
  <2> QED
    BY <1>2, <1>3, <1>4, <2>1 DEF First, Along
<1>7. P[m].parent = p
  BY <1>1, <1>3, <1>4 DEF Under
<1>8. P[m].code \in Pending(s)
  BY <1>1, <1>3, <1>4
<1> QED
  BY <1>5, <1>6, <1>7, <1>8 DEF At, Traced

LEMMA NoCircle == IInv /\ LInv => SamePlanNoDeadlock
<1> SUFFICES ASSUME IInv, LInv, NEW G \in SUBSET Requests, G # {},
                    \A r, q \in G : /\ job[r].op \in {"load", "seed"}
                                    /\ job[q].op = job[r].op /\ job[q].goal = job[r].goal
             PROVE  \E r \in G : \A q \in G \ {r} : ~WaitsFor(r, q)
  BY DEF SamePlanNoDeadlock
<1>1. PICK P : P \in Seq(Def) /\ \A r \in G : \E n : At(r, P, n)
  <2>1. PICK g \in G : TRUE
    OBVIOUS
  <2>2. \A r \in G : \E Q \in Lists(job[r].op) : \E n : At(r, Q, n)
    BY DEF LInv, Walks, At
  <2>3. PICK P \in Lists(job[g].op) : \E n : At(g, P, n)
    BY <2>1, <2>2
  <2>4. ASSUME NEW r \in G
        PROVE  \E n : At(r, P, n)
    <3>1. PICK Q \in Lists(job[r].op) : \E n : At(r, Q, n)
      BY <2>2
    <3>2. /\ job[r].op = job[g].op /\ job[r].goal = job[g].goal
          /\ job[g].goal = {P[i].code : i \in DOMAIN P}
          /\ job[r].goal = {Q[i].code : i \in DOMAIN Q}
      BY <2>1, <2>3, <3>1 DEF At, Along
    <3>3. PICK op : op = job[g].op
      OBVIOUS
    <3>4. P \in Lists(op) /\ Q \in Lists(op)
      BY <2>3, <3>1, <3>2, <3>3
    <3>5. {P[i].code : i \in DOMAIN P} = {Q[i].code : i \in DOMAIN Q}
      BY <3>2
    <3>6. P = Q
      BY <3>4, <3>5, OneList
    <3> QED
      BY <3>1, <3>6
  <2>5. P \in Seq(Def)
    BY <2>3, ListType
  <2> QED
    BY <2>4, <2>5
<1>2. ASSUME NEW r \in G, NEW q \in G, r # q, Pending(r) # {}
      PROVE  /\ Pending(q) = {}
             /\ \A n, k : At(r, P, n) /\ At(q, P, k) => k < n
  <2>1. ASSUME NEW n, NEW k, At(r, P, n), At(q, P, k)
        PROVE  k < n /\ Pending(q) = {}
    <3>1. n \in Nat /\ k \in Nat
      BY <2>1, <1>1 DEF At
    <3>2. r \in Requests /\ q \in Requests /\ P \in Seq(Def)
      BY <1>1
    <3>3. ~(n <= k)
      BY <1>2, <2>1, <3>2, Behind
    <3>4. k <= n
      BY <3>1, <3>3
    <3>5. Pending(q) = {}
      BY <1>2, <2>1, <3>2, <3>4, Behind
    <3> QED
      BY <3>1, <3>3, <3>5
  <2> QED
    BY <1>1, <2>1
<1>3. \A r \in G : /\ Pending(r) = {} => marked[r] \subseteq {Under(job[r])}
                   /\ Pending(r) = {} /\ job[r].pc # "insert" => marked[r] = {}
  BY <1>1 DEF At, Traced
<1>4. CASE \A r \in G : Pending(r) = {}
  <2>1. CASE \E r \in G : job[r].pc = "insert"
    <3>1. PICK r \in G : job[r].pc = "insert"
      BY <2>1
    <3>2. \A q \in G : ~WaitsFor(r, q)
      BY <1>4, <3>1, WaitIs
    <3> QED
      BY <3>2
  <2>2. CASE \A r \in G : job[r].pc # "insert"
    <3>1. \A r, q \in G : ~WaitsFor(r, q)
      BY <1>3, <1>4, <2>2, WaitIs
    <3> QED
      BY <3>1
  <2> QED
    BY <2>1, <2>2
<1>5. ASSUME NEW s \in G, Pending(s) # {}
      PROVE  \E r \in G : \A q \in G \ {r} : ~WaitsFor(r, q)
  <2>1. ASSUME NEW t \in G \ {s}, WaitsFor(s, t)
        PROVE  \A q \in G \ {t} : ~WaitsFor(t, q)
    <3>1. Pending(t) = {}
      BY <1>2, <1>5, <2>1
    <3>2. PICK p : p = Under(job[s])
      OBVIOUS
    <3>3. /\ p # NoCode /\ LeafFor(s, p) /\ p \notin marked[s] \cup Pending(s)
          /\ p \in marked[t]
      BY <2>1, <3>1, <3>2, WaitIs
    <3>4. job[t].pc = "insert" /\ p = Under(job[t])
      BY <1>3, <3>1, <3>3
    <3>5. p \in job[s].known
      BY <3>2, <3>3 DEF Under
    <3>6. ~Settled(s, job[s], p)
      BY <3>3 DEF LeafFor, Settled
    <3> SUFFICES ASSUME NEW q \in G \ {t}, WaitsFor(t, q) PROVE FALSE
      OBVIOUS
    <3>7. Head(job[t].todo).code \in Pending(q)
      BY <3>4, WaitIs
    <3>8. q = s
      BY <1>2, <1>5, <3>7
    <3>9. PICK n, k : At(s, P, n) /\ At(t, P, k)
      BY <1>1, <2>1
    <3>10. k < n
      BY <1>2, <1>5, <2>1, <3>9
    <3> QED
      BY <1>1, <2>1, <3>3, <3>4, <3>5, <3>6, <3>7, <3>8, <3>9, <3>10, AheadSettled
  <2> QED
    BY <2>1
<1> QED
  BY <1>4, <1>5

\* Concurrent loads of one template (or of the seed): whatever the template, the
\* chart and the number of requests, and however they are interleaved with other
\* requests, they never wait for each other in a circle.
THEOREM NoLoadDeadlock == Spec => []SamePlanNoDeadlock
<1>1. LoadInv => SamePlanNoDeadlock
  BY NoCircle DEF LoadInv
<1> QED
  BY <1>1, LoadInvariant, PTL
=============================================================================
