----------------------- MODULE ApprovalQueueOrderProofs -----------------------
(***************************************************************************)
(* The order of the queue and the audit log as the explanation of every    *)
(* decision, for every finite table and every value of the bounds.         *)
(***************************************************************************)
EXTENDS ApprovalQueueStepProofs

\* Positions count from 1 and do not fall behind rank, however many rows wait.
UpTo(n) == {q \in Queued : queue_position[q] <= n}
RankInv ==
    /\ \A q \in Queued : queue_position[q] >= 1
    /\ \A n \in Nat : Cardinality(UpTo(n)) <= n

\* What the types say of the rows that wait.
LEMMA QueuedRows ==
    ASSUME IInv
    PROVE  /\ \A q \in Queued : q \in Items /\ queue_position[q] \in Int /\ q \notin Active
           /\ \A S \in SUBSET Queued : IsFiniteSet(S) /\ Cardinality(S) \in Nat
           /\ \A S \in SUBSET Queued : \A T \in SUBSET S : Cardinality(T) <= Cardinality(S)
           /\ \A S \in SUBSET Queued, i \in Items : \A T \in SUBSET (S \cup {i}) :
                 Cardinality(T) \in Nat /\ Cardinality(T) <= Cardinality(S) + 1
<1>1. ASSUME NEW q \in Queued
      PROVE  q \in Items /\ queue_position[q] \in Int /\ q \notin Active
  BY <1>1, IdleRow DEF IInv, TypeOK, ColumnsAgree, Queued
<1>2. \A S \in SUBSET Queued : IsFiniteSet(S) /\ Cardinality(S) \in Nat
  BY ItemsAssumption, FS_Subset, FS_CardinalityType DEF Queued
<1>3. \A S \in SUBSET Queued : \A T \in SUBSET S : Cardinality(T) <= Cardinality(S)
  BY <1>2, FS_Subset
<1>4. ASSUME NEW S \in SUBSET Queued, NEW i \in Items, NEW T \in SUBSET (S \cup {i})
      PROVE  Cardinality(T) \in Nat /\ Cardinality(T) <= Cardinality(S) + 1
  <2>1. IsFiniteSet(S) /\ Cardinality(S) \in Nat
    BY <1>2
  <2>2. IsFiniteSet(S \cup {i}) /\ Cardinality(S \cup {i}) <= Cardinality(S) + 1
    <3>1. /\ IsFiniteSet(S \cup {i})
          /\ Cardinality(S \cup {i}) = IF i \in S THEN Cardinality(S) ELSE Cardinality(S) + 1
      BY <2>1, FS_AddElement
    <3>2. CASE i \in S
      BY <2>1, <3>1, <3>2
    <3>3. CASE i \notin S
      BY <2>1, <3>1, <3>3
    <3> QED BY <3>2, <3>3
  <2>3. Cardinality(S \cup {i}) \in Nat
    BY <2>2, FS_CardinalityType
  <2>4. IsFiniteSet(T) /\ Cardinality(T) <= Cardinality(S \cup {i})
    BY <2>2, FS_Subset
  <2>5. Cardinality(T) \in Nat
    BY <2>4, FS_CardinalityType
  <2> QED BY <2>1, <2>2, <2>3, <2>4, <2>5
<1> QED BY <1>1, <1>2, <1>3, <1>4

\* Putting a row behind P, a first part of the queue, at the position |P| + 1, with
\* every other row moved by one: what a new row, a revocation to the queue and a
\* reorder (both with P empty) have in common.
LEMMA InsertRank ==
    ASSUME IInv, RankInv, NEW i \in Items, NEW P \in SUBSET Queued, i \notin P,
           \A p \in P, q \in Queued \ P : queue_position[p] <= queue_position[q],
           queue_position' = [Shifted(Queued \ P, 1) EXCEPT ![i] = Cardinality(P) + 1],
           Queued' = Queued \cup {i}
    PROVE  RankInv'
<1>1. Cardinality(P) \in Nat
  BY QueuedRows
<1>2. /\ queue_position'[i] = Cardinality(P) + 1
      /\ \A q \in P : queue_position'[q] = queue_position[q]
      /\ \A q \in Queued \ P : q # i => queue_position'[q] = queue_position[q] + 1
  BY QueuedRows DEF Shifted
<1>3. ASSUME NEW q \in Queued' PROVE queue_position'[q] >= 1
  <2>1. CASE q = i
    BY <1>1, <1>2, <2>1
  <2>2. CASE q # i
    <3>1. q \in Queued /\ queue_position[q] \in Int /\ queue_position[q] >= 1
      BY <2>2, QueuedRows DEF RankInv
    <3>2. queue_position'[q] \in {queue_position[q], queue_position[q] + 1}
      BY <1>2, <2>2, <3>1
    <3> QED BY <3>1, <3>2
  <2> QED BY <2>1, <2>2
<1>4. ASSUME NEW n \in Nat PROVE Cardinality(UpTo(n)') <= n
  <2>1. \A m \in Nat : UpTo(m) \in SUBSET Queued /\ Cardinality(UpTo(m)) \in Nat /\ Cardinality(UpTo(m)) <= m
    <3>1. ASSUME NEW m \in Nat PROVE UpTo(m) \in SUBSET Queued
      BY DEF UpTo
    <3> QED BY <3>1, QueuedRows DEF RankInv
  <2>2. UpTo(n)' \subseteq Queued \cup {i}
    BY DEF UpTo
  <2>3. CASE n <= Cardinality(P)
    <3>1. UpTo(n)' \in SUBSET UpTo(n)
      BY <1>1, <1>2, <2>2, <2>3, QueuedRows DEF UpTo
    <3>2. UpTo(n)' \in SUBSET Queued
      BY <3>1, <2>1
    <3> QED BY <2>1, <3>1, <3>2, QueuedRows
  <2>4. CASE n > Cardinality(P) /\ \E q \in Queued \ P : queue_position[q] <= n - 1
    <3>1. n - 1 \in Nat
      BY <1>1, <2>4
    <3>2. \A p \in P : queue_position[p] <= n - 1
      BY <2>4, <3>1, QueuedRows
    <3>3. ASSUME NEW q \in UpTo(n)', q # i PROVE q \in UpTo(n - 1)
      <4>1. q \in Queued /\ queue_position'[q] <= n /\ queue_position[q] \in Int
        BY <2>2, <3>3, QueuedRows DEF UpTo
      <4>2. CASE q \in P
        BY <3>2, <4>1, <4>2 DEF UpTo
      <4>3. CASE q \notin P
        <5>1. queue_position'[q] = queue_position[q] + 1
          BY <1>2, <3>3, <4>1, <4>3
        <5>2. queue_position[q] <= n - 1
          BY <4>1, <5>1
        <5> QED BY <4>1, <5>2 DEF UpTo
      <4> QED BY <4>2, <4>3
    <3>4. UpTo(n)' \in SUBSET (UpTo(n - 1) \cup {i})
      BY <3>3
    <3>5. UpTo(n - 1) \in SUBSET Queued /\ Cardinality(UpTo(n - 1)) \in Nat
          /\ Cardinality(UpTo(n - 1)) <= n - 1
      BY <2>1, <3>1
    <3>6. Cardinality(UpTo(n)') \in Nat /\ Cardinality(UpTo(n)') <= Cardinality(UpTo(n - 1)) + 1
      BY <3>4, <3>5, QueuedRows
    <3> QED BY <3>5, <3>6
  <2>5. CASE n > Cardinality(P) /\ \A q \in Queued \ P : ~(queue_position[q] <= n - 1)
    <3>1. ASSUME NEW q \in UpTo(n)', q # i PROVE q \in P
      <4>1. q \in Queued /\ queue_position'[q] <= n /\ queue_position[q] \in Int
        BY <2>2, <3>1, QueuedRows DEF UpTo
      <4>2. SUFFICES ASSUME q \notin P PROVE FALSE
        OBVIOUS
      <4>3. queue_position'[q] = queue_position[q] + 1
        BY <1>2, <3>1, <4>1, <4>2
      <4>4. queue_position[q] <= n - 1
        BY <4>1, <4>3
      <4> QED BY <2>5, <4>1, <4>2, <4>4
    <3>2. UpTo(n)' \in SUBSET (P \cup {i})
      BY <3>1
    <3>3. Cardinality(UpTo(n)') \in Nat /\ Cardinality(UpTo(n)') <= Cardinality(P) + 1
      BY <3>2, QueuedRows
    <3> QED BY <1>1, <2>5, <3>3
  <2> QED BY <1>1, <2>3, <2>4, <2>5
<1> QED BY <1>3, <1>4 DEF RankInv

\* Taking the first row out and moving the others forward.  No other row is at
\* position 1, so none falls below it.
LEMMA AdvanceRank ==
    ASSUME IInv, RankInv, NEW first \in Front,
           queue_position' = [Shifted(Queued \ {first}, -1) EXCEPT ![first] = Null],
           Queued' = Queued \ {first}
    PROVE  RankInv'
<1>1. /\ first \in Queued /\ \A q \in Queued : queue_position[first] <= queue_position[q]
      /\ \A q \in Queued' : q \in Queued /\ q # first /\ queue_position'[q] = queue_position[q] - 1
  BY QueuedRows DEF Front, Shifted
<1>2. \A m \in Nat : UpTo(m) \in SUBSET Queued /\ Cardinality(UpTo(m)) \in Nat /\ Cardinality(UpTo(m)) <= m
  <2>1. ASSUME NEW m \in Nat PROVE UpTo(m) \in SUBSET Queued
    BY DEF UpTo
  <2> QED BY <2>1, QueuedRows DEF RankInv
<1>3. ASSUME NEW q \in Queued' PROVE queue_position'[q] >= 1
  <2>1. q \in Queued /\ q # first /\ queue_position[q] \in Int /\ queue_position[q] >= 1
    BY <1>1, QueuedRows DEF RankInv
  <2>2. SUFFICES ASSUME queue_position[q] = 1 PROVE FALSE
    BY <1>1, <2>1
  <2>3. {first, q} \in SUBSET UpTo(1)
    BY <1>1, <2>1, <2>2, QueuedRows DEF UpTo
  <2>4. Cardinality({first} \cup {q}) = 2
    <3>1. IsFiniteSet({first}) /\ Cardinality({first}) = 1 /\ q \notin {first}
      BY <2>1, FS_Singleton
    <3>2. Cardinality({first} \cup {q}) = Cardinality({first}) + 1
      BY <3>1, FS_AddElement
    <3> QED BY <3>1, <3>2
  <2>5. {first, q} = {first} \cup {q}
    OBVIOUS
  <2>6. Cardinality({first, q}) <= Cardinality(UpTo(1))
    BY <1>2, <2>3, QueuedRows
  <2> QED BY <1>2, <2>4, <2>5, <2>6
<1>4. ASSUME NEW n \in Nat PROVE Cardinality(UpTo(n)') <= n
  <2>1. \A q \in UpTo(n)' : q \in UpTo(n + 1) /\ q # first
    BY <1>1, QueuedRows DEF UpTo
  <2>2. CASE UpTo(n)' = {}
    BY <2>2, FS_EmptySet
  <2>3. CASE UpTo(n)' # {}
    <3>1. first \in UpTo(n + 1)
      <4>1. PICK q : q \in UpTo(n)'
        BY <2>3
      <4>2. q \in Queued /\ queue_position[q] <= n + 1
        BY <2>1, <4>1 DEF UpTo
      <4> QED BY <1>1, <4>2, QueuedRows DEF UpTo
    <3>2. IsFiniteSet(UpTo(n + 1)) /\ Cardinality(UpTo(n + 1)) \in Nat /\ Cardinality(UpTo(n + 1)) <= n + 1
      BY <1>2, QueuedRows
    <3>3. Cardinality(UpTo(n + 1) \ {first}) <= n
      <4>1. Cardinality(UpTo(n + 1) \ {first}) = Cardinality(UpTo(n + 1)) - 1
        BY <3>1, <3>2, FS_RemoveElement
      <4> QED BY <3>2, <4>1
    <3>4. UpTo(n)' \in SUBSET (UpTo(n + 1) \ {first})
      BY <2>1
    <3>5. UpTo(n + 1) \ {first} \in SUBSET Queued
      BY <1>2
    <3>6. Cardinality(UpTo(n)') <= Cardinality(UpTo(n + 1) \ {first})
      BY <3>4, <3>5, QueuedRows
    <3>7. Cardinality(UpTo(n)') \in Nat /\ Cardinality(UpTo(n + 1) \ {first}) \in Nat
      BY <3>4, <3>5, QueuedRows
    <3> QED BY <3>3, <3>6, <3>7
  <2> QED BY <2>2, <2>3
<1> QED BY <1>3, <1>4 DEF RankInv

\* Every other step leaves the waiting rows and their positions alone.
LEMMA SameRank ==
    ASSUME IInv, RankInv, Queued' = Queued,
           \A q \in Queued : queue_position'[q] = queue_position[q]
    PROVE  RankInv'
<1>1. \A n \in Nat : UpTo(n)' = UpTo(n)
  BY DEF UpTo
<1> QED BY <1>1 DEF RankInv

(***************************************************************************)
(* What each call does to the queue                                        *)
(***************************************************************************)
\* A new row goes behind a first part of the queue.
LEMMA CreateQueue ==
    ASSUME IInv, NEW i \in Items, NEW label \in ClassificationLabel, CreateQueued(i, label)
    PROVE  /\ i \notin Queued /\ Queued' = Queued \cup {i}
           /\ \E P \in SUBSET Queued :
                 /\ \A p \in P, q \in Queued \ P : queue_position[p] <= queue_position[q]
                 /\ queue_position' = [Shifted(Queued \ P, 1) EXCEPT ![i] = Cardinality(P) + 1]
<1>1. i \notin Queued
  BY StatusFacts DEF CreateQueued, Rows, Queued, ApprovalStatus
<1>2. Queued' = Queued \cup {i}
  BY DEF CreateQueued, Queued, IInv, TypeOK
<1>3. PICK P \in SUBSET Queued :
          /\ InsertBehind(label, P)
          /\ queue_position' = [Shifted(Queued \ P, 1) EXCEPT ![i] = Cardinality(P) + 1]
  BY DEF CreateQueued
<1>4. \A p \in P, q \in Queued \ P : queue_position[p] <= queue_position[q]
  BY <1>3 DEF InsertBehind
<1> QED BY <1>1, <1>2, <1>3, <1>4

\* A revocation to the queue and a reorder put a row in front of all others.
LEMMA ToFront ==
    ASSUME IInv, NEW i \in Items, RevokeToQueue(i) \/ Reorder(i)
    PROVE  /\ Queued' = Queued \cup {i}
           /\ queue_position' = [Shifted(Queued, 1) EXCEPT ![i] = 1]
           /\ RevokeToQueue(i) => i \notin Queued
<1>1. CASE RevokeToQueue(i)
  BY <1>1 DEF RevokeToQueue, Queued, IInv, TypeOK
<1>2. CASE Reorder(i)
  <2>1. i \in Queued /\ Queued' = Queued
    BY <1>2 DEF Reorder, Queued
  <2>2. ~RevokeToQueue(i)
    BY <2>1 DEF RevokeToQueue, Queued
  <2> QED BY <1>2, <2>1, <2>2 DEF Reorder
<1> QED BY <1>1, <1>2

\* An answer takes the first row out of the queue, or finds no queue.
LEMMA AnswerQueue ==
    ASSUME IInv, NEW i \in Items, NEW r \in ApprovalResolution,
           ResolveLast(i, r) \/ ResolveAndAdvance(i, r)
    PROVE  \/ Queued = {} /\ Queued' = {}
           \/ \E first \in Front :
                 /\ queue_position' = [Shifted(Queued \ {first}, -1) EXCEPT ![first] = Null]
                 /\ Queued' = Queued \ {first}
<1>1. r # "queued" /\ i \notin Queued
  BY StatusFacts, QueuedRows DEF ResolveLast, ResolveAndAdvance
<1>2. CASE ResolveLast(i, r)
  BY <1>1, <1>2 DEF ResolveLast, Queued, IInv, TypeOK
<1>3. CASE ResolveAndAdvance(i, r)
  <2>1. PICK first \in Front :
            /\ status' = [status EXCEPT ![i] = r, ![first] = "pending"]
            /\ queue_position' = [Shifted(Queued \ {first}, -1) EXCEPT ![first] = Null]
    BY <1>3 DEF ResolveAndAdvance
  <2>2. Queued' = Queued \ {first}
    BY <1>1, <2>1 DEF Queued, Front, IInv, TypeOK
  <2> QED BY <2>1, <2>2
<1> QED BY <1>2, <1>3

\* The ways a step can end, by what they do to the queue.
LEMMA QueueCases ==
    ASSUME IInv, [Next]_vars
    PROVE  \/ \E i \in Items, label \in ClassificationLabel : CreateQueued(i, label)
           \/ \E i \in Items, r \in ApprovalResolution : ResolveLast(i, r) \/ ResolveAndAdvance(i, r)
           \/ \E i \in Items : RevokeToQueue(i) \/ Reorder(i)
           \/ Queued' = Queued /\ \A q \in Queued : queue_position'[q] = queue_position[q]
<1> USE DEF IInv, TypeOK
<1>1. ASSUME NEW i \in Items, NEW label \in ClassificationLabel, CreateActive(i, label)
      PROVE  Queued' = Queued /\ queue_position' = queue_position
  BY <1>1, StatusFacts DEF CreateActive, Rows, Queued, ApprovalStatus
<1>2. ASSUME NEW i \in Items, RevokeToActive(i)
      PROVE  Queued' = Queued /\ \A q \in Queued : queue_position'[q] = queue_position[q]
  BY <1>2 DEF RevokeToActive, Queued
<1>3. ASSUME NEW i \in Items, SendReminder(i) \/ Hold(i)
      PROVE  Queued' = Queued /\ queue_position' = queue_position
  <2>1. status[i] # "queued"
    BY <1>3, QueuedRows DEF SendReminder, Hold, PastNotice, Queued
  <2>2. \E s \in ActiveStatus : status' = [status EXCEPT ![i] = s]
    BY <1>3, ReminderStatusType, StatusFacts DEF SendReminder, Hold
  <2>3. queue_position' = queue_position
    BY <1>3 DEF SendReminder, Hold
  <2> QED BY <2>1, <2>2, <2>3, StatusFacts DEF Queued
<1>4. ASSUME UNCHANGED <<status, queue_position>>
      PROVE  Queued' = Queued /\ queue_position' = queue_position
  BY <1>4 DEF Queued
<1>5. ASSUME NEW i \in Items, NEW r, ResolveReplay(i, r) \/ ResolveRejected(i, r)
      PROVE  UNCHANGED <<status, queue_position>>
  BY <1>5 DEF ResolveReplay, ResolveRejected
<1>6. ASSUME NEW i \in Items, RevokeRejected(i) \/ InitialNotice(i)
      PROVE  UNCHANGED <<status, queue_position>>
  BY <1>6 DEF RevokeRejected, InitialNotice
<1>7. ASSUME Tick \/ UNCHANGED vars
      PROVE  UNCHANGED <<status, queue_position>>
  BY <1>7 DEF Tick, vars
<1> QED BY <1>1, <1>2, <1>3, <1>4, <1>5, <1>6, <1>7
        DEF Next, ServiceCall, CreateFromClassification, ResolveActiveItem, RevokeDecision,
            ReorderQueue, CheckAndSendReminder

\* Every step of the queue keeps the rank.
LEMMA RankStep == ASSUME IInv, RankInv, [Next]_vars PROVE RankInv'
<1>1. ASSUME NEW i \in Items, NEW label \in ClassificationLabel, CreateQueued(i, label)
      PROVE  RankInv'
  BY <1>1, CreateQueue, InsertRank
<1>2. ASSUME NEW i \in Items, NEW r \in ApprovalResolution, ResolveLast(i, r) \/ ResolveAndAdvance(i, r)
      PROVE  RankInv'
  <2>1. CASE Queued = {} /\ Queued' = {}
    BY <2>1, SameRank
  <2> QED BY <1>2, <2>1, AnswerQueue, AdvanceRank
<1>3. ASSUME NEW i \in Items, RevokeToQueue(i) \/ Reorder(i)
      PROVE  RankInv'
  <2>1. Cardinality({}) = 0 /\ Queued \ {} = Queued
    BY FS_EmptySet
  <2>2. queue_position' = [Shifted(Queued \ {}, 1) EXCEPT ![i] = Cardinality({}) + 1]
    BY <1>3, <2>1, ToFront
  <2>3. {} \in SUBSET Queued /\ i \notin {}
    OBVIOUS
  <2>4. Queued' = Queued \cup {i}
    BY <1>3, ToFront
  <2> QED BY <2>2, <2>3, <2>4, InsertRank
<1> QED BY <1>1, <1>2, <1>3, QueueCases, SameRank

\* Positions count from 1 and never fall behind rank, at any position.
LEMMA RankInvariance == Spec => []RankInv
<1>1. Init => RankInv
  <2> SUFFICES ASSUME Init PROVE RankInv
    OBVIOUS
  <2>1. Queued = {}
    BY StatusFacts DEF Init, Queued, ApprovalStatus
  <2>2. \A n \in Nat : UpTo(n) = {}
    BY <2>1 DEF UpTo
  <2> QED BY <2>1, <2>2, FS_EmptySet DEF RankInv
<1> QED BY <1>1, RankStep, Invariance, PTL DEF Spec

\* The positions of waiting rows never fall behind their rank, for any number of rows:
\* gaps appear, but position 1 is held once and nothing is counted below it.
THEOREM PositionsNeverCollapse == Spec => []PositionsAboveRank
<1>1. ASSUME RankInv PROVE PositionsAboveRank
  <2>1. \A n \in 1..MaxPosition : n \in Nat /\ UpTo(n) = {q \in Queued : queue_position[q] <= n}
    BY BoundAssumption DEF UpTo
  <2> QED BY <1>1, <2>1 DEF PositionsAboveRank, RankInv
<1> QED BY <1>1, RankInvariance, PTL

\* Moving every waiting row but those of a first part by one keeps their order.
LEMMA InsertKeepsOrder ==
    ASSUME IInv, NEW i \in Items, NEW P \in SUBSET Queued, NEW x \in Queued, NEW y \in Queued,
           x # i, y # i, queue_position[x] < queue_position[y],
           \A p \in P, q \in Queued \ P : queue_position[p] <= queue_position[q],
           queue_position' = [Shifted(Queued \ P, 1) EXCEPT ![i] = Cardinality(P) + 1]
    PROVE  queue_position'[x] < queue_position'[y]
<1>1. queue_position[x] \in Int /\ queue_position[y] \in Int /\ x \in Items /\ y \in Items
  BY QueuedRows
<1>2. /\ queue_position'[x] = IF x \in P THEN queue_position[x] ELSE queue_position[x] + 1
      /\ queue_position'[y] = IF y \in P THEN queue_position[y] ELSE queue_position[y] + 1
  BY <1>1 DEF Shifted
<1>3. y \in P => x \in P
  BY <1>1
<1> QED BY <1>1, <1>2, <1>3

\* Two waiting rows change their order only when the one behind is moved to the front
\* by an explicit reorder_queue.
THEOREM OrderIsKept == Spec => OnlyExplicitReorder
<1> DEFINE Step == \A x, y \in Queued \cap Queued' :
                      /\ queue_position[x] < queue_position[y]
                      /\ ~(queue_position'[x] < queue_position'[y])
                      => Reorder(y)
<1>1. IInv /\ RankInv /\ [Next]_vars => [Step]_vars
  <2> SUFFICES ASSUME IInv, RankInv, [Next]_vars,
                      NEW x \in Queued, NEW y \in Queued, x \in Queued', y \in Queued',
                      queue_position[x] < queue_position[y],
                      ~(queue_position'[x] < queue_position'[y])
               PROVE  Reorder(y)
    OBVIOUS
  <2>1. ASSUME NEW i \in Items, NEW label \in ClassificationLabel, CreateQueued(i, label)
        PROVE  FALSE
    <3>1. i # x /\ i # y
      BY <2>1, CreateQueue
    <3> QED BY <2>1, <3>1, CreateQueue, InsertKeepsOrder
  <2>2. ASSUME NEW i \in Items, NEW r \in ApprovalResolution, ResolveLast(i, r) \/ ResolveAndAdvance(i, r)
        PROVE  FALSE
    <3>1. PICK first \in Front :
              /\ queue_position' = [Shifted(Queued \ {first}, -1) EXCEPT ![first] = Null]
              /\ Queued' = Queued \ {first}
      BY <2>2, AnswerQueue
    <3>2. queue_position'[x] = queue_position[x] - 1 /\ queue_position'[y] = queue_position[y] - 1
      BY <3>1, QueuedRows DEF Shifted
    <3> QED BY <3>2, QueuedRows
  <2>3. ASSUME NEW i \in Items, RevokeToQueue(i) \/ Reorder(i) PROVE Reorder(y)
    <3>1. queue_position' = [Shifted(Queued, 1) EXCEPT ![i] = 1]
      BY <2>3, ToFront
    <3>2. \A q \in Queued : q # i => queue_position'[q] = queue_position[q] + 1
      BY <3>1, QueuedRows DEF Shifted
    <3>3. queue_position[x] \in Int /\ queue_position[y] \in Int /\ queue_position[x] >= 1
      BY QueuedRows DEF RankInv
    <3>4. CASE i = y
      BY <2>3, <3>4, ToFront
    <3>5. CASE i # y /\ i = x
      <4>1. queue_position'[x] = 1
        BY <3>1, <3>5, QueuedRows DEF Shifted
      <4> QED BY <3>2, <3>3, <3>5, <4>1
    <3>6. CASE i # y /\ i # x
      BY <3>2, <3>3, <3>6
    <3> QED BY <3>4, <3>5, <3>6
  <2> QED BY <2>1, <2>2, <2>3, QueueCases
<1> QED BY <1>1, Invariance, RankInvariance, PTL DEF Spec, OnlyExplicitReorder

\* The row the owner moved to the front is the one and only candidate for the next
\* promotion.
THEOREM ReorderedComesNext == Spec => ReorderedIsNextUp
<1> DEFINE Step == \A i \in Items : Reorder(i) => Front' = {i}
<1>1. IInv /\ RankInv /\ [Next]_vars => [Step]_vars
  <2> SUFFICES ASSUME IInv, RankInv, NEW i \in Items, Reorder(i) PROVE Front' = {i}
    OBVIOUS
  <2>1. /\ i \in Queued /\ Queued' = Queued
        /\ queue_position' = [Shifted(Queued, 1) EXCEPT ![i] = 1]
    BY ToFront DEF Reorder, Queued
  <2>2. queue_position'[i] = 1 /\ \A q \in Queued : q # i => queue_position'[q] = queue_position[q] + 1
    BY <2>1, QueuedRows DEF Shifted
  <2>3. ASSUME NEW q \in Queued, q # i
        PROVE  queue_position'[i] <= queue_position'[q] /\ ~(queue_position'[q] <= queue_position'[i])
    <3>1. queue_position[q] \in Int /\ queue_position[q] >= 1
      BY QueuedRows DEF RankInv
    <3> QED BY <2>2, <2>3, <3>1
  <2>4. queue_position'[i] <= queue_position'[i]
    BY <2>2
  <2> QED BY <2>1, <2>3, <2>4 DEF Front
<1> QED BY <1>1, Invariance, RankInvariance, PTL DEF Spec, ReorderedIsNextUp

----------------------------------------------------------------------------
(***************************************************************************)
(* The audit log                                                           *)
(***************************************************************************)
\* What one more entry does to the latest applied one.
LEMMA LatestAfter ==
    ASSUME NEW log \in Seq(AuditEvent), NEW e \in AuditEvent, NEW r \in ApprovalResolution
    PROVE  /\ e = "rejected" => (LatestIs(Append(log, e), r) <=> LatestIs(log, r))
           /\ e # "rejected" => (LatestIs(Append(log, e), r) <=> e = r)
<1> DEFINE n == Len(log)
           longer == Append(log, e)
<1>1. /\ n \in Nat /\ Len(longer) = n + 1 /\ longer[n + 1] = e
      /\ \A k \in 1..n : longer[k] = log[k]
  OBVIOUS
<1>2. r # "rejected"
  BY DEF ApprovalResolution
<1> HIDE DEF n, longer
<1>3. ASSUME e = "rejected", LatestIs(log, r) PROVE LatestIs(longer, r)
  <2>1. PICK k \in 1..n : log[k] = r /\ \A m \in (k + 1)..n : log[m] = "rejected"
    BY <1>3 DEF LatestIs, n
  <2>2. \A m \in (k + 1)..(n + 1) : longer[m] = "rejected"
    BY <1>1, <1>3, <2>1
  <2>3. k \in 1..(n + 1) /\ longer[k] = r
    BY <1>1, <2>1
  <2> QED BY <1>1, <2>2, <2>3 DEF LatestIs
<1>4. ASSUME e = "rejected", LatestIs(longer, r) PROVE LatestIs(log, r)
  <2>1. PICK k \in 1..(n + 1) : longer[k] = r /\ \A m \in (k + 1)..(n + 1) : longer[m] = "rejected"
    BY <1>1, <1>4 DEF LatestIs
  <2>2. k \in 1..n
    BY <1>1, <1>2, <1>4, <2>1
  <2>3. log[k] = r /\ \A m \in (k + 1)..n : log[m] = "rejected"
    BY <1>1, <2>1, <2>2
  <2> QED BY <2>2, <2>3 DEF LatestIs, n
<1>5. ASSUME e # "rejected", LatestIs(longer, r) PROVE e = r
  <2>1. PICK k \in 1..(n + 1) : longer[k] = r /\ \A m \in (k + 1)..(n + 1) : longer[m] = "rejected"
    BY <1>1, <1>5 DEF LatestIs
  <2>2. k = n + 1
    BY <1>1, <1>5, <2>1
  <2> QED BY <1>1, <2>1, <2>2
<1>6. ASSUME e = r PROVE LatestIs(longer, r)
  <2>1. n + 1 \in 1..(n + 1) /\ \A m \in (n + 1 + 1)..(n + 1) : FALSE
    BY <1>1
  <2> QED BY <1>1, <1>6, <2>1 DEF LatestIs
<1> QED BY <1>3, <1>4, <1>5, <1>6 DEF longer

\* A call logs one entry under one id: the decision it leaves, or a rejection.
LEMMA AuditLogged ==
    ASSUME IInv, AuditExplainsDecision, NEW i \in Items \cup {Null}, NEW e \in AuditEvent,
           LogAuditEvent(i, e),
           \A j \in Items : j # i \/ e = "rejected" => resolution'[j] = resolution[j],
           i \in Items /\ e # "rejected" =>
              resolution'[i] = IF e \in ApprovalResolution THEN e ELSE Null
    PROVE  AuditExplainsDecision'
<1> SUFFICES ASSUME NEW j \in Items, NEW r \in ApprovalResolution
             PROVE  resolution'[j] = r <=> LatestIs(audit'[j], r)
  BY DEF AuditExplainsDecision
<1>1. audit[j] \in Seq(AuditEvent) /\ audit'[j] = IF i = j THEN Append(audit[j], e) ELSE audit[j]
  BY DEF IInv, TypeOK, LogAuditEvent
<1>2. resolution[j] = r <=> LatestIs(audit[j], r)
  BY DEF AuditExplainsDecision
<1>3. Null # r
  BY StatusFacts DEF ApprovalStatus
<1>4. CASE i # j
  BY <1>1, <1>2, <1>4
<1>5. CASE i = j /\ e = "rejected"
  BY <1>1, <1>2, <1>5, LatestAfter
<1>6. CASE i = j /\ e # "rejected"
  BY <1>1, <1>3, <1>6, LatestAfter
<1> QED BY <1>4, <1>5, <1>6

\* Every step keeps the log an explanation of the decision.
LEMMA AuditStep == ASSUME IInv, AuditExplainsDecision, [Next]_vars PROVE AuditExplainsDecision'
<1> USE StatusFacts
<1>1. ASSUME NEW i \in Items, NEW r \in ApprovalResolution, ResolveLast(i, r) \/ ResolveAndAdvance(i, r)
      PROVE  AuditExplainsDecision'
  <2>1. resolution' = [resolution EXCEPT ![i] = r] /\ LogAuditEvent(i, r)
    BY <1>1 DEF ResolveLast, ResolveAndAdvance
  <2>2. r # "rejected" /\ r \in AuditEvent
    BY DEF ApprovalResolution
  <2>3. \A j \in Items : resolution'[j] = IF j = i THEN r ELSE resolution[j]
    BY <2>1 DEF IInv, TypeOK
  <2> QED BY <2>1, <2>2, <2>3, AuditLogged
<1>2. ASSUME NEW i \in Items, NEW r \in ApprovalResolution, ResolveReplay(i, r)
      PROVE  AuditExplainsDecision'
  <2>1. resolution' = resolution /\ resolution[i] = r /\ LogAuditEvent(i, r)
    BY <1>2 DEF ResolveReplay
  <2>2. r \in AuditEvent
    OBVIOUS
  <2> QED BY <2>1, <2>2, AuditLogged
<1>3. ASSUME NEW i \in Items, RevokeToActive(i) \/ RevokeToQueue(i)
      PROVE  AuditExplainsDecision'
  <2>1. resolution' = [resolution EXCEPT ![i] = Null] /\ LogAuditEvent(i, "approval_revoked")
    BY <1>3 DEF RevokeToActive, RevokeToQueue
  <2>2. "approval_revoked" \notin ApprovalResolution
    BY DEF ApprovalResolution
  <2>3. \A j \in Items : resolution'[j] = IF j = i THEN Null ELSE resolution[j]
    BY <2>1 DEF IInv, TypeOK
  <2> QED BY <2>1, <2>2, <2>3, AuditLogged
<1>4. ASSUME NEW i \in Items, NEW r, ResolveRejected(i, r) \/ RevokeRejected(i)
      PROVE  AuditExplainsDecision'
  <2>1. resolution' = resolution /\ LogAuditEvent(IF i \in Rows THEN i ELSE Null, "rejected")
    BY <1>4 DEF ResolveRejected, RevokeRejected
  <2>2. (IF i \in Rows THEN i ELSE Null) \in Items \cup {Null}
    OBVIOUS
  <2> HIDE DEF Rows
  <2> QED BY <2>1, <2>2, AuditLogged
<1>5. ASSUME UNCHANGED <<resolution, audit>> PROVE AuditExplainsDecision'
  BY <1>5 DEF AuditExplainsDecision
<1>6. ASSUME NEW i \in Items, NEW label \in ClassificationLabel, CreateActive(i, label) \/ CreateQueued(i, label)
      PROVE  UNCHANGED <<resolution, audit>>
  BY <1>6 DEF CreateActive, CreateQueued
<1>7. ASSUME NEW i \in Items, Reorder(i) \/ InitialNotice(i) \/ SendReminder(i) \/ Hold(i)
      PROVE  UNCHANGED <<resolution, audit>>
  BY <1>7 DEF Reorder, InitialNotice, SendReminder, Hold
<1>8. ASSUME Tick \/ UNCHANGED vars PROVE UNCHANGED <<resolution, audit>>
  BY <1>8 DEF Tick, vars
<1> QED BY <1>1, <1>2, <1>3, <1>4, <1>5, <1>6, <1>7, <1>8
        DEF Next, ServiceCall, CreateFromClassification, ResolveActiveItem, RevokeDecision,
            ReorderQueue, CheckAndSendReminder

\* The latest entry of an id's log that is no rejection is the decision that stands,
\* after any number of retries, conflicts and revocations.
THEOREM LogExplains == Spec => []AuditExplainsDecision
<1>1. Init => AuditExplainsDecision
  <2> SUFFICES ASSUME Init, NEW i \in Items, NEW r \in ApprovalResolution
               PROVE  resolution[i] = r <=> LatestIs(audit[i], r)
    BY DEF AuditExplainsDecision
  <2>1. resolution[i] = Null /\ audit[i] = <<>>
    BY DEF Init
  <2>2. ~LatestIs(<<>>, r)
    BY DEF LatestIs
  <2> QED BY <2>1, <2>2, StatusFacts DEF ApprovalStatus
<1> QED BY <1>1, AuditStep, Invariance, PTL DEF Spec
=============================================================================
