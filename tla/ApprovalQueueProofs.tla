------------------------ MODULE ApprovalQueueProofs ------------------------
(***************************************************************************)
(* Theorems about ApprovalQueue for every finite table and every value of  *)
(* the waits and bounds, checked by TLAPS.                                 *)
(***************************************************************************)
EXTENDS ApprovalQueueRefinement, FiniteSetTheorems, TLAPS

\* The six reminder states, "pending" and "holding", written out.
LEMMA ActiveStatusIs ==
    ActiveStatus = {"pending", "holding", "reminder_1", "reminder_2", "reminder_3",
                    "reminder_4", "reminder_5", "reminder_6"}
BY DEF ActiveStatus, ReminderStatus

\* The status values fall into disjoint groups, and none of them is NULL.
LEMMA StatusFacts ==
    /\ "pending" \in ActiveStatus /\ "holding" \in ActiveStatus
    /\ "queued" \notin ActiveStatus /\ "queued" \notin ApprovalResolution
    /\ \A r \in ApprovalResolution : r \notin ActiveStatus
    /\ ApprovalStatus = {"queued"} \cup ActiveStatus \cup ApprovalResolution
    /\ Null \notin ApprovalStatus
    /\ Null \notin ClassificationLabel
    /\ Null \notin Int
    /\ ApprovalResolution \subseteq AuditEvent
    /\ "rejected" \in AuditEvent /\ "approval_revoked" \in AuditEvent
<1>1. "pending" \in ActiveStatus /\ "holding" \in ActiveStatus
  BY DEF ActiveStatus
<1>2. "queued" \notin ActiveStatus /\ "queued" \notin ApprovalResolution
  BY ActiveStatusIs DEF ApprovalResolution
<1>3. \A r \in ApprovalResolution : r \notin ActiveStatus
  BY ActiveStatusIs DEF ApprovalResolution
<1>4. ApprovalStatus = {"queued"} \cup ActiveStatus \cup ApprovalResolution
  BY DEF ApprovalStatus
<1>5. Null \notin ApprovalStatus /\ Null \notin ClassificationLabel /\ Null \notin Int
  BY NullAssumption
<1>6. ApprovalResolution \subseteq AuditEvent
  BY DEF AuditEvent
<1>7. "rejected" \in AuditEvent /\ "approval_revoked" \in AuditEvent
  BY DEF AuditEvent
<1> QED BY <1>1, <1>2, <1>3, <1>4, <1>5, <1>6, <1>7

\* _REMINDER_STATUS_BY_COUNT is defined for every count the job can reach.
LEMMA ReminderStatusType ==
    ASSUME NEW n \in 0..MAX_REMINDERS, n < MAX_REMINDERS
    PROVE  ReminderStatus[n + 1] \in ActiveStatus
BY TimingAssumption DEF ActiveStatus

\* Shifting rows that hold a position leaves positions and NULLs where they were.
LEMMA ShiftedType ==
    ASSUME TypeOK, ColumnsAgree, NEW S \in SUBSET Queued, NEW d \in Int
    PROVE  /\ Shifted(S, d) \in [Items -> Int \cup {Null}]
           /\ \A i \in Items : Shifted(S, d)[i] = Null <=> queue_position[i] = Null
<1>1. \A q \in S : q \in Items /\ queue_position[q] \in Int
  BY DEF TypeOK, ColumnsAgree, Queued
<1>2. \A q \in S : queue_position[q] + d \in Int
  BY <1>1
<1> QED BY <1>1, <1>2, NullAssumption DEF Shifted, TypeOK

\* A set of waiting rows has a size.
LEMMA QueuedSize == ASSUME NEW P \in SUBSET Queued PROVE Cardinality(P) \in Nat
BY ItemsAssumption, FS_Subset, FS_CardinalityType DEF Queued

\* The log keeps its type, whatever is appended.
LEMMA LogType ==
    ASSUME TypeOK, NEW i \in Items \cup {Null}, NEW e \in AuditEvent, LogAuditEvent(i, e)
    PROVE  audit' \in [Items \cup {Null} -> Seq(AuditEvent)]
BY DEF TypeOK, LogAuditEvent

\* Elapsed times start at zero and stay within the horizon.
LEMMA ElapsedFacts ==
    /\ 0 \in Elapsed /\ Elapsed \subseteq Int /\ Null \notin Elapsed
    /\ \A t \in Elapsed \cup {Null} : Later(t) \in Elapsed \cup {Null}
    /\ \A t \in Elapsed \cup {Null} : Later(t) = Null <=> t = Null
<1>1. Horizon \in Nat
  BY TimingAssumption DEF Horizon
<1>2. Elapsed \subseteq Int
  BY <1>1 DEF Elapsed
<1>3. Null \notin Elapsed
  BY <1>2, StatusFacts
<1> QED BY <1>1, <1>2, <1>3 DEF Elapsed, Later

(***************************************************************************)
(* The inductive invariant.                                                *)
(***************************************************************************)
IInv == TypeOK /\ ColumnsAgree /\ AtMostOneActive /\ NoneStranded

\* A row that is absent, or waiting, has no flag and no resolution.
LEMMA IdleRow ==
    ASSUME TypeOK, ColumnsAgree, NEW i \in Items, status[i] \in {Null, "queued"}
    PROVE  ~is_active_item[i] /\ resolution[i] = Null /\ i \notin Active
<1>1. status[i] \notin ActiveStatus /\ status[i] \notin ApprovalResolution
  BY StatusFacts
<1>2. ~is_active_item[i]
  BY <1>1 DEF ColumnsAgree
<1> QED BY <1>1, <1>2 DEF ColumnsAgree, Active

\* The empty table satisfies the invariant.
THEOREM InitIInv == Init => IInv
<1> SUFFICES ASSUME Init PROVE IInv
  OBVIOUS
<1> USE StatusFacts DEF Init
<1>1. TypeOK
  BY TimingAssumption DEF TypeOK
<1>2. ColumnsAgree
  BY DEF ColumnsAgree, ApprovalStatus
<1>3. AtMostOneActive /\ NoneStranded
  BY DEF AtMostOneActive, NoneStranded, Active, Queued, ApprovalStatus
<1> QED BY <1>1, <1>2, <1>3 DEF IInv

\* A recommendation that arrives when nothing is active becomes the one active row.
LEMMA CreateActiveStep ==
    ASSUME IInv, NEW i \in Items, NEW label \in ClassificationLabel, CreateActive(i, label)
    PROVE  IInv'
<1> USE StatusFacts DEF IInv
<1>1. TypeOK'
  <2>1. since_pending' \in [Items -> Elapsed \cup {Null}]
    BY ElapsedFacts DEF TypeOK, CreateActive
  <2>2. status' \in [Items -> ApprovalStatus \cup {Null}]
    BY DEF TypeOK, CreateActive
  <2>3. classification' \in [Items -> ClassificationLabel \cup {Null}]
    BY DEF TypeOK, CreateActive
  <2>4. is_active_item' \in [Items -> BOOLEAN]
    BY DEF TypeOK, CreateActive
  <2> QED BY <2>1, <2>2, <2>3, <2>4 DEF TypeOK, CreateActive
<1>2. ColumnsAgree'
  BY DEF TypeOK, ColumnsAgree, CreateActive, Rows
<1>3. AtMostOneActive' /\ NoneStranded'
  BY DEF TypeOK, AtMostOneActive, NoneStranded, CreateActive, Active, Queued, Rows
<1> QED BY <1>1, <1>2, <1>3

\* A recommendation that arrives behind an active one gets a position, and the rows
\* it is put in front of keep theirs.
LEMMA CreateQueuedStep ==
    ASSUME IInv, NEW i \in Items, NEW label \in ClassificationLabel, CreateQueued(i, label)
    PROVE  IInv'
<1> USE StatusFacts DEF IInv
<1>1. PICK P \in SUBSET Queued :
          queue_position' = [Shifted(Queued \ P, 1) EXCEPT ![i] = Cardinality(P) + 1]
  BY DEF CreateQueued
<1>2. Cardinality(P) + 1 \in Int
  BY QueuedSize
<1>3. /\ queue_position' \in [Items -> Int \cup {Null}]
      /\ queue_position'[i] # Null
      /\ \A q \in Items \ {i} : queue_position'[q] = Null <=> queue_position[q] = Null
  <2>1. Queued \ P \in SUBSET Queued /\ 1 \in Int
    OBVIOUS
  <2>2. /\ Shifted(Queued \ P, 1) \in [Items -> Int \cup {Null}]
        /\ \A q \in Items : Shifted(Queued \ P, 1)[q] = Null <=> queue_position[q] = Null
    BY <2>1, ShiftedType
  <2> QED BY <1>1, <1>2, <2>2
<1>4. TypeOK'
  <2>1. /\ status' \in [Items -> ApprovalStatus \cup {Null}]
        /\ classification' \in [Items -> ClassificationLabel \cup {Null}]
    BY DEF TypeOK, CreateQueued
  <2> QED BY <1>3, <2>1 DEF TypeOK, CreateQueued, timers
<1>5. ColumnsAgree'
  <2> SUFFICES ASSUME NEW q \in Items PROVE ColumnsAgree!(q)'
    BY DEF ColumnsAgree
  <2>1. CASE q = i
    <3>1. ~is_active_item[i] /\ resolution[i] = Null
      BY IdleRow DEF CreateQueued, Rows
    <3>2. status'[i] = "queued" /\ classification'[i] = label
      BY DEF CreateQueued, TypeOK
    <3> QED BY <1>3, <2>1, <3>1, <3>2 DEF CreateQueued
  <2>2. CASE q # i
    <3>1. /\ status'[q] = status[q] /\ is_active_item'[q] = is_active_item[q]
          /\ resolution'[q] = resolution[q] /\ classification'[q] = classification[q]
      BY <2>2 DEF TypeOK, CreateQueued
    <3> QED BY <1>3, <2>2, <3>1 DEF ColumnsAgree
  <2> QED BY <2>1, <2>2
<1>6. AtMostOneActive' /\ NoneStranded'
  BY DEF TypeOK, AtMostOneActive, NoneStranded, CreateQueued, Active, Queued
<1> QED BY <1>4, <1>5, <1>6

\* An answer with nothing waiting leaves no active row and nothing behind it.
LEMMA ResolveLastStep ==
    ASSUME IInv, NEW i \in Items, NEW r \in ApprovalResolution, ResolveLast(i, r)
    PROVE  IInv'
<1> USE StatusFacts DEF IInv
<1>1. TypeOK'
  <2>1. audit' \in [Items \cup {Null} -> Seq(AuditEvent)]
    BY LogType DEF ResolveLast
  <2>2. /\ status' \in [Items -> ApprovalStatus \cup {Null}]
        /\ resolution' \in [Items -> ApprovalResolution \cup {Null}]
        /\ is_active_item' \in [Items -> BOOLEAN]
    BY DEF TypeOK, ResolveLast
  <2> QED BY <2>1, <2>2 DEF TypeOK, ResolveLast, timers
<1>2. ColumnsAgree'
  BY DEF TypeOK, ColumnsAgree, ResolveLast, Active
<1>3. AtMostOneActive' /\ NoneStranded'
  BY DEF TypeOK, AtMostOneActive, NoneStranded, ResolveLast, Active, Queued
<1> QED BY <1>1, <1>2, <1>3

\* An answer with rows waiting hands the flag over to exactly one of them.
LEMMA ResolveAndAdvanceStep ==
    ASSUME IInv, NEW i \in Items, NEW r \in ApprovalResolution, ResolveAndAdvance(i, r)
    PROVE  IInv'
<1> USE StatusFacts DEF IInv
<1>1. PICK n \in Front :
          /\ status' = [status EXCEPT ![i] = r, ![n] = "pending"]
          /\ is_active_item' = [is_active_item EXCEPT ![i] = FALSE, ![n] = TRUE]
          /\ since_pending' = [since_pending EXCEPT ![n] = 0]
          /\ queue_position' = [Shifted(Queued \ {n}, -1) EXCEPT ![n] = Null]
  BY DEF ResolveAndAdvance
<1>2. n \in Items /\ status[n] = "queued" /\ i \in Active /\ n # i
  BY DEF Front, Queued, ResolveAndAdvance, ColumnsAgree, Active
<1>3. /\ queue_position' \in [Items -> Int \cup {Null}]
      /\ queue_position'[n] = Null
      /\ \A q \in Items \ {n} : queue_position'[q] = Null <=> queue_position[q] = Null
  <2>1. Queued \ {n} \in SUBSET Queued /\ -1 \in Int
    OBVIOUS
  <2>2. /\ Shifted(Queued \ {n}, -1) \in [Items -> Int \cup {Null}]
        /\ \A q \in Items : Shifted(Queued \ {n}, -1)[q] = Null <=> queue_position[q] = Null
    BY <2>1, ShiftedType
  <2> QED BY <1>1, <1>2, <2>2
<1>4. TypeOK'
  <2>1. audit' \in [Items \cup {Null} -> Seq(AuditEvent)]
    BY LogType DEF ResolveAndAdvance
  <2>2. /\ status' \in [Items -> ApprovalStatus \cup {Null}]
        /\ is_active_item' \in [Items -> BOOLEAN]
    BY <1>1, <1>2 DEF TypeOK
  <2>3. /\ resolution' \in [Items -> ApprovalResolution \cup {Null}]
        /\ since_pending' \in [Items -> Elapsed \cup {Null}]
    BY <1>1, <1>2, ElapsedFacts DEF TypeOK, ResolveAndAdvance
  <2> QED BY <1>3, <2>1, <2>2, <2>3 DEF TypeOK, ResolveAndAdvance
<1>5. ColumnsAgree'
  <2> SUFFICES ASSUME NEW q \in Items PROVE ColumnsAgree!(q)'
    BY DEF ColumnsAgree
  <2>1. CASE q = i
    <3>1. /\ queue_position[i] = Null /\ classification[i] # Null
      BY <1>2, StatusFacts DEF ColumnsAgree, Active
    <3>2. status'[i] = r /\ is_active_item'[i] = FALSE
      BY <1>1, <1>2 DEF TypeOK
    <3>3. resolution'[i] = r /\ classification'[i] # Null
      BY <3>1 DEF TypeOK, ResolveAndAdvance
    <3> QED BY <1>2, <1>3, <2>1, <3>1, <3>2, <3>3
  <2>2. CASE q = n
    <3>1. resolution[n] = Null /\ classification[n] # Null
      BY <1>2, IdleRow DEF ColumnsAgree
    <3>2. /\ status'[n] = "pending" /\ is_active_item'[n]
          /\ resolution'[n] = Null /\ classification'[n] # Null
      BY <1>1, <1>2, <3>1 DEF TypeOK, ResolveAndAdvance
    <3> QED BY <1>3, <2>2, <3>2
  <2>3. CASE q # i /\ q # n
    <3>1. status'[q] = status[q] /\ is_active_item'[q] = is_active_item[q]
      BY <1>1, <1>2, <2>3 DEF TypeOK
    <3>2. resolution'[q] = resolution[q] /\ classification'[q] = classification[q]
      BY <2>3 DEF TypeOK, ResolveAndAdvance
    <3> QED BY <1>3, <2>3, <3>1, <3>2 DEF ColumnsAgree
  <2> QED BY <2>1, <2>2, <2>3
<1>6. AtMostOneActive' /\ NoneStranded'
  <2>1. Active = {i} /\ Active' = {n}
    <3>1. Active = {i}
      BY <1>2 DEF AtMostOneActive
    <3>2. Active' = (Active \ {i}) \cup {n}
      BY <1>1, <1>2 DEF TypeOK, Active
    <3> QED BY <3>1, <3>2
  <2> QED BY <2>1 DEF AtMostOneActive, NoneStranded
<1> QED BY <1>4, <1>5, <1>6

\* Calls that are only logged.
LEMMA LoggedOnlyStep ==
    ASSUME IInv, NEW i \in Items \cup {Null}, NEW e \in AuditEvent, LogAuditEvent(i, e),
           UNCHANGED <<classification, status, is_active_item, queue_position, resolution, timers>>
    PROVE  IInv'
<1>1. audit' \in [Items \cup {Null} -> Seq(AuditEvent)]
  BY LogType DEF IInv
<1> QED BY <1>1 DEF IInv, TypeOK, ColumnsAgree, AtMostOneActive, NoneStranded, Active, Queued, timers

\* A revoked approval takes the flag only when nobody has it.
LEMMA RevokeToActiveStep ==
    ASSUME IInv, NEW i \in Items, RevokeToActive(i)
    PROVE  IInv'
<1> USE StatusFacts DEF IInv
<1>1. TypeOK'
  <2>1. audit' \in [Items \cup {Null} -> Seq(AuditEvent)]
    BY LogType DEF RevokeToActive
  <2>2. /\ status' \in [Items -> ApprovalStatus \cup {Null}]
        /\ is_active_item' \in [Items -> BOOLEAN]
        /\ queue_position' \in [Items -> Int \cup {Null}]
        /\ resolution' \in [Items -> ApprovalResolution \cup {Null}]
    BY DEF TypeOK, RevokeToActive
  <2>3. /\ since_pending' \in [Items -> Elapsed \cup {Null}]
        /\ since_reminder' \in [Items -> Elapsed \cup {Null}]
        /\ reminder_count' \in [Items -> 0..MAX_REMINDERS]
    BY ElapsedFacts, TimingAssumption DEF TypeOK, RevokeToActive
  <2> QED BY <2>1, <2>2, <2>3 DEF TypeOK, RevokeToActive
<1>2. ColumnsAgree'
  BY DEF TypeOK, ColumnsAgree, RevokeToActive, ApprovalResolution
<1>3. AtMostOneActive' /\ NoneStranded'
  BY DEF TypeOK, AtMostOneActive, NoneStranded, RevokeToActive, Active, Queued
<1> QED BY <1>1, <1>2, <1>3

\* A revoked approval joins the queue when another row is active.
LEMMA RevokeToQueueStep ==
    ASSUME IInv, NEW i \in Items, RevokeToQueue(i)
    PROVE  IInv'
<1> USE StatusFacts DEF IInv
<1>1. /\ queue_position' \in [Items -> Int \cup {Null}]
      /\ queue_position'[i] # Null
      /\ \A q \in Items \ {i} : queue_position'[q] = Null <=> queue_position[q] = Null
  <2>1. Queued \in SUBSET Queued /\ 1 \in Int
    OBVIOUS
  <2>2. /\ Shifted(Queued, 1) \in [Items -> Int \cup {Null}]
        /\ \A q \in Items : Shifted(Queued, 1)[q] = Null <=> queue_position[q] = Null
    BY <2>1, ShiftedType
  <2> QED BY <2>2 DEF RevokeToQueue
<1>2. TypeOK'
  <2>1. audit' \in [Items \cup {Null} -> Seq(AuditEvent)]
    BY LogType DEF RevokeToQueue
  <2>2. /\ status' \in [Items -> ApprovalStatus \cup {Null}]
        /\ is_active_item' \in [Items -> BOOLEAN]
        /\ resolution' \in [Items -> ApprovalResolution \cup {Null}]
    BY DEF TypeOK, RevokeToQueue
  <2> QED BY <1>1, <2>1, <2>2 DEF TypeOK, RevokeToQueue, timers
<1>3. ColumnsAgree'
  BY <1>1 DEF TypeOK, ColumnsAgree, RevokeToQueue, ApprovalResolution
<1>4. AtMostOneActive' /\ NoneStranded'
  <2>1. i \notin Active
    BY DEF ColumnsAgree, Active, RevokeToQueue, ApprovalResolution
  <2>2. Active' = Active
    BY <2>1 DEF TypeOK, Active, RevokeToQueue
  <2> QED BY <2>2 DEF AtMostOneActive, NoneStranded, RevokeToQueue
<1> QED BY <1>2, <1>3, <1>4

\* Moving a row to the front disturbs nothing but positions.
LEMMA ReorderStep ==
    ASSUME IInv, NEW i \in Items, Reorder(i)
    PROVE  IInv'
<1> USE StatusFacts DEF IInv
<1>1. /\ queue_position' \in [Items -> Int \cup {Null}]
      /\ \A q \in Items : queue_position'[q] = Null <=> queue_position[q] = Null
  <2>1. Queued \in SUBSET Queued /\ 1 \in Int
    OBVIOUS
  <2>2. /\ Shifted(Queued, 1) \in [Items -> Int \cup {Null}]
        /\ \A q \in Items : Shifted(Queued, 1)[q] = Null <=> queue_position[q] = Null
    BY <2>1, ShiftedType
  <2>3. queue_position[i] # Null
    BY DEF ColumnsAgree, Reorder, Queued
  <2> QED BY <2>2, <2>3 DEF Reorder
<1>2. TypeOK'
  BY <1>1 DEF TypeOK, Reorder, timers
<1>3. ColumnsAgree' /\ AtMostOneActive' /\ NoneStranded'
  BY <1>1 DEF ColumnsAgree, AtMostOneActive, NoneStranded, Active, Queued, Reorder
<1> QED BY <1>2, <1>3

\* The initial notice only marks the row.
LEMMA InitialNoticeStep ==
    ASSUME IInv, NEW i \in Items, InitialNotice(i)
    PROVE  IInv'
<1>1. notice_sent' \in [Items -> BOOLEAN]
  BY ElapsedFacts DEF IInv, TypeOK, InitialNotice
<1> QED BY <1>1 DEF IInv, TypeOK, ColumnsAgree, AtMostOneActive, NoneStranded, Active, Queued,
                    InitialNotice

\* Giving the active row another active status disturbs nothing else.
LEMMA ActiveStatusStep ==
    ASSUME IInv, NEW i \in Active, NEW s \in ActiveStatus,
           status' = [status EXCEPT ![i] = s],
           UNCHANGED <<classification, is_active_item, queue_position, resolution>>
    PROVE  /\ status' \in [Items -> ApprovalStatus \cup {Null}]
           /\ ColumnsAgree' /\ AtMostOneActive' /\ NoneStranded'
<1> USE StatusFacts DEF IInv
<1>1. i \in Items /\ status[i] \in ActiveStatus /\ status'[i] = s
  BY DEF Active, ColumnsAgree, TypeOK
<1>2. status' \in [Items -> ApprovalStatus \cup {Null}]
  BY <1>1 DEF TypeOK
<1>3. ColumnsAgree'
  BY <1>1 DEF ColumnsAgree, TypeOK
<1>4. Active' = Active /\ Queued' = Queued
  BY <1>1 DEF Active, Queued, TypeOK
<1> QED BY <1>2, <1>3, <1>4 DEF AtMostOneActive, NoneStranded

\* A reminder moves the active row to the status of its count, which exists.
LEMMA SendReminderStep ==
    ASSUME IInv, NEW i \in Items, SendReminder(i)
    PROVE  IInv'
<1>1. i \in Active /\ reminder_count[i] \in 0..MAX_REMINDERS /\ reminder_count[i] < MAX_REMINDERS
  BY DEF SendReminder, PastNotice, IInv, TypeOK
<1>2. ReminderStatus[reminder_count[i] + 1] \in ActiveStatus
  BY <1>1, ReminderStatusType
<1>3. /\ status' \in [Items -> ApprovalStatus \cup {Null}]
      /\ ColumnsAgree' /\ AtMostOneActive' /\ NoneStranded'
  BY <1>1, <1>2, ActiveStatusStep DEF SendReminder
<1>4. /\ reminder_count' \in [Items -> 0..MAX_REMINDERS]
      /\ since_reminder' \in [Items -> Elapsed \cup {Null}]
  BY <1>1, ElapsedFacts, TimingAssumption DEF SendReminder, IInv, TypeOK
<1> QED BY <1>3, <1>4 DEF SendReminder, IInv, TypeOK

\* Holding is one more active status.
LEMMA HoldStep ==
    ASSUME IInv, NEW i \in Items, Hold(i)
    PROVE  IInv'
<1>1. /\ status' \in [Items -> ApprovalStatus \cup {Null}]
      /\ ColumnsAgree' /\ AtMostOneActive' /\ NoneStranded'
  BY ActiveStatusStep, StatusFacts DEF Hold, PastNotice
<1> QED BY <1>1 DEF Hold, IInv, TypeOK, timers

\* Time changes no column the invariant relates.
LEMMA TickStep == ASSUME IInv, Tick PROVE IInv'
<1>1. /\ since_pending' \in [Items -> Elapsed \cup {Null}]
      /\ since_reminder' \in [Items -> Elapsed \cup {Null}]
  BY ElapsedFacts DEF Tick, IInv, TypeOK
<1> QED BY <1>1 DEF IInv, TypeOK, ColumnsAgree, AtMostOneActive, NoneStranded, Active, Queued, Tick

\* Every call, every run of the job and every tick keeps the invariant.
THEOREM NextIInv == IInv /\ [Next]_vars => IInv'
<1> SUFFICES ASSUME IInv, [Next]_vars PROVE IInv'
  OBVIOUS
<1>1. CASE CreateFromClassification
  BY <1>1, CreateActiveStep, CreateQueuedStep DEF CreateFromClassification
<1>2. CASE ResolveActiveItem
  <2>1. CASE \E i \in Items, r \in ApprovalResolution : ResolveLast(i, r)
    BY <2>1, ResolveLastStep
  <2>2. CASE \E i \in Items, r \in ApprovalResolution : ResolveAndAdvance(i, r)
    BY <2>2, ResolveAndAdvanceStep
  <2>3. CASE \E i \in Items, r \in ApprovalResolution : ResolveReplay(i, r)
    BY <2>3, LoggedOnlyStep, StatusFacts DEF ResolveReplay
  <2>4. CASE \E i \in Items : \E r \in ApprovalResolution \cup {"no resolution"} : ResolveRejected(i, r)
    BY <2>4, LoggedOnlyStep, StatusFacts DEF ResolveRejected
  <2> QED BY <1>2, <2>1, <2>2, <2>3, <2>4 DEF ResolveActiveItem
<1>3. CASE RevokeDecision
  <2>1. PICK i \in Items : RevokeToActive(i) \/ RevokeToQueue(i) \/ RevokeRejected(i)
    BY <1>3 DEF RevokeDecision
  <2>2. CASE RevokeRejected(i)
    BY <2>2, LoggedOnlyStep, StatusFacts DEF RevokeRejected
  <2> QED BY <2>1, <2>2, RevokeToActiveStep, RevokeToQueueStep
<1>4. CASE ReorderQueue
  BY <1>4, ReorderStep DEF ReorderQueue
<1>5. CASE CheckAndSendReminder
  BY <1>5, InitialNoticeStep, SendReminderStep, HoldStep DEF CheckAndSendReminder
<1>6. CASE Tick
  BY <1>6, TickStep
<1>7. CASE UNCHANGED vars
  BY <1>7 DEF vars, timers, IInv, TypeOK, ColumnsAgree, AtMostOneActive, NoneStranded, Active, Queued
<1> QED BY <1>1, <1>2, <1>3, <1>4, <1>5, <1>6, <1>7 DEF Next, ServiceCall

\* The columns keep their types (models.py), the columns of a row agree with
\* each other, the unique index on is_active_item never trips, and no row
\* waits while nothing is active: for tables of any size.
THEOREM Invariance == Spec => []IInv
BY InitIInv, NextIInv, PTL DEF Spec

\* Type correctness of the table and the audit log.
THEOREM TypeCorrect == Spec => []TypeOK
<1>1. IInv => TypeOK
  BY DEF IInv
<1> QED BY Invariance, <1>1, PTL

\* Flag, position, resolution and status of a row always agree.
THEOREM ColumnsAlwaysAgree == Spec => []ColumnsAgree
<1>1. IInv => ColumnsAgree
  BY DEF IInv
<1> QED BY Invariance, <1>1, PTL

\* The one-active-item rule.
THEOREM OneActive == Spec => []AtMostOneActive
<1>1. IInv => AtMostOneActive
  BY DEF IInv
<1> QED BY Invariance, <1>1, PTL

\* Queued items never wait behind nothing.
THEOREM NeverStranded == Spec => []NoneStranded
<1>1. IInv => NoneStranded
  BY DEF IInv
<1> QED BY Invariance, <1>1, PTL

(***************************************************************************)
(* Refinement of the lifecycle.                                            *)
(***************************************************************************)
\* The empty table is a lifecycle with no recommendation.
LEMMA RefinementInit == Init => Lifecycle!Init
BY StatusFacts DEF Init, Lifecycle!Init, Queued, Active

\* What a step does to the three sets the lifecycle sees.
LEMMA CreateRefines ==
    ASSUME IInv, NEW i \in Items, NEW label \in ClassificationLabel,
           CreateActive(i, label) \/ CreateQueued(i, label)
    PROVE  Lifecycle!Recommend({i})
<1> USE StatusFacts DEF IInv
<1>1. status[i] = Null /\ i \notin Active /\ i \notin Queued /\ resolution[i] = Null
  BY IdleRow DEF CreateActive, CreateQueued, Rows, Queued
<1>2. i \notin Lifecycle!Known
  BY <1>1 DEF Lifecycle!Known
<1>3. Active = {} => Active' = {i} /\ Queued' = Queued
  BY <1>1 DEF CreateActive, CreateQueued, Active, Queued, TypeOK
<1>4. Active # {} => Queued' = Queued \cup {i} /\ Active' = Active
  BY <1>1 DEF CreateActive, CreateQueued, Active, Queued, TypeOK
<1>5. resolution' = resolution
  BY DEF CreateActive, CreateQueued
<1>6. Lifecycle!Enter({i})
  BY <1>3, <1>4 DEF Lifecycle!Enter
<1> QED BY <1>2, <1>5, <1>6 DEF Lifecycle!Recommend

\* An applied answer is the owner's decision, and shows a waiting recommendation.
LEMMA ResolveRefines ==
    ASSUME IInv, NEW i \in Items, NEW r \in ApprovalResolution,
           ResolveLast(i, r) \/ ResolveAndAdvance(i, r)
    PROVE  Lifecycle!Decide(i, r)
<1> USE StatusFacts DEF IInv
<1>1. /\ i \in Active
      /\ resolution' = [resolution EXCEPT ![i] = r]
  BY DEF ResolveLast, ResolveAndAdvance
<1>2. Active = {i} /\ status[i] # "queued"
  BY <1>1 DEF AtMostOneActive, ColumnsAgree, Active
<1>3. CASE ResolveLast(i, r)
  <2>1. Queued = {} /\ Active' = {} /\ Queued' = {}
    BY <1>2, <1>3 DEF ResolveLast, Active, Queued, TypeOK
  <2> QED BY <1>1, <2>1 DEF Lifecycle!Decide
<1>4. CASE ResolveAndAdvance(i, r)
  <2>1. PICK n \in Front :
            /\ status' = [status EXCEPT ![i] = r, ![n] = "pending"]
            /\ is_active_item' = [is_active_item EXCEPT ![i] = FALSE, ![n] = TRUE]
    BY <1>4 DEF ResolveAndAdvance
  <2>2. n \in Queued /\ n \in Items /\ n # i /\ i \in Items /\ status[n] = "queued"
    BY <1>1, <1>2 DEF Front, Queued, Active
  <2>3. Active' = (Active \ {i}) \cup {n}
    BY <2>1, <2>2 DEF Active, TypeOK
  <2>4. Queued' = Queued \ {n}
    BY <1>2, <2>1, <2>2 DEF Queued, TypeOK
  <2> QED BY <1>1, <1>2, <2>2, <2>3, <2>4 DEF Lifecycle!Decide
<1> QED BY <1>3, <1>4

\* A successful revocation takes the approval back.
LEMMA RevokeRefines ==
    ASSUME IInv, NEW i \in Items, RevokeToActive(i) \/ RevokeToQueue(i)
    PROVE  Lifecycle!TakeBack(i)
<1> USE StatusFacts DEF IInv
<1>1. status[i] = "approved" /\ "approved" \in ApprovalResolution
  BY DEF RevokeToActive, RevokeToQueue, ApprovalResolution
<1>2. resolution[i] = "approved" /\ i \notin Active /\ i \notin Queued
  BY <1>1 DEF ColumnsAgree, Active, Queued
<1>3. resolution' = [resolution EXCEPT ![i] = Null]
  BY DEF RevokeToActive, RevokeToQueue
<1>4. Active = {} => Active' = {i} /\ Queued' = Queued
  BY <1>2 DEF RevokeToActive, RevokeToQueue, Active, Queued, TypeOK
<1>5. Active # {} => Queued' = Queued \cup {i} /\ Active' = Active
  <2> SUFFICES ASSUME Active # {} PROVE Queued' = Queued \cup {i} /\ Active' = Active
    OBVIOUS
  <2>1. /\ status' = [status EXCEPT ![i] = "queued"]
        /\ is_active_item' = [is_active_item EXCEPT ![i] = FALSE]
    BY DEF RevokeToActive, RevokeToQueue
  <2>2. Queued' = Queued \cup {i}
    BY <2>1 DEF Queued, TypeOK
  <2>3. Active' = Active
    BY <1>2, <2>1 DEF Active, TypeOK
  <2> QED BY <2>2, <2>3
<1>6. Lifecycle!Enter({i})
  BY <1>4, <1>5 DEF Lifecycle!Enter
<1> QED BY <1>2, <1>3, <1>6 DEF Lifecycle!TakeBack

\* Reminders move a row between active statuses only.
LEMMA RemindersInvisible ==
    ASSUME IInv, CheckAndSendReminder
    PROVE  UNCHANGED <<Queued, Active, resolution>>
<1> USE StatusFacts DEF IInv
<1>1. PICK i \in Items : InitialNotice(i) \/ SendReminder(i) \/ Hold(i)
  BY DEF CheckAndSendReminder
<1>2. UNCHANGED <<is_active_item, resolution>>
  BY <1>1 DEF InitialNotice, SendReminder, Hold
<1>3. CASE InitialNotice(i)
  BY <1>2, <1>3 DEF InitialNotice, Queued, Active
<1>4. CASE SendReminder(i) \/ Hold(i)
  <2>1. PICK s \in ActiveStatus : status' = [status EXCEPT ![i] = s]
    BY <1>4, ReminderStatusType DEF SendReminder, Hold, TypeOK
  <2>2. status[i] # "queued" /\ s # "queued"
    BY <1>4 DEF SendReminder, Hold, PastNotice, Active, ColumnsAgree
  <2>3. Queued' = Queued
    BY <2>1, <2>2 DEF Queued, TypeOK
  <2> QED BY <1>2, <2>3 DEF Active
<1> QED BY <1>1, <1>3, <1>4

\* Every step of the queue is a step of the lifecycle or leaves what the owner
\* sees alone.
THEOREM RefinementStep == IInv /\ [Next]_vars => [Lifecycle!Next]_(Lifecycle!vars)
<1> SUFFICES ASSUME IInv, [Next]_vars PROVE [Lifecycle!Next]_(Lifecycle!vars)
  OBVIOUS
<1> DEFINE Unseen == UNCHANGED <<Queued, Active, resolution>>
<1>1. CASE CreateFromClassification
  <2>1. PICK i \in Items : Lifecycle!Recommend({i})
    BY <1>1, CreateRefines DEF CreateFromClassification
  <2>2. {i} \in SUBSET Items
    OBVIOUS
  <2> QED BY <2>1, <2>2 DEF Lifecycle!Next
<1>2. CASE ResolveActiveItem
  <2>1. CASE \E i \in Items, r \in ApprovalResolution : ResolveLast(i, r) \/ ResolveAndAdvance(i, r)
    BY <2>1, ResolveRefines DEF Lifecycle!Next, Lifecycle!Answer, ApprovalResolution
  <2>2. CASE \E i \in Items, r \in ApprovalResolution : ResolveReplay(i, r)
    BY <2>2 DEF ResolveReplay, Queued, Active, Lifecycle!vars
  <2>3. CASE \E i \in Items : \E r \in ApprovalResolution \cup {"no resolution"} : ResolveRejected(i, r)
    BY <2>3 DEF ResolveRejected, Queued, Active, Lifecycle!vars
  <2> QED BY <1>2, <2>1, <2>2, <2>3 DEF ResolveActiveItem
<1>3. CASE RevokeDecision
  <2>1. PICK i \in Items : RevokeToActive(i) \/ RevokeToQueue(i) \/ RevokeRejected(i)
    BY <1>3 DEF RevokeDecision
  <2>2. CASE RevokeToActive(i) \/ RevokeToQueue(i)
    BY <2>2, RevokeRefines DEF Lifecycle!Next
  <2>3. CASE RevokeRejected(i)
    BY <2>3 DEF RevokeRejected, Queued, Active, Lifecycle!vars
  <2> QED BY <2>1, <2>2, <2>3
<1>4. CASE ReorderQueue
  BY <1>4 DEF ReorderQueue, Reorder, Queued, Active, Lifecycle!vars
<1>5. CASE CheckAndSendReminder
  BY <1>5, RemindersInvisible DEF Lifecycle!vars
<1>6. CASE Tick
  BY <1>6 DEF Tick, Queued, Active, Lifecycle!vars
<1>7. CASE UNCHANGED vars
  BY <1>7 DEF vars, Queued, Active, Lifecycle!vars
<1> QED BY <1>1, <1>2, <1>3, <1>4, <1>5, <1>6, <1>7 DEF Next, ServiceCall

\* The approval queue implements the lifecycle promised to the owner: one
\* recommendation at a time, decisions only by answers, only approvals taken
\* back, and a waiting one shown whenever the current one is decided.
THEOREM Refinement == Spec => ImplementsLifecycle
BY RefinementInit, RefinementStep, Invariance, PTL
   DEF Spec, ImplementsLifecycle, Lifecycle!Spec
=============================================================================
