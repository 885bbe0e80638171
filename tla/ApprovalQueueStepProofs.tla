---------------------- MODULE ApprovalQueueStepProofs ----------------------
(***************************************************************************)
(* What a step of ApprovalQueue may never do, and what the reminder job    *)
(* relies on, for every finite table and every value of the waits.         *)
(***************************************************************************)
EXTENDS ApprovalQueueProofs

\* The columns the reminder job reads are filled in whenever it reads them.  The
\* count and the time of the last reminder agree on every row, active or not: a
\* row keeps both while it waits in the queue after a revocation.
TimingInv ==
    /\ DueTimeDefined
    /\ \A i \in Items : reminder_count[i] > 0 => since_reminder[i] # Null

\* A reminder state carries its number, which the states between them do not.
LEMMA ReminderStatusFacts ==
    /\ \A k \in 1..6 : ReminderStatus[k] \notin {"pending", "holding", "queued"} \cup ApprovalResolution
    /\ \A k, m \in 1..6 : ReminderStatus[k] = ReminderStatus[m] => k = m
BY DEF ReminderStatus, ApprovalResolution

\* A new table has nothing to time.
LEMMA InitTiming == Init => TimingInv
BY DEF Init, TimingInv, DueTimeDefined, Active

\* Becoming active starts the clock and leaves the counters of the row in step.
LEMMA ActivationTiming ==
    ASSUME IInv, TimingInv, NEW i \in Items,
           status'[i] = "pending", since_pending'[i] = 0,
           reminder_count'[i] > 0 => since_reminder'[i] # Null,
           \A j \in Items \ {i} :
               /\ is_active_item'[j] => is_active_item[j] /\ status'[j] = status[j]
               /\ since_pending'[j] = since_pending[j]
               /\ since_reminder'[j] = since_reminder[j]
               /\ reminder_count'[j] = reminder_count[j]
    PROVE  TimingInv'
BY ReminderStatusFacts, NullAssumption DEF TimingInv, DueTimeDefined, Active

\* A step that makes nothing active and sends nothing keeps the timing columns.
LEMMA QuietTiming ==
    ASSUME IInv, TimingInv, UNCHANGED timers,
           \A j \in Items : is_active_item'[j] => is_active_item[j] /\ status'[j] = status[j]
    PROVE  TimingInv'
BY DEF TimingInv, DueTimeDefined, Active, timers

\* The calls that create, answer, revoke and reorder.
LEMMA ServiceCallTiming == ASSUME IInv, TimingInv, ServiceCall PROVE TimingInv'
<1> USE DEF IInv
<1>1. ASSUME NEW i \in Items, NEW label \in ClassificationLabel, CreateActive(i, label)
      PROVE  TimingInv'
  BY <1>1, ActivationTiming DEF CreateActive, TypeOK, TimingInv
<1>2. ASSUME NEW i \in Items, NEW label \in ClassificationLabel, CreateQueued(i, label)
      PROVE  TimingInv'
  <2>1. i \notin Active
    BY <1>2, IdleRow DEF CreateQueued, Rows
  <2> QED BY <1>2, <2>1, QuietTiming DEF CreateQueued, Active, TypeOK
<1>3. ASSUME NEW i \in Items, NEW r \in ApprovalResolution, ResolveLast(i, r)
      PROVE  TimingInv'
  BY <1>3, QuietTiming DEF ResolveLast, TypeOK
<1>4. ASSUME NEW i \in Items, NEW r \in ApprovalResolution, ResolveAndAdvance(i, r)
      PROVE  TimingInv'
  <2>1. PICK n \in Front :
            /\ status' = [status EXCEPT ![i] = r, ![n] = "pending"]
            /\ is_active_item' = [is_active_item EXCEPT ![i] = FALSE, ![n] = TRUE]
            /\ since_pending' = [since_pending EXCEPT ![n] = 0]
    BY <1>4 DEF ResolveAndAdvance
  <2>2. n \in Items /\ n # i
    BY <1>4, IdleRow DEF ResolveAndAdvance, Front, Queued
  <2> QED BY <1>4, <2>1, <2>2, ActivationTiming DEF ResolveAndAdvance, TypeOK, TimingInv
<1>5. ASSUME NEW i \in Items, NEW r, ResolveReplay(i, r) \/ ResolveRejected(i, r)
      PROVE  TimingInv'
  BY <1>5, QuietTiming DEF ResolveReplay, ResolveRejected
<1>6. ASSUME NEW i \in Items, RevokeToActive(i)
      PROVE  TimingInv'
  BY <1>6, ActivationTiming DEF RevokeToActive, TypeOK
<1>7. ASSUME NEW i \in Items, RevokeToQueue(i)
      PROVE  TimingInv'
  BY <1>7, QuietTiming DEF RevokeToQueue, TypeOK
<1>8. ASSUME NEW i \in Items, RevokeRejected(i) \/ Reorder(i)
      PROVE  TimingInv'
  BY <1>8, QuietTiming DEF RevokeRejected, Reorder
<1> QED BY <1>1, <1>2, <1>3, <1>4, <1>5, <1>6, <1>7, <1>8
        DEF ServiceCall, CreateFromClassification, ResolveActiveItem, RevokeDecision, ReorderQueue

\* The job numbers a reminder as it counts it, and holds only at the cap.
LEMMA ReminderTiming == ASSUME IInv, TimingInv, CheckAndSendReminder PROVE TimingInv'
<1> USE DEF IInv
<1>1. ASSUME NEW i \in Items, InitialNotice(i)
      PROVE  TimingInv'
  BY <1>1 DEF InitialNotice, TimingInv, DueTimeDefined, Active
<1>2. ASSUME NEW i \in Items, SendReminder(i)
      PROVE  TimingInv'
  <2>1. reminder_count[i] + 1 \in 1..6
    BY <1>2, TimingAssumption DEF SendReminder, TypeOK
  <2>2. status'[i] = ReminderStatus[reminder_count[i] + 1] /\ reminder_count'[i] = reminder_count[i] + 1
    BY <1>2 DEF SendReminder, TypeOK
  <2>3. since_reminder'[i] # Null
    BY <1>2, NullAssumption DEF SendReminder, TypeOK
  <2>4. \A j \in Items \ {i} : /\ status'[j] = status[j]
                              /\ reminder_count'[j] = reminder_count[j]
                              /\ since_reminder'[j] = since_reminder[j]
    BY <1>2 DEF SendReminder, TypeOK
  <2>5. since_pending' = since_pending /\ is_active_item' = is_active_item
    BY <1>2 DEF SendReminder
  <2> QED BY <2>1, <2>2, <2>3, <2>4, <2>5, ReminderStatusFacts DEF TimingInv, DueTimeDefined, Active
<1>3. ASSUME NEW i \in Items, Hold(i)
      PROVE  TimingInv'
  <2>1. reminder_count[i] = MAX_REMINDERS
    BY <1>3, TimingAssumption DEF Hold, TypeOK
  <2>2. status' = [status EXCEPT ![i] = "holding"] /\ UNCHANGED timers /\ UNCHANGED is_active_item
    BY <1>3 DEF Hold
  <2> QED BY <2>1, <2>2, ReminderStatusFacts DEF TimingInv, DueTimeDefined, Active, TypeOK, timers
<1> QED BY <1>1, <1>2, <1>3 DEF CheckAndSendReminder

\* Time passes, and no timestamp becomes NULL.
LEMMA TickTiming == ASSUME IInv, TimingInv, Tick PROVE TimingInv'
BY ElapsedFacts DEF IInv, TypeOK, TimingInv, DueTimeDefined, Active, Tick

\* The reminder job can compute due_at, and look up the next reminder state, for
\* every active item and after every history of calls (reminder_job.py:224-250).
THEOREM DueTimeAlwaysDefined == Spec => []DueTimeDefined
<1>1. Init => TimingInv
  BY InitTiming
<1>2. IInv /\ TimingInv /\ [Next]_vars => TimingInv'
  <2> SUFFICES ASSUME IInv, TimingInv, [Next]_vars PROVE TimingInv'
    OBVIOUS
  <2>1. CASE UNCHANGED vars
    BY <2>1 DEF vars, timers, TimingInv, DueTimeDefined, Active
  <2> QED BY <2>1, ServiceCallTiming, ReminderTiming, TickTiming DEF Next
<1>3. TimingInv => DueTimeDefined
  BY DEF TimingInv
<1> QED BY <1>1, <1>2, <1>3, Invariance, PTL DEF Spec

----------------------------------------------------------------------------
(***************************************************************************)
(* Action properties.                                                      *)
(***************************************************************************)
\* What every step does, one disjunct for each way to return.
LEMMA StepCases ==
    ASSUME [Next]_vars
    PROVE  \/ \E i \in Items, label \in ClassificationLabel : CreateActive(i, label) \/ CreateQueued(i, label)
           \/ \E i \in Items, r \in ApprovalResolution : ResolveLast(i, r) \/ ResolveAndAdvance(i, r)
           \/ \E i \in Items : RevokeToActive(i) \/ RevokeToQueue(i)
           \/ \E i \in Items : SendReminder(i) \/ Hold(i)
           \/ UNCHANGED <<status, is_active_item, resolution>>
BY DEF Next, ServiceCall, CreateFromClassification, ResolveActiveItem, RevokeDecision, ReorderQueue,
       CheckAndSendReminder, ResolveReplay, ResolveRejected, RevokeRejected, Reorder, InitialNotice,
       Tick, vars

\* An applied answer concerns the active row, which was undecided, and the row it
\* promotes, which was waiting.
LEMMA AnswerEffect ==
    ASSUME IInv, NEW i \in Items, NEW r \in ApprovalResolution,
           ResolveLast(i, r) \/ ResolveAndAdvance(i, r)
    PROVE  /\ i \in Active /\ resolution[i] = Null
           /\ resolution' = [resolution EXCEPT ![i] = r]
           /\ audit'[i] = Append(audit[i], r)
           /\ status'[i] = r
           /\ \A j \in Items \ {i} : status'[j] = status[j] \/ (status[j] = "queued" /\ status'[j] = "pending")
           /\ \A j \in Items \ {i} : is_active_item[j] => is_active_item'[j]
<1> USE DEF IInv, TypeOK
<1>1. i \in Active /\ resolution[i] = Null
  BY StatusFacts DEF ResolveLast, ResolveAndAdvance, Active, ColumnsAgree
<1>2. resolution' = [resolution EXCEPT ![i] = r] /\ audit'[i] = Append(audit[i], r)
  BY DEF ResolveLast, ResolveAndAdvance, LogAuditEvent
<1>3. CASE ResolveLast(i, r)
  BY <1>1, <1>2, <1>3 DEF ResolveLast
<1>4. CASE ResolveAndAdvance(i, r)
  <2>1. PICK n \in Front :
            /\ status' = [status EXCEPT ![i] = r, ![n] = "pending"]
            /\ is_active_item' = [is_active_item EXCEPT ![i] = FALSE, ![n] = TRUE]
    BY <1>4 DEF ResolveAndAdvance
  <2>2. n \in Items /\ n # i /\ status[n] = "queued"
    BY <1>1, IdleRow DEF Front, Queued
  <2> QED BY <1>1, <1>2, <2>1, <2>2
<1> QED BY <1>3, <1>4

\* A successful revocation concerns one row, which was approved.
LEMMA RevokeEffect ==
    ASSUME IInv, NEW i \in Items, RevokeToActive(i) \/ RevokeToQueue(i)
    PROVE  /\ resolution[i] = "approved" /\ status[i] = "approved"
           /\ resolution' = [resolution EXCEPT ![i] = Null]
           /\ audit'[i] = Append(audit[i], "approval_revoked")
           /\ \A j \in Items \ {i} : status'[j] = status[j]
           /\ \A j \in Items \ {i} : is_active_item'[j] = is_active_item[j]
           /\ i \notin Active
<1> USE DEF IInv, TypeOK
<1>1. status[i] = "approved" /\ "approved" \in ApprovalResolution
  BY DEF RevokeToActive, RevokeToQueue, ApprovalResolution
<1>2. resolution[i] = "approved" /\ i \notin Active
  BY <1>1, StatusFacts DEF ColumnsAgree, Active
<1>3. audit'[i] = Append(audit[i], "approval_revoked")
  BY DEF RevokeToActive, RevokeToQueue, LogAuditEvent
<1> QED BY <1>1, <1>2, <1>3 DEF RevokeToActive, RevokeToQueue

\* Creating, reminding and holding decide nothing and retire nothing.
LEMMA UndecidedEffect ==
    ASSUME IInv, NEW i \in Items,
           \/ \E label \in ClassificationLabel : CreateActive(i, label) \/ CreateQueued(i, label)
           \/ SendReminder(i) \/ Hold(i)
    PROVE  /\ resolution' = resolution
           /\ \A j \in Items : is_active_item[j] => is_active_item'[j]
           /\ \A j \in Items \ {i} : status'[j] = status[j]
           /\ status[i] # "holding"
<1> USE DEF IInv, TypeOK
<1>1. status[i] # "holding"
  BY StatusFacts DEF CreateActive, CreateQueued, Rows, SendReminder, Hold, PastNotice
<1> QED BY <1>1 DEF CreateActive, CreateQueued, SendReminder, Hold

\* An active item leaves the owner's screen only with a decision: no creation,
\* revocation, reorder, reminder or retry preempts it.
THEOREM NeverPreempted == Spec => NoPreemption
<1> DEFINE Step == \A i \in Active : i \notin Active' => resolution'[i] # Null
<1>1. IInv /\ [Next]_vars => [Step]_vars
  <2> SUFFICES ASSUME IInv, [Next]_vars PROVE Step
    OBVIOUS
  <2>1. ASSUME NEW i \in Items, NEW r \in ApprovalResolution, ResolveLast(i, r) \/ ResolveAndAdvance(i, r)
        PROVE  Step
    BY <2>1, AnswerEffect, StatusFacts DEF Active, IInv, TypeOK, ApprovalStatus
  <2>2. ASSUME NEW i \in Items, RevokeToActive(i) \/ RevokeToQueue(i)
        PROVE  Step
    BY <2>2, RevokeEffect DEF Active
  <2>3. CASE UNCHANGED <<status, is_active_item, resolution>>
    BY <2>3 DEF Active
  <2> QED BY <2>1, <2>2, <2>3, StepCases, UndecidedEffect DEF Active
<1> QED BY <1>1, Invariance, PTL DEF Spec, NoPreemption

\* A holding item changes its status only when the owner answers.
THEOREM HoldingStaysSilent == Spec => HoldingIsSilent
<1> DEFINE Step == \A i \in Items : status[i] = "holding" /\ status'[i] # "holding"
                                     => status'[i] \in ApprovalResolution
<1>1. IInv /\ [Next]_vars => [Step]_vars
  <2> SUFFICES ASSUME IInv, [Next]_vars PROVE Step
    OBVIOUS
  <2>1. ASSUME NEW i \in Items, NEW r \in ApprovalResolution, ResolveLast(i, r) \/ ResolveAndAdvance(i, r)
        PROVE  Step
    BY <2>1, AnswerEffect
  <2>2. ASSUME NEW i \in Items, RevokeToActive(i) \/ RevokeToQueue(i)
        PROVE  Step
    BY <2>2, RevokeEffect
  <2>3. CASE UNCHANGED <<status, is_active_item, resolution>>
    BY <2>3
  <2> QED BY <2>1, <2>2, <2>3, StepCases, UndecidedEffect
<1> QED BY <1>1, Invariance, PTL DEF Spec, HoldingIsSilent

\* A decision is made only by an answer to the active item, undone only by the
\* revocation of an approval, never flipped, and logged in the step that makes it.
THEOREM DecisionsStand == Spec => DecisionStands
<1> DEFINE Logged(i, e) == Len(audit'[i]) = Len(audit[i]) + 1 /\ audit'[i][Len(audit'[i])] = e
           Step == \A i \in Items :
                      resolution'[i] # resolution[i] =>
                        \/ /\ resolution[i] = Null /\ i \in Active
                           /\ Len(audit'[i]) = Len(audit[i]) + 1
                           /\ audit'[i][Len(audit'[i])] = resolution'[i]
                        \/ /\ resolution[i] = "approved" /\ resolution'[i] = Null
                           /\ Len(audit'[i]) = Len(audit[i]) + 1
                           /\ audit'[i][Len(audit'[i])] = "approval_revoked"
<1>1. IInv /\ [Next]_vars => [Step]_vars
  <2> SUFFICES ASSUME IInv, [Next]_vars PROVE Step
    OBVIOUS
  <2>1. ASSUME NEW i \in Items, NEW e \in AuditEvent, audit'[i] = Append(audit[i], e)
        PROVE  Logged(i, e)
    BY <2>1 DEF IInv, TypeOK
  <2>2. ASSUME NEW i \in Items, NEW r \in ApprovalResolution, ResolveLast(i, r) \/ ResolveAndAdvance(i, r)
        PROVE  Step
    <3>1. /\ i \in Active /\ resolution[i] = Null
          /\ resolution' = [resolution EXCEPT ![i] = r]
          /\ audit'[i] = Append(audit[i], r)
      BY <2>2, AnswerEffect
    <3>2. Logged(i, r)
      BY <2>1, <3>1, StatusFacts
    <3> QED BY <3>1, <3>2 DEF IInv, TypeOK
  <2>3. ASSUME NEW i \in Items, RevokeToActive(i) \/ RevokeToQueue(i)
        PROVE  Step
    <3>1. /\ resolution[i] = "approved"
          /\ resolution' = [resolution EXCEPT ![i] = Null]
          /\ audit'[i] = Append(audit[i], "approval_revoked")
      BY <2>3, RevokeEffect
    <3>2. Logged(i, "approval_revoked")
      BY <2>1, <3>1, StatusFacts
    <3> QED BY <3>1, <3>2 DEF IInv, TypeOK
  <2>4. CASE UNCHANGED <<status, is_active_item, resolution>>
    BY <2>4
  <2> QED BY <2>2, <2>3, <2>4, StepCases, UndecidedEffect
<1> QED BY <1>1, Invariance, PTL DEF Spec, DecisionStands
=============================================================================
