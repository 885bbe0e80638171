--------------------------- MODULE ApprovalQueue ---------------------------
(***************************************************************************)
(* The approval queue of modules/approvals/service.py together with the    *)
(* one-minute reminder job of reminder_job.py.                             *)
(*                                                                         *)
(* A row of the table approval_queue is spread over one variable per       *)
(* column.  Every service function is one action: its caller opens one     *)
(* session, the function runs inside one transaction, and the model takes  *)
(* these transactions one at a time.  ApprovalSessions.tla looks inside    *)
(* them, at what overlapping transactions may do to one another.           *)
(*                                                                         *)
(* A timestamp is kept as the time elapsed since it, cut off at Horizon:   *)
(* the code only compares "now" with timestamp + wait.                     *)
(***************************************************************************)
EXTENDS Integers, Sequences, FiniteSets

CONSTANTS
    Items,              \* primary keys of approval_queue (UUIDs)
    Null,               \* SQL NULL
    INITIAL_WAIT,       \* reminder_job.INITIAL_WAIT, in clock ticks
    REMINDER_INTERVAL,  \* reminder_job.REMINDER_INTERVAL, in clock ticks
    MAX_REMINDERS,      \* reminder_job.MAX_REMINDERS
    MaxPosition,        \* bound: queue_position is a 32-bit INTEGER column
    MaxAudit            \* bound: audit rows kept for one approval_id

ASSUME ItemsAssumption == IsFiniteSet(Items)

ASSUME TimingAssumption ==
    /\ INITIAL_WAIT \in Nat
    /\ REMINDER_INTERVAL \in Nat
    /\ MAX_REMINDERS \in 1..6

ASSUME BoundAssumption == MaxPosition \in Nat /\ MaxAudit \in Nat

VARIABLES
    classification,   \* summary_payload["classification"]; Null: no such row
    status,           \* Null: no such row
    is_active_item,
    queue_position,
    resolution,       \* with resolved_at and resolution_note, written together
    since_pending,    \* time elapsed since pending_started_at
    since_reminder,   \* time elapsed since last_reminder_at
    reminder_count,
    notice_sent,      \* initial_notice_sent_at is not NULL
    audit             \* approval_audit_log: the rows of an id, oldest first

timers == <<since_pending, since_reminder, notice_sent, reminder_count>>
vars == <<classification, status, is_active_item, queue_position, resolution,
          timers, audit>>

----------------------------------------------------------------------------
ClassificationLabel == {"buy", "high_risk"}   \* APPROVAL_GATED_LABELS
ApprovalResolution == {"approved", "denied"}

\* _REMINDER_STATUS_BY_COUNT
ReminderStatus == <<"reminder_1", "reminder_2", "reminder_3",
                    "reminder_4", "reminder_5", "reminder_6">>

ActiveStatus == {"pending", "holding"} \cup {ReminderStatus[k] : k \in 1..6}
ApprovalStatus == {"queued"} \cup ActiveStatus \cup ApprovalResolution

AuditEvent == ApprovalResolution \cup {"approval_revoked", "rejected"}

\* NULL is no key, no number and no value of an enumeration.
ASSUME NullAssumption == Null \notin Items \cup Int \cup ClassificationLabel \cup ApprovalStatus

Horizon == IF INITIAL_WAIT > REMINDER_INTERVAL THEN INITIAL_WAIT ELSE REMINDER_INTERVAL
Elapsed == 0..Horizon

----------------------------------------------------------------------------
Rows == {i \in Items : status[i] # Null}

\* _get_active_item
Active == {i \in Items : is_active_item[i]}

\* _get_queued_items_ordered: the rows, and those its ORDER BY may put first
Queued == {i \in Items : status[i] = "queued"}
Front == {i \in Queued : \A q \in Queued : queue_position[i] <= queue_position[q]}

\* The positions after "for row in S: row.queue_position += d"
Shifted(S, d) ==
    [q \in Items |-> IF q \in S THEN queue_position[q] + d ELSE queue_position[q]]

\* Every position can grow by one and stay inside the bound
RoomToShift == Cardinality(Queued) < MaxPosition
               /\ \A q \in Queued : queue_position[q] < MaxPosition

\* _log_audit_event
LogAuditEvent(i, event) ==
    /\ Len(audit[i]) < MaxAudit
    /\ audit' = [audit EXCEPT ![i] = Append(@, event)]

----------------------------------------------------------------------------
Init ==
    /\ classification = [i \in Items |-> Null]
    /\ status = [i \in Items |-> Null]
    /\ is_active_item = [i \in Items |-> FALSE]
    /\ queue_position = [i \in Items |-> Null]
    /\ resolution = [i \in Items |-> Null]
    /\ since_pending = [i \in Items |-> Null]
    /\ since_reminder = [i \in Items |-> Null]
    /\ reminder_count = [i \in Items |-> 0]
    /\ notice_sent = [i \in Items |-> FALSE]
    /\ audit = [i \in Items \cup {Null} |-> <<>>]

(***************************************************************************)
(* create_from_classification.  A result whose label is not gated creates  *)
(* nothing.                                                                *)
(***************************************************************************)
CreateActive(i, label) ==
    /\ i \notin Rows
    /\ Active = {}
    /\ classification' = [classification EXCEPT ![i] = label]
    /\ status' = [status EXCEPT ![i] = "pending"]
    /\ is_active_item' = [is_active_item EXCEPT ![i] = TRUE]
    /\ since_pending' = [since_pending EXCEPT ![i] = 0]
    /\ UNCHANGED <<queue_position, resolution, since_reminder, notice_sent,
                   reminder_count, audit>>

\* The queued rows a new row is inserted behind: for HIGH_RISK all of them,
\* for BUY the rows that precede the first row that is not BUY.
BuggyInsertBehind(label, P) ==   \* counts every BUY, not the leading ones
    P = IF label = "high_risk" THEN Queued ELSE {q \in Queued : classification[q] = "buy"}

InsertBehind(label, P) ==
    IF label = "high_risk"
    THEN P = Queued
    ELSE /\ \A p \in P : classification[p] = "buy"
         /\ \A p \in P, q \in Queued \ P : queue_position[p] <= queue_position[q]
         /\ \/ P = Queued
            \/ \E x \in Queued \ P :
                  /\ classification[x] # "buy"
                  /\ \A q \in Queued \ P : queue_position[x] <= queue_position[q]

CreateQueued(i, label) ==
    /\ i \notin Rows
    /\ Active # {}
    /\ RoomToShift
    /\ \E P \in SUBSET Queued :
          /\ InsertBehind(label, P)
          /\ queue_position' = [Shifted(Queued \ P, 1) EXCEPT ![i] = Cardinality(P) + 1]
    /\ classification' = [classification EXCEPT ![i] = label]
    /\ status' = [status EXCEPT ![i] = "queued"]
    /\ UNCHANGED <<is_active_item, resolution, timers, audit>>

CreateFromClassification ==
    \E i \in Items, label \in ClassificationLabel :
        CreateActive(i, label) \/ CreateQueued(i, label)

----------------------------------------------------------------------------
(***************************************************************************)
(* resolve_active_item, one action per return path.                        *)
(***************************************************************************)
BuggyResolveLast(i, r) ==        \* forgets _advance_queue
    /\ i \in Active
    /\ status' = [status EXCEPT ![i] = r]
    /\ is_active_item' = [is_active_item EXCEPT ![i] = FALSE]
    /\ resolution' = [resolution EXCEPT ![i] = r]
    /\ LogAuditEvent(i, r)
    /\ UNCHANGED <<classification, queue_position, timers>>

\* The item is the active one and no row waits: nothing becomes active.
ResolveLast(i, r) ==
    /\ i \in Active
    /\ Queued = {}
    /\ status' = [status EXCEPT ![i] = r]
    /\ is_active_item' = [is_active_item EXCEPT ![i] = FALSE]
    /\ resolution' = [resolution EXCEPT ![i] = r]
    /\ LogAuditEvent(i, r)
    /\ UNCHANGED <<classification, queue_position, timers>>

BuggyResolveAndAdvance(i, r) ==  \* leaves the promoted row its position
    /\ i \in Active
    /\ \E n \in Front :
          /\ status' = [status EXCEPT ![i] = r, ![n] = "pending"]
          /\ is_active_item' = [is_active_item EXCEPT ![i] = FALSE, ![n] = TRUE]
          /\ since_pending' = [since_pending EXCEPT ![n] = 0]
          /\ queue_position' = Shifted(Queued \ {n}, -1)
    /\ resolution' = [resolution EXCEPT ![i] = r]
    /\ LogAuditEvent(i, r)
    /\ UNCHANGED <<classification, since_reminder, reminder_count, notice_sent>>

\* The item is the active one; _advance_queue makes the row at the front active.
ResolveAndAdvance(i, r) ==
    /\ i \in Active
    /\ \E n \in Front :
          /\ status' = [status EXCEPT ![i] = r, ![n] = "pending"]
          /\ is_active_item' = [is_active_item EXCEPT ![i] = FALSE, ![n] = TRUE]
          /\ since_pending' = [since_pending EXCEPT ![n] = 0]
          /\ queue_position' = [Shifted(Queued \ {n}, -1) EXCEPT ![n] = Null]
    /\ resolution' = [resolution EXCEPT ![i] = r]
    /\ LogAuditEvent(i, r)
    /\ UNCHANGED <<classification, since_reminder, notice_sent, reminder_count>>

\* The item was already resolved this way: the call is logged, nothing changes.
ResolveReplay(i, r) ==
    /\ i \notin Active
    /\ resolution[i] = r
    /\ LogAuditEvent(i, r)
    /\ UNCHANGED <<classification, status, is_active_item, queue_position, resolution, timers>>

BuggyResolveRejected(i, r) ==    \* logs what was asked, not that it was refused
    /\ i \notin Active
    /\ r \in ApprovalResolution
    /\ resolution[i] # r
    /\ LogAuditEvent(IF i \in Rows THEN i ELSE Null, r)
    /\ UNCHANGED <<classification, status, is_active_item, queue_position, resolution, timers>>

LastWriterResolve(i, r) ==       \* a retry overwrites the decision already made
    /\ i \in Rows \ Active
    /\ resolution[i] # r
    /\ resolution' = [resolution EXCEPT ![i] = r]
    /\ LogAuditEvent(i, r)
    /\ UNCHANGED <<classification, status, is_active_item, queue_position, timers>>

\* Resolved the other way, not the active item, not an item, or asked with a word
\* that is no resolution: rejected.  An unknown id is logged under NULL.
ResolveRejected(i, r) ==
    /\ i \in Active => r \notin ApprovalResolution
    /\ resolution[i] # r
    /\ LogAuditEvent(IF i \in Rows THEN i ELSE Null, "rejected")
    /\ UNCHANGED <<classification, status, is_active_item, queue_position, resolution, timers>>

ResolveActiveItem ==
    \E i \in Items :
        \/ \E r \in ApprovalResolution :
              ResolveLast(i, r) \/ ResolveAndAdvance(i, r) \/ ResolveReplay(i, r)
        \/ \E r \in ApprovalResolution \cup {"no resolution"} : ResolveRejected(i, r)

----------------------------------------------------------------------------
(***************************************************************************)
(* revoke_decision: from APPROVED only, through one conditional UPDATE.    *)
(***************************************************************************)
EvictingRevoke(i) ==             \* "approved -> pending", whatever is active
    /\ status[i] = "approved"
    /\ status' = [status EXCEPT ![i] = "pending"]
    /\ is_active_item' = [is_active_item EXCEPT ![i] = TRUE]
    /\ resolution' = [resolution EXCEPT ![i] = Null]
    /\ since_pending' = [since_pending EXCEPT ![i] = 0]
    /\ LogAuditEvent(i, "approval_revoked")
    /\ UNCHANGED <<classification, queue_position, since_reminder, reminder_count, notice_sent>>

HalfFreshRevoke(i) ==            \* clears last_reminder_at, keeps reminder_count
    /\ status[i] = "approved"
    /\ Active = {}
    /\ status' = [status EXCEPT ![i] = "pending"]
    /\ is_active_item' = [is_active_item EXCEPT ![i] = TRUE]
    /\ resolution' = [resolution EXCEPT ![i] = Null]
    /\ since_pending' = [since_pending EXCEPT ![i] = 0]
    /\ since_reminder' = [since_reminder EXCEPT ![i] = Null]
    /\ LogAuditEvent(i, "approval_revoked")
    /\ UNCHANGED <<classification, queue_position, reminder_count, notice_sent>>

\* Nothing is active: the item is, with fresh timers.
RevokeToActive(i) ==
    /\ status[i] = "approved"
    /\ Active = {}
    /\ status' = [status EXCEPT ![i] = "pending"]
    /\ is_active_item' = [is_active_item EXCEPT ![i] = TRUE]
    /\ queue_position' = [queue_position EXCEPT ![i] = Null]
    /\ resolution' = [resolution EXCEPT ![i] = Null]
    /\ since_pending' = [since_pending EXCEPT ![i] = 0]
    /\ since_reminder' = [since_reminder EXCEPT ![i] = Null]
    /\ reminder_count' = [reminder_count EXCEPT ![i] = 0]
    /\ LogAuditEvent(i, "approval_revoked")
    /\ UNCHANGED <<classification, notice_sent>>

UnshiftedRevoke(i) ==            \* takes position 1 without moving the others
    /\ status[i] = "approved"
    /\ Active # {}
    /\ status' = [status EXCEPT ![i] = "queued"]
    /\ queue_position' = [queue_position EXCEPT ![i] = 1]
    /\ resolution' = [resolution EXCEPT ![i] = Null]
    /\ LogAuditEvent(i, "approval_revoked")
    /\ UNCHANGED <<classification, is_active_item, timers>>

\* Another item is active: this one goes to the front of the queue.
RevokeToQueue(i) ==
    /\ status[i] = "approved"
    /\ Active # {}
    /\ RoomToShift
    /\ status' = [status EXCEPT ![i] = "queued"]
    /\ is_active_item' = [is_active_item EXCEPT ![i] = FALSE]
    /\ queue_position' = [Shifted(Queued, 1) EXCEPT ![i] = 1]
    /\ resolution' = [resolution EXCEPT ![i] = Null]
    /\ LogAuditEvent(i, "approval_revoked")
    /\ UNCHANGED <<classification, timers>>

RevokeRejected(i) ==
    /\ status[i] # "approved"
    /\ LogAuditEvent(IF i \in Rows THEN i ELSE Null, "rejected")
    /\ UNCHANGED <<classification, status, is_active_item, queue_position, resolution, timers>>

RevokeDecision ==
    \E i \in Items : RevokeToActive(i) \/ RevokeToQueue(i) \/ RevokeRejected(i)

----------------------------------------------------------------------------
(***************************************************************************)
(* reorder_queue(i).  Any item that is not queued raises and changes       *)
(* nothing.                                                                *)
(***************************************************************************)
UnshiftedReorder(i) ==           \* takes position 1 without moving the others
    /\ i \in Queued
    /\ queue_position' = [queue_position EXCEPT ![i] = 1]
    /\ UNCHANGED <<classification, status, is_active_item, resolution, timers, audit>>

PreemptingReorder(i) ==          \* swaps the item with the active one
    /\ i \in Queued
    /\ \E a \in Active :
          /\ status' = [status EXCEPT ![i] = "pending", ![a] = "queued"]
          /\ is_active_item' = [is_active_item EXCEPT ![i] = TRUE, ![a] = FALSE]
          /\ queue_position' = [queue_position EXCEPT ![i] = Null, ![a] = queue_position[i]]
          /\ since_pending' = [since_pending EXCEPT ![i] = 0]
    /\ UNCHANGED <<classification, resolution, since_reminder, reminder_count, notice_sent, audit>>

Reorder(i) ==
    /\ i \in Queued
    /\ RoomToShift
    /\ queue_position' = [Shifted(Queued, 1) EXCEPT ![i] = 1]
    /\ UNCHANGED <<classification, status, is_active_item, resolution, timers, audit>>

ReorderQueue == \E i \in Items : Reorder(i)

----------------------------------------------------------------------------
(***************************************************************************)
(* check_and_send_reminder, one action per outcome that changes the row.   *)
(* A failed send ("send_failed"), and a job that dies between the send and *)
(* its commit, leave the row as it was.                                    *)
(***************************************************************************)
InitialNotice(i) ==
    /\ i \in Active
    /\ ~notice_sent[i]
    /\ notice_sent' = [notice_sent EXCEPT ![i] = TRUE]
    /\ UNCHANGED <<classification, status, is_active_item, queue_position, resolution,
                   since_pending, since_reminder, reminder_count, audit>>

\* now >= due_at
Due(i) ==
    IF reminder_count[i] = 0
    THEN since_pending[i] >= INITIAL_WAIT
    ELSE since_reminder[i] >= REMINDER_INTERVAL

PastNotice(i) == i \in Active /\ notice_sent[i] /\ status[i] # "holding" /\ Due(i)

OneReminderTooMany(i) ==         \* compares with <= instead of <
    /\ PastNotice(i)
    /\ reminder_count[i] <= MAX_REMINDERS
    /\ reminder_count' = [reminder_count EXCEPT ![i] = @ + 1]
    /\ since_reminder' = [since_reminder EXCEPT ![i] = 0]
    /\ status' = [status EXCEPT ![i] = ReminderStatus[reminder_count[i] + 1]]
    /\ UNCHANGED <<classification, is_active_item, queue_position, resolution,
                   since_pending, notice_sent, audit>>

SendReminder(i) ==
    /\ PastNotice(i)
    /\ reminder_count[i] < MAX_REMINDERS
    /\ reminder_count' = [reminder_count EXCEPT ![i] = @ + 1]
    /\ since_reminder' = [since_reminder EXCEPT ![i] = 0]
    /\ status' = [status EXCEPT ![i] = ReminderStatus[reminder_count[i] + 1]]
    /\ UNCHANGED <<classification, is_active_item, queue_position, resolution,
                   since_pending, notice_sent, audit>>

BuggyHold(i) ==                  \* compares with > instead of >=
    /\ PastNotice(i)
    /\ reminder_count[i] > MAX_REMINDERS
    /\ status' = [status EXCEPT ![i] = "holding"]
    /\ UNCHANGED <<classification, is_active_item, queue_position, resolution, timers, audit>>

Hold(i) ==
    /\ PastNotice(i)
    /\ reminder_count[i] >= MAX_REMINDERS
    /\ status' = [status EXCEPT ![i] = "holding"]
    /\ UNCHANGED <<classification, is_active_item, queue_position, resolution, timers, audit>>

CheckAndSendReminder ==
    \E i \in Items : InitialNotice(i) \/ SendReminder(i) \/ Hold(i)

Later(t) == IF t = Null THEN Null ELSE IF t < Horizon THEN t + 1 ELSE t

Tick ==
    /\ since_pending' = [i \in Items |-> Later(since_pending[i])]
    /\ since_reminder' = [i \in Items |-> Later(since_reminder[i])]
    /\ UNCHANGED <<classification, status, is_active_item, queue_position, resolution,
                   reminder_count, notice_sent, audit>>

----------------------------------------------------------------------------
\* What the worker, the MCP tools and the REST endpoint call
ServiceCall ==
    CreateFromClassification \/ ResolveActiveItem \/ RevokeDecision \/ ReorderQueue

Next == ServiceCall \/ CheckAndSendReminder \/ Tick

Spec == Init /\ [][Next]_vars

\* The scheduler starts the job every minute, and Telegram does not refuse
\* every message for ever.  Nobody has to answer.
Fairness == WF_vars(CheckAndSendReminder) /\ WF_vars(Tick)

FairSpec == Spec /\ Fairness

----------------------------------------------------------------------------
(***************************************************************************)
(* Properties.                                                             *)
(***************************************************************************)
TypeOK ==
    /\ classification \in [Items -> ClassificationLabel \cup {Null}]
    /\ status \in [Items -> ApprovalStatus \cup {Null}]
    /\ is_active_item \in [Items -> BOOLEAN]
    /\ queue_position \in [Items -> Int \cup {Null}]
    /\ resolution \in [Items -> ApprovalResolution \cup {Null}]
    /\ since_pending \in [Items -> Elapsed \cup {Null}]
    /\ since_reminder \in [Items -> Elapsed \cup {Null}]
    /\ notice_sent \in [Items -> BOOLEAN]
    /\ reminder_count \in [Items -> 0..MAX_REMINDERS]
    /\ audit \in [Items \cup {Null} -> Seq(AuditEvent)]

\* The columns of a row tell the same story: the flag is set on exactly the
\* rows in an active status, a position is held by exactly the queued rows,
\* a resolution by exactly the rows in that terminal status (models.py:117-119
\* and 163-165).
ColumnsAgree ==
    \A i \in Items :
        /\ is_active_item[i] <=> status[i] \in ActiveStatus
        /\ queue_position[i] # Null <=> status[i] = "queued"
        /\ resolution[i] = (IF status[i] \in ApprovalResolution THEN status[i] ELSE Null)
        /\ classification[i] = Null <=> status[i] = Null

\* At most one item is pending, reminded or holding at a time
\* (uq_approval_queue_one_active_item never trips).
AtMostOneActive == \A i, j \in Active : i = j

\* While anything waits in the queue some item is in front of the owner: no
\* interleaving of calls leaves queued items with nothing active, a state
\* that neither an answer nor the reminder job could ever leave.
NoneStranded == Queued # {} => Active # {}

\* Positions never fall behind rank: at most n queued rows hold a position of
\* n or less.  Gaps appear (reorder_queue opens them), yet position 1 is held
\* by at most one row and _advance_queue never counts below 1.
PositionsAboveRank ==
    /\ \A q \in Queued : queue_position[q] >= 1
    /\ \A n \in 1..MaxPosition :
          Cardinality({q \in Queued : queue_position[q] <= n}) <= n

\* The reminder job can always compute due_at: the timestamp it is about to
\* add an interval to is never NULL on an active row, whatever sequence of
\* revocations and promotions led there; and the status it will index by
\* reminder_count + 1 agrees with the count.
DueTimeDefined ==
    \A i \in Active :
        /\ since_pending[i] # Null
        /\ reminder_count[i] > 0 => since_reminder[i] # Null
        /\ \A k \in 1..6 : status[i] = ReminderStatus[k] => reminder_count[i] = k
        /\ status[i] = "holding" => reminder_count[i] = MAX_REMINDERS

\* The latest entry of a log that is not a rejection is e.
LatestIs(log, e) ==
    \E k \in 1..Len(log) :
        log[k] = e /\ \A m \in (k + 1)..Len(log) : log[m] = "rejected"

\* The audit log alone tells the decision that stands: the latest applied
\* event of an id is "approved" ("denied") exactly while its row is resolved
\* that way, across replays, conflicts, revocations and rejected calls.
AuditExplainsDecision ==
    \A i \in Items, r \in ApprovalResolution :
        resolution[i] = r <=> LatestIs(audit[i], r)

\* A decision, once made, is never flipped nor dropped by anything but a
\* revocation of an approval, and no step other than an answer to the active
\* item makes one: reminders, promotions and retries never decide.
DecisionStands ==
    [][\A i \in Items :
          resolution'[i] # resolution[i] =>
              \/ /\ resolution[i] = Null /\ i \in Active
                 /\ Len(audit'[i]) = Len(audit[i]) + 1
                 /\ audit'[i][Len(audit'[i])] = resolution'[i]
              \/ /\ resolution[i] = "approved" /\ resolution'[i] = Null
                 /\ Len(audit'[i]) = Len(audit[i]) + 1
                 /\ audit'[i][Len(audit'[i])] = "approval_revoked"]_vars

\* The relative order of two items that are both waiting changes only when the
\* one that falls behind is overtaken by an explicit reorder_queue of the
\* other: insertion, promotion and revocation keep it (service.py:213-215).
OnlyExplicitReorder ==
    [][\A x, y \in Queued \cap Queued' :
          /\ queue_position[x] < queue_position[y]
          /\ ~(queue_position'[x] < queue_position'[y])
          => Reorder(y)]_vars

\* The item the owner moved to the front is the only candidate for the next
\* promotion, whatever gaps and ties earlier calls left in the positions.
ReorderedIsNextUp == [][\A i \in Items : Reorder(i) => Front' = {i}]_vars

\* An active item leaves the owner's screen only by being answered, and no
\* item becomes active while another one is: nothing preempts it.
NoPreemption ==
    [][\A i \in Active : i \notin Active' => resolution'[i] # Null]_vars

\* Nothing is sent about a holding item and no timer touches it: it changes
\* only when the owner answers.
HoldingIsSilent ==
    [][\A i \in Items :
          status[i] = "holding" /\ status'[i] # "holding"
          => status'[i] \in ApprovalResolution]_vars

\* An item that nobody answers ends in holding: no failure pattern of single
\* runs of the job leaves it stuck at a reminder.
UnansweredIsHeld ==
    \A i \in Items : i \in Active ~> (i \notin Active \/ status[i] = "holding")

----------------------------------------------------------------------------
(***************************************************************************)
(* What comments and documents say and the code does not do.               *)
(***************************************************************************)
\* "a new HIGH_RISK item is appended at the end" (service.py:213)
NewHighRiskIsLast ==
    [][\A i \in Items : CreateQueued(i, "high_risk") =>
          \A q \in Queued : queue_position'[q] <= queue_position'[i]]_vars

\* An item that becomes active begins a fresh reminder cycle
\* (OPENCLAW_APPROVAL_STATE_MACHINE_SPEC.md:79).
ActivationIsFresh ==
    [][\A i \in Items : i \notin Active /\ i \in Active' => reminder_count'[i] = 0]_vars
=============================================================================
