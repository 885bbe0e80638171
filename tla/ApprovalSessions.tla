-------------------------- MODULE ApprovalSessions --------------------------
(***************************************************************************)
(* The statements behind the calls of ApprovalQueue, run by sessions whose *)
(* transactions overlap: the API tasks (MCP tools, REST endpoint), the     *)
(* worker, which keeps one transaction open for a whole list run, and the  *)
(* reminder job.                                                           *)
(*                                                                         *)
(* PostgreSQL runs them READ COMMITTED: a SELECT sees what is committed    *)
(* when it starts and the session's own writes; an UPDATE waits for the    *)
(* row lock of an unfinished transaction.  SQLAlchemy's identity map keeps *)
(* the attributes of a row as the session first read them, and a flush     *)
(* writes the attributes that differ from that copy, with no version check *)
(* (db/base.py: autoflush=False, so writes wait for an explicit flush).    *)
(*                                                                         *)
(* Kept of the data: a row's status, its flag, position, resolution and    *)
(* notice.  reminder_1..6 and holding are two values that alternate, so    *)
(* that every reminder is a change.  A new row may land anywhere in the    *)
(* queue (the classification decides where).                               *)
(***************************************************************************)
EXTENDS Integers, Sequences, FiniteSets

CONSTANTS
    Items,      \* primary keys of approval_queue
    Sessions,   \* one call each; the worker's goes on to create more rows
    Calls,      \* the kinds of call they make
    MaxOpen,    \* how many transactions may be open at once
    Null

ASSUME ItemsAssumption == IsFiniteSet(Items)

VARIABLES
    rows,       \* the committed table
    call,       \* what a session was called with
    pc,         \* its next statement
    seen,       \* its identity map: rows it has loaded, as it believes they are
    plan,       \* attributes assigned in Python and not flushed yet
    writes,     \* flushed and not committed; the rows in it are locked
    event,      \* the audit event it will log
    log,        \* approval_audit_log, in commit order
    announced,  \* items whose initial notice Telegram has accepted at least once
    overlapped  \* history: two transactions have been open at once

vars == <<rows, call, pc, seen, plan, writes, event, log, announced, overlapped>>

----------------------------------------------------------------------------
\* Some columns of a row, or some rows: one alone, and f laid over g.
x :> y == [z \in {x} |-> y]
f @@ g == [x \in DOMAIN f \cup DOMAIN g |-> IF x \in DOMAIN f THEN f[x] ELSE g[x]]

Resolution == {"approved", "denied"}
ActiveStatus == {"pending", "reminder", "next_reminder"}

Row == [status : {Null, "queued"} \cup ActiveStatus \cup Resolution, active : BOOLEAN,
        pos : Int \cup {Null}, res : Resolution \cup {Null}, notice : BOOLEAN]

\* What an audit row can say
Event == Resolution \cup {"revoked", "rejected"}

\* NULL is no number and no value of an enumeration.
ASSUME NullAssumption == Null \notin Int \cup {"queued"} \cup ActiveStatus \cup Event

NoRow == [status |-> Null, active |-> FALSE, pos |-> Null, res |-> Null, notice |-> FALSE]
NoCall == [kind |-> "none", item |-> Null, res |-> Null]
Nothing == [c \in {} |-> Null]

\* The table as session s sees it
View(s) == [i \in Items |-> IF i \in DOMAIN writes[s] THEN writes[s][i] @@ rows[i] ELSE rows[i]]

ActiveIn(table) == {i \in Items : table[i].active}
QueuedIn(table) == {i \in Items : table[i].status = "queued"}
FrontOf(table) ==
    {i \in QueuedIn(table) : \A q \in QueuedIn(table) : table[i].pos <= table[q].pos}

Open == {s \in Sessions : pc[s] \notin {"idle", "done"}}

----------------------------------------------------------------------------
\* A SELECT that returns the rows in S: rows already in the identity map keep
\* the attributes they have there.
Loaded(s, S) == seen[s] @@ [i \in S |-> View(s)[i]]
Select(s, S) == seen' = [seen EXCEPT ![s] = Loaded(s, S)]

\* "for row in S: row.queue_position += d", on the copies the session holds
Shift(copies, S, d) == [q \in S |-> [pos |-> copies[q].pos + d]]
CanShift(copies, S) == \A q \in S : copies[q].pos # Null   \* None += 1 raises

\* The columns a flush of the planned row i writes
Dirty(s, i) ==
    IF i \in DOMAIN seen[s]
    THEN [c \in {c \in DOMAIN plan[s][i] : plan[s][i][c] # seen[s][i][c]} |-> plan[s][i][c]]
    ELSE plan[s][i]

DirtyRows(s) == {i \in DOMAIN plan[s] : DOMAIN Dirty(s, i) # {}}

NoRowLocks(s, i) == TRUE      \* an UPDATE that does not wait
Unlocked(s, i) == \A t \in Sessions \ {s} : i \notin DOMAIN writes[t]

\* uq_approval_queue_one_active_item lets s set the flag of i: no other row has
\* it, and no open transaction is about to give or take it.
NoUniqueIndex(s, i) == TRUE   \* a table without the partial unique index
UniqueIndexAdmits(s, i) ==
    /\ ActiveIn(View(s)) \subseteq {i}
    /\ \A t \in Sessions \ {s}, j \in Items :
          j \in DOMAIN writes[t] => "active" \notin DOMAIN writes[t][j]

\* db.flush(): waits for the locks and the index.  (A session that waits in
\* vain, on the index or in a deadlock, is rolled back: RollBack.)
Flush(s) ==
    /\ \A i \in DirtyRows(s) :
          /\ Unlocked(s, i)
          /\ "active" \in DOMAIN Dirty(s, i) /\ Dirty(s, i).active => UniqueIndexAdmits(s, i)
    /\ writes' = [writes EXCEPT ![s] =
          [i \in DirtyRows(s) |->
              Dirty(s, i) @@ (IF i \in DOMAIN writes[s] THEN writes[s][i] ELSE Nothing)]
          @@ writes[s]]
    /\ seen' = [seen EXCEPT ![s] =
          [i \in DOMAIN plan[s] |->
              plan[s][i] @@ (IF i \in DOMAIN seen[s] THEN seen[s][i] ELSE NoRow)]
          @@ seen[s]]
    /\ plan' = [plan EXCEPT ![s] = Nothing]

Goto(s, label) == pc' = [pc EXCEPT ![s] = label]
At(s, kind, label) == call[s].kind = kind /\ pc[s] = label
Assign(s, attributes) == plan' = [plan EXCEPT ![s] = attributes]
Log(s, e) == event' = [event EXCEPT ![s] = e]
Target(s) == call[s].item
Shared == <<rows, log, announced, overlapped>>

----------------------------------------------------------------------------
(***************************************************************************)
(* resolve_active_item(item, r)                                            *)
(***************************************************************************)
\* db.get(ApprovalQueue, approval_uuid)
ResolveGet(s) ==
    /\ At(s, "resolve", "get")
    /\ Select(s, {Target(s)})
    /\ Goto(s, "active")
    /\ UNCHANGED <<Shared, call, plan, writes, event>>

\* _get_active_item, and the branch: apply, replay or reject
ResolveCompare(s) ==
    LET i == Target(s)  r == call[s].res  active == ActiveIn(View(s))
    IN  /\ At(s, "resolve", "active")
        /\ Select(s, active)
        /\ IF i \in active
           THEN /\ Assign(s, i :> [res |-> r, status |-> r, active |-> FALSE])
                /\ Log(s, r)
                /\ Goto(s, "apply")
           ELSE /\ Log(s, IF seen[s][i].res = r THEN r ELSE "rejected")
                /\ Goto(s, "commit")
                /\ UNCHANGED plan
        /\ UNCHANGED <<Shared, call, writes>>

ResolveCommitsEarly(s) ==     \* commits the answer before the queue advances
    /\ At(s, "resolve", "apply")
    /\ rows' = [rows EXCEPT ![Target(s)] = plan[s][Target(s)] @@ @]
    /\ plan' = [plan EXCEPT ![s] = Nothing]
    /\ Goto(s, "queue")
    /\ UNCHANGED <<call, seen, writes, event, log, announced, overlapped>>

ResolveApply(s) ==
    /\ At(s, "resolve", "apply")
    /\ Flush(s)
    /\ Goto(s, "queue")
    /\ UNCHANGED <<Shared, call, event>>

\* _advance_queue
ResolveAdvance(s) ==
    LET queued == QueuedIn(View(s))
    IN  /\ At(s, "resolve", "queue")
        /\ Select(s, queued)
        /\ IF queued = {}
           THEN Goto(s, "commit") /\ UNCHANGED plan
           ELSE /\ \E n \in FrontOf(View(s)) :
                      /\ CanShift(Loaded(s, queued), queued \ {n})
                      /\ Assign(s, (n :> [status |-> "pending", active |-> TRUE, pos |-> Null])
                                @@ Shift(Loaded(s, queued), queued \ {n}, -1))
                /\ Goto(s, "flush")
        /\ UNCHANGED <<Shared, call, writes, event>>

----------------------------------------------------------------------------
(***************************************************************************)
(* revoke_decision(item)                                                   *)
(***************************************************************************)
RevokeReadThenWrite(s) ==     \* compares in Python instead of in the UPDATE
    LET i == Target(s)
    IN  /\ At(s, "revoke", "get")
        /\ Select(s, {i})
        /\ IF rows[i].status = "approved"
           THEN Log(s, "revoked") /\ Goto(s, "active")
           ELSE Log(s, "rejected") /\ Goto(s, "commit")
        /\ UNCHANGED <<Shared, call, plan, writes>>

\* UPDATE ... WHERE id = item AND status = 'approved', then db.get
RevokeUpdate(s) ==
    LET i == Target(s)
    IN  /\ At(s, "revoke", "get")
        /\ IF rows[i].status = "approved"
           THEN /\ Unlocked(s, i)
                /\ writes' = [writes EXCEPT ![s] = i :> [res |-> Null]]
                /\ seen' = [seen EXCEPT ![s] = i :> [rows[i] EXCEPT !.res = Null]]
                /\ Log(s, "revoked")
                /\ Goto(s, "active")
           ELSE /\ Log(s, "rejected")
                /\ Goto(s, "commit")
                /\ UNCHANGED <<writes, seen>>
        /\ UNCHANGED <<Shared, call, plan>>

RevokeAlwaysQueues(s) ==      \* queues the item even when nothing is active
    /\ At(s, "revoke", "active")
    /\ Goto(s, "queue")
    /\ UNCHANGED <<Shared, call, seen, plan, writes, event>>

RevokeCompare(s) ==
    LET active == ActiveIn(View(s))
    IN  /\ At(s, "revoke", "active")
        /\ Select(s, active)
        /\ IF active = {}
           THEN /\ Assign(s, Target(s) :> [status |-> "pending", active |-> TRUE, pos |-> Null])
                /\ Goto(s, "flush")
           ELSE Goto(s, "queue") /\ UNCHANGED plan
        /\ UNCHANGED <<Shared, call, writes, event>>

RevokeToFront(s) ==
    LET queued == QueuedIn(View(s))
    IN  /\ At(s, "revoke", "queue")
        /\ Select(s, queued)
        /\ CanShift(Loaded(s, queued), queued)
        /\ Assign(s, (Target(s) :> [status |-> "queued", active |-> FALSE, pos |-> 1])
                     @@ Shift(Loaded(s, queued), queued, 1))
        /\ Goto(s, "flush")
        /\ UNCHANGED <<Shared, call, writes, event>>

----------------------------------------------------------------------------
(***************************************************************************)
(* create_from_classification, for a classification with the label         *)
(***************************************************************************)
CreateCompare(s) ==
    LET active == ActiveIn(View(s))
    IN  /\ At(s, "create", "get")
        /\ Select(s, active)
        /\ IF active = {}
           THEN /\ Assign(s, Target(s) :> [NoRow EXCEPT !.status = "pending", !.active = TRUE])
                /\ Goto(s, "flush")
           ELSE Goto(s, "queue") /\ UNCHANGED plan
        /\ UNCHANGED <<Shared, call, writes, event>>

CreateInsert(s) ==
    LET queued == QueuedIn(View(s))
    IN  /\ At(s, "create", "queue")
        /\ Select(s, queued)
        /\ \E P \in SUBSET queued :
              /\ \A p \in P, q \in queued \ P : View(s)[p].pos <= View(s)[q].pos
              /\ CanShift(Loaded(s, queued), queued \ P)
              /\ Assign(s, (Target(s) :> [NoRow EXCEPT !.status = "queued", !.pos = Cardinality(P) + 1])
                           @@ Shift(Loaded(s, queued), queued \ P, 1))
        /\ Goto(s, "flush")
        /\ UNCHANGED <<Shared, call, writes, event>>

----------------------------------------------------------------------------
(***************************************************************************)
(* reorder_queue(item)                                                     *)
(***************************************************************************)
ReorderGet(s) ==
    /\ At(s, "reorder", "get")
    /\ Select(s, {Target(s)})
    /\ Goto(s, IF View(s)[Target(s)].status = "queued" THEN "queue" ELSE "commit")
    /\ UNCHANGED <<Shared, call, plan, writes, event>>

\* queued.remove(item) raises when the item is no longer among the rows read.
ReorderMove(s) ==
    LET queued == QueuedIn(View(s))
    IN  /\ At(s, "reorder", "queue")
        /\ Select(s, queued)
        /\ IF Target(s) \in queued
           THEN /\ CanShift(Loaded(s, queued), queued \ {Target(s)})
                /\ Assign(s, (Target(s) :> [pos |-> 1])
                             @@ Shift(Loaded(s, queued), queued \ {Target(s)}, 1))
                /\ Goto(s, "flush")
           ELSE Goto(s, "commit") /\ UNCHANGED plan
        /\ UNCHANGED <<Shared, call, writes, event>>

----------------------------------------------------------------------------
(***************************************************************************)
(* check_and_send_reminder                                                 *)
(***************************************************************************)
\* What it writes once Telegram has the message, by the row as it was read
Reminded(row) ==
    IF ~row.notice THEN [notice |-> TRUE]
    ELSE [status |-> IF row.status = "reminder" THEN "next_reminder" ELSE "reminder"]

RemindRead(s) ==
    LET active == ActiveIn(View(s))
    IN  /\ At(s, "remind", "get")
        /\ Select(s, active)
        /\ Goto(s, IF active = {} THEN "commit" ELSE "send")
        /\ UNCHANGED <<Shared, call, plan, writes, event>>

RemindUnsent(s) ==            \* records the notice before it is sent
    /\ At(s, "remind", "send")
    /\ \E i \in DOMAIN seen[s] :
          Assign(s, i :> Reminded(seen[s][i]))
    /\ Goto(s, "flush")
    /\ UNCHANGED <<Shared, call, seen, writes, event>>

\* notifier.send_reminder: up to ten seconds, with the row read before it
RemindSend(s) ==
    /\ At(s, "remind", "send")
    /\ \E i \in DOMAIN seen[s] :
          /\ Assign(s, i :> Reminded(seen[s][i]))
          /\ announced' = IF seen[s][i].notice THEN announced ELSE announced \cup {i}
    /\ Goto(s, "flush")
    /\ UNCHANGED <<rows, log, overlapped, call, seen, writes, event>>

\* TelegramNotifierError: "send_failed", and nothing to flush
RemindFail(s) ==
    /\ At(s, "remind", "send")
    /\ Goto(s, "commit")
    /\ UNCHANGED <<Shared, call, seen, plan, writes, event>>

----------------------------------------------------------------------------
LastFlush(s) ==
    /\ pc[s] = "flush"
    /\ Flush(s)
    /\ Goto(s, "commit")
    /\ UNCHANGED <<Shared, call, event>>

\* session.close(): locks and identity map are gone
Close(s) ==
    /\ call' = [call EXCEPT ![s] = NoCall]
    /\ seen' = [seen EXCEPT ![s] = Nothing]
    /\ plan' = [plan EXCEPT ![s] = Nothing]
    /\ writes' = [writes EXCEPT ![s] = Nothing]
    /\ event' = [event EXCEPT ![s] = Null]
    /\ Goto(s, "done")

Commit(s) ==
    /\ pc[s] = "commit"
    /\ rows' = View(s)
    /\ log' = IF event[s] = Null THEN log
              ELSE [log EXCEPT ![Target(s)] = Append(@, event[s])]
    /\ Close(s)
    /\ UNCHANGED <<announced, overlapped>>

\* An exception, a deadlock, the unique index or a crash: the transaction is
\* rolled back.  A message that was sent stays sent.
RollBack(s) ==
    /\ s \in Open
    /\ Close(s)
    /\ UNCHANGED Shared

\* A new row has a key of its own.
Fresh(i) ==
    /\ rows[i].status = Null
    /\ \A t \in Open : Target(t) # i /\ i \notin DOMAIN writes[t]

\* A call begins: it creates a row or names one.
Begin(s) ==
    /\ pc[s] = "idle"
    /\ Cardinality(Open) < MaxOpen
    /\ \E kind \in Calls, i \in Items, r \in Resolution :
          /\ IF kind = "create" THEN Fresh(i) ELSE rows[i].status # Null
          /\ kind # "resolve" => r = "approved"
          /\ call' = [call EXCEPT ![s] = [kind |-> kind, item |-> i, res |-> r]]
    /\ Goto(s, "get")
    /\ overlapped' = (overlapped \/ Open # {})
    /\ UNCHANGED <<rows, log, announced, seen, plan, writes, event>>

\* process_run goes on to the next row of the list that is to be approved, in the
\* same transaction.  The identity map refers weakly to the rows the last call
\* loaded: it may have kept any of them.
NextCreate(s) ==
    /\ At(s, "create", "commit")
    /\ \E i \in Items : Fresh(i) /\ call' = [call EXCEPT ![s].item = i]
    /\ \E kept \in SUBSET DOMAIN seen[s] :
          seen' = [seen EXCEPT ![s] = [i \in kept |-> seen[s][i]]]
    /\ Goto(s, "get")
    /\ UNCHANGED <<Shared, plan, writes, event>>

Step(s) ==
    \/ Begin(s) \/ NextCreate(s)
    \/ ResolveGet(s) \/ ResolveCompare(s) \/ ResolveApply(s) \/ ResolveAdvance(s)
    \/ RevokeUpdate(s) \/ RevokeCompare(s) \/ RevokeToFront(s)
    \/ CreateCompare(s) \/ CreateInsert(s)
    \/ ReorderGet(s) \/ ReorderMove(s)
    \/ RemindRead(s) \/ RemindSend(s) \/ RemindFail(s)
    \/ LastFlush(s) \/ Commit(s) \/ RollBack(s)

Next == \E s \in Sessions : Step(s)

----------------------------------------------------------------------------
(***************************************************************************)
(* What makes a table consistent (the invariants of ApprovalQueue), and    *)
(* the tables calls are made on.                                           *)
(***************************************************************************)
AtMostOneActive(table) == Cardinality(ActiveIn(table)) <= 1

NoneStranded(table) == QueuedIn(table) # {} => ActiveIn(table) # {}

FlagIsStatus(table) == \A i \in Items : table[i].active <=> table[i].status \in ActiveStatus

PositionIsQueued(table) == \A i \in Items : table[i].pos # Null <=> table[i].status = "queued"

ResolutionIsStatus(table) ==
    \A i \in Items :
        table[i].res = (IF table[i].status \in Resolution THEN table[i].status ELSE Null)

Consistent(table) ==
    /\ AtMostOneActive(table) /\ NoneStranded(table) /\ FlagIsStatus(table)
    /\ PositionIsQueued(table) /\ ResolutionIsStatus(table)

\* Rows a quiet table may hold; the queue is numbered from 1 without gaps.
QuietRow ==
    {NoRow} \cup
    {[NoRow EXCEPT !.status = a, !.active = TRUE, !.notice = TRUE] : a \in ActiveStatus} \cup
    {[NoRow EXCEPT !.status = "pending", !.active = TRUE]} \cup
    {[NoRow EXCEPT !.status = "queued", !.pos = p] : p \in 1..Cardinality(Items)} \cup
    {[NoRow EXCEPT !.status = r, !.res = r, !.notice = TRUE] : r \in Resolution}

QuietTable ==
    {table \in [Items -> QuietRow] :
        /\ Consistent(table)
        /\ {table[q].pos : q \in QueuedIn(table)} = 1..Cardinality(QueuedIn(table))}

Init ==
    /\ rows \in QuietTable
    /\ call = [s \in Sessions |-> NoCall]
    /\ pc = [s \in Sessions |-> "idle"]
    /\ seen = [s \in Sessions |-> Nothing]
    /\ plan = [s \in Sessions |-> Nothing]
    /\ writes = [s \in Sessions |-> Nothing]
    /\ event = [s \in Sessions |-> Null]
    /\ log = [i \in Items |-> IF rows[i].res = Null THEN <<>> ELSE <<rows[i].res>>]
    /\ announced = {i \in Items : rows[i].notice}
    /\ overlapped = FALSE

Spec == Init /\ [][Next]_vars

----------------------------------------------------------------------------
(***************************************************************************)
(* Properties.                                                             *)
(***************************************************************************)
\* The table keeps its columns' types, and only open transactions hold locks.
TypeOK ==
    /\ rows \in [Items -> Row]
    /\ \A s \in Sessions :
          /\ DOMAIN writes[s] \subseteq Items
          /\ s \notin Open => DOMAIN writes[s] = {}
    /\ \A i \in Items, s, t \in Sessions :
          i \in DOMAIN writes[s] /\ i \in DOMAIN writes[t] => s = t

\* The committed table never has two active rows, however calls overlap: the
\* read-then-write of every call is backed by the unique index.
OneActiveRow == AtMostOneActive(rows)

\* Two revocations of one approval never both succeed: between two revoked
\* entries of an id lies an approval (service.py:476-481).
RevokedOnce ==
    \A i \in Items : \A k, m \in 1..Len(log[i]) :
        k < m /\ log[i][k] = "revoked" /\ log[i][m] = "revoked"
        => \E n \in k..m : log[i][n] = "approved"

\* An item counts as announced only after its notice reached Telegram, whatever
\* send or transaction failed: the owner's only notice of a new decision is
\* never skipped (reminder_job.py:198-202, models.py:150-155).
NoticeNotSkipped == \A i \in Items : rows[i].notice => i \in announced

\* As long as no two transactions were open at once: whatever the statement at
\* which one is cut short, the committed table is one that the sequential model
\* knows.
TableConsistent == ~overlapped => Consistent(rows)

\* What the owner is promised (ApprovalLifecycle), read off the committed table
Lifecycle == INSTANCE ApprovalLifecycle
                 WITH waiting <- QueuedIn(rows), current <- ActiveIn(rows),
                      decision <- [i \in Items |-> rows[i].res]

\* As long as no two transactions were open at once, each is one step of the
\* lifecycle or none: what a call, or the worker with all the rows of a list,
\* changes becomes visible all at once, at the commit, however many statements it
\* takes and wherever it is cut short (db/base.py:45-59, worker.py:73-76).
CallsAreLifecycleSteps == [][overlapped \/ Lifecycle!Next]_(Lifecycle!vars)

\* When the active item resolves, the next item in order becomes active
\* (OPENCLAW_APPROVAL_STATE_MACHINE_SPEC.md:79): nothing waits behind nothing.
NeverStranded == NoneStranded(rows)

\* No call replaces a decision that has been made by the opposite one
\* (service.py:363-368).
NoFlip ==
    [][\A i \in Items : rows[i].res \in Resolution => rows'[i].res \in {rows[i].res, Null}]_rows

\* "approved" and "denied" are terminal (OPENCLAW_APPROVAL_STATE_MACHINE_SPEC.md:
\* 26-27): a row with a resolution has that status.
DecisionIsTerminal == ResolutionIsStatus(rows)
=============================================================================
