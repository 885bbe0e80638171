------------------------------ MODULE ListRuns ------------------------------
(***************************************************************************)
(* Processing lists in the background: the endpoint that enqueues a run,   *)
(* the SQS queue, worker.py, process_run as one database transaction with  *)
(* the statements that touch shared rows, and the owner's requests (match, *)
(* review entry, column mapping) that arrive meanwhile.                    *)
(*                                                                         *)
(* PostgreSQL runs the transactions READ COMMITTED: an UPDATE waits for    *)
(* the row lock of an unfinished transaction, then works on the row that   *)
(* transaction left.  SQLAlchemy writes the attributes that differ from    *)
(* the values the session read, and no others.                             *)
(*                                                                         *)
(* Every list has its mapping confirmed, and its rows have different item  *)
(* numbers; lists of one supplier share product_matches.  What happens to  *)
(* one row is RowPipeline's subject: here a row is matched, may fail, and  *)
(* may be found to need a review.                                          *)
(***************************************************************************)
EXTENDS Integers, FiniteSets

CONSTANTS
    Lists,          \* list_runs
    Items,          \* supplier item numbers: keys of product_matches
    Rows,           \* [Lists -> SUBSET Items]: the rows of a list
    Asins,
    Workers,        \* worker tasks; two while a deployment replaces one
    MaxMessages,    \* bound: calls of POST /runs/{run_id}/process
    MaxReceives,    \* redrive policy: max_receive_count
    MaxMapping,     \* bound: versions of a column mapping
    MaxCalls,       \* bound: requests of the owner
    Null

ASSUME RowsAssumption == Rows \in [Lists -> SUBSET Items]
ASSUME ItemsAssumption == IsFiniteSet(Items)
ASSUME BoundsAssumption == MaxReceives \in Nat \ {0} /\ MaxMapping \in Nat \ {0}
ASSUME NullAssumption == Null \notin Lists \cup Items \cup Asins \cup Int

VARIABLES
    list,       \* committed list_runs
    match,      \* committed product_matches, by item number
    review,     \* committed manual_review_queue: status, by list and item
    message,    \* what became of each message
    worker,     \* where each worker task is, and what it has read
    tx,         \* rows its transaction has written, and thereby locked
    owner,      \* the owner's request in progress, with what it has read
    calls,
    agreed,     \* history: the ASIN the owner last agreed to, by item
    refused,    \* history: items whose match the owner has rejected
    honoured    \* history: messages whose run was committed

vars == <<list, match, review, message, worker, tx, owner, calls, agreed, refused, honoured>>
data == <<list, match, review>>
history == <<agreed, refused, honoured>>

----------------------------------------------------------------------------
Messages == 1..MaxMessages      \* in the order they are sent

Match == [asin : Asins \cup {Null}, status : {"proposed", "confirmed", "rejected"}]
ReviewStatus == {"pending", "decided"}      \* resolved or dismissed

ASSUME NullIsNoRow == Null \notin Match \cup ReviewStatus

Idle == [pc |-> "idle", msg |-> Null, list |-> Null, loaded |-> Null, todo |-> {},
         item |-> Null, seen |-> Null, entry |-> Null, failed |-> FALSE, errors |-> 0]
NoWrites == [match |-> [i \in Items |-> Null], review |-> [i \in Items |-> Null]]

InPass(w) == worker[w].pc \in {"rows", "search", "route", "write"}

\* Row locks.  apply_normalization flushes status = PROCESSING before anything
\* else, so a pass holds its list_runs row from then on.
ListLocked(l) == \E w \in Workers : InPass(w) /\ worker[w].list = l
MatchLocked(i) == \E w \in Workers : tx[w].match[i] # Null
ReviewLocked(l, i) == \E w \in Workers : worker[w].list = l /\ tx[w].review[i] # Null

Init ==
    /\ list = [l \in Lists |->
                  [status |-> "mapping_confirmed", mapping |-> 1, rows |-> Null, errors |-> 0]]
    /\ match = [i \in Items |-> Null]
    /\ review = [l \in Lists |-> [i \in Rows[l] |-> Null]]
    /\ message = [m \in Messages |->
                     [state |-> "unsent", list |-> Null, mapping |-> Null, receives |-> 0]]
    /\ worker = [w \in Workers |-> Idle]
    /\ tx = [w \in Workers |-> NoWrites]
    /\ owner = Null /\ calls = 0
    /\ agreed = [i \in Items |-> Null] /\ refused = {} /\ honoured = {}

----------------------------------------------------------------------------
(***************************************************************************)
(* The queue                                                               *)
(***************************************************************************)
\* POST /runs/{run_id}/process: whatever the run's status
ProcessRunEndpoint(m, l) ==
    /\ message[m].state = "unsent" /\ \A k \in 1..(m - 1) : message[k].state # "unsent"
    /\ message' = [message EXCEPT ![m] =
          [state |-> "visible", list |-> l, mapping |-> list[l].mapping, receives |-> 0]]
    /\ UNCHANGED <<data, worker, tx, owner, calls, history>>

\* The visibility timeout runs out, whether the worker is dead or just slow;
\* after max_receive_count receives the message goes to the dead-letter queue
VisibilityTimeout(m) ==
    /\ message[m].state = "in flight"
    /\ message' = [message EXCEPT ![m].state =
          IF message[m].receives < MaxReceives THEN "visible" ELSE "dead"]
    /\ UNCHANGED <<data, worker, tx, owner, calls, history>>

(***************************************************************************)
(* worker.py: _handle_message                                              *)
(***************************************************************************)
\* What a pass uses of the list_runs row it has read
Used(row) == [mapping |-> row.mapping, errors |-> row.errors]

UncountedReceive(w, m) ==     \* a queue without a redrive policy
    /\ worker[w].pc = "idle" /\ message[m].state = "visible"
    /\ message' = [message EXCEPT ![m].state = "in flight"]
    /\ worker' = [worker EXCEPT ![w] =
          [Idle EXCEPT !.pc = "lock", !.msg = m, !.list = message[m].list,
                       !.loaded = Used(list[message[m].list])]]
    /\ UNCHANGED <<data, tx, owner, calls, history>>

\* receive_message, and the SELECT of the run that begins process_run
Receive(w, m) ==
    /\ worker[w].pc = "idle" /\ message[m].state = "visible"
    /\ message' = [message EXCEPT ![m].state = "in flight", ![m].receives = @ + 1]
    /\ worker' = [worker EXCEPT ![w] =
          [Idle EXCEPT !.pc = "lock", !.msg = m, !.list = message[m].list,
                       !.loaded = Used(list[message[m].list])]]
    /\ UNCHANGED <<data, tx, owner, calls, history>>

\* apply_normalization: PROCESSING is flushed, then every row is normalized with
\* the mapping that was read.  (Rows that do not parse are left out.)
UnlockedPass(w) ==            \* a status that is not flushed takes no lock
    /\ worker[w].pc = "lock"
    /\ worker' = [worker EXCEPT ![w].pc = "rows", ![w].todo = Rows[worker[w].list]]
    /\ UNCHANGED <<data, message, tx, owner, calls, history>>

VisibleProgress(w) ==         \* commits PROCESSING to show that work has begun
    /\ worker[w].pc = "lock" /\ ~ListLocked(worker[w].list)
    /\ worker' = [worker EXCEPT ![w].pc = "rows", ![w].todo = Rows[worker[w].list]]
    /\ list' = [list EXCEPT ![worker[w].list].status = "processing"]
    /\ UNCHANGED <<match, review, message, tx, owner, calls, history>>

ApplyNormalization(w) ==
    /\ worker[w].pc = "lock" /\ ~ListLocked(worker[w].list)
    /\ worker' = [worker EXCEPT ![w].pc = "rows", ![w].todo = Rows[worker[w].list]]
    /\ UNCHANGED <<data, message, tx, owner, calls, history>>

\* find_or_propose_match: a confirmed match is reused, else the catalog searched
ReadMatch(w, i) ==
    /\ worker[w].pc = "rows" /\ i \in worker[w].todo
    /\ LET confirmed == match[i] # Null /\ match[i].status = "confirmed"
       IN  worker' = [worker EXCEPT ![w].item = i, ![w].seen = match[i],
                                    ![w].todo = @ \ {i},
                                    ![w].pc = IF confirmed THEN "route" ELSE "search"]
    /\ UNCHANGED <<data, message, tx, owner, calls, history>>

\* The row as the flush leaves it.  A status that was read as PROPOSED is not
\* written, and an ASIN that is the same as before changes nothing.
WholeRow(seen, now, asin) == [asin |-> asin, status |-> "proposed"]
Proposed(seen, now, asin) ==
    IF seen = Null THEN [asin |-> asin, status |-> "proposed"]
    ELSE [asin |-> IF asin = seen.asin THEN now.asin ELSE asin,
          status |-> IF seen.status = "proposed" THEN now.status ELSE "proposed"]

ProposeMatch(w, asin) ==
    LET i == worker[w].item
        seen == worker[w].seen
    IN  /\ worker[w].pc = "search" /\ ~MatchLocked(i)
        /\ seen = Null => match[i] = Null           \* else the INSERT fails: Abort
        /\ tx' = [tx EXCEPT ![w].match[i] = Proposed(seen, match[i], asin)]
        /\ worker' = [worker EXCEPT ![w].pc = "route"]
        /\ UNCHANGED <<data, message, owner, calls, history>>

\* An exception in _process_one_item, before or after the match is written
FailRow(w) ==
    /\ worker[w].pc \in {"search", "route"} /\ ~worker[w].failed
    /\ worker' = [worker EXCEPT ![w].pc = "route", ![w].failed = TRUE, ![w].errors = @ + 1]
    /\ UNCHANGED <<data, message, tx, owner, calls, history>>

\* evaluate_and_route reads the entry of the row, then inserts one or updates
\* the reason of a pending one
ReadReview(w) ==
    /\ worker[w].pc = "route"
    /\ worker' = [worker EXCEPT ![w].pc = "write",
                                ![w].entry = review[worker[w].list][worker[w].item]]
    /\ UNCHANGED <<data, message, tx, owner, calls, history>>

StatusRewritten(entry, now) == "pending"       \* writes the status with the reason
Routed(entry, now) == IF entry = Null THEN "pending" ELSE now

WriteReview(w, needed) ==
    LET i == worker[w].item
        entry == worker[w].entry
        now == review[worker[w].list][i]
    IN  /\ worker[w].pc = "write"
        /\ worker[w].failed => needed
        /\ tx' = IF needed /\ entry # "decided"
                 THEN [tx EXCEPT ![w].review[i] = Routed(entry, now)] ELSE tx
        /\ worker' = [worker EXCEPT ![w].pc = "rows", ![w].item = Null, ![w].seen = Null,
                                    ![w].entry = Null, ![w].failed = FALSE]
        /\ UNCHANGED <<data, message, owner, calls, history>>

\* The counters and the status, and session.commit().  error_rows is written
\* only if it differs from what this session has last read or written: 0 when
\* it was normalized without errors after being read as 0.
FinishedList(now, pass) ==
    [status |-> IF pass.errors > 0 THEN "partial" ELSE "completed",
     mapping |-> now.mapping,
     rows |-> pass.loaded.mapping,
     errors |-> IF pass.errors = 0 /\ pass.loaded.errors = 0 THEN now.errors ELSE pass.errors]

Written(now, written) == IF written = Null THEN now ELSE written

Commit(w) ==
    LET l == worker[w].list
    IN  /\ worker[w].pc = "rows" /\ worker[w].todo = {}
        /\ list' = [list EXCEPT ![l] = FinishedList(@, worker[w])]
        /\ match' = [i \in Items |-> Written(match[i], tx[w].match[i])]
        /\ review' = [review EXCEPT ![l] = [i \in Rows[l] |-> Written(@[i], tx[w].review[i])]]
        /\ tx' = [tx EXCEPT ![w] = NoWrites]
        /\ worker' = [worker EXCEPT ![w] = [Idle EXCEPT !.pc = "delete", !.msg = worker[w].msg]]
        /\ honoured' = IF worker[w].loaded.mapping >= message[worker[w].msg].mapping
                       THEN honoured \cup {worker[w].msg} ELSE honoured
        /\ UNCHANGED <<message, owner, calls, agreed, refused>>

\* delete_message.  Once the message has been visible again the receipt handle
\* is an old one, and may or may not be honoured.
DeleteMessage(w) ==
    LET m == worker[w].msg
        deleted == [message EXCEPT ![m].state = "deleted"]
    IN  /\ worker[w].pc = "delete"
        /\ \/ message[m].state # "dead" /\ message' = deleted
           \/ ~(message[m].state = "in flight"
                /\ \A v \in Workers \ {w} : worker[v].msg # m) /\ UNCHANGED message
        /\ worker' = [worker EXCEPT ![w] = Idle]
        /\ UNCHANGED <<data, tx, owner, calls, history>>

DeletingAbort(w) ==           \* deletes the message in the finally block
    /\ worker[w].pc # "idle"
    /\ message' = [message EXCEPT ![worker[w].msg].state = "deleted"]
    /\ worker' = [worker EXCEPT ![w] = Idle]
    /\ tx' = [tx EXCEPT ![w] = NoWrites]
    /\ UNCHANGED <<data, owner, calls, history>>

\* The transaction is lost: the task is killed, a flush fails (and the session
\* with it, so evaluate_and_route in the finally block raises), the database
\* picks it to break a deadlock.  The message stays where it is.
Abort(w) ==
    /\ worker[w].pc # "idle"
    /\ worker' = [worker EXCEPT ![w] = Idle]
    /\ tx' = [tx EXCEPT ![w] = NoWrites]
    /\ UNCHANGED <<data, message, owner, calls, history>>

WaitsFor(w, v) == worker[w].pc = "search" /\ tx[v].match[worker[w].item] # Null
Conflict(w) ==
    /\ worker[w].pc = "search"
    /\ \/ worker[w].seen = Null /\ match[worker[w].item] # Null /\ ~MatchLocked(worker[w].item)
       \/ \E v \in Workers \ {w} : WaitsFor(w, v) /\ WaitsFor(v, w)

----------------------------------------------------------------------------
(***************************************************************************)
(* The owner's requests, one at a time: what a request reads, and then the *)
(* UPDATE it waits for and commits.                                        *)
(***************************************************************************)
Ask(request) ==
    /\ owner = Null /\ calls < MaxCalls
    /\ owner' = request /\ calls' = calls + 1
    /\ UNCHANGED <<data, message, worker, tx, history>>

AskMatch(i, to, asin) ==
    match[i] # Null /\ Ask([kind |-> "match", item |-> i, to |-> to, asin |-> asin, seen |-> match[i]])
AskMapping(l) ==
    list[l].mapping < MaxMapping /\ Ask([kind |-> "mapping", list |-> l, seen |-> list[l].status])

\* confirm_match (asin: as proposed, or the owner's own) and reject_match
Decided(now, request) ==
    [asin |-> IF request.asin = request.seen.asin THEN now.asin ELSE request.asin,
     status |-> IF request.to = request.seen.status THEN now.status ELSE request.to]

DecideMatch ==
    LET i == owner.item
    IN  /\ owner.kind = "match" /\ ~MatchLocked(i)
        /\ match' = [match EXCEPT ![i] = Decided(@, owner)]
        /\ agreed' = [agreed EXCEPT ![i] = IF owner.to = "confirmed" THEN owner.asin ELSE Null]
        /\ refused' = IF owner.to = "rejected" THEN refused \cup {i} ELSE refused
        /\ UNCHANGED <<list, review, honoured>>

\* resolve_review_entry, dismiss_review_entry: whatever status was read
DecideReview(l, i) ==
    /\ owner = Null /\ calls < MaxCalls
    /\ review[l][i] # Null /\ ~ReviewLocked(l, i)
    /\ review' = [review EXCEPT ![l][i] = "decided"]
    /\ calls' = calls + 1
    /\ UNCHANGED <<list, match, message, worker, tx, owner, history>>

\* confirm_mapping, which sets a status it may already have read
ConfirmMapping ==
    LET l == owner.list
    IN  /\ owner.kind = "mapping" /\ ~ListLocked(l)
        /\ list' = [list EXCEPT ![l].mapping = @ + 1,
                                ![l].status = IF owner.seen = "mapping_confirmed" THEN @
                                              ELSE "mapping_confirmed"]
        /\ UNCHANGED <<match, review, history>>

OwnerWrites ==
    /\ owner # Null
    /\ DecideMatch \/ ConfirmMapping
    /\ owner' = Null
    /\ UNCHANGED <<message, worker, tx, calls>>

OwnerAsks ==
    \/ \E i \in Items :
          /\ match[i] # Null
          /\ \/ \E asin \in Asins \cup {match[i].asin} : AskMatch(i, "confirmed", asin)
             \/ AskMatch(i, "rejected", match[i].asin)
    \/ \E l \in Lists : AskMapping(l)

----------------------------------------------------------------------------
Work(w) ==
    \/ ApplyNormalization(w)
    \/ \E i \in Items : ReadMatch(w, i)
    \/ \E asin \in Asins \cup {Null} : ProposeMatch(w, asin)
    \/ ReadReview(w)
    \/ \E needed \in BOOLEAN : WriteReview(w, needed)
    \/ Commit(w)
    \/ DeleteMessage(w)

WorkerStep(w) ==
    \/ \E m \in Messages : Receive(w, m)
    \/ Work(w)
    \/ FailRow(w)
    \/ Abort(w)

Next ==
    \/ \E m \in Messages, l \in Lists : ProcessRunEndpoint(m, l)
    \/ \E m \in Messages : VisibilityTimeout(m)
    \/ \E w \in Workers : WorkerStep(w)
    \/ OwnerAsks
    \/ OwnerWrites
    \/ \E l \in Lists : \E i \in Rows[l] : DecideReview(l, i)

Spec == Init /\ [][Next]_vars

\* ECS keeps a worker running, a call of SP-API or Keepa times out, PostgreSQL
\* ends deadlocks, and SQS counts its visibility timeouts.  Nothing is assumed
\* of the owner, and a task may be killed at any time.
Fairness ==
    /\ \A w \in Workers :
          /\ WF_vars(Work(w))
          /\ WF_vars(Conflict(w) /\ Abort(w))
          /\ WF_vars(\E m \in Messages : Receive(w, m))
    /\ \A m \in Messages : WF_vars(VisibilityTimeout(m))

FairSpec == Spec /\ Fairness

----------------------------------------------------------------------------
(***************************************************************************)
(* Properties                                                              *)
(***************************************************************************)
WorkerType ==
    [pc : {"idle", "lock", "rows", "search", "route", "write", "delete"},
     msg : Messages \cup {Null}, list : Lists \cup {Null},
     loaded : [mapping : 1..MaxMapping, errors : 0..Cardinality(Items)] \cup {Null},
     todo : SUBSET Items, item : Items \cup {Null},
     seen : Match \cup {Null}, entry : ReviewStatus \cup {Null}, failed : BOOLEAN, errors : 0..Cardinality(Items)]

\* What is committed, in flight and locked has the form the code gives it.  In
\* particular nobody ever sees a list that is PROCESSING.
TypeOK ==
    /\ \A l \in Lists :
          /\ list[l].status \in {"mapping_confirmed", "completed", "partial"}
          /\ list[l].mapping \in 1..MaxMapping
          /\ list[l].rows \in 1..list[l].mapping \cup {Null}
          /\ list[l].status = "partial" => list[l].errors \in 1..Cardinality(Rows[l])
          /\ review[l] \in [Rows[l] -> ReviewStatus \cup {Null}]
    /\ match \in [Items -> Match \cup {Null}]
    /\ worker \in [Workers -> WorkerType]
    /\ \A m \in Messages : message[m].receives <= MaxReceives
    /\ \A w \in Workers : ~InPass(w) => tx[w] = NoWrites

\* Two workers may hold messages for one list (POST /process twice, a redelivery
\* during a deployment), and no code keeps them apart.  The row lock that the
\* flush of PROCESSING takes does: their passes never overlap.
OnePassAtATime ==
    \A v, w \in Workers :
        v # w /\ InPass(v) /\ InPass(w) => worker[v].list # worker[w].list

\* A message is gone only when its list was processed on its behalf, with the
\* mapping of the moment of the request or a later one (worker.py:76).
RequestHonoured ==
    \A m \in Messages : message[m].state = "deleted" => m \in honoured

\* A review entry the owner has decided stays decided, also when the worker read
\* it as pending just before (review/service.py:60).
DecidedReviewStands ==
    [][\A l \in Lists : \A i \in Rows[l] :
          review[l][i] = "decided" => review'[l][i] = "decided"]_vars

\* A match the owner confirmed stays confirmed until the owner says otherwise,
\* also when a worker that read it before goes on to write its own proposal:
\* unless that item had been rejected once, PROPOSED is not news to the worker,
\* and not written.
ConfirmationSurvives ==
    [][\A i \in Items :
          match[i] # Null /\ match[i].status = "confirmed" /\ match'[i].status # "confirmed"
          => i \in refused']_vars

\* Whatever is killed, slow or deadlocked: every request is at last done with, or
\* in the dead-letter queue.
RequestSettles ==
    \A m \in Messages :
        message[m].state = "visible" ~> message[m].state \in {"deleted", "dead"}

\* "it does not overwrite a CONFIRMED match with a new guess" (matching/engine.py:103):
\* a confirmed match has the ASIN the owner agreed to.
ConfirmedAsinIsOwners ==
    \A i \in Items :
        match[i] # Null /\ match[i].status = "confirmed" => match[i].asin = agreed[i]
=============================================================================
