--------------------------- MODULE ListRunsProofs ---------------------------
(***************************************************************************)
(* Theorems about the background runs, for any number of lists, rows,      *)
(* workers and messages, checked by TLAPS.                                 *)
(***************************************************************************)
EXTENDS ListRuns, FiniteSetTheorems, TLAPS

PassState == {"rows", "search", "route", "write"}

ListRow == [status : {"mapping_confirmed", "completed", "partial"}, mapping : Nat,
            rows : Nat \cup {Null}, errors : Nat]
Message == [state : {"unsent", "visible", "in flight", "deleted", "dead"},
            list : Lists \cup {Null}, mapping : Nat \cup {Null}, receives : Nat]
WorkerRow == [pc : {"idle", "lock", "delete"} \cup PassState,
              msg : Messages \cup {Null}, list : Lists \cup {Null},
              loaded : [mapping : Nat, errors : Nat] \cup {Null},
              todo : SUBSET Items, item : Items \cup {Null},
              seen : Match \cup {Null}, entry : ReviewStatus \cup {Null},
              failed : BOOLEAN, errors : Nat]
Writes == [match : [Items -> Match \cup {Null}],
           review : [Items -> ReviewStatus \cup {Null}]]
Entries(l) == [Rows[l] -> ReviewStatus \cup {Null}]
MatchRequest == [kind : {"match"}, item : Items, to : {"confirmed", "rejected"},
                 asin : Asins \cup {Null}, seen : Match]
MappingRequest == [kind : {"mapping"}, list : Lists,
                   seen : {"mapping_confirmed", "completed", "partial"}]

Shape ==
    /\ list \in [Lists -> ListRow]
    /\ match \in [Items -> Match \cup {Null}]
    /\ review \in [Lists -> UNION {Entries(l) : l \in Lists}]
    /\ \A l \in Lists : review[l] \in Entries(l)
    /\ message \in [Messages -> Message]
    /\ worker \in [Workers -> WorkerRow]
    /\ tx \in [Workers -> Writes]
    /\ owner \in MatchRequest \cup MappingRequest \cup {Null}
    /\ refused \subseteq Items /\ honoured \subseteq Messages

----------------------------------------------------------------------------
(***************************************************************************)
(* Initial state, and the form of the variables after each step            *)
(***************************************************************************)
LEMMA InitShape == Init => Shape
<1> SUFFICES ASSUME Init PROVE Shape
  OBVIOUS
<1>1. list \in [Lists -> ListRow]
  BY DEF Init, ListRow
<1>2. match \in [Items -> Match \cup {Null}]
  BY DEF Init
<1>3. \A l \in Lists : review[l] \in Entries(l)
  BY DEF Init, Entries
<1>4. review \in [Lists -> UNION {Entries(l) : l \in Lists}]
  <2>1. review = [l \in Lists |-> review[l]]
    BY DEF Init
  <2> QED BY <1>3, <2>1
<1>5. message \in [Messages -> Message]
  BY DEF Init, Message
<1>6. Idle \in WorkerRow
  BY DEF Idle, WorkerRow
<1>7. worker \in [Workers -> WorkerRow]
  BY <1>6 DEF Init
<1>8. NoWrites \in Writes
  BY DEF NoWrites, Writes
<1>9. tx \in [Workers -> Writes]
  BY <1>8 DEF Init
<1>10. owner = Null /\ refused = {} /\ honoured = {}
  BY DEF Init
<1> QED BY <1>1, <1>2, <1>3, <1>4, <1>5, <1>7, <1>9, <1>10 DEF Shape

LEMMA IdleFacts == Idle \in WorkerRow /\ Idle.pc = "idle" /\ NoWrites \in Writes
BY DEF Idle, WorkerRow, NoWrites, Writes

LEMMA ReceiveShape ==
    ASSUME Shape, NEW w \in Workers, NEW m \in Messages, Receive(w, m),
           message[m].list \in Lists
    PROVE  Shape'
<1>1. message[m] \in Message /\ list[message[m].list] \in ListRow
  BY DEF Shape
<1>2. [message[m] EXCEPT !.state = "in flight", !.receives = @ + 1] \in Message
  <2>1. message[m].receives + 1 \in Nat
    <3>1. message[m].receives \in Nat
      BY <1>1 DEF Message
    <3> QED BY <3>1
  <2>2. \A r \in Message, n \in Nat :
           [r EXCEPT !.state = "in flight", !.receives = n] \in Message
    BY DEF Message
  <2> QED BY <1>1, <2>1, <2>2
<1>3. message' \in [Messages -> Message]
  BY <1>2 DEF Receive, Shape
<1>4. Used(list[message[m].list]) \in [mapping : Nat, errors : Nat]
  BY <1>1 DEF Used, ListRow
<1>5. [Idle EXCEPT !.pc = "lock", !.msg = m, !.list = message[m].list,
                   !.loaded = Used(list[message[m].list])] \in WorkerRow
  BY <1>4 DEF Idle, WorkerRow
<1>6. worker' \in [Workers -> WorkerRow]
  BY <1>5 DEF Receive, Shape
<1> QED BY <1>3, <1>6 DEF Shape, Receive, data, history

\* The steps inside a pass that change nothing but the worker's own state.
LEMMA PassShape ==
    ASSUME Shape, NEW w \in Workers,
           \/ ApplyNormalization(w) /\ worker[w].list \in Lists
           \/ \E i \in Items : ReadMatch(w, i)
           \/ FailRow(w)
           \/ ReadReview(w) /\ worker[w].list \in Lists
                            /\ worker[w].item \in Rows[worker[w].list]
    PROVE  Shape'
<1>1. worker[w] \in WorkerRow
  BY DEF Shape
<1>2. ASSUME ApplyNormalization(w), worker[w].list \in Lists PROVE worker' \in [Workers -> WorkerRow]
  BY <1>1, <1>2, RowsAssumption DEF ApplyNormalization, Shape, WorkerRow, PassState
<1>3. ASSUME NEW i \in Items, ReadMatch(w, i) PROVE worker' \in [Workers -> WorkerRow]
  <2>1. \A state \in PassState :
           [worker[w] EXCEPT !.item = i, !.seen = match[i], !.todo = @ \ {i}, !.pc = state]
              \in WorkerRow
    BY <1>1 DEF Shape, WorkerRow
  <2>2. \E state \in PassState :
           worker' = [worker EXCEPT ![w].item = i, ![w].seen = match[i],
                                    ![w].todo = @ \ {i}, ![w].pc = state]
    BY <1>3 DEF ReadMatch, PassState
  <2> QED BY <2>1, <2>2 DEF Shape
<1>4. ASSUME FailRow(w) PROVE worker' \in [Workers -> WorkerRow]
  BY <1>1, <1>4 DEF FailRow, Shape, WorkerRow, PassState
<1>5. ASSUME ReadReview(w), worker[w].list \in Lists, worker[w].item \in Rows[worker[w].list]
      PROVE  worker' \in [Workers -> WorkerRow]
  <2>1. review[worker[w].list][worker[w].item] \in ReviewStatus \cup {Null}
    BY <1>5 DEF Shape, Entries
  <2> QED BY <1>1, <1>5, <2>1 DEF ReadReview, Shape, WorkerRow, PassState
<1>6. UNCHANGED <<data, message, tx, owner, history>>
  BY DEF ApplyNormalization, ReadMatch, FailRow, ReadReview
<1> QED BY <1>2, <1>3, <1>4, <1>5, <1>6 DEF Shape, data, history

LEMMA ProposeMatchShape ==
    ASSUME Shape, NEW w \in Workers, NEW asin \in Asins \cup {Null}, ProposeMatch(w, asin),
           worker[w].item \in Items,
           worker[w].seen # Null => match[worker[w].item] # Null
    PROVE  /\ Shape'
           /\ Proposed(worker[w].seen, match[worker[w].item], asin) \in Match
           /\ \A v \in Workers, i \in Items :
                 tx'[v].match[i] =
                    IF v = w /\ i = worker[w].item
                    THEN Proposed(worker[w].seen, match[worker[w].item], asin)
                    ELSE tx[v].match[i]
           /\ \A v \in Workers, i \in Items : tx'[v].review[i] = tx[v].review[i]
<1> DEFINE i == worker[w].item
           new == Proposed(worker[w].seen, match[i], asin)
<1>1. worker[w] \in WorkerRow /\ tx[w] \in Writes /\ match[i] \in Match \cup {Null}
  BY DEF Shape
<1>2. new \in Match
  BY <1>1 DEF Proposed, Match, WorkerRow
<1>3. tx' = [tx EXCEPT ![w].match[i] = new]
  BY DEF ProposeMatch
<1> HIDE DEF new
<1>4. tx' \in [Workers -> Writes]
  BY <1>1, <1>2, <1>3 DEF Shape, Writes
<1>5. worker' \in [Workers -> WorkerRow]
  BY <1>1 DEF ProposeMatch, Shape, WorkerRow, PassState
<1>6. Shape'
  BY <1>4, <1>5 DEF Shape, ProposeMatch, data, history
<1>7. /\ \A v \in Workers, j \in Items :
            tx'[v].match[j] = IF v = w /\ j = i THEN new ELSE tx[v].match[j]
      /\ \A v \in Workers, j \in Items : tx'[v].review[j] = tx[v].review[j]
  BY <1>1, <1>3 DEF Shape, Writes
<1> QED BY <1>2, <1>6, <1>7 DEF new

LEMMA WriteReviewShape ==
    ASSUME Shape, NEW w \in Workers, NEW needed \in BOOLEAN, WriteReview(w, needed),
           worker[w].list \in Lists, worker[w].item \in Rows[worker[w].list]
    PROVE  /\ Shape'
           /\ \A v \in Workers, j \in Items : tx'[v].match[j] = tx[v].match[j]
           /\ \A v \in Workers, j \in Items :
                 \/ tx'[v].review[j] = tx[v].review[j]
                 \/ /\ v = w /\ j = worker[w].item
                    /\ tx'[v].review[j] =
                          Routed(worker[w].entry, review[worker[w].list][worker[w].item])
<1> DEFINE i == worker[w].item
           now == review[worker[w].list][i]
           new == Routed(worker[w].entry, now)
<1>1. worker[w] \in WorkerRow /\ tx[w] \in Writes /\ i \in Items
  BY RowsAssumption DEF Shape
<1>2. now \in ReviewStatus \cup {Null}
  BY DEF Shape, Entries
<1>3. new \in ReviewStatus \cup {Null}
  BY <1>2 DEF Routed, ReviewStatus
<1>4. tx' = tx \/ tx' = [tx EXCEPT ![w].review[i] = new]
  BY DEF WriteReview
<1> HIDE DEF new, now
<1>5. tx' \in [Workers -> Writes]
  <2>1. CASE tx' = [tx EXCEPT ![w].review[i] = new]
    BY <1>1, <1>3, <2>1 DEF Shape, Writes
  <2> QED BY <1>4, <2>1 DEF Shape
<1>6. worker' \in [Workers -> WorkerRow]
  <2>1. [worker[w] EXCEPT !.pc = "rows", !.item = Null, !.seen = Null,
                          !.entry = Null, !.failed = FALSE] \in WorkerRow
    BY <1>1 DEF WorkerRow, PassState
  <2> QED BY <2>1 DEF WriteReview, Shape
<1>7. Shape'
  BY <1>5, <1>6 DEF Shape, WriteReview, data, history
<1>8. /\ \A v \in Workers, j \in Items : tx'[v].match[j] = tx[v].match[j]
      /\ \A v \in Workers, j \in Items :
            tx'[v].review[j] = tx[v].review[j] \/ (v = w /\ j = i /\ tx'[v].review[j] = new)
  <2>1. CASE tx' = [tx EXCEPT ![w].review[i] = new]
    BY <1>1, <2>1 DEF Shape, Writes
  <2> QED BY <1>4, <2>1
<1> QED BY <1>7, <1>8 DEF new, now

LEMMA CommitShape ==
    ASSUME Shape, NEW w \in Workers, Commit(w), worker[w].list \in Lists,
           worker[w].loaded \in [mapping : Nat, errors : Nat], worker[w].msg \in Messages
    PROVE  Shape'
<1> DEFINE l == worker[w].list
<1>1. worker[w] \in WorkerRow /\ tx[w] \in Writes /\ list[l] \in ListRow
  BY DEF Shape
<1>2. FinishedList(list[l], worker[w]) \in ListRow
  BY <1>1 DEF FinishedList, ListRow, WorkerRow
<1>3. list' \in [Lists -> ListRow]
  BY <1>2 DEF Commit, Shape
<1>4. match' \in [Items -> Match \cup {Null}]
  BY <1>1 DEF Commit, Shape, Writes, Written
<1>5. [i \in Rows[l] |-> Written(review[l][i], tx[w].review[i])] \in Entries(l)
  BY <1>1, RowsAssumption DEF Shape, Writes, Written, Entries
<1>6. \A k \in Lists : review'[k] \in Entries(k)
  BY <1>5 DEF Commit, Shape
<1>7. review' \in [Lists -> UNION {Entries(k) : k \in Lists}]
  <2>1. DOMAIN review' = Lists /\ review' = [k \in Lists |-> review'[k]]
    BY DEF Commit, Shape
  <2> QED BY <1>6, <2>1
<1>8. tx' \in [Workers -> Writes]
  BY IdleFacts DEF Commit, Shape
<1>9. [Idle EXCEPT !.pc = "delete", !.msg = worker[w].msg] \in WorkerRow
  BY <1>1 DEF Idle, WorkerRow
<1>10. worker' \in [Workers -> WorkerRow]
  BY <1>9 DEF Commit, Shape
<1>11. honoured' \subseteq Messages
  BY DEF Commit, Shape
<1>12. UNCHANGED <<message, owner, refused>>
  BY DEF Commit
<1> QED BY <1>3, <1>4, <1>6, <1>7, <1>8, <1>10, <1>11, <1>12 DEF Shape

LEMMA LeaveShape ==
    ASSUME Shape, NEW w \in Workers, Abort(w) \/ (DeleteMessage(w) /\ worker[w].msg \in Messages)
    PROVE  Shape'
<1>1. worker' = [worker EXCEPT ![w] = Idle]
  BY DEF Abort, DeleteMessage
<1>2. worker' \in [Workers -> WorkerRow]
  BY <1>1, IdleFacts DEF Shape
<1>3. tx' \in [Workers -> Writes]
  BY IdleFacts DEF Shape, Abort, DeleteMessage
<1>4. message' \in [Messages -> Message]
  <2>1. message' = message \/ (worker[w].msg \in Messages
                               /\ message' = [message EXCEPT ![worker[w].msg].state = "deleted"])
    BY DEF Abort, DeleteMessage
  <2>2. ASSUME NEW m \in Messages PROVE [message[m] EXCEPT !.state = "deleted"] \in Message
    BY DEF Shape, Message
  <2> QED BY <2>1, <2>2 DEF Shape
<1> QED BY <1>2, <1>3, <1>4 DEF Shape, Abort, DeleteMessage, data, history

LEMMA QueueShape ==
    ASSUME Shape, NEW m \in Messages,
           VisibilityTimeout(m) \/ \E l \in Lists : ProcessRunEndpoint(m, l)
    PROVE  Shape'
<1>1. ASSUME VisibilityTimeout(m) PROVE message' \in [Messages -> Message]
  BY <1>1 DEF VisibilityTimeout, Shape, Message
<1>2. ASSUME NEW l \in Lists, ProcessRunEndpoint(m, l) PROVE message' \in [Messages -> Message]
  <2>1. [state |-> "visible", list |-> l, mapping |-> list[l].mapping, receives |-> 0] \in Message
    BY DEF Shape, ListRow, Message
  <2> QED BY <1>2, <2>1 DEF ProcessRunEndpoint, Shape
<1> QED BY <1>1, <1>2 DEF Shape, VisibilityTimeout, ProcessRunEndpoint, data, history

LEMMA OwnerShape ==
    ASSUME Shape,
           \/ OwnerAsks
           \/ OwnerWrites /\ (owner.kind = "match" => match[owner.item] # Null)
           \/ \E l \in Lists : \E i \in Rows[l] : DecideReview(l, i)
    PROVE  Shape'
<1>1. ASSUME OwnerAsks PROVE Shape'
  <2>1. ASSUME NEW i \in Items, NEW to \in {"confirmed", "rejected"},
               NEW asin \in Asins \cup {match[i].asin}, AskMatch(i, to, asin)
        PROVE  Shape'
    <3>1. match[i] \in Match
      BY <2>1 DEF AskMatch, Shape
    <3>2. [kind |-> "match", item |-> i, to |-> to, asin |-> asin, seen |-> match[i]]
              \in MatchRequest
      BY <3>1 DEF MatchRequest, Match
    <3> QED BY <2>1, <3>2 DEF AskMatch, Ask, Shape, data, history
  <2>2. ASSUME NEW l \in Lists, AskMapping(l) PROVE Shape'
    <3>1. [kind |-> "mapping", list |-> l, seen |-> list[l].status] \in MappingRequest
      BY DEF MappingRequest, Shape, ListRow
    <3> QED BY <2>2, <3>1 DEF AskMapping, Ask, Shape, data, history
  <2> QED BY <1>1, <2>1, <2>2 DEF OwnerAsks
<1>2. ASSUME OwnerWrites, owner.kind = "match", match[owner.item] # Null PROVE Shape'
  <2>1. DecideMatch /\ owner' = Null /\ UNCHANGED <<message, worker, tx>>
    BY <1>2 DEF OwnerWrites, ConfirmMapping
  <2>2. owner \in MatchRequest
    BY <1>2 DEF OwnerWrites, Shape, MappingRequest
  <2>3. owner.item \in Items /\ match[owner.item] \in Match
    BY <1>2, <2>2 DEF MatchRequest, Shape
  <2>4. Decided(match[owner.item], owner) \in Match
    BY <2>2, <2>3 DEF Decided, MatchRequest, Match
  <2>5. match' \in [Items -> Match \cup {Null}]
    BY <2>1, <2>3, <2>4 DEF DecideMatch, Shape
  <2>6. refused' \subseteq Items
    BY <2>1, <2>3 DEF DecideMatch, Shape
  <2> QED BY <2>1, <2>5, <2>6 DEF Shape, DecideMatch
<1>3. ASSUME OwnerWrites, owner.kind # "match" PROVE Shape'
  <2>1. ConfirmMapping /\ owner' = Null /\ UNCHANGED <<message, worker, tx>>
    BY <1>3 DEF OwnerWrites, DecideMatch
  <2>2. owner \in MappingRequest
    BY <1>3 DEF OwnerWrites, Shape, MatchRequest
  <2>3. owner.list \in Lists /\ list[owner.list] \in ListRow
    BY <2>2 DEF MappingRequest, Shape
  <2>4. list' \in [Lists -> ListRow]
    <3>1. /\ list[owner.list].mapping \in Nat
          /\ list[owner.list].status \in {"mapping_confirmed", "completed", "partial"}
      BY <2>3 DEF ListRow
    <3>2. list[owner.list].mapping + 1 \in Nat
      BY <3>1
    <3>3. \A r \in ListRow, n \in Nat, s \in {"mapping_confirmed", "completed", "partial"} :
             [r EXCEPT !.mapping = n, !.status = s] \in ListRow
      BY DEF ListRow
    <3>4. \E s \in {"mapping_confirmed", "completed", "partial"} :
             list' = [list EXCEPT ![owner.list] =
                         [@ EXCEPT !.mapping = list[owner.list].mapping + 1, !.status = s]]
      BY <2>1, <2>3, <3>1 DEF ConfirmMapping, Shape
    <3>5. PICK row \in ListRow : list' = [list EXCEPT ![owner.list] = row]
      BY <2>3, <3>2, <3>3, <3>4
    <3>6. list \in [Lists -> ListRow]
      BY DEF Shape
    <3> QED BY <3>5, <3>6
  <2> QED BY <2>1, <2>4 DEF Shape, ConfirmMapping, history
<1>4. ASSUME NEW l \in Lists, NEW i \in Rows[l], DecideReview(l, i) PROVE Shape'
  <2>1. [review[l] EXCEPT ![i] = "decided"] \in Entries(l)
    BY DEF Shape, Entries, ReviewStatus
  <2>2. review' = [review EXCEPT ![l] = [review[l] EXCEPT ![i] = "decided"]]
    BY <1>4 DEF DecideReview
  <2>3. \A k \in Lists : review'[k] \in Entries(k)
    BY <2>1, <2>2 DEF Shape
  <2>4. review' \in [Lists -> UNION {Entries(k) : k \in Lists}]
    BY <2>1, <2>2 DEF Shape
  <2> QED BY <1>4, <2>3, <2>4 DEF Shape, DecideReview, history
<1> QED BY <1>1, <1>2, <1>3, <1>4

----------------------------------------------------------------------------
(***************************************************************************)
(* The inductive invariant, by what it is about.                           *)
(***************************************************************************)
\* A request names a version of the mapping that the list has or had; a message
\* is deleted only when its run is committed.
MessageOK(m) ==
    /\ message[m].state # "unsent" =>
          /\ message[m].list \in Lists /\ message[m].mapping \in Nat
          /\ message[m].mapping <= list[message[m].list].mapping
    /\ message[m].state = "deleted" => m \in honoured

\* What a worker holds, by how far it has come.
Working == {"lock"} \cup PassState
WorkerOK(w) ==
    /\ worker[w].pc # "idle" =>
          worker[w].msg \in Messages /\ message[worker[w].msg].state # "unsent"
    /\ worker[w].pc = "delete" => worker[w].msg \in honoured
    /\ worker[w].pc \in Working =>
          /\ worker[w].list \in Lists /\ worker[w].loaded \in [mapping : Nat, errors : Nat]
          /\ message[worker[w].msg].mapping <= worker[w].loaded.mapping
    /\ worker[w].pc \in PassState => worker[w].todo \subseteq Rows[worker[w].list]
    /\ worker[w].pc \in {"search", "route", "write"} => worker[w].item \in Rows[worker[w].list]
    /\ worker[w].pc = "search" /\ worker[w].seen # Null =>
          /\ match[worker[w].item] # Null
          /\ worker[w].seen.status # "confirmed"
          /\ worker[w].seen.status = "rejected" => worker[w].item \in refused
    /\ worker[w].pc = "write" /\ worker[w].entry = Null =>
          review[worker[w].list][worker[w].item] = Null
    /\ worker[w].pc \notin PassState => tx[w] = NoWrites

\* An entry in an open transaction is not behind one that was decided.
ReviewOK(w) ==
    worker[w].pc \in PassState =>
        \A i \in Rows[worker[w].list] :
            tx[w].review[i] # Null /\ review[worker[w].list][i] = "decided"
            => tx[w].review[i] = "decided"

\* A match in an open transaction leaves a confirmation alone, but for an item
\* that was rejected once.
MatchOK(i) ==
    /\ match[i] # Null /\ match[i].status = "rejected" => i \in refused
    /\ \A w \in Workers :
          tx[w].match[i] # Null =>
              /\ tx[w].match[i].status = "rejected" => i \in refused
              /\ match[i] # Null /\ match[i].status = "confirmed" =>
                    tx[w].match[i].status = "confirmed" \/ i \in refused

\* The row locks exclude each other.
MatchLockOK ==
    \A v, w \in Workers : v # w =>
        \A i \in Items : tx[v].match[i] = Null \/ tx[w].match[i] = Null

OwnerOK == owner # Null /\ owner.kind = "match" => match[owner.item] # Null

Inv ==
    /\ Shape
    /\ \A m \in Messages : MessageOK(m)
    /\ \A w \in Workers : WorkerOK(w) /\ ReviewOK(w)
    /\ \A i \in Items : MatchOK(i)
    /\ OnePassAtATime /\ MatchLockOK /\ OwnerOK

LEMMA InPassIs == ASSUME NEW w PROVE InPass(w) <=> worker[w].pc \in PassState
BY DEF InPass, PassState

LEMMA NoWritesFacts ==
    \A i \in Items : NoWrites.match[i] = Null /\ NoWrites.review[i] = Null
BY DEF NoWrites

LEMMA InitInv == Init => Inv
<1> SUFFICES ASSUME Init PROVE Inv
  OBVIOUS
<1>1. \A w \in Workers : worker[w].pc = "idle" /\ tx[w] = NoWrites
  BY DEF Init, Idle
<1>2. \A m \in Messages : MessageOK(m)
  BY DEF Init, MessageOK
<1>3. \A w \in Workers : WorkerOK(w) /\ ReviewOK(w)
  BY <1>1 DEF WorkerOK, ReviewOK, Working, PassState
<1>4. \A i \in Items : MatchOK(i)
  BY <1>1, NoWritesFacts DEF Init, MatchOK
<1>5. OnePassAtATime
  BY <1>1 DEF OnePassAtATime, InPass
<1>6. MatchLockOK
  BY <1>1, NoWritesFacts DEF MatchLockOK
<1>7. OwnerOK
  BY DEF Init, OwnerOK
<1> QED BY <1>2, <1>3, <1>4, <1>5, <1>6, <1>7, InitShape DEF Inv

----------------------------------------------------------------------------
(***************************************************************************)
(* The steps of a pass that write nothing                                  *)
(***************************************************************************)
LEMMA LocalStep ==
    ASSUME Inv, NEW w \in Workers, Shape', WorkerOK(w)', ReviewOK(w)',
           \A v \in Workers \ {w} : worker'[v] = worker[v],
           UNCHANGED <<list, match, review, message, tx, owner, refused, honoured>>,
           \/ InPass(w) /\ worker'[w].list = worker[w].list
           \/ \A v \in Workers \ {w} : ~(InPass(v) /\ worker[v].list = worker'[w].list)
    PROVE  Inv'
<1>1. \A v \in Workers \ {w} : WorkerOK(v)' /\ ReviewOK(v)'
  BY DEF Inv, WorkerOK, ReviewOK
<1>2. OnePassAtATime'
  BY DEF Inv, OnePassAtATime, InPass
<1>3. \A m \in Messages : MessageOK(m)'
  BY DEF Inv, MessageOK
<1>4. \A i \in Items : MatchOK(i)'
  BY DEF Inv, MatchOK
<1>5. MatchLockOK' /\ OwnerOK'
  BY DEF Inv, MatchLockOK, OwnerOK
<1> QED BY <1>1, <1>2, <1>3, <1>4, <1>5 DEF Inv

LEMMA ApplyNormalizationInv ==
    ASSUME Inv, NEW w \in Workers, ApplyNormalization(w)
    PROVE  Inv'
<1> DEFINE new == [worker[w] EXCEPT !.pc = "rows", !.todo = Rows[worker[w].list]]
<1>1. worker[w] \in WorkerRow /\ worker \in [Workers -> WorkerRow] /\ worker[w].pc = "lock"
  BY DEF Inv, Shape, ApplyNormalization
<1>2. WorkerOK(w) /\ worker[w].list \in Lists /\ worker[w].msg \in Messages
  BY <1>1 DEF Inv, WorkerOK, Working
<1>3. worker' = [worker EXCEPT ![w] = new]
  BY <1>1 DEF ApplyNormalization
<1>4. /\ worker'[w].pc = "rows" /\ worker'[w].todo = Rows[worker[w].list]
      /\ worker'[w].list = worker[w].list /\ worker'[w].msg = worker[w].msg
      /\ worker'[w].loaded = worker[w].loaded
      /\ \A v \in Workers \ {w} : worker'[v] = worker[v]
  BY <1>1, <1>3 DEF WorkerRow
<1>5. /\ UNCHANGED <<list, match, review, message, tx, owner, refused, honoured>>
      /\ tx[w] = NoWrites
  BY <1>1, <1>2 DEF ApplyNormalization, data, history, WorkerOK, PassState
<1>6. WorkerOK(w)'
  BY <1>1, <1>2, <1>4, <1>5 DEF WorkerOK, Working, PassState
<1>7. ReviewOK(w)'
  BY <1>2, <1>4, <1>5, NoWritesFacts, RowsAssumption DEF ReviewOK
<1>8. \A v \in Workers \ {w} : ~(InPass(v) /\ worker[v].list = worker'[w].list)
  BY <1>4 DEF ApplyNormalization, ListLocked
<1>9. Shape'
  BY <1>2, PassShape DEF Inv
<1> QED BY <1>4, <1>5, <1>6, <1>7, <1>8, <1>9, LocalStep

LEMMA ReadMatchInv ==
    ASSUME Inv, NEW w \in Workers, NEW i \in Items, ReadMatch(w, i)
    PROVE  Inv'
<1>1. worker[w] \in WorkerRow /\ worker \in [Workers -> WorkerRow] /\ worker[w].pc = "rows"
  BY DEF Inv, Shape, ReadMatch
<1>2. WorkerOK(w) /\ ReviewOK(w) /\ InPass(w) /\ MatchOK(i) /\ match[i] \in Match \cup {Null}
  BY <1>1 DEF Inv, InPass, Shape
<1>3. /\ worker'[w].item = i /\ worker'[w].seen = match[i]
      /\ worker'[w].todo = worker[w].todo \ {i}
      /\ worker'[w].pc = (IF match[i] # Null /\ match[i].status = "confirmed"
                          THEN "route" ELSE "search")
      /\ worker'[w].list = worker[w].list /\ worker'[w].msg = worker[w].msg
      /\ worker'[w].loaded = worker[w].loaded
      /\ \A v \in Workers \ {w} : worker'[v] = worker[v]
  BY <1>1 DEF ReadMatch, WorkerRow
<1>4. UNCHANGED <<list, match, review, message, tx, owner, refused, honoured>>
  BY DEF ReadMatch, data, history
<1>5. worker'[w].pc \in {"route", "search"} /\ i \in Rows[worker[w].list]
  BY <1>1, <1>2, <1>3 DEF WorkerOK, PassState, ReadMatch
<1>6. worker'[w].pc = "search" /\ worker'[w].seen # Null =>
          /\ match'[i] # Null
          /\ worker'[w].seen.status # "confirmed"
          /\ worker'[w].seen.status = "rejected" => i \in refused'
  BY <1>2, <1>3, <1>4 DEF MatchOK
<1>7. WorkerOK(w)'
  BY <1>1, <1>2, <1>3, <1>4, <1>5, <1>6 DEF WorkerOK, Working, PassState
<1>8. ReviewOK(w)'
  BY <1>1, <1>2, <1>3, <1>4 DEF ReviewOK, PassState
<1>9. Shape'
  BY PassShape DEF Inv
<1> QED BY <1>2, <1>3, <1>4, <1>7, <1>8, <1>9, LocalStep

LEMMA FailRowInv ==
    ASSUME Inv, NEW w \in Workers, FailRow(w)
    PROVE  Inv'
<1>1. worker[w] \in WorkerRow /\ worker \in [Workers -> WorkerRow]
      /\ worker[w].pc \in {"search", "route"}
  BY DEF Inv, Shape, FailRow
<1>2. WorkerOK(w) /\ ReviewOK(w) /\ InPass(w)
  BY <1>1 DEF Inv, InPass
<1>3. /\ worker'[w].pc = "route" /\ worker'[w].item = worker[w].item
      /\ worker'[w].todo = worker[w].todo
      /\ worker'[w].list = worker[w].list /\ worker'[w].msg = worker[w].msg
      /\ worker'[w].loaded = worker[w].loaded
      /\ \A v \in Workers \ {w} : worker'[v] = worker[v]
  BY <1>1 DEF FailRow, WorkerRow
<1>4. UNCHANGED <<list, match, review, message, tx, owner, refused, honoured>>
  BY DEF FailRow, data, history
<1>5. WorkerOK(w)'
  BY <1>1, <1>2, <1>3, <1>4 DEF WorkerOK, Working, PassState
<1>6. ReviewOK(w)'
  BY <1>1, <1>2, <1>3, <1>4 DEF ReviewOK, PassState
<1>7. Shape'
  BY PassShape DEF Inv
<1> QED BY <1>2, <1>3, <1>4, <1>5, <1>6, <1>7, LocalStep

LEMMA ReadReviewInv ==
    ASSUME Inv, NEW w \in Workers, ReadReview(w)
    PROVE  Inv'
<1>1. worker[w] \in WorkerRow /\ worker \in [Workers -> WorkerRow] /\ worker[w].pc = "route"
  BY DEF Inv, Shape, ReadReview
<1>2. WorkerOK(w) /\ ReviewOK(w) /\ InPass(w)
  BY <1>1 DEF Inv, InPass
<1>3. /\ worker'[w].pc = "write" /\ worker'[w].item = worker[w].item
      /\ worker'[w].todo = worker[w].todo
      /\ worker'[w].entry = review[worker[w].list][worker[w].item]
      /\ worker'[w].list = worker[w].list /\ worker'[w].msg = worker[w].msg
      /\ worker'[w].loaded = worker[w].loaded
      /\ \A v \in Workers \ {w} : worker'[v] = worker[v]
  BY <1>1 DEF ReadReview, WorkerRow
<1>4. UNCHANGED <<list, match, review, message, tx, owner, refused, honoured>>
  BY DEF ReadReview, data, history
<1>5. WorkerOK(w)'
  BY <1>1, <1>2, <1>3, <1>4 DEF WorkerOK, Working, PassState
<1>6. ReviewOK(w)'
  BY <1>1, <1>2, <1>3, <1>4 DEF ReviewOK, PassState
<1>7. worker[w].list \in Lists /\ worker[w].item \in Rows[worker[w].list]
  BY <1>1, <1>2 DEF WorkerOK, Working, PassState
<1>8. Shape'
  BY <1>7, PassShape DEF Inv
<1> QED BY <1>2, <1>3, <1>4, <1>5, <1>6, <1>8, LocalStep

\* What a worker relies on, when somebody else takes a step.
LEMMA OtherWorker ==
    ASSUME Inv, NEW v \in Workers,
           worker'[v] = worker[v], tx'[v] = tx[v],
           \A m \in Messages : message[m].state # "unsent" =>
               message'[m].state # "unsent" /\ message'[m].mapping = message[m].mapping,
           honoured \subseteq honoured', refused \subseteq refused',
           \A i \in Items : match[i] # Null => match'[i] # Null,
           worker[v].pc = "write" =>
               review'[worker[v].list][worker[v].item] = review[worker[v].list][worker[v].item]
               \/ review[worker[v].list][worker[v].item] # Null
    PROVE  WorkerOK(v)'
<1>1. WorkerOK(v)
  BY DEF Inv
<1>2. worker[v].pc = "search" => worker[v].item \in Items
  BY <1>1, RowsAssumption DEF WorkerOK, Working, PassState
<1> QED BY <1>1, <1>2 DEF WorkerOK, Working, PassState

LEMMA ReceiveInv ==
    ASSUME Inv, NEW w \in Workers, NEW m \in Messages, Receive(w, m)
    PROVE  Inv'
<1>1. /\ worker \in [Workers -> WorkerRow] /\ message \in [Messages -> Message]
      /\ worker[w].pc = "idle" /\ message[m].state = "visible"
  BY DEF Inv, Shape, Receive
<1>2. /\ WorkerOK(w) /\ MessageOK(m) /\ tx[w] = NoWrites
      /\ message[m].list \in Lists /\ message[m].mapping <= list[message[m].list].mapping
  BY <1>1 DEF Inv, WorkerOK, MessageOK, PassState
<1>3. /\ worker'[w].pc = "lock" /\ worker'[w].msg = m /\ worker'[w].list = message[m].list
      /\ worker'[w].loaded = Used(list[message[m].list])
      /\ \A v \in Workers \ {w} : worker'[v] = worker[v]
  BY <1>1 DEF Receive, Idle
<1>4. UNCHANGED <<list, match, review, tx, owner, refused, honoured>>
  BY DEF Receive, data, history
<1>5. /\ \A k \in Messages : message'[k].list = message[k].list
                             /\ message'[k].mapping = message[k].mapping
      /\ \A k \in Messages \ {m} : message'[k].state = message[k].state
      /\ message'[m].state = "in flight"
  BY <1>1 DEF Receive, Message
<1>6. Shape'
  BY <1>2, ReceiveShape DEF Inv
<1>7. /\ worker'[w].loaded \in [mapping : Nat, errors : Nat]
      /\ message'[m].mapping <= worker'[w].loaded.mapping
  <2>1. Used(list[message[m].list]).mapping = list[message[m].list].mapping
    BY DEF Used
  <2>2. Used(list[message[m].list]) \in [mapping : Nat, errors : Nat]
    BY <1>2 DEF Used, Inv, Shape, ListRow
  <2> QED BY <1>2, <1>3, <1>5, <2>1, <2>2
<1>8. WorkerOK(w)'
  BY <1>2, <1>3, <1>4, <1>5, <1>7 DEF WorkerOK, Working, PassState
<1>9. \A v \in Workers \ {w} : WorkerOK(v)'
  BY <1>1, <1>3, <1>4, <1>5, OtherWorker DEF Inv, WorkerOK
<1>10. \A v \in Workers : ReviewOK(v)'
  BY <1>3, <1>4 DEF Inv, ReviewOK, PassState
<1>11. \A k \in Messages : MessageOK(k)'
  BY <1>1, <1>4, <1>5 DEF Inv, MessageOK
<1>12. OnePassAtATime'
  BY <1>3 DEF Inv, OnePassAtATime, InPass
<1>13. (\A i \in Items : MatchOK(i)') /\ MatchLockOK' /\ OwnerOK'
  BY <1>4 DEF Inv, MatchOK, MatchLockOK, OwnerOK
<1> QED BY <1>6, <1>8, <1>9, <1>10, <1>11, <1>12, <1>13 DEF Inv

(***************************************************************************)
(* The steps of a pass that write, and those that end it                   *)
(***************************************************************************)
LEMMA ProposeMatchInv ==
    ASSUME Inv, NEW w \in Workers, NEW asin \in Asins \cup {Null}, ProposeMatch(w, asin)
    PROVE  Inv'
<1> DEFINE i == worker[w].item
           new == Proposed(worker[w].seen, match[i], asin)
<1>1. /\ worker[w] \in WorkerRow /\ worker \in [Workers -> WorkerRow]
      /\ worker[w].pc = "search" /\ WorkerOK(w) /\ ReviewOK(w)
  BY DEF Inv, Shape, ProposeMatch
<1>2. i \in Items /\ (worker[w].seen # Null => match[i] # Null)
  BY <1>1, RowsAssumption DEF WorkerOK, Working, PassState
<1>3. /\ Shape' /\ new \in Match
      /\ \A v \in Workers, j \in Items :
            tx'[v].match[j] = IF v = w /\ j = i THEN new ELSE tx[v].match[j]
      /\ \A v \in Workers, j \in Items : tx'[v].review[j] = tx[v].review[j]
  BY <1>2, ProposeMatchShape DEF Inv
<1>4. /\ worker'[w].pc = "route" /\ worker'[w].item = i /\ worker'[w].todo = worker[w].todo
      /\ worker'[w].list = worker[w].list /\ worker'[w].msg = worker[w].msg
      /\ worker'[w].loaded = worker[w].loaded
      /\ \A v \in Workers \ {w} : worker'[v] = worker[v]
  BY <1>1 DEF ProposeMatch, WorkerRow
<1>5. UNCHANGED <<list, match, review, message, owner, refused, honoured>>
  BY DEF ProposeMatch, data, history
<1>6. \A v \in Workers \ {w} : tx'[v] = tx[v]
  BY DEF ProposeMatch, Inv, Shape
<1>7. new.status = "rejected" => i \in refused
  BY <1>1, <1>2 DEF Proposed, Inv, MatchOK, WorkerOK
<1>8. match[i] # Null /\ match[i].status = "confirmed" =>
          new.status = "confirmed" \/ i \in refused
  <2> SUFFICES ASSUME match[i] # Null, match[i].status = "confirmed", i \notin refused
               PROVE  new.status = "confirmed"
    OBVIOUS
  <2>1. worker[w].seen # Null
    BY DEF ProposeMatch
  <2>2. worker[w].seen \in Match
    BY <1>1, <2>1 DEF WorkerRow
  <2>3. worker[w].seen.status = "proposed"
    BY <1>1, <2>1, <2>2 DEF WorkerOK, Match
  <2> QED BY <2>1, <2>3 DEF Proposed
<1> HIDE DEF new
<1>9. WorkerOK(w)'
  BY <1>1, <1>4, <1>5 DEF WorkerOK, Working, PassState
<1>10. \A v \in Workers \ {w} : WorkerOK(v)'
  BY <1>4, <1>5, <1>6, OtherWorker
<1>11. \A v \in Workers : ReviewOK(v)'
  <2> SUFFICES ASSUME NEW v \in Workers PROVE ReviewOK(v)'
    OBVIOUS
  <2>1. ReviewOK(v) /\ WorkerOK(v)
    BY DEF Inv
  <2>2. worker'[v].pc \in PassState =>
            worker[v].pc \in PassState /\ Rows[worker[v].list] \subseteq Items
    BY <1>1, <1>4, <2>1, RowsAssumption DEF PassState, WorkerOK, Working
  <2> QED BY <1>3, <1>4, <1>5, <2>1, <2>2 DEF ReviewOK
<1>12. \A j \in Items : MatchOK(j)'
  BY <1>3, <1>5, <1>7, <1>8 DEF Inv, MatchOK
<1>13. MatchLockOK'
  BY <1>2, <1>3 DEF Inv, MatchLockOK, ProposeMatch, MatchLocked
<1>14. OnePassAtATime'
  BY <1>1, <1>4 DEF Inv, OnePassAtATime, InPass
<1>15. (\A m \in Messages : MessageOK(m)') /\ OwnerOK'
  BY <1>5 DEF Inv, MessageOK, OwnerOK
<1> QED BY <1>3, <1>9, <1>10, <1>11, <1>12, <1>13, <1>14, <1>15 DEF Inv

LEMMA WriteReviewInv ==
    ASSUME Inv, NEW w \in Workers, NEW needed \in BOOLEAN, WriteReview(w, needed)
    PROVE  Inv'
<1> DEFINE l == worker[w].list
           i == worker[w].item
           new == Routed(worker[w].entry, review[l][i])
<1>1. /\ worker[w] \in WorkerRow /\ worker \in [Workers -> WorkerRow]
      /\ worker[w].pc = "write" /\ WorkerOK(w) /\ ReviewOK(w)
  BY DEF Inv, Shape, WriteReview
<1>2. l \in Lists /\ i \in Rows[l] /\ Rows[l] \subseteq Items
  BY <1>1, RowsAssumption DEF WorkerOK, Working, PassState
<1>3. /\ Shape'
      /\ \A v \in Workers, j \in Items : tx'[v].match[j] = tx[v].match[j]
      /\ \A v \in Workers, j \in Items :
            \/ tx'[v].review[j] = tx[v].review[j]
            \/ v = w /\ j = i /\ tx'[v].review[j] = new
  BY <1>2, WriteReviewShape DEF Inv
<1>4. /\ worker'[w].pc = "rows" /\ worker'[w].todo = worker[w].todo
      /\ worker'[w].list = worker[w].list /\ worker'[w].msg = worker[w].msg
      /\ worker'[w].loaded = worker[w].loaded
      /\ \A v \in Workers \ {w} : worker'[v] = worker[v]
  BY <1>1 DEF WriteReview, WorkerRow
<1>5. UNCHANGED <<list, match, review, message, owner, refused, honoured>>
  BY DEF WriteReview, data, history
<1>6. \A v \in Workers \ {w} : tx'[v] = tx[v]
  BY DEF WriteReview, Inv, Shape
<1>7. review[l][i] = "decided" => new = "decided"
  <2>1. review[l][i] = "decided" => review[l][i] # Null
    BY NullIsNoRow DEF ReviewStatus
  <2>2. worker[w].entry = Null => review[l][i] = Null
    BY <1>1 DEF WorkerOK
  <2> QED BY <2>1, <2>2 DEF Routed
<1> HIDE DEF new
<1>8. WorkerOK(w)'
  BY <1>1, <1>4, <1>5 DEF WorkerOK, Working, PassState
<1>9. \A v \in Workers \ {w} : WorkerOK(v)'
  BY <1>4, <1>5, <1>6, OtherWorker
<1>10. ReviewOK(w)'
  BY <1>1, <1>2, <1>3, <1>4, <1>5, <1>7 DEF ReviewOK, PassState
<1>11. \A v \in Workers \ {w} : ReviewOK(v)'
  BY <1>4, <1>5, <1>6 DEF Inv, ReviewOK
<1>12. \A j \in Items : MatchOK(j)'
  BY <1>3, <1>5 DEF Inv, MatchOK
<1>13. MatchLockOK'
  BY <1>3 DEF Inv, MatchLockOK
<1>14. OnePassAtATime'
  BY <1>1, <1>4 DEF Inv, OnePassAtATime, InPass
<1>15. (\A m \in Messages : MessageOK(m)') /\ OwnerOK'
  BY <1>5 DEF Inv, MessageOK, OwnerOK
<1> QED BY <1>3, <1>8, <1>9, <1>10, <1>11, <1>12, <1>13, <1>14, <1>15 DEF Inv

\* What a commit leaves in the tables.
LEMMA CommitEffect ==
    ASSUME Inv, NEW w \in Workers, Commit(w)
    PROVE  /\ worker[w].list \in Lists /\ worker[w].msg \in Messages
           /\ worker[w].loaded \in [mapping : Nat, errors : Nat]
           /\ Rows[worker[w].list] \subseteq Items
           /\ \A k \in Lists : list'[k].mapping = list[k].mapping
           /\ \A i \in Items : match'[i] = IF tx[w].match[i] = Null THEN match[i]
                                           ELSE tx[w].match[i]
           /\ \A k \in Lists \ {worker[w].list} : review'[k] = review[k]
           /\ \A i \in Rows[worker[w].list] :
                 review'[worker[w].list][i] =
                    IF tx[w].review[i] = Null THEN review[worker[w].list][i]
                    ELSE tx[w].review[i]
<1> DEFINE l == worker[w].list
<1>1. l \in Lists /\ worker[w].msg \in Messages /\ Rows[l] \subseteq Items
      /\ worker[w].loaded \in [mapping : Nat, errors : Nat]
  BY RowsAssumption DEF Inv, WorkerOK, Commit, Working, PassState
<1>2. \A k \in Lists : list'[k].mapping = list[k].mapping
  BY <1>1 DEF Commit, Inv, Shape, FinishedList
<1>3. \A i \in Items : match'[i] = IF tx[w].match[i] = Null THEN match[i] ELSE tx[w].match[i]
  BY DEF Commit, Written
<1>4. /\ \A k \in Lists \ {l} : review'[k] = review[k]
      /\ review'[l] = [i \in Rows[l] |-> Written(review[l][i], tx[w].review[i])]
  BY <1>1 DEF Commit, Inv, Shape
<1> QED BY <1>1, <1>2, <1>3, <1>4 DEF Written

LEMMA CommitInv ==
    ASSUME Inv, NEW w \in Workers, Commit(w)
    PROVE  Inv'
<1> DEFINE l == worker[w].list
           m == worker[w].msg
<1>1. /\ worker[w] \in WorkerRow /\ worker \in [Workers -> WorkerRow]
      /\ worker[w].pc = "rows" /\ WorkerOK(w) /\ tx \in [Workers -> Writes]
  BY DEF Inv, Shape, Commit
<1>2. /\ worker'[w].pc = "delete" /\ worker'[w].msg = m
      /\ \A v \in Workers \ {w} : worker'[v] = worker[v] /\ tx'[v] = tx[v]
      /\ tx'[w] = NoWrites
      /\ UNCHANGED <<message, owner, refused>> /\ honoured \subseteq honoured'
  BY <1>1 DEF Commit, Idle
<1>3. Shape'
  BY CommitEffect, CommitShape DEF Inv
<1>4. m \in honoured'
  <2>1. message[m].mapping <= worker[w].loaded.mapping /\ message[m].mapping \in Nat
    BY <1>1, CommitEffect DEF WorkerOK, Working, PassState, Inv, MessageOK
  <2>2. worker[w].loaded.mapping >= message[m].mapping
    BY <2>1, CommitEffect
  <2> QED BY <2>2 DEF Commit
<1>5. WorkerOK(w)'
  BY <1>1, <1>2, <1>4, CommitEffect DEF WorkerOK, Working, PassState
<1>6. \A v \in Workers \ {w} : worker[v].pc \in PassState =>
          worker[v].list \in Lists \ {l} /\ review'[worker[v].list] = review[worker[v].list]
  <2>1. \A v \in Workers \ {w} : InPass(v) => worker[v].list # l
    BY <1>1 DEF Inv, OnePassAtATime, InPass
  <2>2. \A v \in Workers : worker[v].pc \in PassState => worker[v].list \in Lists
    BY DEF Inv, WorkerOK, Working
  <2> QED BY <2>1, <2>2, CommitEffect, InPassIs
<1>7. \A i \in Items : match[i] # Null => match'[i] # Null
  BY CommitEffect
<1>8. \A v \in Workers \ {w} : WorkerOK(v)'
  BY <1>2, <1>6, <1>7, OtherWorker DEF PassState
<1>9. \A v \in Workers : ReviewOK(v)'
  BY <1>2, <1>6 DEF Inv, ReviewOK, PassState
<1>10. \A i \in Items : MatchOK(i)'
  <2> SUFFICES ASSUME NEW i \in Items PROVE MatchOK(i)'
    OBVIOUS
  <2>1. MatchOK(i)
    BY DEF Inv
  <2>2. match'[i] # Null /\ match'[i].status = "rejected" => i \in refused'
    BY <1>2, <2>1, CommitEffect DEF MatchOK
  <2>3. ASSUME NEW v \in Workers, tx'[v].match[i] # Null
        PROVE  /\ tx'[v].match[i].status = "rejected" => i \in refused'
               /\ match'[i] # Null /\ match'[i].status = "confirmed" =>
                     tx'[v].match[i].status = "confirmed" \/ i \in refused'
    <3>1. v # w /\ tx'[v] = tx[v]
      BY <1>2, <2>3, NoWritesFacts
    <3>2. tx[w].match[i] = Null
      BY <2>3, <3>1 DEF Inv, MatchLockOK
    <3>3. match'[i] = match[i]
      BY <3>2, CommitEffect
    <3> QED BY <1>2, <2>1, <2>3, <3>1, <3>3 DEF MatchOK
  <2> QED BY <2>2, <2>3 DEF MatchOK
<1>11. MatchLockOK'
  BY <1>2, NoWritesFacts DEF Inv, MatchLockOK
<1>12. OnePassAtATime'
  BY <1>2 DEF Inv, OnePassAtATime, InPass
<1>13. \A k \in Messages : MessageOK(k)'
  BY <1>2, CommitEffect DEF Inv, MessageOK
<1>14. OwnerOK'
  BY <1>2, <1>7 DEF Inv, OwnerOK, Shape, MatchRequest, MappingRequest
<1> QED BY <1>3, <1>5, <1>8, <1>9, <1>10, <1>11, <1>12, <1>13, <1>14 DEF Inv

LEMMA LeaveInv ==
    ASSUME Inv, NEW w \in Workers, DeleteMessage(w) \/ Abort(w)
    PROVE  Inv'
<1>1. /\ worker \in [Workers -> WorkerRow] /\ WorkerOK(w) /\ worker[w].pc # "idle"
      /\ message \in [Messages -> Message] /\ tx \in [Workers -> Writes]
      /\ worker[w].msg \in Messages
  BY DEF Inv, Shape, DeleteMessage, Abort, WorkerOK
<1>2. /\ worker'[w].pc = "idle"
      /\ \A v \in Workers \ {w} : worker'[v] = worker[v] /\ tx'[v] = tx[v]
      /\ UNCHANGED <<list, match, review, owner, refused, honoured>>
  <2>1. worker' = [worker EXCEPT ![w] = Idle] /\ (tx' = tx \/ tx' = [tx EXCEPT ![w] = NoWrites])
    BY DEF DeleteMessage, Abort
  <2>2. UNCHANGED <<list, match, review, owner, refused, honoured>>
    BY DEF DeleteMessage, Abort, data, history
  <2> QED BY <1>1, <2>1, <2>2, IdleFacts
<1>3. tx'[w] = NoWrites
  BY <1>1 DEF DeleteMessage, Abort, WorkerOK, PassState
<1>4. \A k \in Messages :
          /\ message'[k].list = message[k].list /\ message'[k].mapping = message[k].mapping
          /\ \/ message'[k].state = message[k].state
             \/ message'[k].state = "deleted" /\ k \in honoured /\ message[k].state # "unsent"
  <2>1. \/ message' = message
        \/ /\ message' = [message EXCEPT ![worker[w].msg].state = "deleted"]
           /\ worker[w].msg \in honoured /\ message[worker[w].msg].state # "unsent"
    BY <1>1 DEF DeleteMessage, Abort, WorkerOK
  <2>2. CASE message' = [message EXCEPT ![worker[w].msg].state = "deleted"]
             /\ worker[w].msg \in honoured /\ message[worker[w].msg].state # "unsent"
    BY <1>1, <2>2 DEF Message
  <2> QED BY <2>1, <2>2
<1>5. Shape'
  BY <1>1, LeaveShape DEF Inv
<1>6. WorkerOK(w)' /\ ReviewOK(w)'
  BY <1>2, <1>3 DEF WorkerOK, ReviewOK, Working, PassState
<1>7. \A v \in Workers \ {w} : WorkerOK(v)'
  BY <1>2, <1>4, OtherWorker
<1>8. \A v \in Workers \ {w} : ReviewOK(v)'
  BY <1>2 DEF Inv, ReviewOK
<1>9. \A i \in Items : MatchOK(i)'
  BY <1>2, <1>3, NoWritesFacts DEF Inv, MatchOK
<1>10. MatchLockOK'
  BY <1>2, <1>3, NoWritesFacts DEF Inv, MatchLockOK
<1>11. OnePassAtATime'
  BY <1>2 DEF Inv, OnePassAtATime, InPass
<1>12. (\A k \in Messages : MessageOK(k)') /\ OwnerOK'
  BY <1>2, <1>4 DEF Inv, MessageOK, OwnerOK
<1> QED BY <1>5, <1>6, <1>7, <1>8, <1>9, <1>10, <1>11, <1>12 DEF Inv

(***************************************************************************)
(* The queue and the owner                                                 *)
(***************************************************************************)
LEMMA QueueInv ==
    ASSUME Inv, NEW m \in Messages,
           VisibilityTimeout(m) \/ \E l \in Lists : ProcessRunEndpoint(m, l)
    PROVE  Inv'
<1>1. /\ message \in [Messages -> Message] /\ list \in [Lists -> ListRow]
      /\ UNCHANGED <<list, match, review, worker, tx, owner, refused, honoured>>
  BY DEF Inv, Shape, VisibilityTimeout, ProcessRunEndpoint, data, history
<1>2. /\ \A k \in Messages \ {m} : message'[k] = message[k]
      /\ message'[m].state \in {"visible", "dead"}
      /\ message[m].state # "unsent" =>
            message'[m].list = message[m].list /\ message'[m].mapping = message[m].mapping
      /\ message[m].state = "unsent" =>
            message'[m].list \in Lists /\ message'[m].mapping = list[message'[m].list].mapping
  <2>1. CASE VisibilityTimeout(m)
    BY <1>1, <2>1 DEF VisibilityTimeout, Message
  <2>2. CASE \E l \in Lists : ProcessRunEndpoint(m, l)
    BY <1>1, <2>2 DEF ProcessRunEndpoint
  <2> QED BY <2>1, <2>2
<1>3. Shape'
  BY QueueShape DEF Inv
<1>4. \A w \in Workers : WorkerOK(w)'
  BY <1>1, <1>2, OtherWorker
<1>5. \A k \in Messages : MessageOK(k)'
  <2>1. \A k \in Messages \ {m} : MessageOK(k)'
    BY <1>1, <1>2 DEF Inv, MessageOK
  <2>2. \A l \in Lists : list[l].mapping \in Nat
    BY <1>1 DEF ListRow
  <2>3. MessageOK(m)'
    BY <1>1, <1>2, <2>2 DEF Inv, MessageOK
  <2> QED BY <2>1, <2>3
<1>6. (\A w \in Workers : ReviewOK(w)') /\ (\A i \in Items : MatchOK(i)')
  BY <1>1 DEF Inv, ReviewOK, MatchOK
<1>7. OnePassAtATime' /\ MatchLockOK' /\ OwnerOK'
  BY <1>1 DEF Inv, OnePassAtATime, InPass, MatchLockOK, OwnerOK
<1> QED BY <1>3, <1>4, <1>5, <1>6, <1>7 DEF Inv

LEMMA OwnerAsksInv == ASSUME Inv, OwnerAsks PROVE Inv'
<1>1. UNCHANGED <<list, match, review, message, worker, tx, refused, honoured>>
  BY DEF OwnerAsks, AskMatch, AskMapping, Ask, data, history
<1>2. Shape'
  BY OwnerShape DEF Inv
<1>3. OwnerOK'
  BY DEF OwnerAsks, AskMatch, AskMapping, Ask, data, OwnerOK
<1>4. \A w \in Workers : WorkerOK(w)' /\ ReviewOK(w)'
  BY <1>1 DEF Inv, WorkerOK, ReviewOK
<1>5. (\A m \in Messages : MessageOK(m)') /\ (\A i \in Items : MatchOK(i)')
  BY <1>1 DEF Inv, MessageOK, MatchOK
<1>6. OnePassAtATime' /\ MatchLockOK'
  BY <1>1 DEF Inv, OnePassAtATime, InPass, MatchLockOK
<1> QED BY <1>2, <1>3, <1>4, <1>5, <1>6 DEF Inv

LEMMA DecideMatchInv ==
    ASSUME Inv, OwnerWrites, owner.kind = "match"
    PROVE  Inv'
<1>1. DecideMatch /\ owner' = Null /\ UNCHANGED <<list, review, message, worker, tx, honoured>>
  BY DEF OwnerWrites, DecideMatch, ConfirmMapping
<1>2. owner \in MatchRequest /\ match[owner.item] # Null
  BY DEF OwnerWrites, Inv, Shape, MappingRequest, OwnerOK
<1>3. PICK i \in Items : i = owner.item
  BY <1>2 DEF MatchRequest
<1>4. match[i] # Null /\ owner.to \in {"confirmed", "rejected"} /\ match \in [Items -> Match \cup {Null}]
  BY <1>2, <1>3 DEF MatchRequest, Inv, Shape
<1>5. Shape'
  BY <1>2, OwnerShape DEF Inv
<1>6. /\ \A j \in Items \ {i} : match'[j] = match[j]
      /\ match'[i] = Decided(match[i], owner)
      /\ refused' = IF owner.to = "rejected" THEN refused \cup {i} ELSE refused
  BY <1>1, <1>4, <1>3 DEF DecideMatch
<1>7. match'[i] # Null
  <2>1. match[i] \in Match
    BY <1>4
  <2>2. Decided(match[i], owner) \in Match
    BY <1>2, <2>1 DEF Decided, MatchRequest, Match
  <2> QED BY <1>6, <2>2, NullIsNoRow
<1>8. \A w \in Workers : WorkerOK(w)'
  <2>1. \A j \in Items : match[j] # Null => match'[j] # Null
    BY <1>6, <1>7
  <2> QED BY <1>1, <1>6, <2>1, OtherWorker
<1>9. \A j \in Items : MatchOK(j)'
  <2>1. \A w \in Workers : tx[w].match[i] = Null
    BY <1>1, <1>3 DEF DecideMatch, MatchLocked
  <2>2. match'[i].status = "rejected" => i \in refused'
    BY <1>2, <1>4, <1>6 DEF Decided, Inv, MatchOK
  <2>3. MatchOK(i)'
    BY <1>1, <2>1, <2>2 DEF MatchOK
  <2>4. \A j \in Items \ {i} : MatchOK(j)'
    BY <1>1, <1>6 DEF Inv, MatchOK
  <2> QED BY <2>3, <2>4
<1>10. (\A w \in Workers : ReviewOK(w)') /\ (\A m \in Messages : MessageOK(m)')
  BY <1>1 DEF Inv, ReviewOK, MessageOK
<1>11. OnePassAtATime' /\ MatchLockOK' /\ OwnerOK'
  BY <1>1 DEF Inv, OnePassAtATime, InPass, MatchLockOK, OwnerOK
<1> QED BY <1>5, <1>8, <1>9, <1>10, <1>11 DEF Inv

LEMMA ConfirmMappingInv ==
    ASSUME Inv, OwnerWrites, owner.kind # "match"
    PROVE  Inv'
<1>1. /\ ConfirmMapping /\ owner' = Null
      /\ UNCHANGED <<match, review, message, worker, tx, refused, honoured>>
  BY DEF OwnerWrites, DecideMatch, ConfirmMapping, history
<1>2. owner \in MappingRequest
  BY DEF OwnerWrites, Inv, Shape, MatchRequest
<1>3. Shape'
  BY OwnerShape DEF Inv
<1>4. list \in [Lists -> ListRow] /\ owner.list \in Lists
  BY <1>2 DEF Inv, Shape, MappingRequest
<1>5. \A l \in Lists : list[l].mapping \in Nat /\ list[l].mapping <= list'[l].mapping
                       /\ list'[l].mapping \in Nat
  <2>1. \A l \in Lists : list[l].mapping \in Nat
    BY <1>4 DEF ListRow
  <2>2. \A l \in Lists : list'[l].mapping \in {list[l].mapping, list[l].mapping + 1}
    BY <1>1, <1>4 DEF ConfirmMapping, ListRow
  <2> QED BY <2>1, <2>2
<1>6. \A m \in Messages : MessageOK(m)'
  BY <1>1, <1>5 DEF Inv, MessageOK
<1>7. \A w \in Workers : WorkerOK(w)' /\ ReviewOK(w)'
  BY <1>1 DEF Inv, WorkerOK, ReviewOK
<1>8. \A i \in Items : MatchOK(i)'
  BY <1>1 DEF Inv, MatchOK
<1>9. OnePassAtATime' /\ MatchLockOK' /\ OwnerOK'
  BY <1>1 DEF Inv, OnePassAtATime, InPass, MatchLockOK, OwnerOK
<1> QED BY <1>3, <1>6, <1>7, <1>8, <1>9 DEF Inv

LEMMA DecideReviewInv ==
    ASSUME Inv, NEW l \in Lists, NEW i \in Rows[l], DecideReview(l, i)
    PROVE  Inv'
<1>1. UNCHANGED <<list, match, message, worker, tx, owner, refused, honoured>>
  BY DEF DecideReview, history
<1>2. Shape'
  BY OwnerShape DEF Inv
<1>3. \A k \in Lists : \A j \in Rows[k] :
          review'[k][j] = IF k = l /\ j = i THEN "decided" ELSE review[k][j]
  BY DEF DecideReview, Inv, Shape, Entries
<1>4. review[l][i] # Null /\ ~ReviewLocked(l, i)
  BY DEF DecideReview
<1>5. \A w \in Workers : ReviewOK(w)'
  BY <1>1, <1>3, <1>4 DEF Inv, ReviewOK, WorkerOK, Working, ReviewLocked
<1>6. \A w \in Workers : WorkerOK(w)'
  <2> SUFFICES ASSUME NEW w \in Workers PROVE WorkerOK(w)'
    OBVIOUS
  <2>1. WorkerOK(w)
    BY DEF Inv
  <2>2. worker[w].pc = "write" /\ review[worker[w].list][worker[w].item] = Null
            => review'[worker[w].list][worker[w].item] = review[worker[w].list][worker[w].item]
    BY <1>3, <1>4, <2>1 DEF WorkerOK, Working, PassState
  <2> QED BY <1>1, <2>2, OtherWorker
<1>7. (\A m \in Messages : MessageOK(m)') /\ (\A j \in Items : MatchOK(j)')
  BY <1>1 DEF Inv, MessageOK, MatchOK
<1>8. OnePassAtATime' /\ MatchLockOK' /\ OwnerOK'
  BY <1>1 DEF Inv, OnePassAtATime, InPass, MatchLockOK, OwnerOK
<1> QED BY <1>2, <1>5, <1>6, <1>7, <1>8 DEF Inv

LEMMA StepInv == ASSUME Inv, [Next]_vars PROVE Inv'
<1>1. ASSUME NEW w \in Workers, WorkerStep(w) PROVE Inv'
  BY <1>1, ReceiveInv, ApplyNormalizationInv, ReadMatchInv, ProposeMatchInv, ReadReviewInv,
     WriteReviewInv, CommitInv, LeaveInv, FailRowInv DEF WorkerStep, Work
<1>2. ASSUME UNCHANGED vars PROVE Inv'
  <2>1. Shape'
    BY <1>2 DEF Inv, Shape, vars
  <2>2. \A w \in Workers : WorkerOK(w)' /\ ReviewOK(w)'
    BY <1>2 DEF Inv, WorkerOK, ReviewOK, vars
  <2>3. (\A m \in Messages : MessageOK(m)') /\ (\A i \in Items : MatchOK(i)')
    BY <1>2 DEF Inv, MessageOK, MatchOK, vars
  <2>4. OnePassAtATime' /\ MatchLockOK' /\ OwnerOK'
    BY <1>2 DEF Inv, OnePassAtATime, InPass, MatchLockOK, OwnerOK, vars
  <2> QED BY <2>1, <2>2, <2>3, <2>4 DEF Inv
<1> QED BY <1>1, <1>2, QueueInv, OwnerAsksInv, DecideMatchInv, ConfirmMappingInv, DecideReviewInv
        DEF Next

LEMMA Invariance == Spec => []Inv
BY InitInv, StepInv, PTL DEF Spec

----------------------------------------------------------------------------
(***************************************************************************)
(* The theorems                                                            *)
(***************************************************************************)
\* However many workers hold messages for a list, one at a time processes it:
\* the row lock taken by the flush of PROCESSING is enough.
THEOREM OnePass == Spec => []OnePassAtATime
<1>1. Inv => OnePassAtATime
  BY DEF Inv
<1> QED BY <1>1, Invariance, PTL

\* A message is deleted only when its list was processed, all of it, with the
\* mapping of the moment of the request or a later one.
THEOREM Honoured == Spec => []RequestHonoured
<1>1. Inv => RequestHonoured
  BY DEF Inv, MessageOK, RequestHonoured
<1> QED BY <1>1, Invariance, PTL

\* The tables change by a commit of a pass or by a request of the owner.
LEMMA TableSteps ==
    ASSUME [Next]_vars
    PROVE  \/ UNCHANGED <<match, review, refused>>
           \/ (\E w \in Workers : Commit(w)) /\ UNCHANGED refused
           \/ DecideMatch /\ owner # Null /\ UNCHANGED review
           \/ (\E l \in Lists : \E i \in Rows[l] : DecideReview(l, i)) /\ UNCHANGED match
<1>1. ASSUME NEW w \in Workers, WorkerStep(w)
      PROVE  UNCHANGED <<match, review, refused>> \/ (Commit(w) /\ UNCHANGED refused)
  BY <1>1 DEF WorkerStep, Work, Receive, ApplyNormalization, ReadMatch, ProposeMatch, FailRow,
              ReadReview, WriteReview, Commit, DeleteMessage, Abort, data, history
<1>2. ASSUME \/ \E m \in Messages, l \in Lists : ProcessRunEndpoint(m, l)
             \/ \E m \in Messages : VisibilityTimeout(m)
             \/ OwnerAsks
      PROVE  UNCHANGED <<match, review, refused>>
  BY <1>2 DEF ProcessRunEndpoint, VisibilityTimeout, OwnerAsks, AskMatch, AskMapping, Ask,
              data, history
<1>3. ASSUME OwnerWrites
      PROVE  \/ UNCHANGED <<match, review, refused>>
             \/ DecideMatch /\ owner # Null /\ UNCHANGED review
  BY <1>3 DEF OwnerWrites, DecideMatch, ConfirmMapping, history
<1>4. ASSUME NEW l \in Lists, NEW i \in Rows[l], DecideReview(l, i) PROVE UNCHANGED match
  BY <1>4 DEF DecideReview
<1>5. ASSUME UNCHANGED vars PROVE UNCHANGED <<match, review, refused>>
  BY <1>5 DEF vars
<1> QED BY <1>1, <1>2, <1>3, <1>4, <1>5 DEF Next

\* A decided review entry stays decided, whatever the workers have read before.
THEOREM DecidedStands == Spec => DecidedReviewStands
<1>1. Inv /\ [Next]_vars =>
        [\A l \in Lists : \A i \in Rows[l] :
            review[l][i] = "decided" => review'[l][i] = "decided"]_vars
  <2> SUFFICES ASSUME Inv, [Next]_vars, NEW l \in Lists, NEW i \in Rows[l],
                      review[l][i] = "decided"
               PROVE  review'[l][i] = "decided"
    OBVIOUS
  <2>1. ASSUME NEW w \in Workers, Commit(w) PROVE review'[l][i] = "decided"
    <3>1. ReviewOK(w) /\ worker[w].pc \in PassState
      BY <2>1 DEF Inv, Commit, PassState
    <3>2. CASE l # worker[w].list
      BY <2>1, <3>2, CommitEffect
    <3>3. CASE l = worker[w].list
      BY <2>1, <3>1, <3>3, CommitEffect DEF ReviewOK
    <3> QED BY <3>2, <3>3
  <2>2. ASSUME NEW k \in Lists, NEW j \in Rows[k], DecideReview(k, j)
        PROVE  review'[l][i] = "decided"
    BY <2>2 DEF DecideReview, Inv, Shape, Entries
  <2> QED BY <2>1, <2>2, TableSteps
<1> QED BY <1>1, Invariance, PTL DEF Spec, DecidedReviewStands

\* A confirmation outlives what a worker that had read the match before goes on to
\* write, except for an item that was rejected once.
THEOREM ConfirmationStays == Spec => ConfirmationSurvives
<1>1. Inv /\ Inv' /\ [Next]_vars =>
        [\A i \in Items :
            match[i] # Null /\ match[i].status = "confirmed" /\ match'[i].status # "confirmed"
            => i \in refused']_vars
  <2> SUFFICES ASSUME Inv, Inv', [Next]_vars, NEW i \in Items, match[i] # Null,
                      match[i].status = "confirmed", match'[i].status # "confirmed"
               PROVE  i \in refused'
    OBVIOUS
  <2>1. ASSUME NEW w \in Workers, Commit(w), UNCHANGED refused PROVE i \in refused'
    <3>1. MatchOK(i)
      BY DEF Inv
    <3>2. tx[w].match[i] # Null /\ match'[i] = tx[w].match[i]
      BY <2>1, CommitEffect
    <3> QED BY <2>1, <3>1, <3>2 DEF MatchOK
  <2>2. ASSUME DecideMatch, owner # Null PROVE i \in refused'
    <3>1. owner \in MatchRequest /\ match \in [Items -> Match \cup {Null}]
      BY <2>2 DEF DecideMatch, Inv, Shape, MappingRequest
    <3>2. owner.item = i /\ match'[i] = Decided(match[i], owner)
      BY <2>2, <3>1 DEF DecideMatch, MatchRequest
    <3>3. owner.to = "rejected"
      BY <3>1, <3>2 DEF Decided, MatchRequest
    <3> QED BY <2>2, <3>2, <3>3 DEF DecideMatch
  <2> QED BY <2>1, <2>2, TableSteps
<1> QED BY <1>1, Invariance, PTL DEF Spec, ConfirmationSurvives
----------------------------------------------------------------------------
(***************************************************************************)
(* The counters                                                            *)
(***************************************************************************)
InRow == {"search", "route", "write"}

\* The rows of its list that a pass may still count as an error.
Open(w) ==
    Cardinality(worker[w].todo)
    + IF worker[w].pc \in InRow /\ ~worker[w].failed THEN 1 ELSE 0

WorkerBound(w) ==
    /\ worker[w].pc \notin InRow => ~worker[w].failed
    /\ worker[w].pc \notin PassState => worker[w].errors = 0
    /\ worker[w].pc \notin Working => worker[w].loaded = Null
    /\ worker[w].pc \in Working =>
          /\ worker[w].loaded.mapping \in 1..list[worker[w].list].mapping
          /\ worker[w].loaded.errors <= Cardinality(Rows[worker[w].list])
    /\ worker[w].pc \in PassState =>
          worker[w].errors + Open(w) <= Cardinality(Rows[worker[w].list])

ListBound(l) ==
    /\ list[l].mapping \in 1..MaxMapping
    /\ list[l].rows \in 1..list[l].mapping \cup {Null}
    /\ list[l].errors <= Cardinality(Rows[l])
    /\ list[l].status = "partial" => list[l].errors # 0

MessageBound(m) ==
    /\ message[m].receives <= MaxReceives
    /\ message[m].state = "visible" => message[m].receives < MaxReceives

OwnerBound ==
    owner # Null /\ owner.kind = "mapping" => list[owner.list].mapping < MaxMapping

Bounds ==
    /\ \A w \in Workers : WorkerBound(w)
    /\ \A l \in Lists : ListBound(l)
    /\ \A m \in Messages : MessageBound(m)
    /\ OwnerBound

LEMMA RowsFinite ==
    ASSUME NEW l \in Lists
    PROVE  /\ Rows[l] \subseteq Items /\ IsFiniteSet(Rows[l]) /\ Cardinality(Rows[l]) \in Nat
           /\ Cardinality(Rows[l]) <= Cardinality(Items) /\ Cardinality(Items) \in Nat
<1>1. Rows[l] \subseteq Items
  BY RowsAssumption
<1> QED BY <1>1, ItemsAssumption, FS_Subset, FS_CardinalityType

LEMMA InitBounds == Init => Bounds
<1> SUFFICES ASSUME Init PROVE Bounds
  OBVIOUS
<1>1. ASSUME NEW w \in Workers PROVE WorkerBound(w)
  <2>1. worker[w] = Idle
    BY DEF Init
  <2> QED BY <2>1 DEF WorkerBound, Idle, InRow, PassState, Working
<1>2. ASSUME NEW l \in Lists PROVE ListBound(l)
  BY RowsFinite, BoundsAssumption DEF Init, ListBound
<1>3. (\A m \in Messages : MessageBound(m)) /\ OwnerBound
  BY BoundsAssumption DEF Init, MessageBound, OwnerBound
<1> QED BY <1>1, <1>2, <1>3 DEF Bounds

\* What a worker counts stays in bounds while the versions of mappings only grow.
LEMMA OtherBound ==
    ASSUME Inv, Bounds, NEW v \in Workers, worker'[v] = worker[v],
           \A l \in Lists : list'[l].mapping \in Nat /\ list[l].mapping <= list'[l].mapping
    PROVE  WorkerBound(v)'
<1>1. WorkerBound(v) /\ (worker[v].pc \in Working => worker[v].list \in Lists)
  BY DEF Inv, Bounds, WorkerOK
<1>2. worker[v].pc \in Working =>
          worker[v].loaded.mapping \in 1..list'[worker[v].list].mapping
  <2> SUFFICES ASSUME worker[v].pc \in Working
               PROVE  worker[v].loaded.mapping \in 1..list'[worker[v].list].mapping
    OBVIOUS
  <2>1. list[worker[v].list].mapping \in Nat
    BY <1>1 DEF Inv, Shape, ListRow
  <2> QED BY <1>1, <2>1 DEF WorkerBound
<1> QED BY <1>1, <1>2 DEF WorkerBound, Open

LEMMA MappingsKept ==
    ASSUME Inv, UNCHANGED list
    PROVE  \A l \in Lists : list'[l].mapping \in Nat /\ list[l].mapping <= list'[l].mapping
BY DEF Inv, Shape, ListRow

\* A step of one worker that leaves the tables and the messages alone.
LEMMA LocalBound ==
    ASSUME Inv, Bounds, NEW w \in Workers, WorkerBound(w)',
           \A v \in Workers \ {w} : worker'[v] = worker[v],
           UNCHANGED <<list, message, owner>>
    PROVE  Bounds'
<1>1. \A v \in Workers \ {w} : WorkerBound(v)'
  BY MappingsKept, OtherBound
<1> QED BY <1>1 DEF Bounds, ListBound, MessageBound, OwnerBound

LEMMA ApplyNormalizationBounds ==
    ASSUME Inv, Bounds, NEW w \in Workers, ApplyNormalization(w)
    PROVE  Bounds'
<1>1. worker[w] \in WorkerRow /\ worker \in [Workers -> WorkerRow] /\ worker[w].pc = "lock"
  BY DEF Inv, Shape, ApplyNormalization
<1>2. worker[w].list \in Lists /\ WorkerBound(w)
  BY <1>1 DEF Inv, WorkerOK, Working, Bounds
<1>3. /\ worker'[w] = [worker[w] EXCEPT !.pc = "rows", !.todo = Rows[worker[w].list]]
      /\ \A v \in Workers \ {w} : worker'[v] = worker[v]
  BY <1>1 DEF ApplyNormalization
<1>4. /\ worker'[w].pc = "rows" /\ worker'[w].todo = Rows[worker[w].list]
      /\ worker'[w].list = worker[w].list /\ worker'[w].loaded = worker[w].loaded
      /\ worker'[w].failed = worker[w].failed /\ worker'[w].errors = worker[w].errors
  BY <1>1, <1>3 DEF WorkerRow
<1>5. UNCHANGED <<list, message, owner>>
  BY DEF ApplyNormalization, data
<1>6. WorkerBound(w)'
  BY <1>1, <1>2, <1>4, <1>5, RowsFinite DEF WorkerBound, Open, InRow, PassState, Working
<1> QED BY <1>3, <1>5, <1>6, LocalBound

LEMMA ReadMatchBounds ==
    ASSUME Inv, Bounds, NEW w \in Workers, NEW i \in Items, ReadMatch(w, i)
    PROVE  Bounds'
<1>1. worker[w] \in WorkerRow /\ worker \in [Workers -> WorkerRow] /\ worker[w].pc = "rows"
      /\ i \in worker[w].todo
  BY DEF Inv, Shape, ReadMatch
<1>2. worker[w].list \in Lists /\ worker[w].todo \subseteq Rows[worker[w].list] /\ WorkerBound(w)
  BY <1>1 DEF Inv, WorkerOK, Working, PassState, Bounds
<1>3. /\ worker'[w].todo = worker[w].todo \ {i} /\ worker'[w].pc \in {"route", "search"}
      /\ worker'[w].list = worker[w].list /\ worker'[w].loaded = worker[w].loaded
      /\ worker'[w].failed = worker[w].failed /\ worker'[w].errors = worker[w].errors
      /\ \A v \in Workers \ {w} : worker'[v] = worker[v]
  BY <1>1 DEF ReadMatch, WorkerRow
<1>4. UNCHANGED <<list, message, owner>>
  BY DEF ReadMatch, data
<1>5. Cardinality(worker[w].todo) \in Nat
      /\ Cardinality(worker[w].todo \ {i}) = Cardinality(worker[w].todo) - 1
  <2>1. IsFiniteSet(worker[w].todo)
    BY <1>2, RowsFinite, FS_Subset
  <2> QED BY <1>1, <2>1, FS_RemoveElement, FS_CardinalityType
<1>6. worker[w].errors \in Nat
  BY <1>1 DEF WorkerRow
<1>7. worker'[w].errors + Open(w)' <= Cardinality(Rows[worker'[w].list])
  <2>1. worker[w].errors + Cardinality(worker[w].todo) <= Cardinality(Rows[worker[w].list])
    BY <1>1, <1>2, <1>5, <1>6 DEF WorkerBound, Open, InRow, PassState
  <2>2. Open(w)' = Cardinality(worker[w].todo)
    BY <1>1, <1>2, <1>3, <1>5 DEF WorkerBound, Open, InRow
  <2> QED BY <1>3, <2>1, <2>2
<1>8. WorkerBound(w)'
  BY <1>1, <1>2, <1>3, <1>4, <1>7 DEF WorkerBound, InRow, PassState, Working
<1> QED BY <1>3, <1>4, <1>8, LocalBound

\* Inside a row: what is counted is no longer open.
LEMMA InRowBounds ==
    ASSUME Inv, Bounds, NEW w \in Workers,
           \/ \E asin \in Asins \cup {Null} : ProposeMatch(w, asin)
           \/ FailRow(w)
           \/ ReadReview(w)
           \/ \E needed \in BOOLEAN : WriteReview(w, needed)
    PROVE  Bounds'
<1>1. worker[w] \in WorkerRow /\ worker \in [Workers -> WorkerRow] /\ worker[w].pc \in InRow
  BY DEF Inv, Shape, ProposeMatch, FailRow, ReadReview, WriteReview, InRow
<1>2. /\ worker[w].list \in Lists /\ worker[w].todo \subseteq Rows[worker[w].list]
      /\ WorkerBound(w) /\ worker[w].pc \in PassState
  BY <1>1 DEF Inv, WorkerOK, Working, PassState, Bounds, InRow
<1>3. /\ worker'[w].todo = worker[w].todo
      /\ worker'[w].list = worker[w].list /\ worker'[w].loaded = worker[w].loaded
      /\ \A v \in Workers \ {w} : worker'[v] = worker[v]
      /\ \/ /\ worker'[w].pc \in InRow /\ worker'[w].failed = worker[w].failed
            /\ worker'[w].errors = worker[w].errors
         \/ /\ worker'[w].pc \in InRow /\ ~worker[w].failed /\ worker'[w].failed
            /\ worker'[w].errors = worker[w].errors + 1
         \/ /\ worker'[w].pc = "rows" /\ ~worker'[w].failed
            /\ worker'[w].errors = worker[w].errors
  <2>1. ASSUME NEW asin, ProposeMatch(w, asin) PROVE <1>3!:
    BY <1>1, <2>1 DEF ProposeMatch, WorkerRow, InRow
  <2>2. ASSUME FailRow(w) PROVE <1>3!:
    BY <1>1, <2>2 DEF FailRow, WorkerRow, InRow
  <2>3. ASSUME ReadReview(w) PROVE <1>3!:
    BY <1>1, <2>3 DEF ReadReview, WorkerRow, InRow
  <2>4. ASSUME NEW needed, WriteReview(w, needed) PROVE <1>3!:
    BY <1>1, <2>4 DEF WriteReview, WorkerRow, InRow
  <2> QED BY <2>1, <2>2, <2>3, <2>4
<1>4. UNCHANGED <<list, message, owner>>
  BY DEF ProposeMatch, FailRow, ReadReview, WriteReview, data
<1>5. Cardinality(worker[w].todo) \in Nat /\ worker[w].errors \in Nat
  <2>1. IsFiniteSet(worker[w].todo)
    BY <1>2, RowsFinite, FS_Subset
  <2> QED BY <1>1, <2>1, FS_CardinalityType DEF WorkerRow
<1>6. worker'[w].errors + Open(w)' <= Cardinality(Rows[worker'[w].list])
  <2>1. /\ worker[w].errors + Open(w) <= Cardinality(Rows[worker[w].list])
        /\ Cardinality(Rows[worker[w].list]) \in Nat
    BY <1>2, RowsFinite DEF WorkerBound
  <2>2. worker'[w].errors + Open(w)' <= worker[w].errors + Open(w)
    BY <1>1, <1>3, <1>5 DEF Open, InRow
  <2>3. Open(w) \in Nat /\ Open(w)' \in Nat /\ worker'[w].errors \in Nat
    BY <1>3, <1>5 DEF Open
  <2> QED BY <1>3, <1>5, <2>1, <2>2, <2>3
<1>7. WorkerBound(w)'
  BY <1>1, <1>2, <1>3, <1>4, <1>6 DEF WorkerBound, InRow, PassState, Working
<1> QED BY <1>3, <1>4, <1>7, LocalBound

LEMMA ReceiveBounds ==
    ASSUME Inv, Bounds, NEW w \in Workers, NEW m \in Messages, Receive(w, m)
    PROVE  Bounds'
<1>1. /\ worker \in [Workers -> WorkerRow] /\ message \in [Messages -> Message]
      /\ message[m] \in Message /\ message[m].state = "visible"
      /\ message[m].list \in Lists /\ list[message[m].list] \in ListRow
  BY DEF Inv, Shape, Receive, MessageOK
<1>2. /\ worker'[w].pc = "lock" /\ worker'[w].list = message[m].list
      /\ worker'[w].loaded = Used(list[message[m].list])
      /\ worker'[w].failed = FALSE /\ worker'[w].errors = 0
      /\ \A v \in Workers \ {w} : worker'[v] = worker[v]
  BY <1>1 DEF Receive, Idle
<1>3. UNCHANGED <<list, owner>>
  BY DEF Receive, data
<1>4. WorkerBound(w)'
  <2>1. ListBound(message[m].list) /\ list[message[m].list].mapping \in Nat
    BY <1>1 DEF Bounds, ListRow
  <2>2. worker'[w].loaded.mapping = list[message[m].list].mapping
        /\ worker'[w].loaded.errors = list[message[m].list].errors
    BY <1>2 DEF Used
  <2>3. worker'[w].loaded.mapping \in 1..list[message[m].list].mapping
    BY <2>1, <2>2, BoundsAssumption DEF ListBound
  <2> QED BY <1>2, <1>3, <2>1, <2>2, <2>3 DEF WorkerBound, ListBound, InRow, PassState, Working
<1>5. \A v \in Workers \ {w} : WorkerBound(v)'
  BY <1>2, <1>3, MappingsKept, OtherBound
<1>6. \A k \in Messages : MessageBound(k)'
  <2>1. message[m].receives \in Nat /\ message[m].receives < MaxReceives
    BY <1>1 DEF Bounds, MessageBound, Message
  <2>2. message'[m].receives = message[m].receives + 1 /\ message'[m].state = "in flight"
        /\ \A k \in Messages \ {m} : message'[k] = message[k]
    BY <1>1 DEF Receive, Message
  <2>3. message'[m].receives <= MaxReceives
    <3> DEFINE n == message[m].receives
    <3>1. n \in Nat /\ n < MaxReceives /\ MaxReceives \in Nat
      BY <2>1, BoundsAssumption
    <3>2. message'[m].receives = n + 1
      BY <2>2
    <3> HIDE DEF n
    <3>3. n + 1 <= MaxReceives
      BY <3>1
    <3> QED BY <3>2, <3>3
  <2> QED BY <2>2, <2>3 DEF Bounds, MessageBound
<1> QED BY <1>3, <1>4, <1>5, <1>6 DEF Bounds, ListBound, OwnerBound

LEMMA CommitBounds ==
    ASSUME Inv, Bounds, NEW w \in Workers, Commit(w)
    PROVE  Bounds'
<1>0. PICK l \in Lists : l = worker[w].list
  BY CommitEffect
<1>1. /\ worker[w] \in WorkerRow /\ worker \in [Workers -> WorkerRow] /\ worker[w].pc = "rows"
      /\ list \in [Lists -> ListRow] /\ list[l] \in ListRow
      /\ worker[w].todo = {} /\ worker[w].loaded \in [mapping : Nat, errors : Nat]
      /\ WorkerBound(w) /\ ListBound(l)
  BY <1>0, CommitEffect DEF Inv, Shape, Commit, Bounds
<1>2. /\ worker'[w] = [Idle EXCEPT !.pc = "delete", !.msg = worker[w].msg]
      /\ \A v \in Workers \ {w} : worker'[v] = worker[v]
      /\ list' = [list EXCEPT ![l] = FinishedList(list[l], worker[w])]
      /\ UNCHANGED <<message, owner>>
  BY <1>0, <1>1 DEF Commit
<1>3. WorkerBound(w)'
  BY <1>2 DEF WorkerBound, Idle, InRow, PassState, Working
<1>4. \A k \in Lists : list'[k].mapping = list[k].mapping /\ list[k].mapping \in Nat
  BY <1>1, CommitEffect DEF ListRow
<1>5. \A v \in Workers \ {w} : WorkerBound(v)'
  BY <1>2, <1>4, OtherBound
<1>6. ListBound(l)'
  <2>1. /\ worker[w].loaded.mapping \in 1..list[l].mapping
        /\ worker[w].errors <= Cardinality(Rows[l]) /\ worker[w].errors \in Nat
    <3>1. Open(w) = 0 /\ worker[w].errors \in Nat
      BY <1>1, FS_EmptySet DEF Open, InRow, WorkerRow
    <3> QED BY <1>0, <1>1, <3>1 DEF WorkerBound, Working, PassState
  <2>2. /\ list'[l].mapping = list[l].mapping /\ list'[l].rows = worker[w].loaded.mapping
        /\ list'[l].status = "partial" => worker[w].errors # 0
        /\ list'[l].errors = IF worker[w].errors = 0 /\ worker[w].loaded.errors = 0
                             THEN list[l].errors ELSE worker[w].errors
    <3>1. list'[l] = FinishedList(list[l], worker[w])
      BY <1>1, <1>2
    <3>2. worker[w].errors > 0 => worker[w].errors # 0
      BY <2>1
    <3> QED BY <3>1, <3>2 DEF FinishedList
  <2>3. ASSUME worker[w].errors = 0, worker[w].loaded.errors = 0, list'[l].status = "partial"
        PROVE  FALSE
    BY <2>2, <2>3
  <2>4. list'[l].mapping \in 1..MaxMapping /\ list'[l].rows \in 1..list'[l].mapping
    BY <1>1, <2>1, <2>2 DEF ListBound
  <2>5. list'[l].errors <= Cardinality(Rows[l])
    BY <1>1, <2>1, <2>2 DEF ListBound
  <2>6. list'[l].status = "partial" => list'[l].errors # 0
    BY <2>2
  <2> QED BY <2>4, <2>5, <2>6 DEF ListBound
<1>7. \A k \in Lists \ {l} : ListBound(k)'
  BY <1>1, <1>2 DEF Bounds, ListBound
<1>8. OwnerBound'
  <2>1. owner # Null /\ owner.kind = "mapping" => owner.list \in Lists
    BY DEF Inv, Shape, MatchRequest, MappingRequest
  <2>2. owner' = owner /\ OwnerBound
    BY <1>2 DEF Bounds
  <2> QED BY <1>4, <2>1, <2>2 DEF OwnerBound
<1> QED BY <1>2, <1>3, <1>5, <1>6, <1>7, <1>8 DEF Bounds, MessageBound

LEMMA LeaveBounds ==
    ASSUME Inv, Bounds, NEW w \in Workers, DeleteMessage(w) \/ Abort(w)
    PROVE  Bounds'
<1>1. /\ worker \in [Workers -> WorkerRow] /\ message \in [Messages -> Message]
      /\ worker[w].msg \in Messages
  BY DEF Inv, Shape, DeleteMessage, Abort, WorkerOK
<1>2. /\ worker'[w] = Idle /\ \A v \in Workers \ {w} : worker'[v] = worker[v]
      /\ UNCHANGED <<list, owner>>
  BY <1>1 DEF DeleteMessage, Abort, data
<1>3. WorkerBound(w)'
  BY <1>2 DEF WorkerBound, Idle, InRow, PassState, Working
<1>4. \A v \in Workers \ {w} : WorkerBound(v)'
  BY <1>2, MappingsKept, OtherBound
<1>5. \A m \in Messages : MessageBound(m)'
  <2>1. message' = message \/ message' = [message EXCEPT ![worker[w].msg].state = "deleted"]
    BY DEF DeleteMessage, Abort
  <2>2. \A m \in Messages : /\ message'[m].receives = message[m].receives
                            /\ message'[m].state \in {message[m].state, "deleted"}
    <3>1. CASE message' = message
      BY <3>1
    <3>2. CASE message' = [message EXCEPT ![worker[w].msg].state = "deleted"]
      <4>1. ASSUME NEW m \in Messages \ {worker[w].msg} PROVE message'[m] = message[m]
        BY <1>1, <3>2
      <4>2. message[worker[w].msg] \in Message
        BY <1>1
      <4>3. message'[worker[w].msg] = [message[worker[w].msg] EXCEPT !.state = "deleted"]
        BY <1>1, <3>2
      <4>4. message'[worker[w].msg].receives = message[worker[w].msg].receives
            /\ message'[worker[w].msg].state = "deleted"
        BY <4>2, <4>3 DEF Message
      <4> QED BY <4>1, <4>4
    <3> QED BY <2>1, <3>1, <3>2
  <2> QED BY <2>2 DEF Bounds, MessageBound
<1> QED BY <1>2, <1>3, <1>4, <1>5 DEF Bounds, ListBound, OwnerBound

LEMMA QueueBounds ==
    ASSUME Inv, Bounds, NEW m \in Messages,
           VisibilityTimeout(m) \/ \E l \in Lists : ProcessRunEndpoint(m, l)
    PROVE  Bounds'
<1>1. message \in [Messages -> Message] /\ UNCHANGED <<list, worker, owner>>
  BY DEF Inv, Shape, VisibilityTimeout, ProcessRunEndpoint, data
<1>2. \A w \in Workers : WorkerBound(w)'
  BY <1>1, MappingsKept, OtherBound
<1>3. /\ \A k \in Messages \ {m} : message'[k] = message[k]
      /\ message'[m].receives \in {0, message[m].receives}
      /\ message'[m].state = "visible" => message'[m].receives < MaxReceives
  <2>1. CASE VisibilityTimeout(m)
    BY <1>1, <2>1 DEF VisibilityTimeout, Message
  <2>2. CASE \E l \in Lists : ProcessRunEndpoint(m, l)
    BY <1>1, <2>2, BoundsAssumption DEF ProcessRunEndpoint
  <2> QED BY <2>1, <2>2
<1>4. \A k \in Messages : MessageBound(k)'
  BY <1>3, BoundsAssumption DEF Bounds, MessageBound
<1> QED BY <1>1, <1>2, <1>4 DEF Bounds, ListBound, OwnerBound

LEMMA OwnerBounds ==
    ASSUME Inv, Bounds,
           \/ OwnerAsks
           \/ OwnerWrites
           \/ \E l \in Lists : \E i \in Rows[l] : DecideReview(l, i)
    PROVE  Bounds'
<1>1. ASSUME UNCHANGED <<list, message, worker>>, OwnerBound' PROVE Bounds'
  <2>1. \A w \in Workers : WorkerBound(w)'
    BY <1>1, MappingsKept, OtherBound
  <2> QED BY <1>1, <2>1 DEF Bounds, ListBound, MessageBound
<1>2. CASE OwnerAsks
  <2>1. UNCHANGED <<list, message, worker>> /\ OwnerBound'
    BY <1>2 DEF OwnerAsks, AskMatch, AskMapping, Ask, data, OwnerBound
  <2> QED BY <1>1, <2>1
<1>3. CASE \E l \in Lists : \E i \in Rows[l] : DecideReview(l, i)
  <2>1. UNCHANGED <<list, message, worker, owner>>
    BY <1>3 DEF DecideReview
  <2> QED BY <1>1, <2>1 DEF Bounds, OwnerBound
<1>4. CASE OwnerWrites /\ DecideMatch
  <2>1. UNCHANGED <<list, message, worker>> /\ owner' = Null
    BY <1>4 DEF OwnerWrites, DecideMatch
  <2> QED BY <1>1, <2>1 DEF OwnerBound
<1>5. CASE OwnerWrites /\ ConfirmMapping
  <2>1. /\ owner' = Null /\ UNCHANGED <<message, worker>>
        /\ owner \in MappingRequest /\ list \in [Lists -> ListRow]
        /\ owner # Null /\ owner.kind = "mapping"
    BY <1>5 DEF OwnerWrites, ConfirmMapping, Inv, Shape, MatchRequest
  <2>0. PICK l \in Lists : l = owner.list
    BY <2>1 DEF MappingRequest
  <2>2. /\ list[l] \in ListRow /\ list[l].mapping < MaxMapping /\ ListBound(l)
    BY <2>0, <2>1 DEF Bounds, OwnerBound
  <2>3. /\ list'[l].mapping = list[l].mapping + 1 /\ list'[l].rows = list[l].rows
        /\ list'[l].errors = list[l].errors
        /\ list'[l].status \in {list[l].status, "mapping_confirmed"}
        /\ \A k \in Lists \ {l} : list'[k] = list[k]
    BY <1>5, <2>0, <2>1, <2>2 DEF ConfirmMapping, ListRow
  <2>4. \A k \in Lists : list[k].mapping \in Nat
    BY <2>1 DEF ListRow
  <2>5. \A k \in Lists : list'[k].mapping \in Nat /\ list[k].mapping <= list'[k].mapping
    BY <2>2, <2>3, <2>4
  <2>6. \A w \in Workers : WorkerBound(w)'
    BY <2>1, <2>5, OtherBound
  <2>7. ListBound(l)'
    <3>1. list'[l].mapping \in 1..MaxMapping /\ list'[l].mapping = list[l].mapping + 1
      BY <2>2, <2>3, <2>4, BoundsAssumption
    <3>2. list'[l].rows \in 1..list'[l].mapping \cup {Null}
      <4>1. list[l].mapping \in Nat /\ list[l].rows \in 1..list[l].mapping \cup {Null}
        BY <2>2, <2>4 DEF ListBound
      <4>2. \A n \in Nat : 1..n \subseteq 1..(n + 1)
        OBVIOUS
      <4>3. 1..list[l].mapping \subseteq 1..(list[l].mapping + 1)
        BY <4>1, <4>2
      <4> QED BY <2>3, <4>1, <4>3
    <3>3. list'[l].status = "partial" => list'[l].errors # 0
      BY <2>2, <2>3 DEF ListBound
    <3> QED BY <2>2, <2>3, <3>1, <3>2, <3>3 DEF ListBound
  <2>8. \A k \in Lists \ {l} : ListBound(k)'
    BY <2>3 DEF Bounds, ListBound
  <2>9. OwnerBound'
    BY <2>1 DEF OwnerBound
  <2>10. \A m \in Messages : MessageBound(m)'
    BY <2>1 DEF Bounds, MessageBound
  <2> QED BY <2>6, <2>7, <2>8, <2>9, <2>10 DEF Bounds
<1> QED BY <1>2, <1>3, <1>4, <1>5 DEF OwnerWrites

LEMMA BoundsStep == ASSUME Inv, Bounds, [Next]_vars PROVE Bounds'
<1>1. ASSUME NEW w \in Workers, WorkerStep(w) PROVE Bounds'
  BY <1>1, ReceiveBounds, ApplyNormalizationBounds, ReadMatchBounds, InRowBounds, CommitBounds,
     LeaveBounds DEF WorkerStep, Work
<1>2. ASSUME UNCHANGED vars PROVE Bounds'
  BY <1>2 DEF Bounds, WorkerBound, Open, ListBound, MessageBound, OwnerBound, vars
<1> QED BY <1>1, <1>2, QueueBounds, OwnerBounds DEF Next

\* What is committed, in flight and locked has its form and stays in its bounds: a
\* pass never counts more errors than its list has rows, a message is never received
\* more often than the redrive policy says, a list that shows PARTIAL shows at least
\* one error row and none is seen PROCESSING, and a list never shows rows of a
\* mapping that nobody confirmed.
THEOREM RunTypes == Spec => []TypeOK
<1>1. Inv /\ Bounds => TypeOK
  <2> SUFFICES ASSUME Inv, Bounds PROVE TypeOK
    OBVIOUS
  <2>1. ASSUME NEW l \in Lists
        PROVE  /\ list[l].status \in {"mapping_confirmed", "completed", "partial"}
               /\ list[l].mapping \in 1..MaxMapping
               /\ list[l].rows \in 1..list[l].mapping \cup {Null}
               /\ list[l].status = "partial" => list[l].errors \in 1..Cardinality(Rows[l])
               /\ review[l] \in [Rows[l] -> ReviewStatus \cup {Null}]
    <3>1. list[l] \in ListRow /\ ListBound(l) /\ review[l] \in Entries(l)
      BY DEF Inv, Shape, Bounds
    <3> QED BY <3>1, RowsFinite DEF ListRow, ListBound, Entries
  <2>2. ASSUME NEW w \in Workers PROVE worker[w] \in WorkerType
    <3>1. worker[w] \in WorkerRow /\ WorkerBound(w) /\ WorkerOK(w)
      BY DEF Inv, Shape, Bounds
    <3>2. worker[w].errors \in 0..Cardinality(Items)
      <4>1. CASE worker[w].pc \in PassState
        <5>1. /\ worker[w].list \in Lists /\ worker[w].todo \subseteq Rows[worker[w].list]
              /\ worker[w].errors \in Nat
          BY <3>1, <4>1 DEF WorkerOK, Working, WorkerRow
        <5>2. Cardinality(worker[w].todo) \in Nat
          BY <5>1, RowsFinite, FS_Subset, FS_CardinalityType
        <5>3. Open(w) \in Nat
          BY <5>2 DEF Open
        <5>4. worker[w].errors + Open(w) <= Cardinality(Rows[worker[w].list])
          BY <3>1, <4>1 DEF WorkerBound
        <5> QED BY <5>1, <5>3, <5>4, RowsFinite
      <4>2. CASE worker[w].pc \notin PassState
        BY <3>1, <4>2, ItemsAssumption, FS_CardinalityType DEF WorkerBound
      <4> QED BY <4>1, <4>2
    <3>3. worker[w].loaded \in [mapping : 1..MaxMapping, errors : 0..Cardinality(Items)] \cup {Null}
      <4> SUFFICES ASSUME worker[w].pc \in Working
                   PROVE  worker[w].loaded \in [mapping : 1..MaxMapping, errors : 0..Cardinality(Items)]
        BY <3>1 DEF WorkerBound
      <4>1. /\ worker[w].list \in Lists /\ worker[w].loaded \in [mapping : Nat, errors : Nat]
            /\ worker[w].loaded.mapping \in 1..list[worker[w].list].mapping
            /\ worker[w].loaded.errors <= Cardinality(Rows[worker[w].list])
        BY <3>1 DEF WorkerOK, WorkerBound
      <4>2. worker[w].loaded.mapping \in 1..MaxMapping
        BY <4>1, <2>1, BoundsAssumption
      <4>3. worker[w].loaded.errors \in 0..Cardinality(Items)
        BY <4>1, RowsFinite
      <4> QED BY <4>1, <4>2, <4>3
    <3> QED BY <3>1, <3>2, <3>3 DEF WorkerRow, WorkerType, PassState
  <2>3. worker \in [Workers -> WorkerType]
    BY <2>2 DEF Inv, Shape
  <2>4. match \in [Items -> Match \cup {Null}]
    BY DEF Inv, Shape
  <2>5. \A m \in Messages : message[m].receives <= MaxReceives
    BY DEF Bounds, MessageBound
  <2>6. \A w \in Workers : ~InPass(w) => tx[w] = NoWrites
    BY InPassIs DEF Inv, WorkerOK
  <2> QED BY <2>1, <2>3, <2>4, <2>5, <2>6 DEF TypeOK
<1>2. Spec => []Bounds
  BY InitBounds, BoundsStep, Invariance, PTL DEF Spec
<1> QED BY <1>1, <1>2, Invariance, PTL
=============================================================================
