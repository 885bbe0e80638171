------------------------ MODULE ApprovalSessionsProofs ------------------------
(***************************************************************************)
(* What the unique index, the row locks, the conditional UPDATE and the    *)
(* order of send and record guarantee, for any number of items and of      *)
(* sessions that overlap at every statement; and, as long as transactions  *)
(* come one after the other, that each is a step of the lifecycle.         *)
(***************************************************************************)
EXTENDS ApprovalSessions, FiniteSetTheorems, TLAPS

Column == {"status", "active", "pos", "res", "notice"}
Status == {Null, "queued"} \cup ActiveStatus \cup Resolution

Busy == {"active", "apply", "queue", "flush", "send", "commit"}
Label == {"idle", "get", "done"} \cup Busy

\* Some columns of a row, and of a table.
Part(p) ==
    /\ DOMAIN p \subseteq Column
    /\ "status" \in DOMAIN p => p["status"] \in Status
    /\ "active" \in DOMAIN p => p["active"] \in BOOLEAN
    /\ "pos" \in DOMAIN p => p["pos"] \in Int \cup {Null}
    /\ "res" \in DOMAIN p => p["res"] \in Resolution \cup {Null}
    /\ "notice" \in DOMAIN p => p["notice"] \in BOOLEAN
Parts(f) == DOMAIN f \subseteq Items /\ \A i \in DOMAIN f : Part(f[i])
Has(f, i, c) == i \in DOMAIN f /\ c \in DOMAIN f[i]

Table == [Items -> Row]
Copies(f) == DOMAIN f \subseteq Items /\ \A i \in DOMAIN f : f[i] \in Row

----------------------------------------------------------------------------
(***************************************************************************)
(* Rows and parts of rows                                                  *)
(***************************************************************************)
\* A row is a part with every column.
LEMMA RowIsPart == ASSUME NEW r \in Row PROVE Part(r) /\ DOMAIN r = Column
BY DEF Part, Row, Column, Status

\* The function with one value.
LEMMA OneIs == ASSUME NEW x, NEW y PROVE DOMAIN (x :> y) = {x} /\ (x :> y)[x] = y
BY DEF :>

\* f laid over g.
LEMMA OverIs ==
    ASSUME NEW f, NEW g
    PROVE  /\ DOMAIN (f @@ g) = DOMAIN f \cup DOMAIN g
           /\ \A x \in DOMAIN f : (f @@ g)[x] = f[x]
           /\ \A x \in DOMAIN g : x \notin DOMAIN f => (f @@ g)[x] = g[x]
BY DEF @@

\* A part laid over a part is a part, and over a row a row.
LEMMA PartOver ==
    ASSUME NEW p, NEW q, Part(p), Part(q)
    PROVE  Part(p @@ q) /\ DOMAIN (p @@ q) = DOMAIN p \cup DOMAIN q
BY DEF Part, @@

\* A part laid over a row is a row.
LEMMA RowOver == ASSUME NEW p, NEW r \in Row, Part(p) PROVE p @@ r \in Row
<1>1. Part(p @@ r) /\ DOMAIN (p @@ r) = Column
  <2>1. Part(r) /\ DOMAIN r = Column
    BY RowIsPart
  <2>2. DOMAIN p \subseteq Column
    BY DEF Part
  <2>3. Part(p @@ r) /\ DOMAIN (p @@ r) = DOMAIN p \cup DOMAIN r
    BY <2>1, PartOver
  <2> QED BY <2>1, <2>2, <2>3
<1>2. p @@ r = [c \in DOMAIN (p @@ r) |-> (p @@ r)[c]]
  BY DEF @@
<1> HIDE DEF @@
<1> QED BY <1>1, <1>2 DEF Part, Row, Column, Status

\* The row a classification creates.
LEMMA NoRowIs ==
    /\ NoRow \in Row
    /\ [NoRow EXCEPT !.status = "pending", !.active = TRUE] \in Row
    /\ \A n \in Int : [NoRow EXCEPT !.status = "queued", !.pos = n] \in Row
BY DEF NoRow, Row, ActiveStatus

----------------------------------------------------------------------------
(***************************************************************************)
(* What a session reads, plans and flushes                                 *)
(***************************************************************************)
TypeInv ==
    /\ rows \in Table
    /\ pc \in [Sessions -> Label]
    /\ call \in [Sessions -> [kind : Calls \cup {"none"}, item : Items \cup {Null},
                              res : Resolution \cup {Null}]]
    /\ event \in [Sessions -> Event \cup {Null}]
    /\ log \in [Items -> Seq(Event)]
    /\ seen = [s \in Sessions |-> seen[s]] /\ \A s \in Sessions : Copies(seen[s])
    /\ plan = [s \in Sessions |-> plan[s]] /\ \A s \in Sessions : Parts(plan[s])
    /\ writes = [s \in Sessions |-> writes[s]] /\ \A s \in Sessions : Parts(writes[s])
    /\ \A s \in Open : Target(s) \in Items /\ call[s].res \in Resolution

\* The table r with the writes w over it.
ViewOf(w, r) == [i \in Items |-> IF i \in DOMAIN w THEN w[i] @@ r[i] ELSE r[i]]

\* It is a table, and each column comes from w if w has it.
LEMMA ViewOfIs ==
    ASSUME NEW w, Parts(w), NEW r \in Table
    PROVE  /\ ViewOf(w, r) \in Table
           /\ \A i \in Items, c \in Column :
                 ViewOf(w, r)[i][c] = IF Has(w, i, c) THEN w[i][c] ELSE r[i][c]
<1>1. ASSUME NEW i \in Items
      PROVE  /\ ViewOf(w, r)[i] \in Row
             /\ \A c \in Column : ViewOf(w, r)[i][c] = IF Has(w, i, c) THEN w[i][c] ELSE r[i][c]
  <2>1. r[i] \in Row /\ DOMAIN r[i] = Column
    BY RowIsPart DEF Table
  <2>2. CASE i \in DOMAIN w
    <3>1. ViewOf(w, r)[i] = w[i] @@ r[i] /\ Part(w[i])
      BY <2>2 DEF ViewOf, Parts
    <3>2. \A c \in Column : (w[i] @@ r[i])[c] = IF c \in DOMAIN w[i] THEN w[i][c] ELSE r[i][c]
      BY <2>1 DEF @@
    <3>3. ViewOf(w, r)[i] \in Row
      BY <2>1, <3>1, RowOver
    <3> QED BY <2>2, <3>1, <3>2, <3>3 DEF Has
  <2>3. CASE i \notin DOMAIN w
    BY <2>1, <2>3 DEF ViewOf, Has
  <2> QED BY <2>2, <2>3
<1>2. ViewOf(w, r) = [i \in Items |-> ViewOf(w, r)[i]]
  BY DEF ViewOf
<1> QED BY <1>1, <1>2 DEF Table

\* What a session sees is a table.
LEMMA ViewIs ==
    ASSUME TypeInv, NEW s \in Sessions
    PROVE  View(s) = ViewOf(writes[s], rows) /\ View(s) \in Table
<1>1. View(s) = ViewOf(writes[s], rows)
  BY DEF View, ViewOf
<1>2. Parts(writes[s]) /\ rows \in Table
  BY DEF TypeInv
<1> QED BY <1>1, <1>2, ViewOfIs

\* A SELECT keeps the copies the session has and adds rows of its view.
LEMMA LoadedIs ==
    ASSUME TypeInv, NEW s \in Sessions, NEW S \in SUBSET Items
    PROVE  /\ Copies(Loaded(s, S))
           /\ DOMAIN Loaded(s, S) = DOMAIN seen[s] \cup S
           /\ \A i \in DOMAIN seen[s] : Loaded(s, S)[i] = seen[s][i]
<1>1. \A i \in S : View(s)[i] \in Row
  BY ViewIs DEF Table
<1> DEFINE read == [i \in S |-> View(s)[i]]
<1>2. Loaded(s, S) = seen[s] @@ read
  BY DEF Loaded
<1>3. DOMAIN read = S /\ \A i \in S : read[i] \in Row
  BY <1>1
<1>4. DOMAIN seen[s] \subseteq Items /\ \A i \in DOMAIN seen[s] : seen[s][i] \in Row
  BY DEF TypeInv, Copies
<1> HIDE DEF read
<1>5. /\ DOMAIN Loaded(s, S) = DOMAIN seen[s] \cup S
      /\ \A i \in DOMAIN seen[s] : Loaded(s, S)[i] = seen[s][i]
      /\ \A i \in S : i \notin DOMAIN seen[s] => Loaded(s, S)[i] = read[i]
  BY <1>2, <1>3 DEF @@
<1> QED BY <1>3, <1>4, <1>5 DEF Copies

\* One row planned beside rows that only move.
LEMMA MovePlan ==
    ASSUME NEW f, Copies(f), NEW x \in Items, NEW p, Part(p), NEW S, S \subseteq DOMAIN f,
           NEW d \in Int, CanShift(f, S)
    PROVE  LET moved == (x :> p) @@ Shift(f, S, d)
           IN  /\ Parts(moved) /\ x \in DOMAIN moved /\ moved[x] = p
               /\ \A q \in DOMAIN moved : q # x => DOMAIN moved[q] = {"pos"}
<1> DEFINE moved == (x :> p) @@ Shift(f, S, d)
<1>1. DOMAIN Shift(f, S, d) = S /\ \A q \in S : Shift(f, S, d)[q] = [pos |-> f[q].pos + d]
  BY DEF Shift
<1>2. DOMAIN moved = {x} \cup S /\ moved[x] = p /\ \A q \in S : q # x => moved[q] = [pos |-> f[q].pos + d]
  <2>1. DOMAIN (x :> p) = {x} /\ (x :> p)[x] = p
    BY OneIs
  <2>2. /\ DOMAIN moved = DOMAIN (x :> p) \cup DOMAIN Shift(f, S, d)
        /\ \A z \in DOMAIN (x :> p) : moved[z] = (x :> p)[z]
        /\ \A z \in DOMAIN Shift(f, S, d) : z \notin DOMAIN (x :> p) => moved[z] = Shift(f, S, d)[z]
    BY OverIs
  <2> HIDE DEF moved
  <2> QED BY <1>1, <2>1, <2>2
<1>3. \A q \in S : f[q].pos + d \in Int
  BY DEF CanShift, Copies, Row
<1>4. \A n \in Int : Part([pos |-> n]) /\ DOMAIN [pos |-> n] = {"pos"}
  BY DEF Part, Column
<1> HIDE DEF moved
<1>5. \A q \in S : q # x => Part(moved[q]) /\ DOMAIN moved[q] = {"pos"}
  BY <1>2, <1>3, <1>4
<1> QED BY <1>2, <1>5 DEF Parts, Copies, moved

\* A flush writes the planned columns that differ from the copy, and the
\* copies become what was planned.
LEMMA FlushIs ==
    ASSUME TypeInv, NEW s \in Sessions, Flush(s)
    PROVE  /\ \A t \in Sessions \ {s} : writes'[t] = writes[t] /\ seen'[t] = seen[t] /\ plan'[t] = plan[t]
           /\ Parts(writes'[s]) /\ Copies(seen'[s]) /\ plan'[s] = Nothing
           /\ writes' = [t \in Sessions |-> writes'[t]]
           /\ seen' = [t \in Sessions |-> seen'[t]]
           /\ plan' = [t \in Sessions |-> plan'[t]]
           /\ DOMAIN writes'[s] = DOMAIN writes[s] \cup DirtyRows(s)
           /\ \A i \in Items, c \in Column :
                 /\ Has(writes[s], i, c) => Has(writes'[s], i, c)
                 /\ Has(writes'[s], i, c) =>
                       \/ /\ Has(plan[s], i, c) /\ writes'[s][i][c] = plan[s][i][c]
                          /\ i \in DirtyRows(s) /\ c \in DOMAIN Dirty(s, i)
                       \/ Has(writes[s], i, c) /\ writes'[s][i][c] = writes[s][i][c]
                 /\ Has(plan[s], i, c) /\ (i \in DOMAIN seen[s] => plan[s][i][c] # seen[s][i][c]) =>
                       Has(writes'[s], i, c) /\ writes'[s][i][c] = plan[s][i][c]
<1>1. ASSUME NEW i \in DOMAIN plan[s]
      PROVE  /\ Part(Dirty(s, i)) /\ DOMAIN Dirty(s, i) \subseteq DOMAIN plan[s][i]
             /\ \A c \in DOMAIN Dirty(s, i) : Dirty(s, i)[c] = plan[s][i][c]
             /\ \A c \in DOMAIN plan[s][i] :
                   (i \in DOMAIN seen[s] => plan[s][i][c] # seen[s][i][c]) => c \in DOMAIN Dirty(s, i)
  BY DEF Dirty, Part, TypeInv, Parts
<1> DEFINE old(i) == IF i \in DOMAIN writes[s] THEN writes[s][i] ELSE Nothing
           new == [i \in DirtyRows(s) |-> Dirty(s, i) @@ old(i)]
           fresh == [i \in DOMAIN plan[s] |->
                        plan[s][i] @@ (IF i \in DOMAIN seen[s] THEN seen[s][i] ELSE NoRow)]
<1>2. /\ writes' = [writes EXCEPT ![s] = new @@ writes[s]]
      /\ seen' = [seen EXCEPT ![s] = fresh @@ seen[s]]
      /\ plan' = [plan EXCEPT ![s] = Nothing]
  BY DEF Flush
<1>3. writes'[s] = new @@ writes[s] /\ seen'[s] = fresh @@ seen[s] /\ plan'[s] = Nothing
  BY <1>2 DEF TypeInv
<1>4. DOMAIN Nothing = {} /\ Part(Nothing)
  BY DEF Nothing, Part
<1>5. ASSUME NEW i \in DirtyRows(s)
      PROVE  /\ i \in DOMAIN plan[s] /\ i \in Items
             /\ Part(new[i]) /\ new[i] = Dirty(s, i) @@ old(i)
             /\ DOMAIN new[i] = DOMAIN Dirty(s, i) \cup DOMAIN old(i)
  <2>1. i \in DOMAIN plan[s] /\ i \in Items
    BY DEF DirtyRows, TypeInv, Parts
  <2>2. Part(old(i))
    BY <1>4 DEF TypeInv, Parts
  <2>3. new[i] = Dirty(s, i) @@ old(i)
    OBVIOUS
  <2> HIDE DEF new, old
  <2> QED BY <1>1, <2>1, <2>2, <2>3, PartOver
<1>6. DOMAIN new = DirtyRows(s) /\ DOMAIN fresh = DOMAIN plan[s]
  OBVIOUS
<1>7. \A i \in DOMAIN plan[s] : fresh[i] \in Row
  <2>1. \A i \in DOMAIN plan[s] : (IF i \in DOMAIN seen[s] THEN seen[s][i] ELSE NoRow) \in Row
    BY NoRowIs DEF TypeInv, Copies
  <2> QED BY <2>1, RowOver DEF TypeInv, Parts
<1>8. Copies(seen'[s])
  <2>1. DOMAIN fresh \subseteq Items /\ DOMAIN seen[s] \subseteq Items
    BY <1>6 DEF TypeInv, Parts, Copies
  <2>2. \A i \in DOMAIN seen[s] : seen[s][i] \in Row
    BY DEF TypeInv, Copies
  <2>3. /\ DOMAIN (fresh @@ seen[s]) = DOMAIN fresh \cup DOMAIN seen[s]
        /\ \A i \in DOMAIN fresh : (fresh @@ seen[s])[i] = fresh[i]
        /\ \A i \in DOMAIN seen[s] : i \notin DOMAIN fresh => (fresh @@ seen[s])[i] = seen[s][i]
    BY DEF @@
  <2> HIDE DEF fresh
  <2> QED BY <1>3, <1>6, <1>7, <2>1, <2>2, <2>3 DEF Copies
<1>9. /\ DOMAIN writes'[s] = DOMAIN writes[s] \cup DirtyRows(s)
      /\ \A i \in DirtyRows(s) : writes'[s][i] = new[i]
      /\ \A i \in DOMAIN writes[s] : i \notin DirtyRows(s) => writes'[s][i] = writes[s][i]
  <2>1. /\ DOMAIN (new @@ writes[s]) = DOMAIN new \cup DOMAIN writes[s]
        /\ \A i \in DOMAIN new : (new @@ writes[s])[i] = new[i]
        /\ \A i \in DOMAIN writes[s] : i \notin DOMAIN new => (new @@ writes[s])[i] = writes[s][i]
    BY OverIs
  <2> HIDE DEF new
  <2> QED BY <1>3, <1>6, <2>1
<1>10. Parts(writes'[s])
  <2> HIDE DEF new
  <2> QED BY <1>5, <1>9 DEF TypeInv, Parts
<1>11. ASSUME NEW i \in Items, NEW c \in Column
       PROVE  /\ Has(writes[s], i, c) => Has(writes'[s], i, c)
              /\ Has(writes'[s], i, c) =>
                    \/ /\ Has(plan[s], i, c) /\ writes'[s][i][c] = plan[s][i][c]
                       /\ i \in DirtyRows(s) /\ c \in DOMAIN Dirty(s, i)
                    \/ Has(writes[s], i, c) /\ writes'[s][i][c] = writes[s][i][c]
              /\ Has(plan[s], i, c) /\ (i \in DOMAIN seen[s] => plan[s][i][c] # seen[s][i][c]) =>
                    Has(writes'[s], i, c) /\ writes'[s][i][c] = plan[s][i][c]
  <2>1. CASE i \in DirtyRows(s)
    <3>1. /\ writes'[s][i] = Dirty(s, i) @@ old(i)
          /\ DOMAIN writes'[s][i] = DOMAIN Dirty(s, i) \cup DOMAIN old(i)
      BY <1>5, <1>9, <2>1
    <3>2. /\ c \in DOMAIN Dirty(s, i) => writes'[s][i][c] = plan[s][i][c]
          /\ c \in DOMAIN old(i) /\ c \notin DOMAIN Dirty(s, i) => writes'[s][i][c] = old(i)[c]
      <4> HIDE DEF old
      <4> QED BY <1>1, <1>5, <2>1, <3>1 DEF @@
    <3>3. c \in DOMAIN old(i) => Has(writes[s], i, c) /\ old(i)[c] = writes[s][i][c]
      BY <1>4 DEF Has
    <3>4. Has(writes[s], i, c) => c \in DOMAIN old(i)
      BY DEF Has
    <3>5. i \in DOMAIN writes'[s] /\ i \in DOMAIN plan[s]
      BY <1>5, <1>9, <2>1
    <3> HIDE DEF old
    <3> QED BY <1>1, <2>1, <3>1, <3>2, <3>3, <3>4, <3>5 DEF Has
  <2>2. CASE i \notin DirtyRows(s)
    <3>1. i \in DOMAIN plan[s] => DOMAIN Dirty(s, i) = {}
      BY <2>2 DEF DirtyRows
    <3> HIDE DEF new
    <3> QED BY <1>1, <1>9, <2>2, <3>1 DEF Has
  <2> QED BY <2>1, <2>2
<1>12. /\ \A t \in Sessions \ {s} : writes'[t] = writes[t] /\ seen'[t] = seen[t] /\ plan'[t] = plan[t]
       /\ writes' = [t \in Sessions |-> writes'[t]]
       /\ seen' = [t \in Sessions |-> seen'[t]]
       /\ plan' = [t \in Sessions |-> plan'[t]]
  <2> HIDE DEF new, fresh
  <2> QED BY <1>2 DEF TypeInv
<1> HIDE DEF new, fresh, old
<1> QED BY <1>3, <1>8, <1>9, <1>10, <1>11, <1>12

----------------------------------------------------------------------------
(***************************************************************************)
(* The inductive invariant                                                 *)
(***************************************************************************)
\* A session holds no writes before its first statement that assigns; one that
\* goes on to the next row it creates may.
Untouched(s) ==
    \/ pc[s] \in {"idle", "done"} \/ At(s, "resolve", "active")
    \/ pc[s] = "get" /\ call[s].kind # "create"
Unwritten == \A s \in Sessions : Untouched(s) => DOMAIN plan[s] = {} /\ DOMAIN writes[s] = {}

\* Creating a row logs nothing.
Silent == \A s \in Sessions : pc[s] = "idle" \/ call[s].kind = "create" => event[s] = Null

\* A row is locked by one session.
Locks == \A s, t \in Sessions : s # t => DOMAIN writes[s] \cap DOMAIN writes[t] = {}

Gives(f, i) == Has(f, i, "active") /\ f[i]["active"] = TRUE
Approves(f, i) == Has(f, i, "status") /\ f[i]["status"] = "approved"
Notes(f, i) == Has(f, i, "notice") /\ f[i]["notice"] = TRUE

\* What session s, with the event e, assigns or has written: an approval only
\* of its own item, with the event to match, and a notice only of what has
\* been announced.
Justified(f, e, item, sent) ==
    \A i \in Items : /\ Approves(f, i) => e = "approved" /\ i = item
                     /\ Notes(f, i) => i \in sent
OneGiven(f) == \A i, j \in Items : Gives(f, i) /\ Gives(f, j) => i = j

Plans == \A s \in Sessions :
            OneGiven(plan[s]) /\ Justified(plan[s], event[s], Target(s), announced)
Writes == \A s \in Sessions : Justified(writes[s], event[s], Target(s), announced)

\* At most one flag in the table, in each session's view of it, and in the
\* views that the open transactions will make of it.
One(table) == \A i, j \in Items : table[i]["active"] = TRUE /\ table[j]["active"] = TRUE => i = j
Apart == \A s, t \in Sessions, i, j \in Items :
            s # t /\ Gives(writes[s], i) => ~Has(writes[t], j, "active") \/ ~Gives(writes[t], j)
Flags == One(rows) /\ (\A s \in Sessions : One(View(s))) /\ Apart

\* A revocation that its UPDATE let through: the row is still the approved one
\* it locked, until the session writes another status over it.
Revoking(s) ==
    LET i == Target(s)
    IN  event[s] = "revoked" =>
            /\ call[s].kind = "revoke" /\ pc[s] \in {"active", "queue", "flush", "commit"}
            /\ i \in DOMAIN writes[s] /\ rows[i]["status"] = "approved"
            /\ pc[s] # "commit" => i \in DOMAIN seen[s] /\ seen[s][i]["status"] = "approved"
            /\ pc[s] = "flush" => Has(plan[s], i, "status") /\ plan[s][i]["status"] # "approved"
            /\ pc[s] = "commit" => Has(writes[s], i, "status") /\ writes[s][i]["status"] # "approved"

\* An approved row has been approved since its last revocation.
Unrevoked(l) ==
    \A k \in 1..Len(l) : l[k] = "revoked" => \E n \in k..Len(l) : l[n] = "approved"
Logged == \A i \in Items : rows[i]["status"] = "approved" => Unrevoked(log[i])

IInv ==
    /\ TypeInv /\ Unwritten /\ Silent /\ Locks /\ Plans /\ Writes /\ Flags /\ Logged
    /\ RevokedOnce /\ NoticeNotSkipped
    /\ \A s \in Sessions : Revoking(s)

----------------------------------------------------------------------------
(***************************************************************************)
(* The statements that read and assign                                     *)
(***************************************************************************)
\* What such a statement of s does.
Reads(s) ==
    /\ UNCHANGED <<rows, log, call, writes>> /\ announced \subseteq announced'
    /\ pc[s] \in Busy \cup {"get"}
    /\ \E label \in Busy : pc' = [pc EXCEPT ![s] = label]
    /\ Untouched(s)' => Untouched(s)
    /\ \E e \in Event \cup {Null} :
          /\ event' = [event EXCEPT ![s] = e]
          /\ e = event[s] \/ (Untouched(s) /\ e # "revoked" /\ call[s].kind = "resolve")
    /\ \E f : /\ Copies(f) /\ seen' = [seen EXCEPT ![s] = f]
              /\ DOMAIN seen[s] \subseteq DOMAIN f
              /\ \A i \in DOMAIN seen[s] : f[i] = seen[s][i]
    /\ \E f : /\ Parts(f) /\ plan' = [plan EXCEPT ![s] = f]
              /\ \/ f = plan[s]
                 \/ ~Untouched(s)' /\ OneGiven(f) /\ Justified(f, event'[s], Target(s), announced')

Reader(s) ==
    \/ ResolveGet(s) \/ ResolveCompare(s) \/ ResolveAdvance(s)
    \/ RevokeCompare(s) \/ RevokeToFront(s)
    \/ CreateCompare(s) \/ CreateInsert(s)
    \/ ReorderGet(s) \/ ReorderMove(s)
    \/ RemindRead(s) \/ RemindSend(s) \/ RemindFail(s)

\* Only one row of a plan has more than its position assigned.
LEMMA OnePlanned ==
    ASSUME NEW f, NEW x \in Items, NEW e, NEW item, NEW sent,
           \A q \in DOMAIN f : q # x => DOMAIN f[q] = {"pos"},
           Approves(f, x) => e = "approved" /\ x = item,
           Notes(f, x) => x \in sent
    PROVE  OneGiven(f) /\ Justified(f, e, item, sent)
BY DEF OneGiven, Justified, Gives, Approves, Notes, Has

\* A statement that assigns nothing, and may log e.
LEMMA ReadsOnly ==
    ASSUME TypeInv, NEW s \in Sessions, NEW label \in Busy, NEW S \in SUBSET Items,
           pc[s] \in Busy \cup {"get"}, Select(s, S), Goto(s, label),
           UNCHANGED <<rows, log, call, writes, plan>>, announced \subseteq announced',
           Untouched(s)' => Untouched(s),
           NEW e \in Event \cup {Null}, event' = [event EXCEPT ![s] = e],
           e = event[s] \/ (Untouched(s) /\ e # "revoked" /\ call[s].kind = "resolve")
    PROVE  Reads(s)
<1>1. Copies(Loaded(s, S)) /\ seen' = [seen EXCEPT ![s] = Loaded(s, S)]
      /\ DOMAIN seen[s] \subseteq DOMAIN Loaded(s, S)
      /\ \A i \in DOMAIN seen[s] : Loaded(s, S)[i] = seen[s][i]
  BY LoadedIs DEF Select
<1>2. Parts(plan[s]) /\ plan' = [plan EXCEPT ![s] = plan[s]]
  BY DEF TypeInv
<1>3. pc' = [pc EXCEPT ![s] = label]
  BY DEF Goto
<1> QED BY <1>1, <1>2, <1>3 DEF Reads

\* A statement that assigns f, and may log e.
LEMMA ReadsAndAssigns ==
    ASSUME TypeInv, NEW s \in Sessions, NEW label \in Busy, NEW S \in SUBSET Items,
           pc[s] \in Busy \cup {"get"}, Select(s, S), Goto(s, label),
           UNCHANGED <<rows, log, call, writes>>, announced \subseteq announced',
           label # "active",
           NEW e \in Event \cup {Null}, event' = [event EXCEPT ![s] = e],
           e = event[s] \/ (Untouched(s) /\ e # "revoked" /\ call[s].kind = "resolve"),
           NEW f, Parts(f), Assign(s, f), OneGiven(f), Justified(f, e, Target(s), announced')
    PROVE  Reads(s)
<1>1. Copies(Loaded(s, S)) /\ seen' = [seen EXCEPT ![s] = Loaded(s, S)]
      /\ DOMAIN seen[s] \subseteq DOMAIN Loaded(s, S)
      /\ \A i \in DOMAIN seen[s] : Loaded(s, S)[i] = seen[s][i]
  BY LoadedIs DEF Select
<1>2. plan' = [plan EXCEPT ![s] = f] /\ event'[s] = e
  BY DEF Assign, TypeInv
<1>3. pc' = [pc EXCEPT ![s] = label]
  BY DEF Goto
<1>4. ~Untouched(s)'
  BY <1>3 DEF Untouched, At, Busy, TypeInv
<1> QED BY <1>1, <1>2, <1>3, <1>4 DEF Reads

\* The same event, when the action does not log one.
LEMMA EventStays ==
    ASSUME TypeInv, NEW s \in Sessions, UNCHANGED event
    PROVE  event[s] \in Event \cup {Null} /\ event' = [event EXCEPT ![s] = event[s]]
BY DEF TypeInv

\* The rows that the queries return, and the row a call names.
LEMMA Tables ==
    ASSUME TypeInv, NEW s \in Sessions
    PROVE  /\ ActiveIn(View(s)) \subseteq Items /\ QueuedIn(View(s)) \subseteq Items
           /\ FrontOf(View(s)) \subseteq QueuedIn(View(s))
           /\ s \in Open => Target(s) \in Items /\ call[s].res \in Resolution
           /\ pc[s] \notin {"idle", "done"} => s \in Open
BY DEF ActiveIn, QueuedIn, FrontOf, TypeInv, Open

\* A statement that assigns p to one row and moves others.
LEMMA MoveReads ==
    ASSUME TypeInv, NEW s \in Sessions, pc[s] = "queue", Select(s, QueuedIn(View(s))),
           Goto(s, "flush"), UNCHANGED <<rows, log, call, writes, event>>,
           announced' = announced,
           NEW x \in Items, NEW p, Part(p),
           "status" \in DOMAIN p => p.status # "approved", "notice" \in DOMAIN p => p.notice = FALSE,
           NEW S, S \subseteq QueuedIn(View(s)), NEW d \in Int,
           CanShift(Loaded(s, QueuedIn(View(s))), S),
           Assign(s, (x :> p) @@ Shift(Loaded(s, QueuedIn(View(s))), S, d))
    PROVE  /\ Reads(s) /\ x \in DOMAIN plan'[s] /\ plan'[s][x] = p
<1> DEFINE queued == QueuedIn(View(s))
           loaded == Loaded(s, queued)
           f == (x :> p) @@ Shift(loaded, S, d)
<1>1. queued \in SUBSET Items
  BY Tables
<1>2. Copies(loaded) /\ S \subseteq DOMAIN loaded
  BY <1>1, LoadedIs
<1>3. CanShift(loaded, S) /\ Assign(s, f) /\ Select(s, queued)
  OBVIOUS
<1> HIDE DEF queued, loaded
<1>4. /\ Parts(f) /\ x \in DOMAIN f /\ f[x] = p
      /\ \A q \in DOMAIN f : q # x => DOMAIN f[q] = {"pos"}
  BY <1>2, <1>3, MovePlan
<1> HIDE DEF f
<1>5. ~Approves(f, x) /\ ~Notes(f, x)
  BY <1>4 DEF Approves, Notes, Has
<1>6. OneGiven(f) /\ Justified(f, event[s], Target(s), announced')
  BY <1>4, <1>5, OnePlanned
<1>7. Reads(s)
  BY <1>1, <1>3, <1>4, <1>6, EventStays, ReadsAndAssigns DEF Busy
<1>8. plan'[s] = f
  BY <1>3 DEF Assign, TypeInv
<1> QED BY <1>4, <1>7, <1>8

\* The statements of each call that read and assign.
LEMMA ResolveReads ==
    ASSUME TypeInv, NEW s \in Sessions, ResolveGet(s) \/ ResolveCompare(s) \/ ResolveAdvance(s)
    PROVE  Reads(s)
<1> DEFINE i == Target(s)
           r == call[s].res
<1>1. CASE ResolveGet(s)
  <2>1. Untouched(s) /\ pc[s] = "get" /\ i \in Items
    BY <1>1, Tables DEF ResolveGet, At, Untouched
  <2> QED BY <1>1, <2>1, EventStays, ReadsOnly DEF ResolveGet, Shared, Busy
<1>2. CASE ResolveCompare(s)
  <2> DEFINE f == i :> [res |-> r, status |-> r, active |-> FALSE]
             a == ActiveIn(View(s))
             e == IF i \in a \/ seen[s][i].res = r THEN r ELSE "rejected"
  <2>1. Untouched(s) /\ pc[s] = "active" /\ call[s].kind = "resolve"
    BY <1>2 DEF ResolveCompare, At, Untouched
  <2>2. i \in Items /\ r \in Resolution /\ a \in SUBSET Items
    BY <2>1, Tables
  <2>3. e \in Event \cup {Null} /\ e # "revoked" /\ event' = [event EXCEPT ![s] = e]
    BY <1>2, <2>2 DEF ResolveCompare, Log, Event, Resolution
  <2>4. CASE i \in a
    <3>1. DOMAIN f = {i} /\ f[i] = [res |-> r, status |-> r, active |-> FALSE]
      BY OneIs
    <3>2. Part([res |-> r, status |-> r, active |-> FALSE])
      BY <2>2 DEF Part, Column, Status
    <3>3. Parts(f)
      <4> HIDE DEF f
      <4> QED BY <2>2, <3>1, <3>2 DEF Parts
    <3>4. OneGiven(f) /\ Justified(f, e, i, announced')
      <4>1. (Approves(f, i) => e = "approved") /\ ~Notes(f, i)
        <5> HIDE DEF f
        <5> QED BY <2>4, <3>1 DEF Approves, Notes, Has
      <4> HIDE DEF f, e
      <4> QED BY <2>2, <3>1, <4>1, OnePlanned
    <3>5. Select(s, a) /\ Goto(s, "apply") /\ Assign(s, f)
          /\ UNCHANGED <<rows, log, call, writes>> /\ announced' = announced
      BY <1>2, <2>4 DEF ResolveCompare, Shared
    <3> HIDE DEF f, e, a
    <3> QED BY <2>1, <2>2, <2>3, <3>3, <3>4, <3>5, ReadsAndAssigns DEF Busy
  <2>5. CASE i \notin a
    <3>1. Select(s, a) /\ Goto(s, "commit") /\ announced' = announced
          /\ UNCHANGED <<rows, log, call, writes, plan>>
      BY <1>2, <2>5 DEF ResolveCompare, Shared
    <3> HIDE DEF f, e, a
    <3> QED BY <2>1, <2>2, <2>3, <3>1, ReadsOnly DEF Busy
  <2> QED BY <2>4, <2>5
<1>3. CASE ResolveAdvance(s)
  <2> DEFINE queued == QueuedIn(View(s))
  <2>1. /\ pc[s] = "queue" /\ Select(s, queued) /\ queued \in SUBSET Items
        /\ UNCHANGED <<rows, log, call, writes, event>> /\ announced' = announced
    BY <1>3, Tables DEF ResolveAdvance, At, Shared
  <2>2. CASE queued = {}
    <3>1. Goto(s, "commit") /\ UNCHANGED plan
      BY <1>3, <2>2 DEF ResolveAdvance
    <3>2. Untouched(s)' => Untouched(s)
      BY <3>1 DEF Goto, Untouched, At, TypeInv
    <3> QED BY <2>1, <3>1, <3>2, EventStays, ReadsOnly DEF Busy
  <2>3. CASE queued # {}
    <3> DEFINE p == [status |-> "pending", active |-> TRUE, pos |-> Null]
    <3>1. PICK n \in FrontOf(View(s)) :
             /\ CanShift(Loaded(s, queued), queued \ {n})
             /\ Assign(s, (n :> p) @@ Shift(Loaded(s, queued), queued \ {n}, -1))
      BY <1>3, <2>3 DEF ResolveAdvance
    <3>2. Goto(s, "flush")
      BY <1>3, <2>3 DEF ResolveAdvance
    <3>3. n \in Items /\ queued \ {n} \subseteq queued /\ -1 \in Int
      BY <2>1, Tables
    <3>4. Part(p) /\ p.status # "approved" /\ "notice" \notin DOMAIN p
      BY DEF Part, Column, Status, ActiveStatus
    <3> HIDE DEF p
    <3> QED BY <2>1, <3>1, <3>2, <3>3, <3>4, MoveReads
  <2> QED BY <2>2, <2>3
<1> QED BY <1>1, <1>2, <1>3

\* A plan of one row.
LEMMA OnePlan ==
    ASSUME NEW x \in Items, NEW p, Part(p), NEW e, NEW item, NEW sent,
           "status" \in DOMAIN p => p.status # "approved",
           "notice" \in DOMAIN p => p.notice = FALSE \/ x \in sent
    PROVE  /\ Parts(x :> p) /\ DOMAIN (x :> p) = {x} /\ (x :> p)[x] = p
           /\ OneGiven(x :> p) /\ Justified(x :> p, e, item, sent)
<1> DEFINE f == x :> p
<1>1. DOMAIN f = {x} /\ f[x] = p
  BY OneIs
<1> HIDE DEF f
<1>2. ~Approves(f, x) /\ (Notes(f, x) => x \in sent)
  BY <1>1 DEF Approves, Notes, Has
<1>3. \A q \in DOMAIN f : q # x => DOMAIN f[q] = {"pos"}
  BY <1>1
<1>4. OneGiven(f) /\ Justified(f, e, item, sent)
  BY <1>2, <1>3, OnePlanned
<1>5. Parts(f)
  BY <1>1 DEF Parts
<1> QED BY <1>1, <1>4, <1>5 DEF f

\* A statement that assigns p to one row.
LEMMA OneReads ==
    ASSUME TypeInv, NEW s \in Sessions, pc[s] \in Busy \cup {"get"}, NEW S \in SUBSET Items,
           Select(s, S), Goto(s, "flush"), UNCHANGED <<rows, log, call, writes, event>>,
           announced' = announced, NEW x \in Items, NEW p, Part(p), Assign(s, x :> p),
           "status" \in DOMAIN p => p.status # "approved",
           "notice" \in DOMAIN p => p.notice = FALSE
    PROVE  Reads(s) /\ x \in DOMAIN plan'[s] /\ plan'[s][x] = p
<1> DEFINE f == x :> p
<1>1. /\ Parts(f) /\ DOMAIN f = {x} /\ f[x] = p
      /\ OneGiven(f) /\ Justified(f, event[s], Target(s), announced')
  BY OnePlan
<1>2. Assign(s, f)
  OBVIOUS
<1> HIDE DEF f
<1>3. Reads(s)
  BY <1>1, <1>2, EventStays, ReadsAndAssigns DEF Busy
<1>4. plan'[s] = f
  BY <1>2 DEF Assign, TypeInv
<1> QED BY <1>1, <1>3, <1>4

\* A statement that assigns nothing and logs nothing.
LEMMA PlainReads ==
    ASSUME TypeInv, NEW s \in Sessions, pc[s] \in Busy \cup {"get"}, NEW S \in SUBSET Items,
           Select(s, S), NEW label \in Busy, Goto(s, label), label # "active",
           UNCHANGED <<rows, log, call, writes, event, plan>>, announced' = announced
    PROVE  Reads(s)
<1>1. ~Untouched(s)'
  BY DEF Goto, Untouched, At, Busy, TypeInv
<1> QED BY <1>1, EventStays, ReadsOnly

\* A revocation keeps its row approved in the table and in the session's copy,
\* and goes to the flush with another status planned for it.
LEMMA RevokeReads ==
    ASSUME TypeInv, NEW s \in Sessions, RevokeCompare(s) \/ RevokeToFront(s)
    PROVE  /\ Reads(s) /\ call[s].kind = "revoke" /\ pc[s] \in {"active", "queue"}
           /\ \/ pc'[s] = "queue"
              \/ /\ pc'[s] = "flush" /\ Has(plan'[s], Target(s), "status")
                 /\ plan'[s][Target(s)]["status"] # "approved"
<1>1. CASE RevokeCompare(s)
  <2> DEFINE active == ActiveIn(View(s))
             p == [status |-> "pending", active |-> TRUE, pos |-> Null]
  <2>1. /\ pc[s] = "active" /\ call[s].kind = "revoke" /\ Select(s, active) /\ active \in SUBSET Items
        /\ UNCHANGED <<rows, log, call, writes, event>> /\ announced' = announced
        /\ Target(s) \in Items
    BY <1>1, Tables DEF RevokeCompare, At, Shared
  <2>2. CASE active = {}
    <3>1. Assign(s, Target(s) :> p) /\ Goto(s, "flush")
      BY <1>1, <2>2 DEF RevokeCompare
    <3>2. Part(p) /\ "status" \in DOMAIN p /\ p.status # "approved" /\ "notice" \notin DOMAIN p
      BY DEF Part, Column, Status, ActiveStatus
    <3>3. pc'[s] = "flush"
      BY <3>1 DEF Goto, TypeInv
    <3> HIDE DEF p, active
    <3>4. Reads(s) /\ Target(s) \in DOMAIN plan'[s] /\ plan'[s][Target(s)] = p
      BY <2>1, <3>1, <3>2, OneReads DEF Busy
    <3> QED BY <2>1, <3>2, <3>3, <3>4 DEF Has
  <2>3. CASE active # {}
    <3>1. Goto(s, "queue") /\ UNCHANGED plan
      BY <1>1, <2>3 DEF RevokeCompare
    <3>2. pc'[s] = "queue"
      BY <3>1 DEF Goto, TypeInv
    <3> HIDE DEF p, active
    <3> QED BY <2>1, <3>1, <3>2, PlainReads DEF Busy
  <2> QED BY <2>2, <2>3
<1>2. CASE RevokeToFront(s)
  <2> DEFINE queued == QueuedIn(View(s))
             p == [status |-> "queued", active |-> FALSE, pos |-> 1]
  <2>1. /\ pc[s] = "queue" /\ call[s].kind = "revoke" /\ Select(s, queued)
        /\ UNCHANGED <<rows, log, call, writes, event>> /\ announced' = announced
        /\ CanShift(Loaded(s, queued), queued) /\ Goto(s, "flush")
        /\ Assign(s, (Target(s) :> p) @@ Shift(Loaded(s, queued), queued, 1))
    BY <1>2 DEF RevokeToFront, At, Shared
  <2>2. Target(s) \in Items /\ queued \subseteq queued /\ 1 \in Int
    BY <2>1, Tables
  <2>3. Part(p) /\ "status" \in DOMAIN p /\ p.status # "approved" /\ "notice" \notin DOMAIN p
    BY DEF Part, Column, Status
  <2>4. pc'[s] = "flush"
    BY <2>1 DEF Goto, TypeInv
  <2> HIDE DEF p
  <2>5. Reads(s) /\ Target(s) \in DOMAIN plan'[s] /\ plan'[s][Target(s)] = p
    BY <2>1, <2>2, <2>3, MoveReads
  <2> QED BY <2>1, <2>3, <2>4, <2>5 DEF Has
<1> QED BY <1>1, <1>2

\* A new row has no decision and no notice.
LEMMA CreateReads ==
    ASSUME TypeInv, NEW s \in Sessions, CreateCompare(s) \/ CreateInsert(s)
    PROVE  Reads(s) /\ call[s].kind = "create"
<1>1. CASE CreateCompare(s)
  <2> DEFINE active == ActiveIn(View(s))
             p == [NoRow EXCEPT !.status = "pending", !.active = TRUE]
  <2>1. /\ pc[s] = "get" /\ call[s].kind = "create" /\ Select(s, active) /\ active \in SUBSET Items
        /\ UNCHANGED <<rows, log, call, writes, event>> /\ announced' = announced
        /\ Target(s) \in Items
    BY <1>1, Tables DEF CreateCompare, At, Shared
  <2>2. CASE active = {}
    <3>1. Assign(s, Target(s) :> p) /\ Goto(s, "flush")
      BY <1>1, <2>2 DEF CreateCompare
    <3>2. Part(p) /\ p.status # "approved" /\ p.notice = FALSE
      BY NoRowIs, RowIsPart DEF NoRow
    <3> HIDE DEF p, active
    <3> QED BY <2>1, <3>1, <3>2, OneReads DEF Busy
  <2>3. CASE active # {}
    <3>1. Goto(s, "queue") /\ UNCHANGED plan
      BY <1>1, <2>3 DEF CreateCompare
    <3> HIDE DEF p, active
    <3> QED BY <2>1, <3>1, PlainReads DEF Busy
  <2> QED BY <2>2, <2>3
<1>2. CASE CreateInsert(s)
  <2> DEFINE queued == QueuedIn(View(s))
             p(n) == [NoRow EXCEPT !.status = "queued", !.pos = n]
  <2>1. PICK P \in SUBSET queued :
           /\ CanShift(Loaded(s, queued), queued \ P)
           /\ Assign(s, (Target(s) :> p(Cardinality(P) + 1)) @@ Shift(Loaded(s, queued), queued \ P, 1))
    BY <1>2 DEF CreateInsert
  <2>2. /\ pc[s] = "queue" /\ call[s].kind = "create" /\ Select(s, queued) /\ Goto(s, "flush")
        /\ UNCHANGED <<rows, log, call, writes, event>> /\ announced' = announced
    BY <1>2 DEF CreateInsert, At, Shared
  <2>3. Target(s) \in Items /\ queued \ P \subseteq queued /\ 1 \in Int
    BY <2>2, Tables
  <2>4. Cardinality(P) + 1 \in Int
    <3>1. queued \subseteq Items
      BY Tables
    <3>2. IsFiniteSet(P)
      BY <3>1, FS_Subset, ItemsAssumption
    <3> QED BY <3>2, FS_CardinalityType
  <2> DEFINE new == p(Cardinality(P) + 1)
  <2>5. Part(new) /\ new.status # "approved" /\ new.notice = FALSE
    BY <2>4, NoRowIs, RowIsPart DEF NoRow
  <2>6. Assign(s, (Target(s) :> new) @@ Shift(Loaded(s, queued), queued \ P, 1))
    BY <2>1
  <2> HIDE DEF p, new
  <2> QED BY <2>1, <2>2, <2>3, <2>5, <2>6, MoveReads
<1> QED BY <1>1, <1>2

\* A reorder assigns positions only.
LEMMA ReorderReads ==
    ASSUME TypeInv, NEW s \in Sessions, ReorderGet(s) \/ ReorderMove(s)
    PROVE  Reads(s) /\ call[s].kind = "reorder"
<1>1. CASE ReorderGet(s)
  <2> DEFINE label == IF View(s)[Target(s)].status = "queued" THEN "queue" ELSE "commit"
  <2>1. /\ pc[s] = "get" /\ call[s].kind = "reorder" /\ Select(s, {Target(s)}) /\ Goto(s, label)
        /\ UNCHANGED <<rows, log, call, writes, event, plan>> /\ announced' = announced
        /\ {Target(s)} \in SUBSET Items
    BY <1>1, Tables DEF ReorderGet, At, Shared
  <2>2. label \in Busy /\ label # "active"
    BY DEF Busy
  <2> HIDE DEF label
  <2> QED BY <2>1, <2>2, PlainReads
<1>2. CASE ReorderMove(s)
  <2> DEFINE queued == QueuedIn(View(s))
             p == [pos |-> 1]
  <2>1. /\ pc[s] = "queue" /\ call[s].kind = "reorder" /\ Select(s, queued) /\ queued \in SUBSET Items
        /\ UNCHANGED <<rows, log, call, writes, event>> /\ announced' = announced
        /\ Target(s) \in Items
    BY <1>2, Tables DEF ReorderMove, At, Shared
  <2>2. CASE Target(s) \in queued
    <3>1. /\ CanShift(Loaded(s, queued), queued \ {Target(s)}) /\ Goto(s, "flush")
          /\ Assign(s, (Target(s) :> p) @@ Shift(Loaded(s, queued), queued \ {Target(s)}, 1))
      BY <1>2, <2>2 DEF ReorderMove
    <3>2. Part(p) /\ ("status" \in DOMAIN p => p.status # "approved")
          /\ ("notice" \in DOMAIN p => p.notice = FALSE)
      BY DEF Part, Column
    <3>3. queued \ {Target(s)} \subseteq queued /\ 1 \in Int
      OBVIOUS
    <3> HIDE DEF p
    <3>4. Reads(s)
      BY <2>1, <3>1, <3>2, <3>3, MoveReads
    <3> QED BY <2>1, <3>4
  <2>3. CASE Target(s) \notin queued
    <3>1. Goto(s, "commit") /\ UNCHANGED plan
      BY <1>2, <2>3 DEF ReorderMove
    <3> HIDE DEF p, queued
    <3> QED BY <2>1, <3>1, PlainReads DEF Busy
  <2> QED BY <2>2, <2>3
<1> QED BY <1>1, <1>2

\* The notice is planned by a step that has announced the item.
LEMMA RemindReads ==
    ASSUME TypeInv, NEW s \in Sessions, RemindRead(s) \/ RemindSend(s) \/ RemindFail(s)
    PROVE  Reads(s) /\ call[s].kind = "remind"
<1>1. CASE RemindRead(s)
  <2> DEFINE active == ActiveIn(View(s))
             label == IF active = {} THEN "commit" ELSE "send"
  <2>1. /\ pc[s] = "get" /\ call[s].kind = "remind" /\ Select(s, active) /\ Goto(s, label)
        /\ UNCHANGED <<rows, log, call, writes, event, plan>> /\ announced' = announced
        /\ active \in SUBSET Items
    BY <1>1, Tables DEF RemindRead, At, Shared
  <2>2. label \in Busy /\ label # "active"
    BY DEF Busy
  <2> HIDE DEF label, active
  <2> QED BY <2>1, <2>2, PlainReads
<1>2. /\ Copies(seen[s]) /\ seen = [seen EXCEPT ![s] = seen[s]]
      /\ Parts(plan[s]) /\ plan = [plan EXCEPT ![s] = plan[s]]
      /\ DOMAIN seen[s] \subseteq Items
  BY DEF TypeInv, Copies
<1>3. CASE RemindSend(s)
  <2>1. /\ pc[s] = "send" /\ call[s].kind = "remind" /\ pc' = [pc EXCEPT ![s] = "flush"]
        /\ UNCHANGED <<rows, log, call, writes, event, seen>>
    BY <1>3 DEF RemindSend, At, Goto
  <2>2. PICK i \in DOMAIN seen[s] :
           /\ Assign(s, i :> Reminded(seen[s][i]))
           /\ announced' = IF seen[s][i].notice THEN announced ELSE announced \cup {i}
    BY <1>3 DEF RemindSend
  <2>3. i \in Items /\ announced \subseteq announced'
    BY <1>2, <2>2
  <2>4. \E f : /\ Parts(f) /\ plan' = [plan EXCEPT ![s] = f]
               /\ OneGiven(f) /\ Justified(f, event[s], Target(s), announced')
    <3>1. CASE seen[s][i].notice
      <4> DEFINE p == Reminded(seen[s][i])
      <4>1. Part(p) /\ p.status # "approved" /\ "notice" \notin DOMAIN p
        BY <3>1 DEF Reminded, Part, Column, Status, ActiveStatus
      <4>2. Assign(s, i :> p)
        BY <2>2
      <4> HIDE DEF p
      <4> QED BY <2>3, <4>1, <4>2, OnePlan DEF Assign
    <3>2. CASE ~seen[s][i].notice
      <4> DEFINE p == [notice |-> TRUE]
      <4>1. Part(p) /\ "status" \notin DOMAIN p
        BY DEF Part, Column
      <4>2. Assign(s, i :> p) /\ i \in announced'
        BY <2>2, <3>2 DEF Reminded
      <4> HIDE DEF p
      <4> QED BY <2>3, <4>1, <4>2, OnePlan DEF Assign
    <3> QED BY <3>1, <3>2
  <2>5. ~Untouched(s)' /\ event'[s] = event[s]
    BY <2>1 DEF Untouched, At, TypeInv
  <2> QED BY <1>2, <2>1, <2>3, <2>4, <2>5, EventStays DEF Reads, Busy
<1>4. CASE RemindFail(s)
  <2>1. /\ pc[s] = "send" /\ call[s].kind = "remind" /\ pc' = [pc EXCEPT ![s] = "commit"]
        /\ UNCHANGED <<rows, log, call, writes, event, seen, plan>> /\ announced' = announced
    BY <1>4 DEF RemindFail, At, Goto, Shared
  <2>2. ~Untouched(s)'
    BY <2>1 DEF Untouched, At, TypeInv
  <2> QED BY <1>2, <2>1, <2>2, EventStays DEF Reads, Busy
<1> QED BY <1>1, <1>3, <1>4

\* A reading statement of a revocation keeps its row approved, in the table
\* and in the session's copy, and flushes another status.
LEMMA ReaderIs ==
    ASSUME TypeInv, NEW s \in Sessions, Reader(s)
    PROVE  /\ Reads(s)
           /\ call[s].kind = "revoke" =>
                 /\ pc[s] \in {"active", "queue"}
                 /\ \/ pc'[s] = "queue"
                    \/ /\ pc'[s] = "flush" /\ Has(plan'[s], Target(s), "status")
                       /\ plan'[s][Target(s)]["status"] # "approved"
<1>1. CASE ResolveGet(s) \/ ResolveCompare(s) \/ ResolveAdvance(s)
  <2>1. call[s].kind = "resolve"
    BY <1>1 DEF ResolveGet, ResolveCompare, ResolveAdvance, At
  <2> QED BY <1>1, <2>1, ResolveReads
<1>2. CASE RevokeCompare(s) \/ RevokeToFront(s)
  BY <1>2, RevokeReads
<1>3. CASE CreateCompare(s) \/ CreateInsert(s)
  BY <1>3, CreateReads
<1>4. CASE ReorderGet(s) \/ ReorderMove(s)
  BY <1>4, ReorderReads
<1>5. CASE RemindRead(s) \/ RemindSend(s) \/ RemindFail(s)
  BY <1>5, RemindReads
<1> QED BY <1>1, <1>2, <1>3, <1>4, <1>5 DEF Reader

----------------------------------------------------------------------------
(***************************************************************************)
(* The invariant is kept                                                   *)
(***************************************************************************)
\* Reading and assigning change nothing that another session sees.
LEMMA ReadsKeep ==
    ASSUME IInv, NEW s \in Sessions, Reads(s),
           call[s].kind = "revoke" =>
              /\ pc[s] \in {"active", "queue"}
              /\ \/ pc'[s] = "queue"
                 \/ /\ pc'[s] = "flush" /\ Has(plan'[s], Target(s), "status")
                    /\ plan'[s][Target(s)]["status"] # "approved"
    PROVE  IInv'
<1>1. TypeInv
  BY DEF IInv
<1>2. /\ rows' = rows /\ log' = log /\ call' = call /\ writes' = writes
      /\ announced \subseteq announced'
  BY DEF Reads
<1>3. PICK label \in Busy : pc' = [pc EXCEPT ![s] = label]
  BY DEF Reads
<1>4. PICK e \in Event \cup {Null} :
         /\ event' = [event EXCEPT ![s] = e]
         /\ e = event[s] \/ (Untouched(s) /\ e # "revoked" /\ call[s].kind = "resolve")
  BY DEF Reads
<1>5. PICK copies : /\ Copies(copies) /\ seen' = [seen EXCEPT ![s] = copies]
                    /\ DOMAIN seen[s] \subseteq DOMAIN copies
                    /\ \A i \in DOMAIN seen[s] : copies[i] = seen[s][i]
  BY DEF Reads
<1>6. PICK f : /\ Parts(f) /\ plan' = [plan EXCEPT ![s] = f]
               /\ \/ f = plan[s]
                  \/ ~Untouched(s)' /\ OneGiven(f) /\ Justified(f, event'[s], Target(s), announced')
  BY DEF Reads
<1>7. /\ pc'[s] = label /\ event'[s] = e /\ seen'[s] = copies /\ plan'[s] = f
      /\ pc[s] \in Busy \cup {"get"} /\ (Untouched(s)' => Untouched(s))
  BY <1>1, <1>3, <1>4, <1>5, <1>6 DEF TypeInv, Reads
<1>8. \A t \in Sessions \ {s} : pc'[t] = pc[t] /\ event'[t] = event[t] /\ seen'[t] = seen[t]
                                /\ plan'[t] = plan[t]
  BY <1>1, <1>3, <1>4, <1>5, <1>6 DEF TypeInv
<1>9. TypeInv'
  <2>1. pc' \in [Sessions -> Label]
    BY <1>1, <1>3 DEF TypeInv, Busy, Label
  <2>2. event' \in [Sessions -> Event \cup {Null}]
    BY <1>1, <1>4 DEF TypeInv
  <2>3. seen' = [t \in Sessions |-> seen'[t]] /\ \A t \in Sessions : Copies(seen'[t])
    BY <1>1, <1>5, <1>7, <1>8 DEF TypeInv
  <2>4. plan' = [t \in Sessions |-> plan'[t]] /\ \A t \in Sessions : Parts(plan'[t])
    BY <1>1, <1>6, <1>7, <1>8 DEF TypeInv
  <2>5. \A t \in Open' : t \in Open
    BY <1>7, <1>8 DEF Open, Busy
  <2>6. \A t \in Open' : call'[t].item \in Items /\ call'[t].res \in Resolution
    BY <1>1, <1>2, <2>5 DEF TypeInv, Target
  <2> QED BY <1>1, <1>2, <2>1, <2>2, <2>3, <2>4, <2>6 DEF TypeInv, Target
<1>10. Unwritten'
  <2>1. \A t \in Sessions \ {s} : Untouched(t)' => Untouched(t)
    BY <1>2, <1>8 DEF Untouched, At
  <2>2. Untouched(s)' => f = plan[s]
    BY <1>6
  <2>3. Untouched(s)' => DOMAIN f = {} /\ DOMAIN writes[s] = {}
    BY <1>7, <2>2 DEF IInv, Unwritten
  <2> QED BY <1>2, <1>7, <1>8, <2>1, <2>3 DEF IInv, Unwritten
<1>18. Silent'
  BY <1>2, <1>3, <1>4, <1>7, <1>8 DEF IInv, Silent, Busy
<1>11. Locks' /\ Flags' /\ Logged' /\ RevokedOnce' /\ NoticeNotSkipped'
  BY <1>2 DEF IInv, Locks, Flags, One, View, Apart, Gives, Has, Logged, Unrevoked, RevokedOnce,
              NoticeNotSkipped
<1>12. \A t \in Sessions : call'[t].item = call[t].item
  BY <1>2
<1>13. \A g, item : Justified(g, event[s], item, announced) /\ (Untouched(s) => DOMAIN g = {})
                    => Justified(g, e, item, announced')
  BY <1>2, <1>4 DEF Justified, Approves, Notes, Has
<1>14. \A g, d, item : Justified(g, d, item, announced) => Justified(g, d, item, announced')
  BY <1>2 DEF Justified
<1>15. Plans'
  <2>1. \A t \in Sessions \ {s} : OneGiven(plan'[t]) /\ Justified(plan'[t], event'[t], call'[t].item, announced')
    BY <1>8, <1>12, <1>14 DEF IInv, Plans, Target
  <2>2. OneGiven(f) /\ Justified(f, e, call'[s].item, announced')
    BY <1>6, <1>7, <1>12, <1>13 DEF IInv, Plans, Target, Unwritten
  <2> QED BY <1>7, <2>1, <2>2 DEF Plans, Target
<1>16. Writes'
  <2>1. \A t \in Sessions \ {s} : Justified(writes'[t], event'[t], call'[t].item, announced')
    BY <1>2, <1>8, <1>14 DEF IInv, Writes, Target
  <2>2. Justified(writes[s], e, call'[s].item, announced')
    BY <1>12, <1>13 DEF IInv, Writes, Target, Unwritten
  <2> QED BY <1>2, <1>7, <2>1, <2>2 DEF Writes, Target
<1>17. \A t \in Sessions : Revoking(t)'
  <2>1. \A t \in Sessions \ {s} : Revoking(t)'
    BY <1>2, <1>8 DEF IInv, Revoking, Target, Has
  <2>2. Revoking(s)'
    <3> SUFFICES ASSUME e = "revoked" PROVE Revoking(s)'
      BY <1>7 DEF Revoking
    <3>1. e = event[s] /\ Revoking(s)
      BY <1>4 DEF IInv
    <3>2. call[s].kind = "revoke" /\ pc[s] \in {"active", "queue"} /\ pc'[s] \in {"queue", "flush"}
      BY <3>1 DEF Revoking
    <3>3. /\ Target(s) \in DOMAIN writes[s] /\ rows[Target(s)]["status"] = "approved"
          /\ Target(s) \in DOMAIN copies /\ copies[Target(s)]["status"] = "approved"
      BY <1>5, <3>1, <3>2 DEF Revoking
    <3>4. pc'[s] = "flush" => Has(plan'[s], Target(s), "status")
                              /\ plan'[s][Target(s)]["status"] # "approved"
      BY <3>2
    <3>5. Target(s)' = Target(s)
      BY <1>2 DEF Target
    <3> QED BY <1>2, <1>7, <3>2, <3>3, <3>4, <3>5 DEF Revoking
  <2> QED BY <2>1, <2>2
<1> QED BY <1>9, <1>10, <1>11, <1>15, <1>16, <1>17, <1>18 DEF IInv

\* A flag in that table is one that w gives, or one that w leaves alone.
LEMMA Flagged ==
    ASSUME NEW w, Parts(w), NEW r \in Table, NEW i \in Items
    PROVE  ViewOf(w, r)[i]["active"] = TRUE <=>
              Gives(w, i) \/ (~Has(w, i, "active") /\ r[i]["active"] = TRUE)
<1>1. ViewOf(w, r)[i]["active"] = IF Has(w, i, "active") THEN w[i]["active"] ELSE r[i]["active"]
  BY ViewOfIs DEF Column
<1> QED BY <1>1 DEF Gives

\* A flush keeps the rows' locks and the flag unique.
LEMMA FlushKeepsFlags ==
    ASSUME IInv, NEW s \in Sessions, Flush(s), rows' = rows
    PROVE  Locks' /\ Flags'
<1>1. TypeInv
  BY DEF IInv
<1>2. /\ \A t \in Sessions \ {s} : writes'[t] = writes[t]
      /\ Parts(writes[s]) /\ Parts(writes'[s]) /\ rows \in Table
      /\ DOMAIN writes'[s] = DOMAIN writes[s] \cup DirtyRows(s)
  BY <1>1, FlushIs DEF TypeInv
<1>3. Locks'
  <2>1. \A i \in DirtyRows(s), t \in Sessions \ {s} : i \notin DOMAIN writes[t]
    BY DEF Flush, Unlocked
  <2>2. ASSUME NEW t \in Sessions \ {s} PROVE DOMAIN writes'[s] \cap DOMAIN writes'[t] = {}
    BY <1>2, <2>1 DEF IInv, Locks
  <2>3. ASSUME NEW t \in Sessions \ {s}, NEW u \in Sessions \ {s}, t # u
        PROVE  DOMAIN writes'[u] \cap DOMAIN writes'[t] = {}
    BY <1>2, <2>3 DEF IInv, Locks
  <2> QED BY <2>2, <2>3 DEF Locks
<1> DEFINE Sets(i) == Gives(plan[s], i) /\ i \in DirtyRows(s) /\ "active" \in DOMAIN Dirty(s, i)
           old == ViewOf(writes[s], rows)
           new == ViewOf(writes'[s], rows)
<1>4. ASSUME NEW i \in Items, Sets(i)
      PROVE  /\ \A j \in Items : old[j]["active"] = TRUE => j = i
             /\ \A t \in Sessions \ {s}, j \in Items : ~Has(writes[t], j, "active")
  <2>1. Dirty(s, i)["active"] = plan[s][i]["active"] /\ plan[s][i]["active"] = TRUE
    BY <1>4 DEF Dirty, Gives
  <2>2. UniqueIndexAdmits(s, i)
    BY <1>4, <2>1 DEF Flush
  <2>3. View(s) = old
    BY DEF View, ViewOf
  <2>4. ASSUME NEW j \in Items, old[j]["active"] = TRUE PROVE j \in ActiveIn(View(s))
    BY <2>3, <2>4 DEF ActiveIn
  <2>5. ActiveIn(View(s)) \subseteq {i}
    BY <2>2 DEF UniqueIndexAdmits
  <2> HIDE DEF old
  <2> QED BY <2>2, <2>4, <2>5 DEF UniqueIndexAdmits, Has
<1>5. ASSUME NEW i \in Items, Gives(writes'[s], i) PROVE Sets(i) \/ Gives(writes[s], i)
  <2>1. "active" \in Column
    BY DEF Column
  <2>2. Has(writes'[s], i, "active") =>
           \/ /\ Has(plan[s], i, "active") /\ writes'[s][i]["active"] = plan[s][i]["active"]
              /\ i \in DirtyRows(s) /\ "active" \in DOMAIN Dirty(s, i)
           \/ Has(writes[s], i, "active") /\ writes'[s][i]["active"] = writes[s][i]["active"]
    BY <1>1, <2>1, FlushIs
  <2> QED BY <1>5, <2>2 DEF Gives
<1>6. ASSUME NEW i \in Items, ~Has(writes'[s], i, "active") PROVE ~Has(writes[s], i, "active")
  <2>1. "active" \in Column
    BY DEF Column
  <2>2. Has(writes[s], i, "active") => Has(writes'[s], i, "active")
    BY <1>1, <2>1, FlushIs
  <2> QED BY <1>6, <2>2
<1>7. ASSUME NEW i \in Items, new[i]["active"] = TRUE PROVE Sets(i) \/ old[i]["active"] = TRUE
  <2>1. Gives(writes'[s], i) \/ (~Has(writes'[s], i, "active") /\ rows[i]["active"] = TRUE)
    BY <1>2, <1>7, Flagged
  <2>2. Gives(writes[s], i) \/ (~Has(writes[s], i, "active") /\ rows[i]["active"] = TRUE)
        => old[i]["active"] = TRUE
    BY <1>2, Flagged
  <2> QED BY <1>5, <1>6, <2>1, <2>2
<1>8. One(old) /\ OneGiven(plan[s])
  BY DEF IInv, Flags, View, ViewOf, Plans
<1>9. \A i, j \in Items : Sets(i) /\ Sets(j) => i = j
  BY <1>8 DEF OneGiven
<1> HIDE DEF Sets, old, new
<1>10. One(new)
  BY <1>4, <1>7, <1>8, <1>9 DEF One
<1>11. \A t \in Sessions : One(View(t)')
  <2>1. View(s)' = new
    BY DEF View, ViewOf, new
  <2>2. \A t \in Sessions \ {s} : View(t)' = View(t)
    BY <1>2 DEF View
  <2> QED BY <1>10, <2>1, <2>2 DEF IInv, Flags
<1>12. Apart'
  <2> SUFFICES ASSUME NEW t \in Sessions, NEW u \in Sessions, NEW i \in Items, NEW j \in Items,
                      t # u, Gives(writes'[t], i)
               PROVE  ~Has(writes'[u], j, "active") \/ ~Gives(writes'[u], j)
    BY DEF Apart
  <2>1. CASE t = s
    BY <1>2, <1>4, <1>5, <2>1 DEF IInv, Flags, Apart
  <2>2. CASE u = s
    <3>1. Gives(writes[t], i) /\ Has(writes[t], i, "active")
      BY <1>2, <2>2 DEF Gives
    <3>2. ~Sets(j)
      BY <1>4, <2>2, <3>1
    <3> QED BY <1>5, <2>2, <3>1, <3>2 DEF IInv, Flags, Apart, Gives
  <2>3. CASE t # s /\ u # s
    BY <1>2, <2>3 DEF IInv, Flags, Apart
  <2> QED BY <2>1, <2>2, <2>3
<1> QED BY <1>3, <1>11, <1>12 DEF IInv, Flags, One

\* A flush turns what is planned into writes, and a revoked row gets the status
\* planned for it.
LEMMA FlushKeeps ==
    ASSUME IInv, NEW s \in Sessions, Flush(s), UNCHANGED <<rows, log, announced, call, event>>,
           \/ At(s, "resolve", "apply") /\ Goto(s, "queue")
           \/ pc[s] = "flush" /\ Goto(s, "commit")
    PROVE  IInv'
<1>1. TypeInv
  BY DEF IInv
<1>2. /\ \A t \in Sessions \ {s} : writes'[t] = writes[t] /\ seen'[t] = seen[t] /\ plan'[t] = plan[t]
      /\ Parts(writes'[s]) /\ Copies(seen'[s]) /\ plan'[s] = Nothing
      /\ writes' = [t \in Sessions |-> writes'[t]]
      /\ seen' = [t \in Sessions |-> seen'[t]]
      /\ plan' = [t \in Sessions |-> plan'[t]]
      /\ DOMAIN writes'[s] = DOMAIN writes[s] \cup DirtyRows(s)
  BY <1>1, FlushIs
<1>3. /\ pc'[s] \in {"queue", "commit"} /\ pc[s] \in {"apply", "flush"}
      /\ pc' \in [Sessions -> Label]
      /\ \A t \in Sessions \ {s} : pc'[t] = pc[t]
      /\ pc'[s] = "queue" => pc[s] = "apply" /\ call[s].kind = "resolve"
  BY <1>1 DEF Goto, At, TypeInv, Busy, Label
<1>4. DOMAIN Nothing = {}
  BY DEF Nothing
<1>5. TypeInv'
  <2>1. \A t \in Sessions : Parts(writes'[t]) /\ Copies(seen'[t]) /\ Parts(plan'[t])
    BY <1>1, <1>2, <1>4 DEF TypeInv, Parts
  <2>2. \A t \in Open' : t \in Open
    BY <1>3 DEF Open
  <2>3. \A t \in Open' : call'[t].item \in Items /\ call'[t].res \in Resolution
    BY <1>1, <2>2 DEF TypeInv, Target
  <2> QED BY <1>1, <1>2, <1>3, <2>1, <2>3 DEF TypeInv, Target
<1>6. Unwritten'
  <2>1. ~Untouched(s)' /\ \A t \in Sessions \ {s} : Untouched(t)' => Untouched(t)
    BY <1>3 DEF Untouched, At
  <2> QED BY <1>2, <2>1 DEF IInv, Unwritten
<1>13. Silent'
  BY <1>3 DEF IInv, Silent
<1>7. Locks' /\ Flags'
  BY FlushKeepsFlags
<1>8. Logged' /\ RevokedOnce' /\ NoticeNotSkipped'
  BY DEF IInv, Logged, Unrevoked, RevokedOnce, NoticeNotSkipped
<1>9. ASSUME NEW c \in Column, NEW i \in Items, Has(writes'[s], i, c)
      PROVE  \/ Has(plan[s], i, c) /\ writes'[s][i][c] = plan[s][i][c]
             \/ Has(writes[s], i, c) /\ writes'[s][i][c] = writes[s][i][c]
  BY <1>1, <1>9, FlushIs
<1>10. Plans'
  <2>1. OneGiven(plan'[s]) /\ \A e, item, sent : Justified(plan'[s], e, item, sent)
    BY <1>2, <1>4 DEF OneGiven, Justified, Gives, Approves, Notes, Has
  <2> QED BY <1>2, <2>1 DEF IInv, Plans, Target
<1>11. Writes'
  <2>1. \A i \in Items : Approves(writes'[s], i) => Approves(plan[s], i) \/ Approves(writes[s], i)
    BY <1>9 DEF Approves, Column
  <2>2. \A i \in Items : Notes(writes'[s], i) => Notes(plan[s], i) \/ Notes(writes[s], i)
    BY <1>9 DEF Notes, Column
  <2>3. Justified(writes'[s], event[s], Target(s), announced)
    BY <2>1, <2>2 DEF IInv, Plans, Writes, Justified
  <2> QED BY <1>2, <2>3 DEF IInv, Writes, Target
<1>12. \A t \in Sessions : Revoking(t)'
  <2>1. \A t \in Sessions \ {s} : Revoking(t)'
    BY <1>2, <1>3 DEF IInv, Revoking, Target, Has
  <2>2. Revoking(s)'
    <3> DEFINE i == Target(s)
    <3> SUFFICES ASSUME event[s] = "revoked" PROVE Revoking(s)'
      BY DEF Revoking
    <3>1. Revoking(s)
      BY DEF IInv
    <3>2. /\ call[s].kind = "revoke" /\ pc[s] = "flush" /\ pc'[s] = "commit"
          /\ i \in DOMAIN writes[s] /\ rows[i]["status"] = "approved"
          /\ i \in DOMAIN seen[s] /\ seen[s][i]["status"] = "approved"
          /\ Has(plan[s], i, "status") /\ plan[s][i]["status"] # "approved"
      BY <1>3, <3>1 DEF Revoking
    <3>3. "status" \in Column /\ i \in Items
      BY <1>1, <3>2 DEF Column, TypeInv, Parts
    <3>4. Has(writes'[s], i, "status") /\ writes'[s][i]["status"] = plan[s][i]["status"]
      BY <1>1, <3>2, <3>3, FlushIs
    <3>5. Target(s)' = i
      BY DEF Target
    <3> QED BY <1>2, <3>2, <3>4, <3>5 DEF Revoking
  <2> QED BY <2>1, <2>2
<1> QED BY <1>5, <1>6, <1>7, <1>8, <1>10, <1>11, <1>12, <1>13 DEF IInv

\* The UPDATE of a revocation takes an approved row's lock before it logs.
LEMMA UpdateKeeps == ASSUME IInv, NEW s \in Sessions, RevokeUpdate(s) PROVE IInv'
<1> DEFINE i == Target(s)
<1>1. TypeInv
  BY DEF IInv
<1>2. /\ pc[s] = "get" /\ call[s].kind = "revoke" /\ i \in Items
      /\ UNCHANGED <<rows, log, announced, call, plan>>
      /\ DOMAIN plan[s] = {} /\ DOMAIN writes[s] = {}
  BY <1>1, Tables DEF RevokeUpdate, At, Shared, IInv, Unwritten, Untouched
<1>3. CASE rows[i].status = "approved"
  <2> DEFINE w == i :> [res |-> Null]
             copies == i :> [rows[i] EXCEPT !.res = Null]
  <2>1. /\ writes' = [writes EXCEPT ![s] = w] /\ seen' = [seen EXCEPT ![s] = copies]
        /\ event' = [event EXCEPT ![s] = "revoked"] /\ pc' = [pc EXCEPT ![s] = "active"]
        /\ \A t \in Sessions \ {s} : i \notin DOMAIN writes[t]
    BY <1>3 DEF RevokeUpdate, Log, Goto, Unlocked
  <2>2. DOMAIN w = {i} /\ w[i] = [res |-> Null] /\ DOMAIN copies = {i}
        /\ copies[i] = [rows[i] EXCEPT !.res = Null]
    BY OneIs
  <2>3. [rows[i] EXCEPT !.res = Null] \in Row /\ [rows[i] EXCEPT !.res = Null]["status"] = "approved"
    <3>1. rows[i] \in Row
      BY <1>1, <1>2 DEF TypeInv, Table
    <3> QED BY <1>3, <3>1 DEF Row
  <2>4. Part([res |-> Null]) /\ DOMAIN [res |-> Null] = {"res"}
    BY DEF Part, Column
  <2>5. Parts(w) /\ Copies(copies) /\ \A j \in DOMAIN w : DOMAIN w[j] = {"res"}
    <3> HIDE DEF w, copies
    <3> QED BY <1>2, <2>2, <2>3, <2>4 DEF Parts, Copies
  <2> HIDE DEF w, copies
  <2>6. /\ writes'[s] = w /\ seen'[s] = copies /\ event'[s] = "revoked" /\ pc'[s] = "active"
        /\ \A t \in Sessions \ {s} : writes'[t] = writes[t] /\ seen'[t] = seen[t]
                                     /\ event'[t] = event[t] /\ pc'[t] = pc[t]
    BY <1>1, <2>1 DEF TypeInv
  <2>7. TypeInv'
    <3>1. /\ pc' \in [Sessions -> Label]
          /\ event' \in [Sessions -> Event \cup {Null}]
      BY <1>1, <2>1 DEF TypeInv, Event, Busy, Label
    <3>2. /\ seen' = [t \in Sessions |-> seen'[t]] /\ \A t \in Sessions : Copies(seen'[t])
          /\ writes' = [t \in Sessions |-> writes'[t]] /\ \A t \in Sessions : Parts(writes'[t])
      BY <1>1, <2>1, <2>5, <2>6 DEF TypeInv
    <3>3. \A t \in Open' : t \in Open
      BY <1>2, <2>6 DEF Open
    <3>4. \A t \in Open' : call'[t].item \in Items /\ call'[t].res \in Resolution
      BY <1>1, <1>2, <3>3 DEF TypeInv, Target
    <3> QED BY <1>1, <1>2, <3>1, <3>2, <3>4 DEF TypeInv, Target
  <2>8. Unwritten'
    <3>1. ~Untouched(s)' /\ \A t \in Sessions \ {s} : Untouched(t)' => Untouched(t)
      BY <1>2, <2>6 DEF Untouched, At
    <3> QED BY <1>2, <2>6, <3>1 DEF IInv, Unwritten
  <2>9. Locks'
    BY <2>1, <2>2, <2>6 DEF IInv, Locks
  <2>10. \A j \in Items : ~Has(w, j, "active") /\ ~Approves(w, j) /\ ~Notes(w, j)
    BY <2>5 DEF Has, Approves, Notes
  <2>11. Flags'
    <3>1. One(View(s)')
      <4>1. \A j \in Items : ViewOf(w, rows)[j]["active"] = TRUE => rows[j]["active"] = TRUE
        BY <1>1, <2>5, <2>10, Flagged DEF TypeInv, Gives
      <4>2. View(s)' = ViewOf(w, rows)
        BY <1>2, <2>6 DEF View, ViewOf
      <4> QED BY <4>1, <4>2 DEF IInv, Flags, One
    <3>2. \A t \in Sessions \ {s} : View(t)' = View(t)
      BY <1>2, <2>6 DEF View
    <3>3. Apart'
      BY <2>6, <2>10 DEF IInv, Flags, Apart, Gives
    <3> QED BY <1>2, <3>1, <3>2, <3>3 DEF IInv, Flags, One
  <2>12. Plans'
    <3>1. \A j \in Items : ~Gives(plan[s], j) /\ ~Approves(plan[s], j) /\ ~Notes(plan[s], j)
      BY <1>2 DEF Gives, Approves, Notes, Has
    <3>2. OneGiven(plan[s]) /\ Justified(plan[s], "revoked", i, announced)
      BY <3>1 DEF OneGiven, Justified
    <3> QED BY <1>2, <2>6, <3>2 DEF IInv, Plans, Target
  <2>13. Writes'
    <3>1. Justified(w, "revoked", i, announced)
      BY <2>10 DEF Justified
    <3> QED BY <1>2, <2>6, <3>1 DEF IInv, Writes, Target
  <2>14. \A t \in Sessions : Revoking(t)'
    <3>1. \A t \in Sessions \ {s} : Revoking(t)'
      BY <1>2, <2>6 DEF IInv, Revoking, Target, Has
    <3>2. Revoking(s)'
      BY <1>2, <1>3, <2>2, <2>3, <2>6 DEF Revoking, Target
    <3> QED BY <3>1, <3>2
  <2>15. Logged' /\ RevokedOnce' /\ NoticeNotSkipped'
    BY <1>2 DEF IInv, Logged, Unrevoked, RevokedOnce, NoticeNotSkipped
  <2>16. Silent'
    BY <1>2, <2>6 DEF IInv, Silent
  <2> QED BY <2>7, <2>8, <2>9, <2>11, <2>12, <2>13, <2>14, <2>15, <2>16 DEF IInv
<1>4. CASE rows[i].status # "approved"
  <2>1. /\ UNCHANGED <<writes, seen>>
        /\ event' = [event EXCEPT ![s] = "rejected"] /\ pc' = [pc EXCEPT ![s] = "commit"]
    BY <1>4 DEF RevokeUpdate, Log, Goto
  <2>2. /\ event'[s] = "rejected" /\ pc'[s] = "commit"
        /\ \A t \in Sessions \ {s} : event'[t] = event[t] /\ pc'[t] = pc[t]
    BY <1>1, <2>1 DEF TypeInv
  <2>3. TypeInv'
    <3>1. /\ pc' \in [Sessions -> Label]
          /\ event' \in [Sessions -> Event \cup {Null}]
      BY <1>1, <2>1 DEF TypeInv, Event, Busy, Label
    <3>2. \A t \in Open' : t \in Open
      BY <1>2, <2>2 DEF Open
    <3>3. \A t \in Open' : call'[t].item \in Items /\ call'[t].res \in Resolution
      BY <1>1, <1>2, <3>2 DEF TypeInv, Target
    <3> QED BY <1>1, <1>2, <2>1, <3>1, <3>3 DEF TypeInv, Target
  <2>4. Unwritten' /\ Locks' /\ Flags' /\ Logged' /\ RevokedOnce' /\ NoticeNotSkipped'
    <3>1. ~Untouched(s)' /\ \A t \in Sessions \ {s} : Untouched(t)' => Untouched(t)
      BY <1>2, <2>2 DEF Untouched, At
    <3>2. Unwritten'
      BY <1>2, <2>1, <3>1 DEF IInv, Unwritten
    <3> QED BY <1>2, <2>1, <3>2 DEF IInv, Locks, Flags, One, View, Apart, Gives, Has, Logged,
                                    Unrevoked, RevokedOnce, NoticeNotSkipped
  <2>5. Plans' /\ Writes'
    <3>1. \A j \in Items : /\ ~Gives(plan[s], j) /\ ~Approves(plan[s], j) /\ ~Notes(plan[s], j)
                           /\ ~Approves(writes[s], j) /\ ~Notes(writes[s], j)
      BY <1>2 DEF Gives, Approves, Notes, Has
    <3>2. /\ OneGiven(plan[s]) /\ Justified(plan[s], "rejected", i, announced)
          /\ Justified(writes[s], "rejected", i, announced)
      BY <3>1 DEF OneGiven, Justified
    <3> QED BY <1>2, <2>1, <2>2, <3>2 DEF IInv, Plans, Writes, Target
  <2>6. \A t \in Sessions : Revoking(t)'
    BY <1>2, <2>1, <2>2 DEF IInv, Revoking, Target, Has
  <2>7. Silent'
    BY <1>2, <2>2 DEF IInv, Silent
  <2> QED BY <2>3, <2>4, <2>5, <2>6, <2>7 DEF IInv
<1> QED BY <1>3, <1>4

\* A call starts with no plan, no write and no event.
LEMMA BeginKeeps == ASSUME IInv, NEW s \in Sessions, Begin(s) PROVE IInv'
<1>1. TypeInv
  BY DEF IInv
<1>2. /\ pc[s] = "idle" /\ pc' = [pc EXCEPT ![s] = "get"]
      /\ UNCHANGED <<rows, log, announced, seen, plan, writes, event>>
      /\ DOMAIN plan[s] = {} /\ DOMAIN writes[s] = {}
      /\ event[s] = Null
  BY DEF Begin, Goto, IInv, Unwritten, Untouched, Silent
<1>3. PICK kind \in Calls, i \in Items, r \in Resolution :
         call' = [call EXCEPT ![s] = [kind |-> kind, item |-> i, res |-> r]]
  BY DEF Begin
<1>4. /\ pc'[s] = "get" /\ call'[s].item = i /\ call'[s].res = r
      /\ \A t \in Sessions \ {s} : pc'[t] = pc[t] /\ call'[t] = call[t]
  BY <1>1, <1>2, <1>3 DEF TypeInv
<1>5. event[s] # "revoked"
  BY <1>2, NullAssumption DEF Event
<1>6. TypeInv'
  <2>1. pc' \in [Sessions -> Label]
    BY <1>1, <1>2 DEF TypeInv, Busy, Label
  <2>2. call' \in [Sessions -> [kind : Calls \cup {"none"}, item : Items \cup {Null},
                                res : Resolution \cup {Null}]]
    BY <1>1, <1>3 DEF TypeInv
  <2>3. \A t \in Sessions \ {s} : t \in Open' => t \in Open
    BY <1>4 DEF Open
  <2>4. \A t \in Open' : call'[t].item \in Items /\ call'[t].res \in Resolution
    BY <1>1, <1>4, <2>3 DEF TypeInv, Target, Open
  <2> QED BY <1>1, <1>2, <2>1, <2>2, <2>4 DEF TypeInv, Target
<1>7. Unwritten'
  <2>1. \A t \in Sessions \ {s} : Untouched(t)' => Untouched(t)
    BY <1>4 DEF Untouched, At
  <2> QED BY <1>2, <2>1 DEF IInv, Unwritten
<1>8. Locks' /\ Flags' /\ Logged' /\ RevokedOnce' /\ NoticeNotSkipped'
  BY <1>2 DEF IInv, Locks, Flags, One, View, Apart, Gives, Has, Logged, Unrevoked, RevokedOnce,
              NoticeNotSkipped
<1>9. Plans' /\ Writes'
  <2>1. \A j \in Items : /\ ~Approves(plan[s], j) /\ ~Notes(plan[s], j)
                         /\ ~Approves(writes[s], j) /\ ~Notes(writes[s], j)
    BY <1>2 DEF Approves, Notes, Has
  <2>2. /\ Justified(plan[s], event[s], call'[s].item, announced)
        /\ Justified(writes[s], event[s], call'[s].item, announced)
    BY <2>1 DEF Justified
  <2> QED BY <1>2, <1>4, <2>2 DEF IInv, Plans, Writes, Target
<1>10. \A t \in Sessions : Revoking(t)'
  BY <1>2, <1>4, <1>5 DEF IInv, Revoking, Target, Has
<1>11. Silent'
  BY <1>2, <1>4 DEF IInv, Silent
<1> QED BY <1>6, <1>7, <1>8, <1>9, <1>10, <1>11 DEF IInv

\* The worker's session goes on with what it has written, and with copies of
\* rows it had read.
LEMMA NextCreateKeeps == ASSUME IInv, NEW s \in Sessions, NextCreate(s) PROVE IInv'
<1>1. TypeInv /\ pc[s] = "commit" /\ call[s].kind = "create" /\ event[s] = Null
  BY DEF IInv, Silent, NextCreate, At
<1>2. /\ UNCHANGED <<rows, log, announced, plan, writes, event>>
      /\ pc' = [pc EXCEPT ![s] = "get"]
  BY DEF NextCreate, Shared, Goto
<1>3. PICK i \in Items : call' = [call EXCEPT ![s].item = i]
  BY DEF NextCreate
<1>4. PICK kept \in SUBSET DOMAIN seen[s] :
         seen' = [seen EXCEPT ![s] = [j \in kept |-> seen[s][j]]]
  BY DEF NextCreate
<1>5. /\ pc'[s] = "get" /\ call'[s].kind = "create" /\ call'[s].item = i
      /\ call'[s].res = call[s].res
      /\ \A t \in Sessions \ {s} : pc'[t] = pc[t] /\ call'[t] = call[t] /\ seen'[t] = seen[t]
  BY <1>1, <1>2, <1>3, <1>4 DEF TypeInv
<1>6. Copies(seen'[s])
  <2> DEFINE f == [j \in kept |-> seen[s][j]]
  <2>1. seen'[s] = f
    BY <1>1, <1>4 DEF TypeInv
  <2>2. DOMAIN f = kept /\ \A j \in kept : f[j] = seen[s][j]
    OBVIOUS
  <2> HIDE DEF f
  <2> QED BY <1>1, <2>1, <2>2 DEF TypeInv, Copies
<1>7. TypeInv'
  <2>1. pc' \in [Sessions -> Label]
    BY <1>1, <1>2 DEF TypeInv, Busy, Label
  <2>2. call' \in [Sessions -> [kind : Calls \cup {"none"}, item : Items \cup {Null},
                                res : Resolution \cup {Null}]]
    <3> DEFINE C == [kind : Calls \cup {"none"}, item : Items \cup {Null},
                     res : Resolution \cup {Null}]
    <3>1. call \in [Sessions -> C] /\ call[s] \in C
      BY <1>1 DEF TypeInv
    <3>2. [call[s] EXCEPT !.item = i] \in C
      BY <3>1
    <3>3. call' = [call EXCEPT ![s] = [call[s] EXCEPT !.item = i]]
      BY <1>3
    <3> HIDE DEF C
    <3>4. call' \in [Sessions -> C]
      BY <3>1, <3>2, <3>3
    <3> QED BY <3>4 DEF C
  <2>3. seen' = [t \in Sessions |-> seen'[t]] /\ \A t \in Sessions : Copies(seen'[t])
    BY <1>1, <1>4, <1>5, <1>6 DEF TypeInv
  <2>4. \A t \in Open' : t \in Open
    BY <1>1, <1>5 DEF Open
  <2>5. \A t \in Open' : call'[t].item \in Items /\ call'[t].res \in Resolution
    <3>1. s \in Open /\ call[s].res \in Resolution
      BY <1>1 DEF TypeInv, Open
    <3>2. \A t \in Open : call[t].item \in Items /\ call[t].res \in Resolution
      BY <1>1 DEF TypeInv, Target
    <3>3. \A t \in Open' : t = s \/ call'[t] = call[t]
      BY <1>5 DEF Open
    <3> QED BY <1>5, <2>4, <3>1, <3>2, <3>3
  <2> QED BY <1>1, <1>2, <2>1, <2>2, <2>3, <2>5 DEF TypeInv, Target
<1>8. Unwritten'
  <2>1. ~Untouched(s)' /\ \A t \in Sessions \ {s} : Untouched(t)' => Untouched(t)
    BY <1>5 DEF Untouched, At
  <2> QED BY <1>2, <2>1 DEF IInv, Unwritten
<1>9. Silent'
  BY <1>1, <1>2, <1>5 DEF IInv, Silent
<1>10. Locks' /\ Flags' /\ Logged' /\ RevokedOnce' /\ NoticeNotSkipped'
  BY <1>2 DEF IInv, Locks, Flags, One, View, Apart, Gives, Has, Logged, Unrevoked, RevokedOnce,
              NoticeNotSkipped
<1>11. Null # "approved" /\ Null # "revoked"
  BY NullAssumption DEF Event, Resolution
<1>12. Plans' /\ Writes'
  <2>1. \A f, old : Justified(f, Null, old, announced) => Justified(f, Null, i, announced)
    BY <1>11 DEF Justified
  <2>2. Justified(plan[s], Null, Target(s), announced) /\ Justified(writes[s], Null, Target(s), announced)
    BY <1>1 DEF IInv, Plans, Writes
  <2>3. Justified(plan[s], Null, i, announced) /\ Justified(writes[s], Null, i, announced)
    BY <2>1, <2>2
  <2> QED BY <1>1, <1>2, <1>5, <2>3 DEF IInv, Plans, Writes, Target
<1>13. \A t \in Sessions : Revoking(t)'
  BY <1>1, <1>2, <1>5, <1>11 DEF IInv, Revoking, Target, Has
<1> QED BY <1>7, <1>8, <1>9, <1>10, <1>12, <1>13 DEF IInv

\* What a session leaves when it ends: nothing of its own.
LEMMA CloseIs ==
    ASSUME IInv, NEW s \in Sessions, Close(s), announced' = announced,
           rows' \in Table, log' \in [Items -> Seq(Event)]
    PROVE  /\ TypeInv' /\ Unwritten' /\ Silent' /\ Locks' /\ Plans' /\ Writes' /\ Apart'
           /\ event'[s] = Null /\ DOMAIN writes'[s] = {}
           /\ \A t \in Sessions \ {s} : /\ writes'[t] = writes[t] /\ plan'[t] = plan[t]
                                        /\ seen'[t] = seen[t] /\ event'[t] = event[t]
                                        /\ pc'[t] = pc[t] /\ call'[t] = call[t]
<1>1. TypeInv
  BY DEF IInv
<1>2. /\ call' = [call EXCEPT ![s] = NoCall] /\ seen' = [seen EXCEPT ![s] = Nothing]
      /\ plan' = [plan EXCEPT ![s] = Nothing] /\ writes' = [writes EXCEPT ![s] = Nothing]
      /\ event' = [event EXCEPT ![s] = Null] /\ pc' = [pc EXCEPT ![s] = "done"]
  BY DEF Close, Goto
<1>3. DOMAIN Nothing = {} /\ Parts(Nothing) /\ Copies(Nothing)
  BY DEF Nothing, Parts, Copies
<1>4. /\ event'[s] = Null /\ pc'[s] = "done"
      /\ plan'[s] = Nothing /\ writes'[s] = Nothing /\ seen'[s] = Nothing
  BY <1>1, <1>2 DEF TypeInv
<1>5. \A t \in Sessions \ {s} : /\ writes'[t] = writes[t] /\ plan'[t] = plan[t]
                                /\ seen'[t] = seen[t] /\ event'[t] = event[t]
                                /\ pc'[t] = pc[t] /\ call'[t] = call[t]
  BY <1>1, <1>2 DEF TypeInv
<1>6. TypeInv'
  <2>1. /\ pc' \in [Sessions -> Label]
        /\ event' \in [Sessions -> Event \cup {Null}]
    BY <1>1, <1>2 DEF TypeInv, Busy, Label
  <2>2. call' \in [Sessions -> [kind : Calls \cup {"none"}, item : Items \cup {Null},
                                res : Resolution \cup {Null}]]
    BY <1>1, <1>2 DEF TypeInv, NoCall
  <2>3. /\ seen' = [t \in Sessions |-> seen'[t]] /\ \A t \in Sessions : Copies(seen'[t])
        /\ plan' = [t \in Sessions |-> plan'[t]] /\ \A t \in Sessions : Parts(plan'[t])
        /\ writes' = [t \in Sessions |-> writes'[t]] /\ \A t \in Sessions : Parts(writes'[t])
    BY <1>1, <1>2, <1>3, <1>4, <1>5 DEF TypeInv
  <2>4. \A t \in Open' : t # s /\ t \in Open
    BY <1>4, <1>5 DEF Open
  <2>5. \A t \in Open' : call'[t].item \in Items /\ call'[t].res \in Resolution
    BY <1>1, <1>5, <2>4 DEF TypeInv, Target, Open
  <2> QED BY <2>1, <2>2, <2>3, <2>5 DEF TypeInv, Target
<1>7. Unwritten'
  <2>1. \A t \in Sessions \ {s} : Untouched(t)' => Untouched(t)
    BY <1>5 DEF Untouched, At
  <2> QED BY <1>3, <1>4, <1>5, <2>1 DEF IInv, Unwritten
<1>8. Locks' /\ Apart'
  BY <1>3, <1>4, <1>5 DEF IInv, Locks, Flags, Apart, Gives, Has
<1>9. Plans' /\ Writes'
  <2>1. OneGiven(Nothing) /\ \A e, item, sent : Justified(Nothing, e, item, sent)
    BY <1>3 DEF OneGiven, Justified, Gives, Approves, Notes, Has
  <2> QED BY <1>4, <1>5, <2>1 DEF IInv, Plans, Writes, Target
<1>10. Silent'
  BY <1>4, <1>5 DEF IInv, Silent
<1> QED BY <1>3, <1>4, <1>5, <1>6, <1>7, <1>8, <1>9, <1>10

\* A rollback returns to the committed table.
LEMMA RollBackKeeps == ASSUME IInv, NEW s \in Sessions, RollBack(s) PROVE IInv'
<1>1. TypeInv /\ Close(s) /\ rows' = rows /\ log' = log /\ announced' = announced
  BY DEF IInv, RollBack, Shared
<1>2. rows' \in Table /\ log' \in [Items -> Seq(Event)]
  BY <1>1 DEF TypeInv
<1>3. /\ TypeInv' /\ Unwritten' /\ Silent' /\ Locks' /\ Plans' /\ Writes' /\ Apart'
      /\ event'[s] = Null /\ DOMAIN writes'[s] = {}
      /\ \A t \in Sessions \ {s} : /\ writes'[t] = writes[t] /\ plan'[t] = plan[t]
                                   /\ seen'[t] = seen[t] /\ event'[t] = event[t]
                                   /\ pc'[t] = pc[t] /\ call'[t] = call[t]
  BY <1>1, <1>2, CloseIs
<1>4. Flags'
  <2>1. \A i \in Items : View(s)'[i] = rows[i]
    BY <1>1, <1>3 DEF View
  <2>2. \A t \in Sessions \ {s} : View(t)' = View(t)
    BY <1>1, <1>3 DEF View
  <2> QED BY <1>1, <1>3, <2>1, <2>2 DEF IInv, Flags, One
<1>5. Logged' /\ RevokedOnce' /\ NoticeNotSkipped'
  BY <1>1 DEF IInv, Logged, Unrevoked, RevokedOnce, NoticeNotSkipped
<1>6. \A t \in Sessions : Revoking(t)'
  <2>1. ~(event'[s] = "revoked")
    BY <1>3, NullAssumption DEF Event
  <2> QED BY <1>1, <1>3, <2>1 DEF IInv, Revoking, Target, Has
<1> QED BY <1>3, <1>4, <1>5, <1>6 DEF IInv

\* An entry that is not a revocation leaves an approval after the last one, an
\* approval restores it.
LEMMA LogGrows ==
    ASSUME NEW l \in Seq(Event), NEW e \in Event
    PROVE  /\ Append(l, e) \in Seq(Event)
           /\ e # "revoked" /\ Unrevoked(l) => Unrevoked(Append(l, e))
           /\ e = "approved" => Unrevoked(Append(l, e))
<1> DEFINE m == Append(l, e)
<1>1. /\ Len(m) = Len(l) + 1 /\ m[Len(m)] = e /\ \A k \in 1..Len(l) : m[k] = l[k]
      /\ Len(l) \in Nat /\ m \in Seq(Event)
  OBVIOUS
<1> HIDE DEF m
<1>2. ASSUME e # "revoked", Unrevoked(l), NEW k \in 1..Len(m), m[k] = "revoked"
      PROVE  \E n \in k..Len(m) : m[n] = "approved"
  <2>1. k \in 1..Len(l) /\ l[k] = "revoked"
    BY <1>1, <1>2
  <2>2. PICK n \in k..Len(l) : l[n] = "approved"
    BY <1>2, <2>1 DEF Unrevoked
  <2>3. n \in k..Len(m) /\ n \in 1..Len(l)
    BY <1>1, <2>1, <2>2
  <2> QED BY <1>1, <2>2, <2>3
<1>3. ASSUME e = "approved", NEW k \in 1..Len(m) PROVE \E n \in k..Len(m) : m[n] = "approved"
  BY <1>1, <1>3
<1> QED BY <1>1, <1>2, <1>3 DEF Unrevoked, m

\* A commit makes the view of its session the table, and logs its event.
LEMMA CommitKeeps == ASSUME IInv, NEW s \in Sessions, Commit(s) PROVE IInv'
<1> DEFINE w == writes[s]
           i == Target(s)
           e == event[s]
<1>1. /\ TypeInv /\ pc[s] = "commit" /\ Close(s) /\ rows' = View(s) /\ announced' = announced
      /\ log' = IF e = Null THEN log ELSE [log EXCEPT ![i] = Append(@, e)]
  BY DEF IInv, Commit
<1>2. /\ Parts(w) /\ rows \in Table /\ i \in Items /\ e \in Event \cup {Null}
      /\ \A j \in Items : log[j] \in Seq(Event)
  BY <1>1, Tables DEF TypeInv
<1>3. rows' = ViewOf(w, rows) /\ rows' \in Table
  BY <1>1, <1>2, ViewOfIs DEF View, ViewOf
<1>4. \A j \in Items : log'[j] = IF e # Null /\ j = i THEN Append(log[j], e) ELSE log[j]
  BY <1>1, <1>2 DEF TypeInv
<1>5. log' \in [Items -> Seq(Event)]
  <2>1. e # Null => Append(log[i], e) \in Seq(Event)
    BY <1>2, LogGrows
  <2> QED BY <1>1, <1>2, <2>1 DEF TypeInv
<1>6. /\ TypeInv' /\ Unwritten' /\ Silent' /\ Locks' /\ Plans' /\ Writes' /\ Apart'
      /\ event'[s] = Null /\ DOMAIN writes'[s] = {}
      /\ \A t \in Sessions \ {s} : /\ writes'[t] = writes[t] /\ plan'[t] = plan[t]
                                   /\ seen'[t] = seen[t] /\ event'[t] = event[t]
                                   /\ pc'[t] = pc[t] /\ call'[t] = call[t]
  BY <1>1, <1>3, <1>5, CloseIs
<1>7. \A j \in Items, c \in Column :
         rows'[j][c] = IF Has(w, j, c) THEN w[j][c] ELSE rows[j][c]
  BY <1>2, <1>3, ViewOfIs
<1>8. Flags'
  <2>1. \A j \in Items : rows'[j]["active"] = TRUE =>
                            Gives(w, j) \/ (~Has(w, j, "active") /\ rows[j]["active"] = TRUE)
    BY <1>7 DEF Gives, Column
  <2>2. One(rows')
    BY <1>1 DEF IInv, Flags
  <2>3. One(View(s)')
    <3>1. \A j \in Items : View(s)'[j] = rows'[j]
      BY <1>6 DEF View
    <3> QED BY <2>2, <3>1 DEF One
  <2>4. ASSUME NEW t \in Sessions \ {s} PROVE One(View(t)')
    <3> DEFINE new == ViewOf(writes[t], rows')
               old == ViewOf(writes[t], rows)
    <3>1. View(t)' = new /\ View(t) = old
      BY <1>6 DEF View, ViewOf
    <3>2. Parts(writes[t]) /\ One(old)
      BY <1>1, <3>1 DEF IInv, Flags, TypeInv
    <3>3. \A j \in Items : new[j]["active"] = TRUE <=>
             Gives(writes[t], j) \/ (~Has(writes[t], j, "active") /\ rows'[j]["active"] = TRUE)
      BY <1>3, <3>2, Flagged
    <3>4. \A j \in Items : old[j]["active"] = TRUE <=>
             Gives(writes[t], j) \/ (~Has(writes[t], j, "active") /\ rows[j]["active"] = TRUE)
      BY <1>2, <3>2, Flagged
    <3> HIDE DEF new, old
    <3>5. CASE \E k \in Items : Gives(writes[t], k)
      <4>1. \A j \in Items : ~Gives(w, j)
        BY <3>5 DEF IInv, Flags, Apart, Gives
      <4>2. \A j \in Items : rows'[j]["active"] = TRUE => rows[j]["active"] = TRUE
        BY <2>1, <4>1
      <4>3. \A j \in Items : new[j]["active"] = TRUE => old[j]["active"] = TRUE
        BY <3>3, <3>4, <4>2
      <4> QED BY <3>1, <3>2, <4>3 DEF One
    <3>6. CASE ~\E k \in Items : Gives(writes[t], k)
      <4>1. \A j \in Items : new[j]["active"] = TRUE => rows'[j]["active"] = TRUE
        BY <3>3, <3>6
      <4> QED BY <2>2, <3>1, <4>1 DEF One
    <3> QED BY <3>5, <3>6
  <2> QED BY <1>6, <2>2, <2>3, <2>4 DEF Flags, One
<1>9. e = "revoked" => rows[i]["status"] = "approved" /\ rows'[i]["status"] # "approved"
  BY <1>1, <1>2, <1>7 DEF IInv, Revoking, Column
<1>10. Logged'
  <2> SUFFICES ASSUME NEW j \in Items, rows'[j]["status"] = "approved" PROVE Unrevoked(log'[j])
    BY DEF Logged
  <2>1. CASE Approves(w, j)
    <3>1. e = "approved" /\ j = i
      BY <2>1 DEF IInv, Writes, Justified
    <3>2. e # Null /\ e \in Event
      BY <1>2, <3>1, NullAssumption DEF Event, Resolution
    <3> QED BY <1>2, <1>4, <3>1, <3>2, LogGrows
  <2>2. CASE ~Approves(w, j)
    <3>1. rows[j]["status"] = "approved"
      BY <1>7, <2>2 DEF Approves, Column
    <3>2. Unrevoked(log[j])
      BY <3>1 DEF IInv, Logged
    <3>3. e # Null /\ j = i => e # "revoked" /\ e \in Event
      BY <1>2, <1>9
    <3> QED BY <1>2, <1>4, <3>2, <3>3, LogGrows
  <2> QED BY <2>1, <2>2
<1>11. RevokedOnce'
  <2> SUFFICES ASSUME NEW j \in Items, NEW k \in 1..Len(log'[j]), NEW m \in 1..Len(log'[j]),
                      k < m, log'[j][k] = "revoked", log'[j][m] = "revoked"
               PROVE  \E n \in k..m : log'[j][n] = "approved"
    BY DEF RevokedOnce
  <2> DEFINE l == log[j]
  <2>1. l \in Seq(Event) /\ Len(l) \in Nat
    BY <1>2
  <2>2. \A a, b \in 1..Len(l) : a < b /\ l[a] = "revoked" /\ l[b] = "revoked"
                                => \E n \in a..b : l[n] = "approved"
    BY DEF IInv, RevokedOnce
  <2>3. CASE log'[j] = l
    BY <2>2, <2>3
  <2>4. CASE e # Null /\ j = i /\ log'[j] = Append(l, e)
    <3>1. /\ e \in Event /\ Len(log'[j]) = Len(l) + 1 /\ log'[j][Len(l) + 1] = e
          /\ \A a \in 1..Len(l) : log'[j][a] = l[a]
      BY <1>2, <2>1, <2>4
    <3> HIDE DEF l
    <3>2. k \in 1..Len(l) /\ l[k] = "revoked"
      BY <2>1, <3>1
    <3>3. CASE m \in 1..Len(l)
      <4>1. PICK n \in k..m : l[n] = "approved"
        BY <2>2, <3>1, <3>2, <3>3
      <4>2. n \in 1..Len(l)
        BY <3>2, <3>3
      <4> QED BY <3>1, <4>1, <4>2
    <3>4. CASE m = Len(l) + 1
      <4>1. e = "revoked"
        BY <3>1, <3>4
      <4>2. Unrevoked(l)
        BY <1>9, <2>4, <4>1 DEF IInv, Logged, l
      <4>3. PICK n \in k..Len(l) : l[n] = "approved"
        BY <3>2, <4>2 DEF Unrevoked
      <4>4. n \in 1..Len(l) /\ n \in k..m
        BY <2>1, <3>2, <3>4, <4>3
      <4> QED BY <3>1, <4>3, <4>4
    <3> QED BY <2>1, <3>1, <3>3, <3>4
  <2> QED BY <1>4, <2>3, <2>4
<1>12. NoticeNotSkipped'
  <2> SUFFICES ASSUME NEW j \in Items, rows'[j]["notice"] PROVE j \in announced
    BY <1>1 DEF NoticeNotSkipped
  <2>1. CASE Has(w, j, "notice")
    <3>1. rows'[j]["notice"] = w[j]["notice"] /\ w[j]["notice"] \in BOOLEAN
      BY <1>2, <1>7, <2>1 DEF Column, Parts, Part, Has
    <3>2. Notes(w, j)
      BY <2>1, <3>1 DEF Notes
    <3> QED BY <3>2 DEF IInv, Writes, Justified
  <2>2. CASE ~Has(w, j, "notice")
    BY <1>7, <2>2 DEF Column, IInv, NoticeNotSkipped
  <2> QED BY <2>1, <2>2
<1>13. \A t \in Sessions : Revoking(t)'
  <2>1. ~(event'[s] = "revoked")
    BY <1>6, NullAssumption DEF Event
  <2>2. ASSUME NEW t \in Sessions \ {s} PROVE Revoking(t)'
    <3>1. Target(t) \in DOMAIN writes[t] => rows'[Target(t)] = rows[Target(t)]
      <4>1. Target(t) \in DOMAIN writes[t] => Target(t) \notin DOMAIN w /\ Target(t) \in Items
        BY <1>1 DEF IInv, Locks, TypeInv, Parts
      <4> QED BY <1>3, <4>1 DEF ViewOf
    <3> QED BY <1>6, <3>1 DEF IInv, Revoking, Target, Has
  <2>3. Revoking(s)'
    BY <2>1 DEF Revoking
  <2> QED BY <2>2, <2>3
<1> QED BY <1>6, <1>8, <1>10, <1>11, <1>12, <1>13 DEF IInv

\* At most one active row, as a cardinality and as an equality.
LEMMA OneIsCardinality ==
    ASSUME NEW r \in Table
    PROVE  One(r) <=> AtMostOneActive(r)
<1> DEFINE S == ActiveIn(r)
<1>1. \A i \in Items : i \in S <=> r[i]["active"] = TRUE
  <2>1. \A i \in Items : r[i]["active"] \in BOOLEAN
    BY DEF Table, Row
  <2> QED BY <2>1 DEF ActiveIn
<1>2. S \subseteq Items /\ IsFiniteSet(S) /\ Cardinality(S) \in Nat
  BY ItemsAssumption, FS_Subset, FS_CardinalityType DEF ActiveIn
<1>3. One(r) <=> \A i, j \in S : i = j
  BY <1>1, <1>2 DEF One
<1> HIDE DEF S
<1>4. ASSUME \A i, j \in S : i = j PROVE Cardinality(S) <= 1
  <2>1. CASE S = {}
    BY <2>1, FS_EmptySet
  <2>2. CASE S # {}
    <3>1. PICK i \in S : S = {i}
      BY <1>4, <2>2
    <3>2. Cardinality({i}) = 1
      BY FS_Singleton
    <3> QED BY <3>1, <3>2
  <2> QED BY <2>1, <2>2
<1>5. ASSUME Cardinality(S) <= 1, NEW i \in S, NEW j \in S PROVE i = j
  <2> SUFFICES ASSUME i # j PROVE FALSE
    OBVIOUS
  <2>1. {i, j} \subseteq S /\ IsFiniteSet({i}) /\ Cardinality({i}) = 1
    BY FS_Singleton
  <2>2. Cardinality({i} \cup {j}) = 2
    <3>1. Cardinality({i} \cup {j}) = IF j \in {i} THEN Cardinality({i}) ELSE Cardinality({i}) + 1
      BY <2>1, FS_AddElement
    <3>2. j \notin {i}
      OBVIOUS
    <3> QED BY <2>1, <3>1, <3>2
  <2>3. Cardinality({i} \cup {j}) <= Cardinality(S)
    BY <1>2, <2>1, FS_Subset
  <2> QED BY <1>2, <1>5, <2>2, <2>3
<1> QED BY <1>3, <1>4, <1>5 DEF AtMostOneActive, S

\* The tables calls are made on.
LEMMA InitHolds == Init => IInv
<1> SUFFICES ASSUME Init PROVE IInv
  OBVIOUS
<1>1. \A q \in QuietRow : q \in Row
  <2>1. \A n \in 1..Cardinality(Items) : n \in Int
    OBVIOUS
  <2>2. \A a \in ActiveStatus : [NoRow EXCEPT !.status = a, !.active = TRUE, !.notice = TRUE] \in Row
    BY DEF Row, NoRow
  <2>3. \A r \in Resolution : [NoRow EXCEPT !.status = r, !.res = r, !.notice = TRUE] \in Row
    BY DEF Row, NoRow, Resolution
  <2>4. \A n \in 1..Cardinality(Items) : [NoRow EXCEPT !.status = "queued", !.pos = n] \in Row
    BY <2>1, NoRowIs
  <2> QED BY <2>2, <2>3, <2>4, NoRowIs DEF QuietRow
<1>2. rows \in Table /\ AtMostOneActive(rows)
  BY <1>1 DEF Init, QuietTable, Consistent, Table
<1>3. DOMAIN Nothing = {} /\ Parts(Nothing) /\ Copies(Nothing)
  BY DEF Nothing, Parts, Copies
<1>4. \A i \in Items : log[i] \in Seq(Event) /\ \A k \in 1..Len(log[i]) : log[i][k] # "revoked"
  <2> SUFFICES ASSUME NEW i \in Items
               PROVE  log[i] \in Seq(Event) /\ \A k \in 1..Len(log[i]) : log[i][k] # "revoked"
    OBVIOUS
  <2>1. rows[i].res \in Resolution \cup {Null}
    BY <1>2 DEF Table, Row
  <2>2. log[i] = IF rows[i].res = Null THEN <<>> ELSE <<rows[i].res>>
    BY DEF Init
  <2>3. CASE rows[i].res = Null
    BY <2>2, <2>3
  <2>4. CASE rows[i].res # Null
    BY <2>1, <2>2, <2>4 DEF Resolution, Event
  <2> QED BY <2>3, <2>4
<1>5. log \in [Items -> Seq(Event)]
  BY <1>4 DEF Init
<1>6. TypeInv
  <2>1. Open = {}
    BY DEF Init, Open
  <2> QED BY <1>2, <1>3, <1>5, <2>1 DEF Init, TypeInv, NoCall, Event, Busy, Label
<1>7. Unwritten /\ Locks /\ Apart
  BY <1>3 DEF Init, Unwritten, Locks, Apart, Gives, Has
<1>8. Plans /\ Writes
  BY <1>3 DEF Init, Plans, Writes, OneGiven, Justified, Gives, Approves, Notes, Has
<1>9. Flags
  <2>1. One(rows)
    BY <1>2, OneIsCardinality
  <2>2. \A s \in Sessions, i \in Items : View(s)[i] = rows[i]
    BY <1>3 DEF Init, View
  <2> QED BY <1>7, <2>1, <2>2 DEF Flags, One
<1>10. Logged /\ RevokedOnce /\ NoticeNotSkipped
  <2>1. NoticeNotSkipped
    BY DEF Init, NoticeNotSkipped
  <2>2. Logged /\ RevokedOnce
    BY <1>4 DEF Logged, RevokedOnce, Unrevoked
  <2> QED BY <2>1, <2>2
<1>11. \A s \in Sessions : Revoking(s)
  BY NullAssumption DEF Init, Revoking, Event
<1>12. Silent
  BY DEF Init, Silent
<1> QED BY <1>6, <1>7, <1>8, <1>9, <1>10, <1>11, <1>12 DEF IInv

\* Every step of every session.
LEMMA StepKeeps == ASSUME IInv, [Next]_vars PROVE IInv'
<1>1. CASE UNCHANGED vars
  BY <1>1 DEF vars, IInv, TypeInv, Unwritten, Untouched, Silent, At, Locks, Plans, Writes, Flags, One, View, Apart,
              Gives, Justified, OneGiven, Has, Logged, RevokedOnce, NoticeNotSkipped, Revoking, Target, Open
<1>2. ASSUME NEW s \in Sessions, Step(s) PROVE IInv'
  <2>1. CASE Begin(s) \/ NextCreate(s)
    BY <2>1, BeginKeeps, NextCreateKeeps
  <2>2. CASE Reader(s)
    BY <2>2, ReaderIs, ReadsKeep DEF IInv
  <2>3. CASE ResolveApply(s) \/ LastFlush(s)
    BY <2>3, FlushKeeps DEF ResolveApply, LastFlush, Shared
  <2>4. CASE RevokeUpdate(s)
    BY <2>4, UpdateKeeps
  <2>5. CASE Commit(s)
    BY <2>5, CommitKeeps
  <2>6. CASE RollBack(s)
    BY <2>6, RollBackKeeps
  <2> QED BY <1>2, <2>1, <2>2, <2>3, <2>4, <2>5, <2>6 DEF Step, Reader
<1> QED BY <1>1, <1>2 DEF Next

----------------------------------------------------------------------------
\* Sessions that overlap at every statement keep the inductive invariant.
THEOREM Invariance == Spec => []IInv
<1>1. IInv /\ [Next]_vars => IInv'
  BY StepKeeps
<1> QED BY <1>1, InitHolds, PTL DEF Spec

\* The table keeps its columns' types, a row is locked by one open transaction
\* only, and a session that has ended holds no lock.
THEOREM SessionsTyped == Spec => []TypeOK
<1>1. IInv => TypeOK
  <2> SUFFICES ASSUME IInv PROVE TypeOK
    OBVIOUS
  <2>1. rows \in [Items -> Row] /\ \A s \in Sessions : DOMAIN writes[s] \subseteq Items
    BY DEF IInv, TypeInv, Table, Parts
  <2>2. \A s \in Sessions : s \notin Open => DOMAIN writes[s] = {}
    BY DEF IInv, Unwritten, Untouched, Open
  <2>3. \A i \in Items, s, t \in Sessions : i \in DOMAIN writes[s] /\ i \in DOMAIN writes[t] => s = t
    BY DEF IInv, Locks
  <2> QED BY <2>1, <2>2, <2>3 DEF TypeOK
<1> QED BY <1>1, Invariance, PTL

\* The partial unique index makes every call's read-then-write of the active
\* flag safe: the committed table never has two active rows.
THEOREM OneRowIsActive == Spec => []OneActiveRow
<1>1. IInv => OneActiveRow
  BY OneIsCardinality DEF IInv, TypeInv, Flags, OneActiveRow
<1> QED BY <1>1, Invariance, PTL

\* The conditional UPDATE of revoke_decision lets one of two revocations of the
\* same approval through, wherever the other one stands.
THEOREM RevocationsAlternate == Spec => []RevokedOnce
<1>1. IInv => RevokedOnce
  BY DEF IInv
<1> QED BY <1>1, Invariance, PTL

\* The order of send and record in the reminder job never skips the notice,
\* whatever else runs, fails or is rolled back between the two.
THEOREM NoticesReachTelegram == Spec => []NoticeNotSkipped
<1>1. IInv => NoticeNotSkipped
  BY DEF IInv
<1> QED BY <1>1, Invariance, PTL

----------------------------------------------------------------------------
(***************************************************************************)
(* One transaction at a time.  A call then sees the table it leaves        *)
(* behind: its copies agree with its view, its view differs from the       *)
(* committed table by what it has flushed, and what it is about to commit, *)
(* with all the rows it has created, is the outcome of one step of the     *)
(* lifecycle.                                                              *)
(***************************************************************************)
\* A row says one thing in its status, its flag, its position and its resolution.
SoundRow(r) ==
    /\ r["active"] = TRUE <=> r["status"] \in ActiveStatus
    /\ r["pos"] # Null <=> r["status"] = "queued"
    /\ r["res"] = IF r["status"] \in Resolution THEN r["status"] ELSE Null
Sound(t) == One(t) /\ NoneStranded(t) /\ \A i \in Items : SoundRow(t[i])

\* t is u with the columns p of row x, and with some queued rows moved.
Moved(t, u, x, p) ==
    \A i \in Items :
        /\ \A c \in Column :
              IF i = x /\ c \in DOMAIN p THEN t[i][c] = p[c] ELSE c # "pos" => t[i][c] = u[i][c]
        /\ ~(i = x /\ "pos" \in DOMAIN p) => (t[i]["pos"] # Null <=> u[i]["pos"] # Null)

\* t and u say the same about every row but x.
SameBut(t, u, x) ==
    \A i \in Items \ {x} :
        /\ t[i]["status"] = u[i]["status"] /\ t[i]["active"] = u[i]["active"]
        /\ t[i]["res"] = u[i]["res"] /\ (t[i]["pos"] # Null <=> u[i]["pos"] # Null)

\* A step of the lifecycle, from the table t to the table u
Decisions(t) == [i \in Items |-> t[i]["res"]]
Entered(t, u, S) ==
    IF ActiveIn(t) = {}
    THEN \E i \in S : ActiveIn(u) = {i} /\ QueuedIn(u) = QueuedIn(t) \cup (S \ {i})
    ELSE QueuedIn(u) = QueuedIn(t) \cup S /\ ActiveIn(u) = ActiveIn(t)
KnownIn(t) == QueuedIn(t) \cup ActiveIn(t) \cup {i \in Items : Decisions(t)[i] # Null}
Recommended(t, u, S) ==
    S # {} /\ S \cap KnownIn(t) = {} /\ Entered(t, u, S) /\ Decisions(u) = Decisions(t)
Decided(t, u, i, r) ==
    /\ i \in ActiveIn(t) /\ Decisions(u) = [Decisions(t) EXCEPT ![i] = r]
    /\ \/ QueuedIn(t) = {} /\ ActiveIn(u) = {} /\ QueuedIn(u) = QueuedIn(t)
       \/ \E n \in QueuedIn(t) : ActiveIn(u) = {n} /\ QueuedIn(u) = QueuedIn(t) \ {n}
TakenBack(t, u, i) ==
    /\ t[i]["res"] = "approved" /\ Entered(t, u, {i})
    /\ Decisions(u) = [Decisions(t) EXCEPT ![i] = Null]
Unmoved(t, u) ==
    QueuedIn(u) = QueuedIn(t) /\ ActiveIn(u) = ActiveIn(t) /\ Decisions(u) = Decisions(t)

\* What creating rows, and what any transaction, may make of the table
Created(t, u) == Sound(u) /\ (Unmoved(t, u) \/ \E S \in SUBSET Items : Recommended(t, u, S))
Outcome(t, u) ==
    /\ Sound(u)
    /\ \/ Unmoved(t, u)
       \/ \E S \in SUBSET Items : Recommended(t, u, S)
       \/ \E i \in Items : TakenBack(t, u, i) \/ \E r \in Resolution : Decided(t, u, i, r)

\* What the only open session is about to do
Answer(s) == [res |-> call[s].res, status |-> call[s].res, active |-> FALSE]
Answered(s) == Target(s) \in ActiveIn(rows) /\ Moved(View(s), rows, Target(s), Answer(s))
Withdrawn(s) ==
    /\ rows[Target(s)]["status"] = "approved" /\ Target(s) \in DOMAIN seen[s]
    /\ Moved(View(s), rows, Target(s), [res |-> Null])
Agree(s) == \A i \in DOMAIN seen[s] : seen[s][i] = View(s)[i]
Whole(s) == \A i \in DOMAIN plan[s] : i \in DOMAIN seen[s] \/ DOMAIN plan[s][i] = Column

Halfway(s) ==
    /\ Agree(s)
    /\ call[s].kind = "create" /\ pc[s] \in {"get", "queue"} =>
          Created(rows, View(s)) /\ View(s)[Target(s)]["status"] = Null
    /\ call[s].kind # "create" /\ pc[s] = "get" => DOMAIN seen[s] = {}
    /\ pc[s] = "active" => call[s].kind = "resolve" \/ (call[s].kind = "revoke" /\ Withdrawn(s))
    /\ pc[s] = "apply" =>
          /\ call[s].kind = "resolve" /\ View(s) = rows /\ Target(s) \in ActiveIn(rows)
          /\ Target(s) \in DOMAIN seen[s] /\ plan[s] = Target(s) :> Answer(s)
    /\ pc[s] = "queue" =>
          \/ call[s].kind = "resolve" /\ Answered(s)
          \/ call[s].kind = "revoke" /\ Withdrawn(s) /\ ActiveIn(rows) # {}
          \/ call[s].kind = "create" /\ ActiveIn(View(s)) # {}
          \/ call[s].kind = "reorder" /\ View(s) = rows
    /\ pc[s] = "send" =>
          call[s].kind = "remind" /\ View(s) = rows /\ DOMAIN seen[s] \subseteq ActiveIn(rows)
    /\ pc[s] = "flush" =>
          /\ Whole(s) /\ Outcome(rows, ViewOf(plan[s], View(s)))
          /\ call[s].kind = "create" => Created(rows, ViewOf(plan[s], View(s)))
    /\ pc[s] = "commit" =>
          Outcome(rows, View(s)) /\ (call[s].kind = "create" => Created(rows, View(s)))

\* One transaction at a time
Serial ==
    /\ Sound(rows)
    /\ \A s \in Sessions : pc[s] = "idle" => DOMAIN seen[s] = {}
    /\ \A s, t \in Open : s = t
    /\ \A s \in Open : Halfway(s)

----------------------------------------------------------------------------
(***************************************************************************)
(* Tables before and after a call                                          *)
(***************************************************************************)
\* The queries, column by column.
LEMMA TableSets ==
    ASSUME NEW t \in Table
    PROVE  /\ ActiveIn(t) \subseteq Items /\ QueuedIn(t) \subseteq Items
           /\ \A i \in Items : t[i]["active"] \in BOOLEAN
           /\ \A i \in Items : i \in ActiveIn(t) <=> t[i]["active"] = TRUE
           /\ \A i \in Items : i \in QueuedIn(t) <=> t[i]["status"] = "queued"
           /\ \A i \in Items : Decisions(t)[i] = t[i]["res"]
<1>1. \A i \in Items : t[i]["active"] \in BOOLEAN
  BY DEF Table, Row
<1>2. \A i \in Items : Decisions(t)[i] = t[i]["res"]
  BY DEF Decisions
<1> QED BY <1>1, <1>2 DEF ActiveIn, QueuedIn

\* Tables with the same columns are the same.
LEMMA SameTable ==
    ASSUME NEW t \in Table, NEW u \in Table, \A i \in Items, c \in Column : t[i][c] = u[i][c]
    PROVE  t = u
<1>1. ASSUME NEW i \in Items PROVE t[i] = u[i]
  <2>1. t[i] \in Row /\ u[i] \in Row
    BY DEF Table
  <2>2. \A c \in Column : t[i][c] = u[i][c]
    OBVIOUS
  <2>3. /\ t[i]["status"] = u[i]["status"] /\ t[i]["active"] = u[i]["active"]
        /\ t[i]["pos"] = u[i]["pos"] /\ t[i]["res"] = u[i]["res"] /\ t[i]["notice"] = u[i]["notice"]
    BY <2>2 DEF Column
  <2> QED BY <2>1, <2>3 DEF Row
<1> QED BY <1>1 DEF Table

\* One row assigned and queued rows moved.
LEMMA MovedIs ==
    ASSUME NEW u \in Table, NEW x \in Items, NEW p, NEW f, Parts(f), x \in DOMAIN f, f[x] = p,
           \A q \in DOMAIN f : q # x => /\ DOMAIN f[q] = {"pos"} /\ f[q]["pos"] # Null
                                        /\ u[q]["pos"] # Null
    PROVE  ViewOf(f, u) \in Table /\ Moved(ViewOf(f, u), u, x, p)
<1> DEFINE t == ViewOf(f, u)
<1>1. t \in Table /\ \A i \in Items, c \in Column : t[i][c] = IF Has(f, i, c) THEN f[i][c] ELSE u[i][c]
  BY ViewOfIs
<1> HIDE DEF t
<1>2. ASSUME NEW i \in Items
      PROVE  /\ \A c \in Column :
                   IF i = x /\ c \in DOMAIN p THEN t[i][c] = p[c] ELSE c # "pos" => t[i][c] = u[i][c]
             /\ ~(i = x /\ "pos" \in DOMAIN p) => (t[i]["pos"] # Null <=> u[i]["pos"] # Null)
  <2>1. "pos" \in Column
    BY DEF Column
  <2>2. \A c \in Column : t[i][c] = IF Has(f, i, c) THEN f[i][c] ELSE u[i][c]
    BY <1>1
  <2>3. CASE i = x
    BY <2>1, <2>2, <2>3 DEF Has
  <2>4. CASE i # x
    <3>1. \A c \in Column : Has(f, i, c) => c = "pos" /\ f[i]["pos"] # Null /\ u[i]["pos"] # Null
      BY <2>4 DEF Has
    <3> QED BY <2>1, <2>2, <2>4, <3>1
  <2> QED BY <2>3, <2>4
<1> QED BY <1>1, <1>2 DEF Moved, t

\* What that leaves alone, and the row it changes.
LEMMA MovedSays ==
    ASSUME NEW t, NEW u, NEW x \in Items, NEW p, Moved(t, u, x, p)
    PROVE  /\ SameBut(t, u, x)
           /\ \A c \in Column : IF c \in DOMAIN p THEN t[x][c] = p[c]
                                ELSE c # "pos" => t[x][c] = u[x][c]
           /\ "pos" \notin DOMAIN p => (t[x]["pos"] # Null <=> u[x]["pos"] # Null)
<1>1. {"status", "active", "res"} \subseteq Column
  BY DEF Column
<1> QED BY <1>1 DEF Moved, SameBut

\* An unchanged table.
LEMMA Rests == ASSUME NEW t, Sound(t) PROVE Outcome(t, t)
BY DEF Outcome, Unmoved

\* A row that entered, in front of the owner or behind those that wait.
LEMMA Enters ==
    ASSUME NEW t \in Table, NEW u \in Table, NEW x \in Items, Sound(u), SameBut(t, u, x),
           x \notin QueuedIn(u), x \notin ActiveIn(u), SoundRow(t[x]),
           t[x]["status"] = IF ActiveIn(u) = {} THEN "pending" ELSE "queued"
    PROVE  Entered(u, t, {x}) /\ Sound(t)
<1>1. \A i \in Items : SoundRow(t[i])
  BY DEF SameBut, Sound, SoundRow
<1>2. \A i \in Items \ {x} : /\ i \in ActiveIn(t) <=> i \in ActiveIn(u)
                             /\ i \in QueuedIn(t) <=> i \in QueuedIn(u)
  BY DEF SameBut, ActiveIn, QueuedIn
<1>3. /\ x \in ActiveIn(t) <=> ActiveIn(u) = {}
      /\ x \in QueuedIn(t) <=> ActiveIn(u) # {}
  BY TableSets DEF SoundRow, ActiveStatus
<1>4. /\ ActiveIn(t) \subseteq Items /\ QueuedIn(t) \subseteq Items
      /\ ActiveIn(u) \subseteq Items /\ QueuedIn(u) \subseteq Items
  BY TableSets
<1>5. Entered(u, t, {x})
  <2>1. CASE ActiveIn(u) = {}
    <3>1. ActiveIn(t) = {x} /\ QueuedIn(t) = QueuedIn(u) \cup ({x} \ {x})
      BY <1>2, <1>3, <1>4, <2>1
    <3> QED BY <2>1, <3>1 DEF Entered
  <2>2. CASE ActiveIn(u) # {}
    <3>1. QueuedIn(t) = QueuedIn(u) \cup {x} /\ ActiveIn(t) = ActiveIn(u)
      BY <1>2, <1>3, <1>4, <2>2
    <3> QED BY <2>2, <3>1 DEF Entered
  <2> QED BY <2>1, <2>2
<1>6. \A i, j \in ActiveIn(u) : i = j
  BY <1>4, TableSets DEF Sound, One
<1>7. (\A i, j \in ActiveIn(t) : i = j) /\ ActiveIn(t) # {}
  BY <1>5, <1>6 DEF Entered
<1>8. One(t) /\ NoneStranded(t)
  BY <1>4, <1>7, TableSets DEF One, NoneStranded
<1> QED BY <1>1, <1>5, <1>8 DEF Sound

\* The active row with the owner's answer, and nothing that waits.
LEMMA AnswersLast ==
    ASSUME NEW t \in Table, NEW u \in Table, NEW x \in Items, NEW r \in Resolution, Sound(u),
           x \in ActiveIn(u), Moved(t, u, x, [res |-> r, status |-> r, active |-> FALSE]),
           QueuedIn(t) = {}
    PROVE  Outcome(u, t)
<1> DEFINE p == [res |-> r, status |-> r, active |-> FALSE]
<1>1. DOMAIN p = {"res", "status", "active"} /\ p["res"] = r /\ p["status"] = r /\ p["active"] = FALSE
  OBVIOUS
<1>2. Moved(t, u, x, p)
  OBVIOUS
<1> HIDE DEF p
<1>3. /\ SameBut(t, u, x) /\ t[x]["res"] = r /\ t[x]["status"] = r /\ t[x]["active"] = FALSE
      /\ t[x]["pos"] # Null <=> u[x]["pos"] # Null
  BY <1>1, <1>2, MovedSays DEF Column
<1>4. r \notin ActiveStatus /\ r # "queued"
  BY DEF Resolution, ActiveStatus
<1>5. u[x]["status"] \in ActiveStatus /\ u[x]["pos"] = Null
  BY TableSets DEF Sound, SoundRow, ActiveStatus
<1>6. \A i \in Items : SoundRow(t[i])
  BY <1>3, <1>4, <1>5 DEF SameBut, Sound, SoundRow
<1>7. \A i \in Items \ {x} : /\ i \in ActiveIn(t) <=> i \in ActiveIn(u)
                             /\ i \in QueuedIn(t) <=> i \in QueuedIn(u)
                             /\ Decisions(t)[i] = Decisions(u)[i]
  <2>1. \A i \in Items : Decisions(t)[i] = t[i]["res"] /\ Decisions(u)[i] = u[i]["res"]
    BY DEF Decisions
  <2>2. \A i \in Items \ {x} : /\ t[i]["active"] = u[i]["active"] /\ t[i]["status"] = u[i]["status"]
                        /\ t[i]["res"] = u[i]["res"]
    BY <1>3, SMT DEF SameBut
  <2>3. \A i \in Items \ {x} : i \in ActiveIn(t) <=> i \in ActiveIn(u)
    BY <2>2 DEF ActiveIn, QueuedIn
  <2>4. \A i \in Items \ {x} : i \in QueuedIn(t) <=> i \in QueuedIn(u)
    BY <2>2 DEF ActiveIn, QueuedIn
  <2> QED BY <2>1, <2>2, <2>3, <2>4
<1>8. x \notin ActiveIn(t) /\ x \notin QueuedIn(u) /\ Decisions(t)[x] = r
  BY <1>3, <1>5, TableSets DEF ActiveStatus
<1>9. ActiveIn(t) \subseteq Items /\ QueuedIn(u) \subseteq Items /\ ActiveIn(u) \subseteq Items
  BY TableSets
<1>10. \A i, j \in ActiveIn(u) : i = j
  BY <1>9, TableSets DEF Sound, One
<1>11. ActiveIn(t) = {} /\ QueuedIn(u) = {}
  BY <1>7, <1>8, <1>9, <1>10
<1>12. Decisions(t) = [Decisions(u) EXCEPT ![x] = r]
  BY <1>7, <1>8 DEF Decisions
<1>13. One(t) /\ NoneStranded(t)
  BY <1>11, TableSets DEF One, NoneStranded
<1> QED BY <1>6, <1>11, <1>12, <1>13 DEF Outcome, Sound, Decided

\* The active row with the owner's answer, and a queued row in its place.
LEMMA AnswersAndAdvances ==
    ASSUME NEW t \in Table, NEW v \in Table, NEW u \in Table, NEW x \in Items, NEW r \in Resolution,
           Sound(u), x \in ActiveIn(u),
           Moved(v, u, x, [res |-> r, status |-> r, active |-> FALSE]), NEW n \in QueuedIn(v),
           Moved(t, v, n, [status |-> "pending", active |-> TRUE, pos |-> Null])
    PROVE  Outcome(u, t)
<1> DEFINE p == [res |-> r, status |-> r, active |-> FALSE]
           q == [status |-> "pending", active |-> TRUE, pos |-> Null]
<1>1. DOMAIN p = {"res", "status", "active"} /\ p["res"] = r /\ p["status"] = r /\ p["active"] = FALSE
  OBVIOUS
<1>2. DOMAIN q = {"status", "active", "pos"} /\ q["status"] = "pending" /\ q["active"] = TRUE
      /\ q["pos"] = Null
  OBVIOUS
<1>3. Moved(v, u, x, p) /\ Moved(t, v, n, q)
  OBVIOUS
<1> HIDE DEF p, q
<1>4. /\ SameBut(v, u, x) /\ v[x]["res"] = r /\ v[x]["status"] = r /\ v[x]["active"] = FALSE
      /\ v[x]["pos"] # Null <=> u[x]["pos"] # Null
  BY <1>1, <1>3, MovedSays DEF Column
<1>5. n \in Items /\ v[n]["status"] = "queued"
  BY TableSets
<1>6. /\ SameBut(t, v, n) /\ t[n]["status"] = "pending" /\ t[n]["active"] = TRUE
      /\ t[n]["pos"] = Null /\ t[n]["res"] = v[n]["res"]
  BY <1>2, <1>3, <1>5, MovedSays DEF Column
<1>7. r \notin ActiveStatus /\ r # "queued" /\ n # x
  BY <1>4, <1>5 DEF Resolution, ActiveStatus
<1>8. u[x]["status"] \in ActiveStatus /\ u[x]["pos"] = Null
  BY TableSets DEF Sound, SoundRow, ActiveStatus
<1>9. u[n]["status"] = "queued" /\ u[n]["res"] = v[n]["res"] /\ u[n]["res"] = Null /\ n \in QueuedIn(u)
  BY <1>4, <1>5, <1>7, TableSets DEF SameBut, Sound, SoundRow, Resolution
<1>10. \A i \in Items : SoundRow(v[i])
  BY <1>4, <1>7, <1>8 DEF SameBut, Sound, SoundRow
<1>11. \A i \in Items : SoundRow(t[i])
  BY <1>6, <1>9, <1>10 DEF SameBut, SoundRow, ActiveStatus, Resolution
<1>12. \A i \in Items \ {x, n} : /\ i \in ActiveIn(t) <=> i \in ActiveIn(u)
                                 /\ i \in QueuedIn(t) <=> i \in QueuedIn(u)
                                 /\ Decisions(t)[i] = Decisions(u)[i]
  <2>1. \A i \in Items : Decisions(t)[i] = t[i]["res"] /\ Decisions(u)[i] = u[i]["res"]
    BY DEF Decisions
  <2>2. \A i \in Items \ {x, n} : /\ t[i]["active"] = u[i]["active"] /\ t[i]["status"] = u[i]["status"]
                        /\ t[i]["res"] = u[i]["res"]
    BY <1>4, <1>6, SMT DEF SameBut
  <2>3. \A i \in Items \ {x, n} : i \in ActiveIn(t) <=> i \in ActiveIn(u)
    BY <2>2 DEF ActiveIn, QueuedIn
  <2>4. \A i \in Items \ {x, n} : i \in QueuedIn(t) <=> i \in QueuedIn(u)
    BY <2>2 DEF ActiveIn, QueuedIn
  <2> QED BY <2>1, <2>2, <2>3, <2>4
<1>13. /\ x \notin ActiveIn(t) /\ x \notin QueuedIn(u) /\ x \notin QueuedIn(t) /\ Decisions(t)[x] = r
       /\ n \in ActiveIn(t) /\ n \notin QueuedIn(t) /\ Decisions(t)[n] = Decisions(u)[n]
  <2>1. \A i \in Items : Decisions(t)[i] = t[i]["res"] /\ Decisions(u)[i] = u[i]["res"]
    BY DEF Decisions
  <2>2. t[x]["active"] = FALSE /\ t[x]["status"] = r /\ t[x]["res"] = r
    BY <1>4, <1>6, <1>7 DEF SameBut
  <2>3. Decisions(t)[x] = r /\ Decisions(t)[n] = Decisions(u)[n]
    BY <1>5, <1>6, <1>9, <2>1, <2>2
  <2>4. x \notin QueuedIn(u) /\ x \notin QueuedIn(t) /\ n \notin QueuedIn(t)
    BY <1>5, <1>6, <1>7, <1>8, <2>2, TableSets DEF ActiveStatus
  <2>5. x \notin ActiveIn(t) /\ n \in ActiveIn(t)
    BY <1>5, <1>6, <2>2, TableSets
  <2> QED BY <2>3, <2>4, <2>5
<1>14. /\ ActiveIn(t) \subseteq Items /\ QueuedIn(u) \subseteq Items /\ ActiveIn(u) \subseteq Items
       /\ QueuedIn(t) \subseteq Items
  BY TableSets
<1>15. \A i, j \in ActiveIn(u) : i = j
  BY <1>14, TableSets DEF Sound, One
<1>16. ActiveIn(t) = {n} /\ QueuedIn(t) = QueuedIn(u) \ {n}
  BY <1>9, <1>12, <1>13, <1>14, <1>15
<1>17. Decisions(t) = [Decisions(u) EXCEPT ![x] = r]
  BY <1>12, <1>13 DEF Decisions
<1>18. One(t) /\ NoneStranded(t)
  <2>1. \A i \in Items : t[i]["active"] = TRUE => i = n
    BY <1>16 DEF ActiveIn
  <2> QED BY <1>16, <2>1 DEF One, NoneStranded
<1> QED BY <1>9, <1>11, <1>16, <1>17, <1>18 DEF Outcome, Sound, Decided

\* A change that no query and no decision shows.
LEMMA Stays ==
    ASSUME NEW t \in Table, NEW u \in Table, NEW x \in Items, Sound(u), SameBut(t, u, x),
           SoundRow(t[x]), t[x]["active"] = u[x]["active"], t[x]["res"] = u[x]["res"],
           t[x]["status"] = "queued" <=> u[x]["status"] = "queued"
    PROVE  Outcome(u, t)
<1>1. \A i \in Items : SoundRow(t[i])
  BY DEF SameBut, Sound, SoundRow
<1>2. \A i \in Items : /\ i \in ActiveIn(t) <=> i \in ActiveIn(u)
                       /\ i \in QueuedIn(t) <=> i \in QueuedIn(u)
                       /\ Decisions(t)[i] = Decisions(u)[i]
  <2>1. \A i \in Items : /\ t[i]["active"] = u[i]["active"] /\ t[i]["res"] = u[i]["res"]
                         /\ t[i]["status"] = "queued" <=> u[i]["status"] = "queued"
    BY DEF SameBut
  <2>2. \A i \in Items : i \in ActiveIn(t) <=> i \in ActiveIn(u)
    BY <2>1 DEF ActiveIn
  <2>3. \A i \in Items : i \in QueuedIn(t) <=> i \in QueuedIn(u)
    BY <2>1 DEF QueuedIn
  <2>4. \A i \in Items : Decisions(t)[i] = Decisions(u)[i]
    BY <2>1 DEF Decisions
  <2> QED BY <2>2, <2>3, <2>4
<1>3. ActiveIn(t) = ActiveIn(u) /\ QueuedIn(t) = QueuedIn(u)
  BY <1>2, TableSets
<1>4. Decisions(t) = Decisions(u)
  BY <1>2 DEF Decisions
<1>5. One(t) /\ NoneStranded(t)
  BY <1>3, TableSets DEF Sound, One, NoneStranded
<1> QED BY <1>1, <1>3, <1>4, <1>5 DEF Outcome, Sound, Unmoved

----------------------------------------------------------------------------
(***************************************************************************)
(* What a statement of the only open session does                          *)
(***************************************************************************)
\* A session without writes sees the committed table.
LEMMA Calm == ASSUME TypeInv, NEW s \in Sessions, DOMAIN writes[s] = {} PROVE View(s) = rows
BY DEF View, TypeInv, Table

\* Rows read beside rows held agree with the view if those held do.
LEMMA LoadedAgrees ==
    ASSUME TypeInv, NEW s \in Sessions, Agree(s), NEW S \in SUBSET Items
    PROVE  /\ DOMAIN Loaded(s, S) = DOMAIN seen[s] \cup S
           /\ \A i \in DOMAIN Loaded(s, S) : Loaded(s, S)[i] = View(s)[i]
<1> DEFINE read == [i \in S |-> View(s)[i]]
<1>1. Loaded(s, S) = seen[s] @@ read
  BY DEF Loaded
<1>2. DOMAIN read = S /\ \A i \in S : read[i] = View(s)[i]
  OBVIOUS
<1> HIDE DEF read
<1> QED BY <1>1, <1>2 DEF @@, Agree

\* One row assigned, and queued rows moved by d.
LEMMA ShiftMoves ==
    ASSUME TypeInv, NEW s \in Sessions, Agree(s), NEW x \in Items, NEW p, Part(p),
           NEW S, S \subseteq QueuedIn(View(s)), NEW d \in Int,
           CanShift(Loaded(s, QueuedIn(View(s))), S)
    PROVE  LET f == (x :> p) @@ Shift(Loaded(s, QueuedIn(View(s))), S, d)
           IN  /\ DOMAIN f \subseteq {x} \cup QueuedIn(View(s)) /\ x \in DOMAIN f /\ f[x] = p
               /\ ViewOf(f, View(s)) \in Table /\ Moved(ViewOf(f, View(s)), View(s), x, p)
<1> DEFINE queued == QueuedIn(View(s))
           copies == Loaded(s, queued)
           moved == Shift(copies, S, d)
           f == (x :> p) @@ moved
<1>1. queued \in SUBSET Items /\ View(s) \in Table
  BY Tables, ViewIs
<1>2. Copies(copies) /\ S \subseteq DOMAIN copies /\ \A q \in S : copies[q] = View(s)[q]
  BY <1>1, LoadedIs, LoadedAgrees
<1>3. CanShift(copies, S)
  OBVIOUS
<1> HIDE DEF copies
<1>4. /\ Parts(f) /\ x \in DOMAIN f /\ f[x] = p
      /\ \A q \in DOMAIN f : q # x => DOMAIN f[q] = {"pos"}
  BY <1>2, <1>3, MovePlan
<1>5. DOMAIN moved = S /\ \A q \in S : moved[q] = [pos |-> copies[q].pos + d]
  BY DEF Shift
<1> HIDE DEF moved
<1>6. DOMAIN f = {x} \cup S /\ \A q \in S : q # x => f[q] = moved[q]
  <2>1. DOMAIN (x :> p) = {x}
    BY OneIs
  <2> QED BY <1>5, <2>1 DEF @@
<1>7. ASSUME NEW q \in S
      PROVE  copies[q]["pos"] \in Int /\ copies[q]["pos"] + d # Null /\ View(s)[q]["pos"] # Null
  <2>1. copies[q]["pos"] \in Int
    BY <1>2, <1>3, <1>7 DEF CanShift, Copies, Row
  <2>2. copies[q]["pos"] + d \in Int
    BY <2>1
  <2> QED BY <1>2, <1>7, <2>1, <2>2, NullAssumption
<1> HIDE DEF f
<1>8. \A q \in DOMAIN f : q # x => f[q]["pos"] # Null /\ View(s)[q]["pos"] # Null
  <2>1. \A q \in DOMAIN f : q # x => q \in S /\ f[q] = [pos |-> copies[q].pos + d]
    BY <1>5, <1>6
  <2>2. \A n : [pos |-> n]["pos"] = n
    OBVIOUS
  <2> QED BY <1>7, <2>1, <2>2
<1>9. ViewOf(f, View(s)) \in Table /\ Moved(ViewOf(f, View(s)), View(s), x, p)
  BY <1>1, <1>4, <1>8, MovedIs
<1>10. S \subseteq queued
  OBVIOUS
<1> QED BY <1>4, <1>6, <1>9, <1>10 DEF f, moved, copies

\* One row assigned.
LEMMA OneMoves ==
    ASSUME NEW v \in Table, NEW x \in Items, NEW p, Part(p)
    PROVE  /\ DOMAIN (x :> p) = {x} /\ (x :> p)[x] = p
           /\ ViewOf(x :> p, v) \in Table /\ Moved(ViewOf(x :> p, v), v, x, p)
<1> DEFINE f == x :> p
<1>1. DOMAIN f = {x} /\ f[x] = p
  BY OneIs
<1> HIDE DEF f
<1>2. Parts(f)
  BY <1>1 DEF Parts
<1>3. ViewOf(f, v) \in Table /\ Moved(ViewOf(f, v), v, x, p)
  BY <1>1, <1>2, MovedIs
<1> QED BY <1>1, <1>3 DEF f

\* A flush makes the view what was planned for it, and the copies follow.
LEMMA FlushMakes ==
    ASSUME TypeInv, NEW s \in Sessions, Flush(s), UNCHANGED rows, Agree(s), Whole(s)
    PROVE  View(s)' = ViewOf(plan[s], View(s)) /\ Agree(s)'
<1> DEFINE v == View(s)
           t == ViewOf(plan[s], v)
           u == ViewOf(writes'[s], rows)
<1>1. /\ v \in Table /\ v = ViewOf(writes[s], rows) /\ rows \in Table
      /\ Parts(plan[s]) /\ Parts(writes[s]) /\ Parts(writes'[s]) /\ Copies(seen'[s])
  BY ViewIs, FlushIs DEF TypeInv
<1>2. \A i \in Items, c \in Column : v[i][c] = IF Has(writes[s], i, c) THEN writes[s][i][c] ELSE rows[i][c]
  BY <1>1, ViewOfIs
<1>3. u \in Table
      /\ \A i \in Items, c \in Column : u[i][c] = IF Has(writes'[s], i, c) THEN writes'[s][i][c] ELSE rows[i][c]
  BY <1>1, ViewOfIs
<1> HIDE DEF v
<1>4. t \in Table
      /\ \A i \in Items, c \in Column : t[i][c] = IF Has(plan[s], i, c) THEN plan[s][i][c] ELSE v[i][c]
  BY <1>1, ViewOfIs
<1>5. View(s)' = u
  BY DEF View, ViewOf
<1> HIDE DEF t, u
<1>6. ASSUME NEW i \in Items, NEW c \in Column PROVE u[i][c] = t[i][c]
  <2>1. /\ Has(writes[s], i, c) => Has(writes'[s], i, c)
        /\ Has(writes'[s], i, c) =>
              \/ Has(plan[s], i, c) /\ writes'[s][i][c] = plan[s][i][c]
              \/ Has(writes[s], i, c) /\ writes'[s][i][c] = writes[s][i][c]
        /\ Has(plan[s], i, c) /\ (i \in DOMAIN seen[s] => plan[s][i][c] # seen[s][i][c]) =>
              Has(writes'[s], i, c) /\ writes'[s][i][c] = plan[s][i][c]
    BY FlushIs
  <2>2. i \in DOMAIN seen[s] => seen[s][i][c] = v[i][c]
    BY DEF Agree, v
  <2>3. /\ v[i][c] = IF Has(writes[s], i, c) THEN writes[s][i][c] ELSE rows[i][c]
        /\ u[i][c] = IF Has(writes'[s], i, c) THEN writes'[s][i][c] ELSE rows[i][c]
        /\ t[i][c] = IF Has(plan[s], i, c) THEN plan[s][i][c] ELSE v[i][c]
    BY <1>2, <1>3, <1>4
  <2> QED BY <2>1, <2>2, <2>3
<1>7. u = t
  BY <1>3, <1>4, <1>6, SameTable
<1>8. Agree(s)'
  <2> DEFINE old(i) == IF i \in DOMAIN seen[s] THEN seen[s][i] ELSE NoRow
             fresh == [i \in DOMAIN plan[s] |-> plan[s][i] @@ old(i)]
  <2>1. seen'[s] = fresh @@ seen[s]
    BY DEF Flush, TypeInv
  <2>2. DOMAIN fresh = DOMAIN plan[s] /\ \A i \in DOMAIN plan[s] : fresh[i] = plan[s][i] @@ old(i)
    OBVIOUS
  <2>3. \A i \in DOMAIN seen[s] : old(i) = seen[s][i]
    OBVIOUS
  <2> HIDE DEF fresh
  <2>4. /\ DOMAIN seen'[s] = DOMAIN plan[s] \cup DOMAIN seen[s]
        /\ \A i \in DOMAIN plan[s] : seen'[s][i] = plan[s][i] @@ old(i)
        /\ \A i \in DOMAIN seen[s] : i \notin DOMAIN plan[s] => seen'[s][i] = seen[s][i]
    BY <2>1, <2>2 DEF @@
  <2> HIDE DEF old
  <2>5. ASSUME NEW i \in DOMAIN seen'[s], NEW c \in Column PROVE seen'[s][i][c] = t[i][c]
    <3>1. i \in Items
      BY <1>1 DEF Copies
    <3>2. t[i][c] = IF Has(plan[s], i, c) THEN plan[s][i][c] ELSE v[i][c]
      BY <1>4, <3>1
    <3>3. i \in DOMAIN seen[s] => seen[s][i][c] = v[i][c] /\ DOMAIN seen[s][i] = Column
      BY RowIsPart DEF Agree, v, TypeInv, Copies
    <3>4. CASE i \in DOMAIN plan[s]
      <4>1. c \in DOMAIN plan[s][i] => (plan[s][i] @@ old(i))[c] = plan[s][i][c]
        BY DEF @@
      <4>2. c \notin DOMAIN plan[s][i] /\ c \in DOMAIN old(i) => (plan[s][i] @@ old(i))[c] = old(i)[c]
        BY DEF @@
      <4>3. c \notin DOMAIN plan[s][i] => i \in DOMAIN seen[s]
        BY <3>4 DEF Whole
      <4> QED BY <2>3, <2>4, <3>2, <3>3, <3>4, <4>1, <4>2, <4>3 DEF Has
    <3>5. CASE i \notin DOMAIN plan[s]
      BY <2>4, <3>2, <3>3, <3>5 DEF Has
    <3> QED BY <3>4, <3>5
  <2>6. ASSUME NEW i \in DOMAIN seen'[s] PROVE seen'[s][i] = t[i]
    <3>1. seen'[s][i] \in Row /\ t[i] \in Row
      BY <1>1, <1>4 DEF Copies, Table
    <3>2. \A c \in Column : seen'[s][i][c] = t[i][c]
      BY <2>5
    <3>3. /\ seen'[s][i]["status"] = t[i]["status"] /\ seen'[s][i]["active"] = t[i]["active"]
          /\ seen'[s][i]["pos"] = t[i]["pos"] /\ seen'[s][i]["res"] = t[i]["res"]
          /\ seen'[s][i]["notice"] = t[i]["notice"]
      BY <3>2 DEF Column
    <3> QED BY <3>1, <3>3 DEF Row
  <2> QED BY <1>5, <1>7, <2>6 DEF Agree
<1> QED BY <1>5, <1>7, <1>8 DEF t, v

\* One row more enters, in front of the owner or behind the others.
LEMMA AddsOne ==
    ASSUME NEW b, NEW u, NEW t, NEW x \in Items, Created(b, u), Sound(t), x \notin KnownIn(u),
           Entered(u, t, {x}), Decisions(t) = Decisions(u)
    PROVE  Created(b, t)
<1>1. CASE Unmoved(b, u)
  <2>1. /\ QueuedIn(u) = QueuedIn(b) /\ ActiveIn(u) = ActiveIn(b) /\ Decisions(u) = Decisions(b)
        /\ KnownIn(u) = KnownIn(b)
    BY <1>1 DEF Unmoved, KnownIn
  <2>2. Entered(b, t, {x})
    BY <2>1 DEF Entered
  <2>3. {x} \cap KnownIn(b) = {} /\ {x} # {}
    BY <2>1
  <2>4. Recommended(b, t, {x})
    BY <2>1, <2>2, <2>3 DEF Recommended
  <2>5. {x} \in SUBSET Items
    OBVIOUS
  <2> QED BY <2>4, <2>5 DEF Created
<1>2. ASSUME NEW S \in SUBSET Items, Recommended(b, u, S) PROVE Created(b, t)
  <2> DEFINE R == S \cup {x}
  <2>1. /\ S # {} /\ S \cap KnownIn(b) = {} /\ Entered(b, u, S) /\ Decisions(u) = Decisions(b)
    BY <1>2 DEF Recommended
  <2>2. ActiveIn(u) # {} /\ QueuedIn(b) \subseteq QueuedIn(u) /\ ActiveIn(b) \subseteq ActiveIn(u)
    BY <2>1 DEF Entered
  <2>3. KnownIn(b) \subseteq KnownIn(u) /\ x \notin ActiveIn(u)
    BY <2>1, <2>2 DEF KnownIn
  <2>4. QueuedIn(t) = QueuedIn(u) \cup {x} /\ ActiveIn(t) = ActiveIn(u)
    BY <2>2 DEF Entered
  <2>5. Entered(b, t, R)
    <3>1. CASE ActiveIn(b) = {}
      <4>1. PICK i \in S : ActiveIn(u) = {i} /\ QueuedIn(u) = QueuedIn(b) \cup (S \ {i})
        BY <2>1, <3>1 DEF Entered
      <4>2. x # i
        BY <2>3, <4>1
      <4>3. i \in R /\ ActiveIn(t) = {i} /\ QueuedIn(t) = QueuedIn(b) \cup (R \ {i})
        BY <2>4, <4>1, <4>2
      <4> QED BY <3>1, <4>3 DEF Entered
    <3>2. CASE ActiveIn(b) # {}
      <4>1. QueuedIn(u) = QueuedIn(b) \cup S /\ ActiveIn(u) = ActiveIn(b)
        BY <2>1, <3>2 DEF Entered
      <4>2. QueuedIn(t) = QueuedIn(b) \cup R /\ ActiveIn(t) = ActiveIn(b)
        BY <2>4, <4>1
      <4> QED BY <3>2, <4>2 DEF Entered
    <3> QED BY <3>1, <3>2
  <2>6. R # {} /\ R \cap KnownIn(b) = {} /\ R \in SUBSET Items
    BY <2>1, <2>3
  <2>7. Recommended(b, t, R)
    BY <2>1, <2>5, <2>6 DEF Recommended
  <2> QED BY <2>6, <2>7 DEF Created
<1> QED BY <1>1, <1>2 DEF Created

\* A row that a classification created joins those that were created with it.
LEMMA Recommends ==
    ASSUME NEW b, NEW t \in Table, NEW u \in Table, NEW x \in Items, NEW p \in Row, Created(b, u),
           u[x]["status"] = Null, Moved(t, u, x, p), SoundRow(p), p["res"] = Null,
           p["status"] = IF ActiveIn(u) = {} THEN "pending" ELSE "queued"
    PROVE  Created(b, t)
<1>1. DOMAIN p = Column /\ Sound(u)
  BY RowIsPart DEF Created
<1>2. SameBut(t, u, x) /\ \A c \in Column : t[x][c] = p[c]
  BY <1>1, MovedSays
<1>3. /\ t[x]["status"] = p["status"] /\ t[x]["active"] = p["active"]
      /\ t[x]["pos"] = p["pos"] /\ t[x]["res"] = Null
  BY <1>2 DEF Column
<1>4. SoundRow(t[x])
  BY <1>3 DEF SoundRow
<1>5. Null # "queued" /\ Null \notin ActiveStatus /\ Null \notin Resolution
  BY NullAssumption DEF Event
<1>6. x \notin QueuedIn(u) /\ x \notin ActiveIn(u) /\ u[x]["res"] = Null
  <2>1. u[x]["active"] # TRUE /\ u[x]["res"] = Null
    BY <1>1, <1>5 DEF Sound, SoundRow
  <2> QED BY <1>5, <2>1 DEF QueuedIn, ActiveIn
<1>7. Entered(u, t, {x}) /\ Sound(t)
  BY <1>1, <1>2, <1>3, <1>4, <1>6, Enters
<1>8. Decisions(t) = Decisions(u)
  BY <1>2, <1>3, <1>6 DEF Decisions, SameBut
<1>9. x \notin KnownIn(u)
  BY <1>6 DEF KnownIn, Decisions
<1> QED BY <1>7, <1>8, <1>9, AddsOne

\* That is one outcome among others.
LEMMA CreatedIsOutcome == ASSUME NEW t, NEW u, Created(t, u) PROVE Outcome(t, u)
BY DEF Created, Outcome

\* A decision taken back enters the queue again.
LEMMA TakesBack ==
    ASSUME NEW t \in Table, NEW v \in Table, NEW u \in Table, NEW x \in Items, Sound(u),
           u[x]["status"] = "approved", Moved(v, u, x, [res |-> Null]), NEW p, Moved(t, v, x, p),
           DOMAIN p = {"status", "active", "pos"},
           p["status"] = IF ActiveIn(u) = {} THEN "pending" ELSE "queued",
           p["active"] = TRUE <=> ActiveIn(u) = {}, p["pos"] = Null <=> ActiveIn(u) = {}
    PROVE  Outcome(u, t)
<1> DEFINE q == [res |-> Null]
<1>1. DOMAIN q = {"res"} /\ q["res"] = Null /\ Moved(v, u, x, q)
  OBVIOUS
<1> HIDE DEF q
<1>2. SameBut(v, u, x) /\ v[x]["res"] = Null
  BY <1>1, MovedSays DEF Column
<1>3. /\ SameBut(t, v, x) /\ t[x]["status"] = p["status"] /\ t[x]["active"] = p["active"]
      /\ t[x]["pos"] = p["pos"] /\ t[x]["res"] = Null
  BY <1>2, MovedSays DEF Column
<1>4. SameBut(t, u, x)
  BY <1>2, <1>3 DEF SameBut
<1>5. SoundRow(t[x])
  BY <1>3 DEF SoundRow, ActiveStatus, Resolution
<1>6. x \notin QueuedIn(u) /\ x \notin ActiveIn(u) /\ u[x]["res"] = "approved"
  BY TableSets DEF Sound, SoundRow, ActiveStatus, Resolution
<1>7. Entered(u, t, {x}) /\ Sound(t)
  BY <1>3, <1>4, <1>5, <1>6, Enters
<1>8. Decisions(t) = [Decisions(u) EXCEPT ![x] = Null]
  BY <1>3, <1>4 DEF Decisions, SameBut
<1> QED BY <1>6, <1>7, <1>8 DEF Outcome, TakenBack

----------------------------------------------------------------------------
(***************************************************************************)
(* Each statement of the only open session                                 *)
(***************************************************************************)
\* The rest of Serial, once the session's own part is known.
LEMMA OthersRest ==
    ASSUME TypeInv, Serial, NEW s \in Open, UNCHANGED rows, NEW label \in Busy \cup {"get"},
           Goto(s, label),
           \A t \in Sessions \ {s} : seen'[t] = seen[t], Halfway(s)'
    PROVE  Serial'
<1>1. pc'[s] = label /\ \A t \in Sessions \ {s} : pc'[t] = pc[t]
  BY DEF Goto, TypeInv, Open
<1>2. \A t \in Open' : t \in Open
  BY <1>1 DEF Open
<1>3. \A t \in Open' : t = s
  BY <1>2 DEF Serial
<1>4. \A t \in Sessions : pc'[t] = "idle" => DOMAIN seen'[t] = {}
  BY <1>1 DEF Serial, Busy
<1>5. Sound(rows')
  BY DEF Serial
<1> QED BY <1>3, <1>4, <1>5 DEF Serial

\* A SELECT keeps the copies in agreement with the view, which it leaves alone.
LEMMA SelectKeeps ==
    ASSUME TypeInv, NEW s \in Open, Agree(s), NEW S \in SUBSET Items, Select(s, S),
           UNCHANGED <<rows, call, writes>>
    PROVE  /\ View(s)' = View(s) /\ Target(s)' = Target(s) /\ Agree(s)'
           /\ DOMAIN seen'[s] = DOMAIN seen[s] \cup S
           /\ \A t \in Sessions \ {s} : seen'[t] = seen[t]
<1>1. seen'[s] = Loaded(s, S) /\ \A t \in Sessions \ {s} : seen'[t] = seen[t]
  BY DEF Select, TypeInv, Open
<1>2. View(s)' = View(s) /\ Target(s)' = Target(s)
  BY DEF View, Target
<1>3. /\ DOMAIN Loaded(s, S) = DOMAIN seen[s] \cup S
      /\ \A i \in DOMAIN Loaded(s, S) : Loaded(s, S)[i] = View(s)[i]
  BY LoadedAgrees DEF Open
<1>4. Agree(s)'
  BY <1>1, <1>2, <1>3 DEF Agree
<1> QED BY <1>1, <1>2, <1>3, <1>4

\* On to the commit, with a view that is a proper outcome.
LEMMA ToCommit ==
    ASSUME TypeInv, Serial, NEW s \in Open, UNCHANGED <<rows, call>>, Goto(s, "commit"),
           \A t \in Sessions \ {s} : seen'[t] = seen[t], Agree(s)', Outcome(rows, View(s)'),
           call[s].kind # "create" \/ Created(rows, View(s)')
    PROVE  Serial'
<1>1. pc'[s] = "commit"
  BY DEF Goto, TypeInv, Open
<1>2. call'[s].kind = "create" => Created(rows', View(s)')
  OBVIOUS
<1>3. Outcome(rows', View(s)')
  OBVIOUS
<1>4. Halfway(s)'
  BY <1>1, <1>2, <1>3 DEF Halfway, Target
<1> QED BY <1>4, OthersRest DEF Busy

\* On to the flush, with a plan that makes a proper outcome of the view.
LEMMA ToFlush ==
    ASSUME TypeInv, Serial, NEW s \in Open, UNCHANGED <<rows, call>>, Goto(s, "flush"),
           \A t \in Sessions \ {s} : seen'[t] = seen[t], Agree(s)', View(s)' = View(s),
           NEW f, Assign(s, f), Outcome(rows, ViewOf(f, View(s))),
           call[s].kind # "create" \/ Created(rows, ViewOf(f, View(s))),
           \A i \in DOMAIN f : i \in DOMAIN seen'[s] \/ DOMAIN f[i] = Column
    PROVE  Serial'
<1>1. pc'[s] = "flush" /\ plan'[s] = f
  BY DEF Goto, Assign, TypeInv, Open
<1>2. call'[s].kind = "create" => Created(rows', ViewOf(plan'[s], View(s)'))
  BY <1>1
<1>3. Outcome(rows', ViewOf(plan'[s], View(s)'))
  BY <1>1
<1>4. Whole(s)'
  BY <1>1 DEF Whole
<1>5. Halfway(s)'
  BY <1>1, <1>2, <1>3, <1>4 DEF Halfway, Target
<1> QED BY <1>5, OthersRest DEF Busy

\* Before its first statement that assigns a session sees the committed table.
LEMMA FirstView ==
    ASSUME IInv, NEW s \in Open,
           (pc[s] = "get" /\ call[s].kind # "create") \/ At(s, "resolve", "active")
    PROVE  View(s) = rows
<1>1. TypeInv /\ DOMAIN writes[s] = {} /\ s \in Sessions
  BY DEF IInv, Unwritten, Untouched, Open
<1> QED BY <1>1, Calm

\* resolve_active_item
LEMMA ResolveServes ==
    ASSUME IInv, Serial, NEW s \in Open,
           ResolveGet(s) \/ ResolveCompare(s) \/ ResolveApply(s) \/ ResolveAdvance(s)
    PROVE  Serial'
<1> DEFINE x == Target(s)
<1>1. /\ TypeInv /\ s \in Sessions /\ Agree(s) /\ Halfway(s) /\ Sound(rows) /\ rows \in Table
      /\ x \in Items /\ call[s].res \in Resolution
      /\ View(s) \in Table
      /\ ActiveIn(View(s)) \in SUBSET Items /\ QueuedIn(View(s)) \in SUBSET Items
  BY Tables, ViewIs DEF IInv, Serial, Halfway, Open, TypeInv
<1>2. CASE ResolveGet(s)
  <2>1. /\ Select(s, {x}) /\ UNCHANGED <<rows, call, writes>> /\ Goto(s, "active")
        /\ call[s].kind = "resolve" /\ {x} \in SUBSET Items
    BY <1>1, <1>2 DEF ResolveGet, At, Shared
  <2>2. Agree(s)' /\ \A t \in Sessions \ {s} : seen'[t] = seen[t]
    BY <1>1, <2>1, SelectKeeps
  <2>3. pc'[s] = "active" /\ call'[s].kind = "resolve"
    BY <1>1, <2>1 DEF Goto, TypeInv
  <2>4. Halfway(s)'
    BY <2>2, <2>3 DEF Halfway
  <2> QED BY <1>1, <2>1, <2>2, <2>4, OthersRest DEF Busy
<1>3. CASE ResolveCompare(s)
  <2>1. /\ Select(s, ActiveIn(View(s))) /\ UNCHANGED <<rows, call, writes>>
        /\ At(s, "resolve", "active")
    BY <1>3 DEF ResolveCompare, Shared
  <2>2. /\ Agree(s)' /\ View(s)' = View(s) /\ \A t \in Sessions \ {s} : seen'[t] = seen[t]
        /\ DOMAIN seen'[s] = DOMAIN seen[s] \cup ActiveIn(View(s)) /\ Target(s)' = x
    BY <1>1, <2>1, SelectKeeps
  <2>3. View(s) = rows
    BY <2>1, FirstView
  <2>4. CASE x \in ActiveIn(View(s))
    <3>1. Goto(s, "apply") /\ Assign(s, x :> Answer(s))
      BY <1>3, <2>4 DEF ResolveCompare, Answer
    <3>2. pc'[s] = "apply" /\ plan'[s] = x :> Answer(s) /\ Answer(s)' = Answer(s)
      BY <1>1, <2>1, <3>1 DEF Goto, Assign, TypeInv, Answer
    <3>3. call'[s].kind = "resolve" /\ View(s)' = rows' /\ x \in ActiveIn(rows') /\ x \in DOMAIN seen'[s]
      BY <2>1, <2>2, <2>3, <2>4 DEF At
    <3>4. Halfway(s)'
      BY <2>2, <3>2, <3>3 DEF Halfway
    <3> QED BY <1>1, <2>1, <2>2, <3>1, <3>4, OthersRest DEF Busy
  <2>5. CASE x \notin ActiveIn(View(s))
    <3>1. Goto(s, "commit")
      BY <1>3, <2>5 DEF ResolveCompare
    <3>2. Outcome(rows, View(s)')
      BY <1>1, <2>2, <2>3, Rests
    <3> QED BY <1>1, <2>1, <2>2, <3>1, <3>2, ToCommit DEF At
  <2> QED BY <2>4, <2>5
<1>4. CASE ResolveApply(s)
  <2>1. Flush(s) /\ UNCHANGED <<rows, call>> /\ Goto(s, "queue") /\ At(s, "resolve", "apply")
    BY <1>4 DEF ResolveApply, Shared
  <2>2. /\ View(s) = rows /\ x \in ActiveIn(rows) /\ x \in DOMAIN seen[s]
        /\ plan[s] = x :> Answer(s)
    BY <1>1, <2>1 DEF Halfway, At
  <2>3. Part(Answer(s))
    BY <1>1 DEF Answer, Part, Column, Status
  <2>4. /\ DOMAIN plan[s] = {x} /\ Moved(ViewOf(plan[s], rows), rows, x, Answer(s))
    BY <1>1, <2>2, <2>3, OneMoves
  <2>5. View(s)' = ViewOf(plan[s], View(s)) /\ Agree(s)'
    BY <1>1, <2>1, <2>2, <2>4, FlushMakes DEF Whole
  <2>6. \A t \in Sessions \ {s} : seen'[t] = seen[t]
    BY <1>1, <2>1, FlushIs
  <2>7. pc'[s] = "queue" /\ call'[s].kind = "resolve" /\ Target(s)' = x /\ Answer(s)' = Answer(s)
    BY <1>1, <2>1 DEF Goto, TypeInv, At, Target, Answer
  <2>8. Answered(s)'
    BY <2>1, <2>2, <2>4, <2>5, <2>7 DEF Answered
  <2>9. Halfway(s)'
    BY <2>5, <2>7, <2>8 DEF Halfway
  <2> QED BY <1>1, <2>1, <2>6, <2>9, OthersRest DEF Busy
<1>5. CASE ResolveAdvance(s)
  <2> DEFINE queued == QueuedIn(View(s))
             r == call[s].res
  <2>1. /\ Select(s, queued) /\ UNCHANGED <<rows, call, writes>> /\ At(s, "resolve", "queue")
    BY <1>5 DEF ResolveAdvance, Shared
  <2>2. /\ Agree(s)' /\ View(s)' = View(s) /\ \A t \in Sessions \ {s} : seen'[t] = seen[t]
        /\ DOMAIN seen'[s] = DOMAIN seen[s] \cup queued
    BY <1>1, <2>1, SelectKeeps
  <2>3. /\ x \in ActiveIn(rows)
        /\ Moved(View(s), rows, x, [res |-> r, status |-> r, active |-> FALSE])
    BY <1>1, <2>1 DEF Halfway, At, Answered, Answer
  <2>4. CASE queued = {}
    <3>1. Goto(s, "commit")
      BY <1>5, <2>4 DEF ResolveAdvance
    <3>2. Outcome(rows, View(s)')
      BY <1>1, <2>2, <2>3, <2>4, AnswersLast
    <3> QED BY <1>1, <2>1, <2>2, <3>1, <3>2, ToCommit DEF At
  <2>5. CASE queued # {}
    <3> DEFINE p == [status |-> "pending", active |-> TRUE, pos |-> Null]
    <3>1. PICK n \in FrontOf(View(s)) :
             /\ CanShift(Loaded(s, queued), queued \ {n})
             /\ Assign(s, (n :> p) @@ Shift(Loaded(s, queued), queued \ {n}, -1))
      BY <1>5, <2>5 DEF ResolveAdvance
    <3>2. Goto(s, "flush")
      BY <1>5, <2>5 DEF ResolveAdvance
    <3>3. n \in queued /\ n \in Items /\ queued \ {n} \subseteq queued /\ -1 \in Int
      BY <1>1, Tables
    <3>4. Part(p)
      BY DEF Part, Column, Status, ActiveStatus
    <3> DEFINE f == (n :> p) @@ Shift(Loaded(s, queued), queued \ {n}, -1)
    <3>5. /\ DOMAIN f \subseteq {n} \cup queued
          /\ ViewOf(f, View(s)) \in Table /\ Moved(ViewOf(f, View(s)), View(s), n, p)
      <4> HIDE DEF p
      <4> QED BY <1>1, <3>1, <3>3, <3>4, ShiftMoves
    <3>6. Assign(s, f)
      BY <3>1
    <3> HIDE DEF f
    <3>7. Outcome(rows, ViewOf(f, View(s)))
      BY <1>1, <2>3, <3>3, <3>5, AnswersAndAdvances
    <3>8. \A i \in DOMAIN f : i \in DOMAIN seen'[s]
      BY <2>2, <3>3, <3>5
    <3> QED BY <1>1, <2>1, <2>2, <3>2, <3>6, <3>7, <3>8, ToFlush DEF At
  <2> QED BY <2>4, <2>5
<1> QED BY <1>2, <1>3, <1>4, <1>5

----------------------------------------------------------------------------
\* What every statement below starts from.
LEMMA SessionIs ==
    ASSUME IInv, Serial, NEW s \in Open
    PROVE  /\ TypeInv /\ s \in Sessions /\ Agree(s) /\ Halfway(s) /\ Sound(rows) /\ rows \in Table
           /\ Target(s) \in Items /\ call[s].res \in Resolution /\ View(s) \in Table
           /\ ActiveIn(View(s)) \in SUBSET Items /\ QueuedIn(View(s)) \in SUBSET Items
           /\ QueuedIn(View(s)) \subseteq QueuedIn(View(s))
BY Tables, ViewIs DEF IInv, Serial, Halfway, Open, TypeInv

\* revoke_decision
LEMMA RevokeServes ==
    ASSUME IInv, Serial, NEW s \in Open, RevokeUpdate(s) \/ RevokeCompare(s) \/ RevokeToFront(s)
    PROVE  Serial'
<1> DEFINE x == Target(s)
           cleared == [res |-> Null]
<1>1. /\ TypeInv /\ s \in Sessions /\ Agree(s) /\ Halfway(s) /\ Sound(rows) /\ rows \in Table
      /\ x \in Items /\ View(s) \in Table
      /\ ActiveIn(View(s)) \in SUBSET Items /\ QueuedIn(View(s)) \in SUBSET Items
  BY SessionIs
<1>2. CASE RevokeUpdate(s)
  <2>1. UNCHANGED <<rows, call, plan>> /\ At(s, "revoke", "get")
    BY <1>2 DEF RevokeUpdate, Shared
  <2>2. View(s) = rows /\ DOMAIN seen[s] = {}
    BY <1>1, <2>1, FirstView DEF Halfway, At
  <2>3. CASE rows[x].status = "approved"
    <3> DEFINE w == x :> cleared
               copies == x :> [rows[x] EXCEPT !.res = Null]
    <3>1. /\ writes' = [writes EXCEPT ![s] = w] /\ seen' = [seen EXCEPT ![s] = copies]
          /\ Goto(s, "active")
      BY <1>2, <2>3 DEF RevokeUpdate
    <3>2. Part(cleared)
      BY DEF Part, Column
    <3>3. DOMAIN w = {x} /\ w[x] = cleared /\ ViewOf(w, rows) \in Table
          /\ Moved(ViewOf(w, rows), rows, x, cleared)
      <4> HIDE DEF cleared
      <4> QED BY <1>1, <3>2, OneMoves
    <3>4. DOMAIN copies = {x} /\ copies[x] = [rows[x] EXCEPT !.res = Null]
      BY OneIs
    <3> HIDE DEF w, copies
    <3>5. /\ writes'[s] = w /\ seen'[s] = copies /\ pc'[s] = "active"
          /\ \A t \in Sessions \ {s} : seen'[t] = seen[t]
      BY <1>1, <3>1 DEF Goto, TypeInv
    <3>6. View(s)' = ViewOf(w, rows)
      BY <2>1, <3>5 DEF View, ViewOf
    <3>7. copies[x] = cleared @@ rows[x]
      <4>1. rows[x] \in Row
        BY <1>1 DEF Table
      <4>2. DOMAIN rows[x] = Column
        BY <4>1, RowIsPart
      <4>3. cleared @@ rows[x] \in Row
        BY <3>2, <4>1, RowOver
      <4>4. \A c \in Column : (cleared @@ rows[x])[c] = IF c = "res" THEN Null ELSE rows[x][c]
        BY <4>2 DEF @@, Column
      <4>5. \A c \in Column : [rows[x] EXCEPT !.res = Null][c] = IF c = "res" THEN Null ELSE rows[x][c]
        BY <4>2 DEF Column
      <4>6. [rows[x] EXCEPT !.res = Null] \in Row
        BY <4>1 DEF Row
      <4> DEFINE a == cleared @@ rows[x]
                 b == [rows[x] EXCEPT !.res = Null]
      <4>7. /\ a["status"] = b["status"] /\ a["active"] = b["active"] /\ a["pos"] = b["pos"]
            /\ a["res"] = b["res"] /\ a["notice"] = b["notice"]
        BY <4>4, <4>5 DEF Column
      <4>8. a \in Row /\ b \in Row
        BY <4>3, <4>6
      <4> HIDE DEF a, b
      <4>9. a = b
        BY <4>7, <4>8 DEF Row
      <4> QED BY <3>4, <4>9 DEF a, b
    <3>8. Agree(s)'
      <4>1. ViewOf(w, rows)[x] = cleared @@ rows[x]
        BY <1>1, <3>3 DEF ViewOf
      <4> QED BY <3>4, <3>5, <3>6, <3>7, <4>1 DEF Agree
    <3>9. Withdrawn(s)'
      BY <2>1, <2>3, <3>3, <3>4, <3>5, <3>6 DEF Withdrawn, Target
    <3>10. Halfway(s)'
      BY <2>1, <3>5, <3>8, <3>9 DEF Halfway, At
    <3> QED BY <1>1, <2>1, <3>1, <3>5, <3>10, OthersRest DEF Busy
  <2>4. CASE rows[x].status # "approved"
    <3>1. Goto(s, "commit") /\ UNCHANGED <<writes, seen>>
      BY <1>2, <2>4 DEF RevokeUpdate
    <3>2. Agree(s)' /\ View(s)' = View(s)
      BY <1>1, <2>1, <3>1 DEF Agree, View
    <3>3. Outcome(rows, View(s)')
      BY <1>1, <2>2, <3>2, Rests
    <3> QED BY <1>1, <2>1, <3>1, <3>2, <3>3, ToCommit DEF At
  <2> QED BY <2>3, <2>4
<1>3. ASSUME Withdrawn(s) PROVE ActiveIn(View(s)) = ActiveIn(rows) /\ QueuedIn(View(s)) = QueuedIn(rows)
  <2>1. DOMAIN cleared = {"res"} /\ Moved(View(s), rows, x, cleared)
    BY <1>3 DEF Withdrawn
  <2> HIDE DEF cleared
  <2>2. \A i \in Items : View(s)[i]["active"] = rows[i]["active"] /\ View(s)[i]["status"] = rows[i]["status"]
    BY <1>1, <2>1 DEF Moved, Column
  <2> QED BY <2>2 DEF ActiveIn, QueuedIn
<1>4. CASE RevokeCompare(s)
  <2> DEFINE active == ActiveIn(View(s))
             p == [status |-> "pending", active |-> TRUE, pos |-> Null]
  <2>1. Select(s, active) /\ UNCHANGED <<rows, call, writes>> /\ At(s, "revoke", "active")
    BY <1>4 DEF RevokeCompare, Shared
  <2>2. /\ Agree(s)' /\ View(s)' = View(s) /\ \A t \in Sessions \ {s} : seen'[t] = seen[t]
        /\ DOMAIN seen'[s] = DOMAIN seen[s] \cup active /\ Target(s)' = x
    BY <1>1, <2>1, SelectKeeps
  <2>3. Withdrawn(s)
    BY <1>1, <2>1 DEF Halfway, At
  <2>4. CASE active = {}
    <3>1. Assign(s, x :> p) /\ Goto(s, "flush")
      BY <1>4, <2>4 DEF RevokeCompare
    <3>2. Part(p) /\ DOMAIN p = {"status", "active", "pos"} /\ p["status"] = "pending"
          /\ p["active"] = TRUE /\ p["pos"] = Null
      BY DEF Part, Column, Status, ActiveStatus
    <3> DEFINE f == x :> p
    <3> HIDE DEF p
    <3>3. DOMAIN f = {x} /\ ViewOf(f, View(s)) \in Table /\ Moved(ViewOf(f, View(s)), View(s), x, p)
      BY <1>1, <3>2, OneMoves
    <3>4. Assign(s, f)
      BY <3>1
    <3> HIDE DEF f
    <3>5. Outcome(rows, ViewOf(f, View(s)))
      <4>1. ActiveIn(rows) = {}
        BY <1>3, <2>3, <2>4
      <4>2. rows[x]["status"] = "approved" /\ Moved(View(s), rows, x, cleared)
        BY <2>3 DEF Withdrawn
      <4> QED BY <1>1, <3>2, <3>3, <4>1, <4>2, TakesBack
    <3>6. x \in DOMAIN seen'[s] \/ DOMAIN f[x] = Column
      <4>1. x \in DOMAIN seen[s]
        BY <2>3 DEF Withdrawn
      <4> QED BY <2>2, <4>1
    <3> QED BY <1>1, <2>1, <2>2, <3>1, <3>3, <3>4, <3>5, <3>6, ToFlush DEF At
  <2>5. CASE active # {}
    <3>1. Goto(s, "queue") /\ UNCHANGED plan
      BY <1>4, <2>5 DEF RevokeCompare
    <3>2. pc'[s] = "queue" /\ call'[s].kind = "revoke"
      BY <1>1, <2>1, <3>1 DEF Goto, TypeInv, At
    <3>3. Withdrawn(s)' /\ ActiveIn(rows') # {}
      BY <1>3, <2>1, <2>2, <2>3, <2>5 DEF Withdrawn
    <3>4. Halfway(s)'
      BY <2>2, <3>2, <3>3 DEF Halfway
    <3> QED BY <1>1, <2>1, <2>2, <3>1, <3>4, OthersRest DEF Busy
  <2> QED BY <2>4, <2>5
<1>5. CASE RevokeToFront(s)
  <2> DEFINE queued == QueuedIn(View(s))
             p == [status |-> "queued", active |-> FALSE, pos |-> 1]
             f == (x :> p) @@ Shift(Loaded(s, queued), queued, 1)
  <2>1. /\ Select(s, queued) /\ UNCHANGED <<rows, call, writes>> /\ At(s, "revoke", "queue")
        /\ CanShift(Loaded(s, queued), queued) /\ Assign(s, f) /\ Goto(s, "flush")
    BY <1>5 DEF RevokeToFront, Shared
  <2>2. /\ Agree(s)' /\ View(s)' = View(s) /\ \A t \in Sessions \ {s} : seen'[t] = seen[t]
        /\ DOMAIN seen'[s] = DOMAIN seen[s] \cup queued
    BY <1>1, <2>1, SelectKeeps
  <2>3. Withdrawn(s) /\ ActiveIn(rows) # {}
    BY <1>1, <2>1 DEF Halfway, At
  <2>4. Part(p) /\ DOMAIN p = {"status", "active", "pos"} /\ p["status"] = "queued"
        /\ p["active"] = FALSE /\ p["pos"] = 1 /\ 1 # Null
    BY NullAssumption DEF Part, Column, Status
  <2> HIDE DEF p
  <2>5. /\ DOMAIN f \subseteq {x} \cup queued
        /\ ViewOf(f, View(s)) \in Table /\ Moved(ViewOf(f, View(s)), View(s), x, p)
    <3>1. queued \subseteq queued /\ 1 \in Int
      OBVIOUS
    <3> QED BY <1>1, <2>1, <2>4, <3>1, ShiftMoves
  <2> HIDE DEF f
  <2>6. Outcome(rows, ViewOf(f, View(s)))
    <3>1. rows[x]["status"] = "approved" /\ Moved(View(s), rows, x, cleared)
      BY <2>3 DEF Withdrawn
    <3> QED BY <1>1, <2>3, <2>4, <2>5, <3>1, TakesBack
  <2>7. \A i \in DOMAIN f : i \in DOMAIN seen'[s]
    <3>1. x \in DOMAIN seen[s]
      BY <2>3 DEF Withdrawn
    <3> QED BY <2>2, <2>5, <3>1
  <2> QED BY <1>1, <2>1, <2>2, <2>6, <2>7, ToFlush DEF At
<1> QED BY <1>2, <1>4, <1>5

\* create_from_classification
LEMMA CreateServes ==
    ASSUME IInv, Serial, NEW s \in Open, CreateCompare(s) \/ CreateInsert(s)
    PROVE  Serial'
<1> DEFINE x == Target(s)
<1>1. /\ TypeInv /\ s \in Sessions /\ Agree(s) /\ Halfway(s) /\ Sound(rows) /\ rows \in Table
      /\ x \in Items /\ View(s) \in Table
      /\ ActiveIn(View(s)) \in SUBSET Items /\ QueuedIn(View(s)) \in SUBSET Items
  BY SessionIs
<1>2. /\ call[s].kind = "create" /\ pc[s] \in {"get", "queue"} =>
            Created(rows, View(s)) /\ View(s)[x]["status"] = Null
      /\ call[s].kind = "create" /\ pc[s] = "queue" => ActiveIn(View(s)) # {}
  BY <1>1 DEF Halfway
<1>3. CASE CreateCompare(s)
  <2> DEFINE active == ActiveIn(View(s))
             p == [NoRow EXCEPT !.status = "pending", !.active = TRUE]
  <2>1. Select(s, active) /\ UNCHANGED <<rows, call, writes>> /\ At(s, "create", "get")
    BY <1>3 DEF CreateCompare, Shared
  <2>2. /\ Agree(s)' /\ View(s)' = View(s) /\ \A t \in Sessions \ {s} : seen'[t] = seen[t]
    BY <1>1, <2>1, SelectKeeps
  <2>3. Created(rows, View(s)) /\ View(s)[x]["status"] = Null
    BY <1>2, <2>1 DEF At
  <2>4. CASE active = {}
    <3>1. Assign(s, x :> p) /\ Goto(s, "flush")
      BY <1>3, <2>4 DEF CreateCompare
    <3>2. p \in Row /\ p["status"] = "pending" /\ p["active"] = TRUE /\ p["pos"] = Null /\ p["res"] = Null
      BY NoRowIs DEF NoRow
    <3> DEFINE f == x :> p
    <3> HIDE DEF p
    <3>3. Part(p) /\ DOMAIN p = Column
      BY <3>2, RowIsPart
    <3>4. /\ DOMAIN f = {x} /\ f[x] = p
          /\ ViewOf(f, View(s)) \in Table /\ Moved(ViewOf(f, View(s)), View(s), x, p)
      BY <1>1, <3>3, OneMoves
    <3>5. Assign(s, f)
      BY <3>1
    <3> HIDE DEF f
    <3>6. SoundRow(p)
      BY <3>2 DEF SoundRow, ActiveStatus, Resolution
    <3>7. Created(rows, ViewOf(f, View(s))) /\ Outcome(rows, ViewOf(f, View(s)))
      BY <1>1, <2>3, <2>4, <3>2, <3>4, <3>6, Recommends, CreatedIsOutcome
    <3> QED BY <1>1, <2>1, <2>2, <3>1, <3>3, <3>4, <3>5, <3>7, ToFlush
  <2>5. CASE active # {}
    <3>1. Goto(s, "queue") /\ UNCHANGED plan
      BY <1>3, <2>5 DEF CreateCompare
    <3>2. pc'[s] = "queue" /\ call'[s].kind = "create" /\ Target(s)' = x
      BY <1>1, <2>1, <3>1 DEF Goto, TypeInv, At, Target
    <3>3. /\ Created(rows', View(s)') /\ ActiveIn(View(s)') # {}
          /\ View(s)'[Target(s)']["status"] = Null
      BY <2>1, <2>2, <2>3, <2>5, <3>2
    <3>4. Halfway(s)'
      BY <2>2, <3>2, <3>3 DEF Halfway
    <3> QED BY <1>1, <2>1, <2>2, <3>1, <3>4, OthersRest DEF Busy
  <2> QED BY <2>4, <2>5
<1>4. CASE CreateInsert(s)
  <2> DEFINE queued == QueuedIn(View(s))
             q(n) == [NoRow EXCEPT !.status = "queued", !.pos = n]
  <2>1. PICK P \in SUBSET queued :
           /\ CanShift(Loaded(s, queued), queued \ P)
           /\ Assign(s, (x :> q(Cardinality(P) + 1)) @@ Shift(Loaded(s, queued), queued \ P, 1))
    BY <1>4 DEF CreateInsert
  <2>2. /\ Select(s, queued) /\ UNCHANGED <<rows, call, writes>> /\ At(s, "create", "queue")
        /\ Goto(s, "flush")
    BY <1>4 DEF CreateInsert, Shared
  <2>3. /\ Agree(s)' /\ View(s)' = View(s) /\ \A t \in Sessions \ {s} : seen'[t] = seen[t]
        /\ DOMAIN seen'[s] = DOMAIN seen[s] \cup queued
    BY <1>1, <2>2, SelectKeeps
  <2>4. Created(rows, View(s)) /\ ActiveIn(View(s)) # {} /\ View(s)[x]["status"] = Null
    BY <1>2, <2>2 DEF At
  <2>5. Cardinality(P) + 1 \in Int
    <3>1. IsFiniteSet(P)
      BY <1>1, FS_Subset, ItemsAssumption
    <3> QED BY <3>1, FS_CardinalityType
  <2> DEFINE p == q(Cardinality(P) + 1)
             f == (x :> p) @@ Shift(Loaded(s, queued), queued \ P, 1)
  <2>6. p \in Row /\ p["status"] = "queued" /\ p["active"] = FALSE /\ p["pos"] # Null /\ p["res"] = Null
    BY <2>5, NoRowIs, NullAssumption DEF NoRow
  <2>7. Assign(s, f)
    BY <2>1
  <2> HIDE DEF p, q
  <2>8. Part(p) /\ DOMAIN p = Column
    BY <2>6, RowIsPart
  <2>9. queued \ P \subseteq queued /\ 1 \in Int /\ CanShift(Loaded(s, queued), queued \ P)
    BY <2>1
  <2>10. /\ DOMAIN f \subseteq {x} \cup queued /\ f[x] = p
         /\ ViewOf(f, View(s)) \in Table /\ Moved(ViewOf(f, View(s)), View(s), x, p)
    BY <1>1, <2>8, <2>9, ShiftMoves
  <2> HIDE DEF f
  <2>11. SoundRow(p)
    BY <2>6 DEF SoundRow, ActiveStatus, Resolution
  <2>12. Created(rows, ViewOf(f, View(s))) /\ Outcome(rows, ViewOf(f, View(s)))
    BY <1>1, <2>4, <2>6, <2>10, <2>11, Recommends, CreatedIsOutcome
  <2>13. \A i \in DOMAIN f : i \in DOMAIN seen'[s] \/ DOMAIN f[i] = Column
    BY <2>3, <2>8, <2>10
  <2> QED BY <1>1, <2>2, <2>3, <2>7, <2>12, <2>13, ToFlush
<1> QED BY <1>3, <1>4

\* On to the next row of the list: its key is new to the session's view.
LEMMA NextCreateServes ==
    ASSUME IInv, Serial, NEW s \in Open, NextCreate(s)
    PROVE  Serial'
<1>1. /\ TypeInv /\ s \in Sessions /\ Agree(s) /\ Halfway(s)
      /\ At(s, "create", "commit") /\ Goto(s, "get") /\ UNCHANGED <<rows, writes>>
  BY SessionIs DEF NextCreate, Shared
<1>2. PICK i \in Items : Fresh(i) /\ call' = [call EXCEPT ![s].item = i]
  BY DEF NextCreate
<1>3. PICK kept \in SUBSET DOMAIN seen[s] :
         seen' = [seen EXCEPT ![s] = [j \in kept |-> seen[s][j]]]
  BY DEF NextCreate
<1>4. /\ pc'[s] = "get" /\ call'[s].kind = "create" /\ Target(s)' = i /\ View(s)' = View(s)
      /\ \A t \in Sessions \ {s} : seen'[t] = seen[t]
  BY <1>1, <1>2, <1>3 DEF At, Goto, Target, View, TypeInv
<1>5. Agree(s)'
  <2> DEFINE f == [j \in kept |-> seen[s][j]]
  <2>1. seen'[s] = f
    BY <1>1, <1>3 DEF TypeInv
  <2>2. DOMAIN f = kept /\ \A j \in kept : f[j] = seen[s][j]
    OBVIOUS
  <2> HIDE DEF f
  <2> QED BY <1>1, <1>4, <2>1, <2>2 DEF Agree
<1>6. View(s)[i]["status"] = Null
  BY <1>2 DEF Fresh, View
<1>7. Created(rows, View(s))
  BY <1>1 DEF Halfway, At
<1>8. Created(rows', View(s)') /\ View(s)'[Target(s)']["status"] = Null
  BY <1>1, <1>4, <1>6, <1>7
<1>9. Halfway(s)'
  BY <1>4, <1>5, <1>8 DEF Halfway
<1> QED BY <1>1, <1>4, <1>9, OthersRest

\* reorder_queue
LEMMA ReorderServes ==
    ASSUME IInv, Serial, NEW s \in Open, ReorderGet(s) \/ ReorderMove(s)
    PROVE  Serial'
<1> DEFINE x == Target(s)
<1>1. /\ TypeInv /\ s \in Sessions /\ Agree(s) /\ Halfway(s) /\ Sound(rows) /\ rows \in Table
      /\ x \in Items /\ View(s) \in Table
      /\ ActiveIn(View(s)) \in SUBSET Items /\ QueuedIn(View(s)) \in SUBSET Items
  BY SessionIs
<1>2. CASE ReorderGet(s)
  <2> DEFINE label == IF View(s)[x].status = "queued" THEN "queue" ELSE "commit"
  <2>1. /\ Select(s, {x}) /\ UNCHANGED <<rows, call, writes>> /\ At(s, "reorder", "get")
        /\ Goto(s, label) /\ {x} \in SUBSET Items
    BY <1>1, <1>2 DEF ReorderGet, Shared
  <2>2. /\ Agree(s)' /\ View(s)' = View(s) /\ \A t \in Sessions \ {s} : seen'[t] = seen[t]
    BY <1>1, <2>1, SelectKeeps
  <2>3. View(s) = rows
    BY <2>1, FirstView DEF At
  <2>4. CASE label = "queue"
    <3>1. Goto(s, "queue") /\ pc'[s] = "queue" /\ call'[s].kind = "reorder"
      BY <1>1, <2>1, <2>4 DEF Goto, TypeInv, At
    <3>2. View(s)' = rows'
      BY <2>1, <2>2, <2>3
    <3>3. Halfway(s)'
      BY <2>2, <3>1, <3>2 DEF Halfway
    <3> QED BY <1>1, <2>1, <2>2, <3>1, <3>3, OthersRest DEF Busy
  <2>5. CASE label = "commit"
    <3>1. Outcome(rows, View(s)')
      BY <1>1, <2>2, <2>3, Rests
    <3> QED BY <1>1, <2>1, <2>2, <2>5, <3>1, ToCommit DEF At
  <2> QED BY <2>4, <2>5
<1>3. CASE ReorderMove(s)
  <2> DEFINE queued == QueuedIn(View(s))
             p == [pos |-> 1]
  <2>1. Select(s, queued) /\ UNCHANGED <<rows, call, writes>> /\ At(s, "reorder", "queue")
    BY <1>3 DEF ReorderMove, Shared
  <2>2. /\ Agree(s)' /\ View(s)' = View(s) /\ \A t \in Sessions \ {s} : seen'[t] = seen[t]
        /\ DOMAIN seen'[s] = DOMAIN seen[s] \cup queued
    BY <1>1, <2>1, SelectKeeps
  <2>3. View(s) = rows
    BY <1>1, <2>1 DEF Halfway, At
  <2>4. CASE x \in queued
    <3> DEFINE f == (x :> p) @@ Shift(Loaded(s, queued), queued \ {x}, 1)
    <3>1. /\ CanShift(Loaded(s, queued), queued \ {x}) /\ Goto(s, "flush") /\ Assign(s, f)
          /\ queued \ {x} \subseteq queued /\ 1 \in Int
      BY <1>3, <2>4 DEF ReorderMove
    <3>2. Part(p) /\ DOMAIN p = {"pos"} /\ p["pos"] = 1 /\ 1 # Null
      BY NullAssumption DEF Part, Column
    <3> HIDE DEF p
    <3>3. /\ DOMAIN f \subseteq {x} \cup queued
          /\ ViewOf(f, View(s)) \in Table /\ Moved(ViewOf(f, View(s)), View(s), x, p)
      BY <1>1, <3>1, <3>2, ShiftMoves
    <3> HIDE DEF f
    <3>4. Outcome(rows, ViewOf(f, View(s)))
      <4> DEFINE t == ViewOf(f, View(s))
      <4>1. t \in Table /\ Moved(t, rows, x, p)
        BY <2>3, <3>3
      <4> HIDE DEF t
      <4>2. /\ SameBut(t, rows, x) /\ t[x]["pos"] = 1 /\ t[x]["status"] = rows[x]["status"]
            /\ t[x]["active"] = rows[x]["active"] /\ t[x]["res"] = rows[x]["res"]
        BY <1>1, <3>2, <4>1, MovedSays DEF Column
      <4>3. rows[x]["status"] = "queued"
        BY <2>3, <2>4 DEF QueuedIn
      <4>4. SoundRow(t[x])
        BY <1>1, <3>2, <4>2, <4>3 DEF Sound, SoundRow
      <4>5. Outcome(rows, t)
        BY <1>1, <4>1, <4>2, <4>4, Stays
      <4> QED BY <4>5 DEF t
    <3>5. \A i \in DOMAIN f : i \in DOMAIN seen'[s]
      BY <2>2, <2>4, <3>3
    <3> QED BY <1>1, <2>1, <2>2, <3>1, <3>4, <3>5, ToFlush DEF At
  <2>5. CASE x \notin queued
    <3>1. Goto(s, "commit")
      BY <1>3, <2>5 DEF ReorderMove
    <3>2. Outcome(rows, View(s)')
      BY <1>1, <2>2, <2>3, Rests
    <3> QED BY <1>1, <2>1, <2>2, <3>1, <3>2, ToCommit DEF At
  <2> QED BY <2>4, <2>5
<1> QED BY <1>2, <1>3

\* check_and_send_reminder
LEMMA RemindServes ==
    ASSUME IInv, Serial, NEW s \in Open, RemindRead(s) \/ RemindSend(s) \/ RemindFail(s)
    PROVE  Serial'
<1> DEFINE x == Target(s)
<1>1. /\ TypeInv /\ s \in Sessions /\ Agree(s) /\ Halfway(s) /\ Sound(rows) /\ rows \in Table
      /\ x \in Items /\ View(s) \in Table
      /\ ActiveIn(View(s)) \in SUBSET Items /\ QueuedIn(View(s)) \in SUBSET Items
  BY SessionIs
<1>2. CASE RemindRead(s)
  <2> DEFINE active == ActiveIn(View(s))
             label == IF active = {} THEN "commit" ELSE "send"
  <2>1. /\ Select(s, active) /\ UNCHANGED <<rows, call, writes>> /\ At(s, "remind", "get")
        /\ Goto(s, label)
    BY <1>2 DEF RemindRead, Shared
  <2>2. /\ Agree(s)' /\ View(s)' = View(s) /\ \A t \in Sessions \ {s} : seen'[t] = seen[t]
        /\ DOMAIN seen'[s] = DOMAIN seen[s] \cup active
    BY <1>1, <2>1, SelectKeeps
  <2>3. View(s) = rows /\ DOMAIN seen[s] = {}
    BY <1>1, <2>1, FirstView DEF At, Halfway
  <2>4. CASE label = "send"
    <3>1. Goto(s, "send") /\ pc'[s] = "send" /\ call'[s].kind = "remind"
      BY <1>1, <2>1, <2>4 DEF Goto, TypeInv, At
    <3>2. View(s)' = rows' /\ DOMAIN seen'[s] \subseteq ActiveIn(rows')
      BY <2>1, <2>2, <2>3
    <3>3. Halfway(s)'
      BY <2>2, <3>1, <3>2 DEF Halfway
    <3> QED BY <1>1, <2>1, <2>2, <3>1, <3>3, OthersRest DEF Busy
  <2>5. CASE label = "commit"
    <3>1. Outcome(rows, View(s)')
      BY <1>1, <2>2, <2>3, Rests
    <3> QED BY <1>1, <2>1, <2>2, <2>5, <3>1, ToCommit DEF At
  <2> QED BY <2>4, <2>5
<1>3. CASE RemindSend(s)
  <2>1. /\ UNCHANGED <<rows, call, writes, seen>> /\ At(s, "remind", "send") /\ Goto(s, "flush")
    BY <1>3 DEF RemindSend
  <2>2. Agree(s)' /\ View(s)' = View(s)
    BY <1>1, <2>1 DEF Agree, View
  <2>3. View(s) = rows /\ DOMAIN seen[s] \subseteq ActiveIn(rows)
    BY <1>1, <2>1 DEF Halfway, At
  <2>4. PICK i \in DOMAIN seen[s] : Assign(s, i :> Reminded(seen[s][i]))
    BY <1>3 DEF RemindSend
  <2>5. i \in Items /\ rows[i]["active"] = TRUE /\ rows[i]["status"] \in ActiveStatus
        /\ rows[i]["pos"] = Null /\ rows[i]["res"] = Null
    <3>1. i \in ActiveIn(rows)
      BY <2>3
    <3>2. i \in Items /\ rows[i]["active"] = TRUE
      BY <1>1, <3>1, TableSets
    <3>3. rows[i]["status"] \in ActiveStatus
      BY <1>1, <3>2 DEF Sound, SoundRow
    <3> QED BY <1>1, <3>2, <3>3 DEF Sound, SoundRow, ActiveStatus, Resolution
  <2>6. ASSUME NEW p, Part(p), Assign(s, i :> p), DOMAIN p = {"status"} \/ DOMAIN p = {"notice"},
               "status" \in DOMAIN p => p["status"] \in ActiveStatus
        PROVE  Serial'
    <3> DEFINE f == i :> p
    <3>1. /\ DOMAIN f = {i} /\ ViewOf(f, View(s)) \in Table
          /\ Moved(ViewOf(f, View(s)), View(s), i, p)
      BY <1>1, <2>5, <2>6, OneMoves
    <3>2. Assign(s, f)
      BY <2>6
    <3> HIDE DEF f
    <3>3. Outcome(rows, ViewOf(f, View(s)))
      <4> DEFINE t == ViewOf(f, View(s))
      <4>1. t \in Table /\ Moved(t, rows, i, p)
        BY <2>3, <3>1
      <4> HIDE DEF t
      <4>2. /\ SameBut(t, rows, i) /\ (t[i]["pos"] # Null <=> rows[i]["pos"] # Null)
            /\ t[i]["status"] \in ActiveStatus
            /\ t[i]["active"] = rows[i]["active"] /\ t[i]["res"] = rows[i]["res"]
        <5>1. {"status", "active", "res"} \subseteq Column
          BY DEF Column
        <5> QED BY <2>5, <2>6, <4>1, <5>1, MovedSays
      <4>3. SoundRow(t[i])
        BY <2>5, <4>2 DEF SoundRow, ActiveStatus, Resolution
      <4>4. t[i]["status"] # "queued" /\ rows[i]["status"] # "queued"
        BY <2>5, <4>2 DEF ActiveStatus
      <4>5. Outcome(rows, t)
        BY <1>1, <2>5, <4>1, <4>2, <4>3, <4>4, Stays
      <4> QED BY <4>5 DEF t
    <3>4. \A j \in DOMAIN f : j \in DOMAIN seen'[s]
      BY <2>1, <2>4, <3>1
    <3>5. \A t \in Sessions \ {s} : seen'[t] = seen[t]
      BY <2>1
    <3> QED BY <1>1, <2>1, <2>2, <3>2, <3>3, <3>4, <3>5, ToFlush DEF At
  <2>7. CASE seen[s][i].notice
    <3> DEFINE p == Reminded(seen[s][i])
    <3>1. Part(p) /\ DOMAIN p = {"status"} /\ p["status"] \in ActiveStatus
      BY <2>7 DEF Reminded, Part, Column, Status, ActiveStatus
    <3>2. Assign(s, i :> p)
      BY <2>4
    <3> HIDE DEF p
    <3> QED BY <2>6, <3>1, <3>2
  <2>8. CASE ~seen[s][i].notice
    <3> DEFINE p == [notice |-> TRUE]
    <3>1. Part(p) /\ DOMAIN p = {"notice"} /\ "status" \notin DOMAIN p
      BY DEF Part, Column
    <3>2. Assign(s, i :> p)
      BY <2>4, <2>8 DEF Reminded
    <3> HIDE DEF p
    <3> QED BY <2>6, <3>1, <3>2
  <2> QED BY <2>7, <2>8
<1>4. CASE RemindFail(s)
  <2>1. /\ UNCHANGED <<rows, call, writes, seen>> /\ At(s, "remind", "send") /\ Goto(s, "commit")
    BY <1>4 DEF RemindFail, Shared
  <2>2. Agree(s)' /\ View(s)' = View(s)
    BY <1>1, <2>1 DEF Agree, View
  <2>3. Outcome(rows, View(s)')
    BY <1>1, <2>1, <2>2, Rests DEF Halfway, At
  <2>4. \A t \in Sessions \ {s} : seen'[t] = seen[t]
    BY <2>1
  <2> QED BY <1>1, <2>1, <2>2, <2>3, <2>4, ToCommit DEF At
<1> QED BY <1>2, <1>3, <1>4

\* The last flush makes the planned outcome the session's view.
LEMMA FlushServes == ASSUME IInv, Serial, NEW s \in Open, LastFlush(s) PROVE Serial'
<1>1. /\ TypeInv /\ s \in Sessions /\ Agree(s) /\ Halfway(s)
      /\ Flush(s) /\ UNCHANGED <<rows, call>> /\ pc[s] = "flush" /\ Goto(s, "commit")
  BY SessionIs DEF LastFlush, Shared
<1>2. /\ Whole(s) /\ Outcome(rows, ViewOf(plan[s], View(s)))
      /\ call[s].kind # "create" \/ Created(rows, ViewOf(plan[s], View(s)))
  BY <1>1 DEF Halfway
<1>3. View(s)' = ViewOf(plan[s], View(s)) /\ Agree(s)'
  BY <1>1, <1>2, FlushMakes
<1>4. \A t \in Sessions \ {s} : seen'[t] = seen[t]
  BY <1>1, FlushIs
<1> QED BY <1>1, <1>2, <1>3, <1>4, ToCommit

\* A session that ends leaves nobody open.
LEMMA CloseServes ==
    ASSUME IInv, Serial, NEW s \in Open, Close(s), Sound(rows')
    PROVE  Serial'
<1>1. TypeInv /\ s \in Sessions
  BY SessionIs
<1>2. /\ pc'[s] = "done" /\ \A t \in Sessions \ {s} : pc'[t] = pc[t] /\ seen'[t] = seen[t]
  BY <1>1 DEF Close, Goto, TypeInv
<1>3. Open' = {}
  <2>1. \A t \in Open' : t \in Open /\ t # s
    BY <1>2 DEF Open
  <2> QED BY <2>1 DEF Serial
<1>4. \A t \in Sessions : pc'[t] = "idle" => DOMAIN seen'[t] = {}
  BY <1>2 DEF Serial
<1> QED BY <1>3, <1>4 DEF Serial

\* A call begins when no other is open.
LEMMA BeginServes ==
    ASSUME IInv, Serial, NEW s \in Sessions, Begin(s), ~overlapped'
    PROVE  Serial'
<1>1. /\ TypeInv /\ pc[s] = "idle" /\ UNCHANGED <<rows, seen, writes>> /\ Goto(s, "get")
      /\ DOMAIN writes[s] = {}
  BY DEF IInv, Begin, Unwritten, Untouched
<1>2. Open = {}
  BY DEF Begin
<1>3. PICK kind \in Calls, i \in Items, r \in Resolution :
         /\ IF kind = "create" THEN Fresh(i) ELSE rows[i].status # Null
         /\ call' = [call EXCEPT ![s] = [kind |-> kind, item |-> i, res |-> r]]
  BY DEF Begin
<1>4. pc'[s] = "get" /\ \A t \in Sessions \ {s} : pc'[t] = pc[t]
  BY <1>1 DEF Goto, TypeInv
<1>5. \A t \in Open' : t = s
  BY <1>2, <1>4 DEF Open
<1>6. DOMAIN seen[s] = {}
  BY <1>1 DEF Serial
<1>7. View(s)' = rows'
  <2>1. View(s)' = View(s)
    BY <1>1 DEF View
  <2> QED BY <1>1, <2>1, Calm
<1>8. Created(rows', rows')
  <2>1. Created(rows, rows)
    BY DEF Serial, Created, Unmoved
  <2> QED BY <1>1, <2>1
<1>9. call'[s].kind = "create" => rows'[Target(s)']["status"] = Null
  <2>1. call'[s] = [kind |-> kind, item |-> i, res |-> r]
    BY <1>1, <1>3 DEF TypeInv
  <2> QED BY <1>1, <1>3, <2>1 DEF Fresh, Target
<1>10. Agree(s)' /\ DOMAIN seen'[s] = {}
  BY <1>1, <1>6 DEF Agree
<1>11. Halfway(s)'
  BY <1>4, <1>7, <1>8, <1>9, <1>10 DEF Halfway
<1>12. Sound(rows') /\ \A t \in Sessions : pc'[t] = "idle" => DOMAIN seen'[t] = {}
  BY <1>1, <1>4 DEF Serial
<1> QED BY <1>5, <1>11, <1>12 DEF Serial

----------------------------------------------------------------------------
\* A step of a serial execution keeps the invariant, and changes the table by
\* a proper outcome at most.
LEMMA SerialStep ==
    ASSUME IInv, Serial, [Next]_vars
    PROVE  (~overlapped' => Serial') /\ (rows' = rows \/ Outcome(rows, rows'))
<1>1. CASE UNCHANGED vars
  <2>1. UNCHANGED <<rows, call, pc, seen, plan, writes>>
    BY <1>1 DEF vars
  <2>2. Open' = Open /\ \A s \in Sessions : View(s)' = View(s) /\ Target(s)' = Target(s)
    BY <2>1 DEF Open, View, Target
  <2>3. ASSUME NEW s \in Open PROVE Halfway(s)'
    <3>1. Halfway(s) /\ s \in Sessions
      BY DEF Serial, Open
    <3>2. /\ Agree(s)' <=> Agree(s)
          /\ Withdrawn(s)' <=> Withdrawn(s)
          /\ Answered(s)' <=> Answered(s)
          /\ Whole(s)' <=> Whole(s)
          /\ Answer(s)' = Answer(s)
      BY <2>1, <2>2, <3>1 DEF Agree, Withdrawn, Answered, Answer, Whole
    <3> QED BY <2>1, <2>2, <3>1, <3>2 DEF Halfway
  <2>4. Sound(rows')
    BY <2>1 DEF Serial
  <2>5. Serial'
    BY <2>1, <2>2, <2>3, <2>4 DEF Serial
  <2> QED BY <2>1, <2>5
<1>2. ASSUME NEW s \in Sessions, Step(s) PROVE (~overlapped' => Serial') /\ (rows' = rows \/ Outcome(rows, rows'))
  <2>1. CASE Begin(s)
    BY <2>1, BeginServes DEF Begin
  <2>2. ASSUME ~Begin(s) PROVE s \in Open
    BY <1>2, <2>2 DEF Step, NextCreate, ResolveGet, ResolveCompare, ResolveApply, ResolveAdvance, RevokeUpdate,
       RevokeCompare, RevokeToFront, CreateCompare, CreateInsert, ReorderGet, ReorderMove, RemindRead,
       RemindSend, RemindFail, LastFlush, Commit, RollBack, At, Open
  <2>3. CASE s \in Open /\ Commit(s)
    <3>1. rows' = View(s) /\ Outcome(rows, View(s)) /\ Close(s)
      BY <2>3 DEF Commit, Serial, Halfway
    <3> QED BY <2>3, <3>1, CloseServes DEF Outcome
  <2>4. CASE s \in Open /\ RollBack(s)
    <3>1. rows' = rows /\ Close(s)
      BY <2>4 DEF RollBack, Shared
    <3>2. Sound(rows')
      BY <3>1 DEF Serial
    <3> QED BY <2>4, <3>1, <3>2, CloseServes
  <2>5. CASE s \in Open /\ LastFlush(s)
    BY <2>5, FlushServes DEF LastFlush, Shared
  <2>6. CASE s \in Open /\ (ResolveGet(s) \/ ResolveCompare(s) \/ ResolveApply(s) \/ ResolveAdvance(s))
    BY <2>6, ResolveServes DEF ResolveGet, ResolveCompare, ResolveApply, ResolveAdvance, Shared
  <2>7. CASE s \in Open /\ (RevokeUpdate(s) \/ RevokeCompare(s) \/ RevokeToFront(s))
    BY <2>7, RevokeServes DEF RevokeUpdate, RevokeCompare, RevokeToFront, Shared
  <2>8. CASE s \in Open /\ (CreateCompare(s) \/ CreateInsert(s))
    BY <2>8, CreateServes DEF CreateCompare, CreateInsert, Shared
  <2>9. CASE s \in Open /\ (ReorderGet(s) \/ ReorderMove(s))
    BY <2>9, ReorderServes DEF ReorderGet, ReorderMove, Shared
  <2>10. CASE s \in Open /\ (RemindRead(s) \/ RemindSend(s) \/ RemindFail(s))
    BY <2>10, RemindServes DEF RemindRead, RemindSend, RemindFail, Shared
  <2>11. CASE s \in Open /\ NextCreate(s)
    BY <2>11, NextCreateServes DEF NextCreate, Shared
  <2> QED BY <1>2, <2>1, <2>2, <2>3, <2>4, <2>5, <2>6, <2>7, <2>8, <2>9, <2>10, <2>11 DEF Step
<1> QED BY <1>1, <1>2 DEF Next

\* Once two transactions have been open at once, that has happened.
LEMMA Overlaps == ASSUME [Next]_vars, ~overlapped' PROVE ~overlapped
<1>1. CASE UNCHANGED vars
  BY <1>1 DEF vars
<1>2. ASSUME NEW s \in Sessions, Step(s) PROVE ~overlapped
  <2>1. CASE Begin(s)
    BY <2>1 DEF Begin
  <2>2. CASE ~Begin(s)
    <3>1. UNCHANGED overlapped
      BY <1>2, <2>2 DEF Step, Shared, NextCreate, ResolveGet, ResolveCompare, ResolveApply,
         ResolveAdvance, RevokeUpdate, RevokeCompare, RevokeToFront, CreateCompare, CreateInsert,
         ReorderGet, ReorderMove, RemindRead, RemindSend, RemindFail, LastFlush, Commit, RollBack
    <3> QED BY <3>1
  <2> QED BY <2>1, <2>2
<1> QED BY <1>1, <1>2 DEF Next

\* The tables calls are made on are sound, and nobody is open.
LEMMA SerialInit == Init => Serial
<1> SUFFICES ASSUME Init PROVE Serial
  OBVIOUS
<1>1. IInv /\ rows \in Table
  BY InitHolds DEF IInv, TypeInv
<1>2. /\ NoneStranded(rows) /\ FlagIsStatus(rows) /\ PositionIsQueued(rows)
      /\ ResolutionIsStatus(rows)
  BY DEF Init, QuietTable, Consistent
<1>3. \A i \in Items : SoundRow(rows[i])
  <2>1. \A i \in Items : rows[i]["active"] \in BOOLEAN
    BY <1>1, TableSets
  <2> QED BY <1>2, <2>1 DEF SoundRow, FlagIsStatus, PositionIsQueued, ResolutionIsStatus
<1>4. Sound(rows)
  BY <1>1, <1>2, <1>3 DEF Sound, IInv, Flags
<1>5. Open = {} /\ \A s \in Sessions : DOMAIN seen[s] = {}
  BY DEF Init, Open, Nothing
<1> QED BY <1>4, <1>5 DEF Serial

\* As long as no two transactions have been open at once, a transaction works on
\* a sound table towards a step of the lifecycle, wherever it is cut short.
THEOREM SerialInvariance == Spec => [](IInv /\ (~overlapped => Serial))
<1>1. IInv /\ (~overlapped => Serial) /\ [Next]_vars => (~overlapped' => Serial')
  BY SerialStep, Overlaps
<1> QED BY <1>1, SerialInit, Invariance, PTL DEF Spec

\* As long as no two transactions have been open at once, the committed table is
\* consistent after every statement, whichever one a call is cut short at and
\* however many rows the worker creates before its commit.
THEOREM SerialTablesAreConsistent == Spec => []TableConsistent
<1>1. IInv /\ (~overlapped => Serial) => TableConsistent
  <2> SUFFICES ASSUME IInv, Serial PROVE Consistent(rows)
    BY DEF TableConsistent
  <2>1. rows \in Table /\ Sound(rows)
    BY DEF IInv, TypeInv, Serial
  <2>2. \A i \in Items : rows[i]["active"] \in BOOLEAN
    BY <2>1, TableSets
  <2>3. AtMostOneActive(rows)
    BY <2>1, OneIsCardinality DEF Sound
  <2>4. FlagIsStatus(rows) /\ PositionIsQueued(rows) /\ ResolutionIsStatus(rows)
    BY <2>1, <2>2 DEF Sound, SoundRow, FlagIsStatus, PositionIsQueued, ResolutionIsStatus
  <2> QED BY <2>1, <2>3, <2>4 DEF Consistent, Sound
<1> QED BY <1>1, SerialInvariance, PTL

\* As long as no two transactions have been open at once, each is one step of the
\* lifecycle, taken at its commit, or none: an answer, a revocation, or all the
\* rows of a list that the worker creates in one transaction.
THEOREM SerialCallsAreLifecycleSteps == Spec => CallsAreLifecycleSteps
<1>1. ASSUME IInv, ~overlapped => Serial, [Next]_vars
      PROVE  [overlapped \/ Lifecycle!Next]_(Lifecycle!vars)
  <2> SUFFICES ASSUME Serial PROVE [Lifecycle!Next]_(Lifecycle!vars)
    BY <1>1
  <2>1. CASE rows' = rows
    BY <2>1 DEF Lifecycle!vars
  <2>2. CASE Unmoved(rows, rows')
    <3>1. [i \in Items |-> rows[i].res]' = [i \in Items |-> rows[i].res]
      BY <2>2 DEF Unmoved, Decisions
    <3> QED BY <2>2, <3>1 DEF Unmoved, Lifecycle!vars
  <2>3. ASSUME NEW S \in SUBSET Items, Recommended(rows, rows', S) PROVE Lifecycle!Next
    <3>1. S # {} /\ S \cap Lifecycle!Known = {}
      BY <2>3 DEF Recommended, KnownIn, Decisions, Lifecycle!Known
    <3>2. Lifecycle!Enter(S)
      BY <2>3 DEF Recommended, Entered, Lifecycle!Enter
    <3>3. Lifecycle!Recommend(S)
      BY <2>3, <3>1, <3>2 DEF Recommended, Decisions, Lifecycle!Recommend
    <3> QED BY <3>3 DEF Lifecycle!Next
  <2>4. ASSUME NEW i \in Items, TakenBack(rows, rows', i) PROVE Lifecycle!Next
    <3>1. Lifecycle!Enter({i})
      BY <2>4 DEF TakenBack, Entered, Lifecycle!Enter
    <3>2. Lifecycle!TakeBack(i)
      BY <2>4, <3>1 DEF TakenBack, Decisions, Lifecycle!TakeBack
    <3> QED BY <3>2 DEF Lifecycle!Next
  <2>5. ASSUME NEW i \in Items, NEW r \in Resolution, Decided(rows, rows', i, r) PROVE Lifecycle!Next
    <3>1. Lifecycle!Decide(i, r)
      BY <2>5 DEF Decided, Decisions, Lifecycle!Decide
    <3> QED BY <3>1 DEF Lifecycle!Next, Lifecycle!Answer, Resolution
  <2> QED BY <1>1, <2>1, <2>2, <2>3, <2>4, <2>5, SerialStep DEF Outcome
<1> QED BY <1>1, SerialInvariance, PTL DEF Spec, CallsAreLifecycleSteps

\* From an empty table, and when no two transactions are ever open at once, the
\* statements implement the lifecycle that the owner is promised.
THEOREM SerialImplementsLifecycle ==
    Spec /\ rows = [i \in Items |-> NoRow] /\ []~overlapped => Lifecycle!Spec
<1>1. rows = [i \in Items |-> NoRow] => Lifecycle!Init
  <2> SUFFICES ASSUME rows = [i \in Items |-> NoRow] PROVE Lifecycle!Init
    OBVIOUS
  <2>1. \A i \in Items : rows[i].status # "queued" /\ rows[i].active = FALSE /\ rows[i].res = Null
    BY NullAssumption DEF NoRow
  <2> QED BY <2>1 DEF Lifecycle!Init, QueuedIn, ActiveIn
<1>2. Spec => CallsAreLifecycleSteps
  BY SerialCallsAreLifecycleSteps
<1>3. ~overlapped /\ [overlapped \/ Lifecycle!Next]_(Lifecycle!vars)
      => [Lifecycle!Next]_(Lifecycle!vars)
  OBVIOUS
<1> QED BY <1>1, <1>2, <1>3, PTL DEF CallsAreLifecycleSteps, Lifecycle!Spec
=============================================================================
