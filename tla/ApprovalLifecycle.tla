------------------------- MODULE ApprovalLifecycle -------------------------
(***************************************************************************)
(* What the approval flow promises the owner, with nothing of how rows,    *)
(* positions and timers bring it about: recommendations wait, one of them  *)
(* at a time is in front of the owner, only an answer decides, and only an *)
(* approval can be taken back.                                             *)
(***************************************************************************)
CONSTANTS Items, Null

VARIABLES
    waiting,    \* recommendations not shown yet
    current,    \* the recommendation in front of the owner, if any
    decision    \* the owner's standing decision on each

vars == <<waiting, current, decision>>

Answer == {"approved", "denied"}

Known == waiting \cup current \cup {i \in Items : decision[i] # Null}

Init ==
    /\ waiting = {}
    /\ current = {}
    /\ decision = [i \in Items |-> Null]

\* S enters: one of them is shown when nothing is, and the others wait.
Enter(S) ==
    IF current = {}
    THEN \E i \in S : current' = {i} /\ waiting' = waiting \cup (S \ {i})
    ELSE waiting' = waiting \cup S /\ UNCHANGED current

\* The recommendations of one list arrive together.
Recommend(S) ==
    /\ S # {} /\ S \cap Known = {}
    /\ Enter(S)
    /\ UNCHANGED decision

\* The owner decides, and one of the waiting recommendations is shown.
Decide(i, r) ==
    /\ i \in current
    /\ decision' = [decision EXCEPT ![i] = r]
    /\ \/ waiting = {} /\ current' = {} /\ UNCHANGED waiting
       \/ \E n \in waiting : current' = {n} /\ waiting' = waiting \ {n}

TakeBack(i) ==
    /\ decision[i] = "approved"
    /\ Enter({i})
    /\ decision' = [decision EXCEPT ![i] = Null]

Next ==
    \/ \E S \in SUBSET Items : Recommend(S)
    \/ \E i \in Items, r \in Answer : Decide(i, r)
    \/ \E i \in Items : TakeBack(i)

Spec == Init /\ [][Next]_vars
=============================================================================
