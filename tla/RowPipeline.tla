----------------------------- MODULE RowPipeline -----------------------------
(***************************************************************************)
(* One row of a supplier list through the worker: process_run of           *)
(* modules/tools/orchestration.py as it concerns this row, processed       *)
(* several times over (a list may be enqueued again, its mapping corrected *)
(* in between), with what the owner decides about its match and its review *)
(* entry between two passes.  ListRuns.tla has the runs, the messages and  *)
(* the passes that overlap with the owner.                                 *)
(*                                                                         *)
(* db is what is committed, tx the worker's open transaction.  The other   *)
(* rows of the list are one action: a crash, or a row that spoils the      *)
(* transaction, ends the pass at any point (RollBack).                     *)
(***************************************************************************)
EXTENDS AmazonClients, RowRouting, Sequences

CONSTANTS
    Texts,          \* what the mapped cells of the row may say
    Candidates,     \* best hits of the catalog search: [asin, confidence]
    Answers,        \* answers of SP-API and Keepa about one ASIN
    Asins,          \* what the owner may enter
    MaxPasses       \* bound: times the list is processed

ASSUME TextsAssumption ==
    \A t \in Texts : t.price \in {Tiers, Unreadable, Null} \/ t.price \in Int
ASSUME CandidatesAssumption ==
    \A c \in Candidates : c.asin # Null /\ c.confidence \in 0..100

\* The columns of product_matches and manual_review_queue
MatchType ==
    [asin : Asins \cup {c.asin : c \in Candidates} \cup {Null},
     confidence : 0..100 \cup {Null}, status : {"proposed", "confirmed", "rejected"}]
EntryType == [reason : ReviewReason, status : {"pending", "resolved", "dismissed"}]

ASSUME NullIsNoRow == Null \notin MatchType \cup EntryType \cup ReviewReason \cup {Raised}

VARIABLES
    db,         \* the committed rows that belong to the line item
    tx,         \* the same as the worker's transaction sees them
    pc,         \* "idle", or the next step of the pass
    answer,     \* the snapshot of this pass, Null before it is fetched
    failed,     \* an exception ended the row's processing in this pass
    judged,     \* this pass has stored a classification
    unruled,    \* this pass found no active rules config
    passes

vars == <<db, tx, pc, answer, failed, judged, unruled, passes>>

----------------------------------------------------------------------------
Config == DefaultRulesConfig

\* A row as ingest_file leaves it
Ingested ==
    [item |-> [item_type |-> "standard", parse_status |-> "ok", unit_price |-> Null],
     matched |-> FALSE,     \* product_match_id is set
     match |-> Null,        \* the product_matches row of its item number
     result |-> Null,       \* its classification_results row
     review |-> Null,       \* its manual_review_queue row
     approvals |-> <<>>]    \* the approval_queue rows created from it

Init ==
    /\ db = Ingested /\ tx = Ingested
    /\ pc = "idle" /\ passes = 0
    /\ answer = Null
    /\ failed = FALSE /\ judged = FALSE /\ unruled = FALSE

\* apply_normalization, on this row.  product_match_id is left as it was.
ApplyNormalization(text) ==
    /\ pc = "idle" /\ passes < MaxPasses
    /\ tx' = [db EXCEPT !.item = ClassifyText(text)]
    /\ pc' = IF tx'.item.item_type = "standard" THEN "match" ELSE "route"
    /\ passes' = passes + 1
    /\ answer' = Null /\ failed' = FALSE /\ judged' = FALSE /\ unruled' = FALSE
    /\ UNCHANGED db

----------------------------------------------------------------------------
(***************************************************************************)
(* _process_one_item                                                       *)
(***************************************************************************)
\* An exception: the row is marked, and routed like any other
Fail ==
    /\ failed' = TRUE
    /\ tx' = [tx EXCEPT !.item.parse_status = "error"]
    /\ pc' = "route"
    /\ UNCHANGED <<db, answer, judged, unruled, passes>>

SearchFails == pc = "match" /\ ~(tx.match # Null /\ tx.match.status = "confirmed") /\ Fail

\* find_or_propose_match: a confirmed match is reused, anything else searched
Proposal(best) ==
    [asin |-> IF best # Null /\ best.confidence >= MinProposalConfidence THEN best.asin ELSE Null,
     confidence |-> IF best # Null THEN best.confidence ELSE Null,
     status |-> "proposed"]

OverwritingMatch(existing, best) == Proposal(best)    \* searches whatever is stored

FindOrPropose(existing, best) ==
    IF existing # Null /\ existing.status = "confirmed" THEN existing ELSE Proposal(best)

Match(best) ==
    /\ pc = "match"
    /\ tx' = [tx EXCEPT !.match = FindOrPropose(@, best), !.matched = TRUE]
    /\ pc' = IF tx'.match.asin = Null THEN "route" ELSE "fetch"
    /\ UNCHANGED <<db, answer, failed, judged, unruled, passes>>

\* _fetch_and_store_snapshot
FetchSnapshot(a) ==
    /\ pc = "fetch"
    /\ IF Fetched(a)
       THEN /\ answer' = a
            /\ pc' = "classify"
            /\ UNCHANGED <<db, tx, failed, judged, unruled, passes>>
       ELSE Fail

\* classify_line_item of modules/rules/service.py.  A label is stored over the
\* old one; a number too large for its column spoils the whole transaction.
SkipClassification ==       \* no active config: RulesServiceError, swallowed
    /\ pc = "classify"
    /\ unruled' = TRUE
    /\ pc' = "route"
    /\ UNCHANGED <<db, tx, answer, failed, judged, passes>>

ClassifyLineItem ==
    LET in == InputsFrom(tx.item.unit_price, answer)
        decision == Classify(in, Config)
    IN  /\ pc = "classify"
        /\ IF decision = Raised THEN Fail
           ELSE /\ IF Storable(in, decision)
                   THEN /\ tx' = [tx EXCEPT !.result = decision]
                        /\ pc' = "approve"
                        /\ judged' = TRUE
                   ELSE pc' = "spoilt" /\ UNCHANGED <<tx, judged>>
                /\ UNCHANGED <<db, answer, failed, unruled, passes>>

\* create_from_classification: what the approval item says about the row
CreateApproval ==
    /\ pc = "approve"
    /\ tx' = IF tx.result.classification \in ApprovalGated
             THEN [tx EXCEPT !.approvals = Append(@, tx.result)]
             ELSE tx
    /\ pc' = "route"
    /\ UNCHANGED <<db, answer, failed, judged, unruled, passes>>

----------------------------------------------------------------------------
\* evaluate_and_route, which reads the match by product_match_id and whatever
\* classification is stored
LinkedMatch(row) == IF row.matched THEN row.match ELSE Null
Reason(row) == DetermineReviewReason(row.item, LinkedMatch(row), row.result)

ReopeningEntry(existing, reason) ==   \* reopens what the owner has decided
    IF reason = Null THEN existing ELSE [reason |-> reason, status |-> "pending"]

Entry(existing, reason) ==
    IF reason = Null THEN existing
    ELSE IF existing # Null /\ existing.status # "pending" THEN existing
    ELSE [reason |-> reason, status |-> "pending"]

RouteFinishedRows ==      \* routes a row only when its processing raised nothing
    /\ pc = "route"
    /\ tx' = IF failed THEN tx ELSE [tx EXCEPT !.review = Entry(@, Reason(tx))]
    /\ pc' = "commit"
    /\ UNCHANGED <<db, answer, failed, judged, unruled, passes>>

EvaluateAndRoute ==
    /\ pc = "route"
    /\ tx' = [tx EXCEPT !.review = Entry(@, Reason(tx))]
    /\ pc' = "commit"
    /\ UNCHANGED <<db, answer, failed, judged, unruled, passes>>

\* The end of the run
Commit ==
    /\ pc = "commit"
    /\ db' = tx
    /\ pc' = "idle"
    /\ answer' = Null /\ failed' = FALSE /\ judged' = FALSE /\ unruled' = FALSE
    /\ UNCHANGED <<tx, passes>>

UnclosedSession ==        \* keeps the session, and what it holds, for the next message
    /\ pc # "idle"
    /\ pc' = "idle"
    /\ answer' = Null /\ failed' = FALSE /\ judged' = FALSE /\ unruled' = FALSE
    /\ UNCHANGED <<db, tx, passes>>

RollBack ==
    /\ pc # "idle"
    /\ tx' = db
    /\ pc' = "idle"
    /\ answer' = Null /\ failed' = FALSE /\ judged' = FALSE /\ unruled' = FALSE
    /\ UNCHANGED <<db, passes>>

ProcessRow ==
    \/ \E t \in Texts : ApplyNormalization(t)
    \/ SearchFails
    \/ \E best \in Candidates \cup {Null} : Match(best)
    \/ \E a \in Answers : FetchSnapshot(a)
    \/ SkipClassification
    \/ ClassifyLineItem
    \/ CreateApproval
    \/ EvaluateAndRoute
    \/ Commit
    \/ RollBack

----------------------------------------------------------------------------
(***************************************************************************)
(* The owner, between two passes                                           *)
(***************************************************************************)
Decide(row) ==
    /\ pc = "idle"
    /\ db' = row /\ tx' = row
    /\ UNCHANGED <<pc, answer, failed, judged, unruled, passes>>

\* confirm_match: as proposed (asin = Null), or with an ASIN of the owner's own
ConfirmMatch(asin) ==
    /\ db.match # Null
    /\ LET override == asin # Null /\ asin # db.match.asin
       IN  Decide([db EXCEPT !.match =
              [asin |-> IF override THEN asin ELSE @.asin,
               confidence |-> IF override THEN Null ELSE @.confidence,
               status |-> "confirmed"]])

RejectMatch == db.match # Null /\ Decide([db EXCEPT !.match.status = "rejected"])

ResolveReviewEntry ==
    db.review # Null /\ Decide([db EXCEPT !.review.status = "resolved"])
DismissReviewEntry ==
    db.review # Null /\ Decide([db EXCEPT !.review.status = "dismissed"])

OwnerDecides ==
    \/ \E asin \in Asins \cup {Null} : ConfirmMatch(asin)
    \/ RejectMatch
    \/ ResolveReviewEntry
    \/ DismissReviewEntry

Next == ProcessRow \/ OwnerDecides
Spec == Init /\ [][Next]_vars

----------------------------------------------------------------------------
(***************************************************************************)
(* Properties                                                              *)
(***************************************************************************)
RowType(row) ==
    /\ row.item.item_type \in ItemType /\ row.item.parse_status \in ParseStatus
    /\ row.item.unit_price \in Int \cup {Null}
    /\ row.matched \in BOOLEAN
    /\ row.match \in MatchType \cup {Null}
    /\ row.result # Null => row.result.classification \in Label
    /\ row.review \in EntryType \cup {Null}
    /\ row.matched => row.match # Null

\* The columns hold what they are declared to hold; a linked match exists.
TypeOK ==
    /\ RowType(db) /\ RowType(tx)
    /\ pc \in {"idle", "match", "fetch", "classify", "approve", "route", "commit", "spoilt"}
    /\ pc = "idle" => tx = db

\* A label that this pass stored is the one the rules table gives for the cost
\* in the sheet and for what Amazon answered; in particular no row is put up for
\* purchase for which Amazon named a restriction, a gate or a doubt.
LabelIsDeserved ==
    judged =>
        /\ LabelOf(InputsFrom(tx.item.unit_price, answer), Config, tx.result.classification)
        /\ tx.result.classification \in ApprovalGated =>
              ReasonCodes(answer.restrictions) \cap
                  (HardReasons \cup {"APPROVAL_REQUIRED", "NOT_ELIGIBLE"}) = {}

\* What the owner is asked to approve explains itself (reasoning_es.py): the two
\* figures that make it a purchase are there, and a HIGH_RISK item, and no other,
\* names the competition as its risk.
ApprovalTellsWhy ==
    \A k \in DOMAIN db.approvals :
        LET approval == db.approvals[k]
            competition == Riesgo(approval.rule_trace) \cap {"buy box", "sellers"}
        IN  /\ PorQue(approval.rule_trace)
            /\ approval.classification = "high_risk" <=> competition # {}

\* No row drops out of sight.  A row that a pass did not classify, whatever
\* label an earlier pass left on it, is in the review queue at its end.  The two
\* exceptions are the code's: no active rules config (orchestration.py:120), and
\* a proposal without an ASIN that the owner confirmed.
UnjudgedIsReviewed ==
    pc = "commit" =>
        \/ judged /\ ~failed
        \/ tx.review # Null
        \/ unruled
        \/ tx.match # Null /\ tx.match.status = "confirmed" /\ tx.match.asin = Null

\* A review entry that the owner resolved or dismissed is never pending again,
\* whatever later passes find (review/service.py:60-63).
OwnerDecisionStands ==
    [][db.review # Null /\ db.review.status # "pending"
        => db'.review # Null /\ db'.review.status # "pending"]_vars

\* A pass never touches a match the owner confirmed before it started
\* (matching/engine.py:102).
ConfirmedMatchKept ==
    [][pc # "idle" /\ db.match # Null /\ db.match.status = "confirmed"
        => db'.match = db.match /\ tx'.match = db.match]_vars
=============================================================================
