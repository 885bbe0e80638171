-------------------------- MODULE RowPipelineProofs --------------------------
(***************************************************************************)
(* Theorems about one row of a list, for every sheet, every catalog and    *)
(* every answer of Amazon and Keepa, and any number of passes.             *)
(***************************************************************************)
EXTENDS RowPipeline, RuleEngineProofs

\* What classify() can return, besides raising.
RuleName ==
    {"restricted_product", "ambiguous_restriction_reason", "manufacturer_sells_directly",
     "gated_product", "financial_data_available", "financial_calculation", "roi_threshold",
     "margin_threshold", "gated_pending_strength_check", "seller_count_risk",
     "amazon_has_buy_box", "seller_count_high_risk", "sales_velocity"}
RuleResult == {"pass", "fail", "info", "hard_exclude"}
Traces == SUBSET (RuleName \X RuleResult)
Decisions == [classification : Label, rule_trace : Traces]
Explicit == {d \in Decisions : Explained(d)}

LEMMA TraceType ==
    ASSUME NEW trace \in Traces, NEW rule \in RuleName, NEW result \in RuleResult
    PROVE  trace \cup {<<rule, result>>} \in Traces /\ {<<rule, result>>} \in Traces
<1>1. <<rule, result>> \in RuleName \X RuleResult
  OBVIOUS
<1> QED BY <1>1 DEF Traces

LEMMA DecisionType ==
    ASSUME NEW label \in Label, NEW trace \in Traces
    PROVE  Decision(label, trace) \in Decisions
BY DEF Decision, Decisions

\* The results are among those declared.
LEMMA ResultType ==
    ASSUME NEW in, NEW config, NEW ok
    PROVE  RoiResult(in, config) \in RuleResult /\ PassOr("fail", ok) \in RuleResult
BY DEF RoiResult, PassOr, RuleResult

LEMMA WeighRiskType ==
    ASSUME NEW in, NEW config, NEW trace \in Traces
    PROVE  WeighRisk(in, config, trace) \in Decisions
<1> DEFINE counted == trace \cup {<<"seller_count_risk", "info">>}
           ok == in.sales_rank_drops_30d >= config.sales_rank_drops_30d_min
<1>1. counted \in Traces
  BY TraceType DEF RuleName, RuleResult
<1>2. /\ counted \cup {<<"amazon_has_buy_box", "fail">>} \in Traces
      /\ counted \cup {<<"seller_count_high_risk", "fail">>} \in Traces
      /\ counted \cup {<<"sales_velocity", "info">>} \in Traces
      /\ counted \cup {<<"sales_velocity", PassOr("fail", ok)>>} \in Traces
  BY <1>1, TraceType, ResultType DEF RuleName, RuleResult
<1> HIDE DEF counted
<1>3. "buy" \in Label /\ "review" \in Label /\ "high_risk" \in Label
  BY DEF Label
<1>4. WeighVelocity(in, config, counted) \in Decisions
  BY <1>2, <1>3, DecisionType DEF WeighVelocity
<1> QED BY <1>2, <1>3, <1>4, DecisionType DEF WeighRisk, counted

LEMMA JudgeType ==
    ASSUME NEW in, NEW config, NEW trace \in Traces
    PROVE  Judge(in, config, trace) \in Decisions
<1> DEFINE strong == NotablyStrong(in, config)
<1>1. WeighRisk(in, config, trace) \in Decisions
  BY WeighRiskType
<1>2. trace \cup {<<"gated_pending_strength_check", PassOr("fail", strong)>>} \in Traces
  BY TraceType, ResultType DEF RuleName
<1>3. "review" \in Label /\ "no_buy" \in Label /\ "negotiate" \in Label
  BY DEF Label
<1> QED BY <1>1, <1>2, <1>3, DecisionType DEF Judge, WeighNumbers

LEMMA ClassifyType ==
    ASSUME NEW in, NEW config, Classify(in, config) # Raised
    PROVE  Classify(in, config) \in Decisions
<1> DEFINE gate == IF in.is_gated THEN {<<"gated_product", "info">>} ELSE {}
           calculated == gate \cup {<<"financial_calculation", "info">>}
           roi == calculated \cup {<<"roi_threshold", RoiResult(in, config)>>}
           trace == roi \cup {<<"margin_threshold", PassOr("fail", MarginOk(in, config))>>}
<1>1. {} \in Traces
  BY DEF Traces
<1>2. gate \in Traces
  BY <1>1, TraceType DEF RuleName, RuleResult
<1> HIDE DEF gate
<1>3. calculated \in Traces
  BY <1>2, TraceType DEF RuleName, RuleResult
<1> HIDE DEF calculated
<1>4. roi \in Traces
  BY <1>3, TraceType, ResultType DEF RuleName
<1> HIDE DEF roi
<1>5. trace \in Traces
  BY <1>4, TraceType, ResultType DEF RuleName
<1> HIDE DEF trace
<1>6. Judge(in, config, trace) \in Decisions
  BY <1>5, JudgeType
<1>7. trace = gate \cup {<<"financial_calculation", "info">>,
                        <<"roi_threshold", RoiResult(in, config)>>,
                        <<"margin_threshold", PassOr("fail", MarginOk(in, config))>>}
  BY DEF trace, roi, calculated
<1>8. /\ gate \cup {<<"financial_data_available", "fail">>} \in Traces
      /\ {<<"restricted_product", "hard_exclude">>} \in Traces
      /\ {<<"ambiguous_restriction_reason", "info">>} \in Traces
      /\ {<<"manufacturer_sells_directly", "hard_exclude">>} \in Traces
  BY <1>1, <1>2, TraceType DEF RuleName, RuleResult
<1>9. "review" \in Label /\ "no_buy" \in Label
  BY DEF Label
<1>10. Calculate(in, config, gate) \in Decisions \cup {Raised}
  BY <1>6, <1>7, <1>8, <1>9, DecisionType DEF Calculate
<1> QED BY <1>8, <1>9, <1>10, DecisionType DEF Classify, gate

----------------------------------------------------------------------------
\* A row of the database, as a value.
Row == [item : [item_type : ItemType, parse_status : ParseStatus,
                unit_price : Int \cup {Null}],
        matched : BOOLEAN, match : MatchType \cup {Null},
        result : Decisions \cup {Null}, review : EntryType \cup {Null},
        approvals : Seq(Explicit)]

RowOK(row) == row \in Row /\ (row.matched => row.match # Null)

\* Where the label came from.
Classified ==
    LET decision == Classify(InputsFrom(tx.item.unit_price, answer), Config)
    IN  tx.result = decision /\ decision # Raised

Confirmed(match) == match # Null /\ match.status = "confirmed"
DecidedEntry(entry) == entry # Null /\ entry.status # "pending"

\* The reasons for which a pass may leave a row out of the review queue.
Settled == judged \/ unruled \/ (Confirmed(tx.match) /\ tx.match.asin = Null)

\* The inductive invariant.  A label is remembered with its inputs from the step
\* that stores it to the end of the pass; a row that leaves the pipeline early
\* carries the reason for a review with it.
Inv ==
    /\ RowOK(db) /\ RowOK(tx)
    /\ judged \in BOOLEAN /\ failed \in BOOLEAN /\ unruled \in BOOLEAN
    /\ pc \in {"idle", "match", "fetch", "classify", "approve", "route", "commit", "spoilt"}
    /\ pc = "idle" => tx = db
    /\ judged => pc \in {"approve", "route", "commit"} /\ ~failed /\ Classified
    /\ pc = "approve" => judged
    /\ failed => pc \in {"route", "commit"} /\ tx.item.parse_status = "error"
    /\ pc = "route" => Settled \/ Reason(tx) # Null
    /\ pc = "commit" => Settled \/ tx.review # Null
    /\ DecidedEntry(db.review) => tx.review = db.review
    /\ Confirmed(db.match) => tx.match = db.match

LEMMA InitInv == Init => Inv
<1>1. Ingested \in Row
  BY DEF Ingested, Row, ItemType, ParseStatus
<1>2. RowOK(Ingested) /\ ~DecidedEntry(Ingested.review) /\ ~Confirmed(Ingested.match)
  BY <1>1 DEF Ingested, RowOK, DecidedEntry, Confirmed
<1> QED BY <1>2 DEF Init, Inv

(***************************************************************************)
(* Each step of a pass                                                     *)
(***************************************************************************)
\* What the sheet's text makes of a row.
\* A reason is a value of its column.
LEMMA ReasonsAreNotNull ==
    /\ Null \notin ReviewReason
    /\ {"display_bundle_sku", "tiered_promo_pricing", "ambiguous_parse",
        "low_confidence_match"} \subseteq ReviewReason
BY NullIsNoRow DEF ReviewReason

LEMMA ClassifyTextType ==
    ASSUME NEW t \in Texts
    PROVE  /\ ClassifyText(t) \in [item_type : ItemType, parse_status : ParseStatus,
                                   unit_price : Int \cup {Null}]
           /\ ClassifyText(t).item_type # "standard" =>
                 \A match, result :
                    DetermineReviewReason(ClassifyText(t), match, result) # Null
<1>1. ClassifyText(t) \in [item_type : ItemType, parse_status : ParseStatus,
                           unit_price : Int \cup {Null}]
  BY TextsAssumption DEF ClassifyText, Outcome, ItemType, ParseStatus
<1>2. ASSUME NEW match, NEW result, ClassifyText(t).item_type # "standard"
      PROVE  DetermineReviewReason(ClassifyText(t), match, result)
                \in {"display_bundle_sku", "tiered_promo_pricing", "ambiguous_parse"}
  BY <1>1, <1>2 DEF DetermineReviewReason, ItemType
<1> QED BY <1>1, <1>2, ReasonsAreNotNull

LEMMA ApplyNormalizationInv ==
    ASSUME Inv, NEW t \in Texts, ApplyNormalization(t)
    PROVE  Inv'
<1> USE DEF Inv, ApplyNormalization
<1>1. RowOK(tx')
  BY ClassifyTextType DEF RowOK, Row
<1>2. pc' = "route" => Reason(tx') # Null
  BY ClassifyTextType DEF Reason, RowOK, Row
<1>3. tx'.review = db.review /\ tx'.match = db.match
  BY DEF RowOK, Row
<1>4. pc' \in {"match", "route"} /\ judged' = FALSE /\ failed' = FALSE /\ unruled' = FALSE
  OBVIOUS
<1> QED BY <1>1, <1>2, <1>3, <1>4

LEMMA FailInv ==
    ASSUME Inv, Fail, pc \in {"match", "fetch", "classify"}
    PROVE  Inv'
<1> USE DEF Inv, Fail
<1>1. RowOK(tx')
  BY DEF RowOK, Row, ParseStatus
<1>2. tx'.item.parse_status = "error" /\ tx'.review = tx.review /\ tx'.match = tx.match
  BY DEF RowOK, Row
<1>3. Reason(tx') # Null
  BY <1>2, ReasonsAreNotNull DEF Reason, DetermineReviewReason
<1>4. ~judged
  OBVIOUS
<1> QED BY <1>1, <1>2, <1>3, <1>4

\* A proposal is a match, and one without an ASIN is of low confidence.
LEMMA ProposalType ==
    ASSUME NEW best \in Candidates \cup {Null}
    PROVE  /\ Proposal(best) \in MatchType
           /\ Proposal(best).status = "proposed"
           /\ Proposal(best).asin = Null => LowConfidence(Proposal(best))
<1>1. CASE best = Null
  BY <1>1 DEF Proposal, MatchType, LowConfidence
<1>2. CASE best \in Candidates /\ best # Null
  <2>1. best.asin # Null /\ best.confidence \in 0..100
    BY <1>2, CandidatesAssumption
  <2>2. best.asin \in {c.asin : c \in Candidates}
    BY <1>2
  <2>3. Proposal(best).asin \in {best.asin, Null} /\ Proposal(best).confidence = best.confidence
    BY <1>2 DEF Proposal
  <2>4. Proposal(best) \in MatchType
    BY <1>2, <2>1, <2>2 DEF Proposal, MatchType
  <2>5. Proposal(best).asin = Null => best.confidence < 75
    BY <1>2, <2>1 DEF Proposal, MinProposalConfidence
  <2>6. Proposal(best).status = "proposed"
    BY DEF Proposal
  <2> QED BY <2>3, <2>4, <2>5, <2>6 DEF LowConfidence, LowConfidenceReviewThreshold
<1> QED BY <1>1, <1>2

LEMMA MatchInv ==
    ASSUME Inv, NEW best \in Candidates \cup {Null}, Match(best)
    PROVE  Inv'
<1> USE DEF Inv, Match
<1> DEFINE match == FindOrPropose(tx.match, best)
<1>1. match \in MatchType /\ match # Null
  BY ProposalType, NullIsNoRow DEF FindOrPropose, RowOK, Row
<1>2. Confirmed(tx.match) => match = tx.match
  BY DEF FindOrPropose, Confirmed
<1>3. ~Confirmed(match) => match = Proposal(best)
  BY NullIsNoRow, ProposalType DEF FindOrPropose, Confirmed
<1> HIDE DEF match
<1>4. /\ tx' \in Row /\ tx'.matched = TRUE /\ tx'.match = match
      /\ tx'.review = tx.review /\ tx'.item = tx.item
  BY <1>1 DEF match, RowOK, Row
<1>5. RowOK(tx')
  BY <1>1, <1>4 DEF RowOK
<1>6. ASSUME pc' = "route", ~Confirmed(match)
      PROVE  Reason(tx') # Null
  <2>1. match.status = "proposed" /\ LowConfidence(match)
    BY <1>3, <1>4, <1>6, ProposalType
  <2> QED BY <1>1, <1>4, <2>1, ReasonsAreNotNull DEF Reason, LinkedMatch, DetermineReviewReason
<1>7. pc' = "route" => Settled' \/ Reason(tx') # Null
  BY <1>4, <1>6 DEF Settled
<1>8. Confirmed(db.match) => tx'.match = db.match
  BY <1>2, <1>4
<1>9. pc' \in {"route", "fetch"} /\ ~judged /\ ~failed
  OBVIOUS
<1> QED BY <1>4, <1>5, <1>7, <1>8, <1>9

LEMMA FetchSnapshotInv ==
    ASSUME Inv, NEW a \in Answers, FetchSnapshot(a)
    PROVE  Inv'
<1>1. CASE Fetched(a)
  BY <1>1 DEF Inv, FetchSnapshot, Settled
<1>2. CASE ~Fetched(a)
  BY <1>2, FailInv DEF FetchSnapshot
<1> QED BY <1>1, <1>2

LEMMA SkipInv == ASSUME Inv, SkipClassification PROVE Inv'
BY DEF Inv, SkipClassification, Settled

LEMMA ClassifyLineItemInv == ASSUME Inv, ClassifyLineItem PROVE Inv'
<1> DEFINE in == InputsFrom(tx.item.unit_price, answer)
           decision == Classify(in, Config)
<1>1. CASE decision = Raised
  BY <1>1, FailInv DEF ClassifyLineItem
<1>2. CASE decision # Raised /\ Storable(in, decision)
  <2>1. decision \in Decisions
    BY <1>2, ClassifyType
  <2>2. tx' = [tx EXCEPT !.result = decision] /\ pc' = "approve" /\ judged' = TRUE
        /\ UNCHANGED <<db, answer, failed, unruled, passes>>
    BY <1>2 DEF ClassifyLineItem
  <2> HIDE DEF decision
  <2>3. /\ RowOK(tx') /\ tx'.result = decision /\ tx'.item = tx.item
        /\ tx'.match = tx.match /\ tx'.review = tx.review
    BY <2>1, <2>2 DEF Inv, RowOK, Row
  <2>4. Classified'
    BY <1>2, <2>2, <2>3 DEF Classified, decision, Config
  <2>5. ~failed
    BY DEF Inv, ClassifyLineItem
  <2> QED BY <2>2, <2>3, <2>4, <2>5 DEF Inv
<1>3. CASE decision # Raised /\ ~Storable(in, decision)
  <2>1. pc' = "spoilt" /\ UNCHANGED <<db, tx, answer, judged, failed, unruled, passes>>
    BY <1>3 DEF ClassifyLineItem
  <2>2. ~judged /\ ~failed
    BY DEF Inv, ClassifyLineItem
  <2> QED BY <2>1, <2>2 DEF Inv
<1> QED BY <1>1, <1>2, <1>3

LEMMA CreateApprovalInv == ASSUME Inv, CreateApproval PROVE Inv'
<1> USE DEF Inv, CreateApproval
<1>1. Classified /\ judged /\ ~failed /\ tx.result \in Decisions
  BY ClassifyType DEF Classified
<1>2. tx.result.classification \in ApprovalGated => tx.result \in Explicit
  BY <1>1, GatedLabelTells DEF Classified, Explicit
<1>3. /\ RowOK(tx') /\ tx'.result = tx.result /\ tx'.item = tx.item
      /\ tx'.match = tx.match /\ tx'.review = tx.review
  <2>1. CASE tx.result.classification \in ApprovalGated
    <3>1. tx.approvals \in Seq(Explicit) /\ tx.result \in Explicit
      BY <1>2, <2>1 DEF RowOK, Row
    <3>2. Append(tx.approvals, tx.result) \in Seq(Explicit)
      BY <3>1
    <3>3. tx' = [tx EXCEPT !.approvals = Append(tx.approvals, tx.result)]
      BY <2>1 DEF RowOK, Row
    <3> QED BY <3>2, <3>3 DEF RowOK, Row
  <2>2. CASE tx.result.classification \notin ApprovalGated
    BY <2>2
  <2> QED BY <2>1, <2>2
<1>4. Classified'
  BY <1>1, <1>3 DEF Classified, Config
<1> QED BY <1>1, <1>3, <1>4 DEF Settled

\* evaluate_and_route either leaves the entry or makes a pending one.
LEMMA EntryFacts ==
    ASSUME NEW row, row.review \in EntryType \cup {Null}, NEW reason \in ReviewReason \cup {Null}
    PROVE  /\ Entry(row.review, reason) \in EntryType \cup {Null}
           /\ DecidedEntry(row.review) => Entry(row.review, reason) = row.review
           /\ reason # Null => Entry(row.review, reason) # Null
BY NullIsNoRow DEF Entry, EntryType, DecidedEntry

LEMMA ReasonType == ASSUME NEW row PROVE Reason(row) \in ReviewReason \cup {Null}
BY DEF Reason, DetermineReviewReason, ReviewReasonOf, ReviewReason

LEMMA EvaluateAndRouteInv == ASSUME Inv, EvaluateAndRoute PROVE Inv'
<1> USE DEF Inv, EvaluateAndRoute
<1> DEFINE entry == Entry(tx.review, Reason(tx))
<1>1. /\ entry \in EntryType \cup {Null}
      /\ DecidedEntry(tx.review) => entry = tx.review
      /\ Reason(tx) # Null => entry # Null
  <2>1. tx.review \in EntryType \cup {Null}
    BY DEF RowOK, Row
  <2>2. Reason(tx) \in ReviewReason \cup {Null}
    BY ReasonType
  <2> HIDE DEF Inv, EvaluateAndRoute
  <2> QED BY <2>1, <2>2, EntryFacts
<1> HIDE DEF entry
<1>2. tx' = [tx EXCEPT !.review = entry]
  BY DEF entry, RowOK, Row
<1>3. /\ RowOK(tx') /\ tx'.result = tx.result /\ tx'.item = tx.item
      /\ tx'.match = tx.match /\ tx'.review = entry
  BY <1>1, <1>2 DEF RowOK, Row
<1>4. judged => Classified'
  BY <1>3 DEF Classified, Config
<1>5. Settled => Settled'
  BY <1>3 DEF Settled
<1>6. DecidedEntry(db.review) => tx'.review = db.review
  BY <1>1, <1>3
<1> QED BY <1>1, <1>3, <1>4, <1>5, <1>6

LEMMA CommitInv == ASSUME Inv, Commit PROVE Inv'
BY DEF Inv, Commit

LEMMA RollBackInv == ASSUME Inv, RollBack PROVE Inv'
BY DEF Inv, RollBack

(***************************************************************************)
(* The owner                                                               *)
(***************************************************************************)
LEMMA DecideInv ==
    ASSUME Inv, NEW row, RowOK(row), Decide(row)
    PROVE  Inv'
BY DEF Inv, Decide

LEMMA OwnerInv == ASSUME Inv, OwnerDecides PROVE Inv'
<1>1. ASSUME NEW asin \in Asins \cup {Null}, ConfirmMatch(asin) PROVE Inv'
  <2> DEFINE override == asin # Null /\ asin # db.match.asin
             match == [asin |-> IF override THEN asin ELSE db.match.asin,
                       confidence |-> IF override THEN Null ELSE db.match.confidence,
                       status |-> "confirmed"]
  <2>1. db \in Row /\ db.match # Null /\ db.match \in MatchType
    BY <1>1 DEF Inv, RowOK, Row, ConfirmMatch
  <2>2. match \in MatchType
    BY <2>1 DEF MatchType
  <2>3. match # Null
    BY <2>2, NullIsNoRow
  <2>4. Decide([db EXCEPT !.match = match])
    BY <1>1, <2>1 DEF ConfirmMatch, Row
  <2> HIDE DEF match
  <2>5. RowOK([db EXCEPT !.match = match])
    BY <2>1, <2>2, <2>3 DEF RowOK, Row
  <2> QED BY <2>4, <2>5, DecideInv
<1>2. ASSUME RejectMatch PROVE Inv'
  <2>1. db \in Row /\ db.match # Null /\ db.match \in MatchType
    BY <1>2 DEF Inv, RowOK, Row, RejectMatch
  <2>2. [db.match EXCEPT !.status = "rejected"] \in MatchType
    BY <2>1 DEF MatchType
  <2>3. [db EXCEPT !.match.status = "rejected"]
            = [db EXCEPT !.match = [db.match EXCEPT !.status = "rejected"]]
    BY <2>1 DEF Row
  <2>4. RowOK([db EXCEPT !.match.status = "rejected"])
    BY <2>1, <2>2, <2>3, NullIsNoRow DEF RowOK, Row
  <2> QED BY <1>2, <2>4, DecideInv DEF RejectMatch
<1>3. ASSUME NEW status \in {"resolved", "dismissed"}, db.review # Null,
             Decide([db EXCEPT !.review.status = status])
      PROVE  Inv'
  <2>1. db \in Row /\ db.review \in EntryType
    BY <1>3 DEF Inv, RowOK, Row
  <2>2. [db.review EXCEPT !.status = status] \in EntryType
    BY <2>1 DEF EntryType
  <2>3. [db EXCEPT !.review.status = status]
            = [db EXCEPT !.review = [db.review EXCEPT !.status = status]]
    BY <2>1 DEF Row
  <2>4. RowOK([db EXCEPT !.review.status = status])
    BY <2>1, <2>2, <2>3 DEF Inv, RowOK, Row
  <2> QED BY <1>3, <2>4, DecideInv
<1> QED BY <1>1, <1>2, <1>3 DEF OwnerDecides, ResolveReviewEntry, DismissReviewEntry

LEMMA StepInv == ASSUME Inv, [Next]_vars PROVE Inv'
<1>1. ASSUME ProcessRow PROVE Inv'
  <2>1. ASSUME SearchFails PROVE Inv'
    BY <2>1, FailInv DEF SearchFails
  <2> QED BY <1>1, <2>1, ApplyNormalizationInv, MatchInv, FetchSnapshotInv, SkipInv,
             ClassifyLineItemInv, CreateApprovalInv, EvaluateAndRouteInv, CommitInv,
             RollBackInv DEF ProcessRow
<1>2. ASSUME UNCHANGED vars PROVE Inv'
  BY <1>2 DEF Inv, vars, Classified, Settled
<1> QED BY <1>1, <1>2, OwnerInv DEF Next

\* Every state of a pass, and every committed one, satisfies the inductive invariant.
THEOREM Invariance == Spec => []Inv
BY InitInv, StepInv, PTL DEF Spec

(***************************************************************************)
(* The theorems                                                            *)
(***************************************************************************)
\* The columns hold what they are declared to hold, in the database and in the
\* transaction, and a row with product_match_id has its match.
THEOREM RowTypes == Spec => []TypeOK
<1>1. Inv => TypeOK
  <2>1. ASSUME NEW row, RowOK(row) PROVE RowType(row)
    BY <2>1 DEF RowOK, Row, RowType, Decisions
  <2> QED BY <2>1 DEF Inv, TypeOK
<1> QED BY <1>1, Invariance, PTL

\* From the answers of Amazon to the inputs: an excluded or doubtful or gated ASIN
\* is never purchasable.
LEMMA PurchasableIsClear ==
    ASSUME NEW unit_price, NEW a, Purchasable(InputsFrom(unit_price, a), Config)
    PROVE  ReasonCodes(a.restrictions) \cap
               (HardReasons \cup {"APPROVAL_REQUIRED", "NOT_ELIGIBLE"}) = {}
<1> DEFINE in == InputsFrom(unit_price, a)
           codes == ReasonCodes(a.restrictions)
<1>1. /\ in.is_restricted = IsRestricted(a.restrictions)
      /\ in.ambiguous_restriction = IsAmbiguous(a.restrictions)
      /\ in.is_gated = IsGated(a.restrictions)
      /\ in.gated_approval_status = GatedApprovalStatus(a.restrictions)
  BY DEF InputsFrom
<1>2. ~IsRestricted(a.restrictions) /\ ~IsAmbiguous(a.restrictions)
  BY <1>1 DEF Purchasable, Priced, NoExclusion
<1>3. ~IsGated(a.restrictions)
  <2> SUFFICES ASSUME IsGated(a.restrictions) PROVE FALSE
    OBVIOUS
  <2>1. a.restrictions # {}
    BY DEF IsGated, ReasonCodes
  <2>2. in.gated_approval_status = "not_approved"
    BY <1>1, <2>1 DEF GatedApprovalStatus, ApprovedForSeller
  <2> QED BY <1>1, <2>2 DEF Purchasable, GatedPending
<1> QED BY <1>2, <1>3 DEF IsRestricted, IsAmbiguous, IsGated

\* Every label a pass stores is the one of the rules table for the cost in the
\* sheet and for what Amazon answered, and nothing that Amazon restricts is put
\* up for purchase.
THEOREM LabelDeserved == Spec => []LabelIsDeserved
<1>1. ASSUME Inv PROVE LabelIsDeserved
  <2> SUFFICES ASSUME judged PROVE LabelIsDeserved
    BY DEF LabelIsDeserved
  <2> DEFINE in == InputsFrom(tx.item.unit_price, answer)
  <2>1. tx.result = Classify(in, Config) /\ Classify(in, Config) # Raised
    BY <1>1 DEF Inv, Classified
  <2>2. FlagsAreBoolean(in)
    BY DEF FlagsAreBoolean, InputsFrom, IsRestricted, IsAmbiguous, IsGated
  <2>3. LabelOf(in, Config, tx.result.classification)
    BY <2>1, <2>2, DecisionTable
  <2>4. tx.result.classification \in ApprovalGated => Purchasable(in, Config)
    BY <2>3 DEF LabelOf, ApprovalGated
  <2> QED BY <2>3, <2>4, PurchasableIsClear DEF LabelIsDeserved
<1> QED BY <1>1, Invariance, PTL

\* Every approval item says what makes it a purchase, and names the competition
\* as its risk exactly when it is HIGH_RISK.
THEOREM ApprovalExplains == Spec => []ApprovalTellsWhy
<1>1. ASSUME Inv PROVE ApprovalTellsWhy
  <2>1. \A k \in DOMAIN db.approvals : db.approvals[k] \in Explicit
    BY <1>1 DEF Inv, RowOK, Row
  <2> QED BY <2>1 DEF ApprovalTellsWhy, Explicit, Explained, Competition
<1> QED BY <1>1, Invariance, PTL

\* A row that a pass did not classify is in the review queue when it ends, but
\* for the two exceptions the code makes.
THEOREM NothingDropped == Spec => []UnjudgedIsReviewed
<1>1. ASSUME Inv PROVE UnjudgedIsReviewed
  BY <1>1 DEF Inv, UnjudgedIsReviewed, Settled, Confirmed
<1> QED BY <1>1, Invariance, PTL

\* What the owner may write between two passes, and what a pass writes.
LEMMA DatabaseSteps ==
    ASSUME Inv, [Next]_vars
    PROVE  \/ db' = db
           \/ pc = "commit" /\ db' = tx /\ tx' = tx
           \/ pc = "idle" /\ db'.review = db.review
           \/ pc = "idle" /\ db'.review # Null /\ db'.review.status # "pending"
<1>1. ASSUME ProcessRow PROVE db' = db \/ (pc = "commit" /\ db' = tx /\ tx' = tx)
  BY <1>1 DEF ProcessRow, ApplyNormalization, SearchFails, Match, FetchSnapshot, Fail,
              SkipClassification, ClassifyLineItem, CreateApproval, EvaluateAndRoute,
              Commit, RollBack
<1>2. ASSUME OwnerDecides
      PROVE  /\ pc = "idle"
             /\ \/ db'.review = db.review
                \/ db'.review # Null /\ db'.review.status # "pending"
  <2>1. db \in Row
    BY DEF Inv, RowOK
  <2>2. ASSUME NEW asin \in Asins \cup {Null}, ConfirmMatch(asin)
        PROVE  pc = "idle" /\ db'.review = db.review
    BY <2>1, <2>2 DEF ConfirmMatch, Decide, Row
  <2>3. ASSUME RejectMatch PROVE pc = "idle" /\ db'.review = db.review
    BY <2>1, <2>3 DEF RejectMatch, Decide, Row
  <2>4. ASSUME NEW status \in {"resolved", "dismissed"}, db.review # Null,
               Decide([db EXCEPT !.review.status = status])
        PROVE  pc = "idle" /\ db'.review # Null /\ db'.review.status # "pending"
    <3>1. db.review \in EntryType
      BY <2>1, <2>4 DEF Row
    <3>2. pc = "idle" /\ db'.review = [db.review EXCEPT !.status = status]
      BY <2>1, <2>4 DEF Decide, Row
    <3>3. [db.review EXCEPT !.status = status] \in EntryType
      BY <3>1 DEF EntryType
    <3> QED BY <3>1, <3>2, <3>3, NullIsNoRow DEF EntryType
  <2> QED BY <1>2, <2>2, <2>3, <2>4 DEF OwnerDecides, ResolveReviewEntry, DismissReviewEntry
<1>3. ASSUME UNCHANGED vars PROVE db' = db
  BY <1>3 DEF vars
<1> QED BY <1>1, <1>2, <1>3 DEF Next

\* No pass reopens a review entry the owner has closed.
THEOREM DecisionStands == Spec => OwnerDecisionStands
<1>1. Inv /\ [Next]_vars =>
        [db.review # Null /\ db.review.status # "pending"
            => db'.review # Null /\ db'.review.status # "pending"]_vars
  BY DatabaseSteps DEF Inv, DecidedEntry
<1> QED BY <1>1, Invariance, PTL DEF Spec, OwnerDecisionStands

\* No pass touches a match that was confirmed before it started.
THEOREM ConfirmedStays == Spec => ConfirmedMatchKept
<1>1. Inv /\ Inv' /\ [Next]_vars =>
        [pc # "idle" /\ db.match # Null /\ db.match.status = "confirmed"
            => db'.match = db.match /\ tx'.match = db.match]_vars
  <2> SUFFICES ASSUME Inv, Inv', [Next]_vars, pc # "idle", Confirmed(db.match)
               PROVE  db'.match = db.match /\ tx'.match = db.match
    BY DEF Confirmed
  <2>1. tx.match = db.match
    BY DEF Inv
  <2>2. db' = db \/ db' = tx
    BY DatabaseSteps
  <2> QED BY <2>1, <2>2 DEF Inv
<1> QED BY <1>1, Invariance, PTL DEF Spec, ConfirmedMatchKept
=============================================================================
