----------------------------- MODULE RowRouting -----------------------------
(***************************************************************************)
(* Where a row goes besides its label: the type the sheet's text gives it  *)
(* (modules/normalization/classify_line_item.py) and the reason for a      *)
(* manual review (modules/review/routing.py).                              *)
(*                                                                         *)
(* A cell is kept as what the patterns find in it: whether the description *)
(* has a bundle keyword, and whether the price is missing, a block of      *)
(* tiers, unreadable, or a number.                                         *)
(***************************************************************************)
EXTENDS RuleEngine

CONSTANTS Unreadable, Tiers      \* prices that are no number

ItemType == {"standard", "display_bundle", "tiered_promo", "ambiguous"}
ParseStatus == {"ok", "needs_review", "error"}

Outcome(type, status, price) ==
    [item_type |-> type, parse_status |-> status, unit_price |-> price]

\* text: what the mapped cells of the row say
ClassifyText(text) ==
    IF text.bundle THEN Outcome("display_bundle", "needs_review", Null)
    ELSE IF text.price = Tiers THEN Outcome("tiered_promo", "needs_review", Null)
    ELSE IF ~text.number THEN Outcome("ambiguous", "error", Null)
    ELSE IF text.price = Unreadable THEN Outcome("ambiguous", "needs_review", Null)
    ELSE Outcome("standard", "ok", text.price)

----------------------------------------------------------------------------
\* Confidences are percentages
MinProposalConfidence == 40
LowConfidenceReviewThreshold == 75

LowConfidence(match) ==
    match.confidence = Null \/ match.confidence < LowConfidenceReviewThreshold

ReviewReason == {"display_bundle_sku", "tiered_promo_pricing", "ambiguous_parse",
                 "low_confidence_match", "gated_pending_strong_deal",
                 "ambiguous_restriction", "other"}

\* Why the rule engine asked for a review
ReviewReasonOf(trace) ==
    IF <<"gated_pending_strength_check", "pass">> \in trace THEN "gated_pending_strong_deal"
    ELSE IF \E r \in trace : r[1] = "ambiguous_restriction_reason" THEN "ambiguous_restriction"
    ELSE "other"

\* determine_review_reason; Null: this row needs no person.  match and result
\* are the row's match and stored classification, or Null.
DetermineReviewReason(item, match, result) ==
    IF item.item_type = "display_bundle" THEN "display_bundle_sku"
    ELSE IF item.item_type = "tiered_promo" THEN "tiered_promo_pricing"
    ELSE IF item.item_type = "ambiguous" \/ item.parse_status = "error" THEN "ambiguous_parse"
    ELSE IF match # Null /\ match.status = "rejected" THEN "low_confidence_match"
    ELSE IF match # Null /\ match.status = "proposed" /\ LowConfidence(match)
    THEN "low_confidence_match"
    ELSE IF result # Null /\ result.classification = "review"
    THEN ReviewReasonOf(result.rule_trace)
    ELSE Null
=============================================================================
