--------------------------- MODULE AmazonClients ---------------------------
(***************************************************************************)
(* What the worker makes of the answers of SP-API and Keepa: the parsing   *)
(* in modules/amazon, the snapshot of orchestration.py and the inputs the  *)
(* rules service reads back from it.                                       *)
(*                                                                         *)
(* An answer is the record of the fields that are read, or Null for a call *)
(* that raised: an HTTP error, a rate limit, a timeout.  A price is a      *)
(* whole number or Null.                                                   *)
(***************************************************************************)
EXTENDS RuleEngine, FiniteSetsExt

----------------------------------------------------------------------------
\* get_pricing.  winner: the offer with IsBuyBoxWinner, or Null.  The owner is
\* "AMAZON" when its SellerId is, whoever fulfils it.
BuyBoxPrice(pricing) == IF pricing.winner = Null THEN Null ELSE pricing.winner.price
AmazonHasBuyBox(pricing) ==
    IF pricing.winner = Null THEN Null ELSE pricing.winner.seller = "AMAZON"

\* "a or b" of two Decimals: zero is false
Or(a, b) == IF a = Null \/ a = 0 THEN b ELSE a

\* get_fees_estimate: the last detail of a type counts
Amount(details, types) ==
    LET of == {k \in DOMAIN details : details[k].type \in types}
    IN  IF of = {} THEN Null ELSE details[CHOOSE k \in of : \A l \in of : l <= k].amount
FbaTypes == {"FBAFees", "FBAPerUnitFulfillmentFee"}
OtherTypes(details) ==
    {details[k].type : k \in DOMAIN details} \ (FbaTypes \cup {"ReferralFee"})
OtherFeesTotal(details) ==
    FoldSet(LAMBDA type, sum : sum + OrZero(Amount(details, {type})), 0, OtherTypes(details))

\* get_listing_restrictions: each restriction is its set of reason codes
ReasonCodes(restrictions) == UNION restrictions
HardReasons == {"ASIN_NOT_ELIGIBLE", "RESTRICTED_PRODUCT"}
IsRestricted(restrictions) == ReasonCodes(restrictions) \cap HardReasons # {}
IsGated(restrictions) == "APPROVAL_REQUIRED" \in ReasonCodes(restrictions)
IsAmbiguous(restrictions) == "NOT_ELIGIBLE" \in ReasonCodes(restrictions)
ApprovedForSeller(restrictions) == restrictions = {}

GatedApprovalStatus(restrictions) ==
    IF ~IsGated(restrictions) THEN "not_applicable"
    ELSE IF ApprovedForSeller(restrictions) THEN "approved" ELSE "not_approved"

\* get_product: -1 is Keepa's "no data"; a failed lookup leaves no data either
SalesRankDrops(keepa) == IF keepa \in {-1, Null} THEN Null ELSE keepa

----------------------------------------------------------------------------
\* _fetch_and_store_snapshot: Keepa alone may fail
Fetched(answer) == Null \notin {answer.pricing, answer.fees, answer.restrictions}

\* The snapshot as classify_line_item turns it into inputs.  Nothing ever sets
\* manufacturer_sells_directly: the column is NULL, and bool(None) is False.
InputsFrom(unit_price, answer) ==
    [unit_cost |-> unit_price,
     sell_price |-> Or(BuyBoxPrice(answer.pricing), answer.pricing.lowest),
     referral_fee |-> Amount(answer.fees, {"ReferralFee"}),
     fba_fee |-> Amount(answer.fees, FbaTypes),
     other_fees_total |-> OtherFeesTotal(answer.fees),
     is_restricted |-> IsRestricted(answer.restrictions),
     ambiguous_restriction |-> IsAmbiguous(answer.restrictions),
     is_gated |-> IsGated(answer.restrictions),
     gated_approval_status |-> GatedApprovalStatus(answer.restrictions),
     manufacturer_sells_directly |-> FALSE,
     amazon_has_buy_box |-> AmazonHasBuyBox(answer.pricing),
     seller_count |-> answer.pricing.offers,
     sales_rank_drops_30d |-> SalesRankDrops(answer.keepa)]
=============================================================================
