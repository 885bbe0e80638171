----------------------------- MODULE RuleEngine -----------------------------
(***************************************************************************)
(* modules/rules/engine.py: classify(inputs, config) as operators, one per *)
(* section of the function, each ending in an early return or handing on   *)
(* to the next.                                                            *)
(*                                                                         *)
(* Money is in whole units, percentages are whole numbers, and a quotient  *)
(* is compared by cross multiplication: the code divides Decimals of 28    *)
(* digits, which no column value can bring across a threshold.  A trace is *)
(* the set of its <<rule, result>> entries: every reader looks a rule up   *)
(* by name, and no rule is appended twice.                                 *)
(***************************************************************************)
EXTENDS Integers, Sequences

CONSTANT Null       \* SQL NULL

ASSUME MissingAssumption == Null \notin Int \cup BOOLEAN

Label == {"buy", "review", "negotiate", "no_buy", "high_risk"}
ApprovalGated == {"buy", "high_risk"}       \* APPROVAL_GATED_LABELS

\* DEFAULT_RULES_CONFIG; the multiplier of 1.5 is kept in tenths
DefaultRulesConfig ==
    [roi_threshold_pct |-> 20, roi_negotiate_floor_pct |-> 10,
     margin_exception_table |-> <<[max_price |-> 15, min_margin_pct |-> 15],
                                  [max_price |-> 50, min_margin_pct |-> 10],
                                  [max_price |-> Null, min_margin_pct |-> 8]>>,
     sales_rank_drops_30d_min |-> 40,
     seller_count_low_risk_max |-> 3, seller_count_medium_risk_max |-> 8,
     strong_deal_tenths |-> 15]

\* What ends a call of classify: a label with its trace, or the exception that
\* dividing by a sell price of zero raises.
Decision(label, trace) == [classification |-> label, rule_trace |-> trace]
Raised == Decision("raised", {})

----------------------------------------------------------------------------
\* Decimal | None in a sum: "x or Decimal(0)"
OrZero(x) == IF x = Null THEN 0 ELSE x

Fees(in) == OrZero(in.referral_fee) + OrZero(in.fba_fee) + in.other_fees_total
Profit(in) == in.sell_price - Fees(in) - in.unit_cost

\* profit / base * 100 >= pct, for a base other than zero
PercentAtLeast(profit, base, pct) ==
    IF base > 0 THEN 100 * profit >= pct * base ELSE 100 * profit <= pct * base

RoiAtLeast(in, pct) == PercentAtLeast(Profit(in), in.unit_cost, pct)

\* _required_margin_pct: the first tier that admits the price, or the last one
Admits(tier, price) == tier.max_price = Null \/ price <= tier.max_price
RequiredMargin(price, tiers) ==
    LET admitting == {t \in DOMAIN tiers : Admits(tiers[t], price)}
    IN  IF admitting = {} THEN tiers[Len(tiers)].min_margin_pct
        ELSE tiers[CHOOSE t \in admitting : \A u \in admitting : t <= u].min_margin_pct

MarginOk(in, config) ==
    PercentAtLeast(Profit(in), in.sell_price,
                   RequiredMargin(in.sell_price, config.margin_exception_table))

RoiOk(in, config) == RoiAtLeast(in, config.roi_threshold_pct)
RoiNegotiable(in, config) ==
    RoiAtLeast(in, config.roi_negotiate_floor_pct) /\ ~RoiOk(in, config)

\* roi_pct >= roi_threshold * strong_multiplier, and the margin
NotablyStrong(in, config) ==
    /\ PercentAtLeast(10 * Profit(in), in.unit_cost,
                      config.roi_threshold_pct * config.strong_deal_tenths)
    /\ MarginOk(in, config)

\* _seller_count_risk
SellerCountRisk(count, config) ==
    IF count = Null THEN "unknown"
    ELSE IF count <= config.seller_count_low_risk_max THEN "low"
    ELSE IF count <= config.seller_count_medium_risk_max THEN "medium"
    ELSE "high"

PassOr(otherwise, ok) == IF ok THEN "pass" ELSE otherwise

----------------------------------------------------------------------------
\* --- risk factors ---
WeighVelocity(in, config, trace) ==
    LET ok == in.sales_rank_drops_30d >= config.sales_rank_drops_30d_min
    IN  IF in.sales_rank_drops_30d = Null
        THEN Decision("buy", trace \cup {<<"sales_velocity", "info">>})
        ELSE Decision(IF ok THEN "buy" ELSE "review",
                      trace \cup {<<"sales_velocity", PassOr("fail", ok)>>})

UntracedRisk(in, config, trace) ==       \* does not append which risk it was
    LET counted == trace \cup {<<"seller_count_risk", "info">>}
    IN  IF in.amazon_has_buy_box = TRUE \/ SellerCountRisk(in.seller_count, config) = "high"
        THEN Decision("high_risk", counted)
        ELSE WeighVelocity(in, config, counted)

WeighRisk(in, config, trace) ==
    LET counted == trace \cup {<<"seller_count_risk", "info">>}
    IN  IF in.amazon_has_buy_box = TRUE
        THEN Decision("high_risk", counted \cup {<<"amazon_has_buy_box", "fail">>})
        ELSE IF SellerCountRisk(in.seller_count, config) = "high"
        THEN Decision("high_risk", counted \cup {<<"seller_count_high_risk", "fail">>})
        ELSE WeighVelocity(in, config, counted)

\* --- gated-pending, the floor, the margin and the negotiate band ---
GatedPending(in) == in.is_gated /\ in.gated_approval_status = "not_approved"

NegotiateFirst(in, config, trace) ==     \* offers a deal whose margin fails
    IF ~RoiOk(in, config) /\ ~RoiNegotiable(in, config) THEN Decision("no_buy", trace)
    ELSE IF RoiNegotiable(in, config) THEN Decision("negotiate", trace)
    ELSE IF ~MarginOk(in, config) THEN Decision("no_buy", trace)
    ELSE WeighRisk(in, config, trace)

WeighNumbers(in, config, trace) ==
    IF ~RoiOk(in, config) /\ ~RoiNegotiable(in, config) THEN Decision("no_buy", trace)
    ELSE IF ~MarginOk(in, config) THEN Decision("no_buy", trace)
    ELSE IF RoiNegotiable(in, config) THEN Decision("negotiate", trace)
    ELSE WeighRisk(in, config, trace)

Judge(in, config, trace) ==
    IF GatedPending(in)
    THEN LET strong == NotablyStrong(in, config)
         IN  Decision(IF strong THEN "review" ELSE "no_buy",
                      trace \cup {<<"gated_pending_strength_check", PassOr("fail", strong)>>})
    ELSE WeighNumbers(in, config, trace)

\* --- financial math ---
NoFinancials(in) == in.unit_cost = Null \/ in.sell_price = Null \/ in.unit_cost = 0

RoiResult(in, config) ==
    IF RoiOk(in, config) THEN "pass" ELSE IF RoiNegotiable(in, config) THEN "info" ELSE "fail"

Calculate(in, config, trace) ==
    IF NoFinancials(in)
    THEN Decision("review", trace \cup {<<"financial_data_available", "fail">>})
    ELSE IF in.sell_price = 0 THEN Raised
    ELSE Judge(in, config, trace \cup
               {<<"financial_calculation", "info">>,
                <<"roi_threshold", RoiResult(in, config)>>,
                <<"margin_threshold", PassOr("fail", MarginOk(in, config))>>})

\* --- hard excludes, then gating ---
Classify(in, config) ==
    IF in.is_restricted
    THEN Decision("no_buy", {<<"restricted_product", "hard_exclude">>})
    ELSE IF in.ambiguous_restriction
    THEN Decision("review", {<<"ambiguous_restriction_reason", "info">>})
    ELSE IF in.manufacturer_sells_directly
    THEN Decision("no_buy", {<<"manufacturer_sells_directly", "hard_exclude">>})
    ELSE Calculate(in, config, IF in.is_gated THEN {<<"gated_product", "info">>} ELSE {})

----------------------------------------------------------------------------
\* ClassificationResult.roi and .margin are NUMERIC(8, 4): a flush of a larger
\* percentage is an error of the database.  (Rounding at the fourth decimal of
\* 9999.9999 is left out.)
FitsColumn(profit, base) ==
    ~PercentAtLeast(profit, base, 10000) /\ ~PercentAtLeast(-profit, base, 10000)

Calculated(decision) == \E r \in decision.rule_trace : r[1] = "financial_calculation"
Storable(in, decision) ==
    Calculated(decision) =>
        FitsColumn(Profit(in), in.unit_cost) /\ FitsColumn(Profit(in), in.sell_price)

----------------------------------------------------------------------------
\* modules/rules/reasoning_es.py: which sentences a trace yields
HasRule(trace, rule) == \E r \in trace : r[1] = rule

\* por_que_es is not None
PorQue(trace) == HasRule(trace, "roi_threshold") /\ HasRule(trace, "margin_threshold")

\* riesgo_es
Riesgo(trace) ==
    (IF HasRule(trace, "amazon_has_buy_box") THEN {"buy box"}
     ELSE IF HasRule(trace, "seller_count_high_risk") THEN {"sellers"} ELSE {})
    \cup (IF <<"sales_velocity", "info">> \in trace THEN {"no sales data"} ELSE {})

----------------------------------------------------------------------------
(***************************************************************************)
(* The rules table of the engine's header (engine.py:22-37), read          *)
(* declaratively: for each label, of which inputs it is the label.  No     *)
(* line depends on the order of evaluation.                                *)
(***************************************************************************)
NoExclusion(in) ==
    ~in.is_restricted /\ ~in.ambiguous_restriction /\ ~in.manufacturer_sells_directly
Priced(in) == NoExclusion(in) /\ ~NoFinancials(in) /\ in.sell_price # 0
LowNumbers(in, config) ==
    (~RoiOk(in, config) /\ ~RoiNegotiable(in, config)) \/ ~MarginOk(in, config)
Purchasable(in, config) ==
    Priced(in) /\ ~GatedPending(in) /\ RoiOk(in, config) /\ MarginOk(in, config)
Risky(in, config) ==
    in.amazon_has_buy_box = TRUE \/ SellerCountRisk(in.seller_count, config) = "high"
WeakVelocity(in, config) ==
    /\ in.sales_rank_drops_30d # Null
    /\ ~(in.sales_rank_drops_30d >= config.sales_rank_drops_30d_min)

LabelOf(in, config, label) ==
    /\ label = "buy" <=>
          Purchasable(in, config) /\ ~Risky(in, config) /\ ~WeakVelocity(in, config)
    /\ label = "high_risk" <=> Purchasable(in, config) /\ Risky(in, config)
    /\ label = "negotiate" <=>
          /\ Priced(in) /\ ~GatedPending(in)
          /\ RoiNegotiable(in, config) /\ MarginOk(in, config)
    /\ label = "no_buy" <=>
          \/ in.is_restricted
          \/ in.manufacturer_sells_directly /\ ~in.ambiguous_restriction
          \/ Priced(in) /\ GatedPending(in) /\ ~NotablyStrong(in, config)
          \/ Priced(in) /\ ~GatedPending(in) /\ LowNumbers(in, config)
    /\ label = "review" <=>
          \/ in.ambiguous_restriction /\ ~in.is_restricted
          \/ NoExclusion(in) /\ NoFinancials(in)
          \/ Priced(in) /\ GatedPending(in) /\ NotablyStrong(in, config)
          \/ Purchasable(in, config) /\ ~Risky(in, config) /\ WeakVelocity(in, config)
    /\ label = "raised" <=> NoExclusion(in) /\ ~NoFinancials(in) /\ in.sell_price = 0
=============================================================================
