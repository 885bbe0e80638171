-------------------------- MODULE RuleEngineProofs --------------------------
(***************************************************************************)
(* The decision table of modules/rules/engine.py, proved for every product *)
(* and every rules configuration.  The thresholds enter only as the        *)
(* predicates that compare with them, so nothing is assumed of them.       *)
(***************************************************************************)
EXTENDS RuleEngine, TLAPS

\* What the rules service passes: flags are Booleans (bool(...) in
\* rules/service.py:58-62), the numbers may be anything, or missing.
FlagsAreBoolean(in) ==
    /\ in.is_restricted \in BOOLEAN
    /\ in.ambiguous_restriction \in BOOLEAN
    /\ in.manufacturer_sells_directly \in BOOLEAN
    /\ in.is_gated \in BOOLEAN

\* The last section: BUY, HIGH_RISK and, for a weak velocity, REVIEW.
LEMMA WeighRiskLabel ==
    ASSUME NEW in, NEW config, NEW trace
    PROVE  WeighRisk(in, config, trace).classification =
              IF Risky(in, config) THEN "high_risk"
              ELSE IF WeakVelocity(in, config) THEN "review" ELSE "buy"
<1> DEFINE counted == trace \cup {<<"seller_count_risk", "info">>}
<1>1. CASE Risky(in, config)
  BY <1>1 DEF WeighRisk, Risky, Decision
<1>2. CASE ~Risky(in, config)
  <2>1. WeighRisk(in, config, trace) = WeighVelocity(in, config, counted)
    BY <1>2 DEF WeighRisk, Risky
  <2>2. WeighVelocity(in, config, counted).classification =
            IF WeakVelocity(in, config) THEN "review" ELSE "buy"
    BY DEF WeighVelocity, Decision, WeakVelocity
  <2> QED BY <1>2, <2>1, <2>2
<1> QED BY <1>1, <1>2

\* From the financial figures on.
LEMMA JudgeLabel ==
    ASSUME NEW in, NEW config, NEW trace, Priced(in), FlagsAreBoolean(in)
    PROVE  LabelOf(in, config, Judge(in, config, trace).classification)
<1> DEFINE label == Judge(in, config, trace).classification
<1>0. /\ NoExclusion(in) /\ ~NoFinancials(in) /\ in.sell_price # 0
      /\ ~in.is_restricted /\ ~in.ambiguous_restriction /\ ~in.manufacturer_sells_directly
  BY DEF Priced, NoExclusion
<1>1. CASE GatedPending(in)
  <2>1. label = IF NotablyStrong(in, config) THEN "review" ELSE "no_buy"
    BY <1>1 DEF Judge, WeighNumbers, Decision
  <2> QED BY <1>0, <1>1, <2>1 DEF LabelOf, Purchasable
<1>2. CASE ~GatedPending(in) /\ LowNumbers(in, config)
  <2>1. label = "no_buy"
    BY <1>2 DEF Judge, WeighNumbers, Decision, LowNumbers
  <2>2. ~Purchasable(in, config) /\ ~(RoiNegotiable(in, config) /\ MarginOk(in, config))
    BY <1>2 DEF LowNumbers, Purchasable, RoiNegotiable
  <2> QED BY <1>0, <1>2, <2>1, <2>2 DEF LabelOf
<1>3. CASE ~GatedPending(in) /\ ~LowNumbers(in, config) /\ RoiNegotiable(in, config)
  <2>1. MarginOk(in, config) /\ ~RoiOk(in, config)
    BY <1>3 DEF LowNumbers, RoiNegotiable
  <2>2. label = "negotiate"
    BY <1>3, <2>1 DEF Judge, WeighNumbers, Decision
  <2> QED BY <1>0, <1>3, <2>1, <2>2 DEF LabelOf, Purchasable
<1>4. CASE ~GatedPending(in) /\ ~LowNumbers(in, config) /\ ~RoiNegotiable(in, config)
  <2>1. Purchasable(in, config) /\ RoiOk(in, config) /\ MarginOk(in, config)
    BY <1>4 DEF LowNumbers, Purchasable
  <2>2. label = WeighRisk(in, config, trace).classification
    BY <1>4, <2>1 DEF Judge, WeighNumbers
  <2>3. label = IF Risky(in, config) THEN "high_risk"
                ELSE IF WeakVelocity(in, config) THEN "review" ELSE "buy"
    BY <2>2, WeighRiskLabel
  <2> QED BY <1>0, <1>4, <2>1, <2>3 DEF LabelOf
<1> QED BY <1>1, <1>2, <1>3, <1>4

\* The label of every product is the one the table in the engine's header gives
\* it, whatever the order of the tests in classify(), and the table gives it one
\* only: each line of LabelOf says of which inputs a label is the label.
THEOREM DecisionTable ==
    ASSUME NEW in, NEW config, FlagsAreBoolean(in)
    PROVE  LabelOf(in, config, Classify(in, config).classification)
<1> DEFINE label == Classify(in, config).classification
<1>1. CASE ~NoExclusion(in)
  <2>1. ~Priced(in) /\ ~Purchasable(in, config)
    BY <1>1 DEF Priced, Purchasable
  <2>2. label = IF in.is_restricted THEN "no_buy"
                ELSE IF in.ambiguous_restriction THEN "review" ELSE "no_buy"
    BY <1>1 DEF NoExclusion, Classify, Decision
  <2> QED BY <1>1, <2>1, <2>2 DEF LabelOf, NoExclusion
<1>2. CASE NoExclusion(in)
  <2> DEFINE gate == IF in.is_gated THEN {<<"gated_product", "info">>} ELSE {}
  <2>0. ~in.is_restricted /\ ~in.ambiguous_restriction /\ ~in.manufacturer_sells_directly
    BY <1>2 DEF NoExclusion
  <2>1. Classify(in, config) = Calculate(in, config, gate)
    BY <2>0 DEF Classify
  <2> HIDE DEF gate
  <2>2. CASE NoFinancials(in)
    <3>1. label = "review" /\ ~Priced(in) /\ ~Purchasable(in, config)
      BY <2>1, <2>2 DEF Calculate, Decision, Priced, Purchasable
    <3> QED BY <1>2, <2>0, <2>2, <3>1 DEF LabelOf
  <2>3. CASE ~NoFinancials(in) /\ in.sell_price = 0
    <3>1. label = "raised" /\ ~Priced(in) /\ ~Purchasable(in, config)
      BY <2>1, <2>3 DEF Calculate, Raised, Decision, Priced, Purchasable
    <3> QED BY <1>2, <2>0, <2>3, <3>1 DEF LabelOf
  <2>4. CASE ~NoFinancials(in) /\ in.sell_price # 0
    <3>1. Priced(in)
      BY <1>2, <2>4 DEF Priced
    <3>2. PICK trace : Calculate(in, config, gate) = Judge(in, config, trace)
      BY <2>4 DEF Calculate
    <3>3. LabelOf(in, config, Judge(in, config, trace).classification)
      BY <3>1, JudgeLabel
    <3> QED BY <2>1, <3>2, <3>3
  <2> QED BY <2>2, <2>3, <2>4
<1> QED BY <1>1, <1>2

----------------------------------------------------------------------------
\* What a trace says about competition.
Competition(trace) == Riesgo(trace) \cap {"buy box", "sellers"} # {}

\* A purchase that explains itself (reasoning_es.py): both figures, and the
\* competition as its risk exactly for HIGH_RISK.
Explained(decision) ==
    /\ PorQue(decision.rule_trace)
    /\ decision.classification = "high_risk" <=> Competition(decision.rule_trace)

LEMMA CompetitionRules ==
    ASSUME NEW trace
    PROVE  Competition(trace) <=> \/ HasRule(trace, "amazon_has_buy_box")
                                  \/ HasRule(trace, "seller_count_high_risk")
BY DEF Competition, Riesgo

\* The last section keeps the trace it is given, and adds a rule about the
\* competition exactly when the competition is what decides.
LEMMA WeighRiskTells ==
    ASSUME NEW in, NEW config, NEW trace, ~Competition(trace)
    PROVE  LET d == WeighRisk(in, config, trace)
           IN  /\ trace \subseteq d.rule_trace
               /\ d.classification = "high_risk" <=> Competition(d.rule_trace)
<1> DEFINE d == WeighRisk(in, config, trace)
           Names == {"amazon_has_buy_box", "seller_count_high_risk"}
<1>1. \A r \in trace : r[1] \notin Names
  BY CompetitionRules DEF HasRule
<1>2. CASE in.amazon_has_buy_box = TRUE
  <2>1. /\ d.classification = "high_risk" /\ trace \subseteq d.rule_trace
        /\ <<"amazon_has_buy_box", "fail">> \in d.rule_trace
    BY <1>2 DEF WeighRisk, Decision
  <2> QED BY <2>1, CompetitionRules DEF HasRule
<1>3. CASE in.amazon_has_buy_box # TRUE /\ SellerCountRisk(in.seller_count, config) = "high"
  <2>1. /\ d.classification = "high_risk" /\ trace \subseteq d.rule_trace
        /\ <<"seller_count_high_risk", "fail">> \in d.rule_trace
    BY <1>3 DEF WeighRisk, Decision
  <2> QED BY <2>1, CompetitionRules DEF HasRule
<1>4. CASE in.amazon_has_buy_box # TRUE /\ SellerCountRisk(in.seller_count, config) # "high"
  <2>1. /\ d.classification # "high_risk" /\ trace \subseteq d.rule_trace
        /\ \A r \in d.rule_trace : r \in trace \/ r[1] \in {"seller_count_risk", "sales_velocity"}
    <3> DEFINE counted == trace \cup {<<"seller_count_risk", "info">>}
    <3>1. d = WeighVelocity(in, config, counted)
      BY <1>4 DEF WeighRisk
    <3>2. \E label \in {"buy", "review"}, result \in {"info", "pass", "fail"} :
             d = Decision(label, counted \cup {<<"sales_velocity", result>>})
      BY <3>1 DEF WeighVelocity, PassOr
    <3> QED BY <3>2 DEF Decision
  <2>2. \A r \in d.rule_trace : r[1] \notin Names
    BY <1>1, <2>1
  <2> QED BY <2>1, <2>2, CompetitionRules DEF HasRule
<1> QED BY <1>2, <1>3, <1>4

\* Every BUY and every HIGH_RISK of the engine explains itself.
THEOREM GatedLabelTells ==
    ASSUME NEW in, NEW config, Classify(in, config).classification \in ApprovalGated
    PROVE  Explained(Classify(in, config))
<1> DEFINE gate == IF in.is_gated THEN {<<"gated_product", "info">>} ELSE {}
           trace == gate \cup {<<"financial_calculation", "info">>,
                             <<"roi_threshold", RoiResult(in, config)>>,
                             <<"margin_threshold", PassOr("fail", MarginOk(in, config))>>}
<1>1. Classify(in, config) = Calculate(in, config, gate)
  BY DEF Classify, Decision, ApprovalGated
<1>2. Classify(in, config) = Judge(in, config, trace)
  BY <1>1 DEF Calculate, Decision, Raised, ApprovalGated
<1>3. Judge(in, config, trace) = WeighRisk(in, config, trace)
  BY <1>2 DEF Judge, WeighNumbers, Decision, ApprovalGated
<1>4. \A r \in trace : r[1] \in {"gated_product", "financial_calculation",
                                 "roi_threshold", "margin_threshold"}
  OBVIOUS
<1>5. ~Competition(trace)
  BY <1>4, CompetitionRules DEF HasRule
<1>6. /\ <<"roi_threshold", RoiResult(in, config)>> \in trace
      /\ <<"margin_threshold", PassOr("fail", MarginOk(in, config))>> \in trace
  OBVIOUS
<1> HIDE DEF trace
<1>7. /\ trace \subseteq Classify(in, config).rule_trace
      /\ Classify(in, config).classification = "high_risk"
            <=> Competition(Classify(in, config).rule_trace)
  BY <1>2, <1>3, <1>5, WeighRiskTells
<1> QED BY <1>6, <1>7 DEF Explained, PorQue, HasRule
=============================================================================
