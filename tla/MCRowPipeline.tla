--------------------------- MODULE MCRowPipeline ---------------------------
(***************************************************************************)
(* RowPipeline on representative inputs.  A cost of 40, 44 or 48 against a *)
(* price of 60 and fees of 6 is a strong deal, an ordinary one and one to  *)
(* negotiate; 54 leaves no profit.  At a price of 50, a cost of 40 is in   *)
(* the negotiate band and fails the margin.  At 6000 the ROI overflows.    *)
(***************************************************************************)
EXTENDS RowPipeline

MCTexts ==
    [bundle : {FALSE}, number : {TRUE}, price : {40, 44, 48, 54, Null, Unreadable}]
    \cup {[bundle |-> TRUE, number |-> TRUE, price |-> 40],
          [bundle |-> FALSE, number |-> FALSE, price |-> 40],
          [bundle |-> FALSE, number |-> TRUE, price |-> Tiers]}

MCCandidates ==
    {[asin |-> "a1", confidence |-> 90], [asin |-> "a1", confidence |-> 60],
     [asin |-> "a2", confidence |-> 30]}

MCAsins == {"a2"}

Offer(price, seller) == [price |-> price, seller |-> seller]
Good ==
    [pricing |-> [winner |-> Offer(60, "other"), lowest |-> 60, offers |-> 2],
     fees |-> <<[type |-> "ReferralFee", amount |-> 3], [type |-> "FBAFees", amount |-> 2],
                [type |-> "VariableClosingFee", amount |-> 1]>>,
     restrictions |-> {},
     keepa |-> 50]

\* The good answer, and those that differ from it in one respect
MCAnswers ==
    {Good}
    \cup {[Good EXCEPT !.pricing = Null], [Good EXCEPT !.fees = Null],
          [Good EXCEPT !.restrictions = Null], [Good EXCEPT !.keepa = Null],
          [Good EXCEPT !.keepa = -1], [Good EXCEPT !.keepa = 10],
          [Good EXCEPT !.fees = <<>>]}
    \cup {[Good EXCEPT !.pricing.winner = w] :
            w \in {Null, Offer(60, "AMAZON"), Offer(0, "other"), Offer(50, "other"),
                   Offer(6000, "other")}}
    \cup {[Good EXCEPT !.pricing = [winner |-> Null, lowest |-> p, offers |-> 9]] :
            p \in {Null, 0, 60}}
    \cup {[Good EXCEPT !.restrictions = r] :
            r \in {{{"RESTRICTED_PRODUCT"}}, {{"NOT_ELIGIBLE"}}, {{"APPROVAL_REQUIRED"}},
                   {{"APPROVAL_REQUIRED"}, {"NOT_ELIGIBLE", "ASIN_NOT_ELIGIBLE"}}, {{}}}}
=============================================================================
