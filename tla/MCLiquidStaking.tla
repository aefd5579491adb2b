--------------------------- MODULE MCLiquidStaking ---------------------------
(* Values of LiquidStaking's constants for TLC: what the staking contract    *)
(* may answer, three times: all well, the first validator jailed, and none   *)
(* fit to be chosen (two at the risk limit, one without yield).              *)
EXTENDS LiquidStaking

CONSTANTS v1, v2, v3, alice, bob

TwoUsers == {alice, bob}

ThreeValidators == {v1, v2, v3}
Fit(apy)   == [isActive |-> TRUE, riskScore |-> 0, apy |-> apy]
Jailed     == [isActive |-> FALSE, riskScore |-> 900, apy |-> 1]
Risky      == [isActive |-> TRUE, riskScore |-> 600, apy |-> 3]
AllWell    == [v \in ThreeValidators |-> Fit(IF v = v2 THEN 2 ELSE 1)]
OneJailed  == [v \in ThreeValidators |-> IF v = v1 THEN Jailed ELSE Fit(1)]
NoneFit    == [v \in ThreeValidators |-> IF v = v3 THEN Fit(0) ELSE Risky]
ThreeViews == {AllWell, OneJailed, NoneFit}
\* One validator, fit or jailed, is enough to fill and empty the token.
OneValidator == {v1}
OneViews     == {[v \in OneValidator |-> Fit(1)], [v \in OneValidator |-> Risky]}

\* Two parts of the state space, each explored in full within its bounds:
\* two holders, requests and one validator, or one holder, three validators
\* and the owner's settings.
HoldersSlice ==
    /\ ~queueSet /\ queued = 0 /\ maxValidatorRisk = 600 /\ protocolFee = 50
    /\ Listed \subseteq {v1}
ValidatorsSlice ==
    /\ queueSet /\ now = 0 /\ received = 0 /\ unstakeRequests = <<>>
    /\ balanceOf[bob] = 0 /\ balanceOf[Manager] = 0
Slice == HoldersSlice \/ ValidatorsSlice
=============================================================================
