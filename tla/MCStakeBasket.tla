---------------------------- MODULE MCStakeBasket ----------------------------
(* Values of StakeBasket's constants for TLC.  Prices are in halves of a     *)
(* dollar, so that values round; 60 CORE is enough for fees, fee reductions *)
(* and simulated rewards to be at least one unit.                            *)
EXTENDS StakeBasket

CONSTANTS v1, v2, u1, u2

TwoUsers      == {u1, u2}
TwoValidators == {v1, v2}
Fit(apy)  == [isActive |-> TRUE, riskScore |-> 0, apy |-> apy]
Risky     == [isActive |-> TRUE, riskScore |-> 600, apy |-> 3]
Jailed    == [isActive |-> FALSE, riskScore |-> 900, apy |-> 1]
AllWell   == [v \in TwoValidators |-> Fit(IF v = v1 THEN 2 ELSE 1)]
OneRisky  == [v \in TwoValidators |-> IF v = v1 THEN Fit(0) ELSE Risky]
AllJailed == [v \in TwoValidators |-> Jailed]
MCViews   == {AllWell, OneRisky, AllJailed}

\* Two parts of the state space, each explored in full within its bounds: the
\* shares and fees of a pool that delegates nothing, and the delegations of a
\* pool with one holder, no queue and no fees.
\* The settings are tried one after the other and not in every combination.
Default == [managementFee |-> 50, protocolFee |-> 2000, asETH |-> TRUE,
            staking |-> FALSE, treasury |-> FALSE]
High    == [Default EXCEPT !.managementFee = 1000]
SharesSlice ==
    /\ \A v \in Validators : delegatedCoreByValidator[v] = 0
    /\ activeCoreValidators = {} /\ rebalanceThresholdRisk = 600
    /\ config \in {Default, High, [High EXCEPT !.staking = TRUE],
                   [High EXCEPT !.treasury = TRUE]}
    /\ paused => config = Default /\ feed = 0
    /\ config \notin {Default, High} \/ moves = MaxMoves => feed = 0
StakeSlice  ==
    /\ moves <= 3 /\ now = 0 /\ withdrawalQueue = <<>> /\ feed = 0 /\ ~paused
    /\ balanceOf[u2] + balanceOf[Basket] = 0
    /\ config = Default
Slice == SharesSlice \/ StakeSlice
=============================================================================
