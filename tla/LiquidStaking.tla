---------------------------- MODULE LiquidStaking ----------------------------
(***************************************************************************)
(* contracts/core/staking/CoreLiquidStakingManager.sol and its token,       *)
(* contracts/core/tokens/StCoreToken.sol.  CORE is delegated to validators  *)
(* and stCORE is minted for it; rewards raise the CORE a stCORE is worth;   *)
(* a holder hands stCORE in, waits, and is paid from the manager's balance. *)
(*                                                                          *)
(* The two contracts trust each other alone (onlyLiquidStakingManager), so  *)
(* a call of the manager into the token is part of the manager's action.    *)
(* CoreDAO's staking contract is external: what it answers about the        *)
(* validators is any member of Views, the same for the whole transaction.   *)
(***************************************************************************)
EXTENDS Integers, Sequences, FiniteSets, Functions

CONSTANTS
    Users,            \* holders of CORE and stCORE
    Manager,          \* the manager's own account, where stCORE is escrowed
    NoValidator,      \* address(0)
    Validators,       \* validators of CoreDAO's staking contract
    Views,            \* what that contract may answer: [Validators -> View]
    Amounts,          \* amounts a call may name
    Rewards,          \* rewards one collection may bring in
    FeeChoices,       \* fees the owner may set, basis points
    RiskChoices,      \* risk limits the owner may set
    QueueChoices,     \* may the UnbondingQueue be set? a subset of BOOLEAN
    TransferTo,       \* whom holders may transfer stCORE to
    PRECISION,        \* the scale of the conversion rate (1e18)
    UnstakingPeriod,  \* unstakingPeriod (7 days)
    MinValidators,    \* minValidatorCount (3)
    MaxStaked,        \* bound: totalStakedCore
    MaxHeld,          \* bound: coin sent to the manager's receive()
    MaxRequests,      \* bound: entries of unstakeRequests
    MaxTime           \* bound: the clock

Holders     == Users \cup {Manager}
View        == [isActive : BOOLEAN, riskScore : Nat, apy : Nat]

ASSUME AccountsAssumption  == /\ IsFiniteSet(Users) /\ Manager \notin Users
                              /\ TransferTo \subseteq Holders
ASSUME ValidatorAssumption == /\ IsFiniteSet(Validators) /\ NoValidator \notin Validators
                              /\ Views \subseteq [Validators -> View]
ASSUME AmountsAssumption   == Amounts \subseteq Nat /\ Rewards \subseteq Nat
ASSUME ChoicesAssumption   == /\ FeeChoices \subseteq Nat
                              /\ RiskChoices \subseteq Nat
                              /\ QueueChoices \subseteq BOOLEAN
ASSUME PrecisionAssumption == PRECISION \in Nat \ {0}
ASSUME ConstantsAssumption == /\ UnstakingPeriod \in Nat /\ MinValidators \in Nat
                              /\ MaxStaked \in Nat /\ MaxHeld \in Nat
                              /\ MaxRequests \in Nat /\ MaxTime \in Nat

VARIABLES
    \* StCoreToken
    balanceOf,        \* holder -> stCORE
    totalSupply,
    totalStakedCore,  \* the CORE all the stCORE is worth
    \* CoreLiquidStakingManager
    activeValidators, \* the list, in its order
    delegatedAmountByValidator,
    unstakeRequests,  \* the internal queue, in order of request id
    queueSet,         \* unbondingQueue # address(0)
    maxValidatorRisk, protocolFee, performanceFee, paused,
    held,             \* address(this).balance
    \* the rest of the world
    queued,           \* CORE asked of the UnbondingQueue
    received,         \* coin sent to receive(), other than rewards
    now

token   == <<balanceOf, totalSupply, totalStakedCore>>
stake   == <<activeValidators, delegatedAmountByValidator>>
unstake == <<unstakeRequests, queued>>
owned   == <<queueSet, maxValidatorRisk, protocolFee, performanceFee, paused>>
coin    == <<held, received>>
vars    == <<token, stake, unstake, owned, coin, now>>

-----------------------------------------------------------------------------
(* StCoreToken: conversions.                                                *)

(* getConversionRate: CORE per stCORE, rounded down.                        *)
ConversionRate ==
    IF totalSupply = 0 THEN PRECISION
    ELSE (totalStakedCore * PRECISION) \div totalSupply

(* coreToStCore rounding in the staker's favour.                            *)
RoundedUp(c) == (c * PRECISION + ConversionRate - 1) \div ConversionRate

CoreToStCore(c) == (c * PRECISION) \div ConversionRate

StCoreToCore(s) == (s * ConversionRate) \div PRECISION

(* mint(to, c): the division by the rate reverts when the rate is 0.        *)
Mint(to, c) ==
    /\ ConversionRate > 0
    /\ balanceOf' = [balanceOf EXCEPT ![to] = @ + CoreToStCore(c)]
    /\ totalSupply' = totalSupply + CoreToStCore(c)
    /\ totalStakedCore' = totalStakedCore + c

(* burn(from, s): worth the rate of the moment it is burned at.             *)
Burn(from, s) ==
    /\ s > 0
    /\ balanceOf[from] >= s
    /\ totalStakedCore >= StCoreToCore(s)
    /\ balanceOf' = [balanceOf EXCEPT ![from] = @ - s]
    /\ totalSupply' = totalSupply - s
    /\ totalStakedCore' = totalStakedCore - StCoreToCore(s)

-----------------------------------------------------------------------------
(* Choosing validators, from the answers view of the staking contract.      *)

Listed == Range(activeValidators)

Acceptable(view, v) ==
    view[v].isActive /\ view[v].riskScore < maxValidatorRisk

(* The listed validators getOptimalValidatorDistribution keeps.             *)
Candidates(view) == {v \in Listed : Acceptable(view, v)}

Score(view, v) ==
    IF Acceptable(view, v)
    THEN (view[v].apy * 1000) \div (view[v].riskScore + 1)
    ELSE 0

(* selectOptimalValidator: the first of the best scores, if above 0.        *)
OptimalValidator(view) ==
    LET score(i) == Score(view, activeValidators[i])
        best == {i \in DOMAIN activeValidators :
                    /\ score(i) > 0
                    /\ \A j \in DOMAIN activeValidators :
                          /\ score(j) <= score(i)
                          /\ j < i => score(j) < score(i)}
    IN  IF best = {} THEN NoValidator
        ELSE activeValidators[CHOOSE i \in best : TRUE]

(* The basis points of the stake a validator should have.                   *)
Allocation(view, v) ==
    LET total == SumFunctionOnSet([w \in Validators |-> view[w].apy],
                                  Candidates(view))
    IN  IF v \notin Candidates(view) THEN 0
        ELSE IF total > 0 THEN (view[v].apy * 10000) \div total
        ELSE 10000 \div Cardinality(Candidates(view))

TotalDelegated == SumFunctionOnSet(delegatedAmountByValidator, Listed)

Target(view, v) == (TotalDelegated * Allocation(view, v)) \div 10000

Excess(view, v) == delegatedAmountByValidator[v] - Target(view, v)

-----------------------------------------------------------------------------
Init ==
    /\ balanceOf = [h \in Holders |-> 0]
    /\ totalSupply = 0
    /\ totalStakedCore = 0
    /\ activeValidators = <<>>
    /\ delegatedAmountByValidator = [v \in Validators |-> 0]
    /\ unstakeRequests = <<>>
    /\ queueSet \in QueueChoices
    /\ maxValidatorRisk = 600
    /\ protocolFee = 50
    /\ performanceFee = 1000
    /\ paused = FALSE
    /\ held = 0
    /\ queued = 0
    /\ received = 0
    /\ now = 0

(* stake(preferred): the preferred validator if it is listed (whatever its  *)
(* risk), else the optimal one.  delegate refuses an inactive validator.    *)
Stake(u, preferred, c, view) ==
    LET v == IF preferred \in Listed THEN preferred ELSE OptimalValidator(view)
    IN  /\ ~paused
        /\ c > 0
        /\ totalStakedCore + c <= MaxStaked
        /\ v # NoValidator
        /\ view[v].isActive
        /\ delegatedAmountByValidator' =
               [delegatedAmountByValidator EXCEPT ![v] = @ + c]
        /\ Mint(u, c)
        /\ UNCHANGED <<activeValidators, unstake, owned, coin, now>>

(* The stCORE moved to the manager in requestUnstake, taken from the user   *)
(* and credited to nobody, and credited without being taken.                *)
LeftWithUser(u, s) == [balanceOf EXCEPT ![Manager] = @ + s]
NotCredited(u, s)  == [balanceOf EXCEPT ![u] = @ - s]
EscrowedFrom(u, s) == [balanceOf EXCEPT ![u] = @ - s, ![Manager] = @ + s]

(* requestUnstake(s): the CORE to be paid is fixed here, at the rate of     *)
(* this moment; it goes to the UnbondingQueue when there is one.            *)
RequestUnstake(u, s) ==
    /\ ~paused
    /\ s > 0
    /\ balanceOf[u] >= s
    /\ balanceOf' = EscrowedFrom(u, s)
    /\ \/ /\ queueSet
          /\ queued' = queued + StCoreToCore(s)
          /\ UNCHANGED unstakeRequests
       \/ /\ ~queueSet
          /\ Len(unstakeRequests) < MaxRequests
          /\ unstakeRequests' = Append(unstakeRequests,
                 [user |-> u, stCoreAmount |-> s, coreAmount |-> StCoreToCore(s),
                  requestTime |-> now, fulfilled |-> FALSE])
          /\ UNCHANGED queued
    /\ UNCHANGED <<totalSupply, totalStakedCore, stake, owned, coin, now>>

(* The request is open and its waiting time is over.                        *)
Due(r) == ~r.fulfilled /\ now >= r.requestTime + UnstakingPeriod

(* fulfillUnstake(id), by anybody, paused or not: the escrowed stCORE is    *)
(* burned at today's rate, the amount fixed at the request is paid.         *)
FulfillUnstake(id) ==
    LET r == unstakeRequests[id]
    IN  /\ Due(r)
        /\ held >= r.coreAmount
        /\ Burn(Manager, r.stCoreAmount)
        /\ held' = held - r.coreAmount
        /\ unstakeRequests' = [unstakeRequests EXCEPT ![id].fulfilled = TRUE]
        /\ UNCHANGED <<stake, queued, owned, received, now>>

(* What rebalance() pairs: the listed validators above their target with    *)
(* those below it, the first with the first in list order, and so on; each  *)
(* pair moves the smaller of the two gaps.                                  *)
Above(view) == {v \in Listed : Excess(view, v) > 0}
Below(view) == {v \in Listed : Excess(view, v) < 0}

Place(v)      == CHOOSE i \in DOMAIN activeValidators : activeValidators[i] = v
Rank(v, side) == Cardinality({w \in side : Place(w) <= Place(v)})

Paired(view, v, w) ==
    /\ v \in Above(view) /\ w \in Below(view)
    /\ Rank(v, Above(view)) = Rank(w, Below(view))

Gap(view, v, w) ==
    IF Excess(view, v) < -Excess(view, w) THEN Excess(view, v) ELSE -Excess(view, w)

Rebalance(view) ==
    /\ Len(activeValidators) >= MinValidators
    /\ delegatedAmountByValidator' =
           [v \in Validators |->
               IF \E w \in Below(view) : Paired(view, v, w)
               THEN delegatedAmountByValidator[v]
                        - Gap(view, v, CHOOSE w \in Below(view) : Paired(view, v, w))
               ELSE IF \E w \in Above(view) : Paired(view, w, v)
               THEN delegatedAmountByValidator[v]
                        + Gap(view, CHOOSE w \in Above(view) : Paired(view, w, v), v)
               ELSE delegatedAmountByValidator[v]]
    /\ UNCHANGED <<token, activeValidators, unstake, owned, coin, now>>

(* manualRebalance's test of what there is to move.                         *)
HasDelegated(from, amount) == delegatedAmountByValidator[from] >= amount

(* manualRebalance(from, to, amount); redelegate refuses an amount of 0 and *)
(* an inactive target.  from = to moves nothing.                            *)
ManualRebalance(from, to, amount, view) ==
    /\ from \in Listed
    /\ to \in Listed
    /\ HasDelegated(from, amount)
    /\ amount > 0
    /\ view[to].isActive
    /\ delegatedAmountByValidator' =
           [v \in Validators |-> delegatedAmountByValidator[v]
                                 - (IF v = from THEN amount ELSE 0)
                                 + (IF v = to THEN amount ELSE 0)]
    /\ UNCHANGED <<token, activeValidators, unstake, owned, coin, now>>

(* The fees taken from rewards r, and what is left to compound.             *)
Fees(r) == (r * protocolFee) \div 10000 + (r * performanceFee) \div 10000

Compound(r) == r - Fees(r)

(* The new total, and the total that forgets the fees.                      *)
TotalWithFees(r)  == totalStakedCore + r
NewTotalStaked(r) == totalStakedCore + Compound(r)

(* _handleInactiveValidators: the stake of every inactive listed validator  *)
(* goes to the optimal one, if there is one.                                *)
Rescued(delegated, view) ==
    LET best == OptimalValidator(view)
        jailed == {v \in Listed : ~view[v].isActive}
    IN  IF best = NoValidator THEN delegated
        ELSE [v \in Validators |->
                 IF v \in jailed THEN 0
                 ELSE IF v = best
                 THEN delegated[v] + SumFunctionOnSet(delegated, jailed)
                 ELSE delegated[v]]

(* afterTurnRound(): claims (a claim that fails brings nothing), pays the   *)
(* treasury, delegates the rest if a validator is acceptable, raises        *)
(* totalStakedCore by it in any case, then moves stake off jailed           *)
(* validators.                                                              *)
AfterTurnRound(r, view) ==
    LET best == OptimalValidator(view)
        compounded == IF best = NoValidator THEN delegatedAmountByValidator
                      ELSE [delegatedAmountByValidator EXCEPT ![best] = @ + Compound(r)]
    IN  /\ r > 0 => TotalDelegated > 0
        /\ totalStakedCore + Compound(r) <= MaxStaked
        /\ delegatedAmountByValidator' = Rescued(compounded, view)
        /\ held' = IF best = NoValidator THEN held + Compound(r) ELSE held
        /\ totalStakedCore' = NewTotalStaked(r)
        /\ UNCHANGED <<balanceOf, totalSupply, activeValidators, unstake, owned,
                       received, now>>

-----------------------------------------------------------------------------
(* The owner's calls.                                                       *)

AddValidator(v) ==
    /\ v \notin Listed
    /\ activeValidators' = Append(activeValidators, v)
    /\ UNCHANGED <<token, delegatedAmountByValidator, unstake, owned, coin, now>>

(* removeValidator's test that nothing is delegated, and its absence.       *)
AnyStake(v) == TRUE
NoStakeAt(v) == delegatedAmountByValidator[v] = 0

(* removeValidator(v): the last of the list takes the place of v.           *)
RemoveValidator(v) ==
    LET n == Len(activeValidators)
    IN  /\ v \in Listed
        /\ NoStakeAt(v)
        /\ activeValidators' =
               [i \in 1..(n - 1) |-> IF activeValidators[i] = v
                                     THEN activeValidators[n]
                                     ELSE activeValidators[i]]
        /\ UNCHANGED <<token, delegatedAmountByValidator, unstake, owned, coin, now>>

SetProtocolFee(fee) ==
    /\ fee <= 1000
    /\ protocolFee' = fee
    /\ UNCHANGED <<queueSet, maxValidatorRisk, performanceFee, paused>>

SetPerformanceFee(fee) ==
    /\ fee <= 2000
    /\ performanceFee' = fee
    /\ UNCHANGED <<queueSet, maxValidatorRisk, protocolFee, paused>>

SetMaxValidatorRisk(risk) ==
    /\ maxValidatorRisk' = risk
    /\ UNCHANGED <<queueSet, protocolFee, performanceFee, paused>>

SetUnbondingQueue(set) ==
    /\ queueSet' = set
    /\ UNCHANGED <<maxValidatorRisk, protocolFee, performanceFee, paused>>

(* pause() and unpause(), each refused when it would change nothing.        *)
SetPaused(p) ==
    /\ paused # p
    /\ paused' = p
    /\ UNCHANGED <<queueSet, maxValidatorRisk, protocolFee, performanceFee>>

Configure ==
    /\ \/ \E fee \in FeeChoices : SetProtocolFee(fee) \/ SetPerformanceFee(fee)
       \/ \E risk \in RiskChoices : SetMaxValidatorRisk(risk)
       \/ \E set \in QueueChoices : SetUnbondingQueue(set)
       \/ \E p \in BOOLEAN : SetPaused(p)
    /\ UNCHANGED <<token, stake, unstake, coin, now>>

-----------------------------------------------------------------------------
(* receive(): coin sent by anybody.                                         *)
Receive(c) ==
    /\ received + c <= MaxHeld
    /\ held' = held + c
    /\ received' = received + c
    /\ UNCHANGED <<token, stake, unstake, owned, now>>

(* An ERC20 transfer of stCORE, to a user or to the manager itself.         *)
Transfer(u, to, s) ==
    /\ balanceOf[u] >= s
    /\ u # to
    /\ balanceOf' = [balanceOf EXCEPT ![u] = @ - s, ![to] = @ + s]
    /\ UNCHANGED <<totalSupply, totalStakedCore, stake, unstake, owned, coin, now>>

Tick ==
    /\ now < MaxTime
    /\ now' = now + 1
    /\ UNCHANGED <<token, stake, unstake, owned, coin>>

Next ==
    \/ \E u \in Users, a \in Amounts :
          \/ \E v \in Validators \cup {NoValidator}, view \in Views :
                Stake(u, v, a, view)
          \/ RequestUnstake(u, a)
          \/ \E to \in TransferTo : Transfer(u, to, a)
    \/ \E id \in DOMAIN unstakeRequests : FulfillUnstake(id)
    \/ \E view \in Views :
          \/ Rebalance(view)
          \/ \E v, w \in Validators, a \in Amounts : ManualRebalance(v, w, a, view)
          \/ \E r \in Rewards : AfterTurnRound(r, view)
    \/ \E v \in Validators : AddValidator(v) \/ RemoveValidator(v)
    \/ Configure
    \/ \E a \in Amounts : Receive(a)
    \/ Tick

Spec == Init /\ [][Next]_vars

-----------------------------------------------------------------------------
Requests == [user : Users, stCoreAmount : Nat, coreAmount : Nat,
             requestTime : Nat, fulfilled : BOOLEAN]

(* Type invariant: every amount is unsigned, as it is in the contracts.     *)
TypeOK ==
    /\ balanceOf \in [Holders -> Nat]
    /\ totalSupply \in Nat /\ totalStakedCore \in Nat
    /\ activeValidators \in Seq(Validators)
    /\ delegatedAmountByValidator \in [Validators -> Nat]
    /\ unstakeRequests \in Seq(Requests)
    /\ queueSet \in BOOLEAN /\ paused \in BOOLEAN
    /\ maxValidatorRisk \in Nat /\ protocolFee \in Nat /\ performanceFee \in Nat
    /\ held \in Nat /\ queued \in Nat /\ received \in Nat /\ now \in Nat

(* What the token says its holders own is delegated or in the manager's     *)
(* balance, through every stake, reward, fee, redelegation and payment: the *)
(* two contracts keep the two totals apart and nothing compares them.       *)
StakeBacked ==
    totalStakedCore
        <= SumFunctionOnSet(delegatedAmountByValidator, Validators) + held

(* A payment fixed at the request (line 135) is never more than the stCORE  *)
(* burned for it is worth when it is burned (line 170), whatever was        *)
(* staked, rewarded or paid in between.                                     *)
RequestsCovered ==
    \A id \in DOMAIN unstakeRequests :
        LET r == unstakeRequests[id]
        IN  ~r.fulfilled => r.coreAmount <= StCoreToCore(r.stCoreAmount)

(* The stCORE of every open request is still in the manager's account, so   *)
(* the burn of fulfillUnstake cannot fail for want of it.                   *)
EscrowCovers ==
    SumFunction([id \in DOMAIN unstakeRequests |->
                    IF unstakeRequests[id].fulfilled THEN 0
                    ELSE unstakeRequests[id].stCoreAmount])
        <= balanceOf[Manager]

(* What OpenZeppelin's _burn relies on when it lowers the supply unchecked: *)
(* no holder has more stCORE than there is, the manager's escrow included.  *)
HoldersCovered == \A h \in Holders : balanceOf[h] <= totalSupply

(* An open request can be paid for: the payment fixed when it was made is   *)
(* never more than its stCORE is worth when it is burned, that stCORE is    *)
(* still in the manager's account, and no account holds more than the       *)
(* supply, which the burn lowers unchecked; and no checked subtraction on   *)
(* the way goes below zero (CoreLiquidStakingManager.sol:134-173).          *)
RequestsBacked == TypeOK /\ RequestsCovered /\ EscrowCovers /\ HoldersCovered

(* Stake is only ever at listed validators, each listed once: one that is   *)
(* not is never claimed for, rebalanced or moved when it is jailed.         *)
NoOrphanStake ==
    /\ \A v \in Validators : delegatedAmountByValidator[v] > 0 => v \in Listed
    /\ Cardinality(Listed) = Len(activeValidators)

(* The CORE a stCORE is worth never falls while there is stCORE: not by a   *)
(* stake, whose stCORE is rounded, nor by a burn, whose CORE is rounded.    *)
RateNeverFalls ==
    [][totalSupply > 0 /\ totalSupply' > 0 => ConversionRate' >= ConversionRate]_vars

(* docs/TESTING_GUIDE.md:74, "Claim Unstaked: Withdraw after unbonding      *)
(* period": a due request can be paid.                                      *)
DueRequestPayable ==
    \A id \in DOMAIN unstakeRequests :
        Due(unstakeRequests[id]) => held >= unstakeRequests[id].coreAmount
=============================================================================
