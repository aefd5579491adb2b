---------------------------- MODULE BasketStaking ----------------------------
(***************************************************************************)
(* contracts/core/staking/BasketStaking.sol: BASKET is staked, the stake    *)
(* puts its owner in a tier, and protocol fees (native coin) are shared     *)
(* through a reward index: every fee raises the index by fee / totalStaked, *)
(* and a staker is owed amount * index - rewardDebt, times the tier's       *)
(* multiplier.                                                              *)
(*                                                                          *)
(* One action is one successful transaction.  A Solidity `require`, or a    *)
(* checked subtraction that would underflow, reverts the transaction: it is *)
(* a conjunct of the action.  The nonReentrant lock makes the ETH transfer  *)
(* of WithdrawRewards atomic with the rest of its transaction.              *)
(***************************************************************************)
EXTENDS Integers, FiniteSets, Functions

CONSTANTS
    Users,       \* accounts that hold and stake BASKET
    Amounts,     \* amounts a call may move, of BASKET and of native coin
    InitWallet,  \* BASKET held by each account at the start
    Threshold,   \* the BASKET needed for tiers 1..4 (BRONZE_THRESHOLD, ...)
    PRECISION,   \* the scale of rewardIndex (1e18 in the contract)
    MaxFees,     \* bound: fees the contract receives in one behaviour
    MaxRescued   \* bound: what emergencyWithdraw takes in one behaviour

Tiers == 0..4    \* None, Bronze, Silver, Gold, Platinum

ASSUME UsersAssumption     == IsFiniteSet(Users)
ASSUME AmountsAssumption   == Amounts \subseteq Nat
ASSUME WalletAssumption    == InitWallet \in [Users -> Nat]
ASSUME ThresholdAssumption == /\ Threshold \in [1..4 -> Nat \ {0}]
                              /\ \A t \in 1..3 : Threshold[t] < Threshold[t + 1]
ASSUME PrecisionAssumption == PRECISION \in Nat \ {0}
ASSUME BoundsAssumption    == MaxFees \in Nat /\ MaxRescued \in Nat

VARIABLES
    wallet,              \* basketToken.balanceOf(user)
    vault,               \* basketToken.balanceOf(address(this))
    stakeInfo,           \* user -> amount, rewardDebt, pendingRewards, tier
    tierCounts,          \* tier -> number of stakers
    totalStaked,
    rewardIndex,         \* scaled by PRECISION
    protocolFeePool,     \* fees not yet claimed
    withdrawableRewards, \* user -> claimed rewards not yet paid out
    ethBalance,          \* address(this).balance
    feesReceived,        \* history: all the fees ever received
    earned,              \* history: user -> stake * index rise * multiplier
    claimed,             \* history: user -> rewards ever claimed
    rescued              \* history: what emergencyWithdraw took out

stakeVars  == <<stakeInfo, tierCounts, totalStaked>>
rewardVars == <<rewardIndex, protocolFeePool, withdrawableRewards, ethBalance>>
tokenVars  == <<wallet, vault>>
history    == <<feesReceived, earned, claimed, rescued>>
vars       == <<stakeVars, rewardVars, tokenVars, history>>

(* What a user is before the first stake: the mapping's zero value.         *)
NoStake == [amount |-> 0, rewardDebt |-> 0, pendingRewards |-> 0, tier |-> 0]

-----------------------------------------------------------------------------
(* Tiers.                                                                   *)

(* The highest tier whose threshold the stake reaches.                      *)
CalculateTier(a) ==
    CHOOSE t \in Tiers : /\ t > 0 => a >= Threshold[t]
                         /\ t < 4 => a < Threshold[t + 1]

(* getTierMultiplier, in basis points.                                      *)
TierMultiplier == [t \in Tiers |-> IF t = 4 THEN 15000
                                   ELSE IF t = 3 THEN 12500
                                   ELSE IF t = 2 THEN 11000
                                   ELSE 10000]

-----------------------------------------------------------------------------
(* Rewards.                                                                 *)

(* The stake's share of all the fees since the index was 0.                 *)
IndexShare(amount) == (amount * rewardIndex) \div PRECISION

(* Forgetting to move the debt up with the stake.                           *)
DebtNotRaised(amount) == 0

(* Rounding the debt up where the share is rounded down.                    *)
DebtRoundedUp(amount) == (amount * rewardIndex + PRECISION - 1) \div PRECISION

DebtAfter(amount) == IndexShare(amount)

(* What _updateUserRewards adds to pendingRewards.                          *)
Accrued(u) ==
    LET s == stakeInfo[u]
    IN  IF s.amount = 0 THEN 0
        ELSE ((IndexShare(s.amount) - s.rewardDebt) * TierMultiplier[s.tier])
                 \div 10000

(* The subtraction in _updateUserRewards is checked: it reverts below 0.    *)
CanSettle(u) ==
    stakeInfo[u].amount > 0 =>
        IndexShare(stakeInfo[u].amount) >= stakeInfo[u].rewardDebt

Pending(u) == stakeInfo[u].pendingRewards + Accrued(u)

-----------------------------------------------------------------------------
Init ==
    /\ wallet = InitWallet
    /\ vault = 0
    /\ stakeInfo = [u \in Users |-> NoStake]
    /\ tierCounts = [t \in Tiers |-> 0]
    /\ totalStaked = 0
    /\ rewardIndex = 0
    /\ protocolFeePool = 0
    /\ withdrawableRewards = [u \in Users |-> 0]
    /\ ethBalance = 0
    /\ feesReceived = 0
    /\ earned = [u \in Users |-> 0]
    /\ claimed = [u \in Users |-> 0]
    /\ rescued = [token |-> 0, eth |-> 0]

(* The record with the tier left as it was.                                 *)
RestakedOldTier(u, amount) ==
    [amount         |-> amount,
     rewardDebt     |-> DebtAfter(amount),
     pendingRewards |-> Pending(u),
     tier           |-> stakeInfo[u].tier]

(* The record stake() and unstake() leave behind: rewards settled at the    *)
(* old amount and tier, then the new amount, its tier and its debt.         *)
Restaked(u, amount) ==
    [amount         |-> amount,
     rewardDebt     |-> DebtAfter(amount),
     pendingRewards |-> Pending(u),
     tier           |-> CalculateTier(amount)]

(* tierCounts when a staker goes up from tier old to tier new.              *)
CountUp(old, new) ==
    IF new = old THEN tierCounts
    ELSE [tierCounts EXCEPT ![old] = IF old = 0 THEN @ ELSE @ - 1,
                            ![new] = @ + 1]

(* tierCounts when a staker goes down from tier old to tier new.            *)
CountDown(old, new) ==
    IF new = old THEN tierCounts
    ELSE [tierCounts EXCEPT ![old] = @ - 1,
                            ![new] = IF new = 0 THEN @ ELSE @ + 1]

(* tierCounts[old]-- is checked, in stake() (after the test that there was  *)
(* a tier) and in unstake() (without it): it reverts at 0.                  *)
CanLeaveUp(old, new)   == (new # old /\ old # 0) => tierCounts[old] > 0
CanLeaveDown(old, new) == new # old => tierCounts[old] > 0

(* stake(amount); the allowance transferFrom needs was given before.        *)
Stake(u, a) ==
    /\ a > 0
    /\ wallet[u] >= a
    /\ CanSettle(u)
    /\ wallet' = [wallet EXCEPT ![u] = @ - a]
    /\ vault' = vault + a
    /\ LET s == Restaked(u, stakeInfo[u].amount + a)
       IN  /\ CanLeaveUp(stakeInfo[u].tier, s.tier)
           /\ stakeInfo' = [stakeInfo EXCEPT ![u] = s]
           /\ tierCounts' = CountUp(stakeInfo[u].tier, s.tier)
    /\ totalStaked' = totalStaked + a
    /\ UNCHANGED <<rewardVars, history>>

(* totalStaked after an unstake, and the update forgotten.                  *)
TotalNotLowered(a) == totalStaked
TotalAfter(a)      == totalStaked - a

(* unstake(amount); the transfer back fails if the vault was emptied.       *)
Unstake(u, a) ==
    /\ a > 0
    /\ stakeInfo[u].amount >= a
    /\ vault >= a
    /\ totalStaked >= a
    /\ CanSettle(u)
    /\ wallet' = [wallet EXCEPT ![u] = @ + a]
    /\ vault' = vault - a
    /\ LET s == Restaked(u, stakeInfo[u].amount - a)
       IN  /\ CanLeaveDown(stakeInfo[u].tier, s.tier)
           /\ stakeInfo' = [stakeInfo EXCEPT ![u] = s]
           /\ tierCounts' = CountDown(stakeInfo[u].tier, s.tier)
    /\ totalStaked' = TotalAfter(a)
    /\ UNCHANGED <<rewardVars, history>>

(* claimRewards(): settles, then moves everything pending to the caller's   *)
(* withdrawable rewards.  rewardDebt is not written.                        *)
ClaimRewards(u) ==
    /\ CanSettle(u)
    /\ Pending(u) > 0
    /\ protocolFeePool >= Pending(u)
    /\ stakeInfo' = [stakeInfo EXCEPT ![u].pendingRewards = 0]
    /\ protocolFeePool' = protocolFeePool - Pending(u)
    /\ withdrawableRewards' = [withdrawableRewards EXCEPT ![u] = @ + Pending(u)]
    /\ claimed' = [claimed EXCEPT ![u] = @ + Pending(u)]
    /\ UNCHANGED <<tierCounts, totalStaked, rewardIndex, ethBalance, tokenVars,
                   feesReceived, earned, rescued>>

(* What withdrawRewards leaves in the mapping.                              *)
NotZeroed(u) == withdrawableRewards
Zeroed(u)    == [withdrawableRewards EXCEPT ![u] = 0]

(* withdrawRewards(): the transfer fails if the contract cannot cover it.   *)
WithdrawRewards(u) ==
    /\ withdrawableRewards[u] > 0
    /\ ethBalance >= withdrawableRewards[u]
    /\ ethBalance' = ethBalance - withdrawableRewards[u]
    /\ withdrawableRewards' = Zeroed(u)
    /\ UNCHANGED <<stakeVars, rewardIndex, protocolFeePool, tokenVars, history>>

(* How far one fee raises the index; a fee nobody is staked for raises      *)
(* nothing and stays in the pool.                                           *)
IndexRise(fee) ==
    IF totalStaked > 0 THEN (fee * PRECISION) \div totalStaked ELSE 0

(* depositProtocolFees() and receive(): the same effect for the same value. *)
ReceiveFees(fee) ==
    /\ fee > 0
    /\ feesReceived + fee <= MaxFees
    /\ rewardIndex' = rewardIndex + IndexRise(fee)
    /\ protocolFeePool' = protocolFeePool + fee
    /\ ethBalance' = ethBalance + fee
    /\ feesReceived' = feesReceived + fee
    /\ earned' = [u \in Users |->
                     earned[u] + stakeInfo[u].amount * IndexRise(fee)
                                     * TierMultiplier[stakeInfo[u].tier]]
    /\ UNCHANGED <<stakeVars, withdrawableRewards, tokenVars, claimed, rescued>>

(* emergencyWithdraw(basketToken, amount) and emergencyWithdraw(0, amount): *)
(* the owner takes tokens or coin; no accounting variable is touched.       *)
EmergencyWithdrawToken(a) ==
    /\ vault >= a
    /\ rescued.token + rescued.eth + a <= MaxRescued
    /\ vault' = vault - a
    /\ rescued' = [rescued EXCEPT !.token = @ + a]
    /\ UNCHANGED <<wallet, stakeVars, rewardVars, feesReceived, earned, claimed>>

EmergencyWithdrawEth(a) ==
    /\ ethBalance >= a
    /\ rescued.token + rescued.eth + a <= MaxRescued
    /\ ethBalance' = ethBalance - a
    /\ rescued' = [rescued EXCEPT !.eth = @ + a]
    /\ UNCHANGED <<stakeVars, tokenVars, rewardIndex, protocolFeePool,
                   withdrawableRewards, feesReceived, earned, claimed>>

Next ==
    \/ \E u \in Users :
          \/ \E a \in Amounts : Stake(u, a) \/ Unstake(u, a)
          \/ ClaimRewards(u)
          \/ WithdrawRewards(u)
    \/ \E a \in Amounts : \/ ReceiveFees(a)
                          \/ EmergencyWithdrawToken(a)
                          \/ EmergencyWithdrawEth(a)

Spec == Init /\ [][Next]_vars

-----------------------------------------------------------------------------
(* Type invariant: every variable is unsigned, as it is in the contract.    *)
StakeRecords == [amount : Nat, rewardDebt : Nat, pendingRewards : Nat,
                 tier : Tiers]

TypeOK ==
    /\ wallet \in [Users -> Nat]
    /\ vault \in Nat
    /\ stakeInfo \in [Users -> StakeRecords]
    /\ tierCounts \in [Tiers -> Nat]
    /\ totalStaked \in Nat
    /\ rewardIndex \in Nat
    /\ protocolFeePool \in Nat
    /\ withdrawableRewards \in [Users -> Nat]
    /\ ethBalance \in Nat
    /\ feesReceived \in Nat
    /\ earned \in [Users -> Nat]
    /\ claimed \in [Users -> Nat]
    /\ rescued \in [token : Nat, eth : Nat]

(* The tier stored with a stake is the tier of its amount, through every    *)
(* stake and partial unstake: getFeeReduction and getVotingMultiplier read  *)
(* the stored tier and never recompute it (lines 365 and 386).              *)
TierMatchesAmount ==
    \A u \in Users : stakeInfo[u].tier = CalculateTier(stakeInfo[u].amount)

(* tierCounts is the census of the stakers of each tier, although it is     *)
(* only ever adjusted by the difference of one stake or unstake (94-101,    *)
(* 127-135).                                                                *)
TierCountsExact ==
    \A t \in Tiers \ {0} :
        tierCounts[t] = Cardinality({u \in Users : stakeInfo[u].tier = t})

(* The checked subtractions of _updateUserRewards (line 256) and of         *)
(* tierCounts (97, 129) never revert, so no order of stakes, unstakes,      *)
(* claims and fees locks a stake in.                                        *)
SettlementNeverReverts ==
    \A u \in Users : /\ CanSettle(u)
                     /\ stakeInfo[u].tier # 0 => tierCounts[stakeInfo[u].tier] > 0

(* Every staked token is in the contract or was taken by emergencyWithdraw, *)
(* and totalStaked, the divisor of every fee, is the sum of the stakes.     *)
StakesBacked ==
    /\ totalStaked = SumFunction([u \in Users |-> stakeInfo[u].amount])
    /\ vault + rescued.token = totalStaked

(* The coin held is what the pool and the unpaid claims add up to, less     *)
(* what emergencyWithdraw took: a claim that was accepted can be paid, for  *)
(* every interleaving of claims, payments and fees.                         *)
ClaimsBacked ==
    /\ ethBalance + rescued.eth
           = protocolFeePool + SumFunction(withdrawableRewards)
    /\ feesReceived = protocolFeePool + SumFunction(claimed)

(* Whatever was staked, claimed or rescued, in any order, the contract can  *)
(* pay back every stake and every accepted claim, less what                 *)
(* emergencyWithdraw took, which touches no accounting variable (lines 139, *)
(* 179, 395).                                                               *)
Solvent == StakesBacked /\ ClaimsBacked

(* Only a fee raises what anybody is owed: staking more just before or      *)
(* after a fee, splitting a stake or claiming never does (settlement at     *)
(* lines 80-81 and 119-120 comes before the amount changes).                *)
OnlyFeesRaisePending ==
    [][\A u \in Users : Pending(u)' > Pending(u) => rewardIndex' > rewardIndex]_vars

(* docs/GOVERNANCE_SYSTEM.md:81: "Distribution: Proportional to staked      *)
(* amounts with tier multipliers": nobody claims more than the stake earned *)
(* while it was there (exact when PRECISION = 1, where no share rounds).    *)
ClaimsProportional ==
    \A u \in Users : claimed[u] * PRECISION * 10000 <= earned[u]
=============================================================================
