------------------------- MODULE BasketStakingProofs -------------------------
(***************************************************************************)
(* What TLAPS proves of BasketStaking, for every finite set of users, every *)
(* thresholds and precision, and every bound: tiers and their census, that  *)
(* no settlement reverts, that only fees raise what is owed, and that the   *)
(* contract is solvent.                                                     *)
(***************************************************************************)
EXTENDS BasketStaking, SumTheorems, TLAPS

-----------------------------------------------------------------------------
(* Arithmetic the contract relies on.                                       *)

(* Products and quotients of unsigned numbers are unsigned.                 *)
LEMMA MulNat == ASSUME NEW x \in Nat, NEW y \in Nat PROVE x * y \in Nat
  OBVIOUS

LEMMA DivNat == ASSUME NEW x \in Nat, NEW d \in Nat \ {0} PROVE x \div d \in Nat
  OBVIOUS

(* Rounding down keeps the order.                                           *)
LEMMA DivMonotone ==
    ASSUME NEW x \in Nat, NEW y \in Nat, NEW d \in Nat \ {0}, x <= y
    PROVE  x \div d <= y \div d
  OBVIOUS

LEMMA MulMonotone ==
    ASSUME NEW a \in Nat, NEW x \in Nat, NEW y \in Nat, x <= y
    PROVE  a * x <= a * y
  OBVIOUS

-----------------------------------------------------------------------------
(* Every amount has a tier, and it is the tier whose threshold the amount   *)
(* reaches while missing the next one (_calculateTier).                     *)
LEMMA TierOfAmount ==
    ASSUME NEW a \in Nat
    PROVE  /\ CalculateTier(a) \in Tiers
           /\ CalculateTier(a) > 0 => a >= Threshold[CalculateTier(a)]
           /\ CalculateTier(a) < 4 => a < Threshold[CalculateTier(a) + 1]
<1> DEFINE Fits(t) == /\ t > 0 => a >= Threshold[t]
                      /\ t < 4 => a < Threshold[t + 1]
<1> USE ThresholdAssumption
<1>1. \E t \in Tiers : Fits(t)
  <2>1. CASE a < Threshold[1]  BY <2>1, 0 \in Tiers, Fits(0) DEF Tiers
  <2>2. CASE Threshold[1] <= a /\ a < Threshold[2]
    BY <2>2, 1 \in Tiers, Fits(1) DEF Tiers
  <2>3. CASE Threshold[2] <= a /\ a < Threshold[3]
    BY <2>3, 2 \in Tiers, Fits(2) DEF Tiers
  <2>4. CASE Threshold[3] <= a /\ a < Threshold[4]
    BY <2>4, 3 \in Tiers, Fits(3) DEF Tiers
  <2>5. CASE Threshold[4] <= a  BY <2>5, 4 \in Tiers, Fits(4) DEF Tiers
  <2>6. QED  BY <2>1, <2>2, <2>3, <2>4, <2>5
<1>2. CalculateTier(a) = CHOOSE t \in Tiers : Fits(t)  BY DEF CalculateTier
<1>3. QED  BY <1>1, <1>2, Zenon DEF Fits

(* An account with no stake has no tier.                                    *)
LEMMA TierOfNothing == CalculateTier(0) = 0
  BY TierOfAmount, ThresholdAssumption DEF Tiers

(* The multiplier of a tier is a number of basis points.                    *)
LEMMA MultiplierNat == \A t \in Tiers : TierMultiplier[t] \in Nat
  BY DEF TierMultiplier, Tiers

(* The share of the index is unsigned, and so is what accrues on it.        *)
LEMMA ShareNat ==
    ASSUME TypeOK, NEW a \in Nat PROVE IndexShare(a) \in Nat
<1>1. a * rewardIndex \in Nat  BY MulNat DEF TypeOK
<1>2. QED  BY <1>1, DivNat, PrecisionAssumption DEF IndexShare

LEMMA AccruedNat ==
    ASSUME TypeOK, NEW u \in Users, CanSettle(u)
    PROVE  Accrued(u) \in Nat /\ Pending(u) \in Nat
<1> DEFINE s == stakeInfo[u]
           owed == IndexShare(s.amount) - s.rewardDebt
<1>1. s \in StakeRecords  BY DEF TypeOK
<1>2. CASE s.amount = 0  BY <1>1, <1>2 DEF Accrued, Pending, StakeRecords
<1>3. CASE s.amount # 0
  <2>1. IndexShare(s.amount) \in Nat  BY <1>1, ShareNat DEF StakeRecords
  <2>2. owed \in Nat  BY <1>1, <1>3, <2>1 DEF CanSettle, StakeRecords
  <2>3. TierMultiplier[s.tier] \in Nat
    BY <1>1, MultiplierNat DEF StakeRecords
  <2>4. owed * TierMultiplier[s.tier] \in Nat  BY <2>2, <2>3, MulNat
  <2>5. Accrued(u) = (owed * TierMultiplier[s.tier]) \div 10000
    BY <1>3 DEF Accrued
  <2>6. Accrued(u) \in Nat  BY <2>4, <2>5, DivNat
  <2>7. QED  BY <1>1, <2>6 DEF Pending, StakeRecords
<1>4. QED  BY <1>2, <1>3

LEMMA RiseNat ==
    ASSUME TypeOK, NEW fee \in Nat PROVE IndexRise(fee) \in Nat
<1>1. fee * PRECISION \in Nat  BY MulNat, PrecisionAssumption
<1>2. CASE totalStaked > 0  BY <1>1, <1>2, DivNat DEF TypeOK, IndexRise
<1>3. CASE totalStaked = 0  BY <1>3 DEF IndexRise
<1>4. QED  BY <1>2, <1>3 DEF TypeOK

(* The record a stake or an unstake leaves is well typed.                   *)
LEMMA RestakedTyped ==
    ASSUME TypeOK, NEW u \in Users, CanSettle(u), NEW a \in Nat
    PROVE  Restaked(u, a) \in StakeRecords
<1>1. IndexShare(a) \in Nat  BY ShareNat
<1>2. Pending(u) \in Nat  BY AccruedNat
<1>3. CalculateTier(a) \in Tiers  BY TierOfAmount
<1>4. QED  BY <1>1, <1>2, <1>3 DEF Restaked, DebtAfter, StakeRecords

-----------------------------------------------------------------------------
(* Type correctness: no variable of the contract ever leaves its unsigned   *)
(* range, whatever the interleaving of calls.                               *)
LEMMA InitTyped == Init => TypeOK
  BY WalletAssumption DEF Init, TypeOK, NoStake, StakeRecords, Tiers

LEMMA NextTyped == TypeOK /\ [Next]_vars => TypeOK'
<1> SUFFICES ASSUME TypeOK, [Next]_vars PROVE TypeOK'
  OBVIOUS
<1> USE AmountsAssumption
<1>1. ASSUME NEW u \in Users, NEW a \in Amounts, Stake(u, a) PROVE TypeOK'
  <2> DEFINE old == stakeInfo[u]
             new == Restaked(u, old.amount + a)
  <2>1. old \in StakeRecords  BY DEF TypeOK
  <2>2. new \in StakeRecords
    <3>1. /\ a \in Nat
          /\ old.amount \in Nat
      BY <2>1, AmountsAssumption DEF StakeRecords
    <3>2. old.amount + a \in Nat  BY <3>1
    <3>3. CanSettle(u)  BY <1>1 DEF Stake
    <3>4. QED  BY <3>2, <3>3, RestakedTyped
  <2>3. stakeInfo' \in [Users -> StakeRecords]
    BY <1>1, <2>2 DEF Stake, TypeOK
  <2>4. tierCounts' \in [Tiers -> Nat]
    BY <1>1, <2>1, <2>2 DEF Stake, CountUp, CanLeaveUp, TypeOK, StakeRecords, Tiers
  <2>5. wallet' \in [Users -> Nat]  BY <1>1 DEF Stake, TypeOK
  <2>6. QED
    BY <1>1, <2>3, <2>4, <2>5 DEF Stake, TypeOK, rewardVars, history
<1>2. ASSUME NEW u \in Users, NEW a \in Amounts, Unstake(u, a) PROVE TypeOK'
  <2> DEFINE old == stakeInfo[u]
             new == Restaked(u, old.amount - a)
  <2>1. old \in StakeRecords  BY DEF TypeOK
  <2>2. new \in StakeRecords
    <3>1. old.amount - a \in Nat  BY <1>2, <2>1 DEF Unstake, StakeRecords
    <3>2. CanSettle(u)  BY <1>2 DEF Unstake
    <3>3. QED  BY <3>1, <3>2, RestakedTyped
  <2>3. stakeInfo' \in [Users -> StakeRecords]
    BY <1>2, <2>2 DEF Unstake, TypeOK
  <2>4. tierCounts' \in [Tiers -> Nat]
    BY <1>2, <2>1, <2>2
       DEF Unstake, CountDown, CanLeaveDown, TypeOK, StakeRecords, Tiers
  <2>5. wallet' \in [Users -> Nat]  BY <1>2 DEF Unstake, TypeOK
  <2>6. QED
    BY <1>2, <2>3, <2>4, <2>5 DEF Unstake, TotalAfter, TypeOK, rewardVars, history
<1>3. ASSUME NEW u \in Users, ClaimRewards(u) PROVE TypeOK'
  <2>1. Pending(u) \in Nat  BY <1>3, AccruedNat DEF ClaimRewards
  <2>2. stakeInfo' \in [Users -> StakeRecords]
    BY <1>3 DEF ClaimRewards, TypeOK, StakeRecords
  <2>3. protocolFeePool' \in Nat  BY <1>3, <2>1 DEF ClaimRewards, TypeOK
  <2>4. /\ withdrawableRewards' \in [Users -> Nat]
        /\ claimed' \in [Users -> Nat]
    BY <1>3, <2>1 DEF ClaimRewards, TypeOK
  <2>5. QED
    BY <1>3, <2>2, <2>3, <2>4 DEF ClaimRewards, TypeOK, tokenVars
<1>4. ASSUME NEW u \in Users, WithdrawRewards(u) PROVE TypeOK'
  BY <1>4 DEF WithdrawRewards, Zeroed, TypeOK, stakeVars, tokenVars, history
<1>5. ASSUME NEW a \in Amounts, ReceiveFees(a) PROVE TypeOK'
  <2>1. IndexRise(a) \in Nat  BY RiseNat
  <2>2. earned' \in [Users -> Nat]
    <3>1. ASSUME NEW u \in Users
          PROVE  earned[u] + stakeInfo[u].amount * IndexRise(a)
                                 * TierMultiplier[stakeInfo[u].tier] \in Nat
      <4>1. stakeInfo[u].amount * IndexRise(a) \in Nat
        BY <2>1, MulNat DEF TypeOK, StakeRecords
      <4>2. TierMultiplier[stakeInfo[u].tier] \in Nat
        BY MultiplierNat DEF TypeOK, StakeRecords
      <4>3. stakeInfo[u].amount * IndexRise(a)
                * TierMultiplier[stakeInfo[u].tier] \in Nat
        BY <4>1, <4>2, MulNat
      <4>4. QED  BY <4>3 DEF TypeOK
    <3>2. QED  BY <1>5, <3>1 DEF ReceiveFees
  <2>3. /\ rewardIndex' \in Nat
        /\ protocolFeePool' \in Nat
        /\ ethBalance' \in Nat
        /\ feesReceived' \in Nat
    BY <1>5, <2>1 DEF ReceiveFees, TypeOK
  <2>4. QED
    BY <1>5, <2>2, <2>3 DEF ReceiveFees, TypeOK, stakeVars, tokenVars
<1>6. ASSUME NEW a \in Amounts, EmergencyWithdrawToken(a) PROVE TypeOK'
  BY <1>6 DEF EmergencyWithdrawToken, TypeOK, stakeVars, rewardVars
<1>7. ASSUME NEW a \in Amounts, EmergencyWithdrawEth(a) PROVE TypeOK'
  BY <1>7 DEF EmergencyWithdrawEth, TypeOK, stakeVars, tokenVars
<1>8. CASE UNCHANGED vars
  BY <1>8 DEF vars, stakeVars, rewardVars, tokenVars, history, TypeOK
<1>9. QED
  BY <1>1, <1>2, <1>3, <1>4, <1>5, <1>6, <1>7, <1>8 DEF Next

THEOREM TypeCorrect == Spec => []TypeOK
  BY InitTyped, NextTyped, PTL DEF Spec

-----------------------------------------------------------------------------
(* The inductive invariant.  SettlementNeverReverts alone is not inductive: *)
(* that a debt is covered must hold of empty stakes too, and a count is     *)
(* above 0 because it is the number of stakers of the tier.                 *)
DebtCovered ==
    \A u \in Users : stakeInfo[u].rewardDebt <= IndexShare(stakeInfo[u].amount)

IInv == TypeOK /\ TierMatchesAmount /\ TierCountsExact /\ DebtCovered

At(t) == {u \in Users : stakeInfo[u].tier = t}

(* The census of a tier when one staker's record changes.                   *)
LEMMA CensusMoves ==
    ASSUME TypeOK, NEW u \in Users, NEW s \in StakeRecords,
           stakeInfo' = [stakeInfo EXCEPT ![u] = s], NEW t \in Tiers
    PROVE  /\ IsFiniteSet(At(t)) /\ IsFiniteSet(At(t)')
           /\ Cardinality(At(t)) \in Nat
           /\ s.tier = stakeInfo[u].tier => Cardinality(At(t)') = Cardinality(At(t))
           /\ s.tier = t /\ stakeInfo[u].tier # t
                 => Cardinality(At(t)') = Cardinality(At(t)) + 1
           /\ s.tier # t /\ stakeInfo[u].tier = t
                 => Cardinality(At(t)') = Cardinality(At(t)) - 1
           /\ s.tier # t /\ stakeInfo[u].tier # t
                 => Cardinality(At(t)') = Cardinality(At(t))
<1>1. IsFiniteSet(At(t)) /\ IsFiniteSet(At(t)')
  BY UsersAssumption, FS_Subset DEF At
<1>2. Cardinality(At(t)) \in Nat  BY <1>1, FS_CardinalityType
<1>3. u \in At(t) <=> stakeInfo[u].tier = t  BY DEF At
<1>4. At(t)' = IF s.tier = t THEN At(t) \cup {u} ELSE At(t) \ {u}
  BY DEF At, TypeOK
<1>5. CASE s.tier = t
  BY <1>1, <1>2, <1>3, <1>4, <1>5, FS_AddElement
<1>6. CASE s.tier # t
  BY <1>1, <1>2, <1>3, <1>4, <1>6, FS_RemoveElement
<1>7. QED  BY <1>1, <1>2, <1>5, <1>6

(* A tier with a staker is counted.                                         *)
LEMMA CountedAboveZero ==
    ASSUME TypeOK, TierCountsExact, NEW u \in Users, stakeInfo[u].tier # 0
    PROVE  tierCounts[stakeInfo[u].tier] > 0
<1> DEFINE t == stakeInfo[u].tier
<1>1. t \in Tiers \ {0}  BY DEF TypeOK, StakeRecords
<1>2. tierCounts[t] = Cardinality(At(t))  BY <1>1 DEF TierCountsExact, At
<1>3. IsFiniteSet(At(t))  BY UsersAssumption, FS_Subset DEF At
<1>4. u \in At(t)  BY DEF At
<1>5. Cardinality(At(t)) \in Nat /\ Cardinality(At(t)) # 0
  BY <1>3, <1>4, FS_CardinalityType, FS_EmptySet
<1>6. QED  BY <1>2, <1>5

(* A larger index gives no smaller a share.                                 *)
LEMMA ShareGrows ==
    ASSUME NEW a \in Nat, NEW i \in Nat, NEW j \in Nat, i <= j
    PROVE  (a * i) \div PRECISION <= (a * j) \div PRECISION
<1>1. a * i \in Nat /\ a * j \in Nat  BY MulNat
<1>2. a * i <= a * j  BY MulMonotone
<1>3. QED  BY <1>1, <1>2, DivMonotone, PrecisionAssumption

(* One staker's record replaced by a settled one, the index unmoved.        *)
LEMMA RestakeKeeps ==
    ASSUME IInv, TypeOK', NEW u \in Users, NEW a \in Nat, CanSettle(u),
           stakeInfo' = [stakeInfo EXCEPT ![u] = Restaked(u, a)],
           rewardIndex' = rewardIndex
    PROVE  TierMatchesAmount' /\ DebtCovered'
<1>1. Restaked(u, a) \in StakeRecords  BY RestakedTyped DEF IInv
<1>2. TierMatchesAmount'
  BY <1>1 DEF IInv, TierMatchesAmount, Restaked, TypeOK
<1>3. DebtCovered'
  <2>1. IndexShare(a) \in Nat  BY ShareNat DEF IInv
  <2>2. QED
    BY <2>1 DEF IInv, DebtCovered, Restaked, DebtAfter, IndexShare, TypeOK
<1>4. QED  BY <1>2, <1>3

(* The counts follow a staker up, and down.                                 *)
LEMMA CountUpKeeps ==
    ASSUME TypeOK, TierCountsExact, NEW u \in Users, NEW s \in StakeRecords,
           stakeInfo' = [stakeInfo EXCEPT ![u] = s],
           tierCounts' = CountUp(stakeInfo[u].tier, s.tier)
    PROVE  TierCountsExact'
<1> DEFINE old == stakeInfo[u].tier
<1>1. old \in Tiers /\ s.tier \in Tiers  BY DEF TypeOK, StakeRecords
<1> SUFFICES ASSUME NEW t \in Tiers \ {0}
             PROVE  tierCounts'[t] = Cardinality(At(t)')
  BY DEF TierCountsExact, At
<1>2. tierCounts[t] = Cardinality(At(t))  BY DEF TierCountsExact, At
<1>3. CASE s.tier = old
  BY <1>2, <1>3, CensusMoves DEF CountUp
<1>4. CASE s.tier # old /\ s.tier = t
  <2>1. tierCounts'[t] = tierCounts[t] + 1
    BY <1>1, <1>4 DEF CountUp, TypeOK
  <2>2. QED  BY <1>2, <1>4, <2>1, CensusMoves
<1>5. CASE s.tier # old /\ old = t
  <2>1. tierCounts'[t] = tierCounts[t] - 1
    BY <1>1, <1>5 DEF CountUp, TypeOK
  <2>2. QED  BY <1>2, <1>5, <2>1, CensusMoves
<1>6. CASE s.tier # t /\ old # t
  <2>1. tierCounts'[t] = tierCounts[t]  BY <1>1, <1>6 DEF CountUp, TypeOK
  <2>2. QED  BY <1>2, <1>6, <2>1, CensusMoves
<1>7. QED  BY <1>3, <1>4, <1>5, <1>6

LEMMA CountDownKeeps ==
    ASSUME TypeOK, TierCountsExact, NEW u \in Users, NEW s \in StakeRecords,
           stakeInfo' = [stakeInfo EXCEPT ![u] = s],
           tierCounts' = CountDown(stakeInfo[u].tier, s.tier)
    PROVE  TierCountsExact'
<1> DEFINE old == stakeInfo[u].tier
<1>1. old \in Tiers /\ s.tier \in Tiers  BY DEF TypeOK, StakeRecords
<1> SUFFICES ASSUME NEW t \in Tiers \ {0}
             PROVE  tierCounts'[t] = Cardinality(At(t)')
  BY DEF TierCountsExact, At
<1>2. tierCounts[t] = Cardinality(At(t))  BY DEF TierCountsExact, At
<1>3. CASE s.tier = old
  BY <1>2, <1>3, CensusMoves DEF CountDown
<1>4. CASE s.tier # old /\ s.tier = t
  <2>1. tierCounts'[t] = tierCounts[t] + 1
    BY <1>1, <1>4 DEF CountDown, TypeOK
  <2>2. QED  BY <1>2, <1>4, <2>1, CensusMoves
<1>5. CASE s.tier # old /\ old = t
  <2>1. tierCounts'[t] = tierCounts[t] - 1
    BY <1>1, <1>5 DEF CountDown, TypeOK
  <2>2. QED  BY <1>2, <1>5, <2>1, CensusMoves
<1>6. CASE s.tier # t /\ old # t
  <2>1. tierCounts'[t] = tierCounts[t]  BY <1>1, <1>6 DEF CountDown, TypeOK
  <2>2. QED  BY <1>2, <1>6, <2>1, CensusMoves
<1>7. QED  BY <1>3, <1>4, <1>5, <1>6

(* The parts of the invariant that only tiers, amounts and counts decide.   *)
LEMMA SameTiersKeep ==
    ASSUME TierMatchesAmount, TierCountsExact, UNCHANGED tierCounts,
           \A u \in Users : /\ stakeInfo'[u].tier = stakeInfo[u].tier
                            /\ stakeInfo'[u].amount = stakeInfo[u].amount
    PROVE  TierMatchesAmount' /\ TierCountsExact'
<1>1. TierMatchesAmount'  BY DEF TierMatchesAmount
<1>2. \A t \in Tiers : {u \in Users : stakeInfo'[u].tier = t}
                           = {u \in Users : stakeInfo[u].tier = t}
  OBVIOUS
<1>3. TierCountsExact'  BY <1>2 DEF TierCountsExact
<1>4. QED  BY <1>1, <1>3

LEMMA InitInductive == Init => IInv
<1> SUFFICES ASSUME Init PROVE IInv
  OBVIOUS
<1>1. TypeOK  BY InitTyped
<1>2. TierMatchesAmount
  BY TierOfNothing DEF Init, NoStake, TierMatchesAmount
<1>3. TierCountsExact
  <2>1. \A t \in Tiers \ {0} : {u \in Users : stakeInfo[u].tier = t} = {}
    BY DEF Init, NoStake
  <2>2. QED  BY <2>1, FS_EmptySet DEF Init, TierCountsExact
<1>4. DebtCovered
  <2>1. IndexShare(0) \in Nat  BY <1>1, ShareNat
  <2>2. QED  BY <2>1 DEF Init, NoStake, DebtCovered
<1>5. QED  BY <1>1, <1>2, <1>3, <1>4 DEF IInv

LEMMA NextInductive == IInv /\ [Next]_vars => IInv'
<1> SUFFICES ASSUME IInv, [Next]_vars PROVE IInv'
  OBVIOUS
<1>0. TypeOK'  BY NextTyped DEF IInv
<1> USE AmountsAssumption
<1>1. ASSUME NEW u \in Users, NEW a \in Amounts, Stake(u, a) PROVE IInv'
  <2> DEFINE old == stakeInfo[u]
             new == Restaked(u, old.amount + a)
  <2>1. old.amount + a \in Nat  BY DEF IInv, TypeOK, StakeRecords
  <2>2. new \in StakeRecords
    <3>1. TypeOK  BY DEF IInv
    <3>2. CanSettle(u)  BY <1>1 DEF Stake
    <3>3. QED  BY <2>1, <3>1, <3>2, RestakedTyped
  <2>3. /\ stakeInfo' = [stakeInfo EXCEPT ![u] = new]
        /\ tierCounts' = CountUp(old.tier, new.tier)
        /\ rewardIndex' = rewardIndex /\ CanSettle(u)
    BY <1>1 DEF Stake, rewardVars
  <2>4. TierMatchesAmount' /\ DebtCovered'  BY <1>0, <2>1, <2>3, RestakeKeeps
  <2>5. TierCountsExact'
    <3> HIDE DEF new
    <3> QED  BY <2>2, <2>3, CountUpKeeps DEF IInv
  <2>6. QED  BY <1>0, <2>4, <2>5 DEF IInv
<1>2. ASSUME NEW u \in Users, NEW a \in Amounts, Unstake(u, a) PROVE IInv'
  <2> DEFINE old == stakeInfo[u]
             new == Restaked(u, old.amount - a)
  <2>1. old.amount - a \in Nat  BY <1>2 DEF IInv, TypeOK, StakeRecords, Unstake
  <2>2. new \in StakeRecords
    <3>1. TypeOK  BY DEF IInv
    <3>2. CanSettle(u)  BY <1>2 DEF Unstake
    <3>3. QED  BY <2>1, <3>1, <3>2, RestakedTyped
  <2>3. /\ stakeInfo' = [stakeInfo EXCEPT ![u] = new]
        /\ tierCounts' = CountDown(old.tier, new.tier)
        /\ rewardIndex' = rewardIndex /\ CanSettle(u)
    BY <1>2 DEF Unstake, rewardVars
  <2>4. TierMatchesAmount' /\ DebtCovered'  BY <1>0, <2>1, <2>3, RestakeKeeps
  <2>5. TierCountsExact'
    <3> HIDE DEF new
    <3> QED  BY <2>2, <2>3, CountDownKeeps DEF IInv
  <2>6. QED  BY <1>0, <2>4, <2>5 DEF IInv
<1>3. ASSUME NEW u \in Users, ClaimRewards(u) PROVE IInv'
  <2>1. \A w \in Users : /\ stakeInfo'[w].tier = stakeInfo[w].tier
                         /\ stakeInfo'[w].amount = stakeInfo[w].amount
                         /\ stakeInfo'[w].rewardDebt = stakeInfo[w].rewardDebt
    BY <1>3 DEF ClaimRewards, IInv, TypeOK, StakeRecords
  <2>2. TierMatchesAmount' /\ TierCountsExact'
    BY <1>3, <2>1, SameTiersKeep DEF ClaimRewards, IInv
  <2>3. DebtCovered'
    BY <1>3, <2>1 DEF ClaimRewards, IInv, DebtCovered, IndexShare
  <2>4. QED  BY <1>0, <2>2, <2>3 DEF IInv
<1>4. ASSUME NEW a \in Amounts, ReceiveFees(a) PROVE IInv'
  <2>1. TierMatchesAmount' /\ TierCountsExact'
    BY <1>4, SameTiersKeep DEF ReceiveFees, stakeVars, IInv
  <2>2. IndexRise(a) \in Nat  BY RiseNat DEF IInv
  <2>3. DebtCovered'
    <3> SUFFICES ASSUME NEW u \in Users
                 PROVE  stakeInfo[u].rewardDebt
                            <= (stakeInfo[u].amount * rewardIndex') \div PRECISION
      BY <1>4 DEF DebtCovered, IndexShare, ReceiveFees, stakeVars
    <3>1. stakeInfo[u].amount \in Nat /\ stakeInfo[u].rewardDebt \in Nat
      BY DEF IInv, TypeOK, StakeRecords
    <3>2. rewardIndex \in Nat /\ rewardIndex' \in Nat /\ rewardIndex <= rewardIndex'
      BY <1>4, <2>2 DEF ReceiveFees, IInv, TypeOK
    <3>3. IndexShare(stakeInfo[u].amount)
              <= (stakeInfo[u].amount * rewardIndex') \div PRECISION
      BY <3>1, <3>2, ShareGrows DEF IndexShare
    <3>4. IndexShare(stakeInfo[u].amount) \in Nat  BY <3>1, ShareNat DEF IInv
    <3>5. (stakeInfo[u].amount * rewardIndex') \div PRECISION \in Nat
      BY <3>1, <3>2, MulNat, DivNat, PrecisionAssumption
    <3>6. QED  BY <3>1, <3>3, <3>4, <3>5 DEF IInv, DebtCovered
  <2>4. QED  BY <1>0, <2>1, <2>3 DEF IInv
<1>5. ASSUME UNCHANGED <<stakeInfo, tierCounts, rewardIndex>> PROVE IInv'
  BY <1>0, <1>5 DEF IInv, TierMatchesAmount, TierCountsExact, DebtCovered, IndexShare
<1>6. ASSUME NEW u \in Users, WithdrawRewards(u) PROVE IInv'
  BY <1>5, <1>6 DEF WithdrawRewards, stakeVars
<1>7. ASSUME NEW a \in Amounts, EmergencyWithdrawToken(a) \/ EmergencyWithdrawEth(a)
      PROVE  IInv'
  BY <1>5, <1>7 DEF EmergencyWithdrawToken, EmergencyWithdrawEth, stakeVars, rewardVars
<1>8. CASE UNCHANGED vars
  BY <1>5, <1>8 DEF vars, stakeVars, rewardVars
<1>9. QED
  BY <1>1, <1>2, <1>3, <1>4, <1>6, <1>7, <1>8 DEF Next

(* Whatever the stakes, unstakes, claims and fees, the tier stored with a   *)
(* stake is the tier of its amount, so that getFeeReduction and             *)
(* getVotingMultiplier, which only read it, are right.                      *)
THEOREM TiersMatch == Spec => []TierMatchesAmount
<1>1. IInv => TierMatchesAmount  BY DEF IInv
<1>2. QED  BY InitInductive, NextInductive, <1>1, PTL DEF Spec

(* tierCounts is always the census of the tiers.                            *)
THEOREM CountsExact == Spec => []TierCountsExact
<1>1. IInv => TierCountsExact  BY DEF IInv
<1>2. QED  BY InitInductive, NextInductive, <1>1, PTL DEF Spec

(* No settlement ever reverts: the debt is never above the share, and the   *)
(* tier left is never counted 0, so nobody's stake is locked in.            *)
THEOREM NeverReverts == Spec => []SettlementNeverReverts
<1>1. IInv => SettlementNeverReverts
  BY CountedAboveZero DEF IInv, DebtCovered, SettlementNeverReverts, CanSettle
<1>2. QED  BY InitInductive, NextInductive, <1>1, PTL DEF Spec

-----------------------------------------------------------------------------
(* What one step does to what is owed.                                      *)
OwedOnlyByFees ==
    \A u \in Users : Pending(u)' > Pending(u) => rewardIndex' > rewardIndex

LEMMA PendingNat == ASSUME IInv, NEW u \in Users PROVE Pending(u) \in Nat /\ Accrued(u) \in Nat
<1>1. CanSettle(u)  BY DEF IInv, DebtCovered, CanSettle
<1>2. QED  BY <1>1, AccruedNat DEF IInv

(* What is owed depends on the staker's record and on the index alone.      *)
LEMMA SamePending ==
    ASSUME NEW u \in Users, stakeInfo'[u] = stakeInfo[u], rewardIndex' = rewardIndex
    PROVE  Pending(u)' = Pending(u) /\ Accrued(u)' = Accrued(u)
  BY DEF Pending, Accrued, IndexShare

(* A stake or an unstake settles: what is owed moves into pendingRewards,   *)
(* and nothing accrues on the new amount yet.                               *)
LEMMA RestakeOwesTheSame ==
    ASSUME IInv, NEW u \in Users, NEW a \in Nat, CanSettle(u),
           stakeInfo' = [stakeInfo EXCEPT ![u] = Restaked(u, a)],
           rewardIndex' = rewardIndex
    PROVE  \A w \in Users : Pending(w)' = Pending(w)
<1> SUFFICES ASSUME NEW w \in Users PROVE Pending(w)' = Pending(w)
  OBVIOUS
<1>1. CASE w # u
  BY <1>1, SamePending DEF IInv, TypeOK
<1>2. CASE w = u
  <2>1. stakeInfo'[u] = Restaked(u, a)  BY DEF IInv, TypeOK
  <2>2. IndexShare(a) \in Nat  BY ShareNat DEF IInv
  <2>3. CalculateTier(a) \in Tiers  BY TierOfAmount
  <2>4. Accrued(u)' = 0
    <3>1. CASE a = 0  BY <2>1, <3>1 DEF Accrued, Restaked
    <3>2. CASE a # 0
      <4>1. Accrued(u)' = ((IndexShare(a) - IndexShare(a))
                               * TierMultiplier[CalculateTier(a)]) \div 10000
        BY <2>1, <3>2 DEF Accrued, Restaked, DebtAfter, IndexShare
      <4>2. TierMultiplier[CalculateTier(a)] \in Nat  BY <2>3, MultiplierNat
      <4>3. IndexShare(a) - IndexShare(a) = 0  BY <2>2
      <4>4. 0 * TierMultiplier[CalculateTier(a)] = 0  BY <4>2
      <4>5. QED  BY <4>1, <4>3, <4>4
    <3>3. QED  BY <3>1, <3>2
  <2>5. Pending(u)' = Pending(u) + 0
    BY <2>1, <2>4 DEF Pending, Restaked
  <2>6. QED  BY <1>2, <2>5, PendingNat
<1>3. QED  BY <1>1, <1>2

LEMMA NextOwes == IInv /\ [Next]_vars => OwedOnlyByFees
<1> SUFFICES ASSUME IInv, [Next]_vars PROVE OwedOnlyByFees
  OBVIOUS
<1> USE AmountsAssumption
<1>0. \A u \in Users : Pending(u) \in Nat  BY PendingNat
<1>1. ASSUME NEW u \in Users, NEW a \in Amounts, Stake(u, a) PROVE OwedOnlyByFees
  <2>1. stakeInfo[u].amount + a \in Nat  BY DEF IInv, TypeOK, StakeRecords
  <2>2. \A w \in Users : Pending(w)' = Pending(w)
    BY <1>1, <2>1, RestakeOwesTheSame DEF Stake, rewardVars
  <2>3. QED  BY <1>0, <2>2 DEF OwedOnlyByFees
<1>2. ASSUME NEW u \in Users, NEW a \in Amounts, Unstake(u, a) PROVE OwedOnlyByFees
  <2>1. stakeInfo[u].amount - a \in Nat
    BY <1>2 DEF IInv, TypeOK, StakeRecords, Unstake
  <2>2. \A w \in Users : Pending(w)' = Pending(w)
    BY <1>2, <2>1, RestakeOwesTheSame DEF Unstake, rewardVars
  <2>3. QED  BY <1>0, <2>2 DEF OwedOnlyByFees
<1>3. ASSUME NEW u \in Users, ClaimRewards(u) PROVE OwedOnlyByFees
  <2>1. \A w \in Users \ {u} : Pending(w)' = Pending(w)
    <3>1. ASSUME NEW w \in Users \ {u} PROVE Pending(w)' = Pending(w)
      BY <1>3, SamePending DEF ClaimRewards, IInv, TypeOK
    <3>2. QED  BY <3>1
  <2>2. stakeInfo'[u] = [stakeInfo[u] EXCEPT !.pendingRewards = 0]
    BY <1>3 DEF ClaimRewards, IInv, TypeOK
  <2>3. stakeInfo[u] \in StakeRecords  BY DEF IInv, TypeOK
  <2>4. /\ stakeInfo'[u].pendingRewards = 0
        /\ stakeInfo'[u].amount = stakeInfo[u].amount
        /\ stakeInfo'[u].rewardDebt = stakeInfo[u].rewardDebt
        /\ stakeInfo'[u].tier = stakeInfo[u].tier
    BY <2>2, <2>3 DEF StakeRecords
  <2>5. Accrued(u)' = Accrued(u)
    BY <1>3, <2>4 DEF ClaimRewards, Accrued, IndexShare
  <2>6. Pending(u)' = 0 + Accrued(u)  BY <2>4, <2>5 DEF Pending
  <2>7. 0 + Accrued(u) <= Pending(u)
    BY <2>3, PendingNat DEF Pending, StakeRecords
  <2>8. ~(Pending(u)' > Pending(u))  BY <2>6, <2>7, PendingNat
  <2>9. QED  BY <1>0, <2>1, <2>8 DEF OwedOnlyByFees
<1>4. ASSUME NEW a \in Amounts, ReceiveFees(a) PROVE OwedOnlyByFees
  <2>1. IndexRise(a) \in Nat /\ rewardIndex \in Nat  BY RiseNat DEF IInv, TypeOK
  <2>2. rewardIndex' = rewardIndex + IndexRise(a) /\ UNCHANGED stakeInfo
    BY <1>4 DEF ReceiveFees, stakeVars
  <2>3. CASE IndexRise(a) = 0
    <3>1. \A w \in Users : Pending(w)' = Pending(w)
      BY <2>1, <2>2, <2>3, SamePending
    <3>2. QED  BY <1>0, <3>1 DEF OwedOnlyByFees
  <2>4. CASE IndexRise(a) # 0
    BY <2>1, <2>2, <2>4 DEF OwedOnlyByFees
  <2>5. QED  BY <2>3, <2>4
<1>5. ASSUME UNCHANGED <<stakeInfo, rewardIndex>> PROVE OwedOnlyByFees
  <2>1. \A w \in Users : Pending(w)' = Pending(w)  BY <1>5, SamePending
  <2>2. QED  BY <1>0, <2>1 DEF OwedOnlyByFees
<1>6. ASSUME NEW u \in Users, WithdrawRewards(u) PROVE OwedOnlyByFees
  BY <1>5, <1>6 DEF WithdrawRewards, stakeVars
<1>7. ASSUME NEW a \in Amounts, EmergencyWithdrawToken(a) \/ EmergencyWithdrawEth(a)
      PROVE  OwedOnlyByFees
  BY <1>5, <1>7 DEF EmergencyWithdrawToken, EmergencyWithdrawEth, stakeVars, rewardVars
<1>8. CASE UNCHANGED vars
  BY <1>5, <1>8 DEF vars, stakeVars, rewardVars
<1>9. QED
  BY <1>1, <1>2, <1>3, <1>4, <1>6, <1>7, <1>8 DEF Next

(* Only a fee raises what a staker is owed: staking around a fee, splitting *)
(* a stake, or claiming never does.                                         *)
THEOREM OnlyFeesOwe == Spec => OnlyFeesRaisePending
<1>1. IInv /\ [Next]_vars => [OwedOnlyByFees]_vars  BY NextOwes
<1>2. Spec => [][OwedOnlyByFees]_vars
  BY InitInductive, NextInductive, <1>1, PTL DEF Spec
<1>3. QED  BY <1>2 DEF OnlyFeesRaisePending, OwedOnlyByFees
-----------------------------------------------------------------------------
(* Solvency.  It is inductive with TypeOK alone: every operation moves both *)
(* sides of each equation alike.                                            *)
Stakes == [u \in Users |-> stakeInfo[u].amount]

LEMMA SolventParts ==
    ASSUME TypeOK
    PROVE  /\ Solvent <=> /\ totalStaked = SumFunctionOnSet(Stakes, Users)
                          /\ vault + rescued.token = totalStaked
                          /\ ethBalance + rescued.eth = protocolFeePool
                                 + SumFunctionOnSet(withdrawableRewards, Users)
                          /\ feesReceived = protocolFeePool + SumFunctionOnSet(claimed, Users)
           /\ \A u \in Users : /\ Stakes[u] \in Nat /\ Stakes[u] = stakeInfo[u].amount
                               /\ withdrawableRewards[u] \in Nat /\ claimed[u] \in Nat
           /\ rescued.token \in Nat /\ rescued.eth \in Nat
           /\ SumFunctionOnSet(Stakes, Users) \in Nat
           /\ SumFunctionOnSet(withdrawableRewards, Users) \in Nat
           /\ SumFunctionOnSet(claimed, Users) \in Nat
<1>1. DOMAIN Stakes = Users /\ DOMAIN withdrawableRewards = Users /\ DOMAIN claimed = Users
  BY DEF Stakes, TypeOK
<1>2. \A u \in Users : /\ Stakes[u] \in Nat /\ Stakes[u] = stakeInfo[u].amount
                       /\ withdrawableRewards[u] \in Nat /\ claimed[u] \in Nat
  BY DEF Stakes, TypeOK, StakeRecords
<1>3. rescued.token \in Nat /\ rescued.eth \in Nat  BY DEF TypeOK
<1>4. /\ SumFunctionOnSet(Stakes, Users) \in Nat
      /\ SumFunctionOnSet(withdrawableRewards, Users) \in Nat
      /\ SumFunctionOnSet(claimed, Users) \in Nat
  BY <1>2, UsersAssumption, SumNat
<1>5. /\ StakesBacked <=> /\ totalStaked = SumFunctionOnSet(Stakes, Users)
                          /\ vault + rescued.token = totalStaked
      /\ ClaimsBacked <=> /\ ethBalance + rescued.eth = protocolFeePool
                                 + SumFunctionOnSet(withdrawableRewards, Users)
                          /\ feesReceived = protocolFeePool + SumFunctionOnSet(claimed, Users)
  BY <1>1 DEF StakesBacked, ClaimsBacked, Stakes, SumFunction
<1>6. QED  BY <1>2, <1>3, <1>4, <1>5 DEF Solvent

(* The four equations, as one operator that can be primed.                  *)
Books ==
    /\ totalStaked = SumFunctionOnSet(Stakes, Users)
    /\ vault + rescued.token = totalStaked
    /\ ethBalance + rescued.eth
           = protocolFeePool + SumFunctionOnSet(withdrawableRewards, Users)
    /\ feesReceived = protocolFeePool + SumFunctionOnSet(claimed, Users)

LEMMA SolventBooks == TypeOK => (Solvent <=> Books)
  BY SolventParts DEF Books

LEMMA BooksInitially == Init => Books
<1> SUFFICES ASSUME Init PROVE Books
  OBVIOUS
<1>1. \A u \in Users : /\ Stakes[u] = 0
                       /\ withdrawableRewards[u] = 0 /\ claimed[u] = 0
  BY DEF Init, Stakes, NoStake
<1>2. /\ SumFunctionOnSet(Stakes, Users) = 0
      /\ SumFunctionOnSet(withdrawableRewards, Users) = 0
      /\ SumFunctionOnSet(claimed, Users) = 0
  BY <1>1, UsersAssumption, SumZero
<1>3. rescued.token = 0 /\ rescued.eth = 0  BY DEF Init
<1>4. QED  BY <1>2, <1>3 DEF Init, Books

(* One value of a function over the users changes by d.                     *)
LEMMA OneChanges ==
    ASSUME NEW f, NEW g, \A u \in Users : f[u] \in Int /\ g[u] \in Int,
           NEW a \in Users, NEW d \in Int, g[a] = f[a] + d,
           \A u \in Users \ {a} : g[u] = f[u]
    PROVE  SumFunctionOnSet(g, Users) = SumFunctionOnSet(f, Users) + d
<1>1. SumFunctionOnSet(g, Users) = SumFunctionOnSet(f, Users) + (g[a] - f[a])
  BY UsersAssumption, SumChange, Zenon
<1>2. g[a] - f[a] = d  OBVIOUS
<1>3. QED  BY <1>1, <1>2

LEMMA BooksNext == ASSUME TypeOK, TypeOK', Books, [Next]_vars PROVE Books'
<1> DEFINE owed == SumFunctionOnSet(withdrawableRewards, Users)
           paid == SumFunctionOnSet(claimed, Users)
           held == SumFunctionOnSet(Stakes, Users)
<1>1. /\ totalStaked = held /\ vault + rescued.token = totalStaked
      /\ ethBalance + rescued.eth = protocolFeePool + owed
      /\ feesReceived = protocolFeePool + paid
  BY DEF Books
<1>2. /\ \A u \in Users : /\ Stakes[u] \in Nat /\ Stakes[u] = stakeInfo[u].amount
                          /\ withdrawableRewards[u] \in Nat /\ claimed[u] \in Nat
      /\ rescued.token \in Nat /\ rescued.eth \in Nat
      /\ held \in Nat /\ owed \in Nat /\ paid \in Nat
  BY SolventParts
<1>3. \A u \in Users : /\ Stakes'[u] \in Nat /\ Stakes'[u] = stakeInfo'[u].amount
                       /\ withdrawableRewards'[u] \in Nat /\ claimed'[u] \in Nat
  BY DEF TypeOK, Stakes, StakeRecords
<1>4. /\ vault \in Nat /\ totalStaked \in Nat /\ ethBalance \in Nat
      /\ protocolFeePool \in Nat /\ feesReceived \in Nat
  BY DEF TypeOK
<1>5. UNCHANGED stakeInfo => held' = held  BY DEF Stakes
<1>6. (UNCHANGED withdrawableRewards => owed' = owed) /\ (UNCHANGED claimed => paid' = paid)
  OBVIOUS
<1>7. ASSUME NEW u \in Users, NEW a \in Amounts, Stake(u, a) \/ Unstake(u, a)
      PROVE  Books'
  <2> DEFINE d == totalStaked' - totalStaked
  <2>1. /\ d \in Int /\ vault' = vault + d /\ totalStaked' = totalStaked + d
        /\ stakeInfo'[u].amount = stakeInfo[u].amount + d
        /\ \A x \in Users \ {u} : stakeInfo'[x] = stakeInfo[x]
    <3>1. a \in Nat /\ stakeInfo[u].amount \in Nat
      BY AmountsAssumption DEF TypeOK, StakeRecords
    <3>2. CASE Stake(u, a)
      <4>1. /\ vault' = vault + a /\ totalStaked' = totalStaked + a
            /\ stakeInfo' = [stakeInfo EXCEPT ![u] = Restaked(u, stakeInfo[u].amount + a)]
        BY <3>2 DEF Stake
      <4>2. Restaked(u, stakeInfo[u].amount + a).amount = stakeInfo[u].amount + a
        BY DEF Restaked
      <4>3. d = a  BY <1>4, <3>1, <4>1
      <4>4. QED  BY <3>1, <4>1, <4>2, <4>3 DEF TypeOK
    <3>3. CASE Unstake(u, a)
      <4>1. /\ vault' = vault - a /\ totalStaked' = totalStaked - a
            /\ stakeInfo' = [stakeInfo EXCEPT ![u] = Restaked(u, stakeInfo[u].amount - a)]
        BY <3>3 DEF Unstake, TotalAfter
      <4>2. Restaked(u, stakeInfo[u].amount - a).amount = stakeInfo[u].amount - a
        BY DEF Restaked
      <4>3. d = -a  BY <1>4, <3>1, <4>1
      <4>4. /\ stakeInfo'[u].amount = stakeInfo[u].amount - a
            /\ \A x \in Users \ {u} : stakeInfo'[x] = stakeInfo[x]
        BY <4>1, <4>2 DEF TypeOK
      <4>5. QED  BY <1>4, <3>1, <4>1, <4>3, <4>4
    <3>4. QED  BY <1>7, <3>2, <3>3
  <2> HIDE DEF d
  <2>2. held' = held + d
    <3>1. /\ \A x \in Users : Stakes[x] \in Int /\ Stakes'[x] \in Int
          /\ \A x \in Users \ {u} : Stakes'[x] = Stakes[x]
          /\ Stakes'[u] = Stakes[u] + d
      BY <1>2, <1>3, <2>1
    <3>2. QED  BY <2>1, <3>1, OneChanges, Zenon
  <2>3. UNCHANGED <<rescued, ethBalance, protocolFeePool, feesReceived,
                    withdrawableRewards, claimed>>
    BY <1>7 DEF Stake, Unstake, rewardVars, history
  <2> HIDE DEF held, owed, paid
  <2>4. totalStaked' = held'  BY <1>1, <2>1, <2>2
  <2>5. vault' + rescued'.token = totalStaked'  BY <1>1, <1>2, <1>4, <2>1, <2>3
  <2>6. owed' = owed /\ paid' = paid  BY <1>6, <2>3
  <2>7. QED  BY <1>1, <2>3, <2>4, <2>5, <2>6 DEF Books, held, owed, paid
<1>8. ASSUME NEW u \in Users, ClaimRewards(u) PROVE Books'
  <2> DEFINE p == Pending(u)
  <2>1. p \in Nat  BY <1>8, AccruedNat DEF ClaimRewards
  <2>2. /\ withdrawableRewards' = [withdrawableRewards EXCEPT ![u] = @ + p]
        /\ claimed' = [claimed EXCEPT ![u] = @ + p]
        /\ stakeInfo' = [stakeInfo EXCEPT ![u].pendingRewards = 0]
        /\ protocolFeePool' = protocolFeePool - p
        /\ UNCHANGED <<totalStaked, vault, rescued, ethBalance, feesReceived>>
    BY <1>8 DEF ClaimRewards, tokenVars
  <2> HIDE DEF p
  <2>3. held' = held
    <3>1. \A x \in Users : Stakes[x] \in Int /\ Stakes'[x] = Stakes[x]
      BY <1>2, <1>3, <2>2 DEF TypeOK
    <3>2. QED  BY <3>1, UsersAssumption, SumSame
  <2>4. owed' = owed + p
    <3>1. /\ \A x \in Users : withdrawableRewards[x] \in Int /\ withdrawableRewards'[x] \in Int
          /\ \A x \in Users \ {u} : withdrawableRewards'[x] = withdrawableRewards[x]
          /\ withdrawableRewards'[u] = withdrawableRewards[u] + p /\ p \in Int
      BY <1>2, <1>3, <2>1, <2>2 DEF TypeOK
    <3>2. QED  BY <3>1, OneChanges, Zenon
  <2>5. paid' = paid + p
    <3>1. /\ \A x \in Users : claimed[x] \in Int /\ claimed'[x] \in Int
          /\ \A x \in Users \ {u} : claimed'[x] = claimed[x]
          /\ claimed'[u] = claimed[u] + p /\ p \in Int
      BY <1>2, <1>3, <2>1, <2>2 DEF TypeOK
    <3>2. QED  BY <3>1, OneChanges, Zenon
  <2> HIDE DEF held, owed, paid
  <2>6. /\ ethBalance' + rescued'.eth = protocolFeePool' + owed'
        /\ feesReceived' = protocolFeePool' + paid'
    BY <1>1, <1>2, <1>4, <2>1, <2>2, <2>4, <2>5
  <2>7. QED  BY <1>1, <2>2, <2>3, <2>6 DEF Books, held, owed, paid
<1>9. ASSUME NEW u \in Users, WithdrawRewards(u) PROVE Books'
  <2> DEFINE w == withdrawableRewards[u]
  <2>1. /\ w \in Nat /\ ethBalance' = ethBalance - w
        /\ withdrawableRewards' = [withdrawableRewards EXCEPT ![u] = 0]
        /\ UNCHANGED <<stakeInfo, totalStaked, vault, rescued, protocolFeePool,
                       feesReceived, claimed>>
    BY <1>2, <1>9 DEF WithdrawRewards, Zeroed, stakeVars, tokenVars, history
  <2>2. owed' = owed - w
    <3>1. /\ \A x \in Users : withdrawableRewards[x] \in Int /\ withdrawableRewards'[x] \in Int
          /\ \A x \in Users \ {u} : withdrawableRewards'[x] = withdrawableRewards[x]
          /\ withdrawableRewards'[u] = withdrawableRewards[u] + (-w) /\ -w \in Int
      BY <1>2, <1>3, <2>1 DEF TypeOK
    <3>2. owed' = owed + (-w)  BY <3>1, OneChanges, Zenon
    <3>3. QED  BY <1>2, <2>1, <3>2
  <2> HIDE DEF held, owed, paid, w
  <2>3. ethBalance' + rescued'.eth = protocolFeePool' + owed'
    BY <1>1, <1>2, <1>4, <2>1, <2>2
  <2>4. held' = held /\ paid' = paid  BY <1>5, <1>6, <2>1
  <2>5. QED  BY <1>1, <2>1, <2>3, <2>4 DEF Books, held, owed, paid
<1>10. ASSUME NEW a \in Amounts, ReceiveFees(a) PROVE Books'
  <2>1. /\ a \in Nat /\ protocolFeePool' = protocolFeePool + a
        /\ ethBalance' = ethBalance + a /\ feesReceived' = feesReceived + a
        /\ UNCHANGED <<stakeInfo, totalStaked, withdrawableRewards, vault, claimed, rescued>>
    BY <1>10, AmountsAssumption DEF ReceiveFees, stakeVars, tokenVars
  <2>2. held' = held /\ owed' = owed /\ paid' = paid  BY <1>5, <1>6, <2>1
  <2> HIDE DEF held, owed, paid
  <2>3. /\ ethBalance' + rescued'.eth = protocolFeePool' + owed'
        /\ feesReceived' = protocolFeePool' + paid'
    BY <1>1, <1>2, <1>4, <2>1, <2>2
  <2>4. QED  BY <1>1, <2>1, <2>2, <2>3 DEF Books, held, owed, paid
<1>11. ASSUME NEW a \in Amounts, EmergencyWithdrawToken(a) PROVE Books'
  <2>1. /\ a \in Nat /\ vault' = vault - a
        /\ rescued' = [rescued EXCEPT !.token = @ + a]
        /\ UNCHANGED <<stakeInfo, totalStaked, withdrawableRewards, ethBalance,
                       protocolFeePool, claimed, feesReceived>>
    BY <1>11, AmountsAssumption DEF EmergencyWithdrawToken, stakeVars, rewardVars
  <2>2. held' = held /\ owed' = owed /\ paid' = paid  BY <1>5, <1>6, <2>1
  <2>3. rescued'.token = rescued.token + a /\ rescued'.eth = rescued.eth
    BY <2>1 DEF TypeOK
  <2> HIDE DEF held, owed, paid
  <2>4. vault' + rescued'.token = totalStaked'  BY <1>1, <1>2, <1>4, <2>1, <2>3
  <2>5. QED  BY <1>1, <2>1, <2>2, <2>3, <2>4 DEF Books, held, owed, paid
<1>12. ASSUME NEW a \in Amounts, EmergencyWithdrawEth(a) PROVE Books'
  <2>1. /\ a \in Nat /\ ethBalance' = ethBalance - a
        /\ rescued' = [rescued EXCEPT !.eth = @ + a]
        /\ UNCHANGED <<stakeInfo, totalStaked, withdrawableRewards, vault,
                       protocolFeePool, claimed, feesReceived>>
    BY <1>12, AmountsAssumption DEF EmergencyWithdrawEth, stakeVars, tokenVars
  <2>2. held' = held /\ owed' = owed /\ paid' = paid  BY <1>5, <1>6, <2>1
  <2>3. rescued'.token = rescued.token /\ rescued'.eth = rescued.eth + a
    BY <2>1 DEF TypeOK
  <2> HIDE DEF held, owed, paid
  <2>4. ethBalance' + rescued'.eth = protocolFeePool' + owed'
    BY <1>1, <1>2, <1>4, <2>1, <2>2, <2>3
  <2>5. QED  BY <1>1, <2>1, <2>2, <2>3, <2>4 DEF Books, held, owed, paid
<1>13. CASE UNCHANGED vars
  <2>1. UNCHANGED <<stakeInfo, totalStaked, withdrawableRewards, vault, ethBalance,
                    protocolFeePool, claimed, feesReceived, rescued>>
    BY <1>13 DEF vars, stakeVars, rewardVars, tokenVars, history
  <2>2. held' = held /\ owed' = owed /\ paid' = paid  BY <1>5, <1>6, <2>1
  <2> HIDE DEF held, owed, paid
  <2>3. QED  BY <1>1, <2>1, <2>2 DEF Books, held, owed, paid
<1>14. QED
  BY <1>7, <1>8, <1>9, <1>10, <1>11, <1>12, <1>13 DEF Next

(* Whatever was staked, claimed or rescued, in any order, the contract can  *)
(* pay back every stake and every accepted claim, less what the owner took  *)
(* with emergencyWithdraw.                                                  *)
THEOREM AlwaysSolvent == Spec => []Solvent
<1>1. TypeOK /\ TypeOK' /\ Books /\ [Next]_vars => Books'  BY BooksNext
<1>2. Spec => []Books  BY <1>1, BooksInitially, TypeCorrect, PTL DEF Spec
<1>3. TypeOK /\ Books => Solvent  BY SolventBooks
<1>4. QED  BY <1>2, <1>3, TypeCorrect, PTL
=============================================================================
