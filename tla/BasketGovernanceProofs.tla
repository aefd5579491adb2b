----------------------- MODULE BasketGovernanceProofs -----------------------
(***************************************************************************)
(* What TLAPS proves of BasketGovernance, composed with BasketStaking, for  *)
(* every finite set of holders, every period, threshold and bound: tallies  *)
(* are sums of one vote per voter, ballots close and decisions stand, what  *)
(* was executed had a majority and waited for its delay.                    *)
(***************************************************************************)
EXTENDS BasketGovernance, SumTheorems, TLAPS

(* BasketStaking's own theorems, at the constants and variables it is       *)
(* composed with here.                                                      *)
SP == INSTANCE BasketStakingProofs

-----------------------------------------------------------------------------
(* The staking contract: its steps keep its variables typed.                *)
(* The two instances of BasketStaking are the same specification.           *)
LEMMA SameStaking ==
    /\ Staking!TypeOK <=> SP!TypeOK
    /\ Staking!TypeOK' <=> SP!TypeOK'
    /\ Staking!Next <=> SP!Next
<1>1. Staking!TypeOK <=> SP!TypeOK
  BY DEF Staking!TypeOK, SP!TypeOK, Staking!StakeRecords, SP!StakeRecords,
         Staking!Tiers, SP!Tiers
<1>2. Staking!TypeOK' <=> SP!TypeOK'
  BY DEF Staking!TypeOK, SP!TypeOK, Staking!StakeRecords, SP!StakeRecords,
         Staking!Tiers, SP!Tiers
<1>3. ASSUME NEW u, NEW a PROVE Staking!Stake(u, a) <=> SP!Stake(u, a)
  BY DEF Staking!Stake, SP!Stake, Staking!CanSettle, SP!CanSettle,
         Staking!IndexShare, SP!IndexShare, Staking!Restaked,
         SP!Restaked, Staking!DebtAfter, SP!DebtAfter,
         Staking!Pending, SP!Pending, Staking!Accrued, SP!Accrued,
         Staking!TierMultiplier, SP!TierMultiplier, Staking!Tiers,
         SP!Tiers, Staking!CalculateTier, SP!CalculateTier,
         Staking!CanLeaveUp, SP!CanLeaveUp, Staking!CountUp,
         SP!CountUp, Staking!rewardVars, SP!rewardVars,
         Staking!history, SP!history
<1>4. ASSUME NEW u, NEW a PROVE Staking!Unstake(u, a) <=> SP!Unstake(u, a)
  BY DEF Staking!Unstake, SP!Unstake, Staking!CanSettle, SP!CanSettle,
         Staking!IndexShare, SP!IndexShare, Staking!Restaked,
         SP!Restaked, Staking!DebtAfter, SP!DebtAfter,
         Staking!Pending, SP!Pending, Staking!Accrued, SP!Accrued,
         Staking!TierMultiplier, SP!TierMultiplier, Staking!Tiers,
         SP!Tiers, Staking!CalculateTier, SP!CalculateTier,
         Staking!CanLeaveDown, SP!CanLeaveDown, Staking!CountDown,
         SP!CountDown, Staking!TotalAfter, SP!TotalAfter,
         Staking!rewardVars, SP!rewardVars, Staking!history,
         SP!history
<1>5. ASSUME NEW u PROVE Staking!ClaimRewards(u) <=> SP!ClaimRewards(u)
  BY DEF Staking!ClaimRewards, SP!ClaimRewards, Staking!CanSettle,
         SP!CanSettle, Staking!Pending, SP!Pending, Staking!Accrued,
         SP!Accrued, Staking!IndexShare, SP!IndexShare,
         Staking!TierMultiplier, SP!TierMultiplier, Staking!Tiers,
         SP!Tiers, Staking!tokenVars, SP!tokenVars
<1>6. ASSUME NEW u PROVE Staking!WithdrawRewards(u) <=> SP!WithdrawRewards(u)
  BY DEF Staking!WithdrawRewards, SP!WithdrawRewards, Staking!Zeroed,
         SP!Zeroed, Staking!stakeVars, SP!stakeVars,
         Staking!tokenVars, SP!tokenVars, Staking!history, SP!history
<1>7. ASSUME NEW a PROVE Staking!ReceiveFees(a) <=> SP!ReceiveFees(a)
  BY DEF Staking!ReceiveFees, SP!ReceiveFees, Staking!IndexRise, SP!IndexRise,
         Staking!TierMultiplier, SP!TierMultiplier, Staking!Tiers,
         SP!Tiers, Staking!stakeVars, SP!stakeVars, Staking!tokenVars,
         SP!tokenVars
<1>8. ASSUME NEW a PROVE Staking!EmergencyWithdrawToken(a) <=> SP!EmergencyWithdrawToken(a)
  BY DEF Staking!EmergencyWithdrawToken, SP!EmergencyWithdrawToken,
         Staking!stakeVars, SP!stakeVars, Staking!rewardVars,
         SP!rewardVars
<1>9. ASSUME NEW a PROVE Staking!EmergencyWithdrawEth(a) <=> SP!EmergencyWithdrawEth(a)
  BY DEF Staking!EmergencyWithdrawEth, SP!EmergencyWithdrawEth,
         Staking!stakeVars, SP!stakeVars, Staking!tokenVars,
         SP!tokenVars
<1>10. Staking!Next <=> SP!Next
  BY <1>3, <1>4, <1>5, <1>6, <1>7, <1>8, <1>9 DEF Staking!Next, SP!Next
<1>11. QED  BY <1>1, <1>2, <1>10

LEMMA StakingStepTyped == Staking!TypeOK /\ Staking!Next => Staking!TypeOK'
<1>1. SP!TypeOK /\ SP!Next => SP!TypeOK'
  <2>1. SP!UsersAssumption  BY StakersAssumption DEF IsFiniteSet, SP!IsFiniteSet
  <2>2. SP!AmountsAssumption /\ SP!WalletAssumption  BY StakersAssumption
  <2>3. SP!ThresholdAssumption /\ SP!PrecisionAssumption /\ SP!BoundsAssumption
    BY StakingAssumption
  <2>4. QED  BY <2>1, <2>2, <2>3, SP!NextTyped
<1>2. QED  BY <1>1, SameStaking

(* ... as do steps that only give some account another balance, and those   *)
(* that touch nothing of it.                                                *)
LEMMA BalanceStepTyped ==
    ASSUME Staking!TypeOK, wallet' \in [Users -> Nat], UNCHANGED restOfStaking
    PROVE  Staking!TypeOK'
  BY DEF Staking!TypeOK, restOfStaking, Staking!StakeRecords

LEMMA UntouchedTyped ==
    ASSUME Staking!TypeOK, UNCHANGED <<wallet, restOfStaking>>
    PROVE  Staking!TypeOK'
  BY DEF Staking!TypeOK, restOfStaking, Staking!StakeRecords

-----------------------------------------------------------------------------
(* Type correctness of the composition.                                     *)

LEMMA ProductNat == ASSUME NEW x \in Nat, NEW y \in Nat PROVE x * y \in Nat
  OBVIOUS

LEMMA QuotientNat == ASSUME NEW x \in Nat, NEW d \in Nat \ {0} PROVE x \div d \in Nat
  OBVIOUS

(* Voting power is unsigned, with or without the staking contract.          *)
LEMMA PowerNat ==
    ASSUME TypeOK, NEW u \in Users
    PROVE  GetVotingPower(u) \in Nat
<1> DEFINE base == wallet[u] + delegatedVotes[u]
<1>1. wallet \in [Users -> Nat] /\ stakeInfo[u].tier \in 0..4
  BY DEF TypeOK, Staking!TypeOK, Staking!StakeRecords, Staking!Tiers
<1>2. base \in Nat  BY <1>1 DEF TypeOK
<1>3. GetVotingMultiplier(u) \in Nat
  BY <1>1 DEF GetVotingMultiplier, Staking!TierMultiplier, Staking!Tiers
<1>4. (base * GetVotingMultiplier(u)) \div 10000 \in Nat
  <2> HIDE DEF base
  <2> QED  BY <1>2, <1>3, ProductNat, QuotientNat
<1>5. QED  BY <1>2, <1>4 DEF GetVotingPower

(* The part of TypeOK that is the governance contract's own.                *)
GovTyped ==
    /\ totalSupply \in Nat
    /\ now \in Nat \ {0}
    /\ proposals \in [Ids -> ProposalRecords]
    /\ proposalCount \in 0..MaxProposals
    /\ proposalThreshold \in Nat
    /\ quorumPercentage \in 1..100
    /\ majorityPercentage \in 51..100
    /\ stakingSet \in BOOLEAN
    /\ delegates \in [Users -> SUBSET Users]
    /\ delegatedVotes \in [Users -> Nat]
    /\ weights \in [Ids -> [Users -> Nat]]
    /\ canceled \subseteq Ids

LEMMA TypeOKParts == /\ TypeOK <=> Staking!TypeOK /\ GovTyped
                     /\ TypeOK' <=> Staking!TypeOK' /\ GovTyped'
  BY DEF TypeOK, GovTyped

LEMMA GovInitTyped == Init => TypeOK
<1> SUFFICES ASSUME Init PROVE TypeOK
  OBVIOUS
<1>1. Staking!TypeOK
  BY StakersAssumption
     DEF Init, Staking!Init, Staking!TypeOK, Staking!NoStake, Staking!StakeRecords,
         Staking!Tiers
<1>2. NoProposal \in ProposalRecords  BY DEF NoProposal, ProposalRecords
<1>3. GovTyped
  BY <1>2, ChoicesAssumption, GovBoundsAssumption DEF Init, GovTyped
<1>4. QED  BY <1>1, <1>3, TypeOKParts

LEMMA GovNextTyped == TypeOK /\ [Next]_vars => TypeOK'
<1> SUFFICES ASSUME TypeOK, [Next]_vars PROVE TypeOK'
  OBVIOUS
<1> USE TypeOKParts, GovBoundsAssumption
<1>1. ASSUME NEW u \in Users, Propose(u) PROVE TypeOK'
  <2> DEFINE new == [NoProposal EXCEPT !.proposer  = {u},
                                       !.startTime = now,
                                       !.endTime   = now + VOTING_PERIOD]
  <2>1. NoProposal \in ProposalRecords  BY DEF NoProposal, ProposalRecords
  <2>2. now + VOTING_PERIOD \in Nat /\ now \in Nat
    BY PeriodsAssumption DEF GovTyped
  <2>3. new \in ProposalRecords  BY <2>1, <2>2 DEF ProposalRecords
  <2>4. proposals' \in [Ids -> ProposalRecords]
    <3> HIDE DEF new
    <3>1. proposals' = [proposals EXCEPT ![proposalCount + 1] = new]
      BY <1>1 DEF Propose, new
    <3>2. QED  BY <2>3, <3>1 DEF GovTyped
  <2>5. proposalCount' \in 0..MaxProposals  BY <1>1 DEF Propose, GovTyped
  <2>6. GovTyped'
    BY <1>1, <2>4, <2>5 DEF Propose, GovTyped, tokenVars, parameters, delegationVars
  <2>7. Staking!TypeOK'  BY <1>1, UntouchedTyped DEF Propose, tokenVars
  <2>8. QED  BY <2>6, <2>7
<1>2. ASSUME NEW u \in Users, NEW id \in Ids, NEW support \in 0..2,
             CastVote(u, id, support)
      PROVE  TypeOK'
  <2> DEFINE w == GetVotingPower(u)
             old == proposals[id]
             votes   == [old.votes EXCEPT ![u] = support]
             against == IF support = 0 THEN old.against + w ELSE old.against
             for     == IF support = 1 THEN old.for + w ELSE old.for
             abstain == IF support = 2 THEN old.abstain + w ELSE old.abstain
             new == [old EXCEPT !.voted   = VotedAfter(id, u),
                                !.votes   = votes,
                                !.against = against,
                                !.for     = for,
                                !.abstain = abstain]
  <2>1. w \in Nat  BY PowerNat
  <2>2. old \in ProposalRecords  BY DEF GovTyped
  <2>3. VotedAfter(id, u) \in SUBSET Users
    BY <2>2 DEF VotedAfter, ProposalRecords
  <2>4. votes \in [Users -> 0..2]
    BY <2>2 DEF ProposalRecords
  <2>5. new \in ProposalRecords
    <3>1. against \in Nat /\ for \in Nat /\ abstain \in Nat
      <4> HIDE DEF w
      <4>1. old.against \in Nat /\ old.for \in Nat /\ old.abstain \in Nat
        BY <2>2 DEF ProposalRecords
      <4>2. QED  BY <2>1, <4>1
    <3> HIDE DEF old, votes, against, for, abstain
    <3>2. QED  BY <2>2, <2>3, <2>4, <3>1 DEF ProposalRecords
  <2>6. proposals' = [proposals EXCEPT ![id] = new]
    BY <1>2 DEF CastVote
  <2>7. proposals' \in [Ids -> ProposalRecords]
    <3> HIDE DEF new
    <3> QED  BY <2>5, <2>6 DEF GovTyped
  <2>8. weights' \in [Ids -> [Users -> Nat]]
    <3> HIDE DEF w
    <3>1. weights' = [weights EXCEPT ![id][u] = w]  BY <1>2 DEF CastVote, w
    <3>2. QED  BY <2>1, <3>1 DEF GovTyped
  <2>9. GovTyped'
    BY <1>2, <2>7, <2>8 DEF CastVote, GovTyped, tokenVars, parameters, delegationVars
  <2>10. Staking!TypeOK'  BY <1>2, UntouchedTyped DEF CastVote, tokenVars
  <2>11. QED  BY <2>9, <2>10
<1>3. ASSUME NEW u \in Users, NEW d \in {{}} \cup {{v} : v \in Users}, Delegate(u, d)
      PROVE  TypeOK'
  <2>1. d \in SUBSET Users  OBVIOUS
  <2>2. wallet \in [Users -> Nat]  BY DEF Staking!TypeOK
  <2>3. delegates' \in [Users -> SUBSET Users]
    BY <1>3, <2>1 DEF Delegate, GovTyped
  <2>4. delegatedVotes' \in [Users -> Nat]
    <3>1. ASSUME NEW v \in Users
          PROVE  delegatedVotes[v] - (IF v \in delegates[u] THEN wallet[u] ELSE 0)
                     + (IF v \in d THEN wallet[u] ELSE 0) \in Nat
      <4>1. delegatedVotes[v] \in Nat /\ wallet[u] \in Nat  BY <2>2 DEF GovTyped
      <4>2. v \in delegates[u] => delegatedVotes[v] >= wallet[u]
        BY <1>3 DEF Delegate, CanTakeBack
      <4>3. CASE v \in d
        <5>1. CASE v \in delegates[u]  BY <4>1, <4>2, <4>3, <5>1
        <5>2. CASE v \notin delegates[u]  BY <4>1, <4>3, <5>2
        <5>3. QED  BY <5>1, <5>2
      <4>4. CASE v \notin d
        <5>1. CASE v \in delegates[u]  BY <4>1, <4>2, <4>4, <5>1
        <5>2. CASE v \notin delegates[u]  BY <4>1, <4>4, <5>2
        <5>3. QED  BY <5>1, <5>2
      <4>5. QED  BY <4>3, <4>4
    <3>2. QED  BY <1>3, <3>1 DEF Delegate
  <2>5. GovTyped'
    BY <1>3, <2>3, <2>4 DEF Delegate, GovTyped, tokenVars, parameters, proposalVars
  <2>6. Staking!TypeOK'  BY <1>3, UntouchedTyped DEF Delegate, tokenVars
  <2>7. QED  BY <2>5, <2>6
<1>4. ASSUME NEW u \in Users, NEW v \in Users, NEW a \in Amounts, Transfer(u, v, a)
      PROVE  TypeOK'
  <2>1. wallet' \in [Users -> Nat]
    BY <1>4, StakersAssumption DEF Transfer, Staking!TypeOK
  <2>2. GovTyped'
    BY <1>4 DEF Transfer, GovTyped, govVars, parameters, delegationVars, proposalVars
  <2>3. QED  BY <1>4, <2>1, <2>2, BalanceStepTyped DEF Transfer
<1>5. ASSUME NEW u \in Users, NEW a \in SupplyAmounts, Mint(u, a) \/ Burn(u, a)
      PROVE  TypeOK'
  <2>1. wallet' \in [Users -> Nat] /\ totalSupply' \in Nat
    <3>1. a \in Nat /\ wallet \in [Users -> Nat] /\ totalSupply \in Nat
      BY ChoicesAssumption DEF Staking!TypeOK, GovTyped
    <3>2. CASE Mint(u, a)  BY <3>1, <3>2 DEF Mint
    <3>3. CASE Burn(u, a)
      <4>1. wallet[u] - a \in Nat /\ totalSupply - a \in Nat
        BY <3>1, <3>3 DEF Burn
      <4>2. QED  BY <3>1, <3>3, <4>1 DEF Burn
    <3>4. QED  BY <1>5, <3>2, <3>3
  <2>2. GovTyped'
    BY <1>5, <2>1
       DEF Mint, Burn, GovTyped, govVars, parameters, delegationVars, proposalVars
  <2>3. QED  BY <1>5, <2>1, <2>2, BalanceStepTyped DEF Mint, Burn
<1>6. ASSUME NEW id \in Ids, Queue(id) PROVE TypeOK'
  <2>1. EarliestAt \in Nat  BY PeriodsAssumption DEF EarliestAt, GovTyped
  <2>2. proposals' \in [Ids -> ProposalRecords]
    <3>0. proposals[id] \in ProposalRecords  BY DEF GovTyped
    <3>1. [proposals[id] EXCEPT !.executionTime = EarliestAt] \in ProposalRecords
      BY <2>1, <3>0 DEF ProposalRecords
    <3>2. QED  BY <1>6, <3>1 DEF Queue, GovTyped
  <2>3. GovTyped'
    BY <1>6, <2>2 DEF Queue, GovTyped, tokenVars, parameters, delegationVars
  <2>4. Staking!TypeOK'  BY <1>6, UntouchedTyped DEF Queue, tokenVars
  <2>5. QED  BY <2>3, <2>4
<1>7. ASSUME NEW id \in Ids, Execute(id) PROVE TypeOK'
  <2>1. proposals' \in [Ids -> ProposalRecords]
    <3>0. proposals[id] \in ProposalRecords  BY DEF GovTyped
    <3>1. [proposals[id] EXCEPT !.executed = TRUE] \in ProposalRecords
      BY <3>0 DEF ProposalRecords
    <3>2. QED  BY <1>7, <3>1 DEF Execute, GovTyped
  <2>2. GovTyped'
    BY <1>7, <2>1 DEF Execute, GovTyped, tokenVars, parameters, delegationVars
  <2>3. Staking!TypeOK'  BY <1>7, UntouchedTyped DEF Execute, tokenVars
  <2>4. QED  BY <2>2, <2>3
<1>8. ASSUME NEW id \in Ids, NEW u \in Users \cup {Owner}, Cancel(u, id) PROVE TypeOK'
  <2>1. EndsAtOnce \in Nat  BY DEF EndsAtOnce, GovTyped
  <2>2. proposals' \in [Ids -> ProposalRecords]
    <3>0. proposals[id] \in ProposalRecords  BY DEF GovTyped
    <3>1. [proposals[id] EXCEPT !.endTime = EndsAtOnce] \in ProposalRecords
      BY <2>1, <3>0 DEF ProposalRecords
    <3>2. QED  BY <1>8, <3>1 DEF Cancel, GovTyped
  <2>3. GovTyped'
    BY <1>8, <2>2 DEF Cancel, GovTyped, tokenVars, parameters, delegationVars
  <2>4. Staking!TypeOK'  BY <1>8, UntouchedTyped DEF Cancel, tokenVars
  <2>5. QED  BY <2>3, <2>4
<1>9. ASSUME NEW t \in Thresholds, SetProposalThreshold(t) PROVE TypeOK'
  <2>1. GovTyped'
    BY <1>9, ChoicesAssumption
       DEF SetProposalThreshold, GovTyped, tokenVars, delegationVars, proposalVars
  <2>2. QED  BY <1>9, <2>1, UntouchedTyped DEF SetProposalThreshold, tokenVars
<1>10. ASSUME NEW q \in Percentages, SetQuorumPercentage(q) \/ SetMajorityPercentage(q)
       PROVE  TypeOK'
  <2>1. q \in Nat  BY ChoicesAssumption
  <2>2. quorumPercentage' \in 1..100 /\ majorityPercentage' \in 51..100
    <3>1. CASE SetQuorumPercentage(q)
      BY <2>1, <3>1 DEF SetQuorumPercentage, GovTyped
    <3>2. CASE SetMajorityPercentage(q)
      BY <2>1, <3>2 DEF SetMajorityPercentage, MajorityRange, GovTyped
    <3>3. QED  BY <1>10, <3>1, <3>2
  <2>3. GovTyped'
    BY <1>10, <2>2
       DEF SetQuorumPercentage, SetMajorityPercentage, GovTyped, tokenVars,
           delegationVars, proposalVars
  <2>4. QED
    BY <1>10, <2>3, UntouchedTyped
       DEF SetQuorumPercentage, SetMajorityPercentage, tokenVars
<1>11. ASSUME NEW isSet \in StakingChoices, SetBasketStaking(isSet) PROVE TypeOK'
  <2>1. GovTyped'
    BY <1>11, ChoicesAssumption
       DEF SetBasketStaking, GovTyped, tokenVars, delegationVars, proposalVars
  <2>2. QED  BY <1>11, <2>1, UntouchedTyped DEF SetBasketStaking, tokenVars
<1>12. CASE StakingStep
  <2>1. GovTyped'
    BY <1>12 DEF StakingStep, GovTyped, govVars, parameters, delegationVars, proposalVars
  <2>2. QED  BY <1>12, <2>1, StakingStepTyped DEF StakingStep
<1>13. CASE Tick
  <2>1. GovTyped'
    BY <1>13 DEF Tick, GovTyped, tokenVars, parameters, delegationVars, proposalVars
  <2>2. QED  BY <1>13, <2>1, UntouchedTyped DEF Tick, tokenVars
<1>14. CASE UNCHANGED vars
  <2>1. GovTyped'
    BY <1>14
       DEF vars, GovTyped, tokenVars, govVars, parameters, delegationVars, proposalVars
  <2>2. QED  BY <1>14, <2>1, UntouchedTyped DEF vars, tokenVars
<1>15. QED
  BY <1>1, <1>2, <1>3, <1>4, <1>5, <1>6, <1>7, <1>8, <1>9, <1>10, <1>11, <1>12,
     <1>13, <1>14
     DEF Next

(* Every variable of the two contracts and the token stays unsigned and in  *)
(* its range, in any interleaving of votes, transfers and stakes; delegate  *)
(* is where a checked subtraction makes it so.                              *)
THEOREM GovTypeCorrect == Spec => []TypeOK
  BY GovInitTyped, GovNextTyped, PTL DEF Spec

-----------------------------------------------------------------------------
(* What the steps do to the proposals.                                      *)

(* Five operations write to the proposals; the other steps leave them, and  *)
(* the clock alone among those moves, forwards.                             *)
LEMMA ProposalSteps ==
    ASSUME TypeOK, [Next]_vars
    PROVE  \/ UNCHANGED <<proposals, proposalCount, canceled>> /\ now' \in {now, now + 1}
           \/ \E u \in Users : Propose(u)
           \/ \E u \in Users, id \in Ids, support \in 0..2 : CastVote(u, id, support)
           \/ \E id \in Ids : Queue(id)
           \/ \E id \in Ids : Execute(id)
           \/ \E id \in Ids, u \in Users \cup {Owner} : Cancel(u, id)
<1> DEFINE Quiet == UNCHANGED <<proposals, proposalCount, canceled>>
                        /\ now' \in {now, now + 1}
<1>1. ASSUME NEW u \in Users, NEW d, Delegate(u, d) PROVE Quiet
  BY <1>1 DEF Delegate, proposalVars
<1>2. ASSUME NEW u \in Users, NEW v, NEW a, Transfer(u, v, a) PROVE Quiet
  BY <1>2 DEF Transfer, govVars, proposalVars
<1>3. ASSUME NEW u \in Users, NEW a, Mint(u, a) \/ Burn(u, a) PROVE Quiet
  BY <1>3 DEF Mint, Burn, govVars, proposalVars
<1>4. ASSUME NEW t, SetProposalThreshold(t) PROVE Quiet
  BY <1>4 DEF SetProposalThreshold, proposalVars
<1>5. ASSUME NEW q, SetQuorumPercentage(q) \/ SetMajorityPercentage(q) PROVE Quiet
  BY <1>5 DEF SetQuorumPercentage, SetMajorityPercentage, proposalVars
<1>6. ASSUME NEW isSet, SetBasketStaking(isSet) PROVE Quiet
  BY <1>6 DEF SetBasketStaking, proposalVars
<1>7. CASE StakingStep  BY <1>7 DEF StakingStep, govVars, proposalVars
<1>8. CASE Tick  BY <1>8 DEF Tick, proposalVars
<1>9. CASE UNCHANGED vars  BY <1>9 DEF vars, govVars, proposalVars
<1> HIDE DEF Quiet
<1>10. QED
  BY <1>1, <1>2, <1>3, <1>4, <1>5, <1>6, <1>7, <1>8, <1>9 DEF Next, Quiet

(* A vote adds to the tallies of its own proposal, while that is open.      *)
LEMMA VoteFrame ==
    ASSUME TypeOK, NEW u \in Users, NEW id \in Ids, NEW support \in 0..2,
           CastVote(u, id, support)
    PROVE  /\ Active(id)
           /\ UNCHANGED <<now, proposalCount, canceled>>
           /\ \A i \in Ids :
                 /\ i # id => proposals'[i] = proposals[i]
                 /\ proposals'[i].startTime = proposals[i].startTime
                 /\ proposals'[i].endTime = proposals[i].endTime
                 /\ proposals'[i].executionTime = proposals[i].executionTime
                 /\ proposals'[i].executed = proposals[i].executed
<1> DEFINE old == proposals[id]
           w       == GetVotingPower(u)
           votes   == [old.votes EXCEPT ![u] = support]
           against == IF support = 0 THEN old.against + w ELSE old.against
           for     == IF support = 1 THEN old.for + w ELSE old.for
           abstain == IF support = 2 THEN old.abstain + w ELSE old.abstain
           new == [old EXCEPT !.voted = VotedAfter(id, u), !.votes = votes,
                              !.against = against, !.for = for, !.abstain = abstain]
<1>1. proposals' = [proposals EXCEPT ![id] = new]  BY DEF CastVote
<1>2. old \in ProposalRecords /\ proposals \in [Ids -> ProposalRecords]  BY DEF TypeOK
<1>3. Active(id) /\ UNCHANGED <<now, proposalCount, canceled>>  BY DEF CastVote
<1> HIDE DEF votes, against, for, abstain, w
<1>4. /\ new.startTime = old.startTime
      /\ new.endTime = old.endTime
      /\ new.executionTime = old.executionTime
      /\ new.executed = old.executed
  BY <1>2 DEF ProposalRecords
<1> HIDE DEF new
<1>5. QED  BY <1>1, <1>2, <1>3, <1>4

(* queue(), execute() and cancel() write one field of one proposal.         *)
LEMMA QueueFrame ==
    ASSUME TypeOK, NEW id \in Ids, Queue(id)
    PROVE  /\ Succeeded(id) /\ UNCHANGED <<now, proposalCount, canceled>>
           /\ proposals' = [proposals EXCEPT ![id] =
                               [proposals[id] EXCEPT !.executionTime = EarliestAt]]
           /\ proposals \in [Ids -> ProposalRecords]
  BY DEF Queue, TypeOK

LEMMA ExecuteFrame ==
    ASSUME TypeOK, NEW id \in Ids, Execute(id)
    PROVE  /\ Queued(id) /\ now >= proposals[id].executionTime
           /\ UNCHANGED <<now, proposalCount, canceled>>
           /\ proposals' = [proposals EXCEPT ![id] =
                               [proposals[id] EXCEPT !.executed = TRUE]]
           /\ proposals \in [Ids -> ProposalRecords]
  BY DEF Execute, TypeOK

LEMMA CancelFrame ==
    ASSUME TypeOK, NEW id \in Ids, NEW u, Cancel(u, id)
    PROVE  /\ ~proposals[id].executed
           /\ UNCHANGED <<now, proposalCount>> /\ canceled' = canceled \cup {id}
           /\ proposals' = [proposals EXCEPT ![id] =
                               [proposals[id] EXCEPT !.endTime = EndsAtOnce]]
           /\ proposals \in [Ids -> ProposalRecords]
  BY DEF Cancel, TypeOK

LEMMA ProposeFrame ==
    ASSUME TypeOK, NEW u \in Users, Propose(u)
    PROVE  /\ UNCHANGED <<now, canceled>>
           /\ proposalCount' = proposalCount + 1
           /\ \A i \in Made : proposals'[i] = proposals[i]
           /\ \A i \in Made' : i \in Made \/ i = proposalCount + 1
           /\ LET new == proposals'[proposalCount + 1]
              IN  /\ new.startTime = now
                  /\ new.endTime = now + VOTING_PERIOD
                  /\ new.executionTime = 0
                  /\ new.executed = FALSE
<1>1. /\ proposalCount \in Nat /\ proposalCount + 1 \in Ids
      /\ proposals \in [Ids -> ProposalRecords]
  BY GovBoundsAssumption DEF Propose, TypeOK, Ids
<1>2. \A i \in Made : i \in Ids /\ i # proposalCount + 1
  BY <1>1, GovBoundsAssumption DEF Made, Ids, TypeOK
<1>3. \A i \in Made' : i \in Made \/ i = proposalCount + 1
  BY <1>1 DEF Made, Propose
<1>4. QED  BY <1>1, <1>2, <1>3 DEF Propose, NoProposal

LEMMA MadeIds == ASSUME TypeOK PROVE Made \subseteq Ids
  BY GovBoundsAssumption DEF TypeOK, Made, Ids

-----------------------------------------------------------------------------
(* The ballot.                                                              *)

(* Once its voting period is over, a proposal's tallies are final and no    *)
(* later step, a late cancel included, opens it again.                      *)
THEOREM BallotsClose == Spec => VotesFrozen
<1> DEFINE Frozen(i) ==
        now > proposals[i].endTime =>
          /\ now' > proposals'[i].endTime
          /\ <<proposals'[i].for, proposals'[i].against, proposals'[i].abstain>>
               = <<proposals[i].for, proposals[i].against, proposals[i].abstain>>
<1>1. ASSUME TypeOK, [Next]_vars, NEW i \in Made PROVE Frozen(i)
  <2>1. /\ i \in Ids /\ now \in Nat /\ proposals[i].endTime \in Nat
        /\ proposals[i] \in ProposalRecords
    BY <1>1, MadeIds DEF TypeOK, ProposalRecords
  <2>2. CASE UNCHANGED <<proposals, proposalCount, canceled>> /\ now' \in {now, now + 1}
    BY <2>1, <2>2
  <2>3. ASSUME NEW u \in Users, Propose(u) PROVE Frozen(i)
    BY <1>1, <2>3, ProposeFrame
  <2>4. ASSUME NEW u \in Users, NEW id \in Ids, NEW support \in 0..2,
               CastVote(u, id, support)
        PROVE  Frozen(i)
    BY <1>1, <2>1, <2>4, VoteFrame DEF Active
  <2>5. ASSUME NEW id \in Ids, Queue(id) PROVE Frozen(i)
    BY <1>1, <2>1, <2>5, QueueFrame DEF ProposalRecords
  <2>6. ASSUME NEW id \in Ids, Execute(id) PROVE Frozen(i)
    BY <1>1, <2>1, <2>6, ExecuteFrame DEF ProposalRecords
  <2>7. ASSUME NEW id \in Ids, NEW u \in Users \cup {Owner}, Cancel(u, id)
        PROVE  Frozen(i)
    BY <1>1, <2>1, <2>7, CancelFrame DEF ProposalRecords, EndsAtOnce
  <2>8. QED
    BY <1>1, <2>2, <2>3, <2>4, <2>5, <2>6, <2>7, ProposalSteps
<1>2. TypeOK /\ [Next]_vars
         => [\A id \in Made : now > proposals[id].endTime =>
               /\ now' > proposals'[id].endTime
               /\ <<proposals'[id].for, proposals'[id].against, proposals'[id].abstain>>
                    = <<proposals[id].for, proposals[id].against, proposals[id].abstain>>
            ]_vars
  BY <1>1
<1>3. QED  BY <1>2, GovTypeCorrect, PTL DEF Spec, VotesFrozen

(* A proposal is queued once, and what was executed is never written again. *)
THEOREM DecisionsStand == Spec => DecidedOnce
<1> DEFINE Stands(i) ==
        /\ proposals[i].executionTime > 0 =>
              proposals'[i].executionTime = proposals[i].executionTime
        /\ proposals[i].executed => proposals'[i] = proposals[i]
<1>1. ASSUME TypeOK, [Next]_vars, NEW i \in Made PROVE Stands(i)
  <2>1. /\ i \in Ids /\ now \in Nat /\ proposals[i].executionTime \in Nat
        /\ proposals[i] \in ProposalRecords
    BY <1>1, MadeIds DEF TypeOK, ProposalRecords
  <2>2. CASE UNCHANGED <<proposals, proposalCount, canceled>> /\ now' \in {now, now + 1}
    BY <2>2
  <2>3. ASSUME NEW u \in Users, Propose(u) PROVE Stands(i)
    BY <1>1, <2>3, ProposeFrame
  <2>4. ASSUME NEW u \in Users, NEW id \in Ids, NEW support \in 0..2,
               CastVote(u, id, support)
        PROVE  Stands(i)
    BY <1>1, <2>1, <2>4, VoteFrame DEF Active
  <2>5. ASSUME NEW id \in Ids, Queue(id) PROVE Stands(i)
    <3>1. id = i => ~proposals[i].executed /\ proposals[i].executionTime = 0
      BY <1>1, <2>5, QueueFrame DEF Succeeded, Passed, Judged
    <3>2. QED  BY <1>1, <2>1, <2>5, <3>1, QueueFrame DEF ProposalRecords
  <2>6. ASSUME NEW id \in Ids, Execute(id) PROVE Stands(i)
    <3>1. id = i => ~proposals[i].executed
      BY <1>1, <2>6, ExecuteFrame DEF Queued, Passed, Judged
    <3>2. QED  BY <1>1, <2>1, <2>6, <3>1, ExecuteFrame DEF ProposalRecords
  <2>7. ASSUME NEW id \in Ids, NEW u \in Users \cup {Owner}, Cancel(u, id)
        PROVE  Stands(i)
    BY <1>1, <2>1, <2>7, CancelFrame DEF ProposalRecords
  <2>8. QED
    BY <1>1, <2>2, <2>3, <2>4, <2>5, <2>6, <2>7, ProposalSteps
<1>2. TypeOK /\ [Next]_vars
         => [\A id \in Made :
               /\ proposals[id].executionTime > 0 =>
                     proposals'[id].executionTime = proposals[id].executionTime
               /\ proposals[id].executed => proposals'[id] = proposals[id]]_vars
  BY <1>1
<1>3. QED  BY <1>2, GovTypeCorrect, PTL DEF Spec, DecidedOnce

-----------------------------------------------------------------------------
(* The tallies.                                                             *)

(* What the voters of a proposal who chose s weighed in with, and a         *)
(* proposal whose three tallies are these sums.                             *)
Choosing(p, s)    == {u \in p.voted : p.votes[u] = s}
Weighed(p, w, s)  == SumFunctionOnSet(w, Choosing(p, s))
TallyOf(p, w)     == /\ p.against = Weighed(p, w, 0)
                     /\ p.for     = Weighed(p, w, 1)
                     /\ p.abstain = Weighed(p, w, 2)

LEMMA TallyParts ==
    /\ TallyExact  <=> \A id \in Ids : TallyOf(proposals[id], weights[id])
    /\ TallyExact' <=> \A id \in Ids : TallyOf(proposals'[id], weights'[id])
  BY DEF TallyExact, TallyOf, Weighed, Choosing

LEMMA ChoosingTyped ==
    ASSUME NEW p \in ProposalRecords, NEW w \in [Users -> Nat], NEW s
    PROVE  /\ IsFiniteSet(Choosing(p, s)) /\ Choosing(p, s) \subseteq Users
           /\ Weighed(p, w, s) \in Nat
<1>1. p.voted \subseteq Users  BY DEF ProposalRecords
<1>2. Choosing(p, s) \subseteq Users  BY <1>1 DEF Choosing
<1>3. IsFiniteSet(Choosing(p, s))  BY <1>2, StakersAssumption, FS_Subset
<1>4. \A u \in Choosing(p, s) : w[u] \in Nat  BY <1>2
<1>5. QED  BY <1>2, <1>3, <1>4, SumNat DEF Weighed

(* One more voter adds its weight to the sum of its own choice and to no    *)
(* other.                                                                   *)
LEMMA OneMoreVoter ==
    ASSUME NEW p \in ProposalRecords, NEW w \in [Users -> Nat],
           NEW u \in Users, u \notin p.voted, NEW support, NEW weight \in Nat,
           NEW q, q.voted = p.voted \cup {u}, q.votes = [p.votes EXCEPT ![u] = support],
           NEW v, v[u] = weight, \A x \in Users \ {u} : v[x] = w[x],
           NEW s
    PROVE  Weighed(q, v, s) = Weighed(p, w, s) + (IF s = support THEN weight ELSE 0)
<1> DEFINE old == Choosing(p, s)
           new == Choosing(q, s)
<1>1. /\ IsFiniteSet(old) /\ old \subseteq Users /\ u \notin old
      /\ Weighed(p, w, s) \in Nat
  BY ChoosingTyped DEF Choosing
<1>2. \A x \in old : w[x] \in Int /\ v[x] = w[x]  BY <1>1
<1>3. v[u] = weight /\ weight \in Nat  OBVIOUS
<1>4. new = IF s = support THEN old \cup {u} ELSE old
  BY DEF Choosing, ProposalRecords
<1>5. Weighed(q, v, s) = SumFunctionOnSet(v, new)
      /\ Weighed(p, w, s) = SumFunctionOnSet(w, old)
  BY DEF Weighed
<1> HIDE DEF old, new
<1>6. SumFunctionOnSet(v, old) = SumFunctionOnSet(w, old)
  BY <1>1, <1>2, SumSame
<1>7. CASE s = support
  <2>1. v[u] \in Int /\ \A x \in old : v[x] \in Int  BY <1>2, <1>3
  <2>2. SumFunctionOnSet(v, old \cup {u}) = v[u] + SumFunctionOnSet(v, old)
    BY <1>1, <2>1, SumAdd, Zenon
  <2>3. QED  BY <1>1, <1>3, <1>4, <1>5, <1>6, <1>7, <2>2
<1>8. CASE s # support  BY <1>1, <1>4, <1>5, <1>6, <1>8
<1>9. QED  BY <1>7, <1>8

LEMMA VoteTallied ==
    ASSUME TypeOK, NEW u \in Users, NEW id \in Ids, NEW support \in 0..2,
           CastVote(u, id, support), TallyOf(proposals[id], weights[id])
    PROVE  /\ TallyOf(proposals'[id], weights'[id])
           /\ \A i \in Ids \ {id} : weights'[i] = weights[i]
<1> DEFINE old     == proposals[id]
           new     == proposals'[id]
           w       == weights[id]
           v       == weights'[id]
           weight  == GetVotingPower(u)
<1>1. weight \in Nat  BY PowerNat
<1>2. old \in ProposalRecords /\ w \in [Users -> Nat] /\ u \notin old.voted
  BY DEF TypeOK, CastVote
<1>3. /\ new.voted = old.voted \cup {u}
      /\ new.votes = [old.votes EXCEPT ![u] = support]
      /\ new.against = IF support = 0 THEN old.against + weight ELSE old.against
      /\ new.for     = IF support = 1 THEN old.for + weight ELSE old.for
      /\ new.abstain = IF support = 2 THEN old.abstain + weight ELSE old.abstain
  <2> DEFINE votes   == [old.votes EXCEPT ![u] = support]
             against == IF support = 0 THEN old.against + weight ELSE old.against
             for     == IF support = 1 THEN old.for + weight ELSE old.for
             abstain == IF support = 2 THEN old.abstain + weight ELSE old.abstain
             next    == [old EXCEPT !.voted = VotedAfter(id, u), !.votes = votes,
                                    !.against = against, !.for = for, !.abstain = abstain]
  <2>1. proposals' = [proposals EXCEPT ![id] = next]  BY DEF CastVote
  <2>2. VotedAfter(id, u) = old.voted \cup {u}  BY DEF VotedAfter
  <2> HIDE DEF votes, against, for, abstain, weight
  <2>3. /\ next.voted = VotedAfter(id, u) /\ next.votes = votes
        /\ next.against = against /\ next.for = for /\ next.abstain = abstain
    BY <1>2 DEF ProposalRecords
  <2> HIDE DEF next
  <2>4. new = next  BY <2>1 DEF TypeOK
  <2>5. QED  BY <2>2, <2>3, <2>4 DEF votes, against, for, abstain
<1>4. /\ v[u] = weight /\ \A x \in Users \ {u} : v[x] = w[x]
      /\ \A i \in Ids \ {id} : weights'[i] = weights[i]
  <2> HIDE DEF weight
  <2>1. weights' = [weights EXCEPT ![id][u] = weight]  BY DEF CastVote, weight
  <2>2. QED  BY <2>1 DEF TypeOK
<1>5. TallyOf(old, w)  OBVIOUS
<1>6. /\ old.against \in Nat /\ old.for \in Nat /\ old.abstain \in Nat
  BY <1>2 DEF ProposalRecords
<1> HIDE DEF old, new, w, v, weight
<1>7. \A s : Weighed(new, v, s) = Weighed(old, w, s) + (IF s = support THEN weight ELSE 0)
  <2> SUFFICES ASSUME NEW s
               PROVE  Weighed(new, v, s) = Weighed(old, w, s)
                                               + (IF s = support THEN weight ELSE 0)
    OBVIOUS
  <2>1. new.voted = old.voted \cup {u} /\ new.votes = [old.votes EXCEPT ![u] = support]
    BY <1>3
  <2>2. v[u] = weight /\ \A x \in Users \ {u} : v[x] = w[x]  BY <1>4
  <2> DEFINE part == IF s = support THEN weight ELSE 0
  <2>3. Weighed(new, v, s) = Weighed(old, w, s) + part
    BY <1>1, <1>2, <2>1, <2>2, OneMoreVoter
  <2>4. QED  BY <2>3
<1>8. /\ new.against = Weighed(new, v, 0)
      /\ new.for     = Weighed(new, v, 1)
      /\ new.abstain = Weighed(new, v, 2)
  <2>1. new.against = Weighed(new, v, 0)  BY <1>1, <1>3, <1>5, <1>6, <1>7 DEF TallyOf
  <2>2. new.for = Weighed(new, v, 1)  BY <1>1, <1>3, <1>5, <1>6, <1>7 DEF TallyOf
  <2>3. new.abstain = Weighed(new, v, 2)  BY <1>1, <1>3, <1>5, <1>6, <1>7 DEF TallyOf
  <2>4. QED  BY <2>1, <2>2, <2>3
<1>9. TallyOf(new, v)  BY <1>8 DEF TallyOf
<1>10. QED  BY <1>4, <1>9 DEF new, v

(* A proposal that keeps its voters, their choices and its tallies.         *)
LEMMA TallyFrame ==
    ASSUME NEW p, NEW w, TallyOf(p, w), NEW q, q.voted = p.voted, q.votes = p.votes,
           q.against = p.against, q.for = p.for, q.abstain = p.abstain
    PROVE  TallyOf(q, w)
  BY DEF TallyOf, Weighed, Choosing

(* Only a vote writes down what somebody weighed in with.                   *)
LEMMA WeightsKept ==
    ASSUME [Next]_vars, \A u \in Users, id \in Ids, s \in 0..2 : ~CastVote(u, id, s)
    PROVE  UNCHANGED weights
<1>1. ASSUME NEW u, Propose(u) PROVE UNCHANGED weights  BY <1>1 DEF Propose
<1>2. ASSUME NEW u, NEW d, Delegate(u, d) PROVE UNCHANGED weights
  BY <1>2 DEF Delegate, proposalVars
<1>3. ASSUME NEW u, NEW v, NEW a, Transfer(u, v, a) \/ Mint(u, a) \/ Burn(u, a)
      PROVE  UNCHANGED weights
  BY <1>3 DEF Transfer, Mint, Burn, govVars, proposalVars
<1>4. ASSUME NEW id, Queue(id) \/ Execute(id) PROVE UNCHANGED weights
  BY <1>4 DEF Queue, Execute
<1>5. ASSUME NEW id, NEW u, Cancel(u, id) PROVE UNCHANGED weights  BY <1>5 DEF Cancel
<1>6. ASSUME NEW t, \/ SetProposalThreshold(t) \/ SetQuorumPercentage(t)
                    \/ SetMajorityPercentage(t) \/ SetBasketStaking(t)
      PROVE  UNCHANGED weights
  BY <1>6 DEF SetProposalThreshold, SetQuorumPercentage, SetMajorityPercentage,
              SetBasketStaking, proposalVars
<1>7. ASSUME StakingStep \/ Tick PROVE UNCHANGED weights
  BY <1>7 DEF StakingStep, Tick, govVars, proposalVars
<1>8. ASSUME UNCHANGED vars PROVE UNCHANGED weights
  BY <1>8 DEF vars, govVars, proposalVars
<1>9. QED  BY <1>1, <1>2, <1>3, <1>4, <1>5, <1>6, <1>7, <1>8 DEF Next

(* Each tally is the sum of one vote per voter, whatever transfers, stakes, *)
(* delegations and the multiplier's contract do between the votes: nobody   *)
(* weighs in twice on a proposal.                                           *)
THEOREM TalliesAlwaysExact == Spec => []TallyExact
<1>1. Init => TallyExact
  <2> SUFFICES ASSUME Init, NEW id \in Ids PROVE TallyOf(proposals[id], weights[id])
    BY TallyParts
  <2>1. proposals[id] = NoProposal  BY DEF Init
  <2>2. /\ NoProposal.voted = {} /\ NoProposal.against = 0
        /\ NoProposal.for = 0 /\ NoProposal.abstain = 0
    BY DEF NoProposal
  <2>3. \A s : Choosing(proposals[id], s) = {}  BY <2>1, <2>2 DEF Choosing
  <2>4. QED  BY <2>1, <2>2, <2>3, SumEmpty DEF TallyOf, Weighed
<1>2. TypeOK /\ TallyExact /\ [Next]_vars => TallyExact'
  <2> SUFFICES ASSUME TypeOK, TallyExact, [Next]_vars, NEW i \in Ids
               PROVE  TallyOf(proposals'[i], weights'[i])
    BY TallyParts
  <2>1. /\ proposals \in [Ids -> ProposalRecords] /\ proposals[i] \in ProposalRecords
        /\ TallyOf(proposals[i], weights[i])
    BY TallyParts DEF TypeOK
  <2>2. ASSUME NEW u \in Users, NEW id \in Ids, NEW s \in 0..2, CastVote(u, id, s)
        PROVE  TallyOf(proposals'[i], weights'[i])
    <3>1. CASE i = id  BY <2>1, <2>2, <3>1, VoteTallied
    <3>2. CASE i # id
      <4>1. TallyOf(proposals[id], weights[id])  BY TallyParts
      <4>2. weights'[i] = weights[i]  BY <2>2, <3>2, <4>1, VoteTallied
      <4>3. proposals'[i] = proposals[i]  BY <2>2, <3>2, VoteFrame
      <4>4. QED  BY <2>1, <4>2, <4>3
    <3>3. QED  BY <3>1, <3>2
  <2>3. CASE \A u \in Users, id \in Ids, s \in 0..2 : ~CastVote(u, id, s)
    <3>1. weights'[i] = weights[i]  BY <2>3, WeightsKept
    <3>2. CASE proposals' = proposals  BY <2>1, <3>1, <3>2
    <3>3. ASSUME NEW u \in Users, Propose(u) PROVE TallyOf(proposals'[i], weights'[i])
      <4>1. /\ proposals'[i] = proposals[i]
            \/ /\ proposals'[i].voted = {} /\ proposals'[i].against = 0
               /\ proposals'[i].for = 0 /\ proposals'[i].abstain = 0
        BY <2>1, <3>3 DEF Propose, NoProposal
      <4>2. CASE proposals'[i] = proposals[i]  BY <2>1, <3>1, <4>2
      <4>3. CASE /\ proposals'[i].voted = {} /\ proposals'[i].against = 0
                 /\ proposals'[i].for = 0 /\ proposals'[i].abstain = 0
        <5>1. \A s : Choosing(proposals'[i], s) = {}  BY <4>3 DEF Choosing
        <5>2. QED  BY <4>3, <5>1, SumEmpty DEF TallyOf, Weighed
      <4>4. QED  BY <4>1, <4>2, <4>3
    <3>4. ASSUME NEW id \in Ids,
                 \/ Queue(id) \/ Execute(id) \/ \E u \in Users \cup {Owner} : Cancel(u, id)
          PROVE  TallyOf(proposals'[i], weights'[i])
      <4>1. /\ proposals'[i].voted = proposals[i].voted
            /\ proposals'[i].votes = proposals[i].votes
            /\ proposals'[i].against = proposals[i].against
            /\ proposals'[i].for = proposals[i].for
            /\ proposals'[i].abstain = proposals[i].abstain
        <5>1. CASE Queue(id)  BY <2>1, <5>1, QueueFrame DEF ProposalRecords
        <5>2. CASE Execute(id)  BY <2>1, <5>2, ExecuteFrame DEF ProposalRecords
        <5>3. ASSUME NEW u \in Users \cup {Owner}, Cancel(u, id)
              PROVE  /\ proposals'[i].voted = proposals[i].voted
                     /\ proposals'[i].votes = proposals[i].votes
                     /\ proposals'[i].against = proposals[i].against
                     /\ proposals'[i].for = proposals[i].for
                     /\ proposals'[i].abstain = proposals[i].abstain
          BY <2>1, <5>3, CancelFrame DEF ProposalRecords
        <5>4. QED  BY <3>4, <5>1, <5>2, <5>3
      <4>2. QED  BY <2>1, <3>1, <4>1, TallyFrame
    <3>5. QED  BY <2>3, <3>2, <3>3, <3>4, ProposalSteps
  <2>4. QED  BY <2>2, <2>3
<1>3. QED  BY <1>1, <1>2, GovTypeCorrect, PTL DEF Spec

-----------------------------------------------------------------------------
(* The percentage the owner chooses is at least 51: carried is a majority.  *)
LEMMA MoreThanHalf ==
    ASSUME NEW f \in Nat, NEW a \in Nat, NEW m \in 51..100, f * 100 > (f + a) * m
    PROVE  f > a
<1>1. m \in Nat /\ m >= 51 /\ f + a \in Nat  OBVIOUS
<1>2. (f + a) * 51 <= (f + a) * m
  <2>1. ASSUME NEW x \in Nat PROVE x * 51 <= x * m  BY <1>1
  <2>2. QED  BY <1>1, <2>1
<1>3. (f + a) * m \in Nat  BY <1>1
<1>4. QED  BY <1>2, <1>3

(* Whatever the owner made of the percentages and mints and burns of the    *)
(* supply, an executed proposal had more votes for it than against it.  The *)
(* invariant is inductive with TypeOK: it is there that the tallies are     *)
(* unsigned and the percentage is at least 51.                              *)
THEOREM MajorityAlways == Spec => []MajorityRules
<1>1. Init => MajorityRules
  BY DEF Init, MajorityRules, Made
<1>2. ASSUME TypeOK, MajorityRules, [Next]_vars PROVE MajorityRules'
  <2> DEFINE Fair(i) == proposals[i].executed => proposals[i].for > proposals[i].against
  <2> SUFFICES ASSUME NEW i \in Made' PROVE Fair(i)'
    BY DEF MajorityRules
  <2> USE <1>2
  <2>1. \A j \in Made : j \in Ids /\ proposals[j] \in ProposalRecords /\ Fair(j)
    BY MadeIds DEF TypeOK, MajorityRules
  <2>2. CASE UNCHANGED <<proposals, proposalCount, canceled>> /\ now' \in {now, now + 1}
    BY <2>1, <2>2 DEF Made
  <2>3. ASSUME NEW u \in Users, Propose(u) PROVE Fair(i)'
    BY <2>1, <2>3, ProposeFrame
  <2>4. ASSUME NEW u \in Users, NEW id \in Ids, NEW support \in 0..2,
               CastVote(u, id, support)
        PROVE  Fair(i)'
    <3>1. i \in Made /\ i \in Ids  BY <2>1, <2>4, VoteFrame DEF Made
    <3>2. CASE id = i
      <4>1. ~proposals[i].executed  BY <2>4, <3>2, VoteFrame DEF Active
      <4>2. proposals'[i].executed = proposals[i].executed
        BY <2>4, <3>1, VoteFrame
      <4>3. QED  BY <4>1, <4>2
    <3>3. CASE id # i
      <4>1. proposals'[i] = proposals[i]  BY <2>4, <3>1, <3>3, VoteFrame
      <4>2. Fair(i)  BY <2>1, <3>1
      <4>3. QED  BY <4>1, <4>2
    <3>4. QED  BY <3>2, <3>3
  <2>5. ASSUME NEW id \in Ids, Queue(id) PROVE Fair(i)'
    <3>1. i \in Made /\ i \in Ids  BY <2>1, <2>5, QueueFrame DEF Made
    <3>2. /\ proposals'[i].executed = proposals[i].executed
          /\ proposals'[i].for = proposals[i].for
          /\ proposals'[i].against = proposals[i].against
      BY <2>1, <2>5, <3>1, QueueFrame DEF ProposalRecords
    <3>3. Fair(i)  BY <2>1, <3>1
    <3>4. QED  BY <3>2, <3>3
  <2>6. ASSUME NEW id \in Ids, Execute(id) PROVE Fair(i)'
    <3>1. i \in Made  BY <2>6, ExecuteFrame DEF Made
    <3>2. CASE id = i
      <4>1. proposals[i].for > proposals[i].against
        <5>1. /\ proposals[i].for \in Nat /\ proposals[i].against \in Nat
              /\ majorityPercentage \in 51..100
          BY <2>1, <3>1 DEF TypeOK, ProposalRecords
        <5>2. proposals[i].for * 100
                > (proposals[i].for + proposals[i].against) * majorityPercentage
          BY <2>6, <3>2, ExecuteFrame DEF Queued, Passed, Carried
        <5>3. QED  BY <5>1, <5>2, MoreThanHalf
      <4>2. QED  BY <2>1, <2>6, <3>1, <3>2, <4>1, ExecuteFrame DEF ProposalRecords
    <3>3. CASE id # i  BY <2>1, <2>6, <3>1, <3>3, ExecuteFrame
    <3>4. QED  BY <3>2, <3>3
  <2>7. ASSUME NEW id \in Ids, NEW u \in Users \cup {Owner}, Cancel(u, id)
        PROVE  Fair(i)'
    <3>1. i \in Made /\ i \in Ids  BY <2>1, <2>7, CancelFrame DEF Made
    <3>2. /\ proposals'[i].executed = proposals[i].executed
          /\ proposals'[i].for = proposals[i].for
          /\ proposals'[i].against = proposals[i].against
      BY <2>1, <2>7, <3>1, CancelFrame DEF ProposalRecords
    <3>3. Fair(i)  BY <2>1, <3>1
    <3>4. QED  BY <3>2, <3>3
  <2>8. QED  BY <2>2, <2>3, <2>4, <2>5, <2>6, <2>7, ProposalSteps
<1>3. QED  BY <1>1, <1>2, GovTypeCorrect, PTL DEF Spec

-----------------------------------------------------------------------------
(* The delay.                                                               *)

(* What ties the three clocks of a proposal together: its end, the time it  *)
(* may run from, and the time it ran at.                                    *)
OnSchedule(i) ==
    /\ proposals[i].endTime = proposals[i].startTime + VOTING_PERIOD
    /\ proposals[i].executionTime > 0 =>
          proposals[i].executionTime
              >= proposals[i].startTime + VOTING_PERIOD + 2 + EXECUTION_DELAY
    /\ proposals[i].executed =>
          now >= proposals[i].startTime + VOTING_PERIOD + 2 + EXECUTION_DELAY

Schedule == \A i \in Made \ canceled : OnSchedule(i)

(* An uncancelled proposal is executed only after its voting period, the    *)
(* second in which state() reads Canceled, and the full execution delay.    *)
(* DelayRespected says nothing of a proposal before it is executed, so it   *)
(* is not inductive: Schedule adds when the vote ends and when the proposal *)
(* may run.                                                                 *)
THEOREM DelayAlways == Spec => []DelayRespected
<1>1. Init => Schedule
  BY DEF Init, Schedule, Made
<1>2. ASSUME TypeOK, Schedule, [Next]_vars PROVE Schedule'
  <2> SUFFICES ASSUME NEW i \in Made', i \notin canceled' PROVE OnSchedule(i)'
    BY DEF Schedule
  <2> USE <1>2, PeriodsAssumption
  <2>1. /\ \A j \in Made : j \in Ids /\ proposals[j] \in ProposalRecords
        /\ \A j \in Made : j \notin canceled => OnSchedule(j)
        /\ now \in Nat
    BY MadeIds DEF TypeOK, Schedule
  <2>2. \A j \in Made : /\ proposals[j].startTime \in Nat
                        /\ proposals[j].endTime \in Nat
                        /\ proposals[j].executionTime \in Nat
    BY <2>1 DEF ProposalRecords
  <2>3. CASE UNCHANGED <<proposals, proposalCount, canceled>> /\ now' \in {now, now + 1}
    BY <2>1, <2>2, <2>3 DEF Made, OnSchedule
  <2>4. ASSUME NEW u \in Users, Propose(u) PROVE OnSchedule(i)'
    <3>1. now' = now /\ canceled' = canceled  BY <2>4, ProposeFrame
    <3>2. CASE i \in Made
      <4>1. proposals'[i] = proposals[i]  BY <2>4, <3>2, ProposeFrame
      <4>2. QED  BY <2>1, <3>1, <3>2, <4>1 DEF OnSchedule
    <3>3. CASE i = proposalCount + 1
      <4>1. /\ proposals'[i].startTime = now
            /\ proposals'[i].endTime = now + VOTING_PERIOD
            /\ proposals'[i].executionTime = 0
            /\ proposals'[i].executed = FALSE
        BY <2>4, <3>3, ProposeFrame
      <4>2. QED  BY <4>1 DEF OnSchedule
    <3>4. QED  BY <2>4, <3>2, <3>3, ProposeFrame
  <2>5. ASSUME NEW u \in Users, NEW id \in Ids, NEW support \in 0..2,
               CastVote(u, id, support)
        PROVE  OnSchedule(i)'
    BY <2>1, <2>2, <2>5, VoteFrame DEF OnSchedule, Made
  <2>6. ASSUME NEW id \in Ids, Queue(id) PROVE OnSchedule(i)'
    <3>1. i \in Made /\ i \notin canceled /\ OnSchedule(i) /\ now' = now
      BY <2>1, <2>6, QueueFrame DEF Made
    <3>2. CASE id = i
      <4>1. EarliestAt >= proposals[i].startTime + VOTING_PERIOD + 2 + EXECUTION_DELAY
        BY <2>1, <2>2, <2>6, <3>1, <3>2, QueueFrame
           DEF Succeeded, Passed, Judged, OnSchedule, EarliestAt
      <4>2. /\ proposals'[i].startTime = proposals[i].startTime
            /\ proposals'[i].endTime = proposals[i].endTime
            /\ proposals'[i].executionTime = EarliestAt
            /\ proposals'[i].executed = proposals[i].executed
        BY <2>1, <2>6, <3>1, <3>2, QueueFrame DEF ProposalRecords
      <4>3. QED  BY <3>1, <4>1, <4>2 DEF OnSchedule
    <3>3. CASE id # i  BY <2>6, <3>1, <3>3, <2>1, QueueFrame DEF OnSchedule
    <3>4. QED  BY <3>2, <3>3
  <2>7. ASSUME NEW id \in Ids, Execute(id) PROVE OnSchedule(i)'
    <3>1. i \in Made /\ i \notin canceled /\ OnSchedule(i) /\ now' = now
      BY <2>1, <2>7, ExecuteFrame DEF Made
    <3>2. CASE id = i
      <4>1. proposals[i].executionTime > 0 /\ now >= proposals[i].executionTime
        BY <2>7, <3>2, ExecuteFrame DEF Queued
      <4>2. now >= proposals[i].startTime + VOTING_PERIOD + 2 + EXECUTION_DELAY
        BY <2>1, <2>2, <3>1, <4>1 DEF OnSchedule
      <4>3. /\ proposals'[i].startTime = proposals[i].startTime
            /\ proposals'[i].endTime = proposals[i].endTime
            /\ proposals'[i].executionTime = proposals[i].executionTime
        BY <2>1, <2>7, <3>1, <3>2, ExecuteFrame DEF ProposalRecords
      <4>4. QED  BY <3>1, <4>2, <4>3 DEF OnSchedule
    <3>3. CASE id # i  BY <2>7, <3>1, <3>3, <2>1, ExecuteFrame DEF OnSchedule
    <3>4. QED  BY <3>2, <3>3
  <2>8. ASSUME NEW id \in Ids, NEW u \in Users \cup {Owner}, Cancel(u, id)
        PROVE  OnSchedule(i)'
    <3>1. /\ i \in Made /\ i \notin canceled /\ i # id /\ OnSchedule(i)
          /\ now' = now
      BY <2>1, <2>8, CancelFrame DEF Made
    <3>2. proposals'[i] = proposals[i]  BY <2>1, <2>8, <3>1, CancelFrame
    <3>3. QED  BY <3>1, <3>2 DEF OnSchedule
  <2>9. QED  BY <2>3, <2>4, <2>5, <2>6, <2>7, <2>8, ProposalSteps
<1>3. Schedule => DelayRespected
  BY DEF Schedule, OnSchedule, DelayRespected
<1>4. QED  BY <1>1, <1>2, <1>3, GovTypeCorrect, PTL DEF Spec
=============================================================================
