-------------------------- MODULE BasketGovernance --------------------------
(***************************************************************************)
(* contracts/core/governance/BasketGovernance.sol, composed with the BASKET *)
(* token (StakeBasketToken.sol, an ERC20) and with BasketStaking.sol.       *)
(*                                                                          *)
(* A vote weighs what the voter's balance, the votes delegated to it and    *)
(* the multiplier of its staking tier are at the moment of the vote.  Every *)
(* staking step moves balances and tiers under the feet of open proposals,  *)
(* as do transfers, mints and burns.  The state of a proposal is never      *)
(* stored: state() derives it from the clock, the tallies and the supply.   *)
(*                                                                          *)
(* One unit of `now` is one second of block.timestamp; several              *)
(* transactions may share a block, so time passes by an action of its own.  *)
(***************************************************************************)
EXTENDS Integers, FiniteSets, Functions

CONSTANTS
    Users, Amounts, InitWallet, Threshold, PRECISION, MaxFees, MaxRescued,
    InitSupply,       \* BASKET in existence at the start
    Owner,            \* the account owner() of the governance contract
    VOTING_PERIOD,    \* seconds a proposal is open
    EXECUTION_DELAY,  \* seconds between queue() and execute()
    GRACE_PERIOD,     \* the 7 days after which a queued proposal expires
    SupplyAmounts,    \* amounts a mint or a burn may move
    Thresholds,       \* values the owner may give proposalThreshold
    Percentages,      \* values the owner may try as a percentage
    StakingChoices,   \* whether basketStaking may be set, or not set
    MaxProposals,     \* bound: proposals made in one behaviour
    MaxTime,          \* bound: the clock stops here
    MaxSupply,        \* bound: BASKET in existence
    MaxDelegated      \* bound: votes delegated to one account

VARIABLES wallet, vault, stakeInfo, tierCounts, totalStaked, rewardIndex,
          protocolFeePool, withdrawableRewards, ethBalance, feesReceived,
          earned, claimed, rescued   \* the variables of BasketStaking
VARIABLES
    totalSupply,         \* basketToken.totalSupply()
    now,                 \* block.timestamp
    proposals,           \* id -> Proposal (the mapping's default before)
    proposalCount,
    proposalThreshold,
    quorumPercentage,
    majorityPercentage,
    stakingSet,          \* basketStaking # address(0)
    delegates,           \* account -> the accounts delegated to (at most 1)
    delegatedVotes,      \* account -> votes delegated to it
    weights,             \* history: id -> voter -> weight of the vote cast
    canceled             \* history: the proposals cancel() was called on

Staking == INSTANCE BasketStaking

(* What BasketStaking assumes of the constants it is given.                 *)
ASSUME StakersAssumption ==
    /\ IsFiniteSet(Users)
    /\ Amounts \subseteq Nat
    /\ InitWallet \in [Users -> Nat]
ASSUME StakingAssumption ==
    /\ Threshold \in [1..4 -> Nat \ {0}]
    /\ \A t \in 1..3 : Threshold[t] < Threshold[t + 1]
    /\ PRECISION \in Nat \ {0}
    /\ MaxFees \in Nat /\ MaxRescued \in Nat

ASSUME PeriodsAssumption ==
    VOTING_PERIOD \in Nat /\ EXECUTION_DELAY \in Nat /\ GRACE_PERIOD \in Nat
ASSUME ChoicesAssumption ==
    /\ InitSupply \in Nat
    /\ SupplyAmounts \subseteq Nat
    /\ Thresholds \subseteq Nat
    /\ Percentages \subseteq Nat
    /\ StakingChoices \subseteq BOOLEAN
ASSUME GovBoundsAssumption ==
    {MaxProposals, MaxTime, MaxSupply, MaxDelegated} \subseteq Nat

Ids == 1..MaxProposals

parameters     == <<proposalThreshold, quorumPercentage, majorityPercentage,
                    stakingSet>>
delegationVars == <<delegates, delegatedVotes>>
proposalVars   == <<proposals, proposalCount, weights, canceled>>
govVars        == <<now, parameters, delegationVars, proposalVars>>
restOfStaking  == <<vault, stakeInfo, tierCounts, totalStaked, rewardIndex,
                    protocolFeePool, withdrawableRewards, ethBalance,
                    feesReceived, earned, claimed, rescued>>
tokenVars      == <<wallet, restOfStaking, totalSupply>>
vars           == <<tokenVars, govVars>>

(* What proposals[id] is before propose() fills it.                         *)
NoProposal ==
    [proposer |-> {}, startTime |-> 0, endTime |-> 0, executionTime |-> 0,
     against |-> 0, for |-> 0, abstain |-> 0, executed |-> FALSE,
     voted |-> {}, votes |-> [u \in Users |-> 0]]

Made == 1..proposalCount

-----------------------------------------------------------------------------
(* Voting power and the state of a proposal.                                *)

GetVotingMultiplier(u) == Staking!TierMultiplier[stakeInfo[u].tier]

GetVotingPower(u) ==
    LET base == wallet[u] + delegatedVotes[u]
    IN  IF stakingSet THEN (base * GetVotingMultiplier(u)) \div 10000 ELSE base

(* The predicates state() tells apart, in its order: Executed, Active,      *)
(* Canceled, then what the tallies say.  Pending never happens: a proposal  *)
(* starts at the second it is made.                                         *)
Active(id)   == ~proposals[id].executed /\ now <= proposals[id].endTime

Judged(id)   == ~proposals[id].executed /\ proposals[id].endTime < now - 1

Quorate(id) ==
    proposals[id].for + proposals[id].against + proposals[id].abstain
        >= (totalSupply * quorumPercentage) \div 100

Carried(id) ==
    proposals[id].for * 100
        > (proposals[id].for + proposals[id].against) * majorityPercentage

Passed(id)    == Judged(id) /\ Quorate(id) /\ Carried(id)

(* Succeeded without the test that the proposal is not queued yet.          *)
PassedAgain(id) == Passed(id)

Succeeded(id) == Passed(id) /\ proposals[id].executionTime = 0
Queued(id)    == /\ Passed(id)
                 /\ proposals[id].executionTime > 0
                 /\ now <= proposals[id].executionTime + GRACE_PERIOD

-----------------------------------------------------------------------------
Init ==
    /\ Staking!Init
    /\ totalSupply = InitSupply
    /\ now = 1
    /\ proposals = [id \in Ids |-> NoProposal]
    /\ proposalCount = 0
    /\ proposalThreshold \in Thresholds
    /\ quorumPercentage = 10
    /\ majorityPercentage = 51
    /\ stakingSet \in StakingChoices
    /\ delegates = [u \in Users |-> {}]
    /\ delegatedVotes = [u \in Users |-> 0]
    /\ weights = [id \in Ids |-> [u \in Users |-> 0]]
    /\ canceled = {}

(* propose()                                                                *)
Propose(u) ==
    /\ GetVotingPower(u) >= proposalThreshold
    /\ proposalCount < MaxProposals
    /\ proposalCount' = proposalCount + 1
    /\ proposals' = [proposals EXCEPT ![proposalCount + 1] =
                        [NoProposal EXCEPT !.proposer  = {u},
                                           !.startTime = now,
                                           !.endTime   = now + VOTING_PERIOD]]
    /\ UNCHANGED <<tokenVars, now, parameters, delegationVars, weights, canceled>>

(* The voter forgotten by hasVoted.                                         *)
VoterForgotten(id, u) == proposals[id].voted
VotedAfter(id, u)     == proposals[id].voted \cup {u}

(* castVote(): 0 against, 1 for, 2 abstain.                                 *)
CastVote(u, id, support) ==
    LET weight == GetVotingPower(u)
    IN  /\ id \in Made
        /\ Active(id)
        /\ u \notin proposals[id].voted
        /\ weight > 0
        /\ proposals' =
               [proposals EXCEPT
                   ![id].voted    = VotedAfter(id, u),
                   ![id].votes[u] = support,
                   ![id].against  = IF support = 0 THEN @ + weight ELSE @,
                   ![id].for      = IF support = 1 THEN @ + weight ELSE @,
                   ![id].abstain  = IF support = 2 THEN @ + weight ELSE @]
        /\ weights' = [weights EXCEPT ![id][u] = weight]
        /\ UNCHANGED <<tokenVars, now, parameters, delegationVars,
                       proposalCount, canceled>>

(* The time a proposal queued now may run, and the delay forgotten.         *)
NoDelay    == now
EarliestAt == now + EXECUTION_DELAY

(* queue(): anybody, once the proposal has succeeded.                       *)
Queue(id) ==
    /\ id \in Made
    /\ Succeeded(id)
    /\ proposals' = [proposals EXCEPT ![id].executionTime = EarliestAt]
    /\ UNCHANGED <<tokenVars, now, parameters, delegationVars, proposalCount,
                   weights, canceled>>

(* execute(): anybody; when the call to the target fails the transaction    *)
(* reverts, so the action is the call that succeeds.                        *)
Execute(id) ==
    /\ id \in Made
    /\ Queued(id)
    /\ now >= proposals[id].executionTime
    /\ proposals' = [proposals EXCEPT ![id].executed = TRUE]
    /\ UNCHANGED <<tokenVars, now, parameters, delegationVars, proposalCount,
                   weights, canceled>>

(* The end cancel() gives the vote.                                         *)
EndsAtOnce == now - 1

(* cancel(): the proposer or the owner, unless the proposal was executed.   *)
Cancel(u, id) ==
    /\ id \in Made
    /\ u \in proposals[id].proposer \/ u = Owner
    /\ ~proposals[id].executed
    /\ proposals' = [proposals EXCEPT ![id].endTime = EndsAtOnce]
    /\ canceled' = canceled \cup {id}
    /\ UNCHANGED <<tokenVars, now, parameters, delegationVars, proposalCount,
                   weights>>

(* The checked subtraction of delegate().                                   *)
CanTakeBack(u) == \A v \in delegates[u] : delegatedVotes[v] >= wallet[u]

(* delegate(): the votes taken back and given are the balance of today,     *)
(* whatever was given before; delegatee {} is address(0).                   *)
Delegate(u, delegatee) ==
    LET back == [v \in Users |-> IF v \in delegates[u] THEN wallet[u] ELSE 0]
    IN  /\ CanTakeBack(u)
        /\ delegates' = [delegates EXCEPT ![u] = delegatee]
        /\ delegatedVotes' =
               [v \in Users |-> delegatedVotes[v] - back[v]
                                    + (IF v \in delegatee THEN wallet[u] ELSE 0)]
        /\ \A v \in delegatee : delegatedVotes'[v] <= MaxDelegated
        /\ UNCHANGED <<tokenVars, now, parameters, proposalVars>>

(* The setters of the owner; each validates its argument.                   *)
SetProposalThreshold(t) ==
    /\ proposalThreshold' = t
    /\ UNCHANGED <<tokenVars, now, quorumPercentage, majorityPercentage,
                   stakingSet, delegationVars, proposalVars>>

SetQuorumPercentage(q) ==
    /\ q > 0 /\ q <= 100
    /\ quorumPercentage' = q
    /\ UNCHANGED <<tokenVars, now, proposalThreshold, majorityPercentage,
                   stakingSet, delegationVars, proposalVars>>

(* The range of majorityPercentage, and a range that starts too low.        *)
QuorumRange(m)   == m > 0 /\ m <= 100
MajorityRange(m) == m >= 51 /\ m <= 100

SetMajorityPercentage(m) ==
    /\ MajorityRange(m)
    /\ majorityPercentage' = m
    /\ UNCHANGED <<tokenVars, now, proposalThreshold, quorumPercentage,
                   stakingSet, delegationVars, proposalVars>>

SetBasketStaking(isSet) ==
    /\ stakingSet' = isSet
    /\ UNCHANGED <<tokenVars, now, proposalThreshold, quorumPercentage,
                   majorityPercentage, delegationVars, proposalVars>>

-----------------------------------------------------------------------------
(* The token and the staking contract, which know nothing of governance.    *)

Transfer(u, v, a) ==
    /\ u # v
    /\ wallet[u] >= a
    /\ wallet' = [wallet EXCEPT ![u] = @ - a, ![v] = @ + a]
    /\ UNCHANGED <<restOfStaking, totalSupply, govVars>>

(* mint() and burn(), called by the StakeBasket contract.                   *)
Mint(u, a) ==
    /\ totalSupply + a <= MaxSupply
    /\ wallet' = [wallet EXCEPT ![u] = @ + a]
    /\ totalSupply' = totalSupply + a
    /\ UNCHANGED <<restOfStaking, govVars>>

Burn(u, a) ==
    /\ wallet[u] >= a
    /\ totalSupply >= a
    /\ wallet' = [wallet EXCEPT ![u] = @ - a]
    /\ totalSupply' = totalSupply - a
    /\ UNCHANGED <<restOfStaking, govVars>>

StakingStep == Staking!Next /\ UNCHANGED <<totalSupply, govVars>>

Tick ==
    /\ now < MaxTime
    /\ now' = now + 1
    /\ UNCHANGED <<tokenVars, parameters, delegationVars, proposalVars>>

Next ==
    \/ \E u \in Users :
          \/ Propose(u)
          \/ \E id \in Ids, support \in 0..2 : CastVote(u, id, support)
          \/ \E delegatee \in {{}} \cup {{v} : v \in Users} :
                Delegate(u, delegatee)
          \/ \E v \in Users, a \in Amounts : Transfer(u, v, a)
          \/ \E a \in SupplyAmounts : Mint(u, a) \/ Burn(u, a)
    \/ \E id \in Ids : \/ Queue(id)
                       \/ Execute(id)
                       \/ \E u \in Users \cup {Owner} : Cancel(u, id)
    \/ \E t \in Thresholds : SetProposalThreshold(t)
    \/ \E p \in Percentages : \/ SetQuorumPercentage(p)
                              \/ SetMajorityPercentage(p)
    \/ \E isSet \in StakingChoices : SetBasketStaking(isSet)
    \/ StakingStep
    \/ Tick

Spec == Init /\ [][Next]_vars

-----------------------------------------------------------------------------
(* Type invariant.                                                          *)
ProposalRecords ==
    [proposer : SUBSET Users, startTime : Nat, endTime : Nat,
     executionTime : Nat, against : Nat, for : Nat, abstain : Nat,
     executed : BOOLEAN, voted : SUBSET Users, votes : [Users -> 0..2]]

TypeOK ==
    /\ Staking!TypeOK
    /\ totalSupply \in Nat
    /\ now \in Nat \ {0}
    /\ proposals \in [Ids -> ProposalRecords]
    /\ proposalCount \in 0..MaxProposals
    /\ proposalThreshold \in Nat
    /\ quorumPercentage \in 1..100
    /\ majorityPercentage \in 51..100
    /\ stakingSet \in BOOLEAN
    /\ delegates \in [Users -> SUBSET Users]
    /\ delegatedVotes \in [Users -> Nat]
    /\ weights \in [Ids -> [Users -> Nat]]
    /\ canceled \subseteq Ids

(* Every tally is the sum of one vote per voter, although balances, tiers,  *)
(* delegations and the multiplier's contract change between the votes: no   *)
(* account weighs in twice on a proposal (lines 188-209).                   *)
TallyExact ==
    \A id \in Ids :
        LET For(s) == {u \in proposals[id].voted : proposals[id].votes[u] = s}
        IN  /\ proposals[id].against = SumFunctionOnSet(weights[id], For(0))
            /\ proposals[id].for     = SumFunctionOnSet(weights[id], For(1))
            /\ proposals[id].abstain = SumFunctionOnSet(weights[id], For(2))

(* A vote that is over stays over: nothing, not even a late cancel, which   *)
(* moves endTime (line 257), lets anybody vote again or touches a tally.    *)
VotesFrozen ==
    [][\A id \in Made : now > proposals[id].endTime =>
          /\ now' > proposals'[id].endTime
          /\ <<proposals'[id].for, proposals'[id].against, proposals'[id].abstain>>
               = <<proposals[id].for, proposals[id].against, proposals[id].abstain>>
      ]_vars

(* What was executed had more votes for than against, whatever the owner    *)
(* made of the percentages and the supply did between the vote and the      *)
(* execution (lines 228-234, 290, 444).                                     *)
MajorityRules ==
    \A id \in Made :
        proposals[id].executed => proposals[id].for > proposals[id].against

(* An uncancelled proposal is executed only after its whole voting period,  *)
(* the second in which it reads as cancelled, and then the full delay.      *)
DelayRespected ==
    \A id \in Made \ canceled :
        proposals[id].executed =>
            now >= proposals[id].startTime + VOTING_PERIOD + 2 + EXECUTION_DELAY

(* A proposal is queued once and executed once: its execution time is never *)
(* pushed back and an executed proposal is never touched again (lines 216,  *)
(* 229, 254).                                                               *)
DecidedOnce ==
    [][\A id \in Made :
          /\ proposals[id].executionTime > 0 =>
                proposals'[id].executionTime = proposals[id].executionTime
          /\ proposals[id].executed => proposals'[id] = proposals[id]]_vars

(* docs/GOVERNANCE_SYSTEM.md:178, "Emergency Controls: Owner can cancel     *)
(* malicious proposals": what was cancelled is never executed.              *)
CanceledNeverExecuted == \A id \in canceled : ~proposals[id].executed

(* docs/GOVERNANCE_SYSTEM.md:52, "Votes weighted by BASKET holdings +       *)
(* staking multipliers": no proposal collects more weight than all the      *)
(* BASKET there ever was, at the highest multiplier.                        *)
VotesWithinSupply ==
    \A id \in Made :
        proposals[id].for + proposals[id].against + proposals[id].abstain
            <= (MaxSupply * 15000) \div 10000
=============================================================================
