-------------------------- MODULE DelayedContracts --------------------------
(***************************************************************************)
(* The three contracts with delayed operations on one chain: who may mint   *)
(* shares (StakeBasketToken), the proposals of AccessControlManager and the *)
(* committee of CoreDAOGovernanceProxy.  A transaction is of one of them;   *)
(* the block time is common.                                                *)
(***************************************************************************)
EXTENDS Authority

VARIABLES
    stakeBasketContract, pendingStakeBasketContract, stakeBasketContractSetTime, confirmed,
    members, proposals, proposalNonce, lastActionTime, executions,
    governanceCommittee, requiredCommitteeSignatures, committeeApprovals, approvalCount,
    timelockExpiry, called,
    clock

Token     == INSTANCE TokenAuthority WITH now <- clock
Manager   == INSTANCE AccessControlManager WITH called <- executions, now <- clock
Committee == INSTANCE GovernanceCommittee WITH now <- clock

tokenVars     == <<stakeBasketContract, pendingStakeBasketContract,
                   stakeBasketContractSetTime, confirmed>>
managerVars   == <<members, proposals, proposalNonce, lastActionTime, executions>>
committeeVars == <<governanceCommittee, requiredCommitteeSignatures, committeeApprovals,
                   approvalCount, timelockExpiry, called>>
delayedVars   == <<tokenVars, managerVars, committeeVars, clock>>

DelayedInit == Token!Init /\ Manager!Init /\ Committee!Init

DelayedNext ==
    \/ Token!Next /\ UNCHANGED <<managerVars, committeeVars>>
    \/ Manager!Next /\ UNCHANGED <<tokenVars, committeeVars>>
    \/ Committee!Next /\ UNCHANGED <<tokenVars, managerVars>>

DelayedSpec == DelayedInit /\ [][DelayedNext]_delayedVars

-----------------------------------------------------------------------------
(* What is delayed happens once, after the delay of the last proposal, and  *)
(* never once it is cancelled: who may mint changes two days after it was   *)
(* proposed, the emergency function aside (StakeBasketToken.sol:38-60), the *)
(* manager calls a target a day after the proposal was created              *)
(* (AccessControlManager.sol:48-56, 70-107, 142-147), and the committee's   *)
(* action is executed once for each time it was scheduled                   *)
(* (CoreDAOGovernanceProxy.sol:559-605), on approvals of as many accounts   *)
(* as are counted (lines 574-601).  What is pending always has a time.      *)
Timelocked ==
    /\ Token!Timelocked /\ []Token!TypeOK
    /\ Manager!Timelocked /\ []Manager!TypeOK
    /\ Committee!Timelocked /\ []Committee!ApprovalsDistinct
=============================================================================
