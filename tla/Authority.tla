----------------------------- MODULE Authority -----------------------------
(***************************************************************************)
(* Who may act and how long it takes: the constants that the three          *)
(* contracts with delayed operations (StakeBasketToken, AccessControlManager*)
(* and the committee of CoreDAOGovernanceProxy) are modelled over.          *)
(***************************************************************************)
EXTENDS Integers, FiniteSets

CONSTANTS
    Accounts,             \* callers
    Owner,                \* owner of the token and of the proxy
    Contracts,            \* addresses a proposal may name
    Zero,                 \* the zero address
    Actions,              \* action hashes of the committee
    EMERGENCY_DELAY,      \* 1 hour, and the committee's 6 hours
    TIMELOCK_DELAY,       \* 24 hours; 2 days for the token
    StartTime,            \* block.timestamp of the deployment
    MaxProposals,         \* bound: proposals created
    MaxClock               \* bound: the clock

ASSUME AccountsAssumption == IsFiniteSet(Accounts) /\ Owner \in Accounts
ASSUME ZeroAssumption     == Zero \notin Contracts
ASSUME DelaysAssumption   == /\ EMERGENCY_DELAY \in Nat \ {0}
                             /\ TIMELOCK_DELAY \in Nat \ {0}
                             /\ StartTime \in Nat /\ StartTime >= EMERGENCY_DELAY
                             /\ MaxProposals \in Nat /\ MaxClock \in Nat
=============================================================================
