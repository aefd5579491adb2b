--------------------------- MODULE TokenAuthority ---------------------------
(***************************************************************************)
(* contracts/core/tokens/StakeBasketToken.sol: which contract may mint and  *)
(* burn the shares.  The owner proposes another one and confirms it two     *)
(* days later, or sets it at once by the function kept for tests.           *)
(***************************************************************************)
EXTENDS Authority

VARIABLES
    stakeBasketContract,
    pendingStakeBasketContract,
    stakeBasketContractSetTime,
    confirmed,                \* history: how many proposals were confirmed
    now

pending == <<pendingStakeBasketContract, stakeBasketContractSetTime>>
vars    == <<stakeBasketContract, pending, confirmed, now>>

Init ==
    /\ stakeBasketContract = Zero
    /\ pendingStakeBasketContract = Zero
    /\ stakeBasketContractSetTime = 0
    /\ confirmed = [o \in {"contract"} |-> 0]
    /\ now = StartTime

ProposeStakeBasketContract(c) ==
    /\ c # stakeBasketContract
    /\ pendingStakeBasketContract' = c
    /\ stakeBasketContractSetTime' = now + TIMELOCK_DELAY
    /\ UNCHANGED <<stakeBasketContract, confirmed, now>>

(* What a confirmation leaves behind, the time alone reset and as it is.    *)
TimeCleared    == UNCHANGED pendingStakeBasketContract /\ stakeBasketContractSetTime' = 0
PendingCleared == pendingStakeBasketContract' = Zero /\ stakeBasketContractSetTime' = 0

ConfirmStakeBasketContract ==
    /\ pendingStakeBasketContract # Zero
    /\ now >= stakeBasketContractSetTime
    /\ stakeBasketContract' = pendingStakeBasketContract
    /\ PendingCleared
    /\ confirmed' = [confirmed EXCEPT !["contract"] = @ + 1]
    /\ UNCHANGED now

CancelStakeBasketContract ==
    /\ pendingStakeBasketContract' = Zero
    /\ stakeBasketContractSetTime' = 0
    /\ UNCHANGED <<stakeBasketContract, confirmed, now>>

(* A proposal that is pending stays so, and may be confirmed afterwards.    *)
EmergencySetStakeBasketContract(c) ==
    /\ stakeBasketContract' = c
    /\ UNCHANGED <<pending, confirmed, now>>

Tick ==
    /\ now < MaxClock
    /\ now' = now + 1
    /\ UNCHANGED <<stakeBasketContract, pending, confirmed>>

Next ==
    \/ \E c \in Contracts :
          ProposeStakeBasketContract(c) \/ EmergencySetStakeBasketContract(c)
    \/ ConfirmStakeBasketContract
    \/ CancelStakeBasketContract
    \/ Tick

Spec == Init /\ [][Next]_vars

-----------------------------------------------------------------------------
(* Type invariant: a pending contract always has a time, in at most a full  *)
(* delay from now.                                                          *)
TypeOK ==
    /\ stakeBasketContract \in Contracts \cup {Zero}
    /\ pendingStakeBasketContract \in Contracts \cup {Zero}
    /\ stakeBasketContractSetTime \in Nat
    /\ confirmed \in [{"contract"} -> Nat]
    /\ now \in Nat
    /\ stakeBasketContractSetTime <= now + TIMELOCK_DELAY
    /\ pendingStakeBasketContract # Zero <=> stakeBasketContractSetTime # 0

(* The change of the contract is a timelocked operation, the emergency      *)
(* function left aside (lines 38-60).                                       *)
Lock == INSTANCE Timelock
            WITH Operations <- {"contract"}, Delays <- {TIMELOCK_DELAY},
                 due <- [o \in {"contract"} |-> IF pendingStakeBasketContract = Zero
                                                THEN 0 ELSE stakeBasketContractSetTime],
                 effects <- confirmed

Timelocked == Lock!Spec
=============================================================================
