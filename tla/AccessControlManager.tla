------------------------ MODULE AccessControlManager ------------------------
(***************************************************************************)
(* contracts/security/AccessControlManager.sol: roles, proposals executed   *)
(* after a day, and emergency calls an hour apart.  A proposal's data and   *)
(* value are left out, and so are the pause, which no function looks at,    *)
(* and the roles that no function of this contract asks for.                *)
(***************************************************************************)
EXTENDS Authority

Roles == {"DEFAULT_ADMIN_ROLE", "ADMIN_ROLE", "EMERGENCY_ROLE"}
Ids   == 0..(MaxProposals - 1)

VARIABLES
    members,          \* role -> accounts that have it
    proposals,
    proposalNonce,
    lastActionTime,
    called,           \* history: how often a proposal's target was called
    now

vars == <<members, proposals, proposalNonce, lastActionTime, called, now>>

Deleted == [target |-> Zero, executeTime |-> 0, executed |-> FALSE]

Init ==
    /\ members = [r \in Roles |-> IF r = "EMERGENCY_ROLE" THEN {} ELSE {Owner}]
    /\ proposals = [id \in Ids |-> Deleted]
    /\ proposalNonce = 0
    /\ lastActionTime = [a \in Accounts |-> 0]
    /\ called = [id \in Ids |-> 0]
    /\ now = StartTime

(* The identifier is a hash over proposalNonce: no two are equal.  The      *)
(* target is not looked at: one for the zero address counts as missing.     *)
CreateProposal(by, target) ==
    /\ by \in members["ADMIN_ROLE"]
    /\ proposalNonce < MaxProposals
    /\ proposals' = [proposals EXCEPT ![proposalNonce] =
                        [target |-> target, executeTime |-> now + TIMELOCK_DELAY,
                         executed |-> FALSE]]
    /\ proposalNonce' = proposalNonce + 1
    /\ UNCHANGED <<members, lastActionTime, called, now>>

Pending(p) == p.target # Zero /\ ~p.executed

(* The proposal as it was, and marked.                                      *)
Unmarked(id) == proposals
Executed(id) == [proposals EXCEPT ![id].executed = TRUE]

(* A call that fails reverts everything, the mark included.                 *)
ExecuteProposal(by, id) ==
    /\ by \in members["ADMIN_ROLE"]
    /\ Pending(proposals[id])
    /\ now >= proposals[id].executeTime
    /\ proposals' = Executed(id)
    /\ called' = [called EXCEPT ![id] = @ + 1]
    /\ UNCHANGED <<members, proposalNonce, lastActionTime, now>>

CancelProposal(by, id) ==
    /\ by \in members["ADMIN_ROLE"]
    /\ Pending(proposals[id])
    /\ proposals' = [proposals EXCEPT ![id] = Deleted]
    /\ UNCHANGED <<members, proposalNonce, lastActionTime, called, now>>

EmergencyExecute(by) ==
    /\ by \in members["EMERGENCY_ROLE"]
    /\ now >= lastActionTime[by] + EMERGENCY_DELAY
    /\ lastActionTime' = [lastActionTime EXCEPT ![by] = now]
    /\ UNCHANGED <<members, proposals, proposalNonce, called, now>>

(* getRoleAdmin                                                             *)
AdminOf(role) ==
    IF role = "EMERGENCY_ROLE" THEN "ADMIN_ROLE" ELSE "DEFAULT_ADMIN_ROLE"

BatchGrantRole(by, role, accounts) ==
    /\ by \in members[AdminOf(role)]
    /\ members' = [members EXCEPT ![role] = @ \cup accounts]
    /\ UNCHANGED <<proposals, proposalNonce, lastActionTime, called, now>>

BatchRevokeRole(by, role, accounts) ==
    /\ by \in members[AdminOf(role)]
    /\ members' = [members EXCEPT ![role] = @ \ accounts]
    /\ UNCHANGED <<proposals, proposalNonce, lastActionTime, called, now>>

RenounceRole(by, role) ==
    /\ members' = [members EXCEPT ![role] = @ \ {by}]
    /\ UNCHANGED <<proposals, proposalNonce, lastActionTime, called, now>>

Tick ==
    /\ now < MaxClock
    /\ now' = now + 1
    /\ UNCHANGED <<members, proposals, proposalNonce, lastActionTime, called>>

Next ==
    \/ \E by \in Accounts :
          \/ \E target \in Contracts \cup {Zero} : CreateProposal(by, target)
          \/ \E id \in Ids : ExecuteProposal(by, id) \/ CancelProposal(by, id)
          \/ EmergencyExecute(by)
          \/ \E role \in Roles :
                \/ \E accounts \in SUBSET Accounts :
                      \/ BatchGrantRole(by, role, accounts)
                      \/ BatchRevokeRole(by, role, accounts)
                \/ RenounceRole(by, role)
    \/ Tick

Spec == Init /\ [][Next]_vars

-----------------------------------------------------------------------------
Proposals ==
    [target : Contracts \cup {Zero}, executeTime : Nat, executed : BOOLEAN]

(* Type invariant: in particular only proposals up to the nonce were ever   *)
(* written, and a pending one has a time.                                   *)
TypeOK ==
    /\ members \in [Roles -> SUBSET Accounts]
    /\ proposals \in [Ids -> Proposals]
    /\ proposalNonce \in 0..MaxProposals
    /\ lastActionTime \in [Accounts -> Nat]
    /\ called \in [Ids -> Nat]
    /\ now \in Nat
    /\ \A id \in Ids : id >= proposalNonce => proposals[id] = Deleted
    /\ \A id \in Ids : Pending(proposals[id]) => proposals[id].executeTime # 0

(* Every proposal is a timelocked operation (lines 48-56, 70-107, 142-147). *)
Lock == INSTANCE Timelock
            WITH Operations <- Ids, Delays <- {TIMELOCK_DELAY},
                 due <- [id \in Ids |-> IF Pending(proposals[id])
                                        THEN proposals[id].executeTime ELSE 0],
                 effects <- called

Timelocked == Lock!Spec
=============================================================================
