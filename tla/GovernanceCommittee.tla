------------------------ MODULE GovernanceCommittee -------------------------
(***************************************************************************)
(* The committee of contracts/core/governance/CoreDAOGovernanceProxy.sol:   *)
(* an action is scheduled, approved by several members and executed after   *)
(* its delay.  The members change meanwhile.  An action is its hash: no     *)
(* function ties a target or data to it, so what an execution calls is its  *)
(* caller's choice and is left out.                                         *)
(***************************************************************************)
EXTENDS Authority

VARIABLES
    governanceCommittee,
    requiredCommitteeSignatures,
    committeeApprovals,       \* action -> who approved
    approvalCount,
    timelockExpiry,           \* action -> time, 0 if not scheduled
    called,                   \* history: how often an action was executed
    now

committee == <<governanceCommittee, requiredCommitteeSignatures>>
approved  == <<committeeApprovals, approvalCount>>
vars      == <<committee, approved, timelockExpiry, called, now>>

Init ==
    /\ governanceCommittee = {}
    /\ requiredCommitteeSignatures = 2
    /\ committeeApprovals = [a \in Actions |-> {}]
    /\ approvalCount = [a \in Actions |-> 0]
    /\ timelockExpiry = [a \in Actions |-> 0]
    /\ called = [a \in Actions |-> 0]
    /\ now = StartTime

(* onlyCommittee                                                            *)
OnCommittee(by) == by \in governanceCommittee \/ by = Owner

ScheduleGovernanceAction(by, a, isEmergency) ==
    /\ OnCommittee(by)
    /\ timelockExpiry[a] = 0
    /\ timelockExpiry' = [timelockExpiry EXCEPT ![a] =
                             now + (IF isEmergency THEN EMERGENCY_DELAY ELSE TIMELOCK_DELAY)]
    /\ UNCHANGED <<committee, approved, called, now>>

(* One may approve before the action is scheduled.                          *)
ApproveGovernanceAction(by, a) ==
    /\ OnCommittee(by)
    /\ by \notin committeeApprovals[a]
    /\ committeeApprovals' = [committeeApprovals EXCEPT ![a] = @ \cup {by}]
    /\ approvalCount' = [approvalCount EXCEPT ![a] = @ + 1]
    /\ UNCHANGED <<committee, timelockExpiry, called, now>>

(* The time left standing, and reset.                                       *)
StillScheduled(a) == timelockExpiry
Unscheduled(a)    == [timelockExpiry EXCEPT ![a] = 0]

(* The count left standing, and reset.                                      *)
CountKept(a)    == approvalCount
CountCleared(a) == [approvalCount EXCEPT ![a] = 0]

(* Only the approvals of the present members are cleared: those of former   *)
(* members, and of an owner who is none, stay.                              *)
ExecuteGovernanceAction(by, a) ==
    /\ OnCommittee(by)
    /\ timelockExpiry[a] # 0
    /\ now >= timelockExpiry[a]
    /\ approvalCount[a] >= requiredCommitteeSignatures
    /\ timelockExpiry' = Unscheduled(a)
    /\ approvalCount' = CountCleared(a)
    /\ committeeApprovals' = [committeeApprovals EXCEPT ![a] = @ \ governanceCommittee]
    /\ called' = [called EXCEPT ![a] = @ + 1]
    /\ UNCHANGED <<committee, now>>

AddCommitteeMember(m) ==
    /\ m \notin governanceCommittee
    /\ governanceCommittee' = governanceCommittee \cup {m}
    /\ UNCHANGED <<requiredCommitteeSignatures, approved, timelockExpiry, called, now>>

RemoveCommitteeMember(m) ==
    /\ m \in governanceCommittee
    /\ governanceCommittee' = governanceCommittee \ {m}
    /\ UNCHANGED <<requiredCommitteeSignatures, approved, timelockExpiry, called, now>>

(* Its other three parameters belong to parts that are not modelled.        *)
SetGovernanceParameters(required) ==
    /\ required <= Cardinality(governanceCommittee)
    /\ requiredCommitteeSignatures' = required
    /\ UNCHANGED <<governanceCommittee, approved, timelockExpiry, called, now>>

Tick ==
    /\ now < MaxClock
    /\ now' = now + 1
    /\ UNCHANGED <<committee, approved, timelockExpiry, called>>

Next ==
    \/ \E by \in Accounts, a \in Actions :
          \/ \E isEmergency \in BOOLEAN : ScheduleGovernanceAction(by, a, isEmergency)
          \/ ApproveGovernanceAction(by, a)
          \/ ExecuteGovernanceAction(by, a)
    \/ \E m \in Accounts : AddCommitteeMember(m) \/ RemoveCommitteeMember(m)
    \/ \E required \in 0..Cardinality(Accounts) : SetGovernanceParameters(required)
    \/ Tick

Spec == Init /\ [][Next]_vars

-----------------------------------------------------------------------------
TypeOK ==
    /\ governanceCommittee \subseteq Accounts
    /\ requiredCommitteeSignatures \in Nat
    /\ committeeApprovals \in [Actions -> SUBSET Accounts]
    /\ approvalCount \in [Actions -> Nat]
    /\ timelockExpiry \in [Actions -> Nat]
    /\ called \in [Actions -> Nat]
    /\ now \in Nat

(* What is counted are approvals of different accounts, whoever joined or   *)
(* left and however often the action was executed before (lines 574-601).   *)
ApprovalsDistinct ==
    \A a \in Actions : approvalCount[a] <= Cardinality(committeeApprovals[a])

(* Every action is a timelocked operation: it is executed once for each     *)
(* time it was scheduled, after its delay (lines 559-605).                  *)
Lock == INSTANCE Timelock
            WITH Operations <- Actions, Delays <- {EMERGENCY_DELAY, TIMELOCK_DELAY},
                 due <- timelockExpiry, effects <- called

Timelocked == Lock!Spec
=============================================================================
