------------------------ MODULE GovernanceAutomation ------------------------
(***************************************************************************)
(* The cycle of GovernanceAutomationService.ts over the calls of           *)
(* CoreDAOGovernanceService.ts: Snapshot proposals are proposed to the     *)
(* BASKET holders through the governance proxy, and the votes that came    *)
(* out of it are cast back on Snapshot.  Every call is awaited, so cycles  *)
(* interleave at the calls; a cycle is a program counter over them.        *)
(***************************************************************************)
EXTENDS Naturals, Sequences, FiniteSets

CONSTANTS SnapshotIds,   \* proposals of the Snapshot space
          Tallies,       \* tallies a BASKET vote can end with
          Cycles,        \* bound: cycles in flight at once
          Recent,        \* proposals monitorBasketGovernanceVotes looks at (10)
          MaxProposals,  \* bound: BASKET proposals
          MaxStops       \* bound: emergency stops

\* Votes are counted in whole tokens.
ASSUME TalliesAssumption == Tallies \subseteq [for : Nat, against : Nat, abstain : Nat]

VARIABLES enabled,       \* config.enabled
          scheduled,     \* cronJob # null
          isRunning,     \* the guard of executeAutomationCycle
          cycle,         \* cycle[c]: step, and the proposals left to do in it
          active,        \* Snapshot: ids of the active proposals
          proposals,     \* BASKET proposals of the proxy: title, state, tally
          cast,          \* aggregated votes cast: <<proposal number, choice>>
          stops          \* emergency stops so far

governanceVars == <<enabled, scheduled, isRunning, cycle, active, proposals, cast, stops>>

Idle == [step |-> "idle", left |-> {}]
Numbers == DOMAIN proposals
NoVotes == [for |-> 0, against |-> 0, abstain |-> 0]
NewProposal(title) == [title |-> title, state |-> "active", tally |-> NoVotes]

GovernanceInit ==
  /\ enabled = TRUE
  /\ scheduled = FALSE
  /\ isRunning = FALSE
  /\ cycle = [c \in Cycles |-> Idle]
  /\ active = {}
  /\ proposals = <<>>
  /\ cast = {}
  /\ stops = 0

\* A filter one state too early: defeated proposals are among them.
CompletedOrDefeated == {n \in Numbers : proposals[n].state # "active"}

\* States 4 and above of BasketGovernance.state, of the last proposals that
\* the title tells to be about CoreDAO.
Completed ==
  {n \in Numbers : /\ n + Recent > Len(proposals)
                   /\ proposals[n].title # "delegation"
                   /\ proposals[n].state \in {"succeeded", "queued", "expired", "executed"}}

\* What monitorBasketGovernanceVotes may answer: a proposal that could not be
\* read is left out with a warning.
monitorBasketGovernanceVotes == SUBSET Completed

winningChoice(t) ==
  IF t.for > t.against /\ t.for > t.abstain THEN "For"
  ELSE IF t.against > t.for /\ t.against > t.abstain THEN "Against"
  ELSE "Abstain"

\* The vote prepared for Snapshot (and logged; nothing is sent yet).  It names
\* the BASKET proposal, not the Snapshot one.
castAggregatedVote(n) == <<n, winningChoice(proposals[n].tally)>>

-----------------------------------------------------------------------------
start ==
  /\ enabled /\ ~scheduled
  /\ scheduled' = TRUE
  /\ UNCHANGED <<enabled, isRunning, cycle, active, proposals, cast, stops>>

stop ==
  /\ scheduled
  /\ scheduled' = FALSE
  /\ UNCHANGED <<enabled, isRunning, cycle, active, proposals, cast, stops>>

\* updateConfig restarts the job when the schedule changes: the job is gone
\* if the new configuration is disabled.
updateConfig(on, newSchedule) ==
  /\ enabled' = on
  /\ scheduled' = IF newSchedule /\ scheduled THEN on ELSE scheduled
  /\ UNCHANGED <<isRunning, cycle, active, proposals, cast, stops>>

emergencyStop ==
  /\ scheduled' = FALSE
  /\ isRunning' = FALSE
  /\ stops < MaxStops /\ stops' = stops + 1
  /\ UNCHANGED <<enabled, cycle, active, proposals, cast>>

\* A cycle that does not look at the flag.
CycleBeginsUnguarded(c) ==
  /\ cycle[c] = Idle
  /\ isRunning' = TRUE
  /\ cycle' = [cycle EXCEPT ![c] = [step |-> "fetch1", left |-> {}]]
  /\ UNCHANGED <<enabled, scheduled, active, proposals, cast, stops>>

\* executeAutomationCycle is skipped while the flag is set, ...
CycleBegins(c) ==
  /\ cycle[c] = Idle
  /\ ~isRunning
  /\ isRunning' = TRUE
  /\ cycle' = [cycle EXCEPT ![c] = [step |-> "fetch1", left |-> {}]]
  /\ UNCHANGED <<enabled, scheduled, active, proposals, cast, stops>>

\* ... whether the job calls it (as long as there is one) or a caller does.
CronFires(c) == scheduled /\ CycleBegins(c)
triggerManualCycle(c) == CycleBegins(c)

\* The awaited calls of a cycle in their order: those of
\* processPendingGovernanceActions, of checkForNewProposals, of
\* processCompletedVotes and of logGovernanceStats.  The delegation steps
\* before the last are placeholders.
StepAfter == [fetch1 |-> "propose1", propose1 |-> "votes1", votes1 |-> "fetch2",
              fetch2 |-> "propose2", propose2 |-> "votes2", votes2 |-> "stats1",
              stats1 |-> "stats2", stats2 |-> "idle"]

Goes(c, step, left) == cycle' = [cycle EXCEPT ![c] = [step |-> step, left |-> left]]

\* An end without the finally block.
CycleEndsBusy(c) == Goes(c, "idle", {}) /\ UNCHANGED isRunning

\* The finally block.
CycleEnds(c) == Goes(c, "idle", {}) /\ isRunning' = FALSE

GoesOn(c, left) == Goes(c, StepAfter[cycle[c].step], left) /\ UNCHANGED isRunning

\* A call throws: processPendingGovernanceActions throws on and the cycle is
\* over, the others log it and their step is over; a proposal that cannot be
\* made is just skipped.
CallThrows(c, skipped) ==
  \/ cycle[c].step \in {"fetch1", "propose1", "votes1"} /\ CycleEnds(c)
  \/ /\ UNCHANGED isRunning
     /\ \/ cycle[c].step = "fetch2" /\ Goes(c, "votes2", {})
        \/ cycle[c].step = "votes2" /\ Goes(c, "stats1", {})
        \/ cycle[c].step = "propose2" /\ Goes(c, "propose2", cycle[c].left \ skipped)

\* fetchCoreDAOProposals answers with the proposals active then.
FetchAnswers(c, ok) ==
  /\ cycle[c].step \in {"fetch1", "fetch2"}
  /\ IF ok THEN GoesOn(c, active) ELSE CallThrows(c, {})
  /\ UNCHANGED <<enabled, scheduled, active, proposals, cast, stops>>

\* createProxyProposal for the next proposal of the answer; the contract keeps
\* no record of the Snapshot id, so a second one is made.
ProposeAnswers(c, id, ok) ==
  /\ cycle[c].step \in {"propose1", "propose2"}
  /\ id \in cycle[c].left
  /\ IF ok
     THEN /\ Len(proposals) < MaxProposals
          /\ proposals' = Append(proposals, NewProposal(id))
          /\ Goes(c, cycle[c].step, cycle[c].left \ {id})
          /\ UNCHANGED isRunning
     ELSE CallThrows(c, {id}) /\ UNCHANGED proposals
  /\ UNCHANGED <<enabled, scheduled, active, cast, stops>>

ProposeDone(c) ==
  /\ cycle[c].step \in {"propose1", "propose2"}
  /\ cycle[c].left = {}
  /\ GoesOn(c, {})
  /\ UNCHANGED <<enabled, scheduled, active, proposals, cast, stops>>

\* The completed votes are read and each is cast with its winning choice.
VotesAnswer(c, read, ok) ==
  /\ cycle[c].step \in {"votes1", "votes2"}
  /\ read \in monitorBasketGovernanceVotes
  /\ cast' = IF ok THEN cast \cup {castAggregatedVote(n) : n \in read} ELSE cast
  /\ IF ok THEN GoesOn(c, {}) ELSE CallThrows(c, {})
  /\ UNCHANGED <<enabled, scheduled, active, proposals, stops>>

\* getGovernanceStats fetches the proposals and then the votes, for the log
\* only.
StatisticsAnswer(c, ok) ==
  /\ cycle[c].step \in {"stats1", "stats2"}
  /\ IF ok /\ cycle[c].step = "stats1" THEN GoesOn(c, {}) ELSE CycleEnds(c)
  /\ UNCHANGED <<enabled, scheduled, active, proposals, cast, stops>>

\* createValidatorDelegationProposal and createHashPowerDelegationProposal, at
\* any time and beside the cycles: the proxy proposes to the BASKET holders
\* under a title of its own (a call that fails changes nothing).
createDelegationProposal ==
  /\ Len(proposals) < MaxProposals
  /\ proposals' = Append(proposals, NewProposal("delegation"))
  /\ UNCHANGED <<enabled, scheduled, isRunning, cycle, active, cast, stops>>

\* Snapshot opens and closes proposals; the BASKET holders vote, and the vote
\* ends: succeeded when For has more than Against (BasketGovernance.state).
SnapshotChanges(id) ==
  /\ active' = IF id \in active THEN active \ {id} ELSE active \cup {id}
  /\ UNCHANGED <<enabled, scheduled, isRunning, cycle, proposals, cast, stops>>

VoteEnds(n, t) ==
  /\ n \in Numbers /\ proposals[n].state = "active"
  /\ proposals' = [proposals EXCEPT ![n] =
       [title |-> @.title, tally |-> t,
        state |-> IF t.for > t.against THEN "succeeded" ELSE "defeated"]]
  /\ UNCHANGED <<enabled, scheduled, isRunning, cycle, active, cast, stops>>

CycleAnswers(c) ==
  \/ \E ok \in BOOLEAN : FetchAnswers(c, ok)
  \/ \E read \in SUBSET Numbers, ok \in BOOLEAN : VotesAnswer(c, read, ok)
  \/ \E id \in SnapshotIds, ok \in BOOLEAN : ProposeAnswers(c, id, ok)
  \/ \E ok \in BOOLEAN : StatisticsAnswer(c, ok)
  \/ ProposeDone(c)

GovernanceNext ==
  \/ start \/ stop \/ emergencyStop \/ createDelegationProposal
  \/ \E on, new \in BOOLEAN : updateConfig(on, new)
  \/ \E c \in Cycles : CronFires(c) \/ triggerManualCycle(c) \/ CycleAnswers(c)
  \/ \E id \in SnapshotIds : SnapshotChanges(id)
  \/ \E n \in Numbers, t \in Tallies : VoteEnds(n, t)

GovernanceSpec == GovernanceInit /\ [][GovernanceNext]_governanceVars

-----------------------------------------------------------------------------
InFlight == {c \in Cycles : cycle[c] # Idle}

\* The guard "already in progress, skipping" keeps cycles apart, and each
\* emergency stop, which clears the flag under a cycle that goes on, lets at
\* most one more be in flight (lines 79, 110 and 349).
CyclesBounded == Cardinality(InFlight) <= stops + IF isRunning THEN 1 ELSE 0

\* The flag is released whatever call fails, so that a later cycle can run.
GuardReleased == isRunning ~> ~isRunning

\* What is cast on Snapshot is the outcome of a vote that the holders passed:
\* one choice a proposal however often it is cast, never Against, and never
\* a decision about anything but CoreDAO proposals.
CastFollowsHolders ==
  \A v \in cast :
    /\ proposals[v[1]].tally.for > proposals[v[1]].tally.against
    /\ proposals[v[1]].title \in SnapshotIds
    /\ v[2] \in {"For", "Abstain"}
    /\ \A w \in cast : w[1] = v[1] => w = v
=============================================================================
