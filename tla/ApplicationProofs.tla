-------------------------- MODULE ApplicationProofs --------------------------
(***************************************************************************)
(* What TLAPS proves beside the contracts of the baskets: of the backend's *)
(* governance automation, faucet and monitoring, of the price feed and the *)
(* averages of prices, of the pages of the frontend and the deployment     *)
(* scripts, for any number of cycles, requests and runs in flight, any     *)
(* proposals, addresses, prices, chains and amounts, any cooldowns and     *)
(* configurations, and all bounds.                                         *)
(***************************************************************************)
EXTENDS GovernanceAutomation, Faucet, Monitoring, PriceFeed, PriceSecurityModule, Frontend,
        SumTheorems, TLAPS

-----------------------------------------------------------------------------
(* Cycles of the governance automation.                                     *)

CycleSteps == DOMAIN StepAfter \cup {"idle"}

LEMMA NextStep ==
    ASSUME NEW s \in DOMAIN StepAfter
    PROVE  /\ StepAfter[s] \in CycleSteps
           /\ s # "stats2" => StepAfter[s] # "idle"
  BY DEF StepAfter, CycleSteps

CyclesTyped ==
    /\ cycle \in [Cycles -> [step : CycleSteps, left : SUBSET SnapshotIds]]
    /\ active \subseteq SnapshotIds
    /\ isRunning \in BOOLEAN
    /\ stops \in Nat
    /\ IsFiniteSet(InFlight)

CyclesInv == CyclesTyped /\ CyclesBounded

(* Where a cycle that is under way goes, others stay where they are.        *)
LEMMA CycleMoves ==
    ASSUME CyclesInv, NEW c \in Cycles, cycle[c].step # "idle",
           NEW s \in CycleSteps, NEW left \in SUBSET SnapshotIds, Goes(c, s, left)
    PROVE  /\ cycle' \in [Cycles -> [step : CycleSteps, left : SUBSET SnapshotIds]]
           /\ c \in InFlight
           /\ s # "idle" => InFlight' = InFlight
           /\ s = "idle" /\ left = {} => InFlight' = InFlight \ {c}
<1>1. cycle' = [cycle EXCEPT ![c] = [step |-> s, left |-> left]]  BY DEF Goes
<1>2. cycle \in [Cycles -> [step : CycleSteps, left : SUBSET SnapshotIds]]
  BY DEF CyclesInv, CyclesTyped
<1>3. [step |-> s, left |-> left] \in [step : CycleSteps, left : SUBSET SnapshotIds]
  OBVIOUS
<1>4. cycle'[c] = [step |-> s, left |-> left] /\ \A d \in Cycles \ {c} : cycle'[d] = cycle[d]
  BY <1>1, <1>2
<1>5. cycle[c] # Idle  BY DEF Idle
<1>6. s # "idle" => cycle'[c] # Idle  BY <1>4 DEF Idle
<1>7. s = "idle" /\ left = {} => cycle'[c] = Idle  BY <1>4 DEF Idle
<1>8. QED  BY <1>1, <1>2, <1>3, <1>4, <1>5, <1>6, <1>7 DEF InFlight

(* A cycle that goes on takes no more room, and one that ends makes room.   *)
LEMMA GoingOnKeeps ==
    ASSUME CyclesInv, NEW c \in Cycles, cycle[c].step # "idle",
           NEW s \in CycleSteps \ {"idle"}, NEW left \in SUBSET SnapshotIds, Goes(c, s, left),
           UNCHANGED <<isRunning, active, stops>>
    PROVE  CyclesInv'
<1>1. /\ cycle' \in [Cycles -> [step : CycleSteps, left : SUBSET SnapshotIds]]
      /\ InFlight' = InFlight
  BY CycleMoves
<1>2. QED  BY <1>1 DEF CyclesInv, CyclesTyped, CyclesBounded

LEMMA EndingKeeps ==
    ASSUME CyclesInv, NEW c \in Cycles, cycle[c].step # "idle", CycleEnds(c),
           UNCHANGED <<active, stops>>
    PROVE  CyclesInv'
<1>1. Goes(c, "idle", {}) /\ isRunning' = FALSE  BY DEF CycleEnds
<1>2. "idle" \in CycleSteps  BY DEF CycleSteps
<1>3. /\ cycle' \in [Cycles -> [step : CycleSteps, left : SUBSET SnapshotIds]]
      /\ c \in InFlight /\ InFlight' = InFlight \ {c}
  BY <1>1, <1>2, CycleMoves
<1>4. IsFiniteSet(InFlight) /\ stops \in Nat /\ isRunning \in BOOLEAN
      /\ Cardinality(InFlight) <= stops + IF isRunning THEN 1 ELSE 0
  BY DEF CyclesInv, CyclesTyped, CyclesBounded
<1>5. /\ IsFiniteSet(InFlight') /\ Cardinality(InFlight') = Cardinality(InFlight) - 1
      /\ Cardinality(InFlight) \in Nat
  BY <1>3, <1>4, FS_RemoveElement, FS_CardinalityType
<1>6. Cardinality(InFlight') <= stops  BY <1>4, <1>5
<1>7. CyclesTyped'  BY <1>1, <1>3, <1>5 DEF CyclesInv, CyclesTyped
<1>8. CyclesBounded'  BY <1>1, <1>4, <1>6 DEF CyclesBounded
<1>9. QED  BY <1>7, <1>8 DEF CyclesInv

LEMMA BeginningKeeps ==
    ASSUME CyclesInv, NEW c \in Cycles, CycleBegins(c)
    PROVE  CyclesInv'
<1> DEFINE begun == [step |-> "fetch1", left |-> {}]
<1>1. /\ cycle[c] = Idle /\ ~isRunning /\ isRunning' = TRUE
      /\ cycle' = [cycle EXCEPT ![c] = begun]
      /\ active' = active /\ stops' = stops
  BY DEF CycleBegins
<1>2. cycle \in [Cycles -> [step : CycleSteps, left : SUBSET SnapshotIds]]
  BY DEF CyclesInv, CyclesTyped
<1>3. begun \in [step : CycleSteps, left : SUBSET SnapshotIds]
  BY DEF CycleSteps, StepAfter
<1>4. begun # Idle  BY DEF Idle
<1>5. c \notin InFlight /\ InFlight' = InFlight \cup {c}
  BY <1>1, <1>2, <1>4 DEF InFlight
<1>6. IsFiniteSet(InFlight) /\ stops \in Nat /\ Cardinality(InFlight) <= stops
  BY <1>1 DEF CyclesInv, CyclesTyped, CyclesBounded
<1>7. IsFiniteSet(InFlight') /\ Cardinality(InFlight') = Cardinality(InFlight) + 1
  BY <1>5, <1>6, FS_AddElement
<1>8. Cardinality(InFlight') <= stops + 1  BY <1>6, <1>7, FS_CardinalityType
<1>9. CyclesTyped'  BY <1>1, <1>2, <1>3, <1>7 DEF CyclesInv, CyclesTyped
<1>10. CyclesBounded'  BY <1>1, <1>8 DEF CyclesBounded
<1>11. QED  BY <1>9, <1>10 DEF CyclesInv

(* The answer of any call.                                                  *)
LEMMA ThrowingKeeps ==
    ASSUME CyclesInv, NEW c \in Cycles, NEW skipped, CallThrows(c, skipped),
           UNCHANGED <<active, stops>>
    PROVE  CyclesInv'
<1>1. CASE cycle[c].step \in {"fetch1", "propose1", "votes1"} /\ CycleEnds(c)
  BY <1>1, EndingKeeps
<1>2. CASE cycle[c].step = "fetch2" /\ Goes(c, "votes2", {}) /\ UNCHANGED isRunning
  BY <1>2, GoingOnKeeps DEF CycleSteps, StepAfter
<1>3. CASE cycle[c].step = "votes2" /\ Goes(c, "stats1", {}) /\ UNCHANGED isRunning
  BY <1>3, GoingOnKeeps DEF CycleSteps, StepAfter
<1>4. CASE /\ cycle[c].step = "propose2" /\ Goes(c, "propose2", cycle[c].left \ skipped)
           /\ UNCHANGED isRunning
  <2>1. cycle[c].left \ skipped \in SUBSET SnapshotIds  BY DEF CyclesInv, CyclesTyped
  <2>2. QED  BY <1>4, <2>1, GoingOnKeeps DEF CycleSteps, StepAfter
<1>5. QED  BY <1>1, <1>2, <1>3, <1>4 DEF CallThrows

LEMMA GoesOnKeeps ==
    ASSUME CyclesInv, NEW c \in Cycles, cycle[c].step \in DOMAIN StepAfter \ {"stats2"},
           NEW left \in SUBSET SnapshotIds, GoesOn(c, left), UNCHANGED <<active, stops>>
    PROVE  CyclesInv'
<1>1. cycle[c].step # "idle"  BY DEF StepAfter
<1>2. StepAfter[cycle[c].step] \in CycleSteps \ {"idle"}  BY NextStep
<1>3. QED  BY <1>1, <1>2, GoingOnKeeps DEF GoesOn

LEMMA CyclesStep == CyclesInv /\ [GovernanceNext]_governanceVars => CyclesInv'
<1> SUFFICES ASSUME CyclesInv, [GovernanceNext]_governanceVars PROVE CyclesInv'
  OBVIOUS
<1>1. ASSUME UNCHANGED <<cycle, active, isRunning, stops>> PROVE CyclesInv'
  BY <1>1 DEF CyclesInv, CyclesTyped, CyclesBounded, InFlight
<1>2. CASE start \/ stop \/ createDelegationProposal
  BY <1>1, <1>2 DEF start, stop, createDelegationProposal
<1>3. CASE emergencyStop
  <2>1. /\ isRunning' = FALSE /\ stops' = stops + 1 /\ cycle' = cycle /\ active' = active
    BY <1>3 DEF emergencyStop
  <2>2. InFlight' = InFlight  BY <2>1 DEF InFlight
  <2>3. stops \in Nat /\ Cardinality(InFlight) \in Nat /\ isRunning \in BOOLEAN
        /\ Cardinality(InFlight) <= stops + IF isRunning THEN 1 ELSE 0
    BY FS_CardinalityType DEF CyclesInv, CyclesTyped, CyclesBounded
  <2>4. Cardinality(InFlight) <= stops + 1  BY <2>3
  <2>5. CyclesBounded'
    <3>1. Cardinality(InFlight') <= stops'  BY <2>1, <2>2, <2>4
    <3>2. stops' + (IF isRunning' THEN 1 ELSE 0) = stops'  BY <2>1, <2>3
    <3>3. QED  BY <3>1, <3>2 DEF CyclesBounded
  <2>6. CyclesTyped'
    <3>1. stops' \in Nat  BY <2>1, <2>3
    <3>2. QED  BY <2>1, <2>2, <3>1 DEF CyclesInv, CyclesTyped
  <2>7. QED  BY <2>5, <2>6 DEF CyclesInv
<1>4. ASSUME NEW on \in BOOLEAN, NEW new \in BOOLEAN, updateConfig(on, new) PROVE CyclesInv'
  BY <1>1, <1>4 DEF updateConfig
<1>5. ASSUME NEW c \in Cycles, CronFires(c) \/ triggerManualCycle(c) PROVE CyclesInv'
  BY <1>5, BeginningKeeps DEF CronFires, triggerManualCycle
<1>6. ASSUME NEW c \in Cycles, CycleAnswers(c) PROVE CyclesInv'
  <2>1. ASSUME NEW ok \in BOOLEAN, FetchAnswers(c, ok) PROVE CyclesInv'
    <3>1. /\ cycle[c].step \in {"fetch1", "fetch2"} /\ UNCHANGED <<active, stops>>
          /\ IF ok THEN GoesOn(c, active) ELSE CallThrows(c, {})
      BY <2>1 DEF FetchAnswers
    <3>2. active \in SUBSET SnapshotIds  BY DEF CyclesInv, CyclesTyped
    <3>3. cycle[c].step \in DOMAIN StepAfter \ {"stats2"}  BY <3>1 DEF StepAfter
    <3>4. QED  BY <3>1, <3>2, <3>3, GoesOnKeeps, ThrowingKeeps
  <2>2. ASSUME NEW answers, NEW ok \in BOOLEAN, VotesAnswer(c, answers, ok) PROVE CyclesInv'
    <3>1. /\ cycle[c].step \in {"votes1", "votes2"} /\ UNCHANGED <<active, stops>>
          /\ IF ok THEN GoesOn(c, {}) ELSE CallThrows(c, {})
      BY <2>2 DEF VotesAnswer
    <3>2. cycle[c].step \in DOMAIN StepAfter \ {"stats2"}  BY <3>1 DEF StepAfter
    <3>3. QED  BY <3>1, <3>2, GoesOnKeeps, ThrowingKeeps
  <2>3. ASSUME NEW id \in SnapshotIds, NEW ok \in BOOLEAN, ProposeAnswers(c, id, ok)
        PROVE  CyclesInv'
    <3>1. /\ cycle[c].step \in {"propose1", "propose2"} /\ UNCHANGED <<active, stops>>
          /\ \/ Goes(c, cycle[c].step, cycle[c].left \ {id}) /\ UNCHANGED isRunning
             \/ CallThrows(c, {id})
      BY <2>3 DEF ProposeAnswers
    <3>2. cycle[c].step \in CycleSteps \ {"idle"}  BY <3>1 DEF CycleSteps, StepAfter
    <3>3. cycle[c].left \ {id} \in SUBSET SnapshotIds  BY DEF CyclesInv, CyclesTyped
    <3>4. QED  BY <3>1, <3>2, <3>3, GoingOnKeeps, ThrowingKeeps
  <2>4. ASSUME NEW ok \in BOOLEAN, StatisticsAnswer(c, ok) PROVE CyclesInv'
    <3>1. /\ cycle[c].step \in {"stats1", "stats2"} /\ UNCHANGED <<active, stops>>
          /\ \/ cycle[c].step = "stats1" /\ GoesOn(c, {})
             \/ CycleEnds(c)
      BY <2>4 DEF StatisticsAnswer
    <3>2. cycle[c].step = "stats1" => cycle[c].step \in DOMAIN StepAfter \ {"stats2"}
      BY DEF StepAfter
    <3>3. QED  BY <3>1, <3>2, GoesOnKeeps, EndingKeeps
  <2>5. CASE ProposeDone(c)
    <3>1. /\ cycle[c].step \in {"propose1", "propose2"} /\ UNCHANGED <<active, stops>>
          /\ GoesOn(c, {})
      BY <2>5 DEF ProposeDone
    <3>2. cycle[c].step \in DOMAIN StepAfter \ {"stats2"}  BY <3>1 DEF StepAfter
    <3>3. QED  BY <3>1, <3>2, GoesOnKeeps
  <2>6. QED  BY <1>6, <2>1, <2>2, <2>3, <2>4, <2>5 DEF CycleAnswers
<1>7. ASSUME NEW id \in SnapshotIds, SnapshotChanges(id) PROVE CyclesInv'
  <2>1. active' \subseteq SnapshotIds
    BY <1>7 DEF SnapshotChanges, CyclesInv, CyclesTyped
  <2>2. QED
    BY <1>7, <2>1 DEF SnapshotChanges, CyclesInv, CyclesTyped, CyclesBounded, InFlight
<1>8. ASSUME NEW n, NEW t, VoteEnds(n, t) PROVE CyclesInv'
  BY <1>1, <1>8 DEF VoteEnds
<1>9. CASE UNCHANGED governanceVars
  BY <1>1, <1>9 DEF governanceVars
<1>10. QED
  BY <1>2, <1>3, <1>4, <1>5, <1>6, <1>7, <1>8, <1>9 DEF GovernanceNext

(* However calls answer and fail, and whenever the service is stopped and   *)
(* started: the cycles in flight are at most the one the flag stands for    *)
(* and one for each emergency stop.                                         *)
THEOREM CyclesAlwaysBounded == GovernanceSpec => []CyclesBounded
<1>1. GovernanceInit => CyclesInv
  <2> SUFFICES ASSUME GovernanceInit PROVE CyclesInv
    OBVIOUS
  <2>1. InFlight = {}  BY DEF GovernanceInit, InFlight
  <2>2. IsFiniteSet(InFlight) /\ Cardinality(InFlight) = 0  BY <2>1, FS_EmptySet
  <2>3. Idle \in [step : CycleSteps, left : SUBSET SnapshotIds]  BY DEF Idle, CycleSteps
  <2>4. CyclesTyped  BY <2>2, <2>3 DEF GovernanceInit, CyclesTyped
  <2>5. CyclesBounded  BY <2>2 DEF GovernanceInit, CyclesBounded
  <2>6. QED  BY <2>4, <2>5 DEF CyclesInv
<1>2. CyclesInv => CyclesBounded  BY DEF CyclesInv
<1>3. QED  BY <1>1, <1>2, CyclesStep, PTL DEF GovernanceSpec

(* What is cast: the outcome of a vote that has ended, of a proposal whose  *)
(* title tells it to be about CoreDAO.                                      *)
BasketProposals == [title : SnapshotIds \cup {"delegation"},
                    state : {"active", "succeeded", "defeated"},
                    tally : Tallies \cup {NoVotes}]

ProposalsTyped == proposals \in Seq(BasketProposals)

SucceededPassed ==
    \A n \in Numbers : proposals[n].state = "succeeded" =>
        proposals[n].tally.for > proposals[n].tally.against

CastStands ==
    \A v \in cast : /\ v[1] \in Numbers
                    /\ proposals[v[1]].state = "succeeded"
                    /\ proposals[v[1]].title # "delegation"
                    /\ v = castAggregatedVote(v[1])

CastInv == ProposalsTyped /\ SucceededPassed /\ CastStands

LEMMA ProposalFields ==
    ASSUME ProposalsTyped, NEW n \in Numbers
    PROVE  /\ proposals[n] \in BasketProposals
           /\ proposals[n].title \in SnapshotIds \cup {"delegation"}
           /\ proposals[n].state \in {"active", "succeeded", "defeated"}
           /\ proposals[n].tally \in Tallies \cup {NoVotes}
<1>1. proposals[n] \in BasketProposals  BY DEF ProposalsTyped, Numbers
<1>2. QED  BY <1>1 DEF BasketProposals

(* A new proposal changes no old one.                                       *)
LEMMA ProposalAppended ==
    ASSUME CastInv, NEW title \in SnapshotIds \cup {"delegation"},
           proposals' = Append(proposals, NewProposal(title)), cast' = cast
    PROVE  CastInv'
<1>1. NewProposal(title) \in BasketProposals  BY DEF NewProposal, BasketProposals
<1>2. ProposalsTyped'  BY <1>1 DEF CastInv, ProposalsTyped
<1>3. /\ Numbers' = Numbers \cup {Len(proposals) + 1}
      /\ \A n \in Numbers : proposals'[n] = proposals[n]
      /\ proposals'[Len(proposals) + 1].state = "active"
  BY DEF CastInv, ProposalsTyped, Numbers, NewProposal
<1>4. SucceededPassed'  BY <1>3 DEF CastInv, SucceededPassed
<1>5. CastStands'  BY <1>3 DEF CastInv, CastStands, castAggregatedVote
<1>6. QED  BY <1>2, <1>4, <1>5 DEF CastInv

LEMMA CastStep == CastInv /\ [GovernanceNext]_governanceVars => CastInv'
<1> SUFFICES ASSUME CastInv, [GovernanceNext]_governanceVars PROVE CastInv'
  OBVIOUS
<1>1. ASSUME UNCHANGED <<proposals, cast>> PROVE CastInv'
  BY <1>1 DEF CastInv, ProposalsTyped, SucceededPassed, CastStands, castAggregatedVote, Numbers
<1>2. CASE start \/ stop \/ emergencyStop
  BY <1>1, <1>2 DEF start, stop, emergencyStop
<1>3. CASE createDelegationProposal
  BY <1>3, ProposalAppended DEF createDelegationProposal
<1>4. ASSUME NEW on \in BOOLEAN, NEW new \in BOOLEAN, updateConfig(on, new) PROVE CastInv'
  BY <1>1, <1>4 DEF updateConfig
<1>5. ASSUME NEW c \in Cycles, CronFires(c) \/ triggerManualCycle(c) PROVE CastInv'
  BY <1>1, <1>5 DEF CronFires, triggerManualCycle, CycleBegins
<1>6. ASSUME NEW c \in Cycles, CycleAnswers(c) PROVE CastInv'
  <2>1. ASSUME NEW ok \in BOOLEAN, FetchAnswers(c, ok) PROVE CastInv'
    BY <1>1, <2>1 DEF FetchAnswers
  <2>2. ASSUME NEW answers \in SUBSET Numbers, NEW ok \in BOOLEAN, VotesAnswer(c, answers, ok)
        PROVE  CastInv'
    <3>1. /\ proposals' = proposals /\ answers \subseteq Completed
          /\ cast' \subseteq cast \cup {castAggregatedVote(n) : n \in answers}
      BY <2>2 DEF VotesAnswer, monitorBasketGovernanceVotes
    <3>2. \A n \in answers : /\ n \in Numbers /\ proposals[n].state = "succeeded"
                          /\ proposals[n].title # "delegation"
                          /\ castAggregatedVote(n)[1] = n
      <4>1. \A n \in answers : /\ n \in Numbers /\ proposals[n].title # "delegation"
                            /\ proposals[n].state # "active" /\ proposals[n].state # "defeated"
        BY <3>1 DEF Completed
      <4>2. QED  BY <4>1, ProposalFields DEF CastInv, castAggregatedVote
    <3>3. \A n \in Numbers : castAggregatedVote(n)' = castAggregatedVote(n)
      BY <3>1 DEF castAggregatedVote
    <3>4. Numbers' = Numbers  BY <3>1 DEF Numbers
    <3>5. CastStands'
      <4>1. SUFFICES ASSUME NEW v \in cast'
                     PROVE  /\ v[1] \in Numbers /\ proposals[v[1]].state = "succeeded"
                            /\ proposals[v[1]].title # "delegation"
                            /\ v = castAggregatedVote(v[1])
        BY <3>1, <3>3, <3>4 DEF CastStands
      <4>2. CASE v \in cast  BY <4>2 DEF CastInv, CastStands
      <4>3. ASSUME NEW n \in answers, v = castAggregatedVote(n)
            PROVE  /\ v[1] \in Numbers /\ proposals[v[1]].state = "succeeded"
                   /\ proposals[v[1]].title # "delegation"
                   /\ v = castAggregatedVote(v[1])
        BY <3>2, <4>3
      <4>4. QED  BY <3>1, <4>2, <4>3
    <3>6. QED  BY <3>1, <3>5 DEF CastInv, ProposalsTyped, SucceededPassed, Numbers
  <2>3. ASSUME NEW id \in SnapshotIds, NEW ok \in BOOLEAN, ProposeAnswers(c, id, ok)
        PROVE  CastInv'
    BY <1>1, <2>3, ProposalAppended DEF ProposeAnswers
  <2>4. ASSUME NEW ok \in BOOLEAN, StatisticsAnswer(c, ok) PROVE CastInv'
    BY <1>1, <2>4 DEF StatisticsAnswer
  <2>5. CASE ProposeDone(c)  BY <1>1, <2>5 DEF ProposeDone
  <2>6. QED  BY <1>6, <2>1, <2>2, <2>3, <2>4, <2>5 DEF CycleAnswers
<1>7. ASSUME NEW id \in SnapshotIds, SnapshotChanges(id) PROVE CastInv'
  BY <1>1, <1>7 DEF SnapshotChanges
<1>8. ASSUME NEW n \in Numbers, NEW t \in Tallies, VoteEnds(n, t) PROVE CastInv'
  <2> DEFINE ended == IF t.for > t.against THEN "succeeded" ELSE "defeated"
             p == [title |-> proposals[n].title, tally |-> t, state |-> ended]
  <2>1. proposals \in Seq(BasketProposals) /\ n \in DOMAIN proposals
    BY DEF CastInv, ProposalsTyped, Numbers
  <2>2. /\ proposals[n] \in BasketProposals
        /\ proposals[n].title \in SnapshotIds \cup {"delegation"}
    BY ProposalFields DEF CastInv
  <2>3. /\ proposals[n].state = "active" /\ cast' = cast
        /\ proposals' = [proposals EXCEPT ![n] = p]
    BY <1>8, <2>1 DEF VoteEnds
  <2>4. p \in BasketProposals  BY <2>2 DEF BasketProposals
  <2>5. proposals' \in Seq(BasketProposals)  BY <2>1, <2>3, <2>4
  <2>6. /\ Numbers' = Numbers /\ proposals'[n] = p
        /\ \A k \in Numbers \ {n} : proposals'[k] = proposals[k]
    BY <2>1, <2>3 DEF Numbers
  <2>7. SucceededPassed'
    <3>1. p.state = "succeeded" => p.tally.for > p.tally.against  OBVIOUS
    <3> HIDE DEF p
    <3>2. QED  BY <2>6, <3>1 DEF CastInv, SucceededPassed
  <2>8. CastStands'
    <3>1. \A v \in cast : v[1] \in Numbers \ {n}  BY <2>3 DEF CastInv, CastStands
    <3>2. QED  BY <2>3, <2>6, <3>1 DEF CastInv, CastStands, castAggregatedVote
  <2>9. QED  BY <2>5, <2>7, <2>8 DEF CastInv, ProposalsTyped
<1>9. CASE UNCHANGED governanceVars
  BY <1>1, <1>9 DEF governanceVars
<1>10. QED
  BY <1>2, <1>3, <1>4, <1>5, <1>6, <1>7, <1>8, <1>9 DEF GovernanceNext

(* Whatever cycles overlap and however often a proposal is looked at, what  *)
(* is cast on Snapshot is what the holders passed, one choice a proposal.   *)
THEOREM CastAlwaysFollows == GovernanceSpec => []CastFollowsHolders
<1>1. GovernanceInit => CastInv
  BY DEF GovernanceInit, CastInv, ProposalsTyped, SucceededPassed, CastStands, Numbers
<1>2. CastInv => CastFollowsHolders
  <2> SUFFICES ASSUME CastInv, NEW v \in cast
               PROVE  /\ proposals[v[1]].tally.for > proposals[v[1]].tally.against
                      /\ proposals[v[1]].title \in SnapshotIds
                      /\ v[2] \in {"For", "Abstain"}
                      /\ \A w \in cast : w[1] = v[1] => w = v
    BY DEF CastFollowsHolders
  <2>1. /\ v[1] \in Numbers /\ proposals[v[1]].state = "succeeded"
        /\ proposals[v[1]].title # "delegation" /\ v = castAggregatedVote(v[1])
    BY DEF CastInv, CastStands
  <2>2. /\ proposals[v[1]].title \in SnapshotIds \cup {"delegation"}
        /\ proposals[v[1]].tally \in Tallies \cup {NoVotes}
    BY <2>1, ProposalFields DEF CastInv
  <2>3. /\ proposals[v[1]].tally.for > proposals[v[1]].tally.against
        /\ proposals[v[1]].tally.for \in Nat /\ proposals[v[1]].tally.against \in Nat
    BY <2>1, <2>2, TalliesAssumption DEF CastInv, SucceededPassed, NoVotes
  <2>4. winningChoice(proposals[v[1]].tally) \in {"For", "Abstain"}
    BY <2>3 DEF winningChoice
  <2>5. v[2] = winningChoice(proposals[v[1]].tally)  BY <2>1 DEF castAggregatedVote
  <2>6. \A w \in cast : w = castAggregatedVote(w[1])  BY DEF CastInv, CastStands
  <2>7. \A w \in cast : w[1] = v[1] => w = v  BY <2>1, <2>6
  <2>8. QED  BY <2>1, <2>2, <2>3, <2>4, <2>5, <2>7
<1>3. QED  BY <1>1, <1>2, CastStep, PTL DEF GovernanceSpec

-----------------------------------------------------------------------------
(* Grants of the faucet.                                                    *)

FaucetRequests == [address : Addresses, route : {"request", "request-all"},
                   token : Tokens, since : Nat]

FaucetTyped ==
    /\ minute \in Nat \ {0}
    /\ faucetCooldowns \in [Addresses -> Nat]
    /\ request \in [Requests -> FaucetRequests \cup {NoRequest}]
    /\ grants \subseteq [to : Addresses, since : Nat, at : Nat \ {0}]

(* Every grant is covered by a cooldown that was set after it, or by the    *)
(* request for all tokens that has yet to set it.                           *)
Covered(g) == g.at <= faucetCooldowns[g.to] \/ Unfinished(g)

FaucetInv ==
    /\ FaucetTyped
    /\ \A g \in grants : g.at <= minute /\ Covered(g)

LEMMA RequestFields ==
    ASSUME FaucetTyped, NEW r \in Requests, request[r] # NoRequest
    PROVE  /\ request[r] \in FaucetRequests
           /\ request[r].address \in Addresses /\ request[r].since \in Nat
           /\ request[r].route \in {"request", "request-all"} /\ request[r].token \in Tokens
<1>1. request[r] \in FaucetRequests  BY DEF FaucetTyped
<1>2. QED  BY <1>1 DEF FaucetRequests

LEMMA GrantFields ==
    ASSUME FaucetTyped, NEW g \in grants
    PROVE  /\ g.to \in Addresses /\ g.since \in Nat /\ g.at \in Nat \ {0}
           /\ faucetCooldowns[g.to] \in Nat
  BY DEF FaucetTyped

(* A request that is accepted ends no other.                                *)
LEMMA AcceptedKeeps ==
    ASSUME FaucetInv, NEW r \in Requests, NEW a \in Addresses,
           NEW path \in {"request", "request-all"}, NEW token \in Tokens,
           Accepted(r, a, path, token), UNCHANGED <<minute, faucetCooldowns, grants>>
    PROVE  FaucetInv'
<1> DEFINE q == [address |-> a, route |-> path, token |-> token, since |-> minute]
<1>1. request[r] = NoRequest /\ request' = [request EXCEPT ![r] = q]  BY DEF Accepted
<1>2. q \in FaucetRequests  BY DEF FaucetInv, FaucetTyped, FaucetRequests
<1>3. request \in [Requests -> FaucetRequests \cup {NoRequest}]
  BY DEF FaucetInv, FaucetTyped
<1> HIDE DEF q
<1>4. /\ request' \in [Requests -> FaucetRequests \cup {NoRequest}]
      /\ \A s \in Requests \ {r} : request'[s] = request[s]
  BY <1>1, <1>2, <1>3
<1>5. ASSUME NEW g \in grants PROVE Unfinished(g) => Unfinished(g)'
  <2>1. request[r].route # "request-all"  BY <1>1 DEF NoRequest
  <2>2. QED  BY <1>4, <2>1 DEF Unfinished
<1>6. QED  BY <1>4, <1>5 DEF FaucetInv, FaucetTyped, Covered

LEMMA SentKeeps ==
    ASSUME FaucetInv, NEW r \in Requests, NEW ok \in BOOLEAN, Sent(r, ok)
    PROVE  FaucetInv'
<1> DEFINE q == request[r]
           over == q.route = "request" \/ Next3(q.token) = "none"
           set == over /\ SetsCooldown(q, ok)
           grant == [to |-> q.address, since |-> q.since, at |-> minute]
           rest == [q EXCEPT !.token = Next3(q.token)]
<1>1. /\ q # NoRequest /\ minute' = minute
      /\ grants' = IF ok THEN grants \cup {grant} ELSE grants
      /\ faucetCooldowns' = IF set THEN [faucetCooldowns EXCEPT ![q.address] = minute]
                            ELSE faucetCooldowns
      /\ request' = [request EXCEPT ![r] = IF over THEN NoRequest ELSE rest]
  BY DEF Sent
<1>2. /\ q \in FaucetRequests /\ q.address \in Addresses /\ q.since \in Nat
      /\ q.route \in {"request", "request-all"} /\ q.token \in Tokens
      /\ FaucetTyped /\ minute \in Nat \ {0}
  BY <1>1, RequestFields DEF FaucetInv, FaucetTyped
<1>3. ~over => /\ rest \in FaucetRequests
               /\ rest.address = q.address /\ rest.route = q.route /\ rest.since = q.since
               /\ q.route = "request-all"
  <2>1. Next3(q.token) # "none" => Next3(q.token) \in Tokens  BY <1>2 DEF Next3, Tokens
  <2>2. rest = [address |-> q.address, route |-> q.route, token |-> Next3(q.token),
                since |-> q.since]
    BY <1>2 DEF FaucetRequests
  <2>3. QED  BY <1>2, <2>1, <2>2 DEF FaucetRequests
<1>4. over /\ ~set => ~ok /\ q.route = "request"  BY <1>2 DEF SetsCooldown
<1>5. request \in [Requests -> FaucetRequests \cup {NoRequest}]
      /\ faucetCooldowns \in [Addresses -> Nat]
  BY <1>2 DEF FaucetTyped
<1> HIDE DEF rest, set, over
<1>6. /\ request' \in [Requests -> FaucetRequests \cup {NoRequest}]
      /\ request'[r] = IF over THEN NoRequest ELSE rest
      /\ \A s \in Requests \ {r} : request'[s] = request[s]
  BY <1>1, <1>3, <1>5
<1>7. /\ faucetCooldowns' \in [Addresses -> Nat]
      /\ \A a \in Addresses : faucetCooldowns'[a] = IF set /\ a = q.address THEN minute
                                                   ELSE faucetCooldowns[a]
  BY <1>1, <1>2, <1>5
<1>8. grant \in [to : Addresses, since : Nat, at : Nat \ {0}]  BY <1>2
<1>9. FaucetTyped'  BY <1>1, <1>2, <1>6, <1>7, <1>8 DEF FaucetTyped
<1>10. ASSUME NEW g \in grants' PROVE g.at <= minute' /\ Covered(g)'
  <2>1. g.to \in Addresses /\ g.at \in Nat /\ g.at <= minute
    BY <1>1, <1>2, <1>8, GrantFields DEF FaucetInv
  <2>2. CASE set /\ g.to = q.address
    BY <1>1, <1>7, <2>1, <2>2 DEF Covered
  <2>3. CASE ~(set /\ g.to = q.address) /\ g \in grants
    <3>1. faucetCooldowns'[g.to] = faucetCooldowns[g.to]  BY <1>7, <2>1, <2>3
    <3>2. ASSUME Unfinished(g) PROVE Unfinished(g)'
      <4>1. PICK s \in Requests : /\ request[s].route = "request-all"
                                 /\ request[s].address = g.to /\ request[s].since = g.since
        BY <3>2 DEF Unfinished
      <4>2. CASE s # r  BY <1>6, <4>1, <4>2 DEF Unfinished
      <4>3. CASE s = r
        <5>1. ~over  BY <1>4, <2>3, <4>1, <4>3
        <5>2. QED  BY <1>3, <1>6, <4>1, <4>3, <5>1 DEF Unfinished
      <4>4. QED  BY <4>2, <4>3
    <3>3. QED  BY <1>1, <2>1, <2>3, <3>1, <3>2 DEF FaucetInv, Covered
  <2>4. CASE ~(set /\ g.to = q.address) /\ ok /\ g = grant
    <3>1. ~set /\ ~over  BY <1>4, <2>4
    <3>2. Unfinished(g)'  BY <1>3, <1>6, <2>4, <3>1 DEF Unfinished
    <3>3. QED  BY <1>1, <2>1, <3>2 DEF Covered
  <2>5. QED  BY <1>1, <2>2, <2>3, <2>4
<1>11. QED  BY <1>9, <1>10 DEF FaucetInv

LEMMA FaucetStep == FaucetInv /\ [FaucetNext]_faucetVars => FaucetInv'
<1> SUFFICES ASSUME FaucetInv, [FaucetNext]_faucetVars PROVE FaucetInv'
  OBVIOUS
<1>1. ASSUME UNCHANGED <<minute, faucetCooldowns, request, grants>> PROVE FaucetInv'
  BY <1>1 DEF FaucetInv, FaucetTyped, Covered, Unfinished
<1>2. CASE MinutePasses
  <2>1. /\ minute' = minute + 1 /\ faucetCooldowns' = faucetCooldowns
        /\ request' = request /\ grants' = grants
    BY <1>2 DEF MinutePasses
  <2>2. FaucetTyped'  BY <2>1 DEF FaucetInv, FaucetTyped
  <2>3. ASSUME NEW g \in grants PROVE g.at <= minute' /\ Covered(g)'
    <3>1. g.at \in Nat /\ g.at <= minute /\ minute \in Nat /\ Covered(g)
      BY GrantFields DEF FaucetInv, FaucetTyped
    <3>2. g.at <= minute'  BY <2>1, <3>1
    <3>3. QED  BY <2>1, <3>1, <3>2 DEF Covered, Unfinished
  <2>4. QED  BY <2>1, <2>2, <2>3 DEF FaucetInv
<1>3. ASSUME NEW a \in Addresses, NEW c \in Clients, balances(a, c) PROVE FaucetInv'
  BY <1>1, <1>3 DEF balances
<1>4. ASSUME NEW r \in Requests, NEW a \in Addresses, NEW c \in Clients,
             NEW token \in Tokens \cup {"none"}, requestToken(r, a, c, token)
      PROVE  FaucetInv'
  BY <1>1, <1>4, AcceptedKeeps DEF requestToken
<1>5. ASSUME NEW r \in Requests, NEW a \in Addresses, requestAll(r, a) PROVE FaucetInv'
  BY <1>5, AcceptedKeeps DEF requestAll, Tokens
<1>6. CASE UNCHANGED faucetVars  BY <1>1, <1>6 DEF faucetVars
<1>7. QED  BY <1>2, <1>3, <1>4, <1>5, <1>6, SentKeeps DEF FaucetNext

(* A request that gets past the cooldown finds every grant to its address a *)
(* cooldown old, however requests overlap, but for those of a request for   *)
(* all tokens that is under way (faucet.ts:282, 327, 368, 420).             *)
THEOREM GrantsAlwaysSpaced == FaucetSpec => GrantsSpaced
<1> DEFINE Spaced(r) ==
          request[r] = NoRequest /\ request'[r] # NoRequest =>
            \A g \in grants : g.to = request'[r].address =>
              minute - g.at >= Cooldown \/ Unfinished(g)
<1>1. FaucetInit => FaucetInv
  BY DEF FaucetInit, FaucetInv, FaucetTyped
<1>2. ASSUME FaucetInv, [FaucetNext]_faucetVars, NEW r \in Requests PROVE Spaced(r)
  <2>1. request \in [Requests -> FaucetRequests \cup {NoRequest}]
    BY <1>2 DEF FaucetInv, FaucetTyped
  <2>2. CASE request' = request  BY <2>2
  <2>3. ASSUME NEW s \in Requests, NEW a \in Addresses, NEW path, NEW token,
               Accepted(s, a, path, token), ~isOnCooldown(a)
        PROVE  Spaced(r)
    <3>1. r # s => request'[r] = request[r]  BY <2>1, <2>3 DEF Accepted
    <3>2. r = s => request'[r].address = a  BY <2>1, <2>3 DEF Accepted
    <3>3. ASSUME NEW g \in grants, g.to = a
          PROVE  minute - g.at >= Cooldown \/ Unfinished(g)
      <4>1. /\ g.at \in Nat \ {0} /\ faucetCooldowns[a] \in Nat
            /\ minute \in Nat /\ Cooldown \in Nat
        BY <1>2, <3>3, GrantFields, CooldownAssumption DEF FaucetInv, FaucetTyped
      <4>2. g.at <= faucetCooldowns[a] \/ Unfinished(g)
        BY <1>2, <3>3 DEF FaucetInv, Covered
      <4>3. faucetCooldowns[a] = 0 \/ ~(minute - faucetCooldowns[a] < Cooldown)
        BY <2>3 DEF isOnCooldown
      <4>4. QED  BY <4>1, <4>2, <4>3
    <3>4. QED  BY <3>1, <3>2, <3>3
  <2>4. ASSUME NEW s \in Requests, NEW ok \in BOOLEAN, Sent(s, ok) PROVE Spaced(r)
    <3>1. request[s] # NoRequest  BY <2>4 DEF Sent
    <3>2. r # s => request'[r] = request[r]  BY <2>1, <2>4 DEF Sent
    <3>3. QED  BY <3>1, <3>2
  <2>5. CASE MinutePasses  BY <2>2, <2>5 DEF MinutePasses
  <2>6. ASSUME NEW a \in Addresses, NEW c \in Clients, balances(a, c) PROVE Spaced(r)
    BY <2>2, <2>6 DEF balances
  <2>7. ASSUME NEW s \in Requests, NEW a \in Addresses, NEW c \in Clients,
               NEW token \in Tokens \cup {"none"}, requestToken(s, a, c, token)
        PROVE  Spaced(r)
    BY <2>2, <2>3, <2>7 DEF requestToken
  <2>8. ASSUME NEW s \in Requests, NEW a \in Addresses, requestAll(s, a) PROVE Spaced(r)
    BY <2>3, <2>8 DEF requestAll
  <2>9. CASE UNCHANGED faucetVars  BY <2>2, <2>9 DEF faucetVars
  <2> HIDE DEF Spaced
  <2>10. QED  BY <1>2, <2>4, <2>5, <2>6, <2>7, <2>8, <2>9 DEF FaucetNext
<1>3. FaucetInv /\ [FaucetNext]_faucetVars => [\A r \in Requests : Spaced(r)]_faucetVars
  BY <1>2
<1>4. QED  BY <1>1, <1>3, FaucetStep, PTL DEF FaucetSpec, GrantsSpaced

-----------------------------------------------------------------------------
(* Prices of the feed.                                                      *)

FeedTyped ==
    /\ data \in [price : Nat, lastUpdated : Nat, isActive : BOOLEAN]
    /\ lastKnownGoodPrice \in Nat
    /\ gradual \in [target : Nat, step : Nat]
    /\ now \in Nat /\ priceUpdateCount \in Nat /\ updates \in Nat

LEMMA FeedFields ==
    ASSUME FeedTyped
    PROVE  /\ data.price \in Nat /\ data.lastUpdated \in Nat /\ data.isActive \in BOOLEAN
           /\ gradual.target \in Nat /\ gradual.step \in Nat
           /\ GoodPrice \in Nat
  BY DEF FeedTyped, GoodPrice

LEMMA QuotientOfNat == ASSUME NEW x \in Nat, NEW d \in Nat \ {0} PROVE x \div d \in Nat
  OBVIOUS

LEMMA NoDeviation == ASSUME NEW p \in Nat \ {0} PROVE Deviation(p, p) = 0
<1>1. Distance(p, p) = 0  BY DEF Distance
<1>2. (0 * 10000) \div p = 0  OBVIOUS
<1>3. QED  BY <1>1, <1>2 DEF Deviation

(* What is set is a price, and not far from the old one.                    *)
PricesTyped ==
    /\ data \in [price : Nat, lastUpdated : Nat, isActive : BOOLEAN]
    /\ lastKnownGoodPrice \in Nat
    /\ gradual \in [target : Nat, step : Nat]

Near == Deviation(data.price, data'.price) <= PRICE_DEVIATION_THRESHOLD /\ data'.price > 0

LEMMA PriceSet ==
    ASSUME FeedTyped, NEW p \in Nat, SetPriceData(p)
    PROVE  /\ data' \in [price : Nat, lastUpdated : Nat, isActive : BOOLEAN]
           /\ lastKnownGoodPrice' \in Nat /\ data'.price = p
  BY FeedFields DEF SetPriceData, FeedTyped

LEMMA PriceStays ==
    ASSUME FeedTyped, data.price > 0, data' = data PROVE Near
<1>1. Deviation(data.price, data.price) = 0  BY FeedFields, NoDeviation
<1>2. QED  BY <1>1 DEF Near, PRICE_DEVIATION_THRESHOLD

LEMMA GradualStarts ==
    ASSUME FeedTyped, NEW to \in Nat, StartGradualPriceUpdate(data.price, to)
    PROVE  PricesTyped' /\ Near
<1>1. data.price > 0 /\ data.price \in Nat /\ to > 0
  BY FeedFields DEF StartGradualPriceUpdate
<1>2. CASE data.price = to
  <2>1. SetPriceData(to) /\ gradual' = [gradual EXCEPT !.target = to]
    BY <1>2 DEF StartGradualPriceUpdate
  <2>2. gradual' \in [target : Nat, step : Nat]  BY <2>1 DEF FeedTyped
  <2>3. Near
    BY <1>1, <1>2, <2>1, PriceSet, NoDeviation DEF Near, PRICE_DEVIATION_THRESHOLD
  <2>4. QED  BY <2>1, <2>2, <2>3, PriceSet DEF PricesTyped
<1>3. CASE data.price # to
  <2> DEFINE step == IF Distance(data.price, to) < MAX_PRICE_UPDATE_STEPS THEN 1
                     ELSE Distance(data.price, to) \div MAX_PRICE_UPDATE_STEPS
  <2>1. Distance(data.price, to) \in Nat  BY <1>1 DEF Distance
  <2>2. step \in Nat  BY <2>1, QuotientOfNat DEF MAX_PRICE_UPDATE_STEPS
  <2>3. /\ gradual' = [target |-> to, step |-> step]
        /\ lastKnownGoodPrice' = GoodPrice /\ data' = data
    BY <1>3 DEF StartGradualPriceUpdate
  <2> HIDE DEF step
  <2>4. gradual' \in [target : Nat, step : Nat]  BY <2>2, <2>3
  <2>5. QED  BY <1>1, <2>3, <2>4, PriceStays, FeedFields DEF PricesTyped, FeedTyped
<1>4. QED  BY <1>2, <1>3

(* The judgement over a new price, whatever the backup answers.             *)
LEMMA JudgedNear ==
    ASSUME FeedTyped, NEW new \in Nat, NEW second \in Nat, Judge(new, second)
    PROVE  PricesTyped' /\ (Guarded /\ data.price > 0 => Near)
<1>1. ASSUME NEW p \in Nat, Accept(p)
      PROVE  /\ PricesTyped'
             /\ p > 0 /\ Deviation(data.price, p) <= PRICE_DEVIATION_THRESHOLD => Near
  <2>1. SetPriceData(p) /\ gradual' = gradual  BY <1>1 DEF Accept
  <2>2. QED  BY <2>1, PriceSet DEF PricesTyped, FeedTyped, Near
<1>2. CASE ~Guarded  BY <1>1, <1>2 DEF Judge
<1>3. CASE Guarded
  <2>1. CASE /\ new > 0 /\ Deviation(data.price, new) <= PRICE_DEVIATION_THRESHOLD
             /\ Accept(new)
    BY <1>1, <2>1
  <2>2. CASE Agrees(second) /\ Accept(second)  BY <1>1, <2>2 DEF Agrees
  <2>3. CASE /\ new > 0
             /\ StartGradualPriceUpdate(data.price,
                                        IF second > 0 THEN (new + second) \div 2 ELSE new)
    <3>1. (new + second) \div 2 \in Nat  BY QuotientOfNat
    <3>2. QED  BY <2>3, <3>1, GradualStarts
  <2>4. CASE TriggerCircuitBreaker
    <3>1. lastKnownGoodPrice' = GoodPrice /\ data' = data /\ gradual' = gradual
      BY <2>4 DEF TriggerCircuitBreaker
    <3>2. QED  BY <3>1, PriceStays, FeedFields DEF PricesTyped, FeedTyped
  <2>5. QED  BY <1>3, <2>1, <2>2, <2>3, <2>4 DEF Judge
<1>4. QED  BY <1>2, <1>3

(* A price that is not moved by an oracle stays above 0, and a gradual step *)
(* goes towards its target.                                                 *)
StepBounded ==
    Guarded /\ data.price > 0 =>
      /\ priceUpdateCount' # priceUpdateCount =>
            Deviation(data.price, data'.price) <= PRICE_DEVIATION_THRESHOLD
      /\ data'.price > 0

StepArrives ==
    priceUpdateCount' = priceUpdateCount /\ updates' # updates =>
      LET target == gradual.target
      IN  /\ \/ data.price <= data'.price /\ data'.price <= target
             \/ target <= data'.price /\ data'.price <= data.price
          /\ data'.price # target => /\ gradual' = gradual
                                     /\ data'.price # data.price
          /\ data'.price = target => gradual'.target = 0

StepGuarded == FeedTyped' /\ StepBounded /\ StepArrives

LEMMA JudgedUpdate ==
    ASSUME FeedTyped, NEW new \in Nat, NEW second \in Nat, Judge(new, second),
           Update, Counted, now' = now
    PROVE  StepGuarded
<1>1. PricesTyped' /\ (Guarded /\ data.price > 0 => Near)  BY JudgedNear
<1>2. /\ priceUpdateCount' = priceUpdateCount + 1 /\ updates' = updates + 1
      /\ priceUpdateCount \in Nat /\ updates \in Nat /\ now \in Nat
  BY DEF Counted, Update, FeedTyped
<1>3. FeedTyped'  BY <1>1, <1>2 DEF PricesTyped, FeedTyped
<1>4. StepBounded  BY <1>1 DEF StepBounded, Near
<1>5. StepArrives  BY <1>2 DEF StepArrives
<1>6. QED  BY <1>3, <1>4, <1>5 DEF StepGuarded

LEMMA GradualStepGuarded ==
    ASSUME FeedTyped, executeGradualPriceUpdate PROVE StepGuarded
<1> DEFINE old == data.price
           target == gradual.target
           step == gradual.step
           remaining == Distance(old, target)
           next == IF target > old THEN old + step ELSE old - step
<1>1. /\ old \in Nat /\ target \in Nat /\ step \in Nat
      /\ old > 0 /\ target > 0 /\ step > 0
  BY FeedFields DEF executeGradualPriceUpdate
<1>2. /\ updates' = updates + 1 /\ updates \in Nat /\ now \in Nat /\ now' = now
      /\ priceUpdateCount' = priceUpdateCount /\ priceUpdateCount \in Nat
  BY DEF executeGradualPriceUpdate, Update, FeedTyped
<1>3. CASE remaining <= step
  <2>1. SetPriceData(target) /\ gradual' = [target |-> 0, step |-> 0]
    BY <1>3 DEF executeGradualPriceUpdate
  <2>2. data'.price = target  BY <1>1, <2>1, PriceSet
  <2>3. FeedTyped'
    <3>1. gradual' \in [target : Nat, step : Nat]  BY <2>1
    <3>2. QED  BY <1>1, <1>2, <2>1, <3>1, PriceSet DEF FeedTyped
  <2>4. StepBounded  BY <1>1, <1>2, <2>2 DEF StepBounded
  <2>5. old <= target \/ target <= old  BY <1>1
  <2>6. gradual'.target = 0  BY <2>1
  <2>7. StepArrives  BY <1>1, <2>2, <2>5, <2>6 DEF StepArrives
  <2>8. QED  BY <2>3, <2>4, <2>7 DEF StepGuarded
<1>4. CASE ~(remaining <= step)
  <2>1. SetPriceData(next) /\ gradual' = gradual
    BY <1>4 DEF executeGradualPriceUpdate
  <2>2. /\ next \in Nat /\ next > 0 /\ next # target /\ next # old
        /\ \/ old <= next /\ next <= target
           \/ target <= next /\ next <= old
    BY <1>1, <1>4 DEF Distance
  <2> HIDE DEF next
  <2>3. data'.price = next  BY <2>1, <2>2, PriceSet
  <2>4. FeedTyped'  BY <1>2, <2>1, <2>2, PriceSet DEF FeedTyped
  <2>5. StepBounded  BY <1>2, <2>2, <2>3 DEF StepBounded
  <2>6. StepArrives  BY <2>1, <2>2, <2>3 DEF StepArrives
  <2>7. QED  BY <2>4, <2>5, <2>6 DEF StepGuarded
<1>5. QED  BY <1>3, <1>4

(* What the owner does: no update is counted.                               *)
LEMMA PriceGiven ==
    ASSUME FeedTyped, NEW p \in Nat \ {0}, SetPriceData(p),
           UNCHANGED <<gradual, now, priceUpdateCount, updates>>
    PROVE  StepGuarded
<1>1. /\ data' \in [price : Nat, lastUpdated : Nat, isActive : BOOLEAN]
      /\ lastKnownGoodPrice' \in Nat /\ data'.price = p
  BY PriceSet
<1>2. FeedTyped'  BY <1>1 DEF FeedTyped
<1>3. QED  BY <1>1, <1>2 DEF StepGuarded, StepBounded, StepArrives

LEMMA PricesLeft ==
    ASSUME FeedTyped, UNCHANGED <<data, lastKnownGoodPrice, gradual, priceUpdateCount, updates>>,
           now' \in Nat
    PROVE  StepGuarded
<1>1. FeedTyped'  BY DEF FeedTyped
<1>2. QED  BY <1>1 DEF StepGuarded, StepBounded, StepArrives

LEMMA OwnerGuarded ==
    ASSUME FeedTyped, Change,
           \/ \E p \in Quotes : setPrice(p) \/ emergencySetPrice(p)
           \/ \E given \in BOOLEAN :
                 \/ \E source \in {"pyth", "switchboard"} : setPriceId(source, given)
                 \/ \E source \in {"pyth", "switchboard", "oracle", "backup"} :
                       setOracle(source, given)
                 \/ \E name \in DOMAIN switch : setSwitch(name, given)
           \/ \E age \in Ages : setMaxPriceAge(age)
           \/ resetCircuitBreaker \/ emergencyResetAsset \/ useLastKnownGoodPrice
    PROVE  StepGuarded
<1>1. updates' = updates /\ now \in Nat  BY DEF Change, FeedTyped
<1>2. ASSUME NEW p \in Quotes, setPrice(p) PROVE StepGuarded
  <2>1. /\ SetPriceData(p) /\ p \in Nat \ {0}
        /\ UNCHANGED <<gradual, now, priceUpdateCount>>
    BY <1>2, FeedAssumption DEF setPrice
  <2>2. QED  BY <1>1, <2>1, PriceGiven
<1>3. ASSUME NEW p \in Quotes, emergencySetPrice(p) PROVE StepGuarded
  <2>1. /\ data' = [price |-> p, lastUpdated |-> now, isActive |-> TRUE]
        /\ p \in Nat \ {0} /\ lastKnownGoodPrice' = data.price
        /\ UNCHANGED <<gradual, now, priceUpdateCount>>
    BY <1>3, FeedAssumption DEF emergencySetPrice
  <2>2. data' \in [price : Nat, lastUpdated : Nat, isActive : BOOLEAN] /\ data'.price = p
    BY <1>1, <2>1
  <2>3. FeedTyped'  BY <1>1, <2>1, <2>2, FeedFields DEF FeedTyped
  <2>4. QED  BY <1>1, <2>1, <2>2, <2>3 DEF StepGuarded, StepBounded, StepArrives
<1>4. ASSUME NEW source, NEW given, setPriceId(source, given) PROVE StepGuarded
  <2>1. /\ data' = [data EXCEPT !.isActive = TRUE]
        /\ UNCHANGED <<lastKnownGoodPrice, gradual, now, priceUpdateCount>>
    BY <1>4 DEF setPriceId
  <2>2. /\ data' \in [price : Nat, lastUpdated : Nat, isActive : BOOLEAN]
        /\ data'.price = data.price
    BY <2>1 DEF FeedTyped
  <2>3. FeedTyped'  BY <1>1, <2>1, <2>2 DEF FeedTyped
  <2>4. QED  BY <1>1, <2>1, <2>2, <2>3 DEF StepGuarded, StepBounded, StepArrives
<1>5. ASSUME NEW source, NEW given, setOracle(source, given) PROVE StepGuarded
  BY <1>1, <1>5, PricesLeft DEF setOracle, prices
<1>6. ASSUME NEW name, NEW given, setSwitch(name, given) PROVE StepGuarded
  BY <1>1, <1>6, PricesLeft DEF setSwitch, prices
<1>7. ASSUME NEW age, setMaxPriceAge(age) PROVE StepGuarded
  BY <1>1, <1>7, PricesLeft DEF setMaxPriceAge, prices
<1>8. CASE resetCircuitBreaker
  BY <1>1, <1>8, PricesLeft DEF resetCircuitBreaker, prices
<1>9. CASE emergencyResetAsset
  <2>1. /\ gradual' = [target |-> 0, step |-> 0] /\ data' = data
        /\ UNCHANGED <<lastKnownGoodPrice, now, priceUpdateCount>>
    BY <1>9 DEF emergencyResetAsset
  <2>2. gradual' \in [target : Nat, step : Nat]  BY <2>1
  <2>3. FeedTyped'  BY <1>1, <2>1, <2>2 DEF FeedTyped
  <2>4. QED  BY <1>1, <2>1, <2>3 DEF StepGuarded, StepBounded, StepArrives
<1>10. CASE useLastKnownGoodPrice
  <2>1. /\ lastKnownGoodPrice \in Nat \ {0} /\ SetPriceData(lastKnownGoodPrice)
        /\ UNCHANGED <<gradual, now, priceUpdateCount>>
    BY <1>10 DEF useLastKnownGoodPrice, FeedTyped
  <2>2. QED  BY <1>1, <2>1, PriceGiven
<1>11. QED  BY <1>2, <1>3, <1>4, <1>5, <1>6, <1>7, <1>8, <1>9, <1>10

LEMMA FeedStep == ASSUME FeedTyped, [FeedNext]_feedVars PROVE StepGuarded
<1>1. ASSUME NEW p \in Quotes \cup {0}, updatePriceFromPyth(p) PROVE StepGuarded
  <2>1. p \in Nat /\ Fails \in Nat  BY FeedAssumption DEF Fails
  <2>2. QED  BY <1>1, <2>1, JudgedUpdate DEF updatePriceFromPyth
<1>2. ASSUME NEW p \in Quotes, updatePriceFromSwitchboard(p) PROVE StepGuarded
  <2>1. p \in Nat /\ Fails \in Nat  BY FeedAssumption DEF Fails
  <2>2. QED  BY <1>2, <2>1, JudgedUpdate DEF updatePriceFromSwitchboard
<1>3. ASSUME NEW p \in Quotes, smartUpdatePrice(p) PROVE StepGuarded
  BY <1>2, <1>3 DEF smartUpdatePrice
<1>4. ASSUME NEW answer \in Quotes \cup {Fails}, NEW first \in Quotes \cup {Fails},
             NEW second \in Quotes \cup {Fails}, updatePriceFromOracle(answer, first, second)
      PROVE  StepGuarded
  <2> DEFINE new == IF answer # Fails THEN answer ELSE first
  <2>1. new \in Nat /\ second \in Nat  BY FeedAssumption DEF Fails
  <2>2. Judge(new, second) /\ Update /\ Counted /\ now' = now
    BY <1>4 DEF updatePriceFromOracle
  <2> HIDE DEF new
  <2>3. QED  BY <2>1, <2>2, JudgedUpdate
<1>5. CASE executeGradualPriceUpdate  BY <1>5, GradualStepGuarded
<1>6. CASE \/ \E p \in Quotes : setPrice(p) \/ emergencySetPrice(p)
           \/ \E given \in BOOLEAN :
                 \/ \E source \in {"pyth", "switchboard"} : setPriceId(source, given)
                 \/ \E source \in {"pyth", "switchboard", "oracle", "backup"} :
                       setOracle(source, given)
                 \/ \E name \in DOMAIN switch : setSwitch(name, given)
           \/ \E age \in Ages : setMaxPriceAge(age)
           \/ resetCircuitBreaker \/ emergencyResetAsset \/ useLastKnownGoodPrice
  <2>1. Change
    BY <1>6 DEF setPrice, emergencySetPrice, setPriceId, setOracle, setSwitch, setMaxPriceAge,
                resetCircuitBreaker, emergencyResetAsset, useLastKnownGoodPrice
  <2>2. QED  BY <1>6, <2>1, OwnerGuarded
<1>7. CASE Tick
  <2>1. now' \in Nat  BY <1>7 DEF Tick, FeedTyped
  <2>2. QED  BY <1>7, <2>1, PricesLeft DEF Tick, prices
<1>8. CASE UNCHANGED feedVars
  <2>1. now' \in Nat  BY <1>8 DEF feedVars, FeedTyped
  <2>2. QED  BY <1>8, <2>1, PricesLeft DEF feedVars, prices
<1>9. QED  BY <1>1, <1>2, <1>3, <1>4, <1>5, <1>6, <1>7, <1>8 DEF FeedNext

(* While the breaker is on, no update moves a price by more than a tenth,   *)
(* whatever the oracles answer, and a gradual update comes nearer to its    *)
(* target with each step, never past it (PriceFeed.sol:233-439, 942-1018).  *)
THEOREM PricesAlwaysGuarded == FeedSpec => PricesGuarded
<1>1. FeedInit => FeedTyped  BY FeedAssumption DEF FeedInit, FeedTyped
<1>2. FeedTyped /\ [FeedNext]_feedVars => FeedTyped'  BY FeedStep DEF StepGuarded
<1>3. FeedTyped /\ [FeedNext]_feedVars => [StepBounded /\ StepArrives]_feedVars
  BY FeedStep DEF StepGuarded
<1>4. FeedSpec => [][StepBounded /\ StepArrives]_feedVars
  BY <1>1, <1>2, <1>3, PTL DEF FeedSpec
<1>5. [StepBounded /\ StepArrives]_feedVars =>
         /\ [StepBounded]_feedVars /\ [StepArrives]_feedVars
  OBVIOUS
<1>6. QED
  BY <1>4, <1>5, PTL DEF PricesGuarded, UpdatesBounded, GradualArrives, StepBounded, StepArrives

-----------------------------------------------------------------------------
(* The alerts of the monitoring jobs and the metrics they were raised from. *)

Kinds == {"contract", "validators", "price"}
AlertRecords ==
  [id : RuleIds \X Nat, category : Kinds, at : Nat \ {0}, acknowledged : BOOLEAN]
MetricRecords == [type : Kinds, at : Nat]

LEMMA RulesAre ==
  /\ DOMAIN Rules = Kinds
  /\ Rules["contract"] = <<"high-error-rate", "low-performance", "high-gas-usage", "low-aum">>
  /\ Rules["validators"] = <<"validator-slashing", "low-validator-uptime", "inactive-validators">>
  /\ Rules["price"] = <<"stale-price-feed", "high-price-deviation", "extreme-price-movement">>
  BY DEF Rules, Kinds

LEMMA RuleIdsAre ==
  /\ ToSet(Rules["contract"]) = {"high-error-rate", "low-performance", "high-gas-usage", "low-aum"}
  /\ ToSet(Rules["validators"]) =
       {"validator-slashing", "low-validator-uptime", "inactive-validators"}
  /\ ToSet(Rules["price"]) = {"stale-price-feed", "high-price-deviation", "extreme-price-movement"}
  /\ RuleIds = ToSet(Rules["contract"]) \cup ToSet(Rules["validators"]) \cup ToSet(Rules["price"])
<1>1. ASSUME NEW a, NEW b, NEW c PROVE ToSet(<<a, b, c>>) = {a, b, c}
  <2>1. DOMAIN <<a, b, c>> = {1, 2, 3}  OBVIOUS
  <2>2. QED  BY <2>1 DEF ToSet
<1>2. ASSUME NEW a, NEW b, NEW c, NEW d PROVE ToSet(<<a, b, c, d>>) = {a, b, c, d}
  <2>1. DOMAIN <<a, b, c, d>> = {1, 2, 3, 4}  OBVIOUS
  <2>2. QED  BY <2>1 DEF ToSet
<1>3. RuleIds = ToSet(Rules["contract"]) \cup ToSet(Rules["validators"]) \cup ToSet(Rules["price"])
  <2>1. RuleIds = UNION {ToSet(Rules[k]) : k \in Kinds}  BY RulesAre DEF RuleIds
  <2>2. QED  BY <2>1, Zenon DEF Kinds
<1>4. QED  BY <1>1, <1>2, <1>3, RulesAre

(* The metric of an alert is kept, or pushed out by as many newer ones.     *)
Remembered(a, entries) ==
  \/ a.category = "price"
  \/ \E k \in DOMAIN entries : entries[k].type = a.category /\ entries[k].at = a.at
  \/ Len(entries) = MetricsCap /\ \A k \in DOMAIN entries : entries[k].at >= a.at

(* Of the alerts raised so far, and when each rule last raised one.         *)
Raised(list, times, entries, t) ==
  /\ list \in Seq(AlertRecords) /\ times \in [RuleIds -> Nat]
  /\ \A i \in DOMAIN list : /\ list[i].at <= times[list[i].id[1]] /\ list[i].at <= t
                            /\ Remembered(list[i], entries)
  /\ \A r \in RuleIds : times[r] # 0 =>
       \E i \in DOMAIN list : list[i].id[1] = r /\ list[i].at = times[r]
  /\ \A i, k \in DOMAIN list :
       i < k /\ list[i].id[1] = list[k].id[1] =>
         list[k].at - list[i].at >= AlertCooldown[list[i].id[1]]
  /\ \A i \in DOMAIN list : list[i].id[1] = "extreme-price-movement" =>
       \E h \in DOMAIN list :
         /\ h < i /\ list[h].id[1] = "high-price-deviation"
         /\ list[i].at - list[h].at < AlertCooldown["high-price-deviation"]

Collected(entries, t) ==
  /\ entries \in Seq(MetricRecords) /\ Len(entries) <= MetricsCap
  /\ \A k \in DOMAIN entries : entries[k].at <= t
  /\ \A k, l \in DOMAIN entries : k < l => entries[k].at <= entries[l].at

MonitoringInv ==
  /\ date \in Nat \ {0}
  /\ alerts = [m \in Managers |-> alerts[m]]
  /\ lastAlertTime = [m \in Managers |-> lastAlertTime[m]]
  /\ Collected(metrics, date)
  /\ Raised(alerts["jobs"], lastAlertTime["jobs"], metrics, date)

(* An alert more keeps what is said of the others.                          *)
LEMMA AlertRaised ==
    ASSUME date \in Nat \ {0}, NEW list, NEW times, NEW entries, Raised(list, times, entries, date),
           NEW rule \in RuleIds, NEW kind \in Kinds,
           times[rule] = 0 \/ date - times[rule] >= AlertCooldown[rule],
           kind = "price" \/
             \E k \in DOMAIN entries : entries[k].type = kind /\ entries[k].at = date,
           rule = "extreme-price-movement" =>
             \E h \in DOMAIN list : /\ list[h].id[1] = "high-price-deviation"
                                    /\ date - list[h].at < AlertCooldown["high-price-deviation"],
           NEW more, more = Append(list, createAlert(rule, kind)),
           NEW later, later = [times EXCEPT ![rule] = date]
    PROVE  Raised(more, later, entries, date)
<1> DEFINE n == Len(list)
           new == createAlert(rule, kind)
<1>1. /\ new \in AlertRecords /\ new.id[1] = rule /\ new.at = date /\ new.category = kind
  BY DEF createAlert, AlertRecords
<1>2. list \in Seq(AlertRecords) /\ times \in [RuleIds -> Nat]  BY DEF Raised
<1>3. /\ more \in Seq(AlertRecords) /\ n \in Nat /\ DOMAIN list = 1..n /\ DOMAIN more = 1..(n + 1)
      /\ \A i \in 1..n : more[i] = list[i] /\ list[i] \in AlertRecords
      /\ more[n + 1] = new
  BY <1>1, <1>2
<1> HIDE DEF new, n
<1>4. \A i \in 1..n : /\ list[i].id[1] \in RuleIds /\ list[i].at \in Nat \ {0}
  BY <1>3 DEF AlertRecords
<1>5. /\ later \in [RuleIds -> Nat] /\ later[rule] = date
      /\ \A r \in RuleIds : r # rule => later[r] = times[r]
  BY <1>2
<1>6. \A i \in 1..n : /\ list[i].at <= times[list[i].id[1]]
                      /\ list[i].at <= date
                      /\ Remembered(list[i], entries)
  BY <1>3 DEF Raised
<1>7. \A i \in 1..(n + 1) : /\ more[i].at <= later[more[i].id[1]] /\ more[i].at <= date
                            /\ Remembered(more[i], entries)
  <2>1. more[n + 1].at <= later[more[n + 1].id[1]] /\ more[n + 1].at <= date
        /\ Remembered(more[n + 1], entries)
    BY <1>1, <1>3, <1>5 DEF Remembered
  <2>2. ASSUME NEW i \in 1..n PROVE more[i].at <= later[more[i].id[1]]
    BY <1>3, <1>4, <1>5, <1>6
  <2>3. \A i \in 1..n : more[i].at <= date /\ Remembered(more[i], entries)
    BY <1>3, <1>6
  <2>4. \A i \in 1..(n + 1) : i \in 1..n \/ i = n + 1  BY <1>3
  <2>5. QED  BY <2>1, <2>2, <2>3, <2>4
<1>8. ASSUME NEW r \in RuleIds, later[r] # 0
      PROVE  \E i \in 1..(n + 1) : more[i].id[1] = r /\ more[i].at = later[r]
  <2>1. CASE r = rule  BY <1>1, <1>3, <1>5, <2>1
  <2>2. CASE r # rule
    <3>1. PICK i \in 1..n : list[i].id[1] = r /\ list[i].at = times[r]
      BY <1>3, <1>5, <1>8, <2>2 DEF Raised
    <3>2. QED  BY <1>3, <1>5, <2>2, <3>1
  <2>3. QED  BY <2>1, <2>2
<1>9. ASSUME NEW i \in 1..(n + 1), NEW k \in 1..(n + 1), i < k, more[i].id[1] = more[k].id[1]
      PROVE  more[k].at - more[i].at >= AlertCooldown[more[i].id[1]]
  <2>1. i \in 1..n  BY <1>3, <1>9
  <2>2. CASE k \in 1..n  BY <1>3, <1>9, <2>1, <2>2 DEF Raised
  <2>3. CASE k = n + 1
    <3>1. list[i].id[1] = rule /\ list[i].at \in Nat \ {0}
      BY <1>1, <1>3, <1>4, <1>9, <2>1, <2>3
    <3>2. list[i].at <= times[rule] /\ times[rule] \in Nat
      BY <1>2, <1>6, <2>1, <3>1
    <3>3. date - times[rule] >= AlertCooldown[rule]  BY <3>1, <3>2
    <3>4. AlertCooldown[rule] \in Nat  BY MonitoringAssumption
    <3>5. QED  BY <1>1, <1>3, <2>1, <2>3, <3>1, <3>2, <3>3, <3>4
  <2>4. QED  BY <1>3, <2>2, <2>3
<1>10. ASSUME NEW i \in 1..(n + 1), more[i].id[1] = "extreme-price-movement"
       PROVE  \E h \in 1..(n + 1) :
                /\ h < i /\ more[h].id[1] = "high-price-deviation"
                /\ more[i].at - more[h].at < AlertCooldown["high-price-deviation"]
  <2>1. CASE i \in 1..n
    <3>1. PICK h \in 1..n : /\ h < i /\ list[h].id[1] = "high-price-deviation"
                            /\ list[i].at - list[h].at < AlertCooldown["high-price-deviation"]
      BY <1>3, <1>10, <2>1 DEF Raised
    <3>2. QED  BY <1>3, <2>1, <3>1
  <2>2. CASE i = n + 1
    <3>1. PICK h \in 1..n : /\ list[h].id[1] = "high-price-deviation"
                            /\ date - list[h].at < AlertCooldown["high-price-deviation"]
      BY <1>1, <1>3, <1>10, <2>2
    <3>2. QED  BY <1>1, <1>3, <2>2, <3>1
  <2>3. QED  BY <1>3, <2>1, <2>2
<1>11. QED  BY <1>3, <1>5, <1>7, <1>8, <1>9, <1>10 DEF Raised

TimesTried(times, rule, d) ==
  IF shouldTriggerAlert("jobs", rule, d) THEN [times EXCEPT ![rule] = date] ELSE times

LEMMA RuleTried ==
    ASSUME date \in Nat \ {0}, NEW list, NEW times, NEW entries, Raised(list, times, entries, date),
           NEW rule \in RuleIds, NEW kind \in Kinds, NEW d,
           times[rule] = lastAlertTime["jobs"][rule],
           kind = "price" \/
             \E k \in DOMAIN entries : entries[k].type = kind /\ entries[k].at = date,
           rule = "extreme-price-movement" /\ shouldTriggerAlert("jobs", rule, d) =>
             \E h \in DOMAIN list : /\ list[h].id[1] = "high-price-deviation"
                                    /\ date - list[h].at < AlertCooldown["high-price-deviation"]
    PROVE  /\ Raised(Tried(list, rule, kind, d), TimesTried(times, rule, d), entries, date)
           /\ \A r \in RuleIds : r # rule => TimesTried(times, rule, d)[r] = times[r]
<1>1. \A r \in RuleIds : r # rule => TimesTried(times, rule, d)[r] = times[r]
  BY DEF TimesTried, Raised
<1>2. CASE shouldTriggerAlert("jobs", rule, d)
  <2>1. times[rule] = 0 \/ date - times[rule] >= AlertCooldown[rule]
    BY <1>2 DEF shouldTriggerAlert
  <2>2. /\ Tried(list, rule, kind, d) = Append(list, createAlert(rule, kind))
        /\ TimesTried(times, rule, d) = [times EXCEPT ![rule] = date]
    BY <1>2 DEF Tried, TimesTried
  <2>3. rule = "extreme-price-movement" =>
          \E h \in DOMAIN list : /\ list[h].id[1] = "high-price-deviation"
                                 /\ date - list[h].at < AlertCooldown["high-price-deviation"]
    BY <1>2
  <2>4. Raised(Append(list, createAlert(rule, kind)), [times EXCEPT ![rule] = date], entries, date)
    BY <2>1, <2>3, AlertRaised
  <2>5. QED  BY <1>1, <2>2, <2>4
<1>3. CASE ~shouldTriggerAlert("jobs", rule, d)
  BY <1>1, <1>3 DEF Tried, TimesTried
<1>4. QED  BY <1>2, <1>3

(* Rules of one category one after the other: none looks at another's time. *)
LEMMA TwoTried ==
    ASSUME date \in Nat \ {0}, NEW list, NEW entries,
           Raised(list, lastAlertTime["jobs"], entries, date), NEW kind \in Kinds, NEW d,
           kind = "price" \/
             \E k \in DOMAIN entries : entries[k].type = kind /\ entries[k].at = date,
           NEW a \in RuleIds, NEW b \in RuleIds, a # b,
           a # "extreme-price-movement", b # "extreme-price-movement"
    PROVE  /\ Raised(Tried(Tried(list, a, kind, d), b, kind, d),
                     TimesTried(TimesTried(lastAlertTime["jobs"], a, d), b, d), entries, date)
           /\ \A r \in RuleIds : r # a /\ r # b =>
                TimesTried(TimesTried(lastAlertTime["jobs"], a, d), b, d)[r] =
                  lastAlertTime["jobs"][r]
<1>1. /\ Raised(Tried(list, a, kind, d), TimesTried(lastAlertTime["jobs"], a, d), entries, date)
      /\ \A r \in RuleIds :
            r # a => TimesTried(lastAlertTime["jobs"], a, d)[r] = lastAlertTime["jobs"][r]
  BY RuleTried
<1>2. TimesTried(lastAlertTime["jobs"], a, d)[b] = lastAlertTime["jobs"][b]
  BY <1>1
<1> DEFINE one == Tried(list, a, kind, d)
           then == TimesTried(lastAlertTime["jobs"], a, d)
<1>3. Raised(one, then, entries, date) /\ then[b] = lastAlertTime["jobs"][b]
  BY <1>1, <1>2
<1> HIDE DEF one, then
<1>4. /\ Raised(Tried(one, b, kind, d), TimesTried(then, b, d), entries, date)
      /\ \A r \in RuleIds : r # b => TimesTried(then, b, d)[r] = then[r]
  BY <1>3, RuleTried
<1>5. QED  BY <1>1, <1>4 DEF one, then

LEMMA OneMoreTried ==
    ASSUME date \in Nat \ {0}, NEW list, NEW times, NEW entries, Raised(list, times, entries, date),
           NEW kind \in Kinds, NEW d,
           kind = "price" \/
             \E k \in DOMAIN entries : entries[k].type = kind /\ entries[k].at = date,
           NEW c \in RuleIds, c # "extreme-price-movement", times[c] = lastAlertTime["jobs"][c]
    PROVE  /\ Raised(Tried(list, c, kind, d), TimesTried(times, c, d), entries, date)
           /\ \A r \in RuleIds : r # c => TimesTried(times, c, d)[r] = times[r]
  BY RuleTried

(* The times that each rule of a category leaves.                           *)
LEMMA TimesInTurn ==
    ASSUME NEW kind \in Kinds, NEW d, lastAlertTime["jobs"] \in [RuleIds -> Nat],
           NEW a \in RuleIds, NEW b \in RuleIds, NEW c \in RuleIds,
           a # b, b # c, c # a, ToSet(Rules[kind]) = {a, b, c}
    PROVE  TimesTried(TimesTried(TimesTried(lastAlertTime["jobs"], a, d), b, d), c, d)
             = TimesAfter(kind, d)
  BY DEF TimesTried, TimesAfter

LEMMA FourTimesInTurn ==
    ASSUME NEW kind \in Kinds, NEW d, lastAlertTime["jobs"] \in [RuleIds -> Nat],
           NEW a \in RuleIds, NEW b \in RuleIds, NEW c \in RuleIds, NEW e \in RuleIds,
           a # b, b # c, c # a, a # e, b # e, c # e, ToSet(Rules[kind]) = {a, b, c, e}
    PROVE  TimesTried(TimesTried(TimesTried(TimesTried(
             lastAlertTime["jobs"], a, d), b, d), c, d), e, d) = TimesAfter(kind, d)
  BY DEF TimesTried, TimesAfter

LEMMA ContractChecked ==
    ASSUME date \in Nat \ {0}, NEW list, NEW entries, NEW d,
           Raised(list, lastAlertTime["jobs"], entries, date),
           \E k \in DOMAIN entries : entries[k].type = "contract" /\ entries[k].at = date
    PROVE  Raised(checkAlerts(list, "contract", d), TimesAfter("contract", d), entries, date)
<1> DEFINE kind == "contract"
           a == "high-error-rate"
           b == "low-performance"
           c == "high-gas-usage"
           e == "low-aum"
           times == lastAlertTime["jobs"]
           two == Tried(Tried(list, a, kind, d), b, kind, d)
           three == Tried(two, c, kind, d)
           four == Tried(three, e, kind, d)
           then == TimesTried(TimesTried(times, a, d), b, d)
           later == TimesTried(then, c, d)
<1>1. /\ {a, b, c, e} \subseteq RuleIds /\ ToSet(Rules[kind]) = {a, b, c, e}
  BY RuleIdsAre
<1>2. kind \in Kinds  BY DEF Kinds
<1>3. Raised(two, then, entries, date) /\ \A r \in RuleIds : r # a /\ r # b => then[r] = times[r]
  BY <1>1, <1>2, TwoTried
<1>4. /\ Raised(three, later, entries, date)
      /\ \A r \in RuleIds : r # c => later[r] = then[r]
  <2>1. then[c] = lastAlertTime["jobs"][c]  BY <1>1, <1>3
  <2> HIDE DEF two, then
  <2>2. QED  BY <1>1, <1>2, <1>3, <2>1, OneMoreTried
<1>5. Raised(four, TimesTried(later, e, d), entries, date)
  <2>1. later[e] = lastAlertTime["jobs"][e]  BY <1>1, <1>3, <1>4
  <2> HIDE DEF three, later
  <2>2. QED  BY <1>1, <1>2, <1>4, <2>1, OneMoreTried
<1>6. TimesTried(later, e, d) = TimesAfter(kind, d)
  <2>1. times \in [RuleIds -> Nat]  BY DEF Raised
  <2>2. QED  BY <1>1, <1>2, <2>1, FourTimesInTurn
<1>7. four = checkAlerts(list, kind, d)
  <2>1. Rules[kind] = <<a, b, c, e>>  BY RulesAre
  <2>2. /\ Len(Rules[kind]) = 4 /\ Rules[kind][1] = a /\ Rules[kind][2] = b
        /\ Rules[kind][3] = c /\ Rules[kind][4] = e
    BY <2>1
  <2>3. QED  BY <2>2 DEF checkAlerts
<1>8. QED  BY <1>5, <1>6, <1>7

LEMMA ValidatorsChecked ==
    ASSUME date \in Nat \ {0}, NEW list, NEW entries, NEW d,
           Raised(list, lastAlertTime["jobs"], entries, date),
           \E k \in DOMAIN entries : entries[k].type = "validators" /\ entries[k].at = date
    PROVE  Raised(checkAlerts(list, "validators", d), TimesAfter("validators", d), entries, date)
<1> DEFINE kind == "validators"
           a == "validator-slashing"
           b == "low-validator-uptime"
           c == "inactive-validators"
           times == lastAlertTime["jobs"]
           two == Tried(Tried(list, a, kind, d), b, kind, d)
           three == Tried(two, c, kind, d)
           then == TimesTried(TimesTried(times, a, d), b, d)
<1>1. /\ {a, b, c} \subseteq RuleIds /\ ToSet(Rules[kind]) = {a, b, c}
  BY RuleIdsAre
<1>2. kind \in Kinds  BY DEF Kinds
<1>3. Raised(two, then, entries, date) /\ \A r \in RuleIds : r # a /\ r # b => then[r] = times[r]
  BY <1>1, <1>2, TwoTried
<1>4. Raised(three, TimesTried(then, c, d), entries, date)
  <2>1. then[c] = lastAlertTime["jobs"][c]  BY <1>1, <1>3
  <2> HIDE DEF two, then
  <2>2. QED  BY <1>1, <1>2, <1>3, <2>1, OneMoreTried
<1>5. TimesTried(then, c, d) = TimesAfter(kind, d)
  <2>1. times \in [RuleIds -> Nat]  BY DEF Raised
  <2>2. QED  BY <1>1, <1>2, <2>1, TimesInTurn
<1>6. three = checkAlerts(list, kind, d)
  <2>1. Rules[kind] = <<a, b, c>>  BY RulesAre
  <2>2. Len(Rules[kind]) = 3 /\ Rules[kind][1] = a /\ Rules[kind][2] = b /\ Rules[kind][3] = c
    BY <2>1
  <2>3. QED  BY <2>2 DEF checkAlerts
<1>7. QED  BY <1>4, <1>5, <1>6

(* An extreme price movement is a high deviation too, which was reported a  *)
(* moment ago or not longer ago than its cooldown.                          *)
LEMMA PriceChecked ==
    ASSUME date \in Nat \ {0}, NEW list, NEW entries, NEW d, d.deviation \in Nat,
           Raised(list, lastAlertTime["jobs"], entries, date)
    PROVE  Raised(checkAlerts(list, "price", d), TimesAfter("price", d), entries, date)
<1> DEFINE kind == "price"
           a == "stale-price-feed"
           b == "high-price-deviation"
           c == "extreme-price-movement"
           times == lastAlertTime["jobs"]
           one == Tried(list, a, kind, d)
           two == Tried(one, b, kind, d)
           three == Tried(two, c, kind, d)
           tried == TimesTried(times, a, d)
           then == TimesTried(tried, b, d)
<1>1. /\ {a, b, c} \subseteq RuleIds /\ ToSet(Rules[kind]) = {a, b, c}
  BY RuleIdsAre
<1>2. kind \in Kinds  BY DEF Kinds
<1>3. Raised(two, then, entries, date) /\ \A r \in RuleIds : r # a /\ r # b => then[r] = times[r]
  BY <1>1, <1>2, TwoTried
<1>4. ASSUME shouldTriggerAlert("jobs", c, d)
      PROVE  \E h \in DOMAIN two : two[h].id[1] = b /\ date - two[h].at < AlertCooldown[b]
  <2>1. Condition(b, d)
    <3>1. d.deviation > 25  BY <1>4 DEF shouldTriggerAlert, Condition
    <3>2. d.deviation > 10  BY <3>1
    <3>3. QED  BY <3>2 DEF Condition
  <2>2. Raised(one, tried, entries, date) /\ tried[b] = times[b]
    BY <1>1, <1>2, RuleTried
  <2>3. one \in Seq(AlertRecords) /\ times[b] \in Nat /\ AlertCooldown[b] \in Nat \ {0}
    BY <1>1, <2>2, MonitoringAssumption DEF Raised
  <2> HIDE DEF one, tried
  <2>4. CASE shouldTriggerAlert("jobs", b, d)
    <3>1. two = Append(one, createAlert(b, kind))  BY <2>4 DEF Tried
    <3>2. Len(one) + 1 \in DOMAIN two /\ two[Len(one) + 1] = createAlert(b, kind)
      BY <2>3, <3>1
    <3>3. two[Len(one) + 1].id[1] = b /\ two[Len(one) + 1].at = date
      BY <3>2 DEF createAlert
    <3>4. date - two[Len(one) + 1].at < AlertCooldown[b]
      BY <2>3, <3>3
    <3>5. QED  BY <3>2, <3>3, <3>4
  <2>5. CASE ~shouldTriggerAlert("jobs", b, d)
    <3>1. two = one  BY <2>5 DEF Tried
    <3>2. times[b] # 0 /\ ~(date - times[b] >= AlertCooldown[b])
      BY <2>1, <2>5 DEF shouldTriggerAlert
    <3>3. PICK h \in DOMAIN one : one[h].id[1] = b /\ one[h].at = times[b]
      BY <1>1, <2>2, <3>2 DEF Raised
    <3>4. date - one[h].at < AlertCooldown[b]
      BY <2>3, <3>2, <3>3
    <3>5. QED  BY <3>1, <3>3, <3>4
  <2>6. QED  BY <2>4, <2>5
<1>5. Raised(three, TimesTried(then, c, d), entries, date)
  <2>1. then[c] = lastAlertTime["jobs"][c]  BY <1>1, <1>3
  <2> HIDE DEF two, then
  <2>2. QED  BY <1>1, <1>2, <1>3, <1>4, <2>1, RuleTried
<1>6. TimesTried(then, c, d) = TimesAfter(kind, d)
  <2>1. times \in [RuleIds -> Nat]  BY DEF Raised
  <2>2. QED  BY <1>1, <1>2, <2>1, TimesInTurn
<1>7. three = checkAlerts(list, kind, d)
  <2>1. Rules[kind] = <<a, b, c>>  BY RulesAre
  <2>2. Len(Rules[kind]) = 3 /\ Rules[kind][1] = a /\ Rules[kind][2] = b /\ Rules[kind][3] = c
    BY <2>1
  <2>3. QED  BY <2>2 DEF checkAlerts
<1>8. QED  BY <1>5, <1>6, <1>7

(* What is stored is the newest metric, and pushes out the oldest.          *)
LEMMA MetricStored ==
    ASSUME date \in Nat, NEW type \in Kinds, Collected(metrics, date)
    PROVE  /\ Collected(storeMetric(type), date)
           /\ \E k \in DOMAIN storeMetric(type) :
                storeMetric(type)[k].type = type /\ storeMetric(type)[k].at = date
           /\ \A a : a.at \in Nat /\ a.at <= date /\ Remembered(a, metrics) =>
                      Remembered(a, storeMetric(type))
<1> DEFINE n == Len(metrics)
           new == [type |-> type, at |-> date]
           all == Append(metrics, new)
<1>1. /\ metrics \in Seq(MetricRecords) /\ n \in Nat /\ n <= MetricsCap /\ MetricsCap \in Nat \ {0}
      /\ \A k \in 1..n :
            metrics[k] \in MetricRecords /\ metrics[k].at \in Nat /\ metrics[k].at <= date
      /\ \A k, l \in 1..n : k < l => metrics[k].at <= metrics[l].at
  <2>1. /\ metrics \in Seq(MetricRecords) /\ n <= MetricsCap /\ MetricsCap \in Nat \ {0}
    BY MonitoringAssumption DEF Collected
  <2>2. /\ n \in Nat /\ DOMAIN metrics = 1..n /\ \A k \in 1..n : metrics[k] \in MetricRecords
    BY <2>1
  <2>3. /\ \A k \in 1..n : metrics[k].at <= date
        /\ \A k, l \in 1..n : k < l => metrics[k].at <= metrics[l].at
    BY <2>2 DEF Collected
  <2>4. \A k \in 1..n : metrics[k].at \in Nat  BY <2>2 DEF MetricRecords
  <2>5. QED  BY <2>1, <2>2, <2>3, <2>4
<1>2. /\ all \in Seq(MetricRecords) /\ Len(all) = n + 1 /\ DOMAIN all = 1..(n + 1)
      /\ \A k \in 1..n : all[k] = metrics[k]
      /\ all[n + 1] = new
  BY <1>1 DEF MetricRecords
<1>3. new.type = type /\ new.at = date  OBVIOUS
<1> HIDE DEF new
<1>4. \A k \in 1..(n + 1) : all[k].at \in Nat /\ all[k].at <= date
  BY <1>1, <1>2, <1>3
<1>5. ASSUME NEW k \in 1..(n + 1), NEW l \in 1..(n + 1), k < l PROVE all[k].at <= all[l].at
  <2>1. k \in 1..n /\ all[k] = metrics[k]  BY <1>1, <1>2, <1>5
  <2>2. CASE l \in 1..n
    <3>1. all[l] = metrics[l]  BY <1>2, <2>2
    <3>2. QED  BY <1>1, <1>5, <2>1, <2>2, <3>1
  <2>3. CASE l = n + 1
    BY <1>1, <1>2, <1>3, <2>1, <2>3
  <2>4. QED  BY <1>1, <2>2, <2>3
<1> HIDE DEF all
<1>6. CASE n + 1 > MetricsCap
  <2>1. storeMetric(type) = Tail(all)  BY <1>2, <1>6 DEF storeMetric, all, new
  <2> DEFINE kept == Tail(all)
  <2>2. /\ kept \in Seq(MetricRecords) /\ Len(kept) = n /\ DOMAIN kept = 1..n
        /\ \A k \in 1..n : kept[k] = all[k + 1]
    BY <1>1, <1>2
  <2>3. n = MetricsCap  BY <1>1, <1>6
  <2> HIDE DEF kept
  <2>4. \A k \in 1..n : kept[k].at <= date  BY <1>1, <1>4, <2>2
  <2>5. ASSUME NEW k \in 1..n, NEW l \in 1..n, k < l PROVE kept[k].at <= kept[l].at
    <3>1. k + 1 \in 1..(n + 1) /\ l + 1 \in 1..(n + 1) /\ k + 1 < l + 1  BY <1>1, <2>5
    <3>2. all[k + 1].at <= all[l + 1].at  BY <1>5, <3>1
    <3>3. QED  BY <2>2, <3>2
  <2>6. Collected(kept, date)  BY <1>1, <2>2, <2>3, <2>4, <2>5 DEF Collected
  <2>7. n \in 1..n /\ kept[n].type = type /\ kept[n].at = date
    BY <1>1, <1>2, <1>3, <2>2, <2>3
  <2>8. ASSUME NEW a, a.at \in Nat, a.at <= date, Remembered(a, metrics) PROVE Remembered(a, kept)
    <3>1. CASE a.category = "price"  BY <3>1 DEF Remembered
    <3>2. CASE \A k \in 1..n : metrics[k].at >= a.at
      <4>1. \A k \in 1..n : kept[k].at >= a.at
        <5>1. \A k \in 1..(n + 1) : all[k].at >= a.at
          BY <1>1, <1>2, <1>3, <2>8, <3>2
        <5>2. QED  BY <1>1, <2>2, <5>1
      <4>2. QED  BY <2>2, <2>3, <4>1 DEF Remembered
    <3>3. CASE \E k \in 1..n : metrics[k].type = a.category /\ metrics[k].at = a.at
      <4>1. PICK k \in 1..n : metrics[k].type = a.category /\ metrics[k].at = a.at
        BY <3>3
      <4>2. CASE k = 1
        <5>1. \A l \in 1..n : metrics[l].at >= a.at  BY <1>1, <4>1, <4>2
        <5>2. QED  BY <5>1, <3>2
      <4>3. CASE k # 1
        <5>1. k - 1 \in 1..n /\ kept[k - 1] = metrics[k]
          BY <1>1, <1>2, <2>2, <4>3
        <5>2. QED  BY <2>2, <4>1, <5>1 DEF Remembered
      <4>4. QED  BY <4>2, <4>3
    <3>4. QED  BY <1>1, <2>8, <3>1, <3>2, <3>3 DEF Remembered
  <2>9. QED  BY <2>1, <2>2, <2>6, <2>7, <2>8 DEF kept
<1>7. CASE ~(n + 1 > MetricsCap)
  <2>1. storeMetric(type) = all  BY <1>2, <1>7 DEF storeMetric, all, new
  <2>2. Collected(all, date)
    <3>1. Len(all) <= MetricsCap  BY <1>1, <1>2, <1>7
    <3>2. QED  BY <1>2, <1>4, <1>5, <3>1 DEF Collected
  <2>3. n + 1 \in 1..(n + 1)  BY <1>1
  <2>4. ASSUME NEW a, Remembered(a, metrics) PROVE Remembered(a, all)
    <3>1. n # MetricsCap  BY <1>1, <1>7
    <3>2. CASE a.category = "price"  BY <3>2 DEF Remembered
    <3>3. CASE \E k \in 1..n : metrics[k].type = a.category /\ metrics[k].at = a.at
      <4>1. PICK k \in 1..n : metrics[k].type = a.category /\ metrics[k].at = a.at
        BY <3>3
      <4>2. k \in 1..(n + 1) /\ all[k] = metrics[k]  BY <1>1, <1>2
      <4>3. QED  BY <1>2, <4>1, <4>2 DEF Remembered
    <3>4. QED  BY <1>1, <2>4, <3>1, <3>2, <3>3 DEF Remembered
  <2>5. QED  BY <1>2, <1>3, <2>1, <2>2, <2>3, <2>4
<1>8. QED  BY <1>1, <1>6, <1>7

LEMMA MonitoringBegins == MonitoringInit => MonitoringInv
<1> SUFFICES ASSUME MonitoringInit PROVE MonitoringInv  OBVIOUS
<1>1. /\ date = 1 /\ metrics = <<>> /\ alerts = [m \in Managers |-> <<>>]
      /\ lastAlertTime = [m \in Managers |-> [r \in RuleIds |-> 0]]
  BY DEF MonitoringInit
<1>2. "jobs" \in Managers  BY DEF Managers
<1>3. Collected(metrics, date)  BY <1>1, MonitoringAssumption DEF Collected
<1>4. Raised(<<>>, [r \in RuleIds |-> 0], metrics, date)  BY DEF Raised
<1>5. QED  BY <1>1, <1>2, <1>3, <1>4 DEF MonitoringInv

LEMMA DeviationSeen == \A d \in Data("price") : d.deviation \in Nat
<1>1. ASSUME NEW p \in FeedPrices PROVE (100 * Apart(p, 150)) \div 150 \in Nat
  <2>1. Apart(p, 150) \in Nat  BY MonitoringAssumption DEF Apart
  <2>2. QED  BY <2>1
<1>2. QED  BY <1>1 DEF Data, checkPriceFeeds

LEMMA FieldsOfMetrics ==
    ASSUME NEW entries \in Seq(MetricRecords), NEW k \in DOMAIN entries
    PROVE  entries[k].at \in Nat
<1>1. entries[k] \in MetricRecords  OBVIOUS
<1>2. QED  BY <1>1 DEF MetricRecords

LEMMA FieldsOfAlerts ==
    ASSUME NEW list \in Seq(AlertRecords), NEW i \in DOMAIN list
    PROVE  list[i].at \in Nat
<1>1. list[i] \in AlertRecords  OBVIOUS
<1>2. QED  BY <1>1 DEF AlertRecords

LEMMA MonitoringStep == MonitoringInv /\ [MonitoringNext]_monitoringVars => MonitoringInv'
<1> SUFFICES ASSUME MonitoringInv, [MonitoringNext]_monitoringVars PROVE MonitoringInv'  OBVIOUS
<1>0. /\ "jobs" \in Managers /\ "api" \in Managers /\ "jobs" # "api"
      /\ date \in Nat \ {0} /\ Collected(metrics, date)
      /\ Raised(alerts["jobs"], lastAlertTime["jobs"], metrics, date)
      /\ alerts = [m \in Managers |-> alerts[m]]
      /\ lastAlertTime = [m \in Managers |-> lastAlertTime[m]]
  BY DEF Managers, MonitoringInv
<1>1. ASSUME UNCHANGED <<date, alerts, lastAlertTime, metrics>> PROVE MonitoringInv'
  BY <1>1 DEF MonitoringInv
<1>2. ASSUME NEW list, Becomes(list) PROVE MonitoringInv'
  <2>1. /\ alerts' = [alerts EXCEPT !["api"] = list] /\ UNCHANGED <<date, lastAlertTime, metrics>>
    BY <1>2 DEF Becomes
  <2>2. alerts'["jobs"] = alerts["jobs"] /\ alerts' = [m \in Managers |-> alerts'[m]]
    BY <1>0, <2>1
  <2>3. QED  BY <1>0, <2>1, <2>2 DEF MonitoringInv
<1>3. CASE TimePasses
  <2>1. date' = date + 1 /\ UNCHANGED <<alerts, lastAlertTime, metrics>>
    BY <1>3 DEF TimePasses
  <2>2. Collected(metrics, date + 1)
    <3>1. \A k \in DOMAIN metrics : metrics[k].at \in Nat
      BY <1>0, FieldsOfMetrics DEF Collected
    <3>2. QED  BY <1>0, <3>1 DEF Collected
  <2>3. Raised(alerts["jobs"], lastAlertTime["jobs"], metrics, date + 1)
    <3>1. \A i \in DOMAIN alerts["jobs"] : alerts["jobs"][i].at \in Nat
      BY <1>0, FieldsOfAlerts DEF Raised
    <3>2. \A i \in DOMAIN alerts["jobs"] : alerts["jobs"][i].at <= date + 1
      BY <1>0, <3>1 DEF Raised
    <3>3. QED  BY <1>0, <3>2 DEF Raised
  <2>4. QED  BY <1>0, <2>1, <2>2, <2>3 DEF MonitoringInv
<1>4. ASSUME NEW j \in Jobs, NEW d \in Data(awaiting[j]), JobAnswers(j, d) PROVE MonitoringInv'
  <2> DEFINE kind == awaiting[j]
             list == checkAlerts(alerts["jobs"], kind, d)
             gained == IF kind = "price" THEN metrics ELSE storeMetric(kind)
  <2>1. /\ kind \in Kinds /\ metrics' = gained /\ date' = date
        /\ alerts' = [alerts EXCEPT !["jobs"] = list]
        /\ lastAlertTime' = [lastAlertTime EXCEPT !["jobs"] = TimesAfter(kind, d)]
    BY <1>4, RulesAre DEF JobAnswers
  <2>2. alerts'["jobs"] = list /\ lastAlertTime'["jobs"] = TimesAfter(kind, d)
    BY <1>0, <2>1
  <2>3. /\ alerts' = [m \in Managers |-> alerts'[m]]
        /\ lastAlertTime' = [m \in Managers |-> lastAlertTime'[m]]
    BY <1>0, <2>1
  <2> HIDE DEF list
  <2>4. Collected(gained, date)
        /\ (kind = "price" \/ \E k \in DOMAIN gained : gained[k].type = kind /\ gained[k].at = date)
    BY <1>0, <2>1, MetricStored
  <2>5. Raised(alerts["jobs"], lastAlertTime["jobs"], gained, date)
    <3>1. CASE kind = "price"  BY <1>0, <3>1
    <3>2. CASE kind # "price"
      <4>1. \A a : a.at \in Nat /\ a.at <= date /\ Remembered(a, metrics) => Remembered(a, gained)
        BY <1>0, <2>1, <3>2, MetricStored
      <4>2. \A i \in DOMAIN alerts["jobs"] : alerts["jobs"][i].at \in Nat
        BY <1>0, FieldsOfAlerts DEF Raised
      <4> HIDE DEF gained
      <4>3. \A i \in DOMAIN alerts["jobs"] : Remembered(alerts["jobs"][i], gained)
        BY <1>0, <4>1, <4>2 DEF Raised
      <4>4. QED  BY <1>0, <4>3 DEF Raised
    <3>3. QED  BY <3>1, <3>2
  <2>6. Raised(list, TimesAfter(kind, d), gained, date)
    <3>1. CASE kind = "contract"  BY <1>0, <2>4, <2>5, <3>1, ContractChecked DEF list
    <3>2. CASE kind = "validators"  BY <1>0, <2>4, <2>5, <3>2, ValidatorsChecked DEF list
    <3>3. CASE kind = "price"
      <4>1. d.deviation \in Nat  BY <3>3, DeviationSeen
      <4>2. QED  BY <1>0, <2>5, <3>3, <4>1, PriceChecked DEF list
    <3>4. QED  BY <2>1, <3>1, <3>2, <3>3 DEF Kinds
  <2>7. QED  BY <1>0, <2>1, <2>2, <2>3, <2>4, <2>6 DEF MonitoringInv
<1>5. ASSUME NEW j \in Jobs, JobFails(j) \/ \E kind \in DOMAIN Rules : JobFires(j, kind)
      PROVE  MonitoringInv'
  BY <1>1, <1>5 DEF JobFails, JobFires
<1>6. CASE getAlerts \/ clearOldAlerts \/ addCustomAlert
  BY <1>2, <1>6 DEF getAlerts, clearOldAlerts, addCustomAlert
<1>7. ASSUME NEW id, acknowledgeAlert(id) PROVE MonitoringInv'
  BY <1>2, <1>7 DEF acknowledgeAlert
<1>8. CASE UNCHANGED monitoringVars  BY <1>1, <1>8 DEF monitoringVars
<1>9. QED  BY <1>3, <1>4, <1>5, <1>6, <1>7, <1>8 DEF MonitoringNext

(* What the history shows is all that is young: it is never cut.            *)
LEMMA HistoryIsWhole ==
    ASSUME Collected(metrics, date), NEW type, NEW timeframe, NEW k \in DOMAIN metrics,
           metrics[k].type = type, date - metrics[k].at < timeframe
    PROVE  k \in getHistory(type, MetricsCap, timeframe)
<1> DEFINE young == {l \in DOMAIN metrics :
                       metrics[l].type = type /\ date - metrics[l].at < timeframe}
           after == {l \in young : l > k}
<1>1. metrics \in Seq(MetricRecords) /\ Len(metrics) <= MetricsCap /\ MetricsCap \in Nat
  BY MonitoringAssumption DEF Collected
<1>2. DOMAIN metrics = 1..Len(metrics) /\ Len(metrics) \in Nat  BY <1>1
<1>3. after \subseteq 1..Len(metrics) \ {k}  BY <1>2
<1>4. /\ IsFiniteSet(1..Len(metrics)) /\ Cardinality(1..Len(metrics)) = Len(metrics)
  <2>1. 1 \in Int /\ Len(metrics) \in Int /\ 1 <= Len(metrics)  BY <1>2
  <2>2. Cardinality(1..Len(metrics)) = Len(metrics) - 1 + 1  BY <2>1, FS_Interval
  <2>3. QED  BY <1>2, <2>1, <2>2, FS_Interval
<1>5. /\ IsFiniteSet(1..Len(metrics) \ {k})
      /\ Cardinality(1..Len(metrics) \ {k}) = Len(metrics) - 1
  <2>1. k \in 1..Len(metrics)  BY <1>2
  <2>2. QED  BY <1>4, <2>1, FS_RemoveElement
<1>6. Cardinality(after) <= Len(metrics) - 1 /\ Cardinality(after) \in Nat
  BY <1>3, <1>5, FS_Subset, FS_CardinalityType
<1>7. k \in young /\ Cardinality(after) < MetricsCap  BY <1>1, <1>2, <1>6
<1>8. QED  BY <1>7 DEF getHistory

LEMMA AlertsAreHeld == MonitoringInv => AlertsHold
<1> SUFFICES ASSUME MonitoringInv PROVE AlertsSpaced /\ AlertsHaveMetrics  BY DEF AlertsHold
<1>1. Raised(alerts["jobs"], lastAlertTime["jobs"], metrics, date) /\ Collected(metrics, date)
  BY DEF MonitoringInv
<1>2. AlertsSpaced  BY <1>1 DEF AlertsSpaced, Raised
<1>3. ASSUME NEW i \in DOMAIN alerts["jobs"], alerts["jobs"][i].category # "price",
             date - alerts["jobs"][i].at < AlertAge
      PROVE  \/ \E k \in getHistory(alerts["jobs"][i].category, MetricsCap, AlertAge) :
                  metrics[k].at = alerts["jobs"][i].at
             \/ Len(metrics) = MetricsCap
                /\ \A k \in DOMAIN metrics : metrics[k].at >= alerts["jobs"][i].at
  <2>1. Remembered(alerts["jobs"][i], metrics)  BY <1>1 DEF Raised
  <2>2. CASE \E k \in DOMAIN metrics : /\ metrics[k].type = alerts["jobs"][i].category
                                       /\ metrics[k].at = alerts["jobs"][i].at
    BY <1>1, <1>3, <2>2, HistoryIsWhole
  <2>3. QED  BY <1>3, <2>1, <2>2 DEF Remembered
<1>4. AlertsHaveMetrics  BY <1>3 DEF AlertsHaveMetrics
<1>5. QED  BY <1>2, <1>4

(* The same for any prices, uptimes, cooldowns, jobs and size of collector. *)
THEOREM AlertsAlwaysHold == MonitoringSpec => []AlertsHold
<1>1. MonitoringSpec => []MonitoringInv
  BY MonitoringBegins, MonitoringStep, PTL DEF MonitoringSpec
<1>2. QED
  BY <1>1, AlertsAreHeld, PTL

-----------------------------------------------------------------------------
(* The ring of prices and its average.                                      *)

LEMMA ProductsOrdered ==
    ASSUME NEW a \in Nat, NEW b \in Nat, a <= b, NEW w \in Nat
    PROVE  a * w <= b * w /\ a * w \in Nat /\ b * w \in Nat
  OBVIOUS

LEMMA ProductOfSum ==
    ASSUME NEW a \in Nat, NEW w \in Nat, NEW W \in Nat
    PROVE  a * (w + W) = a * w + a * W /\ a * w \in Nat /\ a * W \in Nat
  OBVIOUS

(* A weighted sum lies between the products of the total weight with bounds *)
(* of the values.                                                           *)
LEMMA WeightedAbove ==
    ASSUME NEW S, IsFiniteSet(S), NEW lo \in Nat, NEW p, NEW w, NEW v,
           \A x \in S : p[x] \in Nat /\ lo <= p[x] /\ w[x] \in Nat /\ v[x] = p[x] * w[x]
    PROVE  lo * SumFunctionOnSet(w, S) <= SumFunctionOnSet(v, S)
<1> DEFINE Good == {T \in SUBSET S : lo * SumFunctionOnSet(w, T) <= SumFunctionOnSet(v, T)}
<1>1. {} \in Good
  <2>1. SumFunctionOnSet(w, {}) = 0 /\ SumFunctionOnSet(v, {}) = 0  BY SumEmpty
  <2>2. QED  BY <2>1
<1>2. ASSUME NEW T \in SUBSET S, NEW x \in S \ T, T \in Good PROVE T \cup {x} \in Good
  <2>1. \A y \in S : w[y] \in Nat /\ v[y] \in Nat /\ lo * w[y] <= v[y]
    BY ProductsOrdered
  <2>2. IsFiniteSet(T)  BY FS_Subset
  <2>3. /\ SumFunctionOnSet(w, T \cup {x}) = w[x] + SumFunctionOnSet(w, T)
        /\ SumFunctionOnSet(v, T \cup {x}) = v[x] + SumFunctionOnSet(v, T)
    BY <2>1, <2>2, SumAdd
  <2>4. SumFunctionOnSet(w, T) \in Nat /\ SumFunctionOnSet(v, T) \in Nat
    BY <2>1, <2>2, SumNat
  <2>5. lo * SumFunctionOnSet(w, T) <= SumFunctionOnSet(v, T)  BY <1>2
  <2>6. lo * (w[x] + SumFunctionOnSet(w, T)) <= v[x] + SumFunctionOnSet(v, T)
    BY <2>1, <2>4, <2>5, ProductOfSum
  <2>7. QED  BY <2>3, <2>6
<1> HIDE DEF Good
<1>3. S \in Good  BY <1>1, <1>2, FiniteSetInduction
<1>4. QED  BY <1>3 DEF Good

LEMMA WeightedBelow ==
    ASSUME NEW S, IsFiniteSet(S), NEW hi \in Nat, NEW p, NEW w, NEW v,
           \A x \in S : p[x] \in Nat /\ p[x] <= hi /\ w[x] \in Nat /\ v[x] = p[x] * w[x]
    PROVE  SumFunctionOnSet(v, S) <= hi * SumFunctionOnSet(w, S)
<1> DEFINE Good == {T \in SUBSET S : SumFunctionOnSet(v, T) <= hi * SumFunctionOnSet(w, T)}
<1>1. {} \in Good
  <2>1. SumFunctionOnSet(w, {}) = 0 /\ SumFunctionOnSet(v, {}) = 0  BY SumEmpty
  <2>2. QED  BY <2>1
<1>2. ASSUME NEW T \in SUBSET S, NEW x \in S \ T, T \in Good PROVE T \cup {x} \in Good
  <2>1. \A y \in S : w[y] \in Nat /\ v[y] \in Nat /\ v[y] <= hi * w[y]
    BY ProductsOrdered
  <2>2. IsFiniteSet(T)  BY FS_Subset
  <2>3. /\ SumFunctionOnSet(w, T \cup {x}) = w[x] + SumFunctionOnSet(w, T)
        /\ SumFunctionOnSet(v, T \cup {x}) = v[x] + SumFunctionOnSet(v, T)
    BY <2>1, <2>2, SumAdd
  <2>4. SumFunctionOnSet(w, T) \in Nat /\ SumFunctionOnSet(v, T) \in Nat
    BY <2>1, <2>2, SumNat
  <2>5. SumFunctionOnSet(v, T) <= hi * SumFunctionOnSet(w, T)  BY <1>2
  <2>6. v[x] + SumFunctionOnSet(v, T) <= hi * (w[x] + SumFunctionOnSet(w, T))
    BY <2>1, <2>4, <2>5, ProductOfSum
  <2>7. QED  BY <2>3, <2>6
<1> HIDE DEF Good
<1>3. S \in Good  BY <1>1, <1>2, FiniteSetInduction
<1>4. QED  BY <1>3 DEF Good

LEMMA QuotientOf ==
    ASSUME NEW m \in Nat, NEW d \in Nat \ {0}
    PROVE  m \div d \in Nat /\ (m \div d) * d <= m /\ m < (m \div d + 1) * d
  OBVIOUS

LEMMA QuotientBelow ==
    ASSUME NEW m \in Nat, NEW b \in Nat \ {0}, NEW d \in Nat, m < (d + 1) * b
    PROVE  m \div b <= d
  OBVIOUS

LEMMA DeviationNat ==
    ASSUME NEW p \in Nat \ {0}, NEW t \in Nat \ {0}
    PROVE  calculateDeviation(p, t) \in Nat
  BY DEF calculateDeviation, Average

PriceRecords == [price : Nat, at : Nat]
SecurityInv ==
    /\ ring \in [Slots -> PriceRecords]
    /\ currentIndex \in Slots /\ lastUpdateTime \in Nat
    /\ timestamp \in Nat \ {0}
    /\ securityConfig \in Configurations /\ securityConfig.deviation <= 5000
    /\ \A slot \in Slots : ring[slot].at <= timestamp
    /\ initialized => \E slot \in Slots : ring[slot].at = lastUpdateTime /\ ring[slot].at # 0

LEMMA SecurityBegins == SecurityInit => SecurityInv
<1> SUFFICES ASSUME SecurityInit PROVE SecurityInv  OBVIOUS
<1>1. Blank \in PriceRecords /\ Blank.at = 0  BY DEF Blank, PriceRecords
<1>2. ring \in [Slots -> PriceRecords] /\ \A slot \in Slots : ring[slot].at = 0
  BY <1>1 DEF SecurityInit
<1>3. securityConfig \in Configurations /\ securityConfig.deviation = 1000
  BY SecurityAssumption DEF SecurityInit
<1>4. currentIndex \in Slots  BY SecurityAssumption DEF SecurityInit, Slots
<1>5. initialized = FALSE /\ lastUpdateTime = 0 /\ timestamp \in Nat \ {0}
  BY SecurityAssumption DEF SecurityInit
<1>6. QED  BY <1>2, <1>3, <1>4, <1>5 DEF SecurityInv

LEMMA SecurityStep == SecurityInv /\ [SecurityNext]_securityVars => SecurityInv'
<1> SUFFICES ASSUME SecurityInv, [SecurityNext]_securityVars PROVE SecurityInv'  OBVIOUS
<1>1. ASSUME NEW p \in Offered, updateTWAPData(p) PROVE SecurityInv'
  <2>1. [price |-> p, at |-> timestamp] \in PriceRecords
    BY SecurityAssumption DEF SecurityInv, PriceRecords
  <2>2. /\ ring' \in [Slots -> PriceRecords]
        /\ \A slot \in Slots : ring'[slot] = IF slot = currentIndex
                                             THEN [price |-> p, at |-> timestamp] ELSE ring[slot]
    BY <1>1, <2>1 DEF SecurityInv, updateTWAPData
  <2>3. currentIndex' \in Slots
    BY <1>1, SecurityAssumption DEF SecurityInv, updateTWAPData, Slots
  <2>4. \A slot \in Slots : ring'[slot].at <= timestamp
    BY <2>2 DEF SecurityInv, PriceRecords
  <2>5. ring'[currentIndex].at = timestamp /\ currentIndex \in Slots /\ timestamp # 0
    BY <2>2 DEF SecurityInv
  <2>6. /\ lastUpdateTime' = timestamp /\ timestamp' = timestamp
        /\ securityConfig' = securityConfig
    BY <1>1 DEF updateTWAPData
  <2>7. QED  BY <2>2, <2>3, <2>4, <2>5, <2>6 DEF SecurityInv
<1>2. ASSUME NEW c \in Configs, updateSecurityConfig(c) PROVE SecurityInv'
  BY <1>2, SecurityAssumption DEF updateSecurityConfig, SecurityInv, twap
<1>3. ASSUME UNCHANGED <<twap, securityConfig, timestamp>> PROVE SecurityInv'
  BY <1>3 DEF SecurityInv, twap
<1>4. CASE Block
  <2>1. UNCHANGED <<twap, securityConfig>> /\ timestamp' = timestamp + 1
    BY <1>4 DEF Block
  <2>2. \A slot \in Slots : ring[slot].at \in Nat  BY DEF SecurityInv, PriceRecords
  <2>3. QED  BY <2>1, <2>2 DEF SecurityInv, twap
<1>5. CASE activateEmergencyMode \/ deactivateEmergencyMode
  BY <1>3, <1>5 DEF activateEmergencyMode, deactivateEmergencyMode
<1>6. ASSUME NEW s \in Sources, addOracleSource(s) \/ removeOracleSource(s) PROVE SecurityInv'
  <2>1. UNCHANGED <<twap, securityConfig, timestamp>>
    BY <1>6 DEF addOracleSource, removeOracleSource
  <2>2. QED  BY <2>1, <1>3
<1>7. CASE UNCHANGED securityVars
  BY <1>3, <1>7 DEF securityVars
<1>8. QED  BY <1>1, <1>2, <1>4, <1>5, <1>6, <1>7 DEF SecurityNext

(* What the recent prices weigh.                                            *)
LEMMA FreshWeights ==
    ASSUME SecurityInv
    PROVE  /\ IsFiniteSet(InWindow) /\ InWindow \subseteq Slots
           /\ \A slot \in InWindow : /\ ring[slot].price \in Nat /\ Weights[slot] \in Nat
                                  /\ Weighted[slot] = ring[slot].price * Weights[slot]
                                  /\ Weighted[slot] \in Nat
<1>1. IsFiniteSet(Slots)
  BY SecurityAssumption, FS_Interval DEF Slots
<1>2. InWindow \subseteq Slots  BY DEF InWindow, Used
<1>3. IsFiniteSet(InWindow)  BY <1>1, <1>2, FS_Subset
<1>4. ASSUME NEW slot \in InWindow
      PROVE  /\ ring[slot].price \in Nat /\ Weights[slot] \in Nat
             /\ Weighted[slot] = ring[slot].price * Weights[slot] /\ Weighted[slot] \in Nat
  <2>1. ring[slot] \in PriceRecords /\ ring[slot].at <= timestamp /\ timestamp \in Nat
    BY <1>2 DEF SecurityInv
  <2>2. ring[slot].price \in Nat /\ ring[slot].at \in Nat  BY <2>1 DEF PriceRecords
  <2>3. securityConfig.window \in Nat  BY DEF SecurityInv, Configurations
  <2>4. timestamp - ring[slot].at <= securityConfig.window  BY DEF InWindow, SlotAge
  <2>5. Weights[slot] = securityConfig.window - (timestamp - ring[slot].at)
    BY DEF Weights, Weight, SlotAge
  <2>6. Weighted[slot] = ring[slot].price * Weights[slot]
    BY DEF Weighted, Weights
  <2>7. Weights[slot] \in Nat  BY <2>1, <2>2, <2>3, <2>4, <2>5
  <2>8. QED  BY <2>2, <2>6, <2>7, ProductsOrdered
<1>5. QED  BY <1>2, <1>3, <1>4

LEMMA SumsOfWeights == SecurityInv => TotalWeight \in Nat /\ WeightedSum \in Nat
  BY FreshWeights, SumNat DEF TotalWeight, WeightedSum

(* An average is not above all the prices, nor below all of them.           *)
LEMMA AverageWithin ==
    ASSUME SecurityInv, Defined
    PROVE  /\ calculateTWAP \in Nat
           /\ \E low, high \in InWindow : /\ ring[low].price <= calculateTWAP
                                       /\ calculateTWAP <= ring[high].price
<1> DEFINE t == calculateTWAP
           p == [slot \in InWindow |-> ring[slot].price]
<1>1. WeightedSum \in Nat /\ TotalWeight \in Nat \ {0}
  BY SumsOfWeights DEF Defined
<1>2. t \in Nat /\ t * TotalWeight <= WeightedSum /\ WeightedSum < (t + 1) * TotalWeight
  BY <1>1, QuotientOf DEF calculateTWAP
<1>3. \A slot \in InWindow : p[slot] = ring[slot].price /\ p[slot] \in Nat
  BY FreshWeights
<1> HIDE DEF t
<1>4. ASSUME NEW top \in Nat, \A slot \in InWindow : p[slot] <= top
      PROVE  WeightedSum <= top * TotalWeight
  <2>1. \A slot \in InWindow : /\ p[slot] \in Nat /\ p[slot] <= top
                            /\ Weights[slot] \in Nat /\ Weighted[slot] = p[slot] * Weights[slot]
    BY <1>3, <1>4, FreshWeights
  <2> HIDE DEF p
  <2>2. QED  BY <2>1, FreshWeights, WeightedBelow DEF TotalWeight, WeightedSum
<1>5. \E high \in InWindow : t <= p[high]
  <2>1. SUFFICES ASSUME \A slot \in InWindow : ~(t <= p[slot]) PROVE FALSE
    OBVIOUS
  <2>2. CASE t = 0
    <3>1. InWindow = {}  BY <1>3, <2>1, <2>2
    <3>2. TotalWeight = 0  BY <3>1, SumEmpty DEF TotalWeight
    <3>3. QED  BY <1>1, <3>2
  <2>3. CASE t # 0
    <3>1. \A slot \in InWindow : p[slot] <= t - 1  BY <1>2, <1>3, <2>1
    <3>2. WeightedSum <= (t - 1) * TotalWeight  BY <1>2, <1>4, <2>3, <3>1
    <3>3. (t - 1) * TotalWeight = t * TotalWeight - TotalWeight  BY <1>1, <1>2
    <3>4. t * TotalWeight \in Nat  BY <1>1, <1>2
    <3>5. QED  BY <1>1, <1>2, <3>2, <3>3, <3>4
  <2>4. QED  BY <2>2, <2>3
<1>6. \E low \in InWindow : p[low] <= t
  <2>1. SUFFICES ASSUME \A slot \in InWindow : ~(p[slot] <= t) PROVE FALSE
    OBVIOUS
  <2>4. \A slot \in InWindow : /\ p[slot] \in Nat /\ t + 1 <= p[slot]
                            /\ Weights[slot] \in Nat /\ Weighted[slot] = p[slot] * Weights[slot]
    BY <1>2, <1>3, <2>1, FreshWeights
  <2> HIDE DEF p
  <2>5. (t + 1) * TotalWeight <= WeightedSum
    BY <1>2, <2>4, FreshWeights, WeightedAbove DEF TotalWeight, WeightedSum
  <2>6. (t + 1) * TotalWeight \in Nat  BY <1>1, <1>2
  <2>7. QED  BY <1>1, <1>2, <2>5, <2>6
<1>7. QED  BY <1>2, <1>3, <1>5, <1>6 DEF t

(* The newest price weighs, so there is an average while it is recent.      *)
LEMMA AverageThere == SecurityInv => TwapSound
<1> SUFFICES ASSUME SecurityInv PROVE TwapSound  OBVIOUS
<1>1. ASSUME initialized, timestamp - lastUpdateTime < securityConfig.window PROVE Defined
  <2>1. PICK slot \in Slots : ring[slot].at = lastUpdateTime /\ ring[slot].at # 0
    BY <1>1 DEF SecurityInv
  <2>2. /\ timestamp \in Nat /\ lastUpdateTime \in Nat /\ securityConfig.window \in Nat
    BY DEF SecurityInv, Configurations
  <2>3. slot \in InWindow
    BY <1>1, <2>1, <2>2 DEF InWindow, Used, SlotAge
  <2>4. Weights[slot] = securityConfig.window - (timestamp - lastUpdateTime)
    BY <2>1, <2>3 DEF Weights, Weight, SlotAge
  <2>5. Weights[slot] <= TotalWeight
    BY <2>3, FreshWeights, SumMember DEF TotalWeight
  <2>6. QED  BY <1>1, <2>2, <2>4, <2>5, SumsOfWeights DEF Defined
<1>2. QED  BY <1>1, AverageWithin DEF TwapSound

(* A price between one it deviates little from and the other deviates as    *)
(* little: above it ...                                                     *)
LEMMA DeviationAbove ==
    ASSUME NEW p \in Nat \ {0}, NEW t \in Nat, NEW q \in Nat, p < t, t <= q,
           NEW d \in Nat, d <= 5000, calculateDeviation(p, q) <= d
    PROVE  calculateDeviation(p, t) <= d
<1> DEFINE b == Average(p, q)
           c == Average(p, t)
<1>1. b \in Nat \ {0} /\ c \in Nat \ {0} /\ b - c <= q - t /\ c <= b
  BY DEF Average
<1>2. /\ calculateDeviation(p, q) = ((q - p) * 10000) \div b
      /\ calculateDeviation(p, t) = ((t - p) * 10000) \div c
  BY DEF calculateDeviation
<1> HIDE DEF b, c
<1>3. (q - p) * 10000 < (((q - p) * 10000) \div b + 1) * b
  BY <1>1, QuotientOf
<1>4. (((q - p) * 10000) \div b + 1) * b <= (d + 1) * b
  <2>1. ((q - p) * 10000) \div b \in Nat  BY <1>1, QuotientOf
  <2>2. QED  BY <1>1, <1>2, <2>1, ProductsOrdered
<1>5. (d + 1) * b = (d + 1) * c + (d + 1) * (b - c) /\ (d + 1) * (b - c) \in Nat
  BY <1>1, ProductOfSum
<1>6. (d + 1) * (b - c) <= 5001 * (b - c)
  BY <1>1, ProductsOrdered
<1>7. (t - p) * 10000 < (d + 1) * c
  <2>1. (d + 1) * c \in Nat /\ (d + 1) * b \in Nat  BY <1>1
  <2>2. (((q - p) * 10000) \div b + 1) * b \in Nat
    BY <1>1, QuotientOf
  <2>3. (q - p) * 10000 < (d + 1) * c + 5001 * (b - c)
    BY <1>1, <1>3, <1>4, <1>5, <1>6, <2>1, <2>2
  <2>4. QED  BY <1>1, <2>1, <2>3
<1>8. QED  BY <1>1, <1>2, <1>7, QuotientBelow

(* ... and below it.                                                        *)
LEMMA DeviationBelow ==
    ASSUME NEW p \in Nat \ {0}, NEW t \in Nat, NEW q \in Nat \ {0}, t < p, q <= t,
           NEW d \in Nat, calculateDeviation(p, q) <= d
    PROVE  calculateDeviation(p, t) <= d
<1> DEFINE b == Average(p, q)
           c == Average(p, t)
<1>1. b \in Nat \ {0} /\ c \in Nat \ {0} /\ b <= c
  BY DEF Average
<1>2. /\ calculateDeviation(p, q) = ((p - q) * 10000) \div b
      /\ calculateDeviation(p, t) = ((p - t) * 10000) \div c
  BY DEF calculateDeviation
<1> HIDE DEF b, c
<1>3. (p - q) * 10000 < (((p - q) * 10000) \div b + 1) * b
  BY <1>1, QuotientOf
<1>4. (((p - q) * 10000) \div b + 1) * b <= (d + 1) * b
  <2>1. ((p - q) * 10000) \div b \in Nat  BY <1>1, QuotientOf
  <2>2. QED  BY <1>1, <1>2, <2>1, ProductsOrdered
<1>5. (d + 1) * b <= (d + 1) * c
  <2>1. (d + 1) * c = (d + 1) * b + (d + 1) * (c - b)
        /\ (d + 1) * (c - b) \in Nat /\ (d + 1) * b \in Nat
    BY <1>1, ProductOfSum
  <2>2. QED  BY <2>1
<1>6. (p - t) * 10000 < (d + 1) * c
  <2>1. (d + 1) * c \in Nat /\ (d + 1) * b \in Nat  BY <1>1
  <2>2. (((p - q) * 10000) \div b + 1) * b \in Nat
    BY <1>1, QuotientOf
  <2>3. QED  BY <1>1, <1>3, <1>4, <1>5, <2>1, <2>2
<1>7. (p - t) * 10000 \in Nat  OBVIOUS
<1>8. ((p - t) * 10000) \div c <= d
  BY <1>1, <1>6, <1>7, QuotientBelow
<1>9. QED  BY <1>2, <1>8

(* A price near all the recent ones is near their average.                  *)
LEMMA SteadyIsNear == SecurityInv => SteadyAccepted
<1> SUFFICES ASSUME SecurityInv, NEW p \in Offered \ {0},
                    Defined, ~emergency.mode,
                    timestamp - lastUpdateTime >= securityConfig.interval,
                    \A slot \in InWindow :
                       /\ ring[slot].price > 0
                       /\ calculateDeviation(p, ring[slot].price) <= securityConfig.deviation
             PROVE  validatePriceUpdate(p, securityConfig.sources) = "valid"
  BY DEF SteadyAccepted
<1> DEFINE t == calculateTWAP
           d == securityConfig.deviation
<1>1. p \in Nat \ {0}  BY SecurityAssumption
<1>2. d \in Nat /\ d <= 5000 /\ securityConfig.sources \in Nat
  BY DEF SecurityInv, Configurations
<1>3. PICK low \in InWindow, high \in InWindow : /\ ring[low].price <= t
                                           /\ t <= ring[high].price
  BY AverageWithin
<1>4. t \in Nat /\ ring[low].price \in Nat \ {0} /\ ring[high].price \in Nat \ {0}
  BY AverageWithin, FreshWeights
<1>5. t \in Nat \ {0}  BY <1>3, <1>4
<1> HIDE DEF t, d
<1>6. calculateDeviation(p, t) <= d
  <2>1. CASE p = t
    BY <1>2, <2>1 DEF calculateDeviation
  <2>2. CASE p < t
    BY <1>1, <1>2, <1>3, <1>4, <2>2, DeviationAbove DEF d
  <2>3. CASE t < p
    BY <1>1, <1>2, <1>3, <1>4, <2>3, DeviationBelow DEF d
  <2>4. QED  BY <1>1, <1>4, <2>1, <2>2, <2>3
<1>7. p = t \/ Average(p, t) > 0
  BY <1>1, <1>5 DEF Average
<1>8. calculateDeviation(p, t) \in Nat
  BY <1>1, <1>5, DeviationNat
<1>9. initialized /\ p > 0 /\ securityConfig.sources >= securityConfig.sources
  BY <1>1, <1>2 DEF Defined
<1>10. QED
  BY <1>2, <1>6, <1>7, <1>8, <1>9 DEF validatePriceUpdate, t, d

(* The same for every ring, configuration and clock.                        *)
THEOREM AveragesAlwaysSound == SecuritySpec => AveragesSound
<1>1. SecurityInv => TwapSound /\ SteadyAccepted
  BY AverageThere, SteadyIsNear
<1>2. SecuritySpec => []SecurityInv
  BY SecurityBegins, SecurityStep, PTL DEF SecuritySpec
<1>3. QED
  BY <1>1, <1>2, PTL DEF AveragesSound

-----------------------------------------------------------------------------
(* The pages of the frontend.  Each has an invariant, lemmas for what its    *)
(* steps have in common, and three facts: the invariant holds when the page  *)
(* opens, every step keeps it, and it shows what the page promises.          *)

LEMMA AtMostOne ==
    ASSUME NEW S, \A x, y \in S : x = y
    PROVE  Cardinality(S) <= 1
<1>1. CASE S = {}
  BY <1>1, FS_EmptySet
<1>2. ASSUME NEW x \in S PROVE Cardinality(S) <= 1
  <2>1. S = {x}
    OBVIOUS
  <2>2. Cardinality({x}) = 1
    BY FS_Singleton
  <2>3. QED
    BY <2>1, <2>2
<1>3. QED
  BY <1>1, <1>2

\* An instance has a Cardinality of its own.
LEMMA SameCardinality ==
  \A S : /\ Pages!Cardinality(S) = Cardinality(S)
         /\ Dashboard!Cardinality(S) = Cardinality(S)
  BY DEF Pages!Cardinality, Dashboard!Cardinality, Cardinality

-----------------------------------------------------------------------------
(* The transaction hooks.                                                   *)

TransactionInv ==
  /\ flowPage \in DOMAIN Flow!Operations
  /\ flowRequest = [op \in Flow!Ops |-> flowRequest[op]]
  /\ Flow!FailureEndsLoading

LEMMA OperationsAre ==
  /\ Flow!Operations["basket"] = {"depositCore", "redeemBasket", "approveBasketTokens"}
  /\ Flow!Operations["governance"] = {"createProposal", "vote", "createCoreDAOProposal",
                                 "createValidatorDelegation"}
  /\ Flow!Operations["sparks"] = {"redeem", "claim"}
  /\ Flow!Operations["dual"] = {"depositDualStake", "approveCore", "approveBtc"}
  /\ DOMAIN Flow!Operations = {"basket", "governance", "sparks", "dual"}
  BY DEF Flow!Operations

LEMMA OperationsOps ==
  /\ \A p \in DOMAIN Flow!Operations : Flow!Operations[p] \subseteq Flow!Ops
  /\ {"depositCore", "redeemBasket", "approveBasketTokens", "createProposal", "vote",
      "createCoreDAOProposal", "createValidatorDelegation", "redeem", "claim",
      "depositDualStake", "approveCore", "approveBtc"} \subseteq Flow!Ops
<1>1. \A p \in DOMAIN Flow!Operations : Flow!Operations[p] \subseteq Flow!Ops
  BY DEF Flow!Ops
<1>2. QED
  BY <1>1, OperationsAre

LEMMA ErrorsNotLoading ==
    ASSUME NEW op, NEW type, NEW offered, NEW o
    PROVE  Flow!handleTransactionError(op, type, offered) # <<o, "loading">>
  BY DEF Flow!handleTransactionError

\* Errors are shown beside what is shown; a new request or a confirmation
\* shows nothing but itself; an end takes the request's own toast away.
LEMMA ErrorBeside ==
    ASSUME TransactionInv, UNCHANGED <<flowPage, flowRequest>>, NEW new,
           toasts' \subseteq toasts \cup new, \A o \in Flow!Ops : <<o, "loading">> \notin new
    PROVE  TransactionInv'
  BY DEF TransactionInv, Flow!FailureEndsLoading

LEMMA RequestAlone ==
    ASSUME TransactionInv, UNCHANGED flowPage, NEW op \in Flow!Ops, NEW to,
           flowRequest' = [flowRequest EXCEPT ![op] = to],
           \/ toasts' = {<<op, "loading">>} /\ to \notin {"refused", "reverted"}
           \/ toasts' = toasts \cup {<<op, "success">>} /\ to \notin {"refused", "reverted"}
           \/ \A o \in Flow!Ops : <<o, "loading">> \notin toasts'
           \/ op = "createValidatorDelegation" /\ toasts' = toasts
    PROVE  TransactionInv'
<1>1. flowRequest' = [o \in Flow!Ops |-> IF o = op THEN to ELSE flowRequest[o]]
  BY DEF TransactionInv
<1>2. QED
  BY <1>1 DEF TransactionInv, Flow!FailureEndsLoading

LEMMA CallKeeps ==
    ASSUME TransactionInv, NEW op, NEW checks, Flow!Call(op, checks)
    PROVE  TransactionInv'
<1>1. op \in Flow!Ops /\ UNCHANGED flowPage
  BY OperationsOps DEF Flow!Call, TransactionInv
<1>2. CASE Flow!Thrown(checks) = {}
  BY <1>1, <1>2, RequestAlone DEF Flow!Call, Flow!showLoadingToast
<1>3. CASE Flow!Thrown(checks) # {}
  <2>1. PICK kinds, retried : 
          /\ UNCHANGED flowRequest
          /\ toasts' = toasts \cup {Flow!handleTransactionError(op, kinds, retried)}
                          \cup (IF Flow!Thrown(checks) = Flow!WrongNetwork[2]
                                THEN {<<"network", "error">>} ELSE {})
    BY <1>3 DEF Flow!Call
  <2>2. toasts' \subseteq toasts \cup {Flow!handleTransactionError(op, kinds, retried),
                                      <<"network", "error">>}
    BY <2>1
  <2>3. \A o \in Flow!Ops :
          <<o, "loading">> \notin {Flow!handleTransactionError(op, kinds, retried),
                                  <<"network", "error">>}
    BY ErrorsNotLoading
  <2>4. QED
    BY <1>1, <2>1, <2>2, <2>3, ErrorBeside
<1>4. QED
  BY <1>2, <1>3

LEMMA ToldKeeps ==
    ASSUME TransactionInv, NEW op \in Flow!Ops, Flow!Told(op)
    PROVE  TransactionInv'
<1>1. CASE Flow!Becomes(op, "wallet", "sent") /\ toasts' = Flow!showLoadingToast(op)
  BY <1>1, RequestAlone DEF Flow!Becomes, Flow!showLoadingToast
<1>2. CASE Flow!Becomes(op, "sent", "mined") /\ toasts' = Flow!showSuccessToast(op)
  BY <1>2, RequestAlone DEF Flow!Becomes, Flow!showSuccessToast
<1>3. ASSUME NEW m \in Refusals,
             Flow!Becomes(op, "wallet", "refused") \/ Flow!Becomes(op, "sent", "reverted"),
             toasts' = Flow!handleError(op, m)
      PROVE TransactionInv'
  <2>1. \A o \in Flow!Ops : <<o, "loading">> \notin toasts'
    BY <1>3, ErrorsNotLoading DEF Flow!handleError
  <2>2. QED
    BY <1>3, <2>1, RequestAlone DEF Flow!Becomes
<1>4. QED
  BY <1>1, <1>2, <1>3 DEF Flow!Told

LEMMA TransactionStep ==
  TransactionInv /\ [Flow!TransactionNext]_Flow!transactionVars => TransactionInv'
<1>1. SUFFICES ASSUME TransactionInv, [Flow!TransactionNext]_Flow!transactionVars
               PROVE  TransactionInv'
  OBVIOUS
<1>2. ASSUME NEW a,
             \/ Flow!depositCore(a) \/ Flow!redeemBasket(a) \/ Flow!approveBasketTokens(a)
             \/ Flow!createValidatorDelegationProposal(a) \/ Flow!redeemSparksPoints(a)
             \/ Flow!depositDualStake(a) \/ Flow!approveCoreTokens(a) \/ Flow!approveBtcTokens(a)
      PROVE TransactionInv'
  BY <1>1, <1>2, CallKeeps DEF Flow!depositCore, Flow!redeemBasket, Flow!approveBasketTokens,
     Flow!createValidatorDelegationProposal, Flow!redeemSparksPoints, Flow!depositDualStake,
     Flow!approveCoreTokens, Flow!approveBtcTokens
<1>3. CASE \/ Flow!createGovernanceProposal \/ Flow!castGovernanceVote
           \/ Flow!createCoreDAOGovernanceProposal
           \/ Flow!claimSparksRewards
  BY <1>1, <1>3, CallKeeps DEF Flow!createGovernanceProposal, Flow!castGovernanceVote,
     Flow!createCoreDAOGovernanceProposal, Flow!claimSparksRewards
<1>4. CASE \/ Flow!depositEffects \/ Flow!redeemEffects \/ Flow!approveEffects
           \/ Flow!voteEffects \/ Flow!createProposalEffects \/ Flow!createCoreDAOEffects
           \/ Flow!sparksRedeemEffects \/ Flow!sparksClaimEffects
           \/ Flow!dualStakeEffects \/ Flow!approveCoreEffects \/ Flow!approveBtcEffects
  BY <1>1, <1>4, ToldKeeps, OperationsOps DEF Flow!depositEffects, Flow!redeemEffects,
     Flow!approveEffects, Flow!voteEffects, Flow!createProposalEffects,
     Flow!createCoreDAOEffects, Flow!sparksRedeemEffects, Flow!sparksClaimEffects,
     Flow!dualStakeEffects, Flow!approveCoreEffects, Flow!approveBtcEffects
<1>5. CASE Flow!validatorDelegationUntold
  BY <1>1, <1>5, RequestAlone, OperationsOps DEF Flow!validatorDelegationUntold, Flow!Becomes
<1>6. CASE Flow!ToastExpires
  BY <1>1, <1>6 DEF Flow!ToastExpires, TransactionInv, Flow!FailureEndsLoading
<1>7. CASE Flow!WalletChanges \/ UNCHANGED Flow!transactionVars
  BY <1>1, <1>7 DEF Flow!WalletChanges, Flow!transactionVars, TransactionInv,
     Flow!FailureEndsLoading
<1>8. QED
  BY <1>1, <1>2, <1>3, <1>4, <1>5, <1>6, <1>7 DEF Flow!TransactionNext

LEMMA TransactionBegins == Flow!TransactionInit => TransactionInv
  BY DEF Flow!TransactionInit, TransactionInv, Flow!FailureEndsLoading

-----------------------------------------------------------------------------
(* The networks.                                                            *)

StoreOf(c) == [chainId |-> c, networkStatus |-> c]

Configuration(a) == a = [currentChainId |-> a.currentChainId,
                         customAddresses |-> a.customAddresses,
                         useCustomAddresses |-> a.useCustomAddresses]

NetworkTyped ==
  /\ netChainId \in Network!SUPPORTED_NETWORKS /\ netKnown \subseteq Network!SUPPORTED_NETWORKS
  /\ \A p \in prompts : p[2] \in Network!SUPPORTED_NETWORKS
  /\ Configuration(addresses)
  /\ addresses.currentChainId \in Network!SUPPORTED_NETWORKS

(* What the store is to become is the chain of the wallet, and so is what it *)
(* became; a modal without a timer is for the validity the wallet has.       *)
NetworkInv ==
  /\ NetworkTyped
  /\ storeTimer \in {Network!None, netChainId}
  /\ storeTimer = Network!None => store = StoreOf(netChainId)
  /\ modalTimer \/ (modal => Network!shouldBlockContractCalls)
  /\ route # "home" => addresses.currentChainId = netChainId

LEMMA ValidityKept ==
    ASSUME connected' = connected,
           Network!validateNetwork(netChainId') = Network!validateNetwork(netChainId)
    PROVE  Network!shouldBlockContractCalls' = Network!shouldBlockContractCalls
  BY DEF Network!shouldBlockContractCalls, Network!Valid

LEMMA AddressesMoved ==
    ASSUME NEW a, Configuration(a), NEW c
    PROVE  /\ Configuration([a EXCEPT !.currentChainId = c])
           /\ [a EXCEPT !.currentChainId = c].currentChainId = c
  BY DEF Configuration

LEMMA WalletKeeps ==
    ASSUME NetworkInv, NEW on, NEW c \in Network!SUPPORTED_NETWORKS, Network!WalletBecomes(on, c),
           netKnown' \subseteq Network!SUPPORTED_NETWORKS,
           \A p \in prompts' : p[2] \in Network!SUPPORTED_NETWORKS
    PROVE  NetworkInv'
<1>0. addresses' = [addresses EXCEPT !.currentChainId =
                        IF route = "home" THEN addresses.currentChainId ELSE netChainId']
  BY DEF Network!WalletBecomes, Network!DetectionEffects
<1>7. /\ Configuration(addresses')
      /\ addresses'.currentChainId =
           IF route = "home" THEN addresses.currentChainId ELSE netChainId'
  BY <1>0, AddressesMoved DEF NetworkInv, NetworkTyped
<1>1. NetworkTyped'
  BY <1>7 DEF NetworkInv, NetworkTyped, Network!WalletBecomes
<1>2. /\ storeTimer' \in {Network!None, netChainId'}
      /\ storeTimer' = Network!None => store' = StoreOf(netChainId')
  BY DEF NetworkInv, NetworkTyped, Network!WalletBecomes, Network!DetectionEffects, Network!None,
     Network!SUPPORTED_NETWORKS
<1>3. modalTimer' \/ (modal' => Network!shouldBlockContractCalls')
  BY ValidityKept DEF NetworkInv, Network!WalletBecomes, Network!DetectionEffects
<1>4. route' # "home" => addresses'.currentChainId = netChainId'
  BY <1>7 DEF NetworkInv, NetworkTyped, Network!WalletBecomes, Network!DetectionEffects
<1>5. QED
  BY <1>1, <1>2, <1>3, <1>4 DEF NetworkInv, StoreOf

LEMMA ConfigurationKept ==
    ASSUME NetworkTyped, NEW C
    PROVE  Configuration(Network!importConfiguration(C))
<1>1. CASE C = {}
  BY <1>1 DEF NetworkTyped, Network!importConfiguration, Configuration
<1>2. CASE C # {}
  <2>1. Network!importConfiguration(C) = [currentChainId |-> addresses.currentChainId,
                                  customAddresses |-> addresses.customAddresses \cup C,
                                  useCustomAddresses |-> TRUE]
    BY <1>2 DEF NetworkTyped, Network!importConfiguration, Configuration
  <2>2. QED
    BY <2>1 DEF Configuration
<1>3. QED
  BY <1>1, <1>2

LEMMA NetworkStep == NetworkInv /\ [Network!NetworkNext]_Network!networkVars => NetworkInv'
<1>1. SUFFICES ASSUME NetworkInv, [Network!NetworkNext]_Network!networkVars PROVE NetworkInv'
  OBVIOUS
<1>. USE DEF StoreOf
<1>2. CASE Network!ModalTimer
  BY <1>1, <1>2 DEF Network!ModalTimer, NetworkInv, NetworkTyped, Network!walletVars,
     Network!shouldBlockContractCalls
<1>3. CASE Network!setChainId
  BY <1>1, <1>3 DEF Network!setChainId, NetworkInv, NetworkTyped, Network!walletVars,
     Network!getNetworkType, Network!None, Network!shouldBlockContractCalls
<1>4. ASSUME NEW c, addresses' = [addresses EXCEPT !.currentChainId = c]
             \/ addresses' = [Network!importConfiguration(Overridden) EXCEPT !.currentChainId = c]
      PROVE  Configuration(addresses') /\ addresses'.currentChainId = c
  BY <1>1, <1>4, AddressesMoved, ConfigurationKept DEF NetworkInv, NetworkTyped, Configuration
<1>5. CASE Network!Reload
  <2>1. Configuration(addresses') /\ addresses'.currentChainId \in {"local", netChainId}
        /\ (route # "home" => addresses'.currentChainId = netChainId)
    BY <1>4, <1>5 DEF Network!Reload
  <2>2. QED
    BY <1>1, <1>5, <2>1 DEF Network!Reload, NetworkInv, NetworkTyped, Configuration,
       Network!walletVars, Network!None, Network!SUPPORTED_NETWORKS
<1>14. ASSUME NEW opened \in {"home", "staking"}, Network!OpenPage(opened) PROVE NetworkInv'
  <2>1. CASE opened = "home"
    BY <1>1, <1>14, <2>1 DEF Network!OpenPage, NetworkInv, NetworkTyped, Network!walletVars,
       Network!detectionVars, Network!shouldBlockContractCalls
  <2>2. CASE opened # "home"
    <3>1. Configuration(addresses') /\ addresses'.currentChainId = netChainId
      BY <1>4, <1>14, <2>2 DEF Network!OpenPage
    <3>2. QED
      BY <1>1, <1>14, <3>1 DEF Network!OpenPage, NetworkInv, NetworkTyped, Configuration,
         Network!walletVars, Network!detectionVars, Network!shouldBlockContractCalls
  <2>3. QED
    BY <2>1, <2>2
<1>6. CASE Network!dismissModal
  BY <1>1, <1>6 DEF Network!dismissModal, NetworkInv, NetworkTyped, Network!walletVars,
     Network!shouldBlockContractCalls
<1>7. ASSUME NEW c \in Network!SUPPORTED_NETWORKS, Network!ChooseInModal(c) PROVE NetworkInv'
  BY <1>1, <1>7 DEF Network!ChooseInModal, Network!Asks, NetworkInv, NetworkTyped,
     Network!walletVars, Network!shouldBlockContractCalls
<1>8. ASSUME NEW c \in Network!SUPPORTED_NETWORKS, Network!SwitchChain(c) PROVE NetworkInv'
  BY <1>1, <1>8 DEF Network!SwitchChain, Network!Asks, NetworkInv, NetworkTyped,
     Network!walletVars, Network!detectionVars, Network!shouldBlockContractCalls
<1>9. CASE Network!CoreTestnet2Button
  BY <1>8, <1>9 DEF Network!CoreTestnet2Button, Network!SUPPORTED_NETWORKS
<1>10. CASE Network!Answer
  <2>1. PICK p \in prompts : \/ Network!SwitchApproved(p) \/ Network!addNetworkToWallet(p)
                            \/ Network!AddApproved(p) \/ Network!Refused(p)
    BY <1>10 DEF Network!Answer
  <2>2. p[2] \in Network!SUPPORTED_NETWORKS
    BY <1>1 DEF NetworkInv, NetworkTyped
  <2>3. CASE Network!SwitchApproved(p)
    BY <1>1, <2>2, <2>3, WalletKeeps DEF Network!SwitchApproved, NetworkInv, NetworkTyped
  <2>4. CASE Network!addNetworkToWallet(p)
    BY <1>1, <2>2, <2>4 DEF Network!addNetworkToWallet, NetworkInv, NetworkTyped,
       Network!walletVars, Network!detectionVars, Network!shouldBlockContractCalls
  <2>5. CASE Network!AddApproved(p)
    BY <1>1, <2>2, <2>5, WalletKeeps DEF Network!AddApproved, NetworkInv, NetworkTyped
  <2>6. CASE Network!Refused(p)
    BY <1>1, <2>6 DEF Network!Refused, NetworkInv, NetworkTyped, Network!walletVars,
       Network!detectionVars, Network!shouldBlockContractCalls
  <2>7. QED
    BY <2>1, <2>3, <2>4, <2>5, <2>6
<1>11. CASE Network!WalletChanges
  BY <1>1, <1>11, WalletKeeps DEF Network!WalletChanges, NetworkInv, NetworkTyped
<1>12. CASE UNCHANGED Network!networkVars
  BY <1>1, <1>12 DEF Network!networkVars, Network!walletVars, Network!detectionVars, NetworkInv,
     NetworkTyped, Network!shouldBlockContractCalls
<1>13. QED
  BY <1>1, <1>2, <1>3, <1>5, <1>14, <1>6, <1>7, <1>8, <1>9, <1>10, <1>11, <1>12
     DEF Network!NetworkNext

LEMMA NetworkBegins == Network!NetworkInit => NetworkInv
  BY DEF Network!NetworkInit, NetworkInv, NetworkTyped, Configuration,
     Network!SUPPORTED_NETWORKS, Network!None, StoreOf, Network!shouldBlockContractCalls

LEMMA NetworkShows == NetworkInv => Network!NetworkSettles
  BY DEF NetworkInv, NetworkTyped, Network!NetworkSettles, StoreOf, Network!getCurrentContracts,
     Network!getContractAddress, Network!SUPPORTED_NETWORKS, Network!shouldBlockContractCalls

-----------------------------------------------------------------------------
(* The page that stakes BASKET.                                             *)

PageTyped ==
  /\ stakingCached = [r \in Staking!Reads |-> stakingCached[r]]
  /\ stakingOnChain = [r \in Staking!Reads |-> stakingOnChain[r]]
  /\ stakingTx = [kind |-> stakingTx.kind, amount |-> stakingTx.amount, phase |-> stakingTx.phase]
  /\ effectDue \in BOOLEAN /\ mounted \in BOOLEAN /\ missed \in BOOLEAN

EndUnseen == stakingTx.phase = "mined" \/ effectDue

(* A read that is not being fetched again is what the contracts hold, but   *)
(* for what a mined transaction changed while its end is still to be seen.  *)
PageInv ==
  /\ PageTyped
  /\ \/ missed \/ EndUnseen
     \/ \A r \in Staking!Reads : r \in stakingFetching \/ stakingCached[r] = stakingOnChain[r]
  /\ effectDue => stakingTx.phase = "idle"
  /\ ~mounted => ~effectDue /\ (stakingTx.phase \in {"wallet", "sent", "mined"} => missed)

LEMMA HoldingKept ==
    ASSUME PageInv, NEW t
    PROVE  Staking!Effect(t) = [r \in Staking!Reads |-> Staking!Effect(t)[r]]
  BY DEF PageInv, PageTyped, Staking!Effect, Staking!Reads

LEMMA TxKept ==
    ASSUME PageTyped, NEW p
    PROVE  /\ [stakingTx EXCEPT !.phase = p] =
                [kind |-> stakingTx.kind, amount |-> stakingTx.amount, phase |-> p]
           /\ [stakingTx EXCEPT !.phase = p].phase = p
           /\ [stakingTx EXCEPT !.phase = p].kind = stakingTx.kind
           /\ [stakingTx EXCEPT !.phase = p].amount = stakingTx.amount
  BY DEF PageTyped

LEMMA PageStep == PageInv /\ [Staking!PageNext]_Staking!pageVars => PageInv'
<1>1. SUFFICES ASSUME PageInv, [Staking!PageNext]_Staking!pageVars PROVE PageInv'
  OBVIOUS
<1>2. ASSUME NEW f \in {"stake", "unstake"}, NEW a \in StakeAmounts, Staking!TypeAmount(f, a)
      PROVE  PageInv'
  BY <1>1, <1>2 DEF Staking!TypeAmount, PageInv, PageTyped, EndUnseen
<1>3. ASSUME NEW k, NEW a, Staking!Asks(k, a) PROVE PageInv'
  BY <1>1, <1>3 DEF Staking!Asks, PageInv, PageTyped, EndUnseen, Staking!isConfirming,
     Staking!isContractPending
<1>4. CASE \/ Staking!handleApprove \/ Staking!handleStake
           \/ Staking!handleUnstake \/ Staking!handleClaimRewards
  BY <1>1, <1>3, <1>4 DEF Staking!handleApprove, Staking!handleStake, Staking!handleUnstake,
     Staking!handleClaimRewards
<1>5. CASE Staking!Rejected
  BY <1>1, <1>5 DEF Staking!Rejected, PageInv, PageTyped, EndUnseen, Staking!Idle
<1>5c. CASE Staking!Confirmed
  BY <1>1, <1>5c, TxKept DEF Staking!Confirmed, PageInv, PageTyped, EndUnseen
<1>6. CASE Staking!Mined
  <2>1. CASE /\ stakingOnChain' = Staking!Effect(stakingTx)
             /\ stakingTx' = [stakingTx EXCEPT !.phase = "mined"]
    <3>1. /\ stakingTx' = [kind |-> stakingTx.kind, amount |-> stakingTx.amount, phase |-> "mined"]
          /\ stakingTx'.phase = "mined"
          /\ stakingOnChain' = [r \in Staking!Reads |-> stakingOnChain'[r]]
      BY <1>1, <2>1, TxKept, HoldingKept DEF PageInv
    <3>2. QED
      BY <1>1, <1>6, <3>1 DEF Staking!Mined, PageInv, PageTyped, EndUnseen
  <2>2. CASE stakingOnChain' = stakingOnChain /\ stakingTx' = [stakingTx EXCEPT !.phase = "failed"]
    <3>1. /\ stakingTx' = [kind |-> stakingTx.kind, amount |-> stakingTx.amount, phase |-> "failed"]
          /\ stakingTx'.phase = "failed"
      BY <1>1, <2>2, TxKept DEF PageInv
    <3>2. QED
      BY <1>1, <1>6, <2>2, <3>1 DEF Staking!Mined, PageInv, PageTyped, EndUnseen
  <2>3. QED
    BY <1>6, <2>1, <2>2 DEF Staking!Mined
<1>7. CASE Staking!Receipt
  <2>1. stakingTx' = [kind |-> "none", amount |-> 0, phase |-> "idle"] /\ stakingTx'.phase = "idle"
    BY <1>7 DEF Staking!Receipt, Staking!Idle
  <2>2. effectDue' \in BOOLEAN
    BY <1>7 DEF Staking!Receipt
  <2>3. EndUnseen => EndUnseen'
    <3>1. CASE stakingTx.phase = "mined"
      BY <1>7, <3>1 DEF Staking!Receipt, EndUnseen
    <3>2. CASE effectDue
      BY <1>1, <1>7, <3>2 DEF Staking!Receipt, EndUnseen, PageInv
    <3>3. QED
      BY <3>1, <3>2 DEF EndUnseen
  <2>4. QED
    BY <1>1, <1>7, <2>1, <2>2, <2>3 DEF Staking!Receipt, PageInv, PageTyped
<1>8. CASE Staking!ConfirmationEffect
  BY <1>1, <1>8 DEF Staking!ConfirmationEffect, PageInv, PageTyped, EndUnseen, Staking!Reads
<1>9. ASSUME NEW r \in Staking!Reads, Staking!ReadReturns(r) PROVE PageInv'
  BY <1>1, <1>9 DEF Staking!ReadReturns, PageInv, PageTyped, EndUnseen
<1>10. CASE Staking!Leave
  BY <1>1, <1>10 DEF Staking!Leave, PageInv, PageTyped, EndUnseen
<1>10r. CASE Staking!Return
  BY <1>1, <1>10r DEF Staking!Return, PageInv, PageTyped, EndUnseen, Staking!Idle
<1>11. CASE UNCHANGED Staking!pageVars
  BY <1>1, <1>11 DEF Staking!pageVars, PageInv, PageTyped, EndUnseen
<1>12. QED
  BY <1>1, <1>2, <1>4, <1>5, <1>5c, <1>6, <1>7, <1>8, <1>9, <1>10, <1>10r, <1>11
     DEF Staking!PageNext

LEMMA PageBegins == Staking!PageInit => PageInv
  BY DEF Staking!PageInit, PageInv, PageTyped, EndUnseen, Staking!Reads, Staking!Idle

LEMMA PageShows == PageInv => Staking!ReadsCatchUp
  BY DEF PageInv, PageTyped, EndUnseen, Staking!ReadsCatchUp

-----------------------------------------------------------------------------
(* The form that deposits CORE.                                             *)

DepositRecords == [amount : Nat, stage : {"wallet", "sent", "failed", "mined"}]

FormTyped ==
  /\ depositAmount \in Nat /\ coin \in Nat
  /\ pageBalances = [initialized |-> pageBalances.initialized, read |-> pageBalances.read,
                     core |-> pageBalances.core]
  /\ pageBalances.core \in Nat
  /\ deposits \in Seq(DepositRecords)
  /\ \A a \in depositAttempts : /\ a = [stage |-> a.stage, of |-> a.of, id |-> a.id]
                                /\ a.of.amount \in Nat

(* One attempt at a time, and the form simulates for as long as it waits:    *)
(* for the live price first, then for the answer to settle.                  *)
WaitInv ==
  /\ \A a, b \in depositAttempts : a = b
  /\ isSimulating => depositAttempts # {}
  /\ depositAttempts # {} => isSimulating
  /\ \A a \in depositAttempts : a.stage = "price" => "attempt" \in fetches
  /\ "attempt" \in fetches => \E a \in depositAttempts : a.stage = "price"
  /\ isUpdating => fetches # {} \/ updateTx # "none"

FormInv == FormTyped /\ WaitInv

WaitVars == <<depositAttempts, isSimulating, fetches, isUpdating, updateTx>>
LEMMA WaitKept == WaitInv /\ UNCHANGED WaitVars => WaitInv'
  BY DEF WaitInv, WaitVars
LEMMA TypedKept ==
  FormTyped /\ UNCHANGED <<depositAmount, coin, pageBalances, deposits, depositAttempts>>
    => FormTyped'
  BY DEF FormTyped

LEMMA DecideTyped ==
    ASSUME FormTyped, NEW r, r.amount \in Nat, Dashboard!Decide(r)
    PROVE  deposits' \in Seq(DepositRecords) /\ isSimulating' = FALSE
<1>1. deposits' \in {deposits, Append(deposits, [amount |-> r.amount, stage |-> "wallet"])}
  BY DEF Dashboard!Decide
<1>2. [amount |-> r.amount, stage |-> "wallet"] \in DepositRecords
  BY DEF DepositRecords
<1>3. QED
  BY <1>1, <1>2 DEF Dashboard!Decide, FormTyped

LEMMA StageTyped ==
    ASSUME FormTyped, NEW i \in DOMAIN deposits, NEW s \in {"sent", "failed", "mined"},
           Dashboard!Stage(i, s)
    PROVE  deposits' \in Seq(DepositRecords) /\ Len(deposits') = Len(deposits)
<1>1. deposits[i] \in DepositRecords
  BY DEF FormTyped
<1>2. [deposits[i] EXCEPT !.stage = s] \in DepositRecords
  BY <1>1 DEF DepositRecords
<1>3. deposits' = [deposits EXCEPT ![i] = [deposits[i] EXCEPT !.stage = s]]
  BY DEF Dashboard!Stage
<1>4. QED
  BY <1>2, <1>3 DEF FormTyped

LEMMA AnswerKeeps ==
    ASSUME FormInv, NEW who \in {"button", "attempt"}, Dashboard!LivePrice(who)
    PROVE  FormInv'
<1>1. CASE who = "button"
  <2>1. depositAttempts' = depositAttempts /\ isSimulating' = isSimulating
    BY <1>1 DEF Dashboard!LivePrice, Dashboard!Answered
  <2>2. fetches' = fetches \ {"button"} /\ (updateTx' # "none" \/ isUpdating' = FALSE)
    BY <1>1 DEF Dashboard!LivePrice
  <2>3. QED
    BY <2>1, <2>2 DEF Dashboard!LivePrice, Dashboard!chainVars, FormInv, FormTyped, WaitInv
<1>2. CASE who = "attempt"
  <2>1. fetches' = fetches \ {"attempt"} /\ (updateTx' # "none" \/ isUpdating' = FALSE)
    BY <1>2 DEF Dashboard!LivePrice
  <2>2. PICK a : depositAttempts = {a} /\ a.stage = "price"
                 /\ a = [stage |-> a.stage, of |-> a.of, id |-> a.id]
    BY <1>2 DEF Dashboard!LivePrice, FormInv, WaitInv, FormTyped
  <2>3. CASE Dashboard!Answered(who, TRUE)
    <3>1. depositAttempts' =
            {[b EXCEPT !.stage = IF b.stage = "price" THEN "wait" ELSE b.stage] :
               b \in depositAttempts}
          /\ isSimulating' = isSimulating
      BY <1>2, <2>3 DEF Dashboard!Answered
    <3>2. depositAttempts' = {[stage |-> "wait", of |-> a.of, id |-> a.id]}
      BY <2>2, <3>1
    <3>3. WaitInv'
      BY <2>1, <2>2, <3>1, <3>2 DEF FormInv, WaitInv
    <3>4. UNCHANGED <<depositAmount, coin, pageBalances, deposits>>
      BY DEF Dashboard!LivePrice, Dashboard!chainVars
    <3>5. FormTyped'
      BY <2>2, <3>2, <3>4 DEF FormInv, FormTyped
    <3>6. QED
      BY <3>3, <3>5 DEF FormInv
  <2>4. CASE Dashboard!Answered(who, FALSE)
    <3>1. depositAttempts' = {} /\ isSimulating' = FALSE
      BY <1>2, <2>2, <2>4 DEF Dashboard!Answered
    <3>2. QED
      BY <2>1, <3>1 DEF Dashboard!LivePrice, Dashboard!chainVars, FormInv, FormTyped, WaitInv
  <2>5. QED
    BY <2>3, <2>4 DEF Dashboard!LivePrice
<1>3. QED
  BY <1>1, <1>2

LEMMA ClickKeeps ==
    ASSUME FormInv, Dashboard!handleDepositWithSimulation
    PROVE  FormInv' /\ depositAttempts = {} /\ (deposits' # deposits => depositAttempts' = {})
<1>1. depositAttempts = {} /\ "attempt" \notin fetches
  BY DEF Dashboard!handleDepositWithSimulation, Dashboard!Disabled, FormInv, WaitInv
<1>2. /\ Dashboard!Render = [amount |-> depositAmount, simulated |-> depositSimulation,
                             supported |-> supported, coreBalance |-> pageBalances.core]
      /\ Dashboard!Render.amount = depositAmount
  BY DEF Dashboard!Render
<1>3. CASE isFeedValid = "stale"
  <2>1. /\ depositAttempts' = {[stage |-> "price", of |-> Dashboard!Render, id |-> depositClicks]}
        /\ isSimulating' = TRUE /\ fetches' = fetches \cup {"attempt"}
        /\ UNCHANGED <<deposits, coin, pageBalances, depositAmount>>
    BY <1>1, <1>3 DEF Dashboard!handleDepositWithSimulation, Dashboard!BeginUpdate,
       Dashboard!chainVars
  <2>2. FormTyped'
    BY <1>2, <2>1 DEF FormInv, FormTyped
  <2>3. WaitInv'
    BY <2>1 DEF WaitInv
  <2>4. QED
    BY <1>1, <2>1, <2>2, <2>3 DEF FormInv
<1>4. CASE isFeedValid # "stale"
  <2>1. /\ Dashboard!Decide(Dashboard!Render)
        /\ UNCHANGED <<depositAttempts, fetches, isUpdating, updateTx, depositAmount>>
    BY <1>4 DEF Dashboard!handleDepositWithSimulation, Dashboard!priceVars
  <2>2. deposits' \in Seq(DepositRecords) /\ isSimulating' = FALSE
    BY <1>2, <2>1, DecideTyped DEF FormInv, FormTyped
  <2>3. QED
    BY <1>1, <2>1, <2>2 DEF Dashboard!Decide, FormInv, FormTyped, WaitInv
<1>5. QED
  BY <1>3, <1>4

LEMMA WaitEnds ==
    ASSUME FormInv, NEW a \in depositAttempts, Dashboard!AfterWait(a)
    PROVE  FormInv' /\ depositAttempts = {a} /\ depositAttempts' = {}
<1>1. depositAttempts = {a} /\ depositAttempts' = {} /\ "attempt" \notin fetches
  BY DEF Dashboard!AfterWait, FormInv, WaitInv
<1>2. deposits' \in Seq(DepositRecords) /\ isSimulating' = FALSE
  BY DecideTyped DEF Dashboard!AfterWait, FormInv, FormTyped
<1>3. QED
  BY <1>1, <1>2 DEF Dashboard!AfterWait, Dashboard!Decide, Dashboard!priceVars, FormInv,
     FormTyped, WaitInv

LEMMA DepositStageKeeps ==
    ASSUME FormInv, NEW i \in DOMAIN deposits,
           Dashboard!WalletSendsDeposit(i) \/ Dashboard!DepositFails(i) \/ Dashboard!DepositMined(i)
    PROVE  FormInv' /\ Len(deposits') = Len(deposits)
<1>1. deposits' \in Seq(DepositRecords) /\ Len(deposits') = Len(deposits)
  BY StageTyped DEF Dashboard!WalletSendsDeposit, Dashboard!DepositFails, Dashboard!DepositMined,
     FormInv
<1>2. deposits[i] \in DepositRecords
  BY DEF FormInv, FormTyped
<1>3. coin' \in Nat /\ depositAmount' \in Nat /\ UNCHANGED <<pageBalances, depositAttempts>>
  BY <1>2 DEF Dashboard!WalletSendsDeposit, Dashboard!DepositFails, Dashboard!DepositMined,
     FormInv, FormTyped, DepositRecords
<1>4. UNCHANGED WaitVars
  BY DEF Dashboard!WalletSendsDeposit, Dashboard!DepositFails, Dashboard!DepositMined, WaitVars,
     Dashboard!priceVars
<1>5. QED
  BY <1>1, <1>3, <1>4, WaitKept DEF FormInv, FormTyped

LEMMA TypingKeeps ==
    ASSUME FormInv, NEW a \in Nat, Dashboard!setDepositAmount(a)
    PROVE  FormInv' /\ deposits' = deposits
  BY WaitKept DEF Dashboard!setDepositAmount, Dashboard!chainVars, Dashboard!priceVars, WaitVars,
     FormInv, FormTyped

LEMMA FormStep ==
    ASSUME FormInv, Dashboard!FormNext \/ Dashboard!ChainChanges
    PROVE  /\ FormInv'
           /\ Len(deposits') > Len(deposits) =>
                depositAttempts' = {} /\ \A a, b \in depositAttempts : a = b
<1>. DEFINE Goal == /\ FormInv'
                    /\ Len(deposits') > Len(deposits) =>
                         depositAttempts' = {} /\ \A a, b \in depositAttempts : a = b
<1>0. Len(deposits) \in Nat
  BY DEF FormInv, FormTyped
<1>1. ASSUME NEW a \in Nat, Dashboard!setDepositAmount(a) PROVE Goal
  BY <1>0, <1>1, TypingKeeps
<1>2. ASSUME NEW a \in DepositAmounts, Dashboard!setDepositAmount(a) PROVE Goal
  BY <1>1, <1>2, FrontendAssumption
<1>3. CASE Dashboard!MaxSafe \/ Dashboard!UseAll
  BY <1>1, <1>3 DEF Dashboard!MaxSafe, Dashboard!UseAll, FormInv, FormTyped
<1>4. CASE \/ Dashboard!SimulationEnds \/ Dashboard!PriceRead \/ Dashboard!PriceAges
           \/ Dashboard!ResimulateEffect \/ Dashboard!ChainChanges
  BY <1>0, <1>4, WaitKept, TypedKept DEF Dashboard!SimulationEnds, Dashboard!PriceRead,
     Dashboard!PriceAges, Dashboard!ResimulateEffect, Dashboard!ChainChanges,
     Dashboard!chainVars, Dashboard!priceVars, WaitVars, FormInv
<1>5. ASSUME NEW r \in depositTimers, Dashboard!Resimulate(r) PROVE Goal
  BY <1>0, <1>5, WaitKept, TypedKept DEF Dashboard!Resimulate, Dashboard!chainVars,
     Dashboard!priceVars, WaitVars, FormInv
<1>6. CASE Dashboard!ensureFreshPrice
  <2>1. /\ fetches' = fetches \cup {"button"}
        /\ UNCHANGED <<depositAmount, coin, pageBalances, deposits, depositAttempts, isSimulating>>
    BY <1>6 DEF Dashboard!ensureFreshPrice, Dashboard!BeginUpdate, Dashboard!chainVars
  <2>2. QED
    BY <1>0, <2>1, TypedKept DEF FormInv, WaitInv
<1>7. ASSUME NEW who \in {"button", "attempt"}, Dashboard!LivePrice(who) PROVE Goal
  <2>1. deposits' = deposits
    BY <1>7 DEF Dashboard!LivePrice, Dashboard!chainVars
  <2>2. QED
    BY <1>0, <1>7, <2>1, AnswerKeeps
<1>8. CASE Dashboard!WalletSendsUpdate
  <2>1. /\ updateTx' = "sent"
        /\ UNCHANGED <<depositAmount, coin, pageBalances, deposits, depositAttempts,
                       isSimulating, fetches>>
    BY <1>8 DEF Dashboard!WalletSendsUpdate, Dashboard!chainVars
  <2>2. QED
    BY <1>0, <2>1, TypedKept DEF FormInv, WaitInv
<1>9. CASE Dashboard!UpdateSettles
  <2>1. /\ isUpdating' = FALSE
        /\ UNCHANGED <<depositAmount, coin, pageBalances, deposits, depositAttempts,
                       isSimulating, fetches>>
    BY <1>9 DEF Dashboard!UpdateSettles, Dashboard!chainVars
  <2>2. QED
    BY <1>0, <2>1, TypedKept DEF FormInv, WaitInv
<1>10. CASE Dashboard!handleDepositWithSimulation
  BY <1>0, <1>10, ClickKeeps
<1>11. ASSUME NEW a \in depositAttempts, Dashboard!AfterWait(a) PROVE Goal
  BY <1>11, WaitEnds
<1>12. ASSUME NEW i \in DOMAIN deposits,
             \/ Dashboard!WalletSendsDeposit(i) \/ Dashboard!DepositFails(i)
             \/ Dashboard!DepositMined(i)
       PROVE Goal
  BY <1>0, <1>12, DepositStageKeeps
<1>13. CASE Dashboard!setIsInitialized \/ Dashboard!CoreRead
  <2>1. /\ UNCHANGED WaitVars /\ UNCHANGED <<depositAmount, coin, deposits>>
    BY <1>13 DEF Dashboard!setIsInitialized, Dashboard!CoreRead, Dashboard!BalancesChange,
       Dashboard!priceVars, WaitVars
  <2>2. \/ pageBalances' = [pageBalances EXCEPT !.initialized = TRUE]
        \/ pageBalances' = [pageBalances EXCEPT !.core = coin, !.read = TRUE]
    BY <1>13 DEF Dashboard!setIsInitialized, Dashboard!CoreRead
  <2>3. /\ pageBalances' = [initialized |-> pageBalances'.initialized, read |-> pageBalances'.read,
                        core |-> pageBalances'.core]
        /\ pageBalances'.core \in Nat
    BY <2>2 DEF FormInv, FormTyped
  <2>4. QED
    BY <1>0, <2>1, <2>3, WaitKept DEF FormInv, FormTyped, WaitVars
<1>14. QED
  BY <1>2, <1>3, <1>4, <1>5, <1>6, <1>7, <1>8, <1>9, <1>10, <1>11, <1>12, <1>13
     DEF Dashboard!FormNext

LEMMA FormKept ==
  FormInv /\ UNCHANGED <<depositAmount, coin, pageBalances, deposits, WaitVars>> => FormInv'
  BY WaitKept, TypedKept DEF FormInv, WaitVars

LEMMA FormBegins == Dashboard!FormInit => FormInv
<1>1. Coin \in Nat
  BY FrontendAssumption
<1>2. QED
  BY <1>1 DEF Dashboard!FormInit, FormInv, FormTyped, WaitInv

LEMMA FormShows == FormInv => Dashboard!FormReleased
  BY DEF FormInv, WaitInv, Dashboard!FormReleased

LEMMA FormSteps ==
    ASSUME FormInv, Dashboard!FormNext \/ Dashboard!ChainChanges
    PROVE  Len(deposits') > Len(deposits) =>
             depositAttempts' = {} /\ Dashboard!Cardinality(depositAttempts) <= 1
  BY FormStep, AtMostOne, SameCardinality

-----------------------------------------------------------------------------
(* The prices.                                                              *)

Stages == {"none", "oracle", "core", "gecko", "queued", "fetching", "done"}
RunRecords == [stage : Stages, chain : Chains \cup {Market!None}, mounted : BOOLEAN]

PriceTyped ==
  /\ priceChainId \in Chains /\ priceRun \in [Runs -> RunRecords] /\ priceQueue \in Seq(Runs)

(* One run is mounted at most, it is of the chain of the page, and the       *)
(* prices are of its chain once it has ended.                                *)
PriceInv ==
  /\ PriceTyped
  /\ \A e, f \in Runs : priceRun[e].mounted /\ priceRun[f].mounted => e = f
  /\ \A e \in Runs : priceRun[e].mounted =>
       /\ priceRun[e].chain = priceChainId
       /\ priceRun[e].stage = "done" => priceData.of = priceChainId

\* A step of one run, or of none, that does not end a run without its price.
LEMMA RunStageKeeps ==
    ASSUME NEW others \in [Runs -> RunRecords], NEW e \in Runs, NEW s \in Stages,
           NEW moved, moved = [others EXCEPT ![e].stage = s]
    PROVE  /\ moved \in [Runs -> RunRecords]
           /\ \A f \in Runs : /\ moved[f].mounted = others[f].mounted
                              /\ moved[f].chain = others[f].chain
                              /\ moved[f].stage = IF f = e THEN s ELSE others[f].stage
  BY DEF RunRecords

\* No run is mounted, moved to another chain or ended.
RunsKept ==
  /\ priceRun' \in [Runs -> RunRecords]
  /\ \A f \in Runs : /\ priceRun'[f].mounted = priceRun[f].mounted
                     /\ priceRun'[f].chain = priceRun[f].chain
                     /\ priceRun'[f].stage = "done" => priceRun[f].stage = "done"

LEMMA RunsKeptKeeps ==
    ASSUME PriceInv, RunsKept, priceQueue' \in Seq(Runs), UNCHANGED <<priceChainId, priceData>>
    PROVE  PriceInv'
  BY DEF PriceInv, PriceTyped, RunsKept

LEMMA QueueKeeps ==
    ASSUME PriceTyped, NEW waiting \in Seq(Runs), NEW others \in [Runs -> RunRecords], NEW pending,
           \A f \in Runs : /\ others[f].mounted = priceRun[f].mounted
                           /\ others[f].chain = priceRun[f].chain
                           /\ others[f].stage = "done" => priceRun[f].stage = "done",
           Market!processQueue(waiting, others, pending)
    PROVE  RunsKept /\ priceQueue' \in Seq(Runs)
<1>1. CASE priceRun' = others /\ priceQueue' = waiting
  BY <1>1 DEF RunsKept
<1>2. CASE /\ waiting # <<>> /\ priceQueue' = Tail(waiting)
           /\ priceRun' = [others EXCEPT ![Head(waiting)].stage = "fetching"]
  <2>1. Head(waiting) \in Runs /\ Tail(waiting) \in Seq(Runs)
    BY <1>2
  <2>2. /\ priceRun' \in [Runs -> RunRecords]
        /\ \A f \in Runs : /\ priceRun'[f].mounted = others[f].mounted
                           /\ priceRun'[f].chain = others[f].chain
                           /\ priceRun'[f].stage = "done" => others[f].stage = "done"
    BY <1>2, <2>1, RunStageKeeps DEF Stages
  <2>3. QED
    BY <1>2, <2>1, <2>2 DEF RunsKept
<1>3. QED
  BY <1>1, <1>2 DEF Market!processQueue

\* A run that ends has written its price, if it was mounted.
LEMMA RunEndKeeps ==
    ASSUME PriceInv, NEW e \in Runs, priceRun[e].stage # "none",
           priceRun' = [priceRun EXCEPT ![e].stage = "done"],
           NEW s, Market!setPriceData(priceRun[e], s), UNCHANGED <<priceChainId, priceQueue>>
    PROVE  PriceInv'
<1>1. /\ priceRun' \in [Runs -> RunRecords]
      /\ \A f \in Runs : /\ priceRun'[f].mounted = priceRun[f].mounted
                         /\ priceRun'[f].chain = priceRun[f].chain
                         /\ priceRun'[f].stage = IF f = e THEN "done" ELSE priceRun[f].stage
  BY RunStageKeeps DEF PriceInv, PriceTyped, Stages
<1>2. CASE priceRun[e].mounted
  BY <1>1, <1>2 DEF PriceInv, PriceTyped, Market!setPriceData
<1>3. CASE ~priceRun[e].mounted
  BY <1>1, <1>3 DEF PriceInv, PriceTyped, Market!setPriceData
<1>4. QED
  BY <1>2, <1>3

LEMMA RunBeginKeeps ==
    ASSUME PriceInv, NEW e \in Runs, NEW c \in Chains, Market!Begin(e, c, Market!Cleaned),
           priceChainId' = c,
           priceQueue' = priceQueue
    PROVE  PriceInv'
<1>1. /\ Market!Cleaned \in [Runs -> RunRecords]
      /\ \A f \in Runs : ~Market!Cleaned[f].mounted
  BY DEF Market!Cleaned, PriceInv, PriceTyped, RunRecords
<1>2. Market!FirstStage(c) \in Stages \ {"done"}
  BY DEF Market!FirstStage, Stages
<1>3. CASE Market!enabled(c)
  <2>1. priceRun' = [Market!Cleaned EXCEPT
                       ![e] = [stage |-> Market!FirstStage(c), chain |-> c, mounted |-> TRUE]]
    BY <1>3 DEF Market!Begin
  <2>2. [stage |-> Market!FirstStage(c), chain |-> c, mounted |-> TRUE] \in RunRecords
    BY <1>2 DEF RunRecords
  <2>3. /\ priceRun' \in [Runs -> RunRecords]
        /\ \A f \in Runs \ {e} : ~priceRun'[f].mounted
        /\ priceRun'[e].chain = c /\ priceRun'[e].stage # "done"
    BY <1>1, <1>2, <2>1, <2>2
  <2>4. QED
    BY <2>3 DEF PriceInv, PriceTyped
<1>4. CASE ~Market!enabled(c)
  BY <1>1, <1>4 DEF Market!Begin, PriceInv, PriceTyped
<1>5. QED
  BY <1>3, <1>4

LEMMA PriceStep == PriceInv /\ [Market!PriceNext]_Market!priceVars => PriceInv'
<1>1. SUFFICES ASSUME PriceInv, [Market!PriceNext]_Market!priceVars PROVE PriceInv'
  OBVIOUS
<1>0. Market!Unused # {} => (CHOOSE e \in Market!Unused : TRUE) \in Runs
  BY DEF Market!Unused
<1>2. ASSUME NEW c \in Chains, Market!ChainChanges(c) PROVE PriceInv'
  BY <1>0, <1>1, <1>2, RunBeginKeeps DEF Market!ChainChanges
<1>3. CASE Market!Remount
  BY <1>0, <1>1, <1>3, RunBeginKeeps DEF Market!Remount, PriceInv, PriceTyped
<1>4. ASSUME NEW a, Market!OracleRead(a) PROVE PriceInv'
  BY <1>1, <1>4, RunsKeptKeeps DEF Market!OracleRead, RunsKept, PriceInv, PriceTyped
<1>5. ASSUME NEW e \in Runs, Market!FromOracle(e) PROVE PriceInv'
  BY <1>1, <1>5, RunEndKeeps DEF Market!FromOracle
<1>6. ASSUME NEW e \in Runs, Market!getCorePrice(e) PROVE PriceInv'
  <2>1. PICK ok \in BOOLEAN :
          IF ok /\ priceRun[e].mounted
          THEN /\ Market!setPriceData(priceRun[e], "core-api")
               /\ priceRun' = [priceRun EXCEPT ![e].stage = "done"]
          ELSE UNCHANGED priceData /\ priceRun' = [priceRun EXCEPT ![e].stage = "gecko"]
    BY <1>6 DEF Market!getCorePrice, Market!CoreApiAnswers
  <2>2. CASE /\ Market!setPriceData(priceRun[e], "core-api")
             /\ priceRun' = [priceRun EXCEPT ![e].stage = "done"]
    BY <1>1, <1>6, <2>2, RunEndKeeps DEF Market!getCorePrice
  <2>3. CASE UNCHANGED priceData /\ priceRun' = [priceRun EXCEPT ![e].stage = "gecko"]
    <3>0. /\ priceRun' \in [Runs -> RunRecords]
          /\ \A f \in Runs : /\ priceRun'[f].mounted = priceRun[f].mounted
                             /\ priceRun'[f].chain = priceRun[f].chain
                             /\ priceRun'[f].stage = IF f = e THEN "gecko" ELSE priceRun[f].stage
      BY <1>1, <2>3, RunStageKeeps DEF Stages, PriceInv, PriceTyped
    <3>1. RunsKept
      BY <3>0 DEF RunsKept
    <3>2. QED
      BY <1>1, <1>6, <2>3, <3>1, RunsKeptKeeps DEF Market!getCorePrice, PriceInv, PriceTyped
  <2>4. QED
    BY <2>1, <2>2, <2>3
<1>7. ASSUME NEW e \in Runs, Market!fetchCoinGeckoPrice(e) PROVE PriceInv'
  <2>1. CASE priceCache = "fresh"
    BY <1>1, <1>7, <2>1, RunEndKeeps DEF Market!fetchCoinGeckoPrice
  <2>2. CASE priceCache # "fresh"
    <3>1. Market!addRequest(e) /\ UNCHANGED <<priceData, priceChainId>>
      BY <1>7, <2>2 DEF Market!fetchCoinGeckoPrice
    <3>2. Append(priceQueue, e) \in Seq(Runs)
      BY <1>1 DEF PriceInv, PriceTyped
    <3>5. PICK others : others = [priceRun EXCEPT ![e].stage = "queued"]
      OBVIOUS
    <3>6. /\ others \in [Runs -> RunRecords]
          /\ \A f \in Runs : /\ others[f].mounted = priceRun[f].mounted
                             /\ others[f].chain = priceRun[f].chain
                             /\ others[f].stage = IF f = e THEN "queued" ELSE priceRun[f].stage
      BY <1>1, <3>5, RunStageKeeps DEF Stages, PriceInv, PriceTyped
    <3>7. Market!processQueue(Append(priceQueue, e), others, priceTimers)
      BY <3>1, <3>5 DEF Market!addRequest
    <3>3. RunsKept /\ priceQueue' \in Seq(Runs)
      BY <1>1, <3>2, <3>6, <3>7, QueueKeeps DEF PriceInv
    <3>4. QED
      BY <1>1, <3>1, <3>3, RunsKeptKeeps
  <2>3. QED
    BY <2>1, <2>2
<1>8. ASSUME NEW e \in Runs, Market!GeckoAnswers(e) PROVE PriceInv'
  BY <1>1, <1>8, RunEndKeeps DEF Market!GeckoAnswers
<1>9. CASE Market!TimerFires
  <2>1. RunsKept /\ priceQueue' \in Seq(Runs)
    BY <1>1, <1>9, QueueKeeps DEF Market!TimerFires, PriceInv, PriceTyped
  <2>2. QED
    BY <1>1, <1>9, <2>1, RunsKeptKeeps DEF Market!TimerFires
<1>10. CASE Market!DelayPasses \/ Market!CachesAge \/ UNCHANGED Market!priceVars
  BY <1>1, <1>10, RunsKeptKeeps DEF Market!DelayPasses, Market!CachesAge, Market!priceVars, RunsKept,
     PriceInv, PriceTyped
<1>11. QED
  BY <1>1, <1>2, <1>3, <1>4, <1>5, <1>6, <1>7, <1>8, <1>9, <1>10 DEF Market!PriceNext

LEMMA PriceBegins == Market!PriceInit => PriceInv
  BY DEF Market!PriceInit, PriceInv, PriceTyped, Market!NotRun, RunRecords, Stages

LEMMA PriceShows == PriceInv => Market!PricesOfChain
  BY DEF PriceInv, PriceTyped, Market!PricesOfChain, Market!Running

-----------------------------------------------------------------------------
(* The governance pages.                                                    *)

Flags == {{}} \cup {{b} : b \in BOOLEAN}
ReadRecords == [count : SUBSET Counts, votes : SUBSET VotesOf, coreCount : SUBSET Counts,
                paused : Flags, delegated : SUBSET Delegated]

PagesTyped ==
  /\ chain \in Chains /\ read \in [Chains -> ReadRecords]
  /\ networkStatus \in Chains \cup {"unknown"}
  /\ activeTab \in {"basket", "core"}

(* What is shown fits the address and the reads of the last render, which    *)
(* are those of the wallet's chain when no timer of the store is due.        *)
PagesInv ==
  /\ PagesTyped
  /\ ~govTimer => networkStatus = chain
  /\ activeTab = "basket" /\ Governance!Now.address = ""
       => votingPower = 0 /\ proposalsShown = "empty"
  /\ activeTab = "core" /\ Governance!Now.paused # {}
       => {emergencyPaused} = Governance!Now.paused

LEMMA ReadKept ==
    ASSUME PagesTyped, NEW c \in Chains, NEW f, NEW v, read' = [read EXCEPT ![c][f] = {v}],
           \/ f \in {"count", "coreCount"} /\ v \in Counts
           \/ f = "votes" /\ v \in VotesOf
           \/ f = "paused" /\ v \in BOOLEAN
           \/ f = "delegated" /\ v \in Delegated
    PROVE  read' \in [Chains -> ReadRecords]
<1>1. CASE f \in {"count", "coreCount"} /\ v \in Counts
  BY <1>1 DEF PagesTyped, ReadRecords
<1>2. CASE f = "votes" /\ v \in VotesOf
  BY <1>2 DEF PagesTyped, ReadRecords
<1>3. CASE f = "paused" /\ v \in BOOLEAN
  <2>1. {v} \in Flags
    BY <1>3, Zenon DEF Flags
  <2>2. QED
    BY <1>3, <2>1 DEF PagesTyped, ReadRecords
<1>4. CASE f = "delegated" /\ v \in Delegated
  BY <1>4 DEF PagesTyped, ReadRecords
<1>5. QED
  BY <1>1, <1>2, <1>3, <1>4

LEMMA FlagRead ==
    ASSUME NEW p \in Flags, p # {}
    PROVE  p = {CHOOSE b \in p : TRUE}
<1>1. PICK b : p = {b}
  BY Zenon DEF Flags
<1>2. (CHOOSE x \in p : TRUE) \in p
  BY <1>1
<1>3. QED
  BY <1>1, <1>2

\* What the effects show of reads that were just seen.
LEMMA PauseShown ==
    ASSUME NEW seen, seen.paused \in Flags, NEW changed, NEW p, NEW t, NEW l,
           Governance!CoreEffects(seen, changed, p, t, l)
    PROVE  seen.paused # {} => {emergencyPaused'} = seen.paused
  BY FlagRead DEF Governance!CoreEffects, Governance!pausedWhenRead

LEMMA AddressOf ==
    ASSUME NEW c \in Chains
    PROVE  /\ c \in Governed => Governance!Address(c) = c /\ c # ""
           /\ c \notin Governed => Governance!Address(c) = ""
  BY FrontendAssumption DEF Governance!Address, Governance!getCurrentContracts

\* Without an address nothing is read.
LEMMA SeenOf ==
    ASSUME NEW c \in Chains, NEW s \in Chains \cup {"unknown"}, NEW reads \in [Chains -> ReadRecords]
    PROVE  /\ Governance!Seen(c, s, reads).paused \in Flags
           /\ Governance!Seen(c, s, reads).address = Governance!Address(s)
           /\ Governance!Address(s) = "" => Governance!Seen(c, s, reads).votes = {}
           /\ s = c /\ c \in Governed => Governance!Seen(c, s, reads).paused = reads[c].paused
<1>1. {} \in Flags
  BY Zenon DEF Flags
<1>2. CASE s = c /\ c \in Governed
  <2>1. Governance!Address(s) = c /\ c # ""
    BY <1>2, AddressOf
  <2>2. Governance!Answers(c, s, reads) = reads[c] /\ reads[c].paused \in Flags
    BY <1>2 DEF Governance!Answers, ReadRecords
  <2>3. QED
    BY <1>2, <2>1, <2>2 DEF Governance!Seen
<1>3. CASE ~(s = c /\ c \in Governed)
  BY <1>1, <1>3 DEF Governance!Seen, Governance!Answers, Governance!Unread
<1>4. QED
  BY <1>2, <1>3

LEMMA EffectsShow ==
    ASSUME PagesInv, NEW c \in Chains, NEW s \in Chains \cup {"unknown"},
           NEW reads \in [Chains -> ReadRecords],
           Governance!Effects(Governance!Now, Governance!Seen(c, s, reads)),
           chain' = c, networkStatus' = s, read' = reads, activeTab' = activeTab,
           ~govTimer' => s = c
    PROVE  PagesInv'
<1>0. PagesTyped' /\ (~govTimer' => networkStatus' = chain')
  BY DEF PagesInv, PagesTyped
<1>1. Governance!Now' = Governance!Seen(c, s, reads)
  BY DEF Governance!Now
<1>2. CASE activeTab = "basket"
  <2>1. Governance!Seen(c, s, reads).address = "" => votingPower' = 0 /\ proposalsShown' = "empty"
    <3>1. SUFFICES ASSUME Governance!Seen(c, s, reads).address = ""
                   PROVE  votingPower' = 0 /\ proposalsShown' = "empty"
      OBVIOUS
    <3>2. Governance!Seen(c, s, reads).votes = {}
      BY <3>1, SeenOf
    <3>3. \/ <<Governance!Now.address, Governance!Now.count>>
               # <<Governance!Seen(c, s, reads).address, Governance!Seen(c, s, reads).count>>
          \/ votingPower = 0 /\ proposalsShown = "empty"
      BY <1>2, <3>1 DEF PagesInv
    <3>4. Governance!BasketEffects(Governance!Seen(c, s, reads),
            <<Governance!Now.address, Governance!Now.count>>
               # <<Governance!Seen(c, s, reads).address, Governance!Seen(c, s, reads).count>>,
            Governance!Now.votes # Governance!Seen(c, s, reads).votes, votingPower, proposalsShown)
      BY <1>2 DEF Governance!Effects
    <3>5. QED
      BY <3>1, <3>2, <3>3, <3>4 DEF Governance!BasketEffects, Governance!loadProposals
  <2>2. QED
    BY <1>0, <1>1, <1>2, <2>1 DEF PagesInv
<1>3. CASE activeTab = "core"
  <2>1. Governance!Seen(c, s, reads).paused # {}
          => {emergencyPaused'} = Governance!Seen(c, s, reads).paused
    BY <1>3, SeenOf, PauseShown DEF Governance!Effects
  <2>2. QED
    BY <1>0, <1>1, <1>3, <2>1 DEF PagesInv
<1>4. QED
  BY <1>2, <1>3 DEF PagesInv, PagesTyped

LEMMA TabShows ==
    ASSUME PagesInv, NEW tab \in {"basket", "core"}, Governance!setActiveTab(tab)
    PROVE  PagesInv'
<1>1. /\ UNCHANGED <<chain, networkStatus, govTimer, read>> /\ activeTab' = tab
      /\ Governance!Now' = Governance!Now
  BY DEF Governance!setActiveTab, Governance!readVars, Governance!Now
<1>2. /\ Governance!Now.paused \in Flags
      /\ Governance!Now.address = "" => Governance!Now.votes = {}
  BY SeenOf DEF PagesInv, PagesTyped, Governance!Now
<1>3. CASE tab = "basket"
  <2>1. Governance!BasketEffects(Governance!Now, TRUE, TRUE, 0, "empty")
    BY <1>3 DEF Governance!setActiveTab
  <2>2. Governance!Now.address = "" => votingPower' = 0 /\ proposalsShown' = "empty"
    BY <1>2, <2>1 DEF Governance!BasketEffects, Governance!loadProposals
  <2>3. QED
    BY <1>1, <1>3, <2>2 DEF PagesInv, PagesTyped
<1>4. CASE tab = "core"
  <2>1. Governance!CoreEffects(Governance!Now, TRUE, FALSE, 0, "empty")
    BY <1>4 DEF Governance!setActiveTab
  <2>2. Governance!Now.paused # {} => {emergencyPaused'} = Governance!Now.paused
    BY <1>2, <2>1, PauseShown
  <2>3. QED
    BY <1>1, <1>4, <2>2 DEF PagesInv, PagesTyped
<1>5. QED
  BY <1>3, <1>4

Returned(f, v) ==
  \/ f \in {"count", "coreCount"} /\ v \in Counts
  \/ f = "votes" /\ v \in VotesOf
  \/ f = "paused" /\ v \in BOOLEAN
  \/ f = "delegated" /\ v \in Delegated

LEMMA ReturnShows ==
    ASSUME PagesInv, NEW c \in Chains, NEW f, NEW v, Governance!ReadReturns(c, f, v),
           Returned(f, v)
    PROVE  PagesInv'
<1>1. read' \in [Chains -> ReadRecords]
  BY ReadKept DEF Governance!ReadReturns, PagesInv, Returned
<1>2. /\ Governance!Effects(Governance!Now, Governance!Seen(chain, networkStatus, read'))
      /\ UNCHANGED <<chain, networkStatus, govTimer, activeTab>>
  BY DEF Governance!ReadReturns
<1>3. /\ chain \in Chains /\ networkStatus \in Chains \cup {"unknown"}
      /\ ~govTimer => networkStatus = chain
  BY DEF PagesInv, PagesTyped
<1>4. QED
  BY <1>1, <1>2, <1>3, EffectsShow

ShownSame == UNCHANGED <<chain, networkStatus, govTimer, read, activeTab, votingPower,
                         proposalsShown, emergencyPaused>>
LEMMA SameKeeps ==
    ASSUME PagesInv, ShownSame
    PROVE  PagesInv'
<1>1. Governance!Now' = Governance!Now
  BY DEF ShownSame, Governance!Now
<1>2. PagesTyped' /\ (~govTimer' => networkStatus' = chain')
  BY DEF ShownSame, PagesInv, PagesTyped
<1>3. activeTab' = "basket" /\ Governance!Now'.address = ""
        => votingPower' = 0 /\ proposalsShown' = "empty"
  BY <1>1 DEF ShownSame, PagesInv
<1>4. activeTab' = "core" /\ Governance!Now'.paused # {}
        => {emergencyPaused'} = Governance!Now'.paused
  BY <1>1 DEF ShownSame, PagesInv
<1>5. QED
  BY <1>1, <1>2, <1>3, <1>4 DEF PagesInv

LEMMA PagesStep == PagesInv /\ [Governance!PagesNext]_Governance!pagesVars => PagesInv'
<1>1. SUFFICES ASSUME PagesInv, [Governance!PagesNext]_Governance!pagesVars PROVE PagesInv'
  OBVIOUS
<1>0. /\ chain \in Chains /\ networkStatus \in Chains \cup {"unknown"}
      /\ read \in [Chains -> ReadRecords]
  BY <1>1 DEF PagesInv, PagesTyped
<1>2. ASSUME NEW c \in Chains, Governance!ChainChanges(c) PROVE PagesInv'
  BY <1>0, <1>1, <1>2, EffectsShow DEF Governance!ChainChanges
<1>11. CASE Governance!setChainId
  BY <1>0, <1>1, <1>11, EffectsShow DEF Governance!setChainId
<1>3. ASSUME NEW c \in Chains, NEW f, NEW v, Governance!ReadReturns(c, f, v), Returned(f, v)
      PROVE  PagesInv'
  BY <1>1, <1>3, ReturnShows
<1>4. ASSUME NEW tab \in {"basket", "core"}, Governance!setActiveTab(tab) PROVE PagesInv'
  BY <1>1, <1>4, TabShows
<1>5. CASE Governance!OpenForm \/ Governance!CancelForm
  BY <1>1, <1>5, SameKeeps DEF Governance!OpenForm, Governance!CancelForm, Governance!readVars,
     Governance!shownVars, ShownSame
<1>6. ASSUME NEW kind, Governance!FillForm(kind) PROVE PagesInv'
  BY <1>1, <1>6, SameKeeps DEF Governance!FillForm, Governance!readVars, Governance!shownVars,
     ShownSame
<1>7. ASSUME NEW kind, Governance!Asks(kind) PROVE PagesInv'
  BY <1>1, <1>7, SameKeeps DEF Governance!Asks, Governance!readVars, Governance!shownVars,
     ShownSame
<1>8. CASE \/ Governance!handleCreateProposal \/ Governance!handleCreateCoreDAOProposal
           \/ Governance!handleCreateValidatorDelegation
  BY <1>7, <1>8 DEF Governance!handleCreateProposal, Governance!handleCreateCoreDAOProposal,
     Governance!handleCreateValidatorDelegation
<1>9. CASE \/ Governance!handleCreateHashPowerDelegation \/ Governance!handleVote
           \/ Governance!RequestEnds \/ UNCHANGED Governance!pagesVars
  BY <1>1, <1>9, SameKeeps DEF Governance!handleCreateHashPowerDelegation, Governance!handleVote,
     Governance!RequestEnds, Governance!readVars, Governance!shownVars, Governance!pagesVars,
     Governance!formVars, ShownSame
<1>12. ASSUME NEW c \in Chains,
              \/ \E n \in Counts : \/ Governance!ReadReturns(c, "count", n)
                                  \/ Governance!ReadReturns(c, "coreCount", n)
              \/ \E n \in VotesOf : Governance!ReadReturns(c, "votes", n)
              \/ \E n \in Delegated : Governance!ReadReturns(c, "delegated", n)
              \/ \E p \in BOOLEAN : Governance!ReadReturns(c, "paused", p)
       PROVE  PagesInv'
  BY <1>3, <1>12 DEF Returned
<1>10. QED
  BY <1>1, <1>2, <1>4, <1>5, <1>6, <1>8, <1>9, <1>11, <1>12 DEF Governance!PagesNext

LEMMA PagesBegin == Governance!PagesInit => PagesInv
<1>1. {} \in Flags
  BY Zenon DEF Flags
<1>2. Governance!Unread \in ReadRecords
  BY <1>1 DEF Governance!Unread, ReadRecords
<1>3. SUFFICES ASSUME Governance!PagesInit PROVE PagesInv
  OBVIOUS
<1>4. PagesTyped /\ (~govTimer => networkStatus = chain) /\ activeTab = "basket"
  BY <1>2, <1>3 DEF Governance!PagesInit, PagesTyped
<1>5. Governance!Now.address = "" => votingPower = 0 /\ proposalsShown = "empty"
  BY <1>3 DEF Governance!PagesInit
<1>6. QED
  BY <1>4, <1>5 DEF PagesInv

LEMMA PagesShow == PagesInv => Governance!NothingWithoutContract /\ Governance!PauseOfChain
<1>1. SUFFICES ASSUME PagesInv, ~govTimer
               PROVE  Governance!NothingWithoutContract /\ Governance!PauseOfChain
  BY DEF Governance!NothingWithoutContract, Governance!PauseOfChain
<1>2. networkStatus = chain /\ chain \in Chains /\ read \in [Chains -> ReadRecords]
  BY <1>1 DEF PagesInv, PagesTyped
<1>3. /\ Governance!Now.address = Governance!Address(chain)
      /\ chain \in Governed => Governance!Now.paused = read[chain].paused
  BY <1>2, SeenOf DEF Governance!Now
<1>4. chain \notin Governed => Governance!Address(chain) = ""
  BY <1>2, AddressOf
<1>5. QED
  BY <1>1, <1>3, <1>4 DEF PagesInv, Governance!NothingWithoutContract, Governance!PauseOfChain

-----------------------------------------------------------------------------
(* The faucet page and the page of the simple system.                       *)

(* A token that loads is one of a request or of one that reverted, a page    *)
(* that loads has a loop that runs.                                          *)
FaucetPageInv ==
  /\ faucetLoop \in [Loops -> Nat]
  /\ loadingToken # Pages!None => faucetTx # Pages!None \/ reverted
  /\ loading => \E l \in Loops : faucetLoop[l] # 0

LEMMA AskedDirectly ==
    ASSUME NEW token, Pages!requestTokensDirectly(token), FaucetPageInv
    PROVE  loadingToken' # Pages!None => faucetTx' # Pages!None \/ reverted'
  BY DEF Pages!requestTokensDirectly, Pages!writeContract, FaucetPageInv, Pages!None

LEMMA FaucetPageStep ==
  FaucetPageInv /\ [Pages!FaucetPageNext]_Pages!faucetPageVars => FaucetPageInv'
<1>1. SUFFICES ASSUME FaucetPageInv, [Pages!FaucetPageNext]_Pages!faucetPageVars
               PROVE  FaucetPageInv'
  OBVIOUS
<1>2. ASSUME NEW c, Pages!ChainChanges(c) PROVE FaucetPageInv'
  BY <1>1, <1>2 DEF Pages!ChainChanges, FaucetPageInv
<1>3. ASSUME NEW t, Pages!requestTokens(t) \/ Pages!requestDisabled(t) PROVE FaucetPageInv'
  BY <1>1, <1>3, AskedDirectly DEF Pages!requestTokens, Pages!requestDisabled, FaucetPageInv
<1>4. CASE Pages!requestAllDisabled \/ UNCHANGED Pages!faucetPageVars
  BY <1>1, <1>4 DEF Pages!requestAllDisabled, Pages!faucetPageVars, FaucetPageInv
<1>5. ASSUME NEW l \in Loops, Pages!requestAllTokens(l) PROVE FaucetPageInv'
  BY <1>1, <1>5 DEF Pages!requestAllTokens, FaucetPageInv
<1>6. ASSUME NEW l \in Loops, Pages!LoopAsks(l) PROVE FaucetPageInv'
  <2>1. faucetLoop' = [faucetLoop EXCEPT ![l] = faucetLoop[l] + 1] /\ loading' = loading
    BY <1>6 DEF Pages!LoopAsks
  <2>2. loadingToken' # Pages!None => faucetTx' # Pages!None \/ reverted'
    BY <1>1, <1>6, AskedDirectly DEF Pages!LoopAsks
  <2>3. QED
    BY <1>1, <2>1, <2>2 DEF FaucetPageInv
<1>7. ASSUME NEW l \in Loops, Pages!LoopEnds(l) PROVE FaucetPageInv'
  BY <1>1, <1>7 DEF Pages!LoopEnds, FaucetPageInv
<1>8. CASE Pages!ClaimOnTestnet \/ Pages!WalletSends \/ Pages!RequestSettles \/ Pages!RequestReverts
  BY <1>1, <1>8 DEF Pages!ClaimOnTestnet, Pages!writeContract, Pages!WalletSends,
     Pages!RequestSettles, Pages!RequestReverts, FaucetPageInv, Pages!None
<1>9. QED
  BY <1>1, <1>2, <1>3, <1>4, <1>5, <1>6, <1>7, <1>8 DEF Pages!FaucetPageNext

LEMMA FaucetPageBegins == Pages!FaucetPageInit => FaucetPageInv
  BY DEF Pages!FaucetPageInit, FaucetPageInv

LEMMA FaucetPageShows == FaucetPageInv => Pages!ButtonsReleased
  BY DEF FaucetPageInv, Pages!ButtonsReleased, Pages!Busy

(* The deposit that is under way is the one its writeContract hears of, and  *)
(* so is the withdrawal.                                                     *)
SimpleInv ==
  \A r \in simpleRequests :
    /\ r = [kind |-> r.kind, amount |-> r.amount, id |-> r.id, stage |-> r.stage]
    /\ r.kind = "deposit" => r = depositHook
    /\ r.kind = "withdraw" => r = withdrawHook

LEMMA SimpleKept ==
  SimpleInv /\ UNCHANGED <<simpleRequests, depositHook, withdrawHook>> => SimpleInv'
  BY DEF SimpleInv

LEMMA BecomesKeeps ==
    ASSUME SimpleInv, NEW r \in simpleRequests, NEW new,
           new = {} \/ new = {[r EXCEPT !.stage = "sent"]}, Pages!Becomes(r, new)
    PROVE  SimpleInv'
<1>1. CASE new = {}
  BY <1>1 DEF Pages!Becomes, SimpleInv
<1>2. CASE new = {[r EXCEPT !.stage = "sent"]}
  <2>1. PICK n : new = {n} /\ n = [r EXCEPT !.stage = "sent"]
    BY <1>2
  <2>2. /\ n = [kind |-> n.kind, amount |-> n.amount, id |-> n.id, stage |-> n.stage]
        /\ n.kind = r.kind
    BY <2>1 DEF SimpleInv
  <2>3. /\ simpleRequests' = (simpleRequests \ {r}) \cup {n}
        /\ depositHook' = IF depositHook = r THEN n ELSE depositHook
        /\ withdrawHook' = IF withdrawHook = r THEN n ELSE withdrawHook
    BY <2>1 DEF Pages!Becomes
  <2>4. QED
    BY <2>2, <2>3 DEF SimpleInv
<1>3. QED
  BY <1>1, <1>2

LEMMA SimpleStep == SimpleInv /\ [Pages!SimpleNext]_Pages!simpleVars => SimpleInv'
<1>1. SUFFICES ASSUME SimpleInv, [Pages!SimpleNext]_Pages!simpleVars PROVE SimpleInv'
  OBVIOUS
<1>2. CASE Pages!handleDeposit
  BY <1>1, <1>2 DEF Pages!handleDeposit, Pages!ApproveThenDeposit, Pages!Ask, Pages!Pending,
     SimpleInv
<1>3. CASE Pages!handleWithdraw
  BY <1>1, <1>3 DEF Pages!handleWithdraw, Pages!Ask, Pages!Pending, SimpleInv
<1>4. ASSUME NEW a, Pages!setWithdrawShares(a) PROVE SimpleInv'
  BY <1>1, <1>4, SimpleKept DEF Pages!setWithdrawShares
<1>5. CASE Pages!Half \/ Pages!Max
  BY <1>4, <1>5 DEF Pages!Half, Pages!Max
<1>6. CASE \/ Pages!calculateOptimalBtc \/ Pages!Refetch
           \/ Pages!ConnectionChanges \/ UNCHANGED Pages!simpleVars
  BY <1>1, <1>6, SimpleKept DEF Pages!calculateOptimalBtc, Pages!Refetch,
     Pages!ConnectionChanges, Pages!simpleVars
<1>7. ASSUME NEW r \in simpleRequests, Pages!HashComes(r) \/ Pages!Fails(r) \/ Pages!Mined(r)
      PROVE  SimpleInv'
  BY <1>1, <1>7, BecomesKeeps DEF Pages!HashComes, Pages!Fails, Pages!Mined
<1>8. QED
  BY <1>1, <1>2, <1>3, <1>4, <1>5, <1>6, <1>7 DEF Pages!SimpleNext

LEMMA SimpleBegins == Pages!SimpleInit => SimpleInv
  BY DEF Pages!SimpleInit, SimpleInv

LEMMA SimpleShows == SimpleInv => Pages!OneDepositAtATime
<1>1. SUFFICES ASSUME SimpleInv, NEW k \in {"deposit", "withdraw"}
               PROVE  Cardinality({r \in simpleRequests : r.kind = k}) <= 1
  BY SameCardinality DEF Pages!OneDepositAtATime
<1>2. \A x, y \in {r \in simpleRequests : r.kind = k} : x = y
  BY <1>1 DEF SimpleInv
<1>3. QED
  BY <1>2, AtMostOne

-----------------------------------------------------------------------------
(* The page that deposits CORE and BTC.                                     *)

LEMMA DualAssumption ==
  /\ [core : CorePrices, btc : BtcPrices] \subseteq [core : Nat, btc : Nat]
  /\ Clicked \subseteq Dual!Tiers
  BY FrontendAssumption DEF Dual!Tiers

DualInv == price \in [core : Nat, btc : Nat]

LEMMA DualStep == DualInv /\ [Dual!DualNext]_Dual!dualVars => DualInv'
<1>1. SUFFICES ASSUME DualInv, [Dual!DualNext]_Dual!dualVars
               PROVE  price' = price \/ price' \in [core : CorePrices, btc : BtcPrices]
  BY DualAssumption DEF DualInv
<1>2. CASE UNCHANGED Dual!dualVars
  BY <1>2 DEF Dual!dualVars
<1>3. ASSUME NEW t, Dual!handleAutoCalculate(t) PROVE price' = price
  BY <1>3 DEF Dual!handleAutoCalculate, Dual!outsideVars
<1>4. ASSUME NEW a, Dual!TypeCore(a) \/ Dual!TypeBtc(a) PROVE price' = price
  BY <1>4 DEF Dual!TypeCore, Dual!TypeBtc, Dual!outsideVars
<1>5. CASE Dual!UseAll
  BY <1>4, <1>5 DEF Dual!UseAll
<1>6. CASE Dual!DataLoaded \/ Dual!PricesArrive
  BY <1>6 DEF Dual!DataLoaded, Dual!PricesArrive
<1>7. ASSUME NEW r, \/ Dual!ReadReturns(r) \/ Dual!WalletSends(r) \/ Dual!Fails(r)
                    \/ Dual!Approved(r) \/ Dual!Staked(r)
      PROVE price' = price
  BY <1>7 DEF Dual!ReadReturns, Dual!WalletSends, Dual!Fails, Dual!Approved, Dual!Staked,
     Dual!outsideVars
<1>8. CASE Dual!handleApproveBTC \/ Dual!handleDualStake
  BY <1>8 DEF Dual!handleApproveBTC, Dual!handleDualStake, Dual!Ask, Dual!outsideVars
<1>9. QED
  BY <1>1, <1>2, <1>3, <1>4, <1>5, <1>6, <1>7, <1>8 DEF Dual!DualNext

LEMMA DualBegins == Dual!DualInit => DualInv
  BY DEF Dual!DualInit, DualInv

LEMMA MaxOfTiers ==
    ASSUME NEW S, S \subseteq Dual!Tiers, NEW t \in S
    PROVE  Dual!Max(S) \in Dual!Tiers /\ Dual!Max(S) >= t
<1>1. \E x \in S : \A y \in S : x >= y
  <2>1. S \subseteq {0, 1, 2, 3, 4}
    BY DEF Dual!Tiers
  <2>2. CASE 4 \in S
    BY <2>1, <2>2
  <2>3. CASE 4 \notin S /\ 3 \in S
    BY <2>1, <2>3
  <2>4. CASE 4 \notin S /\ 3 \notin S /\ 2 \in S
    BY <2>1, <2>4
  <2>5. CASE 4 \notin S /\ 3 \notin S /\ 2 \notin S
    BY <2>1, <2>5
  <2>6. QED
    BY <2>2, <2>3, <2>4, <2>5
<1>2. QED
  BY <1>1 DEF Dual!Max, Dual!Tiers

LEMMA MaxOfTwo ==
    ASSUME NEW a \in Nat, NEW b \in Nat
    PROVE  Dual!Max({a, b}) \in Nat /\ Dual!Max({a, b}) >= a
<1>1. \E x \in {a, b} : \A y \in {a, b} : x >= y
  OBVIOUS
<1>2. QED
  BY <1>1 DEF Dual!Max

LEMMA AmountsOf ==
    ASSUME NEW t \in Dual!Tiers
    PROVE  /\ Dual!TIER_USD_THRESHOLDS[t] \in Nat
           /\ Dual!BtcOfTier[t] \in Nat /\ Dual!BtcOfTier[t] >= Dual!MinBtc
           /\ Dual!CoreOfTier[t] \in Nat
           /\ Dual!AtRatio(t) \in Nat /\ Dual!AtRatio(t) >= Dual!MinCore
<1>1. t \in {0, 1, 2, 3, 4}
  BY DEF Dual!Tiers
<1>2. /\ Dual!TIER_USD_THRESHOLDS[t] \in Nat /\ Dual!CoreOfTier[t] \in Nat
  BY <1>1 DEF Dual!TIER_USD_THRESHOLDS, Dual!CoreOfTier, Dual!MinCore, Dual!Tiers
<1>3. Dual!BtcOfTier[t] \in Nat /\ Dual!BtcOfTier[t] >= 1 /\ (t # 0 => Dual!BtcOfTier[t] >= 10)
  BY <1>1 DEF Dual!BtcOfTier, Dual!MinBtc, Dual!Tiers
<1>4. QED
  BY <1>2, <1>3 DEF Dual!AtRatio, Dual!Base, Dual!MinCore, Dual!MinBtc, Dual!OptimalRatio

LEMMA RoundedDown ==
    ASSUME NEW m \in Nat, NEW p \in Nat \ {0}
    PROVE  m \div p \in Nat /\ m < (m \div p) * p + p
  OBVIOUS

(* What is added for a value of m that lacks, rounded down even, is worth m  *)
(* but for one unit.                                                         *)
LEMMA EnoughAdded ==
    ASSUME NEW p \in Nat \ {0}, NEW q \in Nat, NEW b \in Nat, NEW r \in Nat, NEW T \in Nat,
           NEW m \in Nat, r * p + b * q + m >= T,
           NEW e, e = m \div p \/ e = (m + p - 1) \div p, NEW c \in Nat, c >= r + e
    PROVE  (c + 1) * p + b * q >= T
<1>1. e \in Nat /\ e * p \in Nat /\ m < e * p + p
  <2>1. m + p - 1 \in Nat /\ m + p - 1 >= m
    OBVIOUS
  <2>2. /\ m \div p \in Nat /\ m < (m \div p) * p + p
        /\ (m + p - 1) \div p \in Nat /\ m + p - 1 < ((m + p - 1) \div p) * p + p
    BY <2>1, RoundedDown
  <2>3. CASE e = m \div p
    BY <2>2, <2>3
  <2>4. CASE e = (m + p - 1) \div p
    <3>1. e \in Nat /\ e * p \in Nat /\ m + p - 1 < e * p + p
      BY <2>2, <2>4
    <3>2. QED
      BY <2>1, <3>1
  <2>5. QED
    BY <2>3, <2>4
<1>2. PICK d \in Nat : c = r + e + d
  BY <1>1, c - r - e \in Nat
<1>3. (c + 1) * p = r * p + (e * p + p) + d * p
  BY <1>1, <1>2
<1>4. d * p \in Nat /\ b * q \in Nat /\ r * p \in Nat /\ (c + 1) * p \in Nat
  OBVIOUS
<1>5. QED
  BY <1>1, <1>3, <1>4

LEMMA RoundedNat ==
    ASSUME NEW p \in Nat \ {0}, NEW m \in Nat, NEW e, e \in {m \div p, (m + p - 1) \div p}
    PROVE  e \in Nat
<1>1. m + p - 1 \in Nat
  OBVIOUS
<1>2. QED
  BY <1>1, RoundedDown

\* What the amounts of a tier lack in value.
Missing(t) ==
  IF \/ t = Dual!Base
     \/ Dual!calculateTotalUSDValue(Dual!AtRatio(t), Dual!BtcOfTier[t])
          >= Dual!TIER_USD_THRESHOLDS[t]
  THEN 0
  ELSE Dual!TIER_USD_THRESHOLDS[t] - Dual!calculateTotalUSDValue(Dual!AtRatio(t), Dual!BtcOfTier[t])

LEMMA AmountIs ==
    ASSUME NEW t, NEW a \in Dual!AmountsOfTier(t)
    PROVE  \E e \in {Missing(t) \div Dual!getAssetPrices.core,
                     (Missing(t) + Dual!getAssetPrices.core - 1) \div Dual!getAssetPrices.core} :
             a = [btc |-> Dual!BtcOfTier[t],
                  core |-> Dual!Max({Dual!AtRatio(t) + e, Dual!CoreOfTier[t]})]
  BY Zenon DEF Dual!AmountsOfTier, Missing

LEMMA TierReached ==
    ASSUME DualInv, NEW t \in Dual!Tiers, Dual!handleAutoCalculate(t)
    PROVE  Dual!calculateTier(coreAmount' + 1, dualBtcAmount') >= t
<1>1. PICK p, q : p = Dual!getAssetPrices.core /\ q = Dual!getAssetPrices.btc
  OBVIOUS
<1>2. p \in Nat \ {0} /\ q \in Nat
  BY <1>1 DEF Dual!getAssetPrices, DualInv
<1>3. PICK T, b, r, k, m :
        /\ T = Dual!TIER_USD_THRESHOLDS[t] /\ b = Dual!BtcOfTier[t] /\ r = Dual!AtRatio(t)
        /\ k = Dual!CoreOfTier[t] /\ m = Missing(t)
  OBVIOUS
<1>4. T \in Nat /\ b \in Nat /\ b >= Dual!MinBtc /\ k \in Nat /\ r \in Nat /\ r >= Dual!MinCore
  BY <1>3, AmountsOf
<1>5. m \in Nat /\ (t # Dual!Base => r * p + b * q + m >= T)
  <2>1. Dual!calculateTotalUSDValue(r, b) = r * p + b * q /\ r * p + b * q \in Nat
    BY <1>1, <1>2, <1>4 DEF Dual!calculateTotalUSDValue
  <2>2. m = IF t = Dual!Base \/ r * p + b * q >= T THEN 0 ELSE T - (r * p + b * q)
    BY <1>3, <2>1 DEF Missing
  <2>3. QED
    BY <1>4, <2>1, <2>2
<1>6. PICK a \in Dual!AmountsOfTier(t) : coreAmount' = a.core /\ dualBtcAmount' = a.btc
  BY DEF Dual!handleAutoCalculate
<1>7. PICK e \in {m \div p, (m + p - 1) \div p} : a = [btc |-> b, core |-> Dual!Max({r + e, k})]
  BY <1>1, <1>3, <1>6, AmountIs
<1>8. e \in Nat
  BY <1>2, <1>5, RoundedNat
<1>9. coreAmount' \in Nat /\ coreAmount' >= r + e /\ dualBtcAmount' = b
  BY <1>4, <1>6, <1>7, <1>8, MaxOfTwo
<1>10. t # Dual!Base => (coreAmount' + 1) * p + b * q >= T
  BY <1>2, <1>4, <1>5, <1>7, <1>9, EnoughAdded
<1>11. PICK S : S = {Dual!Base} \cup
                    {s \in Dual!Tiers :
                       Dual!calculateTotalUSDValue(coreAmount' + 1, dualBtcAmount')
                         >= Dual!TIER_USD_THRESHOLDS[s]}
  OBVIOUS
<1>12. t \in S /\ S \subseteq Dual!Tiers
  BY <1>1, <1>3, <1>9, <1>10, <1>11 DEF Dual!calculateTotalUSDValue, Dual!Base, Dual!Tiers
<1>13. /\ coreAmount' + 1 >= Dual!MinCore /\ coreAmount' + 1 \in Nat
       /\ dualBtcAmount' >= Dual!MinBtc /\ dualBtcAmount' \in Nat
  <2>1. PICK c : c = coreAmount'
    OBVIOUS
  <2>2. c \in Nat /\ c >= r + e /\ r \in Nat /\ r >= 10 /\ e \in Nat /\ p \in Nat \ {0} /\ m \in Nat
    BY <1>2, <1>4, <1>5, <1>8, <1>9, <2>1 DEF Dual!MinCore
  <2>3. c + 1 >= 10 /\ c + 1 \in Nat
    BY <2>2
  <2>4. dualBtcAmount' \in Nat /\ dualBtcAmount' >= Dual!MinBtc
    BY <1>2, <1>4, <1>5, <1>9
  <2>5. QED
    BY <1>2, <1>5, <2>1, <2>3, <2>4 DEF Dual!MinCore
<1>14. Dual!calculateTier(coreAmount' + 1, dualBtcAmount') = Dual!Max(S)
  BY <1>2, <1>5, <1>11, <1>13 DEF Dual!calculateTier, Dual!MinCore, Dual!MinBtc
<1>15. QED
  BY <1>2, <1>5, <1>12, <1>14, MaxOfTiers

LEMMA DualSteps ==
  DualInv => \A t \in Clicked :
    Dual!handleAutoCalculate(t) => Dual!calculateTier(coreAmount' + 1, dualBtcAmount') >= t
  BY TierReached, DualAssumption

-----------------------------------------------------------------------------
(* The deployment scripts.  A script is a sequence put together from parts;  *)
(* first what stands at which place in it, then what it has connected once   *)
(* it is past a place, then the steps.                                       *)

IsList(s) == s \in Seq({s[i] : i \in DOMAIN s})
Then(s, t) == s \o t
IsThen(r, s, t) ==
  /\ IsList(r) /\ Len(s) \in Nat /\ Len(t) \in Nat /\ Len(r) = Len(s) + Len(t)
  /\ \A k \in 1..Len(s) : r[k] = s[k]
  /\ \A k \in Nat : k > Len(s) /\ k <= Len(s) + Len(t) => r[k] = t[k - Len(s)]

LEMMA Joined ==
  ASSUME NEW s, NEW t, IsList(s), IsList(t)
  PROVE  IsThen(Then(s, t), s, t)
<1> DEFINE S == {s[i] : i \in DOMAIN s} \cup {t[i] : i \in DOMAIN t}
<1>1. s \in Seq(S) /\ t \in Seq(S)
  <2>1. s \in Seq({s[i] : i \in DOMAIN s}) /\ t \in Seq({t[i] : i \in DOMAIN t})
    BY DEF IsList
  <2>2. QED  BY <2>1
<1> HIDE DEF S
<1>2. s \o t \in Seq(S) /\ Len(s \o t) = Len(s) + Len(t)  BY <1>1
<1>3. /\ \A k \in 1..Len(s) : (s \o t)[k] = s[k]
      /\ \A k \in Nat : k > Len(s) /\ k <= Len(s) + Len(t) => (s \o t)[k] = t[k - Len(s)]
  BY <1>1
<1>4. IsList(s \o t)
  <2> DEFINE r == s \o t
  <2>1. r \in Seq(S)  BY <1>2
  <2> HIDE DEF r
  <2>2. r \in Seq({r[i] : i \in DOMAIN r})  BY <2>1
  <2>3. QED  BY <2>2 DEF IsList, r
<1>5. QED  BY <1>1, <1>2, <1>3, <1>4 DEF Then, IsThen

LEMMA CallsListed ==
  ASSUME NEW n \in Nat
  PROVE  /\ IsList(Scripts!Calls(n)) /\ Len(Scripts!Calls(n)) = n
         /\ \A k \in 1..n : Scripts!Calls(n)[k].op = "call"
<1> DEFINE c == Scripts!Calls(n)
           call == [op |-> "call", of |-> "", what |-> "", args |-> <<>>]
<1>1. c = [i \in 1..n |-> call]  BY DEF Scripts!Calls
<1>2. call.op = "call"  OBVIOUS
<1> HIDE DEF c, call
<1>3. c \in [1..n -> {call}]  BY <1>1
<1>4. Len(c) = n /\ DOMAIN c = 1..n  BY <1>1
<1>5. \A k \in 1..n : c[k] = call  BY <1>1
<1>6. c \in [1..n -> {c[i] : i \in 1..n}]  BY <1>1
<1>7. c \in Seq({c[i] : i \in 1..n})  BY <1>6
<1>8. IsList(c)  BY <1>4, <1>7 DEF IsList
<1>9. QED  BY <1>2, <1>4, <1>5, <1>8 DEF c

LEMMA SaveListed ==
  ASSUME NEW file, NEW names
  PROVE  /\ IsList(Scripts!Save(file, names)) /\ Len(Scripts!Save(file, names)) = 1
         /\ Scripts!Save(file, names)[1].op = "save"
         /\ Scripts!Save(file, names)[1].of = file
         /\ Scripts!Save(file, names)[1].args = names
<1> DEFINE one == [op |-> "save", of |-> file, what |-> "", args |-> names]
<1>1. one.op = "save" /\ one.of = file /\ one.args = names  OBVIOUS
<1>2. Scripts!Save(file, names) = <<one>>  BY DEF Scripts!Save
<1> HIDE DEF one
<1>3. IsList(<<one>>)  BY DEF IsList
<1>4. QED  BY <1>1, <1>2, <1>3

(* What comes first, calls, and what comes after them.                      *)
Between(s, n, t) == Then(Then(s, Scripts!Calls(n)), t)
IsBetween(u, s, n, t) ==
  /\ IsList(u) /\ Len(u) = Len(s) + n + Len(t)
  /\ \A k \in 1..Len(s) : u[k] = s[k]
  /\ \A k \in Nat : k > Len(s) /\ k <= Len(s) + n => u[k].op = "call"
  /\ \A k \in Nat :
       k > Len(s) + n /\ k <= Len(s) + n + Len(t) => u[k] = t[k - (Len(s) + n)]

LEMMA CallsBetween ==
  ASSUME NEW s, NEW t, IsList(s), IsList(t), NEW n \in Nat
  PROVE  IsBetween(Between(s, n, t), s, n, t)
<1> DEFINE c == Scripts!Calls(n)
           q == Then(s, c)
           r == Then(q, t)
<1>1. IsList(c) /\ Len(c) = n /\ \A k \in 1..n : c[k].op = "call"
  BY CallsListed
<1> HIDE DEF c
<1>2. /\ IsList(q) /\ Len(q) = Len(s) + n /\ Len(s) \in Nat
      /\ \A k \in 1..Len(s) : q[k] = s[k]
      /\ \A k \in Nat : k > Len(s) /\ k <= Len(s) + n => q[k] = c[k - Len(s)]
  <2>1. IsThen(q, s, c)  BY <1>1, Joined
  <2> HIDE DEF q
  <2>2. QED  BY <1>1, <2>1 DEF IsThen
<1> HIDE DEF q
<1>3. /\ IsList(r) /\ Len(r) = Len(s) + n + Len(t) /\ Len(t) \in Nat
      /\ \A k \in 1..Len(s) + n : r[k] = q[k]
      /\ \A k \in Nat :
           k > Len(s) + n /\ k <= Len(s) + n + Len(t) => r[k] = t[k - (Len(s) + n)]
  <2>1. IsThen(r, q, t)  BY <1>2, Joined
  <2> HIDE DEF r
  <2>2. QED  BY <1>2, <2>1 DEF IsThen
<1> HIDE DEF r
<1>4. ASSUME NEW k \in Nat, k > Len(s), k <= Len(s) + n PROVE r[k].op = "call"
  BY <1>1, <1>2, <1>3, <1>4
<1>5. ASSUME NEW k \in 1..Len(s) PROVE r[k] = s[k]
  BY <1>2, <1>3
<1>6. QED  BY <1>2, <1>3, <1>4, <1>5 DEF r, q, c, Between, IsBetween

Deploys(t, k, as) == t[k].op = "deploy" /\ t[k].of = as
Sets(t, k, on, field, name) ==
  t[k].op = "set" /\ t[k].of = on /\ t[k].what = field /\ t[k].args = <<name>>
Saves(t, k, file, names) == t[k].op = "save" /\ t[k].of = file /\ t[k].args = names

LEMMA CallsAdded ==
  ASSUME NEW m \in Nat, NEW n \in Nat
  PROVE  Scripts!Calls(m) \o Scripts!Calls(n) = Scripts!Calls(m + n)
<1> DEFINE call == [op |-> "call", of |-> "", what |-> "", args |-> <<>>]
<1>1. \A k \in Nat : Scripts!Calls(k) = [i \in 1..k |-> call]  BY DEF Scripts!Calls
<1> HIDE DEF call
<1>2. m + n \in Nat  OBVIOUS
<1>3. [i \in 1..m |-> call] \o [i \in 1..n |-> call] = [i \in 1..m + n |-> call]
  OBVIOUS
<1>4. QED  BY <1>1, <1>2, <1>3

LEMMA ProductionListed ==
  LET t == Scripts!ProductionReady
  IN /\ Len(t) = 13
     /\ Deploys(t, 1, "token") /\ Deploys(t, 2, "core") /\ Deploys(t, 3, "testBTC")
     /\ Deploys(t, 4, "priceFeed")
     /\ \A k \in 5..8 : t[k].op = "call"
     /\ Deploys(t, 9, "dualStaking") /\ Deploys(t, 10, "stakeBasket")
     /\ Deploys(t, 11, "dualStakingBasket") /\ t[11].what = "DualStakingBasket"
     /\ Len(t[11].args) = 8 /\ t[11].args[1] = "token"
     /\ Sets(t, 12, "token", "minter", "dualStakingBasket")
     /\ Saves(t, 13, "production",
          [token |-> "token", core |-> "core", testBTC |-> "testBTC", priceFeed |-> "priceFeed",
           dualStaking |-> "dualStaking", stakeBasket |-> "stakeBasket",
           dualStakingBasket |-> "dualStakingBasket"])
<1> DEFINE t == Scripts!ProductionReady
           a == Scripts!Deploy("token", "StakeBasketToken", <<"value", "value", "deployer">>)
                \o Scripts!Deploy("core", "MockCORE", <<"deployer">>)
                \o Scripts!Deploy("testBTC", "TestBTC", <<>>)
                \o Scripts!Deploy("priceFeed", "PriceFeed", <<"deployer", "zero", "zero">>)
           b == Scripts!ProductionBaskets
           names == [token |-> "token", core |-> "core", testBTC |-> "testBTC",
                     priceFeed |-> "priceFeed", dualStaking |-> "dualStaking",
                     stakeBasket |-> "stakeBasket", dualStakingBasket |-> "dualStakingBasket"]
           c == Scripts!Save("production", names)
           r == Between(a, 4, b)
<1>1. /\ IsList(a) /\ Len(a) = 4
      /\ Deploys(a, 1, "token") /\ Deploys(a, 2, "core") /\ Deploys(a, 3, "testBTC")
      /\ Deploys(a, 4, "priceFeed")
  BY DEF IsList, Deploys, Scripts!Deploy
<1>2. IsList(b) /\ Len(b) = 4
  BY DEF IsList, Scripts!ProductionBaskets, Scripts!Deploy, Scripts!Set
<1>3. Deploys(b, 1, "dualStaking") /\ Deploys(b, 2, "stakeBasket") /\ Deploys(b, 3, "dualStakingBasket")
  BY DEF Deploys, Scripts!ProductionBaskets, Scripts!Deploy, Scripts!Set
<1>4. b[3].what = "DualStakingBasket" /\ Len(b[3].args) = 8 /\ b[3].args[1] = "token"
  BY DEF Scripts!ProductionBaskets, Scripts!Deploy, Scripts!Set
<1>5. Sets(b, 4, "token", "minter", "dualStakingBasket")
  BY DEF Sets, Scripts!ProductionBaskets, Scripts!Deploy, Scripts!Set
<1>6. IsList(c) /\ Len(c) = 1 /\ Saves(c, 1, "production", names)
  BY SaveListed DEF Saves
<1>7. t = Then(r, c)
  BY DEF Scripts!ProductionReady, Scripts!ProductionTokens, Then, Between
<1> HIDE DEF a, b, c, t, names
<1>8. /\ IsList(r) /\ Len(r) = 8 + 4
      /\ \A k \in 1..4 : r[k] = a[k]
      /\ \A k \in 5..8 : r[k].op = "call"
      /\ \A k \in Nat : k > 8 /\ k <= 12 => r[k] = b[k - 8]
  <2>1. IsBetween(r, a, 4, b)  BY <1>1, <1>2, CallsBetween
  <2> HIDE DEF r
  <2>2. QED  BY <1>1, <1>2, <2>1 DEF IsBetween
<1> HIDE DEF r
<1>9. Len(t) = 13 /\ (\A k \in 1..12 : t[k] = r[k]) /\ t[13] = c[1]
  <2>1. IsThen(Then(r, c), r, c)  BY <1>6, <1>8, Joined
  <2>2. IsThen(t, r, c)  BY <1>7, <2>1
  <2>3. QED  BY <1>6, <1>8, <2>2 DEF IsThen
<1>10. /\ t[1] = a[1] /\ t[2] = a[2] /\ t[3] = a[3] /\ t[4] = a[4]
       /\ t[9] = b[1] /\ t[10] = b[2] /\ t[11] = b[3] /\ t[12] = b[4]
       /\ \A k \in 5..8 : t[k].op = "call"
  BY <1>8, <1>9
<1>11. QED
  BY <1>1, <1>3, <1>4, <1>5, <1>6, <1>9, <1>10 DEF Deploys, Sets, Saves, t, names

LEMMA MocksListed ==
  LET t == Scripts!WithMocks
  IN /\ Len(t) = 33
     /\ Deploys(t, 1, "core") /\ Deploys(t, 2, "coreBTC") /\ Deploys(t, 3, "coreStaking")
     /\ Deploys(t, 4, "lstBTC") /\ Deploys(t, 5, "priceFeed")
     /\ \A k \in 6..9 : t[k].op = "call"
     /\ Deploys(t, 10, "token") /\ Deploys(t, 11, "stakingManager")
     /\ Deploys(t, 12, "stakeBasket") /\ t[12].what = "StakeBasket"
     /\ Len(t[12].args) = 6 /\ t[12].args[1] = "token"
     /\ Sets(t, 13, "token", "minter", "stakeBasket")
     /\ Deploys(t, 14, "stakingManagerCorrect") /\ t[14].what = "StakingManager"
     /\ Len(t[14].args) = 6 /\ t[14].args[1] = "stakeBasket"
     /\ Sets(t, 15, "stakeBasket", "stakingManager", "stakingManagerCorrect")
     /\ \A k \in 16..32 : t[k].op = "call"
     /\ Saves(t, 33, "info",
          [core |-> "core", coreBTC |-> "coreBTC", coreStaking |-> "coreStaking",
           lstBTC |-> "lstBTC", priceFeed |-> "priceFeed",
           stakingManager |-> "stakingManagerCorrect", token |-> "token",
           stakeBasket |-> "stakeBasket"])
<1> DEFINE t == Scripts!WithMocks
           a == Scripts!Deploy("core", "MockCORE", <<"deployer">>)
                \o Scripts!Deploy("coreBTC", "MockCoreBTC", <<"deployer">>)
                \o Scripts!Deploy("coreStaking", "MockCoreStaking", <<"core", "deployer">>)
                \o Scripts!Deploy("lstBTC", "MockLstBTC", <<"coreBTC", "deployer">>)
                \o Scripts!Deploy("priceFeed", "API3PriceFeed", <<"deployer">>)
           b == Scripts!MocksBasket
           names == [core |-> "core", coreBTC |-> "coreBTC", coreStaking |-> "coreStaking",
                     lstBTC |-> "lstBTC", priceFeed |-> "priceFeed",
                     stakingManager |-> "stakingManagerCorrect", token |-> "token",
                     stakeBasket |-> "stakeBasket"]
           c == Scripts!Save("info", names)
           r == Between(a, 4, b)
<1>1. /\ IsList(a) /\ Len(a) = 5
      /\ Deploys(a, 1, "core") /\ Deploys(a, 2, "coreBTC") /\ Deploys(a, 3, "coreStaking")
      /\ Deploys(a, 4, "lstBTC") /\ Deploys(a, 5, "priceFeed")
  BY DEF IsList, Deploys, Scripts!Deploy
<1>2. IsList(b) /\ Len(b) = 6
  BY DEF IsList, Scripts!MocksBasket, Scripts!MocksManager, Scripts!Deploy, Scripts!Set
<1>3. /\ Deploys(b, 1, "token") /\ Deploys(b, 2, "stakingManager")
      /\ Deploys(b, 3, "stakeBasket") /\ Deploys(b, 5, "stakingManagerCorrect")
  BY DEF Deploys, Scripts!MocksBasket, Scripts!MocksManager, Scripts!Deploy, Scripts!Set
<1>4. b[3].what = "StakeBasket" /\ Len(b[3].args) = 6 /\ b[3].args[1] = "token"
  BY DEF Scripts!MocksBasket, Scripts!MocksManager, Scripts!Deploy, Scripts!Set
<1>5. b[5].what = "StakingManager" /\ Len(b[5].args) = 6 /\ b[5].args[1] = "stakeBasket"
  BY DEF Scripts!MocksBasket, Scripts!MocksManager, Scripts!Deploy, Scripts!Set
<1>6. /\ Sets(b, 4, "token", "minter", "stakeBasket")
      /\ Sets(b, 6, "stakeBasket", "stakingManager", "stakingManagerCorrect")
  BY DEF Sets, Scripts!MocksBasket, Scripts!MocksManager, Scripts!Deploy, Scripts!Set
<1>7. IsList(c) /\ Len(c) = 1 /\ Saves(c, 1, "info", names)
  BY SaveListed DEF Saves
<1>8. Scripts!MocksFunding = Scripts!Calls(17)
  <2>1. Scripts!Calls(2) \o Scripts!Calls(3) = Scripts!Calls(2 + 3)  BY CallsAdded
  <2>2. Scripts!Calls(5) \o Scripts!Calls(6) = Scripts!Calls(5 + 6)  BY CallsAdded
  <2>3. Scripts!Calls(11) \o Scripts!Calls(6) = Scripts!Calls(11 + 6)  BY CallsAdded
  <2>4. 2 + 3 = 5 /\ 5 + 6 = 11 /\ 11 + 6 = 17  OBVIOUS
  <2>5. QED  BY <2>1, <2>2, <2>3, <2>4 DEF Scripts!MocksFunding
<1>9. t = Between(r, 17, c)
  BY <1>8 DEF Scripts!WithMocks, Scripts!MocksTokens, Scripts!MocksSaved, Then, Between
<1> HIDE DEF a, b, c, t, names
<1>10. /\ IsList(r) /\ Len(r) = 9 + 6
       /\ \A k \in 1..5 : r[k] = a[k]
       /\ \A k \in 6..9 : r[k].op = "call"
       /\ \A k \in Nat : k > 9 /\ k <= 15 => r[k] = b[k - 9]
  <2>1. IsBetween(r, a, 4, b)  BY <1>1, <1>2, CallsBetween
  <2> HIDE DEF r
  <2>2. QED  BY <1>1, <1>2, <2>1 DEF IsBetween
<1> HIDE DEF r
<1>11. /\ Len(t) = 33
       /\ \A k \in 1..15 : t[k] = r[k]
       /\ \A k \in 16..32 : t[k].op = "call"
       /\ t[33] = c[1]
  <2>1. IsBetween(Between(r, 17, c), r, 17, c)  BY <1>7, <1>10, CallsBetween
  <2>2. IsBetween(t, r, 17, c)  BY <1>9, <2>1
  <2>3. QED  BY <1>7, <1>10, <2>2 DEF IsBetween
<1>12. /\ t[1] = a[1] /\ t[2] = a[2] /\ t[3] = a[3] /\ t[4] = a[4] /\ t[5] = a[5]
       /\ \A k \in 6..9 : t[k].op = "call"
       /\ t[10] = b[1] /\ t[11] = b[2] /\ t[12] = b[3] /\ t[13] = b[4] /\ t[14] = b[5]
       /\ t[15] = b[6]
  BY <1>10, <1>11
<1>13. QED
  BY <1>1, <1>3, <1>4, <1>5, <1>6, <1>7, <1>11, <1>12 DEF Deploys, Sets, Saves, t, names

SimpleNames == [priceFeed |-> "priceFeed", token |-> "token", staking |-> "staking"]
LEMMA SimpleListed ==
  ASSUME NEW x \in {"zero", "value"}
  PROVE  LET t == Scripts!SimpleSystem(x)
             n == IF x = "zero" THEN 5 ELSE 7
         IN /\ Len(t) = n
            /\ Deploys(t, 1, "priceFeed") /\ Deploys(t, 2, "token")
            /\ Deploys(t, 3, "staking") /\ t[3].what = "SimpleStaking"
            /\ Len(t[3].args) = 5 /\ t[3].args[1] = "token"
            /\ Sets(t, 4, "token", "minter", "staking")
            /\ \A k \in 5 .. n - 1 : t[k].op = "call"
            /\ Saves(t, n, "simple", SimpleNames)
<1> DEFINE t == Scripts!SimpleSystem(x)
           m == IF x = "zero" THEN 0 ELSE 2
           n == m + 5
           a == Scripts!Deploy("priceFeed", "SimplePriceFeed", <<x, "deployer">>)
                \o Scripts!Deploy("token", "SimpleBasketToken", <<"value", "value", "deployer">>)
                \o Scripts!Deploy("staking", "SimpleStaking",
                                  <<"token", "priceFeed", "value", "value", "deployer">>)
                \o Scripts!Set("token", "minter", "staking")
           c == Scripts!Save("simple", SimpleNames)
<1>1. IsList(a) /\ Len(a) = 4
  BY DEF IsList, Scripts!Deploy, Scripts!Set
<1>2. Deploys(a, 1, "priceFeed") /\ Deploys(a, 2, "token") /\ Deploys(a, 3, "staking")
  BY DEF Deploys, Scripts!Deploy, Scripts!Set
<1>3. a[3].what = "SimpleStaking" /\ Len(a[3].args) = 5 /\ a[3].args[1] = "token"
  BY DEF Scripts!Deploy, Scripts!Set
<1>4. Sets(a, 4, "token", "minter", "staking")
  BY DEF Sets, Scripts!Deploy, Scripts!Set
<1>5. IsList(c) /\ Len(c) = 1 /\ Saves(c, 1, "simple", SimpleNames)
  BY SaveListed DEF Saves
<1>6. t = Between(a, m, c)
  <2>1. CASE x = "zero"
    <3>1. Scripts!Calls(0) = <<>>  BY DEF Scripts!Calls
    <3>2. t = (a \o <<>>) \o c  BY <2>1 DEF Scripts!SimpleSystem, SimpleNames
    <3>3. m = 0  BY <2>1
    <3>4. QED  BY <3>1, <3>2, <3>3 DEF Then, Between
  <2>2. CASE x = "value"
    <3>1. t = (a \o Scripts!Calls(2)) \o c  BY <2>2 DEF Scripts!SimpleSystem, SimpleNames
    <3>2. m = 2  BY <2>2
    <3>3. QED  BY <3>1, <3>2 DEF Then, Between
  <2>3. QED  BY <2>1, <2>2
<1>7. m \in Nat /\ n = IF x = "zero" THEN 5 ELSE 7  OBVIOUS
<1> HIDE DEF a, c, t, m
<1>8. /\ Len(t) = n
      /\ \A k \in 1..4 : t[k] = a[k]
      /\ \A k \in 5 .. n - 1 : t[k].op = "call"
      /\ t[n] = c[1]
  <2>1. IsBetween(Between(a, m, c), a, m, c)  BY <1>1, <1>5, <1>7, CallsBetween
  <2>2. IsBetween(t, a, m, c)  BY <1>6, <2>1
  <2>3. QED  BY <1>1, <1>5, <1>7, <2>2 DEF IsBetween
<1>9. /\ Deploys(t, 1, "priceFeed") /\ Deploys(t, 2, "token") /\ Deploys(t, 3, "staking")
      /\ t[3].what = "SimpleStaking" /\ Len(t[3].args) = 5 /\ t[3].args[1] = "token"
      /\ Sets(t, 4, "token", "minter", "staking") /\ Saves(t, n, "simple", SimpleNames)
  BY <1>2, <1>3, <1>4, <1>5, <1>8 DEF Deploys, Sets, Saves
<1>10. QED  BY <1>7, <1>8, <1>9 DEF t

(* The first transaction its contract does not accept.                      *)
LEMMA CompleteListed ==
  LET t == Scripts!CompleteSystem
  IN Deploys(t, 1, "priceFeed") /\ t[1].what = "PriceFeed" /\ Len(t[1].args) = 1
  BY DEF Deploys, Scripts!CompleteSystem, Scripts!CompleteUtilities, Scripts!CompleteFactory,
     Scripts!CompleteConfiguration, Scripts!Deploy, Scripts!Calls, Scripts!Wrong, Scripts!Save

LEMMA TestnetListed ==
  LET t == Scripts!Testnet2
  IN /\ t[1].op = "deploy" /\ (\A k \in 2..5 : t[k].op = "call") /\ t[6].op = "deploy"
     /\ t[7].op = "deploy" /\ t[7].what = "StakingManager" /\ Len(t[7].args) = 3
<1> DEFINE t == Scripts!Testnet2
           a == Scripts!Deploy("priceFeed", "API3PriceFeed", <<"deployer">>)
           b == Scripts!Deploy("token", "StakeBasketToken", <<"value", "value", "deployer">>)
           c == Scripts!Deploy("stakingManager", "StakingManager",
                               <<"token", "priceFeed", "deployer">>)
           d == Scripts!Deploy("stakeBasket", "StakeBasket",
                  <<"token", "stakingManager", "priceFeed", "deployer", "deployer", "deployer">>)
           e == Scripts!TestnetConfiguration
           names == [priceFeed |-> "priceFeed", token |-> "token",
                     stakingManager |-> "stakingManagerCorrect",
                     stakeBasket |-> "stakeBasket", basketStaking |-> "basketStaking"]
           f == Scripts!Save("testnet2", names)
           p == Between(a, 4, b)
           q == Then(p, c)
           r == Then(q, d)
           v == Then(r, e)
<1>1. IsList(a) /\ Len(a) = 1 /\ a[1].op = "deploy" /\ IsList(b) /\ Len(b) = 1 /\ b[1].op = "deploy"
  BY DEF IsList, Scripts!Deploy
<1>2. IsList(c) /\ Len(c) = 1 /\ IsList(d)
  BY DEF IsList, Scripts!Deploy
<1>3. c[1].op = "deploy" /\ c[1].what = "StakingManager" /\ Len(c[1].args) = 3
  BY DEF Scripts!Deploy
<1>4. IsList(e)
  BY DEF IsList, Scripts!TestnetConfiguration, Scripts!Deploy, Scripts!Set
<1>5. IsList(f)
  BY SaveListed
<1>6. t = Then(v, f)
  BY DEF Scripts!Testnet2, Scripts!TestnetBasket, Then, Between
<1> HIDE DEF a, b, c, d, e, f, t
<1>7. IsBetween(p, a, 4, b)  BY <1>1, CallsBetween
<1> HIDE DEF p
<1>8. /\ IsList(p) /\ Len(p) = 6 /\ p[1] = a[1] /\ p[6] = b[1]
      /\ \A k \in 2..5 : p[k].op = "call"
  BY <1>1, <1>7 DEF IsBetween
<1>9. IsThen(q, p, c)  BY <1>2, <1>8, Joined
<1> HIDE DEF q
<1>10. /\ IsList(q) /\ Len(q) = 7 /\ (\A k \in 1..6 : q[k] = p[k]) /\ q[7] = c[1]
  BY <1>2, <1>8, <1>9 DEF IsThen
<1>11. IsThen(r, q, d)  BY <1>2, <1>10, Joined
<1> HIDE DEF r
<1>12. IsList(r) /\ Len(r) \in Nat /\ Len(r) >= 7 /\ (\A k \in 1..7 : r[k] = q[k])
  BY <1>10, <1>11 DEF IsThen
<1>13. IsThen(v, r, e)  BY <1>4, <1>12, Joined
<1> HIDE DEF v
<1>14. IsList(v) /\ Len(v) \in Nat /\ Len(v) >= 7 /\ (\A k \in 1..7 : v[k] = r[k])
  BY <1>12, <1>13 DEF IsThen
<1>15. IsThen(Then(v, f), v, f)  BY <1>5, <1>14, Joined
<1>16. \A k \in 1..7 : t[k] = v[k]
  BY <1>6, <1>14, <1>15 DEF IsThen
<1>17. \A k \in 1..7 : t[k] = q[k]
  BY <1>12, <1>14, <1>16
<1>18. QED  BY <1>1, <1>3, <1>8, <1>10, <1>17 DEF t

(* What a script has set up once it is past a step: a field of a contract   *)
(* that holds the address of another.                                       *)
Wire(from, of, field, to) == [from |-> from, of |-> of, field |-> field, to |-> to]
Finishing == {"production", "mocks", "simple", "switchboard"}
WiresOf(s) ==
  CASE s = "production" -> {Wire(11, "dualStakingBasket", "token", "token"),
                            Wire(12, "token", "minter", "dualStakingBasket")}
    [] s = "mocks" -> {Wire(12, "stakeBasket", "token", "token"),
                       Wire(13, "token", "minter", "stakeBasket"),
                       Wire(14, "stakingManagerCorrect", "stakeBasket", "stakeBasket"),
                       Wire(15, "stakeBasket", "stakingManager", "stakingManagerCorrect")}
    [] s \in {"simple", "switchboard"} -> {Wire(3, "staking", "token", "token"),
                                           Wire(4, "token", "minter", "staking")}
    [] OTHER -> {}

(* One of the steps before k deploys a contract of that name.               *)
Has(t, k, name) == \E j \in 1 .. k - 1 : Deploys(t, j, name)

(* The constructor's argument for the field is the other contract, or the   *)
(* field is set to it.                                                      *)
Constructs(t, w) ==
  LET x      == t[w.from]
      fields == Scripts!Fields[x.what]
  IN /\ Deploys(t, w.from, w.of) /\ w.of # w.to
     /\ \E i \in DOMAIN fields : /\ fields[i] = w.field /\ x.args[i] = w.to
                                /\ \A j \in DOMAIN fields : fields[j] = w.field => j = i
Connects(t, w) == Sets(t, w.from, w.of, w.field, w.to) /\ Has(t, w.from, w.of)

(* No later step deploys one of the two anew or sets the field again.       *)
Stands(t, w) ==
  \A k \in w.from + 1 .. Len(t) :
    /\ t[k].op = "deploy" => t[k].of # w.of /\ t[k].of # w.to
    /\ t[k].op = "set" => t[k].of # w.of \/ t[k].what # w.field

Wired(t, w) ==
  /\ w.from \in 1 .. Len(t) - 1 /\ Has(t, w.from, w.to) /\ Stands(t, w)
  /\ Constructs(t, w) \/ Connects(t, w)

Planned(t) ==
  /\ Len(t) \in Nat
  /\ \A k \in 1..Len(t) :
       /\ t[k].op = "set" => Has(t, k, t[k].of)
       /\ t[k].op = "save" => /\ k = Len(t)
                              /\ \A n \in DOMAIN t[k].args : Has(t, k, t[k].args[n])

LEMMA ProductionPlanned ==
  LET t == Scripts!ProductionReady
  IN Planned(t) /\ \A w \in WiresOf("production") : Wired(t, w)
<1> DEFINE t == Scripts!ProductionReady
           names == [token |-> "token", core |-> "core", testBTC |-> "testBTC",
                     priceFeed |-> "priceFeed", dualStaking |-> "dualStaking",
                     stakeBasket |-> "stakeBasket", dualStakingBasket |-> "dualStakingBasket"]
           deployed == {"token", "core", "testBTC", "priceFeed", "dualStaking", "stakeBasket",
                        "dualStakingBasket"}
<1> HIDE DEF t
<1>1. \A k \in 1..13 : k \in 1..4 \/ k \in 5..8 \/ k \in 9..11 \/ k = 12 \/ k = 13
  OBVIOUS
<1>2. /\ Len(t) = 13
      /\ \A k \in 1..4 : t[k].op = "deploy" /\ t[k].of # "dualStakingBasket"
      /\ \A k \in 5..8 : t[k].op = "call"
      /\ \A k \in 9..11 : t[k].op = "deploy" /\ t[k].of # "token"
  BY ProductionListed DEF Deploys, t
<1>3. /\ Sets(t, 12, "token", "minter", "dualStakingBasket")
      /\ Saves(t, 13, "production", names)
  BY ProductionListed DEF t
<1>4. Has(t, 11, "token") /\ Has(t, 12, "token") /\ Has(t, 12, "dualStakingBasket")
  BY ProductionListed DEF Has, t
<1>5. \A n \in deployed : Has(t, 13, n)
  BY ProductionListed DEF Has, t
<1>6. DOMAIN names = deployed /\ \A n \in deployed : names[n] = n
  OBVIOUS
<1>7. Planned(t)
  <2>1. \A k \in 1..13 : /\ t[k].op = "set" => k = 12
                         /\ t[k].op = "save" => k = 13
    BY <1>1, <1>2, <1>3 DEF Sets, Saves
  <2>2. t[12].of = "token" /\ t[13].args = names  BY <1>3 DEF Sets, Saves
  <2>3. \A n \in DOMAIN t[13].args : Has(t, 13, t[13].args[n])
    BY <1>5, <1>6, <2>2
  <2>4. ASSUME NEW k \in 1..13, t[k].op = "set"  PROVE Has(t, k, t[k].of)
    <3>1. k = 12  BY <2>1, <2>4
    <3>2. Has(t, 12, t[12].of)  BY <1>4, <2>2
    <3>3. QED  BY <3>1, <3>2, Zenon
  <2>5. ASSUME NEW k \in 1..13, t[k].op = "save"
        PROVE  k = 13 /\ \A n \in DOMAIN t[k].args : Has(t, k, t[k].args[n])
    <3>1. k = 13  BY <2>1, <2>5
    <3>2. QED  BY <2>3, <3>1, Zenon
  <2>6. Len(t) \in Nat  BY <1>2
  <2>7. QED  BY <1>2, <2>4, <2>5, <2>6 DEF Planned
<1>8. Wired(t, Wire(11, "dualStakingBasket", "token", "token"))
  <2>1. Scripts!Fields["DualStakingBasket"] =
          <<"token", "priceFeed", "core", "btc", "dualStaking", "recipient", "tier", "owner">>
    BY DEF Scripts!Fields
  <2>2. Constructs(t, Wire(11, "dualStakingBasket", "token", "token"))
    BY <2>1, ProductionListed DEF Constructs, Wire, t
  <2>3. Stands(t, Wire(11, "dualStakingBasket", "token", "token"))
    BY <1>1, <1>2, <1>3 DEF Stands, Wire, Sets, Saves
  <2>4. QED  BY <1>2, <1>4, <2>2, <2>3 DEF Wired, Wire
<1>9. Wired(t, Wire(12, "token", "minter", "dualStakingBasket"))
  <2>1. Connects(t, Wire(12, "token", "minter", "dualStakingBasket"))
    BY <1>3, <1>4 DEF Connects, Wire
  <2>2. Stands(t, Wire(12, "token", "minter", "dualStakingBasket"))
    BY <1>1, <1>2, <1>3 DEF Stands, Wire, Sets, Saves
  <2>3. QED  BY <1>2, <1>4, <2>1, <2>2 DEF Wired, Wire
<1>10. QED  BY <1>7, <1>8, <1>9 DEF WiresOf, t

LEMMA MocksPlanned ==
  LET t == Scripts!WithMocks
  IN Planned(t) /\ \A w \in WiresOf("mocks") : Wired(t, w)
<1> DEFINE t == Scripts!WithMocks
           names == [core |-> "core", coreBTC |-> "coreBTC", coreStaking |-> "coreStaking",
                     lstBTC |-> "lstBTC", priceFeed |-> "priceFeed",
                     stakingManager |-> "stakingManagerCorrect", token |-> "token",
                     stakeBasket |-> "stakeBasket"]
           deployed == {"core", "coreBTC", "coreStaking", "lstBTC", "priceFeed", "token",
                        "stakeBasket", "stakingManagerCorrect"}
<1> HIDE DEF t
<1>1. \A k \in 1..33 : \/ k \in 1..5 \/ k \in 6..9 \/ k \in 10..12 \/ k = 13
                       \/ k = 14 \/ k = 15 \/ k \in 16..32 \/ k = 33
  OBVIOUS
<1>2. /\ Len(t) = 33
      /\ \A k \in 1..5 : t[k].op = "deploy"
      /\ \A k \in 6..9 : t[k].op = "call"
      /\ \A k \in 10..12 : t[k].op = "deploy"
      /\ Deploys(t, 14, "stakingManagerCorrect")
      /\ \A k \in 16..32 : t[k].op = "call"
  BY MocksListed DEF Deploys, t
<1>3. /\ Sets(t, 13, "token", "minter", "stakeBasket")
      /\ Sets(t, 15, "stakeBasket", "stakingManager", "stakingManagerCorrect")
      /\ Saves(t, 33, "info", names)
  BY MocksListed DEF t
<1>4. /\ Has(t, 12, "token") /\ Has(t, 13, "token") /\ Has(t, 13, "stakeBasket")
      /\ Has(t, 14, "stakeBasket") /\ Has(t, 15, "stakeBasket")
      /\ Has(t, 15, "stakingManagerCorrect")
  BY MocksListed DEF Has, t
<1>5. \A n \in deployed : Has(t, 33, n)
  BY MocksListed DEF Has, t
<1>6. \A n \in DOMAIN names : names[n] \in deployed
  OBVIOUS
<1>7. Planned(t)
  <2>1. \A k \in 1..33 : /\ t[k].op = "set" => k = 13 \/ k = 15
                         /\ t[k].op = "save" => k = 33
    BY <1>1, <1>2, <1>3 DEF Sets, Saves, Deploys
  <2>2. t[13].of = "token" /\ t[15].of = "stakeBasket" /\ t[33].args = names
    BY <1>3 DEF Sets, Saves
  <2>3. \A n \in DOMAIN t[33].args : Has(t, 33, t[33].args[n])
    BY <1>5, <1>6, <2>2
  <2>4. ASSUME NEW k \in 1..33, t[k].op = "set"  PROVE Has(t, k, t[k].of)
    <3>1. k = 13 \/ k = 15  BY <2>1, <2>4
    <3>2. Has(t, 13, t[13].of) /\ Has(t, 15, t[15].of)  BY <1>4, <2>2
    <3>3. QED  BY <3>1, <3>2, Zenon
  <2>5. ASSUME NEW k \in 1..33, t[k].op = "save"
        PROVE  k = 33 /\ \A n \in DOMAIN t[k].args : Has(t, k, t[k].args[n])
    <3>1. k = 33  BY <2>1, <2>5
    <3>2. QED  BY <2>3, <3>1, Zenon
  <2>6. Len(t) \in Nat  BY <1>2
  <2>7. QED  BY <1>2, <2>4, <2>5, <2>6 DEF Planned
<1>8. \A k \in 13..33 :
        /\ t[k].op = "deploy" => k = 14 /\ t[k].of = "stakingManagerCorrect"
        /\ t[k].op = "set" => \/ k = 13 /\ t[k].of = "token" /\ t[k].what = "minter"
                             \/ /\ k = 15 /\ t[k].of = "stakeBasket"
                                /\ t[k].what = "stakingManager"
  BY <1>1, <1>2, <1>3 DEF Sets, Saves, Deploys
<1>9. Wired(t, Wire(12, "stakeBasket", "token", "token"))
  <2>1. Scripts!Fields["StakeBasket"] =
          <<"token", "stakingManager", "priceFeed", "recipient", "treasury", "owner">>
    BY DEF Scripts!Fields
  <2>2. Constructs(t, Wire(12, "stakeBasket", "token", "token"))
    BY <2>1, MocksListed DEF Constructs, Wire, t
  <2>3. Stands(t, Wire(12, "stakeBasket", "token", "token"))
    BY <1>2, <1>8 DEF Stands, Wire
  <2>4. QED  BY <1>2, <1>4, <2>2, <2>3 DEF Wired, Wire
<1>10. Wired(t, Wire(13, "token", "minter", "stakeBasket"))
  <2>1. Connects(t, Wire(13, "token", "minter", "stakeBasket"))
    BY <1>3, <1>4 DEF Connects, Wire
  <2>2. Stands(t, Wire(13, "token", "minter", "stakeBasket"))
    BY <1>2, <1>8 DEF Stands, Wire
  <2>3. QED  BY <1>2, <1>4, <2>1, <2>2 DEF Wired, Wire
<1>11. Wired(t, Wire(14, "stakingManagerCorrect", "stakeBasket", "stakeBasket"))
  <2>1. Scripts!Fields["StakingManager"] =
          <<"stakeBasket", "coreStaking", "lstBTC", "btc", "core", "owner">>
    BY DEF Scripts!Fields
  <2>2. Constructs(t, Wire(14, "stakingManagerCorrect", "stakeBasket", "stakeBasket"))
    BY <2>1, MocksListed DEF Constructs, Wire, t
  <2>3. Stands(t, Wire(14, "stakingManagerCorrect", "stakeBasket", "stakeBasket"))
    BY <1>2, <1>8 DEF Stands, Wire
  <2>4. QED  BY <1>2, <1>4, <2>2, <2>3 DEF Wired, Wire
<1>12. Wired(t, Wire(15, "stakeBasket", "stakingManager", "stakingManagerCorrect"))
  <2>1. Connects(t, Wire(15, "stakeBasket", "stakingManager", "stakingManagerCorrect"))
    BY <1>3, <1>4 DEF Connects, Wire
  <2>2. Stands(t, Wire(15, "stakeBasket", "stakingManager", "stakingManagerCorrect"))
    BY <1>2, <1>8 DEF Stands, Wire
  <2>3. QED  BY <1>2, <1>4, <2>1, <2>2 DEF Wired, Wire
<1>13. QED  BY <1>7, <1>9, <1>10, <1>11, <1>12 DEF WiresOf, t

LEMMA SimplePlanned ==
  ASSUME NEW x \in {"zero", "value"}
  PROVE  LET t == Scripts!SimpleSystem(x)
         IN Planned(t) /\ \A w \in WiresOf("simple") : Wired(t, w)
<1> DEFINE t == Scripts!SimpleSystem(x)
           n == IF x = "zero" THEN 5 ELSE 7
           deployed == {"priceFeed", "token", "staking"}
<1>1. /\ Len(t) = n
      /\ Deploys(t, 1, "priceFeed") /\ Deploys(t, 2, "token") /\ Deploys(t, 3, "staking")
      /\ t[3].what = "SimpleStaking" /\ Len(t[3].args) = 5 /\ t[3].args[1] = "token"
      /\ Sets(t, 4, "token", "minter", "staking")
      /\ \A k \in 5 .. n - 1 : t[k].op = "call"
      /\ Saves(t, n, "simple", SimpleNames)
  BY SimpleListed
<1> HIDE DEF t
<1>2. n \in Nat /\ n >= 5  OBVIOUS
<1> HIDE DEF n
<1>3. Has(t, 3, "token") /\ Has(t, 4, "token") /\ Has(t, 4, "staking")
  BY <1>1 DEF Has
<1>4. \A m \in deployed : Has(t, n, m)
  BY <1>1, <1>2 DEF Has
<1>5. \A k \in 4..n :
        /\ t[k].op # "deploy"
        /\ t[k].op = "set" => k = 4
        /\ t[k].op = "save" => k = n
  <2>1. \A k \in 4..n : k = 4 \/ k \in 5 .. n - 1 \/ k = n  BY <1>2
  <2>2. QED  BY <1>1, <2>1 DEF Sets, Saves
<1>6. Planned(t)
  <2>1. \A k \in 1..n : /\ t[k].op = "set" => k = 4
                        /\ t[k].op = "save" => k = n
    <3>1. \A k \in 1..n : k = 1 \/ k = 2 \/ k = 3 \/ k \in 4..n  BY <1>2
    <3>2. QED  BY <1>1, <1>5, <3>1 DEF Deploys
  <2>2. t[4].of = "token" /\ t[n].args = SimpleNames  BY <1>1 DEF Sets, Saves
  <2>3. \A m \in DOMAIN SimpleNames : SimpleNames[m] \in deployed
    BY DEF SimpleNames
  <2>4. \A m \in DOMAIN t[n].args : Has(t, n, t[n].args[m])
    BY <1>4, <2>2, <2>3
  <2>5. ASSUME NEW k \in 1..n, t[k].op = "set"  PROVE Has(t, k, t[k].of)
    <3>1. k = 4  BY <2>1, <2>5
    <3>2. Has(t, 4, t[4].of)  BY <1>3, <2>2
    <3>3. QED  BY <3>1, <3>2, Zenon
  <2>6. ASSUME NEW k \in 1..n, t[k].op = "save"
        PROVE  k = n /\ \A m \in DOMAIN t[k].args : Has(t, k, t[k].args[m])
    <3>1. k = n  BY <2>1, <2>6
    <3>2. QED  BY <2>4, <3>1, Zenon
  <2>7. QED  BY <1>1, <1>2, <2>5, <2>6 DEF Planned
<1>7. Wired(t, Wire(3, "staking", "token", "token"))
  <2>1. Scripts!Fields["SimpleStaking"] = <<"token", "priceFeed", "btc", "router", "owner">>
    BY DEF Scripts!Fields
  <2>2. Constructs(t, Wire(3, "staking", "token", "token"))
    BY <1>1, <2>1 DEF Constructs, Wire
  <2>3. \A k \in 4..n : t[k].op = "set" => t[k].of = "token"
    BY <1>1, <1>5 DEF Sets
  <2>4. Stands(t, Wire(3, "staking", "token", "token"))
    BY <1>1, <1>5, <2>3 DEF Stands, Wire
  <2>5. QED  BY <1>1, <1>2, <1>3, <2>2, <2>4 DEF Wired, Wire
<1>8. Wired(t, Wire(4, "token", "minter", "staking"))
  <2>1. Connects(t, Wire(4, "token", "minter", "staking"))
    BY <1>1, <1>3 DEF Connects, Wire
  <2>2. \A k \in 5..n : t[k].op # "deploy" /\ t[k].op # "set"
    BY <1>1, <1>2, <1>5
  <2>3. Stands(t, Wire(4, "token", "minter", "staking"))
    BY <1>1, <2>2 DEF Stands, Wire
  <2>4. QED  BY <1>1, <1>2, <1>3, <2>1, <2>3 DEF Wired, Wire
<1>9. QED  BY <1>6, <1>7, <1>8 DEF WiresOf, t

(* The four that can finish do what their file says; of the two others, one *)
(* stops at its first step and one at its seventh.                          *)
LEMMA ScriptsPlanned ==
  /\ DOMAIN Scripts!Scripts = Finishing \cup {"complete", "testnet2"}
  /\ \A s \in Finishing :
       /\ Planned(Scripts!Scripts[s])
       /\ \A w \in WiresOf(s) : Wired(Scripts!Scripts[s], w)
  /\ WiresOf("complete") = {} /\ WiresOf("testnet2") = {}
<1>1. /\ Scripts!Scripts["production"] = Scripts!ProductionReady
      /\ Scripts!Scripts["mocks"] = Scripts!WithMocks
      /\ Scripts!Scripts["simple"] = Scripts!SimpleSystem("zero")
      /\ Scripts!Scripts["switchboard"] = Scripts!SimpleSystem("value")
      /\ DOMAIN Scripts!Scripts = {"complete", "production", "mocks", "testnet2", "simple",
                                   "switchboard"}
  BY DEF Scripts!Scripts
<1>2. WiresOf("switchboard") = WiresOf("simple") /\ WiresOf("complete") = {} /\ WiresOf("testnet2") = {}
  BY DEF WiresOf
<1>3. /\ Planned(Scripts!SimpleSystem("zero")) /\ Planned(Scripts!SimpleSystem("value"))
      /\ \A w \in WiresOf("simple") : /\ Wired(Scripts!SimpleSystem("zero"), w)
                                      /\ Wired(Scripts!SimpleSystem("value"), w)
  BY SimplePlanned
<1>4. /\ Planned(Scripts!ProductionReady) /\ Planned(Scripts!WithMocks)
      /\ \A w \in WiresOf("production") : Wired(Scripts!ProductionReady, w)
      /\ \A w \in WiresOf("mocks") : Wired(Scripts!WithMocks, w)
  BY ProductionPlanned, MocksPlanned
<1>5. \A s \in Finishing :
        /\ Planned(Scripts!Scripts[s])
        /\ \A w \in WiresOf(s) : Wired(Scripts!Scripts[s], w)
  BY <1>1, <1>2, <1>3, <1>4 DEF Finishing
<1>6. QED  BY <1>1, <1>2, <1>5 DEF Finishing

Plan == Scripts!Scripts[scriptScript]
Refused(t, k) ==
  t[k].op = "deploy" /\ Len(t[k].args) # Len(Scripts!Fields[t[k].what])

LEMMA OthersRefused ==
  /\ Refused(Scripts!Scripts["complete"], 1)
  /\ Refused(Scripts!Scripts["testnet2"], 7)
  /\ \A k \in 1..6 : Scripts!Scripts["testnet2"][k].op \in {"deploy", "call"}
<1>1. /\ Scripts!Scripts["complete"] = Scripts!CompleteSystem
      /\ Scripts!Scripts["testnet2"] = Scripts!Testnet2
  BY DEF Scripts!Scripts
<1>2. /\ Len(Scripts!Fields["PriceFeed"]) = 3 /\ Len(Scripts!Fields["StakingManager"]) = 6
  BY DEF Scripts!Fields
<1>3. Refused(Scripts!CompleteSystem, 1)
  BY <1>2, CompleteListed DEF Deploys, Refused
<1>4. Refused(Scripts!Testnet2, 7)
  BY <1>2, TestnetListed DEF Refused
<1>5. \A k \in 1..6 : Scripts!Testnet2[k].op \in {"deploy", "call"}
  <2>1. \A k \in 1..6 : k = 1 \/ k \in 2..5 \/ k = 6  OBVIOUS
  <2>2. QED  BY <2>1, TestnetListed
<1>6. QED  BY <1>1, <1>3, <1>4, <1>5

(* What a file promises of the contracts it names.                          *)
WiredFile(r, l) ==
  /\ "token" \in DOMAIN r =>
       \E b \in Scripts!Baskets \cap DOMAIN r :
         l[r["token"]]["minter"] = r[b] /\ l[r[b]]["token"] = r["token"]
  /\ "stakingManager" \in DOMAIN r =>
       /\ "stakeBasket" \in DOMAIN r
       /\ l[r["stakingManager"]]["stakeBasket"] = r["stakeBasket"]
       /\ l[r["stakeBasket"]]["stakingManager"] = r["stakingManager"]

LEMMA StaysWired ==
  ASSUME NEW r, NEW l, NEW m, WiredFile(r, l), \A n \in DOMAIN r : m[r[n]] = l[r[n]]
  PROVE  WiredFile(r, m)
  BY DEF WiredFile

(* A wire that is there, between two contracts the process knows.           *)
Points(w) ==
  /\ w.of \in DOMAIN scriptAt /\ w.to \in DOMAIN scriptAt
  /\ w.field \in DOMAIN scriptLinks[scriptAt[w.of]]
  /\ scriptLinks[scriptAt[w.of]][w.field] = scriptAt[w.to]

ScriptsTyped ==
  /\ scriptScript \in DOMAIN Scripts!Scripts \cup {"none"}
  /\ scriptStep \in Nat \ {0} /\ scriptNext \in Nat
  /\ scriptScript = "complete" => scriptStep <= 1
  /\ scriptScript = "testnet2" => scriptStep <= 7
Addressed ==
  /\ \A a \in DOMAIN scriptLinks : a \in Nat /\ a < scriptNext
  /\ \A n \in DOMAIN scriptAt : scriptAt[n] \in DOMAIN scriptLinks
  /\ \A m, n \in DOMAIN scriptAt : scriptAt[m] = scriptAt[n] => m = n
  /\ \A f \in DOMAIN scriptFiles :
       \A n \in DOMAIN scriptFiles[f] : scriptFiles[f][n] \in DOMAIN scriptLinks
Unsaved ==
  scriptScript # "none" /\ scriptStep <= Len(Plan) =>
    \A f \in DOMAIN scriptFiles :
      \A n \in DOMAIN scriptFiles[f] :
        \A m \in DOMAIN scriptAt : scriptFiles[f][n] # scriptAt[m]
Followed ==
  scriptScript # "none" =>
    /\ \A n : Has(Plan, scriptStep, n) => n \in DOMAIN scriptAt
    /\ \A w \in WiresOf(scriptScript) : w.from < scriptStep => Points(w)
AllWired == \A f \in DOMAIN scriptFiles : WiredFile(scriptFiles[f], scriptLinks)
ScriptsInv == ScriptsTyped /\ Addressed /\ Unsaved /\ Followed /\ AllWired

LEMMA ScriptsBegin == Scripts!DeploymentInit => ScriptsInv
<1>1. SUFFICES ASSUME Scripts!DeploymentInit PROVE ScriptsInv
  OBVIOUS
<1>2. /\ scriptScript = "none" /\ scriptStep = 1 /\ scriptNext = 10
      /\ DOMAIN scriptAt = {} /\ DOMAIN scriptLinks = {}
      /\ \A f \in DOMAIN scriptFiles : DOMAIN scriptFiles[f] = {}
  BY <1>1 DEF Scripts!DeploymentInit, Scripts!FirstAddress
<1>3. ScriptsTyped /\ Addressed
  BY <1>2, "none" # "complete" /\ "none" # "testnet2" DEF ScriptsTyped, Addressed
<1>4. Unsaved /\ Followed
  BY <1>2 DEF Unsaved, Followed
<1>5. AllWired
  BY <1>2 DEF AllWired, WiredFile
<1>6. QED  BY <1>3, <1>4, <1>5 DEF ScriptsInv

LEMMA ScriptsShow == ScriptsInv => Scripts!SavedIsWired
  BY DEF ScriptsInv, AllWired, WiredFile, Scripts!SavedIsWired, Scripts!Names, Scripts!Link

LEMMA ScriptStarts ==
  ASSUME ScriptsInv, NEW s \in DOMAIN Scripts!Scripts, Scripts!Start(s)
  PROVE  ScriptsInv'
<1>1. /\ scriptScript' = s /\ scriptStep' = 1 /\ DOMAIN scriptAt' = {}
      /\ scriptLinks' = scriptLinks /\ scriptFiles' = scriptFiles /\ scriptNext' = scriptNext
  BY DEF Scripts!Start
<1>2. ScriptsTyped' /\ Addressed' /\ Unsaved' /\ AllWired'
  BY <1>1 DEF ScriptsInv, ScriptsTyped, Addressed, Unsaved, AllWired
<1>3. Followed'
  <2>1. \A w \in WiresOf(s) : w.from \in Nat /\ w.from >= 1
    BY DEF WiresOf, Wire
  <2>2. \A w \in WiresOf(s) : ~(w.from < 1)
    BY <2>1
  <2>3. \A n : ~Has(Scripts!Scripts[s], 1, n)
    BY DEF Has
  <2>4. QED  BY <1>1, <2>2, <2>3 DEF Followed, Plan
<1>4. QED  BY <1>2, <1>3 DEF ScriptsInv

LEMMA ScriptStops ==
  ASSUME ScriptsInv, Scripts!Stops
  PROVE  ScriptsInv'
<1>1. /\ scriptScript' = "none" /\ scriptStep' = 1 /\ DOMAIN scriptAt' = {}
      /\ scriptLinks' = scriptLinks /\ scriptFiles' = scriptFiles /\ scriptNext' = scriptNext
  BY DEF Scripts!Stops
<1>2. QED
  BY <1>1, "none" # "complete" /\ "none" # "testnet2"
  DEF ScriptsInv, ScriptsTyped, Addressed, Unsaved, Followed, AllWired

(* Only a script that can finish comes to a call that sets a field or to    *)
(* its file, and none goes past a constructor that refuses.                 *)
LEMMA ScriptRuns ==
  ASSUME ScriptsInv, scriptScript # "none"
  PROVE  /\ Plan[scriptStep].op \in {"set", "save"} => scriptScript \in Finishing
         /\ ~Refused(Plan, scriptStep) =>
              /\ scriptScript # "complete"
              /\ scriptScript = "testnet2" => scriptStep < 7
<1>1. ScriptsTyped  BY DEF ScriptsInv
<1>2. CASE scriptScript \in Finishing
  BY <1>2 DEF Finishing
<1>3. CASE scriptScript = "complete"
  <2>1. scriptStep = 1  BY <1>1, <1>3 DEF ScriptsTyped
  <2>2. Refused(Plan, scriptStep)  BY <1>3, <2>1, OthersRefused DEF Plan
  <2>3. QED  BY <1>3, <2>2 DEF Refused
<1>4. CASE scriptScript = "testnet2"
  <2>1. scriptStep \in 1..6 \/ scriptStep = 7  BY <1>1, <1>4 DEF ScriptsTyped
  <2>2. CASE scriptStep = 7
    <3>1. Refused(Plan, scriptStep)  BY <1>4, <2>2, OthersRefused DEF Plan
    <3>2. QED  BY <1>4, <3>1 DEF Refused
  <2>3. CASE scriptStep \in 1..6
    <3>1. Plan[scriptStep].op \in {"deploy", "call"}  BY <1>4, <2>3, OthersRefused DEF Plan
    <3>2. QED  BY <1>4, <2>3, <3>1
  <2>4. QED  BY <2>1, <2>2, <2>3
<1>5. QED  BY <1>1, <1>2, <1>3, <1>4, ScriptsPlanned DEF ScriptsTyped

(* What holds of the next step whatever it is: it is one of the plan's, and *)
(* a wire that stood before it is one the step may not touch.               *)
LEMMA WiresStand ==
  ASSUME ScriptsInv, scriptScript # "none", scriptStep <= Len(Plan),
         NEW w \in WiresOf(scriptScript)
  PROVE  /\ Wired(Plan, w) /\ w.from \in Nat
         /\ w.from < scriptStep =>
              /\ Points(w)
              /\ Plan[scriptStep].op = "deploy" =>
                   Plan[scriptStep].of # w.of /\ Plan[scriptStep].of # w.to
              /\ Plan[scriptStep].op = "set" =>
                   Plan[scriptStep].of # w.of \/ Plan[scriptStep].what # w.field
<1>1. scriptScript \in Finishing
  BY ScriptsPlanned DEF ScriptsInv, ScriptsTyped
<1>2. Wired(Plan, w) /\ Len(Plan) \in Nat
  BY <1>1, ScriptsPlanned DEF Plan, Planned
<1>3. scriptStep \in Nat  BY DEF ScriptsInv, ScriptsTyped
<1>4. w.from \in Nat  BY <1>2 DEF Wired
<1>5. ASSUME w.from < scriptStep PROVE scriptStep \in w.from + 1 .. Len(Plan)
  BY <1>2, <1>3, <1>4, <1>5
<1>6. w.from < scriptStep => Points(w)
  BY DEF ScriptsInv, Followed
<1>7. QED  BY <1>2, <1>4, <1>5, <1>6 DEF Wired, Stands

LEMMA StepTaken ==
  ASSUME ScriptsInv, scriptScript # "none", ~Refused(Plan, scriptStep),
         scriptScript' = scriptScript, scriptStep' = scriptStep + 1, scriptNext' \in Nat
  PROVE  /\ ScriptsTyped'
         /\ \A n : Has(Plan', scriptStep', n) =>
              Has(Plan, scriptStep, n) \/ Deploys(Plan, scriptStep, n)
<1>1. ScriptsTyped  BY DEF ScriptsInv
<1>2. Plan' = Plan  BY DEF Plan
<1>3. scriptStep \in Nat /\ scriptStep >= 1  BY <1>1 DEF ScriptsTyped
<1>4. \A j \in 1 .. scriptStep' - 1 : j \in 1 .. scriptStep - 1 \/ j = scriptStep
  BY <1>3
<1>5. \A n : Has(Plan', scriptStep', n) =>
        Has(Plan, scriptStep, n) \/ Deploys(Plan, scriptStep, n)
  BY <1>2, <1>4 DEF Has
<1>6. scriptScript # "complete" /\ (scriptScript = "testnet2" => scriptStep < 7)
  BY ScriptRuns
<1>7. QED  BY <1>1, <1>3, <1>5, <1>6 DEF ScriptsTyped

LEMMA ScriptSends ==
  ASSUME ScriptsInv, Scripts!Sent
  PROVE  ScriptsInv'
<1>1. /\ scriptScript # "none" /\ scriptStep <= Len(Plan) /\ Plan[scriptStep].op = "call"
      /\ scriptScript' = scriptScript /\ scriptStep' = scriptStep + 1
      /\ scriptAt' = scriptAt /\ scriptLinks' = scriptLinks /\ scriptFiles' = scriptFiles
      /\ scriptNext' = scriptNext
  BY DEF Scripts!Sent, Scripts!Running, Scripts!Done, Plan
<1>2. Plan' = Plan  BY <1>1 DEF Plan
<1>3. Addressed' /\ AllWired'  BY <1>1 DEF ScriptsInv, Addressed, AllWired
<1>4. Unsaved'  BY <1>1, <1>2 DEF ScriptsInv, Unsaved
<1>5. /\ ScriptsTyped'
      /\ \A n : Has(Plan', scriptStep', n) =>
           Has(Plan, scriptStep, n) \/ Deploys(Plan, scriptStep, n)
  BY <1>1, StepTaken DEF ScriptsInv, ScriptsTyped, Refused
<1>6. Followed'
  <2>1. ASSUME NEW n, Has(Plan', scriptStep', n) PROVE n \in DOMAIN scriptAt'
    <3>1. Has(Plan, scriptStep, n)  BY <1>1, <1>5, <2>1 DEF Deploys
    <3>2. QED  BY <1>1, <3>1 DEF ScriptsInv, Followed
  <2>2. ASSUME NEW w \in WiresOf(scriptScript), w.from < scriptStep' PROVE Points(w)'
    <3>1. Wired(Plan, w) /\ w.from \in Nat  BY <1>1, WiresStand
    <3>2. w.from # scriptStep
      BY <1>1, <3>1 DEF Wired, Constructs, Connects, Deploys, Sets
    <3>3. w.from < scriptStep
      BY <1>1, <2>2, <3>1, <3>2 DEF ScriptsInv, ScriptsTyped
    <3>4. Points(w)  BY <1>1, <3>3, WiresStand
    <3>5. QED  BY <1>1, <3>4 DEF Points
  <2>3. QED  BY <1>1, <2>1, <2>2 DEF Followed
<1>7. QED  BY <1>3, <1>4, <1>5, <1>6 DEF ScriptsInv

LEMMA ScriptDeploys ==
  ASSUME ScriptsInv, Scripts!Deployed
  PROVE  ScriptsInv'
<1> DEFINE x      == Plan[scriptStep]
           fields == Scripts!Fields[x.what]
           given  == [f \in Scripts!ToSet(fields) |->
                        Scripts!Address(x.args[CHOOSE i \in DOMAIN fields : fields[i] = f])]
<1>1. /\ scriptScript # "none" /\ scriptStep <= Len(Plan) /\ x.op = "deploy"
      /\ ~Refused(Plan, scriptStep)
      /\ scriptScript' = scriptScript /\ scriptStep' = scriptStep + 1
      /\ scriptAt' = Scripts!With(scriptAt, x.of, scriptNext)
      /\ scriptLinks' = Scripts!With(scriptLinks, scriptNext, given)
      /\ scriptNext' = scriptNext + 1 /\ scriptFiles' = scriptFiles
  BY DEF Scripts!Deployed, Scripts!Running, Scripts!Done, Scripts!Now, Plan, Refused
<1>2. Plan' = Plan  BY <1>1 DEF Plan
<1>3. /\ DOMAIN scriptAt' = DOMAIN scriptAt \cup {x.of} /\ scriptAt'[x.of] = scriptNext
      /\ \A n \in DOMAIN scriptAt : n # x.of => scriptAt'[n] = scriptAt[n]
      /\ DOMAIN scriptLinks' = DOMAIN scriptLinks \cup {scriptNext}
      /\ scriptLinks'[scriptNext] = given
      /\ \A a \in DOMAIN scriptLinks : a # scriptNext => scriptLinks'[a] = scriptLinks[a]
  <2> HIDE DEF given, x
  <2>1. QED  BY <1>1 DEF Scripts!With
<1>4. given = [f \in Scripts!ToSet(fields) |->
                 Scripts!Address(x.args[CHOOSE i \in DOMAIN fields : fields[i] = f])]
  OBVIOUS
<1> HIDE DEF given, x
<1>5. scriptNext \in Nat /\ scriptStep \in Nat
  BY DEF ScriptsInv, ScriptsTyped
<1>6. \A a \in DOMAIN scriptLinks : a \in Nat /\ a < scriptNext /\ a # scriptNext
  BY <1>5 DEF ScriptsInv, Addressed
<1>7. \A a \in DOMAIN scriptLinks : scriptLinks'[a] = scriptLinks[a]
  BY <1>3, <1>6
<1>8. Addressed  BY DEF ScriptsInv
<1>9. Addressed'
  <2>1. \A a \in DOMAIN scriptLinks' : a \in Nat /\ a < scriptNext'
    BY <1>1, <1>3, <1>5, <1>6
  <2>2. \A n \in DOMAIN scriptAt' : scriptAt'[n] \in DOMAIN scriptLinks'
    BY <1>3, <1>8 DEF Addressed
  <2>3. ASSUME NEW m \in DOMAIN scriptAt', NEW n \in DOMAIN scriptAt', scriptAt'[m] = scriptAt'[n]
        PROVE  m = n
    <3>1. \A k \in DOMAIN scriptAt : scriptAt[k] # scriptNext  BY <1>6, <1>8 DEF Addressed
    <3>2. QED  BY <1>3, <1>8, <2>3, <3>1 DEF Addressed
  <2>4. \A f \in DOMAIN scriptFiles :
          \A n \in DOMAIN scriptFiles[f] : scriptFiles[f][n] \in DOMAIN scriptLinks'
    BY <1>3, <1>8 DEF Addressed
  <2>5. QED  BY <1>1, <2>1, <2>2, <2>3, <2>4 DEF Addressed
<1>10. AllWired'
  <2>1. ASSUME NEW f \in DOMAIN scriptFiles PROVE WiredFile(scriptFiles[f], scriptLinks')
    <3>1. \A n \in DOMAIN scriptFiles[f] :
            scriptLinks'[scriptFiles[f][n]] = scriptLinks[scriptFiles[f][n]]
      BY <1>7, <1>8 DEF Addressed
    <3>2. WiredFile(scriptFiles[f], scriptLinks)  BY DEF ScriptsInv, AllWired
    <3>3. QED  BY <3>1, <3>2, StaysWired
  <2>2. QED  BY <1>1, <2>1 DEF AllWired
<1>11. Unsaved'
  <2>1. \A f \in DOMAIN scriptFiles : \A n \in DOMAIN scriptFiles[f] :
          \A m \in DOMAIN scriptAt : scriptFiles[f][n] # scriptAt[m]
    BY <1>1 DEF ScriptsInv, Unsaved
  <2>2. \A f \in DOMAIN scriptFiles : \A n \in DOMAIN scriptFiles[f] :
          scriptFiles[f][n] # scriptNext
    BY <1>6, <1>8 DEF Addressed
  <2>3. \A f \in DOMAIN scriptFiles : \A n \in DOMAIN scriptFiles[f] :
          \A m \in DOMAIN scriptAt' : scriptFiles[f][n] # scriptAt'[m]
    BY <1>3, <2>1, <2>2
  <2>4. QED  BY <1>1, <2>3 DEF Unsaved
<1>12. /\ ScriptsTyped'
       /\ \A n : Has(Plan', scriptStep', n) =>
            Has(Plan, scriptStep, n) \/ Deploys(Plan, scriptStep, n)
  BY <1>1, <1>5, StepTaken
<1>13. Followed'
  <2>1. ASSUME NEW n, Has(Plan', scriptStep', n) PROVE n \in DOMAIN scriptAt'
    <3>1. Has(Plan, scriptStep, n) => n \in DOMAIN scriptAt
      BY <1>1 DEF ScriptsInv, Followed
    <3>2. QED  BY <1>3, <1>12, <2>1, <3>1 DEF Deploys, x
  <2>2. ASSUME NEW w \in WiresOf(scriptScript), w.from < scriptStep' PROVE Points(w)'
    <3>1. Wired(Plan, w) /\ w.from \in Nat  BY <1>1, WiresStand
    <3>2. w.from < scriptStep \/ w.from = scriptStep
      BY <1>1, <1>5, <2>2, <3>1
    <3>3. CASE w.from < scriptStep
      <4>1. Points(w) /\ x.of # w.of /\ x.of # w.to
        BY <1>1, <3>3, WiresStand DEF x
      <4>2. scriptAt'[w.of] = scriptAt[w.of] /\ scriptAt'[w.to] = scriptAt[w.to]
        BY <1>3, <4>1 DEF Points
      <4>3. scriptLinks'[scriptAt[w.of]] = scriptLinks[scriptAt[w.of]]
        BY <1>7, <1>8, <4>1 DEF Points, Addressed
      <4>4. QED  BY <1>3, <4>1, <4>2, <4>3 DEF Points
    <3>4. CASE w.from = scriptStep
      <4>1. Constructs(Plan, w)
        BY <1>1, <3>1, <3>4 DEF Wired, Connects, Sets, x
      <4>2. x.of = w.of /\ w.of # w.to
        BY <3>4, <4>1 DEF Constructs, Deploys, x
      <4>3. PICK i \in DOMAIN fields :
              /\ fields[i] = w.field /\ x.args[i] = w.to
              /\ \A j \in DOMAIN fields : fields[j] = w.field => j = i
        BY <3>4, <4>1 DEF Constructs, x
      <4>4. (CHOOSE j \in DOMAIN fields : fields[j] = w.field) = i
        BY <4>3
      <4>5. w.to \in DOMAIN scriptAt
        BY <1>1, <3>1, <3>4 DEF Wired, ScriptsInv, Followed
      <4>6. w.field \in Scripts!ToSet(fields)
        BY <4>3 DEF Scripts!ToSet
      <4>7. w.field \in DOMAIN given /\ given[w.field] = scriptAt[w.to]
        BY <1>4, <4>3, <4>4, <4>5, <4>6 DEF Scripts!Address
      <4>8. scriptAt'[w.to] = scriptAt[w.to]
        BY <1>3, <4>2, <4>5
      <4>9. QED  BY <1>3, <4>2, <4>5, <4>7, <4>8 DEF Points
    <3>5. QED  BY <3>2, <3>3, <3>4
  <2>3. QED  BY <1>1, <2>1, <2>2 DEF Followed
<1>14. QED  BY <1>9, <1>10, <1>11, <1>12, <1>13 DEF ScriptsInv

LEMMA ScriptCalls ==
  ASSUME ScriptsInv, Scripts!Called
  PROVE  ScriptsInv'
<1> DEFINE x  == Plan[scriptStep]
           on == scriptAt[x.of]
           to == Scripts!Address(x.args[1])
<1>1. /\ scriptScript # "none" /\ scriptStep <= Len(Plan) /\ x.op = "set"
      /\ scriptScript' = scriptScript /\ scriptStep' = scriptStep + 1
      /\ scriptLinks' = [scriptLinks EXCEPT ![on] = Scripts!With(@, x.what, to)]
      /\ scriptAt' = scriptAt /\ scriptNext' = scriptNext /\ scriptFiles' = scriptFiles
  BY DEF Scripts!Called, Scripts!Running, Scripts!Done, Scripts!Now, Plan
<1>2. Plan' = Plan  BY <1>1 DEF Plan
<1>3. scriptNext \in Nat /\ scriptStep \in Nat
  BY DEF ScriptsInv, ScriptsTyped
<1>4. Addressed  BY DEF ScriptsInv
<1>5. x.of \in DOMAIN scriptAt /\ on \in DOMAIN scriptLinks
  <2>1. scriptScript \in Finishing  BY <1>1, ScriptRuns
  <2>2. Planned(Plan)  BY <2>1, ScriptsPlanned DEF Plan
  <2>3. scriptStep \in 1 .. Len(Plan)
    BY <1>1, <1>3, <2>2 DEF Planned, ScriptsInv, ScriptsTyped
  <2>4. Has(Plan, scriptStep, x.of)  BY <1>1, <2>2, <2>3 DEF Planned
  <2>5. QED  BY <1>1, <1>4, <2>4 DEF ScriptsInv, Followed, Addressed
<1>6. /\ DOMAIN scriptLinks' = DOMAIN scriptLinks
      /\ \A a \in DOMAIN scriptLinks : a # on => scriptLinks'[a] = scriptLinks[a]
      /\ scriptLinks'[on] = Scripts!With(scriptLinks[on], x.what, to)
  <2> HIDE DEF on, x, to
  <2>1. QED  BY <1>1, <1>5
<1>7. /\ DOMAIN scriptLinks'[on] = DOMAIN scriptLinks[on] \cup {x.what}
      /\ scriptLinks'[on][x.what] = to
      /\ \A y \in DOMAIN scriptLinks[on] : y # x.what =>
           scriptLinks'[on][y] = scriptLinks[on][y]
  <2> HIDE DEF on, x, to
  <2>1. QED  BY <1>6 DEF Scripts!With
<1>8. to = Scripts!Address(x.args[1]) /\ on = scriptAt[x.of]  OBVIOUS
<1> HIDE DEF x, on, to
<1>9. Addressed'  BY <1>1, <1>4, <1>6 DEF Addressed
<1>10. \A f \in DOMAIN scriptFiles : \A n \in DOMAIN scriptFiles[f] :
         \A m \in DOMAIN scriptAt : scriptFiles[f][n] # scriptAt[m]
  BY <1>1 DEF ScriptsInv, Unsaved
<1>11. Unsaved'  BY <1>1, <1>10 DEF Unsaved
<1>12. AllWired'
  <2>1. ASSUME NEW f \in DOMAIN scriptFiles PROVE WiredFile(scriptFiles[f], scriptLinks')
    <3>1. \A n \in DOMAIN scriptFiles[f] :
            scriptLinks'[scriptFiles[f][n]] = scriptLinks[scriptFiles[f][n]]
      BY <1>4, <1>5, <1>6, <1>8, <1>10 DEF Addressed
    <3>2. WiredFile(scriptFiles[f], scriptLinks)  BY DEF ScriptsInv, AllWired
    <3>3. QED  BY <3>1, <3>2, StaysWired
  <2>2. QED  BY <1>1, <2>1 DEF AllWired
<1>13. /\ ScriptsTyped'
       /\ \A n : Has(Plan', scriptStep', n) =>
            Has(Plan, scriptStep, n) \/ Deploys(Plan, scriptStep, n)
  <2>1. ~Refused(Plan, scriptStep)  BY <1>1 DEF Refused, x
  <2>2. QED  BY <1>1, <1>3, <2>1, StepTaken
<1>14. Followed'
  <2>1. ASSUME NEW n, Has(Plan', scriptStep', n) PROVE n \in DOMAIN scriptAt'
    <3>1. Has(Plan, scriptStep, n)  BY <1>1, <1>13, <2>1 DEF Deploys, x
    <3>2. QED  BY <1>1, <3>1 DEF ScriptsInv, Followed
  <2>2. ASSUME NEW w \in WiresOf(scriptScript), w.from < scriptStep' PROVE Points(w)'
    <3>1. Wired(Plan, w) /\ w.from \in Nat  BY <1>1, WiresStand
    <3>2. w.from < scriptStep \/ w.from = scriptStep
      BY <1>1, <1>3, <2>2, <3>1
    <3>3. CASE w.from < scriptStep
      <4>1. Points(w) /\ (x.of # w.of \/ x.what # w.field)
        BY <1>1, <3>3, WiresStand DEF x
      <4>2. CASE x.of # w.of
        <5>1. scriptAt[w.of] # on  BY <1>4, <1>5, <1>8, <4>1, <4>2 DEF Addressed, Points
        <5>2. scriptAt[w.of] \in DOMAIN scriptLinks  BY <1>4, <4>1 DEF Addressed, Points
        <5>3. scriptLinks'[scriptAt[w.of]] = scriptLinks[scriptAt[w.of]]
          BY <1>6, <5>1, <5>2
        <5>4. QED  BY <1>1, <4>1, <5>3 DEF Points
      <4>3. CASE x.of = w.of
        <5>1. x.what # w.field /\ on = scriptAt[w.of]  BY <1>8, <4>1, <4>3
        <5>2. QED  BY <1>1, <1>7, <4>1, <5>1 DEF Points
      <4>4. QED  BY <4>2, <4>3
    <3>4. CASE w.from = scriptStep
      <4>1. Connects(Plan, w)
        BY <1>1, <3>1, <3>4 DEF Wired, Constructs, Deploys, x
      <4>2. x.of = w.of /\ x.what = w.field /\ x.args = <<w.to>>
        BY <3>4, <4>1 DEF Connects, Sets, x
      <4>3. w.to \in DOMAIN scriptAt
        BY <1>1, <3>1, <3>4 DEF Wired, ScriptsInv, Followed
      <4>4. to = scriptAt[w.to]
        BY <1>8, <4>2, <4>3 DEF Scripts!Address
      <4>5. QED  BY <1>1, <1>5, <1>7, <1>8, <4>2, <4>3, <4>4 DEF Points
    <3>5. QED  BY <3>2, <3>3, <3>4
  <2>3. QED  BY <1>1, <2>1, <2>2 DEF Followed
<1>15. QED  BY <1>9, <1>11, <1>12, <1>13, <1>14 DEF ScriptsInv

(* The file of a script whose wires all stand.                              *)
LEMMA FileIsWired ==
  ASSUME NEW names, NEW r, r = [n \in DOMAIN names |-> scriptAt[names[n]]],
         scriptScript \in Finishing, names = Plan[Len(Plan)].args,
         \A w \in WiresOf(scriptScript) : Points(w)
  PROVE  WiredFile(r, scriptLinks)
<1>1. \A n \in DOMAIN names : r[n] = scriptAt[names[n]]  OBVIOUS
<1>2. CASE scriptScript = "production"
  <2>1. names = [token |-> "token", core |-> "core", testBTC |-> "testBTC",
                 priceFeed |-> "priceFeed", dualStaking |-> "dualStaking",
                 stakeBasket |-> "stakeBasket", dualStakingBasket |-> "dualStakingBasket"]
    <3>1. Plan = Scripts!ProductionReady  BY <1>2 DEF Plan, Scripts!Scripts
    <3>2. QED  BY <3>1, ProductionListed DEF Saves
  <2>2. /\ Points(Wire(11, "dualStakingBasket", "token", "token"))
        /\ Points(Wire(12, "token", "minter", "dualStakingBasket"))
    BY <1>2 DEF WiresOf
  <2>3. /\ DOMAIN names = {"token", "core", "testBTC", "priceFeed", "dualStaking",
                           "stakeBasket", "dualStakingBasket"}
        /\ names["token"] = "token" /\ names["dualStakingBasket"] = "dualStakingBasket"
    BY <2>1
  <2>4. r["token"] = scriptAt["token"] /\ r["dualStakingBasket"] = scriptAt["dualStakingBasket"]
    BY <1>1, <2>3
  <2>5. DOMAIN r = DOMAIN names  OBVIOUS
  <2>6. QED  BY <2>2, <2>3, <2>4, <2>5 DEF WiredFile, Points, Wire, Scripts!Baskets
<1>3. CASE scriptScript = "mocks"
  <2>1. names = [core |-> "core", coreBTC |-> "coreBTC", coreStaking |-> "coreStaking",
                 lstBTC |-> "lstBTC", priceFeed |-> "priceFeed",
                 stakingManager |-> "stakingManagerCorrect", token |-> "token",
                 stakeBasket |-> "stakeBasket"]
    <3>1. Plan = Scripts!WithMocks  BY <1>3 DEF Plan, Scripts!Scripts
    <3>2. QED  BY <3>1, MocksListed DEF Saves
  <2>2. /\ Points(Wire(12, "stakeBasket", "token", "token"))
        /\ Points(Wire(13, "token", "minter", "stakeBasket"))
        /\ Points(Wire(14, "stakingManagerCorrect", "stakeBasket", "stakeBasket"))
        /\ Points(Wire(15, "stakeBasket", "stakingManager", "stakingManagerCorrect"))
    BY <1>3 DEF WiresOf
  <2>3. /\ DOMAIN names = {"core", "coreBTC", "coreStaking", "lstBTC", "priceFeed",
                           "stakingManager", "token", "stakeBasket"}
        /\ names["token"] = "token" /\ names["stakeBasket"] = "stakeBasket"
        /\ names["stakingManager"] = "stakingManagerCorrect"
    BY <2>1
  <2>4. /\ r["token"] = scriptAt["token"] /\ r["stakeBasket"] = scriptAt["stakeBasket"]
        /\ r["stakingManager"] = scriptAt["stakingManagerCorrect"]
    BY <1>1, <2>3
  <2>5. DOMAIN r = DOMAIN names  OBVIOUS
  <2>6. QED  BY <2>2, <2>3, <2>4, <2>5 DEF WiredFile, Points, Wire, Scripts!Baskets
<1>4. CASE scriptScript \in {"simple", "switchboard"}
  <2>1. names = SimpleNames
    <3>1. Plan = Scripts!SimpleSystem("zero") \/ Plan = Scripts!SimpleSystem("value")
      BY <1>4 DEF Plan, Scripts!Scripts
    <3>2. QED  BY <3>1, SimpleListed DEF Saves
  <2>2. Points(Wire(3, "staking", "token", "token")) /\ Points(Wire(4, "token", "minter", "staking"))
    BY <1>4 DEF WiresOf
  <2>3. /\ DOMAIN names = {"priceFeed", "token", "staking"}
        /\ names["token"] = "token" /\ names["staking"] = "staking"
    BY <2>1 DEF SimpleNames
  <2>4. r["token"] = scriptAt["token"] /\ r["staking"] = scriptAt["staking"]
    BY <1>1, <2>3
  <2>5. DOMAIN r = DOMAIN names  OBVIOUS
  <2>6. QED  BY <2>2, <2>3, <2>4, <2>5 DEF WiredFile, Points, Wire, Scripts!Baskets
<1>5. QED  BY <1>2, <1>3, <1>4 DEF Finishing

LEMMA ScriptSaves ==
  ASSUME ScriptsInv, Scripts!Saved
  PROVE  ScriptsInv'
<1> DEFINE x == Plan[scriptStep]
           r == [n \in DOMAIN x.args |-> scriptAt[x.args[n]]]
<1>1. /\ scriptScript # "none" /\ scriptStep <= Len(Plan) /\ x.op = "save"
      /\ scriptScript' = scriptScript /\ scriptStep' = scriptStep + 1
      /\ scriptFiles' = [scriptFiles EXCEPT ![x.of] = r]
      /\ scriptAt' = scriptAt /\ scriptNext' = scriptNext /\ scriptLinks' = scriptLinks
  BY DEF Scripts!Saved, Scripts!Running, Scripts!Done, Scripts!Now, Plan
<1>2. Plan' = Plan  BY <1>1 DEF Plan
<1>3. scriptNext \in Nat /\ scriptStep \in Nat /\ scriptStep >= 1
  BY DEF ScriptsInv, ScriptsTyped
<1>4. scriptScript \in Finishing /\ Planned(Plan)
  <2>1. scriptScript \in Finishing  BY <1>1, ScriptRuns
  <2>2. QED  BY <2>1, ScriptsPlanned DEF Plan
<1>5. scriptStep = Len(Plan) /\ \A n \in DOMAIN x.args : Has(Plan, scriptStep, x.args[n])
  <2>1. scriptStep \in 1 .. Len(Plan)  BY <1>1, <1>3, <1>4 DEF Planned
  <2>2. QED  BY <1>1, <1>4, <2>1 DEF Planned
<1>6. \A n \in DOMAIN x.args : x.args[n] \in DOMAIN scriptAt
  BY <1>1, <1>5 DEF ScriptsInv, Followed
<1>7. WiredFile(r, scriptLinks)
  <2>1. \A w \in WiresOf(scriptScript) : Points(w)
    <3>1. ASSUME NEW w \in WiresOf(scriptScript) PROVE Points(w)
      <4>1. Wired(Plan, w)  BY <1>1, WiresStand
      <4>2. w.from < scriptStep  BY <1>3, <1>5, <4>1 DEF Wired
      <4>3. QED  BY <1>1, <4>2, WiresStand
    <3>2. QED  BY <3>1
  <2>2. x.args = Plan[Len(Plan)].args  BY <1>5
  <2>3. QED  BY <1>4, <2>1, <2>2, FileIsWired
<1>8. Addressed  BY DEF ScriptsInv
<1>9. \A n \in DOMAIN r : r[n] \in DOMAIN scriptLinks
  BY <1>6, <1>8 DEF Addressed
<1> HIDE DEF x, r
<1>10. /\ DOMAIN scriptFiles' = DOMAIN scriptFiles
       /\ \A f \in DOMAIN scriptFiles : scriptFiles'[f] = IF f = x.of THEN r ELSE scriptFiles[f]
  BY <1>1
<1>11. Addressed'
  <2>1. \A f \in DOMAIN scriptFiles' :
          \A n \in DOMAIN scriptFiles'[f] : scriptFiles'[f][n] \in DOMAIN scriptLinks
    BY <1>8, <1>9, <1>10 DEF Addressed
  <2>2. QED  BY <1>1, <1>8, <2>1 DEF Addressed
<1>12. AllWired'
  <2>1. \A f \in DOMAIN scriptFiles' : WiredFile(scriptFiles'[f], scriptLinks)
    BY <1>7, <1>10 DEF ScriptsInv, AllWired
  <2>2. QED  BY <1>1, <2>1 DEF AllWired
<1>13. Unsaved'
  BY <1>1, <1>2, <1>3, <1>5 DEF Unsaved
<1>14. /\ ScriptsTyped'
       /\ \A n : Has(Plan', scriptStep', n) =>
            Has(Plan, scriptStep, n) \/ Deploys(Plan, scriptStep, n)
  <2>1. ~Refused(Plan, scriptStep)  BY <1>1 DEF Refused, x
  <2>2. QED  BY <1>1, <1>3, <2>1, StepTaken
<1>15. Followed'
  <2>1. ASSUME NEW n, Has(Plan', scriptStep', n) PROVE n \in DOMAIN scriptAt'
    <3>1. Has(Plan, scriptStep, n)  BY <1>1, <1>14, <2>1 DEF Deploys, x
    <3>2. QED  BY <1>1, <3>1 DEF ScriptsInv, Followed
  <2>2. ASSUME NEW w \in WiresOf(scriptScript) PROVE Points(w)'
    <3>1. Wired(Plan, w)  BY <1>1, WiresStand
    <3>2. w.from < scriptStep  BY <1>3, <1>5, <3>1 DEF Wired
    <3>3. Points(w)  BY <1>1, <3>2, WiresStand
    <3>4. QED  BY <1>1, <3>3 DEF Points
  <2>3. QED  BY <1>1, <2>1, <2>2 DEF Followed
<1>16. QED  BY <1>11, <1>12, <1>13, <1>14, <1>15 DEF ScriptsInv

LEMMA ScriptsStep ==
  ScriptsInv /\ [Scripts!DeploymentNext]_Scripts!deploymentVars => ScriptsInv'
<1>1. SUFFICES ASSUME ScriptsInv, [Scripts!DeploymentNext]_Scripts!deploymentVars
               PROVE  ScriptsInv'
  OBVIOUS
<1>2. ASSUME NEW s \in DOMAIN Scripts!Scripts, Scripts!Start(s) PROVE ScriptsInv'
  BY <1>1, <1>2, ScriptStarts
<1>3. CASE Scripts!Deployed  BY <1>1, <1>3, ScriptDeploys
<1>4. CASE Scripts!Called    BY <1>1, <1>4, ScriptCalls
<1>5. CASE Scripts!Sent      BY <1>1, <1>5, ScriptSends
<1>6. CASE Scripts!Saved     BY <1>1, <1>6, ScriptSaves
<1>7. CASE Scripts!Stops     BY <1>1, <1>7, ScriptStops
<1>8. CASE Scripts!Verified \/ UNCHANGED Scripts!deploymentVars
  <2>1. UNCHANGED <<scriptScript, scriptStep, scriptAt, scriptLinks, scriptFiles, scriptNext>>
    BY <1>8 DEF Scripts!Verified, Scripts!deploymentVars
  <2>2. QED
    BY <1>1, <2>1 DEF ScriptsInv, ScriptsTyped, Addressed, Unsaved, Followed, AllWired, Points, Plan
<1>9. QED  BY <1>1, <1>2, <1>3, <1>4, <1>5, <1>6, <1>7, <1>8 DEF Scripts!DeploymentNext

-----------------------------------------------------------------------------
(* The frontend: a step of it is one of each page, or leaves the page alone. *)

FrontendInv ==
  /\ PageInv /\ NetworkInv /\ PriceInv /\ PagesInv /\ TransactionInv
  /\ FormInv /\ FaucetPageInv /\ SimpleInv /\ DualInv /\ ScriptsInv

LEMMA FrontendBegins == FrontendInit => FrontendInv
<1>1. FrontendInit => PageInv /\ NetworkInv /\ PriceInv
  BY PageBegins, NetworkBegins, PriceBegins DEF FrontendInit
<1>2. FrontendInit => PagesInv /\ TransactionInv /\ FormInv
  BY PagesBegin, TransactionBegins, FormBegins DEF FrontendInit
<1>3. FrontendInit => FaucetPageInv /\ SimpleInv /\ DualInv /\ ScriptsInv
  BY FaucetPageBegins, SimpleBegins, DualBegins, ScriptsBegin DEF FrontendInit
<1>4. QED
  BY <1>1, <1>2, <1>3 DEF FrontendInv

LEMMA StepOfFlow == [FrontendNext]_frontendVars => [Flow!TransactionNext]_Flow!transactionVars
  BY DEF FrontendNext, frontendVars, flowVars, Flow!transactionVars

LEMMA StepOfNetwork == [FrontendNext]_frontendVars => [Network!NetworkNext]_Network!networkVars
  BY DEF FrontendNext, frontendVars, netVars, Network!networkVars, Network!walletVars,
     Network!detectionVars

LEMMA StepOfStaking == [FrontendNext]_frontendVars => [Staking!PageNext]_Staking!pageVars
  BY DEF FrontendNext, frontendVars, stakingVars, Staking!pageVars

\* The chain of the dashboard is that of both its forms.
LEMMA StepOfDashboard ==
  [FrontendNext]_frontendVars =>
    Dashboard!FormNext \/ Dashboard!ChainChanges \/ UNCHANGED depositVars
  BY DEF FrontendNext, frontendVars

LEMMA StepOfMarket == [FrontendNext]_frontendVars => [Market!PriceNext]_Market!priceVars
  BY DEF FrontendNext, frontendVars, priceVars, Market!priceVars

LEMMA StepOfGovernance == [FrontendNext]_frontendVars => [Governance!PagesNext]_Governance!pagesVars
  BY DEF FrontendNext, frontendVars, govVars, Governance!pagesVars, Governance!readVars,
     Governance!shownVars, Governance!formVars

LEMMA StepOfFaucet == [FrontendNext]_frontendVars => [Pages!FaucetPageNext]_Pages!faucetPageVars
  BY DEF FrontendNext, frontendVars, faucetPageVars, Pages!faucetPageVars

LEMMA StepOfSimple == [FrontendNext]_frontendVars => [Pages!SimpleNext]_Pages!simpleVars
  BY DEF FrontendNext, frontendVars, simpleVars, Pages!simpleVars

LEMMA StepOfDual == [FrontendNext]_frontendVars => [Dual!DualNext]_Dual!dualVars
  BY DEF FrontendNext, frontendVars, dualVars, Dual!dualVars

LEMMA StepOfScripts ==
  [FrontendNext]_frontendVars => [Scripts!DeploymentNext]_Scripts!deploymentVars
  BY DEF FrontendNext, frontendVars, scriptVars, Scripts!deploymentVars

LEMMA FrontendStep == FrontendInv /\ [FrontendNext]_frontendVars => FrontendInv'
<1>1. SUFFICES ASSUME FrontendInv, [FrontendNext]_frontendVars PROVE FrontendInv'
  OBVIOUS
<1>. USE DEF FrontendInv
<1>2. PageInv' /\ NetworkInv' /\ PriceInv'
  BY <1>1, PageStep, NetworkStep, PriceStep, StepOfStaking, StepOfNetwork, StepOfMarket
<1>3. PagesInv' /\ TransactionInv'
  BY <1>1, PagesStep, TransactionStep, StepOfGovernance, StepOfFlow
<1>4. FaucetPageInv' /\ SimpleInv' /\ DualInv' /\ ScriptsInv'
  BY <1>1, FaucetPageStep, SimpleStep, DualStep, ScriptsStep, StepOfFaucet, StepOfSimple,
     StepOfDual, StepOfScripts
<1>5. FormInv'
  <2>1. CASE UNCHANGED depositVars
    BY <1>1, <2>1, FormKept DEF depositVars, WaitVars
  <2>2. CASE Dashboard!FormNext \/ Dashboard!ChainChanges
    BY <1>1, <2>2, FormStep
  <2>3. QED
    BY <1>1, <2>1, <2>2, StepOfDashboard
<1>6. QED
  BY <1>2, <1>3, <1>4, <1>5

LEMMA FrontendInvariant == FrontendSpec => []FrontendInv
  BY FrontendBegins, FrontendStep, PTL DEF FrontendSpec

(* Once the timers are over the store, the modal and the addresses are those *)
(* of the wallet's chain, whatever interleaved (useNetworkDetection.ts:5-41, *)
(* useContractStore.ts:109-135).                                             *)
THEOREM NetworkAlwaysSettles == FrontendSpec => []NetworkSettles
<1>1. FrontendInv => NetworkSettles
  BY NetworkShows DEF FrontendInv, NetworkSettles
<1>2. QED
  BY <1>1, FrontendInvariant, PTL

(* When nothing is under way the staking page shows what the contracts hold  *)
(* (StakingInterface.tsx:403-422).                                           *)
THEOREM ReadsAlwaysCatchUp == FrontendSpec => []ReadsCatchUp
<1>1. FrontendInv => ReadsCatchUp
  BY PageShows DEF FrontendInv, ReadsCatchUp
<1>2. QED
  BY <1>1, FrontendInvariant, PTL

(* The prices are of the wallet's chain once their run has ended; and once   *)
(* the network store has followed the wallet, no voting power and no         *)
(* proposal is shown on a chain without governance, and the pause is that    *)
(* read of the wallet's chain (useRealPriceData.ts:197-361, Web3Provider.tsx *)
(* :32-43, GovernanceInterface.tsx:300-391).                                 *)
THEOREM AlwaysShownOfChain == FrontendSpec => []ShownOfChain
<1>1. FrontendInv => ShownOfChain
  BY PriceShows, PagesShow DEF FrontendInv, ShownOfChain
<1>2. QED
  BY <1>1, FrontendInvariant, PTL

(* The ends a page hears of release what it shows as under way: a loading    *)
(* toast is none of a transaction refused or reverted, the deposit form      *)
(* waits for no ended attempt or update, a faucet button only for a loop, a  *)
(* request under way, or, unheard of, a newest claim that was mined and      *)
(* reverted (transactionErrorHandler.ts:356-367, useSwitchboardPriceUpdater  *)
(* .ts:183-201, FaucetInterface.tsx:169-252).                                *)
THEOREM LoadingAlwaysReleased == FrontendSpec => []LoadingReleased
<1>1. FrontendInv => LoadingReleased
  BY FormShows, FaucetPageShows DEF FrontendInv, TransactionInv, LoadingReleased
<1>2. QED
  BY <1>1, FrontendInvariant, PTL

(* No deposit is asked for beside a waiting attempt, and the simple page has *)
(* one deposit and one withdrawal under way at most (StakeForm.tsx:196-247,  *)
(* SimpleStaking.tsx:145-197).                                               *)
THEOREM AlwaysOneAtATime == FrontendSpec => OneAtATime
<1>1. FrontendInv /\ [FrontendNext]_frontendVars =>
        [Len(deposits') > Len(deposits) =>
           depositAttempts' = {} /\ Dashboard!Cardinality(depositAttempts) <= 1]_Dashboard!formVars
  <2>1. SUFFICES ASSUME FrontendInv, [FrontendNext]_frontendVars
                 PROVE  Len(deposits') > Len(deposits) =>
                   depositAttempts' = {} /\ Dashboard!Cardinality(depositAttempts) <= 1
    OBVIOUS
  <2>2. CASE UNCHANGED depositVars
    <3>1. deposits' = deposits /\ deposits \in Seq(DepositRecords)
      BY <2>1, <2>2 DEF depositVars, FrontendInv, FormInv, FormTyped
    <3>2. QED
      BY <3>1
  <2>3. CASE Dashboard!FormNext \/ Dashboard!ChainChanges
    BY <2>1, <2>3, FormSteps DEF FrontendInv
  <2>4. QED
    BY <2>1, <2>2, <2>3, StepOfDashboard
<1>2. FrontendInv => Pages!OneDepositAtATime
  BY SimpleShows DEF FrontendInv
<1>3. QED
  BY <1>1, <1>2, FrontendInvariant, PTL DEF FrontendSpec, OneAtATime, Dashboard!OneAttemptAtATime

(* The amounts computed for a tier are worth it but for the last digit       *)
(* (useDualStakingTiers.ts:86-124).                                          *)
THEOREM TierAlwaysNearlyReached == FrontendSpec => TierNearlyReached
<1>1. FrontendInv /\ [FrontendNext]_frontendVars =>
        [\A t \in Clicked : Dual!handleAutoCalculate(t) =>
           Dual!calculateTier(coreAmount' + 1, dualBtcAmount') >= t]_Dual!dualVars
  BY DualSteps DEF FrontendInv
<1>2. QED
  BY <1>1, FrontendInvariant, PTL DEF FrontendSpec, TierNearlyReached, Dual!TierNearlyReached

(* However many runs have stopped half way, an address file names contracts  *)
(* that point to each other (deploy-production-ready.cjs:69-187,             *)
(* deploy-with-mocks.cjs:69-259, deploy-simple-system.cjs:10-104).           *)
THEOREM SavedAlwaysWired == FrontendSpec => []SavedIsWired
<1>1. FrontendInv => SavedIsWired
  BY ScriptsShow DEF FrontendInv, SavedIsWired
<1>2. QED
  BY <1>1, FrontendInvariant, PTL
=============================================================================
