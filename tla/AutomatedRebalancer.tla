------------------------- MODULE AutomatedRebalancer -------------------------
(***************************************************************************)
(* The validator rebalancing job (AutomatedRebalancer.ts) that             *)
(* routes/automation.ts starts when it is loaded and changes on request.   *)
(* A check awaits the validator metrics; everything after the answer runs  *)
(* without a break.  Percentages are in hundredths.                        *)
(***************************************************************************)
EXTENDS Naturals, Sequences, SequencesExt

CONSTANTS Metrics,       \* possible answers of checkValidators
          Thresholds,    \* values the API gives minImprovement
          HistoryCap,    \* results kept (100 in the code)
          Checks         \* bound: checks awaiting the metrics at once

VARIABLES job,           \* scheduled, nextRun (is it set), enabled, minImprovement
          timer,         \* intervalId: is an interval set
          checking,      \* checking[k]: "idle", "auto" or "manual"
          history        \* rebalancingHistory, as executed and improvement

rebalancerVars == <<job, timer, checking, history>>

Bigger(a, b) == IF a > b THEN a ELSE b

\* generateRebalancingRecommendation: the conditions are cumulative and the
\* improvement is the largest estimate of those that hold.
ManyInactive(m) == 10 * (m.total - m.active) > 2 * m.total
Recommended(m) == m.performance < 80 \/ m.uptime < 95 \/ ManyInactive(m)
Estimate(m) ==
  LET performance == IF m.performance < 80 THEN 10 * (85 - m.performance) ELSE 0
      uptime      == IF m.uptime < 95 THEN 5 * (98 - m.uptime) ELSE 0
      inactive    == IF ManyInactive(m)
                     THEN (200 * (m.total - m.active)) \div m.total ELSE 0
  IN Bigger(performance, Bigger(uptime, inactive))

recordRebalancingResult(old, executed, improvement) ==
  LET all == Append(old, [executed |-> executed, improvement |-> improvement])
  IN IF Len(all) > HistoryCap THEN Tail(all) ELSE all

InitialJob == [scheduled |-> FALSE, nextRun |-> FALSE, enabled |-> TRUE,
               minImprovement |-> 20]

RebalancerInit ==
  /\ job = InitialJob
  /\ timer = FALSE
  /\ checking = [k \in Checks |-> "idle"]
  /\ history = <<>>

\* executeRebalancingCheck up to its await: nothing when disabled.
CheckBegins(k, before) ==
  IF before.enabled
  THEN /\ checking[k] = "idle"
       /\ checking' = [checking EXCEPT ![k] = "auto"]
       /\ job' = [before EXCEPT !.nextRun = TRUE]
  ELSE checking' = checking /\ job' = before

\* start runs a check at once and sets the interval; a second start returns.
start(k) ==
  /\ ~timer
  /\ timer' = TRUE
  /\ CheckBegins(k, [job EXCEPT !.scheduled = TRUE, !.nextRun = TRUE])
  /\ UNCHANGED history

IntervalFires(k) ==
  /\ timer
  /\ CheckBegins(k, job)
  /\ UNCHANGED <<timer, history>>

\* stop: nothing tells the checks that are in flight.
stop(before) == [before EXCEPT !.scheduled = FALSE, !.nextRun = FALSE]

\* updateInterval stops and starts a running job, whose check that is in
\* flight goes on beside the new one.
updateInterval(k) ==
  /\ timer
  /\ CheckBegins(k, [stop(job) EXCEPT !.scheduled = TRUE, !.nextRun = TRUE])
  /\ UNCHANGED <<timer, history>>

\* An end that records the estimate of a rebalancing that was not executed.
CheckEndsWithEstimate(k, m, answered, succeeds) ==
  /\ checking[k] # "idle"
  /\ checking' = [checking EXCEPT ![k] = "idle"]
  /\ history' = recordRebalancingResult(history, answered /\ Recommended(m) /\ succeeds, Estimate(m))
  /\ UNCHANGED <<job, timer>>

\* The rest of the check: the metrics are refused, nothing is recommended,
\* the improvement is too small, or the (simulated) execution succeeds or not.
CheckEnds(k, m, answered, succeeds) ==
  LET runs == /\ answered
              /\ Recommended(m)
              /\ checking[k] = "auto" => Estimate(m) >= job.minImprovement
              /\ succeeds
  IN /\ checking[k] # "idle"
     /\ checking' = [checking EXCEPT ![k] = "idle"]
     /\ history' = recordRebalancingResult(history, runs,
                                           IF runs THEN Estimate(m) ELSE 0)
     /\ UNCHANGED <<job, timer>>

\* The trigger route: no look at enabled, nor at minImprovement.
triggerManualRebalancing(k) ==
  /\ checking[k] = "idle"
  /\ checking' = [checking EXCEPT ![k] = "manual"]
  /\ UNCHANGED <<job, timer, history>>

updateThresholds(x) ==
  /\ job' = [job EXCEPT !.minImprovement = x]
  /\ UNCHANGED <<timer, checking, history>>

setEnabled(b) ==
  /\ job' = [job EXCEPT !.enabled = b]
  /\ UNCHANGED <<timer, checking, history>>

\* SIGINT and SIGTERM: destroy, and the process exits; everything here is in
\* memory, so the next process begins anew (a crash leaves the same).
destroy ==
  /\ timer
  /\ job' = InitialJob
  /\ timer' = FALSE
  /\ checking' = [k \in Checks |-> "idle"]
  /\ history' = <<>>

MetricsAnswer(k) ==
  \E m \in Metrics, answered, succeeds \in BOOLEAN :
    CheckEnds(k, m, answered, succeeds)

RebalancerNext ==
  \/ \E k \in Checks : \/ start(k) \/ IntervalFires(k) \/ updateInterval(k)
                       \/ MetricsAnswer(k) \/ triggerManualRebalancing(k)
  \/ \E x \in Thresholds : updateThresholds(x)
  \/ \E b \in BOOLEAN : setEnabled(b)
  \/ destroy

-----------------------------------------------------------------------------
(* What the routes show.                                                    *)

Successful == SelectSeq(history, LAMBDA r : r.executed)
Improvement(results) == FoldLeft(LAMBDA sum, r : sum + r.improvement, 0, results)

getStatistics ==
  [totalRuns |-> Len(history), successful |-> Len(Successful),
   failed |-> Len(history) - Len(Successful), total |-> Improvement(Successful)]

\* getHistory: most recent first, all of it for a limit of 0.
getHistory(limit) ==
  LET all == Reverse(history)
  IN IF limit = 0 \/ limit > Len(all) THEN all ELSE SubSeq(all, 1, limit)

\* rebalancing/status, rebalancing/history, status and health.  A rate is the
\* number of runs that it is the share of; without a run the error rate is
\* made up and the success rate is full.
rebalancingStatus == [statistics |-> getStatistics, recentHistory |-> getHistory(10)]
rebalancingHistory(limit) == [history |-> getHistory(limit), total |-> Len(getHistory(limit))]
status == [enabled |-> job.enabled, scheduled |-> job.scheduled, next |-> job.nextRun,
           errors |-> getStatistics.failed, runs |-> getStatistics.totalRuns]
health == [active |-> job.enabled, scheduled |-> job.scheduled,
           successes |-> IF getStatistics.totalRuns > 0 THEN getStatistics.successful ELSE 0]

\* What the routes report holds together: a next run is shown exactly while an
\* interval is set, whatever checks are in flight when it is stopped (the date
\* is written before the await); errors and successes are all runs; and the
\* improvement added up over the successes is all there is in the history, of
\* which the status shows the latest part.
StatusConsistent ==
  /\ timer <=> status.scheduled
  /\ timer <=> status.next
  /\ getStatistics.total = Improvement(rebalancingHistory(0).history)
  /\ status.errors + health.successes = status.runs
  /\ \A limit \in 0 .. HistoryCap :
       rebalancingHistory(limit).total <= rebalancingStatus.statistics.totalRuns
  /\ rebalancingStatus.recentHistory # <<>> =>
       rebalancingStatus.recentHistory[1] = history[Len(history)]
=============================================================================
