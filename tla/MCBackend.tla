------------------------------ MODULE MCBackend ------------------------------
(***************************************************************************)
(* The services of the backend on small instances, and the two contracts   *)
(* that keep the prices its updater and monitors are about.  They share    *)
(* neither state nor calls (the routes and the jobs make instances of      *)
(* their own; what the updater reads back is whether its call was mined),  *)
(* so each behaviour moves only the service or contract it was started for.*)
(* The modules ApplicationProofs is about are extended, the others not.    *)
(***************************************************************************)
EXTENDS GovernanceAutomation, Faucet, Monitoring, PriceFeed, PriceSecurityModule

CONSTANT Moving   \* the services that move in this run

VARIABLES clock, task, acting, pass,
          job, timer, checking, history,
          quote, onChain, phase, updater, update,
          listing, report,
          moving

engineVars     == <<clock, task, acting, pass>>
rebalancerVars == <<job, timer, checking, history>>
oracleVars     == <<quote, onChain, phase, updater, update>>
vars == <<engineVars, rebalancerVars, governanceVars, oracleVars, listing, report,
          faucetVars, monitoringVars, feedVars, securityVars, moving>>

\* The feed's prices 70, 100, 112 and 130 are changes of 12 and 30 percent, and
\* two of them whose mean is the third.
TwoTallies == {[for |-> 2, against |-> 1, abstain |-> 2],
               [for |-> 1, against |-> 2, abstain |-> 0]}
Windows    == [request |-> 2, balances |-> 1]
Limits     == [request |-> 2, balances |-> 2]
Cooldowns  == [r \in RuleIds |-> CASE r = "extreme-price-movement" -> 1
                                   [] r \in {"stale-price-feed", "validator-slashing"} -> 2
                                   [] OTHER -> 3]

\* A ring of three slots that four prices wrap, and a window that is over
\* before the clock stops.
ByDefault     == [deviation |-> 1000, interval |-> 1, window |-> 3, sources |-> 2, cooldown |-> 2]
ThreeConfigs  == {ByDefault, [ByDefault EXCEPT !.window = 2, !.deviation = 500],
                  [ByDefault EXCEPT !.deviation = 5001]}
ShortestTimes == [interval |-> 1, window |-> 2, cooldown |-> 1]

Engine == INSTANCE AutomationEngine WITH
  TaskList <- <<"dynamic-fees", "risk-monitoring">>,
  Kind <- [t \in {"dynamic-fees", "risk-monitoring"} |->
             IF t = "dynamic-fees" THEN "fees" ELSE "risk"],
  Interval <- [t \in {"dynamic-fees", "risk-monitoring"} |->
                 IF t = "dynamic-fees" THEN 2 ELSE 1],
  OffAtStart <- {"dynamic-fees"},
  CronSlots <- {"cron1", "cron2"}, ApiSlots <- {"api1"}, MaxClock <- 2
Rebalancer == INSTANCE AutomatedRebalancer WITH
  Metrics <- [performance : {75, 90}, uptime : {90, 96}, active : {2}, total : {3}],
  Thresholds <- {0, 70}, HistoryCap <- 3, Checks <- {1, 2}
Oracle == INSTANCE OracleUpdater WITH MaxUpdaters <- 2, Updates <- {1, 2}, MaxQuote <- 2
Validators == INSTANCE Validators WITH Deposits <- {1, 2}, Fees <- {5, 10}, MaxListed <- 3,
  Performances <- {89, 90, 100}, Uptimes <- {94, 95, 99}

-----------------------------------------------------------------------------
Init ==
  /\ Engine!EngineInit /\ Rebalancer!RebalancerInit /\ GovernanceInit
  /\ Oracle!OracleInit /\ Validators!ApiInit /\ Validators!ReportInit
  /\ FaucetInit /\ MonitoringInit
  /\ FeedInit /\ SecurityInit
  /\ moving \in Moving

Still(slice, tuple) == IF moving = slice THEN TRUE ELSE UNCHANGED tuple
Next ==
  /\ UNCHANGED moving
  /\ Still("engine", engineVars) /\ Still("rebalancer", rebalancerVars)
  /\ Still("governance", governanceVars) /\ Still("oracle", oracleVars)
  /\ Still("api", listing) /\ Still("validators", report)
  /\ Still("faucet", faucetVars) /\ Still("monitoring", monitoringVars)
  /\ Still("security", securityVars)
  /\ Still("feed", feedVars)
  /\ \/ moving = "engine" /\ Engine!EngineNext
     \/ moving = "rebalancer" /\ Rebalancer!RebalancerNext
     \/ moving = "governance" /\ GovernanceNext
     \/ moving = "oracle" /\ Oracle!OracleNext
     \/ moving = "api" /\ Validators!ApiNext
     \/ moving = "validators" /\ Validators!ReportNext
     \/ moving = "faucet" /\ FaucetNext
     \/ moving = "monitoring" /\ MonitoringNext
     \/ moving = "feed" /\ FeedNext
     \/ moving = "security" /\ SecurityNext

Spec == Init /\ [][Next]_vars

-----------------------------------------------------------------------------
(* What is counted or reported twice is counted alike: the rebalancer's     *)
(* status, statistics and history, though they are written before and after *)
(* an await while checks overlap with stops and restarts                    *)
(* (AutomatedRebalancer.ts:60-230); the two ways to rank a validator, ties  *)
(* included (CoreAPIService.ts:232); and each validator of a report once in *)
(* each of its summaries and tiers (ValidatorMonitor.ts).                   *)
ReportsAgree ==
  Rebalancer!StatusConsistent /\ Validators!RanksAgree /\ Validators!SummariesAgree

(* The two alert managers of the monitoring have nothing to do with each    *)
(* other: a behaviour looks at one of them.                                 *)
OneManager ==
  alerts["api"] # <<>> => /\ alerts["jobs"] = <<>> /\ metrics = <<>>
                          /\ \A j \in DOMAIN awaiting : awaiting[j] = "idle"
\* One change of the averaging module's settings or sources, and one way for
\* the feed to start where it rests.
Slice == /\ OneManager
         /\ moving = "security" => ownerCalls <= 1
         /\ moving # "feed" => oracles = {}
=============================================================================
