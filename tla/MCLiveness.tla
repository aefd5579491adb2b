----------------------------- MODULE MCLiveness -----------------------------
(***************************************************************************)
(* What must happen in the end: the services of the backend and the parts  *)
(* of the frontend that run on timers and answers, on instances smaller    *)
(* than those of MCBackend and Frontend.  A behaviour moves one of them,   *)
(* under the fairness of its process.                                      *)
(***************************************************************************)
EXTENDS Naturals, Sequences, FiniteSets

CONSTANT Moving   \* what moves in this run

VARIABLES clock, task, acting, pass,
          enabled, scheduled, isRunning, cycle, active, proposals, cast, stops,
          quote, onChain, phase, updater, update,
          connected, netChainId, netKnown, prompts, modal, modalTimer, store,
          storeTimer, addresses, route,
          priceChainId, oracle, apiCache, priceCache, run, queue, recent, timers,
          priceData,
          moving

engineVars     == <<clock, task, acting, pass>>
governanceVars == <<enabled, scheduled, isRunning, cycle, active, proposals, cast, stops>>
oracleVars     == <<quote, onChain, phase, updater, update>>
networkVars    == <<connected, netChainId, netKnown, prompts, modal, modalTimer, store,
                    storeTimer, addresses, route>>
priceVars      == <<priceChainId, oracle, apiCache, priceCache, run, queue, recent,
                    timers, priceData>>
vars == <<engineVars, governanceVars, oracleVars, networkVars, priceVars, moving>>

\* The tasks in the order of the array: on the cron engine, where nothing is
\* toggled, one that may throw every time and one that is off come before one
\* that is due more often.  A pass of the API's engine shares nothing with it.
TaskIds == {"liquidity-management", "dynamic-fees", "risk-monitoring"}
Engine == INSTANCE AutomationEngine WITH
  TaskList <- <<"liquidity-management", "dynamic-fees", "risk-monitoring">>,
  Kind <- [t \in TaskIds |-> CASE t = "liquidity-management" -> "liquidity"
                               [] t = "dynamic-fees"         -> "fees"
                               [] t = "risk-monitoring"      -> "risk"],
  Interval <- [t \in TaskIds |-> IF t = "risk-monitoring" THEN 1 ELSE 2],
  OffAtStart <- {"dynamic-fees"},
  CronSlots <- {"cron1", "cron2"}, ApiSlots <- {}, MaxClock <- 2
Governance == INSTANCE GovernanceAutomation WITH
  SnapshotIds <- {"s1"}, Tallies <- {[for |-> 2, against |-> 1, abstain |-> 2]},
  Cycles <- {1, 2}, Recent <- 1, MaxProposals <- 1, MaxStops <- 1
Oracle == INSTANCE OracleUpdater WITH MaxUpdaters <- 2, Updates <- {1, 2}, MaxQuote <- 2
Network == INSTANCE NetworkAccess WITH
  Development <- FALSE, Overridden <- {"StakeBasket"}, MaxPrompts <- 1,
  chainId <- netChainId, known <- netKnown
Quotes == INSTANCE PriceData WITH
  Chains <- {"local", "testnet"}, Deployed <- {"local", "testnet"},
  maxConcurrent <- 1, Runs <- {1, 2}, chainId <- priceChainId

-----------------------------------------------------------------------------
\* What does not move begins in one way only.
One(slice, choice) == IF moving = slice THEN TRUE ELSE choice
Init ==
  /\ moving \in Moving
  /\ One("network", netChainId = "local") /\ One("prices", priceChainId = "local")
  /\ Engine!EngineInit /\ Governance!GovernanceInit /\ Oracle!OracleInit
  /\ Network!NetworkInit /\ Quotes!PriceInit

Still(slice, tuple) == IF moving = slice THEN TRUE ELSE UNCHANGED tuple
Next ==
  /\ UNCHANGED moving
  /\ Still("engine", engineVars) /\ Still("governance", governanceVars)
  /\ Still("oracle", oracleVars) /\ Still("network", networkVars)
  /\ Still("prices", priceVars)
  /\ \/ moving = "engine" /\ Engine!EngineNext
     \/ moving = "governance" /\ Governance!GovernanceNext
     \/ moving = "oracle" /\ Oracle!OracleNext
     \/ moving = "network" /\ Network!NetworkNext
     \/ moving = "prices" /\ Quotes!PriceNext

-----------------------------------------------------------------------------
(* Fairness, for as long as the process is up.                               *)
\* The cron job fires again and again, and a call that was made answers.
EngineFairness ==
  \A p \in {"cron1", "cron2"} :
    /\ WF_engineVars(moving = "engine" /\ Engine!runAutomatedTasks(p))
    /\ WF_engineVars(moving = "engine" /\ Engine!Answers(p))
\* Every awaited call of a cycle answers, well or badly.
GovernanceFairness ==
  \A c \in {1, 2} : WF_governanceVars(moving = "governance" /\ Governance!CycleAnswers(c))
\* Intervals fire again and again, calls answer, and neither the API nor the
\* chain fails for ever.  (Strong, since other updates may hold the slots.)
OracleFairness ==
  /\ SF_oracleVars(moving = "oracle" /\ \E k \in {1, 2} : Oracle!IntervalTicks(k))
  /\ \A k \in {1, 2} :
       /\ WF_oracleVars(moving = "oracle" /\ \E ok \in BOOLEAN :
                          Oracle!Fetched(k, ok) \/ Oracle!Mined(k, ok))
       /\ SF_oracleVars(moving = "oracle" /\ Oracle!Fetched(k, TRUE))
       /\ SF_oracleVars(moving = "oracle" /\ Oracle!Mined(k, TRUE))
\* The timers of a page fire; the user and the wallet owe nothing.
NetworkFairness ==
  /\ WF_networkVars(moving = "network" /\ Network!ModalTimer)
  /\ WF_networkVars(moving = "network" /\ Network!setChainId)
\* So do those of the limiter, and a request gets an answer, an error or a
\* timeout.
PriceFairness ==
  /\ \A e \in {1, 2} :
       WF_priceVars(moving = "prices" /\ (\/ Quotes!FromOracle(e) \/ Quotes!getCorePrice(e)
                                          \/ Quotes!fetchCoinGeckoPrice(e)
                                          \/ Quotes!GeckoAnswers(e)))
  /\ WF_priceVars(moving = "prices" /\ Quotes!TimerFires)
  /\ WF_priceVars(moving = "prices" /\ Quotes!DelayPasses)

Spec == /\ Init /\ [][Next]_vars
        /\ EngineFairness /\ GovernanceFairness /\ OracleFairness
        /\ NetworkFairness /\ PriceFairness

-----------------------------------------------------------------------------
(* A task that is due is started by a pass of the timer, though another of  *)
(* the pass comes first and throws every time (AutomationEngine.ts:150-184).*)
DueTaskRuns      == Engine!DueTaskRuns

(* The flag of a governance cycle is released whatever call fails, so that  *)
(* a later cycle can run (GovernanceAutomationService.ts:79-115).           *)
GuardReleased    == Governance!GuardReleased

(* While the updater runs every quote, or a newer one, comes to the chain,  *)
(* though updates overlap and are mined in any order (OracleUpdater.ts:61-  *)
(* 86).                                                                     *)
QuotesReachChain == Oracle!QuotesReachChain

(* A wallet that stays on a wrong chain until the timer fires, 100 ms after *)
(* it came there, is told so (useNetworkDetection.ts:13-24).                *)
WrongNetworkTold == Network!WrongNetworkTold

(* A run of the prices ends, whatever sources fail: some price is shown     *)
(* (useRealPriceData.ts:209-353).                                           *)
PricesLoad       == Quotes!PricesLoad
=============================================================================
