------------------------------ MODULE Frontend ------------------------------
(***************************************************************************)
(* The pages of the frontend and the deployment scripts.  A page owns its  *)
(* state and is thrown away when another is opened, so each behaviour      *)
(* moves only the one it was started for.                                  *)
(***************************************************************************)
EXTENDS Naturals, Sequences, FiniteSets

CONSTANTS
  Moving,         \* the pages that move
  Development,    \* IS_DEVELOPMENT
  Chains,         \* "local", "testnet" and others
  Overridden,     \* contracts the environment gives an address for
  HasBasket,      \* the dashboard's chain has one of the two baskets
  WithBasket,     \* the chains with a StakeBasket address
  Governed,       \* the chains with an address for the governance
  Refusals,       \* messages the wallet or the chain may refuse with
  Supply, Coin, CoreBalance, BtcBalance,    \* what the user holds at first
  CorePrices, BtcPrices,                    \* of a CORE, of a thousandth of a BTC
  Counts, VotesOf, Delegated,               \* what the governance's reads may return
  StakeAmounts, DepositAmounts, Redeemed,   \* what the user types
  SimpleAmounts, CoreInputs, BtcInputs,
  maxConcurrent,
  \* Bounds of a behaviour:
  MaxPrompts, MaxUsed, MaxSent, MaxAttempts, MaxRefreshes, Runs, Loops, MaxClicks,
  DualChains, Clicked, MaxAsked, MaxRuns

ASSUME FrontendAssumption ==
  /\ {"", "unknown"} \cap Chains = {}
  /\ DepositAmounts \subseteq Nat /\ Coin \in Nat
  /\ CorePrices \subseteq Nat /\ BtcPrices \subseteq Nat
  /\ Clicked \subseteq 0..4

VARIABLES
  flowPage, flowWallet, flowAttempts, flowRequest, toasts,
  connected, netChainId, netKnown, prompts, modal, modalTimer, store,
  storeTimer, addresses, route,
  stakingOnChain, stakingCached, stakingFetching, stakingForm, isApproving,
  stakingTx, effectDue, mounted, missed, sent,
  depositAmount, depositSimulation, isFeedValid, fresh,
  isSimulating, depositSimulationResult, depositAttempts, depositClicks,
  depositTimers, isUpdating, fetches, updateTx, refreshes, deposits, coin,
  pageBalances,
  inputAmount, withdrawalSimulation, withdrawalSimulationResult, account,
  supported,
  priceChainId, oracle, apiCache, priceCache, priceRun, priceQueue, recent,
  priceTimers, priceData,
  chain, networkStatus, govTimer, read, activeTab, votingPower, proposalsShown,
  emergencyPaused, totalDelegated, examples, govForm, showCreate, govRequest,
  faucetChainId, faucetStatus, loadingToken, loading, faucetTx, reverted,
  faucetLoop,
  dualChainId, isDataLoaded, price, isLoading, coreAmount, dualBtcAmount,
  dualOnChain, dualCached, dualFetching, dualRequests, asked,
  address, simpleBtcAmount, withdrawShares, simpleOnChain, simpleCached,
  simpleRequests, depositHook, withdrawHook, hashes, timer, simpleClicks,
  scriptScript, scriptStep, scriptAt, scriptLinks, scriptFiles, scriptNext,
  scriptRuns, verdict,
  moving

flowVars ==
  <<flowPage, flowWallet, flowAttempts, flowRequest, toasts>>
netVars ==
  <<connected, netChainId, netKnown, prompts, modal, modalTimer, store,
  storeTimer, addresses, route>>
stakingVars ==
  <<stakingOnChain, stakingCached, stakingFetching, stakingForm, isApproving,
  stakingTx, effectDue, mounted, missed, sent>>
depositVars ==
  <<depositAmount, depositSimulation, isFeedValid, fresh,
  isSimulating, depositSimulationResult, depositAttempts, depositClicks,
  depositTimers, isUpdating, fetches, updateTx, refreshes, deposits, coin,
  pageBalances>>
withdrawalVars ==
  <<inputAmount, withdrawalSimulation, withdrawalSimulationResult, account>>
priceVars ==
  <<priceChainId, oracle, apiCache, priceCache, priceRun, priceQueue, recent,
  priceTimers, priceData>>
govVars ==
  <<chain, networkStatus, govTimer, read, activeTab, votingPower, proposalsShown,
  emergencyPaused, totalDelegated, examples, govForm, showCreate, govRequest>>
faucetPageVars ==
  <<faucetChainId, faucetStatus, loadingToken, loading, faucetTx, reverted,
  faucetLoop>>
dualVars ==
  <<dualChainId, isDataLoaded, price, isLoading, coreAmount, dualBtcAmount,
  dualOnChain, dualCached, dualFetching, dualRequests, asked>>
simpleVars ==
  <<address, simpleBtcAmount, withdrawShares, simpleOnChain, simpleCached,
  simpleRequests, depositHook, withdrawHook, hashes, timer, simpleClicks>>
scriptVars ==
  <<scriptScript, scriptStep, scriptAt, scriptLinks, scriptFiles, scriptNext,
  scriptRuns, verdict>>
frontendVars ==
  <<flowVars, netVars, stakingVars, depositVars, withdrawalVars, supported,
  priceVars, govVars, faucetPageVars, dualVars, simpleVars, scriptVars, moving>>

-----------------------------------------------------------------------------
Flow == INSTANCE TransactionFlow WITH
  page <- flowPage, wallet <- flowWallet, attempts <- flowAttempts,
  request <- flowRequest
Network == INSTANCE NetworkAccess WITH
  chainId <- netChainId, known <- netKnown
Staking == INSTANCE StakingPage WITH
  Amounts <- StakeAmounts,
  onChain <- stakingOnChain, cached <- stakingCached,
  fetching <- stakingFetching, form <- stakingForm, tx <- stakingTx
Dashboard == INSTANCE DashboardForms WITH
  Amounts <- DepositAmounts, Deployed <- HasBasket,
  simulation <- depositSimulation, isPriceValid <- isFeedValid,
  simulationResult <- depositSimulationResult, attempts <- depositAttempts,
  clicks <- depositClicks, timers <- depositTimers, balances <- pageBalances
Market == INSTANCE PriceData WITH
  Deployed <- WithBasket,
  chainId <- priceChainId, run <- priceRun, queue <- priceQueue,
  timers <- priceTimers
Governance == INSTANCE GovernancePages WITH
  timer <- govTimer, proposals <- proposalsShown, form <- govForm,
  request <- govRequest
Pages == INSTANCE NewestRequestPages WITH
  Amounts <- SimpleAmounts,
  chainId <- faucetChainId, tx <- faucetTx, loop <- faucetLoop,
  btcAmount <- simpleBtcAmount, onChain <- simpleOnChain,
  cached <- simpleCached, requests <- simpleRequests, clicks <- simpleClicks
Dual == INSTANCE DualStakingPage WITH
  Chains <- DualChains, Prices <- [core : CorePrices, btc : BtcPrices],
  Balance <- [core |-> CoreBalance, btc |-> BtcBalance],
  chainId <- dualChainId, btcAmount <- dualBtcAmount, onChain <- dualOnChain,
  cached <- dualCached, fetching <- dualFetching, requests <- dualRequests
Scripts == INSTANCE Deployment WITH
  script <- scriptScript, step <- scriptStep, at <- scriptAt,
  links <- scriptLinks, files <- scriptFiles, next <- scriptNext,
  runs <- scriptRuns

-----------------------------------------------------------------------------
\* A page that does not move begins in one way only.
One(slice, choice) == IF moving = slice THEN TRUE ELSE choice
Others ==
  /\ One("transaction", flowPage = "basket")
  /\ One("network", netChainId = "local") /\ One("prices", priceChainId = "local")
  /\ One("governance", chain = "local" /\ networkStatus = "local")
  /\ One("faucet", faucetChainId = "local")
  /\ One("deposit", fresh = TRUE) /\ One("simple", simpleOnChain = 0)
  /\ One("withdrawal", supported = TRUE) /\ One("withdrawal", account = TRUE)

FrontendInit ==
  /\ moving \in Moving /\ Others
  /\ Flow!TransactionInit
  /\ Network!NetworkInit
  /\ Staking!PageInit
  /\ Dashboard!FormInit
  /\ Dashboard!WithdrawInit
  /\ Market!PriceInit
  /\ Governance!PagesInit
  /\ Pages!FaucetPageInit
  /\ Dual!DualInit
  /\ Pages!SimpleInit
  /\ Scripts!DeploymentInit

FrontendNext ==
  /\ UNCHANGED moving
  /\ IF moving = "transaction" THEN TRUE ELSE UNCHANGED flowVars
  /\ IF moving = "network" THEN TRUE ELSE UNCHANGED netVars
  /\ IF moving = "staking" THEN TRUE ELSE UNCHANGED stakingVars
  /\ IF moving = "deposit" THEN TRUE ELSE UNCHANGED depositVars
  /\ IF moving = "withdrawal" THEN TRUE ELSE UNCHANGED withdrawalVars
  /\ IF moving \in {"deposit", "withdrawal"} THEN TRUE ELSE UNCHANGED supported
  /\ IF moving = "prices" THEN TRUE ELSE UNCHANGED priceVars
  /\ IF moving = "governance" THEN TRUE ELSE UNCHANGED govVars
  /\ IF moving = "faucet" THEN TRUE ELSE UNCHANGED faucetPageVars
  /\ IF moving = "dual" THEN TRUE ELSE UNCHANGED dualVars
  /\ IF moving = "simple" THEN TRUE ELSE UNCHANGED simpleVars
  /\ IF moving = "scripts" THEN TRUE ELSE UNCHANGED scriptVars
  /\ \/ moving = "transaction" /\ Flow!TransactionNext
     \/ moving = "network" /\ Network!NetworkNext
     \/ moving = "staking" /\ Staking!PageNext
     \/ moving = "deposit" /\ Dashboard!FormNext
     \/ moving = "withdrawal" /\ Dashboard!WithdrawNext
     \/ moving \in {"deposit", "withdrawal"} /\ Dashboard!ChainChanges
     \/ moving = "prices" /\ Market!PriceNext
     \/ moving = "governance" /\ Governance!PagesNext
     \/ moving = "faucet" /\ Pages!FaucetPageNext
     \/ moving = "dual" /\ Dual!DualNext
     \/ moving = "simple" /\ Pages!SimpleNext
     \/ moving = "scripts" /\ Scripts!DeploymentNext

FrontendSpec == FrontendInit /\ [][FrontendNext]_frontendVars

(* Bounds: a click is made with the typed amount; the wallet keeps its chain  *)
(* once asked for a deposit; two reads of the governance pages have answered, *)
(* one with a form open or a request at the wallet; a dual deposit is asked   *)
(* for with typed amounts and one request at a time.                          *)
GovernanceReads ==
  {p \in Governed \X DOMAIN Governance!Unread : read[p[1]][p[2]] # {}}
FewAtOnce ==
  /\ depositClicks > 0 => depositAmount \in {0} \cup DepositAmounts
  /\ ~supported => deposits = <<>>
  /\ asked > 0 => coreAmount \in {0} \cup CoreInputs /\ Cardinality(dualRequests) <= 1
  /\ Cardinality(GovernanceReads) <= (IF showCreate \/ govRequest = "wallet" THEN 1 ELSE 2)

-----------------------------------------------------------------------------
(* Once the timers are over the page agrees with the wallet: the store, the *)
(* modal and the addresses the pages use are those of the wallet's chain,   *)
(* however effects, timers, switches and reloads interleave                 *)
(* (useNetworkDetection.ts:5-41, useContractStore.ts:109-135).              *)
NetworkSettles == Network!NetworkSettles

(* When nothing is under way the staking page shows what the contracts      *)
(* hold, whatever was approved, staked or refused and in whatever order the *)
(* reads return (StakingInterface.tsx:403-422).                             *)
ReadsCatchUp == Staking!ReadsCatchUp

(* No second click gets a deposit through to the wallet while an attempt    *)
(* waits for its price (StakeForm.tsx:196-247), and the simple page, though *)
(* it hears of its newest request only, has no second deposit and no second *)
(* withdrawal asked for while one is under way (SimpleStaking.tsx:145-197). *)
OneAtATime == /\ Dashboard!OneAttemptAtATime
              /\ [][Pages!OneDepositAtATime']_simpleVars

(* What the pages show of a contract is in the end of the wallet's chain,   *)
(* whatever answers late: the prices, once the run of this chain has ended  *)
(* (useRealPriceData.ts:197-361); and once the network store has followed   *)
(* the wallet, half a second after its last switch (Web3Provider.tsx:32-43),*)
(* a chain without governance shows neither a voting power nor proposals,   *)
(* and one whose pause was read shows that pause (GovernanceInterface.tsx:  *)
(* 300-391, CoreDAOGovernanceInterface.tsx:258-309).  Before that the pages *)
(* may show the address, the examples and the pause of the chain left.      *)
ShownOfChain == /\ Market!PricesOfChain
                /\ Governance!NothingWithoutContract
                /\ Governance!PauseOfChain

(* The ends that a page hears of release what it shows as under way, though *)
(* renders, requests and loops overlap: no loading toast is up for a        *)
(* transaction that was refused or reverted (transactionErrorHandler.ts:356-*)
(* 367); the deposit form waits for no attempt and no price update that has *)
(* ended, well or badly (useSwitchboardPriceUpdater.ts:183-201); a faucet   *)
(* button waits for a loop or a request under way (FaucetInterface.tsx:169- *)
(* 252).  Not covered, since the code does not do it: the loading toast     *)
(* after a success stays (transactionErrorHandler.ts:350-354), and so does  *)
(* a token's faucet button after a claim that was mined and reverted        *)
(* (FaucetInterface.tsx:48-50, 241-252).                                    *)
LoadingReleased == /\ Flow!FailureEndsLoading
                   /\ Dashboard!FormReleased
                   /\ Pages!ButtonsReleased

(* The amounts computed for a tier are worth it at the prices they were     *)
(* computed from, but for the last digit (useDualStakingTiers.ts:86-124).   *)
TierNearlyReached == Dual!TierNearlyReached

(* However many runs of the scripts stopped half way, a file they wrote     *)
(* names one working system (deploy-with-mocks.cjs:84-259 and the others).  *)
SavedIsWired == Scripts!SavedIsWired
=============================================================================
