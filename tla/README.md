# StakeBasket verification

TLA+ models of the contracts and services of StakeBasket, the TLC runs that check them on small
instances, and the theorems TLAPS proves about them for every instance. Paths below are relative to
the repository root unless they name a file of this directory.

## The system

StakeBasket is a staking basket on the Core chain. Users deposit CORE and receive BASKET shares;
the basket delegates what it holds to validators and liquid staking protocols, takes fees, and
passes part of them to those who stake their BASKET. BASKET also votes. Around the contracts run a
Node backend (monitoring, alerts, automation, a faucet) and a React frontend.

| component | state | operations | speaks with |
|---|---|---|---|
| `BasketStaking` | stake records, tier counts, reward index, fee pool, withdrawable rewards | stake, unstake, claimRewards, withdrawRewards, depositProtocolFees, receive, emergencyWithdraw | BASKET token; receives fees from `StakeBasket`; read by `BasketGovernance` and `StakeBasket` |
| `BasketGovernance` | proposals, tallies, delegations, parameters | propose, castVote, queue, execute, cancel, delegate, four setters | BASKET balances and supply, voting multiplier of `BasketStaking` |
| `StakeBasketToken` | supply, balances, the controlling contract and its timelocked successor | mint, burn, propose/confirm/cancel/emergency change of the controller | `StakeBasket` |
| `CoreLiquidStakingManager` + `StCoreToken` | delegations per validator, unstake requests, fees; stCORE supply and the CORE behind it | stake, requestUnstake, fulfillUnstake, rebalance, manualRebalance, afterTurnRound, validator list, setters, pause | Core staking contract, `UnbondingQueue` |
| `UnbondingQueue` | requests (global and per user), liquidity, provider shares, reserve | requestUnbonding, processInstantWithdrawal, processReadyRequests, provide/withdrawLiquidity, rebalance, setters | its owner (the manager or the basket) |
| `StakeBasket` | pooled CORE and lstBTC, withdrawal requests, fee state | deposit, requestWithdrawal, processWithdrawal, instantRedeem, redeem, claimAndReinvestRewards, delegateCore, collectFees, setters, pause | `StakingManager`, price feed, BASKET token, `BasketStaking` |
| `StakingManager` | delegations per validator, lstBTC held | delegate, undelegate, claim, mint/redeem lstBTC, rebalanceCoreStaking, validator list | Core staking, lstBTC |
| `DualStakingBasket`, `SatoshiTierBasket`, `SimpleStaking` | CORE and BTC pools, shares, ratio, failure counter | deposits, redeem, rebalance with retries, compoundRewards, keepers, pause | DEX router, dual staking contract, price feed |
| `PriceFeed`, `CoreOracle`, `API3PriceFeed`, `SimplePriceFeed`, `PriceSecurityModule` | prices with time and bounds, circuit breakers, TWAP ring | updates from push and pull sources, validation, emergency mode | oracles; read by the baskets |
| `AccessControlManager` | timelocked proposals, role holders, pause flag | create, execute, cancel, emergencyExecute, pause, role batches | the contracts it administers |
| `CoreDAOGovernanceProxy`, `CoreDAOLiquidBTC` | proxied votes and delegations; tokenised BTC deposits | create/execute proxies; mint, redeem | CoreDAO, `BasketGovernance`, a custodian |
| backend automation | tasks with their next run; the rebalancing job with its history; governance cycles; the oracle updater | cron jobs, intervals, HTTP routes that start, stop and configure | contracts through RPC, Snapshot, price API |
| backend reporting | validator lists and reports; metrics, alerts and their cooldowns; faucet cooldowns, rate limits | jobs, routes | contracts, Core API |
| frontend: access | chain of the wallet, modal, network store, contract addresses; prices with two caches and a request limiter | effects, timers, switching of chains | wallet, oracle, Core API, CoinGecko |
| frontend: pages | forms, cached reads, requests the wallet was asked, toasts | deposits, redemptions, staking, governance, faucet, dual and simple staking | wallet, contracts |
| deployment scripts | what was deployed, wired and written to the address files | one script each; may stop at any transaction | contracts, each other's files |

### What is hard here

* **Interleaving.** Any account may call any operation between any two transactions of another.
  Two-step operations (claim then withdraw, request then fulfil, propose, vote, queue, execute) are
  open to everything that happens in between.
* **Derived state.** A proposal's state is recomputed from the clock, the tallies and the supply;
  a share is worth what the pool and the price say at the time; tier counts and reward debts are
  kept up to date by differences only.
* **Rounding and checked arithmetic.** Every quotient is rounded down, every subtraction reverts
  below zero: a bookkeeping slip locks funds in.
* **Time.** Delays, cooldowns, expiry windows, stale prices.
* **Partial failure.** Calls in `try/catch`, swaps that fail, retries with a failure counter; a
  deployment script that stops between two transactions.
* **Awaits.** The backend is one thread, so its handlers interleave exactly at their awaits: what
  was checked before one is used after it (cooldowns, `isRunning`, `nextRun`). Services that look
  shared are instances of each module that imports them.
* **Effects and renders.** A page acts on the values of the render a click was made in, while reads,
  timers, wallet answers and changes of chain arrive in any order; `writeContract` does not throw,
  and a second request on the same hook hides the outcome of the first.

### What makes each component correct

* `BasketStaking`: the stored tier is the tier of the amount and the five counters count exactly
  the stakers of each tier; a settlement never reverts, so no stake is locked in; staked tokens and
  accepted claims stay covered by balances; only a fee raises what anybody is owed.
* `BasketGovernance`: a tally is the sum of one vote per voter; what is executed had a majority and
  waited for its vote and its delay; a closed vote stays closed; a decision is taken once.
* `CoreLiquidStakingManager`: the rate never falls; the CORE behind the stCORE is at some listed
  validator; open requests are covered by stake and by escrowed stCORE.
* `UnbondingQueue`: the totals agree with the queue, the two copies of a request agree while it is
  open, a request is processed once and when due, and a provider who comes or goes does not cost
  the others.
* `StakeBasket` and `StakingManager`: leaving never costs those who stay, no share is left without
  CORE, escrowed shares cover the open requests, and the pool's count departs from the coin and the
  stake it stands for only where fees and simulated rewards make it.
* `StakeBasketToken`, `AccessControlManager`, the committee of `CoreDAOGovernanceProxy`: an
  operation takes effect only after its delay and once for each time it was announced.
* `DualStakingBasket`: what the shares stand for and what is counted as staked agree with where the
  assets are, whichever swap, staking or unstaking failed; nobody takes more than the part of the
  shares; rebalancing pauses after its failures and not for ever.
* `PriceFeed` and `PriceSecurityModule`: no oracle moves a guarded price far in one call, a gradual
  update ends at its target, and what a price is compared with is an average of recent ones.
* Backend: a due task runs whatever another one does; cycles stay apart; what is cast is what the
  holders passed; every quote, or a newer one, reaches the chain; cooldowns hold.
* Frontend: what is shown is of the chain the wallet is on, once the network store has followed it,
  and at rest what the contracts hold; the ends a page hears of release what it shows as under way;
  no second attempt to deposit gets to the wallet while the first waits for its price.
* Deployment: an address file names contracts that point to each other.

## Modules

### Contracts

| module | models | state ↔ code | composes |
|---|---|---|---|
| `BasketStaking` | `contracts/core/staking/BasketStaking.sol` | `stakeInfo`, `tierCounts`, `totalStaked`, `rewardIndex`, `protocolFeePool`, `withdrawableRewards` are the variables of these names; `wallet` and `vault` are the token's balances, `ethBalance` the contract's coin | – |
| `BasketGovernance` | `contracts/core/governance/BasketGovernance.sol` | one record per proposal, `State(i)` is `state()`; delegations, votes and the four settings; `canceled` is a history variable (the code keeps no such flag) | `Staking == INSTANCE BasketStaking`: stakes, tiers and multipliers move between votes |
| `LiquidStaking` | `CoreLiquidStakingManager.sol`, `StCoreToken.sol` | validators, targets, stake per validator, requests, fees, pause; stCORE supply, balances and the CORE counted behind it. What the staking contract answers is chosen anew at each call (`Views`) | manager and token in one module, since each call moves both |
| `UnbondingQueue` | `UnbondingQueue.sol` | both copies of each request, totals per asset, liquidity, shares, reserve, settings | – |
| `StakeBasket` | `StakeBasket.sol`, `StakingManager.sol`, mint and burn of `StakeBasketToken.sol` | shares, pool, coin (`held`), queue, settings; the manager's list and stake per validator; the feed's price (0: fallback) | basket and manager in one module: `deposit`, `delegateCore` and the claims are one transaction over both |
| `Timelock` | nothing: the **abstract specification** of a delayed operation | announce, withdraw, take effect, clock | implemented by the next three |
| `DelayedContracts` | – | the next three on one chain, with one clock | `Token`, `Manager`, `Committee` are instances of them |
| `TokenAuthority` | the timelocked change of controller in `StakeBasketToken.sol` | current and pending contract, its time | `Lock == INSTANCE Timelock WITH …` |
| `AccessControlManager` | `contracts/security/AccessControlManager.sol` | roles, proposals, nonce, last emergency action | `Lock == INSTANCE Timelock WITH …` |
| `GovernanceCommittee` | the committee of `CoreDAOGovernanceProxy.sol` | members, approvals, counts, times, all per action hash: the code ties no target or data to one | `Lock == INSTANCE Timelock WITH …` |
| `Authority` | – | the constants and assumptions the three share | – |
| `DualStakingBasket` | `DualStakingBasket.sol`, `SatoshiTierBasket.sol` | the *book* is what a call moves: pooled and staked amounts and where CORE (coin or ERC-20) and BTC really are; shares, settings, failure counter, pause. A call that hangs on router and staking contract is the set of books it may leave, empty where it reverts | – |
| `PriceFeed` | `contracts/integrations/oracles/PriceFeed.sol` for one asset | price with its time, last known good price, gradual update, breaker, sources, switches | – |
| `PriceSecurityModule` | `contracts/security/PriceSecurityModule.sol` for one asset | ring, index, settings, emergency; validation is an operator over them, as it is a view | – |

### Backend

| module | models | what interleaves |
|---|---|---|
| `AutomationEngine` | `AutomationEngine.ts` and its routes | passes of the cron job with each other and with the routes' own engine |
| `AutomatedRebalancer` | `AutomatedRebalancer.ts` | checks that await the metrics with start, stop and settings |
| `GovernanceAutomation` | `GovernanceAutomationService.ts` over `CoreDAOGovernanceService.ts` | cycles after emergency stops and restarts, at each call of the chain and of Snapshot |
| `OracleUpdater` | `OracleUpdater.ts`, `routes/oracle.ts` | updates in flight, mined in any order, and updaters started and stopped |
| `Validators` | `CoreAPIService.ts`, `ValidatorMonitor.ts`, `routes/validators.ts` | nothing: pure over the answer, checked over every answer of three validators |
| `Faucet` | `routes/faucet.ts` behind `middleware/` | requests at their awaits |
| `Monitoring` | the jobs of `index.ts`, `MetricsCollector.ts`, `AlertManager.ts`, `ContractMonitor.ts` | jobs over one manager, and the routes' other one |

### Frontend and deployment

| module | models | what interleaves |
|---|---|---|
| `TransactionFlow` | the hooks that send (`useStakeBasketTransactions.ts`, `useGovernanceTransactions.ts`, `useSparksTransactions.ts`, `useDualStakingTransactions.ts`) and `transactionErrorHandler.ts` | clicks, wallet answers, receipts, effects |
| `NetworkAccess` | `useNetworkDetection.ts`, `networkHandler.ts`, `NetworkSwitcher.tsx`, the network and contract stores | changes of chain, effects, the two timers, reloads |
| `PriceData` | `useRealPriceData.ts`, `requestLimiter.ts` | runs of the effect, cleaned up or not, over sources that fail or answer late |
| `StakingPage` | `StakingInterface.tsx` and its forms | approvals, stakes and reads fetched again |
| `DashboardForms` | `StakeForm.tsx`, `useSwitchboardPriceUpdater.ts`, `handleDeposit` of `dashboard.tsx`, `useStaticData.ts`; `ApiWithdrawForm.tsx` | attempts to deposit with their captured values, price updates, simulations, the wallet; typing a withdrawal and its simulation |
| `GovernancePages` | `GovernanceInterface.tsx`, `CoreDAOGovernanceInterface.tsx`, the store they take the address from (`useNetworkStore.ts`, set by `Web3Provider.tsx`) | cached reads by chain, answers for a chain the wallet left, effects, changes of chain and the half second in which the address is still the old chain's |
| `DualStakingPage` | `DualStakingInterface.tsx`, `useDualStakingTiers.ts` and the form | prices, cached reads, approval and deposit |
| `NewestRequestPages` | `FaucetInterface.tsx`, `SimpleStaking.tsx` | two pages that follow one `useWriteContract` each, which reports only the newest request: buttons and the loop over the faucet's tokens; approval and deposit asked at once, the delayed refetch |
| `Deployment` | `scripts/deploy-*.cjs` | scripts that stop anywhere and read each other's files |

### Instances and proofs

| module | holds |
|---|---|
| `MCBasketStaking` | `BasketStaking` and `DualStakingBasket`, which share nothing (both extended) |
| `MCBasketGovernance`, `MCLiquidStaking`, `MCStakeBasket` | the module of that name |
| `MCContracts` | `UnbondingQueue` and `DelayedContracts` |
| `MCBackend` | `GovernanceAutomation`, `Faucet`, `Monitoring`, `PriceFeed` and `PriceSecurityModule` (extended, for their proofs), and instances of the other four services' modules |
| `Frontend` | the composition of the eight frontend modules and of `Deployment`, its constants given in the configuration, so that it is proved about as it is checked |
| `MCLiveness` | smaller instances of `AutomationEngine`, `GovernanceAutomation`, `OracleUpdater`, `NetworkAccess` and `PriceData`, with their fairness |
| `…Proofs` | theorems of the module they are named after; `ContractsProofs` of those that `MCContracts` extends, `ApplicationProofs` of those that `MCBackend` extends and of `Frontend` |
| `SumTheorems` | lemmas about sums over finite sets, for the contracts' proofs |

Where an MC module holds several instances that share nothing, each behaviour moves one of them
(`moving`): the product would only repeat each one's states once for every state of the others.
Properties of several of them may then be one conjunction, with a comment that takes it apart.

In the contracts one action is one external function: every check, every internal call and every
assignment of the function is in it, because a transaction is atomic and a revert leaves no trace.
`\E` in `Next` ranges over callers and arguments. In the backend and the frontend one action is what
runs between two awaits, or one effect, timer, answer or click, with everything it calls before it
yields. Integers are unsigned and 256 bits wide in the contracts, far above any amount of coin, so
widths are not modelled, but zero is: a checked subtraction is a guard or an update whose range the
type invariant watches. Constants with a time in them (delays, periods, cooldowns) are small numbers
with the order the code gives them.

Time is a variable that `Tick` moves. Histories, which the code does not keep, are marked as such
where they are declared (`earned`, `claimed`, `canceled`, `called`, `confirmed` and a few more).

## Runs

| run | question | bounds that matter |
|---|---|---|
| `basket_staking` | Are tiers, counters, rewards and balances right in every order of stakes, fees, claims and payments? And do the books of the basket of CORE and BTC agree with its assets, whichever call fails? | staking: two accounts with 4 and 1 tokens and a threshold at each of 1 to 4, so one climbs and leaves all tiers; index precision 2, so that shares round; 3 fees; one emergency withdrawal. Basket: deposits of 38 CORE (in halves) and 20 BTC, parts of 30 and 78 percent, prices, ratios and a 1 % keeper's fee whose quotients do not divide; four moves |
| `basket_claims_proportional` | Does a claim pay the documented share? **No** | one tier, precision 1 |
| `basket_governance` | Is a tally one vote per voter, while tokens move? Does the life of a proposal survive every setter, at every moment? | two accounts, one proposal; transfers, stakes, delegations, mints and burns of 10 of 20; all percentages the setters distinguish; six seconds for vote, delay, grace and after |
| `basket_governance_cancel` | Is a cancelled proposal dead? **No** | as above, no transfers |
| `basket_governance_weight` | Do votes stay within the supply? **No** | one stake or delegation of 10 |
| `liquid_staking` | Is the stCORE backed, does its rate never fall, and does the stake follow the validator list? | precision 2 and a reward of 5, so both conversions round; two open requests; three validators, of which at least three stay listed; the staking contract answers that all are well, that one is jailed, or that none is fit, anew at each call |
| `liquid_staking_payout` | Can a due request be paid? **Not from the manager's own funds** | one holder |
| `stake_basket` | Do shares keep their value, and pool and stake their relation? | deposits of 60, parts of 25, prices 1/2 and (fallback) 3/2: no quotient is exact; one waiting request; fees up to the setters' limits |
| `contracts` | Do queue and pool keep their accounts? Do the three contracts with delayed operations implement `Timelock`? | three requests of two users and assets with different periods; two providers, amounts that do not divide; three accounts, one or two targets, two proposals, delays of 1 and 2 |
| `backend` | Do services whose handlers interleave at their awaits keep what they report, count and cast? Does the feed's breaker bound what it accepts? | two or three calls of a service in flight; a cooldown for each way two alerts can fall; prices 70, 100, 112 and 130, which are within, beyond and far beyond a tenth of each other; a ring of three slots that four prices wrap |
| `frontend` | Does what a page shows come to agree with the chain, and do the ends it hears of release what it shows as under way? | three chains, one without governance; two answered reads of the governance pages, one with a form open or a request at the wallet; two attempts, two transactions of a page; two runs of the scripts, the second of which meets what the first left |
| `liveness` | Does what must happen in the end happen? | the smallest instances in which two passes, cycles, updates or runs overlap; of the engine two tasks that fall due together, the first of which may throw every time, with one between them that is off and one more pass under way |

The runs marked **No** check one property each that a document or comment of the repository states;
TLC's counterexample is the finding in `PROJECT.json`. All others pass.

What the properties of the passing runs say:

| property | says | parts, where it is a conjunction |
|---|---|---|
| `TierMatchesAmount`, `SettlementNeverReverts` | the stored tier is that of the amount; no stake is locked in by a checked subtraction | |
| `Solvent` | staked tokens and accepted claims are covered by balances | `StakesBacked`, `ClaimsBacked` |
| `OnlyFeesRaisePending` | only a fee raises what anybody is owed | |
| `BasketShareKept` | of the baskets of CORE and BTC: nobody takes out more than the part of the shares, and the books agree with the assets | also `PoolBacked`, `SharesAddUp`, `StakeCounted`, `StakeCovered`, `BreakerHolds` after every step |
| `TallyExact`, `MajorityRules`, `DelayRespected`, `DecidedOnce` | one vote per voter; a majority stands behind what is executed, after its time, once | |
| `StakeBacked`, `NoOrphanStake`, `RateNeverFalls` | CORE behind the stCORE is at listed validators, and its rate never falls | |
| `RequestsBacked` | an open request can be burned and is worth its payment | `TypeOK`, `RequestsCovered`, `EscrowCovers`, `HoldersCovered` |
| `SharesHaveAssets`, `LeavingKeepsValue` | no shares without a pool; who leaves takes no more than a part | |
| `RequestsPayable` | a queued withdrawal is burned once, when due, and can be | `TypeOK`, `EscrowCovers`, `HoldersCovered`, `ProcessedOnceWhenDue` |
| `PoolAccounted` | only fees and simulated rewards part the pool's count from its assets | `BackingKept`, `OnlyRebalanceStrays` |
| `AccountsExact`, `ProcessedOnceWhenDue`, `ShareValueKept` | of the `UnbondingQueue` | of the first `TypeOK`, `QueueExact`, `CopiesMatch`, `SharesExact`, `SharesWithin` |
| `Timelocked` | refinement of `Timelock` by the token, the manager and the committee | one each, `ApprovalsDistinct`, and `TypeOK` of the first two |
| `CyclesBounded`, `CastFollowsHolders` | cycles in flight are those the flag and the emergency stops account for; what is cast is what the holders passed | |
| `GrantsSpaced` | a request that passes the cooldown finds none of its address's grants in it, but those of a request for all tokens still under way | |
| `ReportsAgree` | what is counted or reported twice is counted alike: the rebalancer's status and history, a validator's ranks and summaries | `StatusConsistent`, `RanksAgree`, `SummariesAgree` |
| `AlertsHold` | alerts of a rule keep their cooldown and refer to a metric | `AlertsSpaced`, `AlertsHaveMetrics` |
| `PricesGuarded` | no guarded update moves the price far; a gradual one arrives | `UpdatesBounded`, `GradualArrives` |
| `AveragesSound` | what a price is compared with is an average of recent ones, which lets a steady price through | `TwapSound`, `SteadyAccepted` |
| `NetworkSettles`, `ReadsCatchUp`, `TierNearlyReached`, `SavedIsWired` | of networks, the staking page, the tiers, the scripts' files | |
| `ShownOfChain` | once the run of the price effect has ended, or the network store has followed the wallet: the price, no power or proposal without governance, the pause are of the wallet's chain | `PricesOfChain`, `NothingWithoutContract`, `PauseOfChain` |
| `LoadingReleased` | no loading toast of a refused or reverted transaction, no deposit form waiting for what has ended, no faucet button without a loop or request, but after a claim that reverted | `FailureEndsLoading`, `FormReleased`, `ButtonsReleased` |
| `OneAtATime` | no second attempt to deposit passes while one waits for its price (one that waits in the wallet does not block a new click); the simple page has one deposit and one withdrawal under way | `OneAttemptAtATime`, `OneDepositAtATime` |
| `DueTaskRuns`, `GuardReleased`, `QuotesReachChain`, `WrongNetworkTold`, `PricesLoad` | liveness | |

Bounds are of three kinds. *Values*: amounts small enough to enumerate and chosen so that the
quotients of the code round and its limits are hit on both sides. *Counters* (`Max…`, and sets of
numbered calls in flight such as `Cycles`, `Requests`, `Runs`): guards that stop unbounded growth;
each is large enough for the case its run is about to happen and to happen again after everything
else moved. *Slices*: where the whole product is too large, the `CONSTRAINT` of an MC module
explores parts of the state space that interact little, named there: the holders' tokens or the
owner's settings (`MCBasketGovernance`), the holders or the validators (`MCLiquidStaking`), the
shares with nothing delegated or the delegation with one holder (`MCStakeBasket`), the queue or the
pool (`MCContracts`), one alert manager (`OneManager` of `MCBackend`), one thing at a time on a page
(`FewAtOnce` of `Frontend`), one holder and few changes of the owner (`MCBasketStaking`). A state
just outside a constraint is still checked, it is only not continued from. The theorems below do not
depend on any of these, and cover the slices' seams for what they prove.

Deadlock is not checked in any run: the clock and the counters stop at their bounds, and accounts,
users and services that have used up their tokens or calls have nothing left to do.

**Fairness.** Contracts act only when somebody calls them, and nobody has to: their specifications
assume none, and "this eventually happens" is asked of them as safety (`DueRequestPayable`: it can
be paid when it is due). `MCLiveness` assumes what the process and the browser give while they are
up: the cron job and the intervals fire again and again, an awaited call gets an answer, an error or
its timeout, a page's timers fire (all weak), and, for the oracle updater, neither the price API nor
the chain fails for ever, nor are the bounded slots of updates always somebody else's (strong). The
user and the wallet owe nothing: nobody has to click, sign or switch.

## Proofs

TLAPS checks every theorem and lemma; nothing is assumed beyond the named `ASSUME`s of the modules,
which say that sets of accounts and validators are finite, amounts and prices natural, divisors
positive, periods natural numbers, that a rule's cooldown, the collector, the ring of prices and the
time of a deployment are not zero, and that no chain is called what stands for none. No theorem has a
hypothesis besides the specification.

* **`BasketStakingProofs`**: `TypeCorrect`, then `TiersMatch`, `CountsExact`, `NeverReverts` from
  the inductive `IInv`. None of the three is inductive alone: that a settlement does not revert
  needs that `rewardDebt` was computed with an index not above today's (`DebtCovered`), and that a
  counter can be lowered needs that it counts the very staker who leaves (`CensusMoves`,
  `CountedAboveZero`). `OnlyFeesOwe` adds that a restake leaves what is owed as it was.
  `AlwaysSolvent`: four equations between a balance and a sum over the accounts (`Books`); with the
  types they are inductive, since every action moves one account and one total by the same amount.
* **`BasketGovernanceProofs`**: `GovTypeCorrect` uses the staking lemmas through the instance.
  `TalliesAlwaysExact`: a vote is one more voter (`OneMoreVoter`), whose choice and weight are fixed
  by the vote (`WeightsKept`), so the three sums move by that weight and the union of the choices
  stays disjoint. `BallotsClose` and `DecisionsStand` are action properties; `MajorityAlways` is
  inductive with the types, where the majority asked for is at least 51 percent and no vote is cast
  after the execution; `DelayAlways` needs the strengthening `Schedule` that ties a proposal's end,
  its earliest execution and its state together, for uncancelled proposals (a cancelled one breaks
  it, which is the finding).
* **`LiquidStakingProofs`**: all from the inductive `LiquidInv`. `StakeAlwaysBacked` and
  `NoOrphanStakeAlways` need each other: the sum of the stakes is kept only if the list names each
  validator once (`ListedOnce`), all stake is at listed ones (`AtListed`), a rebalancing pairs each
  validator above its target with at most one below it (`PairedOnce`) and moves no more than the
  first one has (`GapWithin`). `RequestsAlwaysBacked`
  needs that balances add up to the supply (`SupplyExact`) and that the manager's own stCORE is the
  sum of the open requests (`EscrowCovers`); what a request is worth at the rate of its day it is
  worth ever after because the rate never falls. `RateNeverFallsAlways`: the two roundings of the
  conversion go the same way, in favour of those who stay.
* **`ContractsProofs`**, of the queue: `AccountsAlwaysExact` from the types, `QueueExact` (the total
  per asset is the sum over the open requests of the queue), `CopiesMatch` (the k-th copy of a
  user is their k-th request in the queue, which counts the places before it) and `SharesExact`;
  `ProcessedWhenDue` by the same; `ValueKept`, that a provider who comes or goes costs the others
  nothing, by cases of the rounded quotients. Of the contracts with delayed operations:
  `CountsAreDistinctApprovals` (a count never exceeds the accounts
  whose approval stands, by cardinalities of finite sets), and `DelaysAlwaysKept`: initial states map
  to initial states, and every step of one contract to a step or a stutter of each of the three
  timelocks, the other two included: a transaction of one is at most a `Tick` to the others. The
  manager's refinement needs that identifiers not given out yet hold nothing and that a pending
  proposal has a time (`ManagerInv`).
* **`StakeBasketProofs`**: all from the inductive `BasketInv`. `LeavingNeverCosts`, through the
  three quotients of `_calculateCoreToReturn` at any price (`ReturnWithinPart`), `NoEmptyShares`,
  `RequestsAlwaysPayable`, and `PoolAlwaysAccounted`, where what a claim or a fee makes the pool's
  count depart by is bounded by the parts sent to validators (`PartsWithin`).
* **`DualStakingBasketProofs`**: `BasketSharesAlwaysKept` from the inductive `BasketInv`. A call is
  a chain of books (a sale, a staking, an unstaking, a payment), and each link keeps the pool's
  count as far from the assets as it was (`SamePool`), so only what the owner rescues or strangers
  send moves `PoolBacked`. `StakeCounted` needs more than it says: until the owner names another
  contract all stake lies at the first one (`Sound`, `AtFirst`), or an unstaking, which asks the
  present contract for a share of what it holds, would not give back what it takes off the count.
  That a redeemer takes no more than the part of the shares is the rounding of two quotients
  (`PartOfPool`, `PortionLeaves`), and that a newcomer does not dilute the others is `NotDiluted`,
  for every price (`ValueOfSum`).
* **`ApplicationProofs`**, of the backend and the contracts that keep its prices, from one inductive
  invariant per part. `CyclesAlwaysBounded`: a cycle that ends must be one in flight, and a step
  moves one cycle only (`CycleMoves`), so the count of those in flight moves with the flag, and each
  emergency stop, which clears the flag behind a cycle's back, is counted once. `CastAlwaysFollows`:
  a vote on Snapshot stands for a proposal whose vote has ended, whose outcome the tally fixes
  (`SucceededPassed`) and whose title no later cycle changes, so what is cast for it never comes out
  differently (`CastStands`). `GrantsAlwaysSpaced`: each grant is covered by a cooldown set after it
  or by a request for all tokens that has yet to set it (`Covered`), whichever request comes
  between. `PricesAlwaysGuarded`: a judged price is near the old one on every path through the
  breaker (`JudgedUpdate`), the backup's answer included, and a gradual step lies between the price
  and its target, by the rounding of its quotient. `AlertsAlwaysHold` (`MonitoringInv`): no alert of
  a rule is later than the rule's last time and that time is an alert's (`Raised`), so the cooldown
  that is read from the last time separates all alerts of the rule; the rules of a category are
  tried in turn and each reads its own time only (`RuleTried`), which is why an extreme movement
  finds the high deviation just reported or still in its cooldown. The metrics are sorted by time
  and never more than the collector takes (`Collected`), so the one that is pushed out leaves none
  but newer ones (`Remembered`). `AveragesAlwaysSound` (`SecurityInv`): some slot holds the newest
  price, wherever the ring wraps, so a feed that is not silent for a window has an average; a
  weighted sum lies between the total weight times the least price and times the greatest
  (`WeightedAbove`, `WeightedBelow`), for every set of slots; and as no configuration allows more
  than half as a deviation, a price no further than that from all prices of the window is no further
  from any number between two of them (`DeviationAbove`, `DeviationBelow`), the rounding of the
  quotients included.
* **`ApplicationProofs`**, of the frontend: `FrontendInv` is one inductive invariant per page, and
  `FrontendStep` says that a step of the composition is a step of one page or leaves it alone
  (`StepOf…`), so each page is proved by itself, for all its constants. `NetworkAlwaysSettles`
  (`NetworkInv`): the store's timer and the modal's timer, while they are set, tell of the chain the
  wallet is on, which no effect may break, mounted or not. `ReadsAlwaysCatchUp` (`PageInv`): a read
  that is not in flight is what the contracts hold, unless a mined transaction's end has yet to be
  seen or was missed, whatever order reads and receipts come in. `AlwaysShownOfChain` (`PriceInv`,
  `PagesInv`): at most one run of the price effect is not cleaned up and it is of this chain, so a
  late answer of another is not shown; of the governance pages (`PagesInv`), what is shown at any
  time is what the effects make of the address and the reads of that time (`AddressOf`, `SeenOf`),
  and without the store's timer these are of the wallet's chain; in the half second before they are
  not, and the theorem does not say so. `LoadingAlwaysReleased` has a part for each of three pages: a
  toast of a transaction that fails belongs to a request that has not ended (`TransactionInv`), the
  deposit form simulates exactly while an attempt is under way and updates only while a fetch or a
  transaction is (`WaitInv`), and a faucet button is one of the loop, of the request its hook hears
  of, or of one that was mined and reverted (`FaucetPageInv`). `AlwaysOneAtATime`: of all
  attempts to deposit one at most has not ended, and it is the one the form waits for; the simple
  page's newest deposit and withdrawal are the only ones (`SimpleInv`). `TierAlwaysNearlyReached`:
  the two rounded amounts differ from the exact ones by less than a digit each, for every price of
  CORE and BTC (`EnoughAdded`).
  `SavedAlwaysWired`, of the scripts: first what each script does at each place (`ProductionListed`
  to `TestnetListed`), with it that each connection a file relies on is made once and undone by no
  later step (`Wired`); then `ScriptsInv`: past the place where it is made, a connection stands
  between the two contracts the process holds (`Followed`), and until a script saves its own file
  no file names a contract it still changes (`Unsaved`), so a script that stops half way leaves the
  files of the others true. Two scripts never reach their file: a constructor refuses
  (`OthersRefused`).
* **`SumTheorems`**: what a sum over a finite set is after one of its values changed, an element
  came or went, two values were moved against each other, or all were scaled; all but the last of
  the above rest on it. `SumFunctionOnSet` is a fold, so these facts are inductions over finite
  sets. The library's induction theorem takes an operator as a parameter, which the installed
  provers cannot instantiate; `FiniteSetInduction` states it for a set of good subsets instead, and
  is proved from the well-foundedness of the strict subset ordering: a smallest subset without the
  property would be neither empty nor one with an element more than a good one.

Of the safety properties one is only model-checked: `ReportsAgree` of the backend, whose counts are
folds and selections with `LAMBDA`s over lists (a fact about them is an induction over data).
`CountsExact`, `BallotsClose` and the types of `BasketStaking`,
`BasketGovernance` and the committee are proved and have no run to themselves, as no bound adds to a
proof. Out of the prover's reach altogether are liveness under fairness, `ENABLED`, and what a
recursive definition computes for every input; `RECURSIVE` operators are used nowhere here.

## What is not modelled

`PROJECT.json` lists every component with its status. Not modelled:

* `SimpleStaking` and its tokens: a reduced deployment of the ideas of `DualStakingBasket` (its page
  is modelled over an external contract); the proxied half of `CoreDAOGovernanceProxy`;
  `CoreDAOLiquidBTC`. All three are in the plan.
* `CoreOracle` and `API3PriceFeed`: no contract of the system reads them.
* Factories and deployment contracts, configuration, mocks: one-shot code, or stand-ins.
* Dead code of the frontend, which no page reaches: `useSingletonData`, `useTransactionHistory`,
  `useContractHealth`, `usePriceFeedManager`, `useHybridRedemption`, `useDualStakingStore`,
  `useWithdrawFlow`, and the components `Dashboard.tsx`, `DashboardV2`, `LiquidStakingInterface` and
  `UnbondingQueue.tsx`.
* Of the backend: transactions of `ValidatorMonitor` (no wallet is ever configured), the status
  route of the faucet, keys and signatures of requests, the e-mail, webhook and socket outputs.
* Within what is modelled: events, strings, getters without effect, rescue functions of foreign
  tokens, gas, layout and wording. A read of a page is one step, its return: that a refetch joins a
  first read under way, which leaves the page without data to act on, is not told apart. What a
  proposal's target does when it is called is left out of the timelocks; what the wallet, the chain
  and the outer services answer is chosen anew each time.

## Known disagreements

Between code and documents or comments, or between parts of the code, visible in one function, so
that no run is spent on them.

### Contracts

* `docs/GOVERNANCE_SYSTEM.md:82` lets rewards be claimed at any time; `BasketStaking.sol:159`
  requires the whole multiplied reward in a pool that received unmultiplied fees.
* With `majorityPercentage` 100, which the setter accepts, `BasketGovernance.sol:290` never holds.
* `CoreLiquidStakingManager.sol:136-140`: with an `UnbondingQueue` set, the escrowed stCORE is never
  burned; and all functions of the queue are `onlyOwner` while the manager only calls
  `requestUnbonding`, so what an owning manager queued can never be processed.
* `CORE_UNBONDING_PERIOD` is one day; `contracts/README.md:587`, `docs/TESTING_GUIDE.md:38` and
  `README.md:219` say seven.
* `UnbondingQueue.sol`: processing marks one of the two copies (246), so
  `getUserPendingRequests` (207) lists completed requests; the replenishment promised at line 21 is
  not in `processReadyRequests` (247); `provideLiquidity` divides by zero after the owner resets the
  liquidity to 0 with shares outstanding (274); an instant fee of 0 stops instant withdrawals (157);
  the reserve's size is not adjusted when liquidity moves (342).
* `StakeBasket.sol:463` pays a dollar value as an amount of CORE; `:452` charges the first deposit
  for the time since deployment; `:184` undelegates nothing.
* `StakingManager`: delegation counts only listed validators, `rebalanceCoreStaking` (375) accepts
  targets that are not listed.
* `executeGovernanceAction` (584-605) calls any target with any data: the committee approves a hash
  to which neither is tied, so `Timelocked` says of it when a hash may be spent, and how often, not
  what is called.
* `CoreDAOGovernanceProxy.sol:626` says that resuming needs the committee; line 628 needs the owner.
  "Clear all approvals" (598) clears those of present members. The concentration limit (307) refuses
  every first delegation.
* `DualStakingBasket`: a deposit is added to the pool before its shares are computed (249-262,
  711-725), so a newcomer gets `deposit * supply / (old total + deposit)` shares, half of what the
  same deposit got before. Native CORE is paid out as the ERC-20, which is not there when no token
  is set; ERC-20 CORE is never staked. The keeper (349-357) is paid a dollar value as an amount of
  CORE, also for a rebalancing that swaps nothing. Unstaking in shares of 1/10000 rounds down
  (678-690), so the holder of less than 0.01 % of a fully staked pool redeems only if assets lie
  unstaked. BTC has 8 decimals, ratio, swaps and the minimum of `SatoshiTierBasket` count 18. Fees
  are never collected; the check of the breaker at 385-389 cannot be reached.
  `test/unit/DualStakingBasket.test.cjs:41` expects a bronze minimum of 1000, line 158 of the
  contract has 100.
* `PriceFeed.sol:642` says that emergency mode "disables all automatic updates"; they go on, and
  unchecked. A triggered breaker blocks neither reads nor updates. Anybody may run all gradual steps
  in one block, and there may be one more than `MAX_PRICE_UPDATE_STEPS` (or nearly twice as many,
  where the step rounds to 1). The target stays after direct updates. `useLastKnownGoodPrice` swaps
  the two prices and renews the time; an update that trips the breaker overwrites the last good
  price with the current one; `setPythPriceId` activates an asset with price 0; the check for
  staleness is off by default.
* `PriceSecurityModule`: `updateTWAPData` stores any price; activating emergency mode twice reverts
  in `_pause`; no contract calls the module, and once it heard nothing for a window every validation
  reverts.

### Backend and deployment

* `ValidatorMonitor` never gets a wallet or a manager, so its rebalancing always answers "not
  configured"; its split leaves the remainder of an odd total undistributed.
* The toggle route changes the engine of its own module and not the one the cron job runs.
  `OracleUpdater.ts:61`: a stop during the first await of a start leaks the interval, though
  `oracle.ts:189` answers "stopped successfully".
* `GovernanceAutomationService`: the aggregated vote names the basket's proposal instead of the
  Snapshot one; only the last ten proposals are looked at; a failed creation ends the cycle.
* `deploy-complete-system.cjs` (`deploy:local`) and `deploy-testnet2.cjs` stop at a constructor
  called with too few arguments. The production script saves a basket that cannot mint, with "All
  contracts are ready to use" (217). `verify-deployment.cjs` and two more read files that no script
  writes.

### Frontend

* No message that is thrown counts as retryable, so nothing is retried; success toasts never clear
  the loading toast (`transactionErrorHandler.ts:350-354`), whose manager is made anew with each
  render, so `LoadingReleased` speaks of failures; the outcome of validator delegation
  is not shown. The guards against contracts that are not deployed let the zero address through.
* `StakingInterface.tsx:407-412`: once an approval is confirmed the effect runs again into the
  branch of a stake and clears the amount, against the comment; a refused approval leaves
  `isApproving` set.
* `StakeForm.tsx`: a simulation still loading counts as a success (171-182); a price found stale
  stays in the values of the click, so the click that "will auto-update before staking" never
  deposits; an amount changed during the wait is cleared by the success of the old one. The balance
  is not fetched again after a deposit (`dashboard.tsx:182` says it is). `ApiWithdrawForm.tsx:168`
  never redeems.
* `useRealPriceData.ts`: the first load uses the oracle only where it is cached; the scale of the
  oracle is 18 decimals here and 8 in `useStaticData.ts`; a chain without contracts goes on showing
  the last one's price.
* Governance pages: the address they read comes from the network store, which follows the wallet
  after 500 ms (`Web3Provider.tsx:37-43`), while their reads go to the new chain at once. Until then
  a chain without governance shows the examples and a power of 10000 (`GovernanceInterface.tsx:300`),
  and the pause of the chain left stays; `ShownOfChain` holds once the store has followed. Proposals
  on the chain are never shown; a power of 10000 is shown where none was read; forms are cleared though the wallet may refuse; one address stands for both contracts.
* Faucet page: it lists the testnet's tokens and asks the local addresses for them. The error of a
  receipt is not read (`FaucetInterface.tsx:48-50`, `241-252`), so after a claim that was mined and
  reverted the token's button stays loading until another request ends; `LoadingReleased` leaves
  exactly this case out.
* Dual staking: the allowance is for the exact amount and not fetched again, against "one-time
  action" (`DualStakingForm.tsx:297`); the amounts suggested for a tier miss it by the last digit at
  about one price in ten (94). Simple staking: the BTC suggested is too large by 10^10; reads are
  fetched two seconds after a hash, mined or not, against the comment at 133.

## Plan

Done, in this order: `BasketStaking` and its composition with `BasketGovernance` (who may decide and
who is paid), `LiquidStaking`, `UnbondingQueue`, `StakeBasket` with its manager (whose value is
kept), the timelocks with `Timelock` as their abstract specification and the proofs beside each;
then the backend's services, the frontend and the scripts, liveness under the timers' fairness, and
the dual basket and the price contracts.

Next:

1. Proofs: `ReportsAgree`, once a fold over a sequence can be reasoned about.
2. An abstract queue of requests that `UnbondingQueue` and `StakeBasket` both implement, and an
   abstract "one pass at a time" for the backend's jobs.
3. The proxied half of `CoreDAOGovernanceProxy`, composed with `BasketGovernance`: one execution per
   passed proposal, pause and blacklist between vote and execution.
4. `StakeBasket` composed with `PriceFeed` instead of a price chosen anew; `SimpleStaking`;
   `CoreDAOLiquidBTC`.
