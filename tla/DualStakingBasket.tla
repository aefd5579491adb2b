------------------------- MODULE DualStakingBasket -------------------------
(***************************************************************************)
(* contracts/core/staking/DualStakingBasket.sol and its heir                *)
(* SatoshiTierBasket.sol: shares against a pool of CORE and BTC that is     *)
(* traded towards a ratio and staked in a dual staking contract.            *)
(*                                                                          *)
(* The book is what a call moves: what the shares stand for (pooled), what  *)
(* is counted as staked, and where the assets really are.  CORE comes in    *)
(* two kinds, the coin and an ERC-20: both are pooled as one, but only the  *)
(* coin is staked and only the ERC-20 is traded and paid out.  A call that  *)
(* hangs on others (router, staking contract) is the set of books it may    *)
(* leave behind; where there is none it reverts.                            *)
(***************************************************************************)
EXTENDS Integers, FiniteSets, Functions

CONSTANTS
    Holders,          \* of shares, and keepers
    Owner,            \* owner(), who is one of them
    Pools, FirstPool, \* dual staking contracts, and the one of the constructor
    Deposits,         \* [CORE, BTC] somebody may bring
    Parts,            \* shares a holder may give back
    Rewards,          \* [CORE, BTC] a claim may bring in
    Gift,             \* [CORE, BTC] that may be sent to the contract outright
    Prices,           \* [CORE, BTC] the feed may give
    Ratios,           \* target ratios of the tiers
    Options,          \* setting -> values the owner may try
    CORE_UNIT,        \* 1e18, of amounts of CORE and of ratios
    BTC_UNIT,         \* 1e8
    USD_UNIT,         \* 1e18, of prices
    SATOSHI_RATIO,    \* 16000 * 1e18
    MIN_BTC_DEPOSIT,  \* 0.01 * 1e18
    HalfHour,         \* 30 minutes
    OneDay,           \* 1 days
    StartTime,        \* block.timestamp of the deployment
    MaxMoves,         \* bound: calls and changes from outside
    MaxChanges,       \* bound: of these, the owner's, the price's and gifts
    MaxTime           \* bound: the clock

Assets == {"CORE", "BTC"}
Quantities == [Assets -> Nat]
Nothing == [CORE |-> 0, BTC |-> 0]
NoPrice == Nothing

(* What the owner may try to set.                                           *)
Values == [threshold |-> Nat, slippage |-> Nat, keeper |-> Nat, interval |-> Nat,
           router |-> {"none", "trusted", "untrusted"},
           minimum |-> [CORE : Nat, BTC : Nat, usd : Nat]]


ASSUME HoldersAssumption == IsFiniteSet(Holders) /\ Owner \in Holders
ASSUME PoolsAssumption   == IsFiniteSet(Pools) /\ FirstPool \in Pools
ASSUME BroughtAssumption == /\ Deposits \subseteq Quantities /\ Rewards \subseteq Quantities
                            /\ Gift \in Quantities /\ Parts \subseteq Nat
ASSUME OfferedAssumption == /\ Prices \subseteq [Assets -> Nat \ {0}] /\ Ratios \subseteq Nat
                            /\ DOMAIN Options \subseteq DOMAIN Values
                            /\ \A f \in DOMAIN Options : Options[f] \subseteq Values[f]
ASSUME UnitsAssumption   == /\ CORE_UNIT \in Nat \ {0} /\ BTC_UNIT \in Nat \ {0}
                            /\ USD_UNIT \in Nat \ {0} /\ SATOSHI_RATIO \in Nat \ {0}
                            /\ HalfHour \in Nat \ {0} /\ MIN_BTC_DEPOSIT \in Nat
                            /\ OneDay \in Nat /\ StartTime \in Nat

VARIABLES
    book,             \* pooled, staked; free and coin held; at[pool] staked there
    balanceOf,        \* the basket's own share token
    totalSupply,
    setting,          \* what the owner sets, and whether there is an ERC-20 CORE
    rebalancing,      \* paused, failureCount, lastFailure, last
    paused,
    satoshi,          \* emergencyMode, maxSingleDeposit, lastRewardClaim
    price,            \* of both assets, NoPrice while the feed reverts
    outside,          \* history: given to the contract, taken by its owner, pool changed
    now,
    moves, changes    \* bookkeeping for MaxMoves and MaxChanges

shares == <<balanceOf, totalSupply>>
world  == <<price, now>>
basketVars == <<book, shares, setting, rebalancing, paused, satoshi, world, outside,
                moves, changes>>

Move   == moves + changes < MaxMoves /\ moves' = moves + 1 /\ UNCHANGED changes
Change == /\ moves + changes < MaxMoves /\ changes < MaxChanges
          /\ changes' = changes + 1 /\ UNCHANGED moves

Plus(a, b)  == [x \in Assets |-> a[x] + b[x]]
Minus(a, b) == [x \in Assets |-> a[x] - b[x]]
AtMost(a, b) == \A x \in Assets : a[x] <= b[x]
Smaller(a, b) == IF a < b THEN a ELSE b

HasPrice == price # NoPrice

-----------------------------------------------------------------------------
(* Values, ratios and shares.                                               *)

Value(amount) ==
    (amount.CORE * price.CORE) \div CORE_UNIT + (amount.BTC * price.BTC) \div BTC_UNIT

USDValue(amount) ==
    (amount.CORE * price.CORE) \div (CORE_UNIT * USD_UNIT)
    + (amount.BTC * price.BTC) \div (BTC_UNIT * USD_UNIT)

Ratio(pool) == IF pool.BTC = 0 THEN 0 ELSE (pool.CORE * CORE_UNIT) \div pool.BTC

RequiredCore(btc, ratio) == (btc * ratio) \div CORE_UNIT

(* In basis points of the target.                                           *)
Deviation(ratio, target) ==
    ((IF ratio > target THEN ratio - target ELSE target - ratio) * 10000) \div target

\* mutant: a share a dollar, whatever the pool is worth
SharesAtPar(deposited, pool) == Value(deposited)

(* _calculateShares, called when the pool holds the deposit already.        *)
SharesFor(deposited, pool) ==
    IF totalSupply = 0 THEN Value(deposited)
    ELSE (Value(deposited) * totalSupply) \div Value(pool)
Mintable(pool) == HasPrice /\ (totalSupply = 0 \/ Value(pool) > 0)

(* _calculateRedemption                                                     *)
Redemption(s) == [x \in Assets |-> (book.pooled[x] * s) \div totalSupply]

(* What _calculateTier asks of a deposit.                                   *)
Acceptable(amount) ==
    /\ HasPrice
    /\ amount.CORE >= setting.minimum.CORE
    /\ amount.BTC >= setting.minimum.BTC
    /\ USDValue(amount) >= setting.minimum.usd

-----------------------------------------------------------------------------
(* Trades.  The router gives the least it may, or what was expected.        *)

Traded(b, from, to, amount, got) ==
    [b EXCEPT !.pooled[from] = @ - amount, !.pooled[to] = @ + got,
              !.free[from] = @ - amount, !.free[to] = @ + got]

Expected(from, to, amount) == (amount * price[from]) \div price[to]
Least(expected) == (expected * (10000 - setting.slippage)) \div 10000

CanSwap(b, from, amount) ==
    /\ HasPrice /\ setting.router = "trusted" /\ setting.hasToken
    /\ amount <= b.pooled[from] /\ amount <= b.free[from]

Swaps(b, from, to, amount) ==
    IF CanSwap(b, from, amount)
    THEN {Traded(b, from, to, amount, got) :
            got \in {Expected(from, to, amount), Least(Expected(from, to, amount))}}
    ELSE {}

Sold(b, from, to, amount) == IF amount = 0 THEN {b} ELSE Swaps(b, from, to, amount)

CoreNeeded(pool) ==
    LET required == RequiredCore(pool.BTC, setting.ratio)
    IN  IF required <= pool.CORE THEN 0 ELSE required - pool.CORE

BtcToSwap(pool) ==
    LET btc == (CoreNeeded(pool) * price.CORE) \div price.BTC
    IN  IF btc > pool.BTC THEN pool.BTC \div 2 ELSE btc

CoreToSwap(pool) == (pool.CORE - RequiredCore(pool.BTC, setting.ratio)) \div 2

BuysCore(pool) == Ratio(pool) < setting.ratio /\ CoreNeeded(pool) > 0
BuysBtc(pool)  == Ratio(pool) > setting.ratio /\ CoreToSwap(pool) > 0

(* _executeRebalance, and the same within _rebalanceIfNeeded.               *)
Trades(b) ==
    IF BuysCore(b.pooled)
    THEN IF HasPrice THEN Sold(b, "BTC", "CORE", BtcToSwap(b.pooled)) ELSE {}
    ELSE IF BuysBtc(b.pooled) THEN Swaps(b, "CORE", "BTC", CoreToSwap(b.pooled)) ELSE {b}

NeedsRebalancing(pool) ==
    /\ setting.ratio # 0
    /\ ~rebalancing.paused
    /\ now >= rebalancing.last + setting.interval
    /\ Deviation(Ratio(pool), setting.ratio) > setting.threshold

(* _rebalanceIfNeeded                                                       *)
Rebalancings(b) == IF NeedsRebalancing(b.pooled) THEN Trades(b) ELSE {b}
RebalancedAt(b) ==
    rebalancing' = IF NeedsRebalancing(b.pooled) THEN [rebalancing EXCEPT !.last = now]
                   ELSE rebalancing

(* _rebalanceToSatoshiTier; with no BTC at all its subtraction reverts.     *)
SatoshiRequired(pool) == RequiredCore(pool.BTC, SATOSHI_RATIO)
SatoshiBtc(pool) ==
    ((SatoshiRequired(pool) - pool.CORE) * price.CORE * 10050) \div (price.BTC * 10000)
SatoshiTrades(b) ==
    IF Ratio(b.pooled) >= SATOSHI_RATIO \/ SatoshiRequired(b.pooled) = b.pooled.CORE THEN {b}
    ELSE IF SatoshiRequired(b.pooled) < b.pooled.CORE \/ ~HasPrice THEN {}
    ELSE IF SatoshiBtc(b.pooled) <= b.pooled.BTC \div 10
    THEN Sold(b, "BTC", "CORE", SatoshiBtc(b.pooled))
    ELSE {b}

-----------------------------------------------------------------------------
(* The dual staking contract, which may refuse any call.                    *)

Put(b, amount) ==
    [b EXCEPT !.staked = Plus(@, amount), !.at[setting.pool] = Plus(@, amount),
              !.coin = @ - amount.CORE, !.free.BTC = @ - amount.BTC]

\* mutant: what is counted as staked is not lowered
PullUncounted(b, counted, given) ==
    [b EXCEPT !.at[setting.pool] = Minus(@, given),
              !.coin = @ + given.CORE, !.free.BTC = @ + given.BTC]

Pull(b, counted, given) ==
    [b EXCEPT !.staked = Minus(@, counted), !.at[setting.pool] = Minus(@, given),
              !.coin = @ + given.CORE, !.free.BTC = @ + given.BTC]

Only(some, amount)     == [x \in Assets |-> IF x \in some THEN amount[x] ELSE 0]
Portion(amount, share) == [x \in Assets |-> (amount[x] * share) \div 10000]
Both(amount)           == \A x \in Assets : amount[x] > 0

(* stakeDual keeps to the ratio and leaves the rest unstaked.               *)
InRatio(available) ==
    LET required == RequiredCore(available.BTC, setting.ratio)
    IN  IF required < available.CORE THEN [available EXCEPT !.CORE = required]
        ELSE [available EXCEPT !.BTC = (available.CORE * CORE_UNIT) \div setting.ratio]

Offers(available) ==
    IF Both(available) /\ setting.ratio > 0
    THEN {amount \in {InRatio(available)} : Both(amount)}
    ELSE {Only(some, available) : some \in SUBSET Assets}

(* _stakeToDualStaking, whose subtractions revert.                          *)
Stakings(b) ==
    LET offers == Offers(Minus(b.pooled, b.staked)) \cup {Nothing}
    IN  IF AtMost(b.staked, b.pooled)
        THEN {Put(b, amount) :
                 amount \in {a \in offers : a.CORE <= b.coin /\ a.BTC <= b.free.BTC}}
        ELSE {}

(* unstakeDual, in shares of a hundredth of a percent, rounded down.        *)
UnstakedTogether(b, amount) ==
    LET share == Smaller((amount.CORE * 10000) \div b.staked.CORE,
                         (amount.BTC * 10000) \div b.staked.BTC)
        there == b.at[setting.pool]
    IN  IF Both(amount) /\ AtMost(amount, b.staked) /\ there # Nothing
        THEN {Pull(b, Portion(b.staked, share), Portion(there, share))}
        ELSE {}

UnstakedApart(b, amount) ==
    LET asked == {x \in Assets : /\ 0 < amount[x] /\ amount[x] <= b.staked[x]
                                 /\ amount[x] <= b.at[setting.pool][x]}
    IN  {Pull(b, Only(some, amount), Only(some, amount)) : some \in SUBSET asked}

(* _unstakeFromDualStaking                                                  *)
Unstakings(b, amount) == UnstakedTogether(b, amount) \cup UnstakedApart(b, amount)

-----------------------------------------------------------------------------
(* Deployed, the heir with limits of its own; the router set or   *)
(* not yet.                                                                 *)
BasketInit ==
    /\ \E ratio \in Ratios \ {0}, heir \in BOOLEAN,
          router \in {"none", "trusted"}, hasToken \in BOOLEAN :
          setting = [ratio |-> ratio, threshold |-> IF heir THEN 100 ELSE 500,
                     slippage |-> IF heir THEN 50 ELSE 200, keeper |-> 10,
                     interval |-> 2 * HalfHour, router |-> router, pool |-> FirstPool,
                     minimum |-> [CORE |-> 1, BTC |-> 1, usd |-> 1], hasToken |-> hasToken]
    /\ book = [pooled |-> Nothing, staked |-> Nothing, free |-> Nothing, coin |-> 0,
               at |-> [p \in Pools |-> Nothing]]
    /\ balanceOf = [u \in Holders |-> 0] /\ totalSupply = 0
    /\ rebalancing = [paused |-> FALSE, failureCount |-> 0, lastFailure |-> 0, last |-> StartTime]
    /\ paused = FALSE
    /\ satoshi = [emergencyMode |-> FALSE, maxSingleDeposit |-> 10000 * MIN_BTC_DEPOSIT,
                  lastRewardClaim |-> 0]
    /\ price \in Prices
    /\ outside = [given |-> Nothing, taken |-> Nothing, moved |-> FALSE]
    /\ now = StartTime /\ moves = 0 /\ changes = 0

(* What the two deposits and the Satoshi deposit have in common: the pool   *)
(* grows first, the shares are computed, and only then is it traded.        *)
TakeIn(u, amount, received) ==
    /\ Mintable(received.pooled)
    /\ \E traded \in Rebalancings(received) : book' \in Stakings(traded)
    /\ RebalancedAt(received)
    /\ balanceOf' = [balanceOf EXCEPT ![u] = @ + SharesFor(amount, received.pooled)]
    /\ totalSupply' = totalSupply + SharesFor(amount, received.pooled)
    /\ UNCHANGED <<setting, paused, satoshi, world, outside>>

InTokens(amount) == [book EXCEPT !.pooled = Plus(@, amount), !.free = Plus(@, amount)]
InCoin(amount)   == [book EXCEPT !.pooled = Plus(@, amount), !.free.BTC = @ + amount.BTC,
                                 !.coin = @ + amount.CORE]

deposit(u, amount) ==
    /\ Move /\ ~paused
    /\ Both(amount) /\ Acceptable(amount)
    /\ setting.hasToken
    /\ TakeIn(u, amount, InTokens(amount))

depositNativeCORE(u, amount) ==
    /\ Move /\ ~paused
    /\ Both(amount) /\ Acceptable(amount)
    /\ TakeIn(u, amount, InCoin(amount))

(* core = 0 asks for the amount that goes with the BTC.                     *)
depositForSatoshiTier(u, core, btc) ==
    LET optimal == RequiredCore(btc, SATOSHI_RATIO)
        amount  == [CORE |-> IF core = 0 THEN optimal ELSE core, BTC |-> btc]
    IN  /\ Move /\ ~paused
        /\ ~satoshi.emergencyMode
        /\ MIN_BTC_DEPOSIT <= btc /\ btc <= satoshi.maxSingleDeposit
        /\ core # 0 => core >= (optimal * 95) \div 100
        /\ setting.hasToken
        /\ TakeIn(u, amount, InTokens(amount))

PaidOut(b, amount) == [b EXCEPT !.pooled = Minus(@, amount), !.free = Minus(@, amount)]

(* The CORE is paid in ERC-20, whatever came in.                            *)
redeem(u, s) ==
    LET amount == Redemption(s)
    IN  /\ Move /\ ~paused
        /\ 0 < s /\ s <= balanceOf[u]
        /\ amount.CORE > 0 => setting.hasToken
        /\ \E b \in Unstakings(book, amount) :
              AtMost(amount, b.free) /\ book' = PaidOut(b, amount)
        /\ balanceOf' = [balanceOf EXCEPT ![u] = @ - s]
        /\ totalSupply' = totalSupply - s
        /\ UNCHANGED <<setting, rebalancing, paused, satoshi, world, outside>>

(* _payKeeperReward: a share of the value in dollars, paid as CORE.         *)
KeeperPaid(b) ==
    LET reward == (Value(b.pooled) * setting.keeper) \div 10000
    IN  /\ HasPrice
        /\ IF reward > 0 /\ b.pooled.CORE >= reward
           THEN /\ setting.hasToken /\ b.free.CORE >= reward
                /\ book' = PaidOut(b, [CORE |-> reward, BTC |-> 0])
           ELSE book' = b

RebalanceSucceeds(k) ==
    /\ \E b \in Trades(book) : IF k = Owner THEN book' = b ELSE KeeperPaid(b)
    /\ rebalancing' = [rebalancing EXCEPT !.failureCount = 0, !.last = now]

(* A call that fails within the try; one that trades nothing cannot.        *)
RebalanceFails ==
    /\ \/ BuysCore(book.pooled) /\ (HasPrice => BtcToSwap(book.pooled) > 0)
       \/ BuysBtc(book.pooled)
    /\ rebalancing' = [rebalancing EXCEPT !.failureCount = @ + 1, !.lastFailure = now,
                                          !.paused = rebalancing.failureCount + 1 >= 3]
    /\ UNCHANGED book

(* rebalance                                                                *)
rebalance(k) ==
    /\ Move
    /\ NeedsRebalancing(book.pooled)
    /\ IF rebalancing.failureCount >= 3 /\ now < rebalancing.lastFailure + OneDay
       THEN rebalancing' = [rebalancing EXCEPT !.paused = TRUE] /\ UNCHANGED book
       ELSE RebalanceSucceeds(k) \/ RebalanceFails
    /\ UNCHANGED <<shares, setting, paused, satoshi, world, outside>>

(* compoundRewards: a claim that brings something in.                       *)
compoundRewards(reward) ==
    LET worth    == (reward.CORE * price.CORE) \div CORE_UNIT
                    + (reward.BTC * price.BTC) \div CORE_UNIT
        received == InCoin(reward)
    IN  /\ Move /\ ~paused
        /\ HasPrice \/ reward = Nothing
        /\ IF worth > 0
           THEN /\ \E traded \in Rebalancings(received) : book' \in Stakings(traded)
                /\ RebalancedAt(received)
           ELSE book' = received /\ UNCHANGED rebalancing
        /\ UNCHANGED <<shares, setting, paused, satoshi, world, outside>>

(* maintainSatoshiRatio; averageAPY and what it needs are left out.         *)
maintainSatoshiRatio ==
    /\ Change
    /\ IF /\ Ratio(book.pooled) < SATOSHI_RATIO
          /\ Deviation(Ratio(book.pooled), SATOSHI_RATIO) > 100
       THEN book' \in SatoshiTrades(book)
       ELSE UNCHANGED book
    /\ UNCHANGED <<shares, setting, rebalancing, paused, satoshi, world, outside>>

(* compoundSatoshiRewards adds what claimRewards says it paid, in coin.     *)
compoundSatoshiRewards(core) ==
    LET received == InCoin([CORE |-> core, BTC |-> 0])
    IN  /\ Change
        /\ IF core > 0
           THEN /\ satoshi.lastRewardClaim \notin {0, now} => HasPrice
                /\ \E traded \in SatoshiTrades(received) : book' \in Stakings(traded)
           ELSE UNCHANGED book
        /\ satoshi' = [satoshi EXCEPT !.lastRewardClaim = now]
        /\ UNCHANGED <<shares, setting, rebalancing, paused, world, outside>>

-----------------------------------------------------------------------------
(* The owner.                                                               *)

Permitted(field, x) ==
    CASE field = "threshold" -> x <= 2000
      [] field = "slippage"  -> x <= 1000
      [] field = "keeper"    -> x <= 100
      [] field = "interval"  -> x >= HalfHour
      [] field = "minimum"   -> {x.CORE, x.BTC, x.usd} \subseteq Nat \ {0}
      [] OTHER               -> TRUE

(* The setters, one field each.                                             *)
Set(field, x) ==
    /\ Change /\ Permitted(field, x)
    /\ setting' = [setting EXCEPT ![field] = x]
    /\ UNCHANGED <<book, shares, rebalancing, paused, satoshi, world, outside>>

(* setTargetTier, or updateTierRatio of the target tier.                    *)
setTargetTier(ratio) == Set("ratio", ratio)

(* What is staked stays where it is.                                        *)
setDualStakingContract(pool) ==
    /\ Change
    /\ setting' = [setting EXCEPT !.pool = pool]
    /\ outside' = [outside EXCEPT !.moved = TRUE]
    /\ UNCHANGED <<book, shares, rebalancing, paused, satoshi, world>>

pauseRebalancing ==
    /\ Change
    /\ rebalancing' = [rebalancing EXCEPT !.paused = TRUE]
    /\ UNCHANGED <<book, shares, setting, paused, satoshi, world, outside>>

resumeRebalancing ==
    /\ Change
    /\ rebalancing' = [rebalancing EXCEPT !.paused = FALSE, !.failureCount = 0]
    /\ UNCHANGED <<book, shares, setting, paused, satoshi, world, outside>>

(* pause and unpause                                                        *)
togglePause ==
    /\ Change
    /\ paused' = ~paused
    /\ UNCHANGED <<book, shares, setting, rebalancing, satoshi, world, outside>>

(* emergencyWithdraw of all of one token.                                   *)
emergencyWithdraw(x) ==
    /\ Change /\ paused
    /\ book.free[x] > 0
    /\ book' = [book EXCEPT !.free[x] = 0]
    /\ outside' = [outside EXCEPT !.taken[x] = @ + book.free[x]]
    /\ UNCHANGED <<shares, setting, rebalancing, paused, satoshi, world>>

toggleEmergencyMode ==
    /\ Change
    /\ satoshi' = [satoshi EXCEPT !.emergencyMode = ~@]
    /\ UNCHANGED <<book, shares, setting, rebalancing, paused, world, outside>>

(* emergencyExit, whose unstakings have to succeed.                         *)
emergencyExit ==
    /\ Change /\ satoshi.emergencyMode
    /\ AtMost(book.staked, book.at[setting.pool])
    /\ book' = Pull(book, book.staked, book.staked)
    /\ UNCHANGED <<shares, setting, rebalancing, paused, satoshi, world, outside>>

setMaxSingleDeposit(most) ==
    /\ Change /\ most >= MIN_BTC_DEPOSIT
    /\ satoshi' = [satoshi EXCEPT !.maxSingleDeposit = most]
    /\ UNCHANGED <<book, shares, setting, rebalancing, paused, world, outside>>

-----------------------------------------------------------------------------
(* The rest of the world.                                                   *)

(* receive, and BTC sent to the contract.                                   *)
Given(x) ==
    /\ Change
    /\ book' = IF x = "CORE" THEN [book EXCEPT !.coin = @ + Gift.CORE]
               ELSE [book EXCEPT !.free.BTC = @ + Gift.BTC]
    /\ outside' = [outside EXCEPT !.given[x] = @ + Gift[x]]
    /\ UNCHANGED <<shares, setting, rebalancing, paused, satoshi, world>>

(* The feed, or setPriceFeed.                                               *)
PriceMoves(p) ==
    /\ Change
    /\ price' = p
    /\ UNCHANGED <<book, shares, setting, rebalancing, paused, satoshi, now, outside>>

Tick ==
    /\ now < MaxTime
    /\ now' = now + 1
    /\ UNCHANGED <<book, shares, setting, rebalancing, paused, satoshi, price, outside,
                   moves, changes>>

BasketNext ==
    \/ \E u \in Holders, amount \in Deposits :
          \/ deposit(u, amount) \/ depositNativeCORE(u, amount)
          \/ \E core \in {0, amount.CORE} : depositForSatoshiTier(u, core, amount.BTC)
    \/ \E u \in Holders, s \in Parts : redeem(u, s)
    \/ \E k \in Holders : rebalance(k)
    \/ \E reward \in Rewards : compoundRewards(reward)
    \/ maintainSatoshiRatio
    \/ \E reward \in Rewards : compoundSatoshiRewards(reward.CORE)
    \/ \E field \in DOMAIN Options : \E x \in Options[field] : Set(field, x)
    \/ \E ratio \in Ratios : setTargetTier(ratio)
    \/ \E pool \in Pools : setDualStakingContract(pool)
    \/ pauseRebalancing \/ resumeRebalancing \/ togglePause
    \/ \E x \in Assets : emergencyWithdraw(x) \/ Given(x)
    \/ toggleEmergencyMode \/ emergencyExit
    \/ \E amount \in Deposits : setMaxSingleDeposit(amount.BTC)
    \/ \E p \in Prices \cup {NoPrice} : PriceMoves(p)
    \/ Tick

BasketSpec == BasketInit /\ [][BasketNext]_basketVars

-----------------------------------------------------------------------------
Books    == [pooled : Quantities, staked : Quantities, free : Quantities, coin : Nat,
             at : [Pools -> Quantities]]
Settings == [ratio : Nat, threshold : Nat, slippage : {n \in Nat : n <= 1000}, keeper : Nat,
             interval : {n \in Nat : n >= HalfHour}, router : Values.router, pool : Pools,
             minimum : Values.minimum, hasToken : BOOLEAN]

BasketTyped ==
    /\ book \in Books
    /\ balanceOf \in [Holders -> Nat] /\ totalSupply \in Nat
    /\ setting \in Settings
    /\ rebalancing \in [paused : BOOLEAN, failureCount : Nat, lastFailure : Nat, last : Nat]
    /\ paused \in BOOLEAN
    /\ satoshi \in [emergencyMode : BOOLEAN, maxSingleDeposit : Nat, lastRewardClaim : Nat]
    /\ price \in Prices \cup {NoPrice}
    /\ outside \in [given : Quantities, taken : Quantities, moved : BOOLEAN]
    /\ now \in Nat /\ moves \in Nat /\ changes \in Nat

Held(b, x)    == b.free[x] + (IF x = "CORE" THEN b.coin ELSE 0)
AtPools(b, x) == SumFunctionOnSet([p \in Pools |-> b.at[p][x]], Pools)

(* The token's supply is what its holders have.                             *)
SharesAddUp == totalSupply = SumFunctionOnSet(balanceOf, Holders)

(* What the shares stand for is, to the unit, what the contract holds and   *)
(* has at the staking contracts, gifts and the owner's withdrawals aside:   *)
(* a trade, a keeper, a redemption or a claim moves both sides alike        *)
(* (DualStakingBasket.sol:349-357, 556-561, 690-701, 766-768).              *)
PoolBacked ==
    \A x \in Assets :
        book.pooled[x] + outside.given[x]
            = Held(book, x) + AtPools(book, x) + outside.taken[x]

(* What is counted as staked is at the staking contract, failed calls and   *)
(* quotients of a hundredth of a percent included; once the owner changed   *)
(* the contract it is never more than what is at all of them                *)
(* (DualStakingBasket.sol:635-667, 682-706).                                *)
StakeCounted ==
    \A x \in Assets :
        /\ book.staked[x] <= AtPools(book, x)
        /\ ~outside.moved => book.staked[x] = AtPools(book, x)

(* What is left to be staked is not below zero, so that a deposit is not    *)
(* refused by the subtraction of its own bookkeeping, unless somebody gave  *)
(* the contract assets it traded or paid out (DualStakingBasket.sol:616).   *)
StakeCovered == \A x \in Assets : book.staked[x] <= book.pooled[x] + outside.given[x]

(* Three failures in a row stop rebalancing until the owner resumes it      *)
(* (DualStakingBasket.sol:385-415).                                         *)
BreakerHolds == rebalancing.failureCount >= 3 => rebalancing.paused

(* The books, all of the above.                                             *)
BooksAgree ==
    /\ BasketTyped /\ SharesAddUp
    /\ PoolBacked /\ StakeCounted /\ StakeCovered /\ BreakerHolds

(* Who leaves takes no more of either asset than the part of the shares,    *)
(* and who comes without causing a trade does not make the shares of the    *)
(* others worth less, whatever was staked, failed to be unstaked or traded  *)
(* before.                                                                  *)
PartKept ==
    /\ totalSupply' < totalSupply =>
          \A x \in Assets : book'.pooled[x] * totalSupply >= book.pooled[x] * totalSupply'
    /\ (0 < totalSupply /\ totalSupply < totalSupply' /\ rebalancing'.last = rebalancing.last) =>
          Value(book'.pooled) * totalSupply >= Value(book.pooled) * totalSupply'

(* No call takes of what the others' shares stand for, and through trades,  *)
(* keepers and stakings that fail the books stay as above                   *)
(* (DualStakingBasket.sol:255-357, 385-415, 556-706, 711-742, 766-768).     *)
BasketShareKept == [][PartKept /\ BooksAgree']_basketVars
=============================================================================
