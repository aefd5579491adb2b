---------------------------- MODULE StakeBasket ----------------------------
(***************************************************************************)
(* contracts/core/staking/StakeBasket.sol, its token StakeBasketToken and   *)
(* contracts/core/staking/StakingManager.sol, which delegates its coin.     *)
(*                                                                          *)
(* Holders deposit CORE for shares and give shares back for CORE, at once   *)
(* or after a day in a queue, at the price of the moment they are burned.   *)
(* totalPooledCore is what the shares are worth; the coin itself is held by *)
(* the contract or delegated.  totalPooledLstBTC is 0 in every reachable    *)
(* state (nothing writes it), and so is not modelled.                       *)
(***************************************************************************)
EXTENDS Integers, Sequences, FiniteSets, Functions

CONSTANTS
    Users,            \* holders, the fee recipient among them
    Basket,           \* the contract's own account, where shares wait
    FeeRecipient,
    TransferTo,       \* whom holders may transfer shares to
    Validators,       \* validators of CoreDAO's staking contract
    Views,            \* what that contract may answer: [Validators -> View]
    Amounts,          \* amounts of CORE a holder may send
    Parts,            \* amounts of shares or stake a call may name
    Rewards,          \* rewards one claim may bring in
    Reductions,       \* fee reductions of BasketStaking's tiers, basis points
    FeeChoices,       \* fees the owner may try, basis points
    RiskChoices,      \* risk limits the owner may try
    Prices,           \* prices a price feed may give
    FallbackPrice,    \* the price without a feed (15e17)
    PRICE_UNIT,       \* the scale of prices (1e18)
    UNBONDING_PERIOD, \* 1 day
    Year,             \* 365 days
    MaxPooled,        \* bound: totalPooledCore of a deposit or a reward
    MaxMoves,         \* bound: calls of the holders, rewards and coin received
    MaxRequests,      \* bound: entries of withdrawalQueue
    MaxTime           \* bound: the clock

Holders == Users \cup {Basket}
View    == [isActive : BOOLEAN, riskScore : Nat, apy : Nat]

ASSUME AccountsAssumption  == /\ IsFiniteSet(Users) /\ Basket \notin Users
                              /\ FeeRecipient \in Users /\ TransferTo \subseteq Holders
ASSUME ValidatorAssumption == /\ IsFiniteSet(Validators)
                              /\ Views \subseteq [Validators -> View]
ASSUME ChoicesAssumption   == /\ Amounts \subseteq Nat /\ Parts \subseteq Nat /\ Rewards \subseteq Nat
                              /\ Reductions \subseteq Nat
                              /\ FeeChoices \subseteq Nat /\ RiskChoices \subseteq Nat
ASSUME PricesAssumption    == /\ Prices \subseteq Nat \ {0}
                              /\ FallbackPrice \in Nat \ {0} /\ PRICE_UNIT \in Nat \ {0}
ASSUME ConstantsAssumption == /\ UNBONDING_PERIOD \in Nat /\ Year \in Nat \ {0}
                              /\ MaxPooled \in Nat /\ MaxMoves \in Nat
                              /\ MaxRequests \in Nat /\ MaxTime \in Nat

VARIABLES
    \* StakeBasketToken
    balanceOf,        \* holder -> shares
    totalSupply,
    \* StakeBasket
    totalPooledCore,
    held,             \* address(this).balance
    withdrawalQueue,
    userWithdrawalRequests,
    lastFeeCollection,
    config,           \* the owner's fee settings
    paused,
    \* StakingManager
    activeCoreValidators,
    delegatedCoreByValidator,
    rebalanceThresholdRisk,
    \* the rest of the world
    feed,             \* price of CORE, 0 without a price feed
    now,
    moves             \* bookkeeping for MaxMoves

token   == <<balanceOf, totalSupply>>
pool    == <<totalPooledCore, held>>
queue   == <<withdrawalQueue, userWithdrawalRequests>>
owned   == <<config, paused>>
manager == <<activeCoreValidators, delegatedCoreByValidator, rebalanceThresholdRisk>>
world   == <<feed, now, moves>>
vars    == <<token, pool, queue, lastFeeCollection, owned, manager, world>>

Move == moves < MaxMoves /\ moves' = moves + 1

-----------------------------------------------------------------------------
(* Prices and shares.                                                       *)

CorePrice == IF feed = 0 THEN FallbackPrice ELSE feed

Value(c) == (c * CorePrice) \div PRICE_UNIT

(* getTotalAUM: without a feed the CORE itself, at 1, not at the fallback.  *)
TotalAUM == IF feed = 0 THEN totalPooledCore ELSE Value(totalPooledCore)

(* _calculateSharesToMint, which reverts unless Mintable.                   *)
Mintable == totalSupply = 0 \/ Value(totalPooledCore) > 0

SharesToMint(c) ==
    IF totalSupply = 0 THEN c
    ELSE (Value(c) * totalSupply) \div Value(totalPooledCore)

(* _calculateCoreToReturn rounding in the holder's favour, and as it is.    *)
ReturnRoundedUp(s) ==
    (s * totalPooledCore + totalSupply - 1) \div totalSupply
CoreToReturn(s) ==
    (((s * Value(totalPooledCore)) \div totalSupply) * PRICE_UNIT) \div CorePrice

(* mint(to, s)                                                              *)
Mint(to, s) ==
    /\ balanceOf' = [balanceOf EXCEPT ![to] = @ + s]
    /\ totalSupply' = totalSupply + s

(* burn(from, s), for one who has s.                                        *)
Burn(from, s) ==
    /\ balanceOf' = [balanceOf EXCEPT ![from] = @ - s]
    /\ totalSupply' = totalSupply - s

(* The pool after amount was paid out of it, the count forgotten and not.   *)
CountKept(amount)   == totalPooledCore
PooledAfter(amount) == totalPooledCore - amount

(* The three ways out pay alike.                                            *)
Pay(amount) ==
    /\ held >= amount
    /\ held' = held - amount
    /\ totalPooledCore' = PooledAfter(amount)

-----------------------------------------------------------------------------
Init ==
    /\ balanceOf = [h \in Holders |-> 0]
    /\ totalSupply = 0
    /\ totalPooledCore = 0
    /\ held = 0
    /\ withdrawalQueue = <<>>
    /\ userWithdrawalRequests = [u \in Users |-> <<>>]
    /\ lastFeeCollection = 0
    /\ config = [managementFee |-> 50, protocolFee |-> 2000, asETH |-> TRUE,
                 staking |-> FALSE, treasury |-> FALSE]
    /\ paused = FALSE
    /\ activeCoreValidators = {}
    /\ delegatedCoreByValidator = [v \in Validators |-> 0]
    /\ rebalanceThresholdRisk = 600
    /\ feed \in Prices \cup {0}
    /\ now = 0
    /\ moves = 0

(* deposit(): with BasketStaking set a holder's tier is worth extra shares, *)
(* while only the coin paid is counted.                                     *)
Deposit(u, c, reduction) ==
    LET implicitFee == (c * config.managementFee) \div 10000
        effective   == c + (implicitFee * reduction) \div 10000
    IN  /\ ~paused
        /\ c > 0
        /\ totalPooledCore + c <= MaxPooled
        /\ Move
        /\ config.staking \/ reduction = 0
        /\ Mintable
        /\ Mint(u, SharesToMint(effective))
        /\ totalPooledCore' = totalPooledCore + c
        /\ held' = held + c
        /\ UNCHANGED <<queue, lastFeeCollection, owned, manager, feed, now>>

(* The test of the caller's shares.                                         *)
HasShares(u, s) == s > 0 /\ balanceOf[u] >= s

(* The shares of a request credited without being taken, and moved.         *)
LeftWithUser(u, s) == [balanceOf EXCEPT ![Basket] = @ + s]
EscrowedFrom(u, s) == [balanceOf EXCEPT ![u] = @ - s, ![Basket] = @ + s]

RequestWithdrawal(u, s) ==
    /\ ~paused
    /\ HasShares(u, s)
    /\ Move
    /\ Len(withdrawalQueue) < MaxRequests
    /\ withdrawalQueue' =
           Append(withdrawalQueue,
                  [user |-> u, shares |-> s, requestTime |-> now, isProcessed |-> FALSE])
    /\ userWithdrawalRequests' =
           [userWithdrawalRequests EXCEPT ![u] = Append(@, Len(withdrawalQueue))]
    /\ balanceOf' = EscrowedFrom(u, s)
    /\ UNCHANGED <<totalSupply, pool, lastFeeCollection, owned, manager, feed, now>>

(* A request that may be processed, the period forgotten and not.           *)
Early(r) == ~r.isProcessed
Due(r)   == ~r.isProcessed /\ now >= r.requestTime + UNBONDING_PERIOD

(* The request not marked, and marked.                                      *)
Unmarked(id)  == withdrawalQueue
Processed(id) == [withdrawalQueue EXCEPT ![id].isProcessed = TRUE]

(* processWithdrawal(id) by the request's user; _undelegateForWithdrawal    *)
(* does nothing, and the whole call reverts without the coin.               *)
ProcessWithdrawal(id) ==
    LET r == withdrawalQueue[id]
    IN  /\ ~paused
        /\ Due(r)
        /\ totalSupply > 0
        /\ Pay(CoreToReturn(r.shares))
        /\ withdrawalQueue' = Processed(id)
        /\ balanceOf[Basket] >= r.shares
        /\ Burn(Basket, r.shares)
        /\ UNCHANGED <<userWithdrawalRequests, lastFeeCollection, owned, manager, world>>

(* instantRedeem(): emergencyReserveRatio is 1000 and has no setter.        *)
InstantRedeem(u, s) ==
    /\ ~paused
    /\ HasShares(u, s)
    /\ Move
    /\ CoreToReturn(s) <= (held * 1000) \div 10000
    /\ Pay(CoreToReturn(s))
    /\ Burn(u, s)
    /\ UNCHANGED <<queue, lastFeeCollection, owned, manager, feed, now>>

Redeem(u, s) ==
    /\ ~paused
    /\ HasShares(u, s)
    /\ Move
    /\ Pay(CoreToReturn(s))
    /\ Burn(u, s)
    /\ UNCHANGED <<queue, lastFeeCollection, owned, manager, feed, now>>

Transfer(u, to, s) ==
    /\ HasShares(u, s)
    /\ Move
    /\ u # to
    /\ balanceOf' = [balanceOf EXCEPT ![u] = @ - s, ![to] = @ + s]
    /\ UNCHANGED <<totalSupply, pool, queue, lastFeeCollection, owned, manager, feed, now>>

-----------------------------------------------------------------------------
(* collectFees(), by anybody.  The fee is a value, and is used as an amount *)
(* of CORE: the recipient's part is minted as shares, the protocol's part   *)
(* leaves as coin, and totalPooledCore is not lowered by either.            *)
Sent(amount) ==
    IF config.asETH /\ config.staking
    THEN IF held >= amount THEN amount ELSE 0
    ELSE IF config.treasury THEN amount ELSE 0

CollectFees ==
    LET fees     == (TotalAUM * config.managementFee * (now - lastFeeCollection))
                        \div (10000 * Year)
        protocol == (fees * config.protocolFee) \div 10000
        rest     == fees - protocol
    IN  /\ now > lastFeeCollection
        /\ TotalAUM > 0
        /\ IF rest > 0 THEN Mintable /\ Mint(FeeRecipient, SharesToMint(rest))
                       ELSE UNCHANGED token
        /\ held >= Sent(protocol)
        /\ held' = held - Sent(protocol)
        /\ lastFeeCollection' = now
        /\ UNCHANGED <<totalPooledCore, queue, owned, manager, world>>

(* What the pool counts beyond the coin it holds and has delegated.         *)
Shortfall ==
    totalPooledCore - held - SumFunction(delegatedCoreByValidator)

(* simulateRewards() counts rewards that no coin came with.                 *)
SimulateRewards ==
    /\ totalPooledCore <= MaxPooled
    /\ Move
    /\ totalPooledCore' = totalPooledCore + (totalPooledCore * 85) \div 10000
    /\ UNCHANGED <<token, held, queue, lastFeeCollection, owned, manager, feed,
                   now>>

Receive(c) ==
    /\ Move
    /\ held' = held + c
    /\ UNCHANGED <<token, totalPooledCore, queue, lastFeeCollection, owned, manager,
                   feed, now>>

-----------------------------------------------------------------------------
(* Delegation, through StakingManager.                                      *)

(* getOptimalValidatorDistribution looks at every validator of the staking  *)
(* contract, in StakingManager's list or not.                               *)
Candidates(view) ==
    {v \in Validators : view[v].isActive /\ view[v].riskScore < rebalanceThresholdRisk}

Allocation(view, v) ==
    LET total == SumFunctionOnSet([w \in Validators |-> view[w].apy], Candidates(view))
    IN  IF v \notin Candidates(view) THEN 0
        ELSE IF total > 0 THEN (view[v].apy * 10000) \div total
        ELSE 10000 \div Cardinality(Candidates(view))

(* StakingManager.delegateCore's test of the list, dropped and as it is.    *)
AnyValidator(v)  == TRUE
IsListed(v)      == v \in activeCoreValidators

(* delegateCore(amount): one validator that is not listed reverts it all.   *)
DelegateCore(amount, view) ==
    LET sum == IF amount = 0 THEN held ELSE amount
        part == [v \in Validators |-> (sum * Allocation(view, v)) \div 10000]
    IN  /\ held >= sum
        /\ Candidates(view) # {}
        /\ \A v \in Validators : part[v] > 0 => IsListed(v)
        /\ delegatedCoreByValidator' =
               [v \in Validators |-> delegatedCoreByValidator[v] + part[v]]
        /\ held' = held - SumFunctionOnSet(part, Validators)
        /\ UNCHANGED <<token, totalPooledCore, queue, lastFeeCollection, owned,
                       activeCoreValidators, rebalanceThresholdRisk, world>>

(* claimAndReinvestRewards(): the rewards of the listed validators pass     *)
(* through the manager to the pool.                                         *)
ClaimAndReinvestRewards(r) ==
    /\ r > 0
    /\ activeCoreValidators # {}
    /\ Move
    /\ totalPooledCore + r <= MaxPooled
    /\ totalPooledCore' = totalPooledCore + r
    /\ held' = held + r
    /\ UNCHANGED <<token, queue, lastFeeCollection, owned, manager, feed, now>>

(* One pair of rebalanceCoreStaking()'s lists: a longer call does what its  *)
(* pairs do one after the other.  The target need not be listed.            *)
RebalanceCoreStaking(from, to, amount, view) ==
    /\ amount > 0
    /\ delegatedCoreByValidator[from] >= amount
    /\ view[to].isActive
    /\ delegatedCoreByValidator' =
           [v \in Validators |-> delegatedCoreByValidator[v]
                                 - (IF v = from THEN amount ELSE 0)
                                 + (IF v = to THEN amount ELSE 0)]
    /\ UNCHANGED <<token, pool, queue, lastFeeCollection, owned,
                   activeCoreValidators, rebalanceThresholdRisk, world>>

AddCoreValidator(v) ==
    /\ v \notin activeCoreValidators
    /\ activeCoreValidators' = activeCoreValidators \cup {v}
    /\ UNCHANGED <<token, pool, queue, lastFeeCollection, owned,
                   delegatedCoreByValidator, rebalanceThresholdRisk, world>>

RemoveCoreValidator(v) ==
    /\ v \in activeCoreValidators
    /\ delegatedCoreByValidator[v] = 0
    /\ activeCoreValidators' = activeCoreValidators \ {v}
    /\ UNCHANGED <<token, pool, queue, lastFeeCollection, owned,
                   delegatedCoreByValidator, rebalanceThresholdRisk, world>>

SetRebalanceThresholds(risk) ==
    /\ risk <= 1000
    /\ rebalanceThresholdRisk' = risk
    /\ UNCHANGED <<token, pool, queue, lastFeeCollection, owned,
                   activeCoreValidators, delegatedCoreByValidator, world>>

-----------------------------------------------------------------------------
(* The owner's settings: setManagementFee, setProtocolFeePercentage,        *)
(* setFeeDistributionAsETH, setBasketStaking, setProtocolTreasury, pause    *)
(* and unpause.                                                             *)
Configure ==
    /\ \/ \E fee \in FeeChoices :
             /\ \/ fee <= 1000 /\ config' = [config EXCEPT !.managementFee = fee]
                \/ fee <= 5000 /\ config' = [config EXCEPT !.protocolFee = fee]
             /\ UNCHANGED paused
       \/ \E set \in BOOLEAN :
             /\ \/ config' = [config EXCEPT !.asETH = set]
                \/ config' = [config EXCEPT !.staking = set]
                \/ config' = [config EXCEPT !.treasury = set]
             /\ UNCHANGED paused
       \/ paused' = ~paused /\ UNCHANGED config
    /\ UNCHANGED <<token, pool, queue, lastFeeCollection, manager, world>>

(* The feed's next price, or setPriceFeed.                                  *)
PriceMoves(p) ==
    /\ feed' = p
    /\ UNCHANGED <<token, pool, queue, lastFeeCollection, owned, manager, now,
                   moves>>

Tick ==
    /\ now < MaxTime
    /\ now' = now + 1
    /\ UNCHANGED <<token, pool, queue, lastFeeCollection, owned, manager, feed,
                   moves>>

Next ==
    \/ \E u \in Users :
          \/ \E c \in Amounts, reduction \in Reductions : Deposit(u, c, reduction)
          \/ \E s \in Parts \cup {balanceOf[u] - 1, balanceOf[u]} :
                \/ RequestWithdrawal(u, s)
                \/ InstantRedeem(u, s)
                \/ Redeem(u, s)
                \/ \E to \in TransferTo : Transfer(u, to, s)
    \/ \E id \in DOMAIN withdrawalQueue : ProcessWithdrawal(id)
    \/ CollectFees
    \/ SimulateRewards
    \/ \E c \in Amounts : Receive(c)
    \/ \E r \in Rewards : ClaimAndReinvestRewards(r)
    \/ \E view \in Views :
          \/ \E amount \in Parts \cup {0} : DelegateCore(amount, view)
          \/ \E from, to \in Validators, amount \in Parts :
                RebalanceCoreStaking(from, to, amount, view)
    \/ \E v \in Validators : AddCoreValidator(v) \/ RemoveCoreValidator(v)
    \/ \E risk \in RiskChoices : SetRebalanceThresholds(risk)
    \/ Configure
    \/ \E p \in Prices \cup {0} : PriceMoves(p)
    \/ Tick

Spec == Init /\ [][Next]_vars

-----------------------------------------------------------------------------
Requests ==
    [user : Users, shares : Nat, requestTime : Nat, isProcessed : BOOLEAN]

Configs ==
    [managementFee : Nat, protocolFee : Nat, asETH : BOOLEAN,
     staking : BOOLEAN, treasury : BOOLEAN]

(* Type invariant: in particular the checked subtractions of the pool, the  *)
(* coin, the shares and the stake never go below zero.                      *)
TypeOK ==
    /\ balanceOf \in [Holders -> Nat]
    /\ totalSupply \in Nat
    /\ totalPooledCore \in Nat
    /\ held \in Nat
    /\ withdrawalQueue \in Seq(Requests)
    /\ userWithdrawalRequests \in [Users -> Seq(Nat)]
    /\ lastFeeCollection \in Nat /\ now \in Nat /\ lastFeeCollection <= now
    /\ config \in Configs
    /\ config.managementFee <= 1000 /\ config.protocolFee <= 5000
    /\ paused \in BOOLEAN
    /\ activeCoreValidators \subseteq Validators
    /\ delegatedCoreByValidator \in [Validators -> Nat]
    /\ rebalanceThresholdRisk \in Nat /\ rebalanceThresholdRisk <= 1000
    /\ feed \in Prices \cup {0}
    /\ moves \in Nat

(* No holder ever has more shares than there are, which the burns and the   *)
(* prices of a redemption rely on (lines 195, 226, 342-343).                *)
HoldersCovered == \A h \in Holders : balanceOf[h] <= totalSupply

(* The shares of the open requests are in the contract, so that none of     *)
(* them can fail for want of shares to burn (lines 162, 195).               *)
EscrowCovers ==
    SumFunction([id \in DOMAIN withdrawalQueue |->
                    IF withdrawalQueue[id].isProcessed THEN 0
                    ELSE withdrawalQueue[id].shares]) <= balanceOf[Basket]

(* A request never changes but to be processed, once, a day after it was    *)
(* made, whatever other requests do meanwhile (lines 176-178, 191).         *)
ProcessedOnceWhenDue ==
    [][\A id \in DOMAIN withdrawalQueue :
          LET r == withdrawalQueue[id]
          IN  withdrawalQueue'[id] # r =>
                 /\ ~r.isProcessed
                 /\ now >= r.requestTime + UNBONDING_PERIOD
                 /\ withdrawalQueue'[id] = [r EXCEPT !.isProcessed = TRUE]]_vars

(* Leaving never costs those who stay: whatever the price, the fees and the *)
(* simulated rewards were, the CORE behind a share does not fall when       *)
(* shares are burned (lines 181, 218, 244).                                 *)
LeavingKeepsValue ==
    [][totalSupply' < totalSupply =>
          totalPooledCore' * totalSupply >= totalPooledCore * totalSupply']_vars

(* No share is left without CORE behind it: with shares and an empty pool   *)
(* every further deposit would revert (line 312).                           *)
SharesHaveAssets == totalSupply > 0 => totalPooledCore > 0

(* Only a collection of fees and the simulated rewards widen the gap: no    *)
(* deposit, payment, delegation, claim or rebalancing does.                 *)
BackingKept ==
    [][Shortfall' > Shortfall =>
          \/ lastFeeCollection' # lastFeeCollection
          \/ totalPooledCore' > totalPooledCore
                /\ UNCHANGED <<held, totalSupply, delegatedCoreByValidator>>]_vars

(* Stake that getTotalDelegatedCore does not count and claimCoreRewards     *)
(* does not claim for.                                                      *)
Uncounted ==
    SumFunctionOnSet(delegatedCoreByValidator, Validators \ activeCoreValidators)

(* Only rebalanceCoreStaking, which does not look at the list, can make it  *)
(* grow: neither a delegation nor the removal of a validator does.          *)
OnlyRebalanceStrays ==
    [][Uncounted' > Uncounted => UNCHANGED <<held, activeCoreValidators>>]_vars

(* A queued withdrawal is burned once, when its day is over, and can be:    *)
(* its shares are in the contract, no account holds more than the supply,   *)
(* and no subtraction of pool, coin or shares goes below zero, through      *)
(* transfers, instant redemptions and other requests                        *)
(* (StakeBasket.sol:162, 176-195, 226).                                     *)
RequestsPayable == /\ []TypeOK /\ []EscrowCovers /\ []HoldersCovered
                   /\ ProcessedOnceWhenDue

(* The pool's count, the coin and the stake at the validators are moved by  *)
(* different calls of two contracts: only a collection of fees and the      *)
(* simulated rewards widen the gap, and only a rebalancing moves stake      *)
(* where no call counts it (StakeBasket.sol:192, StakingManager.sol:375).   *)
PoolAccounted == BackingKept /\ OnlyRebalanceStrays
=============================================================================
