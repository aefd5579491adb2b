--------------------------- MODULE UnbondingQueue ---------------------------
(***************************************************************************)
(* contracts/core/staking/UnbondingQueue.sol: the requests that wait for    *)
(* their unbonding period, and the pool that pays instant withdrawals.      *)
(*                                                                          *)
(* The contract keeps accounts and moves no coin.  Every call is onlyOwner, *)
(* so the owner chooses who, which asset and how much.  A request is stored *)
(* twice, in the global queue and with its user, as two copies.             *)
(***************************************************************************)
EXTENDS Integers, Functions, SequencesExt

CONSTANTS
    Users,           \* the users, and the providers of liquidity
    Assets,          \* "CORE", "lstBTC"
    UnbondingPeriod, \* asset -> seconds
    Amounts,         \* amounts to unbond, withdraw or provide
    Liquidities,     \* amounts the owner may declare available
    Ratios,          \* reserve ratios the owner may try, in basis points
    Settings,        \* fee settings the owner may try
    MAX_INSTANT_WITHDRAWAL,
    MaxRequests,     \* bound: requests made
    MaxMoves,        \* bound: provisions and withdrawals of liquidity
    MaxTime          \* bound: the clock stops here

ASSUME SetsAssumption ==
    /\ IsFiniteSet(Users)
    /\ UnbondingPeriod \in [Assets -> Nat]
    /\ Amounts \subseteq Nat
    /\ Liquidities \subseteq Nat
    /\ Ratios \subseteq Nat
    /\ Settings \subseteq [instant : Nat, provider : Nat, maxRatio : Nat]
ASSUME LimitsAssumption ==
    {MAX_INSTANT_WITHDRAWAL, MaxRequests, MaxMoves, MaxTime}
        \subseteq Nat

VARIABLES
    now,
    globalQueue,        \* all requests, in the order they came
    userRequests,       \* user -> its own copies
    nextRequestId,
    totalQueued,        \* asset -> amount waiting
    availableLiquidity, \* asset -> what instant withdrawals may take
    reservePoolSize,    \* asset -> target
    reservePoolRatio,   \* asset -> ratio, 0 for the default
    shares,             \* asset -> provider -> shares
    totalShares,        \* asset -> shares of all providers
    rewards,            \* asset -> what the providers have earned together
    setting,            \* the three fee parameters
    moves               \* bookkeeping for MaxMoves

queueVars   == <<globalQueue, userRequests, nextRequestId, totalQueued>>
reserveVars == <<reservePoolSize, reservePoolRatio>>
shareVars   == <<shares, totalShares>>
vars == <<now, queueVars, availableLiquidity, reserveVars, shareVars, rewards,
          setting, moves>>

NoAmounts == [asset \in Assets |-> 0]

Move == moves < MaxMoves /\ moves' = moves + 1

-----------------------------------------------------------------------------
Init ==
    /\ now = 0
    /\ globalQueue = <<>>
    /\ userRequests = [u \in Users |-> <<>>]
    /\ nextRequestId = 0
    /\ totalQueued = NoAmounts
    /\ availableLiquidity = NoAmounts
    /\ reservePoolSize = NoAmounts
    /\ reservePoolRatio = NoAmounts
    /\ shares = [asset \in Assets |-> [u \in Users |-> 0]]
    /\ totalShares = NoAmounts
    /\ rewards = NoAmounts
    /\ setting = [instant |-> 25, provider |-> 10, maxRatio |-> 1000]
    /\ moves = 0

(* The user's requests with one more, newest first; and the newest last.    *)
FiledFirst(u, request) == [userRequests EXCEPT ![u] = <<request>> \o @]
Filed(u, request)      == [userRequests EXCEPT ![u] = Append(@, request)]

RequestUnbonding(u, asset, amount) ==
    LET request == [user |-> u, amount |-> amount, asset |-> asset,
                    requestTime |-> now,
                    unlockTime  |-> now + UnbondingPeriod[asset],
                    processed   |-> FALSE]
    IN  /\ nextRequestId < MaxRequests
        /\ userRequests' = Filed(u, request)
        /\ globalQueue' = Append(globalQueue, request)
        /\ nextRequestId' = nextRequestId + 1
        /\ totalQueued' = [totalQueued EXCEPT ![asset] = @ + amount]
        /\ UNCHANGED <<now, availableLiquidity, reserveVars, shareVars, rewards,
                       setting, moves>>

(* What the loop of processReadyRequests() takes, after the same test with  *)
(* either half of it forgotten.                                             *)
ReadyTwice(request) == now >= request.unlockTime
ReadyEarly(request) == ~request.processed
Ready(request) == ~request.processed /\ now >= request.unlockTime

(* The amounts leave totalQueued; liquidity and the users' copies stay.     *)
ProcessReadyRequests ==
    LET Taken(asset) ==
            {i \in DOMAIN globalQueue :
                Ready(globalQueue[i]) /\ globalQueue[i].asset = asset}
        amount == [i \in DOMAIN globalQueue |-> globalQueue[i].amount]
    IN  /\ globalQueue' =
               [i \in DOMAIN globalQueue |->
                   IF Ready(globalQueue[i])
                   THEN [globalQueue[i] EXCEPT !.processed = TRUE]
                   ELSE globalQueue[i]]
        /\ totalQueued' =
               [asset \in Assets |->
                   totalQueued[asset] - SumFunctionOnSet(amount, Taken(asset))]
        /\ UNCHANGED <<now, userRequests, nextRequestId, availableLiquidity,
                       reserveVars, shareVars, rewards, setting, moves>>

-----------------------------------------------------------------------------
(* Instant withdrawals.                                                     *)

CanWithdrawInstantly(asset, amount) ==
    /\ amount <= MAX_INSTANT_WITHDRAWAL
    /\ amount <= availableLiquidity[asset]
    /\ amount <= (availableLiquidity[asset] * setting.maxRatio) \div 10000

InstantFee(amount) == (amount * setting.instant) \div 10000

(* With no instant fee the division reverts.  The 10000 of line 157 cancel. *)
ProcessInstantWithdrawal(asset, amount) ==
    LET fee == InstantFee(amount)
    IN  /\ CanWithdrawInstantly(asset, amount)
        /\ setting.instant > 0
        /\ Move
        /\ availableLiquidity' = [availableLiquidity EXCEPT ![asset] = @ - amount]
        /\ rewards' = [rewards EXCEPT ![asset] =
                          @ + (fee * setting.provider) \div setting.instant]
        /\ UNCHANGED <<now, queueVars, reserveVars, shareVars, setting>>

-----------------------------------------------------------------------------
(* Liquidity providers.                                                     *)

(* The division rounded up instead of down.                                 *)
SharesRoundedUp(asset, amount) ==
    IF totalShares[asset] = 0
    THEN amount
    ELSE (amount * totalShares[asset] + availableLiquidity[asset] - 1)
             \div availableLiquidity[asset]

SharesFor(asset, amount) ==
    IF totalShares[asset] = 0
    THEN amount
    ELSE (amount * totalShares[asset]) \div availableLiquidity[asset]

(* With shares outstanding and no liquidity the division reverts.           *)
ProvideLiquidity(u, asset, amount) ==
    LET minted == SharesFor(asset, amount)
    IN  /\ amount > 0
        /\ totalShares[asset] = 0 \/ availableLiquidity[asset] > 0
        /\ Move
        /\ shares' = [shares EXCEPT ![asset][u] = @ + minted]
        /\ totalShares' = [totalShares EXCEPT ![asset] = @ + minted]
        /\ availableLiquidity' = [availableLiquidity EXCEPT ![asset] = @ + amount]
        /\ UNCHANGED <<now, queueVars, reserveVars, rewards, setting>>

(* What a number of shares is worth of some amount of the asset.            *)
PartOf(asset, amount, number) == (number * amount) \div totalShares[asset]

(* The test of line 296.                                                    *)
HasShares(u, asset, number) == shares[asset][u] >= number

(* totalShares when the shares gone are forgotten, and when they are not.   *)
SharesForgotten(asset, number) == totalShares[asset]
SharesLeft(asset, number)      == totalShares[asset] - number

WithdrawLiquidity(u, asset, number) ==
    /\ number > 0
    /\ HasShares(u, asset, number)
    /\ Move
    /\ shares' = [shares EXCEPT ![asset][u] = @ - number]
    /\ totalShares' = [totalShares EXCEPT ![asset] = SharesLeft(asset, number)]
    /\ availableLiquidity' =
           [availableLiquidity EXCEPT
               ![asset] = @ - PartOf(asset, availableLiquidity[asset], number)]
    /\ rewards' =
           [rewards EXCEPT ![asset] = @ - PartOf(asset, rewards[asset], number)]
    /\ UNCHANGED <<now, queueVars, reserveVars, setting>>

-----------------------------------------------------------------------------
(* The owner's view of the pool and its settings.                           *)

(* _autoSizeReservePool(), from the values after the call's own writes.     *)
ReserveTarget(liquidity, queued, ratio) ==
    ((liquidity + queued) * (IF ratio = 0 THEN 500 ELSE ratio)) \div 10000

UpdateAvailableLiquidity(asset, amount) ==
    /\ availableLiquidity' = [availableLiquidity EXCEPT ![asset] = amount]
    /\ reservePoolSize' =
           [reservePoolSize EXCEPT ![asset] =
               ReserveTarget(amount, totalQueued[asset], reservePoolRatio[asset])]
    /\ UNCHANGED <<now, queueVars, reservePoolRatio, shareVars, rewards, setting,
                   moves>>

RebalanceLiquidity(asset, target) ==
    /\ target <= (reservePoolSize[asset] * 120) \div 100
    /\ availableLiquidity' = [availableLiquidity EXCEPT ![asset] = target]
    /\ UNCHANGED <<now, queueVars, reserveVars, shareVars, rewards, setting,
                   moves>>

SetReservePoolRatio(asset, ratio) ==
    /\ ratio <= 2000
    /\ reservePoolRatio' = [reservePoolRatio EXCEPT ![asset] = ratio]
    /\ reservePoolSize' =
           [reservePoolSize EXCEPT ![asset] =
               ReserveTarget(availableLiquidity[asset], totalQueued[asset], ratio)]
    /\ UNCHANGED <<now, queueVars, availableLiquidity, shareVars, rewards,
                   setting, moves>>

SettingAllowed(s) == s.instant <= 100 /\ s.provider <= 50 /\ s.maxRatio <= 2000

SetInstantWithdrawalParams(s) ==
    /\ SettingAllowed(s)
    /\ setting' = s
    /\ UNCHANGED <<now, queueVars, availableLiquidity, reserveVars, shareVars,
                   rewards, moves>>

Tick ==
    /\ now < MaxTime
    /\ now' = now + 1
    /\ UNCHANGED <<queueVars, availableLiquidity, reserveVars, shareVars,
                   rewards, setting, moves>>

Next ==
    \/ ProcessReadyRequests
    \/ Tick
    \/ \E s \in Settings : SetInstantWithdrawalParams(s)
    \/ \E asset \in Assets :
          \/ \E amount \in Amounts :
                \/ ProcessInstantWithdrawal(asset, amount)
                \/ \E u \in Users : \/ RequestUnbonding(u, asset, amount)
                                    \/ ProvideLiquidity(u, asset, amount)
          \/ \E u \in Users : \E number \in Amounts \cup {shares[asset][u]} :
                WithdrawLiquidity(u, asset, number)
          \/ \E l \in Liquidities : \/ UpdateAvailableLiquidity(asset, l)
                                    \/ RebalanceLiquidity(asset, l)
          \/ \E r \in Ratios : SetReservePoolRatio(asset, r)

Spec == Init /\ [][Next]_vars

-----------------------------------------------------------------------------
Requests ==
    [user : Users, amount : Nat, asset : Assets, requestTime : Nat,
     unlockTime : Nat, processed : BOOLEAN]

(* Type invariant: in particular no checked subtraction goes below zero.    *)
TypeOK ==
    /\ now \in Nat
    /\ globalQueue \in Seq(Requests)
    /\ userRequests \in [Users -> Seq(Requests)]
    /\ nextRequestId \in Nat
    /\ {totalQueued, availableLiquidity, reservePoolSize, reservePoolRatio,
        totalShares, rewards} \subseteq [Assets -> Nat]
    /\ \A asset \in Assets : reservePoolRatio[asset] <= 2000
    /\ shares \in [Assets -> [Users -> Nat]]
    /\ setting \in [instant : Nat, provider : Nat, maxRatio : Nat]
    /\ SettingAllowed(setting)
    /\ moves \in Nat

(* The requests that wait, and those of one user, by their place.           *)
Waiting(asset) == {i \in DOMAIN globalQueue : /\ ~globalQueue[i].processed
                                              /\ globalQueue[i].asset = asset}
Own(u)         == {i \in DOMAIN globalQueue : globalQueue[i].user = u}

(* totalQueued, kept by additions and subtractions, is what the queue still *)
(* holds of each asset; and the id a request was given is its place in the  *)
(* queue, which is the id UnbondingProcessed reports (lines 111, 247, 251). *)
QueueExact ==
    /\ nextRequestId = Len(globalQueue)
    /\ \A asset \in Assets :
          totalQueued[asset] =
              SumFunctionOnSet([i \in DOMAIN globalQueue |-> globalQueue[i].amount],
                               Waiting(asset))

(* A user's copies are its requests of the global queue, the k-th the k-th, *)
(* all still marked unprocessed (lines 108-109).                            *)
CopiesMatch ==
    \A u \in Users :
        /\ Len(userRequests[u]) = Cardinality(Own(u))
        /\ \A i \in Own(u) :
              userRequests[u][Cardinality(Own(u) \cap 1..i)]
                  = [globalQueue[i] EXCEPT !.processed = FALSE]

(* A filed request never changes but to be processed, once, after its       *)
(* unlock time (lines 243-246).                                             *)
ProcessedOnceWhenDue ==
    [][\A i \in DOMAIN globalQueue :
          \/ globalQueue'[i] = globalQueue[i]
          \/ /\ ~globalQueue[i].processed
             /\ now >= globalQueue[i].unlockTime
             /\ globalQueue'[i] = [globalQueue[i] EXCEPT !.processed = TRUE]]_vars

(* Every share of the pool belongs to a provider, so that no withdrawal can *)
(* fail or take what another provider's shares stand for (lines 278-307).   *)
SharesExact ==
    \A asset \in Assets :
        totalShares[asset] = SumFunctionOnSet(shares[asset], Users)

(* ... so no provider ever holds more shares than there are, which is what  *)
(* the divisions by totalShares of a withdrawal rely on.                    *)
SharesWithin ==
    \A asset \in Assets, u \in Users : shares[asset][u] <= totalShares[asset]

(* The running totals, adjusted by one request or one provider at a time    *)
(* over entries that are never removed, stay unsigned and are what the      *)
(* tables hold, no provider has more shares than there are, and a user's    *)
(* copies are its requests (lines 108-111, 247, 278, 307).                  *)
AccountsExact == TypeOK /\ QueueExact /\ CopiesMatch /\ SharesExact /\ SharesWithin

(* Providing and withdrawing liquidity round in the pool's favour: what a   *)
(* share of the remaining providers is worth never falls when another comes *)
(* or goes (lines 274, 299).                                                *)
ShareValueKept ==
    [][\A asset \in Assets :
          totalShares[asset] > 0 /\ totalShares'[asset] > 0
              /\ totalShares'[asset] # totalShares[asset] =>
                  availableLiquidity'[asset] * totalShares[asset]
                      >= availableLiquidity[asset] * totalShares'[asset]]_vars
=============================================================================
