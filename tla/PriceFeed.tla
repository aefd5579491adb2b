------------------------------ MODULE PriceFeed ------------------------------
(***************************************************************************)
(* contracts/integrations/oracles/PriceFeed.sol for one asset: the price    *)
(* others read, what the three kinds of oracle may write to it, and the     *)
(* circuit breaker and gradual updates between the two.                     *)
(*                                                                          *)
(* An oracle's answer is a price of 18 decimals, 0 where the call to it     *)
(* fails with a message; where it fails without one, so does the update.    *)
(***************************************************************************)
EXTENDS Naturals

CONSTANTS
    Quotes,           \* prices of the oracles and of the owner, above 0
    Ages,             \* values of maxPriceAge the owner may try
    MinAge, MaxAge,   \* 60 and 86400 seconds
    PRICE_CACHE_DURATION,     \* 30 seconds
    CIRCUIT_BREAKER_COOLDOWN, \* 1 hour
    DEFAULT_MAX_PRICE_AGE,    \* 1 hour
    StartTime,        \* block.timestamp of the deployment
    MaxUpdates,       \* bound: updates and gradual steps
    MaxChanges,       \* bound: calls of the owner
    MaxTime           \* bound: the clock

ASSUME FeedAssumption == Quotes \subseteq Nat \ {0} /\ StartTime \in Nat

PRICE_DEVIATION_THRESHOLD   == 1000
EXTREME_DEVIATION_THRESHOLD == 2000
MAX_PRICE_UPDATE_STEPS      == 10

Fails == 0

VARIABLES
    data,             \* price, lastUpdated, isActive
    lastKnownGoodPrice,
    breaker,          \* triggered, at
    gradual,          \* target, step
    ids, oracles,     \* which price ids, and which oracles' addresses, are set
    switch,           \* breaker, emergency, staleness
    maxPriceAge,
    priceUpdateCount,
    now,
    updates, changes  \* bookkeeping for MaxUpdates and MaxChanges

prices   == <<data, lastKnownGoodPrice, gradual>>
setup    == <<ids, oracles, switch, maxPriceAge>>
feedVars == <<prices, breaker, setup, priceUpdateCount, now, updates, changes>>

Update == updates < MaxUpdates /\ updates' = updates + 1 /\ UNCHANGED changes
Change == changes < MaxChanges /\ changes' = changes + 1 /\ UNCHANGED updates

-----------------------------------------------------------------------------
Age == now - data.lastUpdated

isPriceValid == data.isActive /\ Age <= maxPriceAge

Distance(a, b) == IF a > b THEN a - b ELSE b - a

(* In basis points of the old price, none for the first one.                *)
Deviation(old, new) == IF old = 0 THEN 0 ELSE (Distance(old, new) * 10000) \div old

(* lastKnownGoodPrice before a price is fetched or set.                     *)
GoodPrice == IF data.isActive /\ data.price > 0 THEN data.price ELSE lastKnownGoodPrice

(* _setPriceData                                                            *)
SetPriceData(price) ==
    /\ data' = [price |-> price, lastUpdated |-> now, isActive |-> TRUE]
    /\ lastKnownGoodPrice' = GoodPrice

(* _triggerCircuitBreaker, which leaves the price readable.                 *)
TriggerCircuitBreaker ==
    /\ breaker' = [triggered |-> TRUE, at |-> now]
    /\ lastKnownGoodPrice' = GoodPrice
    /\ UNCHANGED <<data, gradual>>

(* _startGradualPriceUpdate                                                 *)
StartGradualPriceUpdate(from, to) ==
    /\ from > 0 /\ to > 0
    /\ IF from = to
       THEN SetPriceData(to) /\ gradual' = [gradual EXCEPT !.target = to]
       ELSE /\ gradual' = [target |-> to,
                           step |-> IF Distance(from, to) < MAX_PRICE_UPDATE_STEPS THEN 1
                                    ELSE Distance(from, to) \div MAX_PRICE_UPDATE_STEPS]
            /\ lastKnownGoodPrice' = GoodPrice
            /\ UNCHANGED data
    /\ UNCHANGED breaker

\* mutant: the backup's answer is taken as it comes
AgreesIfThere(second) == second > 0

(* A backup's answer takes the place of one that deviates.                  *)
Agrees(second) == second > 0 /\ Deviation(data.price, second) <= PRICE_DEVIATION_THRESHOLD

Guarded == switch.breaker /\ data.isActive /\ ~switch.emergency

Accept(new) == SetPriceData(new) /\ UNCHANGED <<breaker, gradual>>

(* What an update does with a new price; second is the backup's, if it has  *)
(* one to tell, which is asked before anything else is done.                *)
Judge(new, second) ==
    LET deviation == Deviation(data.price, new)
    IN  IF ~Guarded THEN Accept(new)
        ELSE /\ new > 0
             /\ \/ deviation <= PRICE_DEVIATION_THRESHOLD /\ Accept(new)
                \/ deviation > PRICE_DEVIATION_THRESHOLD /\ Agrees(second) /\ Accept(second)
                \/ /\ deviation > EXTREME_DEVIATION_THRESHOLD /\ ~Agrees(second)
                   /\ StartGradualPriceUpdate(data.price,
                                              IF second > 0 THEN (new + second) \div 2 ELSE new)
                \/ /\ deviation > PRICE_DEVIATION_THRESHOLD
                   /\ deviation <= EXTREME_DEVIATION_THRESHOLD /\ ~Agrees(second)
                   /\ TriggerCircuitBreaker

Counted == priceUpdateCount' = priceUpdateCount + 1

-----------------------------------------------------------------------------
FeedInit ==
    /\ data = [price |-> 0, lastUpdated |-> 0, isActive |-> FALSE]
    /\ lastKnownGoodPrice = 0
    /\ breaker = [triggered |-> FALSE, at |-> 0]
    /\ gradual = [target |-> 0, step |-> 0]
    /\ ids = {} /\ oracles \in {{}, {"pyth", "switchboard"}}
    /\ switch = [breaker |-> TRUE, emergency |-> FALSE, staleness |-> FALSE]
    /\ maxPriceAge = DEFAULT_MAX_PRICE_AGE
    /\ priceUpdateCount = 0
    /\ now = StartTime /\ updates = 0 /\ changes = 0

(* A negative exponent may scale a price down to 0.                         *)
updatePriceFromPyth(new) ==
    /\ Update /\ "pyth" \in ids \cap oracles
    /\ Judge(new, Fails)
    /\ Counted
    /\ UNCHANGED <<setup, now>>

updatePriceFromSwitchboard(new) ==
    /\ Update /\ "switchboard" \in ids \cap oracles
    /\ new > 0
    /\ Judge(new, Fails)
    /\ Counted
    /\ UNCHANGED <<setup, now>>

(* smartUpdatePrice, and each asset of smartUpdatePrices, unless the price  *)
(* is fresh.                                                                *)
smartUpdatePrice(new) ==
    /\ ~(data.isActive /\ data.price > 0 /\ Age <= PRICE_CACHE_DURATION)
    /\ updatePriceFromSwitchboard(new)

(* The backup is asked twice: in place of an oracle that fails (first), and *)
(* when the new price deviates (second), where a stale answer counts as     *)
(* none whatever the switch says and a bad round does not matter.           *)
BackupAnswers(first, second) ==
    /\ "backup" \notin oracles => first = Fails /\ second = Fails
    /\ first # Fails /\ second # Fails => first = second
    /\ first # Fails /\ second = Fails => ~switch.staleness

updatePriceFromOracle(answer, first, second) ==
    LET new == IF answer # Fails THEN answer ELSE first
    IN  /\ Update /\ "oracle" \in oracles
        /\ BackupAnswers(first, second)
        /\ new # Fails
        /\ Judge(new, second)
        /\ Counted
        /\ UNCHANGED <<setup, now>>

(* Anybody may ask for the next step, at any time.                          *)
executeGradualPriceUpdate ==
    LET remaining == Distance(data.price, gradual.target)
        next      == IF gradual.target > data.price THEN data.price + gradual.step
                     ELSE data.price - gradual.step
    IN  /\ Update
        /\ gradual.target > 0 /\ gradual.step > 0
        /\ data.isActive /\ data.price > 0
        /\ IF remaining <= gradual.step
           THEN SetPriceData(gradual.target) /\ gradual' = [target |-> 0, step |-> 0]
           ELSE SetPriceData(next) /\ UNCHANGED gradual
        /\ UNCHANGED <<breaker, setup, priceUpdateCount, now>>

-----------------------------------------------------------------------------
(* The owner.                                                               *)

(* setPrice and setPrices, which nothing measures.                          *)
setPrice(price) ==
    /\ Change
    /\ SetPriceData(price)
    /\ UNCHANGED <<breaker, gradual, setup, priceUpdateCount, now>>

(* setPythPriceId(s) and setSwitchboardFeedId(s) activate the asset, with   *)
(* whatever price it has.                                                   *)
setPriceId(source, given) ==
    /\ Change
    /\ ids' = IF given THEN ids \cup {source} ELSE ids \ {source}
    /\ data' = [data EXCEPT !.isActive = TRUE]
    /\ UNCHANGED <<lastKnownGoodPrice, gradual, breaker, oracles, switch, maxPriceAge,
                   priceUpdateCount, now>>

(* setPriceFeed, setBackupPriceFeed, setPythOracle and setSwitchboardOracle *)
setOracle(source, given) ==
    /\ Change
    /\ oracles' = IF given THEN oracles \cup {source} ELSE oracles \ {source}
    /\ UNCHANGED <<prices, breaker, ids, switch, maxPriceAge, priceUpdateCount, now>>

(* setCircuitBreakerEnabled, activateEmergencyMode, deactivateEmergencyMode *)
(* and setStalenessCheckEnabled                                             *)
setSwitch(name, on) ==
    /\ Change
    /\ switch' = [switch EXCEPT ![name] = on]
    /\ UNCHANGED <<prices, breaker, ids, oracles, maxPriceAge, priceUpdateCount, now>>

setMaxPriceAge(age) ==
    /\ Change
    /\ MinAge <= age /\ age <= MaxAge
    /\ maxPriceAge' = age
    /\ UNCHANGED <<prices, breaker, ids, oracles, switch, priceUpdateCount, now>>

resetCircuitBreaker ==
    /\ Change
    /\ breaker.triggered
    /\ now >= breaker.at + CIRCUIT_BREAKER_COOLDOWN
    /\ breaker' = [triggered |-> FALSE, at |-> 0]
    /\ UNCHANGED <<prices, setup, priceUpdateCount, now>>

emergencySetPrice(price) ==
    /\ Change /\ switch.emergency
    /\ data' = [price |-> price, lastUpdated |-> now, isActive |-> TRUE]
    /\ lastKnownGoodPrice' = data.price
    /\ UNCHANGED <<breaker, gradual, setup, priceUpdateCount, now>>

emergencyResetAsset ==
    /\ Change /\ switch.emergency
    /\ breaker' = [triggered |-> FALSE, at |-> 0]
    /\ gradual' = [target |-> 0, step |-> 0]
    /\ UNCHANGED <<data, lastKnownGoodPrice, setup, priceUpdateCount, now>>

useLastKnownGoodPrice ==
    /\ Change
    /\ lastKnownGoodPrice > 0
    /\ ~isPriceValid \/ breaker.triggered
    /\ SetPriceData(lastKnownGoodPrice)
    /\ UNCHANGED <<breaker, gradual, setup, priceUpdateCount, now>>

Tick ==
    /\ now < MaxTime
    /\ now' = now + 1
    /\ UNCHANGED <<prices, breaker, setup, priceUpdateCount, updates, changes>>

FeedNext ==
    \/ \E p \in Quotes \cup {0} : updatePriceFromPyth(p)
    \/ \E p \in Quotes : updatePriceFromSwitchboard(p) \/ smartUpdatePrice(p)
    \/ \E answer, first, second \in Quotes \cup {Fails} :
          updatePriceFromOracle(answer, first, second)
    \/ executeGradualPriceUpdate
    \/ \E p \in Quotes : setPrice(p) \/ emergencySetPrice(p)
    \/ \E given \in BOOLEAN :
          \/ \E source \in {"pyth", "switchboard"} : setPriceId(source, given)
          \/ \E source \in {"pyth", "switchboard", "oracle", "backup"} : setOracle(source, given)
          \/ \E name \in DOMAIN switch : setSwitch(name, given)
    \/ \E age \in Ages : setMaxPriceAge(age)
    \/ resetCircuitBreaker \/ emergencyResetAsset \/ useLastKnownGoodPrice
    \/ Tick

FeedSpec == FeedInit /\ [][FeedNext]_feedVars

-----------------------------------------------------------------------------
(* While the breaker is on and there is no emergency, no update of any      *)
(* oracle moves the price by more than a tenth at once, whichever of the    *)
(* two answers it takes and whatever was left over from earlier ones        *)
(* (PriceFeed.sol:267-284, 323-340, 391-435), and nothing makes a price 0.  *)
UpdatesBounded ==
    [][ Guarded /\ data.price > 0 =>
          /\ priceUpdateCount' # priceUpdateCount =>
                Deviation(data.price, data'.price) <= PRICE_DEVIATION_THRESHOLD
          /\ data'.price > 0
      ]_feedVars

(* A gradual update brings the price nearer to where it was to go and never *)
(* past it, though the price was set or updated meanwhile, and it is over   *)
(* when it is there (PriceFeed.sol:942-1018).                               *)
GradualArrives ==
    [][ priceUpdateCount' = priceUpdateCount /\ updates' # updates =>
          LET target == gradual.target
          IN  /\ \/ data.price <= data'.price /\ data'.price <= target
                 \/ target <= data'.price /\ data'.price <= data.price
              /\ data'.price # target => /\ gradual' = gradual
                                         /\ data'.price # data.price
              /\ data'.price = target => gradual'.target = 0
      ]_feedVars

(* Both of a price that the breaker guards.                                 *)
PricesGuarded == UpdatesBounded /\ GradualArrives
=============================================================================
