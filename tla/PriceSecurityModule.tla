------------------------ MODULE PriceSecurityModule ------------------------
(***************************************************************************)
(* contracts/security/PriceSecurityModule.sol for one asset: a ring of the  *)
(* last prices, their average weighted by how recent they are, and what a   *)
(* new price is measured against.  validatePriceUpdate is a view; whoever   *)
(* asked it sends updateTWAPData in a transaction of its own, or does not.  *)
(***************************************************************************)
EXTENDS Integers, Sequences, SequencesExt, Functions

CONSTANTS
    Offered,          \* prices offered, 0 among them
    Size,             \* slots of the ring (20)
    Sources,          \* oracle sources
    Configs,          \* configurations the owner may try
    LeastConfig,      \* least interval, window and cooldown (60 s, 300 s, 1 h)
    DeployedAt,       \* block.timestamp of the deployment
    MaxStored,        \* bound: prices stored
    MaxCalls,         \* bound: calls of the owner other than updateTWAPData
    LastTime          \* bound: the clock

Configurations ==
    [deviation : Nat, interval : Nat, window : Nat, sources : Nat, cooldown : Nat]

ASSUME SecurityAssumption ==
    /\ Offered \subseteq Nat /\ Size \in Nat \ {0} /\ DeployedAt \in Nat \ {0}
    /\ Configs \subseteq Configurations

Slots == 0 .. Size - 1
Blank == [price |-> 0, at |-> 0]

VARIABLES
    ring,             \* prices and timestamps, by slot; at 0 where empty
    currentIndex,
    initialized,
    lastUpdateTime,
    oracleSources,
    securityConfig,
    emergency,        \* mode, start; mode is paused() too
    timestamp,        \* block.timestamp
    stored, ownerCalls \* bookkeeping for MaxStored and MaxCalls

twap == <<ring, currentIndex, initialized, lastUpdateTime>>
securityVars == <<twap, oracleSources, securityConfig, emergency, timestamp, stored, ownerCalls>>

OwnerCall == ownerCalls < MaxCalls /\ ownerCalls' = ownerCalls + 1 /\ UNCHANGED stored

-----------------------------------------------------------------------------
SlotAge(slot) == timestamp - ring[slot].at

Used     == {slot \in Slots : ring[slot].at # 0}
InWindow == {slot \in Used : SlotAge(slot) <= securityConfig.window}
\* mutant: the oldest weighs most
WeightByAge(slot) == SlotAge(slot)
Weight(slot) == securityConfig.window - SlotAge(slot)

Weights  == [slot \in InWindow |-> Weight(slot)]
Weighted == [slot \in InWindow |-> ring[slot].price * Weight(slot)]

TotalWeight == SumFunctionOnSet(Weights, InWindow)
WeightedSum == SumFunctionOnSet(Weighted, InWindow)

(* calculateTWAP, which reverts unless Defined.                             *)
Defined       == initialized /\ TotalWeight > 0
calculateTWAP == WeightedSum \div TotalWeight

(* In basis points of the average of the two; reverts where that is 0.      *)
Average(a, b) == (a + b) \div 2
calculateDeviation(a, b) ==
    IF a = b THEN 0 ELSE ((IF a > b THEN a - b ELSE b - a) * 10000) \div Average(a, b)

(* validatePriceUpdate: "reverts", "valid" or "deviates".                   *)
validatePriceUpdate(price, sources) ==
    LET admitted == /\ ~emergency.mode /\ price > 0
                    /\ sources >= securityConfig.sources
                    /\ timestamp - lastUpdateTime >= securityConfig.interval
        measured == price = calculateTWAP \/ Average(price, calculateTWAP) > 0
    IN  CASE ~admitted                        -> "reverts"
          [] admitted /\ ~initialized         -> "valid"
          [] admitted /\ initialized /\ ~Defined -> "reverts"
          [] OTHER -> IF ~measured THEN "reverts"
                      ELSE IF calculateDeviation(price, calculateTWAP) > securityConfig.deviation
                      THEN "deviates" ELSE "valid"

-----------------------------------------------------------------------------
SecurityInit ==
    /\ ring = [slot \in Slots |-> Blank] /\ currentIndex = 0
    /\ initialized = FALSE
    /\ lastUpdateTime = 0
    /\ oracleSources = <<>>
    /\ securityConfig \in {c \in Configs : c.deviation = 1000 /\ c.sources = 2}
    /\ emergency = [mode |-> FALSE, start |-> 0]
    /\ timestamp = DeployedAt /\ stored = 0 /\ ownerCalls = 0

(* Whatever was validated, or not.  The event's average is defined, the new *)
(* price weighing as much as the window is long.                            *)
updateTWAPData(price) ==
    /\ stored < MaxStored /\ stored' = stored + 1
    /\ ring' = [ring EXCEPT ![currentIndex] = [price |-> price, at |-> timestamp]]
    /\ currentIndex' = (currentIndex + 1) % Size
    /\ initialized' = TRUE
    /\ lastUpdateTime' = timestamp
    /\ securityConfig.window > 0
    /\ UNCHANGED <<oracleSources, securityConfig, emergency, timestamp, ownerCalls>>

(* _pause refuses a second activation.                                      *)
activateEmergencyMode ==
    /\ OwnerCall /\ ~emergency.mode
    /\ emergency' = [mode |-> TRUE, start |-> timestamp]
    /\ UNCHANGED <<twap, oracleSources, securityConfig, timestamp>>

deactivateEmergencyMode ==
    /\ OwnerCall /\ emergency.mode
    /\ timestamp >= emergency.start + securityConfig.cooldown
    /\ emergency' = [mode |-> FALSE, start |-> 0]
    /\ UNCHANGED <<twap, oracleSources, securityConfig, timestamp>>

updateSecurityConfig(c) ==
    /\ OwnerCall
    /\ c.deviation <= 5000 /\ c.sources >= 1
    /\ c.interval >= LeastConfig.interval /\ c.window >= LeastConfig.window
    /\ c.cooldown >= LeastConfig.cooldown
    /\ securityConfig' = c
    /\ UNCHANGED <<twap, oracleSources, emergency, timestamp>>

addOracleSource(s) ==
    /\ OwnerCall
    /\ oracleSources' = Append(oracleSources, s)
    /\ UNCHANGED <<twap, securityConfig, emergency, timestamp>>

(* The first of them, which the last one replaces.                          *)
removeOracleSource(s) ==
    /\ OwnerCall
    /\ oracleSources' =
          IF Contains(oracleSources, s)
          THEN LET i == SelectInSeq(oracleSources, LAMBDA x : x = s)
               IN  Front([oracleSources EXCEPT ![i] = Last(oracleSources)])
          ELSE oracleSources
    /\ UNCHANGED <<twap, securityConfig, emergency, timestamp>>

Block ==
    /\ timestamp < LastTime
    /\ timestamp' = timestamp + 1
    /\ UNCHANGED <<twap, oracleSources, securityConfig, emergency, stored, ownerCalls>>

SecurityNext ==
    \/ \E p \in Offered : updateTWAPData(p)
    \/ activateEmergencyMode \/ deactivateEmergencyMode
    \/ \E c \in Configs : updateSecurityConfig(c)
    \/ \E s \in Sources : addOracleSource(s) \/ removeOracleSource(s)
    \/ Block

SecuritySpec == SecurityInit /\ [][SecurityNext]_securityVars

-----------------------------------------------------------------------------
(* Validation is out of order only while the feed is silent for a whole     *)
(* window: after a price was stored there is an average until then, between *)
(* the lowest and the highest of the prices it is made of, though the ring  *)
(* wraps, slots go stale in any order and the window is changed             *)
(* (PriceSecurityModule.sol:111-158).                                       *)
TwapSound ==
    /\ initialized /\ timestamp - lastUpdateTime < securityConfig.window => Defined
    /\ Defined => \E low, high \in InWindow : /\ ring[low].price <= calculateTWAP
                                         /\ calculateTWAP <= ring[high].price

(* A price that deviates no more than allowed from each of the recent ones  *)
(* is valid once the interval is over, and the same price again always is:  *)
(* a steady feed is never locked out (PriceSecurityModule.sol:71-109, 165). *)
SteadyAccepted ==
    \A p \in Offered \ {0} :
        /\ Defined /\ ~emergency.mode /\ timestamp - lastUpdateTime >= securityConfig.interval
        /\ \A slot \in InWindow :
              /\ ring[slot].price > 0
              /\ calculateDeviation(p, ring[slot].price) <= securityConfig.deviation
        => validatePriceUpdate(p, securityConfig.sources) = "valid"

(* What a price is measured against, after any call and any silence, is an  *)
(* average of recent ones while there are any, which lets a steady price    *)
(* through (PriceSecurityModule.sol:70-172).                                *)
AveragesSound == [][TwapSound' /\ SteadyAccepted']_securityVars
=============================================================================
