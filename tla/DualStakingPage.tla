--------------------------- MODULE DualStakingPage ---------------------------
(***************************************************************************)
(* The page that deposits CORE and BTC together (DualStakingInterface.tsx, *)
(* its form and its hooks): the tier of the amounts, the amounts of a      *)
(* tier, the approval of BTC and the deposit over cached reads.  Wallet,   *)
(* token and basket are external; the chain stays what it is.  BTC is      *)
(* counted in thousandths, money in cents; 0 is an empty input and a read  *)
(* or price that is still missing.  A quotient of two prices is rounded    *)
(* either way, as a binary one is in its last digit.                       *)
(***************************************************************************)
EXTENDS Naturals, FiniteSetsExt

CONSTANTS Chains,     \* "local" and "testnet"
          Prices,     \* records [core, btc]: a CORE, a thousandth of a BTC
          CoreInputs, BtcInputs,   \* what the user types
          Balance,    \* what the user holds at first, [core, btc]
          Clicked,    \* bound: the tiers whose buttons are used
          MaxAsked    \* bound: requests of a behaviour

VARIABLES chainId,
          isDataLoaded,
          price, isLoading,    \* of useRealPriceData
          coreAmount, btcAmount,
          onChain,             \* core, btc and the allowance of the basket
          cached,              \* what the reads last returned
          fetching,
          requests,            \* asked of the wallet and not ended
          asked                \* how many were

dualVars == <<chainId, isDataLoaded, price, isLoading, coreAmount, btcAmount, onChain, cached,
              fetching, requests, asked>>
inputVars == <<coreAmount, btcAmount>>
outsideVars == <<chainId, isDataLoaded, price, isLoading>>

Reads == {"core", "btc", "allowance"}
Tiers == 0..4
Base == 0
MinCore == 10
MinBtc == 1
MinValue == 5000

-----------------------------------------------------------------------------
(* useDualStakingTiers.                                                      *)
getAssetPrices == [core |-> IF price.core = 0 THEN 150 ELSE price.core,
                   btc |-> IF price.btc = 0 THEN 6500 ELSE price.btc]
calculateTotalUSDValue(core, btc) == core * getAssetPrices.core + btc * getAssetPrices.btc

TIER_USD_THRESHOLDS == [t \in Tiers |-> CASE t = 0 -> 100000 [] t = 1 -> 1000000
                          [] t = 2 -> 10000000 [] t = 3 -> 50000000 [] t = 4 -> 100000000]
OptimalRatio == 50      \* CORE per thousandth of a BTC, every tier but Base
calculateTier(core, btc) ==
  IF core < MinCore \/ btc < MinBtc THEN Base
  ELSE Max({Base} \cup {t \in Tiers : calculateTotalUSDValue(core, btc) >= TIER_USD_THRESHOLDS[t]})

\* The amounts of a tier: CORE is added for what the ratio lacks in value.
\* (AmountsAtRatio: nothing is added.)
BtcOfTier == [t \in Tiers |-> CASE t = 0 -> MinBtc [] t = 1 -> 10 [] t = 2 -> 100
                                [] t = 3 -> 500 [] t = 4 -> 2000]
CoreOfTier == [t \in Tiers |-> CASE t = 0 -> MinCore [] t = 1 -> 1000 [] t = 2 -> 5000
                                 [] t = 3 -> 25000 [] t = 4 -> 100000]
AtRatio(t) == IF t = Base THEN MinCore ELSE OptimalRatio * BtcOfTier[t]
AmountsAtRatio(t) == {[btc |-> BtcOfTier[t], core |-> Max({AtRatio(t), CoreOfTier[t]})]}
AmountsOfTier(t) ==
  LET value == calculateTotalUSDValue(AtRatio(t), BtcOfTier[t])
      missing == IF t = Base \/ value >= TIER_USD_THRESHOLDS[t] THEN 0
                 ELSE TIER_USD_THRESHOLDS[t] - value
      p == getAssetPrices.core
  IN {[btc |-> BtcOfTier[t], core |-> Max({AtRatio(t) + extra, CoreOfTier[t]})] :
        extra \in {missing \div p, (missing + p - 1) \div p}}

handleAutoCalculate(t) ==
  /\ \E a \in AmountsOfTier(t) : coreAmount' = a.core /\ btcAmount' = a.btc
  /\ UNCHANGED <<outsideVars, onChain, cached, fetching, requests, asked>>

-----------------------------------------------------------------------------
TypeCore(a) == coreAmount' = a /\ UNCHANGED <<outsideVars, btcAmount, onChain, cached, fetching, requests, asked>>
TypeBtc(a)  == btcAmount' = a /\ UNCHANGED <<outsideVars, coreAmount, onChain, cached, fetching, requests, asked>>
UseAll == TypeCore(cached.core) \/ TypeBtc(cached.btc)

\* A second and a half after the page was opened.
DataLoaded ==
  /\ ~isDataLoaded /\ isDataLoaded' = TRUE
  /\ fetching' = fetching \cup {"core", "btc"}
  /\ UNCHANGED <<chainId, price, isLoading, inputVars, onChain, cached, requests, asked>>
PricesArrive ==
  /\ isDataLoaded
  /\ price' \in Prices /\ isLoading' \in BOOLEAN
  /\ UNCHANGED <<chainId, isDataLoaded, inputVars, onChain, cached, fetching, requests, asked>>
ReadReturns(read) ==
  /\ read \in fetching
  /\ cached' = [cached EXCEPT ![read] = onChain[read]]
  /\ fetching' = fetching \ {read}
  /\ UNCHANGED <<outsideVars, inputVars, onChain, requests, asked>>

-----------------------------------------------------------------------------
\* Only the newest request of a kind is heard of, and it is "loading" between
\* being sent and mined, not while the wallet asks.
Newest(r) == \A o \in requests : o.kind = r.kind => o.id <= r.id
isTxLoading(kind) == \E r \in requests : r.kind = kind /\ r.sent /\ Newest(r)
isStaking == isTxLoading("stake") \/ isLoading

needsBtcApproval == btcAmount > 0 /\ cached.allowance < btcAmount

\* Native CORE needs no approval, and is what the testnet deposits.
useNativeCORE == chainId # "local"

validateDeposit ==
  /\ coreAmount >= MinCore /\ btcAmount >= MinBtc
  /\ calculateTotalUSDValue(coreAmount, btcAmount) >= MinValue
  /\ coreAmount <= cached.core /\ btcAmount <= cached.btc
  /\ price.core > 0 /\ price.btc > 0

Ask(kind) ==
  /\ asked < MaxAsked /\ asked' = asked + 1
  /\ requests' = requests \cup {[id |-> asked, kind |-> kind, sent |-> FALSE,
                                 core |-> coreAmount, btc |-> btcAmount]}
  /\ UNCHANGED <<outsideVars, inputVars, onChain, cached, fetching>>
\* CORE is never approved (handleApproveCORE has nothing to do).
handleApproveBTC == needsBtcApproval /\ ~isTxLoading("approve") /\ Ask("approve")
handleDualStake ==
  /\ ~isStaking /\ ~needsBtcApproval
  /\ validateDeposit
  /\ Ask("stake")

-----------------------------------------------------------------------------
WalletSends(r) ==
  /\ r \in requests /\ ~r.sent
  /\ requests' = (requests \ {r}) \cup {[r EXCEPT !.sent = TRUE]}
  /\ UNCHANGED <<outsideVars, inputVars, onChain, cached, fetching, asked>>
\* The wallet refuses, or the transaction reverts: the page does nothing.
Fails(r) ==
  /\ r \in requests /\ requests' = requests \ {r}
  /\ UNCHANGED <<outsideVars, inputVars, onChain, cached, fetching, asked>>

Approved(r) ==
  /\ r \in requests /\ r.sent /\ r.kind = "approve"
  /\ requests' = requests \ {r}
  /\ onChain' = [onChain EXCEPT !.allowance = r.btc]
  /\ fetching' = IF Newest(r) THEN fetching \cup {"allowance"} ELSE fetching
  /\ UNCHANGED <<outsideVars, inputVars, cached, asked>>

\* What the basket can take; of the CORE token it may take nothing.
Covered(r) == useNativeCORE /\ r.btc <= onChain.allowance
Staked(r) ==
  /\ r \in requests /\ r.sent /\ r.kind = "stake"
  /\ Covered(r) /\ r.btc <= onChain.btc /\ r.core <= onChain.core
  /\ requests' = requests \ {r}
  /\ onChain' = [core |-> onChain.core - r.core, btc |-> onChain.btc - r.btc,
                 allowance |-> onChain.allowance - r.btc]
  /\ IF Newest(r) THEN /\ fetching' = fetching \cup {"core", "btc"}
                       /\ coreAmount' = 0 /\ btcAmount' = MinBtc
     ELSE UNCHANGED <<fetching, inputVars>>
  /\ UNCHANGED <<outsideVars, cached, asked>>

-----------------------------------------------------------------------------
DualInit ==
  /\ chainId \in Chains /\ isDataLoaded = FALSE
  /\ price = [core |-> 0, btc |-> 0] /\ isLoading = TRUE
  /\ coreAmount = 0 /\ btcAmount = MinBtc
  /\ onChain = [core |-> Balance.core, btc |-> Balance.btc, allowance |-> 0]
  /\ cached = [r \in Reads |-> 0] /\ fetching = {"allowance"}
  /\ requests = {} /\ asked = 0

DualNext ==
  \/ \E t \in Clicked : handleAutoCalculate(t)
  \/ \E a \in CoreInputs : TypeCore(a)
  \/ \E a \in BtcInputs : TypeBtc(a)
  \/ UseAll \/ DataLoaded \/ PricesArrive \/ \E read \in Reads : ReadReturns(read)
  \/ handleApproveBTC \/ handleDualStake
  \/ \E r \in requests : WalletSends(r) \/ Fails(r) \/ Approved(r) \/ Staked(r)

-----------------------------------------------------------------------------
\* The amounts computed for a tier are worth it at the prices they were
\* computed from, the fallbacks included, but for the last digit.
TierNearlyReached ==
  [][\A t \in Clicked :
       handleAutoCalculate(t) => calculateTier(coreAmount' + 1, btcAmount') >= t]_dualVars

=============================================================================
