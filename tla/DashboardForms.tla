--------------------------- MODULE DashboardForms ---------------------------
(***************************************************************************)
(* The two forms of the dashboard.  The first deposits CORE (StakeForm.tsx *)
(* and useSwitchboardPriceUpdater.ts, handleDeposit of dashboard.tsx, with *)
(* the balances of useStaticData.ts): a click starts an attempt that keeps *)
(* the values of its render, the price may be updated first, two seconds   *)
(* pass, the simulation of that render decides.  The second redeems BASKET *)
(* (ApiWithdrawForm.tsx); its redemption hook is switched off, the balance *)
(* is a constant and executeRedemption does nothing, so a click ends with  *)
(* issues on the screen or with nothing.  Contracts, wallet and price      *)
(* service are external.  Amounts are in hundredths of a CORE and tenths   *)
(* of a BASKET; 0 is an empty input.                                       *)
(***************************************************************************)
EXTENDS Naturals, Sequences, FiniteSets

CONSTANTS Amounts,      \* what the user types
          Coin,         \* what the account holds at first
          MaxAttempts,  \* bound: clicks of a behaviour
          MaxRefreshes, \* bound: price updates of a behaviour
          Redeemed,     \* what the user types in the second form
          Deployed      \* the chain has one of the two baskets

VARIABLES depositAmount,
          simulation,     \* of useSimulateContract for the amount of the input
          isPriceValid,   \* the last read
          fresh,          \* the oracle's price is
          supported,      \* the wallet's chain is
          isSimulating,
          simulationResult,
          attempts,       \* of the clicks that have not ended
          clicks,
          timers,         \* the renders whose re-simulation is to come
          isUpdating,
          fetches,        \* who waits for the live price
          updateTx,       \* the newest price transaction
          refreshes,
          deposits,       \* asked of the wallet, in order: amount and stage
          coin,           \* what the account holds
          balances,       \* what the page knows: initialized, coin read or not
          inputAmount,    \* the second form: BASKET to redeem
          withdrawalSimulation,
          withdrawalSimulationResult,
          account         \* the wallet is connected

formVars == <<depositAmount, simulation, isPriceValid, fresh, supported, isSimulating,
              simulationResult, attempts, clicks, timers, isUpdating, fetches, updateTx,
              refreshes, deposits, coin, balances>>

priceVars == <<isUpdating, fetches, updateTx, refreshes, fresh>>
chainVars == <<deposits, coin, balances>>
withdrawVars == <<inputAmount, withdrawalSimulation, withdrawalSimulationResult, account>>

Prices == {"unknown", "valid", "stale"}
NoResult == [type |-> "none", canRefresh |-> FALSE]

\* What a render sees of the form.
Render == [amount |-> depositAmount, simulated |-> simulation, supported |-> supported,
           coreBalance |-> balances.core]

\* The hook watches the newest request only, and once it has a hash.
isDepositing == deposits # <<>> /\ deposits[Len(deposits)].stage = "sent"

\* The button is disabled, and so are those that refresh the price.
\* (DisabledUnlessWaiting: the wait of an attempt does not count.)
Updating == isUpdating \/ updateTx = "sent"
DisabledUnlessWaiting == isDepositing \/ Updating \/ depositAmount = 0 \/ ~supported
Disabled == isSimulating \/ isDepositing \/ Updating \/ depositAmount = 0 \/ ~supported

(* What runSimulation finds wrong with a render; a simulation that has not   *)
(* ended is no issue.  priced: the page has a price of CORE, which it has    *)
(* not until a run of PriceData has ended.                                   *)
Issues(r, priced) ==
  {i \in {"insufficient", "price", "unsupported", "minimum", "stale", "failed", "unable"} :
     CASE i = "insufficient" -> r.amount > r.coreBalance
       [] i = "price"        -> ~priced
       [] i = "unsupported"  -> ~r.supported
       [] i = "minimum"      -> r.amount < 100
       [] i = "unable"       -> r.simulated = "none"
       [] OTHER              -> r.simulated = i}
runSimulation(r, priced) ==
  simulationResult' = IF Issues(r, priced) = {} THEN [type |-> "success", canRefresh |-> FALSE]
                      ELSE [type |-> "issues", canRefresh |-> "stale" \in Issues(r, priced)]

-----------------------------------------------------------------------------
\* A new amount is simulated; one that the cache still knows need not be.
setDepositAmount(a) ==
  /\ depositAmount # a
  /\ depositAmount' = a
  /\ simulation' \in IF a = 0 THEN {"none"} ELSE {"loading", "ok"}
  /\ UNCHANGED <<isPriceValid, supported, isSimulating, simulationResult, attempts, clicks,
                 timers, chainVars, priceVars>>
MaxSafe == setDepositAmount(IF balances.core > 2 THEN balances.core - 2 ELSE 0)
UseAll  == setDepositAmount(balances.core)

SimulationEnds ==
  /\ simulation = "loading"
  /\ simulation' \in {"failed"} \cup IF ~fresh THEN {"stale"}
                                      ELSE IF depositAmount <= coin THEN {"ok"} ELSE {}
  /\ UNCHANGED <<depositAmount, isPriceValid, supported, isSimulating, simulationResult,
                 attempts, clicks, timers, chainVars, priceVars>>
PriceRead ==
  /\ isPriceValid' = IF fresh THEN "valid" ELSE "stale"
  /\ UNCHANGED <<depositAmount, simulation, supported, isSimulating, simulationResult,
                 attempts, clicks, timers, chainVars, priceVars>>
PriceAges ==
  /\ fresh' = FALSE
  /\ UNCHANGED <<depositAmount, simulation, isPriceValid, supported, isSimulating,
                 simulationResult, attempts, clicks, timers, chainVars, isUpdating, fetches,
                 updateTx, refreshes>>

-----------------------------------------------------------------------------
(* updateCorePrice: the live price is fetched, then the wallet is asked.     *)
BeginUpdate(who) ==
  /\ refreshes < MaxRefreshes /\ refreshes' = refreshes + 1
  /\ isUpdating' = TRUE
  /\ fetches' = fetches \cup {who}
  /\ UNCHANGED <<updateTx, fresh>>
\* The buttons "Refresh Price" and "Update Prices".
ensureFreshPrice ==
  /\ ~Updating /\ "button" \notin fetches
  /\ BeginUpdate("button")
  /\ UNCHANGED <<depositAmount, simulation, isPriceValid, supported, isSimulating,
                 simulationResult, attempts, clicks, timers, chainVars>>

\* The promise answers TRUE when the wallet is asked, not when it has agreed.
Answered(who, ok) ==
  IF who = "button" THEN UNCHANGED <<attempts, isSimulating, simulationResult>>
  ELSE IF ok THEN /\ attempts' = {[a EXCEPT !.stage = IF @ = "price" THEN "wait" ELSE @] : a \in attempts}
                  /\ UNCHANGED <<isSimulating, simulationResult>>
  ELSE /\ attempts' = {a \in attempts : a.stage # "price"}
       /\ isSimulating' = FALSE
       /\ simulationResult' = [type |-> "error", canRefresh |-> FALSE]
LivePrice(who) ==
  /\ who \in fetches /\ fetches' = fetches \ {who}
  /\ \/ updateTx' = "wallet" /\ UNCHANGED isUpdating /\ Answered(who, TRUE)
     \/ isUpdating' = FALSE /\ UNCHANGED updateTx /\ Answered(who, FALSE)
  /\ UNCHANGED <<depositAmount, simulation, isPriceValid, supported, clicks, timers,
                 chainVars, refreshes, fresh>>

WalletSendsUpdate ==
  /\ updateTx = "wallet" /\ updateTx' = "sent"
  /\ UNCHANGED <<depositAmount, simulation, isPriceValid, supported, isSimulating,
                 simulationResult, attempts, clicks, timers, chainVars, isUpdating, fetches,
                 refreshes, fresh>>
\* The effects of a price transaction that is confirmed, refused or reverted.
\* (UpdateSettlesOnSuccess: no effect for the failures.)
UpdateSettlesOnSuccess ==
  /\ updateTx # "none" /\ updateTx' = "none"
  /\ \/ updateTx = "sent" /\ fresh' = TRUE /\ isUpdating' = FALSE
     \/ UNCHANGED <<fresh, isUpdating>>
  /\ UNCHANGED <<depositAmount, simulation, isPriceValid, supported, isSimulating,
                 simulationResult, attempts, clicks, timers, chainVars, fetches, refreshes>>
UpdateSettles ==
  /\ updateTx # "none" /\ updateTx' = "none"
  /\ isUpdating' = FALSE
  /\ \/ updateTx = "sent" /\ fresh' = TRUE
     \/ UNCHANGED fresh
  /\ UNCHANGED <<depositAmount, simulation, isPriceValid, supported, isSimulating,
                 simulationResult, attempts, clicks, timers, chainVars, fetches, refreshes>>

-----------------------------------------------------------------------------
\* What the dashboard refuses itself, of the render the click was made in.
handleDeposit(r) == r.supported /\ r.amount < r.coreBalance

\* The last part of an attempt: simulation, then the deposit.
Decide(r) ==
  /\ isSimulating' = FALSE
  /\ \E priced \in BOOLEAN :
       IF Issues(r, priced) # {} THEN runSimulation(r, priced) /\ UNCHANGED deposits
       ELSE /\ simulationResult' = NoResult
            /\ deposits' = IF handleDeposit(r)
                           THEN Append(deposits, [amount |-> r.amount, stage |-> "wallet"])
                           ELSE deposits
  /\ UNCHANGED <<coin, balances>>

handleDepositWithSimulation ==
  /\ ~Disabled /\ clicks < MaxAttempts /\ clicks' = clicks + 1
  /\ IF isPriceValid = "stale"
     THEN /\ attempts' = attempts \cup {[stage |-> "price", of |-> Render, id |-> clicks]}
          /\ isSimulating' = TRUE /\ simulationResult' = NoResult
          /\ BeginUpdate("attempt") /\ UNCHANGED chainVars
     ELSE Decide(Render) /\ UNCHANGED <<attempts, priceVars>>
  /\ UNCHANGED <<depositAmount, simulation, isPriceValid, supported, timers>>

\* Two seconds after the answer; the confirmation may still be missing.
AfterWait(a) ==
  /\ a \in attempts /\ a.stage = "wait"
  /\ attempts' = attempts \ {a}
  /\ Decide(a.of)
  /\ UNCHANGED <<depositAmount, simulation, isPriceValid, supported, clicks, timers, priceVars>>

Stage(i, stage) == deposits' = [deposits EXCEPT ![i].stage = stage]
WalletSendsDeposit(i) ==
  /\ deposits[i].stage = "wallet" /\ deposits[i].amount <= coin
  /\ Stage(i, "sent")
  /\ UNCHANGED <<depositAmount, simulation, isPriceValid, supported, isSimulating,
                 simulationResult, attempts, clicks, timers, coin, balances, priceVars>>
\* Refused by the wallet or reverted.
DepositFails(i) ==
  /\ deposits[i].stage \in {"wallet", "sent"} /\ Stage(i, "failed")
  /\ UNCHANGED <<depositAmount, simulation, isPriceValid, supported, isSimulating,
                 simulationResult, attempts, clicks, timers, coin, balances, priceVars>>
\* The success of the newest request empties the input and reads the BASKET
\* balance again (which only the overview shows), but not that of the coin; of
\* an older request nothing is heard.
DepositMined(i) ==
  /\ deposits[i].stage = "sent" /\ deposits[i].amount <= coin
  /\ Stage(i, "mined")
  /\ coin' = coin - deposits[i].amount
  /\ IF i = Len(deposits)
     THEN depositAmount' = 0 /\ simulation' = "none"
     ELSE UNCHANGED <<depositAmount, simulation>>
  /\ UNCHANGED <<balances, isPriceValid, supported, isSimulating, simulationResult, attempts, clicks,
                 timers, priceVars>>

(* The user's balance is read once the page is initialized, a second after   *)
(* it was opened, and kept: no interval and no focus reads it again.         *)
BalancesChange == UNCHANGED <<depositAmount, simulation, isPriceValid, supported, isSimulating,
                              simulationResult, attempts, clicks, timers, deposits, coin,
                              priceVars>>
setIsInitialized ==
  /\ ~balances.initialized
  /\ balances' = [balances EXCEPT !.initialized = TRUE]
  /\ BalancesChange
CoreRead ==
  /\ balances.initialized /\ ~balances.read
  /\ balances' = [balances EXCEPT !.core = coin, !.read = TRUE]
  /\ BalancesChange

(* The effect that simulates again a second after a stale price was found;   *)
(* every result runs it anew.                                                *)
ResimulateEffect ==
  /\ ~Updating /\ simulationResult.canRefresh /\ depositAmount > 0
  /\ timers = {} /\ timers' = {Render}
  /\ UNCHANGED <<depositAmount, simulation, isPriceValid, supported, isSimulating,
                 simulationResult, attempts, clicks, chainVars, priceVars>>
Resimulate(r) ==
  /\ r \in timers /\ timers' = timers \ {r}
  /\ \E priced \in BOOLEAN : runSimulation(r, priced)
  /\ UNCHANGED <<depositAmount, simulation, isPriceValid, supported, isSimulating,
                 attempts, clicks, chainVars, priceVars>>

-----------------------------------------------------------------------------
FormInit ==
  /\ depositAmount = 0 /\ simulation = "none" /\ isPriceValid = "unknown"
  /\ fresh \in BOOLEAN /\ supported \in BOOLEAN
  /\ isSimulating = FALSE /\ simulationResult = NoResult
  /\ attempts = {} /\ clicks = 0 /\ timers = {}
  /\ isUpdating = FALSE /\ fetches = {} /\ updateTx = "none" /\ refreshes = 0
  /\ deposits = <<>> /\ coin = Coin
  /\ balances = [initialized |-> FALSE, read |-> FALSE, core |-> 0]

FormNext ==
  \/ \E a \in Amounts : setDepositAmount(a)
  \/ MaxSafe \/ UseAll \/ SimulationEnds \/ PriceRead \/ PriceAges
  \/ ensureFreshPrice \/ \E who \in {"button", "attempt"} : LivePrice(who)
  \/ WalletSendsUpdate \/ UpdateSettles
  \/ handleDepositWithSimulation \/ \E a \in attempts : AfterWait(a)
  \/ \E i \in DOMAIN deposits : WalletSendsDeposit(i) \/ DepositFails(i) \/ DepositMined(i)
  \/ setIsInitialized \/ CoreRead
  \/ ResimulateEffect \/ \E r \in timers : Resimulate(r)

-----------------------------------------------------------------------------
(* The form that redeems.                                                    *)
userBalance == 105         \* the mock's 10.5 BASKET
canRedeem(a) == a > 0 /\ a <= userBalance
calculatedReturn(a) == (95 * a) \div 100

\* The query runs for a positive amount, an account and a basket.
SimulationEnabled(a, connected) == a > 0 /\ connected /\ Deployed
Simulated(a, connected) ==
  withdrawalSimulation' \in IF SimulationEnabled(a, connected) THEN {"loading", "data"} ELSE {"none"}

WithdrawInit ==
  /\ inputAmount = 0 /\ account \in BOOLEAN
  /\ withdrawalSimulation = "none" /\ withdrawalSimulationResult = {}

(* What its runSimulation lists: one that is still loading is no issue, and  *)
(* a missing return cannot be, as the button wants a positive amount.        *)
RedemptionIssues ==
  {i \in {"balance", "network", "cannot redeem", "return", "failed", "unable"} :
     CASE i = "balance"       -> inputAmount > userBalance
       [] i = "network"       -> ~supported
       [] i = "cannot redeem" -> ~canRedeem(inputAmount)
       [] i = "return"        -> calculatedReturn(inputAmount) = 0
       [] i = "failed"        -> withdrawalSimulation = "error"
       [] OTHER               -> withdrawalSimulation = "none"}

-----------------------------------------------------------------------------
\* Typing: a negative amount becomes 0.  What was found of the amount before
\* stays on the screen.
setInputAmount(a) ==
  /\ supported /\ inputAmount' = a
  /\ Simulated(a, account)
  /\ UNCHANGED <<withdrawalSimulationResult, account>>

RedemptionSimulated ==
  /\ withdrawalSimulation = "loading" /\ withdrawalSimulation' \in {"data", "error"}
  /\ UNCHANGED <<inputAmount, withdrawalSimulationResult, account>>

\* The button, for an amount the mock balance covers, and its handler, which
\* awaits nothing but promises that are kept at once: isSimulating and the
\* success are gone before anything else happens.
RedeemDisabled == inputAmount = 0 \/ ~supported \/ inputAmount > userBalance
handleRedeemWithSimulation ==
  /\ ~RedeemDisabled
  /\ withdrawalSimulationResult' = RedemptionIssues
  /\ UNCHANGED <<inputAmount, withdrawalSimulation, account>>

AccountChanges ==
  /\ account' = ~account
  /\ Simulated(inputAmount, account')
  /\ UNCHANGED <<inputAmount, withdrawalSimulationResult>>

WithdrawNext ==
  /\ UNCHANGED supported
  /\ \/ \E a \in Redeemed \cup {0} : setInputAmount(a)
     \/ RedemptionSimulated \/ handleRedeemWithSimulation \/ AccountChanges

(* The wallet changes its chain: both forms look at it and simulate again,   *)
(* and on a chain that is not supported the second is replaced by a card.    *)
ChainChanges ==
  /\ supported' = ~supported
  /\ simulation' = IF depositAmount = 0 THEN "none" ELSE "loading"
  /\ Simulated(inputAmount, account)
  /\ UNCHANGED <<depositAmount, isPriceValid, isSimulating, simulationResult,
                 attempts, clicks, timers, chainVars, priceVars, inputAmount,
                 withdrawalSimulationResult, account>>

-----------------------------------------------------------------------------
\* While an attempt waits for its price no other click gets through to the
\* wallet, though the input, the chain, the price and the simulation go on: a
\* deposit is asked for when there is no other attempt.
OneAttemptAtATime ==
  [][Len(deposits') > Len(deposits) => attempts' = {} /\ Cardinality(attempts) <= 1]_formVars

\* However an attempt or a price update ended, the form can be used again.
FormReleased ==
  (attempts = {} /\ fetches = {} /\ updateTx = "none") => ~isSimulating /\ ~isUpdating

=============================================================================
