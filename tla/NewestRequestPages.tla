-------------------------- MODULE NewestRequestPages --------------------------
(***************************************************************************)
(* Two pages over one writeContract, whose newest request is the only one  *)
(* it hears of: the faucet page (FaucetInterface.tsx), the buttons of one  *)
(* token and the loop that asks for all of them, a tenth of a second       *)
(* apart; and the page of the simple system (SimpleStaking.tsx), which     *)
(* asks the wallet for an approval and at once for the deposit, and two    *)
(* seconds after a hash has come fetches the cached reads again.  Wallet,  *)
(* tokens and contracts are external; amounts are BTC units and as many    *)
(* shares.                                                                 *)
(***************************************************************************)
EXTENDS Naturals, Sequences, FiniteSets

CONSTANTS Chains,      \* "local", "testnet" and others
          Loops,       \* bound: loops that may run at once
          Amounts,     \* what the user types
          MaxClicks    \* bound: clicks of a behaviour on the simple page

(* The faucet page.                                                        *)
VARIABLES chainId,
          faucetStatus,    \* whose tokens are listed
          loadingToken,
          loading,
          tx,              \* the newest request
          reverted,        \* it was mined and failed
          loop             \* the token a loop asks for next, 0 when it has ended

faucetPageVars == <<chainId, faucetStatus, loadingToken, loading, tx, reverted, loop>>

None == "none"
isLocalNetwork == chainId = "local"
isTestnet == chainId = "testnet"
Busy == tx # None                     \* isPending or isConfirming

Tokens == <<"MockCORE", "MockCoreBTC", "BASKET">>

-----------------------------------------------------------------------------
\* The list of the local network or a list of the code; the testnet keeps what
\* was there.
StatusFor(chain, old) ==
  CASE chain = "local" -> "local" [] chain = "testnet" -> old [] OTHER -> "fallback"
ChainChanges(chain) ==
  /\ chain # chainId /\ chainId' = chain
  /\ faucetStatus' = StatusFor(chain, faucetStatus)
  /\ UNCHANGED <<loadingToken, loading, tx, reverted, loop>>

writeContract == tx' = "wallet" /\ reverted' = FALSE

\* On the local network: the two test tokens have a faucet, BASKET has none.
\* (requestDirectlyForgets: its message leaves the token loading.)
requestDirectlyForgets(token) ==
  /\ loadingToken' = token
  /\ IF token = "BASKET" THEN UNCHANGED <<tx, reverted>> ELSE writeContract
requestTokensDirectly(token) ==
  IF token = "BASKET" THEN loadingToken' = None /\ UNCHANGED <<tx, reverted>>
  ELSE loadingToken' = token /\ writeContract

requestTokens(token) ==
  /\ isLocalNetwork /\ loadingToken # token /\ ~Busy
  /\ requestTokensDirectly(token)
  /\ UNCHANGED <<chainId, faucetStatus, loading, loop>>
\* Elsewhere the faucet of the backend is disabled.
requestDisabled(token) ==
  /\ ~isLocalNetwork /\ ~isTestnet /\ loadingToken # token
  /\ loadingToken' = None
  /\ UNCHANGED <<chainId, faucetStatus, loading, tx, reverted, loop>>
requestAllDisabled ==
  /\ ~isLocalNetwork /\ ~isTestnet /\ ~loading
  /\ UNCHANGED faucetPageVars

\* The loop goes on in the values of its render, whatever comes of a request.
requestAllTokens(l) ==
  /\ isLocalNetwork /\ ~loading /\ ~Busy /\ loop[l] = 0
  /\ loading' = TRUE
  /\ loop' = [loop EXCEPT ![l] = 1]
  /\ UNCHANGED <<chainId, faucetStatus, loadingToken, tx, reverted>>
LoopAsks(l) ==
  /\ loop[l] \in DOMAIN Tokens
  /\ requestTokensDirectly(Tokens[loop[l]])
  /\ loop' = [loop EXCEPT ![l] = @ + 1]
  /\ UNCHANGED <<chainId, faucetStatus, loading>>
\* (LoopEndsQuietly: without its finally, the button is left loading.)
LoopEndsQuietly(l) ==
  /\ loop[l] = Len(Tokens) + 1
  /\ loop' = [loop EXCEPT ![l] = 0]
  /\ UNCHANGED <<chainId, faucetStatus, loadingToken, loading, tx, reverted>>
LoopEnds(l) ==
  /\ loop[l] = Len(Tokens) + 1
  /\ loop' = [loop EXCEPT ![l] = 0] /\ loading' = FALSE
  /\ UNCHANGED <<chainId, faucetStatus, loadingToken, tx, reverted>>

\* The buttons of the testnet: two claims and a deposit.
ClaimOnTestnet ==
  /\ isTestnet /\ ~Busy /\ writeContract
  /\ UNCHANGED <<chainId, faucetStatus, loadingToken, loading, loop>>

-----------------------------------------------------------------------------
WalletSends ==
  /\ tx = "wallet" /\ tx' = "sent"
  /\ UNCHANGED <<chainId, faucetStatus, loadingToken, loading, reverted, loop>>
\* The effect of a request that is confirmed or that the wallet refuses.
RequestSettles ==
  /\ Busy /\ tx' = None
  /\ loadingToken' = None /\ loading' = FALSE
  /\ UNCHANGED <<chainId, faucetStatus, reverted, loop>>
\* The error of a receipt is not read: no effect runs.
RequestReverts ==
  /\ tx = "sent" /\ tx' = None /\ reverted' = TRUE
  /\ UNCHANGED <<chainId, faucetStatus, loadingToken, loading, loop>>

-----------------------------------------------------------------------------
FaucetPageInit ==
  /\ chainId \in Chains
  /\ faucetStatus = StatusFor(chainId, None)
  /\ loadingToken = None /\ loading = FALSE
  /\ tx = None /\ reverted = FALSE
  /\ loop = [l \in Loops |-> 0]

FaucetPageNext ==
  \/ \E c \in Chains : ChainChanges(c)
  \/ \E i \in DOMAIN Tokens : requestTokens(Tokens[i]) \/ requestDisabled(Tokens[i])
  \/ requestAllDisabled
  \/ \E l \in Loops : requestAllTokens(l) \/ LoopAsks(l) \/ LoopEnds(l)
  \/ ClaimOnTestnet \/ WalletSends \/ RequestSettles \/ RequestReverts

-----------------------------------------------------------------------------
\* Loops that overlap, requests that replace each other and changes of chain
\* leave neither button waiting: that for all tokens waits for a loop, that of
\* a token for the newest request, or for good if that one was mined and
\* failed, which the page does not hear of.
ButtonsReleased ==
  /\ loading => \E l \in Loops : loop[l] # 0
  /\ loadingToken # None => Busy \/ reverted

-----------------------------------------------------------------------------
(* The page of the simple system.                                          *)
VARIABLES address,       \* the wallet is connected
          btcAmount,     \* 0 is an empty input
          withdrawShares,
          onChain,       \* shares of the user
          cached,        \* the last read of them
          requests,      \* asked of the wallet or sent, and not ended
          depositHook,   \* the request the deposit's writeContract hears of
          withdrawHook,
          hashes,        \* the hooks that have a hash
          timer,         \* the refetch is to come
          clicks

simpleVars == <<address, btcAmount, withdrawShares, onChain, cached, requests, depositHook,
                withdrawHook, hashes, timer, clicks>>

NoRequest == [kind |-> "none"]
Pending(hook) == hook \in requests

\* The effect of the hashes: one more or one less, and the timer starts anew.
Hashes(new) ==
  /\ hashes' = new
  /\ timer' = IF new = hashes THEN timer ELSE new # {}

-----------------------------------------------------------------------------
(* The suggested BTC amount divides by the ratio of the pool: with no pool   *)
(* yet read there is none, and the ratio 0 of an empty pool throws when the  *)
(* CORE amount is set already.  Either way the BTC input may be anything.    *)
calculateOptimalBtc ==
  /\ btcAmount' \in Amounts \cup {btcAmount}
  /\ UNCHANGED <<address, withdrawShares, onChain, cached, requests, depositHook,
                 withdrawHook, hashes, timer, clicks>>

Ask(kind, amount) == [kind |-> kind, amount |-> amount, id |-> clicks, stage |-> "wallet"]

\* The second call makes the writeContract forget the first.
\* (DepositThenApprove: the two calls in the other order.)
DepositThenApprove == depositHook' = Ask("approve", btcAmount)
ApproveThenDeposit == depositHook' = Ask("deposit", btcAmount)
handleDeposit ==
  /\ address /\ btcAmount > 0 /\ ~Pending(depositHook)
  /\ clicks < MaxClicks /\ clicks' = clicks + 1
  /\ requests' = requests \cup {Ask("approve", btcAmount), Ask("deposit", btcAmount)}
  /\ ApproveThenDeposit
  /\ btcAmount' = 0
  /\ Hashes(hashes \ {"deposit"})
  /\ UNCHANGED <<address, withdrawShares, onChain, cached, withdrawHook>>

\* The form is shown to who had shares when they were read.
setWithdrawShares(amount) ==
  /\ address /\ cached > 0 /\ withdrawShares' = amount
  /\ UNCHANGED <<address, btcAmount, onChain, cached, requests, depositHook, withdrawHook,
                 hashes, timer, clicks>>
Half == setWithdrawShares(cached \div 2)
Max  == setWithdrawShares(cached)
handleWithdraw ==
  /\ address /\ cached > 0 /\ withdrawShares > 0 /\ ~Pending(withdrawHook)
  /\ clicks < MaxClicks /\ clicks' = clicks + 1
  /\ withdrawHook' = Ask("withdraw", withdrawShares)
  /\ requests' = requests \cup {withdrawHook'}
  /\ withdrawShares' = 0
  /\ Hashes(hashes \ {"withdraw"})
  /\ UNCHANGED <<address, btcAmount, onChain, cached, depositHook>>

-----------------------------------------------------------------------------
\* Its hash is heard of when the request is the newest of its hook.
Kind(r) == IF r.kind = "withdraw" THEN "withdraw" ELSE "deposit"
Becomes(r, new) ==
  /\ requests' = (requests \ {r}) \cup new
  /\ depositHook' = IF depositHook = r /\ new # {} THEN CHOOSE n \in new : TRUE ELSE depositHook
  /\ withdrawHook' = IF withdrawHook = r /\ new # {} THEN CHOOSE n \in new : TRUE ELSE withdrawHook

HashComes(r) ==
  /\ r \in requests /\ r.stage = "wallet"
  /\ Becomes(r, {[r EXCEPT !.stage = "sent"]})
  /\ Hashes(hashes \cup {Kind(x) : x \in {r} \cap {depositHook, withdrawHook}})
  /\ UNCHANGED <<address, btcAmount, withdrawShares, onChain, cached, clicks>>
\* Refused by the wallet or reverted: only the button is released.
Fails(r) ==
  /\ r \in requests /\ Becomes(r, {})
  /\ UNCHANGED <<address, btcAmount, withdrawShares, onChain, cached, hashes, timer, clicks>>
Mined(r) ==
  /\ r \in requests /\ r.stage = "sent" /\ Becomes(r, {})
  /\ CASE r.kind = "approve"  -> UNCHANGED onChain
       [] r.kind = "deposit"  -> onChain' = onChain + r.amount
       [] r.kind = "withdraw" -> r.amount <= onChain /\ onChain' = onChain - r.amount
  /\ UNCHANGED <<address, btcAmount, withdrawShares, cached, hashes, timer, clicks>>

\* Two seconds after the last hash, mined or not.
Refetch ==
  /\ timer /\ timer' = FALSE /\ cached' = onChain
  /\ UNCHANGED <<address, btcAmount, withdrawShares, onChain, requests, depositHook,
                 withdrawHook, hashes, clicks>>
ConnectionChanges ==
  /\ address' = ~address
  /\ UNCHANGED <<btcAmount, withdrawShares, onChain, cached, requests, depositHook,
                 withdrawHook, hashes, timer, clicks>>

-----------------------------------------------------------------------------
SimpleInit ==
  /\ address = TRUE /\ btcAmount = 0 /\ withdrawShares = 0
  /\ onChain \in {0} \cup Amounts /\ cached = onChain
  /\ requests = {} /\ depositHook = NoRequest /\ withdrawHook = NoRequest
  /\ hashes = {} /\ timer = FALSE /\ clicks = 0

SimpleNext ==
  \/ calculateOptimalBtc \/ handleDeposit \/ handleWithdraw
  \/ \E a \in Amounts : setWithdrawShares(a)
  \/ Half \/ Max
  \/ \E r \in requests : HashComes(r) \/ Fails(r) \/ Mined(r)
  \/ Refetch \/ ConnectionChanges

-----------------------------------------------------------------------------
\* Only the newest request is heard of, and an approval may wait in the wallet
\* for long after its deposit has ended: still no second deposit is asked for
\* while one is under way, nor a second withdrawal.
OneDepositAtATime ==
  \A k \in {"deposit", "withdraw"} : Cardinality({r \in requests : r.kind = k}) <= 1
=============================================================================
