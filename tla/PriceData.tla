------------------------------ MODULE PriceData ------------------------------
(***************************************************************************)
(* The prices the pages show (useRealPriceData.ts): the effect of a chain  *)
(* tries the oracle, the Core API, CoinGecko behind the request limiter    *)
(* (requestLimiter.ts) and last the prices written in the code.  A run of  *)
(* the effect goes on after it was cleaned up, but must not write.         *)
(* Prices are known by the chain they are of and by their source.          *)
(***************************************************************************)
EXTENDS Naturals, Sequences, FiniteSets

CONSTANTS Chains,        \* with "local" among them
          Deployed,      \* those with a StakeBasket address
          maxConcurrent,
          Runs           \* bound: runs of the effect in a behaviour

VARIABLES chainId,
          oracle,         \* what the reads of a chain's oracle last returned
          apiCache,       \* chains whose Core API answer is cached
          priceCache,     \* of CoinGecko
          run,            \* the runs of the effect
          queue,          \* of the limiter: runs whose request waits
          recent,         \* the last request is younger than minDelay
          timers,         \* of the limiter, pending
          priceData

priceVars == <<chainId, oracle, apiCache, priceCache, run, queue, recent, timers, priceData>>

None == "none"
NotRun == [stage |-> "none", chain |-> None, mounted |-> FALSE]
Loading == [of |-> None, source |-> "fallback"]   \* isLoading

enabled(chain) == chain \in Deployed
shouldUseOracle(chain) == chain # "local"
activeRequests == Cardinality({e \in Runs : run[e].stage = "fetching"})

-----------------------------------------------------------------------------
(* Only the run that is still mounted writes.                                *)
(* (setPriceDataLate: any run does.)                                         *)
setPriceDataLate(r, source) == priceData' = [of |-> r.chain, source |-> source]
setPriceData(r, source) ==
  IF r.mounted THEN priceData' = [of |-> r.chain, source |-> source]
  ELSE UNCHANGED priceData

(* processQueue, with what waits and the timers pending besides: at most one *)
(* request is taken, and not too soon after the last.                        *)
processQueue(waiting, runs, others) ==
  IF activeRequests >= maxConcurrent \/ waiting = <<>>
  THEN queue' = waiting /\ run' = runs /\ timers' = others /\ UNCHANGED recent
  ELSE IF recent
  THEN queue' = waiting /\ run' = runs /\ timers' = others + 1 /\ UNCHANGED recent
  ELSE /\ queue' = Tail(waiting) /\ timers' = others /\ recent' = TRUE
       /\ run' = [runs EXCEPT ![Head(waiting)].stage = "fetching"]
addRequest(e) == processQueue(Append(queue, e), [run EXCEPT ![e].stage = "queued"], timers)

\* The first stage of the effect.
FirstStage(chain) ==
  IF shouldUseOracle(chain) /\ oracle[chain] = "valid" THEN "oracle"
  ELSE IF chain = "local" THEN "gecko" ELSE "core"
Begin(e, chain, cleaned) ==
  run' = IF enabled(chain)
         THEN [cleaned EXCEPT ![e] = [stage |-> FirstStage(chain), chain |-> chain, mounted |-> TRUE]]
         ELSE cleaned

Cleaned == [e \in Runs |-> [run[e] EXCEPT !.mounted = FALSE]]
Unused == {e \in Runs : run[e] = NotRun}

\* The chain of the wallet changes: cleanup, then the effect again.
ChainChanges(chain) ==
  /\ chain # chainId /\ Unused # {}
  /\ chainId' = chain
  /\ Begin(CHOOSE e \in Unused : TRUE, chain, Cleaned)
  /\ UNCHANGED <<oracle, apiCache, priceCache, queue, recent, timers, priceData>>
\* Another page is opened: its state is new, the caches are not.
Remount ==
  /\ Unused # {}
  /\ priceData' = Loading
  /\ Begin(CHOOSE e \in Unused : TRUE, chainId, Cleaned)
  /\ UNCHANGED <<chainId, oracle, apiCache, priceCache, queue, recent, timers>>

OracleRead(answer) ==
  /\ shouldUseOracle(chainId) /\ enabled(chainId)
  /\ oracle[chainId] # answer
  /\ oracle' = [oracle EXCEPT ![chainId] = answer]
  /\ UNCHANGED <<chainId, apiCache, priceCache, run, queue, recent, timers, priceData>>

FromOracle(e) ==
  /\ run[e].stage = "oracle"
  /\ setPriceData(run[e], "oracle")
  /\ run' = [run EXCEPT ![e].stage = "done"]
  /\ UNCHANGED <<chainId, oracle, apiCache, priceCache, queue, recent, timers>>

(* The Core API: cached for two minutes, no timeout.                         *)
CoreApiAnswers(chain) == IF chain \in apiCache THEN {TRUE} ELSE BOOLEAN
\* A run that is not mounted any more asks CoinGecko even after an answer.
getCorePrice(e) ==
  /\ run[e].stage = "core"
  /\ \E ok \in CoreApiAnswers(run[e].chain) :
       /\ apiCache' = IF ok THEN apiCache \cup {run[e].chain} ELSE apiCache
       /\ IF ok /\ run[e].mounted
          THEN setPriceData(run[e], "core-api") /\ run' = [run EXCEPT ![e].stage = "done"]
          ELSE UNCHANGED priceData /\ run' = [run EXCEPT ![e].stage = "gecko"]
  /\ UNCHANGED <<chainId, oracle, priceCache, queue, recent, timers>>

\* CoinGecko: an answer of the last minute, or a request at the limiter.
fetchCoinGeckoPrice(e) ==
  /\ run[e].stage = "gecko"
  /\ IF priceCache = "fresh"
     THEN /\ setPriceData(run[e], "coingecko")
          /\ run' = [run EXCEPT ![e].stage = "done"]
          /\ UNCHANGED <<queue, recent, timers>>
     ELSE UNCHANGED priceData /\ addRequest(e)
  /\ UNCHANGED <<chainId, oracle, apiCache, priceCache>>

(* Its answer, error or timeout; what the cache has is used however old it   *)
(* is.  The limiter looks at its queue again after minDelay.                 *)
(* (AnsweredSilently: it does not.)                                          *)
AnsweredSilently(e) ==
  /\ run[e].stage = "fetching"
  /\ \E ok \in BOOLEAN :
       /\ priceCache' = IF ok THEN "fresh" ELSE priceCache
       /\ setPriceData(run[e], IF ok \/ priceCache # "none" THEN "coingecko" ELSE "fallback")
  /\ run' = [run EXCEPT ![e].stage = "done"]
  /\ UNCHANGED <<chainId, oracle, apiCache, queue, recent, timers>>
GeckoAnswers(e) ==
  /\ run[e].stage = "fetching"
  /\ \E ok \in BOOLEAN :
       /\ priceCache' = IF ok THEN "fresh" ELSE priceCache
       /\ setPriceData(run[e], IF ok \/ priceCache # "none" THEN "coingecko" ELSE "fallback")
  /\ run' = [run EXCEPT ![e].stage = "done"]
  /\ timers' = timers + 1
  /\ UNCHANGED <<chainId, oracle, apiCache, queue, recent>>

TimerFires ==
  /\ timers > 0 /\ processQueue(queue, run, timers - 1)
  /\ UNCHANGED <<chainId, oracle, apiCache, priceCache, priceData>>

DelayPasses ==
  /\ recent /\ recent' = FALSE
  /\ UNCHANGED <<chainId, oracle, apiCache, priceCache, run, queue, timers, priceData>>
CachesAge ==
  /\ \/ priceCache = "fresh" /\ priceCache' = "old" /\ UNCHANGED apiCache
     \/ apiCache # {} /\ apiCache' = {} /\ UNCHANGED priceCache
  /\ UNCHANGED <<chainId, oracle, run, queue, recent, timers, priceData>>

-----------------------------------------------------------------------------
PriceInit ==
  /\ chainId \in Chains
  /\ oracle = [c \in Chains |-> "unread"]
  /\ apiCache = {} /\ priceCache = "none"
  /\ run = [e \in Runs |-> NotRun]
  /\ queue = <<>> /\ recent = FALSE /\ timers = 0
  /\ priceData = Loading

PriceNext ==
  \/ \E c \in Chains : ChainChanges(c)
  \/ Remount
  \/ \E answer \in {"valid", "invalid"} : OracleRead(answer)
  \/ \E e \in Runs : FromOracle(e) \/ getCorePrice(e) \/ fetchCoinGeckoPrice(e) \/ GeckoAnswers(e)
  \/ TimerFires \/ DelayPasses \/ CachesAge

-----------------------------------------------------------------------------
Running == \E e \in Runs : run[e].mounted /\ run[e].stage # "done"

\* Whatever runs of other chains still wait for an answer and whenever it
\* comes: once the run of this chain has ended the prices shown are of this
\* chain.
PricesOfChain ==
  (\E e \in Runs : run[e].mounted) /\ ~Running => priceData.of = chainId

\* A chain with contracts gets prices in the end, through the limiter too:
\* no request is forgotten in its queue.
PricesLoad == Running ~> ~Running
=============================================================================
