---------------------------- MODULE OracleUpdater ----------------------------
(***************************************************************************)
(* The price updater of the backend (OracleUpdater.ts) and the routes that *)
(* start, stop and read it (routes/oracle.ts).  Every start makes a new    *)
(* object, awaits a first update and only then sets the interval; the      *)
(* routes keep one reference, to the newest object.  A price is the number *)
(* of the quote it was derived from: quotes only get newer.                *)
(***************************************************************************)
EXTENDS Naturals, FiniteSets

CONSTANTS MaxUpdaters,   \* bound: objects made
          Updates,       \* bound: updates in flight at once
          MaxQuote       \* bound: last quote

VARIABLES quote,         \* the newest quote of the Core API
          onChain,       \* the quote behind the prices in the contract
          phase,         \* phase[u]: none, starting, ticking, stopped or failed
          updater,       \* the routes' reference, 0 for null
          update         \* update[k]: its object, step, quote, and who awaits it

oracleVars == <<quote, onChain, phase, updater, update>>

Updaters == 1 .. MaxUpdaters
NoUpdate == [of |-> 0, step |-> "idle", quote |-> 0, by |-> "none"]

OracleInit ==
  /\ quote = 0 /\ onChain = 0
  /\ phase = [u \in Updaters |-> "none"]
  /\ updater = 0
  /\ update = [k \in Updates |-> NoUpdate]

\* getStatus: an interval that is set is all that makes it running.
isRunning == updater # 0 /\ phase[updater] = "ticking"

\* updateAllPrices begins: the price and the statistics are awaited together.
Begins(k, u, by) ==
  /\ update[k] = NoUpdate
  /\ update' = [update EXCEPT ![k] = [of |-> u, step |-> "fetching", quote |-> 0, by |-> by]]

\* The start route up to the await of startUpdating.
startUpdater(k) ==
  /\ ~isRunning
  /\ \E u \in Updaters :
       /\ phase[u] = "none" /\ \A v \in Updaters : v < u => phase[v] # "none"
       /\ phase' = [phase EXCEPT ![u] = "starting"]
       /\ updater' = u
       /\ Begins(k, u, "start")
  /\ UNCHANGED <<quote, onChain>>

\* setInterval fires whatever updates of the object are still in flight.
IntervalTicks(k) ==
  /\ \E u \in Updaters : phase[u] = "ticking" /\ Begins(k, u, "timer")
  /\ UNCHANGED <<quote, onChain, phase, updater>>

manualUpdate(k) ==
  /\ updater # 0
  /\ Begins(k, updater, "route")
  /\ UNCHANGED <<quote, onChain, phase, updater>>

\* Where an update that is over leaves its object: the first one sets the
\* interval, or the start fails.
Settled(k, ok) ==
  IF update[k].by = "start"
  THEN [phase EXCEPT ![update[k].of] = IF ok THEN "ticking" ELSE "failed"]
  ELSE phase

\* Prices derived from what was sent before.
FetchedStale(k, ok) ==
  /\ update[k].step = "fetching"
  /\ IF ok
     THEN /\ update' = [update EXCEPT ![k].step = "sent", ![k].quote = onChain]
          /\ UNCHANGED phase
     ELSE update' = [update EXCEPT ![k] = NoUpdate] /\ phase' = Settled(k, FALSE)
  /\ UNCHANGED <<quote, onChain, updater>>

\* Both answers are in: the four prices are derived from the quote and sent
\* in one transaction; a refusal, or a price that is no number, ends it.
Fetched(k, ok) ==
  /\ update[k].step = "fetching"
  /\ IF ok
     THEN /\ update' = [update EXCEPT ![k].step = "sent", ![k].quote = quote]
          /\ UNCHANGED phase
     ELSE update' = [update EXCEPT ![k] = NoUpdate] /\ phase' = Settled(k, FALSE)
  /\ UNCHANGED <<quote, onChain, updater>>

Mined(k, ok) ==
  /\ update[k].step = "sent"
  /\ onChain' = IF ok THEN update[k].quote ELSE onChain
  /\ phase' = Settled(k, ok)
  /\ update' = [update EXCEPT ![k] = NoUpdate]
  /\ UNCHANGED <<quote, updater>>

\* stopUpdating clears the interval of the object the routes know, if set;
\* the route answers with success as soon as there is an object.
stopUpdating(known) == IF phase[known] = "ticking" THEN [phase EXCEPT ![known] = "stopped"]
                       ELSE phase
stopUpdater ==
  /\ updater # 0
  /\ phase' = stopUpdating(updater)
  /\ UNCHANGED <<quote, onChain, updater, update>>

NewQuote ==
  /\ quote < MaxQuote /\ quote' = quote + 1
  /\ UNCHANGED <<onChain, phase, updater, update>>

OracleNext ==
  \/ NewQuote \/ stopUpdater
  \/ \E k \in Updates : \/ startUpdater(k) \/ IntervalTicks(k) \/ manualUpdate(k)
                        \/ \E ok \in BOOLEAN : Fetched(k, ok) \/ Mined(k, ok)

-----------------------------------------------------------------------------
\* While an updater ticks, every quote, or a newer one, comes to the contract,
\* whatever single updates fail or overtake each other (lines 61-67, 86-140).
QuotesReachChain ==
  \A q \in 1 .. MaxQuote :
    (isRunning /\ quote = q) ~> (onChain >= q \/ ~isRunning)
=============================================================================
