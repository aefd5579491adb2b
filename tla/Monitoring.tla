----------------------------- MODULE Monitoring -----------------------------
(***************************************************************************)
(* The monitoring jobs of index.ts: what ContractMonitor.ts and            *)
(* ValidatorMonitor.ts answer is stored (MetricsCollector.ts), judged      *)
(* (AlertManager.ts) and broadcast.  The jobs share one alert manager and  *)
(* one collector; the routes/ modules make others, which are the ones the  *)
(* API shows and changes.                                                  *)
(***************************************************************************)
EXTENDS Integers, Sequences, SequencesExt, FiniteSets

CONSTANTS AlertCooldown,   \* AlertCooldown[rule], in ticks
          AlertAge,        \* clearOldAlerts keeps younger alerts
          MetricsCap,      \* metrics kept (1000 in the code)
          AUMs,            \* possible totals under management, in dollars
          FeedPrices,      \* possible CORE prices, in cents
          UptimeAverages,  \* possible average uptimes, in percent
          Jobs,            \* bound: jobs awaiting their data at once
          MaxAlerts,       \* bound: alerts the jobs raise
          MaxCustom,       \* bound: alerts the API makes
          EndOfTime        \* bound: last tick

VARIABLES date,            \* Date.now(), from 1
          alerts,          \* alerts[m]: the list of a manager
          lastAlertTime,   \* lastAlertTime[m][rule], 0 for none
          metrics,         \* the jobs' collector: type and time of each entry
          awaiting         \* awaiting[j]: contract, validators, price, or idle

monitoringVars == <<date, alerts, lastAlertTime, metrics, awaiting>>

Managers == {"jobs", "api"}

\* The rules, in the order in which they are tried.
Rules ==
  [contract   |-> <<"high-error-rate", "low-performance", "high-gas-usage", "low-aum">>,
   validators |-> <<"validator-slashing", "low-validator-uptime", "inactive-validators">>,
   price      |-> <<"stale-price-feed", "high-price-deviation", "extreme-price-movement">>]
RuleIds == UNION {ToSet(Rules[c]) : c \in DOMAIN Rules}
Condition(rule, d) ==
  CASE rule = "high-error-rate"        -> d.errorRate > 5
    [] rule = "low-performance"        -> d.performance < 500
    [] rule = "high-gas-usage"         -> d.gas > 600000
    [] rule = "low-aum"                -> d.aum < 1000
    [] rule = "validator-slashing"     -> d.slashed > 0
    [] rule = "low-validator-uptime"   -> d.uptime < 95
    [] rule = "inactive-validators"    -> 10 * d.active < 8 * d.total
    [] rule = "stale-price-feed"       -> d.stale
    [] rule = "high-price-deviation"   -> d.deviation > 10
    [] rule = "extreme-price-movement" -> d.deviation > 25

ASSUME MonitoringAssumption ==
  /\ \A r \in RuleIds : AlertCooldown[r] \in Nat \ {0}
  /\ MetricsCap \in Nat \ {0} /\ FeedPrices \subseteq Nat

-----------------------------------------------------------------------------
\* calculatePerformanceScore, in tenths of a point.
calculatePerformanceScore(paused, errorRate, gas) ==
  (IF paused THEN 500 ELSE 1000) - 3 * errorRate - (IF gas < 500000 THEN 0 ELSE 100)

\* collectMetrics: the transaction data are fixed numbers, or zeros when the
\* block number cannot be read.  1 - 0.95 is a little more than 0.05, so the
\* fixed error rate counts as 6 when it is compared.
getRecentTransactionData(readable) ==
  IF readable THEN [errorRate |-> 6, gas |-> 200000] ELSE [errorRate |-> 0, gas |-> 0]
collectMetrics ==
  {LET recent == getRecentTransactionData(readable)
   IN [errorRate |-> recent.errorRate, gas |-> recent.gas, aum |-> aum,
       performance |-> calculatePerformanceScore(paused, IF readable THEN 5 ELSE 0, recent.gas)]
     : paused, readable \in BOOLEAN, aum \in AUMs}

\* checkPriceFeeds: the deviation, in percent, is from a fixed 150 cents.
Apart(a, b) == IF a > b THEN a - b ELSE b - a
checkPriceFeeds ==
  [stale : BOOLEAN, deviation : {(100 * Apart(p, 150)) \div 150 : p \in FeedPrices}]

\* checkValidators, with its three fixed validators of which the third is
\* inactive and was slashed; only the uptimes vary.
checkValidators == [active : {2}, total : {3}, slashed : {1}, uptime : UptimeAverages]

Data(kind) == CASE kind = "contract" -> collectMetrics
                [] kind = "validators" -> checkValidators
                [] kind = "price" -> checkPriceFeeds

-----------------------------------------------------------------------------
MonitoringInit ==
  /\ date = 1
  /\ alerts = [m \in Managers |-> <<>>]
  /\ lastAlertTime = [m \in Managers |-> [r \in RuleIds |-> 0]]
  /\ metrics = <<>>
  /\ awaiting = [j \in Jobs |-> "idle"]

\* A rule without its cooldown.
triggerWhenever(m, rule, d) == Condition(rule, d)

shouldTriggerAlert(m, rule, d) ==
  /\ lastAlertTime[m][rule] = 0 \/ date - lastAlertTime[m][rule] >= AlertCooldown[rule]
  /\ Condition(rule, d)

createAlert(rule, category) ==
  [id |-> <<rule, date>>, category |-> category, at |-> date, acknowledged |-> FALSE]

\* checkContractAlerts, checkValidatorAlerts and checkPriceAlerts: each rule of
\* the category in turn.  A rule looks at its own last time only.
Tried(list, rule, kind, d) ==
  IF shouldTriggerAlert("jobs", rule, d) THEN Append(list, createAlert(rule, kind)) ELSE list
checkAlerts(list, kind, d) ==
  LET rules == Rules[kind]
      three == Tried(Tried(Tried(list, rules[1], kind, d), rules[2], kind, d), rules[3], kind, d)
  IN IF Len(rules) = 3 THEN three ELSE Tried(three, rules[4], kind, d)
TimesAfter(kind, d) ==
  [r \in RuleIds |-> IF r \in ToSet(Rules[kind]) /\ shouldTriggerAlert("jobs", r, d)
                     THEN date ELSE lastAlertTime["jobs"][r]]

\* A full collector that takes nothing more.
storeWhileRoom(type) ==
  IF Len(metrics) = MetricsCap THEN metrics ELSE Append(metrics, [type |-> type, at |-> date])

storeMetric(type) ==
  LET all == Append(metrics, [type |-> type, at |-> date])
  IN IF Len(all) > MetricsCap THEN Tail(all) ELSE all

\* A job fires whatever jobs of its kind still await their data.
JobFires(j, kind) ==
  /\ awaiting[j] = "idle"
  /\ awaiting' = [awaiting EXCEPT ![j] = kind]
  /\ UNCHANGED <<date, alerts, lastAlertTime, metrics>>

\* The data arrive: stored (prices are not), judged, broadcast.
JobAnswers(j, d) ==
  LET kind == awaiting[j]
      list == checkAlerts(alerts["jobs"], kind, d)
  IN /\ kind \in DOMAIN Rules
     /\ Len(list) <= MaxAlerts
     /\ metrics' = IF kind = "price" THEN metrics ELSE storeMetric(kind)
     /\ alerts' = [alerts EXCEPT !["jobs"] = list]
     /\ lastAlertTime' = [lastAlertTime EXCEPT !["jobs"] = TimesAfter(kind, d)]
     /\ awaiting' = [awaiting EXCEPT ![j] = "idle"]
     /\ UNCHANGED date

\* The data cannot be read, or were asked for by the routes (metrics, prices,
\* status, refresh), which show or broadcast them and keep nothing.
JobFails(j) ==
  /\ awaiting[j] # "idle"
  /\ awaiting' = [awaiting EXCEPT ![j] = "idle"]
  /\ UNCHANGED <<date, alerts, lastAlertTime, metrics>>

-----------------------------------------------------------------------------
\* The routes of alerts.ts, on their own manager.  getAlerts without a filter
\* sorts the list itself, newest first.
NewestFirst(list) ==
  LET order == SetToSortSeq(DOMAIN list, LAMBDA i, j :
                 list[i].at > list[j].at \/ (list[i].at = list[j].at /\ i < j))
  IN [n \in DOMAIN order |-> list[order[n]]]
Becomes(list) == /\ alerts' = [alerts EXCEPT !["api"] = list]
                /\ UNCHANGED <<date, lastAlertTime, metrics, awaiting>>

getAlerts == Becomes(NewestFirst(alerts["api"]))

\* Ids are made of the time alone, so two alerts may share one, and the first
\* in the list is the one that is found.
acknowledgeAlert(id) ==
  LET found == {i \in DOMAIN alerts["api"] : alerts["api"][i].id = id}
      first == CHOOSE i \in found : \A k \in found : i <= k
  IN found # {} /\ Becomes([alerts["api"] EXCEPT ![first].acknowledged = TRUE])

addCustomAlert ==
  /\ Len(alerts["api"]) < MaxCustom
  /\ Becomes(Append(alerts["api"], createAlert("custom", "custom")))

clearOldAlerts == Becomes(SelectSeq(alerts["api"], LAMBDA a : date - a.at < AlertAge))

TimePasses ==
  /\ date < EndOfTime /\ date' = date + 1
  /\ UNCHANGED <<alerts, lastAlertTime, metrics, awaiting>>

MonitoringNext ==
  \/ TimePasses
  \/ \E j \in Jobs : \/ \E kind \in DOMAIN Rules : JobFires(j, kind)
                     \/ awaiting[j] # "idle" /\ \E d \in Data(awaiting[j]) : JobAnswers(j, d)
                     \/ JobFails(j)
  \/ getAlerts \/ clearOldAlerts \/ addCustomAlert
  \/ \E a \in ToSet(alerts["api"]) : acknowledgeAlert(a.id)

MonitoringSpec == MonitoringInit /\ [][MonitoringNext]_monitoringVars

-----------------------------------------------------------------------------
\* getHistory, the base of getSummary: the entries of a type that are younger
\* than the timeframe, the last `limit' of them, by their place.
getHistory(type, limit, timeframe) ==
  LET young == {k \in DOMAIN metrics : metrics[k].type = type /\ date - metrics[k].at < timeframe}
  IN {k \in young : Cardinality({l \in young : l > k}) < limit}

\* What an alert was raised from is in the history the summary is made of,
\* until it is older than the timeframe or newer entries fill the collector
\* (index.ts:97-100, MetricsCollector.ts:19-24, 47-50).
AlertsHaveMetrics ==
  \A i \in DOMAIN alerts["jobs"] :
    LET a    == alerts["jobs"][i]
        kept == getHistory(a.category, MetricsCap, AlertAge)
    IN a.category # "price" /\ date - a.at < AlertAge =>
         \/ \E k \in kept : metrics[k].at = a.at
         \/ Len(metrics) = MetricsCap /\ \A k \in DOMAIN metrics : metrics[k].at >= a.at

\* A rule raises no two alerts within its cooldown, however the jobs overlap,
\* and an extreme price movement comes with a high deviation not older than
\* that rule's cooldown (AlertManager.ts:139-146, 168-183, 185-199).
AlertsSpaced ==
  LET list == alerts["jobs"]
  IN \A i, k \in DOMAIN list :
       /\ i < k /\ list[i].id[1] = list[k].id[1] =>
            list[k].at - list[i].at >= AlertCooldown[list[i].id[1]]
       /\ list[i].id[1] = "extreme-price-movement" =>
            \E h \in DOMAIN list :
              /\ h < i /\ list[h].id[1] = "high-price-deviation"
              /\ list[i].at - list[h].at < AlertCooldown["high-price-deviation"]

(* Alerts of a rule keep its cooldown apart though jobs overlap and the     *)
(* cooldown is read and written at different times (AlertManager.ts:185),   *)
(* and a recent alert's metric is still to be found, unless a thousand      *)
(* newer ones pushed it out (MetricsCollector.ts:19).                       *)
AlertsHold == AlertsSpaced /\ AlertsHaveMetrics
=============================================================================
