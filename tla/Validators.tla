----------------------------- MODULE Validators -----------------------------
(***************************************************************************)
(* What the backend derives from what it is told of the validators.        *)
(*                                                                         *)
(* CoreAPIService.ts and routes/oracle.ts work on the listing that the     *)
(* Core API answers with: a validator is its index in it; fees are in      *)
(* hundredths of a percent.                                                *)
(*                                                                         *)
(* ValidatorMonitor.ts makes a report that routes/validators.ts works on.  *)
(* Which validators there are is fixed in the code; their performance and  *)
(* uptime are drawn anew for each report.                                  *)
(***************************************************************************)
EXTENDS Integers, Sequences, SequencesExt, FiniteSets, FiniteSetsExt

CONSTANTS Deposits, Fees,           \* possible deposits and fees
          MaxListed,                \* bound: validators listed
          Performances, Uptimes     \* the values drawn, in percent

VARIABLE listing             \* the answer in hand: active, deposit and fee of each

apiVars == <<listing>>

Listings == BoundedSeq([active : BOOLEAN, deposit : Deposits, fee : Fees], MaxListed)
ApiInit == listing = <<>>

\* getValidators: an answer whose status is not 1, a timeout and a network
\* error all become one error, and whoever asked gets no listing.
getValidators == listing = <<>> /\ listing' \in Listings
Answered == listing # <<>> /\ listing' = <<>>
ApiNext == getValidators \/ Answered

Listed == [i \in 1 .. Len(listing) |-> i]
getActiveValidators == SelectSeq(Listed, LAMBDA i : listing[i].active)

\* Array.prototype.sort is stable.
Sorted(ids, Before(_, _)) ==
  SetToSortSeq(ToSet(ids), LAMBDA i, j : Before(i, j) \/ (~Before(j, i) /\ i < j))
First(n, ids) == SubSeq(ids, 1, IF n < Len(ids) THEN n ELSE Len(ids))
ByDeposit(ids) == Sorted(ids, LAMBDA i, j : listing[i].deposit > listing[j].deposit)
ByFee(ids) == Sorted(ids, LAMBDA i, j : listing[i].fee < listing[j].fee)

getTopValidatorsByDeposit(limit) == First(limit, ByDeposit(getActiveValidators))
getLowestFeeValidators(limit) == First(limit, ByFee(getActiveValidators))

SumOf(ids, Value(_)) == FoldLeft(LAMBDA sum, i : sum + Value(i), 0, ids)
calculateAverageFee(ids) ==
  IF ids = <<>> THEN 0 ELSE SumOf(ids, LAMBDA i : listing[i].fee) \div Len(ids)

getNetworkStats ==
  [total |-> Len(listing), active |-> Len(getActiveValidators),
   totalStaked |-> SumOf(getActiveValidators, LAMBDA i : listing[i].deposit),
   averageFee |-> calculateAverageFee(getActiveValidators)]

\* A rank among all that are listed.
rankOfListed(i) == CHOOSE n \in DOMAIN listing : ByDeposit(Listed)[n] = i

\* findIndex is -1 for an inactive validator: rank 0.
calculateValidatorRank(i) ==
  LET order == ByDeposit(getActiveValidators)
  IN IF \E n \in DOMAIN order : order[n] = i
     THEN CHOOSE n \in DOMAIN order : order[n] = i ELSE 0

\* The routes: the listing as shown, the ranked top, and one validator.
validatorsRoute == [total |-> Len(listing), active |-> Len(getActiveValidators)]
topRoute(limit) == [n \in DOMAIN getTopValidatorsByDeposit(limit) |->
                      [rank |-> n, validator |-> getTopValidatorsByDeposit(limit)[n]]]
getValidatorPerformanceMetrics(i) ==
  [active |-> listing[i].active, deposit |-> listing[i].deposit,
   rank |-> calculateValidatorRank(i)]

-----------------------------------------------------------------------------
\* The two ways to rank agree, ties included: a validator is shown at place n
\* of the top list exactly when its own page gives it rank n; the ranks go by
\* deposit, and what the statistics add up is shared by the ranked ones alone.
RanksAgree ==
  /\ \A limit \in 0 .. Len(listing) :
       /\ Len(topRoute(limit)) = Min({limit, validatorsRoute.active})
       /\ \A n \in 1 .. Len(topRoute(limit)) :
            getValidatorPerformanceMetrics(topRoute(limit)[n].validator).rank = n
  /\ \A i, j \in 1 .. Len(listing) :
       LET a == getValidatorPerformanceMetrics(i)
           b == getValidatorPerformanceMetrics(j)
       IN /\ a.rank = 0 <=> ~a.active
          /\ a.rank > 0 /\ b.rank > a.rank => a.deposit >= b.deposit
  /\ getNetworkStats.totalStaked =
       SumOf(getTopValidatorsByDeposit(Len(listing)), LAMBDA i : listing[i].deposit)
  /\ \A i \in ToSet(getActiveValidators) :
       listing[i].fee >= listing[Head(getLowestFeeValidators(1))].fee

-----------------------------------------------------------------------------
(* The monitor's report.                                                   *)

VARIABLE report                   \* the report in hand, one record a validator

reportVars == <<report>>

\* getMockValidatorData and getSlashingHistory.
Fixed == <<[name |-> "Alpha", active |-> TRUE, delegated |-> 1000000, commission |-> 5, slashed |-> 0],
           [name |-> "Beta", active |-> TRUE, delegated |-> 750000, commission |-> 3, slashed |-> 0],
           [name |-> "Gamma", active |-> FALSE, delegated |-> 500000, commission |-> 10, slashed |-> 1]>>

\* calculateValidatorPerformance: 85, a draw of ten either way and up to ten
\* from the address, cut off at 100; calculateValidatorUptime: 95, five either
\* way.
Drawn(v) == {p \in Performances : 75 <= p /\ p <= 100} \X {u \in Uptimes : 90 <= u /\ u <= 100}
getValidatorInfo(v, drawn) ==
  [name |-> v.name, active |-> v.active, delegated |-> v.delegated, commission |-> v.commission,
   slashed |-> v.slashed, performance |-> drawn[1], uptime |-> drawn[2]]

ReportInit == report = <<>>
checkValidators ==
  /\ report = <<>>
  /\ \E a \in Drawn(Fixed[1]), b \in Drawn(Fixed[2]), c \in Drawn(Fixed[3]) :
       report' = <<getValidatorInfo(Fixed[1], a), getValidatorInfo(Fixed[2], b),
                   getValidatorInfo(Fixed[3], c)>>
Reported == report # <<>> /\ report' = <<>>
ReportNext == checkValidators \/ Reported

Those(Test(_)) == SelectSeq(report, LAMBDA v : Test(v))
Count(Test(_)) == Len(Those(Test))
SumOver(Value(_)) == FoldLeft(LAMBDA sum, v : sum + Value(v), 0, report)

\* The aggregates of checkValidators (averages as their sums).
metrics ==
  [total |-> Len(report), active |-> Count(LAMBDA v : v.active),
   uptime |-> SumOver(LAMBDA v : v.uptime), performance |-> SumOver(LAMBDA v : v.performance),
   slashing |-> SumOver(LAMBDA v : v.slashed)]

\* generateRecommendations; the fields effectiveAPY and riskScore are set
\* nowhere, and undefined compares as false.
generateRecommendations ==
  LET concentrated == {i \in DOMAIN report :
                         10 * report[i].delegated > 4 * SumOver(LAMBDA v : v.delegated)}
      found == (IF Count(LAMBDA v : ~v.active) > 0 THEN {"inactive"} ELSE {})
               \cup (IF Count(LAMBDA v : v.performance < 70) > 0 THEN {"performance"} ELSE {})
               \cup (IF Count(LAMBDA v : v.commission > 8) > 0 THEN {"commission"} ELSE {})
               \cup (IF Count(LAMBDA v : v.slashed > 0) > 0 THEN {"slashing"} ELSE {})
               \cup (IF Count(LAMBDA v : v.uptime < 95) > 0 THEN {"uptime"} ELSE {})
               \cup (IF concentrated # {} THEN {"diversify"} ELSE {})
  IN IF found = {} THEN {"all well"} ELSE found

\* The route of performance/summary, ...
summary ==
  [performance |-> <<Count(LAMBDA v : v.performance >= 90),
                     Count(LAMBDA v : v.performance >= 70 /\ v.performance < 90),
                     Count(LAMBDA v : v.performance >= 50 /\ v.performance < 70),
                     Count(LAMBDA v : v.performance < 50)>>,
   uptime      |-> <<Count(LAMBDA v : v.uptime >= 99),
                     Count(LAMBDA v : v.uptime >= 95 /\ v.uptime < 99),
                     Count(LAMBDA v : v.uptime >= 90 /\ v.uptime < 95),
                     Count(LAMBDA v : v.uptime < 90)>>,
   affected    |-> Count(LAMBDA v : v.slashed > 0)]

\* ... of tier/:tier, ...
tier(name) ==
  Those(LAMBDA v : CASE name = "excellent" -> v.performance >= 90
                     [] name = "good"     -> v.performance >= 70 /\ v.performance < 90
                     [] name = "fair"     -> v.performance >= 50 /\ v.performance < 70
                     [] name = "poor"     -> v.performance < 50
                     [] name = "active"   -> v.active
                     [] name = "inactive" -> ~v.active
                     [] name = "slashed"  -> v.slashed > 0)

\* ... and of analysis/commission (twice the median, the count being odd or
\* even).
commissionAnalysis ==
  LET values == SetToSortSeq(DOMAIN report, LAMBDA i, j :
                  report[i].commission < report[j].commission
                  \/ (report[i].commission = report[j].commission /\ i < j))
      At(n)  == report[values[n]].commission
      mid    == Len(report) \div 2
  IN [median2 |-> IF Len(report) % 2 = 1 THEN 2 * At(mid + 1) ELSE At(mid) + At(mid + 1),
      low |-> Count(LAMBDA v : v.commission <= 3),
      medium |-> Count(LAMBDA v : v.commission > 3 /\ v.commission <= 7),
      high |-> Count(LAMBDA v : v.commission > 7)]

\* The first of the list, active or not.
firstValidators(limit) == SubSeq(report, 1, IF limit < Len(report) THEN limit ELSE Len(report))

\* getTopValidators: with no APY to compare, the order of the list.
getTopValidators(limit) ==
  LET all == tier("active") IN SubSeq(all, 1, IF limit < Len(all) THEN limit ELSE Len(all))

-----------------------------------------------------------------------------
Total(counts) == FoldLeft(LAMBDA sum, n : sum + n, 0, counts)
Tiers == <<"excellent", "good", "fair", "poor">>

\* Every validator of a report is counted once in each of the three summaries,
\* the tier route lists what the summary counts, whatever is drawn on the
\* boundaries, and what is wrong in a report is in its recommendations.
SummariesAgree ==
  report # <<>> =>
    /\ Total(summary.performance) = metrics.total
    /\ Total(summary.uptime) = metrics.total
    /\ commissionAnalysis.low + commissionAnalysis.medium + commissionAnalysis.high = metrics.total
    /\ \A n \in 1 .. 4 : Len(tier(Tiers[n])) = summary.performance[n]
    /\ Len(tier("active")) + Len(tier("inactive")) = metrics.total
    /\ 2 * Count(LAMBDA v : 2 * v.commission <= commissionAnalysis.median2) >= metrics.total
    /\ \A n \in 1 .. 4 : Len(getTopValidators(n)) = Min({n, metrics.active})
    /\ summary.uptime[3] + summary.uptime[4] > 0 <=> "uptime" \in generateRecommendations
    /\ summary.performance[3] + summary.performance[4] > 0
         <=> "performance" \in generateRecommendations
    /\ metrics.slashing > 0 <=> "slashing" \in generateRecommendations
    /\ summary.affected = Len(tier("slashed"))
=============================================================================
