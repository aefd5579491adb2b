--------------------------- MODULE ContractsProofs ---------------------------
(***************************************************************************)
(* What TLAPS proves of the queue and of the contracts with delayed         *)
(* operations, for all sets of accounts, amounts, delays and settings.      *)
(* UnbondingQueue: the totals are what the tables hold, a request is        *)
(* processed once and when it is due, and the rounding of shares never      *)
(* costs those who stay in the pool.  The three contracts: each is the      *)
(* abstract Timelock under its mapping, whatever the other two do meanwhile.*)
(***************************************************************************)
EXTENDS UnbondingQueue, DelayedContracts, SumTheorems, FiniteSetTheorems, TLAPS

-----------------------------------------------------------------------------
(* Quotients rounded down.                                                  *)

LEMMA QuotientTyped == ASSUME NEW x \in Nat, NEW d \in Nat \ {0} PROVE x \div d \in Nat
  OBVIOUS

LEMMA ProductTyped == ASSUME NEW x \in Nat, NEW y \in Nat PROVE x * y \in Nat
  OBVIOUS

LEMMA QuotientBelow ==
    ASSUME NEW x \in Nat, NEW d \in Nat \ {0}
    PROVE  (x \div d) * d <= x
  OBVIOUS

(* A part of at most all the shares is worth at most all the liquidity.     *)
LEMMA PartBelowWhole ==
    ASSUME NEW n \in Nat, NEW T \in Nat \ {0}, NEW L \in Nat, n <= T
    PROVE  (n * L) \div T <= L
<1>1. n * L \in Nat  BY ProductTyped
<1>2. n * L <= T * L  OBVIOUS
<1>3. T * L = L * T  OBVIOUS
<1>4. \A x \in Nat : x <= L * T => x \div T <= L  OBVIOUS
<1>5. QED  BY <1>1, <1>2, <1>3, <1>4

(* Minting rounded down keeps the liquidity behind a share ...              *)
LEMMA ProvidingKeepsValue ==
    ASSUME NEW L \in Nat \ {0}, NEW T \in Nat, NEW a \in Nat,
           NEW s \in Nat, s = (a * T) \div L
    PROVE  (L + a) * T >= L * (T + s)
<1>1. a * T \in Nat  BY ProductTyped
<1>2. s * L <= a * T  BY <1>1, QuotientBelow
<1>3. (L + a) * T = L * T + a * T  OBVIOUS
<1>4. L * (T + s) = L * T + s * L  OBVIOUS
<1>5. L * T \in Nat /\ s * L \in Nat  BY ProductTyped
<1>6. QED  BY <1>1, <1>2, <1>3, <1>4, <1>5

(* ... and so does paying out rounded down.                                 *)
LEMMA WithdrawingKeepsValue ==
    ASSUME NEW L \in Nat, NEW T \in Nat \ {0}, NEW n \in Nat,
           NEW x \in Nat, x = (n * L) \div T
    PROVE  (L - x) * T >= L * (T - n)
<1>1. n * L \in Nat  BY ProductTyped
<1>2. x * T <= n * L  BY <1>1, QuotientBelow
<1>3. (L - x) * T = L * T - x * T  OBVIOUS
<1>4. L * (T - n) = L * T - n * L  OBVIOUS
<1>5. L * T \in Nat /\ x * T \in Nat  BY ProductTyped
<1>6. QED  BY <1>1, <1>2, <1>3, <1>4, <1>5

-----------------------------------------------------------------------------
(* The pool: its accounts are unsigned, and a share is a provider's.        *)
PoolTyped ==
    /\ availableLiquidity \in [Assets -> Nat]
    /\ totalShares \in [Assets -> Nat]
    /\ shares \in [Assets -> [Users -> Nat]]
    /\ rewards \in [Assets -> Nat]

PoolInv == PoolTyped /\ SharesExact

LEMMA PoolInitially == Init => PoolInv
<1> SUFFICES ASSUME Init PROVE PoolInv
  OBVIOUS
<1>1. PoolTyped  BY DEF Init, PoolTyped, NoAmounts
<1>2. ASSUME NEW asset \in Assets
      PROVE  totalShares[asset] = SumFunctionOnSet(shares[asset], Users)
  <2>1. totalShares[asset] = 0 /\ \A u \in Users : shares[asset][u] = 0
    BY DEF Init, NoAmounts
  <2>2. QED  BY <2>1, SetsAssumption, SumZero
<1>3. QED  BY <1>1, <1>2 DEF PoolInv, SharesExact

(* A term of a sum of natural numbers is at most the sum.                   *)
LEMMA WithinTheSum == PoolInv => SharesWithin
<1> SUFFICES ASSUME PoolInv, NEW asset \in Assets, NEW u \in Users
             PROVE  shares[asset][u] <= totalShares[asset]
  BY DEF SharesWithin
<1>1. \A v \in Users : shares[asset][v] \in Nat  BY DEF PoolInv, PoolTyped
<1>2. totalShares[asset] = SumFunctionOnSet(shares[asset], Users)
  BY DEF PoolInv, SharesExact
<1>3. QED  BY <1>1, <1>2, SetsAssumption, SumMember

(* A step that leaves the pool alone, and one that only sets its liquidity. *)
PoolRests ==
    /\ UNCHANGED shares
    /\ UNCHANGED totalShares
    /\ UNCHANGED rewards
    /\ UNCHANGED availableLiquidity
PoolReset ==
    /\ UNCHANGED shares
    /\ UNCHANGED totalShares
    /\ UNCHANGED rewards
    /\ \E asset \in Assets, n \in Nat :
          availableLiquidity' = [availableLiquidity EXCEPT ![asset] = n]

(* What the steps do to the pool: only three kinds touch the rest of it.    *)
LEMMA PoolSteps ==
    ASSUME [Next]_vars
    PROVE  \/ PoolRests \/ PoolReset
           \/ \E asset \in Assets, amount \in Amounts :
                 ProcessInstantWithdrawal(asset, amount)
           \/ \E asset \in Assets, amount \in Amounts, u \in Users :
                 ProvideLiquidity(u, asset, amount)
           \/ \E asset \in Assets, u \in Users :
                 \E number \in Amounts \cup {shares[asset][u]} :
                     WithdrawLiquidity(u, asset, number)
<1> USE DEF shareVars
<1>1. CASE UNCHANGED vars  BY <1>1 DEF vars, PoolRests
<1>2. CASE ProcessReadyRequests  BY <1>2 DEF ProcessReadyRequests, PoolRests
<1>3. CASE Tick  BY <1>3 DEF Tick, PoolRests
<1>4. ASSUME NEW s, SetInstantWithdrawalParams(s) PROVE PoolRests
  BY <1>4 DEF SetInstantWithdrawalParams, PoolRests
<1>5. ASSUME NEW u, NEW asset, NEW amount, RequestUnbonding(u, asset, amount)
      PROVE  PoolRests
  BY <1>5 DEF RequestUnbonding, PoolRests
<1>6. ASSUME NEW asset, NEW r, SetReservePoolRatio(asset, r) PROVE PoolRests
  BY <1>6 DEF SetReservePoolRatio, PoolRests
<1>7. ASSUME NEW asset \in Assets, NEW l \in Liquidities,
             UpdateAvailableLiquidity(asset, l) \/ RebalanceLiquidity(asset, l)
      PROVE  PoolReset
  <2>1. l \in Nat  BY SetsAssumption
  <2>2. CASE UpdateAvailableLiquidity(asset, l)
    BY <2>1, <2>2 DEF UpdateAvailableLiquidity, PoolReset
  <2>3. CASE RebalanceLiquidity(asset, l)
    BY <2>1, <2>3 DEF RebalanceLiquidity, PoolReset
  <2>4. QED  BY <1>7, <2>2, <2>3
<1>8. QED
  BY <1>1, <1>2, <1>3, <1>4, <1>5, <1>6, <1>7 DEF Next

(* The parameters of instant withdrawals stay within their limits.          *)
SettingTyped ==
    setting \in [instant : Nat, provider : Nat, maxRatio : Nat] /\ SettingAllowed(setting)

LEMMA SettingNext == SettingTyped /\ [Next]_vars => SettingTyped'
<1> SUFFICES ASSUME SettingTyped, [Next]_vars PROVE SettingTyped'
  OBVIOUS
<1>1. ASSUME NEW s \in Settings, SetInstantWithdrawalParams(s) PROVE SettingTyped'
  <2>1. s \in [instant : Nat, provider : Nat, maxRatio : Nat]  BY SetsAssumption
  <2>2. QED  BY <1>1, <2>1 DEF SetInstantWithdrawalParams, SettingTyped
<1>2. CASE UNCHANGED setting  BY <1>2 DEF SettingTyped
<1>3. CASE UNCHANGED vars  BY <1>2, <1>3 DEF vars
<1>4. CASE ProcessReadyRequests \/ Tick  BY <1>2, <1>4 DEF ProcessReadyRequests, Tick
<1>5. ASSUME NEW u, NEW asset, NEW n,
             \/ RequestUnbonding(u, asset, n)
             \/ ProvideLiquidity(u, asset, n)
             \/ WithdrawLiquidity(u, asset, n)
      PROVE  SettingTyped'
  BY <1>2, <1>5 DEF RequestUnbonding, ProvideLiquidity, WithdrawLiquidity
<1>6. ASSUME NEW asset, NEW n,
             \/ ProcessInstantWithdrawal(asset, n)
             \/ UpdateAvailableLiquidity(asset, n)
             \/ RebalanceLiquidity(asset, n)
             \/ SetReservePoolRatio(asset, n)
      PROVE  SettingTyped'
  BY <1>2, <1>6 DEF ProcessInstantWithdrawal, UpdateAvailableLiquidity,
                    RebalanceLiquidity, SetReservePoolRatio
<1>7. QED  BY <1>1, <1>3, <1>4, <1>5, <1>6 DEF Next

LEMMA PoolNext == PoolInv /\ SettingTyped /\ [Next]_vars => PoolInv'
<1> SUFFICES ASSUME PoolInv, SettingTyped, [Next]_vars PROVE PoolInv'
  OBVIOUS
<1> USE DEF PoolInv
<1>0. SharesWithin  BY WithinTheSum
<1>1. CASE PoolRests  BY <1>1 DEF PoolRests, PoolTyped, SharesExact
<1>2. CASE PoolReset  BY <1>2 DEF PoolReset, PoolTyped, SharesExact
<1>3. ASSUME NEW asset \in Assets, NEW amount \in Amounts,
             ProcessInstantWithdrawal(asset, amount)
      PROVE  PoolInv'
  <2> DEFINE reward == (InstantFee(amount) * setting.provider) \div setting.instant
  <2>1. amount \in Nat /\ amount <= availableLiquidity[asset]
    BY <1>3, SetsAssumption DEF ProcessInstantWithdrawal, CanWithdrawInstantly
  <2>2. availableLiquidity[asset] - amount \in Nat  BY <2>1 DEF PoolTyped
  <2>3. setting.instant \in Nat \ {0} /\ setting.provider \in Nat
    BY <1>3 DEF ProcessInstantWithdrawal, SettingTyped
  <2>4. reward \in Nat
    <3>1. amount * setting.instant \in Nat  BY <2>1, <2>3, ProductTyped
    <3>2. InstantFee(amount) \in Nat  BY <3>1, QuotientTyped DEF InstantFee
    <3>3. InstantFee(amount) * setting.provider \in Nat  BY <2>3, <3>2, ProductTyped
    <3>4. QED  BY <2>3, <3>3, QuotientTyped
  <2> HIDE DEF reward
  <2>5. /\ availableLiquidity' = [availableLiquidity EXCEPT ![asset] = @ - amount]
        /\ rewards' = [rewards EXCEPT ![asset] = @ + reward]
        /\ UNCHANGED shareVars
    BY <1>3 DEF ProcessInstantWithdrawal, reward
  <2>6. QED  BY <2>2, <2>4, <2>5 DEF PoolTyped, SharesExact, shareVars
<1> DEFINE Moved(asset, u, d) ==
        /\ totalShares' = [totalShares EXCEPT ![asset] = @ + d]
        /\ shares' = [shares EXCEPT ![asset][u] = @ + d]
<1>4. ASSUME NEW asset \in Assets, NEW u \in Users, NEW d \in Int,
             PoolTyped', Moved(asset, u, d)
      PROVE  SharesExact'
  <2> SUFFICES ASSUME NEW other \in Assets
               PROVE  totalShares'[other] = SumFunctionOnSet(shares'[other], Users)
    BY DEF SharesExact
  <2>1. totalShares[other] = SumFunctionOnSet(shares[other], Users)
    BY DEF SharesExact
  <2>2. CASE other # asset  BY <1>4, <2>1, <2>2 DEF PoolTyped
  <2>3. CASE other = asset
    <3>1. \A v \in Users : shares[asset][v] \in Int /\ shares'[asset][v] \in Int
      BY <1>4 DEF PoolTyped
    <3>2. \A v \in Users \ {u} : shares'[asset][v] = shares[asset][v]
      BY <1>4 DEF PoolTyped
    <3>3. shares'[asset][u] = shares[asset][u] + d  BY <1>4 DEF PoolTyped
    <3>4. SumFunctionOnSet(shares'[asset], Users)
            = SumFunctionOnSet(shares[asset], Users) + (shares'[asset][u] - shares[asset][u])
      BY <3>1, <3>2, SetsAssumption, SumChange
    <3>5. totalShares'[asset] = totalShares[asset] + d  BY <1>4 DEF PoolTyped
    <3>6. totalShares[asset] \in Nat /\ shares[asset][u] \in Nat  BY DEF PoolTyped
    <3>7. QED  BY <1>4, <2>1, <2>3, <3>3, <3>4, <3>5, <3>6
  <2>4. QED  BY <2>2, <2>3
<1>5. ASSUME NEW asset \in Assets, NEW amount \in Amounts, NEW u \in Users,
             ProvideLiquidity(u, asset, amount)
      PROVE  PoolInv'
  <2> DEFINE minted == SharesFor(asset, amount)
  <2>1. amount \in Nat  BY SetsAssumption
  <2>2. minted \in Nat
    <3>1. CASE totalShares[asset] = 0  BY <2>1, <3>1 DEF SharesFor
    <3>2. CASE totalShares[asset] # 0
      <4>1. /\ availableLiquidity[asset] \in Nat \ {0}
            /\ totalShares[asset] \in Nat
        BY <1>5, <3>2 DEF ProvideLiquidity, PoolTyped
      <4>2. amount * totalShares[asset] \in Nat  BY <2>1, <4>1, ProductTyped
      <4>3. QED  BY <3>2, <4>1, <4>2, QuotientTyped DEF SharesFor
    <3>3. QED  BY <3>1, <3>2
  <2> HIDE DEF minted
  <2>3. /\ shares' = [shares EXCEPT ![asset][u] = @ + minted]
        /\ totalShares' = [totalShares EXCEPT ![asset] = @ + minted]
        /\ availableLiquidity' = [availableLiquidity EXCEPT ![asset] = @ + amount]
        /\ UNCHANGED rewards
    BY <1>5 DEF ProvideLiquidity, minted
  <2>4. PoolTyped'  BY <2>1, <2>2, <2>3 DEF PoolTyped
  <2>5. Moved(asset, u, minted)  BY <2>3
  <2> HIDE DEF Moved
  <2>6. SharesExact'  BY <1>4, <2>2, <2>4, <2>5
  <2>7. QED  BY <2>4, <2>6
<1>6. ASSUME NEW asset \in Assets, NEW u \in Users,
             NEW number \in Amounts \cup {shares[asset][u]},
             WithdrawLiquidity(u, asset, number)
      PROVE  PoolInv'
  <2> DEFINE part(amount) == PartOf(asset, amount, number)
  <2>1. /\ number \in Nat \ {0} /\ number <= shares[asset][u]
        /\ number <= totalShares[asset] /\ totalShares[asset] \in Nat \ {0}
        /\ availableLiquidity[asset] \in Nat /\ shares[asset][u] \in Nat
        /\ rewards[asset] \in Nat
    BY <1>0, <1>6, SetsAssumption DEF WithdrawLiquidity, HasShares, SharesWithin, PoolTyped
  <2>2. ASSUME NEW L \in Nat PROVE part(L) \in Nat /\ part(L) <= L
    <3>1. number * L \in Nat  BY <2>1, ProductTyped
    <3>2. QED  BY <2>1, <3>1, QuotientTyped, PartBelowWhole DEF PartOf
  <2> HIDE DEF part
  <2>3. /\ shares' = [shares EXCEPT ![asset][u] = @ - number]
        /\ totalShares' = [totalShares EXCEPT ![asset] = @ - number]
        /\ availableLiquidity' =
               [availableLiquidity EXCEPT ![asset] = @ - part(availableLiquidity[asset])]
        /\ rewards' = [rewards EXCEPT ![asset] = @ - part(rewards[asset])]
    BY <1>6 DEF WithdrawLiquidity, SharesLeft, PoolTyped, part
  <2>4. /\ shares[asset][u] - number \in Nat
        /\ totalShares[asset] - number \in Nat
        /\ availableLiquidity[asset] - part(availableLiquidity[asset]) \in Nat
        /\ rewards[asset] - part(rewards[asset]) \in Nat
    BY <2>1, <2>2
  <2>5. PoolTyped'  BY <2>3, <2>4 DEF PoolTyped
  <2>6. Moved(asset, u, -number)
    <3>1. shares[asset][u] - number = shares[asset][u] + (-number)  BY <2>1
    <3>2. totalShares[asset] - number = totalShares[asset] + (-number)  BY <2>1
    <3>3. QED  BY <2>3, <3>1, <3>2 DEF PoolTyped
  <2>7. -number \in Int  BY <2>1
  <2> HIDE DEF Moved
  <2>8. SharesExact'  BY <1>4, <2>5, <2>6, <2>7
  <2>9. QED  BY <2>5, <2>8
<1>7. QED
  BY <1>1, <1>2, <1>3, <1>5, <1>6, PoolSteps

(* The liquidity behind a share never falls because another provider comes  *)
(* or goes, whatever the owner and the instant withdrawals do to the pool   *)
(* in between: shares and payments are rounded down, and no provider has    *)
(* shares of another's (lines 274, 296-307).                                *)
THEOREM ValueKept == Spec => ShareValueKept
<1> DEFINE Kept(asset) ==
        totalShares[asset] > 0 /\ totalShares'[asset] > 0
            /\ totalShares'[asset] # totalShares[asset] =>
                availableLiquidity'[asset] * totalShares[asset]
                    >= availableLiquidity[asset] * totalShares'[asset]
<1>1. ASSUME PoolTyped, [Next]_vars, NEW asset \in Assets PROVE Kept(asset)
  <2>1. availableLiquidity[asset] \in Nat /\ totalShares[asset] \in Nat
    BY <1>1 DEF PoolTyped
  <2>2. CASE UNCHANGED totalShares  BY <2>2
  <2>3. ASSUME NEW a \in Assets, NEW amount \in Amounts, NEW u \in Users,
               ProvideLiquidity(u, a, amount)
        PROVE  Kept(asset)
    <3>1. CASE a # asset  BY <1>1, <2>3, <3>1 DEF ProvideLiquidity, PoolTyped
    <3>2. CASE a = asset /\ totalShares[asset] > 0
      <4> DEFINE minted == SharesFor(asset, amount)
      <4>1. amount \in Nat /\ availableLiquidity[asset] \in Nat \ {0}
        BY <1>1, <2>1, <2>3, <3>2, SetsAssumption DEF ProvideLiquidity
      <4>2. minted = (amount * totalShares[asset]) \div availableLiquidity[asset]
        BY <3>2 DEF SharesFor
      <4>3. minted \in Nat
        BY <2>1, <4>1, <4>2, ProductTyped, QuotientTyped
      <4>4. /\ totalShares'[asset] = totalShares[asset] + minted
            /\ availableLiquidity'[asset] = availableLiquidity[asset] + amount
        BY <1>1, <2>3, <3>2 DEF ProvideLiquidity, PoolTyped
      <4> HIDE DEF minted
      <4>5. QED  BY <2>1, <4>1, <4>2, <4>3, <4>4, ProvidingKeepsValue
    <3>3. QED  BY <2>1, <3>1, <3>2
  <2>4. ASSUME NEW a \in Assets, NEW u \in Users,
               NEW number \in Amounts \cup {shares[a][u]},
               WithdrawLiquidity(u, a, number)
        PROVE  Kept(asset)
    <3>1. CASE a # asset  BY <1>1, <2>4, <3>1 DEF WithdrawLiquidity, PoolTyped
    <3>2. CASE a = asset /\ totalShares[asset] > 0
      <4> DEFINE part == PartOf(asset, availableLiquidity[asset], number)
      <4>1. number \in Nat
        BY <1>1, SetsAssumption DEF PoolTyped
      <4>2. part = (number * availableLiquidity[asset]) \div totalShares[asset]
        BY DEF PartOf
      <4>3. part \in Nat
        BY <2>1, <3>2, <4>1, <4>2, ProductTyped, QuotientTyped
      <4>4. /\ totalShares'[asset] = totalShares[asset] - number
            /\ availableLiquidity'[asset] = availableLiquidity[asset] - part
        BY <1>1, <2>4, <3>2 DEF WithdrawLiquidity, SharesLeft, PoolTyped
      <4> HIDE DEF part
      <4>5. QED  BY <2>1, <3>2, <4>1, <4>2, <4>3, <4>4, WithdrawingKeepsValue
    <3>3. QED  BY <2>1, <3>1, <3>2
  <2>5. ASSUME NEW a, NEW amount, ProcessInstantWithdrawal(a, amount)
        PROVE  UNCHANGED totalShares
    BY <2>5 DEF ProcessInstantWithdrawal, shareVars
  <2>6. PoolRests \/ PoolReset => UNCHANGED totalShares  BY DEF PoolRests, PoolReset
  <2>7. QED  BY <1>1, <2>2, <2>3, <2>4, <2>5, <2>6, PoolSteps
<1>2. PoolTyped /\ [Next]_vars
        => [\A asset \in Assets :
              totalShares[asset] > 0 /\ totalShares'[asset] > 0
                  /\ totalShares'[asset] # totalShares[asset] =>
                      availableLiquidity'[asset] * totalShares[asset]
                          >= availableLiquidity[asset] * totalShares'[asset]]_vars
  BY <1>1
<1>3. PoolInv => PoolTyped  BY DEF PoolInv
<1>4. Init => SettingTyped  BY DEF Init, SettingTyped, SettingAllowed
<1>5. QED
  BY <1>2, <1>3, <1>4, PoolInitially, PoolNext, SettingNext, PTL DEF Spec, ShareValueKept

-----------------------------------------------------------------------------
(* The queue: what is filed stays, and the totals are those of the tables.  *)
QueueTyped ==
    /\ now \in Nat
    /\ globalQueue \in Seq(Requests)
    /\ userRequests \in [Users -> Seq(Requests)]
    /\ nextRequestId \in Nat
    /\ totalQueued \in [Assets -> Nat]

QueueInv == QueueTyped /\ QueueExact /\ CopiesMatch

(* The amounts of the queue by place, the function QueueExact sums.         *)
AmountAt == [i \in DOMAIN globalQueue |-> globalQueue[i].amount]

LEMMA Places ==
    ASSUME QueueTyped
    PROVE  /\ DOMAIN globalQueue = 1..Len(globalQueue) /\ Len(globalQueue) \in Nat
           /\ \A i \in DOMAIN globalQueue : globalQueue[i] \in Requests
           /\ \A i \in DOMAIN globalQueue : AmountAt[i] \in Nat
           /\ \A S \in SUBSET DOMAIN globalQueue : IsFiniteSet(S)
<1>1. DOMAIN globalQueue = 1..Len(globalQueue) /\ Len(globalQueue) \in Nat
  BY DEF QueueTyped
<1>2. \A i \in DOMAIN globalQueue : globalQueue[i] \in Requests
  BY DEF QueueTyped
<1>3. \A i \in DOMAIN globalQueue : AmountAt[i] \in Nat
  BY <1>2 DEF AmountAt, Requests
<1>4. IsFiniteSet(DOMAIN globalQueue)  BY <1>1, FS_Interval
<1>5. QED  BY <1>1, <1>2, <1>3, <1>4, FS_Subset

(* Of all the steps only three touch the queue or the clock.                *)
LEMMA QueueSteps ==
    ASSUME [Next]_vars
    PROVE  \/ UNCHANGED queueVars /\ (UNCHANGED now \/ Tick)
           \/ ProcessReadyRequests
           \/ \E u \in Users, asset \in Assets, amount \in Amounts :
                 RequestUnbonding(u, asset, amount)
<1> DEFINE Rests == UNCHANGED queueVars /\ (UNCHANGED now \/ Tick)
<1>1. CASE UNCHANGED vars  BY <1>1 DEF vars
<1>2. CASE Tick  BY <1>2 DEF Tick
<1>3. ASSUME NEW u, NEW asset, NEW n,
             ProvideLiquidity(u, asset, n) \/ WithdrawLiquidity(u, asset, n)
      PROVE  Rests
  BY <1>3 DEF ProvideLiquidity, WithdrawLiquidity
<1>4. ASSUME NEW asset, NEW n,
             \/ ProcessInstantWithdrawal(asset, n)
             \/ UpdateAvailableLiquidity(asset, n)
             \/ RebalanceLiquidity(asset, n)
             \/ SetReservePoolRatio(asset, n)
      PROVE  Rests
  BY <1>4 DEF ProcessInstantWithdrawal, UpdateAvailableLiquidity,
              RebalanceLiquidity, SetReservePoolRatio
<1>5. ASSUME NEW s, SetInstantWithdrawalParams(s) PROVE Rests
  BY <1>5 DEF SetInstantWithdrawalParams
<1>6. QED  BY <1>1, <1>2, <1>3, <1>4, <1>5 DEF Next

LEMMA QueueInitially == Init => QueueInv
<1> SUFFICES ASSUME Init PROVE QueueInv
  OBVIOUS
<1>1. QueueTyped  BY DEF Init, QueueTyped, NoAmounts
<1>2. Len(globalQueue) = 0 /\ DOMAIN globalQueue = {}  BY DEF Init
<1>3. QueueExact
  <2>1. ASSUME NEW asset \in Assets
        PROVE  totalQueued[asset] = SumFunctionOnSet(AmountAt, Waiting(asset))
    <3>1. Waiting(asset) = {}  BY <1>2 DEF Waiting
    <3>2. totalQueued[asset] = 0  BY DEF Init, NoAmounts
    <3>3. QED  BY <3>1, <3>2, SumEmpty
  <2>2. nextRequestId = Len(globalQueue)  BY <1>2 DEF Init
  <2>3. QED  BY <2>1, <2>2 DEF QueueExact, AmountAt
<1>4. CopiesMatch
  <2>1. ASSUME NEW u \in Users PROVE Own(u) = {} /\ Len(userRequests[u]) = 0
    BY <1>2 DEF Own, Init
  <2>2. Cardinality({}) = 0  BY FS_EmptySet
  <2>3. QED  BY <2>1, <2>2 DEF CopiesMatch
<1>5. QED  BY <1>1, <1>3, <1>4 DEF QueueInv

LEMMA RequestKeepsQueue ==
    ASSUME QueueInv, NEW u \in Users, NEW asset \in Assets, NEW amount \in Amounts,
           RequestUnbonding(u, asset, amount)
    PROVE  QueueInv'
<1> DEFINE request == [user |-> u, amount |-> amount, asset |-> asset,
                       requestTime |-> now,
                       unlockTime  |-> now + UnbondingPeriod[asset],
                       processed   |-> FALSE]
           n == Len(globalQueue) + 1
<1>1. /\ globalQueue' = Append(globalQueue, request)
      /\ userRequests' = [userRequests EXCEPT ![u] = Append(@, request)]
      /\ nextRequestId' = nextRequestId + 1
      /\ totalQueued' = [totalQueued EXCEPT ![asset] = @ + amount]
      /\ UNCHANGED now
  BY DEF RequestUnbonding, Filed
<1>2. QueueTyped /\ QueueExact /\ CopiesMatch  BY DEF QueueInv
<1>3. request \in Requests /\ amount \in Nat
  BY <1>2, SetsAssumption DEF Requests, QueueTyped
<1>4. /\ request.processed = FALSE /\ request.asset = asset /\ request.amount = amount
      /\ request.user = u /\ [request EXCEPT !.processed = FALSE] = request
  <2>1. request.processed = FALSE /\ request.asset = asset /\ request.amount = amount
        /\ request.user = u
    OBVIOUS
  <2>2. [request EXCEPT !.processed = FALSE] = request
    BY <1>3, <2>1 DEF Requests
  <2>3. QED  BY <2>1, <2>2
<1> HIDE DEF request
<1>5. QueueTyped'
  BY <1>1, <1>2, <1>3 DEF QueueTyped
<1>6. /\ DOMAIN globalQueue' = DOMAIN globalQueue \cup {n}
      /\ n \notin DOMAIN globalQueue /\ n \in Nat /\ Len(globalQueue)' = n
      /\ globalQueue'[n] = request
      /\ \A i \in DOMAIN globalQueue : globalQueue'[i] = globalQueue[i] /\ i < n
  BY <1>1, <1>2, <1>3 DEF QueueTyped
<1> HIDE DEF n
<1>7. QueueExact'
  <2>1. nextRequestId' = Len(globalQueue)'
    BY <1>1, <1>2, <1>6 DEF QueueExact, QueueTyped, n
  <2>2. ASSUME NEW a \in Assets
        PROVE  totalQueued'[a] = SumFunctionOnSet(AmountAt', Waiting(a)')
    <3>1. totalQueued[a] = SumFunctionOnSet(AmountAt, Waiting(a))
      BY <1>2 DEF QueueExact, AmountAt
    <3>2. Waiting(a)' = Waiting(a) \cup (IF a = asset THEN {n} ELSE {})
      BY <1>4, <1>6 DEF Waiting
    <3>3. n \notin Waiting(a) /\ IsFiniteSet(Waiting(a))
      BY <1>2, <1>6, Places DEF Waiting
    <3>4. /\ \A i \in Waiting(a) : AmountAt[i] \in Int /\ AmountAt'[i] = AmountAt[i]
          /\ AmountAt'[n] = amount
      BY <1>2, <1>4, <1>6, Places DEF Waiting, AmountAt
    <3>5. SumFunctionOnSet(AmountAt', Waiting(a)) = totalQueued[a]
      BY <3>1, <3>3, <3>4, SumSame
    <3>6. CASE a # asset
      BY <1>1, <1>2, <3>2, <3>5, <3>6 DEF QueueTyped
    <3>7. CASE a = asset
      <4>1. Waiting(a)' = Waiting(a) \cup {n}  BY <3>2, <3>7
      <4>2. SumFunctionOnSet(AmountAt', Waiting(a) \cup {n})
                = AmountAt'[n] + SumFunctionOnSet(AmountAt', Waiting(a))
        BY <1>3, <3>3, <3>4, SumAdd
      <4>3. totalQueued'[a] = totalQueued[a] + amount /\ totalQueued[a] \in Nat
        BY <1>1, <1>2, <3>7 DEF QueueTyped
      <4>4. QED  BY <1>3, <3>4, <3>5, <4>1, <4>2, <4>3
    <3>8. QED  BY <3>6, <3>7
  <2>3. QED  BY <2>1, <2>2 DEF QueueExact, AmountAt
<1>8. CopiesMatch'
  <2> SUFFICES ASSUME NEW v \in Users
               PROVE  /\ Len(userRequests'[v]) = Cardinality(Own(v)')
                      /\ \A i \in Own(v)' :
                            userRequests'[v][Cardinality(Own(v)' \cap 1..i)]
                                = [globalQueue'[i] EXCEPT !.processed = FALSE]
    BY DEF CopiesMatch
  <2>1. Own(v)' = Own(v) \cup (IF v = u THEN {n} ELSE {})
    BY <1>4, <1>6 DEF Own
  <2>2. n \notin Own(v) /\ IsFiniteSet(Own(v))
    BY <1>2, <1>6, Places DEF Own
  <2>3. /\ Len(userRequests[v]) = Cardinality(Own(v))
        /\ \A i \in Own(v) : userRequests[v][Cardinality(Own(v) \cap 1..i)]
                                = [globalQueue[i] EXCEPT !.processed = FALSE]
    BY <1>2 DEF CopiesMatch
  <2>4. ASSUME NEW i \in Own(v)
        PROVE  /\ Own(v)' \cap 1..i = Own(v) \cap 1..i
               /\ Cardinality(Own(v) \cap 1..i) \in 1..Cardinality(Own(v))
               /\ globalQueue'[i] = globalQueue[i]
    <3>1. i \in DOMAIN globalQueue /\ i < n /\ i \in Nat \ {0}
      BY <1>2, <1>6, Places DEF Own
    <3>2. Own(v)' \cap 1..i = Own(v) \cap 1..i  BY <1>6, <2>1, <3>1
    <3>3. IsFiniteSet(Own(v) \cap 1..i)
          /\ Cardinality(Own(v) \cap 1..i) <= Cardinality(Own(v))
      BY <2>2, FS_Subset
    <3>4. i \in Own(v) \cap 1..i  BY <3>1
    <3>5. Cardinality(Own(v) \cap 1..i) # 0  BY <3>3, <3>4, FS_EmptySet
    <3>6. Cardinality(Own(v) \cap 1..i) \in Nat /\ Cardinality(Own(v)) \in Nat
      BY <2>2, <3>3, FS_CardinalityType
    <3>7. QED  BY <1>6, <3>1, <3>2, <3>3, <3>5, <3>6
  <2>5. userRequests[v] \in Seq(Requests)  BY <1>2 DEF QueueTyped
  <2>6. CASE v # u
    <3>1. Own(v)' = Own(v) /\ userRequests'[v] = userRequests[v]
      BY <1>1, <1>2, <2>1, <2>6 DEF QueueTyped
    <3>2. QED  BY <2>3, <2>4, <3>1
  <2>7. CASE v = u
    <3>1. Own(v)' = Own(v) \cup {n}  BY <2>1, <2>7
    <3>2. userRequests'[v] = Append(userRequests[v], request)
      BY <1>1, <1>2, <2>7 DEF QueueTyped
    <3>3. /\ Len(userRequests'[v]) = Len(userRequests[v]) + 1
          /\ \A k \in 1..Len(userRequests[v]) : userRequests'[v][k] = userRequests[v][k]
          /\ userRequests'[v][Len(userRequests[v]) + 1] = request
      BY <1>3, <2>5, <3>2
    <3>4. Cardinality(Own(v)') = Cardinality(Own(v)) + 1
      BY <2>2, <3>1, FS_AddElement
    <3>5. ASSUME NEW i \in Own(v)
          PROVE  userRequests'[v][Cardinality(Own(v)' \cap 1..i)]
                     = [globalQueue'[i] EXCEPT !.processed = FALSE]
      BY <2>3, <2>4, <3>3
    <3>6. Own(v)' \cap 1..n = Own(v)'
      <4>1. Own(v) \subseteq 1..n
        BY <1>2, <1>6, Places DEF Own
      <4>2. n \in 1..n  BY <1>6 DEF n
      <4>3. QED  BY <3>1, <4>1, <4>2
    <3>7. userRequests'[v][Cardinality(Own(v)' \cap 1..n)]
              = [globalQueue'[n] EXCEPT !.processed = FALSE]
      BY <1>4, <1>6, <2>3, <3>3, <3>4, <3>6
    <3>8. QED  BY <2>3, <3>1, <3>3, <3>4, <3>5, <3>7
  <2>8. QED  BY <2>6, <2>7
<1>9. QED  BY <1>5, <1>7, <1>8 DEF QueueInv

LEMMA ProcessingKeepsQueue ==
    ASSUME QueueInv, ProcessReadyRequests
    PROVE  QueueInv'
<1> DEFINE Taken(asset) == {i \in DOMAIN globalQueue :
                               Ready(globalQueue[i]) /\ globalQueue[i].asset = asset}
<1>1. /\ globalQueue' =
             [i \in DOMAIN globalQueue |->
                 IF Ready(globalQueue[i])
                 THEN [globalQueue[i] EXCEPT !.processed = TRUE]
                 ELSE globalQueue[i]]
      /\ totalQueued' =
             [asset \in Assets |->
                 totalQueued[asset] - SumFunctionOnSet(AmountAt, Taken(asset))]
      /\ UNCHANGED <<now, userRequests, nextRequestId>>
  BY DEF ProcessReadyRequests, AmountAt
<1>2. QueueTyped /\ QueueExact /\ CopiesMatch  BY DEF QueueInv
<1>3. ASSUME NEW i \in DOMAIN globalQueue
      PROVE  /\ globalQueue'[i] \in Requests
             /\ globalQueue'[i].amount = globalQueue[i].amount
             /\ globalQueue'[i].asset = globalQueue[i].asset
             /\ globalQueue'[i].user = globalQueue[i].user
             /\ globalQueue'[i].processed
                   = (globalQueue[i].processed \/ Ready(globalQueue[i]))
             /\ [globalQueue'[i] EXCEPT !.processed = FALSE]
                   = [globalQueue[i] EXCEPT !.processed = FALSE]
  <2>1. globalQueue[i] \in Requests  BY <1>2, Places
  <2>2. CASE Ready(globalQueue[i])
    <3>1. globalQueue'[i] = [globalQueue[i] EXCEPT !.processed = TRUE]  BY <1>1, <2>2
    <3>2. QED  BY <2>1, <2>2, <3>1 DEF Requests
  <2>3. CASE ~Ready(globalQueue[i])
    <3>1. globalQueue'[i] = globalQueue[i]  BY <1>1, <2>3
    <3>2. QED  BY <2>1, <2>3, <3>1 DEF Requests
  <2>4. QED  BY <2>2, <2>3
<1>4. /\ DOMAIN globalQueue' = DOMAIN globalQueue /\ Len(globalQueue)' = Len(globalQueue)
      /\ globalQueue' \in Seq(Requests)
  <2>1. DOMAIN globalQueue' = 1..Len(globalQueue) /\ Len(globalQueue) \in Nat
    BY <1>1, <1>2, Places
  <2>2. \A i \in 1..Len(globalQueue) : globalQueue'[i] \in Requests
    BY <1>2, <1>3, Places
  <2>3. globalQueue' = [i \in 1..Len(globalQueue) |-> globalQueue'[i]]
    BY <1>1, <2>1
  <2>4. globalQueue' \in [1..Len(globalQueue) -> Requests]  BY <2>2, <2>3
  <2>5. QED  BY <1>2, <2>1, <2>4, Places
<1>5. ASSUME NEW a \in Assets
      PROVE  /\ totalQueued'[a] = SumFunctionOnSet(AmountAt', Waiting(a)')
             /\ totalQueued'[a] \in Nat
  <2>1. totalQueued[a] = SumFunctionOnSet(AmountAt, Waiting(a))
    BY <1>2 DEF QueueExact, AmountAt
  <2>2. Taken(a) \subseteq Waiting(a) /\ Waiting(a)' = Waiting(a) \ Taken(a)
    BY <1>3, <1>4 DEF Waiting, Ready
  <2>3. IsFiniteSet(Taken(a)) /\ IsFiniteSet(Waiting(a)')
        /\ Waiting(a) \subseteq DOMAIN globalQueue
    BY <1>2, <2>2, Places DEF Waiting
  <2> DEFINE W == Waiting(a)'
             T == Taken(a)
  <2>4. W \cup T = Waiting(a) /\ W \cap T = {}  BY <2>2
  <2>5. \A i \in W \cup T : AmountAt[i] \in Nat /\ AmountAt'[i] = AmountAt[i]
    BY <1>2, <1>3, <1>4, <2>3, <2>4, Places DEF AmountAt
  <2>6. totalQueued'[a] = totalQueued[a] - SumFunctionOnSet(AmountAt, T)
    BY <1>1
  <2> HIDE DEF W, T
  <2>7. IsFiniteSet(W) /\ IsFiniteSet(T)  BY <2>3 DEF W, T
  <2>8. SumFunctionOnSet(AmountAt, W \cup T)
            = SumFunctionOnSet(AmountAt, W) + SumFunctionOnSet(AmountAt, T)
    BY <2>4, <2>5, <2>7, SumUnion
  <2>9. /\ SumFunctionOnSet(AmountAt, W) \in Nat /\ SumFunctionOnSet(AmountAt, T) \in Nat
    BY <2>5, <2>7, SumNat
  <2>10. SumFunctionOnSet(AmountAt', W) = SumFunctionOnSet(AmountAt, W)
    BY <2>5, <2>7, SumSame
  <2>11. totalQueued[a] = SumFunctionOnSet(AmountAt, W) + SumFunctionOnSet(AmountAt, T)
    BY <2>1, <2>4, <2>8
  <2>12. totalQueued'[a] = SumFunctionOnSet(AmountAt, W)
    BY <2>6, <2>9, <2>11
  <2>13. QED  BY <2>9, <2>10, <2>12 DEF W
<1>6. QueueTyped'
  <2>1. totalQueued' \in [Assets -> Nat]
    <3>1. totalQueued' = [a \in Assets |-> totalQueued'[a]]  BY <1>1
    <3>2. \A a \in Assets : totalQueued'[a] \in Nat  BY <1>5
    <3>3. QED  BY <3>1, <3>2
  <2>2. QED  BY <1>1, <1>2, <1>4, <2>1 DEF QueueTyped
<1>7. QueueExact'
  BY <1>1, <1>2, <1>4, <1>5 DEF QueueExact, AmountAt
<1>8. CopiesMatch'
  <2>1. ASSUME NEW u \in Users PROVE Own(u)' = Own(u)  BY <1>3, <1>4 DEF Own
  <2>2. \A u \in Users : Own(u) \subseteq DOMAIN globalQueue  BY DEF Own
  <2> SUFFICES ASSUME NEW u \in Users
               PROVE  /\ Len(userRequests'[u]) = Cardinality(Own(u)')
                      /\ \A i \in Own(u)' :
                            userRequests'[u][Cardinality(Own(u)' \cap 1..i)]
                                = [globalQueue'[i] EXCEPT !.processed = FALSE]
    BY DEF CopiesMatch
  <2>3. Own(u)' = Own(u) /\ UNCHANGED userRequests  BY <1>1, <2>1
  <2>4. /\ Len(userRequests[u]) = Cardinality(Own(u))
        /\ \A i \in Own(u) : userRequests[u][Cardinality(Own(u) \cap 1..i)]
                                = [globalQueue[i] EXCEPT !.processed = FALSE]
    BY <1>2 DEF CopiesMatch
  <2>5. ASSUME NEW i \in Own(u)
        PROVE  userRequests'[u][Cardinality(Own(u)' \cap 1..i)]
                   = [globalQueue'[i] EXCEPT !.processed = FALSE]
    <3>1. [globalQueue'[i] EXCEPT !.processed = FALSE]
              = [globalQueue[i] EXCEPT !.processed = FALSE]
      BY <1>3, <2>2
    <3>2. QED  BY <2>3, <2>4, <3>1
  <2>6. QED  BY <2>3, <2>4, <2>5
<1>9. QED  BY <1>6, <1>7, <1>8 DEF QueueInv

LEMMA QueueNext == QueueInv /\ [Next]_vars => QueueInv'
<1> SUFFICES ASSUME QueueInv, [Next]_vars PROVE QueueInv'
  OBVIOUS
<1>1. CASE UNCHANGED queueVars /\ (UNCHANGED now \/ Tick)
  <2>1. now' \in Nat  BY <1>1 DEF Tick, QueueInv, QueueTyped
  <2>2. UNCHANGED globalQueue /\ UNCHANGED userRequests /\ UNCHANGED nextRequestId
        /\ UNCHANGED totalQueued
    BY <1>1 DEF queueVars
  <2>3. QueueTyped'  BY <2>1, <2>2 DEF QueueInv, QueueTyped
  <2>4. QueueExact' /\ CopiesMatch'
    BY <2>2 DEF QueueInv, QueueExact, CopiesMatch, Own, Waiting
  <2>5. QED  BY <2>3, <2>4 DEF QueueInv
<1>2. QED  BY <1>1, QueueSteps, RequestKeepsQueue, ProcessingKeepsQueue

-----------------------------------------------------------------------------
(* What neither part needs of the other: the reserve and the bookkeeping.   *)
ReserveTyped ==
    /\ reservePoolSize \in [Assets -> Nat]
    /\ reservePoolRatio \in [Assets -> Nat]
    /\ \A asset \in Assets : reservePoolRatio[asset] <= 2000
    /\ moves \in Nat

LEMMA TargetTyped ==
    ASSUME NEW l, NEW q, NEW r, l \in Nat, q \in Nat, r \in Nat
    PROVE  ReserveTarget(l, q, r) \in Nat
<1> DEFINE ratio == IF r = 0 THEN 500 ELSE r
<1>1. ratio \in Nat /\ l + q \in Nat  OBVIOUS
<1> HIDE DEF ratio
<1>2. (l + q) * ratio \in Nat  BY <1>1, ProductTyped
<1>3. ((l + q) * ratio) \div 10000 \in Nat  BY <1>2, QuotientTyped
<1>4. QED  BY <1>3 DEF ReserveTarget, ratio

LEMMA ReserveNext ==
    ReserveTyped /\ PoolTyped /\ QueueTyped /\ [Next]_vars => ReserveTyped'
<1> SUFFICES ASSUME ReserveTyped, PoolTyped, QueueTyped, [Next]_vars
             PROVE  ReserveTyped'
  OBVIOUS
<1>1. ASSUME UNCHANGED reserveVars, moves' \in {moves, moves + 1} PROVE ReserveTyped'
  BY <1>1 DEF ReserveTyped, reserveVars
<1>2. CASE UNCHANGED vars  BY <1>1, <1>2 DEF vars
<1>3. CASE ProcessReadyRequests \/ Tick
  <2>1. UNCHANGED reserveVars /\ moves' \in {moves, moves + 1}
    BY <1>3 DEF ProcessReadyRequests, Tick
  <2>2. QED  BY <1>1, <2>1
<1>4. ASSUME NEW s, SetInstantWithdrawalParams(s) PROVE ReserveTyped'
  BY <1>1, <1>4 DEF SetInstantWithdrawalParams
<1>5. ASSUME NEW u, NEW asset, NEW n,
             \/ RequestUnbonding(u, asset, n)
             \/ ProvideLiquidity(u, asset, n)
             \/ WithdrawLiquidity(u, asset, n)
             \/ ProcessInstantWithdrawal(asset, n)
             \/ RebalanceLiquidity(asset, n)
      PROVE  ReserveTyped'
  <2>1. UNCHANGED reserveVars /\ moves' \in {moves, moves + 1}
    BY <1>5 DEF RequestUnbonding, ProvideLiquidity, WithdrawLiquidity,
                ProcessInstantWithdrawal, RebalanceLiquidity, Move
  <2>2. QED  BY <1>1, <2>1
<1>6. ASSUME NEW asset \in Assets
      PROVE  /\ totalQueued[asset] \in Nat /\ availableLiquidity[asset] \in Nat
             /\ reservePoolRatio[asset] \in Nat
  BY DEF QueueTyped, PoolTyped, ReserveTyped
<1>7. ASSUME NEW asset \in Assets, NEW l \in Liquidities, UpdateAvailableLiquidity(asset, l)
      PROVE  ReserveTyped'
  <2> DEFINE target == ReserveTarget(l, totalQueued[asset], reservePoolRatio[asset])
  <2>1. l \in Nat  BY SetsAssumption
  <2>2. target \in Nat  BY <1>6, <2>1, TargetTyped
  <2> HIDE DEF target
  <2>3. /\ reservePoolSize' = [reservePoolSize EXCEPT ![asset] = target]
        /\ UNCHANGED moves /\ UNCHANGED reservePoolRatio
    BY <1>7 DEF UpdateAvailableLiquidity, target
  <2>4. QED  BY <2>2, <2>3 DEF ReserveTyped
<1>8. ASSUME NEW asset \in Assets, NEW r \in Ratios, SetReservePoolRatio(asset, r)
      PROVE  ReserveTyped'
  <2> DEFINE target == ReserveTarget(availableLiquidity[asset], totalQueued[asset], r)
  <2>1. r \in Nat /\ r <= 2000  BY <1>8, SetsAssumption DEF SetReservePoolRatio
  <2>2. target \in Nat  BY <1>6, <2>1, TargetTyped
  <2> HIDE DEF target
  <2>3. /\ reservePoolSize' = [reservePoolSize EXCEPT ![asset] = target]
        /\ UNCHANGED moves
        /\ reservePoolRatio' = [reservePoolRatio EXCEPT ![asset] = r]
    BY <1>8 DEF SetReservePoolRatio, target
  <2>4. QED  BY <2>1, <2>2, <2>3 DEF ReserveTyped
<1>9. QED  BY <1>2, <1>3, <1>4, <1>5, <1>7, <1>8 DEF Next

(* The accounts are exact whatever is requested, processed, provided,       *)
(* withdrawn or set, in whatever order: each part of them keeps itself.     *)
THEOREM AccountsAlwaysExact == Spec => []AccountsExact
<1> DEFINE IndInv == QueueInv /\ PoolInv /\ SettingTyped /\ ReserveTyped
<1>1. Init => IndInv
  <2>1. Init => SettingTyped /\ ReserveTyped
    BY DEF Init, SettingTyped, SettingAllowed, ReserveTyped, NoAmounts
  <2>2. QED  BY <2>1, QueueInitially, PoolInitially
<1>2. IndInv /\ [Next]_vars => IndInv'
  BY QueueNext, PoolNext, SettingNext, ReserveNext DEF QueueInv, PoolInv
<1>3. IndInv => AccountsExact
  <2> SUFFICES ASSUME IndInv PROVE AccountsExact
    OBVIOUS
  <2>1. TypeOK
    <3>1. QueueTyped /\ PoolTyped /\ SettingTyped /\ ReserveTyped
      BY DEF QueueInv, PoolInv
    <3>2. {totalQueued, availableLiquidity, reservePoolSize, reservePoolRatio,
           totalShares, rewards} \subseteq [Assets -> Nat]
      BY <3>1 DEF QueueTyped, PoolTyped, ReserveTyped
    <3> HIDE DEF IndInv
    <3>3. QED
      BY <3>1, <3>2 DEF QueueTyped, PoolTyped, SettingTyped, ReserveTyped, TypeOK
  <2>2. SharesWithin  BY WithinTheSum
  <2>3. QED  BY <2>1, <2>2 DEF AccountsExact, QueueInv, PoolInv
<1> HIDE DEF IndInv
<1>4. QED  BY <1>1, <1>2, <1>3, PTL DEF Spec

(* A request filed changes once, when it is processed, and not before its   *)
(* unlock time, whichever order the requests unlock in (lines 237-258).     *)
THEOREM ProcessedWhenDue == Spec => ProcessedOnceWhenDue
<1> DEFINE Change(i) ==
          \/ globalQueue'[i] = globalQueue[i]
          \/ /\ ~globalQueue[i].processed
             /\ now >= globalQueue[i].unlockTime
             /\ globalQueue'[i] = [globalQueue[i] EXCEPT !.processed = TRUE]
<1>1. ASSUME QueueInv, [Next]_vars, NEW i \in DOMAIN globalQueue PROVE Change(i)
  <2>1. CASE UNCHANGED queueVars  BY <2>1 DEF queueVars
  <2>2. CASE ProcessReadyRequests
    <3>1. globalQueue'[i] = IF Ready(globalQueue[i])
                            THEN [globalQueue[i] EXCEPT !.processed = TRUE]
                            ELSE globalQueue[i]
      BY <1>1, <2>2 DEF ProcessReadyRequests
    <3>2. QED  BY <3>1 DEF Ready
  <2>3. ASSUME NEW u, NEW asset, NEW amount, RequestUnbonding(u, asset, amount)
        PROVE  Change(i)
    <3>1. PICK request : globalQueue' = Append(globalQueue, request)
      BY <2>3 DEF RequestUnbonding
    <3>2. globalQueue'[i] = globalQueue[i]  BY <1>1, <3>1 DEF QueueInv, QueueTyped
    <3>3. QED  BY <3>2
  <2> HIDE DEF Change
  <2>4. QED  BY <1>1, <2>1, <2>2, <2>3, QueueSteps
<1>2. QueueInv /\ [Next]_vars => [\A i \in DOMAIN globalQueue : Change(i)]_vars
  BY <1>1
<1>3. QED  BY <1>2, QueueInitially, QueueNext, PTL DEF Spec, ProcessedOnceWhenDue

-----------------------------------------------------------------------------
(* Who may mint shares (TokenAuthority).                                    *)

LEMMA TokenInvInit == Token!Init => Token!TypeOK
  BY DelaysAssumption DEF Token!Init, Token!TypeOK

LEMMA TokenInvStep == Token!TypeOK /\ [Token!Next]_(Token!vars) => Token!TypeOK'
<1> SUFFICES ASSUME Token!TypeOK, [Token!Next]_(Token!vars) PROVE Token!TypeOK'
  OBVIOUS
<1>1. ASSUME NEW c \in Contracts, Token!ProposeStakeBasketContract(c)
      PROVE  Token!TypeOK'
  <2>1. c # Zero /\ clock + TIMELOCK_DELAY \in Nat /\ clock + TIMELOCK_DELAY # 0
    BY ZeroAssumption, DelaysAssumption DEF Token!TypeOK
  <2>2. QED  BY <1>1, <2>1 DEF Token!TypeOK, Token!ProposeStakeBasketContract
<1>2. ASSUME NEW c \in Contracts, Token!EmergencySetStakeBasketContract(c)
      PROVE  Token!TypeOK'
  BY <1>2 DEF Token!TypeOK, Token!EmergencySetStakeBasketContract, Token!pending
<1>3. CASE Token!ConfirmStakeBasketContract
  BY <1>3, DelaysAssumption
     DEF Token!TypeOK, Token!ConfirmStakeBasketContract, Token!PendingCleared
<1>4. CASE Token!CancelStakeBasketContract
  BY <1>4, DelaysAssumption DEF Token!TypeOK, Token!CancelStakeBasketContract
<1>5. CASE Token!Tick
  BY <1>5, DelaysAssumption DEF Token!TypeOK, Token!Tick, Token!pending
<1>6. CASE UNCHANGED Token!vars
  BY <1>6 DEF Token!TypeOK, Token!vars, Token!pending
<1>7. QED  BY <1>1, <1>2, <1>3, <1>4, <1>5, <1>6 DEF Token!Next

(* When the pending contract may be confirmed, in the timelock's terms.     *)
ConfirmationDue ==
    [o \in {"contract"} |-> IF pendingStakeBasketContract = Zero
                            THEN 0 ELSE stakeBasketContractSetTime]

(* Each step is a step of the abstract timelock, or leaves it as it is.     *)
LEMMA TokenLockStep ==
    Token!TypeOK /\ [Token!Next]_(Token!vars) => [Token!Lock!Next]_(Token!Lock!vars)
<1> SUFFICES ASSUME Token!TypeOK, [Token!Next]_(Token!vars)
             PROVE  [Token!Lock!Next]_(Token!Lock!vars)
  OBVIOUS
<1>1. ASSUME NEW c \in Contracts, Token!ProposeStakeBasketContract(c)
      PROVE  Token!Lock!Announce("contract")
  <2>1. /\ pendingStakeBasketContract' # Zero
        /\ stakeBasketContractSetTime' = clock + TIMELOCK_DELAY
        /\ UNCHANGED <<confirmed, clock>>
    BY <1>1, ZeroAssumption DEF Token!ProposeStakeBasketContract
  <2>2. ConfirmationDue' = [ConfirmationDue EXCEPT !["contract"] = clock + TIMELOCK_DELAY]
    BY <2>1 DEF ConfirmationDue
  <2>3. QED  BY <2>1, <2>2 DEF Token!Lock!Announce, ConfirmationDue
<1>2. CASE Token!ConfirmStakeBasketContract
  <2>1. /\ pendingStakeBasketContract # Zero /\ clock >= stakeBasketContractSetTime
        /\ pendingStakeBasketContract' = Zero /\ UNCHANGED clock
        /\ confirmed' = [confirmed EXCEPT !["contract"] = @ + 1]
    BY <1>2 DEF Token!ConfirmStakeBasketContract, Token!PendingCleared
  <2>2. ConfirmationDue["contract"] # 0 /\ clock >= ConfirmationDue["contract"]
    BY <2>1 DEF ConfirmationDue, Token!TypeOK
  <2>3. ConfirmationDue' = [ConfirmationDue EXCEPT !["contract"] = 0]
    BY <2>1 DEF ConfirmationDue
  <2>4. Token!Lock!TakeEffect("contract")
    BY <2>1, <2>2, <2>3 DEF Token!Lock!TakeEffect, ConfirmationDue
  <2>5. QED  BY <2>4 DEF Token!Lock!Next
<1>3. CASE Token!CancelStakeBasketContract
  <2>1. pendingStakeBasketContract' = Zero /\ UNCHANGED <<confirmed, clock>>
    BY <1>3 DEF Token!CancelStakeBasketContract
  <2>2. ConfirmationDue' = [ConfirmationDue EXCEPT !["contract"] = 0]
    BY <2>1 DEF ConfirmationDue
  <2>3. Token!Lock!Withdraw("contract")
    BY <2>1, <2>2 DEF Token!Lock!Withdraw, ConfirmationDue
  <2>4. QED  BY <2>3 DEF Token!Lock!Next
<1>4. ASSUME NEW c \in Contracts, Token!EmergencySetStakeBasketContract(c)
      PROVE  UNCHANGED Token!Lock!vars
  BY <1>4 DEF Token!EmergencySetStakeBasketContract, Token!pending, Token!Lock!vars
<1>5. CASE Token!Tick
  BY <1>5 DEF Token!Tick, Token!pending, Token!Lock!Next, Token!Lock!Tick
<1>6. CASE UNCHANGED Token!vars
  BY <1>6 DEF Token!vars, Token!pending, Token!Lock!vars
<1>7. QED
  BY <1>1, <1>2, <1>3, <1>4, <1>5, <1>6 DEF Token!Next, Token!Lock!Next

-----------------------------------------------------------------------------
(* The proposals (AccessControlManager), whoever has which role.            *)

(* What the mapping to the timelock rests on: the proposals' part of TypeOK.*)
ManagerInv ==
    /\ proposals \in [Manager!Ids -> Manager!Proposals]
    /\ proposalNonce \in 0..MaxProposals
    /\ clock \in Nat
    /\ \A id \in Manager!Ids : id >= proposalNonce => proposals[id] = Manager!Deleted
    /\ \A id \in Manager!Ids : Manager!Pending(proposals[id]) => proposals[id].executeTime # 0

(* When a proposal may be executed, in the timelock's terms.                *)
DueOf(ps) == [id \in Manager!Ids |-> IF Manager!Pending(ps[id]) THEN ps[id].executeTime ELSE 0]

LEMMA DeletedTyped == Manager!Deleted \in Manager!Proposals /\ ~Manager!Pending(Manager!Deleted)
  BY DEF Manager!Deleted, Manager!Proposals, Manager!Pending

LEMMA IdsTyped == Manager!Ids \subseteq Nat
  BY DelaysAssumption DEF Manager!Ids

LEMMA ManagerInvInit == Manager!Init => ManagerInv
  BY DeletedTyped, DelaysAssumption DEF Manager!Init, ManagerInv

(* The steps that leave the proposals alone.                                *)
LEMMA ProposalsFrame ==
    ASSUME ManagerInv, UNCHANGED <<proposals, proposalNonce>>, clock' \in Nat
    PROVE  ManagerInv'
  BY DEF ManagerInv

LEMMA CreateProposalKeeps ==
    ASSUME ManagerInv, NEW by \in Accounts, NEW target \in Contracts \cup {Zero},
           Manager!CreateProposal(by, target)
    PROVE  ManagerInv'
<1> DEFINE p == [target |-> target, executeTime |-> clock + TIMELOCK_DELAY,
                executed |-> FALSE]
<1>1. p \in Manager!Proposals /\ p.executeTime # 0
  BY DelaysAssumption DEF ManagerInv, Manager!Proposals
<1>2. /\ proposals' = [proposals EXCEPT ![proposalNonce] = p]
      /\ proposalNonce' = proposalNonce + 1 /\ proposalNonce < MaxProposals
      /\ clock' = clock
  BY DEF Manager!CreateProposal
<1> HIDE DEF p
<1>3. proposals' \in [Manager!Ids -> Manager!Proposals]  BY <1>1, <1>2 DEF ManagerInv
<1>4. proposalNonce' \in 0..MaxProposals  BY <1>2, DelaysAssumption DEF ManagerInv
<1>5. \A id \in Manager!Ids : id >= proposalNonce' => proposals'[id] = Manager!Deleted
  BY <1>2, IdsTyped DEF ManagerInv
<1>6. \A id \in Manager!Ids : Manager!Pending(proposals'[id]) => proposals'[id].executeTime # 0
  BY <1>1, <1>2 DEF ManagerInv
<1>7. QED  BY <1>2, <1>3, <1>4, <1>5, <1>6 DEF ManagerInv

LEMMA ExecuteProposalKeeps ==
    ASSUME ManagerInv, NEW by \in Accounts, NEW id \in Manager!Ids,
           Manager!ExecuteProposal(by, id)
    PROVE  ManagerInv'
<1> DEFINE p == [proposals[id] EXCEPT !.executed = TRUE]
<1>1. p \in Manager!Proposals /\ ~Manager!Pending(p)
  BY DEF ManagerInv, Manager!Proposals, Manager!Pending
<1>2. /\ proposals' = [proposals EXCEPT ![id] = p] /\ Manager!Pending(proposals[id])
      /\ UNCHANGED <<proposalNonce, clock>>
  BY DEF Manager!ExecuteProposal, Manager!Executed
<1>3. id < proposalNonce
  BY <1>2, DeletedTyped, IdsTyped DEF ManagerInv
<1> HIDE DEF p
<1>4. QED  BY <1>1, <1>2, <1>3, IdsTyped DEF ManagerInv

LEMMA CancelProposalKeeps ==
    ASSUME ManagerInv, NEW by \in Accounts, NEW id \in Manager!Ids,
           Manager!CancelProposal(by, id)
    PROVE  ManagerInv'
<1>1. /\ proposals' = [proposals EXCEPT ![id] = Manager!Deleted]
      /\ UNCHANGED <<proposalNonce, clock>>
  BY DEF Manager!CancelProposal
<1>2. QED  BY <1>1, DeletedTyped DEF ManagerInv

(* The steps of the roles, the emergency calls and the clock.               *)
RolesMove ==
    \/ \E by \in Accounts :
          \/ Manager!EmergencyExecute(by)
          \/ \E role \in Manager!Roles :
                \/ \E accounts \in SUBSET Accounts :
                      \/ Manager!BatchGrantRole(by, role, accounts)
                      \/ Manager!BatchRevokeRole(by, role, accounts)
                \/ Manager!RenounceRole(by, role)

LEMMA RolesMoveFrame ==
    RolesMove \/ UNCHANGED Manager!vars =>
        UNCHANGED <<proposals, proposalNonce, executions, clock>>
  BY DEF RolesMove, Manager!EmergencyExecute, Manager!BatchGrantRole,
       Manager!BatchRevokeRole, Manager!RenounceRole, Manager!vars

LEMMA ManagerInvStep == ManagerInv /\ [Manager!Next]_(Manager!vars) => ManagerInv'
<1> SUFFICES ASSUME ManagerInv, [Manager!Next]_(Manager!vars) PROVE ManagerInv'
  OBVIOUS
<1>1. CASE RolesMove \/ UNCHANGED Manager!vars
  <2>1. UNCHANGED <<proposals, proposalNonce, clock>>  BY <1>1, RolesMoveFrame
  <2>2. QED  BY <2>1, ProposalsFrame DEF ManagerInv
<1>2. CASE Manager!Tick
  <2>1. UNCHANGED <<proposals, proposalNonce>> /\ clock' \in Nat
    BY <1>2 DEF Manager!Tick, ManagerInv
  <2>2. QED  BY <2>1, ProposalsFrame
<1>3. QED
  BY <1>1, <1>2, CreateProposalKeeps, ExecuteProposalKeeps, CancelProposalKeeps
       DEF Manager!Next, RolesMove

(* The roles and the emergency calls keep their types.                      *)
RolesOK ==
    /\ members \in [Manager!Roles -> SUBSET Accounts]
    /\ lastActionTime \in [Accounts -> Nat]
    /\ executions \in [Manager!Ids -> Nat]

LEMMA RolesInit == Manager!Init => RolesOK
<1>1. {} \in SUBSET Accounts /\ {Owner} \in SUBSET Accounts  BY AccountsAssumption
<1>2. QED  BY <1>1 DEF RolesOK, Manager!Init

LEMMA RolesStep == RolesOK /\ ManagerInv /\ [Manager!Next]_(Manager!vars) => RolesOK'
<1> SUFFICES ASSUME RolesOK, ManagerInv, [Manager!Next]_(Manager!vars) PROVE RolesOK'
  OBVIOUS
<1>1. clock \in Nat  BY DEF ManagerInv
<1>2. ASSUME NEW by \in Accounts, NEW role \in Manager!Roles,
             NEW accounts \in SUBSET Accounts,
             \/ Manager!BatchGrantRole(by, role, accounts)
             \/ Manager!BatchRevokeRole(by, role, accounts)
      PROVE  RolesOK'
  BY <1>2 DEF RolesOK, Manager!BatchGrantRole, Manager!BatchRevokeRole
<1>3. ASSUME NEW by \in Accounts, NEW role \in Manager!Roles, Manager!RenounceRole(by, role)
      PROVE  RolesOK'
  BY <1>3 DEF RolesOK, Manager!RenounceRole
<1>4. ASSUME NEW by \in Accounts, Manager!EmergencyExecute(by)
      PROVE  RolesOK'
  BY <1>1, <1>4 DEF RolesOK, Manager!EmergencyExecute
<1>5. ASSUME NEW by \in Accounts, NEW id \in Manager!Ids,
             Manager!ExecuteProposal(by, id) \/ Manager!CancelProposal(by, id)
      PROVE  RolesOK'
  BY <1>5 DEF RolesOK, Manager!ExecuteProposal, Manager!CancelProposal
<1>6. ASSUME NEW by \in Accounts, NEW target \in Contracts \cup {Zero},
             Manager!CreateProposal(by, target)
      PROVE  RolesOK'
  BY <1>6 DEF RolesOK, Manager!CreateProposal
<1>7. CASE Manager!Tick \/ UNCHANGED Manager!vars
  BY <1>7 DEF RolesOK, Manager!Tick, Manager!vars
<1>8. QED
  BY <1>2, <1>3, <1>4, <1>5, <1>6, <1>7 DEF Manager!Next

LEMMA ManagerTypes == Manager!TypeOK <=> ManagerInv /\ RolesOK
  BY DEF Manager!TypeOK, ManagerInv, RolesOK

(* Each step is a step of the abstract timelock, or leaves it as it is.     *)
LEMMA ManagerLockStep ==
    ManagerInv /\ [Manager!Next]_(Manager!vars) => [Manager!Lock!Next]_(Manager!Lock!vars)
<1> SUFFICES ASSUME ManagerInv, [Manager!Next]_(Manager!vars)
             PROVE  [Manager!Lock!Next]_(Manager!Lock!vars)
  OBVIOUS
<1>1. ASSUME NEW by \in Accounts, NEW target \in Contracts \cup {Zero},
             Manager!CreateProposal(by, target)
      PROVE  [Manager!Lock!Next]_(Manager!Lock!vars)
  <2> DEFINE p == [target |-> target, executeTime |-> clock + TIMELOCK_DELAY,
                   executed |-> FALSE]
  <2>1. /\ proposals' = [proposals EXCEPT ![proposalNonce] = p]
        /\ proposalNonce < MaxProposals /\ UNCHANGED <<executions, clock>>
    BY <1>1 DEF Manager!CreateProposal
  <2>2. proposalNonce \in Manager!Ids /\ ~Manager!Pending(proposals[proposalNonce])
    <3>1. proposalNonce \in Manager!Ids
      BY <2>1, DelaysAssumption DEF ManagerInv, Manager!Ids
    <3>2. proposals[proposalNonce] = Manager!Deleted  BY <3>1, IdsTyped DEF ManagerInv
    <3>3. QED  BY <3>1, <3>2, DeletedTyped
  <2>3. CASE target = Zero
    <3>1. ~Manager!Pending(p)  BY <2>3 DEF Manager!Pending
    <3> HIDE DEF p
    <3>2. DueOf(proposals') = DueOf(proposals)
      BY <2>1, <2>2, <3>1 DEF DueOf, ManagerInv
    <3>3. QED  BY <2>1, <3>2 DEF Manager!Lock!vars, DueOf
  <2>4. CASE target # Zero
    <3>1. Manager!Pending(p) /\ p.executeTime = clock + TIMELOCK_DELAY
      BY <2>4 DEF Manager!Pending
    <3> HIDE DEF p
    <3>2. DueOf(proposals') = [DueOf(proposals) EXCEPT ![proposalNonce] = clock + TIMELOCK_DELAY]
      BY <2>1, <2>2, <3>1 DEF DueOf, ManagerInv
    <3>3. PICK id \in Manager!Ids : id = proposalNonce  BY <2>2
    <3>4. Manager!Lock!Announce(id)  BY <2>1, <3>2, <3>3 DEF Manager!Lock!Announce, DueOf
    <3>5. QED  BY <3>4 DEF Manager!Lock!Next
  <2>5. QED  BY <2>3, <2>4
<1>2. ASSUME NEW by \in Accounts, NEW id \in Manager!Ids, Manager!ExecuteProposal(by, id)
      PROVE  [Manager!Lock!Next]_(Manager!Lock!vars)
  <2> DEFINE p == [proposals[id] EXCEPT !.executed = TRUE]
  <2>1. /\ proposals' = [proposals EXCEPT ![id] = p] /\ Manager!Pending(proposals[id])
        /\ clock >= proposals[id].executeTime
        /\ executions' = [executions EXCEPT ![id] = @ + 1] /\ UNCHANGED clock
    BY <1>2 DEF Manager!ExecuteProposal, Manager!Executed
  <2>2. ~Manager!Pending(p)  BY DEF ManagerInv, Manager!Proposals, Manager!Pending
  <2>3. DueOf(proposals)[id] = proposals[id].executeTime /\ proposals[id].executeTime # 0
    BY <2>1 DEF DueOf, ManagerInv
  <2> HIDE DEF p
  <2>4. DueOf(proposals') = [DueOf(proposals) EXCEPT ![id] = 0]
    BY <2>1, <2>2 DEF DueOf, ManagerInv
  <2>5. Manager!Lock!TakeEffect(id)  BY <2>1, <2>3, <2>4 DEF Manager!Lock!TakeEffect, DueOf
  <2>6. QED  BY <2>5 DEF Manager!Lock!Next
<1>3. ASSUME NEW by \in Accounts, NEW id \in Manager!Ids, Manager!CancelProposal(by, id)
      PROVE  [Manager!Lock!Next]_(Manager!Lock!vars)
  <2>1. proposals' = [proposals EXCEPT ![id] = Manager!Deleted] /\ UNCHANGED <<executions,
       clock>>
    BY <1>3 DEF Manager!CancelProposal
  <2>2. DueOf(proposals') = [DueOf(proposals) EXCEPT ![id] = 0]
    BY <2>1, DeletedTyped DEF DueOf, ManagerInv
  <2>3. Manager!Lock!Withdraw(id)  BY <2>1, <2>2 DEF Manager!Lock!Withdraw, DueOf
  <2>4. QED  BY <2>3 DEF Manager!Lock!Next
<1>4. CASE RolesMove \/ UNCHANGED Manager!vars
  <2>1. UNCHANGED <<proposals, executions, clock>>  BY <1>4, RolesMoveFrame
  <2>2. QED  BY <2>1 DEF Manager!Lock!vars
<1>5. CASE Manager!Tick  BY <1>5 DEF Manager!Tick, Manager!Lock!Next, Manager!Lock!Tick
<1>6. QED  BY <1>1, <1>2, <1>3, <1>4, <1>5 DEF Manager!Next, RolesMove

-----------------------------------------------------------------------------
(* The committee (GovernanceCommittee), whoever joins or leaves.            *)

(* The committee's Cardinality is the one of the theorems about it.         *)
LEMMA SameCardinality == ASSUME NEW S PROVE Committee!Cardinality(S) = Cardinality(S)
  BY DEF Committee!Cardinality, Cardinality

(* Types and the counts.                                                    *)
CommitteeInv == Committee!TypeOK /\ Committee!ApprovalsDistinct

LEMMA ApprovalsFinite ==
    ASSUME Committee!TypeOK, NEW a \in Actions
    PROVE  /\ IsFiniteSet(committeeApprovals[a])
           /\ Cardinality(committeeApprovals[a]) \in Nat
<1>1. committeeApprovals[a] \subseteq Accounts  BY DEF Committee!TypeOK
<1>2. IsFiniteSet(committeeApprovals[a])  BY <1>1, AccountsAssumption, FS_Subset
<1>3. QED  BY <1>2, FS_CardinalityType

LEMMA CommitteeInvInit == Committee!Init => CommitteeInv
<1>1. Cardinality({}) = 0  BY FS_EmptySet
<1>2. Committee!Init => Committee!TypeOK
  BY AccountsAssumption, DelaysAssumption DEF Committee!Init, Committee!TypeOK
<1>3. Committee!Init => Committee!ApprovalsDistinct
  BY <1>1, SameCardinality DEF Committee!Init, Committee!ApprovalsDistinct
<1>4. QED  BY <1>2, <1>3 DEF CommitteeInv

(* The steps that leave the approvals alone.                                *)
LEMMA CountsFrame ==
    ASSUME Committee!ApprovalsDistinct, UNCHANGED Committee!approved
    PROVE  Committee!ApprovalsDistinct'
  BY DEF Committee!ApprovalsDistinct, Committee!approved

LEMMA ScheduleActionKeeps ==
    ASSUME CommitteeInv, NEW by \in Accounts, NEW a \in Actions,
           NEW isEmergency \in BOOLEAN,
           Committee!ScheduleGovernanceAction(by, a, isEmergency)
    PROVE  CommitteeInv'
<1>1. clock + (IF isEmergency THEN EMERGENCY_DELAY ELSE TIMELOCK_DELAY) \in Nat
  BY DelaysAssumption DEF CommitteeInv, Committee!TypeOK
<1>2. Committee!TypeOK'
  BY <1>1 DEF CommitteeInv, Committee!TypeOK, Committee!ScheduleGovernanceAction,
       Committee!committee, Committee!approved
<1>3. Committee!ApprovalsDistinct'
  BY CountsFrame DEF CommitteeInv, Committee!ScheduleGovernanceAction
<1>4. QED  BY <1>2, <1>3 DEF CommitteeInv

LEMMA ApproveActionKeeps ==
    ASSUME CommitteeInv, NEW by \in Accounts, NEW a \in Actions,
           Committee!ApproveGovernanceAction(by, a)
    PROVE  CommitteeInv'
<1>1. Committee!TypeOK'
  BY DEF CommitteeInv, Committee!TypeOK, Committee!ApproveGovernanceAction,
         Committee!committee
<1>2. ASSUME NEW b \in Actions
      PROVE  approvalCount'[b] <= Cardinality(committeeApprovals'[b])
  <2>1. CASE b # a
    <3>1. /\ approvalCount'[b] = approvalCount[b]
          /\ committeeApprovals'[b] = committeeApprovals[b]
      BY <2>1 DEF CommitteeInv, Committee!TypeOK, Committee!ApproveGovernanceAction
    <3>2. QED  BY <3>1, SameCardinality DEF CommitteeInv, Committee!ApprovalsDistinct
  <2>2. CASE b = a
    <3>1. /\ approvalCount'[a] = approvalCount[a] + 1
          /\ committeeApprovals'[a] = committeeApprovals[a] \cup {by}
          /\ by \notin committeeApprovals[a]
      BY DEF CommitteeInv, Committee!TypeOK, Committee!ApproveGovernanceAction
    <3>2. IsFiniteSet(committeeApprovals[a]) /\ Cardinality(committeeApprovals[a]) \in Nat
      BY ApprovalsFinite DEF CommitteeInv
    <3>3. Cardinality(committeeApprovals[a] \cup {by}) = Cardinality(committeeApprovals[a]) + 1
      BY <3>1, <3>2, FS_AddElement
    <3>4. approvalCount[a] \in Nat /\ approvalCount[a] <= Cardinality(committeeApprovals[a])
      BY SameCardinality DEF CommitteeInv, Committee!TypeOK, Committee!ApprovalsDistinct
    <3>5. QED  BY <2>2, <3>1, <3>2, <3>3, <3>4
  <2>3. QED  BY <2>1, <2>2
<1>3. QED  BY <1>1, <1>2, SameCardinality DEF CommitteeInv, Committee!ApprovalsDistinct

LEMMA ExecuteActionKeeps ==
    ASSUME CommitteeInv, NEW by \in Accounts, NEW a \in Actions,
           Committee!ExecuteGovernanceAction(by, a)
    PROVE  CommitteeInv'
<1>1. Committee!TypeOK'
  BY DEF CommitteeInv, Committee!TypeOK, Committee!ExecuteGovernanceAction,
       Committee!Unscheduled, Committee!CountCleared, Committee!committee
<1>2. ASSUME NEW b \in Actions
      PROVE  approvalCount'[b] <= Cardinality(committeeApprovals'[b])
  <2>1. CASE b # a
    <3>1. /\ approvalCount'[b] = approvalCount[b]
          /\ committeeApprovals'[b] = committeeApprovals[b]
      BY <2>1 DEF CommitteeInv, Committee!TypeOK, Committee!ExecuteGovernanceAction,
           Committee!CountCleared
    <3>2. QED  BY <3>1, SameCardinality DEF CommitteeInv, Committee!ApprovalsDistinct
  <2>2. CASE b = a
    <3>1. approvalCount'[a] = 0
      BY DEF CommitteeInv, Committee!TypeOK, Committee!ExecuteGovernanceAction,
           Committee!CountCleared
    <3>2. committeeApprovals'[a] \subseteq Accounts  BY <1>1 DEF Committee!TypeOK
    <3>3. IsFiniteSet(committeeApprovals'[a])  BY <3>2, AccountsAssumption, FS_Subset
    <3>4. Cardinality(committeeApprovals'[a]) \in Nat  BY <3>3, FS_CardinalityType
    <3>5. QED  BY <2>2, <3>1, <3>4
  <2>3. QED  BY <2>1, <2>2
<1>3. QED  BY <1>1, <1>2, SameCardinality DEF CommitteeInv, Committee!ApprovalsDistinct

LEMMA MembersKeep ==
    ASSUME CommitteeInv, NEW m \in Accounts,
           Committee!AddCommitteeMember(m) \/ Committee!RemoveCommitteeMember(m)
    PROVE  CommitteeInv'
<1>1. Committee!TypeOK'
  BY DEF CommitteeInv, Committee!TypeOK, Committee!AddCommitteeMember,
       Committee!RemoveCommitteeMember, Committee!approved
<1>2. UNCHANGED Committee!approved
  BY DEF Committee!AddCommitteeMember, Committee!RemoveCommitteeMember
<1>3. QED  BY <1>1, <1>2, CountsFrame DEF CommitteeInv

LEMMA ParametersKeep ==
    ASSUME CommitteeInv, NEW required \in 0..Cardinality(Accounts),
           Committee!SetGovernanceParameters(required)
    PROVE  CommitteeInv'
<1>1. required \in Nat  BY AccountsAssumption, FS_CardinalityType
<1>2. Committee!TypeOK'
  BY <1>1 DEF CommitteeInv, Committee!TypeOK, Committee!SetGovernanceParameters,
         Committee!approved
<1>3. UNCHANGED Committee!approved  BY DEF Committee!SetGovernanceParameters
<1>4. QED  BY <1>2, <1>3, CountsFrame DEF CommitteeInv

LEMMA CommitteeClockKeeps ==
    ASSUME CommitteeInv, Committee!Tick \/ UNCHANGED Committee!vars
    PROVE  CommitteeInv'
<1>1. Committee!TypeOK'
  BY DEF CommitteeInv, Committee!TypeOK, Committee!Tick, Committee!vars,
         Committee!committee, Committee!approved
<1>2. UNCHANGED Committee!approved  BY DEF Committee!Tick, Committee!vars
<1>3. QED  BY <1>1, <1>2, CountsFrame DEF CommitteeInv

LEMMA CommitteeInvStep == CommitteeInv /\ [Committee!Next]_(Committee!vars) => CommitteeInv'
  BY ScheduleActionKeeps, ApproveActionKeeps, ExecuteActionKeeps, MembersKeep,
       ParametersKeep, CommitteeClockKeeps, SameCardinality
     DEF Committee!Next

LEMMA CommitteeLockStep ==
    CommitteeInv /\ [Committee!Next]_(Committee!vars) => [Committee!Lock!Next]_(Committee!Lock!vars)
<1> SUFFICES ASSUME CommitteeInv, [Committee!Next]_(Committee!vars)
             PROVE  [Committee!Lock!Next]_(Committee!Lock!vars)
  OBVIOUS
<1>1. ASSUME NEW by \in Accounts, NEW a \in Actions, NEW isEmergency \in BOOLEAN,
             Committee!ScheduleGovernanceAction(by, a, isEmergency)
      PROVE  Committee!Lock!Announce(a)
  <2> DEFINE d == IF isEmergency THEN EMERGENCY_DELAY ELSE TIMELOCK_DELAY
  <2>1. d \in {EMERGENCY_DELAY, TIMELOCK_DELAY}  OBVIOUS
  <2>2. timelockExpiry' = [timelockExpiry EXCEPT ![a] = clock + d]
    BY <1>1 DEF Committee!ScheduleGovernanceAction
  <2>3. UNCHANGED <<called, clock>>  BY <1>1 DEF Committee!ScheduleGovernanceAction
  <2> HIDE DEF d
  <2>4. QED  BY <2>1, <2>2, <2>3 DEF Committee!Lock!Announce
<1>2. ASSUME NEW by \in Accounts, NEW a \in Actions,
             Committee!ExecuteGovernanceAction(by, a)
      PROVE  Committee!Lock!TakeEffect(a)
  BY <1>2 DEF Committee!ExecuteGovernanceAction, Committee!Unscheduled,
       Committee!Lock!TakeEffect
<1>3. ASSUME NEW by \in Accounts, NEW a \in Actions,
             Committee!ApproveGovernanceAction(by, a)
      PROVE  UNCHANGED Committee!Lock!vars
  BY <1>3 DEF Committee!ApproveGovernanceAction, Committee!Lock!vars
<1>4. ASSUME NEW m \in Accounts,
             Committee!AddCommitteeMember(m) \/ Committee!RemoveCommitteeMember(m)
      PROVE  UNCHANGED Committee!Lock!vars
  BY <1>4 DEF Committee!AddCommitteeMember, Committee!RemoveCommitteeMember,
       Committee!Lock!vars
<1>5. ASSUME NEW required \in 0..Cardinality(Accounts),
             Committee!SetGovernanceParameters(required)
      PROVE  UNCHANGED Committee!Lock!vars
  BY <1>5 DEF Committee!SetGovernanceParameters, Committee!Lock!vars
<1>6. CASE Committee!Tick
  BY <1>6 DEF Committee!Tick, Committee!Lock!Next, Committee!Lock!Tick
<1>7. CASE UNCHANGED Committee!vars  BY <1>7 DEF Committee!vars, Committee!Lock!vars
<1>8. QED
  BY <1>1, <1>2, <1>3, <1>4, <1>5, <1>6, <1>7, SameCardinality
       DEF Committee!Next, Committee!Lock!Next

-----------------------------------------------------------------------------
(* The three together: a transaction of one is a stutter of the others, and *)
(* the clock is theirs in common.                                           *)
LEMMA OneClock ==
    ASSUME Token!Next \/ Manager!Next \/ Committee!Next
    PROVE  UNCHANGED clock \/ (clock < MaxClock /\ clock' = clock + 1)
<1>1. CASE Token!Next
  BY <1>1 DEF Token!Next, Token!ProposeStakeBasketContract,
       Token!ConfirmStakeBasketContract,
     Token!CancelStakeBasketContract, Token!EmergencySetStakeBasketContract, Token!Tick
<1>2. CASE Manager!Next
  BY <1>2 DEF Manager!Next, Manager!CreateProposal, Manager!ExecuteProposal,
     Manager!CancelProposal, Manager!EmergencyExecute, Manager!BatchGrantRole,
     Manager!BatchRevokeRole, Manager!RenounceRole, Manager!Tick
<1>3. CASE Committee!Next
  BY <1>3 DEF Committee!Next, Committee!ScheduleGovernanceAction,
     Committee!ApproveGovernanceAction, Committee!ExecuteGovernanceAction,
     Committee!AddCommitteeMember, Committee!RemoveCommitteeMember,
     Committee!SetGovernanceParameters, Committee!Tick
<1>4. QED  BY <1>1, <1>2, <1>3

(* To a contract whose own variables rest, time passes or nothing happens.  *)
LEMMA RestingContract ==
    ASSUME UNCHANGED clock \/ (clock < MaxClock /\ clock' = clock + 1)
    PROVE  /\ UNCHANGED tokenVars => [Token!Next]_(Token!vars)
           /\ UNCHANGED managerVars => [Manager!Next]_(Manager!vars)
           /\ UNCHANGED committeeVars => [Committee!Next]_(Committee!vars)
<1>1. UNCHANGED tokenVars => Token!Tick \/ UNCHANGED Token!vars
  BY DEF tokenVars, Token!vars, Token!pending, Token!Tick
<1>2. UNCHANGED managerVars => Manager!Tick \/ UNCHANGED Manager!vars
  BY DEF managerVars, Manager!vars, Manager!Tick
<1>3. UNCHANGED committeeVars => Committee!Tick \/ UNCHANGED Committee!vars
  BY DEF committeeVars, Committee!vars, Committee!committee, Committee!approved,
       Committee!Tick
<1>4. QED  BY <1>1, <1>2, <1>3 DEF Token!Next, Manager!Next, Committee!Next

LEMMA EachStep ==
    ASSUME [DelayedNext]_delayedVars
    PROVE  /\ [Token!Next]_(Token!vars)
           /\ [Manager!Next]_(Manager!vars)
           /\ [Committee!Next]_(Committee!vars)
<1>1. CASE Token!Next /\ UNCHANGED <<managerVars, committeeVars>>
  BY <1>1, OneClock, RestingContract
<1>2. CASE Manager!Next /\ UNCHANGED <<tokenVars, committeeVars>>
  BY <1>2, OneClock, RestingContract
<1>3. CASE Committee!Next /\ UNCHANGED <<tokenVars, managerVars>>
  BY <1>3, OneClock, RestingContract
<1>4. CASE UNCHANGED delayedVars
  <2>1. UNCHANGED clock /\ UNCHANGED tokenVars /\ UNCHANGED managerVars
        /\ UNCHANGED committeeVars
    BY <1>4 DEF delayedVars
  <2>2. QED  BY <2>1, RestingContract
<1>5. QED  BY <1>1, <1>2, <1>3, <1>4 DEF DelayedNext

(* Whoever joins or leaves, and however often an action is executed, its    *)
(* count never exceeds the accounts whose approval stands.                  *)
THEOREM CountsAreDistinctApprovals == DelayedSpec => []Committee!ApprovalsDistinct
<1>1. DelayedSpec => []CommitteeInv
  BY CommitteeInvInit, CommitteeInvStep, EachStep, PTL DEF DelayedSpec, DelayedInit
<1>2. CommitteeInv => Committee!ApprovalsDistinct  BY DEF CommitteeInv
<1>3. QED  BY <1>1, <1>2, PTL

(* The right to mint, the manager's proposals and the committee's actions   *)
(* each implement the timelock: nothing delayed takes effect but after it   *)
(* was announced, when its delay has passed, and once; and what is pending  *)
(* has a time.                                                              *)
THEOREM DelaysAlwaysKept == DelayedSpec => Timelocked
<1>1. Token!Init => Token!Lock!Init  BY DEF Token!Init, Token!Lock!Init
<1>2. Manager!Init => Manager!Lock!Init  BY DeletedTyped DEF Manager!Init, Manager!Lock!Init
<1>3. Committee!Init => Committee!Lock!Init  BY DEF Committee!Init, Committee!Lock!Init
<1>4. DelayedSpec => Token!Timelocked /\ []Token!TypeOK
  BY <1>1, TokenInvInit, TokenInvStep, TokenLockStep, EachStep, PTL
     DEF DelayedSpec, DelayedInit, Token!Timelocked, Token!Lock!Spec
<1>5. DelayedSpec => Manager!Timelocked /\ []Manager!TypeOK
  BY <1>2, ManagerInvInit, ManagerInvStep, RolesInit, RolesStep, ManagerTypes,
     ManagerLockStep, EachStep, PTL
     DEF DelayedSpec, DelayedInit, Manager!Timelocked, Manager!Lock!Spec
<1>6. DelayedSpec => Committee!Timelocked
  BY <1>3, CommitteeInvInit, CommitteeInvStep, CommitteeLockStep, EachStep, PTL
     DEF DelayedSpec, DelayedInit, Committee!Timelocked, Committee!Lock!Spec
<1>7. QED  BY <1>4, <1>5, <1>6, CountsAreDistinctApprovals DEF Timelocked
=============================================================================
