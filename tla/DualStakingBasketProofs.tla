---------------------- MODULE DualStakingBasketProofs ----------------------
(***************************************************************************)
(* What TLAPS proves of DualStakingBasket, for every finite set of holders  *)
(* and staking contracts, every price, ratio, unit and setting the owner    *)
(* may choose: the books agree with the assets whichever call fails, nobody *)
(* takes out more than the part of the shares, and who comes does not       *)
(* dilute the others.                                                       *)
(***************************************************************************)
EXTENDS DualStakingBasket, SumTheorems, TLAPS

-----------------------------------------------------------------------------
(* Numbers.                                                                 *)
LEMMA TimesNat == ASSUME NEW x \in Nat, NEW y \in Nat PROVE x * y \in Nat
  OBVIOUS

LEMMA QuotientNat ==
    ASSUME NEW x \in Nat, NEW d \in Nat \ {0}
    PROVE  x \div d \in Nat /\ (x \div d) * d <= x /\ x < (x \div d) * d + d
  OBVIOUS

LEMMA TimesOrder ==
    ASSUME NEW x \in Nat, NEW y \in Nat, NEW z \in Nat, x <= y
    PROVE  x * z <= y * z
  OBVIOUS

(* The shares of a hundredth of a percent: no more than the whole, and      *)
(* rounded so that of the larger sum no less is left.                       *)
LEMMA PortionLeaves ==
    ASSUME NEW n \in Nat, NEW m \in Nat, n <= m, NEW s \in Nat, s <= 10000
    PROVE  /\ (n * s) \div 10000 \in Nat
           /\ (n * s) \div 10000 <= n
           /\ n - (n * s) \div 10000 <= m - (m * s) \div 10000
<1> DEFINE p == (n * s) \div 10000
           q == (m * s) \div 10000
           d == m - n
<1>1. n * s \in Nat /\ m * s \in Nat /\ d \in Nat  BY TimesNat
<1>2. /\ p \in Nat /\ q \in Nat
      /\ p * 10000 <= n * s /\ n * s < p * 10000 + 10000
      /\ q * 10000 <= m * s
  BY <1>1, QuotientNat
<1>3. n * s <= n * 10000 /\ d * s <= d * 10000  BY <1>1, TimesOrder
<1>4. m * s = n * s + d * s  OBVIOUS
<1> DEFINE ns == n * s
           ms == m * s
           ds == d * s
<1>5. /\ ns \in Nat /\ ms \in Nat /\ ds \in Int /\ ms = ns + ds
      /\ p * 10000 <= ns /\ ns < p * 10000 + 10000 /\ q * 10000 <= ms
      /\ ns <= n * 10000 /\ ds <= d * 10000
  BY <1>1, <1>2, <1>3, <1>4
<1> HIDE DEF ns, ms, ds, p, q
<1>6. p <= n /\ n - p <= m - q  BY <1>1, <1>2, <1>5
<1>7. QED  BY <1>2, <1>6 DEF p, q

-----------------------------------------------------------------------------
(* Books.                                                                   *)
LEMMA BookFields ==
    ASSUME NEW b \in Books
    PROVE  /\ b.pooled \in Quantities /\ b.staked \in Quantities /\ b.free \in Quantities
           /\ b.coin \in Nat /\ b.at \in [Pools -> Quantities]
  BY DEF Books

LEMMA SettingFields ==
    ASSUME BasketTyped
    PROVE  /\ setting.ratio \in Nat /\ setting.keeper \in Nat /\ setting.pool \in Pools
           /\ setting.slippage \in Nat /\ setting.slippage <= 1000
           /\ setting.interval \in Nat /\ setting.interval >= HalfHour
           /\ setting.hasToken \in BOOLEAN
  BY DEF BasketTyped, Settings

(* Where the feed has a price it has one of both assets.                    *)
LEMMA PriceOfBoth ==
    ASSUME BasketTyped
    PROVE  /\ price \in Quantities
           /\ HasPrice => price.CORE \in Nat \ {0} /\ price.BTC \in Nat \ {0}
<1>1. price \in Prices \/ price = Nothing  BY DEF BasketTyped, NoPrice
<1>2. Nothing \in Quantities  BY DEF Nothing, Quantities, Assets
<1>3. ASSUME price \in Prices
      PROVE  price \in Quantities /\ price.CORE \in Nat \ {0} /\ price.BTC \in Nat \ {0}
  <2>1. price \in [Assets -> Nat \ {0}]  BY <1>3, OfferedAssumption
  <2>2. QED  BY <2>1 DEF Quantities, Assets
<1>4. QED  BY <1>1, <1>2, <1>3 DEF HasPrice, NoPrice

(* What is at the staking contracts, as a sum.                              *)
LEMMA PoolsNat ==
    ASSUME NEW b \in Books, NEW x \in Assets
    PROVE  AtPools(b, x) \in Nat /\ \A p \in Pools : b.at[p][x] <= AtPools(b, x)
<1> DEFINE f == [p \in Pools |-> b.at[p][x]]
<1>1. \A p \in Pools : f[p] \in Nat /\ f[p] = b.at[p][x]
  BY BookFields DEF Quantities
<1>2. AtPools(b, x) = SumFunctionOnSet(f, Pools)  BY DEF AtPools
<1> HIDE DEF f
<1>3. QED  BY <1>1, <1>2, PoolsAssumption, SumNat, SumMember

LEMMA PoolsChanged ==
    ASSUME NEW b \in Books, NEW c \in Books, NEW p \in Pools, NEW t \in Quantities,
           c.at = [b.at EXCEPT ![p] = t], NEW x \in Assets
    PROVE  AtPools(c, x) = AtPools(b, x) + (t[x] - b.at[p][x])
<1> DEFINE f == [q \in Pools |-> b.at[q][x]]
           g == [q \in Pools |-> c.at[q][x]]
<1>1. /\ b.at \in [Pools -> Quantities] /\ c.at \in [Pools -> Quantities]
  BY BookFields
<1>2. \A q \in Pools : f[q] \in Int /\ g[q] \in Int
  BY <1>1 DEF Quantities
<1>3. /\ \A q \in Pools \ {p} : g[q] = f[q]
      /\ g[p] = t[x] /\ f[p] = b.at[p][x]
  BY <1>1
<1>4. AtPools(b, x) = SumFunctionOnSet(f, Pools) /\ AtPools(c, x) = SumFunctionOnSet(g, Pools)
  BY DEF AtPools
<1> HIDE DEF f, g
<1>5. QED  BY <1>2, <1>3, <1>4, PoolsAssumption, SumChange

-----------------------------------------------------------------------------
(* A book in which what is counted as staked is at the staking contracts.   *)
(* Before the owner changes the contract it is all at the first one.        *)
Sound(b) ==
    /\ b \in Books
    /\ \A x \in Assets : b.staked[x] <= AtPools(b, x)
    /\ ~outside.moved =>
          \A x \in Assets : /\ b.staked[x] = AtPools(b, x)
                            /\ b.at[FirstPool][x] = AtPools(b, x)

(* By how much the pool's count and the assets are apart.                   *)
Apart(b, x) == b.pooled[x] - Held(b, x) - AtPools(b, x)

SamePool(b, c) == Sound(c) /\ \A x \in Assets : Apart(c, x) = Apart(b, x)

AtFirst == ~outside.moved => setting.pool = FirstPool

LEMMA HeldNat ==
    ASSUME NEW b \in Books, NEW x \in Assets
    PROVE  Held(b, x) \in Nat
  BY BookFields DEF Held, Quantities

LEMMA ApartInt ==
    ASSUME NEW b \in Books, NEW x \in Assets
    PROVE  Apart(b, x) \in Int
  BY BookFields, HeldNat, PoolsNat DEF Apart, Quantities

LEMMA SamePoolTwice ==
    ASSUME NEW b, NEW c, NEW d, SamePool(b, c), SamePool(c, d)
    PROVE  SamePool(b, d)
  BY DEF SamePool

(* Nothing goes to or comes from the staking contracts.                     *)
LEMMA MovedHere ==
    ASSUME NEW b, Sound(b), NEW c \in Books, c.staked = b.staked, c.at = b.at,
           \A x \in Assets : c.pooled[x] - Held(c, x) = b.pooled[x] - Held(b, x)
    PROVE  SamePool(b, c)
<1>1. b \in Books  BY DEF Sound
<1>2. \A x \in Assets : AtPools(c, x) = AtPools(b, x)  BY DEF AtPools
<1>3. Sound(c)  BY <1>2 DEF Sound
<1>4. ASSUME NEW x \in Assets PROVE Apart(c, x) = Apart(b, x)
  <2>1. AtPools(b, x) \in Nat  BY <1>1, PoolsNat
  <2>2. QED  BY <1>2, <2>1 DEF Apart
<1>5. QED  BY <1>3, <1>4 DEF SamePool

-----------------------------------------------------------------------------
(* Amounts of both assets.                                                  *)
LEMMA NothingIn == Nothing \in Quantities /\ \A x \in Assets : Nothing[x] = 0
  BY DEF Nothing, Quantities, Assets

LEMMA PlusIn ==
    ASSUME NEW a \in Quantities, NEW b \in Quantities
    PROVE  Plus(a, b) \in Quantities /\ \A x \in Assets : Plus(a, b)[x] = a[x] + b[x]
  BY DEF Plus, Quantities

LEMMA MinusIn ==
    ASSUME NEW a \in Quantities, NEW b \in Quantities, AtMost(b, a)
    PROVE  Minus(a, b) \in Quantities /\ \A x \in Assets : Minus(a, b)[x] = a[x] - b[x]
<1>1. \A x \in Assets : a[x] \in Nat /\ b[x] \in Nat /\ b[x] <= a[x]
  BY DEF Quantities, AtMost
<1>2. \A x \in Assets : a[x] - b[x] \in Nat  BY <1>1
<1>3. QED  BY <1>2 DEF Minus, Quantities

LEMMA OneChanged ==
    ASSUME NEW a \in Quantities, NEW x \in Assets, NEW n \in Nat
    PROVE  [a EXCEPT ![x] = n] \in Quantities
  BY DEF Quantities

(* A deposit, a claim or a gift that is pooled as it arrives.               *)
LEMMA InTokensKept ==
    ASSUME Sound(book), NEW amount \in Quantities
    PROVE  SamePool(book, InTokens(amount)) /\ InTokens(amount).pooled = Plus(book.pooled, amount)
<1> DEFINE c == InTokens(amount)
<1>1. book \in Books  BY DEF Sound
<1>2. /\ c.pooled = Plus(book.pooled, amount) /\ c.free = Plus(book.free, amount)
      /\ c.staked = book.staked /\ c.coin = book.coin /\ c.at = book.at
  BY <1>1 DEF InTokens, Books
<1>3. /\ c.pooled \in Quantities /\ c.free \in Quantities /\ c.staked \in Quantities
      /\ c.coin \in Nat /\ c.at \in [Pools -> Quantities]
  BY <1>1, <1>2, BookFields, PlusIn
<1>4. c \in Books  BY <1>1, <1>3, Zenon DEF Books, InTokens
<1>5. ASSUME NEW x \in Assets
      PROVE  c.pooled[x] - Held(c, x) = book.pooled[x] - Held(book, x)
  <2>1. /\ c.pooled[x] = book.pooled[x] + amount[x] /\ c.free[x] = book.free[x] + amount[x]
    BY <1>1, <1>2, BookFields, PlusIn
  <2>2. /\ book.pooled[x] \in Nat /\ book.free[x] \in Nat /\ amount[x] \in Nat
        /\ book.coin \in Nat /\ c.coin = book.coin
    BY <1>1, <1>2, BookFields DEF Quantities
  <2> HIDE DEF c
  <2>3. QED  BY <2>1, <2>2 DEF Held
<1> HIDE DEF c
<1>6. SamePool(book, c)  BY <1>2, <1>4, <1>5, MovedHere
<1>7. QED  BY <1>2, <1>6 DEF c

LEMMA InCoinKept ==
    ASSUME Sound(book), NEW amount \in Quantities
    PROVE  SamePool(book, InCoin(amount)) /\ InCoin(amount).pooled = Plus(book.pooled, amount)
<1> DEFINE c == InCoin(amount)
<1>1. book \in Books /\ "CORE" \in Assets /\ "BTC" \in Assets  BY DEF Sound, Assets
<1>2. /\ c.pooled = Plus(book.pooled, amount)
      /\ c.free = [book.free EXCEPT !["BTC"] = book.free.BTC + amount.BTC]
      /\ c.staked = book.staked /\ c.coin = book.coin + amount.CORE /\ c.at = book.at
  BY <1>1 DEF InCoin, Books
<1>3. /\ book.free.BTC + amount.BTC \in Nat /\ book.coin + amount.CORE \in Nat
  BY <1>1, BookFields DEF Quantities
<1>4. /\ c.pooled \in Quantities /\ c.free \in Quantities /\ c.staked \in Quantities
      /\ c.coin \in Nat /\ c.at \in [Pools -> Quantities]
  BY <1>1, <1>2, <1>3, BookFields, PlusIn, OneChanged
<1>5. c \in Books  BY <1>1, <1>4, Zenon DEF Books, InCoin
<1>6. ASSUME NEW x \in Assets
      PROVE  c.pooled[x] - Held(c, x) = book.pooled[x] - Held(book, x)
  <2>1. c.pooled[x] = book.pooled[x] + amount[x]
    BY <1>1, <1>2, BookFields, PlusIn
  <2>2. /\ book.pooled[x] \in Nat /\ book.free[x] \in Nat /\ amount[x] \in Nat
        /\ book.coin \in Nat /\ c.coin = book.coin + amount.CORE
    BY <1>1, <1>2, BookFields DEF Quantities
  <2>3. /\ x = "CORE" => c.free[x] = book.free[x]
        /\ x = "BTC"  => c.free[x] = book.free[x] + amount[x]
    BY <1>1, <1>2, BookFields DEF Quantities
  <2>4. x = "CORE" \/ x = "BTC"  BY DEF Assets
  <2> HIDE DEF c
  <2>5. QED  BY <2>1, <2>2, <2>3, <2>4 DEF Held
<1> HIDE DEF c
<1>7. SamePool(book, c)  BY <1>2, <1>5, <1>6, MovedHere
<1>8. QED  BY <1>2, <1>7 DEF c

-----------------------------------------------------------------------------
(* Trades take of the pool what they take of the tokens, and add likewise.  *)
LEMMA TradedKept ==
    ASSUME NEW b, Sound(b), NEW from \in Assets, NEW to \in Assets, from # to,
           NEW amount \in Nat, amount <= b.pooled[from], amount <= b.free[from], NEW got \in Nat
    PROVE  SamePool(b, Traded(b, from, to, amount, got))
<1> DEFINE c == Traded(b, from, to, amount, got)
           less(q) == [q EXCEPT ![from] = q[from] - amount]
           more(q) == [q EXCEPT ![to] = q[to] + got]
<1>1. b \in Books  BY DEF Sound
<1>2. ASSUME NEW q \in Quantities, amount <= q[from]
      PROVE  /\ more(less(q)) \in Quantities
             /\ \A x \in Assets : more(less(q))[x] = IF x = from THEN q[x] - amount ELSE q[x] + got
  <2>1. q[from] - amount \in Nat /\ q[to] + got \in Nat  BY <1>2 DEF Quantities
  <2>2. less(q) \in Quantities /\ less(q)[to] = q[to]  BY <2>1, OneChanged DEF Quantities
  <2>3. more(less(q)) \in Quantities  BY <2>1, <2>2, OneChanged
  <2>4. ASSUME NEW x \in Assets
        PROVE  more(less(q))[x] = IF x = from THEN q[x] - amount ELSE q[x] + got
    <3>1. x = from \/ x = to  BY DEF Assets
    <3>2. QED  BY <2>2, <3>1 DEF Quantities
  <2>5. QED  BY <2>3, <2>4
<1>3. /\ c.pooled = more(less(b.pooled)) /\ c.free = more(less(b.free))
      /\ c.staked = b.staked /\ c.coin = b.coin /\ c.at = b.at
  BY <1>1, BookFields DEF Books, Quantities, Traded
<1> HIDE DEF less, more
<1>4. /\ c.pooled \in Quantities /\ c.free \in Quantities /\ c.staked \in Quantities
      /\ c.coin \in Nat /\ c.at \in [Pools -> Quantities]
  BY <1>1, <1>2, <1>3, BookFields
<1>5. c \in Books  BY <1>1, <1>4, Zenon DEF Books, Traded
<1>6. ASSUME NEW x \in Assets
      PROVE  c.pooled[x] - Held(c, x) = b.pooled[x] - Held(b, x)
  <2>1. /\ c.pooled[x] = IF x = from THEN b.pooled[x] - amount ELSE b.pooled[x] + got
        /\ c.free[x] = IF x = from THEN b.free[x] - amount ELSE b.free[x] + got
    BY <1>1, <1>2, <1>3, BookFields
  <2>2. b.pooled[x] \in Nat /\ b.free[x] \in Nat /\ b.coin \in Nat /\ c.coin = b.coin
    BY <1>1, <1>3, BookFields DEF Quantities
  <2> HIDE DEF c
  <2>3. QED  BY <2>1, <2>2 DEF Held
<1> HIDE DEF c
<1>7. SamePool(b, c)  BY <1>3, <1>5, <1>6, MovedHere
<1>8. QED  BY <1>7 DEF c

LEMMA ReceivedNat ==
    ASSUME BasketTyped, HasPrice, NEW from \in Assets, NEW to \in Assets, NEW amount \in Nat
    PROVE  Expected(from, to, amount) \in Nat /\ Least(Expected(from, to, amount)) \in Nat
<1>1. price[from] \in Nat /\ price[to] \in Nat \ {0}
  BY PriceOfBoth DEF Assets, Quantities
<1>2. amount * price[from] \in Nat  BY <1>1, TimesNat
<1>3. Expected(from, to, amount) \in Nat  BY <1>1, <1>2, QuotientNat DEF Expected
<1>4. 10000 - setting.slippage \in Nat  BY SettingFields
<1>5. Expected(from, to, amount) * (10000 - setting.slippage) \in Nat  BY <1>3, <1>4, TimesNat
<1>6. QED  BY <1>3, <1>5, QuotientNat DEF Least

LEMMA SwapsKept ==
    ASSUME BasketTyped, NEW b, Sound(b), NEW from \in Assets, NEW to \in Assets, from # to,
           NEW amount \in Nat, NEW c \in Swaps(b, from, to, amount)
    PROVE  SamePool(b, c)
<1>1. PICK got \in {Expected(from, to, amount), Least(Expected(from, to, amount))} :
         CanSwap(b, from, amount) /\ c = Traded(b, from, to, amount, got)
  BY DEF Swaps
<1>2. HasPrice /\ amount <= b.pooled[from] /\ amount <= b.free[from]  BY <1>1 DEF CanSwap
<1>3. got \in Nat  BY <1>1, <1>2, ReceivedNat
<1>4. QED  BY <1>1, <1>2, <1>3, TradedKept

LEMMA SameBook == ASSUME NEW b, Sound(b) PROVE SamePool(b, b)
  BY DEF SamePool

LEMMA SoldKept ==
    ASSUME BasketTyped, NEW b, Sound(b), NEW from \in Assets, NEW to \in Assets, from # to,
           NEW amount \in Nat, NEW c \in Sold(b, from, to, amount)
    PROVE  SamePool(b, c)
  BY SwapsKept, SameBook DEF Sold

-----------------------------------------------------------------------------
(* What is sold or bought is a number of units.                             *)
LEMMA RequiredNat ==
    ASSUME NEW btc \in Nat, NEW ratio \in Nat PROVE RequiredCore(btc, ratio) \in Nat
<1>1. btc * ratio \in Nat  BY TimesNat
<1>2. QED  BY <1>1, QuotientNat, UnitsAssumption DEF RequiredCore

LEMMA TradesKept ==
    ASSUME BasketTyped, NEW b, Sound(b), NEW c \in Trades(b)
    PROVE  SamePool(b, c)
<1>1. /\ b.pooled.CORE \in Nat /\ b.pooled.BTC \in Nat /\ setting.ratio \in Nat
      /\ "CORE" \in Assets /\ "BTC" \in Assets
  BY BookFields, SettingFields DEF Sound, Quantities, Assets
<1>2. RequiredCore(b.pooled.BTC, setting.ratio) \in Nat  BY <1>1, RequiredNat
<1>3. CASE BuysCore(b.pooled)
  <2>1. HasPrice /\ c \in Sold(b, "BTC", "CORE", BtcToSwap(b.pooled))
    BY <1>3 DEF Trades
  <2>2. CoreNeeded(b.pooled) \in Nat  BY <1>1, <1>2 DEF CoreNeeded
  <2>3. price.CORE \in Nat /\ price.BTC \in Nat \ {0}  BY <2>1, PriceOfBoth
  <2>4. CoreNeeded(b.pooled) * price.CORE \in Nat  BY <2>2, <2>3, TimesNat
  <2>5. (CoreNeeded(b.pooled) * price.CORE) \div price.BTC \in Nat
    BY <2>3, <2>4, QuotientNat
  <2>6. BtcToSwap(b.pooled) \in Nat  BY <1>1, <2>5 DEF BtcToSwap
  <2>7. QED  BY <1>1, <2>1, <2>6, SoldKept
<1>4. CASE BuysBtc(b.pooled) /\ ~BuysCore(b.pooled)
  <2>1. c \in Swaps(b, "CORE", "BTC", CoreToSwap(b.pooled))  BY <1>4 DEF Trades
  <2>2. CoreToSwap(b.pooled) \in Nat
    BY <1>1, <1>2, <1>4 DEF BuysBtc, CoreToSwap
  <2>3. QED  BY <1>1, <2>1, <2>2, SwapsKept
<1>5. CASE ~BuysBtc(b.pooled) /\ ~BuysCore(b.pooled)
  <2>1. c = b  BY <1>5 DEF Trades
  <2>2. QED  BY <2>1, SameBook
<1>6. QED  BY <1>3, <1>4, <1>5

LEMMA RebalancingsKept ==
    ASSUME BasketTyped, NEW b, Sound(b), NEW c \in Rebalancings(b)
    PROVE  SamePool(b, c)
  BY TradesKept, SameBook DEF Rebalancings

LEMMA SatoshiTradesKept ==
    ASSUME BasketTyped, NEW b, Sound(b), NEW c \in SatoshiTrades(b)
    PROVE  SamePool(b, c)
<1> DEFINE required == SatoshiRequired(b.pooled)
           btc == SatoshiBtc(b.pooled)
<1>1. /\ b.pooled.CORE \in Nat /\ b.pooled.BTC \in Nat
      /\ "CORE" \in Assets /\ "BTC" \in Assets
  BY BookFields DEF Sound, Quantities, Assets
<1>2. required \in Nat  BY <1>1, RequiredNat, UnitsAssumption DEF SatoshiRequired
<1>3. c = b \/ (~(required < b.pooled.CORE) /\ HasPrice /\ c \in Sold(b, "BTC", "CORE", btc))
  BY DEF SatoshiTrades
<1>4. ASSUME ~(required < b.pooled.CORE), HasPrice PROVE btc \in Nat
  <2> DEFINE deficit == required - b.pooled.CORE
  <2>1. price.CORE \in Nat /\ price.BTC \in Nat \ {0}  BY <1>4, PriceOfBoth
  <2>2. deficit \in Nat  BY <1>1, <1>2, <1>4
  <2>3. btc = (deficit * price.CORE * 10050) \div (price.BTC * 10000)  BY DEF SatoshiBtc
  <2> HIDE DEF deficit
  <2>4. deficit * price.CORE \in Nat  BY <2>1, <2>2, TimesNat
  <2>5. deficit * price.CORE * 10050 \in Nat /\ price.BTC * 10000 \in Nat \ {0}
    BY <2>1, <2>4
  <2>6. QED  BY <2>3, <2>5, QuotientNat
<1> HIDE DEF btc, required
<1>5. QED  BY <1>1, <1>3, <1>4, SoldKept, SameBook

-----------------------------------------------------------------------------
(* Staking puts into one contract what it takes from here.                  *)
LEMMA OnlyIn ==
    ASSUME NEW amount \in Quantities, NEW some
    PROVE  /\ Only(some, amount) \in Quantities
           /\ \A x \in Assets : Only(some, amount)[x] <= amount[x]
           /\ \A x \in Assets : Only(some, amount)[x] = IF x \in some THEN amount[x] ELSE 0
  BY DEF Only, Quantities

LEMMA InRatioIn ==
    ASSUME BasketTyped, setting.ratio > 0, NEW amount \in Quantities
    PROVE  InRatio(amount) \in Quantities
<1>1. /\ amount.CORE \in Nat /\ amount.BTC \in Nat /\ setting.ratio \in Nat \ {0}
      /\ "CORE" \in Assets /\ "BTC" \in Assets
  BY SettingFields DEF Quantities, Assets
<1>2. RequiredCore(amount.BTC, setting.ratio) \in Nat  BY <1>1, RequiredNat
<1>3. amount.CORE * CORE_UNIT \in Nat  BY <1>1, TimesNat, UnitsAssumption
<1>4. (amount.CORE * CORE_UNIT) \div setting.ratio \in Nat  BY <1>1, <1>3, QuotientNat
<1> DEFINE q == (amount.CORE * CORE_UNIT) \div setting.ratio
           r == RequiredCore(amount.BTC, setting.ratio)
<1>5. InRatio(amount) = [amount EXCEPT !["CORE"] = r] \/ InRatio(amount) = [amount EXCEPT !["BTC"] = q]
  BY Zenon DEF InRatio
<1> HIDE DEF q, r
<1>6. QED  BY <1>1, <1>2, <1>4, <1>5, OneChanged DEF q, r

(* A book with something put in, or given back, at one contract.            *)
LEMMA PutKept ==
    ASSUME NEW b, Sound(b), NEW p \in Pools, NEW amount \in Quantities,
           setting.pool = p, amount.CORE <= b.coin, amount.BTC <= b.free.BTC, AtFirst
    PROVE  SamePool(b, Put(b, amount)) /\ Put(b, amount).pooled = b.pooled
<1> DEFINE c == Put(b, amount)
<1>1. b \in Books /\ "CORE" \in Assets /\ "BTC" \in Assets  BY DEF Sound, Assets
<1>2. /\ c.pooled = b.pooled /\ c.staked = Plus(b.staked, amount)
      /\ c.free = [b.free EXCEPT !["BTC"] = b.free.BTC - amount.BTC]
      /\ c.coin = b.coin - amount.CORE
      /\ c.at = [b.at EXCEPT ![p] = Plus(b.at[p], amount)]
  BY <1>1 DEF Put, Books
<1>3. b.free.BTC - amount.BTC \in Nat /\ b.coin - amount.CORE \in Nat
  BY <1>1, BookFields DEF Quantities
<1>4. Plus(b.at[p], amount) \in Quantities /\ b.at[p] \in Quantities
  BY <1>1, BookFields, PlusIn
<1>5. /\ c.pooled \in Quantities /\ c.free \in Quantities /\ c.staked \in Quantities
      /\ c.coin \in Nat /\ c.at \in [Pools -> Quantities]
  BY <1>1, <1>2, <1>3, <1>4, BookFields, PlusIn, OneChanged
<1>6. c \in Books  BY <1>1, <1>5, Zenon DEF Books, Put
<1> HIDE DEF c
<1>7. ASSUME NEW x \in Assets
      PROVE  /\ AtPools(b, x) \in Nat /\ AtPools(c, x) = AtPools(b, x) + amount[x]
             /\ c.staked[x] = b.staked[x] + amount[x]
             /\ p = FirstPool => c.at[FirstPool][x] = b.at[FirstPool][x] + amount[x]
             /\ Held(c, x) = Held(b, x) - amount[x]
             /\ amount[x] \in Nat /\ b.pooled[x] \in Nat /\ Held(b, x) \in Nat
             /\ b.staked[x] \in Nat /\ b.at[FirstPool][x] \in Nat
  <2>1. /\ AtPools(b, x) \in Nat
        /\ AtPools(c, x) = AtPools(b, x) + (Plus(b.at[p], amount)[x] - b.at[p][x])
    BY <1>1, <1>2, <1>4, <1>6, PoolsNat, PoolsChanged
  <2>2. Plus(b.at[p], amount)[x] = b.at[p][x] + amount[x]  BY <1>4, PlusIn
  <2>3. b.at[p][x] \in Nat /\ amount[x] \in Nat  BY <1>4 DEF Quantities
  <2>4. AtPools(c, x) = AtPools(b, x) + amount[x]  BY <2>1, <2>2, <2>3
  <2>5. c.staked[x] = b.staked[x] + amount[x]  BY <1>1, <1>2, BookFields, PlusIn
  <2>6. p = FirstPool => c.at[FirstPool][x] = b.at[FirstPool][x] + amount[x]
    BY <1>1, <1>2, <2>2, BookFields
  <2>7. /\ b.pooled[x] \in Nat /\ b.free[x] \in Nat /\ b.staked[x] \in Nat /\ b.coin \in Nat
        /\ b.at[FirstPool][x] \in Nat
    BY <1>1, BookFields, PoolsAssumption DEF Quantities
  <2>8. /\ x = "CORE" => c.free[x] = b.free[x]
        /\ x = "BTC"  => c.free[x] = b.free[x] - amount[x]
        /\ c.coin = b.coin - amount.CORE
    BY <1>1, <1>2, BookFields DEF Quantities
  <2>9. x = "CORE" \/ x = "BTC"  BY DEF Assets
  <2>10. Held(c, x) = Held(b, x) - amount[x] /\ Held(b, x) \in Nat
    BY <2>3, <2>7, <2>8, <2>9 DEF Held
  <2>11. QED  BY <2>1, <2>3, <2>4, <2>5, <2>6, <2>7, <2>10
<1>8. Sound(c)
  <2>1. \A x \in Assets : b.staked[x] <= AtPools(b, x)  BY DEF Sound
  <2>2. ASSUME ~outside.moved, NEW x \in Assets
        PROVE  b.staked[x] = AtPools(b, x) /\ b.at[FirstPool][x] = AtPools(b, x) /\ p = FirstPool
    BY <2>2 DEF Sound, AtFirst
  <2>3. \A x \in Assets : c.staked[x] <= AtPools(c, x)  BY <1>7, <2>1
  <2>4. ASSUME ~outside.moved, NEW x \in Assets
        PROVE  c.staked[x] = AtPools(c, x) /\ c.at[FirstPool][x] = AtPools(c, x)
    BY <1>7, <2>2, <2>4
  <2>5. QED  BY <1>6, <2>3, <2>4 DEF Sound
<1>9. ASSUME NEW x \in Assets PROVE Apart(c, x) = Apart(b, x)
  BY <1>2, <1>7 DEF Apart
<1>10. QED  BY <1>2, <1>8, <1>9 DEF SamePool, c

LEMMA OffersIn ==
    ASSUME BasketTyped, NEW available \in Quantities, NEW amount \in Offers(available)
    PROVE  amount \in Quantities
<1>1. CASE Both(available) /\ setting.ratio > 0
  BY <1>1, InRatioIn DEF Offers
<1>2. CASE ~(Both(available) /\ setting.ratio > 0)
  BY <1>2, OnlyIn DEF Offers
<1>3. QED  BY <1>1, <1>2

LEMMA StakingsKept ==
    ASSUME BasketTyped, AtFirst, NEW b, Sound(b), NEW c \in Stakings(b)
    PROVE  SamePool(b, c) /\ c.pooled = b.pooled
<1>1. b \in Books /\ setting.pool \in Pools  BY SettingFields DEF Sound
<1>2. /\ AtMost(b.staked, b.pooled)
      /\ \E amount \in Offers(Minus(b.pooled, b.staked)) \cup {Nothing} :
            amount.CORE <= b.coin /\ amount.BTC <= b.free.BTC /\ c = Put(b, amount)
  BY DEF Stakings
<1>3. PICK amount \in Offers(Minus(b.pooled, b.staked)) \cup {Nothing} :
         amount.CORE <= b.coin /\ amount.BTC <= b.free.BTC /\ c = Put(b, amount)
  BY <1>2
<1>4. Minus(b.pooled, b.staked) \in Quantities  BY <1>1, <1>2, BookFields, MinusIn
<1>5. amount \in Quantities  BY <1>3, <1>4, OffersIn, NothingIn
<1>6. QED  BY <1>1, <1>3, <1>5, PutKept

LEMMA PullKept ==
    ASSUME NEW b, Sound(b), AtFirst, NEW p \in Pools, setting.pool = p,
           NEW counted \in Quantities, NEW given \in Quantities,
           AtMost(counted, b.staked), AtMost(given, b.at[p]),
           \A x \in Assets : b.staked[x] - counted[x] <= AtPools(b, x) - given[x],
           ~outside.moved => \A x \in Assets : counted[x] = given[x]
    PROVE  SamePool(b, Pull(b, counted, given)) /\ Pull(b, counted, given).pooled = b.pooled
<1> DEFINE c == Pull(b, counted, given)
<1>1. b \in Books /\ "CORE" \in Assets /\ "BTC" \in Assets  BY DEF Sound, Assets
<1>2. /\ c.pooled = b.pooled /\ c.staked = Minus(b.staked, counted)
      /\ c.free = [b.free EXCEPT !["BTC"] = b.free.BTC + given.BTC]
      /\ c.coin = b.coin + given.CORE
      /\ c.at = [b.at EXCEPT ![p] = Minus(b.at[p], given)]
  BY <1>1 DEF Pull, Books
<1>3. b.free.BTC + given.BTC \in Nat /\ b.coin + given.CORE \in Nat
  BY <1>1, BookFields DEF Quantities
<1>4. Minus(b.at[p], given) \in Quantities /\ b.at[p] \in Quantities
  BY <1>1, BookFields, MinusIn
<1>5. /\ c.pooled \in Quantities /\ c.free \in Quantities /\ c.staked \in Quantities
      /\ c.coin \in Nat /\ c.at \in [Pools -> Quantities]
  BY <1>1, <1>2, <1>3, <1>4, BookFields, MinusIn, OneChanged
<1>6. c \in Books  BY <1>1, <1>5, Zenon DEF Books, Pull
<1> HIDE DEF c
<1>7. ASSUME NEW x \in Assets
      PROVE  /\ AtPools(b, x) \in Nat /\ AtPools(c, x) = AtPools(b, x) - given[x]
             /\ c.staked[x] = b.staked[x] - counted[x]
             /\ p = FirstPool => c.at[FirstPool][x] = b.at[FirstPool][x] - given[x]
             /\ Held(c, x) = Held(b, x) + given[x]
             /\ given[x] \in Nat /\ counted[x] \in Nat /\ b.pooled[x] \in Nat
             /\ Held(b, x) \in Nat /\ b.staked[x] \in Nat /\ b.at[FirstPool][x] \in Nat
  <2>1. /\ AtPools(b, x) \in Nat
        /\ AtPools(c, x) = AtPools(b, x) + (Minus(b.at[p], given)[x] - b.at[p][x])
    BY <1>1, <1>2, <1>4, <1>6, PoolsNat, PoolsChanged
  <2>2. Minus(b.at[p], given)[x] = b.at[p][x] - given[x]  BY <1>4, MinusIn
  <2>3. b.at[p][x] \in Nat /\ given[x] \in Nat /\ counted[x] \in Nat  BY <1>4 DEF Quantities
  <2>4. AtPools(c, x) = AtPools(b, x) - given[x]  BY <2>1, <2>2, <2>3
  <2>5. c.staked[x] = b.staked[x] - counted[x]  BY <1>1, <1>2, BookFields, MinusIn
  <2>6. p = FirstPool => c.at[FirstPool][x] = b.at[FirstPool][x] - given[x]
    BY <1>1, <1>2, <2>2, BookFields
  <2>7. /\ b.pooled[x] \in Nat /\ b.free[x] \in Nat /\ b.staked[x] \in Nat /\ b.coin \in Nat
        /\ b.at[FirstPool][x] \in Nat
    BY <1>1, BookFields, PoolsAssumption DEF Quantities
  <2>8. /\ x = "CORE" => c.free[x] = b.free[x]
        /\ x = "BTC"  => c.free[x] = b.free[x] + given[x]
        /\ c.coin = b.coin + given.CORE
    BY <1>1, <1>2, BookFields DEF Quantities
  <2>9. x = "CORE" \/ x = "BTC"  BY DEF Assets
  <2>10. Held(c, x) = Held(b, x) + given[x] /\ Held(b, x) \in Nat
    BY <2>3, <2>7, <2>8, <2>9 DEF Held
  <2>11. QED  BY <2>1, <2>3, <2>4, <2>5, <2>6, <2>7, <2>10
<1>8. Sound(c)
  <2>1. \A x \in Assets : c.staked[x] <= AtPools(c, x)  BY <1>7
  <2>2. ASSUME ~outside.moved, NEW x \in Assets
        PROVE  /\ b.staked[x] = AtPools(b, x) /\ b.at[FirstPool][x] = AtPools(b, x)
               /\ p = FirstPool /\ counted[x] = given[x]
    BY <2>2 DEF Sound, AtFirst
  <2>3. ASSUME ~outside.moved, NEW x \in Assets
        PROVE  c.staked[x] = AtPools(c, x) /\ c.at[FirstPool][x] = AtPools(c, x)
    BY <1>7, <2>2, <2>3
  <2>4. QED  BY <1>6, <2>1, <2>3 DEF Sound
<1>9. ASSUME NEW x \in Assets PROVE Apart(c, x) = Apart(b, x)
  BY <1>2, <1>7 DEF Apart
<1>10. QED  BY <1>2, <1>8, <1>9 DEF SamePool, c

(* Of the larger amount the same share is no less.                          *)
LEMMA PortionOrder ==
    ASSUME NEW n \in Nat, NEW m \in Nat, n <= m, NEW s \in Nat
    PROVE  (n * s) \div 10000 <= (m * s) \div 10000
<1> DEFINE ns == n * s
           ms == m * s
<1>1. ns \in Nat /\ ms \in Nat /\ ns <= ms  BY TimesNat, TimesOrder
<1> HIDE DEF ns, ms
<1>2. ns \div 10000 <= ms \div 10000  BY <1>1
<1>3. QED  BY <1>2 DEF ns, ms

(* The share asked for is not more than all of it.                          *)
LEMMA ShareOfStake ==
    ASSUME NEW a \in Nat, NEW n \in Nat \ {0}, a <= n
    PROVE  (a * 10000) \div n \in Nat /\ (a * 10000) \div n <= 10000
<1>1. a * 10000 \in Nat /\ a * 10000 <= n * 10000  OBVIOUS
<1> DEFINE q == (a * 10000) \div n
<1>2. q \in Nat /\ q * n <= a * 10000  BY <1>1, QuotientNat
<1> HIDE DEF q
<1>3. q <= 10000
  <2>1. SUFFICES ASSUME q >= 10001 PROVE FALSE  BY <1>2
  <2>2. 10001 * n <= q * n  BY <1>2, <2>1, TimesOrder
  <2>3. q * n \in Nat  BY <1>2, TimesNat
  <2>4. QED  BY <1>1, <1>2, <2>2, <2>3
<1>4. QED  BY <1>2, <1>3 DEF q

LEMMA UnstakedTogetherKept ==
    ASSUME BasketTyped, AtFirst, NEW b, Sound(b), NEW amount \in Quantities,
           NEW c \in UnstakedTogether(b, amount)
    PROVE  SamePool(b, c) /\ c.pooled = b.pooled
<1> DEFINE p == setting.pool
           share == Smaller((amount.CORE * 10000) \div b.staked.CORE,
                            (amount.BTC * 10000) \div b.staked.BTC)
           counted == Portion(b.staked, share)
           given == Portion(b.at[p], share)
<1>1. b \in Books /\ p \in Pools /\ "CORE" \in Assets /\ "BTC" \in Assets
  BY SettingFields DEF Sound, Assets
<1>2. /\ Both(amount) /\ AtMost(amount, b.staked)
      /\ c = Pull(b, counted, given)
  BY DEF UnstakedTogether
<1>3. \A x \in Assets : /\ amount[x] \in Nat /\ b.staked[x] \in Nat \ {0}
                        /\ amount[x] <= b.staked[x] /\ b.at[p][x] \in Nat
  BY <1>1, <1>2, BookFields DEF Quantities, Both, AtMost
<1>4. share \in Nat /\ share <= 10000
  <2>1. \A x \in Assets : /\ (amount[x] * 10000) \div b.staked[x] \in Nat
                          /\ (amount[x] * 10000) \div b.staked[x] <= 10000
    BY <1>3, ShareOfStake
  <2>2. QED  BY <1>1, <2>1 DEF Smaller
<1> HIDE DEF share
<1>5. \A x \in Assets : /\ counted[x] = (b.staked[x] * share) \div 10000
                        /\ given[x] = (b.at[p][x] * share) \div 10000
  BY DEF Portion
<1>6. ASSUME NEW x \in Assets
      PROVE  /\ counted[x] \in Nat /\ counted[x] <= b.staked[x]
             /\ given[x] \in Nat /\ given[x] <= b.at[p][x]
             /\ b.staked[x] - counted[x] <= AtPools(b, x) - given[x]
  <2> DEFINE all == AtPools(b, x)
             most == (all * share) \div 10000
  <2>1. /\ b.staked[x] \in Nat /\ b.at[p][x] \in Nat /\ all \in Nat
        /\ b.staked[x] <= all /\ b.at[p][x] <= all
    BY <1>1, <1>3, PoolsNat DEF Sound
  <2>2. /\ counted[x] \in Nat /\ counted[x] <= b.staked[x]
        /\ b.staked[x] - counted[x] <= all - most
    BY <1>4, <1>5, <2>1, PortionLeaves
  <2>3. given[x] \in Nat /\ given[x] <= b.at[p][x]  BY <1>4, <1>5, <2>1, PortionLeaves
  <2>4. given[x] <= most /\ most \in Nat  BY <1>4, <1>5, <2>1, PortionOrder, PortionLeaves
  <2> HIDE DEF most, all, counted, given
  <2>5. b.staked[x] - counted[x] <= all - given[x]  BY <2>1, <2>2, <2>3, <2>4
  <2>6. QED  BY <2>2, <2>3, <2>5 DEF all
<1>7. ASSUME ~outside.moved, NEW x \in Assets PROVE counted[x] = given[x]
  <2>1. b.staked[x] = b.at[p][x]  BY <1>7 DEF Sound, AtFirst
  <2>2. QED  BY <1>5, <2>1
<1>8. counted \in Quantities /\ given \in Quantities
  <2>1. counted = [x \in Assets |-> counted[x]] /\ given = [x \in Assets |-> given[x]]
    BY DEF Portion
  <2>2. QED  BY <1>6, <2>1 DEF Quantities
<1>9. AtMost(counted, b.staked) /\ AtMost(given, b.at[p])  BY <1>6 DEF AtMost
<1> HIDE DEF counted, given
<1>10. QED  BY <1>1, <1>2, <1>6, <1>7, <1>8, <1>9, PullKept

LEMMA UnstakedApartKept ==
    ASSUME BasketTyped, AtFirst, NEW b, Sound(b), NEW amount \in Quantities,
           NEW c \in UnstakedApart(b, amount)
    PROVE  SamePool(b, c) /\ c.pooled = b.pooled
<1> DEFINE p == setting.pool
           asked == {x \in Assets : /\ 0 < amount[x] /\ amount[x] <= b.staked[x]
                                    /\ amount[x] <= b.at[p][x]}
<1>1. b \in Books /\ p \in Pools  BY SettingFields DEF Sound
<1>2. PICK some \in SUBSET asked : c = Pull(b, Only(some, amount), Only(some, amount))
  BY DEF UnstakedApart
<1> DEFINE taken == Only(some, amount)
<1>3. taken \in Quantities  BY OnlyIn
<1>4. ASSUME NEW x \in Assets
      PROVE  /\ taken[x] <= b.staked[x] /\ taken[x] <= b.at[p][x]
             /\ b.staked[x] - taken[x] <= AtPools(b, x) - taken[x]
  <2>1. taken[x] = IF x \in some THEN amount[x] ELSE 0  BY OnlyIn
  <2>2. /\ b.staked[x] \in Nat /\ b.at[p][x] \in Nat /\ amount[x] \in Nat
        /\ AtPools(b, x) \in Nat /\ b.staked[x] <= AtPools(b, x)
    BY <1>1, BookFields, PoolsNat DEF Sound, Quantities
  <2>3. x \in some => amount[x] <= b.staked[x] /\ amount[x] <= b.at[p][x]  BY <1>2
  <2> HIDE DEF taken
  <2>4. QED  BY <2>1, <2>2, <2>3
<1>5. AtMost(taken, b.staked) /\ AtMost(taken, b.at[p])  BY <1>4 DEF AtMost
<1> HIDE DEF taken
<1>6. QED  BY <1>1, <1>2, <1>3, <1>4, <1>5, PullKept DEF taken

LEMMA UnstakingsKept ==
    ASSUME BasketTyped, AtFirst, NEW b, Sound(b), NEW amount \in Quantities,
           NEW c \in Unstakings(b, amount)
    PROVE  SamePool(b, c) /\ c.pooled = b.pooled
  BY UnstakedTogetherKept, UnstakedApartKept DEF Unstakings

-----------------------------------------------------------------------------
(* What is paid out leaves the pool and the tokens alike.                   *)
LEMMA PaidOutKept ==
    ASSUME NEW b, Sound(b), NEW amount \in Quantities,
           AtMost(amount, b.pooled), AtMost(amount, b.free)
    PROVE  SamePool(b, PaidOut(b, amount)) /\ PaidOut(b, amount).pooled = Minus(b.pooled, amount)
<1> DEFINE c == PaidOut(b, amount)
<1>1. b \in Books  BY DEF Sound
<1>2. /\ c.pooled = Minus(b.pooled, amount) /\ c.free = Minus(b.free, amount)
      /\ c.staked = b.staked /\ c.coin = b.coin /\ c.at = b.at
  BY <1>1 DEF PaidOut, Books
<1>3. /\ c.pooled \in Quantities /\ c.free \in Quantities /\ c.staked \in Quantities
      /\ c.coin \in Nat /\ c.at \in [Pools -> Quantities]
  BY <1>1, <1>2, BookFields, MinusIn
<1>4. c \in Books  BY <1>1, <1>3, Zenon DEF Books, PaidOut
<1>5. ASSUME NEW x \in Assets
      PROVE  c.pooled[x] - Held(c, x) = b.pooled[x] - Held(b, x)
  <2>1. c.pooled[x] = b.pooled[x] - amount[x] /\ c.free[x] = b.free[x] - amount[x]
    BY <1>1, <1>2, BookFields, MinusIn
  <2>2. /\ b.pooled[x] \in Nat /\ b.free[x] \in Nat /\ amount[x] \in Nat
        /\ b.coin \in Nat /\ c.coin = b.coin
    BY <1>1, <1>2, BookFields DEF Quantities
  <2> HIDE DEF c
  <2>3. QED  BY <2>1, <2>2 DEF Held
<1> HIDE DEF c
<1>6. SamePool(b, c)  BY <1>2, <1>4, <1>5, MovedHere
<1>7. QED  BY <1>2, <1>6 DEF c

-----------------------------------------------------------------------------
(* Values and shares.                                                       *)
LEMMA ValueNat ==
    ASSUME BasketTyped, NEW q \in Quantities PROVE Value(q) \in Nat
<1>1. /\ q.CORE \in Nat /\ q.BTC \in Nat /\ price.CORE \in Nat /\ price.BTC \in Nat
  BY PriceOfBoth DEF Quantities, Assets
<1>2. q.CORE * price.CORE \in Nat /\ q.BTC * price.BTC \in Nat  BY <1>1, TimesNat
<1>3. /\ (q.CORE * price.CORE) \div CORE_UNIT \in Nat
      /\ (q.BTC * price.BTC) \div BTC_UNIT \in Nat
  BY <1>2, QuotientNat, UnitsAssumption
<1>4. QED  BY <1>3 DEF Value

(* The quotient of a sum is no less than the sum of the quotients.          *)
LEMMA QuotientOfSum ==
    ASSUME NEW x \in Nat, NEW y \in Nat, NEW d \in Nat \ {0}
    PROVE  x \div d + y \div d <= (x + y) \div d
<1> DEFINE p == x \div d
           q == y \div d
           r == (x + y) \div d
<1>1. /\ p \in Nat /\ q \in Nat /\ r \in Nat
      /\ p * d <= x /\ q * d <= y /\ x + y < r * d + d
  BY QuotientNat
<1> HIDE DEF p, q, r
<1>2. SUFFICES ASSUME r + 1 <= p + q PROVE FALSE  BY <1>1 DEF p, q, r
<1>3. (r + 1) * d <= (p + q) * d  BY <1>1, <1>2, TimesOrder
<1>4. (r + 1) * d = r * d + d /\ (p + q) * d = p * d + q * d  BY <1>1
<1>5. p * d \in Nat /\ q * d \in Nat /\ r * d \in Nat  BY <1>1, TimesNat
<1>6. QED  BY <1>1, <1>3, <1>4, <1>5

LEMMA ValueOfSum ==
    ASSUME BasketTyped, NEW a \in Quantities, NEW b \in Quantities
    PROVE  Value(a) + Value(b) <= Value(Plus(a, b))
<1>1. /\ a.CORE \in Nat /\ a.BTC \in Nat /\ price.CORE \in Nat /\ price.BTC \in Nat
      /\ b.CORE \in Nat /\ b.BTC \in Nat
      /\ Plus(a, b).CORE = a.CORE + b.CORE /\ Plus(a, b).BTC = a.BTC + b.BTC
  BY PriceOfBoth, PlusIn DEF Quantities, Assets
<1>2. /\ a.CORE * price.CORE \in Nat /\ a.BTC * price.BTC \in Nat
      /\ b.CORE * price.CORE \in Nat /\ b.BTC * price.BTC \in Nat
  BY <1>1, TimesNat
<1>3. /\ (a.CORE + b.CORE) * price.CORE = a.CORE * price.CORE + b.CORE * price.CORE
      /\ (a.BTC + b.BTC) * price.BTC = a.BTC * price.BTC + b.BTC * price.BTC
  BY <1>1
<1> DEFINE ac == a.CORE * price.CORE
           ab == a.BTC * price.BTC
           bc == b.CORE * price.CORE
           bb == b.BTC * price.BTC
<1>4. /\ ac \div CORE_UNIT + bc \div CORE_UNIT <= (ac + bc) \div CORE_UNIT
      /\ ab \div BTC_UNIT + bb \div BTC_UNIT <= (ab + bb) \div BTC_UNIT
  BY <1>2, QuotientOfSum, UnitsAssumption
<1>5. /\ ac \div CORE_UNIT \in Nat /\ bc \div CORE_UNIT \in Nat
      /\ ab \div BTC_UNIT \in Nat /\ bb \div BTC_UNIT \in Nat
      /\ (ac + bc) \div CORE_UNIT \in Nat /\ (ab + bb) \div BTC_UNIT \in Nat
  BY <1>2, QuotientNat, UnitsAssumption
<1>6. /\ Value(a) = ac \div CORE_UNIT + ab \div BTC_UNIT
      /\ Value(b) = bc \div CORE_UNIT + bb \div BTC_UNIT
      /\ Value(Plus(a, b)) = (ac + bc) \div CORE_UNIT + (ab + bb) \div BTC_UNIT
  BY <1>1, <1>3 DEF Value
<1> HIDE DEF ac, ab, bc, bb
<1>7. QED  BY <1>4, <1>5, <1>6

LEMMA SharesForNat ==
    ASSUME BasketTyped, NEW amount \in Quantities, NEW pool \in Quantities, Mintable(pool)
    PROVE  SharesFor(amount, pool) \in Nat
<1>1. Value(amount) \in Nat /\ Value(pool) \in Nat /\ totalSupply \in Nat
  BY ValueNat DEF BasketTyped
<1>2. Value(amount) * totalSupply \in Nat  BY <1>1, TimesNat
<1>3. totalSupply # 0 => Value(pool) \in Nat \ {0}  BY <1>1 DEF Mintable
<1>4. totalSupply # 0 => (Value(amount) * totalSupply) \div Value(pool) \in Nat
  BY <1>2, <1>3, QuotientNat
<1>5. QED  BY <1>1, <1>4 DEF SharesFor

(* Shares for a deposit already in the pool leave a share's value no lower. *)
LEMMA NotDiluted ==
    ASSUME NEW v \in Nat, NEW d \in Nat, NEW w \in Nat \ {0}, v + d <= w, NEW t \in Nat
    PROVE  v * (t + (d * t) \div w) <= w * t
<1> DEFINE m == (d * t) \div w
<1>1. d * t \in Nat  BY TimesNat
<1>2. m \in Nat /\ m * w <= d * t  BY <1>1, QuotientNat
<1> HIDE DEF m
<1>3. v <= w  OBVIOUS
<1>4. v * m <= w * m  BY <1>2, <1>3, TimesOrder
<1>5. (v + d) * t <= w * t  BY TimesOrder
<1>6. (v + d) * t = v * t + d * t /\ v * (t + m) = v * t + v * m /\ w * m = m * w
  BY <1>2
<1>7. v * t \in Nat /\ v * m \in Nat /\ m * w \in Nat /\ w * t \in Nat  BY <1>2, TimesNat
<1>8. v * (t + m) <= w * t  BY <1>1, <1>2, <1>4, <1>5, <1>6, <1>7
<1>9. QED  BY <1>8 DEF m

(* A redemption takes at most its part of each asset.                       *)
LEMMA PartOfPool ==
    ASSUME NEW n \in Nat, NEW s \in Nat, NEW t \in Nat \ {0}, s <= t
    PROVE  /\ (n * s) \div t \in Nat /\ (n * s) \div t <= n
           /\ (n - (n * s) \div t) * t >= n * (t - s)
<1> DEFINE q == (n * s) \div t
<1>1. n * s \in Nat /\ n * t \in Nat  BY TimesNat
<1>2. q \in Nat /\ q * t <= n * s  BY <1>1, QuotientNat
<1> HIDE DEF q
<1>3. s * n <= t * n /\ n * s = s * n /\ n * t = t * n  BY TimesOrder
<1>4. q <= n
  <2>1. SUFFICES ASSUME n + 1 <= q PROVE FALSE  BY <1>2
  <2>2. (n + 1) * t <= q * t  BY <1>2, <2>1, TimesOrder
  <2>3. (n + 1) * t = n * t + t  OBVIOUS
  <2>4. q * t \in Nat  BY <1>2, TimesNat
  <2>5. QED  BY <1>1, <1>2, <1>3, <2>2, <2>3, <2>4
<1>5. (n - q) * t = n * t - q * t /\ n * (t - s) = n * t - n * s  BY <1>2
<1>6. q * t \in Nat  BY <1>2, TimesNat
<1>7. (n - q) * t >= n * (t - s)  BY <1>1, <1>2, <1>5, <1>6
<1>8. QED  BY <1>2, <1>4, <1>7 DEF q

LEMMA RedemptionIn ==
    ASSUME BasketTyped, NEW s \in Nat, 0 < s, s <= totalSupply
    PROVE  /\ Redemption(s) \in Quantities /\ AtMost(Redemption(s), book.pooled)
           /\ \A x \in Assets : (book.pooled[x] - Redemption(s)[x]) * totalSupply
                                   >= book.pooled[x] * (totalSupply - s)
<1>1. totalSupply \in Nat \ {0} /\ \A x \in Assets : book.pooled[x] \in Nat
  BY BookFields DEF BasketTyped, Quantities
<1>2. \A x \in Assets : Redemption(s)[x] = (book.pooled[x] * s) \div totalSupply
  BY DEF Redemption
<1>3. ASSUME NEW x \in Assets
      PROVE  /\ Redemption(s)[x] \in Nat /\ Redemption(s)[x] <= book.pooled[x]
             /\ (book.pooled[x] - Redemption(s)[x]) * totalSupply >= book.pooled[x] * (totalSupply - s)
  BY <1>1, <1>2, PartOfPool
<1>4. Redemption(s) = [x \in Assets |-> Redemption(s)[x]]  BY DEF Redemption
<1>5. QED  BY <1>3, <1>4 DEF Quantities, AtMost

-----------------------------------------------------------------------------
(* The inductive invariant: the types, the shares' sum, a sound book, the   *)
(* pool's count against the assets, and where things are while the owner    *)
(* has not changed the staking contract.                                    *)
BasketInv ==
    /\ BasketTyped
    /\ SharesAddUp
    /\ Sound(book)
    /\ PoolBacked
    /\ AtFirst
    /\ BreakerHolds

(* PoolBacked, as what the pool's count and the assets are apart.           *)
LEMMA BackedApart ==
    ASSUME NEW b \in Books, NEW x \in Assets, NEW g \in Nat, NEW t \in Nat
    PROVE  b.pooled[x] + g = Held(b, x) + AtPools(b, x) + t <=> Apart(b, x) = t - g
<1>1. b.pooled[x] \in Nat /\ Held(b, x) \in Nat /\ AtPools(b, x) \in Nat
  BY BookFields, HeldNat, PoolsNat DEF Quantities
<1>2. QED  BY <1>1 DEF Apart

LEMMA OutsideNat ==
    ASSUME BasketTyped
    PROVE  /\ outside.given \in Quantities /\ outside.taken \in Quantities
           /\ \A x \in Assets : outside.given[x] \in Nat /\ outside.taken[x] \in Nat
  BY DEF BasketTyped, Quantities

(* A call that leaves the pool and the assets as far apart as they were.    *)
LEMMA SamePoolStep ==
    ASSUME BasketTyped, Sound(book), PoolBacked, SamePool(book, book'), UNCHANGED outside
    PROVE  book' \in Books /\ Sound(book)' /\ PoolBacked'
<1>1. book' \in Books /\ book \in Books  BY DEF SamePool, Sound
<1>2. Sound(book)'  BY DEF SamePool, Sound
<1>3. ASSUME NEW x \in Assets
      PROVE  book'.pooled[x] + outside.given[x]
                = Held(book', x) + AtPools(book', x) + outside.taken[x]
  <2>1. outside.given[x] \in Nat /\ outside.taken[x] \in Nat  BY OutsideNat
  <2>2. Apart(book, x) = outside.taken[x] - outside.given[x]
    BY <1>1, <2>1, BackedApart DEF PoolBacked
  <2>3. Apart(book', x) = Apart(book, x)  BY DEF SamePool
  <2>4. QED  BY <1>1, <2>1, <2>2, <2>3, BackedApart
<1>4. PoolBacked'  BY <1>3 DEF PoolBacked, Held, AtPools
<1>5. QED  BY <1>1, <1>2, <1>4

LEMMA SameBookStep ==
    ASSUME BasketTyped, Sound(book), PoolBacked, UNCHANGED <<book, outside>>
    PROVE  book' \in Books /\ Sound(book)' /\ PoolBacked'
<1>1. SamePool(book, book')  BY SameBook DEF SamePool
<1>2. QED  BY <1>1, SamePoolStep

(* Shares given out or given back.                                          *)
LEMMA SharesChange ==
    ASSUME BasketTyped, SharesAddUp, NEW u \in Holders, NEW n \in Int,
           balanceOf[u] + n \in Nat, totalSupply + n \in Nat,
           balanceOf' = [balanceOf EXCEPT ![u] = balanceOf[u] + n], totalSupply' = totalSupply + n
    PROVE  balanceOf' \in [Holders -> Nat] /\ totalSupply' \in Nat /\ SharesAddUp'
<1>1. balanceOf \in [Holders -> Nat]  BY DEF BasketTyped
<1>2. /\ balanceOf' \in [Holders -> Nat] /\ balanceOf'[u] = balanceOf[u] + n
      /\ \A v \in Holders \ {u} : balanceOf'[v] = balanceOf[v]
  BY <1>1
<1>3. \A v \in Holders : balanceOf[v] \in Int /\ balanceOf'[v] \in Int  BY <1>1, <1>2
<1> DEFINE f == balanceOf
           g == balanceOf'
<1>4. SumFunctionOnSet(g, Holders) = SumFunctionOnSet(f, Holders) + (g[u] - f[u])
  <2> HIDE DEF f, g
  <2>1. \A v \in Holders : f[v] \in Int /\ g[v] \in Int  BY <1>3 DEF f, g
  <2>2. \A v \in Holders \ {u} : g[v] = f[v]  BY <1>2 DEF f, g
  <2>3. QED  BY <2>1, <2>2, HoldersAssumption, SumChange
<1>5. totalSupply' = SumFunctionOnSet(balanceOf', Holders)
  BY <1>1, <1>2, <1>4 DEF SharesAddUp, BasketTyped
<1>6. QED  BY <1>2, <1>5 DEF SharesAddUp

LEMMA SharesSame ==
    ASSUME BasketTyped, SharesAddUp, UNCHANGED shares
    PROVE  balanceOf' \in [Holders -> Nat] /\ totalSupply' \in Nat /\ SharesAddUp'
  BY DEF BasketTyped, SharesAddUp, shares

LEMMA HolderBelowSupply ==
    ASSUME BasketTyped, SharesAddUp, NEW u \in Holders PROVE balanceOf[u] <= totalSupply
<1>1. \A v \in Holders : balanceOf[v] \in Nat  BY DEF BasketTyped
<1>2. QED  BY <1>1, HoldersAssumption, SumMember DEF SharesAddUp

LEMMA CountedMoves ==
    ASSUME BasketTyped, Move \/ Change PROVE moves' \in Nat /\ changes' \in Nat
  BY DEF BasketTyped, Move, Change

LEMMA RebalancedAtKept ==
    ASSUME BasketTyped, BreakerHolds, NEW b, RebalancedAt(b)
    PROVE  /\ rebalancing' \in [paused : BOOLEAN, failureCount : Nat, lastFailure : Nat, last : Nat]
           /\ BreakerHolds'
           /\ rebalancing'.last = rebalancing.last => ~NeedsRebalancing(b.pooled)
<1>1. CASE NeedsRebalancing(b.pooled)
  <2>1. rebalancing' = [rebalancing EXCEPT !.last = now]  BY <1>1 DEF RebalancedAt
  <2>2. now >= rebalancing.last + setting.interval /\ now \in Nat /\ rebalancing.last \in Nat
    BY <1>1 DEF NeedsRebalancing, BasketTyped
  <2>3. rebalancing' \in [paused : BOOLEAN, failureCount : Nat, lastFailure : Nat, last : Nat]
    BY <2>1, <2>2 DEF BasketTyped
  <2>4. /\ rebalancing'.last = now /\ rebalancing'.paused = rebalancing.paused
        /\ rebalancing'.failureCount = rebalancing.failureCount
    BY <2>1 DEF BasketTyped
  <2>5. now > rebalancing.last  BY <2>2, SettingFields, UnitsAssumption
  <2>6. QED  BY <2>2, <2>3, <2>4, <2>5 DEF BreakerHolds
<1>2. CASE ~NeedsRebalancing(b.pooled)
  <2>1. rebalancing' = rebalancing  BY <1>2 DEF RebalancedAt
  <2>2. QED  BY <1>2, <2>1 DEF BreakerHolds, BasketTyped
<1>3. QED  BY <1>1, <1>2

-----------------------------------------------------------------------------
LEMMA SameShares == ASSUME BasketTyped, UNCHANGED shares PROVE PartKept
  BY DEF BasketTyped, PartKept, shares

(* The deposits: received, traded if due, staked as far as it goes.         *)
LEMMA TakeInKept ==
    ASSUME BasketInv, NEW u \in Holders, NEW amount \in Quantities, Move,
           NEW received \in {InTokens(amount), InCoin(amount)}, TakeIn(u, amount, received)
    PROVE  BasketInv' /\ PartKept
<1> DEFINE pool == received.pooled
           d == SharesFor(amount, pool)
<1>1. BasketTyped /\ SharesAddUp /\ Sound(book) /\ PoolBacked /\ AtFirst /\ BreakerHolds
  BY DEF BasketInv
<1>2. SamePool(book, received) /\ pool = Plus(book.pooled, amount)
  BY <1>1, InTokensKept, InCoinKept
<1>3. /\ Mintable(pool) /\ RebalancedAt(received)
      /\ balanceOf' = [balanceOf EXCEPT ![u] = balanceOf[u] + d] /\ totalSupply' = totalSupply + d
      /\ UNCHANGED <<setting, paused, satoshi, world, outside>>
  BY DEF TakeIn
<1>4. PICK traded \in Rebalancings(received) : book' \in Stakings(traded)
  BY DEF TakeIn
<1>5. SamePool(received, traded)  BY <1>1, <1>2, <1>4, RebalancingsKept DEF SamePool
<1>6. SamePool(traded, book') /\ book'.pooled = traded.pooled
  BY <1>1, <1>4, <1>5, StakingsKept DEF SamePool
<1>7. book' \in Books /\ Sound(book)' /\ PoolBacked'
  BY <1>1, <1>2, <1>3, <1>5, <1>6, SamePoolTwice, SamePoolStep
<1>8. /\ book.pooled \in Quantities /\ pool \in Quantities
      /\ totalSupply \in Nat /\ balanceOf[u] \in Nat
  BY <1>1, <1>2, BookFields, PlusIn DEF BasketTyped
<1>9. d \in Nat  BY <1>1, <1>3, <1>8, SharesForNat
<1>10. balanceOf' \in [Holders -> Nat] /\ totalSupply' \in Nat /\ SharesAddUp'
  <2> HIDE DEF d
  <2>1. balanceOf[u] + d \in Nat /\ totalSupply + d \in Nat /\ d \in Int  BY <1>8, <1>9
  <2>2. QED  BY <1>1, <1>3, <2>1, SharesChange
<1>11. /\ rebalancing' \in [paused : BOOLEAN, failureCount : Nat, lastFailure : Nat, last : Nat]
       /\ BreakerHolds'
       /\ rebalancing'.last = rebalancing.last => ~NeedsRebalancing(pool)
  BY <1>1, <1>3, RebalancedAtKept
<1>12. BasketTyped'
  BY <1>1, <1>3, <1>7, <1>10, <1>11, CountedMoves DEF BasketTyped, world
<1>13. AtFirst'  BY <1>1, <1>3 DEF AtFirst
<1>14. PartKept
  <2>1. ~(totalSupply' < totalSupply)
    <3> HIDE DEF d
    <3>1. QED  BY <1>3, <1>8, <1>9
  <2>2. ASSUME 0 < totalSupply, rebalancing'.last = rebalancing.last
        PROVE  Value(book'.pooled) * totalSupply >= Value(book.pooled) * totalSupply'
    <3>1. traded = received  BY <1>4, <1>11, <2>2 DEF Rebalancings
    <3>2. book'.pooled = pool  BY <1>6, <3>1
    <3> DEFINE v == Value(book.pooled)
               a == Value(amount)
               w == Value(pool)
    <3>3. /\ v \in Nat /\ a \in Nat /\ w \in Nat /\ v + a <= w
      BY <1>1, <1>2, <1>8, ValueNat, ValueOfSum
    <3>4. w # 0  BY <1>3, <2>2, <3>3 DEF Mintable
    <3>5. d = (a * totalSupply) \div w  BY <2>2 DEF SharesFor
    <3> HIDE DEF v, a, w, d
    <3>6. v * (totalSupply + (a * totalSupply) \div w) <= w * totalSupply
      BY <1>8, <3>3, <3>4, NotDiluted
    <3>7. v * totalSupply' <= w * totalSupply  BY <1>3, <3>5, <3>6
    <3>8. v * totalSupply' \in Int /\ w * totalSupply \in Int
      BY <1>8, <1>10, <3>3, TimesNat
    <3>9. w * totalSupply >= v * totalSupply'  BY <3>7, <3>8
    <3>10. QED  BY <3>2, <3>9 DEF v, w
  <2> HIDE DEF d, pool
  <2>3. QED  BY <2>1, <2>2 DEF PartKept
<1>15. QED  BY <1>7, <1>10, <1>11, <1>12, <1>13, <1>14 DEF BasketInv

LEMMA depositKept ==
    ASSUME BasketInv, NEW u \in Holders, NEW amount \in Deposits,
           deposit(u, amount) \/ depositNativeCORE(u, amount)
    PROVE  BasketInv' /\ PartKept
<1>1. amount \in Quantities  BY BroughtAssumption
<1>2. QED  BY <1>1, TakeInKept DEF deposit, depositNativeCORE

LEMMA depositForSatoshiTierKept ==
    ASSUME BasketInv, NEW u \in Holders, NEW amount \in Deposits, NEW core \in {0, amount.CORE},
           depositForSatoshiTier(u, core, amount.BTC)
    PROVE  BasketInv' /\ PartKept
<1> DEFINE optimal == RequiredCore(amount.BTC, SATOSHI_RATIO)
           brought == [CORE |-> IF core = 0 THEN optimal ELSE core, BTC |-> amount.BTC]
<1>1. amount.CORE \in Nat /\ amount.BTC \in Nat
  BY BroughtAssumption DEF Quantities, Assets
<1>2. optimal \in Nat  BY <1>1, RequiredNat, UnitsAssumption
<1>3. brought \in Quantities
  <2> HIDE DEF optimal
  <2>1. QED  BY <1>1, <1>2 DEF Quantities, Assets
<1>4. Move /\ TakeIn(u, brought, InTokens(brought))  BY DEF depositForSatoshiTier
<1> HIDE DEF brought
<1>5. QED  BY <1>3, <1>4, TakeInKept

LEMMA redeemKept ==
    ASSUME BasketInv, NEW u \in Holders, NEW s \in Parts, redeem(u, s)
    PROVE  BasketInv' /\ PartKept
<1> DEFINE amount == Redemption(s)
<1>1. BasketTyped /\ SharesAddUp /\ Sound(book) /\ PoolBacked /\ AtFirst /\ BreakerHolds
  BY DEF BasketInv
<1>2. /\ Move /\ 0 < s /\ s <= balanceOf[u]
      /\ balanceOf' = [balanceOf EXCEPT ![u] = balanceOf[u] - s] /\ totalSupply' = totalSupply - s
      /\ UNCHANGED <<setting, rebalancing, paused, satoshi, world, outside>>
  BY DEF redeem
<1>3. PICK b \in Unstakings(book, amount) : AtMost(amount, b.free) /\ book' = PaidOut(b, amount)
  BY DEF redeem
<1>4. s \in Nat /\ totalSupply \in Nat /\ balanceOf[u] \in Nat /\ balanceOf[u] <= totalSupply
  BY <1>1, BroughtAssumption, HolderBelowSupply DEF BasketTyped
<1>5. s <= totalSupply  BY <1>2, <1>4
<1>6. /\ amount \in Quantities /\ AtMost(amount, book.pooled)
      /\ \A x \in Assets : (book.pooled[x] - amount[x]) * totalSupply
                              >= book.pooled[x] * (totalSupply - s)
  BY <1>1, <1>2, <1>4, <1>5, RedemptionIn
<1> HIDE DEF amount
<1>7. SamePool(book, b) /\ b.pooled = book.pooled  BY <1>1, <1>3, <1>6, UnstakingsKept
<1>8. SamePool(b, book') /\ book'.pooled = Minus(book.pooled, amount)
  BY <1>3, <1>6, <1>7, PaidOutKept DEF SamePool
<1>9. book' \in Books /\ Sound(book)' /\ PoolBacked'
  BY <1>1, <1>2, <1>7, <1>8, SamePoolTwice, SamePoolStep
<1>10. balanceOf' \in [Holders -> Nat] /\ totalSupply' \in Nat /\ SharesAddUp'
  <2>1. balanceOf[u] + (-s) \in Nat /\ totalSupply + (-s) \in Nat /\ -s \in Int
    BY <1>2, <1>4, <1>5
  <2>2. balanceOf[u] - s = balanceOf[u] + (-s) /\ totalSupply - s = totalSupply + (-s)
    BY <1>4
  <2>3. QED  BY <1>1, <1>2, <2>1, <2>2, SharesChange
<1>11. BasketTyped'
  BY <1>1, <1>2, <1>9, <1>10, CountedMoves DEF BasketTyped, world
<1>12. AtFirst' /\ BreakerHolds'  BY <1>1, <1>2 DEF AtFirst, BreakerHolds
<1>13. PartKept
  <2>1. totalSupply' < totalSupply  BY <1>2, <1>4
  <2>2. book.pooled \in Quantities  BY <1>1, BookFields DEF Sound
  <2>3. \A x \in Assets : book'.pooled[x] = book.pooled[x] - amount[x]
    BY <1>6, <1>8, <2>2, MinusIn
  <2>4. \A x \in Assets : book'.pooled[x] * totalSupply >= book.pooled[x] * totalSupply'
    BY <1>2, <1>6, <2>3
  <2>5. ~(totalSupply < totalSupply')  BY <1>2, <1>4
  <2>6. QED  BY <2>4, <2>5 DEF PartKept
<1>14. QED  BY <1>9, <1>10, <1>11, <1>12, <1>13 DEF BasketInv

-----------------------------------------------------------------------------
(* Calls that move the book and leave the shares.                           *)
RebalancingRecords == [paused : BOOLEAN, failureCount : Nat, lastFailure : Nat, last : Nat]

LEMMA BookMoves ==
    ASSUME BasketInv, Move \/ Change, SamePool(book, book'),
           rebalancing' \in RebalancingRecords, BreakerHolds',
           satoshi' \in [emergencyMode : BOOLEAN, maxSingleDeposit : Nat, lastRewardClaim : Nat],
           UNCHANGED <<shares, setting, paused, world, outside>>
    PROVE  BasketInv' /\ PartKept
<1>1. BasketTyped /\ SharesAddUp /\ Sound(book) /\ PoolBacked /\ AtFirst  BY DEF BasketInv
<1>2. book' \in Books /\ Sound(book)' /\ PoolBacked'  BY <1>1, SamePoolStep
<1>3. balanceOf' \in [Holders -> Nat] /\ totalSupply' \in Nat /\ SharesAddUp'
  BY <1>1, SharesSame
<1>4. BasketTyped'
  BY <1>1, <1>2, <1>3, CountedMoves DEF BasketTyped, world, RebalancingRecords
<1>5. AtFirst'  BY <1>1 DEF AtFirst
<1>6. QED  BY <1>1, <1>2, <1>3, <1>4, <1>5, SameShares DEF BasketInv

LEMMA RebalancingSame ==
    ASSUME BasketInv, UNCHANGED rebalancing
    PROVE  rebalancing' \in RebalancingRecords /\ BreakerHolds'
  BY DEF BasketInv, BasketTyped, BreakerHolds, RebalancingRecords

LEMMA KeeperPaidKept ==
    ASSUME BasketTyped, NEW b, Sound(b), KeeperPaid(b)
    PROVE  SamePool(b, book')
<1> DEFINE reward == (Value(b.pooled) * setting.keeper) \div 10000
           paid == [CORE |-> reward, BTC |-> 0]
<1>1. b.pooled \in Quantities /\ b.free \in Quantities  BY BookFields DEF Sound
<1>2. reward \in Nat
  <2>1. Value(b.pooled) * setting.keeper \in Nat  BY <1>1, ValueNat, SettingFields, TimesNat
  <2>2. QED  BY <2>1, QuotientNat
<1>3. book' = b \/ (b.pooled.CORE >= reward /\ b.free.CORE >= reward /\ book' = PaidOut(b, paid))
  BY DEF KeeperPaid
<1> HIDE DEF reward
<1>4. paid \in Quantities  BY <1>2 DEF Quantities, Assets
<1>5. b.pooled.CORE >= reward /\ b.free.CORE >= reward =>
         AtMost(paid, b.pooled) /\ AtMost(paid, b.free)
  BY <1>1, <1>2 DEF AtMost, Quantities, Assets
<1> HIDE DEF paid
<1>6. QED  BY <1>3, <1>4, <1>5, PaidOutKept, SameBook

LEMMA rebalanceKept ==
    ASSUME BasketInv, NEW k \in Holders, rebalance(k)
    PROVE  BasketInv' /\ PartKept
<1>1. BasketTyped /\ Sound(book) /\ BreakerHolds  BY DEF BasketInv
<1>2. /\ Move /\ UNCHANGED <<shares, setting, paused, satoshi, world, outside>>
      /\ \/ rebalancing' = [rebalancing EXCEPT !.paused = TRUE] /\ UNCHANGED book
         \/ RebalanceSucceeds(k) \/ RebalanceFails
  BY DEF rebalance
<1>3. satoshi' \in [emergencyMode : BOOLEAN, maxSingleDeposit : Nat, lastRewardClaim : Nat]
  BY <1>1, <1>2 DEF BasketTyped
<1>4. CASE rebalancing' = [rebalancing EXCEPT !.paused = TRUE] /\ UNCHANGED book
  <2>1. rebalancing' \in RebalancingRecords /\ rebalancing'.paused
    BY <1>1, <1>4 DEF BasketTyped, RebalancingRecords
  <2>2. SamePool(book, book')  BY <1>1, <1>4, SameBook
  <2>3. QED  BY <1>2, <1>3, <2>1, <2>2, BookMoves DEF BreakerHolds
<1>5. CASE RebalanceSucceeds(k)
  <2>1. PICK b \in Trades(book) : book' = b \/ KeeperPaid(b)
    BY <1>5 DEF RebalanceSucceeds
  <2>2. SamePool(book, b)  BY <1>1, <2>1, TradesKept
  <2>3. SamePool(b, book')  BY <1>1, <2>1, <2>2, KeeperPaidKept, SameBook DEF SamePool
  <2>4. SamePool(book, book')  BY <2>2, <2>3, SamePoolTwice
  <2>5. rebalancing' = [rebalancing EXCEPT !.failureCount = 0, !.last = now]
    BY <1>5 DEF RebalanceSucceeds
  <2>6. /\ rebalancing'.paused \in BOOLEAN /\ rebalancing'.failureCount = 0
        /\ rebalancing'.lastFailure \in Nat /\ rebalancing'.last \in Nat
    BY <1>1, <2>5 DEF BasketTyped
  <2>7. rebalancing' \in RebalancingRecords
    BY <1>1, <2>5, <2>6, Zenon DEF BasketTyped, RebalancingRecords
  <2>8. BreakerHolds'  BY <2>6 DEF BreakerHolds
  <2>9. QED  BY <1>2, <1>3, <2>4, <2>7, <2>8, BookMoves
<1>6. CASE RebalanceFails
  <2>1. /\ rebalancing' = [rebalancing EXCEPT !.failureCount = @ + 1, !.lastFailure = now,
                                              !.paused = rebalancing.failureCount + 1 >= 3]
        /\ UNCHANGED book
    BY <1>6 DEF RebalanceFails
  <2>2. /\ rebalancing'.paused = (rebalancing.failureCount + 1 >= 3)
        /\ rebalancing'.failureCount = rebalancing.failureCount + 1
        /\ rebalancing'.lastFailure = now /\ rebalancing'.last = rebalancing.last
    BY <1>1, <2>1 DEF BasketTyped
  <2>3. /\ rebalancing'.failureCount \in Nat /\ rebalancing'.lastFailure \in Nat
        /\ rebalancing'.last \in Nat /\ rebalancing'.paused \in BOOLEAN
    BY <1>1, <2>2 DEF BasketTyped
  <2>4. rebalancing' \in RebalancingRecords
    BY <1>1, <2>1, <2>3, Zenon DEF BasketTyped, RebalancingRecords
  <2>5. BreakerHolds'  BY <2>2 DEF BreakerHolds
  <2>6. SamePool(book, book')  BY <1>1, <2>1, SameBook
  <2>7. QED  BY <1>2, <1>3, <2>4, <2>5, <2>6, BookMoves
<1>7. QED  BY <1>2, <1>4, <1>5, <1>6

LEMMA compoundRewardsKept ==
    ASSUME BasketInv, NEW reward \in Rewards, compoundRewards(reward)
    PROVE  BasketInv' /\ PartKept
<1> DEFINE received == InCoin(reward)
<1>1. BasketTyped /\ Sound(book) /\ AtFirst /\ BreakerHolds  BY DEF BasketInv
<1>2. /\ Move /\ UNCHANGED <<shares, setting, paused, satoshi, world, outside>>
      /\ \/ /\ \E traded \in Rebalancings(received) : book' \in Stakings(traded)
            /\ RebalancedAt(received)
         \/ book' = received /\ UNCHANGED rebalancing
  BY DEF compoundRewards
<1>3. satoshi' \in [emergencyMode : BOOLEAN, maxSingleDeposit : Nat, lastRewardClaim : Nat]
  BY <1>1, <1>2 DEF BasketTyped
<1>4. SamePool(book, received)  BY <1>1, InCoinKept, BroughtAssumption
<1> HIDE DEF received
<1>5. CASE book' = received /\ UNCHANGED rebalancing
  BY <1>2, <1>3, <1>4, <1>5, RebalancingSame, BookMoves
<1>6. CASE /\ \E traded \in Rebalancings(received) : book' \in Stakings(traded)
           /\ RebalancedAt(received)
  <2>1. PICK traded \in Rebalancings(received) : book' \in Stakings(traded)  BY <1>6
  <2>2. SamePool(received, traded)  BY <1>1, <1>4, <2>1, RebalancingsKept DEF SamePool
  <2>3. SamePool(traded, book')  BY <1>1, <2>1, <2>2, StakingsKept DEF SamePool
  <2>4. SamePool(book, book')  BY <1>4, <2>2, <2>3, SamePoolTwice
  <2>5. rebalancing' \in RebalancingRecords /\ BreakerHolds'
    BY <1>1, <1>6, RebalancedAtKept DEF RebalancingRecords
  <2>6. QED  BY <1>2, <1>3, <2>4, <2>5, BookMoves
<1>7. QED  BY <1>2, <1>5, <1>6

LEMMA maintainSatoshiRatioKept ==
    ASSUME BasketInv, maintainSatoshiRatio
    PROVE  BasketInv' /\ PartKept
<1>1. BasketTyped /\ Sound(book)  BY DEF BasketInv
<1>2. /\ Change /\ UNCHANGED <<shares, setting, rebalancing, paused, satoshi, world, outside>>
      /\ book' \in SatoshiTrades(book) \/ UNCHANGED book
  BY DEF maintainSatoshiRatio
<1>3. SamePool(book, book')  BY <1>1, <1>2, SatoshiTradesKept, SameBook
<1>4. satoshi' \in [emergencyMode : BOOLEAN, maxSingleDeposit : Nat, lastRewardClaim : Nat]
  BY <1>1, <1>2 DEF BasketTyped
<1>5. QED  BY <1>2, <1>3, <1>4, RebalancingSame, BookMoves

LEMMA compoundSatoshiRewardsKept ==
    ASSUME BasketInv, NEW core \in Nat, compoundSatoshiRewards(core)
    PROVE  BasketInv' /\ PartKept
<1> DEFINE claimed == [CORE |-> core, BTC |-> 0]
           received == InCoin(claimed)
<1>1. BasketTyped /\ Sound(book) /\ AtFirst  BY DEF BasketInv
<1>2. /\ Change /\ UNCHANGED <<shares, setting, rebalancing, paused, world, outside>>
      /\ satoshi' = [satoshi EXCEPT !.lastRewardClaim = now]
      /\ \/ \E traded \in SatoshiTrades(received) : book' \in Stakings(traded)
         \/ UNCHANGED book
  BY DEF compoundSatoshiRewards
<1>3. satoshi' \in [emergencyMode : BOOLEAN, maxSingleDeposit : Nat, lastRewardClaim : Nat]
  BY <1>1, <1>2 DEF BasketTyped
<1>4. claimed \in Quantities  BY DEF Quantities, Assets
<1> HIDE DEF claimed
<1>5. SamePool(book, received)  BY <1>1, <1>4, InCoinKept
<1> HIDE DEF received
<1>6. SamePool(book, book')
  <2>1. CASE UNCHANGED book  BY <1>1, <2>1, SameBook
  <2>2. CASE \E traded \in SatoshiTrades(received) : book' \in Stakings(traded)
    <3>1. PICK traded \in SatoshiTrades(received) : book' \in Stakings(traded)  BY <2>2
    <3>2. SamePool(received, traded)  BY <1>1, <1>5, <3>1, SatoshiTradesKept DEF SamePool
    <3>3. SamePool(traded, book')  BY <1>1, <3>1, <3>2, StakingsKept DEF SamePool
    <3>4. QED  BY <1>5, <3>2, <3>3, SamePoolTwice
  <2>3. QED  BY <1>2, <2>1, <2>2
<1>7. QED  BY <1>2, <1>3, <1>6, RebalancingSame, BookMoves

LEMMA emergencyExitKept ==
    ASSUME BasketInv, emergencyExit
    PROVE  BasketInv' /\ PartKept
<1>1. BasketTyped /\ Sound(book) /\ AtFirst  BY DEF BasketInv
<1>2. /\ Change /\ UNCHANGED <<shares, setting, rebalancing, paused, satoshi, world, outside>>
      /\ AtMost(book.staked, book.at[setting.pool])
      /\ book' = Pull(book, book.staked, book.staked)
  BY DEF emergencyExit
<1>3. satoshi' \in [emergencyMode : BOOLEAN, maxSingleDeposit : Nat, lastRewardClaim : Nat]
  BY <1>1, <1>2 DEF BasketTyped
<1>4. book \in Books /\ setting.pool \in Pools /\ book.staked \in Quantities
  BY <1>1, SettingFields, BookFields DEF Sound
<1>5. \A x \in Assets : /\ book.staked[x] \in Nat
                        /\ AtPools(book, x) \in Nat /\ book.staked[x] <= AtPools(book, x)
  BY <1>1, <1>4, PoolsNat DEF Sound, Quantities
<1>6. /\ AtMost(book.staked, book.staked)
      /\ \A x \in Assets : book.staked[x] - book.staked[x] <= AtPools(book, x) - book.staked[x]
  BY <1>5 DEF AtMost
<1>7. SamePool(book, book')  BY <1>1, <1>2, <1>4, <1>6, PullKept
<1>8. QED  BY <1>2, <1>3, <1>7, RebalancingSame, BookMoves

-----------------------------------------------------------------------------
(* Calls and changes that leave the book.                                   *)
SatoshiRecords == [emergencyMode : BOOLEAN, maxSingleDeposit : Nat, lastRewardClaim : Nat]

LEMMA BookStays ==
    ASSUME BasketInv, UNCHANGED <<book, shares, outside>>,
           setting' \in Settings, setting'.pool = setting.pool,
           rebalancing' \in RebalancingRecords, BreakerHolds', paused' \in BOOLEAN,
           satoshi' \in SatoshiRecords, price' \in Prices \cup {NoPrice},
           now' \in Nat, moves' \in Nat, changes' \in Nat
    PROVE  BasketInv' /\ PartKept
<1>1. BasketTyped /\ SharesAddUp /\ Sound(book) /\ PoolBacked /\ AtFirst  BY DEF BasketInv
<1>2. book' \in Books /\ Sound(book)' /\ PoolBacked'  BY <1>1, SameBookStep
<1>3. balanceOf' \in [Holders -> Nat] /\ totalSupply' \in Nat /\ SharesAddUp'
  BY <1>1, SharesSame
<1>4. BasketTyped'
  BY <1>1, <1>2, <1>3 DEF BasketTyped, RebalancingRecords, SatoshiRecords
<1>5. AtFirst'  BY <1>1 DEF AtFirst
<1>6. QED  BY <1>1, <1>2, <1>3, <1>4, <1>5, SameShares DEF BasketInv

LEMMA TypedParts ==
    ASSUME BasketInv
    PROVE  /\ setting \in Settings /\ rebalancing \in RebalancingRecords /\ BreakerHolds
           /\ paused \in BOOLEAN /\ satoshi \in SatoshiRecords
           /\ price \in Prices \cup {NoPrice} /\ now \in Nat
           /\ moves \in Nat /\ changes \in Nat
  BY DEF BasketInv, BasketTyped, RebalancingRecords, SatoshiRecords

LEMMA CountedChange ==
    ASSUME BasketInv, Change PROVE moves' \in Nat /\ changes' \in Nat
  BY CountedMoves DEF BasketInv

(* One field is set to what is permitted.                                   *)
LEMMA SetKept ==
    ASSUME BasketInv, NEW field \in {"ratio"} \cup DOMAIN Values,
           NEW x, field = "ratio" => x \in Nat, field # "ratio" => x \in Values[field],
           Set(field, x)
    PROVE  BasketInv' /\ PartKept
<1>1. /\ Change /\ Permitted(field, x) /\ setting' = [setting EXCEPT ![field] = x]
      /\ UNCHANGED <<book, shares, rebalancing, paused, satoshi, world, outside>>
  BY DEF Set
<1>2. setting \in Settings  BY TypedParts
<1>3. field \in {"ratio", "threshold", "slippage", "keeper", "interval", "router", "minimum"}
  BY DEF Values
<1>4. setting' \in Settings /\ setting'.pool = setting.pool
  <2>1. CASE field = "ratio"     BY <1>1, <1>2, <2>1 DEF Settings
  <2>2. CASE field = "threshold"
    <3>1. x \in Nat  BY <2>2 DEF Values
    <3>2. QED  BY <1>1, <1>2, <2>2, <3>1 DEF Settings
  <2>3. CASE field = "slippage"
    <3>1. x \in {n \in Nat : n <= 1000}  BY <1>1, <2>3 DEF Values, Permitted
    <3>2. QED  BY <1>1, <1>2, <2>3, <3>1 DEF Settings
  <2>4. CASE field = "keeper"
    <3>1. x \in Nat  BY <2>4 DEF Values
    <3>2. QED  BY <1>1, <1>2, <2>4, <3>1 DEF Settings
  <2>5. CASE field = "interval"
    <3>1. x \in {n \in Nat : n >= HalfHour}  BY <1>1, <2>5 DEF Values, Permitted
    <3>2. QED  BY <1>1, <1>2, <2>5, <3>1 DEF Settings
  <2>6. CASE field = "router"
    <3>1. x \in Values.router  BY <2>6
    <3>2. QED  BY <1>1, <1>2, <2>6, <3>1 DEF Settings
  <2>7. CASE field = "minimum"
    <3>1. x \in Values.minimum  BY <2>7
    <3>2. QED  BY <1>1, <1>2, <2>7, <3>1 DEF Settings
  <2>8. QED  BY <1>3, <2>1, <2>2, <2>3, <2>4, <2>5, <2>6, <2>7
<1>5. QED  BY <1>1, <1>4, TypedParts, CountedChange, RebalancingSame, BookStays DEF world

LEMMA OwnerKept ==
    ASSUME BasketInv,
           \/ \E field \in DOMAIN Options : \E x \in Options[field] : Set(field, x)
           \/ \E ratio \in Ratios : setTargetTier(ratio)
    PROVE  BasketInv' /\ PartKept
<1>1. CASE \E field \in DOMAIN Options : \E x \in Options[field] : Set(field, x)
  <2>1. PICK field \in DOMAIN Options : \E x \in Options[field] : Set(field, x)  BY <1>1
  <2>2. PICK x \in Options[field] : Set(field, x)  BY <2>1
  <2>3. field \in DOMAIN Values /\ x \in Values[field]  BY OfferedAssumption
  <2>4. field # "ratio"  BY <2>3 DEF Values
  <2>5. QED  BY <2>2, <2>3, <2>4, SetKept
<1>2. CASE \E ratio \in Ratios : setTargetTier(ratio)
  <2>1. PICK ratio \in Ratios : Set("ratio", ratio)  BY <1>2 DEF setTargetTier
  <2>2. ratio \in Nat  BY OfferedAssumption
  <2>3. QED  BY <2>1, <2>2, SetKept
<1>3. QED  BY <1>1, <1>2

LEMMA SwitchesKept ==
    ASSUME BasketInv,
           pauseRebalancing \/ resumeRebalancing \/ togglePause \/ toggleEmergencyMode
    PROVE  BasketInv' /\ PartKept
<1>1. CASE pauseRebalancing
  <2>1. rebalancing' = [rebalancing EXCEPT !.paused = TRUE]  BY <1>1 DEF pauseRebalancing
  <2>2. rebalancing' \in RebalancingRecords /\ rebalancing'.paused
    BY <2>1, TypedParts DEF RebalancingRecords
  <2>3. BreakerHolds'  BY <2>2 DEF BreakerHolds
  <2>4. QED  BY <1>1, <2>2, <2>3, TypedParts, CountedChange, BookStays DEF pauseRebalancing, world
<1>2. CASE resumeRebalancing
  <2>1. rebalancing' = [rebalancing EXCEPT !.paused = FALSE, !.failureCount = 0]
    BY <1>2 DEF resumeRebalancing
  <2>2. /\ rebalancing'.paused = FALSE /\ rebalancing'.failureCount = 0
        /\ rebalancing'.lastFailure \in Nat /\ rebalancing'.last \in Nat
    BY <2>1, TypedParts DEF RebalancingRecords
  <2>3. rebalancing'.paused \in BOOLEAN  BY <2>2, Zenon
  <2>4. rebalancing' \in RebalancingRecords
    <3>1. rebalancing'.failureCount \in Nat  BY <2>2
    <3>2. QED  BY <2>1, <2>2, <2>3, <3>1, TypedParts, Zenon DEF RebalancingRecords
  <2>5. BreakerHolds'  BY <2>2 DEF BreakerHolds
  <2>6. QED  BY <1>2, <2>4, <2>5, TypedParts, CountedChange, BookStays DEF resumeRebalancing, world
<1>3. CASE togglePause
  <2>1. paused' \in BOOLEAN  BY <1>3 DEF togglePause
  <2>2. QED
    BY <1>3, <2>1, TypedParts, CountedChange, RebalancingSame, BookStays DEF togglePause, world
<1>4. CASE toggleEmergencyMode
  <2>1. satoshi' \in SatoshiRecords
    BY <1>4, TypedParts DEF toggleEmergencyMode, SatoshiRecords
  <2>2. QED
    BY <1>4, <2>1, TypedParts, CountedChange, RebalancingSame, BookStays
    DEF toggleEmergencyMode, world
<1>5. QED  BY <1>1, <1>2, <1>3, <1>4

LEMMA setMaxSingleDepositKept ==
    ASSUME BasketInv, NEW most \in Nat, setMaxSingleDeposit(most)
    PROVE  BasketInv' /\ PartKept
<1>1. satoshi' \in SatoshiRecords
  BY TypedParts DEF setMaxSingleDeposit, SatoshiRecords
<1>2. QED
  BY <1>1, TypedParts, CountedChange, RebalancingSame, BookStays DEF setMaxSingleDeposit, world

LEMMA WorldKept ==
    ASSUME BasketInv, Tick \/ \E p \in Prices \cup {NoPrice} : PriceMoves(p)
    PROVE  BasketInv' /\ PartKept
<1>1. CASE Tick
  <2>1. now' \in Nat  BY <1>1, TypedParts DEF Tick
  <2>2. QED  BY <1>1, <2>1, TypedParts, RebalancingSame, BookStays DEF Tick
<1>2. CASE \E p \in Prices \cup {NoPrice} : PriceMoves(p)
  <2>1. PICK p \in Prices \cup {NoPrice} : PriceMoves(p)  BY <1>2
  <2>2. QED  BY <2>1, TypedParts, CountedChange, RebalancingSame, BookStays DEF PriceMoves
<1>3. QED  BY <1>1, <1>2

LEMMA StutterKept ==
    ASSUME BasketInv, UNCHANGED basketVars
    PROVE  BasketInv' /\ PartKept
  BY TypedParts, RebalancingSame, BookStays DEF basketVars, world, shares

-----------------------------------------------------------------------------
(* What comes from outside, and what the owner takes or moves.              *)
Outsides == [given : Quantities, taken : Quantities, moved : BOOLEAN]

LEMMA OutsideMoves ==
    ASSUME BasketInv, Change, book' \in Books, book'.staked = book.staked, book'.at = book.at,
           outside' \in Outsides, outside'.moved = outside.moved,
           \A x \in Assets :
              book'.pooled[x] + outside'.given[x] - Held(book', x) - outside'.taken[x]
                = book.pooled[x] + outside.given[x] - Held(book, x) - outside.taken[x],
           UNCHANGED <<shares, setting, rebalancing, paused, satoshi, world>>
    PROVE  BasketInv' /\ PartKept
<1>1. BasketTyped /\ SharesAddUp /\ Sound(book) /\ PoolBacked /\ AtFirst /\ book \in Books
  BY DEF BasketInv, Sound
<1>2. \A x \in Assets : AtPools(book', x) = AtPools(book, x)  BY DEF AtPools
<1>3. Sound(book)'
  <2>1. \A x \in Assets : book'.staked[x] <= AtPools(book', x)  BY <1>1, <1>2 DEF Sound
  <2>2. ASSUME ~outside'.moved, NEW x \in Assets
        PROVE  /\ book'.staked[x] = AtPools(book', x)
               /\ book'.at[FirstPool][x] = AtPools(book', x)
    BY <1>1, <1>2, <2>2 DEF Sound
  <2>3. QED  BY <2>1, <2>2 DEF Sound, AtPools
<1>4. PoolBacked'
  <2>1. ASSUME NEW x \in Assets
        PROVE  book'.pooled[x] + outside'.given[x]
                  = Held(book', x) + AtPools(book', x) + outside'.taken[x]
    <3>1. /\ book.pooled[x] \in Nat /\ book'.pooled[x] \in Nat
          /\ Held(book, x) \in Nat /\ Held(book', x) \in Nat /\ AtPools(book, x) \in Nat
      BY <1>1, BookFields, HeldNat, PoolsNat DEF Quantities
    <3>2. /\ outside.given[x] \in Nat /\ outside.taken[x] \in Nat
          /\ outside'.given[x] \in Nat /\ outside'.taken[x] \in Nat
      BY <1>1, OutsideNat DEF Outsides, Quantities
    <3>3. book.pooled[x] + outside.given[x] = Held(book, x) + AtPools(book, x) + outside.taken[x]
      BY <1>1 DEF PoolBacked
    <3>4. book'.pooled[x] + outside'.given[x] - Held(book', x) - outside'.taken[x]
            = book.pooled[x] + outside.given[x] - Held(book, x) - outside.taken[x]
      OBVIOUS
    <3>5. QED  BY <1>2, <3>1, <3>2, <3>3, <3>4
  <2>2. QED  BY <2>1 DEF PoolBacked, Held, AtPools
<1>5. balanceOf' \in [Holders -> Nat] /\ totalSupply' \in Nat /\ SharesAddUp'
  BY <1>1, SharesSame
<1>6. BasketTyped'
  BY <1>1, <1>5, CountedMoves DEF BasketTyped, world, Outsides
<1>7. AtFirst'  BY <1>1 DEF AtFirst
<1>8. QED
  BY <1>1, <1>3, <1>4, <1>5, <1>6, <1>7, RebalancingSame, SameShares DEF BasketInv

LEMMA GivenKept ==
    ASSUME BasketInv, NEW x \in Assets, Given(x)
    PROVE  BasketInv' /\ PartKept
<1> DEFINE more == outside.given[x] + Gift[x]
<1>1. BasketTyped /\ book \in Books /\ "CORE" \in Assets /\ "BTC" \in Assets
  BY DEF BasketInv, Sound, Assets
<1>2. /\ Change /\ UNCHANGED <<shares, setting, rebalancing, paused, satoshi, world>>
      /\ outside' = [outside EXCEPT !.given = [outside.given EXCEPT ![x] = more]]
  BY <1>1 DEF Given
<1>3. /\ Gift[x] \in Nat /\ Gift.CORE \in Nat /\ Gift.BTC \in Nat
  BY <1>1, BroughtAssumption DEF Quantities
<1>4. more \in Nat  BY <1>1, <1>3, OutsideNat
<1> HIDE DEF more
<1>5. /\ outside'.given = [outside.given EXCEPT ![x] = more]
      /\ outside'.taken = outside.taken /\ outside'.moved = outside.moved
  BY <1>1, <1>2 DEF BasketTyped
<1>6. outside' \in Outsides
  <2>1. [outside.given EXCEPT ![x] = more] \in Quantities  BY <1>1, <1>4, OutsideNat, OneChanged
  <2>2. QED  BY <1>1, <1>2, <2>1 DEF BasketTyped, Outsides
<1>7. \A y \in Assets : /\ outside.given[y] \in Nat /\ outside.taken[y] \in Nat
                        /\ outside'.given[y] = outside.given[y] + (IF y = x THEN Gift[x] ELSE 0)
                        /\ outside'.taken[y] = outside.taken[y]
  BY <1>1, <1>5, OutsideNat DEF Quantities, more
<1>8. \A y \in Assets : book.pooled[y] \in Nat /\ book.free[y] \in Nat /\ book.coin \in Nat
  BY <1>1, BookFields DEF Quantities
<1>9. CASE x = "CORE"
  <2>1. book' = [book EXCEPT !.coin = book.coin + Gift.CORE]  BY <1>9 DEF Given
  <2>2. book.coin + Gift.CORE \in Nat  BY <1>3, <1>8
  <2>3. /\ book' \in Books /\ book'.staked = book.staked /\ book'.at = book.at
        /\ book'.pooled = book.pooled /\ book'.free = book.free
        /\ book'.coin = book.coin + Gift.CORE
    BY <1>1, <2>1, <2>2 DEF Books
  <2>4. ASSUME NEW y \in Assets
        PROVE  book'.pooled[y] + outside'.given[y] - Held(book', y) - outside'.taken[y]
                 = book.pooled[y] + outside.given[y] - Held(book, y) - outside.taken[y]
    BY <1>3, <1>7, <1>8, <1>9, <2>3 DEF Held
  <2>5. QED  BY <1>2, <1>5, <1>6, <2>3, <2>4, OutsideMoves
<1>10. CASE x = "BTC"
  <2>1. book' = [book EXCEPT !.free = [book.free EXCEPT !["BTC"] = book.free.BTC + Gift.BTC]]
    BY <1>1, <1>10 DEF Given, Books
  <2>2. [book.free EXCEPT !["BTC"] = book.free.BTC + Gift.BTC] \in Quantities
    <3>1. book.free.BTC + Gift.BTC \in Nat  BY <1>1, <1>3, <1>8
    <3>2. QED  BY <1>1, <3>1, BookFields, OneChanged
  <2>3. /\ book' \in Books /\ book'.staked = book.staked /\ book'.at = book.at
        /\ book'.pooled = book.pooled /\ book'.coin = book.coin
        /\ book'.free = [book.free EXCEPT !["BTC"] = book.free.BTC + Gift.BTC]
    BY <1>1, <2>1, <2>2 DEF Books
  <2>4. ASSUME NEW y \in Assets
        PROVE  book'.free[y] = book.free[y] + (IF y = "BTC" THEN Gift.BTC ELSE 0)
    BY <1>1, <1>3, <1>8, <2>3, BookFields DEF Quantities
  <2>5. ASSUME NEW y \in Assets
        PROVE  book'.pooled[y] + outside'.given[y] - Held(book', y) - outside'.taken[y]
                 = book.pooled[y] + outside.given[y] - Held(book, y) - outside.taken[y]
    BY <1>3, <1>7, <1>8, <1>10, <2>3, <2>4 DEF Held
  <2>6. QED  BY <1>2, <1>5, <1>6, <2>3, <2>5, OutsideMoves
<1>11. QED  BY <1>9, <1>10 DEF Assets

LEMMA emergencyWithdrawKept ==
    ASSUME BasketInv, NEW x \in Assets, emergencyWithdraw(x)
    PROVE  BasketInv' /\ PartKept
<1> DEFINE more == outside.taken[x] + book.free[x]
           rest == [book.free EXCEPT ![x] = 0]
<1>1. BasketTyped /\ book \in Books  BY DEF BasketInv, Sound
<1>2. /\ Change /\ UNCHANGED <<shares, setting, rebalancing, paused, satoshi, world>>
      /\ outside' = [outside EXCEPT !.taken = [outside.taken EXCEPT ![x] = more]]
      /\ book' = [book EXCEPT !.free = rest]
  BY <1>1 DEF emergencyWithdraw
<1>3. \A y \in Assets : book.pooled[y] \in Nat /\ book.free[y] \in Nat /\ book.coin \in Nat
  BY <1>1, BookFields DEF Quantities
<1>4. more \in Nat  BY <1>1, <1>3, OutsideNat
<1>5. \A y \in Assets : rest[y] = IF y = x THEN 0 ELSE book.free[y]
  BY <1>1, BookFields DEF Quantities
<1>6. rest \in Quantities  BY <1>1, BookFields, OneChanged
<1> HIDE DEF rest
<1>7. /\ book' \in Books /\ book'.staked = book.staked /\ book'.at = book.at
      /\ book'.pooled = book.pooled /\ book'.coin = book.coin /\ book'.free = rest
  BY <1>1, <1>2, <1>6 DEF Books
<1>8. \A y \in Assets : /\ outside.given[y] \in Nat /\ outside.taken[y] \in Nat
                        /\ [outside.taken EXCEPT ![x] = more][y]
                              = outside.taken[y] + (IF y = x THEN book.free[x] ELSE 0)
  BY <1>1, <1>3, OutsideNat DEF Quantities
<1> HIDE DEF more
<1>9. /\ outside'.taken = [outside.taken EXCEPT ![x] = more]
      /\ outside'.given = outside.given /\ outside'.moved = outside.moved
  BY <1>1, <1>2 DEF BasketTyped
<1>10. outside' \in Outsides
  <2>1. [outside.taken EXCEPT ![x] = more] \in Quantities  BY <1>1, <1>4, OutsideNat, OneChanged
  <2>2. QED  BY <1>1, <1>2, <2>1 DEF BasketTyped, Outsides
<1>11. ASSUME NEW y \in Assets
       PROVE  book'.pooled[y] + outside'.given[y] - Held(book', y) - outside'.taken[y]
                = book.pooled[y] + outside.given[y] - Held(book, y) - outside.taken[y]
  <2>1. /\ book'.free[y] = IF y = x THEN 0 ELSE book.free[y]
        /\ outside'.taken[y] = outside.taken[y] + (IF y = x THEN book.free[x] ELSE 0)
    BY <1>5, <1>7, <1>8, <1>9
  <2>2. QED  BY <1>3, <1>7, <1>8, <1>9, <2>1 DEF Held
<1>12. QED  BY <1>2, <1>7, <1>9, <1>10, <1>11, OutsideMoves

LEMMA setDualStakingContractKept ==
    ASSUME BasketInv, NEW pool \in Pools, setDualStakingContract(pool)
    PROVE  BasketInv' /\ PartKept
<1>1. BasketTyped /\ SharesAddUp /\ Sound(book) /\ PoolBacked /\ book \in Books
  BY DEF BasketInv, Sound
<1>2. /\ Change /\ UNCHANGED <<book, shares, rebalancing, paused, satoshi, world>>
      /\ setting' = [setting EXCEPT !.pool = pool] /\ outside' = [outside EXCEPT !.moved = TRUE]
  BY DEF setDualStakingContract
<1>3. /\ outside'.given = outside.given /\ outside'.taken = outside.taken /\ outside'.moved
      /\ outside' \in Outsides
  BY <1>1, <1>2 DEF BasketTyped, Outsides
<1>4. setting' \in Settings  BY <1>1, <1>2 DEF BasketTyped, Settings
<1>5. Sound(book)'  BY <1>1, <1>2, <1>3 DEF Sound, AtPools
<1>6. PoolBacked'  BY <1>1, <1>2, <1>3 DEF PoolBacked, Held, AtPools
<1>7. balanceOf' \in [Holders -> Nat] /\ totalSupply' \in Nat /\ SharesAddUp'
  BY <1>1, <1>2, SharesSame
<1>8. BasketTyped'
  BY <1>1, <1>2, <1>3, <1>4, <1>7, CountedMoves DEF BasketTyped, world, Outsides
<1>9. AtFirst'  BY <1>3 DEF AtFirst
<1>10. QED
  BY <1>1, <1>2, <1>5, <1>6, <1>7, <1>8, <1>9, RebalancingSame, SameShares DEF BasketInv

-----------------------------------------------------------------------------
(* Nothing is pooled, staked or held at the deployment.                     *)
LEMMA BasketInitially == BasketInit => BasketInv
<1> SUFFICES ASSUME BasketInit PROVE BasketInv
  OBVIOUS
<1>1. /\ balanceOf = [u \in Holders |-> 0] /\ totalSupply = 0 /\ price \in Prices
      /\ rebalancing = [paused |-> FALSE, failureCount |-> 0, lastFailure |-> 0, last |-> StartTime]
      /\ paused = FALSE /\ now = StartTime /\ moves = 0 /\ changes = 0
      /\ satoshi = [emergencyMode |-> FALSE, maxSingleDeposit |-> 10000 * MIN_BTC_DEPOSIT,
                    lastRewardClaim |-> 0]
      /\ outside = [given |-> Nothing, taken |-> Nothing, moved |-> FALSE]
      /\ book = [pooled |-> Nothing, staked |-> Nothing, free |-> Nothing, coin |-> 0,
                 at |-> [p \in Pools |-> Nothing]]
  BY DEF BasketInit
<1>2. setting \in Settings /\ setting.pool = FirstPool
  <2>1. PICK ratio \in Ratios \ {0}, heir \in BOOLEAN,
             router \in {"none", "trusted"}, hasToken \in BOOLEAN :
          setting = [ratio |-> ratio, threshold |-> IF heir THEN 100 ELSE 500,
                     slippage |-> IF heir THEN 50 ELSE 200, keeper |-> 10,
                     interval |-> 2 * HalfHour, router |-> router, pool |-> FirstPool,
                     minimum |-> [CORE |-> 1, BTC |-> 1, usd |-> 1], hasToken |-> hasToken]
    BY DEF BasketInit
  <2>2. ratio \in Nat /\ FirstPool \in Pools  BY OfferedAssumption, PoolsAssumption
  <2>3. 2 * HalfHour \in Nat /\ 2 * HalfHour >= HalfHour  BY UnitsAssumption
  <2> DEFINE th == IF heir THEN 100 ELSE 500
             sl == IF heir THEN 50 ELSE 200
  <2>4. th \in Nat /\ sl \in Nat /\ sl <= 1000  OBVIOUS
  <2>5. router \in Values.router /\ [CORE |-> 1, BTC |-> 1, usd |-> 1] \in Values.minimum
    BY DEF Values
  <2> HIDE DEF th, sl
  <2>6. setting = [ratio |-> ratio, threshold |-> th,
                   slippage |-> sl, keeper |-> 10,
                   interval |-> 2 * HalfHour, router |-> router, pool |-> FirstPool,
                   minimum |-> [CORE |-> 1, BTC |-> 1, usd |-> 1], hasToken |-> hasToken]
    BY <2>1 DEF th, sl
  <2>7. QED  BY <2>2, <2>3, <2>4, <2>5, <2>6 DEF Settings
<1>3. book \in Books  BY <1>1, NothingIn DEF Books
<1>4. /\ balanceOf \in [Holders -> Nat] /\ totalSupply \in Nat /\ price \in Prices \cup {NoPrice}
      /\ rebalancing \in RebalancingRecords /\ paused \in BOOLEAN /\ satoshi \in SatoshiRecords
      /\ outside \in Outsides /\ now \in Nat /\ moves \in Nat /\ changes \in Nat
  <2>1. StartTime \in Nat /\ 10000 * MIN_BTC_DEPOSIT \in Nat  BY UnitsAssumption
  <2>2. rebalancing \in RebalancingRecords  BY <1>1, <2>1 DEF RebalancingRecords
  <2>3. satoshi \in SatoshiRecords  BY <1>1, <2>1 DEF SatoshiRecords
  <2>4. outside \in Outsides  BY <1>1, NothingIn DEF Outsides
  <2>5. paused \in BOOLEAN  BY <1>1, Zenon
  <2>6. /\ balanceOf \in [Holders -> Nat] /\ totalSupply \in Nat /\ price \in Prices \cup {NoPrice}
        /\ now \in Nat /\ moves \in Nat /\ changes \in Nat
    BY <1>1, <2>1
  <2>7. QED  BY <2>2, <2>3, <2>4, <2>5, <2>6
<1>5. BasketTyped
  BY <1>2, <1>3, <1>4 DEF BasketTyped, RebalancingRecords, SatoshiRecords, Outsides
<1>6. SharesAddUp
  <2>1. \A u \in Holders : balanceOf[u] = 0  BY <1>1
  <2>2. QED  BY <1>1, <2>1, HoldersAssumption, SumZero DEF SharesAddUp
<1>7. ASSUME NEW x \in Assets
      PROVE  /\ AtPools(book, x) = 0 /\ Held(book, x) = 0 /\ book.staked[x] = 0
             /\ book.pooled[x] = 0 /\ book.at[FirstPool][x] = 0
             /\ outside.given[x] = 0 /\ outside.taken[x] = 0
  <2> DEFINE f == [p \in Pools |-> book.at[p][x]]
  <2>1. Nothing[x] = 0  BY NothingIn
  <2>2. \A p \in Pools : f[p] = 0  BY <1>1, <2>1
  <2>3. AtPools(book, x) = SumFunctionOnSet(f, Pools)  BY DEF AtPools
  <2> HIDE DEF f
  <2>4. AtPools(book, x) = 0  BY <2>2, <2>3, PoolsAssumption, SumZero
  <2>5. QED  BY <1>1, <2>1, <2>4, PoolsAssumption DEF Held
<1>8. Sound(book) /\ PoolBacked  BY <1>3, <1>7 DEF Sound, PoolBacked
<1>9. AtFirst /\ BreakerHolds  BY <1>1, <1>2 DEF AtFirst, BreakerHolds
<1>10. QED  BY <1>5, <1>6, <1>8, <1>9 DEF BasketInv

LEMMA BasketInvNext == BasketInv /\ [BasketNext]_basketVars => BasketInv' /\ PartKept
<1> SUFFICES ASSUME BasketInv, [BasketNext]_basketVars PROVE BasketInv' /\ PartKept
  OBVIOUS
<1>1. CASE \E u \in Holders, amount \in Deposits :
              \/ deposit(u, amount) \/ depositNativeCORE(u, amount)
              \/ \E core \in {0, amount.CORE} : depositForSatoshiTier(u, core, amount.BTC)
  BY <1>1, depositKept, depositForSatoshiTierKept
<1>2. CASE \E u \in Holders, s \in Parts : redeem(u, s)  BY <1>2, redeemKept
<1>3. CASE \E k \in Holders : rebalance(k)  BY <1>3, rebalanceKept
<1>4. CASE \E reward \in Rewards : compoundRewards(reward)  BY <1>4, compoundRewardsKept
<1>5. CASE maintainSatoshiRatio  BY <1>5, maintainSatoshiRatioKept
<1>6. CASE \E reward \in Rewards : compoundSatoshiRewards(reward.CORE)
  <2>1. PICK reward \in Rewards : compoundSatoshiRewards(reward.CORE)  BY <1>6
  <2>2. reward.CORE \in Nat  BY BroughtAssumption DEF Quantities, Assets
  <2>3. QED  BY <2>1, <2>2, compoundSatoshiRewardsKept
<1>7. CASE \/ \E field \in DOMAIN Options : \E x \in Options[field] : Set(field, x)
           \/ \E ratio \in Ratios : setTargetTier(ratio)
  BY <1>7, OwnerKept
<1>8. CASE \E pool \in Pools : setDualStakingContract(pool)
  BY <1>8, setDualStakingContractKept
<1>9. CASE pauseRebalancing \/ resumeRebalancing \/ togglePause \/ toggleEmergencyMode
  BY <1>9, SwitchesKept
<1>10. CASE \E x \in Assets : emergencyWithdraw(x) \/ Given(x)
  BY <1>10, emergencyWithdrawKept, GivenKept
<1>11. CASE emergencyExit  BY <1>11, emergencyExitKept
<1>12. CASE \E amount \in Deposits : setMaxSingleDeposit(amount.BTC)
  <2>1. PICK amount \in Deposits : setMaxSingleDeposit(amount.BTC)  BY <1>12
  <2>2. amount.BTC \in Nat  BY BroughtAssumption DEF Quantities, Assets
  <2>3. QED  BY <2>1, <2>2, setMaxSingleDepositKept
<1>13. CASE Tick \/ \E p \in Prices \cup {NoPrice} : PriceMoves(p)  BY <1>13, WorldKept
<1>14. CASE UNCHANGED basketVars  BY <1>14, StutterKept
<1>15. QED
  BY <1>1, <1>2, <1>3, <1>4, <1>5, <1>6, <1>7, <1>8, <1>9, <1>10, <1>11, <1>12, <1>13, <1>14
  DEF BasketNext

(* What the invariant says of the stake, by arithmetic.                     *)
LEMMA BooksFollow == BasketInv => BooksAgree
<1> SUFFICES ASSUME BasketInv PROVE BooksAgree
  OBVIOUS
<1>1. BasketTyped /\ SharesAddUp /\ Sound(book) /\ PoolBacked /\ BreakerHolds /\ book \in Books
  BY DEF BasketInv, Sound
<1>2. StakeCounted  BY <1>1 DEF Sound, StakeCounted
<1>3. ASSUME NEW x \in Assets PROVE book.staked[x] <= book.pooled[x] + outside.given[x]
  <2>1. /\ book.pooled[x] \in Nat /\ book.staked[x] \in Nat /\ Held(book, x) \in Nat
        /\ AtPools(book, x) \in Nat /\ outside.given[x] \in Nat /\ outside.taken[x] \in Nat
    BY <1>1, BookFields, HeldNat, PoolsNat, OutsideNat DEF Quantities
  <2>2. book.staked[x] <= AtPools(book, x)  BY <1>2 DEF StakeCounted
  <2>3. book.pooled[x] + outside.given[x] = Held(book, x) + AtPools(book, x) + outside.taken[x]
    BY <1>1 DEF PoolBacked
  <2>4. QED  BY <2>1, <2>2, <2>3
<1>4. QED  BY <1>1, <1>2, <1>3 DEF BooksAgree, StakeCovered

(* In every behaviour, with any holders, staking contracts, prices, ratios  *)
(* and settings: no call takes of what the others' shares stand for, and    *)
(* the books agree with where the assets are, whichever trade, staking or   *)
(* unstaking fails on the way                                               *)
(* (DualStakingBasket.sol:255-357, 385-415, 556-706, 711-742, 766-768).     *)
THEOREM BasketSharesAlwaysKept == BasketSpec => BasketShareKept
<1>1. BasketInit => BasketInv  BY BasketInitially
<1>2. BasketInv /\ [BasketNext]_basketVars => BasketInv' /\ PartKept  BY BasketInvNext
<1>3. BasketInv => BooksAgree  BY BooksFollow
<1>4. QED  BY <1>1, <1>2, <1>3, PTL DEF BasketSpec, BasketShareKept
=============================================================================
