-------------------------- MODULE StakeBasketProofs --------------------------
(***************************************************************************)
(* What TLAPS proves of StakeBasket for every finite set of holders and of  *)
(* validators, every amount, price, fee, reward and rating of validators:   *)
(* open requests can always be burned, redeeming never costs those who      *)
(* stay, no share is left without CORE behind it, and the pool's count, the *)
(* coin and the stake only part where fees and simulated rewards say so.    *)
(*                                                                          *)
(* The invariant is BasketInv: that the supply is the sum of the balances   *)
(* (SupplyExact) gives HoldersCovered, without which a redemption could     *)
(* burn more than there is; the parts of a delegation are bounded through   *)
(* the allocations they are computed from (AllocationsWithin).              *)
(***************************************************************************)
EXTENDS StakeBasket, SumTheorems, TLAPS

-----------------------------------------------------------------------------
(* Products and quotients of unsigned integers.                             *)

LEMMA MulTyped == ASSUME NEW x \in Nat, NEW y \in Nat PROVE x * y \in Nat
  OBVIOUS

LEMMA DivTyped == ASSUME NEW x \in Nat, NEW d \in Nat \ {0} PROVE x \div d \in Nat
  OBVIOUS

LEMMA DivBelow ==
    ASSUME NEW x \in Nat, NEW d \in Nat \ {0}
    PROVE  (x \div d) * d <= x
  OBVIOUS

LEMMA MulOrder ==
    ASSUME NEW x \in Nat, NEW y \in Nat, NEW a \in Nat, x <= y
    PROVE  x * a <= y * a
  OBVIOUS

LEMMA MulCancel ==
    ASSUME NEW x \in Nat, NEW y \in Nat, NEW a \in Nat \ {0}, x * a <= y * a
    PROVE  x <= y
  OBVIOUS

LEMMA MulSwap ==
    ASSUME NEW x \in Nat, NEW y \in Nat, NEW z \in Nat
    PROVE  (x * y) * z = (x * z) * y
  OBVIOUS

(* The amount returned for s of S shares of a pool of T, at a price of p in *)
(* units of U: by way of the value V of the pool and the value a of the     *)
(* shares, it is never more than their part of the pool.                    *)
LEMMA ReturnWithinPart ==
    ASSUME NEW T \in Nat, NEW S \in Nat \ {0}, NEW s \in Nat,
           NEW p \in Nat \ {0}, NEW U \in Nat \ {0},
           NEW V \in Nat, V = (T * p) \div U,
           NEW a \in Nat, a = (s * V) \div S,
           NEW c \in Nat, c = (a * U) \div p
    PROVE  c * S <= s * T
<1>1. /\ T * p \in Nat /\ s * V \in Nat /\ a * U \in Nat /\ a * S \in Nat
      /\ c * p \in Nat /\ V * U \in Nat /\ c * S \in Nat /\ s * T \in Nat
  BY MulTyped
<1>2. V * U <= T * p  BY <1>1, DivBelow
<1>3. a * S <= s * V  BY <1>1, DivBelow
<1>4. c * p <= a * U  BY <1>1, DivBelow
<1>5. (c * p) * S <= (a * U) * S  BY <1>1, <1>4, MulOrder
<1>6. (a * U) * S = (a * S) * U  BY MulSwap
<1>7. (a * S) * U <= (s * V) * U  BY <1>1, <1>3, MulOrder
<1>8. (s * V) * U = (V * U) * s
  <2>1. s * V = V * s  OBVIOUS
  <2>2. QED  BY <2>1, MulSwap
<1>9. (V * U) * s <= (T * p) * s  BY <1>1, <1>2, MulOrder
<1>10. (T * p) * s = (s * T) * p
  <2>1. (T * p) * s = (T * s) * p  BY MulSwap
  <2>2. T * s = s * T  OBVIOUS
  <2>3. QED  BY <2>1, <2>2
<1>11. (c * p) * S = (c * S) * p  BY MulSwap
<1>12. /\ (c * p) * S \in Nat /\ (a * S) * U \in Nat /\ (V * U) * s \in Nat
       /\ (s * T) * p \in Nat
  BY <1>1, MulTyped
<1>13. (c * S) * p <= (s * T) * p
  BY <1>5, <1>6, <1>7, <1>8, <1>9, <1>10, <1>11, <1>12
<1>14. QED  BY <1>1, <1>13, MulCancel

(* What paying at most the part of s shares does to the pool.               *)
LEMMA PayingWithinPart ==
    ASSUME NEW T \in Nat, NEW S \in Nat \ {0}, NEW s \in Nat, s <= S,
           NEW c \in Nat, c * S <= s * T
    PROVE  /\ T - c \in Nat
           /\ (T - c) * S >= T * (S - s)
           /\ T > 0 /\ s < S => T - c > 0
<1>1. /\ c * S \in Nat /\ s * T \in Nat /\ S * T \in Nat /\ T * S \in Nat
      /\ T * s \in Nat
  BY MulTyped
<1>2. s * T <= S * T  BY MulOrder
<1>3. S * T = T * S /\ s * T = T * s  OBVIOUS
<1>4. c <= T
  <2>1. c * S <= T * S  BY <1>1, <1>2, <1>3
  <2>2. QED  BY <2>1, MulCancel
<1>5. (T - c) * S = T * S - c * S  OBVIOUS
<1>6. T * (S - s) = T * S - T * s  OBVIOUS
<1>7. (T - c) * S >= T * (S - s)  BY <1>1, <1>3, <1>5, <1>6
<1>8. ASSUME T > 0, s < S PROVE T - c > 0
  <2>1. c # T
    <3>1. ASSUME c = T PROVE FALSE
      <4>1. S * T <= s * T  BY <1>1, <1>3, <3>1
      <4>2. S <= s  BY <1>8, <4>1, MulCancel
      <4>3. QED  BY <1>8, <4>2
    <3>2. QED  BY <3>1
  <2>2. QED  BY <1>4, <2>1
<1>9. QED  BY <1>4, <1>7, <1>8

-----------------------------------------------------------------------------
(* The inductive invariant, in two parts: the shares and what is behind     *)
(* them, and what a payment or a fee is computed from.                      *)
SharesOK ==
    /\ balanceOf \in [Holders -> Nat]
    /\ totalSupply \in Nat
    /\ totalPooledCore \in Nat
    /\ SharesHaveAssets

TermsOK ==
    /\ withdrawalQueue \in Seq(Requests)
    /\ config \in Configs /\ config.managementFee <= 1000 /\ config.protocolFee <= 5000
    /\ feed \in Prices \cup {0}
    /\ lastFeeCollection \in Nat /\ now \in Nat /\ lastFeeCollection <= now

(* The owner's fees, as numbers.                                            *)
LEMMA FeesTyped ==
    ASSUME TermsOK
    PROVE  /\ config.managementFee \in Nat
           /\ config.protocolFee \in Nat /\ config.protocolFee <= 10000
  BY DEF TermsOK, Configs

LEMMA PriceTyped == ASSUME TermsOK PROVE CorePrice \in Nat \ {0}
  BY PricesAssumption DEF TermsOK, CorePrice

LEMMA ValueTyped == ASSUME TermsOK, NEW c \in Nat PROVE Value(c) \in Nat
<1>1. c * CorePrice \in Nat  BY PriceTyped, MulTyped
<1>2. QED  BY <1>1, DivTyped, PricesAssumption DEF Value

(* Shares are minted in whole numbers, where the code does not revert.      *)
LEMMA MintedTyped ==
    ASSUME SharesOK, TermsOK, NEW c \in Nat, Mintable
    PROVE  SharesToMint(c) \in Nat
<1>1. CASE totalSupply = 0  BY <1>1 DEF SharesToMint
<1>2. CASE totalSupply # 0
  <2>1. Value(totalPooledCore) \in Nat \ {0} /\ Value(c) \in Nat
    BY <1>2, ValueTyped DEF Mintable, SharesOK
  <2>2. Value(c) * totalSupply \in Nat  BY <2>1, MulTyped DEF SharesOK
  <2>3. QED  BY <1>2, <2>1, <2>2, DivTyped DEF SharesToMint
<1>3. QED  BY <1>1, <1>2

(* Nobody is paid more than the part of the pool the shares stand for.      *)
LEMMA ReturnTyped ==
    ASSUME SharesOK, TermsOK, totalSupply > 0, NEW s \in Nat
    PROVE  /\ CoreToReturn(s) \in Nat
           /\ CoreToReturn(s) * totalSupply <= s * totalPooledCore
<1> DEFINE V == Value(totalPooledCore)
           a == (s * V) \div totalSupply
           c == (a * PRICE_UNIT) \div CorePrice
<1>1. /\ totalSupply \in Nat \ {0} /\ totalPooledCore \in Nat
      /\ CorePrice \in Nat \ {0} /\ PRICE_UNIT \in Nat \ {0}
  BY PriceTyped, PricesAssumption DEF SharesOK
<1>2. V \in Nat  BY <1>1, ValueTyped
<1>3. a \in Nat
  <2>1. s * V \in Nat  BY <1>2, MulTyped
  <2>2. QED  BY <1>1, <2>1, DivTyped
<1>4. c \in Nat
  <2>1. a * PRICE_UNIT \in Nat  BY <1>1, <1>3, MulTyped
  <2>2. QED  BY <1>1, <2>1, DivTyped
<1>5. V = (totalPooledCore * CorePrice) \div PRICE_UNIT  BY DEF Value
<1>6. CoreToReturn(s) = c  BY DEF CoreToReturn
<1>7. c * totalSupply <= s * totalPooledCore
  BY <1>1, <1>2, <1>3, <1>4, <1>5, ReturnWithinPart
<1>8. QED  BY <1>4, <1>6, <1>7

(* Each of the three ways out, in one lemma: the invariant is kept and the  *)
(* CORE behind a share does not fall.                                       *)
LEMMA PayoutKeeps ==
    ASSUME SharesOK, TermsOK, HoldersCovered, totalSupply > 0,
           NEW h \in Holders, NEW s \in Nat, s <= balanceOf[h],
           Pay(CoreToReturn(s)), Burn(h, s)
    PROVE  /\ SharesOK'
           /\ totalPooledCore' * totalSupply >= totalPooledCore * totalSupply'
<1> DEFINE c == CoreToReturn(s)
<1>1. c \in Nat /\ c * totalSupply <= s * totalPooledCore  BY ReturnTyped
<1>2. totalPooledCore' = totalPooledCore - c  BY DEF Pay, PooledAfter
<1> HIDE DEF c
<1>3. /\ balanceOf' = [balanceOf EXCEPT ![h] = @ - s]
      /\ totalSupply' = totalSupply - s
  BY DEF Burn
<1>4. /\ balanceOf[h] \in Nat /\ balanceOf[h] <= totalSupply
      /\ totalSupply \in Nat \ {0} /\ totalPooledCore \in Nat
  BY DEF SharesOK, HoldersCovered
<1>5. s <= totalSupply  BY <1>4
<1>6. /\ totalPooledCore - c \in Nat
      /\ (totalPooledCore - c) * totalSupply >= totalPooledCore * (totalSupply - s)
      /\ totalPooledCore > 0 /\ s < totalSupply => totalPooledCore - c > 0
  BY <1>1, <1>4, <1>5, PayingWithinPart
<1>7. balanceOf' \in [Holders -> Nat]  BY <1>3, <1>4 DEF SharesOK
<1>8. SharesHaveAssets'
  BY <1>2, <1>3, <1>4, <1>5, <1>6 DEF SharesOK, SharesHaveAssets
<1>9. QED  BY <1>2, <1>3, <1>4, <1>5, <1>6, <1>7, <1>8 DEF SharesOK

-----------------------------------------------------------------------------
LEMMA InitOK == Init => SharesOK /\ TermsOK
  BY DEF Init, SharesOK, SharesHaveAssets, TermsOK, Configs

LEMMA SharesFrame ==
    ASSUME SharesOK, UNCHANGED <<token, totalPooledCore>>
    PROVE  SharesOK'
  BY DEF SharesOK, SharesHaveAssets, token

LEMMA TermsFrame ==
    ASSUME TermsOK, UNCHANGED <<withdrawalQueue, config, feed, lastFeeCollection, now>>
    PROVE  TermsOK'
  BY DEF TermsOK

(* More CORE for the same shares: simulated and claimed rewards.            *)
LEMMA RewardKeeps ==
    ASSUME SharesOK, UNCHANGED token, NEW n \in Nat,
           totalPooledCore' = totalPooledCore + n
    PROVE  SharesOK'
  BY DEF SharesOK, SharesHaveAssets, token

LEMMA DepositKeeps ==
    ASSUME SharesOK, TermsOK, NEW u \in Users, NEW c \in Amounts,
           NEW reduction \in Reductions, Deposit(u, c, reduction)
    PROVE  SharesOK' /\ TermsOK' /\ \E n \in Nat : Mint(u, n)
<1> DEFINE implicitFee == (c * config.managementFee) \div 10000
           effective == c + (implicitFee * reduction) \div 10000
<1>1. c \in Nat /\ reduction \in Nat /\ config.managementFee \in Nat
  <2>1. c \in Nat  BY ChoicesAssumption
  <2>2. reduction \in Nat  BY ChoicesAssumption
  <2>3. QED  BY <2>1, <2>2, FeesTyped
<1>2. implicitFee \in Nat
  <2>1. c * config.managementFee \in Nat  BY <1>1, MulTyped
  <2>2. QED  BY <2>1, DivTyped
<1>3. effective \in Nat
  <2> HIDE DEF implicitFee
  <2>1. implicitFee * reduction \in Nat  BY <1>1, <1>2, MulTyped
  <2>2. (implicitFee * reduction) \div 10000 \in Nat  BY <2>1, DivTyped
  <2>3. QED  BY <1>1, <2>2
<1>4. /\ c > 0 /\ Mintable /\ Mint(u, SharesToMint(effective))
      /\ totalPooledCore' = totalPooledCore + c
  BY DEF Deposit
<1> HIDE DEF effective
<1>5. SharesToMint(effective) \in Nat  BY <1>3, <1>4, MintedTyped
<1>6. u \in Holders  BY DEF Holders
<1>7. SharesOK'
  BY <1>1, <1>4, <1>5, <1>6 DEF Mint, SharesOK, SharesHaveAssets
<1>8. TermsOK'  BY TermsFrame DEF Deposit, queue, owned
<1>9. QED  BY <1>4, <1>5, <1>7, <1>8

LEMMA RequestKeeps ==
    ASSUME SharesOK, TermsOK, NEW u \in Users,
           NEW s \in Parts \cup {balanceOf[u] - 1, balanceOf[u]},
           RequestWithdrawal(u, s)
    PROVE  SharesOK' /\ TermsOK'
<1>1. u \in Holders /\ Basket \in Holders /\ u # Basket
  BY AccountsAssumption DEF Holders
<1>2. s \in Nat /\ s <= balanceOf[u]
  <2>1. balanceOf[u] \in Nat  BY <1>1 DEF SharesOK
  <2>2. s \in Int  BY <2>1, ChoicesAssumption
  <2>3. QED  BY <2>1, <2>2 DEF RequestWithdrawal, HasShares
<1>3. balanceOf' \in [Holders -> Nat]
  <2>1. balanceOf[u] - s \in Nat /\ balanceOf[Basket] + s \in Nat
    BY <1>1, <1>2 DEF SharesOK
  <2>2. balanceOf' = [balanceOf EXCEPT ![u] = balanceOf[u] - s,
                                       ![Basket] = balanceOf[Basket] + s]
    BY DEF RequestWithdrawal, EscrowedFrom
  <2>3. QED  BY <1>1, <2>1, <2>2 DEF SharesOK
<1>4. SharesOK'
  BY <1>3 DEF RequestWithdrawal, SharesOK, SharesHaveAssets, pool
<1>5. [user |-> u, shares |-> s, requestTime |-> now, isProcessed |-> FALSE] \in Requests
  BY <1>2 DEF Requests, TermsOK
<1>6. withdrawalQueue' \in Seq(Requests)
  BY <1>5 DEF RequestWithdrawal, TermsOK
<1>7. QED  BY <1>4, <1>6 DEF RequestWithdrawal, TermsOK, owned

LEMMA ProcessKeeps ==
    ASSUME SharesOK, TermsOK, HoldersCovered, NEW id \in DOMAIN withdrawalQueue,
           ProcessWithdrawal(id)
    PROVE  /\ SharesOK' /\ TermsOK'
           /\ totalPooledCore' * totalSupply >= totalPooledCore * totalSupply'
<1> DEFINE r == withdrawalQueue[id]
<1>1. r \in Requests  BY DEF TermsOK
<1>2. r.shares \in Nat /\ Basket \in Holders  BY <1>1 DEF Requests, Holders
<1>3. /\ totalSupply > 0 /\ r.shares <= balanceOf[Basket]
      /\ Pay(CoreToReturn(r.shares)) /\ Burn(Basket, r.shares)
  <2>1. balanceOf[Basket] \in Nat  BY <1>2 DEF SharesOK
  <2>2. QED  BY <1>2, <2>1 DEF ProcessWithdrawal
<1>4. /\ SharesOK'
      /\ totalPooledCore' * totalSupply >= totalPooledCore * totalSupply'
  BY <1>2, <1>3, PayoutKeeps
<1>5. withdrawalQueue' \in Seq(Requests)
  <2>1. [r EXCEPT !.isProcessed = TRUE] \in Requests  BY <1>1 DEF Requests
  <2>2. withdrawalQueue' = [withdrawalQueue EXCEPT ![id] = [r EXCEPT !.isProcessed = TRUE]]
    BY DEF ProcessWithdrawal, Processed
  <2>3. QED  BY <2>1, <2>2 DEF TermsOK
<1>6. QED  BY <1>4, <1>5 DEF ProcessWithdrawal, TermsOK, owned, world

LEMMA RedeemKeeps ==
    ASSUME SharesOK, TermsOK, HoldersCovered, NEW u \in Users,
           NEW s \in Parts \cup {balanceOf[u] - 1, balanceOf[u]},
           InstantRedeem(u, s) \/ Redeem(u, s)
    PROVE  /\ SharesOK' /\ TermsOK'
           /\ totalPooledCore' * totalSupply >= totalPooledCore * totalSupply'
<1>1. u \in Holders  BY DEF Holders
<1>2. /\ HasShares(u, s) /\ Pay(CoreToReturn(s)) /\ Burn(u, s)
      /\ UNCHANGED <<withdrawalQueue, config, feed, lastFeeCollection, now>>
  BY DEF InstantRedeem, Redeem, queue, owned
<1>3. balanceOf[u] \in Nat  BY <1>1 DEF SharesOK
<1>4. s \in Nat /\ s <= balanceOf[u] /\ s > 0
  <2>1. s \in Int  BY <1>3, ChoicesAssumption
  <2>2. QED  BY <1>2, <1>3, <2>1 DEF HasShares
<1>5. totalSupply > 0
  <2>1. balanceOf[u] <= totalSupply  BY <1>1 DEF HoldersCovered
  <2>2. QED  BY <1>3, <1>4, <2>1 DEF SharesOK
<1>6. /\ SharesOK'
      /\ totalPooledCore' * totalSupply >= totalPooledCore * totalSupply'
  BY <1>1, <1>2, <1>4, <1>5, PayoutKeeps
<1>7. QED  BY <1>2, <1>6, TermsFrame

LEMMA TransferKeeps ==
    ASSUME SharesOK, TermsOK, NEW u \in Users,
           NEW s \in Parts \cup {balanceOf[u] - 1, balanceOf[u]},
           NEW to \in TransferTo, Transfer(u, to, s)
    PROVE  SharesOK' /\ TermsOK'
<1>1. u \in Holders /\ to \in Holders /\ u # to
  BY AccountsAssumption DEF Holders, Transfer
<1>2. balanceOf[u] \in Nat /\ balanceOf[to] \in Nat  BY <1>1 DEF SharesOK
<1>3. s \in Nat /\ s <= balanceOf[u]
  <2>1. s \in Int  BY <1>2, ChoicesAssumption
  <2>2. QED  BY <1>2, <2>1 DEF Transfer, HasShares
<1>4. balanceOf[u] - s \in Nat /\ balanceOf[to] + s \in Nat  BY <1>2, <1>3
<1>5. balanceOf' = [balanceOf EXCEPT ![u] = balanceOf[u] - s, ![to] = balanceOf[to] + s]
  BY <1>1 DEF Transfer, SharesOK
<1>6. balanceOf' \in [Holders -> Nat]  BY <1>1, <1>4, <1>5 DEF SharesOK
<1>7. SharesOK'  BY <1>6 DEF Transfer, SharesOK, SharesHaveAssets, pool
<1>8. TermsOK'  BY TermsFrame DEF Transfer, queue, owned
<1>9. QED  BY <1>7, <1>8

LEMMA AUMTyped ==
    ASSUME SharesOK, TermsOK
    PROVE  TotalAUM \in Nat /\ (TotalAUM > 0 => totalPooledCore > 0)
<1>1. totalPooledCore \in Nat  BY DEF SharesOK
<1>2. CASE feed = 0  BY <1>1, <1>2 DEF TotalAUM
<1>3. CASE feed # 0
  <2>1. Value(totalPooledCore) \in Nat  BY <1>1, ValueTyped
  <2>2. TotalAUM = Value(totalPooledCore)  BY <1>3 DEF TotalAUM
  <2>3. ASSUME totalPooledCore = 0 PROVE TotalAUM = 0
    <3>1. CorePrice \in Nat  BY PriceTyped
    <3>2. 0 * CorePrice = 0  BY <3>1
    <3>3. 0 \div PRICE_UNIT = 0  BY PricesAssumption
    <3>4. QED  BY <2>2, <2>3, <3>2, <3>3 DEF Value
  <2>4. QED  BY <1>1, <2>1, <2>2, <2>3
<1>4. QED  BY <1>2, <1>3

LEMMA FeesKeep ==
    ASSUME SharesOK, TermsOK, CollectFees
    PROVE  /\ SharesOK' /\ TermsOK'
           /\ UNCHANGED token \/ \E n \in Nat : Mint(FeeRecipient, n)
           /\ \E n \in Nat : held >= Sent(n) /\ held' = held - Sent(n)
<1> DEFINE elapsed == now - lastFeeCollection
           fees == (TotalAUM * config.managementFee * elapsed) \div (10000 * Year)
           protocol == (fees * config.protocolFee) \div 10000
           rest == fees - protocol
<1>1. /\ TotalAUM \in Nat /\ config.managementFee \in Nat
      /\ config.protocolFee \in Nat /\ config.protocolFee <= 10000
      /\ elapsed \in Nat
  <2>1. elapsed \in Nat  BY DEF TermsOK
  <2>2. QED  BY <2>1, AUMTyped, FeesTyped
<1>2. fees \in Nat
  <2> HIDE DEF elapsed
  <2>1. TotalAUM * config.managementFee \in Nat  BY <1>1, MulTyped
  <2>2. TotalAUM * config.managementFee * elapsed \in Nat  BY <1>1, <2>1, MulTyped
  <2>3. 10000 * Year \in Nat \ {0}  BY ConstantsAssumption
  <2>4. QED  BY <2>2, <2>3, DivTyped
<1>3. protocol \in Nat /\ rest \in Int
  <2> HIDE DEF fees
  <2>1. fees * config.protocolFee \in Nat  BY <1>1, <1>2, MulTyped
  <2>2. protocol \in Nat  BY <2>1, DivTyped
  <2>3. QED  BY <1>2, <2>2
<1>4. /\ TotalAUM > 0
      /\ held >= Sent(protocol) /\ held' = held - Sent(protocol)
      /\ IF rest > 0 THEN Mintable /\ Mint(FeeRecipient, SharesToMint(rest))
                     ELSE UNCHANGED token
      /\ UNCHANGED <<totalPooledCore, withdrawalQueue, config, feed, now>>
      /\ lastFeeCollection' = now
  BY DEF CollectFees, queue, owned, world
<1> HIDE DEF rest, protocol
<1>5. CASE rest > 0
  <2>1. rest \in Nat  BY <1>3, <1>5
  <2>2. SharesToMint(rest) \in Nat  BY <1>4, <1>5, <2>1, MintedTyped
  <2>3. FeeRecipient \in Holders  BY AccountsAssumption DEF Holders
  <2>4. /\ balanceOf' = [balanceOf EXCEPT ![FeeRecipient] = @ + SharesToMint(rest)]
        /\ totalSupply' = totalSupply + SharesToMint(rest)
    BY <1>4, <1>5 DEF Mint
  <2>5. totalPooledCore > 0  BY <1>4, AUMTyped
  <2>6. SharesOK' /\ TermsOK'
    BY <1>4, <2>2, <2>3, <2>4, <2>5 DEF SharesOK, SharesHaveAssets, TermsOK
  <2>7. QED  BY <1>3, <1>4, <1>5, <2>2, <2>6
<1>6. CASE ~(rest > 0)
  <2>1. SharesOK' /\ TermsOK'  BY <1>4, <1>6, SharesFrame DEF TermsOK
  <2>2. QED  BY <1>3, <1>4, <1>6, <2>1
<1>7. QED  BY <1>5, <1>6

(* The steps that touch neither shares nor pool: delegation, settings, the  *)
(* price and the clock.                                                     *)
LEMMA SettingsKeep ==
    ASSUME SharesOK, TermsOK,
           Configure \/ Tick \/ \E p \in Prices \cup {0} : PriceMoves(p)
    PROVE  SharesOK' /\ TermsOK'
<1>1. UNCHANGED <<token, totalPooledCore, withdrawalQueue, lastFeeCollection>>
  BY DEF Configure, Tick, PriceMoves, pool, queue
<1>2. SharesOK'  BY <1>1, SharesFrame
<1>3. CASE Configure
  <2>1. config \in Configs /\ config.managementFee <= 1000 /\ config.protocolFee <= 5000  BY DEF TermsOK
  <2>2. config' \in Configs /\ config'.managementFee <= 1000 /\ config'.protocolFee <= 5000
    <3>1. ASSUME NEW fee \in FeeChoices,
                 \/ fee <= 1000 /\ config' = [config EXCEPT !.managementFee = fee]
                 \/ fee <= 5000 /\ config' = [config EXCEPT !.protocolFee = fee]
          PROVE  config' \in Configs /\ config'.managementFee <= 1000 /\ config'.protocolFee <= 5000
      <4>1. fee \in Nat  BY ChoicesAssumption
      <4>2. CASE fee <= 1000 /\ config' = [config EXCEPT !.managementFee = fee]
        <5>1. QED  BY <2>1, <4>1, <4>2 DEF Configs
      <4>3. CASE fee <= 5000 /\ config' = [config EXCEPT !.protocolFee = fee]
        <5>1. QED  BY <2>1, <4>1, <4>3 DEF Configs
      <4>4. QED  BY <3>1, <4>2, <4>3
    <3>2. ASSUME NEW set \in BOOLEAN,
                 \/ config' = [config EXCEPT !.asETH = set]
                 \/ config' = [config EXCEPT !.staking = set]
                 \/ config' = [config EXCEPT !.treasury = set]
          PROVE  config' \in Configs /\ config'.managementFee <= 1000 /\ config'.protocolFee <= 5000
      BY <2>1, <3>2 DEF Configs
    <3>3. CASE UNCHANGED config  BY <2>1, <3>3
    <3> DEFINE Fee == \E fee \in FeeChoices :
                         \/ fee <= 1000 /\ config' = [config EXCEPT !.managementFee = fee]
                         \/ fee <= 5000 /\ config' = [config EXCEPT !.protocolFee = fee]
               Flag == \E set \in BOOLEAN :
                          \/ config' = [config EXCEPT !.asETH = set]
                          \/ config' = [config EXCEPT !.staking = set]
                          \/ config' = [config EXCEPT !.treasury = set]
    <3>4. Fee \/ Flag \/ UNCHANGED config  BY <1>3 DEF Configure
    <3>5. QED  BY <3>1, <3>2, <3>3, <3>4
  <2>3. QED  BY <1>1, <1>2, <1>3, <2>2 DEF Configure, TermsOK, world
<1>4. CASE Tick  BY <1>1, <1>2, <1>4 DEF Tick, TermsOK, owned
<1>5. ASSUME NEW p \in Prices \cup {0}, PriceMoves(p) PROVE SharesOK' /\ TermsOK'
  BY <1>1, <1>2, <1>5 DEF PriceMoves, TermsOK, owned
<1>6. QED  BY <1>3, <1>4, <1>5

-----------------------------------------------------------------------------
(* The other steps: rewards, coin received, delegation and the validators.  *)
LEMMA RewardsKeep ==
    ASSUME SharesOK, TermsOK,
           SimulateRewards \/ \E r \in Rewards : ClaimAndReinvestRewards(r)
    PROVE  SharesOK' /\ TermsOK' /\ UNCHANGED token
<1>1. totalPooledCore \in Nat  BY DEF SharesOK
<1>2. CASE SimulateRewards
  <2> DEFINE n == (totalPooledCore * 85) \div 10000
  <2>1. n \in Nat
    <3>1. totalPooledCore * 85 \in Nat  BY <1>1, MulTyped
    <3>2. QED  BY <3>1, DivTyped
  <2>2. totalPooledCore' = totalPooledCore + n /\ UNCHANGED token
    BY <1>2 DEF SimulateRewards
  <2> HIDE DEF n
  <2>3. SharesOK'  BY <2>1, <2>2, RewardKeeps
  <2>4. TermsOK'  BY <1>2, TermsFrame DEF SimulateRewards, queue, owned
  <2>5. QED  BY <2>2, <2>3, <2>4
<1>3. ASSUME NEW r \in Rewards, ClaimAndReinvestRewards(r)
      PROVE  SharesOK' /\ TermsOK' /\ UNCHANGED token
  <2>1. r \in Nat  BY ChoicesAssumption
  <2>2. totalPooledCore' = totalPooledCore + r /\ UNCHANGED token
    BY <1>3 DEF ClaimAndReinvestRewards
  <2>3. SharesOK'  BY <2>1, <2>2, RewardKeeps
  <2>4. TermsOK'  BY <1>3, TermsFrame DEF ClaimAndReinvestRewards, queue, owned
  <2>5. QED  BY <2>2, <2>3, <2>4
<1>4. QED  BY <1>2, <1>3

Delegates ==
    \/ \E c \in Amounts : Receive(c)
    \/ \E view \in Views :
          \/ \E amount \in Parts \cup {0} : DelegateCore(amount, view)
          \/ \E from, to \in Validators, amount \in Parts :
                RebalanceCoreStaking(from, to, amount, view)
    \/ \E v \in Validators : AddCoreValidator(v) \/ RemoveCoreValidator(v)
    \/ \E risk \in RiskChoices : SetRebalanceThresholds(risk)

LEMMA DelegatesKeep ==
    ASSUME SharesOK, TermsOK, Delegates
    PROVE  SharesOK' /\ TermsOK' /\ UNCHANGED token
<1> DEFINE Kept == UNCHANGED <<token, totalPooledCore, withdrawalQueue, config, feed,
                               lastFeeCollection, now>>
<1>1. Kept
  <2>1. ASSUME NEW c \in Amounts, Receive(c) PROVE Kept
    BY <2>1 DEF Receive, queue, owned
  <2>2. ASSUME NEW view \in Views, NEW amount \in Parts \cup {0},
               DelegateCore(amount, view)
        PROVE  Kept
    <3>1. UNCHANGED <<token, totalPooledCore, queue, lastFeeCollection, owned, world>>
      BY <2>2 DEF DelegateCore
    <3>2. QED  BY <3>1 DEF queue, owned, world
  <2>3. ASSUME NEW view \in Views, NEW from \in Validators, NEW to \in Validators,
               NEW amount \in Parts, RebalanceCoreStaking(from, to, amount, view)
        PROVE  Kept
    <3>1. UNCHANGED <<token, pool, queue, lastFeeCollection, owned, world>>
      BY <2>3 DEF RebalanceCoreStaking
    <3>2. QED  BY <3>1 DEF pool, queue, owned, world
  <2>4. ASSUME NEW v \in Validators, AddCoreValidator(v) \/ RemoveCoreValidator(v)
        PROVE  Kept
    BY <2>4 DEF AddCoreValidator, RemoveCoreValidator, pool, queue, owned, world
  <2>5. ASSUME NEW risk \in RiskChoices, SetRebalanceThresholds(risk) PROVE Kept
    BY <2>5 DEF SetRebalanceThresholds, pool, queue, owned, world
  <2> HIDE DEF Kept
  <2>6. QED  BY <2>1, <2>2, <2>3, <2>4, <2>5, Zenon DEF Delegates
<1>2. QED  BY <1>1, SharesFrame, TermsFrame

-----------------------------------------------------------------------------
(* What each step does to the shares and what is behind them: it keeps the  *)
(* invariant, and where it burns shares it keeps their worth.               *)
Worth == totalSupply' < totalSupply =>
             totalPooledCore' * totalSupply >= totalPooledCore * totalSupply'

(* Steps that leave or raise the supply have nothing to keep.               *)
LEMMA NoBurn ==
    ASSUME SharesOK, SharesOK', totalSupply' >= totalSupply
    PROVE  Worth
  BY DEF SharesOK, Worth

LEMMA WorthOfNumbers ==
    ASSUME NEW T \in Nat, NEW T2 \in Nat, NEW S \in Nat, NEW S2 \in Nat,
           T <= T2, S2 < S
    PROVE  T2 * S >= T * S2
<1>1. T * S2 \in Nat /\ T2 * S2 \in Nat /\ T2 * S \in Nat  BY MulTyped
<1>2. T * S2 <= T2 * S2  BY MulOrder
<1>3. S2 * T2 <= S * T2  BY MulOrder
<1>4. QED  BY <1>1, <1>2, <1>3

(* Neither have steps that pay nothing out of the pool.                     *)
LEMMA NoPayout ==
    ASSUME SharesOK, SharesOK', totalPooledCore' >= totalPooledCore
    PROVE  Worth
<1>1. /\ totalPooledCore \in Nat /\ totalPooledCore' \in Nat
      /\ totalSupply \in Nat /\ totalSupply' \in Nat
  BY DEF SharesOK
<1>2. QED  BY <1>1, WorthOfNumbers DEF Worth

LEMMA StepKeeps ==
    ASSUME SharesOK, TermsOK, HoldersCovered, [Next]_vars
    PROVE  SharesOK' /\ TermsOK' /\ Worth
<1>1. ASSUME NEW u \in Users, NEW c \in Amounts, NEW reduction \in Reductions,
             Deposit(u, c, reduction)
      PROVE  SharesOK' /\ TermsOK' /\ Worth
  <2>1. SharesOK' /\ TermsOK'  BY <1>1, DepositKeeps
  <2>2. totalPooledCore' >= totalPooledCore /\ totalPooledCore \in Nat
    BY <1>1, ChoicesAssumption DEF Deposit, SharesOK
  <2>3. Worth  BY <2>1, <2>2, NoPayout DEF SharesOK
  <2>4. QED  BY <2>1, <2>3
<1>2. ASSUME NEW u \in Users,
             NEW s \in Parts \cup {balanceOf[u] - 1, balanceOf[u]},
             RequestWithdrawal(u, s)
      PROVE  SharesOK' /\ TermsOK' /\ Worth
  <2>1. SharesOK' /\ TermsOK'  BY <1>2, RequestKeeps
  <2>2. totalSupply' = totalSupply  BY <1>2 DEF RequestWithdrawal
  <2>3. QED  BY <2>1, <2>2, NoBurn DEF SharesOK
<1>3. ASSUME NEW u \in Users,
             NEW s \in Parts \cup {balanceOf[u] - 1, balanceOf[u]},
             InstantRedeem(u, s) \/ Redeem(u, s)
      PROVE  SharesOK' /\ TermsOK' /\ Worth
  BY <1>3, RedeemKeeps DEF Worth
<1>4. ASSUME NEW u \in Users,
             NEW s \in Parts \cup {balanceOf[u] - 1, balanceOf[u]},
             NEW to \in TransferTo, Transfer(u, to, s)
      PROVE  SharesOK' /\ TermsOK' /\ Worth
  <2>1. SharesOK' /\ TermsOK'  BY <1>4, TransferKeeps
  <2>2. totalSupply' = totalSupply  BY <1>4 DEF Transfer
  <2>3. QED  BY <2>1, <2>2, NoBurn DEF SharesOK
<1>5. ASSUME NEW id \in DOMAIN withdrawalQueue, ProcessWithdrawal(id)
      PROVE  SharesOK' /\ TermsOK' /\ Worth
  BY <1>5, ProcessKeeps DEF Worth
<1>6. CASE CollectFees
  <2>1. SharesOK' /\ TermsOK'  BY <1>6, FeesKeep
  <2>2. totalPooledCore' = totalPooledCore  BY <1>6 DEF CollectFees
  <2>3. Worth  BY <2>1, <2>2, NoPayout DEF SharesOK
  <2>4. QED  BY <2>1, <2>3
<1>7. CASE SimulateRewards \/ \E r \in Rewards : ClaimAndReinvestRewards(r)
  <2>1. SharesOK' /\ TermsOK' /\ totalSupply' = totalSupply
    BY <1>7, RewardsKeep DEF token
  <2>2. QED  BY <2>1, NoBurn DEF SharesOK
<1>8. CASE Delegates
  <2>1. SharesOK' /\ TermsOK' /\ totalSupply' = totalSupply
    BY <1>8, DelegatesKeep DEF token
  <2>2. QED  BY <2>1, NoBurn DEF SharesOK
<1>9. CASE Configure \/ Tick \/ \E p \in Prices \cup {0} : PriceMoves(p)
  <2>1. SharesOK' /\ TermsOK'  BY <1>9, SettingsKeep
  <2>2. totalSupply' = totalSupply  BY <1>9 DEF Configure, Tick, PriceMoves, token
  <2>3. QED  BY <2>1, <2>2, NoBurn DEF SharesOK
<1>10. CASE UNCHANGED vars
  <2>1. UNCHANGED <<token, totalPooledCore, withdrawalQueue, config, feed,
                    lastFeeCollection, now, totalSupply>>
    BY <1>10 DEF vars, token, pool, queue, owned, world
  <2>2. SharesOK' /\ TermsOK'  BY <2>1, SharesFrame, TermsFrame
  <2>3. QED  BY <2>1, <2>2, NoBurn DEF SharesOK
<1>11. QED
  BY <1>1, <1>2, <1>3, <1>4, <1>5, <1>6, <1>7, <1>8, <1>9, <1>10
  DEF Next, Delegates

-----------------------------------------------------------------------------
(* What a step does to the shares and the queue, with amounts that are      *)
(* natural numbers.                                                         *)
Moved(u, to, s) ==
    /\ balanceOf' = [balanceOf EXCEPT ![u] = @ - s, ![to] = @ + s]
    /\ UNCHANGED totalSupply

LEMMA ShareSteps ==
    ASSUME SharesOK, TermsOK, [Next]_vars
    PROVE  \/ UNCHANGED token /\ UNCHANGED withdrawalQueue
           \/ \E h \in Users, n \in Nat : Mint(h, n) /\ UNCHANGED withdrawalQueue
           \/ \E h \in Users, n \in Nat : Burn(h, n) /\ UNCHANGED withdrawalQueue
           \/ \E u \in Users, to \in Holders, s \in Nat :
                 u # to /\ Moved(u, to, s) /\ UNCHANGED withdrawalQueue
           \/ \E u \in Users, s \in Nat : RequestWithdrawal(u, s)
           \/ \E id \in DOMAIN withdrawalQueue : ProcessWithdrawal(id)
<1> DEFINE Rests   == UNCHANGED token /\ UNCHANGED withdrawalQueue
           Mints   == \E h \in Users, n \in Nat : Mint(h, n) /\ UNCHANGED withdrawalQueue
           Burns   == \E h \in Users, n \in Nat : Burn(h, n) /\ UNCHANGED withdrawalQueue
           Moves   == \E u \in Users, to \in Holders, s \in Nat :
                         u # to /\ Moved(u, to, s) /\ UNCHANGED withdrawalQueue
           Asks    == \E u \in Users, s \in Nat : RequestWithdrawal(u, s)
           Pays    == \E id \in DOMAIN withdrawalQueue : ProcessWithdrawal(id)
<1>1. ASSUME NEW u \in Users, NEW s \in Parts \cup {balanceOf[u] - 1, balanceOf[u]},
             HasShares(u, s)
      PROVE  s \in Nat
  <2>1. balanceOf[u] \in Nat  BY DEF SharesOK, Holders
  <2>2. s \in Int  BY <2>1, ChoicesAssumption
  <2>3. QED  BY <1>1, <2>1, <2>2 DEF HasShares
<1>2. ASSUME NEW u \in Users, NEW c \in Amounts, NEW reduction \in Reductions,
             Deposit(u, c, reduction)
      PROVE  Mints
  BY <1>2, DepositKeeps DEF Deposit, queue
<1>3. ASSUME NEW u \in Users, NEW s \in Parts \cup {balanceOf[u] - 1, balanceOf[u]},
             RequestWithdrawal(u, s)
      PROVE  Asks
  BY <1>1, <1>3 DEF RequestWithdrawal
<1>4. ASSUME NEW u \in Users, NEW s \in Parts \cup {balanceOf[u] - 1, balanceOf[u]},
             InstantRedeem(u, s) \/ Redeem(u, s)
      PROVE  Burns
  BY <1>1, <1>4 DEF InstantRedeem, Redeem, queue
<1>5. ASSUME NEW u \in Users, NEW s \in Parts \cup {balanceOf[u] - 1, balanceOf[u]},
             NEW to \in TransferTo, Transfer(u, to, s)
      PROVE  Moves
  <2>1. s \in Nat  BY <1>1, <1>5 DEF Transfer
  <2>2. to \in Holders  BY AccountsAssumption
  <2>3. u # to /\ Moved(u, to, s) /\ UNCHANGED withdrawalQueue
    BY <1>5 DEF Transfer, Moved, queue
  <2>4. QED  BY <2>1, <2>2, <2>3
<1>6. ASSUME CollectFees PROVE Rests \/ Mints
  <2>1. UNCHANGED withdrawalQueue  BY <1>6 DEF CollectFees, queue
  <2>2. UNCHANGED token \/ \E n \in Nat : Mint(FeeRecipient, n)  BY <1>6, FeesKeep
  <2>3. FeeRecipient \in Users  BY AccountsAssumption
  <2>4. QED  BY <2>1, <2>2, <2>3
<1>7. ASSUME SimulateRewards \/ \E r \in Rewards : ClaimAndReinvestRewards(r) PROVE Rests
  BY <1>7 DEF SimulateRewards, ClaimAndReinvestRewards, queue
<1>8. ASSUME Delegates PROVE Rests
  <2>1. ASSUME NEW c, Receive(c) PROVE Rests  BY <2>1 DEF Receive, queue
  <2>2. ASSUME NEW view, NEW amount, DelegateCore(amount, view) PROVE Rests
    BY <2>2 DEF DelegateCore, queue
  <2>3. ASSUME NEW view, NEW from, NEW to, NEW amount,
               RebalanceCoreStaking(from, to, amount, view)
        PROVE  Rests
    BY <2>3 DEF RebalanceCoreStaking, queue
  <2>4. ASSUME NEW v, AddCoreValidator(v) \/ RemoveCoreValidator(v) PROVE Rests
    BY <2>4 DEF AddCoreValidator, RemoveCoreValidator, queue
  <2>5. ASSUME NEW risk, SetRebalanceThresholds(risk) PROVE Rests
    BY <2>5 DEF SetRebalanceThresholds, queue
  <2> HIDE DEF Rests
  <2>6. QED  BY <1>8, <2>1, <2>2, <2>3, <2>4, <2>5, Zenon DEF Delegates
<1>9. ASSUME Configure \/ Tick \/ \E p \in Prices \cup {0} : PriceMoves(p) PROVE Rests
  BY <1>9 DEF Configure, Tick, PriceMoves, queue
<1>10. ASSUME UNCHANGED vars PROVE Rests  BY <1>10 DEF vars, queue
<1> HIDE DEF Rests, Mints, Burns, Moves, Asks, Pays
<1>11. Rests \/ Mints \/ Burns \/ Moves \/ Asks \/ Pays
  <2>1. (\E id \in DOMAIN withdrawalQueue : ProcessWithdrawal(id)) => Pays  BY DEF Pays
  <2>2. QED
    BY <1>2, <1>3, <1>4, <1>5, <1>6, <1>7, <1>8, <1>9, <1>10, <2>1
       DEF Next, Delegates
<1>12. QED  BY <1>11 DEF Rests, Mints, Burns, Moves, Asks, Pays

-----------------------------------------------------------------------------
(* No share appears or disappears but by a mint or a burn.                  *)
SupplyExact == totalSupply = SumFunctionOnSet(balanceOf, Holders)

LEMMA HoldersFinite == IsFiniteSet(Holders)
  BY AccountsAssumption, FS_AddElement DEF Holders

LEMMA SupplyCovers == SharesOK /\ SupplyExact => HoldersCovered
<1> SUFFICES ASSUME SharesOK, SupplyExact PROVE HoldersCovered
  OBVIOUS
<1>1. \A h \in Holders : balanceOf[h] \in Nat  BY DEF SharesOK
<1>2. QED  BY <1>1, HoldersFinite, SumMember DEF HoldersCovered, SupplyExact

LEMMA SupplyInitially == Init => SupplyExact
<1> SUFFICES ASSUME Init PROVE SupplyExact
  OBVIOUS
<1>1. totalSupply = 0 /\ \A h \in Holders : balanceOf[h] = 0  BY DEF Init
<1>2. QED  BY <1>1, HoldersFinite, SumZero DEF SupplyExact

(* Moving shares from one holder to another.                                *)
LEMMA SupplyMoved ==
    ASSUME SharesOK, SharesOK', SupplyExact, NEW u \in Holders, NEW to \in Holders, u # to,
           NEW s \in Nat, Moved(u, to, s)
    PROVE  SupplyExact'
<1> DEFINE f == balanceOf
           g == balanceOf'
           S == Holders
<1>1. /\ IsFiniteSet(S) /\ u \in S /\ to \in S
      /\ \A h \in S : f[h] \in Int /\ g[h] \in Int
      /\ \A h \in S \ {u, to} : g[h] = f[h]
      /\ g[u] = f[u] - s /\ g[to] = f[to] + s
  BY HoldersFinite DEF SharesOK, Moved
<1>2. s \in Int  OBVIOUS
<1> HIDE DEF f, g, S
<1>3. SumFunctionOnSet(g, S) = SumFunctionOnSet(f, S)  BY <1>1, <1>2, SumMove, Zenon
<1>4. QED  BY <1>3 DEF SupplyExact, Moved, f, g, S

(* Minting to a holder, or burning from it.                                 *)
LEMMA SupplyChanged ==
    ASSUME SharesOK, SharesOK', SupplyExact, NEW h \in Holders, NEW d \in Int,
           balanceOf' = [balanceOf EXCEPT ![h] = balanceOf[h] + d],
           totalSupply' = totalSupply + d
    PROVE  SupplyExact'
<1> DEFINE f == balanceOf
           g == balanceOf'
           S == Holders
<1>1. /\ IsFiniteSet(S) /\ h \in S
      /\ \A x \in S : f[x] \in Int /\ g[x] \in Int
      /\ \A x \in S \ {h} : g[x] = f[x]
      /\ g[h] = f[h] + d
  BY HoldersFinite DEF SharesOK
<1> HIDE DEF f, g, S
<1>2. SumFunctionOnSet(g, S) = SumFunctionOnSet(f, S) + (g[h] - f[h])
  BY <1>1, SumChange, Zenon
<1>3. f[h] \in Int /\ g[h] - f[h] = d  BY <1>1
<1>4. SumFunctionOnSet(g, S) = SumFunctionOnSet(f, S) + d  BY <1>2, <1>3
<1>5. QED  BY <1>4 DEF SupplyExact, f, g, S

LEMMA SupplyMinted ==
    ASSUME SharesOK, SharesOK', SupplyExact, NEW h \in Holders, NEW n \in Nat, Mint(h, n)
    PROVE  SupplyExact'
<1>1. /\ balanceOf' = [balanceOf EXCEPT ![h] = balanceOf[h] + n]
      /\ totalSupply' = totalSupply + n
  BY DEF Mint
<1>2. n \in Int  OBVIOUS
<1>3. QED  BY <1>1, <1>2, SupplyChanged

LEMMA SupplyBurned ==
    ASSUME SharesOK, SharesOK', SupplyExact, NEW h \in Holders, NEW n \in Nat, Burn(h, n)
    PROVE  SupplyExact'
<1>1. balanceOf[h] - n = balanceOf[h] + (-n) /\ totalSupply - n = totalSupply + (-n)
      /\ -n \in Int
  BY DEF SharesOK
<1>2. /\ balanceOf' = [balanceOf EXCEPT ![h] = balanceOf[h] + (-n)]
      /\ totalSupply' = totalSupply + (-n)
  BY <1>1 DEF Burn
<1>3. QED  BY <1>1, <1>2, SupplyChanged

(* What a request and its processing do, with amounts that are numbers.     *)
LEMMA RequestMoves ==
    ASSUME NEW u \in Users, NEW s, RequestWithdrawal(u, s)
    PROVE  Moved(u, Basket, s) /\ u # Basket /\ u \in Holders /\ Basket \in Holders
  BY AccountsAssumption DEF RequestWithdrawal, EscrowedFrom, Moved, Holders

LEMMA ProcessBurns ==
    ASSUME TermsOK, NEW id \in DOMAIN withdrawalQueue, ProcessWithdrawal(id)
    PROVE  /\ withdrawalQueue[id] \in Requests
           /\ withdrawalQueue[id].shares \in Nat
           /\ Burn(Basket, withdrawalQueue[id].shares)
           /\ Basket \in Holders
<1>1. withdrawalQueue[id] \in Requests  BY DEF TermsOK
<1>2. QED  BY <1>1 DEF Requests, ProcessWithdrawal, Holders

LEMMA SupplyNext ==
    ASSUME SharesOK, SharesOK', TermsOK, SupplyExact, [Next]_vars
    PROVE  SupplyExact'
<1>1. Users \subseteq Holders  BY DEF Holders
<1>2. CASE UNCHANGED token  BY <1>2 DEF token, SupplyExact
<1>3. ASSUME NEW h \in Users, NEW n \in Nat, Mint(h, n) PROVE SupplyExact'
  BY <1>1, <1>3, SupplyMinted
<1>4. ASSUME NEW h \in Users, NEW n \in Nat, Burn(h, n) PROVE SupplyExact'
  BY <1>1, <1>4, SupplyBurned
<1>5. ASSUME NEW u \in Users, NEW to \in Holders, NEW s \in Nat, u # to, Moved(u, to, s)
      PROVE  SupplyExact'
  BY <1>1, <1>5, SupplyMoved
<1>6. ASSUME NEW u \in Users, NEW s \in Nat, RequestWithdrawal(u, s) PROVE SupplyExact'
  BY <1>6, RequestMoves, SupplyMoved
<1>7. ASSUME NEW id \in DOMAIN withdrawalQueue, ProcessWithdrawal(id) PROVE SupplyExact'
  BY <1>7, ProcessBurns, SupplyBurned
<1>8. QED  BY <1>2, <1>3, <1>4, <1>5, <1>6, <1>7, ShareSteps

-----------------------------------------------------------------------------
(* The escrow: the shares of the open requests, by request.                 *)
OpenAt == [id \in DOMAIN withdrawalQueue |->
              IF withdrawalQueue[id].isProcessed THEN 0 ELSE withdrawalQueue[id].shares]

LEMMA OpenRequests ==
    ASSUME TermsOK
    PROVE  /\ \A id \in DOMAIN withdrawalQueue :
                 withdrawalQueue[id] \in Requests /\ OpenAt[id] \in Nat
           /\ IsFiniteSet(DOMAIN withdrawalQueue)
           /\ DOMAIN withdrawalQueue = 1..Len(withdrawalQueue)
           /\ Len(withdrawalQueue) \in Nat
<1>1. \A id \in DOMAIN withdrawalQueue : withdrawalQueue[id] \in Requests
  BY DEF TermsOK
<1>2. \A id \in DOMAIN withdrawalQueue : OpenAt[id] \in Nat
  BY <1>1 DEF OpenAt, Requests
<1>3. DOMAIN withdrawalQueue = 1..Len(withdrawalQueue) /\ Len(withdrawalQueue) \in Nat
  BY DEF TermsOK
<1>4. QED  BY <1>1, <1>2, <1>3, FS_Interval

LEMMA EscrowSum ==
    EscrowCovers <=> SumFunctionOnSet(OpenAt, DOMAIN withdrawalQueue) <= balanceOf[Basket]
<1>1. DOMAIN OpenAt = DOMAIN withdrawalQueue  BY DEF OpenAt
<1>2. SumFunction(OpenAt) = SumFunctionOnSet(OpenAt, DOMAIN withdrawalQueue)
  BY <1>1 DEF SumFunction
<1>3. EscrowCovers <=> SumFunction(OpenAt) <= balanceOf[Basket]
  BY DEF EscrowCovers, OpenAt
<1>4. QED  BY <1>2, <1>3

LEMMA EscrowSumNext ==
    EscrowCovers' <=>
        SumFunctionOnSet(OpenAt', DOMAIN withdrawalQueue') <= balanceOf'[Basket]
<1>1. DOMAIN OpenAt' = DOMAIN withdrawalQueue'  BY DEF OpenAt
<1>2. SumFunction(OpenAt') = SumFunctionOnSet(OpenAt', DOMAIN withdrawalQueue')
  BY <1>1 DEF SumFunction
<1>3. EscrowCovers' <=> SumFunction(OpenAt') <= balanceOf'[Basket]
  BY DEF EscrowCovers, OpenAt
<1>4. QED  BY <1>2, <1>3

LEMMA EscrowInitially == Init => EscrowCovers
<1> SUFFICES ASSUME Init PROVE EscrowCovers
  OBVIOUS
<1>1. DOMAIN withdrawalQueue = {}  BY DEF Init
<1>2. balanceOf[Basket] = 0  BY DEF Init, Holders
<1>3. SumFunctionOnSet(OpenAt, {}) = 0  BY SumEmpty
<1>4. QED  BY <1>1, <1>2, <1>3, EscrowSum

LEMMA EscrowNext ==
    ASSUME SharesOK, SharesOK', TermsOK, EscrowCovers, [Next]_vars
    PROVE  EscrowCovers'
<1> DEFINE ids == DOMAIN withdrawalQueue
           Escrow == SumFunctionOnSet(OpenAt, ids)
           Later  == SumFunctionOnSet(OpenAt', ids')
<1>1. Basket \in Holders /\ \A u \in Users : u \in Holders /\ u # Basket
  BY AccountsAssumption DEF Holders
<1>2. /\ \A id \in ids : withdrawalQueue[id] \in Requests /\ OpenAt[id] \in Nat
      /\ IsFiniteSet(ids)
  BY OpenRequests
<1>3. Escrow \in Nat  BY <1>2, SumNat
<1>4. Escrow <= balanceOf[Basket]  BY EscrowSum
<1>5. balanceOf[Basket] \in Nat /\ balanceOf'[Basket] \in Nat  BY <1>1 DEF SharesOK
<1>6. SUFFICES Later <= balanceOf'[Basket]  BY EscrowSumNext
<1>7. UNCHANGED withdrawalQueue => Later = Escrow  BY DEF OpenAt
<1> HIDE DEF Escrow
<1>8. CASE UNCHANGED token /\ UNCHANGED withdrawalQueue
  BY <1>4, <1>7, <1>8 DEF token
<1>9. ASSUME NEW h \in Users, NEW n \in Nat, Mint(h, n) \/ Burn(h, n),
             UNCHANGED withdrawalQueue
      PROVE  Later <= balanceOf'[Basket]
  <2>1. balanceOf'[Basket] = balanceOf[Basket]
    BY <1>1, <1>9 DEF Mint, Burn, SharesOK
  <2>2. QED  BY <1>4, <1>7, <1>9, <2>1
<1>10. ASSUME NEW u \in Users, NEW to \in Holders, NEW s \in Nat, Moved(u, to, s),
              UNCHANGED withdrawalQueue
       PROVE  Later <= balanceOf'[Basket]
  <2>1. balanceOf'[Basket] >= balanceOf[Basket]
    BY <1>1, <1>5, <1>10 DEF SharesOK, Moved
  <2>2. QED  BY <1>3, <1>4, <1>5, <1>7, <1>10, <2>1
<1>11. ASSUME NEW u \in Users, NEW s \in Nat, RequestWithdrawal(u, s)
       PROVE  Later <= balanceOf'[Basket]
  <2> DEFINE n == Len(withdrawalQueue) + 1
             r == [user |-> u, shares |-> s, requestTime |-> now, isProcessed |-> FALSE]
  <2>1. balanceOf'[Basket] = balanceOf[Basket] + s
    BY <1>1, <1>11, RequestMoves DEF Moved, SharesOK
  <2>2. withdrawalQueue' = Append(withdrawalQueue, r)  BY <1>11 DEF RequestWithdrawal
  <2>3. r \in Requests /\ r.shares = s /\ ~r.isProcessed  BY DEF Requests, TermsOK
  <2> HIDE DEF r
  <2>4. ids = 1..(n - 1) /\ n \in Nat \ {0}  BY OpenRequests
  <2>5. ids' = ids \cup {n} /\ n \notin ids  BY <2>2, <2>3, <2>4 DEF TermsOK
  <2>6. withdrawalQueue'[n] = r
        /\ \A id \in ids : withdrawalQueue'[id] = withdrawalQueue[id]
    BY <2>2, <2>3, <2>4 DEF TermsOK
  <2>7. OpenAt'[n] = s /\ \A id \in ids : OpenAt'[id] = OpenAt[id]
    BY <2>3, <2>5, <2>6 DEF OpenAt
  <2> HIDE DEF n, ids
  <2>8. SumFunctionOnSet(OpenAt', ids \cup {n}) = s + SumFunctionOnSet(OpenAt', ids)
    BY <1>2, <2>5, <2>7, SumAdd
  <2>9. SumFunctionOnSet(OpenAt', ids) = Escrow  BY <1>2, <2>7, SumSame DEF Escrow
  <2>10. Later = s + Escrow  BY <2>5, <2>8, <2>9
  <2>11. QED  BY <1>3, <1>4, <1>5, <2>1, <2>10
<1>12. ASSUME NEW id \in DOMAIN withdrawalQueue, ProcessWithdrawal(id)
       PROVE  Later <= balanceOf'[Basket]
  <2> DEFINE r == withdrawalQueue[id]
             s == r.shares
  <2>1. r \in Requests /\ s \in Nat /\ Burn(Basket, s)  BY <1>12, ProcessBurns
  <2>2. ~r.isProcessed  BY <1>12 DEF ProcessWithdrawal, Due
  <2>3. withdrawalQueue' = [withdrawalQueue EXCEPT ![id] = [r EXCEPT !.isProcessed = TRUE]]
    BY <1>12 DEF ProcessWithdrawal, Processed
  <2>4. [r EXCEPT !.isProcessed = TRUE].isProcessed = TRUE  BY <2>1 DEF Requests
  <2>5. /\ ids' = ids /\ withdrawalQueue'[id] = [r EXCEPT !.isProcessed = TRUE]
        /\ \A i \in ids \ {id} : withdrawalQueue'[i] = withdrawalQueue[i]
    <3>1. ids' = ids /\ withdrawalQueue'[id] = [r EXCEPT !.isProcessed = TRUE]
      BY <1>12, <2>3
    <3>2. \A i \in ids \ {id} : withdrawalQueue'[i] = withdrawalQueue[i]
      BY <2>3
    <3>3. QED  BY <3>1, <3>2
  <2>6. OpenAt'[id] = 0 /\ OpenAt[id] = s /\ \A i \in ids \ {id} : OpenAt'[i] = OpenAt[i]
    BY <2>2, <2>4, <2>5 DEF OpenAt
  <2>7. balanceOf'[Basket] = balanceOf[Basket] - s  BY <1>1, <2>1 DEF Burn, SharesOK
  <2> HIDE DEF r, s
  <2>8. \A i \in ids : OpenAt[i] \in Int /\ OpenAt'[i] \in Int  BY <1>2, <2>6
  <2>9. SumFunctionOnSet(OpenAt', ids) = Escrow + (OpenAt'[id] - OpenAt[id])
    BY <1>2, <2>6, <2>8, SumChange DEF Escrow
  <2>10. Later = Escrow - s  BY <1>3, <2>1, <2>5, <2>6, <2>9
  <2>11. QED  BY <1>3, <1>4, <1>5, <2>1, <2>7, <2>10
<1> HIDE DEF Later
<1>13. QED  BY <1>8, <1>9, <1>10, <1>11, <1>12, ShareSteps

-----------------------------------------------------------------------------
(* The coin and the stake.  getOptimalValidatorDistribution hands out no    *)
(* more than the whole, so that delegateCore never sends more than it has.  *)
PoolOK ==
    /\ held \in Nat
    /\ activeCoreValidators \subseteq Validators
    /\ delegatedCoreByValidator \in [Validators -> Nat]

LEMMA AllocationTyped ==
    ASSUME NEW view \in Views
    PROVE  /\ Candidates(view) \subseteq Validators /\ IsFiniteSet(Candidates(view))
           /\ \A v \in Validators : view[v].apy \in Nat
           /\ SumFunctionOnSet([w \in Validators |-> view[w].apy], Candidates(view)) \in Nat
           /\ Candidates(view) # {} => Cardinality(Candidates(view)) \in Nat \ {0}
           /\ \A v \in Validators : Allocation(view, v) \in Nat
<1> DEFINE C == Candidates(view)
           apy == [w \in Validators |-> view[w].apy]
           total == SumFunctionOnSet(apy, C)
<1>1. C \subseteq Validators  BY DEF Candidates
<1>2. IsFiniteSet(C)  BY <1>1, ValidatorAssumption, FS_Subset
<1>3. \A v \in Validators : view[v].apy \in Nat  BY ValidatorAssumption DEF View
<1>4. \A v \in C : apy[v] \in Nat  BY <1>1, <1>3
<1> HIDE DEF apy
<1>5. total \in Nat  BY <1>2, <1>4, SumNat
<1>6. C # {} => Cardinality(C) \in Nat \ {0}
  BY <1>2, FS_CardinalityType, FS_EmptySet
<1>7. ASSUME NEW v \in Validators PROVE Allocation(view, v) \in Nat
  <2>1. Allocation(view, v) = IF v \notin C THEN 0
                              ELSE IF total > 0 THEN (view[v].apy * 10000) \div total
                              ELSE 10000 \div Cardinality(C)
    BY DEF Allocation, apy
  <2> HIDE DEF total
  <2>2. view[v].apy * 10000 \in Nat  BY <1>3, MulTyped
  <2>3. CASE v \notin C  BY <2>1, <2>3
  <2>4. CASE v \in C /\ total > 0
    <3>1. total \in Nat \ {0}  BY <1>5, <2>4
    <3>2. QED  BY <2>1, <2>2, <2>4, <3>1, DivTyped
  <2>5. CASE v \in C /\ ~(total > 0)
    <3>1. Cardinality(C) \in Nat \ {0}  BY <1>6, <2>5
    <3>2. QED  BY <2>1, <2>5, <3>1, DivTyped
  <2>6. QED  BY <2>3, <2>4, <2>5
<1>8. QED  BY <1>1, <1>2, <1>3, <1>5, <1>6, <1>7 DEF apy

LEMMA AllocationsWithin ==
    ASSUME NEW view \in Views, Candidates(view) # {}
    PROVE  SumFunctionOnSet([v \in Validators |-> Allocation(view, v)], Validators) <= 10000
<1> DEFINE C == Candidates(view)
           apy == [w \in Validators |-> view[w].apy]
           total == SumFunctionOnSet(apy, C)
           share == [v \in Validators |-> Allocation(view, v)]
           rest == Validators \ C
           card == Cardinality(C)
<1>1. /\ C \subseteq Validators /\ IsFiniteSet(C) /\ IsFiniteSet(rest)
      /\ C \cap rest = {} /\ C \cup rest = Validators
      /\ card \in Nat \ {0} /\ total \in Nat
  BY AllocationTyped, ValidatorAssumption, FS_Subset
<1>2. \A v \in Validators : share[v] \in Nat /\ apy[v] \in Nat
  BY AllocationTyped
<1>3. \A v \in rest : share[v] = 0  BY DEF Allocation
<1>4. \A v \in C : share[v] = IF total > 0 THEN (apy[v] * 10000) \div total
                              ELSE 10000 \div card
  BY <1>1 DEF Allocation
<1> HIDE DEF C, apy, share, rest, card
<1>5. SumFunctionOnSet(share, rest) = 0  BY <1>1, <1>3, SumZero
<1>6. SumFunctionOnSet(share, C) \in Nat  BY <1>1, <1>2, SumNat
<1>7. SumFunctionOnSet(share, Validators)
          = SumFunctionOnSet(share, C) + SumFunctionOnSet(share, rest)
  <2>1. (\A v \in C : share[v] \in Int) /\ (\A v \in rest : share[v] \in Int)
    BY <1>1, <1>2, <1>3
  <2>2. SumFunctionOnSet(share, C \cup rest)
            = SumFunctionOnSet(share, C) + SumFunctionOnSet(share, rest)
    BY <1>1, <2>1, SumUnion
  <2>3. QED  BY <1>1, <2>2
<1>8. SumFunctionOnSet(share, C) <= 10000
  <2>1. CASE total > 0
    <3>1. total \in Nat \ {0}  BY <1>1, <2>1
    <3> HIDE DEF total
    <3>2. \A v \in C : share[v] * total <= apy[v] * 10000
      <4> SUFFICES ASSUME NEW v \in C PROVE share[v] * total <= apy[v] * 10000
        OBVIOUS
      <4>1. apy[v] * 10000 \in Nat  BY <1>1, <1>2, MulTyped
      <4>2. share[v] = (apy[v] * 10000) \div total  BY <1>4, <2>1
      <4>3. QED  BY <3>1, <4>1, <4>2, DivBelow
    <3>3. \A v \in C : apy[v] \in Nat /\ share[v] \in Nat /\ share[v] * total <= apy[v] * 10000
      BY <1>1, <1>2, <3>2
    <3>4. 10000 \in Nat /\ total \in Nat  BY <3>1
    <3>5. SumFunctionOnSet(share, C) * total <= SumFunctionOnSet(apy, C) * 10000
      BY <1>1, <3>3, <3>4, SumScaled
    <3>6. SumFunctionOnSet(share, C) * total <= 10000 * total
      BY <3>1, <3>5 DEF total
    <3>7. QED  BY <1>6, <3>1, <3>4, <3>6, MulCancel
  <2>2. CASE ~(total > 0)
    <3> DEFINE one == [v \in C |-> 1]
    <3>1. \A v \in C : one[v] = 1  OBVIOUS
    <3>2. \A v \in C : share[v] = 10000 \div card  BY <1>4, <2>2
    <3>3. (10000 \div card) * card <= 10000  BY <1>1, DivBelow
    <3> HIDE DEF one
    <3>4. \A v \in C : one[v] \in Nat /\ share[v] \in Nat /\ share[v] * card <= one[v] * 10000
      BY <1>1, <1>2, <3>1, <3>2, <3>3
    <3>5. 10000 \in Nat /\ card \in Nat  BY <1>1
    <3>6. SumFunctionOnSet(share, C) * card <= SumFunctionOnSet(one, C) * 10000
      BY <1>1, <3>4, <3>5, SumScaled
    <3>7. SumFunctionOnSet(one, C) = card  BY <1>1, <3>1, SumOnes DEF card
    <3>8. SumFunctionOnSet(share, C) * card <= 10000 * card
      BY <1>1, <3>6, <3>7
    <3>9. QED  BY <1>1, <1>6, <3>5, <3>8, MulCancel
  <2>3. QED  BY <2>1, <2>2
<1>9. QED  BY <1>5, <1>6, <1>7, <1>8 DEF share

(* The parts of a sum that delegateCore sends to the validators.            *)
Part(sum, view) == [v \in Validators |-> (sum * Allocation(view, v)) \div 10000]

LEMMA PartsWithin ==
    ASSUME NEW view \in Views, Candidates(view) # {}, NEW sum \in Nat
    PROVE  /\ \A v \in Validators : Part(sum, view)[v] \in Nat
           /\ SumFunctionOnSet(Part(sum, view), Validators) \in Nat
           /\ SumFunctionOnSet(Part(sum, view), Validators) <= sum
<1> DEFINE share == [v \in Validators |-> Allocation(view, v)]
           part == Part(sum, view)
           given == SumFunctionOnSet(share, Validators)
           sent == SumFunctionOnSet(part, Validators)
<1>1. \A v \in Validators : share[v] \in Nat  BY AllocationTyped
<1>2. \A v \in Validators : part[v] = (sum * share[v]) \div 10000  BY DEF Part
<1>3. given <= 10000  BY AllocationsWithin
<1> HIDE DEF share, part
<1>4. \A v \in Validators : part[v] \in Nat /\ part[v] * 10000 <= share[v] * sum
  <2> SUFFICES ASSUME NEW v \in Validators
               PROVE  part[v] \in Nat /\ part[v] * 10000 <= share[v] * sum
    OBVIOUS
  <2>1. sum * share[v] \in Nat /\ sum * share[v] = share[v] * sum  BY <1>1, MulTyped
  <2>2. part[v] \in Nat  BY <1>2, <2>1, DivTyped
  <2>3. part[v] * 10000 <= sum * share[v]  BY <1>2, <2>1, DivBelow
  <2>4. QED  BY <2>1, <2>2, <2>3
<1>5. IsFiniteSet(Validators)  BY ValidatorAssumption
<1>6. given \in Nat /\ sent \in Nat  BY <1>1, <1>4, <1>5, SumNat
<1>7. sent * 10000 <= given * sum
  <2>1. \A v \in Validators : share[v] \in Nat /\ part[v] \in Nat
                              /\ part[v] * 10000 <= share[v] * sum
    BY <1>1, <1>4
  <2>2. 10000 \in Nat  OBVIOUS
  <2>3. QED  BY <1>5, <2>1, <2>2, SumScaled
<1> HIDE DEF given, sent
<1>8. given * sum <= 10000 * sum  BY <1>3, <1>6, MulOrder
<1>9. sent * 10000 <= sum * 10000
  <2>1. given * sum \in Nat  BY <1>6, MulTyped
  <2>2. QED  BY <1>6, <1>7, <1>8, <2>1
<1>10. sent <= sum  BY <1>6, <1>9, MulCancel
<1>11. QED  BY <1>4, <1>6, <1>10 DEF part, sent

-----------------------------------------------------------------------------
(* What a step does to the pool's count, the coin and the stake.            *)
StakeSame == UNCHANGED <<activeCoreValidators, delegatedCoreByValidator>>

CountSame   == UNCHANGED <<totalPooledCore, held>> /\ StakeSame
PaidIn(n)   == totalPooledCore' = totalPooledCore + n /\ held' = held + n /\ StakeSame
PaidOut(n)  == /\ held >= n /\ held' = held - n
               /\ totalPooledCore' = totalPooledCore - n
               /\ StakeSame
Counted(n)  == /\ totalPooledCore' = totalPooledCore + n
               /\ UNCHANGED <<held, totalSupply>> /\ StakeSame
Sends       == \E view \in Views, amount \in Parts \cup {0} : DelegateCore(amount, view)
Shifts      == \E view \in Views, from, to \in Validators, amount \in Parts :
                  RebalanceCoreStaking(from, to, amount, view)
Lists       == \E v \in Validators : AddCoreValidator(v) \/ RemoveCoreValidator(v)
Receives    == \E c \in Amounts : Receive(c)

LEMMA PoolSteps ==
    ASSUME SharesOK, TermsOK, HoldersCovered, [Next]_vars
    PROVE  \/ CountSame
           \/ \E n \in Nat : PaidIn(n) \/ PaidOut(n) \/ Counted(n)
           \/ CollectFees \/ Sends \/ Shifts \/ Lists \/ Receives
<1> DEFINE Ins  == \E n \in Nat : PaidIn(n)
           Outs == \E n \in Nat : PaidOut(n)
           Adds == \E n \in Nat : Counted(n)
<1>1. ASSUME NEW u \in Users, NEW c \in Amounts, NEW reduction \in Reductions,
             Deposit(u, c, reduction)
      PROVE  Ins
  <2>1. c \in Nat  BY ChoicesAssumption
  <2>2. PaidIn(c)  BY <1>1 DEF Deposit, PaidIn, StakeSame, manager
  <2>3. QED  BY <2>1, <2>2
<1>2. ASSUME NEW r \in Rewards, ClaimAndReinvestRewards(r) PROVE Ins
  <2>1. r \in Nat  BY ChoicesAssumption
  <2>2. PaidIn(r)  BY <1>2 DEF ClaimAndReinvestRewards, PaidIn, StakeSame, manager
  <2>3. QED  BY <2>1, <2>2
<1>3. ASSUME NEW u \in Users, NEW s \in Parts \cup {balanceOf[u] - 1, balanceOf[u]},
             InstantRedeem(u, s) \/ Redeem(u, s)
      PROVE  Outs
  <2>1. u \in Holders  BY DEF Holders
  <2>2. balanceOf[u] \in Nat /\ balanceOf[u] <= totalSupply /\ totalSupply \in Nat
    BY <2>1 DEF SharesOK, HoldersCovered
  <2>3. HasShares(u, s) /\ Pay(CoreToReturn(s)) /\ UNCHANGED manager
    BY <1>3 DEF InstantRedeem, Redeem
  <2>4. s \in Int  BY <2>2, ChoicesAssumption
  <2>5. s \in Nat /\ totalSupply > 0  BY <2>2, <2>3, <2>4 DEF HasShares
  <2>6. CoreToReturn(s) \in Nat  BY <2>5, ReturnTyped
  <2>7. PaidOut(CoreToReturn(s))  BY <2>3 DEF Pay, PooledAfter, PaidOut, StakeSame, manager
  <2>8. QED  BY <2>6, <2>7
<1>4. ASSUME NEW id \in DOMAIN withdrawalQueue, ProcessWithdrawal(id) PROVE Outs
  <2> DEFINE s == withdrawalQueue[id].shares
  <2>1. s \in Nat  BY <1>4, ProcessBurns
  <2>2. totalSupply > 0 /\ Pay(CoreToReturn(s)) /\ UNCHANGED manager
    BY <1>4 DEF ProcessWithdrawal
  <2>3. CoreToReturn(s) \in Nat  BY <2>1, <2>2, ReturnTyped
  <2>4. PaidOut(CoreToReturn(s))  BY <2>2 DEF Pay, PooledAfter, PaidOut, StakeSame, manager
  <2>5. QED  BY <2>3, <2>4
<1>5. ASSUME SimulateRewards PROVE Adds
  <2> DEFINE n == (totalPooledCore * 85) \div 10000
  <2>1. n \in Nat
    <3>1. totalPooledCore * 85 \in Nat  BY MulTyped DEF SharesOK
    <3>2. QED  BY <3>1, DivTyped
  <2>2. Counted(n)  BY <1>5 DEF SimulateRewards, Counted, StakeSame, token, manager
  <2>3. QED  BY <2>1, <2>2
<1>6. ASSUME NEW u \in Users, NEW s, NEW to,
             RequestWithdrawal(u, s) \/ Transfer(u, to, s)
      PROVE  CountSame
  BY <1>6 DEF RequestWithdrawal, Transfer, CountSame, StakeSame, pool, manager
<1>7. ASSUME NEW risk, SetRebalanceThresholds(risk) PROVE CountSame
  BY <1>7 DEF SetRebalanceThresholds, CountSame, StakeSame, pool
<1>8. ASSUME Configure \/ Tick \/ (\E p \in Prices \cup {0} : PriceMoves(p))
      PROVE  CountSame
  BY <1>8 DEF Configure, Tick, PriceMoves, CountSame, StakeSame, pool, manager
<1>9. ASSUME UNCHANGED vars PROVE CountSame
  BY <1>9 DEF vars, CountSame, StakeSame, pool, manager
<1> HIDE DEF Ins, Outs, Adds
<1>10. CountSame \/ Ins \/ Outs \/ Adds \/ CollectFees \/ Sends \/ Shifts \/ Lists \/ Receives
  BY <1>1, <1>2, <1>3, <1>4, <1>5, <1>6, <1>7, <1>8, <1>9
     DEF Next, Sends, Shifts, Lists, Receives
<1>11. QED  BY <1>10 DEF Ins, Outs, Adds

(* delegateCore takes from the coin what it adds to the stake, and adds to  *)
(* none but listed validators.                                              *)
LEMMA SendsParts ==
    ASSUME PoolOK, NEW view \in Views, NEW amount \in Parts \cup {0},
           DelegateCore(amount, view)
    PROVE  \E part \in [Validators -> Nat] :
              /\ SumFunctionOnSet(part, Validators) \in Nat
              /\ SumFunctionOnSet(part, Validators) <= held
              /\ held' = held - SumFunctionOnSet(part, Validators)
              /\ \A v \in Validators : part[v] > 0 => v \in activeCoreValidators
              /\ delegatedCoreByValidator' =
                     [v \in Validators |-> delegatedCoreByValidator[v] + part[v]]
              /\ UNCHANGED <<totalPooledCore, activeCoreValidators>>
<1> DEFINE sum == IF amount = 0 THEN held ELSE amount
           part == Part(sum, view)
<1>1. amount \in Nat  BY ChoicesAssumption
<1>2. sum \in Nat  BY <1>1 DEF PoolOK
<1>3. part = [v \in Validators |-> (sum * Allocation(view, v)) \div 10000]  BY DEF Part
<1>4. /\ held >= sum /\ Candidates(view) # {}
      /\ \A v \in Validators : part[v] > 0 => v \in activeCoreValidators
      /\ delegatedCoreByValidator' =
             [v \in Validators |-> delegatedCoreByValidator[v] + part[v]]
      /\ held' = held - SumFunctionOnSet(part, Validators)
      /\ UNCHANGED <<totalPooledCore, activeCoreValidators>>
  BY <1>3 DEF DelegateCore, IsListed
<1> HIDE DEF sum
<1>5. /\ \A v \in Validators : part[v] \in Nat
      /\ SumFunctionOnSet(part, Validators) \in Nat
      /\ SumFunctionOnSet(part, Validators) <= sum
  BY <1>2, <1>4, PartsWithin
<1>6. part \in [Validators -> Nat]  BY <1>3, <1>5
<1>7. SumFunctionOnSet(part, Validators) <= held  BY <1>2, <1>4, <1>5 DEF PoolOK
<1> HIDE DEF part
<1>8. QED  BY <1>4, <1>5, <1>6, <1>7

LEMMA PoolNext ==
    ASSUME SharesOK, TermsOK, HoldersCovered, PoolOK, [Next]_vars
    PROVE  PoolOK'
<1>1. CASE CountSame  BY <1>1 DEF CountSame, StakeSame, PoolOK
<1>2. ASSUME NEW n \in Nat, PaidIn(n) \/ PaidOut(n) \/ Counted(n) PROVE PoolOK'
  BY <1>2 DEF PaidIn, PaidOut, Counted, StakeSame, PoolOK
<1>3. CASE CollectFees
  <2>1. PICK n \in Nat : held >= Sent(n) /\ held' = held - Sent(n)  BY <1>3, FeesKeep
  <2>2. Sent(n) \in Nat  BY DEF Sent
  <2>3. held' \in Nat  BY <2>1, <2>2 DEF PoolOK
  <2>4. QED  BY <1>3, <2>3 DEF CollectFees, PoolOK, manager
<1>4. ASSUME NEW view \in Views, NEW amount \in Parts \cup {0}, DelegateCore(amount, view)
      PROVE  PoolOK'
  <2>1. PICK part \in [Validators -> Nat] :
            /\ SumFunctionOnSet(part, Validators) \in Nat
            /\ SumFunctionOnSet(part, Validators) <= held
            /\ held' = held - SumFunctionOnSet(part, Validators)
            /\ delegatedCoreByValidator' =
                   [v \in Validators |-> delegatedCoreByValidator[v] + part[v]]
            /\ UNCHANGED activeCoreValidators
    BY <1>4, SendsParts
  <2>2. held' \in Nat  BY <2>1 DEF PoolOK
  <2>3. delegatedCoreByValidator' \in [Validators -> Nat]  BY <2>1 DEF PoolOK
  <2>4. QED  BY <2>1, <2>2, <2>3 DEF PoolOK
<1>5. ASSUME NEW view \in Views, NEW from \in Validators, NEW to \in Validators,
             NEW amount \in Parts, RebalanceCoreStaking(from, to, amount, view)
      PROVE  PoolOK'
  <2>1. amount \in Nat  BY ChoicesAssumption
  <2>2. delegatedCoreByValidator' \in [Validators -> Nat]
    BY <1>5, <2>1 DEF RebalanceCoreStaking, PoolOK
  <2>3. QED  BY <1>5, <2>2 DEF RebalanceCoreStaking, PoolOK, pool
<1>6. ASSUME NEW v \in Validators, AddCoreValidator(v) \/ RemoveCoreValidator(v)
      PROVE  PoolOK'
  BY <1>6 DEF AddCoreValidator, RemoveCoreValidator, PoolOK, pool
<1>7. ASSUME NEW c \in Amounts, Receive(c) PROVE PoolOK'
  BY <1>7, ChoicesAssumption DEF Receive, PoolOK, manager
<1>8. QED  BY <1>1, <1>2, <1>3, <1>4, <1>5, <1>6, <1>7, PoolSteps
              DEF Sends, Shifts, Lists, Receives

-----------------------------------------------------------------------------
(* What is left of the type invariant.                                      *)
RestOK ==
    /\ userWithdrawalRequests \in [Users -> Seq(Nat)]
    /\ paused \in BOOLEAN
    /\ rebalanceThresholdRisk \in Nat /\ rebalanceThresholdRisk <= 1000
    /\ moves \in Nat

LEMMA RestNext == ASSUME TermsOK, RestOK, [Next]_vars PROVE RestOK'
<1> DEFINE Same == UNCHANGED <<userWithdrawalRequests, paused, rebalanceThresholdRisk>>
<1>1. moves + 1 \in Nat  BY DEF RestOK
<1>2. ASSUME Same, UNCHANGED moves \/ Move PROVE RestOK'  BY <1>1, <1>2 DEF RestOK, Move
<1>3. ASSUME NEW u, NEW c, NEW reduction, Deposit(u, c, reduction) PROVE RestOK'
  <2>1. Move /\ UNCHANGED <<queue, owned, manager>>  BY <1>3 DEF Deposit
  <2>2. QED  BY <1>2, <2>1 DEF queue, owned, manager
<1>4. ASSUME NEW u \in Users, NEW s, RequestWithdrawal(u, s) PROVE RestOK'
  <2>1. Len(withdrawalQueue) \in Nat  BY OpenRequests
  <2>2. userWithdrawalRequests[u] \in Seq(Nat)  BY DEF RestOK
  <2>3. Append(userWithdrawalRequests[u], Len(withdrawalQueue)) \in Seq(Nat)
    BY <2>1, <2>2
  <2>4. userWithdrawalRequests' \in [Users -> Seq(Nat)]
    BY <1>4, <2>3 DEF RequestWithdrawal, RestOK
  <2>5. Move /\ UNCHANGED <<paused, rebalanceThresholdRisk>>
    BY <1>4 DEF RequestWithdrawal, owned, manager
  <2>6. QED  BY <1>1, <2>4, <2>5 DEF RestOK, Move
<1>5. ASSUME NEW u, NEW s, InstantRedeem(u, s) \/ Redeem(u, s) PROVE RestOK'
  <2>1. Move /\ UNCHANGED <<queue, owned, manager>>  BY <1>5 DEF InstantRedeem, Redeem
  <2>2. QED  BY <1>2, <2>1 DEF queue, owned, manager
<1>6. ASSUME NEW u, NEW to, NEW s, Transfer(u, to, s) PROVE RestOK'
  <2>1. Move /\ UNCHANGED <<queue, owned, manager>>  BY <1>6 DEF Transfer
  <2>2. QED  BY <1>2, <2>1 DEF queue, owned, manager
<1>7. ASSUME NEW id, ProcessWithdrawal(id) PROVE RestOK'
  BY <1>2, <1>7 DEF ProcessWithdrawal, owned, manager, world
<1>8. ASSUME CollectFees PROVE RestOK'
  <2>1. UNCHANGED <<queue, owned, manager, world>>  BY <1>8 DEF CollectFees
  <2>2. QED  BY <1>2, <2>1 DEF queue, owned, manager, world
<1>9. ASSUME NEW r, SimulateRewards \/ Receive(r) \/ ClaimAndReinvestRewards(r)
      PROVE  RestOK'
  <2>1. Move /\ UNCHANGED <<queue, owned, manager>>
    BY <1>9 DEF SimulateRewards, Receive, ClaimAndReinvestRewards
  <2>2. QED  BY <1>2, <2>1 DEF queue, owned, manager
<1>10. ASSUME NEW view, NEW amount, DelegateCore(amount, view) PROVE RestOK'
  <2>1. UNCHANGED <<queue, owned, rebalanceThresholdRisk, world>>
    BY <1>10 DEF DelegateCore
  <2>2. QED  BY <1>2, <2>1 DEF queue, owned, world
<1>11. ASSUME NEW view, NEW from, NEW to, NEW amount,
              RebalanceCoreStaking(from, to, amount, view)
       PROVE  RestOK'
  <2>1. UNCHANGED <<queue, owned, rebalanceThresholdRisk, world>>
    BY <1>11 DEF RebalanceCoreStaking
  <2>2. QED  BY <1>2, <2>1 DEF queue, owned, world
<1>12. ASSUME NEW v, AddCoreValidator(v) \/ RemoveCoreValidator(v) PROVE RestOK'
  <2>1. UNCHANGED <<queue, owned, rebalanceThresholdRisk, world>>
    BY <1>12 DEF AddCoreValidator, RemoveCoreValidator
  <2>2. QED  BY <1>2, <2>1 DEF queue, owned, world
<1>13. ASSUME NEW risk \in RiskChoices, SetRebalanceThresholds(risk) PROVE RestOK'
  BY <1>13, ChoicesAssumption DEF SetRebalanceThresholds, RestOK, queue, owned, world
<1>14. ASSUME Configure PROVE RestOK'
  <2>1. UNCHANGED paused \/ paused' = ~paused  BY <1>14, Zenon DEF Configure
  <2>2. paused' \in BOOLEAN
    <3>1. (~paused) \in BOOLEAN  OBVIOUS
    <3>2. paused \in BOOLEAN  BY DEF RestOK
    <3>3. QED  BY <2>1, <3>1, <3>2, Zenon
  <2>3. UNCHANGED <<queue, manager, world>>  BY <1>14 DEF Configure
  <2>4. QED  BY <2>2, <2>3 DEF RestOK, queue, manager, world
<1>15. ASSUME NEW p, Tick \/ PriceMoves(p) PROVE RestOK'
  <2>1. UNCHANGED <<queue, owned, manager, moves>>  BY <1>15 DEF Tick, PriceMoves
  <2>2. QED  BY <1>2, <2>1 DEF queue, owned, manager
<1>16. ASSUME UNCHANGED vars PROVE RestOK'
  BY <1>2, <1>16 DEF vars, queue, owned, manager, world
<1>17. QED
  BY <1>3, <1>4, <1>5, <1>6, <1>7, <1>8, <1>9, <1>10, <1>11, <1>12, <1>13, <1>14,
     <1>15, <1>16 DEF Next

-----------------------------------------------------------------------------
(* A request is taken as it was made, or processed when it is due.          *)
QueueStep ==
    \A id \in DOMAIN withdrawalQueue :
       LET r == withdrawalQueue[id]
       IN  withdrawalQueue'[id] # r =>
              /\ ~r.isProcessed
              /\ now >= r.requestTime + UNBONDING_PERIOD
              /\ withdrawalQueue'[id] = [r EXCEPT !.isProcessed = TRUE]

LEMMA QueueNext == ASSUME SharesOK, TermsOK, [Next]_vars PROVE QueueStep
<1>1. CASE UNCHANGED withdrawalQueue  BY <1>1 DEF QueueStep
<1>2. ASSUME NEW u \in Users, NEW s \in Nat, RequestWithdrawal(u, s) PROVE QueueStep
  <2> DEFINE r == [user |-> u, shares |-> s, requestTime |-> now, isProcessed |-> FALSE]
  <2>1. withdrawalQueue' = Append(withdrawalQueue, r)  BY <1>2 DEF RequestWithdrawal
  <2>2. r \in Requests  BY DEF Requests, TermsOK
  <2> HIDE DEF r
  <2>3. \A id \in DOMAIN withdrawalQueue : withdrawalQueue'[id] = withdrawalQueue[id]
    BY <2>1, <2>2 DEF TermsOK
  <2>4. QED  BY <2>3 DEF QueueStep
<1>3. ASSUME NEW id \in DOMAIN withdrawalQueue, ProcessWithdrawal(id) PROVE QueueStep
  <2> DEFINE r == withdrawalQueue[id]
  <2>1. Due(r) /\ withdrawalQueue' = [withdrawalQueue EXCEPT ![id] =
                                         [r EXCEPT !.isProcessed = TRUE]]
    BY <1>3 DEF ProcessWithdrawal, Processed
  <2>2. \A i \in DOMAIN withdrawalQueue \ {id} : withdrawalQueue'[i] = withdrawalQueue[i]
    BY <2>1
  <2>3. withdrawalQueue'[id] = [r EXCEPT !.isProcessed = TRUE]  BY <2>1
  <2>4. QED  BY <2>1, <2>2, <2>3 DEF QueueStep, Due
<1>4. QED  BY <1>1, <1>2, <1>3, ShareSteps

-----------------------------------------------------------------------------
(* The pool's accounts.  A step that widens the gap between the count and   *)
(* what is behind it, and a step that adds to the stake nobody counts.      *)
Staked == SumFunctionOnSet(delegatedCoreByValidator, Validators)

GapKept ==
    Shortfall' > Shortfall =>
        \/ lastFeeCollection' # lastFeeCollection
        \/ totalPooledCore' > totalPooledCore
              /\ UNCHANGED <<held, totalSupply, delegatedCoreByValidator>>

StrayKept == Uncounted' > Uncounted => UNCHANGED <<held, activeCoreValidators>>

LEMMA ShortfallSum ==
    ASSUME PoolOK PROVE Shortfall = totalPooledCore - held - Staked
  BY DEF Shortfall, Staked, SumFunction, PoolOK

LEMMA ShortfallSumNext ==
    ASSUME PoolOK' PROVE Shortfall' = totalPooledCore' - held' - Staked'
  BY DEF Shortfall, Staked, SumFunction, PoolOK

LEMMA StakedTyped ==
    ASSUME PoolOK
    PROVE  /\ Staked \in Nat /\ Uncounted \in Nat
           /\ \A v \in Validators : delegatedCoreByValidator[v] \in Int
           /\ IsFiniteSet(Validators) /\ IsFiniteSet(Validators \ activeCoreValidators)
<1>1. /\ \A v \in Validators : delegatedCoreByValidator[v] \in Nat
      /\ \A v \in Validators \ activeCoreValidators : delegatedCoreByValidator[v] \in Nat
  BY DEF PoolOK
<1>2. IsFiniteSet(Validators) /\ IsFiniteSet(Validators \ activeCoreValidators)
  BY ValidatorAssumption, FS_Subset
<1>3. QED  BY <1>1, <1>2, SumNat DEF Staked, Uncounted

LEMMA StakedTypedNext == PoolOK' => Staked' \in Nat /\ Uncounted' \in Nat
<1> DEFINE Typed == Staked \in Nat /\ Uncounted \in Nat
<1>1. PoolOK => Typed  BY StakedTyped
<1> HIDE DEF Typed
<1>2. PoolOK' => Typed'  BY <1>1, PTL
<1>3. QED  BY <1>2 DEF Typed

LEMMA SendsKeep ==
    ASSUME PoolOK, NEW view \in Views, NEW amount \in Parts \cup {0},
           DelegateCore(amount, view)
    PROVE  /\ Staked' - Staked = held - held'
           /\ UNCHANGED totalPooledCore
           /\ Uncounted' = Uncounted
<1> DEFINE f == delegatedCoreByValidator
           g == delegatedCoreByValidator'
           rest == Validators \ activeCoreValidators
<1>1. PICK part \in [Validators -> Nat] :
          /\ SumFunctionOnSet(part, Validators) \in Nat
          /\ SumFunctionOnSet(part, Validators) <= held
          /\ held' = held - SumFunctionOnSet(part, Validators)
          /\ \A v \in Validators : part[v] > 0 => v \in activeCoreValidators
          /\ g = [v \in Validators |-> f[v] + part[v]]
          /\ UNCHANGED <<totalPooledCore, activeCoreValidators>>
  BY SendsParts
<1>2. \A v \in Validators : f[v] \in Int  BY StakedTyped
<1>3. \A v \in Validators : f[v] \in Int /\ part[v] \in Int /\ g[v] = f[v] + part[v]
  BY <1>1, <1>2
<1>4. \A v \in rest : f[v] \in Int /\ g[v] = f[v]
  <2> SUFFICES ASSUME NEW v \in rest PROVE f[v] \in Int /\ g[v] = f[v]
    OBVIOUS
  <2>1. part[v] \in Nat /\ ~(part[v] > 0)  BY <1>1
  <2>2. QED  BY <1>3, <2>1
<1>5. IsFiniteSet(Validators) /\ IsFiniteSet(rest)  BY StakedTyped
<1>6. Staked' = SumFunctionOnSet(g, Validators)  BY DEF Staked
<1>7. Uncounted' = SumFunctionOnSet(g, rest)  BY <1>1 DEF Uncounted
<1>8. Staked = SumFunctionOnSet(f, Validators) /\ Uncounted = SumFunctionOnSet(f, rest)
  BY DEF Staked, Uncounted
<1> HIDE DEF f, g, rest
<1>9. SumFunctionOnSet(g, Validators)
          = SumFunctionOnSet(f, Validators) + SumFunctionOnSet(part, Validators)
  BY <1>3, <1>5, SumPlus
<1>10. SumFunctionOnSet(g, rest) = SumFunctionOnSet(f, rest)  BY <1>4, <1>5, SumSame
<1>11. Staked' - Staked = held - held'
  <2>1. Staked \in Nat /\ held \in Nat  BY StakedTyped DEF PoolOK
  <2>2. Staked' = Staked + SumFunctionOnSet(part, Validators)  BY <1>6, <1>8, <1>9
  <2>3. QED  BY <1>1, <2>1, <2>2
<1>12. QED  BY <1>1, <1>7, <1>8, <1>10, <1>11

LEMMA ShiftsKeep ==
    ASSUME PoolOK, PoolOK', NEW view \in Views, NEW from \in Validators, NEW to \in Validators,
           NEW amount \in Parts, RebalanceCoreStaking(from, to, amount, view)
    PROVE  Staked' = Staked
<1> DEFINE f == delegatedCoreByValidator
           g == delegatedCoreByValidator'
<1>1. amount \in Int  BY ChoicesAssumption
<1>2. \A v \in Validators : f[v] \in Int /\ g[v] \in Int  BY DEF PoolOK
<1>3. \A v \in Validators : g[v] = f[v] - (IF v = from THEN amount ELSE 0)
                                        + (IF v = to THEN amount ELSE 0)
  BY DEF RebalanceCoreStaking
<1>4. IsFiniteSet(Validators)  BY ValidatorAssumption
<1>5. Staked' = SumFunctionOnSet(g, Validators) /\ Staked = SumFunctionOnSet(f, Validators)
  BY DEF Staked
<1> HIDE DEF f, g
<1>6. SumFunctionOnSet(g, Validators) = SumFunctionOnSet(f, Validators)
  <2>1. CASE from = to
    <3>1. \A v \in Validators : f[v] \in Int /\ g[v] = f[v]  BY <1>1, <1>2, <1>3, <2>1
    <3>2. QED  BY <1>4, <3>1, SumSame
  <2>2. CASE from # to
    <3>1. /\ \A v \in Validators \ {from, to} : g[v] = f[v]
          /\ g[from] = f[from] - amount /\ g[to] = f[to] + amount
      BY <1>1, <1>2, <1>3, <2>2
    <3>2. QED  BY <1>1, <1>2, <1>4, <2>2, <3>1, SumMove, Zenon
  <2>3. QED  BY <2>1, <2>2
<1>7. QED  BY <1>5, <1>6

(* A validator is listed or, once nothing is delegated to it, taken off.    *)
LEMMA ListsKeep ==
    ASSUME PoolOK, NEW v \in Validators, AddCoreValidator(v) \/ RemoveCoreValidator(v)
    PROVE  Uncounted' <= Uncounted /\ UNCHANGED <<totalPooledCore, held>> /\ Staked' = Staked
<1> DEFINE f == delegatedCoreByValidator
           rest == Validators \ activeCoreValidators
           later == Validators \ activeCoreValidators'
<1>1. UNCHANGED <<totalPooledCore, held, delegatedCoreByValidator>>
  BY DEF AddCoreValidator, RemoveCoreValidator, pool
<1>2. Staked' = Staked  BY <1>1 DEF Staked
<1>3. Uncounted' = SumFunctionOnSet(f, later) /\ Uncounted = SumFunctionOnSet(f, rest)
  BY <1>1 DEF Uncounted
<1>4. f[v] \in Nat /\ \A w \in Validators : f[w] \in Int  BY DEF PoolOK
<1>5. (\A w \in rest : f[w] \in Int) /\ (\A w \in later : f[w] \in Int) /\ IsFiniteSet(rest)
  BY <1>4, StakedTyped
<1>6. Uncounted \in Nat  BY StakedTyped
<1>7. CASE AddCoreValidator(v)
  <2>1. v \in rest /\ later = rest \ {v}  BY <1>7 DEF AddCoreValidator
  <2> HIDE DEF f, rest, later
  <2>2. SumFunctionOnSet(f, rest) = f[v] + SumFunctionOnSet(f, rest \ {v})
    BY <1>5, <2>1, SumRemove
  <2>3. SumFunctionOnSet(f, later) \in Int
    <3>1. IsFiniteSet(later)  BY <1>5, <2>1, FS_Subset
    <3>2. QED  BY <1>5, <3>1, SumRemove
  <2>4. Uncounted' <= Uncounted  BY <1>3, <1>4, <1>6, <2>1, <2>2, <2>3
  <2>5. QED  BY <1>1, <1>2, <2>4
<1>8. CASE RemoveCoreValidator(v)
  <2>1. v \notin rest /\ later = rest \cup {v} /\ f[v] = 0
    BY <1>8 DEF RemoveCoreValidator
  <2> HIDE DEF f, rest, later
  <2>2. SumFunctionOnSet(f, rest \cup {v}) = f[v] + SumFunctionOnSet(f, rest)
    <3>1. f[v] \in Int  BY <2>1
    <3>2. QED  BY <1>5, <2>1, <3>1, SumAdd
  <2>3. Uncounted' <= Uncounted  BY <1>3, <1>6, <2>1, <2>2
  <2>4. QED  BY <1>1, <1>2, <2>3
<1>9. QED  BY <1>7, <1>8

(* Steps that leave the stake where it is and do not raise what it backs.   *)
LEMMA GapNotWider ==
    ASSUME SharesOK, SharesOK', PoolOK, PoolOK',
           totalPooledCore' - held' - Staked' <= totalPooledCore - held - Staked
    PROVE  GapKept
<1>1. /\ totalPooledCore \in Nat /\ totalPooledCore' \in Nat
      /\ held \in Nat /\ held' \in Nat
  BY DEF SharesOK, PoolOK
<1>2. Staked \in Nat /\ Staked' \in Nat  BY StakedTyped, StakedTypedNext
<1>3. Shortfall = totalPooledCore - held - Staked  BY ShortfallSum
<1>4. Shortfall' = totalPooledCore' - held' - Staked'  BY ShortfallSumNext
<1>5. Shortfall' <= Shortfall  BY <1>3, <1>4, Zenon
<1>6. Shortfall \in Int /\ Shortfall' \in Int
  <2>1. totalPooledCore - held - Staked \in Int  BY <1>1, <1>2
  <2>2. totalPooledCore' - held' - Staked' \in Int  BY <1>1, <1>2
  <2>3. QED  BY <1>3, <1>4, <2>1, <2>2, Zenon
<1> DEFINE x == Shortfall
           y == Shortfall'
<1> HIDE DEF x, y
<1>7. x \in Int /\ y \in Int /\ y <= x  BY <1>5, <1>6 DEF x, y
<1>8. ~(y > x)  BY <1>7
<1>9. QED  BY <1>8 DEF GapKept, x, y

LEMMA StakeFrame ==
    ASSUME PoolOK, StakeSame
    PROVE  Staked' = Staked /\ Uncounted' = Uncounted /\ StrayKept
<1>1. Staked' = Staked /\ Uncounted' = Uncounted  BY DEF StakeSame, Staked, Uncounted
<1>2. Uncounted \in Nat  BY StakedTyped
<1>3. QED  BY <1>1, <1>2 DEF StrayKept

LEMMA PaidTogether ==
    ASSUME NEW T \in Nat, NEW h \in Nat, NEW S \in Nat, NEW n \in Nat
    PROVE  /\ (T + n) - (h + n) - S <= T - h - S
           /\ (T - n) - (h - n) - S <= T - h - S
  OBVIOUS

LEMMA MovedBetween ==
    ASSUME NEW T \in Nat, NEW h \in Nat, NEW h2 \in Nat, NEW S \in Nat, NEW S2 \in Nat,
           S2 - S = h - h2
    PROVE  T - h2 - S2 <= T - h - S
  OBVIOUS

LEMMA PoolKeeps ==
    ASSUME SharesOK, SharesOK', TermsOK, HoldersCovered, PoolOK, PoolOK', [Next]_vars
    PROVE  GapKept /\ StrayKept
<1>1. /\ totalPooledCore \in Nat /\ totalPooledCore' \in Nat
      /\ held \in Nat /\ held' \in Nat
      /\ Staked \in Nat /\ Staked' \in Nat
      /\ Uncounted \in Nat /\ Uncounted' \in Nat
  BY StakedTyped, StakedTypedNext DEF SharesOK, PoolOK
<1>2. CASE CountSame
  <2>1. totalPooledCore' - held' - Staked' <= totalPooledCore - held - Staked
    BY <1>1, <1>2, StakeFrame DEF CountSame
  <2>2. QED  BY <1>2, <2>1, GapNotWider, StakeFrame DEF CountSame
<1>3. ASSUME NEW n \in Nat, PaidIn(n) \/ PaidOut(n) PROVE GapKept /\ StrayKept
  <2>1. StakeSame  BY <1>3 DEF PaidIn, PaidOut
  <2>2. Staked' = Staked  BY <2>1, StakeFrame
  <2>3. totalPooledCore' - held' - Staked' <= totalPooledCore - held - Staked
    <3>1. \/ totalPooledCore' = totalPooledCore + n /\ held' = held + n
          \/ totalPooledCore' = totalPooledCore - n /\ held' = held - n
      BY <1>3 DEF PaidIn, PaidOut
    <3>2. QED  BY <1>1, <2>2, <3>1, PaidTogether
  <2>4. QED  BY <2>1, <2>3, GapNotWider, StakeFrame
<1>4. ASSUME NEW n \in Nat, Counted(n) PROVE GapKept /\ StrayKept
  <2>1. StakeSame /\ Staked' = Staked  BY <1>4, StakeFrame DEF Counted
  <2>2. CASE n = 0
    <3>1. totalPooledCore' - held' - Staked' <= totalPooledCore - held - Staked
      BY <1>1, <1>4, <2>1, <2>2 DEF Counted
    <3>2. QED  BY <2>1, <3>1, GapNotWider, StakeFrame
  <2>3. CASE n # 0
    <3>1. totalPooledCore' > totalPooledCore  BY <1>1, <1>4, <2>3 DEF Counted
    <3>2. GapKept  BY <1>4, <3>1 DEF GapKept, Counted, StakeSame
    <3>3. QED  BY <2>1, <3>2, StakeFrame
  <2>4. QED  BY <2>2, <2>3
<1>5. CASE CollectFees
  <2>1. StakeSame  BY <1>5 DEF CollectFees, StakeSame, manager
  <2>2. lastFeeCollection' # lastFeeCollection  BY <1>5 DEF CollectFees, TermsOK
  <2>3. QED  BY <2>1, <2>2, StakeFrame DEF GapKept
<1>6. ASSUME NEW view \in Views, NEW amount \in Parts \cup {0}, DelegateCore(amount, view)
      PROVE  GapKept /\ StrayKept
  <2>1. /\ Staked' - Staked = held - held'
        /\ totalPooledCore' = totalPooledCore /\ Uncounted' = Uncounted
    BY <1>6, SendsKeep
  <2>2. totalPooledCore' - held' - Staked' <= totalPooledCore - held - Staked
    BY <1>1, <2>1, MovedBetween
  <2>3. QED  BY <1>1, <2>1, <2>2, GapNotWider DEF StrayKept
<1>7. ASSUME NEW view \in Views, NEW from \in Validators, NEW to \in Validators,
             NEW amount \in Parts, RebalanceCoreStaking(from, to, amount, view)
      PROVE  GapKept /\ StrayKept
  <2>1. Staked' = Staked  BY <1>7, ShiftsKeep
  <2>2. UNCHANGED <<totalPooledCore, held, activeCoreValidators>>
    BY <1>7 DEF RebalanceCoreStaking, pool
  <2>3. totalPooledCore' - held' - Staked' <= totalPooledCore - held - Staked
    BY <1>1, <2>1, <2>2
  <2>4. QED  BY <2>2, <2>3, GapNotWider DEF StrayKept
<1>8. ASSUME NEW v \in Validators, AddCoreValidator(v) \/ RemoveCoreValidator(v)
      PROVE  GapKept /\ StrayKept
  <2>1. /\ Uncounted' <= Uncounted /\ Staked' = Staked
        /\ UNCHANGED <<totalPooledCore, held>>
    BY <1>8, ListsKeep
  <2>2. totalPooledCore' - held' - Staked' <= totalPooledCore - held - Staked
    BY <1>1, <2>1
  <2>3. QED  BY <1>1, <2>1, <2>2, GapNotWider DEF StrayKept
<1>9. ASSUME NEW c \in Amounts, Receive(c) PROVE GapKept /\ StrayKept
  <2>1. c \in Nat  BY ChoicesAssumption
  <2>2. StakeSame /\ UNCHANGED totalPooledCore /\ held' = held + c
    BY <1>9 DEF Receive, StakeSame, manager
  <2>3. Staked' = Staked  BY <2>2, StakeFrame
  <2>4. totalPooledCore' - held' - Staked' <= totalPooledCore - held - Staked
    BY <1>1, <2>1, <2>2, <2>3
  <2>5. QED  BY <2>2, <2>4, GapNotWider, StakeFrame
<1>10. QED  BY <1>2, <1>3, <1>4, <1>5, <1>6, <1>7, <1>8, <1>9, PoolSteps
              DEF Sends, Shifts, Lists, Receives

-----------------------------------------------------------------------------
(* The inductive invariant.                                                 *)
BasketInv ==
    /\ SharesOK
    /\ TermsOK
    /\ PoolOK
    /\ RestOK
    /\ SupplyExact
    /\ EscrowCovers

LEMMA BasketInitially == Init => BasketInv
<1> SUFFICES ASSUME Init PROVE BasketInv
  OBVIOUS
<1>1. PoolOK  BY DEF Init, PoolOK
<1>2. RestOK
  <2>1. <<>> \in Seq(Nat)  OBVIOUS
  <2>2. userWithdrawalRequests \in [Users -> Seq(Nat)]  BY <2>1 DEF Init
  <2>3. paused \in BOOLEAN  BY Zenon DEF Init
  <2>4. QED  BY <2>2, <2>3 DEF Init, RestOK
<1>3. QED
  BY <1>1, <1>2, InitOK, SupplyInitially, EscrowInitially DEF BasketInv

LEMMA BasketNext ==
    ASSUME BasketInv, [Next]_vars
    PROVE  BasketInv' /\ Worth /\ QueueStep /\ GapKept /\ StrayKept
<1>1. /\ SharesOK /\ TermsOK /\ PoolOK /\ RestOK /\ SupplyExact /\ EscrowCovers
  BY DEF BasketInv
<1>2. HoldersCovered  BY <1>1, SupplyCovers
<1>3. SharesOK' /\ TermsOK' /\ Worth  BY <1>1, <1>2, StepKeeps
<1>4. PoolOK' /\ RestOK'  BY <1>1, <1>2, PoolNext, RestNext
<1>5. SupplyExact' /\ EscrowCovers'  BY <1>1, <1>3, SupplyNext, EscrowNext
<1>6. QueueStep  BY <1>1, QueueNext
<1>7. GapKept /\ StrayKept  BY <1>1, <1>2, <1>3, <1>4, PoolKeeps
<1>8. QED  BY <1>3, <1>4, <1>5, <1>6, <1>7 DEF BasketInv

LEMMA BasketInvariant == Spec => []BasketInv
<1>1. BasketInv /\ [Next]_vars => BasketInv'  BY BasketNext
<1>2. QED  BY <1>1, BasketInitially, PTL DEF Spec

LEMMA BasketTyped == BasketInv => TypeOK /\ EscrowCovers /\ HoldersCovered
<1>1. BasketInv => TypeOK
  BY DEF BasketInv, SharesOK, TermsOK, PoolOK, RestOK, TypeOK
<1>2. QED  BY <1>1, SupplyCovers DEF BasketInv

(* The shares of every open request wait in the contract, no account holds  *)
(* more than the supply, no subtraction goes below zero, and a request is   *)
(* processed once and when it is due: whatever the holders, the owner and   *)
(* the prices do, a request can be burned when its day is over.             *)
THEOREM RequestsAlwaysPayable == Spec => RequestsPayable
<1>1. Spec => []TypeOK /\ []EscrowCovers /\ []HoldersCovered
  BY BasketInvariant, BasketTyped, PTL
<1>2. Spec => ProcessedOnceWhenDue
  <2>1. BasketInv /\ [Next]_vars =>
            [\A id \in DOMAIN withdrawalQueue :
                LET r == withdrawalQueue[id]
                IN  withdrawalQueue'[id] # r =>
                       /\ ~r.isProcessed
                       /\ now >= r.requestTime + UNBONDING_PERIOD
                       /\ withdrawalQueue'[id] = [r EXCEPT !.isProcessed = TRUE]]_vars
    BY BasketNext DEF QueueStep
  <2>2. QED  BY <2>1, BasketInvariant, PTL DEF Spec, ProcessedOnceWhenDue
<1>3. QED  BY <1>1, <1>2 DEF RequestsPayable

(* Burning shares never lowers the CORE behind each share that stays, at    *)
(* any price and by any of the three ways out.                              *)
THEOREM LeavingNeverCosts == Spec => LeavingKeepsValue
<1>1. BasketInv /\ [Next]_vars =>
          [totalSupply' < totalSupply =>
              totalPooledCore' * totalSupply >= totalPooledCore * totalSupply']_vars
  BY BasketNext DEF Worth
<1>2. QED  BY <1>1, BasketInvariant, PTL DEF Spec, LeavingKeepsValue

(* No share is ever left without CORE behind it, so the division of         *)
(* _calculateSharesToMint never meets an empty pool while there are shares. *)
THEOREM NoEmptyShares == Spec => []SharesHaveAssets
<1>1. BasketInv => SharesHaveAssets  BY DEF BasketInv, SharesOK
<1>2. QED  BY <1>1, BasketInvariant, PTL

(* Only a collection of fees and the simulated rewards widen the gap        *)
(* between the pool's count and what is behind it, and only a rebalancing   *)
(* moves stake to where no call counts it.                                  *)
THEOREM PoolAlwaysAccounted == Spec => PoolAccounted
<1>1. Spec => BackingKept
  <2>1. BasketInv /\ [Next]_vars =>
            [Shortfall' > Shortfall =>
                \/ lastFeeCollection' # lastFeeCollection
                \/ totalPooledCore' > totalPooledCore
                      /\ UNCHANGED <<held, totalSupply, delegatedCoreByValidator>>]_vars
    BY BasketNext DEF GapKept
  <2>2. QED  BY <2>1, BasketInvariant, PTL DEF Spec, BackingKept
<1>2. Spec => OnlyRebalanceStrays
  <2>1. BasketInv /\ [Next]_vars =>
            [Uncounted' > Uncounted => UNCHANGED <<held, activeCoreValidators>>]_vars
    BY BasketNext DEF StrayKept
  <2>2. QED  BY <2>1, BasketInvariant, PTL DEF Spec, OnlyRebalanceStrays
<1>3. QED  BY <1>1, <1>2 DEF PoolAccounted
=============================================================================
