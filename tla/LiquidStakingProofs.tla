------------------------- MODULE LiquidStakingProofs -------------------------
(***************************************************************************)
(* What TLAPS proves of LiquidStaking for every precision, every amount,    *)
(* every answer of the staking contract and any number of users, validators *)
(* and requests: all stake is backed and at listed validators, an open      *)
(* request can be paid for, and the CORE a stCORE is worth never falls.     *)
(* The inductive invariant is LiquidInv, at the end.                        *)
(***************************************************************************)
EXTENDS LiquidStaking, SumTheorems, SequenceTheorems, TLAPS

-----------------------------------------------------------------------------
(* Quotients rounded down.                                                  *)

LEMMA MulNat == ASSUME NEW x \in Nat, NEW y \in Nat PROVE x * y \in Nat
  OBVIOUS

LEMMA DivNat == ASSUME NEW x \in Nat, NEW d \in Nat \ {0} PROVE x \div d \in Nat
  OBVIOUS

(* The quotient times the divisor stays within the dividend ...             *)
LEMMA FloorBelow ==
    ASSUME NEW x \in Nat, NEW d \in Nat \ {0}
    PROVE  (x \div d) * d <= x
  OBVIOUS

(* ... and the quotient is the greatest such number.                        *)
LEMMA FloorGreatest ==
    ASSUME NEW x \in Nat, NEW d \in Nat \ {0}, NEW n \in Nat, n * d <= x
    PROVE  n <= x \div d
  OBVIOUS

LEMMA MulMonotone ==
    ASSUME NEW a \in Nat, NEW x \in Nat, NEW y \in Nat, x <= y
    PROVE  x * a <= y * a
  OBVIOUS

(* Minting at the floored rate, for an amount rounded down, keeps the rate. *)
LEMMA MintKeepsRate ==
    ASSUME NEW T \in Nat, NEW S \in Nat \ {0}, NEW P \in Nat \ {0}, NEW c \in Nat,
           NEW rate \in Nat \ {0}, rate = (T * P) \div S,
           NEW s \in Nat, s = (c * P) \div rate
    PROVE  rate <= ((T + c) * P) \div (S + s)
<1>1. T * P \in Nat /\ c * P \in Nat  BY MulNat
<1>2. rate * S <= T * P  BY <1>1, FloorBelow
<1>3. s * rate <= c * P  BY <1>1, FloorBelow
<1>4. rate * (S + s) = rate * S + s * rate  OBVIOUS
<1>5. (T + c) * P = T * P + c * P  OBVIOUS
<1>6. (T + c) * P \in Nat /\ S + s \in Nat \ {0}  BY MulNat
<1>7. rate * S \in Nat /\ s * rate \in Nat  BY MulNat
<1>8. rate * (S + s) <= (T + c) * P
  BY <1>1, <1>2, <1>3, <1>4, <1>5, <1>7
<1>9. QED  BY <1>6, <1>8, FloorGreatest

(* Burning part of the supply for its worth, rounded down, keeps the rate.  *)
LEMMA BurnKeepsRate ==
    ASSUME NEW T \in Nat, NEW S \in Nat, NEW P \in Nat \ {0}, NEW s \in Nat, s < S,
           NEW rate \in Nat, rate = (T * P) \div S,
           NEW x \in Nat, x = (s * rate) \div P, x <= T
    PROVE  rate <= ((T - x) * P) \div (S - s)
<1>1. T * P \in Nat /\ s * rate \in Nat  BY MulNat
<1>2. rate * S <= T * P  BY <1>1, FloorBelow
<1>3. x * P <= s * rate  BY <1>1, FloorBelow
<1>4. rate * (S - s) = rate * S - s * rate  OBVIOUS
<1>5. (T - x) * P = T * P - x * P  OBVIOUS
<1>6. (T - x) * P \in Nat /\ S - s \in Nat \ {0}  BY MulNat
<1>7. rate * S \in Nat /\ x * P \in Nat  BY MulNat
<1>8. rate * (S - s) <= (T - x) * P
  BY <1>1, <1>2, <1>3, <1>4, <1>5, <1>7
<1>9. QED  BY <1>6, <1>8, FloorGreatest

(* More CORE for the same supply keeps the rate.                            *)
LEMMA RewardKeepsRate ==
    ASSUME NEW T \in Nat, NEW U \in Nat, T <= U, NEW S \in Nat \ {0},
           NEW P \in Nat \ {0}
    PROVE  (T * P) \div S <= (U * P) \div S
<1>1. T * P \in Nat /\ U * P \in Nat  BY MulNat
<1>2. ((T * P) \div S) * S <= T * P  BY <1>1, FloorBelow
<1>3. T * P <= U * P  BY MulMonotone
<1>4. (T * P) \div S \in Nat  BY <1>1, DivNat
<1>5. ((T * P) \div S) * S \in Nat  BY <1>4, MulNat
<1>6. ((T * P) \div S) * S <= U * P  BY <1>1, <1>2, <1>3, <1>5
<1>7. QED  BY <1>1, <1>4, <1>6, FloorGreatest

-----------------------------------------------------------------------------
(* The part of the state the rate depends on is well typed, and the fees    *)
(* stay under the limits of their setters.                                  *)
FeesOK == /\ protocolFee \in Nat /\ protocolFee <= 1000
          /\ performanceFee \in Nat /\ performanceFee <= 2000

TokenOK ==
    /\ balanceOf \in [Holders -> Nat]
    /\ totalSupply \in Nat
    /\ totalStakedCore \in Nat
    /\ unstakeRequests \in Seq(Requests)
    /\ FeesOK
    /\ now \in Nat

LEMMA RateNat == ASSUME TokenOK PROVE ConversionRate \in Nat
<1>1. totalStakedCore * PRECISION \in Nat  BY MulNat, PrecisionAssumption DEF TokenOK
<1>2. CASE totalSupply = 0  BY <1>2, PrecisionAssumption DEF ConversionRate
<1>3. CASE totalSupply # 0  BY <1>1, <1>3, DivNat DEF ConversionRate, TokenOK
<1>4. QED  BY <1>2, <1>3

RateTyped == ConversionRate \in Nat

LEMMA TypedRate == TokenOK => RateTyped
  BY RateNat DEF RateTyped

LEMMA TypedRateNext == TokenOK' => RateTyped'
  BY TypedRate, PTL

LEMMA WorthNat == ASSUME TokenOK, NEW s \in Nat PROVE StCoreToCore(s) \in Nat
<1>1. s * ConversionRate \in Nat  BY RateNat, MulNat
<1>2. QED  BY <1>1, DivNat, PrecisionAssumption DEF StCoreToCore

LEMMA MintedNat ==
    ASSUME TokenOK, NEW c \in Nat, ConversionRate > 0
    PROVE  CoreToStCore(c) \in Nat
<1>1. c * PRECISION \in Nat  BY MulNat, PrecisionAssumption
<1>2. ConversionRate \in Nat \ {0}  BY RateNat
<1>3. QED  BY <1>1, <1>2, DivNat DEF CoreToStCore

(* With both fees at their limits a collection still keeps most of its      *)
(* rewards: the two fees never add up to more than the rewards.             *)
LEMMA FeesWithinRewards ==
    ASSUME TokenOK, NEW r \in Nat
    PROVE  Compound(r) \in Nat
<1> DEFINE p == (r * protocolFee) \div 10000
           q == (r * performanceFee) \div 10000
<1>1. protocolFee \in Nat /\ performanceFee \in Nat  BY DEF FeesOK, TokenOK
<1>2. r * protocolFee \in Nat /\ r * performanceFee \in Nat  BY <1>1, MulNat
<1>3. p \in Nat /\ q \in Nat  BY <1>2, DivNat
<1>4. p * 10000 <= r * protocolFee  BY <1>2, FloorBelow
<1>5. q * 10000 <= r * performanceFee  BY <1>2, FloorBelow
<1>6. protocolFee * r <= 1000 * r  BY <1>1, MulMonotone DEF FeesOK, TokenOK
<1>7. performanceFee * r <= 2000 * r  BY <1>1, MulMonotone DEF FeesOK, TokenOK
<1>8. /\ protocolFee * r = r * protocolFee
      /\ performanceFee * r = r * performanceFee
  BY <1>1
<1>9. p + q <= r
  <2> HIDE DEF p, q
  <2> QED  BY <1>1, <1>2, <1>3, <1>4, <1>5, <1>6, <1>7, <1>8
<1>10. QED  BY <1>3, <1>9 DEF Compound, Fees

-----------------------------------------------------------------------------
LEMMA InitToken == Init => TokenOK
  BY DEF Init, FeesOK, TokenOK, Holders, Requests

(* What the actions that leave the token alone leave of TokenOK.            *)
LEMMA TokenUnchanged ==
    ASSUME TokenOK, UNCHANGED <<token, unstakeRequests, protocolFee, performanceFee>>,
           now' \in {now, now + 1}
    PROVE  TokenOK'
  BY DEF FeesOK, TokenOK, token

LEMMA StakeToken ==
    ASSUME TokenOK, NEW u \in Users, NEW v, NEW c \in Amounts, NEW view,
           Stake(u, v, c, view)
    PROVE  TokenOK'
<1>1. c \in Nat  BY AmountsAssumption
<1>2. Mint(u, c)  BY DEF Stake
<1>3. CoreToStCore(c) \in Nat  BY <1>1, <1>2, MintedNat DEF Mint
<1>4. UNCHANGED <<unstakeRequests, protocolFee, performanceFee, now>>
  BY DEF Stake, unstake, owned
<1>5. u \in Holders  BY DEF Holders
<1>6. balanceOf' \in [Holders -> Nat]  BY <1>2, <1>3, <1>5 DEF Mint, TokenOK
<1>7. totalSupply' \in Nat /\ totalStakedCore' \in Nat
  BY <1>1, <1>2, <1>3 DEF Mint, TokenOK
<1>8. QED  BY <1>4, <1>6, <1>7 DEF FeesOK, TokenOK

LEMMA RequestToken ==
    ASSUME TokenOK, NEW u \in Users, NEW s \in Amounts, RequestUnstake(u, s)
    PROVE  TokenOK'
<1>1. s \in Nat  BY AmountsAssumption
<1>2. u \in Holders /\ Manager \in Holders /\ u # Manager
  BY AccountsAssumption DEF Holders
<1>3. balanceOf' \in [Holders -> Nat]
  BY <1>1, <1>2 DEF RequestUnstake, EscrowedFrom, TokenOK
<1>4. StCoreToCore(s) \in Nat  BY <1>1, WorthNat
<1>5. unstakeRequests' \in Seq(Requests)
  <2>1. [user |-> u, stCoreAmount |-> s, coreAmount |-> StCoreToCore(s),
         requestTime |-> now, fulfilled |-> FALSE] \in Requests
    BY <1>1, <1>4 DEF Requests, TokenOK
  <2>2. QED  BY <2>1 DEF RequestUnstake, TokenOK
<1>6. QED  BY <1>3, <1>5 DEF RequestUnstake, FeesOK, TokenOK, owned

LEMMA FulfillToken ==
    ASSUME TokenOK, HoldersCovered, NEW id \in DOMAIN unstakeRequests,
           FulfillUnstake(id)
    PROVE  TokenOK'
<1> DEFINE r == unstakeRequests[id]
<1>1. r \in Requests  BY DEF TokenOK
<1>2. r.stCoreAmount \in Nat  BY <1>1 DEF Requests
<1>3. Burn(Manager, r.stCoreAmount)  BY DEF FulfillUnstake
<1>4. Manager \in Holders  BY DEF Holders
<1>5. StCoreToCore(r.stCoreAmount) \in Nat  BY <1>2, WorthNat
<1>6. balanceOf' \in [Holders -> Nat]  BY <1>2, <1>3, <1>4 DEF Burn, TokenOK
<1>7. totalSupply' \in Nat /\ totalStakedCore' \in Nat
  BY <1>2, <1>3, <1>4, <1>5 DEF Burn, TokenOK, HoldersCovered
<1>8. unstakeRequests' \in Seq(Requests)
  <2>1. [r EXCEPT !.fulfilled = TRUE] \in Requests  BY <1>1 DEF Requests
  <2>2. unstakeRequests' = [unstakeRequests EXCEPT ![id] = [r EXCEPT !.fulfilled = TRUE]]
    BY DEF FulfillUnstake
  <2>3. QED  BY <2>1, <2>2 DEF TokenOK
<1>9. QED  BY <1>6, <1>7, <1>8 DEF FulfillUnstake, FeesOK, TokenOK, owned

LEMMA TurnRoundToken ==
    ASSUME TokenOK, NEW r \in Rewards, NEW view, AfterTurnRound(r, view)
    PROVE  TokenOK' /\ totalStakedCore <= totalStakedCore'
<1>1. r \in Nat  BY AmountsAssumption
<1>2. Compound(r) \in Nat  BY <1>1, FeesWithinRewards
<1>3. totalStakedCore' = totalStakedCore + Compound(r)
  BY DEF AfterTurnRound, NewTotalStaked
<1>4. QED
  BY <1>2, <1>3 DEF AfterTurnRound, FeesOK, TokenOK, unstake, owned

LEMMA TransferToken ==
    ASSUME TokenOK, NEW u \in Users, NEW to \in TransferTo, NEW s \in Amounts,
           Transfer(u, to, s)
    PROVE  TokenOK'
<1>1. s \in Nat /\ u \in Holders /\ to \in Holders
  BY AmountsAssumption, AccountsAssumption DEF Holders
<1>2. balanceOf' \in [Holders -> Nat]  BY <1>1 DEF Transfer, TokenOK
<1>3. QED  BY <1>2 DEF Transfer, FeesOK, TokenOK, unstake, owned

LEMMA ConfigureToken == ASSUME TokenOK, Configure PROVE TokenOK'
<1>1. FeesOK'
  <2>1. ASSUME NEW fee \in FeeChoices, SetProtocolFee(fee) \/ SetPerformanceFee(fee)
        PROVE  FeesOK'
    <3>1. fee \in Nat  BY ChoicesAssumption
    <3>2. CASE SetProtocolFee(fee)  BY <3>1, <3>2 DEF SetProtocolFee, FeesOK, TokenOK
    <3>3. CASE SetPerformanceFee(fee)  BY <3>1, <3>3 DEF SetPerformanceFee, FeesOK, TokenOK
    <3>4. QED  BY <2>1, <3>2, <3>3
  <2>2. ASSUME NEW risk \in RiskChoices, SetMaxValidatorRisk(risk)
        PROVE  FeesOK'
    BY <2>2 DEF SetMaxValidatorRisk, FeesOK, TokenOK
  <2>3. ASSUME NEW set \in QueueChoices, SetUnbondingQueue(set)
        PROVE  FeesOK'
    BY <2>3 DEF SetUnbondingQueue, FeesOK, TokenOK
  <2>4. ASSUME NEW p \in BOOLEAN, SetPaused(p)
        PROVE  FeesOK'
    BY <2>4 DEF SetPaused, FeesOK, TokenOK
  <2>5. QED  BY <2>1, <2>2, <2>3, <2>4 DEF Configure
<1>2. QED  BY <1>1 DEF Configure, FeesOK, TokenOK, token, unstake

-----------------------------------------------------------------------------
(* One step, of whichever action: the token stays well typed, and while     *)
(* there is stCORE the rate does not fall.                                  *)
RateKept == totalSupply > 0 /\ totalSupply' > 0 => ConversionRate' >= ConversionRate

LEMMA SameToken ==
    ASSUME TokenOK, UNCHANGED <<totalSupply, totalStakedCore>> PROVE RateKept
  BY RateNat DEF RateKept, ConversionRate

LEMMA NextKeepsRate ==
    TokenOK /\ HoldersCovered /\ [Next]_vars => TokenOK' /\ RateKept
<1> SUFFICES ASSUME TokenOK, HoldersCovered, [Next]_vars PROVE TokenOK' /\ RateKept
  OBVIOUS
<1>1. ASSUME NEW u \in Users, NEW a \in Amounts, NEW v \in Validators \cup {NoValidator},
             NEW view \in Views, Stake(u, v, a, view)
      PROVE  TokenOK' /\ RateKept
  <2>1. TokenOK'  BY <1>1, StakeToken
  <2>2. RateKept
    <3> SUFFICES ASSUME totalSupply > 0, totalSupply' > 0
                 PROVE  ConversionRate <= ConversionRate'
      BY RateNat, <2>1 DEF RateKept
    <3>1. a \in Nat  BY AmountsAssumption
    <3>2. Mint(u, a)  BY <1>1 DEF Stake
    <3>3. ConversionRate \in Nat \ {0}  BY <3>2, RateNat DEF Mint
    <3>4. CoreToStCore(a) \in Nat  BY <3>1, <3>2, MintedNat DEF Mint
    <3>5. totalSupply \in Nat \ {0} /\ totalStakedCore \in Nat  BY DEF TokenOK
    <3>6. ConversionRate = (totalStakedCore * PRECISION) \div totalSupply
      BY <3>5 DEF ConversionRate
    <3>7. CoreToStCore(a) = (a * PRECISION) \div ConversionRate  BY DEF CoreToStCore
    <3>8. ConversionRate <= ((totalStakedCore + a) * PRECISION)
                               \div (totalSupply + CoreToStCore(a))
      BY <3>1, <3>3, <3>4, <3>5, <3>6, <3>7, PrecisionAssumption, MintKeepsRate
    <3>9. ConversionRate' = ((totalStakedCore + a) * PRECISION)
                               \div (totalSupply + CoreToStCore(a))
      BY <3>2, <3>4, <3>5 DEF Mint, ConversionRate
    <3>10. QED  BY <3>8, <3>9
  <2>3. QED  BY <2>1, <2>2
<1>2. ASSUME NEW u \in Users, NEW a \in Amounts, RequestUnstake(u, a)
      PROVE  TokenOK' /\ RateKept
  BY <1>2, RequestToken, SameToken DEF RequestUnstake
<1>3. ASSUME NEW u \in Users, NEW a \in Amounts, NEW to \in TransferTo, Transfer(u, to, a)
      PROVE  TokenOK' /\ RateKept
  BY <1>3, TransferToken, SameToken DEF Transfer
<1>4. ASSUME NEW id \in DOMAIN unstakeRequests, FulfillUnstake(id)
      PROVE  TokenOK' /\ RateKept
  <2>1. TokenOK'  BY <1>4, FulfillToken
  <2>2. RateKept
    <3> DEFINE s == unstakeRequests[id].stCoreAmount
    <3> SUFFICES ASSUME totalSupply > 0, totalSupply' > 0
                 PROVE  ConversionRate <= ConversionRate'
      BY RateNat, <2>1 DEF RateKept
    <3>1. s \in Nat
      <4>1. unstakeRequests[id] \in Requests  BY DEF TokenOK
      <4>2. QED  BY <4>1 DEF Requests
    <3>2. Burn(Manager, s)  BY <1>4 DEF FulfillUnstake
    <3>3. StCoreToCore(s) \in Nat /\ ConversionRate \in Nat  BY <3>1, WorthNat, RateNat
    <3>4. totalSupply \in Nat \ {0} /\ totalStakedCore \in Nat  BY DEF TokenOK
    <3>5. s < totalSupply /\ StCoreToCore(s) <= totalStakedCore
      BY <3>1, <3>2, <3>3, <3>4 DEF Burn
    <3>6. ConversionRate = (totalStakedCore * PRECISION) \div totalSupply
      BY <3>4 DEF ConversionRate
    <3>7. StCoreToCore(s) = (s * ConversionRate) \div PRECISION  BY DEF StCoreToCore
    <3>8. ConversionRate <= ((totalStakedCore - StCoreToCore(s)) * PRECISION)
                               \div (totalSupply - s)
      <4> HIDE DEF s
      <4> QED  BY <3>1, <3>3, <3>4, <3>5, <3>6, <3>7, PrecisionAssumption, BurnKeepsRate
    <3>9. ConversionRate' = ((totalStakedCore - StCoreToCore(s)) * PRECISION)
                               \div (totalSupply - s)
      BY <3>1, <3>2, <3>4, <3>5 DEF Burn, ConversionRate
    <3>10. QED  BY <3>8, <3>9
  <2>3. QED  BY <2>1, <2>2
<1>5. ASSUME NEW view \in Views, Rebalance(view) PROVE TokenOK' /\ RateKept
  <2>1. /\ UNCHANGED <<token, unstakeRequests, protocolFee, performanceFee>>
        /\ now' \in {now, now + 1}
    BY <1>5 DEF Rebalance, unstake, owned
  <2>2. UNCHANGED <<totalSupply, totalStakedCore>>  BY <2>1 DEF token
  <2>3. QED  BY <2>1, <2>2, TokenUnchanged, SameToken
<1>6. ASSUME NEW view \in Views, NEW v \in Validators, NEW w \in Validators,
             NEW a \in Amounts, ManualRebalance(v, w, a, view)
      PROVE  TokenOK' /\ RateKept
  <2>1. /\ UNCHANGED <<token, unstakeRequests, protocolFee, performanceFee>>
        /\ now' \in {now, now + 1}
    BY <1>6 DEF ManualRebalance, unstake, owned
  <2>2. UNCHANGED <<totalSupply, totalStakedCore>>  BY <2>1 DEF token
  <2>3. QED  BY <2>1, <2>2, TokenUnchanged, SameToken
<1>7. ASSUME NEW view \in Views, NEW r \in Rewards, AfterTurnRound(r, view)
      PROVE  TokenOK' /\ RateKept
  <2>1. TokenOK' /\ totalStakedCore <= totalStakedCore'  BY <1>7, TurnRoundToken
  <2>2. totalSupply' = totalSupply  BY <1>7 DEF AfterTurnRound
  <2>3. RateKept
    <3> SUFFICES ASSUME totalSupply > 0 PROVE ConversionRate <= ConversionRate'
      BY RateNat, <2>1 DEF RateKept
    <3>1. totalStakedCore' \in Nat  BY <2>1 DEF TokenOK
    <3>2. totalStakedCore \in Nat /\ totalSupply \in Nat \ {0}  BY DEF TokenOK
    <3>3. (totalStakedCore * PRECISION) \div totalSupply
              <= (totalStakedCore' * PRECISION) \div totalSupply
      BY <2>1, <3>1, <3>2, PrecisionAssumption, RewardKeepsRate
    <3>4. QED  BY <2>2, <3>2, <3>3 DEF ConversionRate
  <2>4. QED  BY <2>1, <2>3
<1>8. ASSUME NEW v \in Validators, AddValidator(v) \/ RemoveValidator(v)
      PROVE  TokenOK' /\ RateKept
  <2>1. /\ UNCHANGED <<token, unstakeRequests, protocolFee, performanceFee>>
        /\ now' \in {now, now + 1}
    BY <1>8 DEF AddValidator, RemoveValidator, unstake, owned
  <2>2. UNCHANGED <<totalSupply, totalStakedCore>>  BY <2>1 DEF token
  <2>3. QED  BY <2>1, <2>2, TokenUnchanged, SameToken
<1>9. CASE Configure  BY <1>9, ConfigureToken, SameToken DEF Configure, token
<1>10. ASSUME NEW a \in Amounts, Receive(a) PROVE TokenOK' /\ RateKept
  <2>1. /\ UNCHANGED <<token, unstakeRequests, protocolFee, performanceFee>>
        /\ now' \in {now, now + 1}
    BY <1>10 DEF Receive, unstake, owned
  <2>2. UNCHANGED <<totalSupply, totalStakedCore>>  BY <2>1 DEF token
  <2>3. QED  BY <2>1, <2>2, TokenUnchanged, SameToken
<1>11. CASE Tick
  <2>1. /\ UNCHANGED <<token, unstakeRequests, protocolFee, performanceFee>>
        /\ now' \in {now, now + 1}
    BY <1>11 DEF Tick, unstake, owned
  <2>2. UNCHANGED <<totalSupply, totalStakedCore>>  BY <2>1 DEF token
  <2>3. QED  BY <2>1, <2>2, TokenUnchanged, SameToken
<1>12. CASE UNCHANGED vars
  <2>1. /\ UNCHANGED <<token, unstakeRequests, protocolFee, performanceFee>>
        /\ now' \in {now, now + 1}
    BY <1>12 DEF vars, unstake, owned
  <2>2. UNCHANGED <<totalSupply, totalStakedCore>>  BY <2>1 DEF token
  <2>3. QED  BY <2>1, <2>2, TokenUnchanged, SameToken
<1>13. QED
  BY <1>1, <1>2, <1>3, <1>4, <1>5, <1>6, <1>7, <1>8, <1>9, <1>10, <1>11, <1>12
     DEF Next

-----------------------------------------------------------------------------
(* The steps that touch stCORE or the requests.                             *)
LEMMA TokenSteps ==
    ASSUME [Next]_vars
    PROVE  \/ UNCHANGED balanceOf /\ UNCHANGED totalSupply /\ UNCHANGED unstakeRequests
           \/ \E u \in Users, a \in Amounts, v \in Validators \cup {NoValidator},
                 view \in Views : Stake(u, v, a, view)
           \/ \E u \in Users, a \in Amounts : RequestUnstake(u, a)
           \/ \E u \in Users, a \in Amounts, to \in TransferTo : Transfer(u, to, a)
           \/ \E id \in DOMAIN unstakeRequests : FulfillUnstake(id)
<1> DEFINE Rests == UNCHANGED balanceOf /\ UNCHANGED totalSupply /\ UNCHANGED unstakeRequests
<1>1. UNCHANGED <<token, unstake>> => Rests  BY DEF token, unstake
<1>2. ASSUME NEW view, Rebalance(view) PROVE Rests
  BY <1>1, <1>2 DEF Rebalance
<1>3. ASSUME NEW v, NEW w, NEW a, NEW view, ManualRebalance(v, w, a, view) PROVE Rests
  BY <1>1, <1>3 DEF ManualRebalance
<1>4. ASSUME NEW r, NEW view, AfterTurnRound(r, view) PROVE Rests
  BY <1>4 DEF AfterTurnRound, unstake
<1>5. ASSUME NEW v, AddValidator(v) \/ RemoveValidator(v) PROVE Rests
  BY <1>1, <1>5 DEF AddValidator, RemoveValidator
<1>6. ASSUME NEW a, Receive(a) PROVE Rests  BY <1>1, <1>6 DEF Receive
<1>7. CASE Configure  BY <1>1, <1>7 DEF Configure
<1>8. CASE Tick  BY <1>1, <1>8 DEF Tick
<1>9. CASE UNCHANGED vars  BY <1>1, <1>9 DEF vars
<1> HIDE DEF Rests
<1>10. QED
  BY <1>2, <1>3, <1>4, <1>5, <1>6, <1>7, <1>8, <1>9 DEF Next, Rests

(* No stCORE appears or disappears but by a mint or a burn.                 *)
SupplyExact == totalSupply = SumFunctionOnSet(balanceOf, Holders)

LEMMA HoldersFinite == IsFiniteSet(Holders)
  BY AccountsAssumption, FS_AddElement DEF Holders

LEMMA SupplyCovers == ASSUME TokenOK, SupplyExact PROVE HoldersCovered
<1>1. \A h \in Holders : balanceOf[h] \in Nat  BY DEF TokenOK
<1>2. QED  BY <1>1, HoldersFinite, SumMember DEF HoldersCovered, SupplyExact

LEMMA SupplyInitially == Init => SupplyExact
<1> SUFFICES ASSUME Init PROVE SupplyExact
  OBVIOUS
<1>1. totalSupply = 0 /\ \A h \in Holders : balanceOf[h] = 0  BY DEF Init
<1>2. QED  BY <1>1, HoldersFinite, SumZero DEF SupplyExact

(* Moving stCORE from one holder to another.                                *)
LEMMA SupplyMoved ==
    ASSUME TokenOK, TokenOK', SupplyExact, NEW a \in Holders, NEW b \in Holders, a # b,
           NEW s \in Nat, UNCHANGED totalSupply,
           balanceOf' = [balanceOf EXCEPT ![a] = @ - s, ![b] = @ + s]
    PROVE  SupplyExact'
<1>1. \A h \in Holders : balanceOf[h] \in Int /\ balanceOf'[h] \in Int  BY DEF TokenOK
<1>2. \A h \in Holders \ {a, b} : balanceOf'[h] = balanceOf[h]  BY DEF TokenOK
<1>3. balanceOf'[a] = balanceOf[a] - s /\ balanceOf'[b] = balanceOf[b] + s
  BY DEF TokenOK
<1>4. SumFunctionOnSet(balanceOf', Holders) = SumFunctionOnSet(balanceOf, Holders)
  <2> DEFINE f == balanceOf
             g == balanceOf'
             S == Holders
  <2>1. /\ IsFiniteSet(S) /\ a \in S /\ b \in S
        /\ \A x \in S : f[x] \in Int /\ g[x] \in Int
        /\ \A x \in S \ {a, b} : g[x] = f[x]
        /\ g[a] = f[a] - s /\ g[b] = f[b] + s
    BY <1>1, <1>2, <1>3, HoldersFinite
  <2> HIDE DEF f, g, S
  <2>2. s \in Int  OBVIOUS
  <2>3. SumFunctionOnSet(g, S) = SumFunctionOnSet(f, S)  BY <2>1, <2>2, SumMove, Zenon
  <2>4. QED  BY <2>3 DEF f, g, S
<1>5. QED  BY <1>4 DEF SupplyExact

(* Minting to a holder, or burning from it.                                 *)
LEMMA SupplyChanged ==
    ASSUME TokenOK, TokenOK', SupplyExact, NEW a \in Holders, NEW d \in Int,
           \A h \in Holders \ {a} : balanceOf'[h] = balanceOf[h],
           balanceOf'[a] = balanceOf[a] + d, totalSupply' = totalSupply + d
    PROVE  SupplyExact'
<1>1. \A h \in Holders : balanceOf[h] \in Int /\ balanceOf'[h] \in Int  BY DEF TokenOK
<1>2. SumFunctionOnSet(balanceOf', Holders)
          = SumFunctionOnSet(balanceOf, Holders) + (balanceOf'[a] - balanceOf[a])
  BY <1>1, HoldersFinite, SumChange
<1>3. totalSupply \in Nat /\ balanceOf[a] \in Nat  BY DEF TokenOK
<1>4. QED  BY <1>2, <1>3 DEF SupplyExact

LEMMA SupplyNext == TokenOK /\ TokenOK' /\ SupplyExact /\ [Next]_vars => SupplyExact'
<1> SUFFICES ASSUME TokenOK, TokenOK', SupplyExact, [Next]_vars PROVE SupplyExact'
  OBVIOUS
<1>1. Manager \in Holders /\ \A u \in Users : u \in Holders /\ u # Manager
  BY AccountsAssumption DEF Holders
<1>2. CASE UNCHANGED balanceOf /\ UNCHANGED totalSupply /\ UNCHANGED unstakeRequests
  BY <1>2 DEF SupplyExact
<1>3. ASSUME NEW u \in Users, NEW c \in Amounts, NEW v, NEW view, Stake(u, v, c, view)
      PROVE  SupplyExact'
  <2> DEFINE d == CoreToStCore(c)
  <2>1. Mint(u, c)  BY <1>3 DEF Stake
  <2>2. d \in Nat  BY <2>1, AmountsAssumption, MintedNat DEF Mint
  <2> HIDE DEF d
  <2>3. balanceOf' = [balanceOf EXCEPT ![u] = @ + d] /\ totalSupply' = totalSupply + d
    BY <2>1 DEF Mint, d
  <2>4. balanceOf'[u] = balanceOf[u] + d
        /\ \A h \in Holders \ {u} : balanceOf'[h] = balanceOf[h]
    BY <1>1, <2>3 DEF TokenOK
  <2>5. QED  BY <1>1, <2>2, <2>3, <2>4, SupplyChanged
<1>4. ASSUME NEW u \in Users, NEW s \in Amounts, RequestUnstake(u, s)
      PROVE  SupplyExact'
  <2>1. s \in Nat  BY AmountsAssumption
  <2>2. balanceOf' = [balanceOf EXCEPT ![u] = @ - s, ![Manager] = @ + s]
        /\ UNCHANGED totalSupply
    BY <1>4 DEF RequestUnstake, EscrowedFrom
  <2>3. QED  BY <1>1, <2>1, <2>2, SupplyMoved
<1>5. ASSUME NEW u \in Users, NEW s \in Amounts, NEW to \in TransferTo, Transfer(u, to, s)
      PROVE  SupplyExact'
  <2>1. s \in Nat /\ to \in Holders  BY AmountsAssumption, AccountsAssumption
  <2>2. balanceOf' = [balanceOf EXCEPT ![u] = @ - s, ![to] = @ + s]
        /\ UNCHANGED totalSupply /\ u # to
    BY <1>5 DEF Transfer
  <2>3. QED  BY <1>1, <2>1, <2>2, SupplyMoved
<1>6. ASSUME NEW id \in DOMAIN unstakeRequests, FulfillUnstake(id) PROVE SupplyExact'
  <2> DEFINE s == unstakeRequests[id].stCoreAmount
  <2>1. unstakeRequests[id] \in Requests  BY DEF TokenOK
  <2>2. s \in Nat  BY <2>1 DEF Requests
  <2> HIDE DEF s
  <2>3. balanceOf' = [balanceOf EXCEPT ![Manager] = @ - s] /\ totalSupply' = totalSupply - s
    BY <1>6 DEF FulfillUnstake, Burn, s
  <2>4. balanceOf'[Manager] = balanceOf[Manager] - s
        /\ \A h \in Holders \ {Manager} : balanceOf'[h] = balanceOf[h]
    BY <1>1, <2>3 DEF TokenOK
  <2>5. /\ balanceOf'[Manager] = balanceOf[Manager] + (-s)
        /\ totalSupply' = totalSupply + (-s) /\ -s \in Int
    BY <1>1, <2>2, <2>3, <2>4 DEF TokenOK
  <2>6. QED  BY <1>1, <2>4, <2>5, SupplyChanged
<1>7. QED  BY <1>2, <1>3, <1>4, <1>5, <1>6, TokenSteps

-----------------------------------------------------------------------------
(* The escrow: the stCORE of the open requests, by request.                 *)
OpenAt == [id \in DOMAIN unstakeRequests |->
              IF unstakeRequests[id].fulfilled THEN 0
              ELSE unstakeRequests[id].stCoreAmount]

LEMMA OpenRequests ==
    ASSUME TokenOK
    PROVE  /\ \A id \in DOMAIN unstakeRequests :
                 unstakeRequests[id] \in Requests /\ OpenAt[id] \in Nat
           /\ IsFiniteSet(DOMAIN unstakeRequests)
           /\ DOMAIN unstakeRequests = 1..Len(unstakeRequests)
           /\ Len(unstakeRequests) \in Nat
<1>1. \A id \in DOMAIN unstakeRequests : unstakeRequests[id] \in Requests
  BY DEF TokenOK
<1>2. \A id \in DOMAIN unstakeRequests : OpenAt[id] \in Nat
  BY <1>1 DEF OpenAt, Requests
<1>3. DOMAIN unstakeRequests = 1..Len(unstakeRequests) /\ Len(unstakeRequests) \in Nat
  BY DEF TokenOK
<1>4. QED  BY <1>1, <1>2, <1>3, FS_Interval

LEMMA EscrowSum ==
    EscrowCovers <=>
        SumFunctionOnSet(OpenAt, DOMAIN unstakeRequests) <= balanceOf[Manager]
<1>1. DOMAIN OpenAt = DOMAIN unstakeRequests  BY DEF OpenAt
<1>2. SumFunction(OpenAt) = SumFunctionOnSet(OpenAt, DOMAIN unstakeRequests)
  BY <1>1 DEF SumFunction
<1>3. EscrowCovers <=> SumFunction(OpenAt) <= balanceOf[Manager]
  BY DEF EscrowCovers, OpenAt
<1>4. QED  BY <1>2, <1>3

LEMMA EscrowInitially == Init => EscrowCovers
<1> SUFFICES ASSUME Init PROVE EscrowCovers
  OBVIOUS
<1>1. DOMAIN unstakeRequests = {}  BY DEF Init
<1>2. balanceOf[Manager] = 0  BY DEF Init, Holders
<1>3. SumFunctionOnSet(OpenAt, {}) = 0  BY SumEmpty
<1>4. QED  BY <1>1, <1>2, <1>3, EscrowSum

LEMMA EscrowSumNext ==
    EscrowCovers' <=>
        SumFunctionOnSet(OpenAt', DOMAIN unstakeRequests') <= balanceOf'[Manager]
<1>1. DOMAIN OpenAt' = DOMAIN unstakeRequests'  BY DEF OpenAt
<1>2. SumFunction(OpenAt') = SumFunctionOnSet(OpenAt', DOMAIN unstakeRequests')
  BY <1>1 DEF SumFunction
<1>3. EscrowCovers' <=> SumFunction(OpenAt') <= balanceOf'[Manager]
  BY DEF EscrowCovers, OpenAt
<1>4. QED  BY <1>2, <1>3

LEMMA EscrowNext == TokenOK /\ TokenOK' /\ EscrowCovers /\ [Next]_vars => EscrowCovers'
<1> SUFFICES ASSUME TokenOK, TokenOK', EscrowCovers, [Next]_vars PROVE EscrowCovers'
  OBVIOUS
<1> DEFINE ids == DOMAIN unstakeRequests
           Escrow == SumFunctionOnSet(OpenAt, ids)
           Later  == SumFunctionOnSet(OpenAt', ids')
<1>1. Manager \in Holders /\ \A u \in Users : u \in Holders /\ u # Manager
  BY AccountsAssumption DEF Holders
<1>2. /\ \A id \in ids : unstakeRequests[id] \in Requests /\ OpenAt[id] \in Nat
      /\ IsFiniteSet(ids)
  BY OpenRequests
<1>3. Escrow \in Nat  BY <1>2, SumNat
<1>4. Escrow <= balanceOf[Manager]  BY EscrowSum
<1>5. balanceOf[Manager] \in Nat /\ balanceOf'[Manager] \in Nat  BY <1>1 DEF TokenOK
<1>6. SUFFICES Later <= balanceOf'[Manager]  BY EscrowSumNext
<1>7. UNCHANGED unstakeRequests => Later = Escrow  BY DEF OpenAt
<1> HIDE DEF Escrow
<1>8. CASE UNCHANGED balanceOf /\ UNCHANGED totalSupply /\ UNCHANGED unstakeRequests
  BY <1>4, <1>7, <1>8
<1>9. ASSUME NEW u \in Users, NEW c \in Amounts, NEW v, NEW view, Stake(u, v, c, view)
      PROVE  Later <= balanceOf'[Manager]
  <2>1. UNCHANGED unstakeRequests  BY <1>9 DEF Stake, unstake
  <2>2. balanceOf'[Manager] = balanceOf[Manager]
    BY <1>1, <1>9 DEF Stake, Mint, TokenOK
  <2>3. QED  BY <1>4, <1>7, <2>1, <2>2
<1>10. ASSUME NEW u \in Users, NEW s \in Amounts, RequestUnstake(u, s)
       PROVE  Later <= balanceOf'[Manager]
  <2>1. s \in Nat  BY AmountsAssumption
  <2>2. balanceOf' = [balanceOf EXCEPT ![u] = @ - s, ![Manager] = @ + s]
    BY <1>10 DEF RequestUnstake, EscrowedFrom
  <2>3. balanceOf'[Manager] = balanceOf[Manager] + s  BY <1>1, <2>2 DEF TokenOK
  <2>4. CASE UNCHANGED unstakeRequests  BY <1>3, <1>4, <1>5, <1>7, <2>1, <2>3, <2>4
  <2>5. ASSUME NEW r \in Requests, r.stCoreAmount = s, ~r.fulfilled,
               unstakeRequests' = Append(unstakeRequests, r)
        PROVE  Later <= balanceOf'[Manager]
    <3> DEFINE n == Len(unstakeRequests) + 1
    <3>1. ids = 1..(n - 1) /\ n \in Nat \ {0}  BY OpenRequests
    <3>2. ids' = ids \cup {n} /\ n \notin ids
      BY <3>1, <2>5 DEF TokenOK
    <3>3. unstakeRequests'[n] = r
          /\ \A id \in ids : unstakeRequests'[id] = unstakeRequests[id]
      BY <3>1, <2>5 DEF TokenOK
    <3>4. OpenAt'[n] = s /\ \A id \in ids : OpenAt'[id] = OpenAt[id]
      BY <3>2, <3>3, <2>5 DEF OpenAt
    <3> HIDE DEF n, ids
    <3>5. SumFunctionOnSet(OpenAt', ids \cup {n}) = s + SumFunctionOnSet(OpenAt', ids)
      BY <1>2, <2>1, <3>2, <3>4, SumAdd
    <3>6. SumFunctionOnSet(OpenAt', ids) = Escrow
      BY <1>2, <3>4, SumSame DEF Escrow
    <3>7. Later = s + Escrow  BY <3>2, <3>5, <3>6
    <3>8. QED  BY <1>3, <1>4, <1>5, <2>1, <2>3, <3>7
  <2>6. CASE ~queueSet
    <3>1. [user |-> u, stCoreAmount |-> s, coreAmount |-> StCoreToCore(s),
           requestTime |-> now, fulfilled |-> FALSE] \in Requests
      BY <2>1, WorthNat DEF Requests, TokenOK
    <3>2. QED  BY <1>10, <2>4, <2>5, <3>1 DEF RequestUnstake
  <2>7. CASE queueSet  BY <1>10, <2>4, <2>7 DEF RequestUnstake
  <2>8. QED  BY <2>6, <2>7
<1>11. ASSUME NEW u \in Users, NEW s \in Amounts, NEW to \in TransferTo, Transfer(u, to, s)
       PROVE  Later <= balanceOf'[Manager]
  <2>1. s \in Nat /\ to \in Holders  BY AmountsAssumption, AccountsAssumption
  <2>2. UNCHANGED unstakeRequests  BY <1>11 DEF Transfer, unstake
  <2>3. balanceOf' = [balanceOf EXCEPT ![u] = @ - s, ![to] = @ + s]
    BY <1>11 DEF Transfer
  <2>4. balanceOf'[Manager] >= balanceOf[Manager]
    BY <1>1, <1>5, <2>1, <2>3 DEF TokenOK
  <2>5. QED  BY <1>3, <1>4, <1>5, <1>7, <2>2, <2>4
<1>12. ASSUME NEW id \in DOMAIN unstakeRequests, FulfillUnstake(id)
       PROVE  Later <= balanceOf'[Manager]
  <2> DEFINE r == unstakeRequests[id]
             s == r.stCoreAmount
  <2>1. r \in Requests /\ ~r.fulfilled /\ s \in Nat
    BY <1>2, <1>12 DEF FulfillUnstake, Due, Requests
  <2>2. unstakeRequests' = [unstakeRequests EXCEPT ![id] = [r EXCEPT !.fulfilled = TRUE]]
    BY <1>12 DEF FulfillUnstake
  <2>3. [r EXCEPT !.fulfilled = TRUE].fulfilled = TRUE  BY <2>1 DEF Requests
  <2>4. ids' = ids /\ unstakeRequests'[id].fulfilled = TRUE
        /\ \A i \in ids \ {id} : unstakeRequests'[i] = unstakeRequests[i]
    BY <2>2, <2>3 DEF TokenOK
  <2>5. OpenAt'[id] = 0 /\ OpenAt[id] = s /\ \A i \in ids \ {id} : OpenAt'[i] = OpenAt[i]
    BY <2>1, <2>4 DEF OpenAt
  <2>6. balanceOf'[Manager] = balanceOf[Manager] - s
    BY <1>1, <1>12 DEF FulfillUnstake, Burn, TokenOK
  <2> HIDE DEF r, s
  <2>7. \A i \in ids : OpenAt[i] \in Int /\ OpenAt'[i] \in Int
    BY <1>2, <2>5
  <2>8. SumFunctionOnSet(OpenAt', ids) = Escrow + (OpenAt'[id] - OpenAt[id])
    BY <1>2, <2>5, <2>7, SumChange DEF Escrow
  <2>9. Later = Escrow - s  BY <1>3, <2>1, <2>4, <2>5, <2>8
  <2>10. QED  BY <1>3, <1>4, <1>5, <2>1, <2>6, <2>9
<1> HIDE DEF Later
<1>13. QED  BY <1>8, <1>9, <1>10, <1>11, <1>12, TokenSteps

-----------------------------------------------------------------------------
(* No open request names more stCORE than there is.                         *)
OpenWithinSupply ==
    \A id \in DOMAIN unstakeRequests :
        ~unstakeRequests[id].fulfilled => unstakeRequests[id].stCoreAmount <= totalSupply

LEMMA EscrowedWithinSupply ==
    TokenOK /\ HoldersCovered /\ EscrowCovers => OpenWithinSupply
<1> SUFFICES ASSUME TokenOK, HoldersCovered, EscrowCovers,
                    NEW id \in DOMAIN unstakeRequests, ~unstakeRequests[id].fulfilled
             PROVE  unstakeRequests[id].stCoreAmount <= totalSupply
  BY DEF OpenWithinSupply
<1>1. /\ \A i \in DOMAIN unstakeRequests : OpenAt[i] \in Nat
      /\ IsFiniteSet(DOMAIN unstakeRequests)
  BY OpenRequests
<1>2. OpenAt[id] = unstakeRequests[id].stCoreAmount  BY DEF OpenAt
<1>3. OpenAt[id] <= SumFunctionOnSet(OpenAt, DOMAIN unstakeRequests)
  BY <1>1, SumMember
<1>4. SumFunctionOnSet(OpenAt, DOMAIN unstakeRequests) \in Nat  BY <1>1, SumNat
<1>5. SumFunctionOnSet(OpenAt, DOMAIN unstakeRequests) <= balanceOf[Manager]
  BY EscrowSum
<1>6. balanceOf[Manager] \in Nat /\ totalSupply \in Nat /\ balanceOf[Manager] <= totalSupply
  BY DEF TokenOK, HoldersCovered, Holders
<1>7. OpenAt[id] <= totalSupply  BY <1>1, <1>3, <1>4, <1>5, <1>6
<1>8. QED  BY <1>2, <1>7

(* An open request was there before the step, as it is now, or was made in  *)
(* it, at the rate of before and after.                                     *)
LEMMA OpenKept ==
    ASSUME TokenOK, [Next]_vars, NEW id \in DOMAIN unstakeRequests',
           ~unstakeRequests'[id].fulfilled
    PROVE  \/ id \in DOMAIN unstakeRequests /\ unstakeRequests[id] = unstakeRequests'[id]
           \/ /\ unstakeRequests'[id].coreAmount
                      = StCoreToCore(unstakeRequests'[id].stCoreAmount)
              /\ UNCHANGED totalSupply /\ UNCHANGED totalStakedCore
<1> DEFINE Kept == id \in DOMAIN unstakeRequests /\ unstakeRequests[id] = unstakeRequests'[id]
           New == /\ unstakeRequests'[id].coreAmount
                         = StCoreToCore(unstakeRequests'[id].stCoreAmount)
                  /\ UNCHANGED totalSupply /\ UNCHANGED totalStakedCore
<1>1. UNCHANGED unstakeRequests => Kept  OBVIOUS
<1>2. ASSUME NEW u, NEW c, NEW v, NEW view, Stake(u, v, c, view) PROVE Kept
  BY <1>1, <1>2 DEF Stake, unstake
<1>3. ASSUME NEW u \in Users, NEW s \in Amounts, RequestUnstake(u, s) PROVE Kept \/ New
  <2> DEFINE r == [user |-> u, stCoreAmount |-> s, coreAmount |-> StCoreToCore(s),
                   requestTime |-> now, fulfilled |-> FALSE]
  <2>1. UNCHANGED totalSupply /\ UNCHANGED totalStakedCore  BY <1>3 DEF RequestUnstake
  <2>2. UNCHANGED unstakeRequests \/ unstakeRequests' = Append(unstakeRequests, r)
    BY <1>3 DEF RequestUnstake
  <2>3. r.coreAmount = StCoreToCore(r.stCoreAmount)  OBVIOUS
  <2>4. r \in Requests
    BY WorthNat, AmountsAssumption DEF Requests, TokenOK
  <2> HIDE DEF r
  <2>5. ASSUME unstakeRequests' = Append(unstakeRequests, r),
               id \notin DOMAIN unstakeRequests
        PROVE  unstakeRequests'[id] = r
    BY <2>4, <2>5 DEF TokenOK
  <2>6. ASSUME unstakeRequests' = Append(unstakeRequests, r),
               id \in DOMAIN unstakeRequests
        PROVE  Kept
    BY <2>4, <2>6 DEF TokenOK
  <2>7. QED  BY <1>1, <2>1, <2>2, <2>3, <2>5, <2>6
<1>4. ASSUME NEW u, NEW s, NEW to, Transfer(u, to, s) PROVE Kept
  BY <1>1, <1>4 DEF Transfer, unstake
<1>5. ASSUME NEW i \in DOMAIN unstakeRequests, FulfillUnstake(i) PROVE Kept
  <2> DEFINE r == unstakeRequests[i]
  <2>1. r \in Requests  BY DEF TokenOK
  <2>2. unstakeRequests' = [unstakeRequests EXCEPT ![i] = [r EXCEPT !.fulfilled = TRUE]]
    BY <1>5 DEF FulfillUnstake
  <2>3. [r EXCEPT !.fulfilled = TRUE].fulfilled = TRUE  BY <2>1 DEF Requests
  <2> HIDE DEF r
  <2>4. id # i  BY <2>2, <2>3
  <2>5. QED  BY <2>2, <2>4
<1> HIDE DEF Kept, New
<1>6. Kept \/ New  BY <1>1, <1>2, <1>3, <1>4, <1>5, TokenSteps
<1>7. QED  BY <1>6 DEF Kept, New

(* No stCORE is worth nothing.                                              *)
LEMMA WorthOfNone ==
    ASSUME NEW s, s = 0, NEW x \in Nat PROVE (s * x) \div PRECISION = 0
<1>1. 0 * x = 0  OBVIOUS
<1>2. 0 \div PRECISION = 0  BY PrecisionAssumption
<1>3. QED  BY <1>1, <1>2

(* What stCORE is worth does not fall when the rate does not.               *)
LEMMA WorthMonotone ==
    ASSUME NEW s \in Nat, NEW x \in Nat, NEW y \in Nat, x <= y
    PROVE  (s * x) \div PRECISION <= (s * y) \div PRECISION
<1>1. s * x = x * s /\ s * y = y * s  OBVIOUS
<1>2. CASE s = 0  BY <1>2, WorthOfNone
<1>3. CASE s # 0
  <2>1. s \in Nat \ {0}  BY <1>3
  <2>2. (x * s) \div PRECISION <= (y * s) \div PRECISION
    BY <2>1, PrecisionAssumption, RewardKeepsRate
  <2>3. QED  BY <1>1, <2>2
<1>4. QED  BY <1>2, <1>3

LEMMA RequestsNext ==
    ASSUME TokenOK, TokenOK', HoldersCovered, OpenWithinSupply, OpenWithinSupply',
           RequestsCovered, [Next]_vars
    PROVE  RequestsCovered'
<1> SUFFICES ASSUME NEW id \in DOMAIN unstakeRequests', ~unstakeRequests'[id].fulfilled
             PROVE  unstakeRequests'[id].coreAmount
                        <= (unstakeRequests'[id].stCoreAmount * ConversionRate') \div PRECISION
  BY DEF RequestsCovered, StCoreToCore
<1> DEFINE r == unstakeRequests'[id]
           s == r.stCoreAmount
<1>1. r \in Requests  BY DEF TokenOK
<1>2. s \in Nat /\ r.coreAmount \in Nat  BY <1>1 DEF Requests
<1>3. ConversionRate \in Nat  BY RateNat
<1>4. ConversionRate' \in Nat  BY TypedRateNext DEF RateTyped
<1>5. s <= totalSupply'  BY DEF OpenWithinSupply
<1>6. CASE id \in DOMAIN unstakeRequests /\ unstakeRequests[id] = r
  <2>1. r.coreAmount <= (s * ConversionRate) \div PRECISION
    BY <1>6 DEF RequestsCovered, StCoreToCore
  <2>2. s <= totalSupply  BY <1>6 DEF OpenWithinSupply
  <2>3. CASE s = 0
    <3> HIDE DEF s
    <3>1. (s * ConversionRate) \div PRECISION = 0  BY <1>3, <2>3, WorthOfNone
    <3>2. (s * ConversionRate') \div PRECISION = 0  BY <1>4, <2>3, WorthOfNone
    <3>3. r.coreAmount <= (s * ConversionRate') \div PRECISION
      BY <2>1, <3>1, <3>2
    <3>4. QED  BY <3>3 DEF s
  <2>4. CASE s # 0
    <3>1. totalSupply > 0 /\ totalSupply' > 0
      BY <1>2, <1>5, <2>2, <2>4 DEF TokenOK
    <3>2. ConversionRate <= ConversionRate'
      BY <3>1, <1>3, <1>4, NextKeepsRate DEF RateKept
    <3>3. (s * ConversionRate) \div PRECISION <= (s * ConversionRate') \div PRECISION
      <4> HIDE DEF s
      <4> QED  BY <1>2, <1>3, <1>4, <3>2, WorthMonotone
    <3>4. /\ (s * ConversionRate) \div PRECISION \in Nat
          /\ (s * ConversionRate') \div PRECISION \in Nat
      <4> HIDE DEF s
      <4> QED  BY <1>2, <1>3, <1>4, MulNat, DivNat, PrecisionAssumption
    <3>5. QED
      <4> HIDE DEF s
      <4>1. r.coreAmount <= (s * ConversionRate') \div PRECISION
        BY <1>2, <2>1, <3>3, <3>4
      <4>2. QED  BY <4>1 DEF s
  <2>5. QED  BY <2>3, <2>4
<1>7. CASE /\ r.coreAmount = StCoreToCore(s)
           /\ UNCHANGED totalSupply /\ UNCHANGED totalStakedCore
  <2>1. ConversionRate' = ConversionRate  BY <1>7 DEF ConversionRate
  <2>2. r.coreAmount = (s * ConversionRate') \div PRECISION
    BY <1>7, <2>1 DEF StCoreToCore
  <2>3. QED  BY <1>2, <2>2
<1> HIDE DEF r, s
<1>8. QED  BY <1>6, <1>7, OpenKept DEF r, s

-----------------------------------------------------------------------------
(* The list of validators and the stake at them.                            *)
StakeOK ==
    /\ activeValidators \in Seq(Validators)
    /\ delegatedAmountByValidator \in [Validators -> Nat]
    /\ held \in Nat

AtListed == \A v \in Validators : delegatedAmountByValidator[v] > 0 => v \in Listed

ListedOnce ==
    \A i, j \in DOMAIN activeValidators : activeValidators[i] = activeValidators[j] => i = j

StakeInv == StakeOK /\ AtListed /\ ListedOnce /\ StakeBacked

LEMMA ListedValidators ==
    ASSUME StakeOK
    PROVE  Listed \subseteq Validators /\ IsFiniteSet(Listed)
<1>1. Listed \subseteq Validators  BY DEF StakeOK, Listed, Range
<1>2. QED  BY <1>1, ValidatorAssumption, FS_Subset

LEMMA DelegatedNat ==
    ASSUME StakeOK
    PROVE  SumFunctionOnSet(delegatedAmountByValidator, Validators) \in Nat
<1>1. \A v \in Validators : delegatedAmountByValidator[v] \in Nat  BY DEF StakeOK
<1>2. QED  BY <1>1, ValidatorAssumption, SumNat

(* The optimal validator, if there is one, is listed and active.            *)
LEMMA OptimalListed ==
    ASSUME StakeOK, NEW view, OptimalValidator(view) # NoValidator
    PROVE  /\ OptimalValidator(view) \in Listed
           /\ view[OptimalValidator(view)].isActive
<1> DEFINE score(i) == Score(view, activeValidators[i])
           best == {i \in DOMAIN activeValidators :
                       /\ score(i) > 0
                       /\ \A j \in DOMAIN activeValidators :
                             /\ score(j) <= score(i)
                             /\ j < i => score(j) < score(i)}
           i == CHOOSE k \in best : TRUE
<1>1. OptimalValidator(view) = IF best = {} THEN NoValidator ELSE activeValidators[i]
  BY DEF OptimalValidator
<1>2. best # {} /\ OptimalValidator(view) = activeValidators[i]
  <2> HIDE DEF best
  <2> QED  BY <1>1
<1>3. i \in best
  <2> HIDE DEF best
  <2> QED  BY <1>2
<1>4. i \in DOMAIN activeValidators /\ score(i) > 0  BY <1>3
<1> HIDE DEF i
<1>5. activeValidators[i] \in Listed  BY <1>4 DEF Listed, Range
<1>6. Acceptable(view, activeValidators[i])  BY <1>4 DEF Score
<1>7. QED  BY <1>2, <1>5, <1>6 DEF Acceptable

(* What an action that only moves stake leaves of the invariant.            *)
LEMMA StakeMoved ==
    ASSUME StakeOK, AtListed, ListedOnce, UNCHANGED activeValidators,
           delegatedAmountByValidator' \in [Validators -> Nat], held' \in Nat,
           \A v \in Validators \ Listed :
               delegatedAmountByValidator'[v] = delegatedAmountByValidator[v]
    PROVE  StakeOK' /\ AtListed' /\ ListedOnce'
<1>1. Listed' = Listed  BY DEF Listed
<1>2. StakeOK' /\ ListedOnce'  BY DEF StakeOK, ListedOnce
<1>3. AtListed'  BY <1>1 DEF AtListed
<1>4. QED  BY <1>2, <1>3

LEMMA StakeStake ==
    ASSUME StakeInv, TokenOK, NEW u \in Users, NEW c \in Amounts,
           NEW preferred \in Validators \cup {NoValidator}, NEW view,
           Stake(u, preferred, c, view)
    PROVE  StakeInv'
<1> DEFINE v == IF preferred \in Listed THEN preferred ELSE OptimalValidator(view)
           D == delegatedAmountByValidator
<1>1. c \in Nat  BY AmountsAssumption
<1>2. StakeOK /\ AtListed /\ ListedOnce /\ StakeBacked  BY DEF StakeInv
<1>3. v \in Listed  BY <1>2, OptimalListed DEF Stake
<1>4. D' = [D EXCEPT ![v] = @ + c] /\ UNCHANGED activeValidators /\ UNCHANGED held
  BY DEF Stake, coin
<1>5. totalStakedCore' = totalStakedCore + c  BY DEF Stake, Mint
<1> HIDE DEF v
<1>6. v \in Validators  BY <1>2, <1>3, ListedValidators
<1>7. /\ D' \in [Validators -> Nat]
      /\ D'[v] = D[v] + c
      /\ \A w \in Validators \ {v} : D'[w] = D[w]
  BY <1>1, <1>2, <1>4, <1>6 DEF StakeOK
<1>8. held' \in Nat /\ \A w \in Validators \ Listed : D'[w] = D[w]
  BY <1>2, <1>3, <1>4, <1>7 DEF StakeOK
<1>9. StakeOK' /\ AtListed' /\ ListedOnce'  BY <1>2, <1>4, <1>7, <1>8, StakeMoved
<1>10. \A w \in Validators : D[w] \in Nat /\ D'[w] \in Nat
  BY <1>2, <1>7 DEF StakeOK
<1>11. SumFunctionOnSet(D', Validators)
           = SumFunctionOnSet(D, Validators) + (D'[v] - D[v])
  BY <1>6, <1>7, <1>10, ValidatorAssumption, SumChange
<1>12. StakeBacked'
  <2>1. totalStakedCore <= SumFunctionOnSet(D, Validators) + held
    BY <1>2 DEF StakeBacked
  <2>2. /\ SumFunctionOnSet(D, Validators) \in Nat /\ held \in Nat
        /\ totalStakedCore \in Nat /\ D[v] \in Nat
    BY <1>2, <1>6, <1>10, DelegatedNat DEF StakeOK, TokenOK
  <2>3. totalStakedCore' <= SumFunctionOnSet(D', Validators) + held'
    BY <1>1, <1>4, <1>5, <1>7, <1>11, <2>1, <2>2
  <2>4. QED  BY <2>3 DEF StakeBacked
<1>13. QED  BY <1>9, <1>12 DEF StakeInv

(* Stake moved among the validators, none lost.                             *)
LEMMA StakeShuffled ==
    ASSUME StakeInv, UNCHANGED activeValidators, UNCHANGED held, UNCHANGED totalStakedCore,
           delegatedAmountByValidator' \in [Validators -> Nat],
           \A v \in Validators \ Listed :
               delegatedAmountByValidator'[v] = delegatedAmountByValidator[v],
           SumFunctionOnSet(delegatedAmountByValidator', Validators)
               = SumFunctionOnSet(delegatedAmountByValidator, Validators)
    PROVE  StakeInv'
<1>1. StakeOK /\ AtListed /\ ListedOnce /\ StakeBacked  BY DEF StakeInv
<1>2. held' \in Nat  BY <1>1 DEF StakeOK
<1>3. StakeOK' /\ AtListed' /\ ListedOnce'  BY <1>1, <1>2, StakeMoved
<1>4. StakeBacked'  BY <1>1 DEF StakeBacked
<1>5. QED  BY <1>3, <1>4 DEF StakeInv

LEMMA ManualStake ==
    ASSUME StakeInv, NEW from \in Validators, NEW to \in Validators, NEW amount \in Amounts,
           NEW view, ManualRebalance(from, to, amount, view)
    PROVE  StakeInv'
<1> DEFINE D == delegatedAmountByValidator
<1>1. amount \in Nat  BY AmountsAssumption
<1>2. StakeOK /\ D \in [Validators -> Nat]  BY DEF StakeInv, StakeOK
<1>3. /\ from \in Listed /\ to \in Listed /\ D[from] >= amount
      /\ UNCHANGED activeValidators /\ UNCHANGED held /\ UNCHANGED totalStakedCore
      /\ D' = [v \in Validators |-> D[v] - (IF v = from THEN amount ELSE 0)
                                         + (IF v = to THEN amount ELSE 0)]
  BY DEF ManualRebalance, HasDelegated, coin, token
<1>4. /\ D' \in [Validators -> Nat]
      /\ \A v \in Validators \ {from, to} : D'[v] = D[v]
  BY <1>1, <1>2, <1>3
<1>5. \A v \in Validators \ Listed : D'[v] = D[v]  BY <1>3, <1>4
<1>6. \A v \in Validators : D[v] \in Int /\ D'[v] \in Int  BY <1>2, <1>4
<1>7. SumFunctionOnSet(D', Validators) = SumFunctionOnSet(D, Validators)
  <2>1. CASE from = to
    <3>1. \A v \in Validators : D'[v] = D[v]  BY <1>1, <1>2, <1>3, <2>1
    <3>2. QED  BY <1>6, <3>1, ValidatorAssumption, SumSame
  <2>2. CASE from # to
    <3>1. D'[from] = D[from] - amount /\ D'[to] = D[to] + amount
      BY <1>1, <1>2, <1>3, <2>2
    <3>2. amount \in Int  BY <1>1
    <3> DEFINE g == D'
    <3>3. /\ IsFiniteSet(Validators)
          /\ \A v \in Validators : D[v] \in Int /\ g[v] \in Int
          /\ \A v \in Validators \ {from, to} : g[v] = D[v]
          /\ g[from] = D[from] - amount /\ g[to] = D[to] + amount
      BY <1>4, <1>6, <3>1, ValidatorAssumption
    <3> HIDE DEF D, g
    <3>4. SumFunctionOnSet(g, Validators) = SumFunctionOnSet(D, Validators)
      BY <2>2, <3>2, <3>3, SumMove, Zenon
    <3>5. QED  BY <3>4 DEF D, g
  <2>3. QED  BY <2>1, <2>2
<1>8. QED  BY <1>3, <1>4, <1>5, <1>7, StakeShuffled

(* Rescuing the stake of jailed validators loses none of it.                *)
LEMMA RescuedKeeps ==
    ASSUME StakeOK, NEW d \in [Validators -> Nat], NEW view
    PROVE  /\ Rescued(d, view) \in [Validators -> Nat]
           /\ \A v \in Validators \ Listed : Rescued(d, view)[v] = d[v]
           /\ SumFunctionOnSet(Rescued(d, view), Validators) = SumFunctionOnSet(d, Validators)
<1> DEFINE best == OptimalValidator(view)
           jailed == {v \in Listed : ~view[v].isActive}
           others == Validators \ jailed
           lost == SumFunctionOnSet(d, jailed)
           g == Rescued(d, view)
<1>1. CASE best = NoValidator  BY <1>1 DEF Rescued
<1>2. CASE best # NoValidator
  <2>1. best \in Listed /\ view[best].isActive  BY <1>2, OptimalListed
  <2>2. Listed \subseteq Validators  BY ListedValidators
  <2>3. best \in others  BY <2>1, <2>2
  <2>4. /\ IsFiniteSet(jailed) /\ IsFiniteSet(others)
        /\ jailed \cup others = Validators /\ jailed \cap others = {}
        /\ jailed \subseteq Validators
    BY <2>2, ValidatorAssumption, FS_Subset
  <2>5. lost \in Nat
    <3>1. \A v \in jailed : d[v] \in Nat  BY <2>4
    <3> HIDE DEF jailed
    <3>2. QED  BY <2>4, <3>1, SumNat
  <2>6. g = [v \in Validators |-> IF v \in jailed THEN 0
                                   ELSE IF v = best THEN d[v] + lost ELSE d[v]]
    BY <1>2 DEF Rescued
  <2>7. /\ \A v \in jailed : g[v] = 0
        /\ g[best] = d[best] + lost
        /\ \A v \in others \ {best} : g[v] = d[v]
    <3> HIDE DEF jailed, lost
    <3>1. QED  BY <2>3, <2>4, <2>6
  <2>8. g \in [Validators -> Nat]
    <3> HIDE DEF jailed, lost, g
    <3>1. QED  BY <2>5, <2>6
  <2>9. \A v \in Validators \ Listed : g[v] = d[v]  BY <2>1, <2>2, <2>7
  <2> HIDE DEF jailed, others, lost, g, best
  <2>10. \A v \in Validators : d[v] \in Int /\ g[v] \in Int  BY <2>8
  <2>11. SumFunctionOnSet(g, jailed) = 0  BY <2>4, <2>7, SumZero
  <2>12. SumFunctionOnSet(g, others) = SumFunctionOnSet(d, others) + (g[best] - d[best])
    BY <2>3, <2>4, <2>7, <2>10, SumChange
  <2>13. SumFunctionOnSet(g, jailed \cup others)
             = SumFunctionOnSet(g, jailed) + SumFunctionOnSet(g, others)
    BY <2>4, <2>10, SumUnion
  <2>14. SumFunctionOnSet(d, jailed \cup others)
             = SumFunctionOnSet(d, jailed) + SumFunctionOnSet(d, others)
    BY <2>4, <2>10, SumUnion
  <2>15. SumFunctionOnSet(d, others) \in Int /\ d[best] \in Int
    BY <2>3, <2>4, <2>10, SumRemove
  <2>16. SumFunctionOnSet(g, Validators) = SumFunctionOnSet(d, Validators)
    <3>1. SumFunctionOnSet(g, jailed \cup others) = SumFunctionOnSet(d, others) + lost
      BY <2>5, <2>7, <2>11, <2>12, <2>13, <2>15
    <3>2. SumFunctionOnSet(d, jailed \cup others) = lost + SumFunctionOnSet(d, others)
      BY <2>14 DEF lost
    <3>3. SumFunctionOnSet(g, jailed \cup others) = SumFunctionOnSet(d, jailed \cup others)
      BY <2>5, <2>15, <3>1, <3>2
    <3>4. QED  BY <2>4, <3>3
  <2>17. QED  BY <2>8, <2>9, <2>16 DEF g
<1>3. QED  BY <1>1, <1>2

LEMMA TurnRoundStake ==
    ASSUME StakeInv, TokenOK, NEW r \in Rewards, NEW view, AfterTurnRound(r, view)
    PROVE  StakeInv'
<1> DEFINE D == delegatedAmountByValidator
           best == OptimalValidator(view)
           k == Compound(r)
           compounded == IF best = NoValidator THEN D ELSE [D EXCEPT ![best] = @ + k]
<1>1. k \in Nat  BY AmountsAssumption, FeesWithinRewards
<1>2. /\ StakeOK /\ AtListed /\ ListedOnce /\ StakeBacked
      /\ D \in [Validators -> Nat] /\ held \in Nat /\ totalStakedCore \in Nat
  BY DEF StakeInv, StakeOK, TokenOK
<1>3. /\ D' = Rescued(compounded, view) /\ UNCHANGED activeValidators
      /\ held' = IF best = NoValidator THEN held + k ELSE held
      /\ totalStakedCore' = totalStakedCore + k
  BY DEF AfterTurnRound, NewTotalStaked
<1> HIDE DEF k
<1>4. best # NoValidator => best \in Listed /\ best \in Validators
  BY <1>2, OptimalListed, ListedValidators
<1> HIDE DEF best
<1>5. /\ compounded \in [Validators -> Nat]
      /\ \A v \in Validators \ Listed : compounded[v] = D[v]
      /\ best # NoValidator => /\ compounded[best] = D[best] + k
                               /\ \A v \in Validators \ {best} : compounded[v] = D[v]
      /\ best = NoValidator => compounded = D
  BY <1>1, <1>2, <1>4
<1> HIDE DEF compounded
<1>6. /\ D' \in [Validators -> Nat]
      /\ \A v \in Validators \ Listed : D'[v] = D[v]
      /\ SumFunctionOnSet(D', Validators) = SumFunctionOnSet(compounded, Validators)
  BY <1>2, <1>3, <1>5, RescuedKeeps
<1>7. held' \in Nat  BY <1>1, <1>2, <1>3
<1>8. StakeOK' /\ AtListed' /\ ListedOnce'  BY <1>2, <1>3, <1>6, <1>7, StakeMoved
<1>9. SumFunctionOnSet(D, Validators) \in Nat  BY <1>2, DelegatedNat
<1>10. totalStakedCore <= SumFunctionOnSet(D, Validators) + held
  BY <1>2 DEF StakeBacked
<1>11. SumFunctionOnSet(compounded, Validators) + held'
           = SumFunctionOnSet(D, Validators) + held + k
  <2>1. CASE best = NoValidator  BY <1>1, <1>2, <1>3, <1>5, <1>9, <2>1
  <2>2. CASE best # NoValidator
    <3>1. \A v \in Validators : D[v] \in Int /\ compounded[v] \in Int  BY <1>2, <1>5
    <3>2. SumFunctionOnSet(compounded, Validators)
              = SumFunctionOnSet(D, Validators) + (compounded[best] - D[best])
      BY <1>4, <1>5, <2>2, <3>1, ValidatorAssumption, SumChange
    <3>3. D[best] \in Int /\ compounded[best] = D[best] + k /\ held' = held
      BY <1>3, <1>4, <1>5, <2>2, <3>1
    <3>4. QED  BY <1>1, <1>2, <1>9, <3>2, <3>3
  <2>3. QED  BY <2>1, <2>2
<1>12. totalStakedCore' <= SumFunctionOnSet(D', Validators) + held'
  BY <1>1, <1>2, <1>3, <1>6, <1>9, <1>10, <1>11
<1>13. QED  BY <1>8, <1>12 DEF StakeInv, StakeBacked

LEMMA AddStake ==
    ASSUME StakeInv, NEW v \in Validators, AddValidator(v)
    PROVE  StakeInv'
<1>1. /\ StakeOK /\ AtListed /\ ListedOnce /\ StakeBacked
      /\ activeValidators \in Seq(Validators)
  BY DEF StakeInv, StakeOK
<1>2. /\ v \notin Listed /\ activeValidators' = Append(activeValidators, v)
      /\ UNCHANGED delegatedAmountByValidator /\ UNCHANGED held
      /\ UNCHANGED totalStakedCore
  BY DEF AddValidator, coin, token
<1>3. StakeOK' /\ StakeBacked'  BY <1>1, <1>2 DEF StakeOK, StakeBacked
<1>4. /\ DOMAIN activeValidators' = DOMAIN activeValidators \cup {Len(activeValidators) + 1}
      /\ \A i \in DOMAIN activeValidators : activeValidators'[i] = activeValidators[i]
      /\ activeValidators'[Len(activeValidators) + 1] = v
      /\ Len(activeValidators) + 1 \notin DOMAIN activeValidators
  BY <1>1, <1>2
<1>5. \A i \in DOMAIN activeValidators : activeValidators[i] # v
  BY <1>2 DEF Listed, Range
<1>6. Listed \subseteq Listed'  BY <1>4 DEF Listed, Range
<1>7. AtListed'  BY <1>1, <1>2, <1>6 DEF AtListed
<1>8. ListedOnce'  BY <1>1, <1>4, <1>5 DEF ListedOnce
<1>9. QED  BY <1>3, <1>7, <1>8 DEF StakeInv

LEMMA RemoveStake ==
    ASSUME StakeInv, NEW v \in Validators, RemoveValidator(v)
    PROVE  StakeInv'
<1> DEFINE n == Len(activeValidators)
           a == activeValidators
<1>1. /\ StakeOK /\ AtListed /\ ListedOnce /\ StakeBacked
      /\ a \in Seq(Validators)
  BY DEF StakeInv, StakeOK
<1>2. /\ v \in Listed /\ delegatedAmountByValidator[v] = 0
      /\ a' = [i \in 1..(n - 1) |-> IF a[i] = v THEN a[n] ELSE a[i]]
      /\ UNCHANGED delegatedAmountByValidator /\ UNCHANGED held
      /\ UNCHANGED totalStakedCore
  BY DEF RemoveValidator, NoStakeAt, coin, token
<1>3. PICK k \in DOMAIN a : a[k] = v  BY <1>2 DEF Listed, Range
<1>4. DOMAIN a = 1..n /\ n \in Nat \ {0} /\ n \in DOMAIN a  BY <1>1, <1>3
<1>5. /\ DOMAIN a' = 1..(n - 1)
      /\ \A i \in 1..(n - 1) : a'[i] = IF a[i] = v THEN a[n] ELSE a[i]
  BY <1>2
<1>6. a' \in Seq(Validators)
  <2>1. \A i \in 1..(n - 1) : a[i] \in Validators /\ a[n] \in Validators
    BY <1>1, <1>4
  <2>2. a' \in [1..(n - 1) -> Validators]  BY <1>2, <2>1
  <2>3. n - 1 \in Nat  BY <1>4
  <2>4. QED  BY <2>2, <2>3, SeqDef
<1>7. StakeOK' /\ StakeBacked'  BY <1>1, <1>2, <1>6 DEF StakeOK, StakeBacked
<1>8. ListedOnce'
  <2> SUFFICES ASSUME NEW i \in DOMAIN a', NEW j \in DOMAIN a', a'[i] = a'[j]
               PROVE  i = j
    BY DEF ListedOnce
  <2>1. /\ i \in DOMAIN a /\ j \in DOMAIN a /\ i # n /\ j # n
        /\ a'[i] = IF a[i] = v THEN a[n] ELSE a[i]
        /\ a'[j] = IF a[j] = v THEN a[n] ELSE a[j]
    BY <1>4, <1>5
  <2>2. \A x, y \in DOMAIN a : a[x] = a[y] => x = y  BY <1>1 DEF ListedOnce
  <2>3. QED  BY <1>4, <2>1, <2>2
<1>9. AtListed'
  <2> SUFFICES ASSUME NEW w \in Validators, delegatedAmountByValidator'[w] > 0
               PROVE  \E i \in DOMAIN a' : a'[i] = w
    BY DEF AtListed, Listed, Range
  <2>1. w \in Listed /\ w # v  BY <1>1, <1>2 DEF AtListed
  <2>2. PICK i \in DOMAIN a : a[i] = w  BY <2>1 DEF Listed, Range
  <2>3. CASE i # n
    <3>1. i \in 1..(n - 1)  BY <1>4, <2>3
    <3>2. QED  BY <1>5, <2>1, <2>2, <3>1
  <2>4. CASE i = n
    <3>1. k # n  BY <1>3, <2>1, <2>2, <2>4
    <3>2. k \in 1..(n - 1)  BY <1>4, <3>1
    <3>3. QED  BY <1>3, <1>5, <2>2, <2>4, <3>2
  <2>5. QED  BY <2>3, <2>4
<1>10. QED  BY <1>7, <1>8, <1>9 DEF StakeInv

(* Paying a request: what is paid is within what is burned for it.          *)
LEMMA FulfillStake ==
    ASSUME StakeInv, TokenOK, RequestsCovered, NEW id \in DOMAIN unstakeRequests,
           FulfillUnstake(id)
    PROVE  StakeInv'
<1> DEFINE r == unstakeRequests[id]
           worth == StCoreToCore(r.stCoreAmount)
           paid == r.coreAmount
           Sum == SumFunctionOnSet(delegatedAmountByValidator, Validators)
<1>1. r \in Requests  BY DEF TokenOK
<1>2. paid \in Nat /\ worth \in Nat  BY <1>1, WorthNat DEF Requests
<1>3. ~r.fulfilled  BY DEF FulfillUnstake, Due
<1>4. paid <= worth  BY <1>3 DEF RequestsCovered
<1>5. /\ UNCHANGED activeValidators /\ UNCHANGED delegatedAmountByValidator
      /\ held >= paid /\ held' = held - paid
      /\ totalStakedCore' = totalStakedCore - worth
  BY DEF FulfillUnstake, Burn, stake
<1>6. /\ StakeOK /\ AtListed /\ ListedOnce /\ held \in Nat /\ totalStakedCore \in Nat
      /\ delegatedAmountByValidator \in [Validators -> Nat]
  BY DEF StakeInv, StakeOK, TokenOK
<1>7. totalStakedCore <= Sum + held  BY DEF StakeInv, StakeBacked
<1>8. Sum \in Nat /\ Sum' = Sum  BY <1>5, <1>6, DelegatedNat
<1> HIDE DEF r, worth, paid
<1>9. held' \in Nat  BY <1>2, <1>5, <1>6
<1>10. StakeOK' /\ AtListed' /\ ListedOnce'
  BY <1>5, <1>6, <1>9, StakeMoved
<1>11. totalStakedCore' <= Sum + held'
  <2> HIDE DEF Sum
  <2> QED  BY <1>2, <1>4, <1>5, <1>6, <1>7, <1>8
<1>12. StakeBacked'  BY <1>8, <1>11 DEF StakeBacked
<1>13. QED  BY <1>10, <1>12 DEF StakeInv

-----------------------------------------------------------------------------
(* rebalance(): how much of the stake a validator should have.              *)

LEMMA TargetNat ==
    ASSUME StakeOK, NEW view \in Views, NEW v \in Validators
    PROVE  Target(view, v) \in Nat
<1> DEFINE apys == [w \in Validators |-> view[w].apy]
           total == SumFunctionOnSet(apys, Candidates(view))
<1>1. \A w \in Validators : view[w].apy \in Nat
  BY ValidatorAssumption DEF View
<1>2. Listed \subseteq Validators /\ IsFiniteSet(Listed)  BY ListedValidators
<1>3. Candidates(view) \subseteq Validators /\ IsFiniteSet(Candidates(view))
  BY <1>2, FS_Subset DEF Candidates
<1>4. \A w \in Candidates(view) : apys[w] \in Nat  BY <1>1, <1>3
<1>5. total \in Nat
  <2> HIDE DEF apys
  <2> QED  BY <1>3, <1>4, SumNat
<1>6. Allocation(view, v) \in Nat
  <2>1. Allocation(view, v) = IF v \notin Candidates(view) THEN 0
                              ELSE IF total > 0 THEN (view[v].apy * 10000) \div total
                              ELSE 10000 \div Cardinality(Candidates(view))
    BY DEF Allocation
  <2> HIDE DEF total
  <2>2. CASE v \notin Candidates(view)  BY <2>1, <2>2
  <2>3. CASE v \in Candidates(view) /\ total > 0
    <3>1. view[v].apy * 10000 \in Nat /\ total \in Nat \ {0}  BY <1>1, <1>5, <2>3
    <3>2. QED  BY <2>1, <2>3, <3>1, DivNat
  <2>4. CASE v \in Candidates(view) /\ ~(total > 0)
    <3>1. Cardinality(Candidates(view)) \in Nat \ {0}
      BY <1>3, <2>4, FS_CardinalityType, FS_EmptySet
    <3>2. 10000 \div Cardinality(Candidates(view)) \in Nat  BY <3>1, DivNat
    <3>3. QED  BY <2>1, <2>4, <3>2
  <2>5. QED  BY <2>2, <2>3, <2>4
<1>7. TotalDelegated \in Nat
  <2>1. \A w \in Listed : delegatedAmountByValidator[w] \in Nat
    BY <1>2 DEF StakeOK
  <2>2. QED  BY <1>2, <2>1, SumNat DEF TotalDelegated
<1>8. TotalDelegated * Allocation(view, v) \in Nat  BY <1>6, <1>7, MulNat
<1>9. QED  BY <1>8, DivNat DEF Target

(* A validator is never further above its target than its stake.            *)
LEMMA ExcessWithinStake ==
    ASSUME StakeOK, NEW view \in Views, NEW v \in Validators
    PROVE  Excess(view, v) \in Int /\ Excess(view, v) <= delegatedAmountByValidator[v]
<1>1. Target(view, v) \in Nat  BY TargetNat
<1>2. delegatedAmountByValidator[v] \in Nat  BY DEF StakeOK
<1>3. QED  BY <1>1, <1>2 DEF Excess

(* No two validators of a side have the same rank in it.                    *)
LEMMA RankOnce ==
    ASSUME StakeOK, NEW side, side \subseteq Listed, NEW v \in side, NEW w \in side,
           Rank(v, side) = Rank(w, side)
    PROVE  v = w
<1>1. \A x \in Listed : /\ Place(x) \in DOMAIN activeValidators
                        /\ activeValidators[Place(x)] = x
                        /\ Place(x) \in Nat
  <2> SUFFICES ASSUME NEW x \in Listed
               PROVE  /\ Place(x) \in DOMAIN activeValidators
                      /\ activeValidators[Place(x)] = x
                      /\ Place(x) \in Nat
    OBVIOUS
  <2>1. \E i \in DOMAIN activeValidators : activeValidators[i] = x
    BY DEF Listed, Range
  <2>2. /\ Place(x) \in DOMAIN activeValidators
        /\ activeValidators[Place(x)] = x
    BY <2>1 DEF Place
  <2>3. DOMAIN activeValidators \subseteq Nat  BY DEF StakeOK
  <2>4. QED  BY <2>2, <2>3
<1>2. IsFiniteSet(side)  BY ListedValidators, FS_Subset
<1>3. ASSUME NEW x \in side, NEW y \in side, Place(x) < Place(y)
      PROVE  Rank(x, side) # Rank(y, side)
  <2> DEFINE S == {z \in side : Place(z) <= Place(x)}
             T == {z \in side : Place(z) <= Place(y)}
  <2>1. Place(x) \in Nat /\ Place(y) \in Nat /\ \A z \in side : Place(z) \in Nat
    BY <1>1
  <2>2. S \subseteq T /\ y \in T /\ y \notin S /\ IsFiniteSet(T)
    BY <1>2, <1>3, <2>1, FS_Subset
  <2> HIDE DEF S, T
  <2>3. Cardinality(S) # Cardinality(T)  BY <2>2, FS_Subset
  <2>4. QED  BY <2>3 DEF Rank, S, T
<1>4. v \in Listed /\ w \in Listed  OBVIOUS
<1>5. Place(v) = Place(w)  BY <1>1, <1>3, <1>4
<1>6. QED  BY <1>1, <1>4, <1>5

(* Every validator above its target is paired with at most one below it,    *)
(* and every one below it with at most one above it.                        *)
LEMMA PairedOnce ==
    ASSUME StakeOK, NEW view
    PROVE  /\ \A v, w, x : Paired(view, v, w) /\ Paired(view, v, x) => w = x
           /\ \A v, w, x : Paired(view, v, w) /\ Paired(view, x, w) => v = x
<1>1. Above(view) \subseteq Listed /\ Below(view) \subseteq Listed
  BY DEF Above, Below
<1>2. ASSUME NEW v, NEW w, NEW x, Paired(view, v, w), Paired(view, v, x) PROVE w = x
  <2>1. /\ w \in Below(view) /\ x \in Below(view)
        /\ Rank(w, Below(view)) = Rank(x, Below(view))
    BY <1>2 DEF Paired
  <2>2. QED  BY <1>1, <2>1, RankOnce
<1>3. ASSUME NEW v, NEW w, NEW x, Paired(view, v, w), Paired(view, x, w) PROVE v = x
  <2>1. /\ v \in Above(view) /\ x \in Above(view)
        /\ Rank(v, Above(view)) = Rank(x, Above(view))
    BY <1>3 DEF Paired
  <2>2. QED  BY <1>1, <2>1, RankOnce
<1>4. QED  BY <1>2, <1>3

(* What a pair moves is positive, and no more than the one above has.       *)
LEMMA GapWithin ==
    ASSUME StakeOK, NEW view \in Views, NEW v \in Validators, NEW w \in Validators,
           Paired(view, v, w)
    PROVE  Gap(view, v, w) \in Nat /\ Gap(view, v, w) <= delegatedAmountByValidator[v]
<1>1. Excess(view, v) > 0 /\ Excess(view, w) < 0  BY DEF Paired, Above, Below
<1>2. /\ Excess(view, v) \in Int /\ Excess(view, w) \in Int
      /\ Excess(view, v) <= delegatedAmountByValidator[v]
  BY ExcessWithinStake
<1>3. delegatedAmountByValidator[v] \in Nat  BY DEF StakeOK
<1>4. QED  BY <1>1, <1>2, <1>3 DEF Gap

LEMMA RebalanceStake ==
    ASSUME StakeInv, NEW view \in Views, Rebalance(view)
    PROVE  StakeInv'
<1> DEFINE D == delegatedAmountByValidator
           Pair(v, w) == Paired(view, v, w)
           G(v, w) == Gap(view, v, w)
           over  == {v \in Above(view) : \E w \in Below(view) : Pair(v, w)}
           under == {w \in Below(view) : \E v \in Above(view) : Pair(v, w)}
           partner == [v \in over |-> CHOOSE w \in Below(view) : Pair(v, w)]
<1>1. StakeOK /\ D \in [Validators -> Nat]  BY DEF StakeInv, StakeOK
<1>2. /\ Listed \subseteq Validators /\ Above(view) \subseteq Listed
      /\ Below(view) \subseteq Listed
  BY <1>1, ListedValidators DEF Above, Below
<1>3. Above(view) \cap Below(view) = {}
  <2> SUFFICES ASSUME NEW v, v \in Above(view), v \in Below(view) PROVE FALSE
    OBVIOUS
  <2>1. Excess(view, v) \in Int  BY <1>1, <1>2, ExcessWithinStake
  <2>2. Excess(view, v) > 0 /\ Excess(view, v) < 0  BY DEF Above, Below
  <2>3. QED  BY <2>1, <2>2
<1>4. \A v, w : Pair(v, w) => v \in Above(view) /\ w \in Below(view)
  BY DEF Paired
<1>5. /\ \A v, w, x : Pair(v, w) /\ Pair(v, x) => w = x
      /\ \A v, w, x : Pair(v, w) /\ Pair(x, w) => v = x
  BY <1>1, PairedOnce
<1>6. \A v, w : Pair(v, w) => G(v, w) \in Nat /\ G(v, w) <= D[v]
  BY <1>1, <1>2, <1>4, GapWithin
<1>7. /\ UNCHANGED activeValidators /\ UNCHANGED held /\ UNCHANGED totalStakedCore
      /\ D' = [v \in Validators |->
                 IF \E w \in Below(view) : Pair(v, w)
                 THEN D[v] - G(v, CHOOSE w \in Below(view) : Pair(v, w))
                 ELSE IF \E w \in Above(view) : Pair(w, v)
                 THEN D[v] + G(CHOOSE w \in Above(view) : Pair(w, v), v)
                 ELSE D[v]]
  BY DEF Rebalance, coin, token
<1> HIDE DEF Pair, G, D
<1>8. over \subseteq Validators /\ under \subseteq Validators /\ over \cap under = {}
      /\ over \subseteq Listed /\ under \subseteq Listed
  BY <1>2, <1>3
<1>9. \A v \in over : /\ partner[v] \in under /\ Pair(v, partner[v])
  BY <1>4
<1>10. \A v, w : Pair(v, w) => v \in over /\ w \in under
  BY <1>4
<1>11. /\ partner \in [over -> under]
       /\ \A x, y \in over : partner[x] = partner[y] => x = y
       /\ \A z \in under : \E x \in over : partner[x] = z
  <2>1. partner \in [over -> under]  BY <1>9
  <2>2. \A x, y \in over : partner[x] = partner[y] => x = y
    <3> HIDE DEF over, under, partner
    <3> QED  BY <1>5, <1>9
  <2>3. \A z \in under : \E x \in over : partner[x] = z
    <3> SUFFICES ASSUME NEW z \in under PROVE \E x \in over : partner[x] = z
      OBVIOUS
    <3>1. PICK x : Pair(x, z)  OBVIOUS
    <3>2. x \in over  BY <1>10, <3>1
    <3> HIDE DEF over, under, partner
    <3>3. QED  BY <1>5, <1>9, <3>1, <3>2
  <2>4. QED  BY <2>1, <2>2, <2>3
<1>12. \A v \in over : D'[v] = D[v] - G(v, partner[v])
  <2> SUFFICES ASSUME NEW v \in over PROVE D'[v] = D[v] - G(v, partner[v])
    OBVIOUS
  <2>1. v \in Validators /\ \E w \in Below(view) : Pair(v, w)  BY <1>8
  <2>2. partner[v] = CHOOSE w \in Below(view) : Pair(v, w)  OBVIOUS
  <2> HIDE DEF over, partner
  <2>3. QED  BY <1>7, <2>1, <2>2
<1>13. \A v \in over : D'[partner[v]] = D[partner[v]] + G(v, partner[v])
  <2> SUFFICES ASSUME NEW v \in over
               PROVE  D'[partner[v]] = D[partner[v]] + G(v, partner[v])
    OBVIOUS
  <2> DEFINE w == partner[v]
             x == CHOOSE y \in Above(view) : Pair(y, w)
  <2>1. w \in under /\ Pair(v, w) /\ v \in Above(view)  BY <1>9
  <2> HIDE DEF w
  <2>2. x \in Above(view) /\ Pair(x, w)  BY <2>1
  <2>3. x = v
    <3> HIDE DEF x
    <3> QED  BY <1>5, <2>1, <2>2
  <2>4. w \in Validators /\ w \in Below(view) /\ w \notin Above(view)  BY <1>3, <1>8, <2>1
  <2>5. ~\E y \in Below(view) : Pair(w, y)  BY <1>4, <2>4
  <2>6. D'[w] = D[w] + G(x, w)
    BY <1>7, <2>1, <2>4, <2>5
  <2>7. D'[w] = D[w] + G(v, w)  BY <2>3, <2>6
  <2>8. QED  BY <2>7 DEF w
<1>14. \A v \in Validators \ (over \cup under) : D'[v] = D[v]
  <2> SUFFICES ASSUME NEW v \in Validators \ (over \cup under) PROVE D'[v] = D[v]
    OBVIOUS
  <2>1. ~(\E w \in Below(view) : Pair(v, w)) /\ ~(\E w \in Above(view) : Pair(w, v))
    BY <1>10
  <2>2. QED  BY <1>7, <2>1
<1> HIDE DEF over, under, partner
<1>15. /\ \A v \in over : G(v, partner[v]) \in Nat /\ G(v, partner[v]) <= D[v]
       /\ \A v \in Validators : D[v] \in Nat
  BY <1>1, <1>6, <1>9
<1>16. \A v \in Validators : D'[v] \in Nat
  <2>1. \A v \in over : D'[v] \in Nat  BY <1>8, <1>12, <1>15
  <2>2. \A v \in over : D'[partner[v]] \in Nat  BY <1>8, <1>9, <1>13, <1>15
  <2>3. \A w \in under : D'[w] \in Nat  BY <1>11, <2>2
  <2>4. QED  BY <1>14, <1>15, <2>1, <2>3
<1>17. D' \in [Validators -> Nat]
  <2>1. D' = [v \in Validators |-> D'[v]]  BY <1>7
  <2>2. QED  BY <1>16, <2>1
<1>18. \A v \in Validators \ Listed : D'[v] = D[v]  BY <1>8, <1>14
<1>19. SumFunctionOnSet(D', Validators) = SumFunctionOnSet(D, Validators)
  <2> DEFINE f == D
             g == D'
  <2>1. IsFiniteSet(Validators)  BY ValidatorAssumption
  <2>2. \A v \in Validators : f[v] \in Int /\ g[v] \in Int  BY <1>15, <1>16
  <2>3. \A v \in Validators \ (over \cup under) : g[v] = f[v]  BY <1>14
  <2>4. \A v \in over : g[v] + g[partner[v]] = f[v] + f[partner[v]]
    <3> SUFFICES ASSUME NEW v \in over
                 PROVE  g[v] + g[partner[v]] = f[v] + f[partner[v]]
      OBVIOUS
    <3> DEFINE k == G(v, partner[v])
               w == partner[v]
    <3>1. D'[v] = D[v] - k /\ D'[w] = D[w] + k /\ k \in Nat
          /\ v \in Validators /\ w \in Validators
      BY <1>8, <1>9, <1>12, <1>13, <1>15
    <3> HIDE DEF k, w
    <3>2. D[v] \in Nat /\ D[w] \in Nat  BY <1>15, <3>1
    <3>3. D'[v] + D'[w] = D[v] + D[w]  BY <3>1, <3>2
    <3>4. QED  BY <3>3 DEF w
  <2>5. over \in SUBSET Validators /\ under \in SUBSET Validators  BY <1>8
  <2> HIDE DEF f, g
  <2>6. PairedOff(over, under, partner)  BY <1>8, <1>11 DEF PairedOff
  <2>7. SumFunctionOnSet(g, Validators) = SumFunctionOnSet(f, Validators)
    BY <2>1, <2>2, <2>3, <2>4, <2>5, <2>6, SumPairs
  <2>8. QED  BY <2>7 DEF f, g
<1>20. QED
  BY <1>7, <1>17, <1>18, <1>19, StakeShuffled DEF D

LEMMA StakeInitially == Init => StakeInv
<1> SUFFICES ASSUME Init PROVE StakeInv
  OBVIOUS
<1>1. /\ activeValidators = <<>> /\ held = 0 /\ totalStakedCore = 0
      /\ delegatedAmountByValidator = [v \in Validators |-> 0]
  BY DEF Init
<1>2. StakeOK /\ AtListed /\ ListedOnce  BY <1>1 DEF StakeOK, AtListed, ListedOnce
<1>3. \A v \in Validators : delegatedAmountByValidator[v] = 0  BY <1>1
<1>4. SumFunctionOnSet(delegatedAmountByValidator, Validators) = 0
  BY <1>3, ValidatorAssumption, SumZero
<1>5. StakeBacked  BY <1>1, <1>4 DEF StakeBacked
<1>6. QED  BY <1>2, <1>5 DEF StakeInv

(* Coin sent to the manager only adds to what backs the stake.              *)
LEMMA ReceiveStake ==
    ASSUME StakeInv, NEW c \in Amounts, Receive(c), TokenOK
    PROVE  StakeInv'
<1> DEFINE Sum == SumFunctionOnSet(delegatedAmountByValidator, Validators)
<1>1. c \in Nat  BY AmountsAssumption
<1>2. /\ StakeOK /\ AtListed /\ ListedOnce /\ held \in Nat /\ totalStakedCore \in Nat
      /\ delegatedAmountByValidator \in [Validators -> Nat]
  BY DEF StakeInv, StakeOK, TokenOK
<1>3. /\ UNCHANGED activeValidators /\ UNCHANGED delegatedAmountByValidator
      /\ UNCHANGED totalStakedCore /\ held' = held + c
  BY DEF Receive, stake, token
<1>4. held' \in Nat  BY <1>1, <1>2, <1>3
<1>5. StakeOK' /\ AtListed' /\ ListedOnce'  BY <1>2, <1>3, <1>4, StakeMoved
<1>6. totalStakedCore <= Sum + held  BY DEF StakeInv, StakeBacked
<1>7. Sum \in Nat /\ Sum' = Sum  BY <1>2, <1>3, DelegatedNat
<1>8. totalStakedCore' <= Sum + held'
  <2> HIDE DEF Sum
  <2> QED  BY <1>1, <1>2, <1>3, <1>6, <1>7
<1>9. QED  BY <1>5, <1>7, <1>8 DEF StakeInv, StakeBacked

LEMMA StakeUnchanged ==
    ASSUME StakeInv, UNCHANGED stake, UNCHANGED held, UNCHANGED totalStakedCore
    PROVE  StakeInv'
  BY DEF StakeInv, StakeOK, AtListed, Listed, ListedOnce, StakeBacked, stake

LEMMA StakeNext ==
    ASSUME StakeInv, TokenOK, RequestsCovered, [Next]_vars
    PROVE  StakeInv'
<1> DEFINE Rests == UNCHANGED stake /\ UNCHANGED held /\ UNCHANGED totalStakedCore
<1>1. UNCHANGED <<token, stake, coin>> => Rests  BY DEF token, coin
<1>2. Rests => StakeInv'  BY StakeUnchanged
<1>3. ASSUME NEW u, NEW s, RequestUnstake(u, s) PROVE StakeInv'
  BY <1>2, <1>3 DEF RequestUnstake, coin
<1>4. ASSUME NEW u, NEW s, NEW to, Transfer(u, to, s) PROVE StakeInv'
  BY <1>2, <1>4 DEF Transfer, coin
<1>5. ASSUME NEW v \in Validators, AddValidator(v) \/ RemoveValidator(v) PROVE StakeInv'
  BY <1>5, AddStake, RemoveStake
<1>6. CASE Configure  BY <1>1, <1>2, <1>6 DEF Configure
<1>7. CASE Tick  BY <1>1, <1>2, <1>7 DEF Tick
<1>8. CASE UNCHANGED vars  BY <1>1, <1>2, <1>8 DEF vars
<1>9. ASSUME NEW u \in Users, NEW c \in Amounts, NEW v \in Validators \cup {NoValidator},
             NEW view \in Views, Stake(u, v, c, view)
      PROVE  StakeInv'
  BY <1>9, StakeStake
<1>10. ASSUME NEW id \in DOMAIN unstakeRequests, FulfillUnstake(id) PROVE StakeInv'
  BY <1>10, FulfillStake
<1>11. ASSUME NEW view \in Views, Rebalance(view) PROVE StakeInv'
  BY <1>11, RebalanceStake
<1>12. ASSUME NEW view \in Views, NEW v \in Validators, NEW w \in Validators,
              NEW a \in Amounts, ManualRebalance(v, w, a, view)
       PROVE  StakeInv'
  BY <1>12, ManualStake
<1>13. ASSUME NEW view \in Views, NEW r \in Rewards, AfterTurnRound(r, view) PROVE StakeInv'
  BY <1>13, TurnRoundStake
<1>14. ASSUME NEW c \in Amounts, Receive(c) PROVE StakeInv'  BY <1>14, ReceiveStake
<1> HIDE DEF Rests
<1>15. QED
  BY <1>3, <1>4, <1>5, <1>6, <1>7, <1>8, <1>9, <1>10, <1>11, <1>12, <1>13, <1>14
     DEF Next

(* Each validator of the list once: as many validators as entries.          *)
LEMMA ListedOnceCounts ==
    ASSUME StakeOK, ListedOnce
    PROVE  Cardinality(Listed) = Len(activeValidators)
<1> DEFINE n == Len(activeValidators)
<1>1. n \in Nat /\ DOMAIN activeValidators = 1..n
      /\ activeValidators \in [1..n -> Listed]
  BY DEF StakeOK, Listed, Range
<1>2. activeValidators \in Bijection(1..n, Listed)
  <2>1. \A v \in Listed : \E i \in 1..n : activeValidators[i] = v
    BY <1>1 DEF Listed, Range
  <2>2. \A i, j \in 1..n : activeValidators[i] = activeValidators[j] => i = j
    BY <1>1 DEF ListedOnce
  <2> HIDE DEF n
  <2>3. QED  BY <1>1, <2>1, <2>2 DEF Bijection, Injection, IsInjective, Surjection
<1>3. ExistsBijection(1..n, Listed)  BY <1>2 DEF ExistsBijection
<1>4. Cardinality(Listed) = n
  <2> HIDE DEF n
  <2> QED  BY <1>1, <1>3, FS_CountingElements, Zenon
<1>5. QED  BY <1>4

-----------------------------------------------------------------------------
(* The rest of the types: what no proof above needs.                        *)
RestOK ==
    /\ queueSet \in BOOLEAN /\ paused \in BOOLEAN
    /\ maxValidatorRisk \in Nat /\ queued \in Nat /\ received \in Nat

LEMMA RestInitially == Init => RestOK
<1> SUFFICES ASSUME Init PROVE RestOK
  OBVIOUS
<1>1. queueSet \in BOOLEAN /\ paused \in BOOLEAN
  BY ChoicesAssumption, Zenon DEF Init
<1>2. maxValidatorRisk \in Nat /\ queued \in Nat /\ received \in Nat  BY DEF Init
<1>3. QED  BY <1>1, <1>2 DEF RestOK

LEMMA RestNext == ASSUME RestOK, TokenOK, [Next]_vars PROVE RestOK'
<1> DEFINE Same == UNCHANGED <<queueSet, paused, maxValidatorRisk>>
<1>1. Same /\ UNCHANGED queued /\ UNCHANGED received => RestOK'  BY DEF RestOK
<1>2. UNCHANGED owned => Same  BY DEF owned
<1>3. UNCHANGED <<owned, unstake, coin>> => RestOK'
  BY <1>1, <1>2 DEF unstake, coin
<1>4. ASSUME NEW u, NEW c, NEW v, NEW view, Stake(u, v, c, view) PROVE RestOK'
  BY <1>3, <1>4 DEF Stake
<1>5. ASSUME NEW u, NEW s \in Amounts, RequestUnstake(u, s) PROVE RestOK'
  <2>1. StCoreToCore(s) \in Nat  BY AmountsAssumption, WorthNat
  <2>2. queued' \in Nat  BY <1>5, <2>1 DEF RequestUnstake, RestOK
  <2>3. UNCHANGED owned /\ UNCHANGED received  BY <1>5 DEF RequestUnstake, coin
  <2>4. QED  BY <2>2, <2>3 DEF RestOK, owned
<1>6. ASSUME NEW u, NEW s, NEW to, Transfer(u, to, s) PROVE RestOK'
  BY <1>3, <1>6 DEF Transfer
<1>7. ASSUME NEW id, FulfillUnstake(id) PROVE RestOK'
  BY <1>1, <1>2, <1>7 DEF FulfillUnstake
<1>8. ASSUME NEW view, Rebalance(view) PROVE RestOK'  BY <1>3, <1>8 DEF Rebalance
<1>9. ASSUME NEW v, NEW w, NEW a, NEW view, ManualRebalance(v, w, a, view) PROVE RestOK'
  BY <1>3, <1>9 DEF ManualRebalance
<1>10. ASSUME NEW r, NEW view, AfterTurnRound(r, view) PROVE RestOK'
  BY <1>1, <1>2, <1>10 DEF AfterTurnRound, unstake
<1>11. ASSUME NEW v, AddValidator(v) \/ RemoveValidator(v) PROVE RestOK'
  BY <1>3, <1>11 DEF AddValidator, RemoveValidator
<1>12. CASE Configure
  <2>1. UNCHANGED queued /\ UNCHANGED received  BY <1>12 DEF Configure, unstake, coin
  <2>2. queueSet' \in BOOLEAN /\ paused' \in BOOLEAN /\ maxValidatorRisk' \in Nat
    BY <1>12, ChoicesAssumption
       DEF Configure, SetProtocolFee, SetPerformanceFee, SetMaxValidatorRisk,
           SetUnbondingQueue, SetPaused, RestOK
  <2>3. QED  BY <2>1, <2>2 DEF RestOK
<1>13. ASSUME NEW c \in Amounts, Receive(c) PROVE RestOK'
  <2>1. c \in Nat  BY AmountsAssumption
  <2>2. received' \in Nat  BY <1>13, <2>1 DEF Receive, RestOK
  <2>3. UNCHANGED owned /\ UNCHANGED queued  BY <1>13 DEF Receive, unstake
  <2>4. QED  BY <2>2, <2>3 DEF RestOK, owned
<1>14. CASE Tick  BY <1>3, <1>14 DEF Tick
<1>15. CASE UNCHANGED vars  BY <1>3, <1>15 DEF vars
<1> HIDE DEF Same
<1>16. QED
  BY <1>4, <1>5, <1>6, <1>7, <1>8, <1>9, <1>10, <1>11, <1>12, <1>13, <1>14, <1>15
     DEF Next

-----------------------------------------------------------------------------
(* The inductive invariant.                                                 *)
LiquidInv ==
    TokenOK /\ RestOK /\ StakeInv /\ SupplyExact /\ EscrowCovers /\ RequestsCovered

LEMMA InvInitially == Init => LiquidInv
<1>1. Init => RequestsCovered  BY DEF Init, RequestsCovered
<1>2. QED
  BY <1>1, InitToken, RestInitially, StakeInitially, SupplyInitially, EscrowInitially
     DEF LiquidInv

(* SupplyCovers, in the form that holds of the next state as well.          *)
LEMMA SupplyCoversHolders == TokenOK /\ SupplyExact => HoldersCovered
  BY SupplyCovers

LEMMA InvNext == LiquidInv /\ [Next]_vars => LiquidInv'
<1> SUFFICES ASSUME LiquidInv, [Next]_vars PROVE LiquidInv'
  OBVIOUS
<1>1. TokenOK /\ RestOK /\ StakeInv /\ SupplyExact /\ EscrowCovers /\ RequestsCovered
  BY DEF LiquidInv
<1>2. HoldersCovered  BY <1>1, SupplyCoversHolders
<1>3. TokenOK'  BY <1>1, <1>2, NextKeepsRate
<1>4. RestOK'  BY <1>1, RestNext
<1>5. StakeInv'  BY <1>1, StakeNext
<1>6. SupplyExact'  BY <1>1, <1>3, SupplyNext
<1>7. EscrowCovers'  BY <1>1, <1>3, EscrowNext
<1>8. HoldersCovered'
  <2>1. TokenOK' /\ SupplyExact' => HoldersCovered'  BY SupplyCoversHolders, PTL
  <2>2. QED  BY <1>3, <1>6, <2>1
<1>9. OpenWithinSupply  BY <1>1, <1>2, EscrowedWithinSupply
<1>10. OpenWithinSupply'
  <2>1. TokenOK' /\ HoldersCovered' /\ EscrowCovers' => OpenWithinSupply'
    BY EscrowedWithinSupply, PTL
  <2>2. QED  BY <1>3, <1>7, <1>8, <2>1
<1>11. RequestsCovered'  BY <1>1, <1>2, <1>3, <1>9, <1>10, RequestsNext
<1>12. QED  BY <1>3, <1>4, <1>5, <1>6, <1>7, <1>11 DEF LiquidInv

LEMMA InvAlways == Spec => []LiquidInv
  BY InvInitially, InvNext, PTL DEF Spec

-----------------------------------------------------------------------------
(* Whatever is staked, rewarded, redelegated, rescued and paid, what the    *)
(* token says its holders own is delegated or in the manager's balance.     *)
THEOREM StakeAlwaysBacked == Spec => []StakeBacked
<1>1. LiquidInv => StakeBacked  BY DEF LiquidInv, StakeInv
<1>2. QED  BY <1>1, InvAlways, PTL

(* No stake is ever at a validator the manager does not list, and the list  *)
(* names each validator once.                                               *)
THEOREM NoOrphanStakeAlways == Spec => []NoOrphanStake
<1>1. LiquidInv => NoOrphanStake
  BY ListedOnceCounts DEF LiquidInv, StakeInv, AtListed, NoOrphanStake
<1>2. QED  BY <1>1, InvAlways, PTL

(* An open request can be paid for when it falls due: its payment is within *)
(* what its stCORE is worth, that stCORE is in escrow, and no subtraction   *)
(* on the way goes below zero, for any number of users and requests.        *)
THEOREM RequestsAlwaysBacked == Spec => []RequestsBacked
<1>1. LiquidInv => RequestsBacked
  <2> SUFFICES ASSUME LiquidInv PROVE RequestsBacked
    OBVIOUS
  <2>1. TokenOK /\ RestOK /\ StakeOK /\ SupplyExact /\ EscrowCovers /\ RequestsCovered
    BY DEF LiquidInv, StakeInv
  <2>2. HoldersCovered  BY <2>1, SupplyCovers
  <2>3. TypeOK  BY <2>1 DEF TypeOK, TokenOK, FeesOK, RestOK, StakeOK
  <2>4. QED  BY <2>1, <2>2, <2>3 DEF RequestsBacked
<1>2. QED  BY <1>1, InvAlways, PTL

(* While there is stCORE, the CORE it is worth never falls.                 *)
THEOREM RateNeverFallsAlways == Spec => RateNeverFalls
<1>1. LiquidInv /\ LiquidInv' /\ [Next]_vars =>
        [totalSupply > 0 /\ totalSupply' > 0 => ConversionRate' >= ConversionRate]_vars
  BY NextKeepsRate, SupplyCovers DEF LiquidInv, RateKept
<1>2. QED  BY <1>1, InvAlways, PTL DEF Spec, RateNeverFalls
=============================================================================
