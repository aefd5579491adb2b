--------------------------- MODULE MCBasketStaking ---------------------------
(***************************************************************************)
(* Two staking contracts on small instances, one or the other: that of      *)
(* BASKET, with thresholds of a few tokens so that two accounts climb and   *)
(* leave several tiers and an index coarse enough for shares to round, and  *)
(* the basket of CORE and BTC, with amounts that the quotients of the       *)
(* ratio, the keeper and the unstaking do not divide.                       *)
(***************************************************************************)
EXTENDS BasketStaking, DualStakingBasket

CONSTANTS alice, bob, d1, d2,
          Moving   \* the contracts that move in this run

TwoUsers    == {alice, bob}
SmallWallet == [u \in TwoUsers |-> IF u = alice THEN 4 ELSE 1]
\* All five tiers within four tokens.
DenseTiers  == [t \in 1..4 |-> t]
\* Nothing above Bronze is in reach: every multiplier is 1x.
BronzeOnly  == <<1, 100, 1000, 10000>>

-----------------------------------------------------------------------------
TwoPools   == {d1, d2}
OneDeposit == {[CORE |-> 38, BTC |-> 20]}
TwoRewards == {[CORE |-> 4, BTC |-> 3], [CORE |-> 0, BTC |-> 0]}
OneGift    == [CORE |-> 10, BTC |-> 5]
OnePrice   == {[CORE |-> 20, BTC |-> 20]}
FewOptions == [threshold |-> {2001}, keeper |-> {100}, router |-> {"untrusted"},
               minimum |-> {[CORE |-> 30, BTC |-> 1, usd |-> 10]}]

-----------------------------------------------------------------------------
VARIABLE moving

MCInit == Init /\ BasketInit /\ moving \in Moving

MCNext ==
    /\ UNCHANGED moving
    /\ \/ moving = "staking" /\ Next /\ UNCHANGED basketVars
       \/ moving = "basket" /\ BasketNext /\ UNCHANGED vars

MCSpec == MCInit /\ [][MCNext]_<<vars, basketVars, moving>>

(* Of the basket: one holder, a router from the start, a change around it   *)
(* instead of two calls, and shorter behaviours without an ERC-20 or with   *)
(* the heir's limits; and one way to start it where it rests.               *)
Slice ==
    /\ balanceOf[alice] = 0 /\ setting.router # "none"
    /\ (setting.hasToken /\ setting.slippage = 200) \/ moves + changes <= 2
    /\ moves + 2 * changes <= 4 \/ moves <= 1
    /\ moving = "staking" =>
          setting.hasToken /\ setting.slippage = 200 /\ setting.ratio = 2

=============================================================================
