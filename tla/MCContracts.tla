----------------------------- MODULE MCContracts -----------------------------
(***************************************************************************)
(* The contracts that share nothing with the others: the UnbondingQueue and *)
(* the three with delayed operations, one at a time, so that each behaviour *)
(* moves only the one it was started for.  Amounts are large enough for a   *)
(* fee of some basis points of them to be at least one unit.                *)
(***************************************************************************)
EXTENDS DelayedContracts, UnbondingQueue

CONSTANTS core, lstBTC, u1, u2

BothAssets == {core, lstBTC}
\* Two seconds for one asset, one for the other, to unlock out of order.
Periods    == [asset \in Assets |-> IF asset = core THEN 2 ELSE 1]

Highest    == [instant |-> 100, provider |-> 50, maxRatio |-> 2000]
NoFee      == [instant |-> 0, provider |-> 0, maxRatio |-> 2000]
TooHigh    == [instant |-> 101, provider |-> 50, maxRatio |-> 2000]
MCSettings == {Highest, NoFee, TooHigh}

\* Two parts of the state space, each explored in full within its bounds:
\* requests that wait and unlock while the pool rests, and the pool of one
\* asset at the first second, with a request waiting for all but the last move or two.
QueueSlice ==
    /\ moves = 0 /\ setting.instant = 25
    /\ {availableLiquidity, reservePoolSize, reservePoolRatio} = {NoAmounts}
PoolSlice ==
    /\ now = 0 /\ moves + 2 * nextRequestId <= MaxMoves
    /\ \A asset \in Assets \ {core} :
          {totalQueued[asset], availableLiquidity[asset], totalShares[asset],
           reservePoolRatio[asset]} = {0}

-----------------------------------------------------------------------------
VARIABLE moving

allVars == <<vars, delayedVars, moving>>

MCInit ==
    /\ Init /\ DelayedInit
    /\ moving \in {"queue", "token", "manager", "committee"}

\* Each step but those of the queue is one of DelayedNext.
Still(contract, tuple) == IF moving = contract THEN TRUE ELSE UNCHANGED tuple

MCNext ==
    /\ UNCHANGED moving
    /\ Still("queue", vars) /\ Still("token", tokenVars)
    /\ Still("manager", managerVars) /\ Still("committee", committeeVars)
    /\ IF moving = "queue" THEN UNCHANGED clock ELSE TRUE
    /\ \/ moving = "queue" /\ Next
       \/ moving = "token" /\ Token!Next
       \/ moving = "manager" /\ Manager!Next
       \/ moving = "committee" /\ Committee!Next

MCSpec == MCInit /\ [][MCNext]_allVars

(* The widest of the three is kept narrow: roles for two of the accounts,   *)
(* one target besides the zero address, and just time enough.               *)
CONSTANTS Appointed, Target, ManagerTime
ManagerSlice ==
    /\ clock <= ManagerTime
    /\ \A r \in Manager!Roles : members[r] \subseteq Appointed
    /\ members["EMERGENCY_ROLE"] \subseteq {Owner}
    /\ \A id \in Manager!Ids : proposals[id].target \in {Target, Zero}
Slice == /\ QueueSlice \/ PoolSlice
         /\ moving = "manager" => ManagerSlice
=============================================================================
