------------------------- MODULE MCBasketGovernance -------------------------
(***************************************************************************)
(* Instances of BasketGovernance for TLC: two holders, one proposal, and    *)
(* periods of a second or less, so that the whole life of a proposal fits   *)
(* in six seconds.                                                          *)
(***************************************************************************)
EXTENDS BasketGovernance, TLC

CONSTANTS u1, u2

MCUsers == {u1, u2}

(* Equal holders, interchangeable; staking 10 gives Silver.                 *)
EqualWallets == u1 :> 10 @@ u2 :> 10
Symmetry     == Permutations(MCUsers)
MCThreshold  == 1 :> 4 @@ 2 :> 10 @@ 3 :> 20 @@ 4 :> 40

(* Two parts of the state space, each explored in full within its bounds:   *)
(* the tokens move in the second of a vote nobody cancels, or the owner     *)
(* moves the parameters while the proposal lives, is cancelled, queued and  *)
(* executed, and the tokens rest.                                           *)
TokensSlice ==
    /\ now = 1 /\ stakingSet /\ canceled = {}
    /\ <<proposalThreshold, quorumPercentage, majorityPercentage>> = <<10, 10, 51>>
OwnerSlice ==
    /\ wallet = InitWallet /\ totalSupply = InitSupply
    /\ \A u \in Users : delegates[u] = {} /\ delegatedVotes[u] = 0
    /\ \A id \in Ids, u \in Users : weights[id][u] \in {0, InitWallet[u]}
Slice == TokensSlice \/ OwnerSlice
=============================================================================
