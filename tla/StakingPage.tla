---------------------------- MODULE StakingPage ----------------------------
(***************************************************************************)
(* The page that stakes BASKET (StakingInterface.tsx and its forms) over   *)
(* cached reads: what it shows is what the last reads returned, and they   *)
(* are read again only when the page sees a transaction confirmed.  The    *)
(* token and the staking contract are external: the wallet refuses what    *)
(* they would revert.  An amount of 0 is an empty input.                   *)
(***************************************************************************)
EXTENDS Naturals, FiniteSets

CONSTANTS Amounts,    \* what the user types
          Supply,     \* BASKET the user has at first
          MaxSent     \* bound: transactions of a behaviour

VARIABLES onChain,      \* balance, allowance, staked: the user's at the contracts
          cached,       \* what the reads last returned
          fetching,     \* reads in flight
          form,         \* stakeAmount and unstakeAmount
          isApproving,
          tx,           \* the newest transaction of the page's writeContract
          effectDue,    \* the effect of the confirmation is to run
          mounted,
          missed,       \* transactions the page did not see the end of
          sent          \* transactions the user confirmed

pageVars == <<onChain, cached, fetching, form, isApproving, tx, effectDue, mounted, missed, sent>>

Reads == {"balance", "allowance", "staked"}
Idle == [kind |-> "none", amount |-> 0, phase |-> "idle"]

isContractPending == tx.phase = "wallet"
isConfirming == tx.phase \in {"sent", "mined", "failed"}

\* An allowance that was not read yet is none.
needsApproval == form.stake = 0 \/ form.stake > cached.allowance

-----------------------------------------------------------------------------
TypeAmount(field, amount) ==
  /\ mounted /\ form[field] # amount
  /\ form' = [form EXCEPT ![field] = amount]
  /\ UNCHANGED <<onChain, cached, fetching, isApproving, tx, effectDue, mounted, missed, sent>>

\* The wallet is asked; the outcome of an earlier request is forgotten.
Asks(kind, amount) ==
  /\ mounted /\ ~isContractPending /\ ~isConfirming /\ ~effectDue
  /\ tx' = [kind |-> kind, amount |-> amount, phase |-> "wallet"]
  /\ UNCHANGED <<onChain, cached, fetching, effectDue, mounted, missed, sent>>

handleApprove ==
  /\ form.stake > 0 /\ needsApproval
  /\ Asks("approve", form.stake)
  /\ isApproving' = TRUE
  /\ UNCHANGED form
handleStake ==
  /\ form.stake > 0 /\ ~needsApproval
  /\ Asks("stake", form.stake)
  /\ UNCHANGED <<form, isApproving>>
handleUnstake ==
  /\ form.unstake > 0
  /\ Asks("unstake", form.unstake)
  /\ form' = [form EXCEPT !.unstake = 0]
  /\ UNCHANGED isApproving
handleClaimRewards == Asks("claim", 0) /\ UNCHANGED <<form, isApproving>>

-----------------------------------------------------------------------------
\* What the contracts do of a transaction that is mined.
Possible(t) ==
  CASE t.kind = "stake" -> t.amount <= onChain.allowance /\ t.amount <= onChain.balance
    [] t.kind = "unstake" -> t.amount <= onChain.staked
    [] OTHER -> TRUE
Effect(t) ==
  CASE t.kind = "approve" -> [onChain EXCEPT !.allowance = t.amount]
    [] t.kind = "stake" -> [balance |-> onChain.balance - t.amount,
                            allowance |-> onChain.allowance - t.amount,
                            staked |-> onChain.staked + t.amount]
    [] t.kind = "unstake" -> [onChain EXCEPT !.balance = @ + t.amount, !.staked = @ - t.amount]
    [] OTHER -> onChain

\* Rejections throw nothing and nobody reads the error: isApproving stays.
Rejected ==
  /\ tx.phase = "wallet" /\ tx' = Idle
  /\ UNCHANGED <<onChain, cached, fetching, form, isApproving, effectDue, mounted, missed, sent>>
Confirmed ==
  /\ tx.phase = "wallet" /\ sent < MaxSent /\ Possible(tx)
  /\ tx' = [tx EXCEPT !.phase = "sent"] /\ sent' = sent + 1
  /\ UNCHANGED <<onChain, cached, fetching, form, isApproving, effectDue, mounted, missed>>
Mined ==
  /\ tx.phase = "sent"
  /\ \/ onChain' = Effect(tx) /\ tx' = [tx EXCEPT !.phase = "mined"]
     \/ onChain' = onChain /\ tx' = [tx EXCEPT !.phase = "failed"]
  /\ UNCHANGED <<cached, fetching, form, isApproving, effectDue, mounted, missed, sent>>
\* The receipt comes; that of a transaction that reverted is an error.
Receipt ==
  /\ mounted /\ tx.phase \in {"mined", "failed"}
  /\ tx' = Idle
  /\ effectDue' = (tx.phase = "mined")
  /\ UNCHANGED <<onChain, cached, fetching, form, isApproving, mounted, missed, sent>>

\* The effect of a confirmation depends on isApproving too: what it clears in
\* its first branch runs it again, into the second.
\* (ConfirmationReadsSome: the balance and the allowance are left as they are.)
ConfirmationReadsSome ==
  /\ mounted /\ effectDue
  /\ IF isApproving
     THEN /\ isApproving' = FALSE /\ fetching' = fetching \cup {"allowance"}
          /\ UNCHANGED <<form, effectDue>>
     ELSE /\ fetching' = fetching \cup {"staked"}
          /\ form' = [stake |-> 0, unstake |-> 0]
          /\ effectDue' = FALSE /\ UNCHANGED isApproving
  /\ UNCHANGED <<onChain, cached, tx, mounted, missed, sent>>
ConfirmationEffect ==
  /\ mounted /\ effectDue
  /\ IF isApproving
     THEN /\ isApproving' = FALSE /\ fetching' = fetching \cup {"allowance"}
          /\ UNCHANGED <<form, effectDue>>
     ELSE /\ fetching' = Reads
          /\ form' = [stake |-> 0, unstake |-> 0]
          /\ effectDue' = FALSE /\ UNCHANGED isApproving
  /\ UNCHANGED <<onChain, cached, tx, mounted, missed, sent>>

ReadReturns(read) ==
  /\ read \in fetching
  /\ cached' = [cached EXCEPT ![read] = onChain[read]]
  /\ fetching' = fetching \ {read}
  /\ UNCHANGED <<onChain, form, isApproving, tx, effectDue, mounted, missed, sent>>

\* Another page and back: the state of the page is lost, and with it the
\* transaction it waits for; the reads stay cached and are not made again.
Leave ==
  /\ mounted /\ mounted' = FALSE
  /\ missed' = (missed \/ tx.phase \in {"sent", "mined", "wallet"} \/ effectDue)
  /\ form' = [stake |-> 0, unstake |-> 0] /\ isApproving' = FALSE /\ effectDue' = FALSE
  /\ UNCHANGED <<onChain, cached, fetching, tx, sent>>
Return ==
  /\ ~mounted /\ tx.phase \notin {"wallet", "sent"}
  /\ mounted' = TRUE /\ tx' = Idle
  /\ UNCHANGED <<onChain, cached, fetching, form, isApproving, effectDue, missed, sent>>

-----------------------------------------------------------------------------
PageInit ==
  /\ onChain = [balance |-> Supply, allowance |-> 0, staked |-> 0]
  /\ cached = [r \in Reads |-> 0] /\ fetching = Reads
  /\ form = [stake |-> 0, unstake |-> 0] /\ isApproving = FALSE
  /\ tx = Idle /\ effectDue = FALSE /\ mounted = TRUE /\ missed = FALSE /\ sent = 0

PageNext ==
  \/ \E field \in {"stake", "unstake"}, a \in Amounts : TypeAmount(field, a)
  \/ handleApprove \/ handleStake \/ handleUnstake \/ handleClaimRewards
  \/ Rejected \/ Confirmed \/ Mined \/ Receipt \/ ConfirmationEffect
  \/ \E read \in Reads : ReadReturns(read)
  \/ Leave \/ Return

-----------------------------------------------------------------------------
\* Whatever was approved, staked or refused, and in whatever order the reads
\* return: when nothing is under way the page shows what the contracts hold,
\* unless it was left before it saw the end of a transaction.
ReadsCatchUp ==
  (tx.phase \in {"idle", "wallet"} /\ ~effectDue /\ fetching = {} /\ ~missed) => cached = onChain
=============================================================================
