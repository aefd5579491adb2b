-------------------------- MODULE TransactionFlow --------------------------
(***************************************************************************)
(* The transaction hooks of the frontend (useStakeBasketTransactions.ts,   *)
(* useGovernanceTransactions.ts, useSparksTransactions.ts and              *)
(* useDualStakingTransactions.ts) over the error handling they share       *)
(* (transactionErrorHandler.ts): what a click asks of the wallet, and what *)
(* the user is told of the outcome.  writeContract does not throw: what    *)
(* the wallet or the chain refuses arrives later, in an effect.            *)
(* An error message is the set of phrases it contains.                     *)
(***************************************************************************)
EXTENDS Naturals, FiniteSets, FiniteSetsExt, Sequences

CONSTANTS Development,   \* does the page run in development
          Refusals,      \* messages the wallet or the chain may refuse with
          MaxUsed        \* bound: operations used in a behaviour

VARIABLES page,          \* the hook that is mounted
          wallet,        \* connected, and the chain it is on
          attempts,      \* retryAttempts
          request,       \* request[op]: where the newest transaction of op is
          toasts         \* <<operation, kind>> of what is shown

transactionVars == <<page, wallet, attempts, request, toasts>>

Operations ==
  [basket     |-> {"depositCore", "redeemBasket", "approveBasketTokens"},
   governance |-> {"createProposal", "vote", "createCoreDAOProposal", "createValidatorDelegation"},
   sparks     |-> {"redeem", "claim"},
   dual       |-> {"depositDualStake", "approveCore", "approveBtc"}]
Ops == UNION {Operations[p] : p \in DOMAIN Operations}
\* The chains wagmi is configured with, which are those it reports.
Configured == {"local", "testnet", "mainnet"}

-----------------------------------------------------------------------------
\* analyzeTransactionError tries the types in this order, and the first with a
\* phrase of the message wins: what GAS_LIMIT_EXCEEDED takes never becomes
\* CONTRACT_ERROR or PERMANENT_FAILURE.
WalletPatterns ==
  << <<"USER_REJECTED", {"user rejected", "4001"}>>,
     <<"INSUFFICIENT_FUNDS", {"insufficient funds"}>>,
     <<"INSUFFICIENT_GAS", {"out of gas"}>> >>
ChainPatterns ==
  << <<"GAS_LIMIT_EXCEEDED", {"gas limit exceeded", "execution reverted", "transaction failed"}>>,
     <<"NETWORK_ERROR", {"failed to fetch", "timeout"}>>,
     <<"CONTRACT_ERROR", {"execution reverted", "revert", "require"}>> >>
LastPatterns ==
  << <<"PERMANENT_FAILURE", {"transaction failed", "contract not deployed", "CALL_EXCEPTION"}>>,
     <<"ALLOWANCE_ERROR", {"allowance", "approve"}>>,
     <<"NONCE_ERROR", {"nonce"}>>,
     <<"CONNECTION_ERROR", {"wallet not connected", "connect wallet"}>> >>
Patterns == WalletPatterns \o ChainPatterns \o LastPatterns
analyzeTransactionError(message) ==
  LET hits == {i \in DOMAIN Patterns : Patterns[i][2] \cap message # {}}
  IN IF hits = {} THEN "UNKNOWN_ERROR" ELSE Patterns[Min(hits)][1]

\* handleTransactionError: the kind of the toast, with a Retry button when one
\* is offered and the type is actionable.
handleTransactionError(op, type, offered) ==
  <<op, IF type = "USER_REJECTED" THEN "info"
        ELSE IF offered /\ type # "PERMANENT_FAILURE" THEN "retry"
        ELSE IF type \in {"INSUFFICIENT_FUNDS", "INSUFFICIENT_GAS"} THEN "warning"
        ELSE "error">>

\* createTransactionStateManager makes a manager for each render, so that the
\* toast it would clear is never that of an earlier one; loading and error
\* toasts dismiss whatever is shown, a success toast does not.
showLoadingToast(op) == {<<op, "loading">>}
showSuccessToast(op) == toasts \cup {<<op, "success">>}
\* An error toast that leaves the others where they are.
handleErrorBeside(op, message) ==
  toasts \cup {handleTransactionError(op, analyzeTransactionError(message), FALSE)}
handleError(op, message) ==
  {handleTransactionError(op, analyzeTransactionError(message), FALSE)}

-----------------------------------------------------------------------------
\* validateNetwork, behind validateNetworkForTransaction, and the addresses of
\* getNetworkByChainId.
Valid(chain) == chain \in {"testnet", "mainnet"} \/ (chain = "local" /\ Development)
HasAddresses(chain) == chain # "mainnet"

\* What a function throws first, if anything; no message has the phrase of a
\* type that is retried.
Unreadable(amount) == <<amount = "unreadable", {"not a valid decimal number"}>>
Disconnected == <<~wallet.connected, {"Wallet not connected"}>>
Undeployed == <<~HasAddresses(wallet.chain), {"contract not deployed"}>>
TokenMissing == <<~HasAddresses(wallet.chain), {"token contract not found"}>>
WrongNetwork == <<~Valid(wallet.chain), {"unsupported network"}>>
Thrown(checks) ==
  LET bad == {i \in DOMAIN checks : checks[i][1]}
  IN IF bad = {} THEN {} ELSE checks[Min(bad)][2]

maxRetries == 2
Retryable == {"NETWORK_ERROR", "NONCE_ERROR", "INSUFFICIENT_GAS"}

\* The try and the catch of a function: the wallet is asked, whatever came of
\* an earlier request, or the error is shown, with Retry or for good.
Call(op, checks) ==
  LET message == Thrown(checks)
      type    == analyzeTransactionError(message)
      retried == op \notin Operations.dual /\ type \in Retryable /\ attempts[op] < maxRetries
  IN /\ op \in Operations[page]
     /\ Cardinality({o \in Ops : request[o] # "none"} \cup {op}) <= MaxUsed
     /\ IF message = {}
        THEN /\ toasts' = showLoadingToast(op)
             /\ request' = [request EXCEPT ![op] = "wallet"]
             /\ attempts' = [attempts EXCEPT ![op] = 0]
        ELSE /\ toasts' = toasts \cup {handleTransactionError(op, type, retried)}
                            \cup (IF message = WrongNetwork[2] THEN {<<"network", "error">>} ELSE {})
             /\ attempts' = [attempts EXCEPT ![op] = IF retried THEN @ + 1 ELSE 0]
             /\ UNCHANGED request
     /\ UNCHANGED <<page, wallet>>

Amounts == {"readable", "unreadable"}
depositCore(amount) ==
  Call("depositCore", <<Unreadable(amount), Disconnected, Undeployed, WrongNetwork>>)
redeemBasket(shares) ==
  Call("redeemBasket", <<Unreadable(shares), Disconnected, Undeployed>>)
approveBasketTokens(shares) ==
  Call("approveBasketTokens", <<Unreadable(shares), Disconnected, TokenMissing, Undeployed>>)

createGovernanceProposal == Call("createProposal", <<Disconnected, Undeployed, WrongNetwork>>)
castGovernanceVote == Call("vote", <<Disconnected, Undeployed, WrongNetwork>>)
createCoreDAOGovernanceProposal ==
  Call("createCoreDAOProposal", <<Disconnected, Undeployed, WrongNetwork>>)
createValidatorDelegationProposal(amount) ==
  Call("createValidatorDelegation", <<Unreadable(amount), Disconnected, Undeployed, WrongNetwork>>)

redeemSparksPoints(amount) ==
  Call("redeem", <<Unreadable(amount), Disconnected, Undeployed, WrongNetwork>>)
claimSparksRewards == Call("claim", <<Disconnected, Undeployed, WrongNetwork>>)

depositDualStake(amount) ==
  Call("depositDualStake", <<Unreadable(amount), Disconnected, Undeployed, WrongNetwork>>)
approveCoreTokens(amount) ==
  Call("approveCore", <<Unreadable(amount), Disconnected, TokenMissing, Undeployed>>)
approveBtcTokens(amount) ==
  Call("approveBtc", <<Unreadable(amount), Disconnected, TokenMissing, Undeployed>>)

-----------------------------------------------------------------------------
\* What wagmi reports of the newest transaction of op: the hash once the user
\* confirmed, a refusal, the receipt; and the toast the effect shows for it.
Becomes(op, from, to) ==
  /\ request[op] = from
  /\ request' = [request EXCEPT ![op] = to]
  /\ UNCHANGED <<page, wallet, attempts>>
Told(op) ==
  \/ Becomes(op, "wallet", "sent") /\ toasts' = showLoadingToast(op)
  \/ Becomes(op, "sent", "mined") /\ toasts' = showSuccessToast(op)
  \/ \E m \in Refusals :
       /\ Becomes(op, "wallet", "refused") \/ Becomes(op, "sent", "reverted")
       /\ toasts' = handleError(op, m)

depositEffects == Told("depositCore")
redeemEffects == Told("redeemBasket")
approveEffects == Told("approveBasketTokens")
voteEffects == Told("vote")
createProposalEffects == Told("createProposal")
createCoreDAOEffects == Told("createCoreDAOProposal")
sparksRedeemEffects == Told("redeem")
sparksClaimEffects == Told("claim")
dualStakeEffects == Told("depositDualStake")
approveCoreEffects == Told("approveCore")
approveBtcEffects == Told("approveBtc")

\* The errors of the validator delegation are not read, and no effect looks at
\* its hash or its receipt.
validatorDelegationUntold ==
  /\ \/ Becomes("createValidatorDelegation", "wallet", "sent")
     \/ Becomes("createValidatorDelegation", "sent", "mined")
     \/ Becomes("createValidatorDelegation", "wallet", "refused")
     \/ Becomes("createValidatorDelegation", "sent", "reverted")
  /\ UNCHANGED toasts

\* A toast that is not a loading one goes away by itself.
ToastExpires ==
  \E t \in toasts : /\ t[2] # "loading" /\ toasts' = toasts \ {t}
                    /\ UNCHANGED <<page, wallet, attempts, request>>

WalletChanges ==
  /\ wallet' \in [connected : BOOLEAN, chain : Configured]
  /\ UNCHANGED <<page, attempts, request, toasts>>

-----------------------------------------------------------------------------
TransactionInit ==
  /\ page \in DOMAIN Operations
  /\ wallet = [connected |-> FALSE, chain |-> "local"]
  /\ attempts = [op \in Ops |-> 0]
  /\ request = [op \in Ops |-> "none"]
  /\ toasts = {}

TransactionNext ==
  \/ \E a \in Amounts : \/ depositCore(a) \/ redeemBasket(a) \/ approveBasketTokens(a)
                        \/ createValidatorDelegationProposal(a) \/ redeemSparksPoints(a)
                        \/ depositDualStake(a) \/ approveCoreTokens(a) \/ approveBtcTokens(a)
  \/ createGovernanceProposal \/ castGovernanceVote \/ createCoreDAOGovernanceProposal
  \/ claimSparksRewards
  \/ depositEffects \/ redeemEffects \/ approveEffects
  \/ voteEffects \/ createProposalEffects \/ createCoreDAOEffects \/ validatorDelegationUntold
  \/ sparksRedeemEffects \/ sparksClaimEffects
  \/ dualStakeEffects \/ approveCoreEffects \/ approveBtcEffects
  \/ ToastExpires \/ WalletChanges

-----------------------------------------------------------------------------
\* A transaction that was refused or reverted is not shown as still under way,
\* whatever else was clicked before or after: its error takes the place of the
\* loading toast, and nothing but a new request brings that back (the
\* dismissal in handleError; the delegation, which is told nothing, aside).
\* Nothing is said of a success, whose toast leaves the loading toast up.
FailureEndsLoading ==
  \A op \in Ops \ {"createValidatorDelegation"} :
    request[op] \in {"refused", "reverted"} => <<op, "loading">> \notin toasts
=============================================================================
