--------------------------- MODULE GovernancePages ---------------------------
(***************************************************************************)
(* The two tabs of the governance page (GovernanceInterface.tsx,           *)
(* CoreDAOGovernanceInterface.tsx): what their effects show of the reads   *)
(* of the chain, and the forms that create proposals.  The reads go to the *)
(* wallet's chain at once, the address they go to is that of the network   *)
(* store, which follows the wallet half a second later (Web3Provider.tsx). *)
(* A chain may have no governance address.  Without proposals the pages    *)
(* show examples, with a power of 10000.  What the wallet is asked is told *)
(* by TransactionFlow.                                                     *)
(***************************************************************************)
EXTENDS Naturals

CONSTANTS Chains,
          Governed,    \* the chains with an address for the governance
          Counts,      \* proposals a chain may have
          VotesOf,     \* getVotes of the user
          Delegated    \* totalDelegatedAmount

VARIABLES chain,            \* useChainId: the wallet's, or the last one configured
          networkStatus,    \* the store's chain, "unknown" after a load
          timer,            \* setChainId(chain) of the store is due
          read,             \* what a chain's governance last answered
          activeTab,        \* the tab of the page, and that of the CoreDAO tab
          votingPower, proposals,                       \* of the BASKET tab
          emergencyPaused, totalDelegated, examples,    \* of the CoreDAO tab
          form,             \* what is filled in
          showCreate,
          request           \* the proposal the wallet was asked for

readVars == <<chain, networkStatus, timer, read>>
shownVars == <<votingPower, proposals, emergencyPaused, totalDelegated, examples>>
formVars == <<form, showCreate, request>>
pagesVars == <<readVars, activeTab, shownVars, formVars>>

\* A read is the set of the value it returned, empty before.
Unread == [count |-> {}, votes |-> {}, coreCount |-> {}, paused |-> {}, delegated |-> {}]
getCurrentContracts(status) == IF status = "unknown" THEN "local" ELSE status
Address(status) ==
  IF getCurrentContracts(status) \in Governed THEN getCurrentContracts(status) ELSE ""
MockPower == 10000
Forms == {"proposal", "delegation", "hash power"}

\* What useReadContract gives the tab: the answers are kept by chain and
\* address; nothing is asked without an address or of an unknown network, and
\* nothing answers at an address of another chain.
Answers(c, status, reads) == IF status = c /\ c \in Governed THEN reads[c] ELSE Unread
Seen(c, status, reads) ==
  LET answers == Answers(c, status, reads)
  IN [address |-> Address(status), count |-> answers.count, votes |-> answers.votes,
      coreCount |-> answers.coreCount, paused |-> answers.paused,
      delegated |-> answers.delegated]
Now == Seen(chain, networkStatus, read)

-----------------------------------------------------------------------------
(* The effects of the BASKET tab after a render: the proposals and, after    *)
(* them, the votes.  Proposals on the chain are read as none: the function   *)
(* that would read one answers null.                                         *)
(* (loadProposalsKeeps: without an address nothing is done.)                 *)
loadProposalsKeeps(now, power, list) ==
  IF now.address = "" THEN [power |-> power, list |-> list]
  ELSE IF now.count \subseteq {0} THEN [power |-> MockPower, list |-> "examples"]
  ELSE [power |-> power, list |-> "empty"]
loadProposals(now, power, list) ==
  IF now.address = "" THEN [power |-> 0, list |-> "empty"]
  ELSE IF now.count \subseteq {0} THEN [power |-> MockPower, list |-> "examples"]
  ELSE [power |-> power, list |-> "empty"]
BasketEffects(now, countChanged, votesChanged, power, list) ==
  LET loaded == IF countChanged THEN loadProposals(now, power, list)
                ELSE [power |-> power, list |-> list]
  IN /\ proposals' = loaded.list
     /\ votingPower' = IF votesChanged /\ ~(now.votes \subseteq {0})
                       THEN CHOOSE v \in now.votes : TRUE
                       ELSE loaded.power

(* Those of the CoreDAO tab: a total of zero is no news, a pause that ended  *)
(* is.                                                                       *)
(* (pausedWhenTrue: neither is.)                                             *)
pausedWhenTrue(now, old) == TRUE \in now.paused \/ old
pausedWhenRead(now, old) == IF now.paused = {} THEN old ELSE CHOOSE p \in now.paused : TRUE
CoreEffects(now, countChanged, paused, total, list) ==
  /\ emergencyPaused' = pausedWhenRead(now, paused)
  /\ totalDelegated' = IF now.delegated \subseteq {0} THEN total
                     ELSE CHOOSE d \in now.delegated : TRUE
  /\ examples' = IF countChanged /\ now.address # "" /\ now.coreCount \subseteq {0}
                 THEN "examples" ELSE list

\* After a render whose reads are `now': the effects whose dependencies changed.
Effects(before, now) ==
  IF activeTab = "basket"
  THEN /\ BasketEffects(now, <<before.address, before.count>> # <<now.address, now.count>>,
                        before.votes # now.votes, votingPower, proposals)
       /\ UNCHANGED <<emergencyPaused, totalDelegated, examples>>
  ELSE /\ CoreEffects(now, <<before.address, before.coreCount>> # <<now.address, now.coreCount>>,
                      emergencyPaused, totalDelegated, examples)
       /\ UNCHANGED <<votingPower, proposals>>

-----------------------------------------------------------------------------
\* The wallet's chain changes: the reads are of the new chain, the address is
\* still the old one, and the timer of the store starts anew.
ChainChanges(c) ==
  /\ c # chain /\ chain' = c /\ timer' = TRUE
  /\ Effects(Now, Seen(c, networkStatus, read))
  /\ UNCHANGED <<networkStatus, read, activeTab, formVars>>

setChainId ==
  /\ timer /\ timer' = FALSE
  /\ networkStatus' = chain
  /\ Effects(Now, Seen(chain, chain, read))
  /\ UNCHANGED <<chain, read, activeTab, formVars>>

\* A read returns, perhaps one asked for on another chain or by another tab.
ReadReturns(c, field, value) ==
  /\ networkStatus # "unknown"
  /\ c \in Governed /\ read[c][field] # {value}
  /\ read' = [read EXCEPT ![c][field] = {value}]
  /\ Effects(Now, Seen(chain, networkStatus, read'))
  /\ UNCHANGED <<chain, networkStatus, timer, activeTab, formVars>>

\* A tab is mounted with nothing of its former state.
setActiveTab(tab) ==
  /\ tab # activeTab /\ activeTab' = tab
  /\ IF tab = "basket"
     THEN /\ BasketEffects(Now, TRUE, TRUE, 0, "empty")
          /\ UNCHANGED <<emergencyPaused, totalDelegated, examples>>
     ELSE /\ CoreEffects(Now, TRUE, FALSE, 0, "empty")
          /\ UNCHANGED <<votingPower, proposals>>
  /\ form' = "blank" /\ showCreate' = FALSE /\ request' = "none"
  /\ UNCHANGED readVars

-----------------------------------------------------------------------------
\* Without an address the CoreDAO tab shows a notice in place of its forms.
Rendered == activeTab = "basket" \/ Now.address # ""
\* "Create Proposal" asks for a power of 1000, or for no pause.
OpenForm ==
  /\ ~showCreate /\ Rendered
  /\ IF activeTab = "basket" THEN votingPower >= 1000 ELSE ~emergencyPaused
  /\ showCreate' = TRUE
  /\ UNCHANGED <<readVars, activeTab, shownVars, form, request>>
CancelForm ==
  /\ showCreate /\ Rendered /\ showCreate' = FALSE
  /\ UNCHANGED <<readVars, activeTab, shownVars, form, request>>
\* One of the forms of the tab; what is half written counts as blank.
FillForm(kind) ==
  /\ showCreate /\ Rendered /\ form = "blank" /\ form' = kind
  /\ kind # "proposal" => activeTab = "core"
  /\ UNCHANGED <<readVars, activeTab, shownVars, showCreate, request>>

\* A form is emptied once the wallet was asked, whatever it will answer.
Asks(kind) ==
  /\ showCreate /\ Rendered /\ form = kind /\ request = "none"
  /\ request' = "wallet"
  /\ form' = "blank" /\ showCreate' = FALSE
  /\ UNCHANGED <<readVars, activeTab, shownVars>>
handleCreateProposal == activeTab = "basket" /\ Asks("proposal")
handleCreateCoreDAOProposal == activeTab = "core" /\ Asks("proposal")
handleCreateValidatorDelegation == activeTab = "core" /\ Asks("delegation")
\* No function creates a delegation of hash power: the form is only emptied.
handleCreateHashPowerDelegation ==
  /\ activeTab = "core" /\ showCreate /\ Rendered /\ form = "hash power"
  /\ form' = "blank" /\ showCreate' = FALSE
  /\ UNCHANGED <<readVars, activeTab, shownVars, request>>

\* The buttons of a proposal that is active: of the examples, the first.
handleVote ==
  /\ activeTab = "basket" /\ proposals = "examples" /\ request = "none"
  /\ request' = "wallet"
  /\ UNCHANGED <<readVars, activeTab, shownVars, form, showCreate>>
RequestEnds ==
  /\ request = "wallet" /\ request' = "none"
  /\ UNCHANGED <<readVars, activeTab, shownVars, form, showCreate>>

-----------------------------------------------------------------------------
\* The page opens on the BASKET tab, after a load or from another page.
PagesInit ==
  /\ chain \in Chains
  /\ networkStatus \in {"unknown", chain} /\ timer = (networkStatus = "unknown")
  /\ read = [c \in Chains |-> Unread]
  /\ activeTab = "basket"
  /\ votingPower = (IF Now.address = "" THEN 0 ELSE MockPower)
  /\ proposals = (IF Now.address = "" THEN "empty" ELSE "examples")
  /\ emergencyPaused = FALSE /\ totalDelegated = 0 /\ examples = "empty"
  /\ form = "blank" /\ showCreate = FALSE /\ request = "none"

PagesNext ==
  \/ \E c \in Chains : ChainChanges(c)
  \/ setChainId
  \/ \E c \in Chains :
       \/ \E n \in Counts : ReadReturns(c, "count", n) \/ ReadReturns(c, "coreCount", n)
       \/ \E n \in VotesOf : ReadReturns(c, "votes", n)
       \/ \E n \in Delegated : ReadReturns(c, "delegated", n)
       \/ \E p \in BOOLEAN : ReadReturns(c, "paused", p)
  \/ \E tab \in {"basket", "core"} : setActiveTab(tab)
  \/ OpenForm \/ CancelForm \/ \E kind \in Forms : FillForm(kind)
  \/ handleCreateProposal \/ handleCreateCoreDAOProposal \/ handleCreateValidatorDelegation
  \/ handleCreateHashPowerDelegation \/ handleVote \/ RequestEnds

-----------------------------------------------------------------------------
\* Once the store has followed the wallet, whatever chains, tabs and answers
\* came before and whatever was shown meanwhile: a chain without governance
\* shows neither a voting power nor a proposal of another chain.
NothingWithoutContract ==
  (activeTab = "basket" /\ ~timer /\ chain \notin Governed)
    => votingPower = 0 /\ proposals = "empty"

\* Once the store has followed, the pause of one chain is not shown on
\* another, nor after it ended, as soon as the read of the chain has returned.
PauseOfChain ==
  (activeTab = "core" /\ ~timer /\ chain \in Governed /\ read[chain].paused # {})
    => {emergencyPaused} = read[chain].paused
=============================================================================
