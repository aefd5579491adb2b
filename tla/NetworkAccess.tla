--------------------------- MODULE NetworkAccess ---------------------------
(***************************************************************************)
(* How the page follows the chain of the wallet: the modal of              *)
(* useNetworkDetection.ts, shown after 100 ms, the chain of the network    *)
(* store, set after 500 ms (Web3Provider.tsx), the contract addresses of   *)
(* useContractStore.ts, and what the buttons that switch the chain ask of  *)
(* the wallet (networkHandler.ts, NetworkSwitcher.tsx).                    *)
(* wagmi reports only a chain it is configured with (config/wagmi.ts): a   *)
(* chain that is not valid is the local one of a page in production.       *)
(***************************************************************************)
EXTENDS Naturals, FiniteSets

CONSTANTS Development,   \* IS_DEVELOPMENT
          Overridden,    \* contracts the environment gives an address for
          MaxPrompts     \* bound: requests the wallet holds at once

VARIABLES connected, chainId,   \* the wallet, as useAccount and useChainId give it
          known,                \* chains the wallet knows
          prompts,              \* <<"switch" | "add", chain>>: what the wallet asks its user
          modal, modalTimer,    \* showNetworkModal, and the timer of its effect
          store, storeTimer,    \* useNetworkStore, and the debounced setChainId
          addresses,            \* useContractStore
          route                 \* the page that is open

walletVars == <<connected, chainId, known>>
detectionVars == <<modal, modalTimer, store, storeTimer>>
networkVars == <<walletVars, prompts, detectionVars, addresses, route>>

SUPPORTED_NETWORKS == {"local", "testnet", "mainnet"}
None == "none"

\* validateNetwork: the local network is there in development only.
validateNetwork(chain) ==
  [isSupported |-> chain \in SUPPORTED_NETWORKS,
   isAvailable |-> chain \in SUPPORTED_NETWORKS /\ (chain = "local" => Development)]
Valid(chain) == validateNetwork(chain).isSupported /\ validateNetwork(chain).isAvailable
getAvailableNetworks == {c \in SUPPORTED_NETWORKS : Development \/ c # "local"}

shouldBlockContractCalls == connected /\ ~Valid(chainId)

-----------------------------------------------------------------------------
\* The effects of a render after the wallet changed.  That of the modal looks
\* at the connection and the validity only, so that a change of chain that
\* leaves them as they are starts no timer; a timer that is started takes the
\* place of the one that runs.  A page that uses the contracts tells their
\* store.  (EffectsKeepTimer: the store keeps the first change of a burst.)
EffectsKeepTimer ==
  /\ modalTimer' = (\/ modalTimer
                    \/ connected' # connected
                    \/ validateNetwork(chainId') # validateNetwork(chainId))
  /\ storeTimer' = IF storeTimer # None THEN storeTimer ELSE chainId'
  /\ addresses' = [addresses EXCEPT !.currentChainId = IF route = "home" THEN @ ELSE chainId']
  /\ UNCHANGED <<modal, store, route>>
DetectionEffects ==
  /\ modalTimer' = (\/ modalTimer
                    \/ connected' # connected
                    \/ validateNetwork(chainId') # validateNetwork(chainId))
  /\ storeTimer' = IF chainId' # chainId THEN chainId' ELSE storeTimer
  /\ addresses' = [addresses EXCEPT !.currentChainId = IF route = "home" THEN @ ELSE chainId']
  /\ UNCHANGED <<modal, store, route>>
WalletBecomes(on, chain) ==
  connected' = on /\ chainId' = chain /\ DetectionEffects

\* (ModalForUnknown: a modal that looks at the support only.)
ModalForUnknown ==
  /\ modalTimer /\ modalTimer' = FALSE
  /\ modal' = (connected /\ ~validateNetwork(chainId).isSupported)
  /\ UNCHANGED <<walletVars, prompts, store, storeTimer, addresses, route>>
ModalTimer ==
  /\ modalTimer
  /\ modal' = shouldBlockContractCalls
  /\ modalTimer' = FALSE
  /\ UNCHANGED <<walletVars, prompts, store, storeTimer, addresses, route>>

\* setChainId of the network store, and the status it derives.
getNetworkType(chain) == IF chain \in SUPPORTED_NETWORKS THEN chain ELSE "unknown"
setChainId ==
  /\ storeTimer # None
  /\ store' = [chainId |-> storeTimer, networkStatus |-> getNetworkType(storeTimer)]
  /\ storeTimer' = None
  /\ UNCHANGED <<walletVars, prompts, modal, modalTimer, addresses, route>>
getCurrentContracts ==
  IF store.networkStatus = "unknown" THEN "local" ELSE store.networkStatus

\* useEnvironmentContracts: every mount of a page that uses the contracts
\* imports what the environment overrides, on whatever chain.
importConfiguration(contracts) ==
  IF contracts = {} THEN addresses
  ELSE [addresses EXCEPT !.customAddresses = @ \cup contracts, !.useCustomAddresses = TRUE]
getContractAddress(contract) ==
  IF addresses.useCustomAddresses /\ contract \in addresses.customAddresses
  THEN "custom" ELSE addresses.currentChainId

\* A page that uses the contracts, and one that does not.
OpenPage(page) ==
  /\ route # page /\ route' = page
  /\ addresses' = IF page = "home" THEN addresses
                  ELSE [importConfiguration(Overridden) EXCEPT !.currentChainId = chainId]
  /\ UNCHANGED <<walletVars, prompts, detectionVars>>

\* A reload: what is not persisted starts anew, the addresses stay.
Reload ==
  /\ store' = [chainId |-> None, networkStatus |-> "unknown"]
  /\ storeTimer' = chainId
  /\ modal' = FALSE /\ modalTimer' = TRUE
  /\ addresses' = IF route = "home" THEN [addresses EXCEPT !.currentChainId = "local"]
                  ELSE [importConfiguration(Overridden) EXCEPT !.currentChainId = chainId]
  /\ prompts' = {}
  /\ UNCHANGED <<walletVars, route>>

-----------------------------------------------------------------------------
Asks(prompt) ==
  /\ Cardinality(prompts) < MaxPrompts /\ prompt \notin prompts
  /\ prompts' = prompts \cup {prompt}

\* The modal closes as soon as the wallet is asked, or dismissed.
ChooseInModal(chain) ==
  /\ modal /\ chain \in getAvailableNetworks
  /\ Asks(<<"switch", chain>>)
  /\ modal' = FALSE
  /\ UNCHANGED <<walletVars, modalTimer, store, storeTimer, addresses, route>>
dismissModal ==
  /\ modal /\ modal' = FALSE
  /\ UNCHANGED <<walletVars, prompts, modalTimer, store, storeTimer, addresses, route>>

\* NetworkSwitcher and the button for the testnet: switchChain is not awaited,
\* so that their catch is never taken.
SwitchChain(chain) ==
  /\ connected /\ chain # chainId
  /\ Asks(<<"switcher", chain>>)
  /\ UNCHANGED <<walletVars, detectionVars, addresses, route>>
CoreTestnet2Button == SwitchChain("testnet")

\* The answers.  switchToNetwork asks to add a chain that the wallet does not
\* know, when the page has what the wallet needs for it.
SwitchApproved(prompt) ==
  /\ prompt[1] # "add" /\ prompt[2] \in known
  /\ prompts' = prompts \ {prompt}
  /\ WalletBecomes(connected, prompt[2])
  /\ UNCHANGED known
addNetworkToWallet(prompt) ==
  /\ prompt[1] = "switch" /\ prompt[2] \notin known
  /\ prompts' = (prompts \ {prompt}) \cup
                (IF prompt[2] # "local" THEN {<<"add", prompt[2]>>} ELSE {})
  /\ UNCHANGED <<walletVars, detectionVars, addresses, route>>
AddApproved(prompt) ==
  /\ prompt[1] = "add"
  /\ prompts' = prompts \ {prompt}
  /\ known' = known \cup {prompt[2]}
  /\ \E chain \in {chainId, prompt[2]} : WalletBecomes(connected, chain)
Refused(prompt) ==
  /\ prompts' = prompts \ {prompt}
  /\ UNCHANGED <<walletVars, detectionVars, addresses, route>>
Answer ==
  \E p \in prompts :
    SwitchApproved(p) \/ addNetworkToWallet(p) \/ AddApproved(p) \/ Refused(p)

\* The user connects, disconnects or changes the chain in the wallet itself.
WalletChanges ==
  \E on \in BOOLEAN, chain \in known :
    /\ <<on, chain>> # <<connected, chainId>>
    /\ WalletBecomes(on, chain)
    /\ UNCHANGED <<known, prompts>>

-----------------------------------------------------------------------------
NetworkInit ==
  /\ connected = FALSE /\ chainId \in {"local", "testnet"} /\ known = {chainId, "local"}
  /\ prompts = {}
  /\ modal = FALSE /\ modalTimer = TRUE
  /\ store = [chainId |-> None, networkStatus |-> "unknown"] /\ storeTimer = chainId
  /\ addresses = [currentChainId |-> "local", customAddresses |-> {}, useCustomAddresses |-> FALSE]
  /\ route = "home"

NetworkNext ==
  \/ ModalTimer \/ setChainId \/ Reload
  \/ \E page \in {"home", "staking"} : OpenPage(page)
  \/ dismissModal
  \/ \E chain \in SUPPORTED_NETWORKS : ChooseInModal(chain) \/ SwitchChain(chain)
  \/ CoreTestnet2Button
  \/ Answer \/ WalletChanges

-----------------------------------------------------------------------------
\* Once the timers are over, the page agrees with the wallet: the store names
\* the wallet's chain and its contracts are that chain's, and the modal is not
\* shown to a wallet whose chain is valid or that is not connected; an address
\* a page uses is that of the wallet's chain or the environment's.
NetworkSettles ==
  /\ storeTimer = None => store.chainId = chainId /\ getCurrentContracts = chainId
  /\ ~modalTimer /\ modal => shouldBlockContractCalls
  /\ \A contract \in addresses.customAddresses \cup {"StakeBasket"} :
       route # "home" => getContractAddress(contract) \in {"custom", chainId}

\* A wallet that comes to a chain that is not valid is told: the modal shows,
\* unless it leaves that chain first.
WrongNetworkTold ==
  shouldBlockContractCalls /\ modalTimer ~> modal \/ ~shouldBlockContractCalls
=============================================================================
