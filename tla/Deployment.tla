----------------------------- MODULE Deployment -----------------------------
(***************************************************************************)
(* The deployment scripts (scripts/deploy-*.cjs).  A script is a sequence  *)
(* of transactions; it stops at the first that fails, wherever that is,    *)
(* what it has deployed stays, and its file is written last.  The model    *)
(* keeps who points to whom; prices, validators and test money are only    *)
(* transactions that may fail.                                             *)
(***************************************************************************)
EXTENDS Naturals, Sequences, SequencesExt

CONSTANTS MaxRuns      \* bound: scripts started

VARIABLES script,      \* the one that runs
          step,        \* and its next step
          at,          \* the addresses its process holds
          links,       \* on the chain: links[contract][field], an address
          files,       \* under deployment-data/
          next,        \* the address of the next contract
          runs,
          verdict      \* how verify-deployment.cjs last ended

deploymentVars == <<script, step, at, links, files, next, runs, verdict>>

-----------------------------------------------------------------------------
(* What the constructors ask for, in order.  "token" is the share token of a *)
(* basket, "minter" who may mint it.                                         *)
Fields ==
  [PriceFeed |-> <<"owner", "pyth", "switchboard">>, API3PriceFeed |-> <<"owner">>,
   TestBTC |-> <<>>, MockCORE |-> <<"owner">>, MockCoreBTC |-> <<"owner">>,
   MockCoreStaking |-> <<"core", "owner">>, MockLstBTC |-> <<"btc", "owner">>,
   MockDualStaking |-> <<>>, MockDualStakingContract |-> <<>>, ContractFactory |-> <<>>,
   StakeBasketToken |-> <<"name", "symbol", "owner">>,
   StakingManager |-> <<"stakeBasket", "coreStaking", "lstBTC", "btc", "core", "owner">>,
   StakeBasket |-> <<"token", "stakingManager", "priceFeed", "recipient", "treasury", "owner">>,
   BasketStaking |-> <<"stakes", "owner">>,
   DualStakingBasket |-> <<"token", "priceFeed", "core", "btc", "dualStaking", "recipient",
                           "tier", "owner">>,
   SimplePriceFeed |-> <<"switchboard", "owner">>,
   SimpleBasketToken |-> <<"name", "symbol", "owner">>,
   SimpleStaking |-> <<"token", "priceFeed", "btc", "router", "owner">>]

\* Arguments that are no contract of the script.
Known == [zero |-> 0, deployer |-> 1, placeholder |-> 2, value |-> 3]
FirstAddress == 10

Deploy(as, contract, args) == <<[op |-> "deploy", of |-> as, what |-> contract, args |-> args]>>
Set(on, field, name) == <<[op |-> "set", of |-> on, what |-> field, args |-> <<name>>]>>
\* Transactions whose data is not modelled, and a call its contract does not have.
Calls(n) == [i \in 1..n |-> [op |-> "call", of |-> "", what |-> "", args |-> <<>>]]
Wrong == <<[op |-> "wrong", of |-> "", what |-> "", args |-> <<>>]>>
Save(file, names) == <<[op |-> "save", of |-> file, what |-> "", args |-> names]>>

-----------------------------------------------------------------------------
(* deploy-complete-system.cjs.  Its first constructor is called with one     *)
(* argument of three; the factory's function takes one, and the factory is   *)
(* not the owner who may set the prices; StakeBasket has no setTargetRatio.  *)
CompleteUtilities ==
  Deploy("priceFeed", "PriceFeed", <<"deployer">>) \o Calls(3)
  \o Deploy("testBTC", "TestBTC", <<>>)
  \o Deploy("coreStaking", "MockCoreStaking", <<"zero", "deployer">>)
  \o Deploy("dualStaking", "MockDualStaking", <<"zero", "testBTC", "deployer">>) \o Calls(1)
CompleteFactory == Deploy("factory", "ContractFactory", <<>>) \o Wrong
CompleteConfiguration ==
  Wrong \o Calls(2) \o Save("local", [testBTC |-> "testBTC", coreStaking |-> "coreStaking"])
CompleteSystem == CompleteUtilities \o CompleteFactory \o CompleteConfiguration

\* deploy-production-ready.cjs: two baskets of one token, one of which may mint it.
ProductionTokens ==
  Deploy("token", "StakeBasketToken", <<"value", "value", "deployer">>)
  \o Deploy("core", "MockCORE", <<"deployer">>) \o Deploy("testBTC", "TestBTC", <<>>)
  \o Deploy("priceFeed", "PriceFeed", <<"deployer", "zero", "zero">>) \o Calls(4)
ProductionBaskets ==
  Deploy("dualStaking", "MockDualStakingContract", <<>>)
  \o Deploy("stakeBasket", "StakeBasket",
            <<"token", "deployer", "priceFeed", "deployer", "deployer", "deployer">>)
  \o Deploy("dualStakingBasket", "DualStakingBasket",
            <<"token", "priceFeed", "core", "testBTC", "dualStaking", "deployer", "value",
              "deployer">>)
  \o Set("token", "minter", "dualStakingBasket")
ProductionReady ==
  ProductionTokens \o ProductionBaskets
  \o Save("production",
          [token |-> "token", core |-> "core", testBTC |-> "testBTC", priceFeed |-> "priceFeed",
           dualStaking |-> "dualStaking", stakeBasket |-> "stakeBasket",
           dualStakingBasket |-> "dualStakingBasket"])

(* deploy-with-mocks.cjs: the basket and its manager each need the address   *)
(* of the other, so a first manager is replaced by a second.                 *)
(* (MocksFirstManagerSaved: the file names the first.)                       *)
MocksTokens ==
  Deploy("core", "MockCORE", <<"deployer">>) \o Deploy("coreBTC", "MockCoreBTC", <<"deployer">>)
  \o Deploy("coreStaking", "MockCoreStaking", <<"core", "deployer">>)
  \o Deploy("lstBTC", "MockLstBTC", <<"coreBTC", "deployer">>)
  \o Deploy("priceFeed", "API3PriceFeed", <<"deployer">>) \o Calls(4)
MocksManager(as, basket) ==
  Deploy(as, "StakingManager", <<basket, "coreStaking", "lstBTC", "coreBTC", "core", "deployer">>)
MocksBasket ==
  Deploy("token", "StakeBasketToken", <<"value", "value", "deployer">>)
  \o MocksManager("stakingManager", "placeholder")
  \o Deploy("stakeBasket", "StakeBasket",
            <<"token", "stakingManager", "priceFeed", "deployer", "deployer", "deployer">>)
  \o Set("token", "minter", "stakeBasket")
  \o MocksManager("stakingManagerCorrect", "stakeBasket")
  \o Set("stakeBasket", "stakingManager", "stakingManagerCorrect")
MocksFunding == Calls(2) \o Calls(3) \o Calls(6) \o Calls(6)
MocksSaved(manager) ==
  Save("info", [core |-> "core", coreBTC |-> "coreBTC", coreStaking |-> "coreStaking",
                lstBTC |-> "lstBTC", priceFeed |-> "priceFeed", stakingManager |-> manager,
                token |-> "token", stakeBasket |-> "stakeBasket"])
MocksFirstManagerSaved == MocksTokens \o MocksBasket \o MocksFunding \o MocksSaved("stakingManager")
WithMocks == MocksTokens \o MocksBasket \o MocksFunding \o MocksSaved("stakingManagerCorrect")

\* deploy-testnet2.cjs: its managers are called with three arguments of six.
TestnetBasket ==
  Deploy("priceFeed", "API3PriceFeed", <<"deployer">>) \o Calls(4)
  \o Deploy("token", "StakeBasketToken", <<"value", "value", "deployer">>)
  \o Deploy("stakingManager", "StakingManager", <<"token", "priceFeed", "deployer">>)
  \o Deploy("stakeBasket", "StakeBasket",
            <<"token", "stakingManager", "priceFeed", "deployer", "deployer", "deployer">>)
TestnetConfiguration ==
  Set("token", "minter", "stakeBasket")
  \o Deploy("stakingManagerCorrect", "StakingManager", <<"stakeBasket", "priceFeed", "deployer">>)
  \o Set("stakeBasket", "stakingManager", "stakingManagerCorrect")
  \o Deploy("basketStaking", "BasketStaking", <<"token", "deployer">>)
  \o Set("stakeBasket", "basketStaking", "basketStaking")
Testnet2 ==
  TestnetBasket \o TestnetConfiguration
  \o Save("testnet2", [priceFeed |-> "priceFeed", token |-> "token",
                       stakingManager |-> "stakingManagerCorrect",
                       stakeBasket |-> "stakeBasket", basketStaking |-> "basketStaking"])

\* deploy-simple-system.cjs, with the addresses of its environment or zeros.
SimpleSystem(switchboard) ==
  Deploy("priceFeed", "SimplePriceFeed", <<switchboard, "deployer">>)
  \o Deploy("token", "SimpleBasketToken", <<"value", "value", "deployer">>)
  \o Deploy("staking", "SimpleStaking", <<"token", "priceFeed", "value", "value", "deployer">>)
  \o Set("token", "minter", "staking")
  \o (IF switchboard = "zero" THEN <<>> ELSE Calls(2))
  \o Save("simple", [priceFeed |-> "priceFeed", token |-> "token", staking |-> "staking"])

Scripts ==
  [complete |-> CompleteSystem, production |-> ProductionReady, mocks |-> WithMocks,
   testnet2 |-> Testnet2, simple |-> SimpleSystem("zero"), switchboard |-> SimpleSystem("value")]

-----------------------------------------------------------------------------
Running(op) == script # "none" /\ step <= Len(Scripts[script]) /\ Scripts[script][step].op = op
Now == Scripts[script][step]
Address(name) == IF name \in DOMAIN at THEN at[name] ELSE Known[name]
With(f, x, e) == [y \in DOMAIN f \cup {x} |-> IF y = x THEN e ELSE f[y]]
Done == step' = step + 1 /\ UNCHANGED <<script, runs, verdict>>

Start(s) ==
  /\ script = "none" /\ runs < MaxRuns /\ runs' = runs + 1
  /\ script' = s /\ step' = 1 /\ at' = <<>>
  /\ UNCHANGED <<links, files, next, verdict>>

Deployed ==
  /\ Running("deploy") /\ Len(Now.args) = Len(Fields[Now.what])
  /\ at' = With(at, Now.of, next) /\ next' = next + 1
  /\ LET fields == Fields[Now.what]
         given  == [f \in ToSet(fields) |->
                      Address(Now.args[CHOOSE i \in DOMAIN fields : fields[i] = f])]
     IN links' = With(links, next, given)
  /\ Done /\ UNCHANGED files
Called ==
  /\ Running("set")
  /\ links' = [links EXCEPT ![at[Now.of]] = With(@, Now.what, Address(Now.args[1]))]
  /\ Done /\ UNCHANGED <<at, files, next>>
Sent ==
  /\ Running("call")
  /\ Done /\ UNCHANGED <<at, links, files, next>>
Saved ==
  /\ Running("save")
  /\ files' = [files EXCEPT ![Now.of] = [n \in DOMAIN Now.args |-> at[Now.args[n]]]]
  /\ Done /\ UNCHANGED <<at, links, next>>

\* The end, a transaction that fails, or a call its contract does not accept.
Stops ==
  /\ script # "none" /\ script' = "none" /\ step' = 1 /\ at' = <<>>
  /\ UNCHANGED <<links, files, next, runs, verdict>>

(* verify-deployment.cjs looks for a file that no script writes and goes on  *)
(* with the addresses of an earlier test deployment, whose wiring can be     *)
(* any, or with no answer at all on another network.  Its last check takes   *)
(* every failure of the estimate for a success but the token's refusal.      *)
Standing == [answers : BOOLEAN, minter : {"basket", "other"}, token : {"token", "other"},
             estimate : {"done", "not the minter", "failed"}]
verifyDeployment(d) ==
  /\ d.answers
  /\ d.minter = "basket" /\ d.token = "token"
  /\ d.estimate # "not the minter"
Verified ==
  /\ script = "none"
  /\ \E d \in Standing : verdict' = IF verifyDeployment(d) THEN "passed" ELSE "failed"
  /\ UNCHANGED <<script, step, at, links, files, next, runs>>

-----------------------------------------------------------------------------
DeploymentInit ==
  /\ script = "none" /\ step = 1 /\ at = <<>>
  /\ links = <<>> /\ next = FirstAddress /\ runs = 0 /\ verdict = "none"
  /\ files = [f \in {"local", "production", "info", "testnet2", "simple"} |-> <<>>]

DeploymentNext ==
  \/ \E s \in DOMAIN Scripts : Start(s)
  \/ Deployed \/ Called \/ Sent \/ Saved \/ Stops \/ Verified

-----------------------------------------------------------------------------
Names(f) == DOMAIN files[f]
Link(f, name, field) == links[files[f][name]][field]
Baskets == {"stakeBasket", "dualStakingBasket", "staking"}

\* However many runs have stopped half way, a file names one working system:
\* the token's minter is a basket of that token and is in the file, and the
\* basket and its manager know each other.
SavedIsWired ==
  \A f \in DOMAIN files :
    /\ "token" \in Names(f) =>
         \E b \in Baskets \cap Names(f) :
           /\ Link(f, "token", "minter") = files[f][b]
           /\ Link(f, b, "token") = files[f]["token"]
    /\ "stakingManager" \in Names(f) =>
         /\ Link(f, "stakingManager", "stakeBasket") = files[f]["stakeBasket"]
         /\ Link(f, "stakeBasket", "stakingManager") = files[f]["stakingManager"]

=============================================================================
