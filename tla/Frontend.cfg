SPECIFICATION FrontendSpec
CONSTANTS
    Moving = {"transaction", "network", "staking", "deposit", "withdrawal", "prices", "governance", "faucet", "dual", "simple", "scripts"}
    Development = FALSE
    Chains = {"local", "testnet", "mainnet"}
    Overridden = {"StakeBasket"}
    HasBasket = TRUE
    WithBasket = {"local", "testnet"}
    Governed = {"local", "testnet"}
    Refusals = {{"user rejected"}, {"insufficient funds"}, {"execution reverted", "revert"}}
    Supply = 3
    Coin = 250
    CoreBalance = 300
    BtcBalance = 1
    CorePrices = {47}
    BtcPrices = {9513}
    Counts = {2}
    VotesOf = {500}
    Delegated = {7}
    StakeAmounts = {1, 2}
    DepositAmounts = {150}
    Redeemed = {1, 100, 106}
    SimpleAmounts = {2}
    CoreInputs = {100}
    BtcInputs = {1}
    maxConcurrent = 1
    MaxPrompts = 1
    MaxUsed = 2
    MaxSent = 2
    MaxAttempts = 2
    MaxRefreshes = 1
    Runs = {1, 2, 3}
    Loops = {1, 2}
    MaxClicks = 2
    DualChains = {"testnet"}
    Clicked = {4}
    MaxAsked = 2
    MaxRuns = 2
CONSTRAINT FewAtOnce
CHECK_DEADLOCK FALSE
INVARIANTS NetworkSettles ReadsCatchUp ShownOfChain LoadingReleased SavedIsWired
PROPERTIES OneAtATime TierNearlyReached
