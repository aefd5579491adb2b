SPECIFICATION MCSpec
CONSTANTS
    alice = alice
    bob = bob
    d1 = d1
    d2 = d2
    Moving = {"staking", "basket"}
    Users <- TwoUsers
    Amounts = {1, 3}
    InitWallet <- SmallWallet
    Threshold <- DenseTiers
    PRECISION = 2
    MaxFees = 3
    MaxRescued = 1
    Holders <- TwoUsers
    Owner = alice
    Pools <- TwoPools
    FirstPool = d1
    Deposits <- OneDeposit
    Parts = {300, 780}
    Rewards <- TwoRewards
    Gift <- OneGift
    Prices <- OnePrice
    Ratios = {0, 2, 4}
    Options <- FewOptions
    CORE_UNIT = 2
    BTC_UNIT = 1
    USD_UNIT = 1
    SATOSHI_RATIO = 4
    MIN_BTC_DEPOSIT = 8
    HalfHour = 1
    OneDay = 4
    StartTime = 1
    MaxMoves = 4
    MaxChanges = 2
    MaxTime = 3
CONSTRAINT Slice
CHECK_DEADLOCK FALSE
INVARIANTS
  TierMatchesAmount
  SettlementNeverReverts
  Solvent
PROPERTIES
  OnlyFeesRaisePending
  BasketShareKept
