SPECIFICATION Spec
CONSTANTS
    u1 = u1
    u2 = u2
    Owner = owner
    Users <- MCUsers
    InitWallet <- EqualWallets
    InitSupply = 20
    Amounts = {10}
    SupplyAmounts = {10}
    Threshold <- MCThreshold
    PRECISION = 1
    MaxFees = 0
    MaxRescued = 0
    VOTING_PERIOD = 1
    EXECUTION_DELAY = 1
    GRACE_PERIOD = 0
    Thresholds = {10, 20}
    Percentages = {30, 90}
    MaxProposals = 1
    MaxTime = 6
    MaxSupply = 20
    StakingChoices = {TRUE, FALSE}
    MaxDelegated = 10
CONSTRAINT Slice
SYMMETRY Symmetry
INVARIANTS
    TallyExact
    MajorityRules
    DelayRespected
PROPERTY DecidedOnce
CHECK_DEADLOCK FALSE
