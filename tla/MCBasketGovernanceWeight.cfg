SPECIFICATION Spec
CONSTANTS
    u1 = u1
    u2 = u2
    Owner = owner
    Users <- MCUsers
    InitWallet <- EqualWallets
    InitSupply = 20
    Amounts = {10}
    SupplyAmounts = {}
    Threshold <- MCThreshold
    PRECISION = 1
    MaxFees = 0
    MaxRescued = 0
    VOTING_PERIOD = 0
    EXECUTION_DELAY = 1
    GRACE_PERIOD = 1
    Thresholds = {10}
    Percentages = {}
    MaxProposals = 1
    MaxTime = 1
    MaxSupply = 20
    StakingChoices = {TRUE}
    MaxDelegated = 10
INVARIANT VotesWithinSupply
CHECK_DEADLOCK FALSE
