SPECIFICATION Spec
CONSTANTS
    Moving = {"engine", "rebalancer", "governance", "oracle", "api", "validators", "faucet", "monitoring", "feed", "security"}
    SnapshotIds = {"s1"}
    Tallies <- TwoTallies
    Cycles = {1, 2}
    Recent = 1
    MaxProposals = 2
    MaxStops = 1
    Addresses = {"a"}
    Clients = {"c"}
    Requests = {1, 2}
    Cooldown = 2
    Window <- Windows
    Limit <- Limits
    LastMinute = 4
    MaxGrants = 2
    Quotes = {70, 100, 112, 130}
    Ages = {2, 9}
    MinAge = 1
    MaxAge = 4
    PRICE_CACHE_DURATION = 1
    CIRCUIT_BREAKER_COOLDOWN = 1
    DEFAULT_MAX_PRICE_AGE = 1
    StartTime = 1
    MaxUpdates = 3
    MaxChanges = 2
    MaxTime = 3
    AlertCooldown <- Cooldowns
    AlertAge = 3
    MetricsCap = 2
    AUMs = {500}
    FeedPrices = {150, 180, 300}
    UptimeAverages = {100}
    Jobs = {1, 2}
    MaxAlerts = 3
    MaxCustom = 2
    EndOfTime = 3
    Offered = {0, 96, 106}
    Size = 3
    Sources = {"s1", "s2"}
    Configs <- ThreeConfigs
    LeastConfig <- ShortestTimes
    DeployedAt = 1
    MaxStored = 4
    MaxCalls = 2
    LastTime = 5
CONSTRAINT Slice
CHECK_DEADLOCK FALSE
INVARIANTS
    ReportsAgree
    CyclesBounded
    CastFollowsHolders
    AlertsHold
PROPERTIES
    GrantsSpaced
    PricesGuarded
    AveragesSound
