SPECIFICATION MCSpec
CONSTANTS
    Owner = owner
    Accounts = {owner, m1, m2}
    Contracts = {c1, c2}
    Zero = zero
    Actions = {a1}
    EMERGENCY_DELAY = 1
    TIMELOCK_DELAY = 2
    StartTime = 1
    MaxProposals = 2
    MaxClock = 6
    Appointed = {owner, m1}
    Target = c1
    ManagerTime = 4
    core = core
    lstBTC = lstBTC
    u1 = u1
    u2 = u2
    Users = {u1, u2}
    Assets <- BothAssets
    UnbondingPeriod <- Periods
    Amounts = {200, 1100}
    Liquidities = {30, 700}
    Ratios = {2000, 2001}
    Settings <- MCSettings
    MAX_INSTANT_WITHDRAWAL = 200
    MaxRequests = 3
    MaxMoves = 3
    MaxTime = 4
CONSTRAINT Slice
CHECK_DEADLOCK FALSE
INVARIANTS
  AccountsExact
PROPERTIES
  ProcessedOnceWhenDue
  ShareValueKept
  Timelocked
