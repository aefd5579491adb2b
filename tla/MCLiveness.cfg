SPECIFICATION Spec
CONSTANT Moving = {"engine", "governance", "oracle", "network", "prices"}
CHECK_DEADLOCK FALSE
PROPERTIES DueTaskRuns GuardReleased QuotesReachChain WrongNetworkTold PricesLoad
