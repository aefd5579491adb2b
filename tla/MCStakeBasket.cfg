SPECIFICATION Spec
CHECK_DEADLOCK FALSE
CONSTRAINT Slice
CONSTANTS
  v1 = v1
  v2 = v2
  u1 = u1
  u2 = u2
  Basket = basket
  TransferTo = {basket}
  FeeRecipient = u2
  Users <- TwoUsers
  Validators <- TwoValidators
  Views <- MCViews
  Amounts = {60}
  Parts = {25}
  Rewards = {3}
  Reductions = {0, 5000}
  FeeChoices = {1000, 5001}
  RiskChoices = {601, 1001}
  Prices = {1}
  FallbackPrice = 3
  PRICE_UNIT = 2
  UNBONDING_PERIOD = 1
  Year = 1
  MaxPooled = 121
  MaxMoves = 4
  MaxRequests = 1
  MaxTime = 1
INVARIANTS
  SharesHaveAssets
PROPERTIES
  RequestsPayable
  LeavingKeepsValue
  PoolAccounted
