SPECIFICATION Spec
CONSTANTS
  v1 = v1
  v2 = v2
  v3 = v3
  Manager = manager
  NoValidator = none
  alice = alice
  bob = bob
  Users <- TwoUsers
  Validators <- ThreeValidators
  Views <- ThreeViews
  Amounts = {1, 2}
  Rewards = {0, 5}
  FeeChoices = {2000}
  RiskChoices = {700}
  QueueChoices = {FALSE, TRUE}
  TransferTo = {manager}
  PRECISION = 2
  UnstakingPeriod = 1
  MinValidators = 3
  MaxStaked = 6
  MaxHeld = 2
  MaxRequests = 2
  MaxTime = 1
CONSTRAINT Slice
CHECK_DEADLOCK FALSE
INVARIANTS
  StakeBacked
  RequestsBacked
  NoOrphanStake
PROPERTY RateNeverFalls
