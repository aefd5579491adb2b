SPECIFICATION Spec
CONSTANTS
  v1 = v1
  v2 = v2
  v3 = v3
  Manager = manager
  NoValidator = none
  alice = alice
  bob = bob
  Users = {alice}
  Validators <- OneValidator
  Views <- OneViews
  Amounts = {1}
  Rewards = {0}
  FeeChoices = {}
  RiskChoices = {}
  QueueChoices = {FALSE}
  TransferTo = {}
  PRECISION = 2
  UnstakingPeriod = 1
  MinValidators = 1
  MaxStaked = 3
  MaxHeld = 1
  MaxRequests = 2
  MaxTime = 2
CHECK_DEADLOCK FALSE
INVARIANT DueRequestPayable
