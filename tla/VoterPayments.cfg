SPECIFICATION Spec
CONSTANTS
  Users = {u1}
  Contracts = {}
  Voters = {v1}
  ThisVoter = v1
  InitialVoter = v1
  Managers = {m1, m2}
  InitialManager = m1
  NoManager = none
  Amounts = {2}
  LockDays = {1}
  MinLockDays = 1
  MaxLockDays = 1
  InitialMaxBreedings = 1
  MaxBreedings = {}
  WAD = 1
  Rate = 1
  SqrtDays <- MCSqrtDays
  Uint104 = 9
  InitialWom = 2
  VoteAmounts = {}
  Stakes = {}
  MaxTime = 3
  MaxChanges = 2
  g1 = g1
  g2 = g2
  b1 = b1
  Gauges = {g1, g2}
  InitialGauges = {g1, g2}
  Bribes = {}
  NoBribe = none
  LpTokenOf <- MCNoBribes
  Ballots <- MCMoves
  ACC_TOKEN_PRECISION = 2
  MinTotal = 1
  Parts = 2
  InitialRate = 3
  InitialBase = 0
  Rates = {1}
  BaseAllocations = {1}
  AllocPoints = {1}
  StartTime = 0
  FirstEpoch = 1
  EpochDuration = 2
  FundAmounts = {6}
  MaxFunds = 6
INVARIANTS NoOverEmission DistributeNeverBlocks
PROPERTIES EarnedOverTime PaidOncePerEpoch
CHECK_DEADLOCK FALSE
