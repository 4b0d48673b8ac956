SPECIFICATION Spec
CONSTANTS
  Users = {u1, u2}
  Contracts = {}
  Voters = {v1}
  ThisVoter = v1
  InitialVoter = v1
  Managers = {m1}
  InitialManager = m1
  NoManager = none
  Amounts = {2}
  LockDays = {1}
  MinLockDays = 1
  MaxLockDays = 1
  InitialMaxBreedings = 1
  MaxBreedings = {}
  WAD = 1
  Rate = 1
  SqrtDays <- MCSqrtDays
  Uint104 = 9
  InitialWom = 2
  VoteAmounts = {}
  Stakes = {}
  MaxTime = 1
  MaxChanges = 3
  g1 = g1
  g2 = g2
  b1 = b1
  Gauges = {g1, g2}
  InitialGauges = {g1}
  Bribes = {b1}
  NoBribe = none
  LpTokenOf <- MCLpTokenOf
  Ballots <- MCBallots
  ACC_TOKEN_PRECISION = 2
  MinTotal = 1
  Parts = 2
  InitialRate = 0
  InitialBase = 0
  Rates = {}
  BaseAllocations = {}
  AllocPoints = {}
  StartTime = 0
  FirstEpoch = 1
  EpochDuration = 1
  FundAmounts = {}
  MaxFunds = 4
INVARIANTS VotesAgree BribeSharesBacked
PROPERTIES ImplementsVotingPower
CHECK_DEADLOCK FALSE
