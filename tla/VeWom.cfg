SPECIFICATION VeWomSpec
CONSTANTS
  Users = {u1, u2}
  Contracts = {u2}
  Voters = {v1, v2}
  Managers = {m1}
  InitialVoter = v1
  InitialManager = m1
  Amounts = {1, 2}
  LockDays = {1, 2}
  MinLockDays = 1
  MaxLockDays = 2
  InitialMaxBreedings = 2
  MaxBreedings = {1}
  WAD = 2
  Rate = 2
  SqrtDays <- MCSqrtDays
  Uint104 = 3
  InitialWom = 2
  VoteAmounts = {1, 2}
  Stakes = {4}
  MaxTime = 2
  MaxChanges = 2
INVARIANTS LocksBacked VotesBacked ExitOpen
PROPERTIES LocksHold
CHECK_DEADLOCK FALSE
