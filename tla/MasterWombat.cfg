SPECIFICATION Spec
CONSTANTS
  Users = {u1, u2}
  ACC_TOKEN_PRECISION = 3
  MinSupply = 1
  TOTAL_PARTITION = 2
  InitialTokenPerSec = 0
  TokenRates = {}
  StartTimes = {}
  Refills = {}
  MaxTokens = 0
  Stakes = {1, 2}
  MaxStake = 2
  VeBalances = {0, 2}
  Payments = {5}
  MaxPayments = 2
  REWARD_DURATION = 2
  InitialBase = 1
  BasePartitions = {2}
  InitialRewarders = {FALSE}
  MaxTime = 3
  MaxMoves = 4
  MaxChanges = 1
INVARIANTS BoostsFresh PeriodInOrder RewardsFunded
PROPERTIES EarningsKept
SYMMETRY UserSymmetry
CHECK_DEADLOCK FALSE
