SPECIFICATION Spec
CONSTANTS
  Users = {u1, u2}
  ACC_TOKEN_PRECISION = 6
  MinSupply = 1
  TOTAL_PARTITION = 2
  InitialTokenPerSec = 2
  TokenRates = {1}
  StartTimes = {0, 2}
  Refills = {3}
  MaxTokens = 6
  Stakes = {1}
  MaxStake = 2
  VeBalances = {0, 2}
  Payments = {}
  MaxPayments = 0
  REWARD_DURATION = 2
  InitialBase = 1
  BasePartitions = {2}
  InitialRewarders = {TRUE}
  MaxTime = 2
  MaxMoves = 4
  MaxChanges = 1
INVARIANTS ClaimedWithinDistributed
CHECK_DEADLOCK FALSE
