SPECIFICATION Spec
CONSTANTS
  usd = usd
  rebasing = rebasing
  Assets = {usd, rebasing}
  Scale <- MCScale
  Skimmable = {rebasing}
  WAD = 4
  InitialHaircutRate = 1
  Deposited = 1
  Amounts = {1}
  Slips <- MCSlips
  SwapSlips = {0}
  CovFees = {1}
  TipAmounts = {1, 2}
  MaxSupply = 2
  InitialFeeSplits <- MCInitialFeeSplits
  FeeSplits <- MCFeeSplits
  Thresholds = {2}
  HaircutRates = {0}
  WithdrawalHaircutRates = {1}
  MaxTokens = 2
  MaxWad = 3
  MaxChanges = 2
INVARIANTS LpTokensBacked
PROPERTIES ShortOnlyByRounding ExchangeRateKept
CHECK_DEADLOCK FALSE
