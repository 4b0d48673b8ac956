SPECIFICATION FairSpec
CONSTANTS
  Chains = {c1, c2}
  Users = {u}
  Adaptors = {a1, a2}
  FirstAdaptor = a1
  NoAdaptor = none
  Contracts = {}
  Amounts = {1}
  Credits = {1}
  Outs = {3}
  Fees = {0}
  MinAmounts = {1}
  Scale = 2
  WAD = 4
  Ratios = {}
  InitialLpDividendRatio = 1
  InitialRetentionRatio = 0
  Minted = {1}
  TipAmounts = {}
  InitialCash = 3
  Limits = {0}
  InitialLimit = 2
  MaxMessages = 2
  MaxPoolOps = 1
  MaxRewires = 2
INVARIANTS TypeOK CreditConserved
PROPERTIES LimitsRespected ImplementsLedger RestoredRouteSettles
CHECK_DEADLOCK FALSE
