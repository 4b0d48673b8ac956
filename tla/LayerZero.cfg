SPECIFICATION FairSpec
CONSTANTS
  Chains = {c1, c2}
  Users = {u}
  Adaptors = {a1, a2}
  FirstAdaptor = a1
  NoAdaptor = none
  Amounts = {1}
  Credits = {1}
  Outs = {1, 3}
  Fees = {1}
  MinAmounts = {1}
  Scale = 2
  WAD = 4
  Ratios = {2}
  InitialLpDividendRatio = 1
  InitialRetentionRatio = 0
  Minted = {1}
  TipAmounts = {1}
  InitialCash = 3
  Limits = {}
  InitialLimit = 3
  MaxMessages = 2
  MaxPoolOps = 1
  MaxRewires = 2
INVARIANT CreditConserved
PROPERTIES ShortOnlyByRounding ImplementsLedger NonBlocking RestoredRouteSettles
CHECK_DEADLOCK FALSE
