SPECIFICATION SqrtFairSpec
CONSTANTS
  Inputs <- MCInputs
  Guesses <- MCInputs
PROPERTIES AlwaysReturns
CHECK_DEADLOCK FALSE
