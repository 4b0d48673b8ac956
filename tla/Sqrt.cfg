SPECIFICATION SqrtFairSpec
CONSTANTS
  Inputs <- MCInputs
  Guesses <- MCInputs
INVARIANTS ReturnsRoot NeverReturnsOneBelowSquare
PROPERTIES EndsUnlessOneBelowSquare
CHECK_DEADLOCK FALSE
