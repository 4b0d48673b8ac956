SPECIFICATION Spec
CONSTANTS
  TagsOf <- MCTagsOf
  MaxRuns <- MCMaxRuns
  Interruptible <- MCInterruptible
  Replaceable <- MCReplaceable
  MaxElsewhere = 2
INVARIANTS
  HandedOverLast
  CleanRunsComplete
PROPERTIES
  PeersCurrent
  RerunIsNoOp
CHECK_DEADLOCK FALSE
