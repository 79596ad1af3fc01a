SPECIFICATION Spec
CONSTANTS
  Rows <- MCRows
  MaxEvidence = 3
INVARIANT TypeOK
INVARIANT OrderDoesNotMatter
INVARIANT AccusersAreInTheTotal
INVARIANT HistoryOnlySubtracts
INVARIANT UnevaluatedDemotesLikeFailed
INVARIANT CappedAtTier2
PROPERTY UnhealthyIsInert
CHECK_DEADLOCK FALSE
