SPECIFICATION Spec
CONSTANTS
  Instances = {i1, i2}
  Closers = {c1}
  Crashes = TRUE
  Refusals = FALSE
  LateRequests = TRUE
  HoldTimeouts = TRUE
SYMMETRY ProcessSymmetry
INVARIANT TypeOK
INVARIANT MerchantPaidFirst
INVARIANT BooksAreTrue
INVARIANT ReversedSaleNotForwarded
PROPERTY StatusMovesForward
PROPERTY KeepsPromise
\* A sale ends: nothing more happens to a closed row.
CHECK_DEADLOCK FALSE
