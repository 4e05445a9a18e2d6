SPECIFICATION Spec
CONSTANTS
  Instances = {i1}
  Closers = {}
  Crashes = FALSE
  Refusals = TRUE
  LateRequests = FALSE
  HoldTimeouts = FALSE
SYMMETRY ProcessSymmetry
INVARIANT RefundedSaleNotForwarded
\* A sale ends: nothing more happens to a closed row.
CHECK_DEADLOCK FALSE
