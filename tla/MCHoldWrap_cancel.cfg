SPECIFICATION Spec
CONSTANTS
  Instances = {i1}
  Closers = {c1}
  Crashes = FALSE
  Refusals = FALSE
  LateRequests = FALSE
  HoldTimeouts = FALSE
SYMMETRY ProcessSymmetry
PROPERTY ClosedOnlyUnpaid
\* A sale ends: nothing more happens to a closed row.
CHECK_DEADLOCK FALSE
