SPECIFICATION Spec
CONSTANTS
  Sends = {1, 2}
  Lane <- MCLane
  Surface <- MCSurface
  Batch = 2
  Garbled = FALSE
\* Every payment is answered in the end.
CHECK_DEADLOCK FALSE
INVARIANT ErrorMeansNotPaid
