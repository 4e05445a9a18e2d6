SPECIFICATION ProgressFairSpec
\* Every sale, payment and payout comes to its end.
CHECK_DEADLOCK FALSE
PROPERTIES
  PaidHoldIsDecided
  ForwardEndsInBooks
  PendingSendIsResolved
  RecordedPayoutResolves
