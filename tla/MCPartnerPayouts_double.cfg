SPECIFICATION Spec
CONSTANTS
  p1 = p1
  p2 = p2
  kick = kick
  tick = tick
  Payouts <- MCPayouts
  Jobs <- MCJobs
  Drivers <- MCJobs
  MaxEarned = 2
  MaxMint = 2
  MinPayout = 1
\* Earnings stop at MaxEarned and every payout is final in the end.
CHECK_DEADLOCK FALSE
INVARIANT PayoutPaidOnce
