SPECIFICATION Spec
CONSTANTS
  c1 = c1
  c2 = c2
  Calls <- MCCalls
  Own <- MCOwn
  MaxTap = 2
  DailyLimit = 1
  PinTries = 1
\* The card's counter stops at MaxTap and every send is final in the end.
CHECK_DEADLOCK FALSE
INVARIANT OneUnresolvedPerCard
