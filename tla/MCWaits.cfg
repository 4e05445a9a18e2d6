SPECIFICATION WaitsFairSpec
CONSTANTS
  MaxSends = 3
  Lane <- MCLane
  Surface <- MCSurface
  Batch = 2
  Garbled = FALSE
  MaxRuns = 2
  MaxConns = 2
  Posts = {p1}
  Relinks = {k1}
  Addresses = 2
  Clicks = 2
  Polls = 2
  MaxPause = 6
  Reads = {h1, h2, h3}
  MaxLooks = 2
  Requests = {a1, a2}
\* Every run, send and request comes to its end.
CHECK_DEADLOCK FALSE
INVARIANTS
  TypesOK
  VerdictsAreTrue
  RunsKeepApart
  ParallelReadsSeeIt
PROPERTIES
  PaidSendCompletes
  RunsGoOn
  WaitsEnd
  EventuallySubscribed
  SendKeepsPromise
