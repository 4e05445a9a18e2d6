SPECIFICATION ServicesFairSpec
CONSTANTS
  c1 = c1
  c2 = c2
  Places = {1, 2, 3, 4}
  Checkouts <- MCCheckouts
  MaxOpen = 2
  MaxPct = 60
  Margin = 1
  Funds = 4
  MaxSales = 2
  Batch = 2
  Chunk = 1
  MaxRestarts = 1
  Lanes <- MCLanes
  Hooks = {h1}
  Page = 2
  Newest = 2
  Cap = 1
  MaxBoots = 1
\* Every sale and every invoice comes to its end.
CHECK_DEADLOCK FALSE
INVARIANTS
  AllTypesOK
  AdmissionNearLimits
  SweepsAreSafe
PROPERTIES
  OnlyUnaskedAbandoned
  SweepsGetThere
