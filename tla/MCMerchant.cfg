SPECIFICATION MCSpec
CONSTANTS
  Payouts = {"p1", "p2"}
  Jobs = {i1, i2}
  Drivers = {i1, i2}
  MaxEarned = 2
  MaxMint = 2
  MinPayout = 1
  Pays = {"p1"}
  Reads = {"r1"}
  WalletRequests = {i1, i2}
  Wallets = {"a", "b", "c"}
  Kind <- MCKind
  Slots = {"cards_send"}
  SlotNeeds <- MCSlotNeeds
  Sends = {"s1"}
  SendSlot = "cards_send"
  MaxRows = 2
  CardRequests = {"r1"}
  NCards = 2
  Chips = {"x1"}
  Tools = {"t1"}
  DataKeys = 1
  Operators = {i1, i2}
  Releases = {1, 2}
  Chunks = 2
  MaxStalls = 1
  MaxDeploys = 1
  Devices = {"d1"}
  Posts = {"a", "b"}
  SaleRequests = {"r1"}
  HookReads = {"h1", "h2"}
  MaxHooks = 2
  MaxMoves = 1
  Currencies = {"usd", "eur"}
  Dollar = "usd"
  PriceCalls = {i1, i2}
  Passwords = {"a", "b"}
  Logins = {"l1", "l2"}
  Changes = {"c1", "c2"}
  Accounts = {"a", "b"}
  People = {"p", "q"}
  Codes = {"k1", "k2"}
  Claims = {i1, i2}
SYMMETRY ProcessSymmetry
\* Every component comes to its end.
CHECK_DEADLOCK FALSE
INVARIANTS
  TypesOK
  PayoutsAreSound
  NeverOverpaid
  PaymentsAskedOnce
  BooksFollowWallets
  CardKeysAreWhole
  UpdatesAreWhole
  SalesAreSound
  AccountsStayInOrder
PROPERTIES
  StaysForGood
  PaymentsKeepPromise
