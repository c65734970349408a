SPECIFICATION Spec
CONSTANTS
  NoAgent = NoAgent
  NoRow = NoRow
  a = a
  shop = shop
  other = other
  contract = contract
  Keys = {k1, k2}
  Calls = {c1}
  Requests <- MCRequests
  ContractCalls <- MCContractCalls
  Drafts <- MCDrafts
  Seed <- MCSeed
  Balances = {1, 9}
  Ttl = 1
  TicksPerDay = 1
  MaxTime = 1
SYMMETRY Symmetry
INVARIANTS
  PaymentsWithinConfirmedTerms
PROPERTIES
  OneAtATimeKeepsDailyLimit
  RevocationStopsPrepares
