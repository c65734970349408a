SPECIFICATION Spec
CONSTANTS
  Clients = {h1, h2}
  k1 = k1
  k2 = k2
  c1 = c1
  c2 = c2
  Wallets <- MCWallets
  DemoUser = DemoUser
  NoPairing = NoPairing
  NoWallet = NoWallet
  RequestTtl = 2
  CodeTtl = 1
  AccessTtl = 1
  RefreshTtl = 2
  MaxTime = 2
  MaxRequests = 1
  MaxCodes = 2
  MaxTokens = 4
SYMMETRY Symmetry
CHECK_DEADLOCK FALSE
INVARIANTS
  ServedCallsWereConsented
  ValidCodeIsNotExchangedTwice
  ConnectionsHaveASource
