SPECIFICATION CacheSpec
CONSTANTS
  Users = {u}
  Wallets = {w1, w2}
  Networks = {polygon}
  History = polygon
  TokensOf <- OneToken
  Endpoints = 2
  RpcTimeout = 1
  EtherscanKey = TRUE
  EtherscanTimeout = 2
  CacheTtl = 1
  Calls = {c1, c2}
  MaxTime = 5
  NoWallet = NoWallet
  NoEntry = NoEntry
  NoRequest = NoRequest
SYMMETRY Symmetry
INVARIANTS
  CacheTypeOK
  StalenessIsBounded
PROPERTIES
  OnlyCrossedReadsGoBack
