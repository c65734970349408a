SPECIFICATION Spec
CONSTANTS
  Users = {u}
  Wallets = {w1, w2}
  Assets <- MCAssets
  OrderIds = {o1, o2}
  Pairs <- MCPairs
  Fickle <- MCFickle
  Calls = {c1, c2}
  RequestTimeout = 1
  AssetCacheTtl = 1
  QuoteTtl = 1
  ReferenceTtl = 4
  MaxTime = 5
  MaxQuotes = 1
  NoWallet = NoWallet
  NoAsset = NoAsset
  NoOrder = NoOrder
  NoCall = NoCall
  NoCache = NoCache
  NaN = NaN
SYMMETRY Symmetric
INVARIANTS
  OrdersPayTheVault
  OneDepositPerOrder
  QuotedAssetsWereActive
