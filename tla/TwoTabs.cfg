SPECIFICATION Spec
CONSTANTS
  Phrases = {p, q}
  p = p
  q = q
  composed = composed
  decomposed = decomposed
  Spellings = {composed, decomposed}
  Nfkc <- MCNfkc
  Found <- MCFound
  Tabs = {1, 2}
  LinksOf <- MCLinks
  Families = {"EVM", "SOLANA", "NEAR", "APTOS", "CASPER"}
  NoPhrase = NoPhrase
  NoVault = NoVault
  Malformed = Malformed
  NoTab = NoTab
  NoTx = NoTx
INVARIANTS
  ReadyIsStored
PROPERTIES
  BroadcastsAreOfTheConnectedWallet
