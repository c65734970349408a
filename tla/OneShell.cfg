SPECIFICATION ShellSpec
CONSTANTS
  Browsers = {b1}
  Users = {u1}
  Campaigns = {c1, c2}
  NoCampaign = NoCampaign
  NoCookie = NoCookie
  NoUser = NoUser
  NoBucket = NoBucket
  Routes = {"oauth-approve", "vault-pair", "mcp", "sign-request", "submit-signed"}
  Max <- MCMax
  Window = 2
  CookieTtl = 1
  Retention = 1
  PruneEvery = 1
  MaxBuckets = 1
  MaxBusy = 1
  MaxTime = 4
SYMMETRY Symmetry
CHECK_DEADLOCK FALSE
INVARIANTS
  ShellTypeOK
  LessThanTwiceTheLimit
  AttributionIsEarned
  EventsLiveAsLongAsPromised
