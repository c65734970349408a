SPECIFICATION Spec
CONSTANTS
  Keys = {k1}
  Requests = {evm}
  ContractCalls = {}
  Evm = {evm}
  Sequenced = {evm}
  Unchecked = {}
  Calls = {c1, c2}
  Endpoints = 2
  RpcTimeout = 1
  Ttl = 2
  MaxTime = 2
  MaxNumber = 2
  NoRow = NoRow
  NoTx = NoTx
SYMMETRY Symmetry
INVARIANTS
  IntentIsSingleUse
