SPECIFICATION Spec
CONSTANTS
  Keys = {k1}
  Requests = {sol, near, aifp}
  ContractCalls = {aifp}
  Evm = {aifp}
  Sequenced = {near, aifp}
  Unchecked = {near}
  Calls = {c1, c2}
  Endpoints = 2
  RpcTimeout = 1
  Ttl = 1
  MaxTime = 2
  MaxNumber = 1
  NoRow = NoRow
  NoTx = NoTx
SYMMETRY Symmetry
INVARIANTS
  RecordedPaymentWasAcknowledged
  OnlyApprovedTermsArePaid
  RecordTellsWhatWasPaid
PROPERTIES
  ImplementsLifecycle
  NoPaymentBeginsLate
