SPECIFICATION FairSpec
CONSTANTS
  MaxCalls = 2
  Tools = {"prepare_casper_transfer", "get_swap_quote"}
  WalletTools = {}
  PrepareTools = {"prepare_casper_transfer"}
  SubmitTools = {}
  HandoffTools = {"prepare_casper_transfer"}
  Views = {"transfer-preview", "swap-quote"}
  Emits <- MCEmits
  Slots = {1}
  MaxTime = 1
  NoTool = NoTool
  NoData = NoData
INVARIANTS
  OthersAnswerOnlyEmptyCalls
  RepeatedOnlyAfterFailure
  NoPushIsMissed
PROPERTIES
  BridgeLetsGo
