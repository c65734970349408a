SPECIFICATION Spec
CONSTANTS
  Networks = {casper, polygon}
  Default = casper
  Signing = {polygon}
  Calls = {1, 2}
  MaxFaults = 1
  Amoy = amoy
  NoNetwork = NoNetwork
  NotMounted = NotMounted
INVARIANTS
  TypeOK
  SnapshotIsWhatIsShown
PROPERTIES
  SwitchingEnds
  ConnectionIsNoticed
  OpenedReplacesOnlyItsScreen
  FormKeepsItsTerms
