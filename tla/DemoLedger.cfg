SPECIFICATION Spec
CONSTANTS
  Keys = {k1, k2}
  Amounts = {1, 2}
  Opening = 1
  Calls = {c1, c2}
  NoRow = NoRow
  Idle = Idle
  Ttl = 1
  MaxTime = 1
  MaxEntries = 2
SYMMETRY Symmetry
INVARIANTS
  ExecutedOnceUnlessCrossed
PROPERTIES
  ImplementsLifecycle
