SPECIFICATION Spec
CONSTANTS
  DeviceThreads = {dev}
  CloudThreads = {cld}
  Addresses = {a1, a2, a3}
  Types = {plug, lamp}
  Entries = {e1, e2, e3, e4}
  Rows = {1, 2}
  LocksMayFail = FALSE
  Null = Null
SYMMETRY Symmetry
INVARIANTS
  OnlyStrangersReported
