SPECIFICATION Spec
CONSTANTS
  t1 = t1  t2 = t2  t3 = t3  h1 = h1  h2 = h2
  k1 = k1  k2 = k2  k3 = k3  k4 = k4  v1 = v1  v2 = v2  row1 = row1  row2 = row2
  Threads = {t1, t2, t3}
  Handles = {h1, h2}
  HandleOf <- TwoHandles
  Keys = {k1, k2, k3, k4}
  Values = {v1, v2}
  Absent = Absent
  Hole = Hole
  hash_gen <- SameRow
  PrefixOf <- NoPrefixes
  TABLE_ROW_SIZE = 2
  CallsOf <- MapCalls
  MaxCrashes = 1
INVARIANTS
  TypeOK
  Durable
  RowIsCurrent
PROPERTIES
  ImplementsMap
