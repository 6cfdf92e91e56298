SPECIFICATION Spec
CONSTANTS
  t1 = t1  t2 = t2  t3 = t3  h1 = h1  h2 = h2
  k1 = k1  k2 = k2  k3 = k3  k4 = k4  v1 = v1  v2 = v2  row1 = row1  row2 = row2
  Threads = {t1}
  Handles = {h1}
  HandleOf <- OneHandle
  Keys = {k1, k2}
  Values = {v1, v2}
  Absent = Absent
  Hole = Hole
  hash_gen <- SameRow
  PrefixOf <- NoPrefixes
  TABLE_ROW_SIZE = 2
  CallsOf <- DelCalls
  MaxCrashes = 0
PROPERTIES
  DelKeepsOthers
