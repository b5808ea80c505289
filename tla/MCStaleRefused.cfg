SPECIFICATION Spec
CONSTANTS
  t1 = t1  t2 = t2  a = a  b = b  v1 = v1  v2 = v2  o1 = o1  o2 = o2
  j1 = j1  j2 = j2  p1 = p1  p2 = p2
  Table = {t1}
  Lane = {a}
  View = {v1}
  Own = {}
  Join = {}
  Managed = {v1}
  TableOf <- OneTableOf
  LanesOf <- OneLanesOf
  Probe <- NoFun
  Build <- NoFun
  Thread = {p1, p2}
  NoName = NoName
  InvalCap = 1
  MaxSeq = 2
  MaxSets = 2
  MaxGen = 2
  MaxSegments = 1
INVARIANT StaleRefused
CHECK_DEADLOCK FALSE
