SPECIFICATION Spec
CONSTANTS
  t1 = t1  t2 = t2  a = a  b = b  v1 = v1  v2 = v2  o1 = o1  o2 = o2
  j1 = j1  j2 = j2  p1 = p1  p2 = p2
  Table = {t1}
  Lane = {a, b}
  View = {v1, v2}
  Own = {}
  Join = {}
  Managed = {v1, v2}
  TableOf <- ViewTableOf
  LanesOf <- ViewLanesOf
  Probe <- NoFun
  Build <- NoFun
  Thread = {p1}
  NoName = NoName
  InvalCap = 1
  MaxSeq = 1
  MaxSets = 1
  MaxGen = 2
  MaxSegments = 2
INVARIANT RegistryInv
PROPERTY StoresAreACache
VIEW ReachableView
CHECK_DEADLOCK FALSE
