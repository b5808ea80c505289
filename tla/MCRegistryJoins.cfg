SPECIFICATION Spec
CONSTANTS
  t1 = t1  t2 = t2  a = a  b = b  v1 = v1  v2 = v2  o1 = o1  o2 = o2
  j1 = j1  j2 = j2  p1 = p1  p2 = p2
  Table = {t1, t2}
  Lane = {a}
  View = {}
  Own = {o1, o2}
  Join = {j1, j2}
  Managed = {o1,o2,j1,j2}
  TableOf <- JoinTableOf
  LanesOf <- NoFun
  Probe <- JoinProbe
  Build <- JoinBuildOf
  Thread = {p1}
  NoName = NoName
  InvalCap = 2
  MaxSeq = 1
  MaxSets = 4
  MaxGen = 0
  MaxSegments = 0
INVARIANTS RegistryInv ServedFresh JoinsFlat
VIEW ReachableView
CHECK_DEADLOCK FALSE
