SPECIFICATION Spec
CONSTANTS
  q1 = q1  q2 = q2  s1 = s1  s2 = s2  f1 = f1  n1 = n1  n2 = n2  x = x  y = y
  Stmt = {q1, q2}
  State = {s1, s2}
  StmtOf <- TwoStmtOf
  KindOf <- StringsAndPlain
  Finisher = {f1}
  Name = {n1}
  Text = {x, y}
  Hash <- SameHash
  NoName = NoName
  NoState = NoState
  Cap = 4
  ExactCap = 3
  MaxChunk = 4
  MaxSeq = 0
INVARIANTS PoolInv PoolBalanced OvershootBounded
PROPERTY SessionKeepsKind
CHECK_DEADLOCK FALSE
