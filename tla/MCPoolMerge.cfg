SPECIFICATION Spec
CONSTANTS
  q1 = q1  q2 = q2  s1 = s1  s2 = s2  f1 = f1  n1 = n1  n2 = n2  x = x  y = y
  Stmt = {q1}
  State = {s1, s2}
  StmtOf <- PairStmtOf
  KindOf <- StringsKind
  Finisher = {f1}
  Name = {n1, n2}
  Text = {x}
  Hash <- OneHash
  NoName = NoName
  NoState = NoState
  Cap = 3
  ExactCap = 3
  MaxChunk = 1
  MaxSeq = 1
INVARIANTS PoolInv PoolBalanced OneName SeqIsOldest
CHECK_DEADLOCK FALSE
