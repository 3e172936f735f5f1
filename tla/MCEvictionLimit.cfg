\* Every snapshot of at most three rows: a row two passes match is counted twice.
CONSTANTS
  RowId <- MCRowId
  Pid = {p1, p2}
  NoPid = NoPid
  Addr <- MCAddr
  Agent = {g1}
  NoAgent = NoAgent
  a1 = a1
  a2 = a2
  g1 = g1
  g2 = g2
  MaxConn = 1
SPECIFICATION Spec
INVARIANT LimitReached
CHECK_DEADLOCK FALSE
