\* Every snapshot of at most four rows of a line that may hold one connection.
CONSTANTS
  RowId <- MCRowId4
  Pid = {p1, p2}
  NoPid = NoPid
  Addr <- MCAddr
  Agent = {g1}
  NoAgent = NoAgent
  a1 = a1
  a2 = a2
  g1 = g1
  g2 = g2
  MaxConn = 1
SPECIFICATION Spec
INVARIANTS TypeOK NeverBelowAllowance OwnAddressFirst OldestFirst LimitUnlessRepeated
CHECK_DEADLOCK FALSE
