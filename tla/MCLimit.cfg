\* Two servers with two workers each, and a line with a device on either, from two addresses of which the second
\* is refused when the first is registered.  After four requests the model stops.
CONSTANTS
  Server = {main, lb}
  Pid = {p1, p2}
  NoPid = NoPid
  User = {u2}
  NoUser = NoUser
  Session = {c2, c3}
  NoSession = NoSession
  NoRow = NoRow
  NoAgent = NoAgent
  Addr = {a1, a2}
  Agent = {g1}
  UserOf <- TwoUsers
  ContainerOf <- AllTS
  IpOf <- Apart
  AgentOf <- OneAgent
  HomeOf <- OneElsewhere
  MaxConn <- One
  PairOf <- NoPair
  OneIp = {u2}
  SignalBatch = 2
  MaxActivity = 3
  MaxSignals = 2
  MaxRequests = 4
  main = main
  lb = lb
  u1 = u1
  u2 = u2
  c1 = c1
  c2 = c2
  c3 = c3
  a1 = a1
  a2 = a2
  g1 = g1
SYMMETRY SymmetricPids
SPECIFICATION HSpec
INVARIANTS LimitOnPlay
PROPERTIES RequesterSurvives
CHECK_DEADLOCK FALSE
