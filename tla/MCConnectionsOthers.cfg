\* Two lines on one server, and workers whose pids are used again.
CONSTANTS
  Server = {main}
  Pid = {p1, p2}
  NoPid = NoPid
  User = {u1, u2}
  NoUser = NoUser
  Session = {c1, c2}
  NoSession = NoSession
  NoRow = NoRow
  NoAgent = NoAgent
  Addr = {a1}
  Agent = {g1}
  UserOf <- TwoUsers
  ContainerOf <- AllTS
  IpOf <- Together
  AgentOf <- OneAgent
  HomeOf <- AllMain
  MaxConn <- One
  PairOf <- NoPair
  OneIp = {}
  SignalBatch = 2
  MaxActivity = 4
  MaxSignals = 2
  main = main
  lb = lb
  u1 = u1
  u2 = u2
  c1 = c1
  c2 = c2
  c3 = c3
  a1 = a1
  a2 = a2
  g1 = g1
SPECIFICATION Spec
PROPERTIES OnlyOwnStreamsClosed
