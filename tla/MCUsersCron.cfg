\* Two devices of one line at two addresses, on the main server and on a load balancer; second addresses are refused.
CONSTANTS
  Server = {main, lb}
  Pid = {p1}
  NoPid = NoPid
  User = {u1}
  NoUser = NoUser
  Session = {c1, c2}
  NoSession = NoSession
  NoRow = NoRow
  NoAgent = NoAgent
  Addr = {a1, a2}
  Agent = {g1}
  UserOf <- OneUser
  ContainerOf <- AllTS
  IpOf <- Apart
  AgentOf <- OneAgent
  HomeOf <- Spread
  MaxConn <- One
  PairOf <- NoPair
  OneIp = {u1}
  SignalBatch = 2
  MaxActivity = 3
  MaxSignals = 2
  Main = main
  MayLapse = {}
  main = main
  lb = lb
  u1 = u1
  c1 = c1
  c2 = c2
  a1 = a1
  a2 = a2
  g1 = g1
SPECIFICATION CFairSpec
PROPERTIES SettlesWithinLimit DeadReaped
