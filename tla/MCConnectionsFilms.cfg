\* Two servers and two paired lines: one with an HLS viewer, whose requests count the other's two films too,
\* one on each server.  Not more than two workers live at a time.
CONSTANTS
  Server = {main, lb}
  Pid = {p1, p2}
  NoPid = NoPid
  User = {u1, u2}
  NoUser = NoUser
  Session = {c1, c2, c3}
  NoSession = NoSession
  NoRow = NoRow
  NoAgent = NoAgent
  Addr = {a1, a2}
  Agent = {g1}
  UserOf <- TwoUsers
  ContainerOf <- FilmsAndHls
  IpOf <- Apart
  AgentOf <- OneAgent
  HomeOf <- OneElsewhere
  MaxConn <- One
  PairOf <- Paired
  OneIp = {u1, u2}
  SignalBatch = 2
  MaxActivity = 2
  MaxSignals = 1
  main = main
  lb = lb
  u1 = u1
  u2 = u2
  c1 = c1
  c2 = c2
  c3 = c3
  a1 = a1
  a2 = a2
  g1 = g1
SYMMETRY SymmetricPids
SPECIFICATION Spec
INVARIANTS TypeOK
PROPERTIES RequesterSurvives
CONSTRAINT FewAlive
