\* A live and an HLS viewer of an unlimited line that may expire; the live session may be opened twice.
CONSTANTS
  Server = {main}
  Pid = {p1, p2}
  NoPid = NoPid
  User = {u1}
  NoUser = NoUser
  Session = {c1, c2}
  NoSession = NoSession
  NoRow = NoRow
  NoAgent = NoAgent
  Addr = {a1}
  Agent = {g1}
  UserOf <- OneUser
  ContainerOf <- LiveAndHls
  IpOf <- Together
  AgentOf <- OneAgent
  HomeOf <- AllMain
  MaxConn <- Unlimited
  PairOf <- NoPair
  OneIp = {}
  SignalBatch = 2
  MaxActivity = 2
  MaxSignals = 2
  Main = main
  MayLapse = {u1}
  main = main
  lb = lb
  u1 = u1
  c1 = c1
  c2 = c2
  a1 = a1
  a2 = a2
  g1 = g1
SPECIFICATION CFairSpec
INVARIANT CTypeOK
PROPERTIES StaleReaped LapsedCut SettlesOnePlayer
