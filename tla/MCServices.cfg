CONSTANTS
  Server = {s1, s2}
  Pid = {p1, p2}
  NoPid = NoPid
  Worker <- MCWorker
  Session = {t1, h1}
  NoSession = NoSession
  Hls = {h1}
  HomeOf <- MCHomeOf
  Limited = {t1}
  NoRec = NoRec
  s1 = s1
  s2 = s2
  p1 = p1
  p2 = p2
  t1 = t1
  h1 = h1
  Item = {i1, i2}
  Writer = {w1, w2}
  Batch = 2
  MaxVersion = 3
  Instance = {d1, d2, d3}
  MaxFaults = 3
  Reader = {r1, r2}
  MaxRuns = 2
  NoFile = NoFile
SPECIFICATION SFairSpec
INVARIANTS TypeOK IndexAgrees NoGhost OnlyOpenCounted FewSignals OneReceiver HealsItself
PROPERTIES PlayersListed HandledFirst CatchesUp DaemonBack NoLeftovers
CHECK_DEADLOCK FALSE
