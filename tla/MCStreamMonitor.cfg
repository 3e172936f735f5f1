\* An always-on stream: a start, a crash or restart of the service, a trouble, a start
\* beside a monitor the file does not name, and a source that fails and comes back.
CONSTANTS
  Pid = {p1, p2, p3, p4, p5}
  NoPid = NoPid
  MinusOne = MinusOne
  OnDemand = FALSE
  KillRogue = FALSE
  FailureExit = FALSE
  IsMain = TRUE
  MaxClients = 0
  Faults <- AlwaysOn

SPECIFICATION FairSpec

INVARIANTS
  TypeOK

PROPERTIES
  Revived
  StaysListed
  Seamless
