\* An on-demand stream of the main server: two starts by viewers, or one and a stop by the
\* panel, with a crash; a start and a stop by the panel and one by a viewer; a pid that is used
\* again or that another row holds.
CONSTANTS
  Pid = {p1, p2, p3, p4, p5}
  NoPid = NoPid
  MinusOne = MinusOne
  OnDemand = TRUE
  KillRogue = FALSE
  FailureExit = TRUE
  IsMain = TRUE
  MaxClients = 1
  Faults <- Viewed

SPECIFICATION FairSpec

PROPERTIES
  OffAir
  StopsForGood
