\* Two starts by the panel and a crash, a pid used again, with kill_rogue_ffmpeg.
CONSTANTS
  Pid = {p1, p2, p3, p4, p5, p6}
  NoPid = NoPid
  MinusOne = MinusOne
  OnDemand = FALSE
  KillRogue = TRUE
  FailureExit = FALSE
  IsMain = TRUE
  MaxClients = 0
  Faults <- Starting

SPECIFICATION HSpec

INVARIANTS
  OneMonitor

CONSTRAINT NotExcused

SYMMETRY Symmetry
