\* Three logs, up to three instances of two crons at once, two entries.
CONSTANTS
  Pid = {p1, p2, p3}
  NoPid = NoPid
  Cron = {"ship", "tmp"}
  Unlinks = {"ship"}
  Troubles <- SomeTrouble
  MaxTroubles = 2
  MaxEntry = 2
  Log = {"activity", "requests", "errors"}

SPECIFICATION FairSpec

INVARIANTS
  TypeOK
  OneAtWork

PROPERTIES
  KeepsBook
  OldestNotLost
  NeverBlocked
