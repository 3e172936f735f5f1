----------------------------- MODULE StreamStarts -----------------------------
(***************************************************************************)
(* StreamMonitor with the history of the monitors that have taken over a   *)
(* running encoder.  Such a monitor does not write <id>_.monitor           *)
(* (monitor.php:74-91), so the file goes on naming its predecessor and     *)
(* checkRunning of a later start does not see it.                          *)
(***************************************************************************)
EXTENDS StreamMonitor

VARIABLES
  takers,   \* the monitors at work that took over an encoder and are not named by the file
  excused   \* a start has met one of them

HInit == Init /\ takers = {} /\ excused = FALSE

TakesOver(p) == mon[p].pc = "adopt" /\ mon'[p].pc = "watch" /\ Running(mon[p].enc)
Starts(p) == proc[p] # "boot" /\ proc'[p] = "boot"

HNext ==
  /\ Next
  /\ takers' = {p \in Monitors' : (p \in takers \/ TakesOver(p)) /\ monitorFile' \notin {p, NoPid}}
  /\ excused' = (excused \/ (takers # {} /\ \E p \in Pid : Starts(p)))

HSpec == HInit /\ [][HNext]_<<vars, takers, excused>>

\* Two monitors of a stream would each start an encoder and undo the other's
\* work: a new one kills its predecessor (checkRunning) before it registers.  The
\* only monitor that survives a start is one that has taken over an encoder.
OneMonitor == ~excused => \A p, q \in Monitors : p = q
=============================================================================
