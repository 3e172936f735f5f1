---------------------------- MODULE EvictionScan ----------------------------
(***************************************************************************)
(* How closeConnections (includes/streaming.php) picks, from one snapshot  *)
(* of a line's rows of lines_live, the connections it closes: one pass     *)
(* over the snapshot per kill type, oldest row first, until enough calls   *)
(* of closeConnection have been made.  A row is not taken out of the       *)
(* snapshot when it is closed, so a later pass meets it again.             *)
(*                                                                         *)
(* A row is a record with at least the fields id (activity_id), pid, ip    *)
(* (user_ip) and agent (user_agent); the requester is a record with the    *)
(* fields pid, ip and agent.                                               *)
(***************************************************************************)
EXTENDS Naturals, FiniteSets

CONSTANT NoAgent     \* the empty User-Agent header

\* Definitions called ...Slip are plausible mistakes in the code, kept to show
\* that the properties notice them; no specification uses them.
\* Here: without the test of an empty $rUserAgent.
KillTypesSlip(requester) == {2, 1, 0}

KillTypes(requester) == IF requester.agent = NoAgent THEN {1, 0} ELSE {2, 1, 0}

\* A turn of the while loop: the row with the kill type of the pass.
Turns(rows, requester) == KillTypes(requester) \X rows

\* array(0, 1, 2) for array(2, 1, 0).
BeforeSlipPasses(t1, t2) == \/ t1[1] < t2[1]
                            \/ t1[1] = t2[1] /\ t1[2].id < t2[2].id

\* ORDER BY `activity_id` DESC.
BeforeSlipOrder(t1, t2) == \/ t1[1] > t2[1]
                           \/ t1[1] = t2[1] /\ t1[2].id > t2[2].id

\* The passes run 2, 1, 0, and each goes from the oldest activity_id up.
Before(t1, t2) == \/ t1[1] > t2[1]
                  \/ t1[1] = t2[1] /\ t1[2].id < t2[2].id

\* The turns that call closeConnection.
Closes(t, requester) ==
  /\ t[2].pid # requester.pid
  /\ \/ t[1] = 2 /\ t[2].ip = requester.ip /\ t[2].agent = requester.agent
     \/ t[1] = 1 /\ t[2].ip = requester.ip
     \/ t[1] = 0

\* One closing too many, as with $rKilled <= $rToKill in the loop.
ToKillSlipMore(rows, max) ==
  IF Cardinality(rows) > max THEN Cardinality(rows) - max + 1 ELSE 0

\* One closing too few, as with $rKilled + 1 < $rToKill.
ToKillSlipLess(rows, max) ==
  IF Cardinality(rows) > max THEN Cardinality(rows) - max - 1 ELSE 0

\* num_rows() - $rMaxConnections, 0 when closeConnections returns null.
ToKill(rows, max) == IF Cardinality(rows) > max THEN Cardinality(rows) - max ELSE 0

(***************************************************************************)
(* `done' holds the turns that have already closed a row.  The turns that  *)
(* may come next are those behind all of them, and the next one is the     *)
(* first of these.                                                         *)
(***************************************************************************)
Pending(rows, requester, done) ==
  {t \in Turns(rows, requester) : Closes(t, requester) /\ \A d \in done : Before(d, t)}

IsNext(t, rows, requester, done) ==
  /\ t \in Pending(rows, requester, done)
  /\ \A u \in Pending(rows, requester, done) : u = t \/ Before(t, u)
=============================================================================
