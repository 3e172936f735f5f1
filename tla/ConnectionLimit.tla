--------------------------- MODULE ConnectionLimit ---------------------------
(***************************************************************************)
(* max_connections: what Connections promises of it, beside a history of   *)
(* the lines with which the code went wrong.  Processes are told apart by   *)
(* pid alone where server and pid are meant, and a snapshot's row by the    *)
(* pass that meets it, so three coincidences cost a line its limit.         *)
(***************************************************************************)
EXTENDS Connections

VARIABLE excused  \* the lines that met one of these coincidences

\* closeConnections counts a row it closes in two passes twice (streaming.php:448-455).
ClosesAgain(p) ==
  \E t \in worker'[p].done \ worker[p].done : \E d \in worker[p].done : d[2] = t[2]

\* It spares a row of another server whose worker has the requester's pid (streaming.php:452).
PassesOver(p) ==
  /\ Serves(p, "validate") /\ worker'[p].pc = "close"
  /\ \E r \in worker'[p].rows : r.pid = p[2] /\ r.server # p[1]

\* A request for a film takes over the row of one on another server, which goes
\* on naming that server (clients_movie.php).
TakesAbroad(p) ==
  /\ Serves(p, "open") /\ worker'[p].pc = "validate"
  /\ worker[p].con # NoRow /\ worker[p].con.server # p[1]

Excuses ==
  {Head(worker[p].checking) : p \in {q \in Worker : ClosesAgain(q) \/ PassesOver(q)}}
  \cup {UserOn(p) : p \in {q \in Worker : TakesAbroad(q)}}

LimitInit == Init /\ excused = {}
LimitNext == Next /\ excused' = excused \cup Excuses
LimitSpec == LimitInit /\ [][LimitNext]_<<vars, excused>>

\* max_connections under concurrent requests on all servers, with dying and recycled
\* workers: of the streams of a line that have their row there are never more than
\* it may have, unless the line met one of the coincidences.
LimitOnPlay == \A u \in User \ excused : WithinLimit(u)
=============================================================================
