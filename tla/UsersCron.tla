------------------------------ MODULE UsersCron ------------------------------
(***************************************************************************)
(* Connections together with the cron users.php, which closes dead, stale  *)
(* and supernumerary connections once a minute.  In MySQL mode only the    *)
(* main server runs its body (users.php:140), over the rows of all         *)
(* servers.                                                                *)
(***************************************************************************)
EXTENDS Connections

CONSTANTS
  Main,       \* the server with is_main
  MayLapse    \* the lines that may expire, or become due for auto kick, while watching

ASSUME MainAssumption == Main \in Server /\ MayLapse \subseteq User

VARIABLES
  cron,    \* the run of users.php
  lapsed   \* the lines with exp_date in the past or due for auto kick

cronVars == <<lines_live, activity, worker, signals, taken, cron, lapsed>>

Idle == [pc |-> "off", rows |-> {}, lapsed |-> {}, left |-> {}, turns |-> {}, doomed |-> {}]

CInit == Init /\ cron = Idle /\ lapsed = {}

Lapse(u) ==
  /\ u \in MayLapse \ lapsed
  /\ lapsed' = lapsed \cup {u}
  /\ UNCHANGED <<lines_live, activity, worker, signals, taken, cron>>

\* getConnections: every row, joined with its line's exp_date.
CronSelect ==
  /\ cron.pc = "off"
  /\ cron' = [Idle EXCEPT !.pc = "users", !.rows = lines_live, !.lapsed = lapsed,
                          !.left = {r.user : r \in lines_live}]
  /\ UNCHANGED <<lines_live, activity, worker, signals, taken, lapsed>>

CronRows(u) == {r \in cron.rows : r.user = u}

\* Definitions called ...Slip are plausible mistakes in the code, kept to show
\* that the properties notice them; no specification uses them.
\* One row too few.
ExcessSlip(u) ==
  {r \in CronRows(u) :
     /\ MaxConn[u] > 0
     /\ Cardinality({s \in CronRows(u) : s.id < r.id}) + 1 < ToKill(CronRows(u), MaxConn[u])}

\* Every row counts as active, also one the first loop has just closed.
Excess(u) ==
  {r \in CronRows(u) :
     /\ MaxConn[u] > 0
     /\ Cardinality({s \in CronRows(u) : s.id < r.id}) < ToKill(CronRows(u), MaxConn[u])}

\* One line: the loop over its rows, then the loop over the oldest in excess.
CronUser(u) ==
  /\ cron.pc = "users"
  /\ u \in cron.left
  /\ cron' = [cron EXCEPT !.pc = "close", !.left = @ \ {u},
                          !.turns = ({1} \X CronRows(u)) \cup ({2} \X Excess(u))]
  /\ UNCHANGED <<lines_live, activity, worker, signals, taken, lapsed>>

FirstTurn(t) ==
  \A u \in cron.turns \ {t} : t[1] < u[1] \/ (t[1] = u[1] /\ t[2].id < u[2].id)

\* Without the test that the worker is gone.
ReapsSlip(r) ==
  /\ r.server = Main
  /\ \/ r.user \in cron.lapsed
     \/ r.container = "hls" /\ r.stale

\* Without the test of hls_last_read.
ReapsSlipStale(r) ==
  /\ r.server = Main
  /\ \/ r.user \in cron.lapsed
     \/ r.container = "ts" /\ Named(Main, r.pid) = {}

\* Without the test of exp_date.
ReapsSlipExpired(r) ==
  /\ r.server = Main
  /\ \/ r.container = "hls" /\ r.stale
     \/ r.container = "ts" /\ Named(Main, r.pid) = {}

\* What the first loop closes: rows of this server only.
Reaps(r) ==
  /\ r.server = Main
  /\ \/ r.user \in cron.lapsed
     \/ r.container = "hls" /\ r.stale
     \/ r.container = "ts" /\ Named(Main, r.pid) = {}

CronClose ==
  /\ cron.pc = "close"
  /\ \E t \in cron.turns :
       /\ FirstTurn(t)
       /\ t[1] = 2 \/ Reaps(t[2])
       /\ KillOnly(Victims(Main, t[2]))
       /\ SignalFor(Main, t[2])
       /\ cron' = [cron EXCEPT !.turns = @ \ {t}, !.doomed = @ \cup {t[2].uuid}]
  /\ UNCHANGED <<lines_live, activity, taken, lapsed>>

CronKeep ==
  /\ cron.pc = "close"
  /\ \E t \in cron.turns :
       /\ FirstTurn(t)
       /\ t[1] = 1 /\ ~Reaps(t[2])
       /\ cron' = [cron EXCEPT !.turns = @ \ {t}]
  /\ UNCHANGED <<lines_live, activity, worker, signals, taken, lapsed>>

\* processDeletions returns what it was given, not array().
CronDeleteSlip ==
  /\ cron.pc = "close"
  /\ cron.turns = {}
  /\ lines_live' = {r \in lines_live : r.uuid \notin cron.doomed}
  /\ cron' = [cron EXCEPT !.pc = "users"]
  /\ UNCHANGED <<activity, worker, signals, taken, lapsed>>

\* processDeletions: by uuid, whatever has become of the row since.
CronDelete ==
  /\ cron.pc = "close"
  /\ cron.turns = {}
  /\ lines_live' = {r \in lines_live : r.uuid \notin cron.doomed}
  /\ cron' = [cron EXCEPT !.pc = "users", !.doomed = {}]
  /\ UNCHANGED <<activity, worker, signals, taken, lapsed>>

CronEnd ==
  /\ cron.pc = "users"
  /\ cron.left = {}
  /\ cron' = Idle
  /\ UNCHANGED <<lines_live, activity, worker, signals, taken, lapsed>>

Cron == \/ CronSelect \/ (\E u \in User : CronUser(u))
        \/ CronClose \/ CronKeep \/ CronDelete \/ CronEnd

Elsewhere == Next /\ UNCHANGED <<cron, lapsed>>

CNext == Elsewhere \/ Cron \/ \E u \in User : Lapse(u)

CSpec == CInit /\ [][CNext]_cronVars

\* The fairness of Connections, and the cron is started every minute.
CFairSpec ==
  /\ CSpec
  /\ \A p \in Worker : /\ WF_cronVars(Request(p) /\ UNCHANGED <<cron, lapsed>>)
                       /\ WF_cronVars(Recheck(p) /\ UNCHANGED <<cron, lapsed>>)
  /\ \A s \in Server : WF_cronVars(Daemon(s) /\ UNCHANGED <<cron, lapsed>>)
  /\ WF_cronVars(Cron)

-----------------------------------------------------------------------------
(* Properties                                                              *)

CTypeOK ==
  /\ TypeOK
  /\ cron \in [pc : {"off", "users", "close"}, rows : SUBSET Row, lapsed : SUBSET User,
               left : SUBSET User, turns : SUBSET ({1, 2} \X Row), doomed : SUBSET Session]
  /\ cron.pc # "close" => cron.turns = {} /\ cron.doomed = {}
  /\ cron.lapsed \subseteq lapsed
  /\ lapsed \subseteq User

\* Once the viewers stop sending requests, the checks every 300 seconds, the
\* cron and the signals bring every line within max_connections for good,
\* whatever closeConnections missed and whichever workers died.
SettlesWithinLimit ==
  <>[]Quiet => <>[](\A u \in User : MaxConn[u] > 0 => Cardinality(Players(u)) <= MaxConn[u])

\* A line that expires while it is watched on the main server loses its
\* streams there, once its viewers send no new requests.
LapsedCut ==
  <>[]Quiet => <>[](\A p \in Worker :
     p[1] = Main /\ Serves(p, "play") => UserOn(p) \notin lapsed)

\* An HLS viewer of the main server that stops asking for playlists loses its
\* row, although nothing else ends an HLS connection in this mode.
StaleReaped ==
  \A i \in 1..MaxActivity :
     []<>~(\E r \in lines_live : r.id = i /\ r.server = Main /\ r.container = "hls" /\ r.stale)

\* A process of the main server that is gone for good leaves no row behind,
\* although no worker removes its own row: users.php reaps it.
DeadReaped ==
  \A p \in Worker : p[1] = Main =>
     (<>[]~Alive(p) => <>[](\A r \in lines_live :
        ~(r.container = "ts" /\ r.server = Main /\ r.pid = p[2])))
=============================================================================
