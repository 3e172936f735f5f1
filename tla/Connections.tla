----------------------------- MODULE Connections -----------------------------
(***************************************************************************)
(* The connections of the viewers, with the table lines_live in MySQL      *)
(* (setting redis_handler off): the php-fpm workers that run live.php and  *)
(* clients_movie.php on every server, closeConnections/closeConnection     *)
(* (streaming.php), and the daemon signals.php of every server.  Module     *)
(* UsersCron adds the cron users.php of the main server.                   *)
(*                                                                         *)
(* In this mode no reachable statement sets hls_end to 1: live.php:479 and *)
(* clients_movie.php:273 run after close_mysql, when query() returns       *)
(* without asking the database (pdo.php:111), closeConnection is never     *)
(* called with $rRemove = false and $rEnd = true, and timeshift.php stops  *)
(* at line 12, where it calls a function that does not exist.  A row is    *)
(* therefore open exactly while it is in the table, and the model has no   *)
(* hls_end.                                                                *)
(***************************************************************************)
EXTENDS EvictionScan, Sequences

CONSTANTS
  Server,              \* the servers
  Pid, NoPid,          \* pids of php-fpm workers; the NULL pid of an HLS row
  User, NoUser,        \* the lines
  Session, NoSession,  \* uuids of play tokens
  NoRow,               \* a SELECT that found nothing
  Addr, Agent,         \* client addresses and User-Agent headers
  UserOf,              \* the line of a session
  ContainerOf,         \* "ts", "hls" or "VOD"
  IpOf, AgentOf,       \* the viewer's address and User-Agent
  HomeOf,              \* the server the token sends the viewer to
  MaxConn,             \* max_connections of a line, 0 for no limit
  PairOf,              \* pair_id of a line
  OneIp,               \* the lines disallow_2nd_ip_con applies to
  SignalBatch,         \* LIMIT of the daemon's query, 100 in the code
  MaxActivity,         \* bound of the model: rows ever inserted
  MaxSignals           \* bound of the model: signals waiting for a server

ASSUME NullAssumption == /\ NoPid \notin Pid /\ NoUser \notin User
                         /\ NoSession \notin Session
ASSUME SessionAssumption ==
  /\ UserOf \in [Session -> User]
  /\ ContainerOf \in [Session -> {"ts", "hls", "VOD"}]
  /\ IpOf \in [Session -> Addr]
  /\ AgentOf \in [Session -> Agent \cup {NoAgent}]
  /\ HomeOf \in [Session -> Server]
ASSUME LineAssumption ==
  /\ MaxConn \in [User -> Nat]
  /\ PairOf \in [User -> User \cup {NoUser}]
  /\ OneIp \subseteq {u \in User : MaxConn[u] > 0}
ASSUME BoundAssumption ==
  /\ SignalBatch \in Nat \ {0} /\ MaxActivity \in Nat /\ MaxSignals \in Nat

VARIABLES
  lines_live,  \* the rows of the table
  activity,    \* the next AUTO_INCREMENT value of activity_id
  worker,      \* the php-fpm worker behind a pid of a server
  signals,     \* per server: the pids of the rows of table signals, oldest first
  taken        \* per server: how many of them the daemon has acted upon

vars == <<lines_live, activity, worker, signals, taken>>

Worker == Server \X Pid

Row == [id : 1..MaxActivity, uuid : Session, user : User, server : Server,
        container : {"ts", "hls", "VOD"}, pid : Pid \cup {NoPid},
        ip : Addr, agent : Agent \cup {NoAgent}, stale : BOOLEAN]

\* stale: hls_last_read is 30 seconds old or more.

-----------------------------------------------------------------------------
(* Workers                                                                 *)

Blank(pc) == [pc |-> pc, session |-> NoSession, con |-> NoRow,
              checking |-> <<>>, rows |-> {}, done |-> {}]

Alive(p) == worker[p].pc # "dead"
Busy(p) == worker[p].pc \notin {"dead", "idle"}
Serves(p, pc) == worker[p].pc = pc

UserOn(p) == UserOf[worker[p].session]
Kind(p) == ContainerOf[worker[p].session]

\* The requester as closeConnections sees it: getmypid(), getUserIP(), agent.
Requester(p) == [pid |-> p[2], ip |-> IpOf[worker[p].session],
                 agent |-> AgentOf[worker[p].session]]

\* p goes on as w while kill -9 hits the victims.
Step(p, w, victims) ==
  worker' = [q \in Worker |-> IF q \in victims THEN Blank("dead")
                              ELSE IF q = p THEN w ELSE worker[q]]

KillOnly(victims) ==
  worker' = [q \in Worker |-> IF q \in victims THEN Blank("dead") ELSE worker[q]]

At(p, pc) == [worker[p] EXCEPT !.pc = pc]

\* The workers of a server a row's pid stands for, if a process has it.
Named(s, pid) == {q \in Worker : q[1] = s /\ q[2] = pid /\ Alive(q)}

Signal(s, pid) ==
  /\ Len(signals[s]) < MaxSignals
  /\ signals' = [signals EXCEPT ![s] = Append(@, pid)]

RowsOfUser(u) == {r \in lines_live : r.user = u}

NewRow(u, pid) ==
  [id |-> activity, uuid |-> u, user |-> UserOf[u], server |-> HomeOf[u],
   container |-> ContainerOf[u], pid |-> pid, ip |-> IpOf[u],
   agent |-> AgentOf[u], stale |-> FALSE]

Init ==
  /\ lines_live = {}
  /\ activity = 1
  /\ worker = [p \in Worker |-> Blank("dead")]
  /\ signals = [s \in Server |-> <<>>]
  /\ taken = [s \in Server |-> 0]

\* pm = ondemand: php-fpm ends a worker that has been idle for 3 seconds.
IdleExit(p) ==
  /\ Serves(p, "idle")
  /\ Step(p, Blank("dead"), {})
  /\ UNCHANGED <<lines_live, activity, signals, taken>>

\* The process dies in the middle of a request.
Crash(p) ==
  /\ Busy(p)
  /\ Step(p, Blank("dead"), {})
  /\ UNCHANGED <<lines_live, activity, signals, taken>>

\* live.php asks, unless the setting does not apply; clients_movie.php does not.
Checks2ndIp(u) == ContainerOf[u] # "VOD" /\ UserOf[u] \in OneIp

\* A request with a valid token reaches the script, in an idle worker or in one
\* php-fpm forks for it, whose pid may have belonged to another worker before.
Accept(p, u) ==
  /\ ~Busy(p)
  /\ HomeOf[u] = p[1]
  /\ Step(p, [Blank(IF Checks2ndIp(u) THEN "ip check" ELSE "lookup") EXCEPT !.session = u], {})
  /\ UNCHANGED <<lines_live, activity, signals, taken>>

\* disallow_2nd_ip_con: the line's newest row must be of the same address.
SecondIp(p) ==
  \E r \in RowsOfUser(UserOn(p)) :
    /\ \A s \in RowsOfUser(UserOn(p)) : s.id <= r.id
    /\ r.ip # IpOf[worker[p].session]

CheckIp(p) ==
  /\ Serves(p, "ip check")
  /\ Step(p, IF SecondIp(p) THEN Blank("idle") ELSE At(p, "lookup"), {})
  /\ UNCHANGED <<lines_live, activity, signals, taken>>

\* The row a request belongs to.  A film is looked up by its uuid alone and,
\* for a range request, by line and User-Agent (all films are one stream).
OfSession(p) ==
  {r \in lines_live : /\ r.uuid = worker[p].session
                      /\ Kind(p) = "VOD" \/ r.server = p[1]}

OfViewer(p) ==
  {r \in lines_live : /\ Kind(p) = "VOD" /\ r.container = "VOD"
                      /\ r.user = UserOn(p) /\ r.agent = AgentOf[worker[p].session]}

Lookup(p) ==
  /\ Serves(p, "lookup")
  /\ \E con \in IF OfSession(p) # {} THEN OfSession(p) ELSE OfViewer(p) \cup {NoRow} :
       Step(p, [At(p, "open") EXCEPT !.con = con], {})
  /\ UNCHANGED <<lines_live, activity, signals, taken>>

\* TOKEN_EXPIRED for a new connection; for a film also IP_MISMATCH, which
\* restrict_same_ip raises even when the address is the same.
Refuse(p) ==
  /\ Serves(p, "open")
  /\ worker[p].con = NoRow \/ Kind(p) = "VOD"
  /\ Step(p, Blank("idle"), {})
  /\ UNCHANGED <<lines_live, activity, signals, taken>>

\* validateConnections: the pair's connections first, then the line's own.
ToCheck(p) ==
  IF MaxConn[UserOn(p)] = 0 THEN <<>>
  ELSE IF PairOf[UserOn(p)] = NoUser THEN <<UserOn(p)>>
  ELSE <<PairOf[UserOn(p)], UserOn(p)>>

Opened(p) == [At(p, "validate") EXCEPT !.con = NoRow, !.checking = ToCheck(p)]

Insert(p) ==
  /\ Serves(p, "open")
  /\ worker[p].con = NoRow
  /\ activity <= MaxActivity
  /\ lines_live' = lines_live \cup
       {NewRow(worker[p].session, IF Kind(p) = "hls" THEN NoPid ELSE p[2])}
  /\ activity' = activity + 1
  /\ Step(p, Opened(p), {})
  /\ UNCHANGED <<signals, taken>>

\* UPDATE ... WHERE activity_id = ?, which finds nothing if the row is gone.
Updated(p, r) ==
  IF r.id # worker[p].con.id THEN r
  ELSE IF Kind(p) = "hls" THEN [r EXCEPT !.stale = FALSE, !.server = p[1]]
  ELSE [r EXCEPT !.pid = p[2], !.stale = IF Kind(p) = "ts" THEN FALSE ELSE @]

\* Definitions called ...Slip are plausible mistakes in the code, kept to show
\* that the properties notice them; no specification uses them.
PredecessorSlip(p) == Named(p[1], worker[p].con.pid)

\* The worker the row still names, unless it is this one.
Predecessor(p) == Named(p[1], worker[p].con.pid) \ {p}

\* A reconnecting viewer: kill the worker that served the row, and take it.
TakeOver(p) ==
  /\ Serves(p, "open")
  /\ worker[p].con # NoRow
  /\ LET con == worker[p].con
         elsewhere == Kind(p) = "VOD" /\ con.server # p[1] /\ Predecessor(p) # {}
     IN  /\ Step(p, Opened(p), IF Kind(p) = "hls" \/ elsewhere THEN {} ELSE Predecessor(p))
         /\ IF elsewhere THEN Signal(con.server, con.pid) ELSE UNCHANGED signals
  /\ lines_live' = {Updated(p, r) : r \in lines_live}
  /\ UNCHANGED <<activity, taken>>

-----------------------------------------------------------------------------
(* validateConnections                                                     *)

Checked(p) == [At(p, "validate") EXCEPT !.checking = Tail(@), !.rows = {}, !.done = {}]

\* The SELECT of closeConnections; MaxConn is the requester's, also for a pair.
Count(p) ==
  /\ Serves(p, "validate")
  /\ worker[p].checking # <<>>
  /\ LET rows == RowsOfUser(Head(worker[p].checking))
     IN  IF ToKill(rows, MaxConn[UserOn(p)]) = 0
         THEN Step(p, Checked(p), {})
         ELSE Step(p, [At(p, "close") EXCEPT !.rows = rows], {})
  /\ UNCHANGED <<lines_live, activity, signals, taken>>

\* closeConnection on server s: kill the worker of a row of this server, leave
\* a signal for the server of another row, do nothing for an HLS row.
Victims(s, r) == IF r.container # "hls" /\ r.server = s THEN Named(s, r.pid) ELSE {}

SignalFor(s, r) ==
  IF r.container # "hls" /\ r.server # s THEN Signal(r.server, r.pid) ELSE UNCHANGED signals

More(p) ==
  /\ Cardinality(worker[p].done) < ToKill(worker[p].rows, MaxConn[UserOn(p)])
  /\ Pending(worker[p].rows, Requester(p), worker[p].done) # {}

CloseNext(p) ==
  /\ Serves(p, "close")
  /\ More(p)
  /\ \E t \in Turns(worker[p].rows, Requester(p)) :
       /\ IsNext(t, worker[p].rows, Requester(p), worker[p].done)
       /\ Step(p, [worker[p] EXCEPT !.done = @ \cup {t}], Victims(p[1], t[2]))
       /\ SignalFor(p[1], t[2])
       /\ lines_live' = {r \in lines_live : r.id # t[2].id}
  /\ UNCHANGED <<activity, taken>>

CloseDone(p) ==
  /\ Serves(p, "close")
  /\ ~More(p)
  /\ Step(p, Checked(p), {})
  /\ UNCHANGED <<lines_live, activity, signals, taken>>

-----------------------------------------------------------------------------
(* Playing                                                                 *)

\* An HLS request sends its playlist and ends; the others go on streaming.
Serve(p) ==
  /\ Serves(p, "validate")
  /\ worker[p].checking = <<>>
  /\ Step(p, IF Kind(p) = "hls" THEN Blank("idle") ELSE At(p, "play"), {})
  /\ UNCHANGED <<lines_live, activity, signals, taken>>

\* Without comparing the pid.
RegisteredSlip(p) == \E r \in lines_live : r.uuid = worker[p].session

\* The worker's session has one row, and it names this worker.
Registered(p) ==
  \E r \in lines_live :
     /\ r.pid = p[2]
     /\ {s \in lines_live : s.uuid = worker[p].session} = {r}

\* Every 300 seconds: the stream ends unless the row is as the worker left it.
\* clients_movie.php asks on its closed handle and always ends.
Recheck(p) ==
  /\ Serves(p, "play")
  /\ Kind(p) = "VOD" \/ ~Registered(p)
  /\ Step(p, Blank("idle"), {})
  /\ UNCHANGED <<lines_live, activity, signals, taken>>

\* The viewer goes or the stream ends: shutdown() writes nothing, see above.
Leave(p) ==
  /\ Serves(p, "play")
  /\ Step(p, Blank("idle"), {})
  /\ UNCHANGED <<lines_live, activity, signals, taken>>

\* 30 seconds without a playlist request.
GoStale(r) ==
  /\ r.container = "hls" /\ ~r.stale
  /\ lines_live' = (lines_live \ {r}) \cup {[r EXCEPT !.stale = TRUE]}
  /\ UNCHANGED <<activity, worker, signals, taken>>

-----------------------------------------------------------------------------
(* signals.php: the pid signals of one server                              *)

SignalKill(s) ==
  /\ taken[s] = 0
  /\ signals[s] # <<>>
  /\ LET n == IF Len(signals[s]) < SignalBatch THEN Len(signals[s]) ELSE SignalBatch
     IN  /\ taken' = [taken EXCEPT ![s] = n]
         /\ KillOnly(UNION {Named(s, signals[s][i]) : i \in 1..n})
  /\ UNCHANGED <<lines_live, activity, signals>>

\* The list of acted-upon signals is not emptied with the DELETE.
SignalDeleteSlip(s) ==
  /\ taken[s] > 0
  /\ signals' = [signals EXCEPT ![s] = SubSeq(@, taken[s] + 1, Len(@))]
  /\ UNCHANGED <<lines_live, activity, worker, taken>>

SignalDelete(s) ==
  /\ taken[s] > 0
  /\ signals' = [signals EXCEPT ![s] = SubSeq(@, taken[s] + 1, Len(@))]
  /\ taken' = [taken EXCEPT ![s] = 0]
  /\ UNCHANGED <<lines_live, activity, worker>>

\* The daemon is restarted between its kills and its DELETE.
SignalRestart(s) ==
  /\ taken[s] > 0
  /\ taken' = [taken EXCEPT ![s] = 0]
  /\ UNCHANGED <<lines_live, activity, worker, signals>>

-----------------------------------------------------------------------------

Request(p) ==
  \/ CheckIp(p) \/ Lookup(p) \/ Refuse(p) \/ Insert(p) \/ TakeOver(p)
  \/ Count(p) \/ CloseNext(p) \/ CloseDone(p) \/ Serve(p)

Daemon(s) == SignalKill(s) \/ SignalDelete(s)

Next ==
  \/ \E p \in Worker : \/ IdleExit(p) \/ Crash(p)
                       \/ \E u \in Session : Accept(p, u)
                       \/ Request(p) \/ Recheck(p) \/ Leave(p)
  \/ \E r \in lines_live : GoStale(r)
  \/ \E s \in Server : Daemon(s) \/ SignalRestart(s)

Spec == Init /\ [][Next]_vars

(***************************************************************************)
(* A request that has started goes on, a stream comes to its next check,   *)
(* and the daemon starts itself again after every pass (signals.php:89).   *)
(* Nobody has to open, close or repeat a request, and no worker has to die. *)
(***************************************************************************)
Fairness ==
  /\ \A p \in Worker : WF_vars(Request(p)) /\ WF_vars(Recheck(p))
  /\ \A s \in Server : WF_vars(Daemon(s))

FairSpec == Spec /\ Fairness

-----------------------------------------------------------------------------
(* Properties                                                              *)

TypeOK ==
  /\ lines_live \subseteq Row
  /\ activity \in 1..(MaxActivity + 1)
  /\ worker \in [Worker ->
       [pc : {"dead", "idle", "ip check", "lookup", "open", "validate", "close", "play"},
        session : Session \cup {NoSession}, con : Row \cup {NoRow},
        checking : Seq(User), rows : SUBSET Row, done : SUBSET ({0, 1, 2} \X Row)]]
  /\ \A p \in Worker : Busy(p) => worker[p].session \in Session /\ HomeOf[worker[p].session] = p[1]
  /\ signals \in [Server -> Seq(Pid)]
  /\ taken \in [Server -> Nat]
  /\ \A s \in Server : taken[s] <= Len(signals[s])

Players(u) == {p \in Worker : Serves(p, "play") /\ UserOn(p) = u}

\* Of the streams of a line that passed validateConnections and still hold
\* their row, there are no more than the line may have.
WithinLimit(u) ==
  MaxConn[u] > 0 => Cardinality({p \in Players(u) : Registered(p)}) <= MaxConn[u]

\* A worker never kills itself, although rows it left behind in an earlier
\* request, or rows of another server, may carry its own pid (the getmypid()
\* tests of live.php, clients_movie.php and streaming.php).
RequesterSurvives ==
  [][\A p \in Worker : Busy(p) /\ worker'[p].pc = "dead" => ~Request(p)]_vars

\* "Closes active connections for a user": validateConnections of one line
\* never ends the stream of another line.
OnlyOwnStreamsClosed ==
  [][\A p, q \in Worker :
       Serves(q, "play") /\ worker'[q].pc = "dead" /\ CloseNext(p)
         => UserOn(q) \in {UserOn(p), PairOf[UserOn(p)]}]_vars

\* No request is between its first line and its stream.
Quiet == \A p \in Worker : worker[p].pc \in {"dead", "idle", "play"}

\* Once the viewers stop sending requests, the check every 300 seconds leaves
\* at most one worker streaming each session, although two requests with the
\* same token may both have found the same row, or no row.
SettlesOnePlayer ==
  <>[]Quiet => <>[](\A p, q \in Worker :
     Serves(p, "play") /\ Serves(q, "play") /\ worker[p].session = worker[q].session => p = q)
=============================================================================
