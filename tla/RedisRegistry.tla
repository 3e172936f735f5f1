---------------------------- MODULE RedisRegistry ----------------------------
(***************************************************************************)
(* The connections of the viewers with the setting redis_handler on: the   *)
(* record of a connection under its uuid, and the indexes LIVE, ENDED,     *)
(* SERVER# and SERVER_LINES#, which createConnection and updateConnection  *)
(* (streaming.php) change together with it in one MULTI; and the workers   *)
(* that run live.php.  A worker reads the record first and later writes    *)
(* the whole of it back, so its picture of it may be stale.                *)
(*                                                                         *)
(* LINE# and STREAM# change whenever LIVE does and are left out; LINE_ALL# *)
(* and CONNECTIONS only grow.  users.php does not clean up in this mode    *)
(* (line 140), and closeConnections closes nothing, see Validate.  Its     *)
(* call with an argument, which moves the rows of lines_live to Redis when *)
(* the panel switches to this mode, is left out.                           *)
(***************************************************************************)
EXTENDS Naturals, FiniteSets

CONSTANTS
  Server,   \* the servers
  Pid,      \* pids
  NoPid,    \* the NULL pid of an HLS record
  Worker,   \* the php-fpm workers: a server and a pid
  Session,  \* uuids of play tokens
  NoSession,
  Hls,      \* those of HLS; an adaptive token is good on every server
  HomeOf,   \* the server a token of another kind is for
  Limited,  \* those of lines with max_connections
  NoRec     \* no value under the key

ASSUME WorkerAssumption == Worker \subseteq Server \X Pid
ASSUME SessionAssumption ==
  /\ Hls \subseteq Session /\ Limited \subseteq Session /\ NoSession \notin Session
  /\ HomeOf \in [Session -> Server]

Rec == [server : Server, pid : Pid \cup {NoPid}, ended : BOOLEAN]

ASSUME RecordAssumption == NoRec \notin Rec

VARIABLES
  rec,           \* the value under each uuid: server_id, pid and hls_end = 1
  live,          \* LIVE
  ended,         \* ENDED
  on_server,     \* per server: SERVER#
  server_lines,  \* per server: SERVER_LINES#
  worker,        \* the php-fpm worker behind a pid of a server
  orphaned       \* sessions of which a worker ended without its shutdown handler's work

registry == <<rec, live, ended, on_server, server_lines>>
vars == <<registry, worker, orphaned>>

Blank(pc) == [pc |-> pc, session |-> NoSession, con |-> NoRec]
Busy(p) == worker[p].pc \notin {"dead", "idle"}
Serves(p, pc) == worker[p].pc = pc
Open(u) == rec[u] # NoRec /\ ~rec[u].ended

Init ==
  /\ rec = [u \in Session |-> NoRec]
  /\ live = {} /\ ended = {}
  /\ on_server = [s \in Server |-> {}]
  /\ server_lines = [s \in Server |-> {}]
  /\ worker = [p \in Worker |-> Blank("dead")]
  /\ orphaned = {}

Goto(p, w) == worker' = [worker EXCEPT ![p] = w]
At(p, pc) == [worker[p] EXCEPT !.pc = pc]

-----------------------------------------------------------------------------
(* createConnection, updateConnection: one MULTI each                      *)

With(index, s, u) == [index EXCEPT ![s] = @ \cup {u}]
Without(index, s, u) == [index EXCEPT ![s] = @ \ {u}]

Create(u, c) ==
  /\ rec' = [rec EXCEPT ![u] = c]
  /\ live' = live \cup {u}
  /\ on_server' = With(on_server, c.server, u)
  /\ server_lines' = With(server_lines, c.server, u)
  /\ UNCHANGED ended

\* c: the record as it was read, with the changes of the caller.
UpdateOpen(u, c) ==
  /\ rec' = [rec EXCEPT ![u] = [c EXCEPT !.ended = FALSE]]
  /\ ended' = ended \ {u}
  /\ live' = live \cup {u}
  /\ on_server' = With(on_server, c.server, u)
  /\ server_lines' = IF c.ended THEN With(server_lines, c.server, u) ELSE server_lines

\* Definitions called ...Slip are plausible mistakes in the code, kept to show
\* that the properties notice them; no specification uses them.
\* LIVE is only cleaned when the record was open.
UpdateCloseSlip(u, c) ==
  /\ rec' = [rec EXCEPT ![u] = [c EXCEPT !.ended = TRUE]]
  /\ ended' = ended \cup {u}
  /\ live' = IF u \in ended THEN live \ {u} ELSE live
  /\ on_server' = Without(on_server, c.server, u)
  /\ server_lines' = IF c.ended THEN server_lines ELSE Without(server_lines, c.server, u)

\* hls_end is set before it is asked.
UpdateCloseSlipLines(u, c) ==
  /\ rec' = [rec EXCEPT ![u] = [c EXCEPT !.ended = TRUE]]
  /\ ended' = ended \cup {u}
  /\ live' = live \ {u}
  /\ on_server' = Without(on_server, c.server, u)
  /\ UNCHANGED server_lines

UpdateClose(u, c) ==
  /\ rec' = [rec EXCEPT ![u] = [c EXCEPT !.ended = TRUE]]
  /\ ended' = ended \cup {u}
  /\ live' = live \ {u}
  /\ on_server' = Without(on_server, c.server, u)
  /\ server_lines' = IF c.ended THEN server_lines ELSE Without(server_lines, c.server, u)

-----------------------------------------------------------------------------
(* live.php                                                                *)

\* A request with a valid token, in an idle worker or in one php-fpm forks.
Accept(p, u) ==
  /\ ~Busy(p)
  /\ u \in Hls \/ HomeOf[u] = p[1]
  /\ Goto(p, [Blank("lookup") EXCEPT !.session = u])
  /\ UNCHANGED <<registry, orphaned>>

\* What getConnection returns is not asked for null.
LookupSlip(p) ==
  /\ Serves(p, "lookup")
  /\ Goto(p, [At(p, IF worker[p].session \in Hls THEN "open" ELSE "kill")
                EXCEPT !.con = rec[worker[p].session]])
  /\ UNCHANGED <<registry, orphaned>>

\* getConnection
Lookup(p) ==
  /\ Serves(p, "lookup")
  /\ Goto(p, [At(p, IF rec[worker[p].session] = NoRec THEN "create"
                    ELSE IF worker[p].session \in Hls THEN "open" ELSE "kill")
                EXCEPT !.con = rec[worker[p].session]])
  /\ UNCHANGED <<registry, orphaned>>

\* TOKEN_EXPIRED; restrict_same_ip ends a request at the same place.
Refuse(p) ==
  /\ worker[p].pc \in {"create", "open", "kill"}
  /\ Goto(p, Blank("idle"))
  /\ UNCHANGED <<registry, orphaned>>

\* The worker the record names, as far as a worker has that pid now.
KillPredecessor(p) ==
  LET hit == {q \in Worker \ {p} : /\ q = <<p[1], worker[p].con.pid>>
                                   /\ worker[q].pc # "dead"} IN
  /\ Serves(p, "kill")
  /\ worker' = [q \in Worker |-> IF q \in hit THEN Blank("dead")
                                 ELSE IF q = p THEN At(p, "open") ELSE worker[q]]
  /\ orphaned' = orphaned \cup {worker[q].session : q \in {r \in hit : Busy(r)}}
  /\ UNCHANGED registry

PidOf(p) == IF worker[p].session \in Hls THEN NoPid ELSE p[2]
Opened(p) == [At(p, "validate") EXCEPT !.con = NoRec]

Register(p) ==
  /\ Serves(p, "create")
  /\ Create(worker[p].session, [server |-> p[1], pid |-> PidOf(p), ended |-> FALSE])
  /\ Goto(p, Opened(p))
  /\ orphaned' = orphaned \ {worker[p].session}

\* The pid is not among the changes.
ReopenSlip(p) ==
  /\ Serves(p, "open")
  /\ UpdateOpen(worker[p].session,
                IF worker[p].session \in Hls THEN [worker[p].con EXCEPT !.server = p[1]]
                ELSE worker[p].con)
  /\ Goto(p, Opened(p))
  /\ orphaned' = orphaned \ {worker[p].session}

Reopen(p) ==
  /\ Serves(p, "open")
  /\ UpdateOpen(worker[p].session,
                IF worker[p].session \in Hls THEN [worker[p].con EXCEPT !.server = p[1]]
                ELSE [worker[p].con EXCEPT !.pid = p[2]])
  /\ Goto(p, Opened(p))
  /\ orphaned' = orphaned \ {worker[p].session}

\* validateConnections.  For a line with a limit closeConnections asks for the
\* connections of the server that has the number of the line: it counts null, a
\* TypeError that ends the request, or the two elements of getConnections'
\* result, of which it makes no connection to close.
Validate(p) ==
  /\ Serves(p, "validate")
  /\ Goto(p, IF worker[p].session \in Hls THEN Blank("idle") ELSE At(p, "play"))
  /\ UNCHANGED <<registry, orphaned>>

ValidateFails(p) ==
  /\ Serves(p, "validate")
  /\ worker[p].session \in Limited
  /\ Goto(p, Blank("idle"))
  /\ orphaned' = orphaned \cup {worker[p].session}
  /\ UNCHANGED registry

\* Without the test of the pid.
RegisteredSlip(p) == Open(worker[p].session)

\* What the check every 300 seconds asks of the record.
Registered(p) == Open(worker[p].session) /\ rec[worker[p].session].pid = p[2]

Recheck(p) ==
  /\ Serves(p, "play")
  /\ ~Registered(p)
  /\ Goto(p, At(p, "leave"))
  /\ UNCHANGED <<registry, orphaned>>

\* The viewer goes, or the stream ends.
Leave(p) ==
  /\ Serves(p, "play")
  /\ Goto(p, At(p, "leave"))
  /\ UNCHANGED <<registry, orphaned>>

\* shutdown() reads the record, and closes what it has read.
ShutdownReads(p) ==
  LET con == rec[worker[p].session] IN
  /\ Serves(p, "leave")
  /\ Goto(p, IF con # NoRec /\ con.pid = p[2] THEN [At(p, "close") EXCEPT !.con = con]
             ELSE Blank("idle"))
  /\ UNCHANGED <<registry, orphaned>>

ShutdownCloses(p) ==
  /\ Serves(p, "close")
  /\ UpdateClose(worker[p].session, worker[p].con)
  /\ Goto(p, Blank("idle"))
  /\ UNCHANGED orphaned

IdleExit(p) ==
  /\ Serves(p, "idle")
  /\ Goto(p, Blank("dead"))
  /\ UNCHANGED <<registry, orphaned>>

Crash(p) ==
  /\ Busy(p)
  /\ Goto(p, Blank("dead"))
  /\ orphaned' = orphaned \cup {worker[p].session}
  /\ UNCHANGED registry

Request(p) ==
  \/ Lookup(p) \/ Refuse(p) \/ KillPredecessor(p) \/ Register(p) \/ Reopen(p)
  \/ Validate(p) \/ ValidateFails(p) \/ ShutdownReads(p) \/ ShutdownCloses(p)

Next ==
  \E p \in Worker :
    \/ \E u \in Session : Accept(p, u)
    \/ Request(p) \/ Recheck(p) \/ Leave(p) \/ IdleExit(p) \/ Crash(p)

Spec == Init /\ [][Next]_vars

\* A request goes on, and a stream comes to its next check.
Fairness == \A p \in Worker : WF_vars(Request(p) \/ Recheck(p))

FairSpec == Spec /\ Fairness

-----------------------------------------------------------------------------
(* Properties                                                              *)

TypeOK ==
  /\ rec \in [Session -> Rec \cup {NoRec}]
  /\ live \subseteq Session /\ ended \subseteq Session /\ orphaned \subseteq Session
  /\ on_server \in [Server -> SUBSET Session]
  /\ server_lines \in [Server -> SUBSET Session]
  /\ worker \in [Worker ->
       [pc : {"dead", "idle", "lookup", "create", "kill", "open", "validate", "play",
              "leave", "close"},
        session : Session \cup {NoSession}, con : Rec \cup {NoRec}]]
  /\ \A p \in Worker :
       /\ Busy(p) => worker[p].session \in Session
       /\ worker[p].pc \in {"kill", "open", "close"} => worker[p].con \in Rec

\* Whatever stale records the workers write back, the index LIVE (and with it
\* LINE# and STREAM#) lists the open connections and no other, an open connection
\* is listed under the server of its record, and every other known one has ended:
\* streams.php stops an on-demand stream that STREAM# shows nobody on.
IndexAgrees ==
  /\ live = {u \in Session : Open(u)}
  /\ \A u \in live : u \in on_server[rec[u].server]
  /\ \A u \in Session : rec[u] # NoRec /\ ~Open(u) => u \in ended

\* However requests, takeovers and shutdown handlers interleave, the connection of
\* a live stream stays open only while a worker serves it, or after a worker of it
\* was killed, died or failed: no race alone leaves a connection that counts for ever.
NoGhost ==
  \A u \in live \ (Hls \cup orphaned) :
    \E p \in Worker : worker[p].session = u /\ worker[p].pc \in {"validate", "play", "leave", "close"}

\* SERVER_LINES#, from which watchdog.php counts the lines on a server, holds no
\* live stream that has ended.
OnlyOpenCounted ==
  \A s \in Server : \A u \in server_lines[s] \ Hls : u \in live

Quiet == \A p \in Worker : worker[p].pc \in {"dead", "idle", "play"}

\* Once the viewers stop coming and going, the check every 300 seconds leaves only
\* streams whose connection is open and theirs, one to a token: neither a takeover
\* nor the late shutdown handler of a predecessor leaves a stream nobody counts.
PlayersListed ==
  <>[]Quiet => <>[](\A p \in Worker : Serves(p, "play") =>
     Open(worker[p].session) /\ rec[worker[p].session].pid = p[2])
=============================================================================
