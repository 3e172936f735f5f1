------------------------------ MODULE Eviction ------------------------------
(***************************************************************************)
(* One call of closeConnections (includes/streaming.php) with nobody else  *)
(* at work: the snapshot it reads, the closeConnection calls it makes, and *)
(* the rows they leave in lines_live.  Every snapshot over the constants   *)
(* is an initial state, so the runs are exhaustive over bounded inputs.    *)
(***************************************************************************)
EXTENDS EvictionScan, FiniteSets, Naturals

CONSTANTS
  RowId,      \* activity_id values
  Pid,        \* pids of php-fpm workers
  NoPid,      \* the NULL pid of an HLS row
  Addr,       \* client addresses
  Agent,      \* non-empty User-Agent headers
  MaxConn     \* max_connections of the line

ASSUME RowIdAssumption == RowId \subseteq Nat /\ IsFiniteSet(RowId)
ASSUME PidAssumption == NoPid \notin Pid
ASSUME MaxConnAssumption == MaxConn \in Nat \ {0}   \* 0 never reaches closeConnections

VARIABLES
  requester,  \* the request that runs closeConnections
  snapshot,   \* $rConnections
  live,       \* the rows of the line still in lines_live
  done,       \* the turns of the loop that called closeConnection; $rKilled = |done|
  returned    \* the call is over

vars == <<requester, snapshot, live, done, returned>>

Client == [ip : Addr, agent : Agent \cup {NoAgent}]
Row == [id : RowId, pid : Pid \cup {NoPid}, ip : Addr, agent : Agent \cup {NoAgent}]

RowsOf(desc) ==
  {[id |-> i, pid |-> desc[i].pid, ip |-> desc[i].ip, agent |-> desc[i].agent] : i \in DOMAIN desc}

Descriptions ==
  UNION {[ids -> [pid : Pid \cup {NoPid}, ip : Addr, agent : Agent \cup {NoAgent}]] : ids \in SUBSET RowId}

Init ==
  /\ requester \in [pid : Pid, ip : Addr, agent : Agent \cup {NoAgent}]
  /\ \E desc \in Descriptions : snapshot = RowsOf(desc)
  /\ live = snapshot
  /\ done = {}
  /\ returned = FALSE

\* closeConnection($rConnections[$i]) always succeeds for a row of the snapshot.
CloseNext ==
  /\ ~returned
  /\ Cardinality(done) < ToKill(snapshot, MaxConn)
  /\ \E t \in Turns(snapshot, requester) :
       /\ IsNext(t, snapshot, requester, done)
       /\ live' = live \ {t[2]}
       /\ done' = done \cup {t}
  /\ UNCHANGED <<requester, snapshot, returned>>

Return ==
  /\ ~returned
  /\ \/ Cardinality(done) = ToKill(snapshot, MaxConn)
     \/ Pending(snapshot, requester, done) = {}
  /\ returned' = TRUE
  /\ UNCHANGED <<requester, snapshot, live, done>>

Next == CloseNext \/ Return

Spec == Init /\ [][Next]_vars

-----------------------------------------------------------------------------

TypeOK ==
  /\ requester \in [pid : Pid, ip : Addr, agent : Agent \cup {NoAgent}]
  /\ snapshot \subseteq Row
  /\ live \subseteq snapshot
  /\ done \subseteq (IF requester.agent = NoAgent THEN {0, 1} ELSE {0, 1, 2}) \X snapshot
  /\ returned \in BOOLEAN

\* closeConnections never leaves a line with fewer open connections than it
\* is allowed: it stops after count - max calls even if passes overlap.
NeverBelowAllowance ==
  Cardinality(live) >= IF Cardinality(snapshot) > MaxConn THEN MaxConn ELSE Cardinality(snapshot)

\* A connection of another address is closed only when none of the
\* requester's own address is left, save the one it serves itself.
OwnAddressFirst ==
  \A r \in snapshot \ live :
     r.ip # requester.ip =>
       \A s \in live : s.ip = requester.ip => s.pid = requester.pid

\* Among connections no kill type tells apart, the oldest goes first.
SameClass(r, s) ==
  /\ (r.ip = requester.ip) <=> (s.ip = requester.ip)
  /\ (r.agent = requester.agent) <=> (s.agent = requester.agent)

OldestFirst ==
  \A r \in snapshot \ live, s \in live :
     SameClass(r, s) /\ s.pid # requester.pid => r.id < s.id

\* When the call returns and the limit is still exceeded, either a row has
\* been closed in two passes, or there were not enough rows of other workers.
LimitUnlessRepeated ==
  returned /\ Cardinality(live) > MaxConn =>
     \/ Cardinality({t[2] : t \in done}) < Cardinality(done)
     \/ \A r \in live : r.pid = requester.pid

\* "Closes active connections for a user when they exceed the maximum
\* allowed limit": the limit holds when the call returns, as long as the
\* requester's own worker does not hold more rows than the limit by itself.
LimitReached ==
  returned /\ Cardinality({r \in snapshot : r.pid = requester.pid}) <= MaxConn
     => Cardinality(live) <= MaxConn
=============================================================================
