-------------------------- MODULE Connections_proofs --------------------------
(* What holds of the connections for every number of servers, workers,     *)
(* lines and viewers: the types, and that a worker never kills itself;     *)
(* and the types with the cron users.php beside them.                      *)
EXTENDS UsersCron, SequenceTheorems, TLAPS

\* Only an HLS row has no pid, in the table and in what a worker has read.
HasPid(r) == r.container # "hls" => r.pid \in Pid

PidKnown ==
  /\ \A r \in lines_live : HasPid(r)
  /\ \A p \in Worker : \A r \in worker[p].rows : HasPid(r)

\* closeConnections runs for the first of the lines still to check.
LineToClose == \A p \in Worker : Serves(p, "close") => worker[p].checking # <<>>

IInv == TypeOK /\ PidKnown /\ LineToClose

State == [pc : {"dead", "idle", "ip check", "lookup", "open", "validate", "close", "play"},
          session : Session \cup {NoSession}, con : Row \cup {NoRow},
          checking : Seq(User), rows : SUBSET Row, done : SUBSET ({0, 1, 2} \X Row)]

\* A state a worker of server s may be in.
Proper(w, s) ==
  /\ w \in State
  /\ w.pc \notin {"dead", "idle"} => w.session \in Session /\ HomeOf[w.session] = s
  /\ \A r \in w.rows : HasPid(r)
  /\ w.pc = "close" => w.checking # <<>>

WorkerInv == worker \in [Worker -> State] /\ \A p \in Worker : Proper(worker[p], p[1])

\* WorkerInv is what IInv says of the workers.
LEMMA IInvSplit ==
  IInv <=> /\ WorkerInv
           /\ lines_live \subseteq Row /\ \A r \in lines_live : HasPid(r)
           /\ activity \in 1..(MaxActivity + 1)
           /\ signals \in [Server -> Seq(Pid)]
           /\ taken \in [Server -> Nat]
           /\ \A s \in Server : taken[s] <= Len(signals[s])
<1>1. ASSUME worker \in [Worker -> State]
      PROVE  (\A p \in Worker : Proper(worker[p], p[1])) <=>
               /\ \A p \in Worker : Busy(p) => worker[p].session \in Session
                                              /\ HomeOf[worker[p].session] = p[1]
               /\ \A p \in Worker : \A r \in worker[p].rows : HasPid(r)
               /\ LineToClose
  BY <1>1 DEF Proper, Busy, LineToClose, Serves
<1>2. TypeOK <=>
        /\ worker \in [Worker -> State]
        /\ \A p \in Worker : Busy(p) => worker[p].session \in Session
                                       /\ HomeOf[worker[p].session] = p[1]
        /\ lines_live \subseteq Row
        /\ activity \in 1..(MaxActivity + 1)
        /\ signals \in [Server -> Seq(Pid)]
        /\ taken \in [Server -> Nat]
        /\ \A s \in Server : taken[s] <= Len(signals[s])
  <2> QED BY Zenon DEF TypeOK, State
<1>3. IInv => worker \in [Worker -> State]
  BY <1>2 DEF IInv
<1>4. CASE worker \in [Worker -> State]
  BY <1>1, <1>2, <1>4, Zenon DEF IInv, PidKnown, WorkerInv
<1>5. CASE worker \notin [Worker -> State]
  BY <1>3, <1>5, Zenon DEF WorkerInv
<1> QED BY <1>4, <1>5

\* An empty worker is one of every server.
LEMMA BlankProper ==
  ASSUME NEW s \in Server, NEW pc \in {"dead", "idle"}
  PROVE  Proper(Blank(pc), s) /\ Blank(pc).pc = pc
<1>1. Blank(pc) \in State
  <2>1. <<>> \in Seq(User)
    OBVIOUS
  <2>2. pc \in {"dead", "idle", "ip check", "lookup", "open", "validate", "close", "play"}
    OBVIOUS
  <2> QED BY <2>1, <2>2, Zenon DEF Blank, State
<1>2. Blank(pc).pc = pc /\ Blank(pc).rows = {}
  BY DEF Blank
<1> QED BY <1>1, <1>2 DEF Proper

\* A busy worker may go on to any pc.
LEMMA AtProper ==
  ASSUME IInv, NEW p \in Worker, Busy(p),
         NEW pc \in {"ip check", "lookup", "open", "validate", "close", "play"},
         pc = "close" => worker[p].checking # <<>>
  PROVE  /\ Proper(At(p, pc), p[1])
         /\ At(p, pc).pc = pc /\ At(p, pc).checking = worker[p].checking
<1>1. worker[p] \in State /\ Proper(worker[p], p[1])
  BY IInvSplit DEF WorkerInv
<1> QED BY <1>1 DEF At, Proper, State, Busy

\* A request starts in a worker of its session's server.
LEMMA AcceptProper ==
  ASSUME NEW p \in Worker, NEW u \in Session, HomeOf[u] = p[1],
         NEW pc \in {"ip check", "lookup"}
  PROVE  Proper([Blank(pc) EXCEPT !.session = u], p[1])
<1> DEFINE w == [Blank(pc) EXCEPT !.session = u]
           Any == [pc : {pc}, session : {NoSession, u}, con : {NoRow},
                   checking : {<<>>}, rows : {{}}, done : {{}}]
<1>1. w \in Any /\ w.session = u
  <2>1. Blank(pc) \in Any
    BY DEF Blank
  <2> QED BY <2>1
<1>2. w \in State
  <2>1. <<>> \in Seq(User)
    BY EmptySeq
  <2>2. pc \in {"dead", "idle", "ip check", "lookup", "open", "validate", "close", "play"}
    OBVIOUS
  <2> QED BY <1>1, <2>1, <2>2, Zenon DEF State
<1> QED BY <1>1, <1>2 DEF Proper

\* Killing processes, and letting one go on properly, keeps the workers proper.
LEMMA StepProper ==
  ASSUME IInv, NEW p \in Worker, NEW w, Proper(w, p[1]), NEW victims, Step(p, w, victims)
  PROVE  WorkerInv'
<1>1. \A q \in Worker : q[1] \in Server
  BY DEF Worker
<1>2. \A q \in Worker : worker[q] \in State /\ Proper(worker[q], q[1])
  BY IInvSplit DEF WorkerInv
<1>3. \A q \in Worker : Proper(worker'[q], q[1])
  BY <1>1, <1>2, BlankProper DEF Step
<1>4. \A q \in Worker : worker'[q] \in State
  BY <1>3 DEF Proper
<1>5. worker' \in [Worker -> State]
  BY <1>4 DEF Step
<1> QED BY <1>3, <1>5 DEF WorkerInv, Proper, HasPid

\* A kill by the daemon keeps them proper too.
LEMMA KillProper ==
  ASSUME IInv, NEW victims, KillOnly(victims)
  PROVE  WorkerInv'
<1>1. \A q \in Worker : q[1] \in Server
  BY DEF Worker
<1>2. \A q \in Worker : worker[q] \in State /\ Proper(worker[q], q[1])
  BY IInvSplit DEF WorkerInv
<1>3. \A q \in Worker : Proper(worker'[q], q[1])
  BY <1>1, <1>2, BlankProper DEF KillOnly
<1>4. worker' \in [Worker -> State]
  BY <1>3 DEF Proper, KillOnly
<1> QED BY <1>3, <1>4 DEF WorkerInv, Proper, HasPid

-----------------------------------------------------------------------------
(* A step of a request: the worker goes on as w, and is no victim.         *)

GoesOn(p) == \E w, victims : /\ Step(p, w, victims)
                             /\ Proper(w, p[1]) /\ w.pc # "dead"
                             /\ p \notin victims

\* The address test ends in idle or goes on.
LEMMA CheckIpGoesOn == ASSUME IInv, NEW p \in Worker, CheckIp(p) PROVE GoesOn(p)
<1>1. Busy(p) /\ p[1] \in Server
  BY DEF CheckIp, Serves, Busy, Worker
<1> QED BY <1>1, AtProper, BlankProper DEF CheckIp, GoesOn

\* The lookup yields a row of the table or none.
LEMMA LookupGoesOn == ASSUME IInv, NEW p \in Worker, Lookup(p) PROVE GoesOn(p)
<1>1. Busy(p)
  BY DEF Lookup, Serves, Busy
<1>2. PICK con \in IF OfSession(p) # {} THEN OfSession(p) ELSE OfViewer(p) \cup {NoRow} :
        Step(p, [At(p, "open") EXCEPT !.con = con], {})
  BY DEF Lookup
<1>3. con \in Row \cup {NoRow}
  BY <1>2, IInvSplit DEF OfSession, OfViewer
<1>4. Proper(At(p, "open"), p[1]) /\ At(p, "open").pc = "open"
  BY <1>1, AtProper
<1>5. Proper([At(p, "open") EXCEPT !.con = con], p[1])
      /\ [At(p, "open") EXCEPT !.con = con].pc # "dead"
  BY <1>3, <1>4 DEF Proper, State
<1> QED BY <1>2, <1>5 DEF GoesOn

\* A refused request leaves its worker idle.
LEMMA RefuseGoesOn == ASSUME IInv, NEW p \in Worker, Refuse(p) PROVE GoesOn(p)
<1>1. p[1] \in Server
  BY DEF Worker
<1> QED BY <1>1, BlankProper DEF Refuse, GoesOn

\* The lines to check are at most two.
LEMMA OpenedProper ==
  ASSUME IInv, NEW p \in Worker, Busy(p)
  PROVE  Proper(Opened(p), p[1]) /\ Opened(p).pc # "dead"
<1>1. Proper(At(p, "validate"), p[1]) /\ At(p, "validate").pc = "validate"
  BY AtProper
<1>2. worker[p].session \in Session
  BY IInvSplit DEF WorkerInv, Proper, Busy
<1>3. ToCheck(p) \in Seq(User)
  BY <1>2, SessionAssumption, LineAssumption DEF ToCheck, UserOn
<1> QED BY <1>1, <1>3 DEF Opened, Proper, State

\* A new row kills nobody.
LEMMA InsertGoesOn == ASSUME IInv, NEW p \in Worker, Insert(p) PROVE GoesOn(p)
<1>1. Busy(p)
  BY DEF Insert, Serves, Busy
<1> QED BY <1>1, OpenedProper DEF Insert, GoesOn

\* The worker a row names is killed unless it is the requester: the getmypid() test.
LEMMA TakeOverGoesOn == ASSUME IInv, NEW p \in Worker, TakeOver(p) PROVE GoesOn(p)
<1>1. Busy(p)
  BY DEF TakeOver, Serves, Busy
<1>2. p \notin Predecessor(p)
  BY DEF Predecessor
<1>3. PICK victims \in {{}, Predecessor(p)} : Step(p, Opened(p), victims)
  BY DEF TakeOver
<1> QED BY <1>1, <1>2, <1>3, OpenedProper DEF GoesOn

\* The line just checked is dropped from the lines to check.
LEMMA CheckedProper ==
  ASSUME IInv, NEW p \in Worker, Busy(p), worker[p].checking # <<>>
  PROVE  Proper(Checked(p), p[1]) /\ Checked(p).pc # "dead"
<1>1. Proper(At(p, "validate"), p[1]) /\ At(p, "validate").pc = "validate"
  BY AtProper
<1>2. worker[p] \in State
  BY IInvSplit DEF WorkerInv
<1>3. At(p, "validate").checking = worker[p].checking
  BY AtProper
<1>4. worker[p].checking \in Seq(User)
  BY <1>2 DEF State
<1>5. Tail(worker[p].checking) \in Seq(User)
  BY <1>4
<1> QED BY <1>1, <1>3, <1>5 DEF Checked, Proper, State

\* The rows that are read have pids, unless they are of HLS.
LEMMA CountGoesOn == ASSUME IInv, NEW p \in Worker, Count(p) PROVE GoesOn(p)
<1>1. Busy(p)
  BY DEF Count, Serves, Busy
<1> DEFINE rows == RowsOfUser(Head(worker[p].checking))
           w == [At(p, "close") EXCEPT !.rows = rows]
<1>2. rows \in SUBSET Row /\ \A r \in rows : HasPid(r)
  BY IInvSplit DEF RowsOfUser
<1>3. /\ Proper(At(p, "close"), p[1]) /\ At(p, "close").pc = "close"
  BY <1>1, AtProper DEF Count
<1>4. Proper(w, p[1]) /\ w.pc # "dead"
  <2> HIDE DEF rows
  <2> QED BY <1>2, <1>3 DEF Proper, State
<1>5. Proper(Checked(p), p[1]) /\ Checked(p).pc # "dead"
  BY <1>1, CheckedProper DEF Count
<1>6. Step(p, w, {}) \/ Step(p, Checked(p), {})
  BY DEF Count
<1> QED BY <1>4, <1>5, <1>6 DEF GoesOn

\* The rows closeConnections takes are not the requester's: the getmypid() test.
LEMMA NextTurn ==
  ASSUME IInv, NEW p \in Worker, NEW t \in Turns(worker[p].rows, Requester(p)),
         IsNext(t, worker[p].rows, Requester(p), worker[p].done)
  PROVE  /\ t \in {0, 1, 2} \X Row /\ t[2] \in worker[p].rows
         /\ HasPid(t[2])
         /\ t[2].pid # p[2]
<1>1. worker[p] \in State /\ Proper(worker[p], p[1])
  BY IInvSplit DEF WorkerInv
<1>2. t \in {0, 1, 2} \X worker[p].rows
  BY DEF Turns, KillTypes
<1>3. t[2].pid # Requester(p).pid
  BY DEF IsNext, Pending, Closes
<1> QED BY <1>1, <1>2, <1>3 DEF Requester, Proper, State

\* closeConnection is called for rows of other pids, so it spares its caller.
LEMMA CloseNextGoesOn == ASSUME IInv, NEW p \in Worker, CloseNext(p) PROVE GoesOn(p)
<1>1. PICK t \in Turns(worker[p].rows, Requester(p)) :
        /\ IsNext(t, worker[p].rows, Requester(p), worker[p].done)
        /\ Step(p, [worker[p] EXCEPT !.done = @ \cup {t}], Victims(p[1], t[2]))
  BY DEF CloseNext
<1> DEFINE w == [worker[p] EXCEPT !.done = @ \cup {t}]
<1>2. t \in {0, 1, 2} \X Row /\ t[2].pid # p[2]
  BY <1>1, NextTurn
<1>3. p \notin Victims(p[1], t[2])
  BY <1>2 DEF Victims, Named
<1>4. worker[p] \in State /\ Proper(worker[p], p[1]) /\ worker[p].pc = "close"
  BY IInvSplit DEF WorkerInv, CloseNext, Serves
<1>5. Proper(w, p[1]) /\ w.pc # "dead"
  BY <1>2, <1>4 DEF Proper, State
<1> QED BY <1>1, <1>3, <1>5 DEF GoesOn

\* validateConnections never goes beyond the lines it has to check.
LEMMA CloseDoneGoesOn ==
  ASSUME IInv, NEW p \in Worker, CloseDone(p) PROVE GoesOn(p)
<1>1. Busy(p)
  BY DEF CloseDone, Serves, Busy
<1>2. worker[p].checking # <<>>
  BY DEF IInv, LineToClose, CloseDone
<1>3. Proper(Checked(p), p[1]) /\ Checked(p).pc # "dead"
  BY <1>1, <1>2, CheckedProper
<1>4. Step(p, Checked(p), {})
  BY DEF CloseDone
<1> QED BY <1>3, <1>4 DEF GoesOn

\* The request ends or starts to play.
LEMMA ServeGoesOn == ASSUME IInv, NEW p \in Worker, Serve(p) PROVE GoesOn(p)
<1>1. Busy(p) /\ p[1] \in Server
  BY DEF Serve, Serves, Busy, Worker
<1> QED BY <1>1, AtProper, BlankProper DEF Serve, GoesOn

\* No step of a request kills its worker.
LEMMA RequestGoesOn == ASSUME IInv, NEW p \in Worker, Request(p) PROVE GoesOn(p)
BY CheckIpGoesOn, LookupGoesOn, RefuseGoesOn, InsertGoesOn, TakeOverGoesOn,
   CountGoesOn, CloseNextGoesOn, CloseDoneGoesOn, ServeGoesOn DEF Request

\* A step of a request ends no worker that the request runs in.
LEMMA GoesOnAlive ==
  ASSUME IInv, NEW p \in Worker, GoesOn(p)
  PROVE  WorkerInv' /\ worker'[p].pc # "dead"
<1>1. PICK w, victims : /\ Step(p, w, victims)
                        /\ Proper(w, p[1]) /\ w.pc # "dead"
                        /\ p \notin victims
  BY DEF GoesOn
<1>2. WorkerInv'
  BY <1>1, StepProper
<1>3. worker'[p] = w
  BY <1>1 DEF Step
<1> QED BY <1>1, <1>2, <1>3

-----------------------------------------------------------------------------
(* The table and the signals.                                              *)

TableInv ==
  /\ lines_live \subseteq Row /\ \A r \in lines_live : HasPid(r)
  /\ activity \in 1..(MaxActivity + 1)

SignalsInv ==
  /\ signals \in [Server -> Seq(Pid)]
  /\ taken \in [Server -> Nat]
  /\ \A s \in Server : taken[s] <= Len(signals[s])

\* The invariant is one of the workers, one of the table and one of the signals.
LEMMA IInvParts == IInv <=> WorkerInv /\ TableInv /\ SignalsInv
BY IInvSplit DEF TableInv, SignalsInv

\* The same after a step.
LEMMA IInvPartsNext == IInv' <=> WorkerInv' /\ TableInv' /\ SignalsInv'
BY IInvParts, PTL

\* A row has a container and a pid fit for it.
LEMMA NewRowProper ==
  ASSUME IInv, NEW u \in Session, NEW pid \in Pid \cup {NoPid}, activity <= MaxActivity,
         ContainerOf[u] # "hls" => pid \in Pid
  PROVE  NewRow(u, pid) \in Row /\ HasPid(NewRow(u, pid))
<1>1. activity \in 1..MaxActivity
  BY IInvParts, BoundAssumption DEF TableInv
<1> QED BY <1>1, SessionAssumption DEF NewRow, Row, HasPid

\* INSERT keeps the table proper,
LEMMA InsertTable == ASSUME IInv, NEW p \in Worker, Insert(p) PROVE TableInv'
<1> DEFINE u == worker[p].session
           pid == IF Kind(p) = "hls" THEN NoPid ELSE p[2]
<1>1. u \in Session /\ p[2] \in Pid
  BY IInvParts DEF WorkerInv, Proper, Insert, Serves, Worker
<1>2. NewRow(u, pid) \in Row /\ HasPid(NewRow(u, pid))
  BY <1>1, NewRowProper DEF Insert, Kind
<1>3. activity' \in 1..(MaxActivity + 1)
  BY IInvParts, BoundAssumption DEF TableInv, Insert
<1>4. lines_live' = lines_live \cup {NewRow(u, pid)}
  BY DEF Insert
<1> HIDE DEF u, pid
<1> QED BY <1>2, <1>3, <1>4, IInvParts DEF TableInv, HasPid

\* A row changes its pid only for the pid of the worker that takes it over.
LEMMA UpdatedProper ==
  ASSUME IInv, NEW p \in Worker, Busy(p), NEW r \in lines_live
  PROVE  Updated(p, r) \in Row /\ HasPid(Updated(p, r))
<1>1. r \in Row /\ HasPid(r)
  BY IInvParts DEF TableInv
<1>2. p[1] \in Server /\ p[2] \in Pid
  BY DEF Worker
<1>3. CASE r.id # worker[p].con.id
  BY <1>1, <1>3 DEF Updated
<1>4. CASE r.id = worker[p].con.id /\ Kind(p) = "hls"
  BY <1>1, <1>2, <1>4 DEF Updated, Row, HasPid
<1>5. CASE r.id = worker[p].con.id /\ Kind(p) # "hls"
  BY <1>1, <1>2, <1>5 DEF Updated, Row, HasPid
<1> QED BY <1>3, <1>4, <1>5

\* so does the UPDATE of a reconnecting viewer,
LEMMA TakeOverTable == ASSUME IInv, NEW p \in Worker, TakeOver(p) PROVE TableInv'
<1>1. Busy(p)
  BY DEF TakeOver, Serves, Busy
<1>2. \A r \in lines_live : Updated(p, r) \in Row /\ HasPid(Updated(p, r))
  BY <1>1, UpdatedProper
<1>3. lines_live' = {Updated(p, r) : r \in lines_live} /\ activity' = activity
  BY DEF TakeOver
<1>4. activity' \in 1..(MaxActivity + 1)
  BY <1>3, IInvParts DEF TableInv
<1> QED BY <1>2, <1>3, <1>4 DEF TableInv, HasPid

\* A signal is left for a pid, behind those the daemon has acted upon.
LEMMA SignalProper ==
  ASSUME IInv, NEW s \in Server, NEW pid \in Pid, Signal(s, pid), taken' = taken
  PROVE  SignalsInv'
<1>1. signals \in [Server -> Seq(Pid)] /\ taken \in [Server -> Nat]
      /\ \A z \in Server : taken[z] <= Len(signals[z])
  BY IInvParts DEF SignalsInv
<1>2. signals' = [signals EXCEPT ![s] = Append(signals[s], pid)]
  BY DEF Signal
<1>3. Append(signals[s], pid) \in Seq(Pid) /\ Len(Append(signals[s], pid)) = Len(signals[s]) + 1
  BY <1>1
<1>4. signals' \in [Server -> Seq(Pid)]
  BY <1>1, <1>2, <1>3
<1>5. \A z \in Server : taken[z] <= Len(signals'[z])
  BY <1>1, <1>2, <1>3
<1> QED BY <1>1, <1>4, <1>5 DEF SignalsInv

\* which may leave a signal for the server of the row,
LEMMA TakeOverSignals == ASSUME IInv, NEW p \in Worker, TakeOver(p) PROVE SignalsInv'
<1> DEFINE con == worker[p].con
<1>1. taken' = taken
  BY DEF TakeOver
<1>2. CASE signals' = signals
  BY <1>1, <1>2, IInvParts DEF SignalsInv
<1>3. CASE Signal(con.server, con.pid) /\ Predecessor(p) # {}
  <2>1. con.pid \in Pid
    BY <1>3 DEF Predecessor, Named, Worker
  <2>2. con \in Row
    BY IInvParts DEF WorkerInv, State, TakeOver
  <2>3. con.server \in Server
    BY <2>2 DEF Row
  <2> QED BY <1>1, <1>3, <2>1, <2>3, SignalProper
<1> QED BY <1>2, <1>3 DEF TakeOver

\* and so does closeConnection, with its DELETE and its signal.
LEMMA CloseNextTable ==
  ASSUME IInv, NEW p \in Worker, CloseNext(p) PROVE TableInv' /\ SignalsInv'
<1>1. PICK t \in Turns(worker[p].rows, Requester(p)) :
        /\ IsNext(t, worker[p].rows, Requester(p), worker[p].done)
        /\ SignalFor(p[1], t[2])
        /\ lines_live' = {r \in lines_live : r.id # t[2].id}
  BY DEF CloseNext
<1>2. activity' = activity /\ taken' = taken
  BY DEF CloseNext
<1>3. TableInv'
  BY <1>1, <1>2, IInvParts DEF TableInv, HasPid
<1>4. CASE signals' = signals
  BY <1>2, <1>3, <1>4, IInvParts DEF SignalsInv
<1>5. CASE t[2].container # "hls" /\ Signal(t[2].server, t[2].pid)
  <2>1. t[2] \in Row /\ HasPid(t[2])
    BY <1>1, NextTurn
  <2>2. t[2].pid \in Pid /\ t[2].server \in Server
    BY <1>5, <2>1 DEF HasPid, Row
  <2> QED BY <1>2, <1>3, <1>5, <2>2, SignalProper
<1> QED BY <1>1, <1>4, <1>5 DEF SignalFor

-----------------------------------------------------------------------------
(* Every action keeps the invariant.                                       *)

\* The steps of a request.
LEMMA RequestIInv == ASSUME IInv, NEW p \in Worker, Request(p) PROVE IInv'
<1>1. WorkerInv'
  BY RequestGoesOn, GoesOnAlive
<1>2. TableInv /\ SignalsInv
  BY IInvParts
<1>3. CASE CheckIp(p) \/ Lookup(p) \/ Refuse(p) \/ Count(p) \/ CloseDone(p) \/ Serve(p)
  <2>1. UNCHANGED <<lines_live, activity, signals, taken>>
    BY <1>3 DEF CheckIp, Lookup, Refuse, Count, CloseDone, Serve
  <2>2. TableInv' /\ SignalsInv'
    BY <1>2, <2>1 DEF TableInv, SignalsInv, HasPid
  <2> QED BY <1>1, <2>2, IInvPartsNext
<1>4. CASE Insert(p)
  <2>1. UNCHANGED <<signals, taken>>
    BY <1>4 DEF Insert
  <2>2. SignalsInv'
    BY <1>2, <2>1 DEF SignalsInv
  <2> QED BY <1>1, <1>4, <2>2, InsertTable, IInvPartsNext
<1>5. CASE TakeOver(p)
  BY <1>1, <1>5, TakeOverTable, TakeOverSignals, IInvPartsNext
<1>6. CASE CloseNext(p)
  BY <1>1, <1>6, CloseNextTable, IInvPartsNext
<1> QED BY <1>3, <1>4, <1>5, <1>6 DEF Request

\* A worker that starts, ends or takes a new request.
LEMMA WorkerIInv ==
  ASSUME IInv, NEW p \in Worker,
         \/ IdleExit(p) \/ Crash(p) \/ Recheck(p) \/ Leave(p)
         \/ \E u \in Session : Accept(p, u)
  PROVE  IInv'
<1>1. p[1] \in Server
  BY DEF Worker
<1>2. WorkerInv'
  <2>1. CASE \E u \in Session : Accept(p, u)
    <3>1. PICK u \in Session : Accept(p, u)
      BY <2>1
    <3> DEFINE pc == IF Checks2ndIp(u) THEN "ip check" ELSE "lookup"
    <3>2. Proper([Blank(pc) EXCEPT !.session = u], p[1])
      BY <3>1, AcceptProper DEF Accept
    <3>3. Step(p, [Blank(pc) EXCEPT !.session = u], {})
      BY <3>1 DEF Accept
    <3> QED BY <3>2, <3>3, StepProper
  <2>2. CASE IdleExit(p) \/ Crash(p) \/ Recheck(p) \/ Leave(p)
    <3>1. Step(p, Blank("dead"), {}) \/ Step(p, Blank("idle"), {})
      BY <2>2 DEF IdleExit, Crash, Recheck, Leave
    <3>2. Proper(Blank("dead"), p[1]) /\ Proper(Blank("idle"), p[1])
      BY <1>1, BlankProper
    <3> QED BY <3>1, <3>2, StepProper
  <2> QED BY <2>1, <2>2
<1>3. UNCHANGED <<lines_live, activity, signals, taken>>
  BY DEF IdleExit, Crash, Recheck, Leave, Accept
<1>4. TableInv' /\ SignalsInv'
  BY <1>3, IInvParts DEF TableInv, SignalsInv, HasPid
<1> QED BY <1>2, <1>4, IInvPartsNext

\* A row that goes stale is the same row otherwise.
LEMMA StaleIInv == ASSUME IInv, NEW r \in lines_live, GoStale(r) PROVE IInv'
<1>1. r \in Row /\ HasPid(r)
  BY IInvParts DEF TableInv
<1>2. [r EXCEPT !.stale = TRUE] \in Row /\ HasPid([r EXCEPT !.stale = TRUE])
  BY <1>1 DEF Row, HasPid
<1>3. TableInv'
  BY <1>2, IInvParts DEF TableInv, HasPid, GoStale
<1>4. WorkerInv' /\ SignalsInv'
  BY IInvParts DEF WorkerInv, Proper, SignalsInv, HasPid, GoStale
<1> QED BY <1>3, <1>4, IInvPartsNext

\* The daemon's DELETE is of the signals it has acted upon, and of no more.
LEMMA DaemonIInv ==
  ASSUME IInv, NEW s \in Server, Daemon(s) \/ SignalRestart(s)
  PROVE  IInv'
<1>1. /\ signals \in [Server -> Seq(Pid)] /\ taken \in [Server -> Nat]
      /\ \A z \in Server : taken[z] <= Len(signals[z])
  BY IInvParts DEF SignalsInv
<1>2. UNCHANGED <<lines_live, activity>>
  BY DEF Daemon, SignalKill, SignalDelete, SignalRestart
<1>3. TableInv'
  BY <1>2, IInvParts DEF TableInv, HasPid
<1>4. CASE SignalKill(s)
  <2> DEFINE n == IF Len(signals[s]) < SignalBatch THEN Len(signals[s]) ELSE SignalBatch
  <2>1. n \in Nat /\ n <= Len(signals[s])
    BY <1>1, BoundAssumption
  <2>2. /\ taken' = [taken EXCEPT ![s] = n] /\ signals' = signals
        /\ KillOnly(UNION {Named(s, signals[s][i]) : i \in 1..n})
    BY <1>4 DEF SignalKill
  <2> HIDE DEF n
  <2>3. SignalsInv'
    BY <1>1, <2>1, <2>2 DEF SignalsInv
  <2>4. WorkerInv'
    BY <2>2, KillProper
  <2> QED BY <1>3, <2>3, <2>4, IInvPartsNext
<1>5. CASE SignalDelete(s)
  <2> DEFINE rest == SubSeq(signals[s], taken[s] + 1, Len(signals[s]))
  <2>1. rest \in Seq(Pid)
    BY <1>1
  <2>2. Len(rest) \in Nat
    BY <2>1
  <2>3. /\ signals' = [signals EXCEPT ![s] = rest]
        /\ taken' = [taken EXCEPT ![s] = 0] /\ worker' = worker
    BY <1>5 DEF SignalDelete
  <2> HIDE DEF rest
  <2>4. SignalsInv'
    BY <1>1, <2>1, <2>2, <2>3 DEF SignalsInv
  <2>5. WorkerInv'
    BY <2>3, IInvParts DEF WorkerInv, Proper, HasPid
  <2> QED BY <1>3, <2>4, <2>5, IInvPartsNext
<1>6. CASE SignalRestart(s)
  <2>1. signals' = signals /\ taken' = [taken EXCEPT ![s] = 0] /\ worker' = worker
    BY <1>6 DEF SignalRestart
  <2>2. \A z \in Server : Len(signals[z]) \in Nat
    BY <1>1
  <2>3. SignalsInv'
    BY <1>1, <2>1, <2>2 DEF SignalsInv
  <2>4. WorkerInv'
    BY <2>1, IInvParts DEF WorkerInv, Proper, HasPid
  <2> QED BY <1>3, <2>3, <2>4, IInvPartsNext
<1> QED BY <1>4, <1>5, <1>6 DEF Daemon

\* The strengthened invariant holds at first,
LEMMA InitIInv == Init => IInv
<1> SUFFICES ASSUME Init PROVE IInv
  OBVIOUS
<1>1. WorkerInv
  <2>1. \A p \in Worker : worker[p] = Blank("dead") /\ p[1] \in Server
    BY DEF Init, Worker
  <2>2. \A p \in Worker : Proper(worker[p], p[1])
    BY <2>1, BlankProper
  <2> QED BY <2>2 DEF WorkerInv, Proper, Init
<1>2. TableInv
  BY BoundAssumption DEF Init, TableInv
<1>3. SignalsInv
  BY DEF Init, SignalsInv
<1> QED BY <1>1, <1>2, <1>3, IInvParts

\* every step keeps it,
LEMMA NextIInv == IInv /\ [Next]_vars => IInv'
<1> SUFFICES ASSUME IInv, [Next]_vars PROVE IInv'
  OBVIOUS
<1>1. CASE \E p \in Worker : Request(p)
  BY <1>1, RequestIInv
<1>2. CASE \E p \in Worker : \/ IdleExit(p) \/ Crash(p) \/ Recheck(p) \/ Leave(p)
                            \/ \E u \in Session : Accept(p, u)
  BY <1>2, WorkerIInv
<1>3. CASE \E r \in lines_live : GoStale(r)
  BY <1>3, StaleIInv
<1>4. CASE \E s \in Server : Daemon(s) \/ SignalRestart(s)
  BY <1>4, DaemonIInv
<1>5. CASE UNCHANGED vars
  BY <1>5, IInvParts, IInvPartsNext
     DEF vars, WorkerInv, Proper, TableInv, SignalsInv, HasPid
<1> QED BY <1>1, <1>2, <1>3, <1>4, <1>5 DEF Next

\* and so it holds all along.
LEMMA SpecIInv == Spec => []IInv
BY InitIInv, NextIInv, PTL DEF Spec

-----------------------------------------------------------------------------

\* The variables of Connections keep their types for every instance.
THEOREM TypeCorrect == Spec => []TypeOK
<1>1. IInv => TypeOK
  BY DEF IInv
<1> QED BY <1>1, SpecIInv, PTL

\* No request, whatever rows the table holds and whichever workers have had
\* its pid before, ends in the kill -9 of the worker that serves it.
THEOREM RequesterSafe == Spec => RequesterSurvives
<1> DEFINE Safe == \A p \in Worker : Busy(p) /\ worker'[p].pc = "dead" => ~Request(p)
<1>1. IInv => Safe
  BY RequestGoesOn, GoesOnAlive
<1>2. IInv => [Safe]_vars
  BY <1>1
<1> QED BY <1>2, SpecIInv, PTL DEF RequesterSurvives

-----------------------------------------------------------------------------
(* The same beside the cron users.php.                                     *)

\* What the cron has read are rows of Connections, and its turns are of them.
CronInv ==
  /\ cron \in [pc : {"off", "users", "close"}, rows : SUBSET Row, lapsed : SUBSET User,
               left : SUBSET User, turns : SUBSET ({1, 2} \X Row), doomed : SUBSET Session]
  /\ cron.pc # "close" => cron.turns = {} /\ cron.doomed = {}
  /\ \A r \in cron.rows : HasPid(r)
  /\ \A t \in cron.turns : HasPid(t[2])
  /\ cron.lapsed \subseteq lapsed
  /\ lapsed \subseteq User

CInv == IInv /\ CronInv

LEMMA CInitCInv == CInit => CInv
<1> SUFFICES ASSUME CInit PROVE CronInv
  BY InitIInv DEF CInv, CInit
<1> QED BY DEF CInit, CronInv, Idle

\* closeConnection of the cron kills, and leaves a signal for another server.
LEMMA CronCloses ==
  ASSUME CInv, NEW t \in cron.turns, KillOnly(Victims(Main, t[2])), SignalFor(Main, t[2]),
         UNCHANGED <<lines_live, activity, taken>>
  PROVE  IInv'
<1>1. IInv /\ t[2] \in Row /\ HasPid(t[2])
  BY DEF CInv, CronInv
<1>2. WorkerInv'
  BY <1>1, KillProper
<1>3. TableInv'
  BY <1>1, IInvParts DEF TableInv, HasPid
<1>4. CASE signals' = signals
  <2>1. SignalsInv'
    BY <1>1, <1>4, IInvParts DEF SignalsInv
  <2> QED BY <1>2, <1>3, <2>1, IInvPartsNext
<1>5. CASE t[2].container # "hls" /\ Signal(t[2].server, t[2].pid)
  <2>1. t[2].pid \in Pid /\ t[2].server \in Server
    BY <1>1, <1>5 DEF HasPid, Row
  <2>2. SignalsInv'
    BY <1>1, <1>5, <2>1, SignalProper
  <2> QED BY <1>2, <1>3, <2>2, IInvPartsNext
<1> QED BY <1>4, <1>5 DEF SignalFor

\* processDeletions only takes rows away.
LEMMA CronDeletes ==
  ASSUME IInv, NEW S \in SUBSET lines_live, lines_live' = S,
         UNCHANGED <<activity, worker, signals, taken>>
  PROVE  IInv'
<1>1. WorkerInv' /\ TableInv' /\ SignalsInv'
  BY IInvParts DEF WorkerInv, Proper, TableInv, SignalsInv, HasPid
<1> QED BY <1>1, IInvPartsNext

\* The steps that leave the connections alone.
LEMMA ApartIInv ==
  ASSUME IInv, UNCHANGED <<lines_live, activity, worker, signals, taken>> PROVE IInv'
BY CronDeletes

LEMMA CronKeepsIInv == CInv /\ Cron => IInv'
<1> SUFFICES ASSUME CInv, Cron PROVE IInv'
  OBVIOUS
<1>1. CASE CronClose
  <2>1. PICK t \in cron.turns : KillOnly(Victims(Main, t[2])) /\ SignalFor(Main, t[2])
    BY <1>1 DEF CronClose
  <2>2. UNCHANGED <<lines_live, activity, taken>>
    BY <1>1 DEF CronClose
  <2> QED BY <2>1, <2>2, CronCloses
<1>2. CASE CronDelete
  BY <1>2, CronDeletes DEF CronDelete, CInv
<1>3. CASE CronSelect \/ (\E u \in User : CronUser(u)) \/ CronKeep \/ CronEnd
  BY <1>3, ApartIInv DEF CronSelect, CronUser, CronKeep, CronEnd, CInv
<1> QED BY <1>1, <1>2, <1>3 DEF Cron

\* The cron's own variables.
LEMMA CronKeepsCronInv == CInv /\ Cron => CronInv'
<1> SUFFICES ASSUME CInv, Cron PROVE CronInv'
  OBVIOUS
<1> DEFINE Runs == [pc : {"off", "users", "close"}, rows : SUBSET Row, lapsed : SUBSET User,
                    left : SUBSET User, turns : SUBSET ({1, 2} \X Row), doomed : SUBSET Session]
<1>1. /\ lines_live \subseteq Row /\ \A r \in lines_live : HasPid(r)
      /\ CronInv /\ cron \in Runs
  BY IInvParts DEF CInv, TableInv, CronInv
<1>2. lapsed' = lapsed
  BY DEF Cron, CronSelect, CronUser, CronClose, CronKeep, CronDelete, CronEnd
<1>3. CASE CronSelect
  <2>1. {r.user : r \in lines_live} \subseteq User
    BY <1>1 DEF Row
  <2>2. cron' = [pc |-> "users", rows |-> lines_live, lapsed |-> lapsed,
                 left |-> {r.user : r \in lines_live}, turns |-> {}, doomed |-> {}]
    BY <1>3 DEF CronSelect, Idle
  <2> QED BY <1>1, <1>2, <2>1, <2>2 DEF CronInv, HasPid
<1>4. CASE \E u \in User : CronUser(u)
  <2>1. PICK u \in User : CronUser(u)
    BY <1>4
  <2> DEFINE turns == ({1} \X CronRows(u)) \cup ({2} \X Excess(u))
  <2>2. CronRows(u) \subseteq cron.rows /\ Excess(u) \subseteq cron.rows
    BY DEF CronRows, Excess
  <2>3. turns \subseteq {1, 2} \X Row /\ \A t \in turns : HasPid(t[2])
    BY <1>1, <2>2 DEF CronInv
  <2>4. cron' = [cron EXCEPT !.pc = "close", !.left = @ \ {u}, !.turns = turns]
    BY <2>1 DEF CronUser
  <2> HIDE DEF turns
  <2> QED BY <1>1, <1>2, <2>3, <2>4 DEF CronInv, HasPid
<1>5. CASE CronClose \/ CronKeep
  <2>1. PICK t \in cron.turns : \/ cron' = [cron EXCEPT !.turns = @ \ {t}]
                                \/ cron' = [cron EXCEPT !.turns = @ \ {t}, !.doomed = @ \cup {t[2].uuid}]
    BY <1>5 DEF CronClose, CronKeep
  <2>2. cron.pc = "close" /\ t[2].uuid \in Session
    BY <1>1, <1>5 DEF CronClose, CronKeep, Row
  <2> DEFINE TurnSets == SUBSET ({1, 2} \X Row)
             turns == cron.turns \ {t}
             doomed == cron.doomed \cup {t[2].uuid}
  <2>3. turns \in TurnSets /\ turns \subseteq cron.turns /\ doomed \in SUBSET Session
    BY <1>1, <2>2
  <2>4. \/ cron' = [cron EXCEPT !.turns = turns]
        \/ cron' = [cron EXCEPT !.turns = turns, !.doomed = doomed]
    BY <2>1
  <2> HIDE DEF turns, doomed, TurnSets
  <2>5. /\ cron' \in [pc : {"off", "users", "close"}, rows : SUBSET Row, lapsed : SUBSET User,
                      left : SUBSET User, turns : TurnSets, doomed : SUBSET Session]
        /\ cron'.pc = "close" /\ cron'.turns = turns
        /\ cron'.rows = cron.rows /\ cron'.lapsed = cron.lapsed
    <3>1. cron \in [pc : {"off", "users", "close"}, rows : SUBSET Row, lapsed : SUBSET User,
                    left : SUBSET User, turns : TurnSets, doomed : SUBSET Session]
      BY <1>1 DEF TurnSets
    <3> QED BY <2>2, <2>3, <2>4, <3>1
  <2>6. /\ \A r \in cron'.rows : HasPid(r)
        /\ \A u \in cron'.turns : HasPid(u[2])
    BY <1>1, <2>3, <2>5 DEF CronInv
  <2> QED BY <1>1, <1>2, <2>5, <2>6 DEF CronInv, TurnSets, HasPid
<1>6. CASE CronDelete
  BY <1>1, <1>2, <1>6 DEF CronDelete, CronInv, HasPid
<1>7. CASE CronEnd
  BY <1>1, <1>2, <1>7 DEF CronEnd, CronInv, Idle, HasPid
<1> QED BY <1>3, <1>4, <1>5, <1>6, <1>7 DEF Cron

LEMMA CNextCInv == CInv /\ [CNext]_cronVars => CInv'
<1> SUFFICES ASSUME CInv, [CNext]_cronVars PROVE CInv'
  OBVIOUS
<1>1. CASE Elsewhere
  <2>1. IInv'
    BY <1>1, NextIInv DEF Elsewhere, CInv
  <2>2. CronInv'
    BY <1>1 DEF Elsewhere, CInv, CronInv, HasPid
  <2> QED BY <2>1, <2>2 DEF CInv
<1>2. CASE Cron
  BY <1>2, CronKeepsIInv, CronKeepsCronInv DEF CInv
<1>3. CASE \E u \in User : Lapse(u)
  <2>1. UNCHANGED <<lines_live, activity, worker, signals, taken, cron>>
    BY <1>3 DEF Lapse
  <2>2. lapsed \subseteq lapsed' /\ lapsed' \subseteq User
    BY <1>3, MainAssumption DEF Lapse, CInv, CronInv
  <2>3. CronInv'
    BY <2>1, <2>2 DEF CInv, CronInv, HasPid
  <2> QED BY <2>1, <2>3, ApartIInv DEF CInv
<1>4. CASE UNCHANGED cronVars
  <2>1. UNCHANGED <<lines_live, activity, worker, signals, taken>> /\ UNCHANGED <<cron, lapsed>>
    BY <1>4 DEF cronVars
  <2>2. CronInv'
    BY <2>1 DEF CInv, CronInv, HasPid
  <2> QED BY <2>1, <2>2, ApartIInv DEF CInv
<1> QED BY <1>1, <1>2, <1>3, <1>4 DEF CNext

\* With users.php beside the connections the types hold too: whatever has become of
\* a row since the cron read it, what it leaves as a signal is a pid, and it
\* dooms rows only while it works through the turns of a line.
THEOREM CronTypeCorrect == CSpec => []CTypeOK
<1>1. CInv => CTypeOK
  BY DEF CInv, IInv, CronInv, CTypeOK
<1> QED BY <1>1, CInitCInv, CNextCInv, PTL DEF CSpec
=============================================================================
