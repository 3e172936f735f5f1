----------------------- MODULE ConnectionLimit_proofs -----------------------
(* max_connections holds for every number of servers, workers, lines and    *)
(* viewers: of the workers of a line that have a row there is always one,   *)
(* the last to count, that knows the rows of all the others.                *)
EXTENDS ConnectionLimit, Connections_proofs, FiniteSetTheorems

\* What never changes of a row: its id, its viewer, line and server.
Origin(r) ==
  /\ r.id < activity
  /\ r.user = UserOf[r.uuid]
  /\ r.server = HomeOf[r.uuid]

\* activity_id is unique.
TableKnown ==
  /\ IsFiniteSet(lines_live)
  /\ \A r \in lines_live : Origin(r)
  /\ \A r, s \in lines_live : r.id = s.id => r = s

\* The row a worker has looked up is one of its line, and the id still stands for it.
ReadKnown(p) ==
  worker[p].con # NoRow =>
    LET con == worker[p].con
    IN  /\ Origin(con)
        /\ con.user = UserOn(p)
        /\ Kind(p) # "VOD" => con.server = p[1]
        /\ \A r \in lines_live : r.id = con.id => r.uuid = con.uuid

\* validateConnections checks the pair first, if there is one, and the line last.
InTurn(p) ==
  /\ Serves(p, "validate") \/ Serves(p, "close") =>
       worker[p].checking \in {<<>>, <<UserOn(p)>>, <<PairOf[UserOn(p)], UserOn(p)>>}
  /\ ~Serves(p, "close") => worker[p].done = {}

ToClose(p, t) == t \in Turns(worker[p].rows, Requester(p)) /\ Closes(t, Requester(p))

\* The turns that are done are the first ones to close, and their rows are gone.
SnapshotKnown(p) ==
  Serves(p, "close") =>
    /\ IsFiniteSet(worker[p].rows)
    /\ \A r \in worker[p].rows : r.id < activity
    /\ \A r, s \in worker[p].rows : r.id = s.id => r = s
    /\ \A t \in worker[p].done : ToClose(p, t)
    /\ \A t \in worker[p].done : \A u : ToClose(p, u) /\ Before(u, t) => u \in worker[p].done
    /\ \A t \in worker[p].done : \A r \in lines_live : r.id # t[2].id

\* Where no coincidence is excused, no row is closed twice or passed over.
Plain(p) ==
  Serves(p, "close") /\ Head(worker[p].checking) \notin excused =>
    /\ \A t, d \in worker[p].done : t[2] = d[2] => t = d
    /\ \A r \in worker[p].rows : r.pid = p[2] => r.server = p[1]

\* The worker a row stands for.
Owner(r) == <<r.server, r.pid>>

\* The workers that have counted the line's rows, or are closing what was too many.
Counted(p) ==
  \/ Serves(p, "play")
  \/ Serves(p, "validate") /\ worker[p].checking = <<>>
  \/ Serves(p, "close") /\ worker[p].checking = <<UserOn(p)>>

Holders(u) == {p \in Worker : /\ Counted(p) /\ UserOn(p) = u
                              /\ \E r \in RowsOfUser(u) : Owner(r) = p}

\* q is still to close the rows of S that are too many, or there are none.
Covers(u, q, S) ==
  IF Serves(q, "close")
  THEN \A r \in RowsOfUser(u) : Owner(r) \in S =>
         \E x \in worker[q].rows : x.id = r.id /\ Owner(x) = Owner(r)
  ELSE IsFiniteSet(S) /\ Cardinality(S) <= MaxConn[u]

Cover(u) == \A S \in SUBSET Holders(u) : S # {} => \E q \in S : Covers(u, q, S)

WorkersKnown == \A p \in Worker : ReadKnown(p) /\ InTurn(p) /\ SnapshotKnown(p) /\ Plain(p)
Covered == \A u \in User \ excused : MaxConn[u] > 0 => Cover(u)

LInv == IInv /\ TableKnown /\ WorkersKnown /\ Covered

-----------------------------------------------------------------------------
(* What a step does to one worker.                                         *)

SameWork(q) == worker'[q] = worker[q]
Rests(q) == worker'[q].pc \in {"dead", "idle"} /\ worker'[q].con = NoRow /\ worker'[q].done = {}
Starts(q) ==
  /\ worker'[q].pc \in {"ip check", "lookup"} /\ worker'[q].done = {}
  /\ \/ worker'[q].con = NoRow
     \/ worker'[q].con = worker[q].con /\ worker'[q].session = worker[q].session
Finds(q) ==
  /\ Lookup(q) /\ worker'[q].pc = "open" /\ worker'[q].done = {}
  /\ worker'[q].session = worker[q].session
  /\ worker'[q].con \in OfSession(q) \cup OfViewer(q) \cup {NoRow}
Opens(q) ==
  /\ worker'[q].pc = "validate" /\ worker'[q].con = NoRow /\ worker'[q].done = {}
  /\ worker'[q].session = worker[q].session
  /\ worker'[q].checking = ToCheck(q)
\* The steps of validateConnections keep the session.
Validates(q) ==
  worker'[q].session = worker[q].session /\ worker'[q].con = worker[q].con
Skips(q) ==
  /\ Count(q) /\ Validates(q)
  /\ worker'[q].pc = "validate" /\ worker'[q].checking = Tail(worker[q].checking)
  /\ worker'[q].done = {}
  /\ ToKill(RowsOfUser(Head(worker[q].checking)), MaxConn[UserOn(q)]) = 0
Takes(q) ==
  /\ Count(q) /\ Validates(q)
  /\ worker'[q].pc = "close" /\ worker'[q].checking = worker[q].checking
  /\ worker'[q].rows = RowsOfUser(Head(worker[q].checking)) /\ worker'[q].done = {}
ClosesRow(q) ==
  /\ CloseNext(q) /\ Validates(q)
  /\ worker'[q].pc = "close" /\ worker'[q].checking = worker[q].checking
  /\ worker'[q].rows = worker[q].rows
  /\ \E t \in Turns(worker[q].rows, Requester(q)) :
       /\ IsNext(t, worker[q].rows, Requester(q), worker[q].done)
       /\ worker'[q].done = worker[q].done \cup {t}
       /\ lines_live' = {r \in lines_live : r.id # t[2].id}
Finishes(q) ==
  /\ CloseDone(q) /\ Validates(q)
  /\ worker'[q].pc = "validate" /\ worker'[q].checking = Tail(worker[q].checking)
  /\ worker'[q].done = {}
Plays(q) ==
  /\ Serve(q) /\ Validates(q)
  /\ worker'[q].pc = "play" /\ worker'[q].done = {}

Changes(q) ==
  \/ SameWork(q) \/ Rests(q) \/ Starts(q) \/ Finds(q) \/ Opens(q)
  \/ Skips(q) \/ Takes(q) \/ ClosesRow(q) \/ Finishes(q) \/ Plays(q)

\* A worker's state is a record of these six fields.
Shape(w) == w = [pc |-> w.pc, session |-> w.session, con |-> w.con,
                 checking |-> w.checking, rows |-> w.rows, done |-> w.done]

LEMMA StateShape == ASSUME NEW w \in State PROVE Shape(w)
<1> DEFINE Turned == SUBSET ({0, 1, 2} \X Row)
<1>1. w \in [pc : {"dead", "idle", "ip check", "lookup", "open", "validate", "close", "play"},
             session : Session \cup {NoSession}, con : Row \cup {NoRow},
             checking : Seq(User), rows : SUBSET Row, done : Turned]
  BY DEF State
<1> HIDE DEF Turned
<1> QED BY <1>1 DEF Shape

\* The fields of a state that goes on to another pc.
LEMMA AtFields ==
  ASSUME NEW p \in Worker, Shape(worker[p]), NEW pc
  PROVE  /\ At(p, pc).pc = pc /\ At(p, pc).session = worker[p].session
         /\ At(p, pc).con = worker[p].con /\ At(p, pc).checking = worker[p].checking
         /\ At(p, pc).rows = worker[p].rows /\ At(p, pc).done = worker[p].done
BY DEF At, Shape

LEMMA ConFields ==
  ASSUME NEW p \in Worker, Shape(worker[p]), NEW pc, NEW con
  PROVE  LET x == [At(p, pc) EXCEPT !.con = con]
         IN  x.pc = pc /\ x.con = con /\ x.session = worker[p].session /\ x.done = worker[p].done
BY DEF At, Shape

LEMMA RowsFields ==
  ASSUME NEW p \in Worker, Shape(worker[p]), NEW pc, NEW rows
  PROVE  LET x == [At(p, pc) EXCEPT !.rows = rows]
         IN  /\ x.pc = pc /\ x.rows = rows /\ x.session = worker[p].session
             /\ x.con = worker[p].con /\ x.checking = worker[p].checking
             /\ x.done = worker[p].done
BY DEF At, Shape

\* All but the acting worker p rest or stay as they are.
LEMMA OthersChange ==
  ASSUME NEW p \in Worker, NEW w, NEW victims, Step(p, w, victims),
         NEW q \in Worker, q # p
  PROVE  SameWork(q) \/ Rests(q)
BY DEF Step, SameWork, Rests, Blank

LEMMA ActorChanges ==
  ASSUME NEW p \in Worker, NEW w, NEW victims, Step(p, w, victims), p \notin victims
  PROVE  worker'[p] = w
BY DEF Step

\* Every action changes a worker in one of these ways.
LEMMA Workers ==
  ASSUME IInv, WorkersKnown, [Next]_vars, NEW q \in Worker
  PROVE  Changes(q)
<1> USE DEF Serves
<1>0. Shape(worker[q]) /\ InTurn(q)
  BY IInvSplit, StateShape DEF WorkerInv, WorkersKnown
<1>1. ASSUME NEW p \in Worker, p # q,
             \/ IdleExit(p) \/ Crash(p) \/ Recheck(p) \/ Leave(p) \/ Request(p)
             \/ \E u \in Session : Accept(p, u)
      PROVE  Changes(q)
  <2>1. \E w, victims : Step(p, w, victims)
    BY <1>1 DEF IdleExit, Crash, Recheck, Leave, Accept, Request, CheckIp, Lookup, Refuse,
                Insert, TakeOver, Count, CloseNext, CloseDone, Serve
  <2> QED BY <1>1, <2>1, OthersChange DEF Changes
<1>2. CASE IdleExit(q) \/ Crash(q) \/ Recheck(q) \/ Leave(q) \/ Refuse(q)
  <2>1. Step(q, Blank("dead"), {}) \/ Step(q, Blank("idle"), {})
    BY <1>2 DEF IdleExit, Crash, Recheck, Leave, Refuse
  <2> QED BY <2>1, ActorChanges DEF Changes, Rests, Blank
<1>3. CASE \E u \in Session : Accept(q, u)
  <2>1. PICK u \in Session, pc \in {"ip check", "lookup"} :
          Step(q, [Blank(pc) EXCEPT !.session = u], {})
    BY <1>3 DEF Accept
  <2>2. worker'[q] = [Blank(pc) EXCEPT !.session = u]
    BY <2>1, ActorChanges
  <2> QED BY <2>2 DEF Changes, Starts, Blank
<1>4. CASE CheckIp(q)
  <2>1. worker'[q] = Blank("idle") \/ worker'[q] = At(q, "lookup")
    BY <1>4, ActorChanges DEF CheckIp
  <2>2. worker[q].done = {}
    BY <1>0, <1>4 DEF CheckIp, InTurn
  <2>3. CASE worker'[q] = Blank("idle")
    <3>1. worker'[q].pc = "idle" /\ worker'[q].con = NoRow /\ worker'[q].done = {}
      BY <2>3 DEF Blank
    <3> QED BY <3>1 DEF Changes, Rests
  <2>4. CASE worker'[q] = At(q, "lookup")
    <3>1. /\ worker'[q].pc = "lookup" /\ worker'[q].done = {}
          /\ worker'[q].con = worker[q].con /\ worker'[q].session = worker[q].session
      BY <1>0, <2>2, <2>4, AtFields
    <3> QED BY <3>1 DEF Changes, Starts
  <2> QED BY <2>1, <2>3, <2>4
<1>5. CASE Lookup(q)
  <2>1. PICK con \in OfSession(q) \cup OfViewer(q) \cup {NoRow} :
          worker'[q] = [At(q, "open") EXCEPT !.con = con]
    BY <1>5, ActorChanges DEF Lookup
  <2>2. worker[q].done = {}
    BY <1>0, <1>5 DEF Lookup, InTurn
  <2>3. /\ worker'[q].pc = "open" /\ worker'[q].done = {} /\ worker'[q].con = con
        /\ worker'[q].session = worker[q].session
    BY <1>0, <2>1, <2>2, ConFields
  <2> QED BY <1>5, <2>1, <2>3 DEF Changes, Finds
<1>6. CASE Insert(q) \/ TakeOver(q)
  <2>1. \E victims : Step(q, Opened(q), victims) /\ q \notin victims
    BY <1>6 DEF Insert, TakeOver, Predecessor
  <2>2. worker'[q] = Opened(q)
    BY <2>1, ActorChanges
  <2>3. worker[q].done = {}
    BY <1>0, <1>6 DEF Insert, TakeOver, InTurn
  <2>4. Opened(q) = [worker[q] EXCEPT !.pc = "validate", !.con = NoRow, !.checking = ToCheck(q)]
    BY <1>0 DEF Opened, At, Shape
  <2>5. /\ worker'[q].pc = "validate" /\ worker'[q].done = {} /\ worker'[q].con = NoRow
        /\ worker'[q].session = worker[q].session /\ worker'[q].checking = ToCheck(q)
    BY <1>0, <2>2, <2>3, <2>4 DEF Shape
  <2> QED BY <2>5 DEF Changes, Opens
<1>7. CASE Count(q)
  <2> DEFINE rows == RowsOfUser(Head(worker[q].checking))
  <2>1. worker[q].done = {}
    BY <1>0, <1>7 DEF Count, InTurn
  <2>2. CASE ToKill(rows, MaxConn[UserOn(q)]) = 0
    <3>1. worker'[q] = Checked(q)
      BY <1>7, <2>2, ActorChanges DEF Count
    <3>2. Checked(q) = [worker[q] EXCEPT !.pc = "validate", !.checking = Tail(@),
                                         !.rows = {}, !.done = {}]
      BY <1>0 DEF Checked, At, Shape
    <3>3. /\ worker'[q].pc = "validate" /\ worker'[q].done = {} /\ Validates(q)
          /\ worker'[q].checking = Tail(worker[q].checking)
      BY <1>0, <3>1, <3>2 DEF Shape, Validates
    <3> QED BY <1>7, <2>2, <3>3 DEF Changes, Skips
  <2>3. CASE ToKill(rows, MaxConn[UserOn(q)]) # 0
    <3>1. worker'[q] = [At(q, "close") EXCEPT !.rows = rows]
      BY <1>7, <2>3, ActorChanges DEF Count
    <3>2. /\ worker'[q].pc = "close" /\ worker'[q].done = {} /\ Validates(q)
          /\ worker'[q].checking = worker[q].checking /\ worker'[q].rows = rows
      <4> HIDE DEF rows
      <4> QED BY <1>0, <2>1, <3>1, RowsFields DEF Validates
    <3> QED BY <1>7, <3>2 DEF Changes, Takes
  <2> QED BY <2>2, <2>3
<1>8. CASE CloseNext(q)
  <2>1. PICK t \in Turns(worker[q].rows, Requester(q)) :
          /\ IsNext(t, worker[q].rows, Requester(q), worker[q].done)
          /\ Step(q, [worker[q] EXCEPT !.done = @ \cup {t}], Victims(q[1], t[2]))
          /\ lines_live' = {r \in lines_live : r.id # t[2].id}
    BY <1>8 DEF CloseNext
  <2>2. t[2].pid # q[2]
    BY <2>1, NextTurn
  <2>3. q \notin Victims(q[1], t[2])
    BY <2>2 DEF Victims, Named
  <2>4. worker'[q] = [worker[q] EXCEPT !.done = @ \cup {t}]
    BY <2>1, <2>3, ActorChanges
  <2> QED BY <1>0, <1>8, <2>1, <2>4 DEF Changes, ClosesRow, Validates, Shape, CloseNext
<1>9. CASE CloseDone(q)
  <2>1. worker'[q] = Checked(q)
    BY <1>9, ActorChanges DEF CloseDone
  <2>2. Checked(q) = [worker[q] EXCEPT !.pc = "validate", !.checking = Tail(@),
                                       !.rows = {}, !.done = {}]
    BY <1>0 DEF Checked, At, Shape
  <2>3. /\ worker'[q].pc = "validate" /\ worker'[q].done = {} /\ Validates(q)
        /\ worker'[q].checking = Tail(worker[q].checking)
    BY <1>0, <2>1, <2>2 DEF Shape, Validates
  <2> QED BY <1>9, <2>3 DEF Changes, Finishes
<1>10. CASE Serve(q)
  <2>1. worker'[q] = Blank("idle") \/ worker'[q] = At(q, "play")
    BY <1>10, ActorChanges DEF Serve
  <2>2. worker[q].done = {}
    BY <1>0, <1>10 DEF Serve, InTurn
  <2> QED BY <1>0, <1>10, <2>1, <2>2, AtFields DEF Changes, Plays, Rests, Validates, Blank
<1>11. ASSUME NEW s \in Server, Daemon(s) \/ SignalRestart(s)
       PROVE  Changes(q)
  <2>1. worker' = worker \/ \E victims : KillOnly(victims)
    BY <1>11 DEF Daemon, SignalKill, SignalDelete, SignalRestart
  <2> QED BY <2>1 DEF KillOnly, Changes, SameWork, Rests, Blank
<1>12. CASE (\E r \in lines_live : GoStale(r)) \/ UNCHANGED vars
  BY <1>12 DEF GoStale, vars, Changes, SameWork
<1> QED BY <1>1, <1>2, <1>3, <1>4, <1>5, <1>6, <1>7, <1>8, <1>9, <1>10, <1>11, <1>12
        DEF Next, Request

-----------------------------------------------------------------------------
(* What a step does to the table.                                          *)

\* A row keeps its identity.
Alike(l, r) == l.id = r.id /\ l.uuid = r.uuid /\ l.user = r.user /\ l.server = r.server

Descends ==
  /\ activity' \in Nat /\ activity' >= activity
  /\ IsFiniteSet(lines_live')
  /\ \A l \in lines_live' : \/ \E r \in lines_live : Alike(l, r)
                            \/ l.id = activity /\ Origin(l)'
  /\ \A l, m \in lines_live' : l.id = m.id => l = m

\* The rows are records of numbered ids.
LEMMA Numbers ==
  ASSUME IInv
  PROVE  /\ activity \in Nat /\ lines_live \subseteq Row
         /\ \A r \in Row : r.id \in Nat
<1>1. activity \in 1..(MaxActivity + 1) /\ lines_live \subseteq Row
  BY IInvParts DEF TableInv
<1>2. \A r \in Row : r.id \in Nat
  BY BoundAssumption DEF Row
<1> QED BY <1>1, <1>2, BoundAssumption

\* The session of a worker that serves one.
LEMMA SessionOf ==
  ASSUME IInv, NEW p \in Worker, Busy(p)
  PROVE  /\ worker[p].session \in Session /\ HomeOf[worker[p].session] = p[1]
         /\ p = <<p[1], p[2]>> /\ p[2] \in Pid /\ UserOn(p) \in User
<1>1. worker[p].session \in Session /\ HomeOf[worker[p].session] = p[1]
  BY DEF IInv, TypeOK
<1> QED BY <1>1, SessionAssumption DEF Worker, UserOn

LEMMA InsertDescends ==
  ASSUME LInv, NEW p \in Worker, Insert(p) PROVE Descends
<1>1. PICK new : /\ new.id = activity /\ new.user = UserOf[new.uuid] /\ new.server = HomeOf[new.uuid]
                 /\ lines_live' = lines_live \cup {new} /\ activity' = activity + 1
  <2> DEFINE row == NewRow(worker[p].session, IF Kind(p) = "hls" THEN NoPid ELSE p[2])
  <2>1. row.id = activity /\ row.user = UserOf[row.uuid] /\ row.server = HomeOf[row.uuid]
    BY DEF NewRow
  <2>2. lines_live' = lines_live \cup {row} /\ activity' = activity + 1
    BY DEF Insert
  <2> QED BY <2>1, <2>2
<1>2. IInv /\ TableKnown /\ activity \in Nat /\ activity' > activity
  BY <1>1, Numbers DEF LInv
<1>3. \A r \in lines_live : r.id \in Nat /\ r.id < activity
  BY <1>2, Numbers DEF TableKnown, Origin
<1>4. IsFiniteSet(lines_live')
  BY <1>1, <1>2, FS_AddElement DEF TableKnown
<1>5. Origin(new)'
  BY <1>1, <1>2 DEF Origin
<1>6. \A l, m \in lines_live' : l.id = m.id => l = m
  BY <1>1, <1>2, <1>3 DEF TableKnown
<1>7. \A l \in lines_live : Alike(l, l)
  BY DEF Alike
<1>8. \A l \in lines_live' : \/ \E r \in lines_live : Alike(l, r)
                             \/ l.id = activity /\ Origin(l)'
  BY <1>1, <1>5, <1>7
<1> QED BY <1>1, <1>2, <1>4, <1>6, <1>8 DEF Descends

\* A row a worker takes over keeps its identity: for HLS its server is the
\* session's, which is the worker's.
LEMMA UpdatedAlike ==
  ASSUME LInv, NEW p \in Worker, TakeOver(p), NEW r \in lines_live
  PROVE  /\ Alike(Updated(p, r), r)
         /\ Updated(p, r).pid # r.pid => r.id = worker[p].con.id /\ Updated(p, r).pid = p[2]
         /\ r.id = worker[p].con.id => r.user = UserOn(p) /\ r.server = worker[p].con.server
<1> DEFINE con == worker[p].con
<1>1. con # NoRow /\ ReadKnown(p) /\ Origin(r)
  BY DEF TakeOver, LInv, WorkersKnown, TableKnown
<1>2. r.id = con.id => r.user = UserOn(p) /\ r.server = con.server
  BY <1>1 DEF ReadKnown, Origin
<1>3. r \in Row
  BY Numbers DEF LInv
<1>4. CASE r.id # con.id
  BY <1>2, <1>4 DEF Updated, Alike
<1>5. CASE r.id = con.id /\ Kind(p) = "hls"
  <2>1. r.server = p[1]
    BY <1>1, <1>2, <1>5 DEF ReadKnown
  <2>2. Updated(p, r) = [r EXCEPT !.stale = FALSE, !.server = p[1]]
    BY <1>5 DEF Updated
  <2> HIDE DEF con
  <2> QED BY <1>2, <1>3, <2>1, <2>2 DEF Alike, Row, con
<1>6. CASE r.id = con.id /\ Kind(p) # "hls"
  <2>1. PICK stale : Updated(p, r) = [r EXCEPT !.pid = p[2], !.stale = stale]
    BY <1>3, <1>6 DEF Updated, Row
  <2> QED BY <1>2, <1>3, <1>6, <2>1 DEF Alike, Row
<1> QED BY <1>4, <1>5, <1>6

LEMMA TakeOverDescends ==
  ASSUME LInv, NEW p \in Worker, TakeOver(p) PROVE Descends
<1>1. lines_live' = {Updated(p, r) : r \in lines_live} /\ activity' = activity
  BY DEF TakeOver
<1>2. IInv /\ TableKnown /\ activity \in Nat
  BY Numbers DEF LInv
<1>3. \A r \in lines_live : Alike(Updated(p, r), r)
  BY UpdatedAlike
<1>4. IsFiniteSet(lines_live')
  <2> DEFINE f == [r \in lines_live |-> Updated(p, r)]
  <2>1. f \in Surjection(lines_live, lines_live')
    BY <1>1 DEF Surjection
  <2> QED BY <1>2, <2>1, FS_Surjection DEF TableKnown
<1>5. \A l, m \in lines_live' : l.id = m.id => l = m
  <2> SUFFICES ASSUME NEW r \in lines_live, NEW s \in lines_live,
                      Updated(p, r).id = Updated(p, s).id
               PROVE  Updated(p, r) = Updated(p, s)
    BY <1>1
  <2>1. r.id = s.id
    BY <1>3 DEF Alike
  <2> QED BY <1>2, <2>1 DEF TableKnown
<1> QED BY <1>1, <1>2, <1>3, <1>4, <1>5 DEF Descends

\* A closing takes a row out, and staleness is no part of a row's identity.
LEMMA CloseNextDescends ==
  ASSUME LInv, NEW p \in Worker, CloseNext(p) PROVE Descends
<1>1. lines_live' \subseteq lines_live /\ activity' = activity
  BY DEF CloseNext
<1>2. TableKnown /\ activity \in Nat
  BY Numbers DEF LInv
<1>3. IsFiniteSet(lines_live')
  BY <1>1, <1>2, FS_Subset DEF TableKnown
<1> QED BY <1>1, <1>2, <1>3 DEF Descends, Alike, TableKnown

LEMMA GoStaleDescends ==
  ASSUME LInv, NEW r \in lines_live, GoStale(r) PROVE Descends
<1>1. PICK s : /\ s = [r EXCEPT !.stale = TRUE]
               /\ lines_live' = (lines_live \ {r}) \cup {s}
  BY DEF GoStale
<1>2. activity' = activity /\ TableKnown /\ activity \in Nat /\ r \in Row
  BY Numbers DEF LInv, GoStale
<1>3. Alike(s, r)
  BY <1>1, <1>2 DEF Alike, Row
<1>4. IsFiniteSet(lines_live')
  <2>1. IsFiniteSet(lines_live \ {r})
    BY <1>2, FS_RemoveElement DEF TableKnown
  <2> QED BY <1>1, <2>1, FS_AddElement
<1>5. \A l, m \in lines_live' : l.id = m.id => l = m
  <2>1. \A l \in lines_live' : (l \in lines_live /\ l # r) \/ l = s
    BY <1>1
  <2>2. s.id = r.id
    BY <1>3 DEF Alike
  <2>3. \A l, m \in lines_live : l.id = m.id => l = m
    BY <1>2 DEF TableKnown
  <2> QED BY <2>1, <2>2, <2>3
<1>6. \A l \in lines_live' : \E m \in lines_live : Alike(l, m)
  BY <1>1, <1>3 DEF Alike
<1> QED BY <1>2, <1>4, <1>5, <1>6 DEF Descends

\* The steps that leave the table alone.
LEMMA TableSteps ==
  ASSUME [Next]_vars
  PROVE  \/ UNCHANGED <<lines_live, activity>>
         \/ \E p \in Worker : Insert(p) \/ TakeOver(p) \/ CloseNext(p)
         \/ \E r \in lines_live : GoStale(r)
BY DEF Next, vars, IdleExit, Crash, Accept, Request, CheckIp, Lookup, Refuse, Count, CloseDone,
       Serve, Recheck, Leave, Daemon, SignalKill, SignalDelete, SignalRestart

\* Every row of the next table is one of this table's, or the one inserted.
LEMMA TableDescends == ASSUME LInv, [Next]_vars PROVE Descends
<1>1. CASE UNCHANGED <<lines_live, activity>>
  BY <1>1, Numbers DEF LInv, Descends, Alike, TableKnown
<1> QED BY <1>1, TableSteps, InsertDescends, TakeOverDescends, CloseNextDescends, GoStaleDescends

LEMMA TableKnownNext == ASSUME LInv, [Next]_vars PROVE TableKnown'
<1>1. Descends /\ TableKnown /\ activity \in Nat
  BY TableDescends, Numbers DEF LInv
<1>2. \A r \in lines_live : r.id \in Nat /\ Origin(r)
  BY <1>1, Numbers DEF LInv, TableKnown
<1>3. \A l \in lines_live' : Origin(l)'
  BY <1>1, <1>2 DEF Descends, Alike, Origin
<1> QED BY <1>1, <1>3 DEF TableKnown, Descends

-----------------------------------------------------------------------------
(* What a worker has read.                                                 *)

LEMMA ReadKnownNext ==
  ASSUME LInv, [Next]_vars, NEW q \in Worker PROVE ReadKnown(q)'
<1>1. Changes(q) /\ Descends /\ TableKnown /\ ReadKnown(q) /\ IInv
  BY Workers, TableDescends DEF LInv, WorkersKnown
<1>2. CASE worker'[q].con = NoRow
  BY <1>2 DEF ReadKnown
<1>3. CASE worker'[q].con = worker[q].con /\ worker'[q].session = worker[q].session
  <2> SUFFICES ASSUME worker[q].con # NoRow PROVE ReadKnown(q)'
    BY <1>2, <1>3
  <2>1. PICK con : con = worker[q].con
    OBVIOUS
  <2>2. /\ Origin(con) /\ con.user = UserOn(q)
        /\ Kind(q) # "VOD" => con.server = q[1]
        /\ \A r \in lines_live : r.id = con.id => r.uuid = con.uuid
    BY <1>1, <2>1 DEF ReadKnown
  <2>3. worker[q].con \in Row
    BY <1>1, IInvSplit, Zenon DEF WorkerInv, State
  <2>4. con.id \in Nat /\ activity \in Nat
    BY <1>1, <2>1, <2>3, Numbers
  <2>5. Origin(con)'
    BY <1>1, <2>2, <2>4 DEF Origin, Descends
  <2>6. \A l \in lines_live' : l.id = con.id => l.uuid = con.uuid
    BY <1>1, <2>2, <2>4 DEF Descends, Alike, Origin
  <2>7. UserOn(q)' = UserOn(q) /\ Kind(q)' = Kind(q) /\ worker'[q].con = con
    BY <1>3, <2>1 DEF UserOn, Kind
  <2> QED BY <2>2, <2>5, <2>6, <2>7 DEF ReadKnown
<1>4. CASE Finds(q)
  <2> SUFFICES ASSUME worker'[q].con # NoRow PROVE ReadKnown(q)'
    BY <1>2
  <2>1. PICK con : con = worker'[q].con
    OBVIOUS
  <2>2. con \in OfSession(q) \cup OfViewer(q) /\ UNCHANGED <<lines_live, activity>>
    BY <1>4, <2>1 DEF Finds, Lookup
  <2>3. con \in lines_live /\ Origin(con)
    BY <1>1, <2>2 DEF OfSession, OfViewer, TableKnown
  <2>4. con.user = UserOn(q) /\ (Kind(q) # "VOD" => con.server = q[1])
    BY <2>2, <2>3 DEF OfSession, OfViewer, Origin, UserOn
  <2>5. \A l \in lines_live' : l.id = con.id => l.uuid = con.uuid
    BY <1>1, <2>2, <2>3 DEF TableKnown
  <2>6. UserOn(q)' = UserOn(q) /\ Kind(q)' = Kind(q) /\ Origin(con)'
    BY <1>4, <2>2, <2>3 DEF Finds, UserOn, Kind, Origin
  <2> QED BY <2>1, <2>4, <2>5, <2>6 DEF ReadKnown
<1> QED BY <1>1, <1>2, <1>3, <1>4
        DEF Changes, SameWork, Rests, Starts, Opens, Skips, Takes, ClosesRow, Finishes, Plays, Validates

\* The line to check next.
LEMMA Tails ==
  ASSUME NEW a, NEW b
  PROVE  /\ Tail(<<a>>) = <<>> /\ Tail(<<b, a>>) = <<a>>
         /\ <<a>> # <<>> /\ <<b, a>> # <<>> /\ <<b, a>> # <<a>>
         /\ Head(<<a>>) = a
OBVIOUS

LEMMA InTurnNext ==
  ASSUME LInv, [Next]_vars, NEW q \in Worker PROVE InTurn(q)'
<1>1. Changes(q) /\ InTurn(q)
  BY Workers DEF LInv, WorkersKnown
<1> DEFINE line == UserOn(q)
           lists == {<<>>, <<line>>, <<PairOf[line], line>>}
<1>2. worker'[q].session = worker[q].session => UserOn(q)' = line
  BY DEF UserOn
<1>3. CASE SameWork(q)
  BY <1>1, <1>2, <1>3 DEF SameWork, InTurn, Serves
<1>4. CASE Rests(q) \/ Starts(q) \/ Finds(q) \/ Plays(q)
  BY <1>4 DEF Rests, Starts, Finds, Plays, InTurn, Serves
<1>5. CASE Opens(q)
  <2>1. ToCheck(q) \in lists
    BY DEF ToCheck
  <2> HIDE DEF line
  <2> QED BY <1>2, <1>5, <2>1 DEF Opens, InTurn, Serves
<1>6. CASE Skips(q) \/ Finishes(q)
  <2>1. worker[q].checking # <<>> /\ worker[q].checking \in lists
    <3>1. worker[q].checking # <<>>
      BY <1>6 DEF Skips, Count, Finishes, CloseDone, LInv, IInv, LineToClose
    <3>2. Serves(q, "validate") \/ Serves(q, "close")
      BY <1>6 DEF Skips, Count, Finishes, CloseDone
    <3> QED BY <1>1, <3>1, <3>2 DEF InTurn
  <2>2. Tail(worker[q].checking) \in lists
    BY <2>1, Tails
  <2> HIDE DEF line
  <2> QED BY <1>2, <1>6, <2>2 DEF Skips, Finishes, Validates, InTurn, Serves
<1>7. CASE Takes(q) \/ ClosesRow(q)
  <2>1. worker[q].checking \in lists
    BY <1>1, <1>7 DEF Takes, Count, ClosesRow, CloseNext, InTurn
  <2> HIDE DEF line
  <2> QED BY <1>2, <1>7, <2>1 DEF Takes, ClosesRow, Validates, InTurn, Serves
<1> QED BY <1>1, <1>3, <1>4, <1>5, <1>6, <1>7 DEF Changes

-----------------------------------------------------------------------------
(* The snapshot of closeConnections.                                       *)

\* The turns that close a row are in a strict and total order.
LEMMA ToCloseOrdered ==
  ASSUME LInv, NEW p \in Worker, Serves(p, "close"),
         NEW t, ToClose(p, t), NEW u, ToClose(p, u)
  PROVE  /\ t = u \/ Before(t, u) \/ Before(u, t)
         /\ ~ (Before(t, u) /\ Before(u, t))
         /\ t[2] \in worker[p].rows /\ t[2].id \in Nat
<1>1. /\ t = <<t[1], t[2]>> /\ u = <<u[1], u[2]>>
      /\ t[1] \in {0, 1, 2} /\ u[1] \in {0, 1, 2}
      /\ t[2] \in worker[p].rows /\ u[2] \in worker[p].rows
  BY DEF ToClose, Turns, KillTypes
<1>2. \A r \in worker[p].rows : r \in Row
  BY IInvSplit, Zenon DEF LInv, WorkerInv, State
<1>3. t[2].id \in Nat /\ u[2].id \in Nat
  BY <1>1, <1>2, Numbers DEF LInv
<1>4. t[2].id = u[2].id => t[2] = u[2]
  BY <1>1 DEF LInv, WorkersKnown, SnapshotKnown
<1>5. ~ (Before(t, u) /\ Before(u, t))
  BY <1>1, <1>3 DEF Before
<1>6. t[1] = u[1] \/ Before(t, u) \/ Before(u, t)
  BY <1>1 DEF Before
<1>7. t[1] = u[1] => t[2].id = u[2].id \/ Before(t, u) \/ Before(u, t)
  BY <1>3 DEF Before
<1> QED BY <1>1, <1>3, <1>4, <1>5, <1>6, <1>7

\* A turn that is to close a row and is not pending any more is done.
LEMMA NotPendingIsDone ==
  ASSUME LInv, NEW p \in Worker, Serves(p, "close"), NEW u, ToClose(p, u),
         u \notin Pending(worker[p].rows, Requester(p), worker[p].done)
  PROVE  u \in worker[p].done
<1>1. SnapshotKnown(p)
  BY DEF LInv, WorkersKnown
<1>2. PICK d \in worker[p].done : ~ Before(d, u)
  BY DEF Pending, ToClose
<1>3. ToClose(p, d)
  BY <1>1 DEF SnapshotKnown
<1>4. d = u \/ Before(u, d)
  BY <1>2, <1>3, ToCloseOrdered
<1> QED BY <1>1, <1>4 DEF SnapshotKnown

\* Snapshots are of the table.
LEMMA RowsKnown ==
  ASSUME LInv, NEW u
  PROVE  /\ IsFiniteSet(RowsOfUser(u)) /\ Cardinality(RowsOfUser(u)) \in Nat
         /\ RowsOfUser(u) \subseteq lines_live
<1>1. RowsOfUser(u) \subseteq lines_live /\ IsFiniteSet(lines_live)
  BY DEF RowsOfUser, LInv, TableKnown
<1> QED BY <1>1, FS_Subset, FS_CardinalityType

LEMMA SnapshotKnownNext ==
  ASSUME LInv, [Next]_vars, NEW q \in Worker PROVE SnapshotKnown(q)'
<1> SUFFICES ASSUME worker'[q].pc = "close" PROVE SnapshotKnown(q)'
  BY DEF SnapshotKnown, Serves
<1>1. Changes(q) /\ Descends /\ SnapshotKnown(q) /\ TableKnown
  BY Workers, TableDescends DEF LInv, WorkersKnown
<1>2. CASE Takes(q)
  <2>1. PICK rows : rows = RowsOfUser(Head(worker[q].checking))
    OBVIOUS
  <2>2. IsFiniteSet(rows) /\ rows \subseteq lines_live
    BY <2>1, RowsKnown
  <2>3. worker'[q].rows = rows /\ worker'[q].done = {} /\ activity' = activity
    BY <1>2, <2>1 DEF Takes, Count
  <2>4. /\ \A r \in rows : r.id < activity
        /\ \A r, s \in rows : r.id = s.id => r = s
    BY <1>1, <2>2 DEF TableKnown, Origin
  <2> QED BY <2>2, <2>3, <2>4 DEF SnapshotKnown
<1>3. CASE worker[q].pc = "close"
  <2>1. /\ worker'[q].rows = worker[q].rows /\ worker'[q].session = worker[q].session
        /\ SameWork(q) \/ ClosesRow(q)
    BY <1>1, <1>3
       DEF Changes, SameWork, Rests, Starts, Finds, Opens, Skips, Takes, ClosesRow, Finishes,
           Plays, Validates, Lookup, Count, Serves
  <2>2. \A t : ToClose(q, t)' <=> ToClose(q, t)
    BY <2>1 DEF ToClose, Requester
  <2> DEFINE rows == worker[q].rows
             done == worker[q].done
  <2>3. /\ IsFiniteSet(rows)
        /\ \A r \in rows : r.id < activity /\ r.id \in Nat
        /\ \A r, s \in rows : r.id = s.id => r = s
        /\ \A t \in done : ToClose(q, t) /\ t[2] \in rows
        /\ \A t \in done : \A u : ToClose(q, u) /\ Before(u, t) => u \in done
        /\ \A t \in done : \A r \in lines_live : r.id # t[2].id
    <3>1. \A r \in rows : r \in Row
      BY IInvSplit, Zenon DEF LInv, WorkerInv, State
    <3>2. \A t : ToClose(q, t) => t[2] \in rows
      BY DEF ToClose, Turns
    <3> QED BY <1>1, <1>3, <3>1, <3>2, Numbers DEF SnapshotKnown, Serves, LInv
  <2>4. activity \in Nat /\ activity' \in Nat /\ activity' >= activity
    BY <1>1, Numbers DEF LInv, Descends
  <2>5. \A t \in done : \A l \in lines_live' : l.id # t[2].id
    <3> SUFFICES ASSUME NEW t \in done, NEW l \in lines_live', l.id = t[2].id PROVE FALSE
      OBVIOUS
    <3>1. CASE \E r \in lines_live : Alike(l, r)
      BY <2>3, <3>1 DEF Alike
    <3>2. CASE l.id = activity
      <4>1. t[2].id < activity
        BY <2>3
      <4>2. t[2].id = activity
        BY <3>2
      <4> QED BY <2>4, <4>1, <4>2
    <3> QED BY <1>1, <3>1, <3>2 DEF Descends
  <2>6. \A r \in rows : r.id < activity'
    BY <2>3, <2>4
  <2>7. CASE SameWork(q)
    <3>1. worker'[q].done = done
      BY <2>7 DEF SameWork
    <3> HIDE DEF rows, done
    <3> QED BY <2>1, <2>2, <2>3, <2>5, <2>6, <3>1 DEF SnapshotKnown, rows
  <2>8. CASE ClosesRow(q)
    <3>1. PICK t \in Turns(rows, Requester(q)) :
            /\ IsNext(t, rows, Requester(q), done)
            /\ worker'[q].done = done \cup {t}
            /\ lines_live' = {r \in lines_live : r.id # t[2].id}
      BY <2>8 DEF ClosesRow
    <3>2. ToClose(q, t)
      BY <3>1 DEF ToClose, IsNext, Pending
    <3>3. \A u : ToClose(q, u) /\ Before(u, t) => u \in done
      <4> SUFFICES ASSUME NEW u, ToClose(q, u), Before(u, t) PROVE u \in done
        OBVIOUS
      <4>1. Serves(q, "close")
        BY <1>3 DEF Serves
      <4>2. ~ Before(t, u)
        BY <3>2, <4>1, ToCloseOrdered
      <4>3. u # t
        BY <3>2, <4>1, ToCloseOrdered
      <4>4. u \notin Pending(rows, Requester(q), done)
        BY <3>1, <4>2, <4>3 DEF IsNext
      <4> QED BY <4>1, <4>4, NotPendingIsDone
    <3>4. \A l \in lines_live' : l.id # t[2].id
      BY <3>1
    <3> HIDE DEF rows, done
    <3> QED BY <2>1, <2>2, <2>3, <2>5, <2>6, <3>1, <3>2, <3>3, <3>4 DEF SnapshotKnown, rows
  <2> QED BY <2>1, <2>7, <2>8
<1> QED BY <1>1, <1>2, <1>3
        DEF Changes, SameWork, Rests, Starts, Finds, Opens, Skips, Takes, ClosesRow, Finishes, Plays,
            CloseNext, Serves

\* The history notes the coincidences.
LimitStep == [LimitNext]_<<vars, excused>>

LEMMA StepOfNext ==
  ASSUME LimitStep
  PROVE  /\ [Next]_vars /\ excused \subseteq excused'
         /\ (Next /\ excused' = excused \cup Excuses) \/ worker' = worker
BY DEF LimitStep, LimitNext, vars

\* What a step excuses.
LEMMA Excused ==
  ASSUME LimitStep, NEW q \in Worker, worker'[q] # worker[q]
  PROVE  /\ ClosesAgain(q) \/ PassesOver(q) => Head(worker[q].checking) \in excused'
         /\ TakesAbroad(q) => UserOn(q) \in excused'
<1>1. excused' = excused \cup Excuses
  BY StepOfNext
<1> QED BY <1>1 DEF Excuses

LEMMA PlainNext ==
  ASSUME LInv, LimitStep, NEW q \in Worker PROVE Plain(q)'
<1> SUFFICES ASSUME worker'[q].pc = "close", Head(worker'[q].checking) \notin excused'
             PROVE  Plain(q)'
  BY DEF Plain, Serves
<1>1. Changes(q) /\ [Next]_vars /\ Plain(q) /\ excused \subseteq excused'
  BY Workers, StepOfNext DEF LInv, WorkersKnown
<1>2. CASE SameWork(q)
  BY <1>1, <1>2 DEF SameWork, Plain, Serves
<1>3. CASE Takes(q)
  <2>1. ~PassesOver(q) /\ Serves(q, "validate")
    <3>1. worker'[q] # worker[q] /\ Serves(q, "validate")
      BY <1>3 DEF Takes, Count, Serves
    <3>2. Head(worker[q].checking) \notin excused'
      BY <1>3 DEF Takes
    <3> QED BY <3>1, <3>2, Excused
  <2>2. \A r \in worker'[q].rows : r.pid = q[2] => r.server = q[1]
    BY <2>1 DEF PassesOver
  <2> QED BY <1>3, <2>2 DEF Takes, Plain
<1>4. CASE ClosesRow(q)
  <2>1. PICK t : worker'[q].done = worker[q].done \cup {t}
    BY <1>4 DEF ClosesRow
  <2>2. worker'[q].checking = worker[q].checking /\ worker'[q].rows = worker[q].rows
    BY <1>4 DEF ClosesRow
  <2>3. CASE t \in worker[q].done
    BY <1>1, <1>4, <2>1, <2>2, <2>3 DEF Plain, Serves, CloseNext, ClosesRow
  <2>4. CASE t \notin worker[q].done
    <3>1. ~ClosesAgain(q)
      BY <2>1, <2>2, <2>4, Excused
    <3>2. \A d \in worker[q].done : d[2] # t[2]
      BY <2>1, <2>4, <3>1 DEF ClosesAgain
    <3>3. /\ \A u, d \in worker[q].done : u[2] = d[2] => u = d
          /\ \A r \in worker[q].rows : r.pid = q[2] => r.server = q[1]
      BY <1>1, <1>4, <2>2 DEF Plain, Serves, CloseNext, ClosesRow
    <3> QED BY <2>1, <2>2, <3>2, <3>3 DEF Plain
  <2> QED BY <2>3, <2>4
<1> QED BY <1>1, <1>2, <1>3, <1>4
        DEF Changes, Rests, Starts, Finds, Opens, Skips, Finishes, Plays

-----------------------------------------------------------------------------
(* The cover.                                                              *)

\* The rows by which a line's holders hold it are not new.
Kept(u) ==
  \A l \in RowsOfUser(u)' : Owner(l) \in Holders(u)' =>
    \E r \in RowsOfUser(u) : r.id = l.id /\ Owner(r) = Owner(l)

\* A worker that has opened its row has not counted yet.
LEMMA OpenedUncounted ==
  ASSUME LInv, NEW p \in Worker, Busy(p), Opens(p), MaxConn[UserOn(p)] > 0
  PROVE  ~Counted(p)'
<1>1. worker'[p].checking = ToCheck(p) /\ worker'[p].pc = "validate"
  BY DEF Opens
<1>2. MaxConn[UserOn(p)] # 0
  BY SessionOf, LineAssumption DEF LInv
<1>3. ToCheck(p) # <<>>
  BY <1>2, Tails DEF ToCheck
<1> QED BY <1>1, <1>3 DEF Counted, Serves

LEMMA InsertOpens ==
  ASSUME LInv, NEW p \in Worker, Insert(p) \/ TakeOver(p)
  PROVE  Opens(p) /\ Busy(p) /\ [Next]_vars
<1>1. [Next]_vars
  BY DEF Next, Request
<1>2. worker[p].pc = "open"
  BY DEF Insert, TakeOver, Serves
<1>3. p \notin Predecessor(p)
  BY DEF Predecessor
<1>4. worker'[p] = Opened(p)
  BY <1>3, ActorChanges DEF Insert, TakeOver
<1>5. Opened(p).pc = "validate"
  <2>1. Shape(worker[p])
    BY IInvSplit, StateShape DEF LInv, WorkerInv
  <2>2. Opened(p) = [worker[p] EXCEPT !.pc = "validate", !.con = NoRow, !.checking = ToCheck(p)]
    BY <2>1 DEF Opened, At, Shape
  <2> QED BY <2>1, <2>2 DEF Shape
<1>6. Changes(p)
  BY <1>1, Workers DEF LInv
<1> QED BY <1>1, <1>2, <1>4, <1>5, <1>6
        DEF Changes, SameWork, Rests, Starts, Finds, Skips, Takes, ClosesRow, Finishes, Plays,
            Count, CloseNext, CloseDone, Serve, Serves, Busy

LEMMA RowsKept ==
  ASSUME LInv, LimitStep, NEW u \in User \ excused', MaxConn[u] > 0
  PROVE  Kept(u)
<1> SUFFICES ASSUME NEW l \in lines_live', l.user = u, Owner(l) \in Holders(u)'
             PROVE  \E r \in RowsOfUser(u) : r.id = l.id /\ Owner(r) = Owner(l)
  BY DEF Kept, RowsOfUser
<1>1. [Next]_vars /\ TableKnown /\ lines_live \subseteq Row
  BY StepOfNext, Numbers DEF LInv
<1>2. CASE l \in lines_live
  BY <1>2 DEF RowsOfUser
<1>3. ASSUME NEW r \in lines_live, GoStale(r) PROVE \E s \in lines_live : Alike(l, s) /\ l.pid = s.pid
  <2>1. l \in lines_live \/ l = [r EXCEPT !.stale = TRUE]
    BY <1>3 DEF GoStale
  <2>2. r \in Row
    BY <1>1
  <2> QED BY <2>1, <2>2 DEF Alike, Row
<1>4. ASSUME NEW s \in lines_live, Alike(l, s), l.pid = s.pid
      PROVE  \E r \in RowsOfUser(u) : r.id = l.id /\ Owner(r) = Owner(l)
  BY <1>4 DEF Alike, RowsOfUser, Owner
<1>5. ASSUME NEW p \in Worker, Opens(p), Busy(p), UserOn(p) = u PROVE p \notin Holders(u)'
  BY <1>5, OpenedUncounted DEF Holders
<1>6. ASSUME NEW p \in Worker, Insert(p), l \notin lines_live PROVE FALSE
  <2>1. Opens(p) /\ Busy(p)
    BY <1>6, InsertOpens
  <2>2. /\ HomeOf[worker[p].session] = p[1] /\ p = <<p[1], p[2]>>
    BY <2>1, SessionOf DEF LInv
  <2>3. l = NewRow(worker[p].session, IF Kind(p) = "hls" THEN NoPid ELSE p[2])
    BY <1>6 DEF Insert
  <2>4. l.user = UserOn(p) /\ l.server = p[1] /\ l.pid \in {NoPid, p[2]}
    BY <2>2, <2>3 DEF NewRow, UserOn
  <2>5. Owner(l) \in Worker
    BY DEF Holders
  <2>6. l.pid \in Pid
    BY <2>5 DEF Owner, Worker
  <2>7. Owner(l) = p
    BY <2>2, <2>4, <2>6, NullAssumption DEF Owner
  <2> QED BY <1>5, <2>1, <2>4, <2>7
<1>7. ASSUME NEW p \in Worker, TakeOver(p)
      PROVE  \E s \in lines_live : Alike(l, s) /\ l.pid = s.pid
  <2>1. Opens(p) /\ Busy(p)
    BY <1>7, InsertOpens
  <2>2. p = <<p[1], p[2]>>
    BY <2>1, SessionOf DEF LInv
  <2>3. PICK s \in lines_live : l = Updated(p, s)
    BY <1>7 DEF TakeOver
  <2>4. /\ Alike(l, s)
        /\ l.pid # s.pid => s.id = worker[p].con.id /\ l.pid = p[2]
        /\ s.id = worker[p].con.id => s.user = UserOn(p) /\ s.server = worker[p].con.server
    BY <1>7, <2>3, UpdatedAlike
  <2>5. CASE l.pid # s.pid
    <3>1. UserOn(p) = u
      BY <2>4, <2>5 DEF Alike
    <3>2. worker'[p] # worker[p] /\ worker'[p].pc = "validate" /\ Serves(p, "open")
      BY <1>7, <2>1 DEF Opens, TakeOver, Serves
    <3>3. ~TakesAbroad(p)
      BY <3>1, <3>2, Excused
    <3>4. worker[p].con.server = p[1]
      BY <1>7, <3>2, <3>3 DEF TakesAbroad, TakeOver
    <3>5. Owner(l) = p
      BY <2>2, <2>4, <2>5, <3>4 DEF Owner, Alike
    <3> QED BY <1>5, <2>1, <3>1, <3>5
  <2> QED BY <2>4, <2>5
<1>8. ASSUME NEW p \in Worker, CloseNext(p) PROVE l \in lines_live
  BY <1>8 DEF CloseNext
<1>9. UNCHANGED <<lines_live, activity>> => l \in lines_live
  OBVIOUS
<1> QED BY <1>1, <1>2, <1>3, <1>4, <1>6, <1>7, <1>8, <1>9, TableSteps

\* A worker that goes on as it was covers what it covered.
LEMMA SameCovers ==
  ASSUME NEW u, Kept(u), NEW q \in Holders(u)',
         worker'[q].pc = worker[q].pc, worker'[q].checking = worker[q].checking,
         worker'[q].rows = worker[q].rows, worker'[q].session = worker[q].session
  PROVE  /\ q \in Holders(u)
         /\ \A S \in SUBSET Holders(u)' : Covers(u, q, S) => Covers(u, q, S)'
<1>1. Counted(q) /\ UserOn(q) = u
  BY DEF Holders, Counted, UserOn, Serves
<1>2. q \in Holders(u)
  BY <1>1 DEF Holders, Kept
<1>3. ASSUME NEW S \in SUBSET Holders(u)', Covers(u, q, S), worker[q].pc = "close"
      PROVE  Covers(u, q, S)'
  <2>1. \A r \in RowsOfUser(u) : Owner(r) \in S =>
          \E x \in worker[q].rows : x.id = r.id /\ Owner(x) = Owner(r)
    BY <1>3 DEF Covers, Serves
  <2>2. \A l \in RowsOfUser(u)' : Owner(l) \in S =>
          \E x \in worker[q].rows : x.id = l.id /\ Owner(x) = Owner(l)
    BY <2>1 DEF Kept
  <2> QED BY <1>3, <2>2 DEF Covers, Serves, Owner
<1>4. ASSUME NEW S \in SUBSET Holders(u)', Covers(u, q, S), worker[q].pc # "close"
      PROVE  Covers(u, q, S)'
  BY <1>4 DEF Covers, Serves
<1> QED BY <1>2, <1>3, <1>4

\* As many workers as own rows of a set of rows.
LEMMA OwnersBound ==
  ASSUME NEW S, NEW R, IsFiniteSet(R), \A p \in S : \E r \in R : Owner(r) = p
  PROVE  IsFiniteSet(S) /\ Cardinality(S) <= Cardinality(R)
<1> DEFINE f == [p \in S |-> CHOOSE r \in R : Owner(r) = p]
<1>1. \A p \in S : f[p] \in R /\ Owner(f[p]) = p
  OBVIOUS
<1>2. f \in Injection(S, R)
  <2>1. f \in [S -> R]
    BY <1>1
  <2>2. \A a, b \in S : f[a] = f[b] => a = b
    BY <1>1
  <2> HIDE DEF f
  <2> QED BY <2>1, <2>2 DEF Injection, IsInjective
<1> QED BY <1>2, FS_Injection

\* Only after counting may a worker hold a row of its line.
LEMMA HolderFacts ==
  ASSUME LInv, NEW u \in User, MaxConn[u] > 0, NEW q \in Holders(u)'
  PROVE  q \in Worker /\ Counted(q)' /\ UserOn(q)' = u /\ MaxConn[u] \in Nat
BY LineAssumption DEF Holders

\* A request that finds no more rows than allowed covers everyone.
LEMMA SkipCovers ==
  ASSUME LInv, LimitStep, NEW u \in User, MaxConn[u] > 0, NEW q \in Holders(u)', Skips(q)
  PROVE  \A S \in SUBSET Holders(u)' : q \in S => Covers(u, q, S)'
<1>1. worker'[q].session = worker[q].session /\ worker'[q].pc = "validate"
      /\ worker[q].pc = "validate" /\ worker[q].checking # <<>>
      /\ worker'[q].checking = Tail(worker[q].checking) /\ lines_live' = lines_live
  BY DEF Skips, Validates, Count, Serves
<1>2. UserOn(q) = u /\ worker'[q].checking = <<>>
  <2>1. Counted(q)' /\ UserOn(q)' = u
    BY HolderFacts
  <2> QED BY <1>1, <2>1 DEF Counted, Serves, UserOn
<1>3. InTurn(q)
  BY HolderFacts DEF LInv, WorkersKnown
<1>4. worker[q].checking = <<u>>
  BY <1>1, <1>2, <1>3, Tails DEF InTurn, Serves
<1>5. ToKill(RowsOfUser(u), MaxConn[u]) = 0
  BY <1>2, <1>4, Tails DEF Skips
<1>6. Cardinality(RowsOfUser(u)) <= MaxConn[u]
  BY <1>5, RowsKnown, HolderFacts DEF ToKill
<1>7. ASSUME NEW S \in SUBSET Holders(u)' PROVE Covers(u, q, S)'
  <2>1. \A p \in S : \E r \in RowsOfUser(u) : Owner(r) = p
    BY <1>1 DEF Holders, RowsOfUser, Owner
  <2>2. IsFiniteSet(S) /\ Cardinality(S) <= Cardinality(RowsOfUser(u))
    BY <2>1, RowsKnown, OwnersBound
  <2>3. Cardinality(S) <= MaxConn[u]
    BY <1>6, <2>2, RowsKnown, HolderFacts, FS_CardinalityType
  <2> QED BY <1>1, <2>2, <2>3 DEF Covers, Serves
<1> QED BY <1>7

\* One that finds more has all their rows in its snapshot.
LEMMA TakeCovers ==
  ASSUME LInv, LimitStep, NEW u \in User, MaxConn[u] > 0, NEW q \in Holders(u)', Takes(q)
  PROVE  \A S \in SUBSET Holders(u)' : q \in S => Covers(u, q, S)'
<1>1. worker'[q].session = worker[q].session /\ worker'[q].pc = "close"
      /\ worker'[q].checking = worker[q].checking /\ lines_live' = lines_live
      /\ worker'[q].rows = RowsOfUser(Head(worker[q].checking))
  BY DEF Takes, Validates, Count
<1>2. UserOn(q)' = u /\ worker'[q].checking = <<UserOn(q)'>>
  BY <1>1, HolderFacts DEF Counted, Serves
<1>3. Head(worker[q].checking) = u
  BY <1>1, <1>2, Tails
<1>4. worker'[q].rows = RowsOfUser(u)'
  BY <1>1, <1>3 DEF RowsOfUser
<1> QED BY <1>1, <1>4 DEF Covers, Serves

\* When the closing ends, either enough rows are gone or all but its own.
LEMMA FinishCovers ==
  ASSUME LInv, LimitStep, NEW u \in User \ excused', MaxConn[u] > 0, Kept(u),
         NEW q \in Holders(u)', Finishes(q)
  PROVE  /\ q \in Holders(u)
         /\ \A S \in SUBSET Holders(u)' : q \in S /\ Covers(u, q, S) => Covers(u, q, S)'
<1>1. /\ worker'[q].session = worker[q].session /\ worker'[q].pc = "validate"
      /\ worker[q].pc = "close" /\ ~More(q)
      /\ worker'[q].checking = Tail(worker[q].checking) /\ lines_live' = lines_live
  BY DEF Finishes, Validates, CloseDone, Serves
<1>2. UserOn(q) = u /\ worker'[q].checking = <<>> /\ q \in Worker /\ MaxConn[u] \in Nat
  BY <1>1, HolderFacts DEF Counted, Serves, UserOn
<1>3. InTurn(q) /\ SnapshotKnown(q) /\ Plain(q) /\ worker[q].checking # <<>>
  BY <1>1, <1>2 DEF LInv, WorkersKnown, IInv, LineToClose, Serves
<1>4. worker[q].checking = <<u>> /\ Head(worker[q].checking) = u
  BY <1>1, <1>2, <1>3, Tails DEF InTurn, Serves
<1>5. q \in Holders(u)
  <2>1. Counted(q)
    BY <1>1, <1>2, <1>4 DEF Counted, Serves
  <2>2. PICK l \in RowsOfUser(u)' : Owner(l) = q
    BY DEF Holders, Owner
  <2> QED BY <1>1, <1>2, <2>1, <2>2 DEF Holders, RowsOfUser
<1> DEFINE rows == worker[q].rows
           done == worker[q].done
           gone == {t[2] : t \in done}
<1>6. /\ IsFiniteSet(rows)
      /\ \A r, s \in rows : r.id = s.id => r = s
      /\ \A t \in done : ToClose(q, t) /\ t[2] \in rows
      /\ \A t \in done : \A r \in lines_live : r.id # t[2].id
      /\ \A t, d \in done : t[2] = d[2] => t = d
      /\ \A r \in rows : r.pid = q[2] => r.server = q[1]
  <2>1. u \notin excused
    BY StepOfNext
  <2>2. \A t : ToClose(q, t) => t[2] \in rows
    BY DEF ToClose, Turns
  <2> QED BY <1>1, <1>3, <1>4, <2>1, <2>2 DEF SnapshotKnown, Plain, Serves
<1>7. ASSUME NEW S \in SUBSET Holders(u)', q \in S, Covers(u, q, S)
      PROVE  IsFiniteSet(S) /\ Cardinality(S) <= MaxConn[u]
  <2>1. ASSUME NEW p \in S
        PROVE  \E x \in rows \ gone : Owner(x) = p
    <3>1. PICK r \in RowsOfUser(u) : Owner(r) = p
      BY <1>1 DEF Holders, RowsOfUser, Owner
    <3>2. PICK x \in rows : x.id = r.id /\ Owner(x) = Owner(r)
      BY <1>1, <1>7, <3>1 DEF Covers, Serves
    <3>3. r \in lines_live
      BY <3>1 DEF RowsOfUser
    <3>4. x \notin gone
      BY <1>6, <3>2, <3>3
    <3> QED BY <3>1, <3>2, <3>4
  <2>2. CASE ~(Cardinality(done) < ToKill(rows, MaxConn[u]))
    <3>1. gone \subseteq rows
      BY <1>6
    <3>2. IsFiniteSet(gone) /\ Cardinality(gone) \in Nat /\ Cardinality(rows) \in Nat
      BY <1>6, <3>1, FS_Subset, FS_CardinalityType
    <3>3. IsFiniteSet(done) /\ Cardinality(done) <= Cardinality(gone)
      <4>0. IsFiniteSet(gone)
        BY <3>2
      <4> DEFINE f == [t \in done |-> t[2]]
      <4>1. f \in [done -> gone]
        OBVIOUS
      <4>2. \A a, b \in done : f[a] = f[b] => a = b
        BY <1>6
      <4> HIDE DEF f, done, gone
      <4>3. f \in Injection(done, gone)
        BY <4>1, <4>2 DEF Injection, IsInjective
      <4> QED BY <4>0, <4>3, FS_Injection
    <3>4. rows \cap gone = gone
      BY <3>1
    <3>5. IsFiniteSet(rows \ gone) /\ Cardinality(rows \ gone) = Cardinality(rows) - Cardinality(gone)
      <4>1. IsFiniteSet(rows)
        BY <1>6
      <4> HIDE DEF rows, gone
      <4> QED BY <3>4, <4>1, FS_Difference
    <3>6. Cardinality(done) \in Nat
      BY <3>3, FS_CardinalityType
    <3>7. Cardinality(rows \ gone) <= MaxConn[u]
      <4> HIDE DEF rows, done, gone
      <4> QED BY <1>2, <2>2, <3>2, <3>3, <3>5, <3>6 DEF ToKill
    <3>8. IsFiniteSet(S) /\ Cardinality(S) <= Cardinality(rows \ gone)
      BY <2>1, <3>5, OwnersBound
    <3>9. Cardinality(S) \in Nat /\ Cardinality(rows \ gone) \in Nat
      BY <3>5, <3>8, FS_CardinalityType
    <3> QED BY <1>2, <3>7, <3>8, <3>9
  <2>3. CASE Pending(rows, Requester(q), done) = {}
    <3>1. \A x \in rows \ gone : x.pid = q[2]
      <4> SUFFICES ASSUME NEW x \in rows, x.pid # q[2] PROVE x \in gone
        OBVIOUS
      <4>1. ToClose(q, <<0, x>>)
        BY DEF ToClose, Turns, KillTypes, Closes, Requester
      <4>2. <<0, x>> \in done
        BY <1>1, <1>2, <2>3, <4>1, NotPendingIsDone DEF Serves
      <4> QED BY <4>2
    <3>2. \A x \in rows \ gone : Owner(x) = <<q[1], q[2]>>
      BY <1>6, <3>1 DEF Owner
    <3>3. S = {q}
      <4>1. q = <<q[1], q[2]>>
        BY <1>2 DEF Worker
      <4> QED BY <1>7, <2>1, <3>2, <4>1
    <3>4. IsFiniteSet({q}) /\ Cardinality({q}) = 1
      BY FS_Singleton
    <3> QED BY <1>2, <3>3, <3>4
  <2> QED BY <1>1, <1>2, <2>2, <2>3 DEF More
<1>8. \A S \in SUBSET Holders(u)' : q \in S /\ Covers(u, q, S) => Covers(u, q, S)'
  BY <1>1, <1>7 DEF Covers, Serves
<1> QED BY <1>5, <1>8

\* Every holder covers as it did, or covers all.
LEMMA HolderCovers ==
  ASSUME LInv, LimitStep, NEW u \in User \ excused', MaxConn[u] > 0, NEW q \in Holders(u)'
  PROVE  \/ \A S \in SUBSET Holders(u)' : q \in S => Covers(u, q, S)'
         \/ /\ q \in Holders(u)
            /\ \A S \in SUBSET Holders(u)' : q \in S /\ Covers(u, q, S) => Covers(u, q, S)'
<1>1. Kept(u) /\ q \in Worker /\ Counted(q)' /\ UserOn(q)' = u /\ [Next]_vars
  BY RowsKept, HolderFacts, StepOfNext
<1>2. Changes(q)
  BY <1>1, Workers DEF LInv
<1>3. CASE SameWork(q)
  BY <1>1, <1>3, SameCovers DEF SameWork
<1>4. CASE Rests(q) \/ Starts(q) \/ Finds(q)
  BY <1>1, <1>4 DEF Rests, Starts, Finds, Counted, Serves
<1>5. CASE Opens(q)
  <2>1. worker'[q].session = worker[q].session
    BY <1>5 DEF Opens
  <2>2. UserOn(q) = u
    BY <1>1, <2>1 DEF UserOn
  <2>3. ToCheck(q) = <<>>
    BY <1>1, <1>5 DEF Opens, Counted, Serves
  <2>4. MaxConn[u] = 0
    BY <2>2, <2>3, Tails DEF ToCheck
  <2>5. MaxConn[u] \in Nat
    BY HolderFacts
  <2> QED BY <2>4, <2>5
<1>6. CASE Skips(q)
  BY <1>6, SkipCovers
<1>7. CASE Takes(q)
  BY <1>7, TakeCovers
<1>8. CASE ClosesRow(q)
  <2>1. worker'[q].pc = worker[q].pc /\ worker'[q].session = worker[q].session
        /\ worker'[q].rows = worker[q].rows /\ worker'[q].checking = worker[q].checking
    BY <1>8 DEF ClosesRow, Validates, CloseNext, Serves
  <2> QED BY <1>1, <2>1, SameCovers
<1>9. CASE Finishes(q)
  BY <1>1, <1>9, FinishCovers
<1>10. CASE Plays(q)
  <2>1. /\ worker'[q].pc = "play" /\ worker'[q].session = worker[q].session
        /\ worker[q].pc = "validate" /\ worker[q].checking = <<>>
    BY <1>10 DEF Plays, Validates, Serve, Serves
  <2>2. Counted(q) /\ UserOn(q) = u
    BY <1>1, <2>1 DEF Counted, UserOn, Serves
  <2>3. q \in Holders(u)
    BY <1>1, <2>2 DEF Holders, Kept
  <2> QED BY <2>1, <2>3 DEF Covers, Serves
<1> QED BY <1>2, <1>3, <1>4, <1>5, <1>6, <1>7, <1>8, <1>9, <1>10 DEF Changes

\* So any set of holders has one that covers it.
LEMMA CoveredNext == ASSUME LInv, LimitStep PROVE Covered'
<1> SUFFICES ASSUME NEW u \in User \ excused', MaxConn[u] > 0,
                    NEW S \in SUBSET Holders(u)', S # {}
             PROVE  \E q \in S : Covers(u, q, S)'
  BY DEF Covered, Cover
<1>1. CASE \E q \in S : q \notin Holders(u)
  BY <1>1, HolderCovers
<1>2. CASE S \subseteq Holders(u)
  <2>1. u \in User \ excused
    BY StepOfNext
  <2>2. PICK q \in S : Covers(u, q, S)
    BY <1>2, <2>1 DEF LInv, Covered, Cover
  <2> QED BY <2>2, HolderCovers
<1> QED BY <1>1, <1>2

\* The invariant holds at first,
LEMMA InitLInv == LimitInit => LInv
<1> SUFFICES ASSUME LimitInit PROVE LInv
  OBVIOUS
<1>1. IInv
  BY InitIInv DEF LimitInit
<1>2. /\ lines_live = {} /\ activity = 1
      /\ \A p \in Worker : worker[p].pc = "dead" /\ worker[p].con = NoRow /\ worker[p].done = {}
  BY DEF LimitInit, Init, Blank
<1>3. TableKnown
  BY <1>2, FS_EmptySet DEF TableKnown
<1>4. WorkersKnown
  BY <1>2 DEF WorkersKnown, ReadKnown, InTurn, SnapshotKnown, Plain, Serves
<1>5. \A u \in User : Holders(u) = {}
  BY <1>2 DEF Holders, RowsOfUser
<1>6. Covered
  BY <1>5 DEF Covered, Cover
<1> QED BY <1>1, <1>3, <1>4, <1>6 DEF LInv

\* and every step keeps it.
LEMMA NextLInv == LInv /\ [LimitNext]_<<vars, excused>> => LInv'
<1> SUFFICES ASSUME LInv, LimitStep PROVE LInv'
  BY DEF LimitStep
<1>1. IInv' /\ TableKnown'
  BY StepOfNext, NextIInv, TableKnownNext DEF LInv
<1>2. WorkersKnown'
  BY StepOfNext, ReadKnownNext, InTurnNext, SnapshotKnownNext, PlainNext DEF WorkersKnown
<1> QED BY <1>1, <1>2, CoveredNext DEF LInv

\* A stream that has its row is a holder of its line.
LEMMA PlayersHold ==
  ASSUME LInv, NEW u \in User, NEW p \in Players(u), Registered(p)
  PROVE  p \in Holders(u)
<1>1. p \in Worker /\ Serves(p, "play") /\ UserOn(p) = u
  BY DEF Players
<1>2. p = <<p[1], p[2]>> /\ HomeOf[worker[p].session] = p[1]
  BY <1>1, SessionOf DEF Serves, Busy, LInv
<1>3. PICK r \in lines_live : r.pid = p[2] /\ r.uuid = worker[p].session
  BY DEF Registered
<1>4. r.user = u /\ r.server = p[1]
  BY <1>1, <1>2, <1>3 DEF LInv, TableKnown, Origin, UserOn
<1> QED BY <1>1, <1>2, <1>3, <1>4 DEF Holders, Counted, RowsOfUser, Owner

\* The limit holds for every line, however many requests validateConnections runs in
\* at a time, and whichever workers are killed or die meanwhile.
THEOREM LimitKept == LimitSpec => []LimitOnPlay
<1>1. LInv => LimitOnPlay
  <2> SUFFICES ASSUME LInv, NEW u \in User \ excused, MaxConn[u] > 0
               PROVE  Cardinality({p \in Players(u) : Registered(p)}) <= MaxConn[u]
    BY DEF LimitOnPlay, WithinLimit
  <2> DEFINE S == {p \in Players(u) : Registered(p)}
  <2>1. S \in SUBSET Holders(u)
    BY PlayersHold
  <2>2. CASE S = {}
    BY <2>2, FS_EmptySet, LineAssumption
  <2>3. CASE S # {}
    <3>1. PICK q \in S : Covers(u, q, S)
      BY <2>1, <2>3 DEF LInv, Covered, Cover
    <3>2. ~Serves(q, "close")
      BY DEF Players, Serves
    <3> QED BY <3>1, <3>2 DEF Covers
  <2> QED BY <2>2, <2>3
<1> QED BY <1>1, InitLInv, NextLInv, PTL DEF LimitSpec
=============================================================================
