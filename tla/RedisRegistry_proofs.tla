------------------------- MODULE RedisRegistry_proofs -------------------------
(***************************************************************************)
(* The registry of connections in Redis stays whole for any number of      *)
(* servers, workers and sessions.  IndexAgrees is inductive once types     *)
(* are known, for each MULTI writes record and indexes together.  NoGhost  *)
(* and OnlyOpenCounted need to know whose picture of a record may be       *)
(* stale: a live stream's token is good on one server only (AtHome), an    *)
(* open record names the worker that serves it (Named), and only a worker  *)
(* itself closes the record that names it (Own).                           *)
(***************************************************************************)
EXTENDS RedisRegistry, TLAPS

Pcs == {"dead", "idle", "lookup", "create", "kill", "open", "validate", "play", "leave", "close"}
Workers == [pc : Pcs, session : Session \cup {NoSession}, con : Rec \cup {NoRec}]

RegistryOK ==
  /\ rec \in [Session -> Rec \cup {NoRec}]
  /\ live \subseteq Session /\ ended \subseteq Session
  /\ on_server \in [Server -> SUBSET Session]
  /\ server_lines \in [Server -> SUBSET Session]

\* What a worker has read, at the places where the code uses it.
Sound(w) ==
  /\ w \in Workers
  /\ w.pc \notin {"dead", "idle"} => w.session \in Session
  /\ w.pc \in {"kill", "open", "close"} => w.con \in Rec

WorkersOK ==
  /\ worker \in [Worker -> Workers]
  /\ \A p \in Worker : Sound(worker[p])
  /\ orphaned \subseteq Session

LEMMA TypeParts == TypeOK <=> RegistryOK /\ WorkersOK
  BY DEF TypeOK, RegistryOK, WorkersOK, Sound, Workers, Pcs, Busy

\* A worker that goes to a sound place leaves the others where they are.
LEMMA GotoOK ==
  ASSUME WorkersOK, NEW p \in Worker, NEW w, Sound(w), Goto(p, w), orphaned' \subseteq Session
  PROVE  WorkersOK'
  BY DEF WorkersOK, Goto, Sound

LEMMA BlankOK == \A c \in {"dead", "idle"} : Sound(Blank(c))
  BY DEF Sound, Blank, Workers, Pcs

\* One MULTI that writes a record into the registry.
LEMMA WritesOK ==
  ASSUME RegistryOK, NEW u \in Session, NEW c \in Rec,
         Create(u, c) \/ UpdateOpen(u, c) \/ UpdateClose(u, c)
  PROVE  RegistryOK'
<1>1. [c EXCEPT !.ended = TRUE] \in Rec /\ [c EXCEPT !.ended = FALSE] \in Rec /\ c.server \in Server
  BY DEF Rec
<1>2. rec' \in [Session -> Rec \cup {NoRec}]
  BY <1>1 DEF RegistryOK, Create, UpdateOpen, UpdateClose
<1>3. ASSUME NEW I \in [Server -> SUBSET Session]
      PROVE  /\ With(I, c.server, u) \in [Server -> SUBSET Session]
             /\ Without(I, c.server, u) \in [Server -> SUBSET Session]
  BY <1>1 DEF With, Without
<1>4. on_server' \in [Server -> SUBSET Session] /\ server_lines' \in [Server -> SUBSET Session]
  BY <1>3 DEF RegistryOK, Create, UpdateOpen, UpdateClose
<1>5. live' \subseteq Session /\ ended' \subseteq Session
  BY DEF RegistryOK, Create, UpdateOpen, UpdateClose
<1> QED
  BY <1>2, <1>4, <1>5 DEF RegistryOK

\* The record that Register and Reopen write.
NewCon(p) == [server |-> p[1], pid |-> PidOf(p), ended |-> FALSE]
TakenCon(p) == IF worker[p].session \in Hls THEN [worker[p].con EXCEPT !.server = p[1]]
               ELSE [worker[p].con EXCEPT !.pid = p[2]]

LEMMA WorkerParts ==
  \A p \in Worker : p = <<p[1], p[2]>> /\ p[1] \in Server /\ p[2] \in Pid
  BY WorkerAssumption

LEMMA ConsOK ==
  ASSUME NEW p \in Worker
  PROVE  /\ NewCon(p) \in Rec
         /\ worker[p].con \in Rec => TakenCon(p) \in Rec
<1>1. p[1] \in Server /\ p[2] \in Pid
  BY WorkerParts
<1> QED
  BY <1>1 DEF NewCon, TakenCon, PidOf, Rec

\* Types: a worker that takes over, opens or closes has read a record before.
LEMMA TypeStep == TypeOK /\ [Next]_vars => TypeOK'
<1> SUFFICES ASSUME RegistryOK, WorkersOK, [Next]_vars PROVE RegistryOK' /\ WorkersOK'
  BY TypeParts, PTL
<1>1. CASE UNCHANGED vars
  BY <1>1 DEF vars, registry, RegistryOK, WorkersOK, Sound
<1>2. ASSUME UNCHANGED registry PROVE RegistryOK'
  BY <1>2 DEF registry, RegistryOK
<1>3. ASSUME NEW p \in Worker, NEW u \in Session, Accept(p, u) PROVE RegistryOK' /\ WorkersOK'
  <2>1. Sound([Blank("lookup") EXCEPT !.session = u])
    BY DEF Sound, Blank, Workers, Pcs
  <2> QED
    BY <1>2, <1>3, <2>1, GotoOK DEF Accept, WorkersOK
<1>4. ASSUME NEW p \in Worker, Lookup(p) PROVE RegistryOK' /\ WorkersOK'
  <2> DEFINE u == worker[p].session
             c == IF rec[u] = NoRec THEN "create" ELSE IF u \in Hls THEN "open" ELSE "kill"
  <2>1. u \in Session /\ worker[p] \in Workers
    BY <1>4 DEF Lookup, Serves, WorkersOK, Sound
  <2>2. rec[u] \in Rec \cup {NoRec}
    BY <2>1 DEF RegistryOK
  <2>3. [At(p, c) EXCEPT !.con = rec[u]] = [pc |-> c, session |-> u, con |-> rec[u]]
    <3> HIDE DEF c
    <3>1. At(p, c) = [pc |-> c, session |-> u, con |-> worker[p].con]
      BY <2>1 DEF At, Workers
    <3> QED
      BY <3>1
  <2>4. Sound([pc |-> c, session |-> u, con |-> rec[u]])
    <3>1. c \in Pcs /\ c # "close" /\ (c \in {"kill", "open"} => rec[u] \in Rec)
      BY <2>2 DEF Pcs
    <3> QED
      BY <2>1, <2>2, <3>1 DEF Sound, Workers
  <2> QED
    BY <1>2, <1>4, <2>3, <2>4, GotoOK DEF Lookup, WorkersOK
<1>5. ASSUME NEW p \in Worker, Refuse(p) \/ IdleExit(p) PROVE RegistryOK' /\ WorkersOK'
  BY <1>2, <1>5, BlankOK, GotoOK DEF Refuse, IdleExit, WorkersOK
<1>6. ASSUME NEW p \in Worker, KillPredecessor(p) PROVE RegistryOK' /\ WorkersOK'
  <2>1. Sound(At(p, "open"))
    BY <1>6 DEF KillPredecessor, Serves, WorkersOK, Sound, Workers, Pcs, At
  <2>2. \A q \in Worker : Busy(q) => worker[q].session \in Session
    BY DEF WorkersOK, Sound, Busy
  <2>3. orphaned' \subseteq Session
    BY <1>6, <2>2 DEF KillPredecessor, WorkersOK
  <2>4. \A q \in Worker : Sound(worker'[q])
    BY <1>6, <2>1, BlankOK DEF KillPredecessor, WorkersOK
  <2>5. worker' \in [Worker -> Workers]
    BY <1>6, <2>4 DEF KillPredecessor, Sound
  <2> QED
    BY <1>2, <1>6, <2>3, <2>4, <2>5 DEF KillPredecessor, WorkersOK
<1>7. ASSUME NEW p \in Worker, worker[p].session \in Session PROVE Sound(Opened(p))
  BY <1>7 DEF Opened, At, Sound, WorkersOK, Workers, Pcs
<1>8. ASSUME NEW p \in Worker, Register(p) PROVE RegistryOK' /\ WorkersOK'
  <2>1. worker[p].session \in Session
    BY <1>8 DEF Register, Serves, WorkersOK, Sound
  <2>2. RegistryOK'
    BY <1>8, <2>1, WritesOK, ConsOK DEF Register, NewCon
  <2> QED
    BY <1>7, <1>8, <2>1, <2>2, GotoOK DEF Register, WorkersOK
<1>9. ASSUME NEW p \in Worker, Reopen(p) PROVE RegistryOK' /\ WorkersOK'
  <2>1. worker[p].session \in Session /\ worker[p].con \in Rec
    BY <1>9 DEF Reopen, Serves, WorkersOK, Sound
  <2>2. RegistryOK'
    BY <1>9, <2>1, WritesOK, ConsOK DEF Reopen, TakenCon
  <2> QED
    BY <1>7, <1>9, <2>1, <2>2, GotoOK DEF Reopen, WorkersOK
<1>10. ASSUME NEW p \in Worker, worker[p].pc \notin {"dead", "idle"} PROVE Sound(At(p, "play")) /\ Sound(At(p, "leave"))
  BY <1>10 DEF At, Sound, WorkersOK, Workers, Pcs
<1>11. ASSUME NEW p \in Worker, Validate(p) \/ Recheck(p) \/ Leave(p)
       PROVE  RegistryOK' /\ WorkersOK'
  BY <1>2, <1>10, <1>11, BlankOK, GotoOK DEF Validate, Recheck, Leave, Serves, WorkersOK
<1>12. ASSUME NEW p \in Worker, ValidateFails(p) \/ Crash(p) PROVE RegistryOK' /\ WorkersOK'
  <2>1. worker[p].session \in Session
    BY <1>12 DEF ValidateFails, Crash, Busy, Serves, WorkersOK, Sound
  <2> QED
    BY <1>2, <1>12, <2>1, BlankOK, GotoOK DEF ValidateFails, Crash, WorkersOK
<1>13. ASSUME NEW p \in Worker, ShutdownReads(p) PROVE RegistryOK' /\ WorkersOK'
  <2> DEFINE u == worker[p].session
  <2>1. u \in Session /\ worker[p] \in Workers
    BY <1>13 DEF ShutdownReads, Serves, WorkersOK, Sound
  <2>2. ASSUME rec[u] # NoRec PROVE Sound([At(p, "close") EXCEPT !.con = rec[u]])
    <3>1. rec[u] \in Rec
      BY <2>1, <2>2 DEF RegistryOK
    <3> QED
      BY <2>1, <3>1 DEF At, Sound, Workers, Pcs
  <2> QED
    BY <1>2, <1>13, <2>2, BlankOK, GotoOK DEF ShutdownReads, WorkersOK
<1>14. ASSUME NEW p \in Worker, ShutdownCloses(p) PROVE RegistryOK' /\ WorkersOK'
  <2>1. worker[p].session \in Session /\ worker[p].con \in Rec
    BY <1>14 DEF ShutdownCloses, Serves, WorkersOK, Sound
  <2>2. RegistryOK'
    BY <1>14, <2>1, WritesOK DEF ShutdownCloses
  <2> QED
    BY <1>14, <2>2, BlankOK, GotoOK DEF ShutdownCloses, WorkersOK
<1> QED
  BY <1>1, <1>3, <1>4, <1>5, <1>6, <1>8, <1>9, <1>11, <1>12, <1>13, <1>14 DEF Next, Request

LEMMA TypeInit == Init => TypeOK
  BY DEF Init, TypeOK, Blank, Busy, Rec

\* The registry and the workers hold what the code puts there, and a worker that
\* takes over, opens or closes a connection has read its record.
THEOREM TypeCorrect == Spec => []TypeOK
  BY TypeInit, TypeStep, PTL DEF Spec

-----------------------------------------------------------------------------
(* The indexes                                                             *)

LEMMA WritesAgree ==
  ASSUME RegistryOK, IndexAgrees, NEW u \in Session, NEW c \in Rec,
         (Create(u, c) /\ ~c.ended) \/ UpdateOpen(u, c) \/ UpdateClose(u, c)
  PROVE  IndexAgrees'
<1>1. c.server \in Server
  BY DEF Rec
<1>2. \A v \in Session \ {u} : rec'[v] = rec[v] /\ (Open(v)' <=> Open(v))
  BY DEF RegistryOK, Create, UpdateOpen, UpdateClose, Open
<1>3. /\ [c EXCEPT !.ended = TRUE] \in Rec /\ [c EXCEPT !.ended = TRUE].ended
      /\ [c EXCEPT !.ended = FALSE] \in Rec /\ ~[c EXCEPT !.ended = FALSE].ended
      /\ [c EXCEPT !.ended = FALSE].server = c.server
  BY DEF Rec
<1>4. CASE (Create(u, c) /\ ~c.ended) \/ UpdateOpen(u, c)
  <2>1. Open(u)' /\ rec'[u].server = c.server /\ live' = live \cup {u}
    BY <1>3, <1>4, RecordAssumption DEF RegistryOK, Create, UpdateOpen, Open
  <2>2. on_server' = With(on_server, c.server, u)
    BY <1>4 DEF Create, UpdateOpen
  <2>3. u \in on_server'[c.server] /\ \A s \in Server : on_server[s] \subseteq on_server'[s]
    BY <1>1, <2>2 DEF RegistryOK, With
  <2>4. \A v \in ended : v = u \/ v \in ended'
    BY <1>4 DEF Create, UpdateOpen
  <2>5. \A v \in Session \ {u} : rec[v] # NoRec => rec[v].server \in Server
    BY DEF RegistryOK, Rec
  <2>6. live' = {v \in Session : Open(v)'}
    BY <1>2, <2>1 DEF IndexAgrees
  <2>7. \A v \in live' : v \in on_server'[rec'[v].server]
    BY <1>2, <2>1, <2>3, <2>5 DEF IndexAgrees, Open
  <2>8. \A v \in Session : rec'[v] # NoRec /\ ~Open(v)' => v \in ended'
    BY <1>2, <2>1, <2>4 DEF IndexAgrees
  <2> QED
    BY <2>6, <2>7, <2>8 DEF IndexAgrees
<1>5. CASE UpdateClose(u, c)
  <2>1. ~Open(u)' /\ live' = live \ {u} /\ ended' = ended \cup {u}
    BY <1>3, <1>5 DEF RegistryOK, UpdateClose, Open
  <2>2. on_server' = Without(on_server, c.server, u)
    BY <1>5 DEF UpdateClose
  <2>3. \A s \in Server : on_server[s] \ {u} \subseteq on_server'[s]
    BY <1>1, <2>2 DEF RegistryOK, Without
  <2>4. \A v \in Session \ {u} : rec[v] # NoRec => rec[v].server \in Server
    BY DEF RegistryOK, Rec
  <2>5. live' = {v \in Session : Open(v)'}
    BY <1>2, <2>1 DEF IndexAgrees
  <2>6. \A v \in live' : v \in on_server'[rec'[v].server]
    BY <1>2, <2>1, <2>3, <2>4 DEF IndexAgrees, Open
  <2>7. \A v \in Session : rec'[v] # NoRec /\ ~Open(v)' => v \in ended'
    BY <1>2, <2>1 DEF IndexAgrees
  <2> QED
    BY <2>5, <2>6, <2>7 DEF IndexAgrees
<1> QED
  BY <1>4, <1>5

\* Which steps write, and what.
LEMMA Writers ==
  ASSUME TypeOK, [Next]_vars, ~UNCHANGED registry
  PROVE  \E p \in Worker :
           /\ worker[p].session \in Session
           /\ \/ Register(p)
              \/ Reopen(p) /\ worker[p].con \in Rec
              \/ ShutdownCloses(p) /\ worker[p].con \in Rec
<1>1. PICK p \in Worker : Register(p) \/ Reopen(p) \/ ShutdownCloses(p)
  BY DEF Next, Request, Accept, Lookup, Refuse, KillPredecessor, Validate, ValidateFails, Recheck,
         Leave, ShutdownReads, IdleExit, Crash, vars
<1>2. WorkersOK
  BY TypeParts
<1> QED
  BY <1>1, <1>2 DEF WorkersOK, Sound, Serves, Register, Reopen, ShutdownCloses

LEMMA IndexStep == TypeOK /\ IndexAgrees /\ [Next]_vars => IndexAgrees'
<1> SUFFICES ASSUME TypeOK, IndexAgrees, [Next]_vars PROVE IndexAgrees'
  OBVIOUS
<1>1. CASE UNCHANGED registry
  BY <1>1 DEF registry, IndexAgrees, Open
<1>2. CASE ~UNCHANGED registry
  <2>1. RegistryOK
    BY TypeParts
  <2>2. PICK p \in Worker :
          /\ worker[p].session \in Session
          /\ \/ Register(p)
             \/ Reopen(p) /\ worker[p].con \in Rec
             \/ ShutdownCloses(p) /\ worker[p].con \in Rec
    BY <1>2, Writers
  <2>3. CASE Register(p)
    BY <2>1, <2>2, <2>3, WritesAgree, ConsOK DEF Register, NewCon
  <2>4. CASE Reopen(p) /\ worker[p].con \in Rec
    BY <2>1, <2>2, <2>4, WritesAgree, ConsOK DEF Reopen, TakenCon
  <2>5. CASE ShutdownCloses(p) /\ worker[p].con \in Rec
    BY <2>1, <2>2, <2>5, WritesAgree DEF ShutdownCloses
  <2> QED
    BY <2>2, <2>3, <2>4, <2>5
<1> QED
  BY <1>1, <1>2

LEMMA IndexInit == Init => IndexAgrees
  BY DEF Init, IndexAgrees, Open

\* Whatever stale records the workers write back, LIVE, ENDED and SERVER# agree
\* with the records after every MULTI.
THEOREM IndexesAgree == Spec => []IndexAgrees
  BY TypeInit, TypeStep, IndexInit, IndexStep, PTL DEF Spec

-----------------------------------------------------------------------------
(* Ghosts and SERVER_LINES#                                                *)

Serving == {"validate", "play", "leave", "close"}

\* A token of a live stream is served on its server only, and its record is kept there.
AtHome ==
  /\ \A p \in Worker : Busy(p) /\ worker[p].session \notin Hls =>
       /\ HomeOf[worker[p].session] = p[1]
       /\ worker[p].con # NoRec => worker[p].con.server = p[1]
  /\ \A u \in Session \ Hls : rec[u] # NoRec => rec[u].server = HomeOf[u]

\* An open connection of a live stream names the worker that serves it.
Named ==
  \A u \in Session \ (Hls \cup orphaned) : Open(u) =>
    \E p \in Worker : /\ p[1] = HomeOf[u] /\ p[2] = rec[u].pid
                      /\ worker[p].session = u /\ worker[p].pc \in Serving

\* A record that names a worker that still serves it was closed by nobody else,
\* and so was the one the worker's shutdown handler has read.
Own ==
  \A p \in Worker : worker[p].session \in Session \ Hls =>
    LET con == rec[worker[p].session] IN
    /\ worker[p].pc \in {"validate", "play", "leave"} /\ con # NoRec /\ con.pid = p[2]
         => ~con.ended
    /\ worker[p].pc = "close" => ~worker[p].con.ended /\ worker[p].con.pid = p[2]

\* SERVER_LINES# holds open connections, each under its own server.
Counted == \A s \in Server : \A u \in server_lines[s] \ Hls : u \in live /\ s = HomeOf[u]

IInv == TypeOK /\ IndexAgrees /\ AtHome /\ Named /\ Own /\ Counted

LEMMA IInit == Init => IInv
<1> SUFFICES ASSUME Init PROVE IInv
  OBVIOUS
<1>1. AtHome
  BY DEF Init, AtHome, Busy, Blank
<1>2. Named
  BY DEF Init, Named, Open
<1>3. Own
  BY DEF Init, Own, Blank
<1>4. Counted
  BY DEF Init, Counted
<1> QED
  BY <1>1, <1>2, <1>3, <1>4, TypeInit, IndexInit DEF IInv

LEMMA Moves ==
  ASSUME WorkersOK, NEW p \in Worker, NEW w, Goto(p, w)
  PROVE  worker'[p] = w /\ \A q \in Worker \ {p} : worker'[q] = worker[q]
  BY DEF WorkersOK, Goto

LEMMA AtFacts ==
  ASSUME WorkersOK, NEW p \in Worker, NEW c
  PROVE  At(p, c) = [pc |-> c, session |-> worker[p].session, con |-> worker[p].con]
<1>1. worker[p] \in Workers
  BY DEF WorkersOK
<1> QED
  BY <1>1 DEF At, Workers

\* A pid of a server is one worker.
LEMMA PidsDiffer ==
  \A p, q \in Worker : p[1] = q[1] /\ p[2] = q[2] => p = q
  BY WorkerParts

\* The steps after which a worker's session and record are at home.
LEMMA StaysAtHome ==
  ASSUME AtHome, WorkersOK,
         \A u \in Session \ Hls : rec'[u] # NoRec => rec'[u].server = HomeOf[u],
         \A q \in Worker :
           \/ worker'[q] = worker[q]
           \/ worker'[q].pc \in {"dead", "idle"}
           \/ /\ worker'[q].con = NoRec
              /\ worker'[q].session \notin Hls => HomeOf[worker'[q].session] = q[1]
           \/ /\ Busy(q) /\ worker'[q].session = worker[q].session
              /\ worker'[q].con \in {NoRec, worker[q].con, rec[worker[q].session]}
  PROVE  AtHome'
<1>1. ASSUME NEW q \in Worker, Busy(q)', worker'[q].session \notin Hls
      PROVE  /\ HomeOf[worker'[q].session] = q[1]
             /\ worker'[q].con # NoRec => worker'[q].con.server = q[1]
  <2>1. CASE worker'[q] = worker[q]
    BY <1>1, <2>1 DEF AtHome, Busy
  <2>2. CASE /\ worker'[q].con = NoRec
             /\ worker'[q].session \notin Hls => HomeOf[worker'[q].session] = q[1]
    BY <1>1, <2>2
  <2>3. CASE /\ Busy(q) /\ worker'[q].session = worker[q].session
             /\ worker'[q].con \in {NoRec, worker[q].con, rec[worker[q].session]}
    <3>1. worker[q].session \in Session
      BY <2>3 DEF WorkersOK, Sound, Busy
    <3> QED
      BY <1>1, <2>3, <3>1 DEF AtHome
  <2> QED
    BY <1>1, <2>1, <2>2, <2>3 DEF Busy
<1> QED
  BY <1>1 DEF AtHome

\* What every step does to the workers' sessions and records.
LEMMA WorkerMoves ==
  ASSUME TypeOK, [Next]_vars, NEW q \in Worker
  PROVE  \/ worker'[q] = worker[q]
         \/ worker'[q].pc \in {"dead", "idle"}
         \/ /\ worker'[q].con = NoRec
            /\ worker'[q].session \notin Hls => HomeOf[worker'[q].session] = q[1]
         \/ /\ Busy(q) /\ worker'[q].session = worker[q].session
            /\ worker'[q].con \in {NoRec, worker[q].con, rec[worker[q].session]}
<1>1. WorkersOK
  BY TypeParts
<1> DEFINE Moved(w) == \/ w = worker[q]
                       \/ w.pc \in {"dead", "idle"}
                       \/ /\ w.con = NoRec
                          /\ w.session \notin Hls => HomeOf[w.session] = q[1]
                       \/ /\ Busy(q) /\ w.session = worker[q].session
                          /\ w.con \in {NoRec, worker[q].con, rec[worker[q].session]}
<1>2. \A c \in {"dead", "idle"} : Moved(Blank(c))
  BY DEF Blank
<1>3. ASSUME NEW c, Busy(q)
      PROVE  /\ Moved(At(q, c))
             /\ Moved([At(q, c) EXCEPT !.con = NoRec])
             /\ Moved([At(q, c) EXCEPT !.con = rec[worker[q].session]])
  BY <1>1, <1>3, AtFacts
<1> HIDE DEF Moved
<1>4. CASE UNCHANGED vars
  BY <1>4 DEF vars, Moved
<1>5. ASSUME NEW p \in Worker, NEW u \in Session, Accept(p, u) PROVE Moved(worker'[q])
  <2>1. Moved(worker[q])
    BY DEF Moved
  <2>2. p = q => Moved([Blank("lookup") EXCEPT !.session = u])
    BY <1>5 DEF Accept, Moved, Blank
  <2> QED
    BY <1>1, <1>5, <2>1, <2>2, Moves DEF Accept
<1>6. ASSUME NEW p \in Worker, Request(p) \/ Recheck(p) \/ Leave(p) \/ IdleExit(p) \/ Crash(p),
             ~KillPredecessor(p), p = q
      PROVE  Moved(worker'[q])
  <2>1. Busy(q) \/ IdleExit(q)
    BY <1>6 DEF Request, Lookup, Refuse, Register, Reopen, Validate, ValidateFails, Recheck, Leave,
                ShutdownReads, ShutdownCloses, Crash, Serves, Busy
  <2>2. CASE IdleExit(q)
    BY <1>1, <1>2, <2>2, Moves DEF IdleExit
  <2>3. CASE Busy(q) /\ ~IdleExit(q)
    <3>1. \/ \E c \in {"dead", "idle"} : Goto(q, Blank(c))
          \/ \E c \in Pcs : \/ Goto(q, At(q, c))
                            \/ Goto(q, [At(q, c) EXCEPT !.con = NoRec])
                            \/ Goto(q, [At(q, c) EXCEPT !.con = rec[worker[q].session]])
      BY <1>6, <2>3 DEF Request, Lookup, Refuse, Register, Reopen, Validate, ValidateFails, Recheck,
                Leave, ShutdownReads, ShutdownCloses, Crash, Opened, Pcs
    <3>2. \A w : Goto(q, w) => worker'[q] = w
      BY <1>1, Moves
    <3>3. ASSUME NEW c \in {"dead", "idle"}, Goto(q, Blank(c)) PROVE Moved(worker'[q])
      BY <1>2, <3>2, <3>3
    <3>4. ASSUME NEW c \in Pcs, \/ Goto(q, At(q, c))
                                \/ Goto(q, [At(q, c) EXCEPT !.con = NoRec])
                                \/ Goto(q, [At(q, c) EXCEPT !.con = rec[worker[q].session]])
          PROVE  Moved(worker'[q])
      <4>1. /\ Moved(At(q, c))
            /\ Moved([At(q, c) EXCEPT !.con = NoRec])
            /\ Moved([At(q, c) EXCEPT !.con = rec[worker[q].session]])
        BY <1>3, <2>3
      <4>2. \/ worker'[q] = At(q, c)
            \/ worker'[q] = [At(q, c) EXCEPT !.con = NoRec]
            \/ worker'[q] = [At(q, c) EXCEPT !.con = rec[worker[q].session]]
        BY <3>2, <3>4
      <4> QED
        BY <4>1, <4>2
    <3> QED
      BY <3>1, <3>3, <3>4
  <2> QED
    BY <2>1, <2>2, <2>3
<1>7. ASSUME NEW p \in Worker, Request(p) \/ Recheck(p) \/ Leave(p) \/ IdleExit(p) \/ Crash(p),
             ~KillPredecessor(p), p # q
      PROVE  Moved(worker'[q])
  <2>1. \E w : Goto(p, w)
    BY <1>7 DEF Request, Lookup, Refuse, Register, Reopen, Validate, ValidateFails, Recheck, Leave,
                ShutdownReads, ShutdownCloses, IdleExit, Crash
  <2> QED
    BY <1>1, <1>7, <2>1, Moves DEF Moved
<1>8. ASSUME NEW p \in Worker, KillPredecessor(p) PROVE Moved(worker'[q])
  <2>1. \/ worker'[q] = Blank("dead")
        \/ worker'[q] = At(q, "open") /\ p = q
        \/ worker'[q] = worker[q]
    BY <1>8 DEF KillPredecessor
  <2>2. Busy(p)
    BY <1>8 DEF KillPredecessor, Serves, Busy
  <2>3. CASE worker'[q] = Blank("dead")
    BY <1>2, <2>3
  <2>4. CASE worker'[q] = At(q, "open") /\ p = q
    <3>1. Moved(At(q, "open"))
      BY <1>3, <2>2, <2>4
    <3> QED
      BY <3>1, <2>4
  <2>5. CASE worker'[q] = worker[q]
    BY <2>5 DEF Moved
  <2> QED
    BY <2>1, <2>3, <2>4, <2>5
<1> QED
  BY <1>4, <1>5, <1>6, <1>7, <1>8 DEF Next, Moved

\* The record a writer leaves, and where.
LEMMA WritersLeave ==
  ASSUME TypeOK, AtHome, NEW p \in Worker, NEW u \in Session \ Hls, worker[p].session = u,
         Register(p) \/ ((Reopen(p) \/ ShutdownCloses(p)) /\ worker[p].con \in Rec)
  PROVE  /\ rec'[u] \in Rec /\ rec'[u].server = p[1] /\ HomeOf[u] = p[1]
         /\ Register(p) \/ Reopen(p) => rec'[u].pid = p[2] /\ ~rec'[u].ended
         /\ ShutdownCloses(p) => rec'[u].pid = worker[p].con.pid /\ rec'[u].ended
<1>1. WorkersOK /\ RegistryOK
  BY TypeParts
<1>2. Busy(p)
  BY DEF Register, Reopen, ShutdownCloses, Serves, Busy
<1>3. HomeOf[u] = p[1] /\ (worker[p].con # NoRec => worker[p].con.server = p[1])
  BY <1>2 DEF AtHome
<1>4. p[1] \in Server /\ p[2] \in Pid
  BY WorkerParts
<1>5. CASE Register(p)
  BY <1>1, <1>3, <1>4, <1>5 DEF Register, Create, PidOf, RegistryOK, Rec, Serves, ShutdownCloses
<1>6. CASE (Reopen(p) \/ ShutdownCloses(p)) /\ worker[p].con \in Rec
  <2>1. worker[p].con.server = p[1]
    BY <1>3, <1>6, RecordAssumption
  <2>2. CASE Reopen(p)
    BY <1>1, <1>3, <1>4, <1>6, <2>1, <2>2 DEF Reopen, UpdateOpen, RegistryOK, Rec, Serves, ShutdownCloses
  <2>3. CASE ShutdownCloses(p)
    BY <1>1, <1>3, <1>4, <1>6, <2>1, <2>3
       DEF ShutdownCloses, UpdateClose, RegistryOK, Rec, Serves, Register, Reopen
  <2> QED
    BY <1>6, <2>2, <2>3
<1> QED
  BY <1>5, <1>6

\* A step writes at most the record of one worker's session.
LEMMA Written ==
  ASSUME TypeOK, [Next]_vars
  PROVE  \/ UNCHANGED registry /\ orphaned \subseteq orphaned'
         \/ \E p \in Worker :
              /\ worker[p].session \in Session
              /\ \A v \in Session \ {worker[p].session} : rec'[v] = rec[v]
              /\ orphaned \subseteq orphaned' \cup {worker[p].session}
              /\ \/ Register(p)
                 \/ (Reopen(p) \/ ShutdownCloses(p)) /\ worker[p].con \in Rec
<1>1. RegistryOK
  BY TypeParts
<1>2. WorkersOK
  BY TypeParts
<1>3. CASE \A p \in Worker : ~Register(p) /\ ~Reopen(p) /\ ~ShutdownCloses(p)
  BY <1>3 DEF Next, Request, Accept, Lookup, Refuse, KillPredecessor, Validate, ValidateFails,
         Recheck, Leave, ShutdownReads, IdleExit, Crash, vars
<1>4. ASSUME NEW p \in Worker, Register(p) \/ Reopen(p) \/ ShutdownCloses(p)
      PROVE  /\ worker[p].session \in Session
             /\ \A v \in Session \ {worker[p].session} : rec'[v] = rec[v]
             /\ orphaned \subseteq orphaned' \cup {worker[p].session}
             /\ \/ Register(p)
                \/ (Reopen(p) \/ ShutdownCloses(p)) /\ worker[p].con \in Rec
  <2>1. Sound(worker[p])
    BY <1>2 DEF WorkersOK
  <2>2. worker[p].session \in Session /\ (~Register(p) => worker[p].con \in Rec)
    BY <1>4, <2>1 DEF Sound, Register, Reopen, ShutdownCloses, Serves
  <2>3. \A v \in Session \ {worker[p].session} : rec'[v] = rec[v]
    BY <1>1, <1>4 DEF RegistryOK, Register, Reopen, ShutdownCloses, Create, UpdateOpen, UpdateClose
  <2>4. orphaned \subseteq orphaned' \cup {worker[p].session}
    BY <1>4 DEF Register, Reopen, ShutdownCloses
  <2> QED
    BY <1>4, <2>2, <2>3, <2>4
<1> QED
  BY <1>3, <1>4

LEMMA AtHomeStep == TypeOK /\ AtHome /\ [Next]_vars => AtHome'
<1> SUFFICES ASSUME TypeOK, AtHome, [Next]_vars PROVE AtHome'
  OBVIOUS
<1>1. WorkersOK
  BY TypeParts
<1>2. ASSUME NEW u \in Session \ Hls, rec'[u] # NoRec PROVE rec'[u].server = HomeOf[u]
  <2>1. CASE rec'[u] = rec[u]
    BY <1>2, <2>1 DEF AtHome
  <2>2. CASE rec'[u] # rec[u]
    <3>1. ~UNCHANGED registry
      BY <2>2 DEF registry
    <3>2. PICK p \in Worker :
            /\ worker[p].session = u
            /\ \/ Register(p)
               \/ (Reopen(p) \/ ShutdownCloses(p)) /\ worker[p].con \in Rec
      BY <2>2, <3>1, Written
    <3>3. rec'[u].server = p[1] /\ HomeOf[u] = p[1]
      BY <3>2, WritersLeave
    <3> QED
      BY <3>3
  <2> QED
    BY <2>1, <2>2
<1> QED
  BY <1>1, <1>2, WorkerMoves, StaysAtHome

\* A worker that serves a live stream goes on with it, unless the record is
\* closed, names another, or the session counts as orphaned.
LEMMA ServesOn ==
  ASSUME TypeOK, [Next]_vars, NEW q \in Worker,
         worker[q].pc \in Serving, worker[q].session \notin Hls
  PROVE  LET u == worker[q].session IN
         \/ worker'[q].session = u /\ worker'[q].pc \in Serving
         \/ u \in orphaned'
         \/ ShutdownCloses(q)
         \/ rec[u] = NoRec
         \/ rec[u].pid # q[2]
<1>1. WorkersOK
  BY TypeParts
<1> DEFINE Good == LET u == worker[q].session IN
         \/ worker'[q].session = u /\ worker'[q].pc \in Serving
         \/ u \in orphaned'
         \/ ShutdownCloses(q)
         \/ rec[u] = NoRec
         \/ rec[u].pid # q[2]
<1>2. CASE worker'[q] = worker[q]
  BY <1>2
<1>3. ASSUME NEW p \in Worker, KillPredecessor(p) PROVE Good
  <2>1. p # q
    BY <1>3 DEF KillPredecessor, Serves, Serving
  <2>2. Busy(q)
    BY DEF Busy, Serving
  <2> QED
    BY <1>3, <2>1, <2>2 DEF KillPredecessor
<1>4. CASE Validate(q) \/ Recheck(q) \/ Leave(q)
  <2>1. \E c \in {"play", "leave"} : worker'[q] = At(q, c)
    BY <1>1, <1>4, Moves DEF Validate, Recheck, Leave
  <2> QED
    BY <1>1, <2>1, AtFacts DEF Serving
<1>5. CASE ValidateFails(q) \/ Crash(q)
  BY <1>5 DEF ValidateFails, Crash
<1>6. CASE ShutdownReads(q)
  <2>1. CASE rec[worker[q].session] # NoRec /\ rec[worker[q].session].pid = q[2]
    <3>1. worker'[q] = [At(q, "close") EXCEPT !.con = rec[worker[q].session]]
      BY <1>1, <1>6, <2>1, Moves DEF ShutdownReads
    <3> QED
      BY <1>1, <3>1, AtFacts DEF Serving
  <2> QED
    BY <2>1
<1>7. CASE \/ \E u \in Session : Accept(q, u)
           \/ Lookup(q) \/ Refuse(q) \/ Register(q) \/ Reopen(q) \/ IdleExit(q)
  BY <1>7 DEF Accept, Busy, Lookup, Refuse, Register, Reopen, IdleExit, Serves, Serving
<1>8. ASSUME NEW p \in Worker, p # q, NEW w, Goto(p, w) PROVE worker'[q] = worker[q]
  BY <1>1, <1>8, Moves
<1>9. CASE UNCHANGED vars
  BY <1>2, <1>9 DEF vars
<1>10. ASSUME NEW p \in Worker, p # q,
              \/ \E u \in Session : Accept(p, u)
              \/ Request(p) /\ ~KillPredecessor(p)
              \/ Recheck(p) \/ Leave(p) \/ IdleExit(p) \/ Crash(p)
       PROVE  worker'[q] = worker[q]
  <2>1. \E w : Goto(p, w)
    BY <1>10 DEF Accept, Request, Lookup, Refuse, Register, Reopen, Validate, ValidateFails, Recheck,
                 Leave, ShutdownReads, ShutdownCloses, IdleExit, Crash
  <2> QED
    BY <1>8, <1>10, <2>1
<1> QED
  BY <1>2, <1>3, <1>4, <1>5, <1>6, <1>7, <1>9, <1>10 DEF Next, Request

\* Named: whoever writes a record serves it, and nobody leaves one open behind.
LEMMA NamedStep == TypeOK /\ AtHome /\ Named /\ [Next]_vars => Named'
<1> SUFFICES ASSUME TypeOK, AtHome, Named, [Next]_vars,
                    NEW u \in Session \ Hls, u \notin orphaned', Open(u)'
             PROVE  \E p \in Worker : /\ p[1] = HomeOf[u] /\ p[2] = rec'[u].pid
                                      /\ worker'[p].session = u /\ worker'[p].pc \in Serving
  BY DEF Named
<1>1. WorkersOK
  BY TypeParts
<1>2. ASSUME NEW p \in Worker, worker[p].session = u,
             Register(p) \/ (Reopen(p) /\ worker[p].con \in Rec)
      PROVE  /\ p[1] = HomeOf[u] /\ p[2] = rec'[u].pid
             /\ worker'[p].session = u /\ worker'[p].pc \in Serving
  <2>1. worker'[p] = Opened(p)
    BY <1>1, <1>2, Moves DEF Register, Reopen
  <2>2. At(p, "validate") = [pc |-> "validate", session |-> u, con |-> worker[p].con]
    BY <1>1, <1>2, AtFacts
  <2>3. worker'[p].session = u /\ worker'[p].pc = "validate"
    BY <2>1, <2>2 DEF Opened
  <2> QED
    BY <1>2, <2>3, WritersLeave DEF Serving
<1>3. ASSUME rec'[u] = rec[u], u \notin orphaned,
             \A p \in Worker : ShutdownCloses(p) => worker[p].session # u
      PROVE  \E p \in Worker : /\ p[1] = HomeOf[u] /\ p[2] = rec'[u].pid
                               /\ worker'[p].session = u /\ worker'[p].pc \in Serving
  <2>1. Open(u) /\ rec[u] # NoRec
    BY <1>3 DEF Open
  <2>2. PICK p \in Worker : /\ p[1] = HomeOf[u] /\ p[2] = rec[u].pid
                            /\ worker[p].session = u /\ worker[p].pc \in Serving
    BY <1>3, <2>1 DEF Named
  <2> QED
    BY <1>3, <2>1, <2>2, ServesOn
<1>4. ASSUME NEW p \in Worker, ShutdownCloses(p), worker[p].session = u, worker[p].con \in Rec
      PROVE  FALSE
  BY <1>4, WritersLeave DEF Open
<1>5. \A p \in Worker : ShutdownCloses(p) => worker[p].con \in Rec
  BY <1>1 DEF WorkersOK, Sound, ShutdownCloses, Serves
<1>6. CASE rec'[u] = rec[u] /\ u \notin orphaned
  BY <1>3, <1>4, <1>5, <1>6
<1>7. CASE ~(rec'[u] = rec[u] /\ u \notin orphaned)
  <2>1. PICK p \in Worker :
          /\ worker[p].session = u
          /\ \/ Register(p)
             \/ (Reopen(p) \/ ShutdownCloses(p)) /\ worker[p].con \in Rec
    BY <1>7, Written DEF registry
  <2>2. ~ShutdownCloses(p)
    BY <1>4, <1>5, <2>1
  <2>3. Register(p) \/ (Reopen(p) /\ worker[p].con \in Rec)
    BY <2>1, <2>2
  <2>4. /\ p[1] = HomeOf[u] /\ p[2] = rec'[u].pid
        /\ worker'[p].session = u /\ worker'[p].pc \in Serving
    BY <1>2, <2>1, <2>3
  <2> QED
    BY <2>4
<1> QED
  BY <1>6, <1>7

\* What a worker that serves a live stream came from.
LEMMA ServedBefore ==
  ASSUME TypeOK, [Next]_vars, NEW q \in Worker, worker'[q].pc \in Serving
  PROVE  \/ worker'[q] = worker[q]
         \/ Register(q) \/ Reopen(q)
         \/ /\ worker'[q].session = worker[q].session
            /\ worker[q].pc \in {"validate", "play"} /\ worker'[q].pc \in {"play", "leave"}
         \/ /\ worker'[q].session = worker[q].session
            /\ UNCHANGED registry
            /\ worker[q].pc = "leave" /\ worker'[q].pc = "close"
            /\ worker'[q].con = rec[worker[q].session]
            /\ rec[worker[q].session] # NoRec
            /\ rec[worker[q].session].pid = q[2]
<1>1. WorkersOK
  BY TypeParts
<1>2. \A w : Goto(q, w) => worker'[q] = w
  BY <1>1, Moves
<1>3. \A c \in {"dead", "idle"} : Blank(c).pc \notin Serving
  BY DEF Blank, Serving
<1>4. ASSUME NEW p \in Worker, KillPredecessor(p) PROVE worker'[q] = worker[q]
  <2>1. At(p, "open").pc = "open"
    BY <1>1, AtFacts
  <2> QED
    BY <1>3, <1>4, <2>1 DEF KillPredecessor, Serving
<1>5. CASE Validate(q) \/ Recheck(q) \/ Leave(q)
  <2>1. worker[q].pc \in {"validate", "play"}
    BY <1>5 DEF Validate, Recheck, Leave, Serves
  <2>2. \E c \in {"play", "leave"} : worker'[q] = At(q, c)
    BY <1>2, <1>3, <1>5 DEF Validate, Recheck, Leave
  <2> QED
    BY <1>1, <2>1, <2>2, AtFacts
<1>6. CASE Refuse(q) \/ ValidateFails(q) \/ Crash(q) \/ IdleExit(q) \/ ShutdownCloses(q)
  BY <1>2, <1>3, <1>6 DEF Refuse, ValidateFails, Crash, IdleExit, ShutdownCloses
<1>7. ASSUME NEW u \in Session, Accept(q, u) PROVE FALSE
  BY <1>2, <1>7 DEF Accept, Blank, Serving
<1>8. CASE Lookup(q)
  <2> DEFINE c == IF rec[worker[q].session] = NoRec THEN "create"
                  ELSE IF worker[q].session \in Hls THEN "open" ELSE "kill"
  <2>1. worker'[q] = [At(q, c) EXCEPT !.con = rec[worker[q].session]]
    BY <1>2, <1>8 DEF Lookup
  <2>2. c \notin Serving
    BY DEF Serving
  <2>3. At(q, c) = [pc |-> c, session |-> worker[q].session, con |-> worker[q].con]
    BY <1>1, AtFacts
  <2> HIDE DEF c
  <2>4. worker'[q].pc = c
    BY <2>1, <2>3
  <2> QED
    BY <2>2, <2>4
<1>9. CASE ShutdownReads(q)
  <2>1. /\ worker'[q] = [At(q, "close") EXCEPT !.con = rec[worker[q].session]]
        /\ rec[worker[q].session] # NoRec /\ rec[worker[q].session].pid = q[2]
        /\ worker[q].pc = "leave" /\ UNCHANGED registry
    BY <1>2, <1>3, <1>9 DEF ShutdownReads, Serves
  <2> QED
    BY <1>1, <2>1, AtFacts
<1>10. ASSUME NEW p \in Worker, p # q,
              \/ \E u \in Session : Accept(p, u)
              \/ Request(p) /\ ~KillPredecessor(p)
              \/ Recheck(p) \/ Leave(p) \/ IdleExit(p) \/ Crash(p)
       PROVE  worker'[q] = worker[q]
  <2>1. \E w : Goto(p, w)
    BY <1>10 DEF Accept, Request, Lookup, Refuse, Register, Reopen, Validate, ValidateFails, Recheck,
                 Leave, ShutdownReads, ShutdownCloses, IdleExit, Crash
  <2> QED
    BY <1>1, <1>10, <2>1, Moves
<1>11. CASE UNCHANGED vars
  BY <1>11 DEF vars
<1> QED
  BY <1>4, <1>5, <1>6, <1>7, <1>8, <1>9, <1>10, <1>11 DEF Next, Request

\* Own: whoever else writes a record gives it a pid of its own.
LEMMA OwnStep == TypeOK /\ AtHome /\ Own /\ [Next]_vars => Own'
<1> SUFFICES ASSUME TypeOK, AtHome, Own, [Next]_vars,
                    NEW q \in Worker, NEW u \in Session \ Hls, worker'[q].session = u,
                    worker'[q].pc \in Serving
             PROVE  /\ worker'[q].pc # "close" /\ rec'[u] # NoRec /\ rec'[u].pid = q[2]
                         => ~rec'[u].ended
                    /\ worker'[q].pc = "close" => ~worker'[q].con.ended /\ worker'[q].con.pid = q[2]
  BY DEF Own, Serving
<1>1. WorkersOK
  BY TypeParts
<1>2. AtHome'
  BY AtHomeStep
<1>3. HomeOf[u] = q[1]
  BY <1>2 DEF AtHome, Busy, Serving
<1>4. ASSUME Register(q) \/ Reopen(q)
      PROVE  worker'[q].pc = "validate" /\ worker[q].session = u /\ ~rec'[u].ended
  <2>1. worker'[q] = Opened(q)
    BY <1>1, <1>4, Moves DEF Register, Reopen
  <2>2. At(q, "validate") = [pc |-> "validate", session |-> worker[q].session, con |-> worker[q].con]
    BY <1>1, AtFacts
  <2>3. worker'[q].session = worker[q].session /\ worker'[q].pc = "validate"
    BY <2>1, <2>2 DEF Opened
  <2>4. Reopen(q) => worker[q].con \in Rec
    BY <1>1 DEF WorkersOK, Sound, Reopen, Serves
  <2> QED
    BY <1>4, <2>3, <2>4, WritersLeave
<1>5. ~ShutdownCloses(q)
  <2>1. Blank("idle").pc \notin Serving
    BY DEF Blank, Serving
  <2> QED
    BY <1>1, <2>1, Moves DEF ShutdownCloses
<1>6. ASSUME NEW p \in Worker, p # q, worker[p].session = u,
             Register(p) \/ ((Reopen(p) \/ ShutdownCloses(p)) /\ worker[p].con \in Rec)
      PROVE  rec'[u].pid # q[2]
  <2>1. HomeOf[u] = p[1]
    BY <1>6, WritersLeave
  <2>2. p[2] # q[2]
    BY <1>3, <1>6, <2>1, PidsDiffer
  <2>3. ShutdownCloses(p) => worker[p].con.pid = p[2]
    BY <1>6 DEF Own, ShutdownCloses, Serves
  <2>4. Register(p) \/ Reopen(p) => rec'[u].pid = p[2]
    BY <1>6, WritersLeave
  <2>5. ShutdownCloses(p) => rec'[u].pid = worker[p].con.pid
    BY <1>6, WritersLeave
  <2> QED
    BY <1>6, <2>2, <2>3, <2>4, <2>5
<1>7. \/ worker'[q] = worker[q]
      \/ Register(q) \/ Reopen(q)
      \/ /\ worker[q].session = u
         /\ worker[q].pc \in {"validate", "play"} /\ worker'[q].pc \in {"play", "leave"}
      \/ /\ worker[q].session = u
         /\ worker[q].pc = "leave" /\ worker'[q].pc = "close"
         /\ worker'[q].con = rec[u] /\ rec[u] # NoRec /\ rec[u].pid = q[2]
  BY ServedBefore
<1>8. \/ rec'[u] = rec[u]
      \/ Register(q) \/ Reopen(q)
      \/ rec'[u].pid # q[2]
  <2>1. CASE UNCHANGED registry
    BY <2>1 DEF registry
  <2>2. CASE ~UNCHANGED registry
    <3>1. PICK p \in Worker :
            /\ \A v \in Session \ {worker[p].session} : rec'[v] = rec[v]
            /\ Register(p) \/ ((Reopen(p) \/ ShutdownCloses(p)) /\ worker[p].con \in Rec)
      BY <2>2, Written
    <3>2. CASE worker[p].session # u
      BY <3>1, <3>2
    <3>3. CASE worker[p].session = u /\ p # q
      BY <1>6, <3>1, <3>3
    <3>4. CASE p = q
      BY <1>5, <3>1, <3>4
    <3> QED
      BY <3>2, <3>3, <3>4
  <2> QED
    BY <2>1, <2>2
<1>9. CASE Register(q) \/ Reopen(q)
  BY <1>4, <1>9
<1>10. CASE ~Register(q) /\ ~Reopen(q)
  BY <1>7, <1>8, <1>10 DEF Own, Serving
<1> QED
  BY <1>9, <1>10

\* Counted: hls_end of the record a worker closes is not set, so its line leaves SERVER_LINES#.
LEMMA CountedStep == IInv /\ [Next]_vars => Counted'
<1> SUFFICES ASSUME IInv, [Next]_vars PROVE Counted'
  OBVIOUS
<1>1. RegistryOK
  BY TypeParts DEF IInv
<1>2. CASE UNCHANGED registry
  BY <1>2 DEF registry, IInv, Counted
<1>3. CASE ~UNCHANGED registry
  <2>1. PICK p \in Worker :
          /\ worker[p].session \in Session
          /\ \/ Register(p)
             \/ (Reopen(p) \/ ShutdownCloses(p)) /\ worker[p].con \in Rec
    BY <1>3, Written DEF IInv
  <2> DEFINE u == worker[p].session
  <2>2. Busy(p)
    BY <2>1 DEF Register, Reopen, ShutdownCloses, Serves, Busy
  <2>3. u \in Hls \/ (HomeOf[u] = p[1] /\ (worker[p].con # NoRec => worker[p].con.server = p[1]))
    BY <2>2 DEF IInv, AtHome
  <2>4. CASE Register(p)
    <3>1. live' = live \cup {u} /\ server_lines' = With(server_lines, p[1], u)
      BY <2>4 DEF Register, Create
    <3> QED
      BY <1>1, <2>3, <3>1 DEF IInv, Counted, RegistryOK, With
  <2>5. CASE Reopen(p) /\ worker[p].con \in Rec
    <3> DEFINE c == TakenCon(p)
    <3>1. /\ live' = live \cup {u}
          /\ server_lines' = IF c.ended THEN With(server_lines, c.server, u) ELSE server_lines
      BY <2>5 DEF Reopen, UpdateOpen, TakenCon
    <3>2. u \in Hls \/ c.server = HomeOf[u]
      BY <2>3, <2>5, RecordAssumption DEF TakenCon, Rec
    <3> HIDE DEF c
    <3> QED
      BY <1>1, <3>1, <3>2 DEF IInv, Counted, RegistryOK, With
  <2>6. CASE ShutdownCloses(p) /\ worker[p].con \in Rec
    <3>1. /\ live' = live \ {u}
          /\ server_lines' = IF worker[p].con.ended THEN server_lines
                             ELSE Without(server_lines, worker[p].con.server, u)
      BY <2>6 DEF ShutdownCloses, UpdateClose
    <3>2. u \in Hls \/ (~worker[p].con.ended /\ worker[p].con.server = HomeOf[u])
      BY <2>1, <2>3, <2>6, RecordAssumption DEF IInv, Own, ShutdownCloses, Serves
    <3> QED
      BY <1>1, <3>1, <3>2 DEF IInv, Counted, RegistryOK, Without
  <2> QED
    BY <2>1, <2>4, <2>5, <2>6
<1> QED
  BY <1>2, <1>3

LEMMA IInvStep == IInv /\ [Next]_vars => IInv'
<1> SUFFICES ASSUME IInv, [Next]_vars PROVE IInv'
  OBVIOUS
<1> QED
  BY TypeStep, IndexStep, AtHomeStep, NamedStep, OwnStep, CountedStep DEF IInv

LEMMA IInvHolds == Spec => []IInv
  BY IInit, IInvStep, PTL DEF Spec

LEMMA GhostFree == IInv => NoGhost
<1> SUFFICES ASSUME IndexAgrees, Named, NEW u \in live \ (Hls \cup orphaned), TypeOK
             PROVE  \E p \in Worker : worker[p].session = u /\ worker[p].pc \in Serving
  BY DEF IInv, NoGhost, Serving
<1>1. u \in Session /\ Open(u)
  BY DEF IndexAgrees
<1> QED
  BY <1>1 DEF Named

\* No race alone leaves a connection of a live stream open that no worker serves.
THEOREM NoGhosts == Spec => []NoGhost
  BY IInvHolds, GhostFree, PTL

LEMMA CountedOpen == IInv => OnlyOpenCounted
  BY DEF IInv, Counted, OnlyOpenCounted

\* SERVER_LINES# counts no live stream that has ended, whatever was read before.
THEOREM LinesOpen == Spec => []OnlyOpenCounted
  BY IInvHolds, CountedOpen, PTL
===============================================================================
