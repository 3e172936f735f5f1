--------------------------- MODULE HlsSegment_proofs ---------------------------
(***************************************************************************)
(* TLAPS proofs about HlsSegment, for any number of workers and of runs of *)
(* the stream.  The invariant says, step by step, what a request that has  *)
(* met no other one has done so far.                                       *)
(***************************************************************************)
EXTENDS HlsSegment, TLAPS

\* Who still writes to the file of that name sees it exist.
FdOpen == \A r \in Reader : request[r].fd => enc # NoFile

\* rm -f takes the segment before the next ffmpeg starts.
OfRun == segment = "there" => encoder.pc # "removed"

\* A .enc_write that no dead worker left belongs to one that is at work.
LockHeld == lock = "touched" => \E r \in Reader : Locking(r)

\* The piece an undisturbed request makes.
Whole == [of |-> encoder.run, key |-> key]

\* How far an undisturbed request is.
Progress(r) ==
  /\ request[r].pc = "wait" => lock = "left"
  /\ request[r].pc = "data" => request[r].piece.key = key
  /\ request[r].pc \in {"open", "write"} => request[r].piece = Whole
  /\ request[r].pc = "write" => request[r].fd /\ enc = {}
  /\ request[r].pc = "unlock" => enc = {Whole}
  /\ request[r].pc = "send" => lock = "left" \/ enc = {Whole}

\* Nobody else is there while a request is undisturbed.
Alone(r) ==
  request[r].alone =>
    /\ \A q \in Reader : q # r => request[q].pc = "off"
    /\ segment = "there"
    /\ Progress(r)

IInv == SegmentTypeOK /\ FdOpen /\ OfRun /\ LockHeld /\ \A r \in Reader : Alone(r)

ReqType == [pc : {"off", "look", "touch", "key", "data", "open", "write", "unlock", "wait", "send"},
            piece : Piece, fd : BOOLEAN, alone : BOOLEAN]

-----------------------------------------------------------------------------
(* Records of requests                                                     *)

LEMMA NoRequestType ==
  /\ NoRequest \in ReqType
  /\ NoRequest.pc = "off" /\ ~NoRequest.alone /\ ~NoRequest.fd
BY SegmentAssumption DEF NoRequest, ReqType, Piece

LEMMA DisturbedType ==
  ASSUME NEW q \in ReqType
  PROVE  /\ Disturbed(q) \in ReqType /\ Disturbed(q).pc = q.pc
         /\ ~Disturbed(q).alone /\ Disturbed(q).fd = q.fd
BY DEF Disturbed, ReqType

LEMMA UnlinkedType ==
  ASSUME NEW q \in ReqType
  PROVE  /\ Unlinked(q) \in ReqType /\ Unlinked(q).pc = q.pc
         /\ ~Unlinked(q).alone /\ ~Unlinked(q).fd
BY DEF Unlinked, ReqType

LEMMA SegmentInitIInv == SegmentInit => IInv
<1> SUFFICES ASSUME SegmentInit PROVE IInv
  OBVIOUS
<1>1. request \in [Reader -> ReqType]
  BY NoRequestType DEF SegmentInit
<1>2. SegmentTypeOK
  <2>1. /\ encoder \in [run : 1..MaxRuns, pc : {"removed", "spawned", "runs"}]
        /\ key \in 0..MaxRuns
    BY SegmentAssumption DEF SegmentInit
  <2> QED BY <1>1, <2>1 DEF SegmentInit, SegmentTypeOK, ReqType
<1>3. FdOpen /\ OfRun /\ LockHeld
  BY NoRequestType DEF SegmentInit, FdOpen, OfRun, LockHeld
<1>4. \A r \in Reader : Alone(r)
  BY NoRequestType DEF SegmentInit, Alone
<1> QED BY <1>2, <1>3, <1>4 DEF IInv

-----------------------------------------------------------------------------
(* The stream                                                              *)

\* Who is where, and which files the workers have open, as far as the invariant
\* asks: requests that are only disturbed, and requests whose files are removed.
LEMMA Disturb ==
  ASSUME request \in [Reader -> ReqType],
         request' = [r \in Reader |-> Disturbed(request[r])]
  PROVE  /\ request' \in [Reader -> ReqType]
         /\ \A r \in Reader : /\ ~request'[r].alone /\ request'[r].pc = request[r].pc
                              /\ request'[r].fd = request[r].fd
BY DisturbedType

LEMMA Unlink ==
  ASSUME request \in [Reader -> ReqType],
         request' = [r \in Reader |-> Unlinked(request[r])]
  PROVE  /\ request' \in [Reader -> ReqType]
         /\ \A r \in Reader : /\ ~request'[r].alone /\ request'[r].pc = request[r].pc
                              /\ ~request'[r].fd
BY UnlinkedType

\* rm -f leaves nothing the invariant is about.
LEMMA NoFilesKeeps ==
  ASSUME IInv, NoFiles, listed' \in BOOLEAN, monitor' \in BOOLEAN,
         encoder' \in [run : 1..MaxRuns, pc : {"removed", "spawned", "runs"}]
  PROVE  IInv'
<1> USE SegmentAssumption
<1>1. /\ request' \in [Reader -> ReqType]
      /\ \A r \in Reader : ~request'[r].alone /\ ~request'[r].fd
  BY Unlink DEF IInv, SegmentTypeOK, ReqType, NoFiles
<1>2. /\ segment' = "none" /\ key' = 0 /\ enc' = NoFile /\ lock' = "none"
      /\ sweep' = sweep /\ sweep \in BOOLEAN
  BY DEF IInv, SegmentTypeOK, NoFiles
<1>3. key' \in 0..MaxRuns /\ enc' \in (SUBSET Piece) \cup {NoFile}
  BY <1>2
<1>4. SegmentTypeOK'
  BY <1>1, <1>2, <1>3 DEF SegmentTypeOK, ReqType
<1>5. FdOpen' /\ OfRun' /\ LockHeld' /\ \A r \in Reader : Alone(r)'
  BY <1>1, <1>2 DEF FdOpen, OfRun, LockHeld, Alone
<1> QED BY <1>4, <1>5 DEF IInv

LEMMA StreamKeeps == IInv /\ (Stream \/ Sweep) => IInv'
<1> SUFFICES ASSUME IInv, Stream \/ Sweep PROVE IInv'
  OBVIOUS
<1> USE SegmentAssumption
<1>t. /\ SegmentTypeOK /\ FdOpen /\ OfRun /\ LockHeld /\ request \in [Reader -> ReqType]
      /\ \A r \in Reader : request[r] \in ReqType /\ Alone(r)
      /\ listed \in BOOLEAN /\ monitor \in BOOLEAN
      /\ encoder \in [run : 1..MaxRuns, pc : {"removed", "spawned", "runs"}]
  BY DEF IInv, SegmentTypeOK, ReqType
<1>l. /\ LeftAlone \in [run : 1..MaxRuns, pc : {"removed", "spawned", "runs"}]
      /\ LeftAlone.run = encoder.run /\ (LeftAlone.pc = "removed" => encoder.pc = "removed")
  BY <1>t DEF LeftAlone
<1>1. CASE SegmentComes
  <2>1. SegmentTypeOK' /\ FdOpen' /\ OfRun' /\ LockHeld'
    BY <1>t, <1>1 DEF SegmentComes, SegmentTypeOK, FdOpen, OfRun, LockHeld, Locking
  <2>2. \A r \in Reader : Alone(r)'
    BY <1>t, <1>1 DEF SegmentComes, Alone, Progress, Whole
  <2> QED BY <2>1, <2>2 DEF IInv
<1>2. CASE SegmentGoes
  <2>1. /\ request' \in [Reader -> ReqType]
        /\ \A r \in Reader : /\ ~request'[r].alone /\ request'[r].pc = request[r].pc
                             /\ request'[r].fd = request[r].fd
    BY <1>t, <1>2, Disturb DEF SegmentGoes
  <2>2. SegmentTypeOK' /\ FdOpen' /\ OfRun' /\ LockHeld'
    BY <1>t, <1>2, <2>1
       DEF SegmentGoes, SegmentTypeOK, FdOpen, OfRun, LockHeld, Locking, ReqType
  <2>3. \A r \in Reader : Alone(r)'
    BY <2>1 DEF Alone
  <2> QED BY <2>2, <2>3 DEF IInv
<1>3. CASE RemoveFiles
  <2>1. encoder' \in [run : 1..MaxRuns, pc : {"removed", "spawned", "runs"}]
    BY <1>t, <1>3 DEF RemoveFiles
  <2> QED BY <1>t, <1>3, <2>1, NoFilesKeeps DEF RemoveFiles
<1>4. CASE Spawn
  <2>1. segment # "there"
    BY <1>t, <1>4 DEF Spawn, OfRun
  <2>2. SegmentTypeOK' /\ FdOpen' /\ OfRun' /\ LockHeld'
    BY <1>t, <1>4, <2>1 DEF Spawn, SegmentTypeOK, FdOpen, OfRun, LockHeld, Locking
  <2>3. \A r \in Reader : Alone(r)'
    BY <1>t, <1>4, <2>1 DEF Spawn, Alone
  <2> QED BY <2>2, <2>3 DEF IInv
<1>5. CASE NewKey
  <2>1. /\ request' \in [Reader -> ReqType]
        /\ \A r \in Reader : /\ ~request'[r].alone /\ request'[r].pc = request[r].pc
                             /\ request'[r].fd = request[r].fd
    BY <1>t, <1>5, Disturb DEF NewKey
  <2>2. SegmentTypeOK' /\ FdOpen' /\ OfRun' /\ LockHeld'
    BY <1>t, <1>5, <2>1
       DEF NewKey, SegmentTypeOK, FdOpen, OfRun, LockHeld, Locking, ReqType
  <2>3. \A r \in Reader : Alone(r)'
    BY <2>1 DEF Alone
  <2> QED BY <2>2, <2>3 DEF IInv
<1>6. CASE SweepLooks
  <2>1. SegmentTypeOK' /\ FdOpen' /\ OfRun' /\ LockHeld'
    BY <1>t, <1>6
       DEF SweepLooks, streamVars, SegmentTypeOK, FdOpen, OfRun, LockHeld, Locking
  <2>2. \A r \in Reader : Alone(r)'
    BY <1>t, <1>6 DEF SweepLooks, streamVars, Alone, Progress, Whole
  <2> QED BY <2>1, <2>2 DEF IInv
<1>7. CASE SweepUnlinks
  <2>1. /\ request' \in [Reader -> ReqType]
        /\ \A r \in Reader : /\ ~request'[r].alone /\ request'[r].pc = request[r].pc
                             /\ ~request'[r].fd
    BY <1>t, <1>7, Unlink DEF SweepUnlinks
  <2>2. SegmentTypeOK' /\ FdOpen' /\ OfRun' /\ LockHeld'
    BY <1>t, <1>7, <2>1
       DEF SweepUnlinks, streamVars, SegmentTypeOK, FdOpen, OfRun, LockHeld, Locking, ReqType
  <2>3. \A r \in Reader : Alone(r)'
    BY <2>1 DEF Alone
  <2> QED BY <2>2, <2>3 DEF IInv
<1>8. CASE Stop
  BY <1>t, <1>l, <1>8, NoFilesKeeps DEF Stop
<1>9. CASE MonitorDies
  <2>1. SegmentTypeOK' /\ FdOpen' /\ OfRun' /\ LockHeld'
    BY <1>t, <1>l, <1>9
       DEF MonitorDies, SegmentTypeOK, FdOpen, OfRun, LockHeld, Locking
  <2>2. \A r \in Reader : Alone(r)'
    BY <1>t, <1>l, <1>9 DEF MonitorDies, Alone, Progress, Whole
  <2> QED BY <2>1, <2>2 DEF IInv
<1>10. CASE StartMonitor
  <2>1. SegmentTypeOK' /\ FdOpen' /\ OfRun' /\ LockHeld'
    BY <1>t, <1>10 DEF StartMonitor, SegmentTypeOK, FdOpen, OfRun, LockHeld, Locking
  <2>2. \A r \in Reader : Alone(r)'
    BY <1>t, <1>10 DEF StartMonitor, Alone, Progress, Whole
  <2> QED BY <2>1, <2>2 DEF IInv
<1>11. CASE KillUnlisted
  <2>1. encoder' \in [run : 1..MaxRuns, pc : {"removed", "spawned", "runs"}]
    BY <1>t, <1>11 DEF KillUnlisted
  <2> QED BY <1>t, <1>11, <2>1, NoFilesKeeps DEF KillUnlisted
<1> QED BY <1>1, <1>2, <1>3, <1>4, <1>5, <1>6, <1>7, <1>8, <1>9, <1>10, <1>11
           DEF Stream, Sweep

-----------------------------------------------------------------------------
(* Requests                                                                *)

\* A request that goes on, and has met no other one, was undisturbed before.
LEMMA GoesOn ==
  ASSUME IInv, NEW r \in Reader, NEW q \in ReqType, request[r].pc # "off", GoOn(r, q),
         UNCHANGED <<streamVars, sweep>>,
         lock' \in {"none", "touched", "left"},
         lock' = "touched" => \/ q.pc \in {"key", "data", "open", "write", "unlock"}
                              \/ lock = "touched" /\ ~Locking(r),
         enc' \in (SUBSET Piece) \cup {NoFile},
         enc # NoFile => enc' # NoFile, q.fd => enc' # NoFile,
         q.alone => request[r].alone /\ Progress(r)'
  PROVE  IInv'
<1>1. /\ request \in [Reader -> ReqType] /\ request'[r] = q
      /\ \A x \in Reader : x # r => request'[x] = request[x] /\ ~request[x].alone
  BY DEF IInv, SegmentTypeOK, ReqType, GoOn, Alone
<1>2. SegmentTypeOK'
  BY <1>1 DEF IInv, SegmentTypeOK, GoOn, ReqType, streamVars
<1>3. FdOpen' /\ OfRun'
  BY <1>1 DEF IInv, FdOpen, OfRun, streamVars
<1>4. \A x \in Reader : Alone(x)'
  BY <1>1 DEF IInv, Alone, streamVars
<1>5. LockHeld'
  <2>1. ASSUME lock' = "touched", ~Locking(r)' PROVE \E x \in Reader : Locking(x)'
    <3>1. lock = "touched" /\ ~Locking(r)
      BY <1>1, <2>1 DEF Locking
    <3>2. PICK x \in Reader : Locking(x)
      BY <3>1 DEF IInv, LockHeld
    <3> QED BY <1>1, <3>1, <3>2 DEF Locking
  <2> QED BY <2>1 DEF LockHeld
<1> QED BY <1>2, <1>3, <1>4, <1>5 DEF IInv

LEMMA MovedType ==
  ASSUME IInv, NEW r \in Reader,
         NEW pc \in {"off", "look", "touch", "key", "data", "open", "write", "unlock", "wait", "send"}
  PROVE  /\ Moved(r, pc) \in ReqType /\ Moved(r, pc).pc = pc
         /\ Moved(r, pc).piece = request[r].piece
         /\ Moved(r, pc).fd = request[r].fd /\ Moved(r, pc).alone = request[r].alone
BY DEF IInv, SegmentTypeOK, ReqType, Moved

LEMMA NewType ==
  ASSUME NEW a \in BOOLEAN, NEW pc \in {"look", "unlock"}
  PROVE  LET new == [NoRequest EXCEPT !.pc = pc, !.alone = a] IN
         new \in ReqType /\ new.pc = pc /\ ~new.fd /\ new.alone = a
<1> DEFINE New(q) == [q EXCEPT !.pc = pc, !.alone = a]
<1>1. ASSUME NEW q \in ReqType
      PROVE  New(q) \in ReqType /\ New(q).pc = pc /\ New(q).fd = q.fd /\ New(q).alone = a
  BY <1>1 DEF ReqType
<1> QED BY <1>1, NoRequestType

LEMMA ArriveKeeps == ASSUME IInv, NEW r \in Reader, Arrive(r) PROVE IInv'
<1> USE SegmentAssumption
<1>t. /\ SegmentTypeOK /\ FdOpen /\ OfRun /\ LockHeld /\ request \in [Reader -> ReqType]
      /\ \A x \in Reader : request[x] \in ReqType
  BY DEF IInv, SegmentTypeOK, ReqType
<1> DEFINE quiet == \A q \in Reader : Is(q, "off")
           new == [NoRequest EXCEPT !.pc = "look", !.alone = quiet]
<1>1. /\ new \in ReqType /\ new.pc = "look" /\ ~new.fd
      /\ new.alone = quiet
  <2>1. quiet \in BOOLEAN
    OBVIOUS
  <2> HIDE DEF quiet
  <2> QED BY <2>1, NewType
<1>2. /\ request'[r] = new
      /\ \A x \in Reader : x # r => request'[x] = Disturbed(request[x])
      /\ \A x \in Reader : request'[x] \in ReqType
      /\ request' \in [Reader -> ReqType]
  BY <1>t, <1>1, DisturbedType DEF Arrive
<1>3. SegmentTypeOK'
  BY <1>t, <1>2 DEF Arrive, SegmentTypeOK, ReqType, streamVars
<1>5. \A x \in Reader : x # r => ~request'[x].alone /\ request'[x].pc = request[x].pc
  BY <1>t, <1>2, DisturbedType
<1>4. FdOpen' /\ OfRun' /\ LockHeld'
  <2>1. FdOpen' /\ OfRun'
    BY <1>t, <1>1, <1>2, DisturbedType DEF Arrive, FdOpen, OfRun, streamVars
  <2>2. \A x \in Reader : Locking(x) => Locking(x)'
    BY <1>5 DEF Arrive, Is, Locking
  <2> QED BY <1>t, <2>1, <2>2 DEF Arrive, LockHeld
<1>6. \A x \in Reader : Alone(x)'
  <2>1. Alone(r)'
    <3>1. request'[r].alone => \A q \in Reader \ {r} : request'[q].pc = "off"
      BY <1>1, <1>2, <1>5 DEF Is
    <3>2. segment' = "there"
      BY DEF Arrive, streamVars
    <3>3. request'[r].pc = "look"
      BY <1>1, <1>2
    <3> QED BY <3>1, <3>2, <3>3 DEF Alone, Progress
  <2>2. ASSUME NEW x \in Reader, x # r PROVE Alone(x)'
    <3>1. ~request'[x].alone
      BY <1>5, <2>2
    <3> QED BY <3>1 DEF Alone
  <2> QED BY <2>1, <2>2
<1> QED BY <1>3, <1>4, <1>6 DEF IInv

LEMMA WorksKeeps == ASSUME IInv, NEW r \in Reader, Works(r) \/ RequestDies(r) PROVE IInv'
<1> USE SegmentAssumption
<1>t. /\ SegmentTypeOK /\ FdOpen /\ LockHeld /\ request[r] \in ReqType /\ Alone(r)
      /\ enc \in (SUBSET Piece) \cup {NoFile} /\ lock \in {"none", "touched", "left"}
      /\ encoder.run \in 0..MaxRuns /\ key \in 0..MaxRuns
  BY DEF IInv, SegmentTypeOK, ReqType
<1>m. \A pc \in {"touch", "key", "data", "open", "write", "unlock", "send", "wait"} :
        /\ Moved(r, pc) \in ReqType /\ Moved(r, pc).pc = pc
        /\ Moved(r, pc).piece = request[r].piece
        /\ Moved(r, pc).fd = request[r].fd /\ Moved(r, pc).alone = request[r].alone
  BY MovedType
<1>1. CASE Look(r)
  <2> DEFINE q == Moved(r, IF lock # "none" THEN "wait" ELSE "touch")
  <2>1. q \in ReqType /\ q.fd = request[r].fd /\ q.alone = request[r].alone
    BY <1>m
  <2>2. /\ q.pc \in {"wait", "touch"}
        /\ lock = "none" => q.pc = "touch"
    BY <1>m
  <2>3. GoOn(r, q) /\ request[r].pc = "look" /\ UNCHANGED <<streamVars, enc, lock, sweep>>
    BY <1>1 DEF Look, Is
  <2>4. request'[r] = q
    BY <2>3 DEF GoOn, IInv, SegmentTypeOK
  <2>5. q.fd => enc # NoFile
    BY <2>1, <1>t DEF FdOpen
  <2>7. ~Locking(r)
    BY <2>3 DEF Locking
  <2>6. q.alone => request[r].alone /\ Progress(r)'
    <3>1. q.alone => \A x \in Reader : ~Locking(x)
      BY <1>t, <2>1, <2>7 DEF Alone, Locking
    <3>2. q.alone => lock # "touched"
      BY <1>t, <3>1 DEF LockHeld
    <3> QED BY <1>t, <2>1, <2>2, <2>3, <2>4, <3>2 DEF Progress
  <2> QED BY <1>t, <2>1, <2>3, <2>5, <2>6, <2>7, GoesOn
<1>2. CASE Touch(r)
  <2> DEFINE q == Moved(r, "key")
  <2>1. q \in ReqType /\ q.pc = "key" /\ q.piece = request[r].piece /\ q.fd = request[r].fd /\ q.alone = request[r].alone
    BY <1>m
  <2>2. GoOn(r, q) /\ request[r].pc = "touch" /\ UNCHANGED <<streamVars, sweep>>
    BY <1>2 DEF Touch, Is
  <2> HIDE DEF q
  <2>3. request'[r] = q
    BY <2>2 DEF GoOn, IInv, SegmentTypeOK
  <2>4. q.fd => enc' # NoFile
    BY <2>1, <1>t, <1>2 DEF FdOpen, Touch
  <2>5. q.alone => request[r].alone /\ Progress(r)'
    BY <1>t, <1>2, <2>1, <2>2, <2>3 DEF Alone, Progress, Whole, streamVars, Touch
  <2> QED BY <1>t, <1>2, <2>1, <2>2, <2>4, <2>5, GoesOn DEF Touch
<1>7. CASE Unlock(r)
  <2> DEFINE q == Moved(r, "send")
  <2>1. q \in ReqType /\ q.pc = "send" /\ q.piece = request[r].piece /\ q.fd = request[r].fd /\ q.alone = request[r].alone
    BY <1>m
  <2>2. GoOn(r, q) /\ request[r].pc = "unlock" /\ UNCHANGED <<streamVars, sweep>>
    BY <1>7 DEF Unlock, Is
  <2> HIDE DEF q
  <2>3. request'[r] = q
    BY <2>2 DEF GoOn, IInv, SegmentTypeOK
  <2>4. q.fd => enc' # NoFile
    BY <2>1, <1>t, <1>7 DEF FdOpen, Unlock
  <2>5. q.alone => request[r].alone /\ Progress(r)'
    BY <1>t, <1>7, <2>1, <2>2, <2>3 DEF Alone, Progress, Whole, streamVars, Unlock
  <2> QED BY <1>t, <1>7, <2>1, <2>2, <2>4, <2>5, GoesOn DEF Unlock
<1>8. CASE WaitOver(r)
  <2> DEFINE q == Moved(r, "send")
  <2>1. q \in ReqType /\ q.pc = "send" /\ q.piece = request[r].piece /\ q.fd = request[r].fd /\ q.alone = request[r].alone
    BY <1>m
  <2>2. GoOn(r, q) /\ request[r].pc = "wait" /\ UNCHANGED <<streamVars, sweep>>
    BY <1>8 DEF WaitOver, Is
  <2> HIDE DEF q
  <2>3. request'[r] = q
    BY <2>2 DEF GoOn, IInv, SegmentTypeOK
  <2>4. q.fd => enc' # NoFile
    BY <2>1, <1>t, <1>8 DEF FdOpen, WaitOver
  <2>5. q.alone => request[r].alone /\ Progress(r)'
    BY <1>t, <1>8, <2>1, <2>2, <2>3 DEF Alone, Progress, Whole, streamVars, WaitOver
  <2> QED BY <1>t, <1>8, <2>1, <2>2, <2>4, <2>5, GoesOn DEF WaitOver, Locking
<1>9. CASE GiveUp(r)
  <2> DEFINE q == Moved(r, "send")
  <2>1. q \in ReqType /\ q.pc = "send" /\ q.piece = request[r].piece /\ q.fd = request[r].fd /\ q.alone = request[r].alone
    BY <1>m
  <2>2. GoOn(r, q) /\ request[r].pc = "wait" /\ UNCHANGED <<streamVars, sweep>>
    BY <1>9 DEF GiveUp, Is
  <2> HIDE DEF q
  <2>3. request'[r] = q
    BY <2>2 DEF GoOn, IInv, SegmentTypeOK
  <2>4. q.fd => enc' # NoFile
    BY <2>1, <1>t, <1>9 DEF FdOpen, GiveUp
  <2>5. q.alone => request[r].alone /\ Progress(r)'
    BY <1>t, <1>9, <2>1, <2>2, <2>3 DEF Alone, Progress, Whole, streamVars, GiveUp
  <2> QED BY <1>t, <1>9, <2>1, <2>2, <2>4, <2>5, GoesOn DEF GiveUp, Locking
<1>3. CASE ReadKey(r)
  <2> DEFINE q == [Moved(r, "data") EXCEPT !.piece.key = key]
  <2>1. q \in ReqType /\ q.pc = "data" /\ q.piece.key = key /\ q.fd = request[r].fd /\ q.alone = request[r].alone
    BY <1>t, <1>m DEF ReqType, Piece
  <2>2. GoOn(r, q) /\ request[r].pc = "key" /\ UNCHANGED <<streamVars, sweep>>
    BY <1>3 DEF ReadKey, Is
  <2> HIDE DEF q
  <2>3. request'[r] = q
    BY <2>2 DEF GoOn, IInv, SegmentTypeOK
  <2>4. q.fd => enc' # NoFile
    BY <2>1, <1>t, <1>3 DEF FdOpen, ReadKey
  <2>5. q.alone => request[r].alone /\ Progress(r)'
    BY <1>t, <1>3, <2>1, <2>2, <2>3 DEF Alone, Progress, Whole, streamVars, ReadKey
  <2> QED BY <1>t, <1>3, <2>1, <2>2, <2>4, <2>5, GoesOn DEF ReadKey
<1>4. CASE Encrypt(r)
  <2> DEFINE q == [Moved(r, "open") EXCEPT !.piece.of = IF segment = "there" THEN encoder.run ELSE 0]
  <2>1. q \in ReqType /\ q.pc = "open"
        /\ q.piece.key = request[r].piece.key /\ q.piece.of = (IF segment = "there" THEN encoder.run ELSE 0)
        /\ q.fd = request[r].fd /\ q.alone = request[r].alone
    BY <1>t, <1>m DEF ReqType, Piece
  <2>2. GoOn(r, q) /\ request[r].pc = "data" /\ UNCHANGED <<streamVars, sweep>>
    BY <1>4 DEF Encrypt, Is
  <2> HIDE DEF q
  <2>3. request'[r] = q
    BY <2>2 DEF GoOn, IInv, SegmentTypeOK
  <2>4. q.fd => enc' # NoFile
    BY <2>1, <1>t, <1>4 DEF FdOpen, Encrypt
  <2>w. q.alone => q.piece = Whole
    <3>1. q.alone => q.piece.key = key /\ q.piece.of = encoder.run
      BY <1>t, <2>1, <2>2 DEF Alone, Progress
    <3> QED BY <3>1, <2>1 DEF ReqType, Piece, Whole
  <2>5. q.alone => request[r].alone /\ Progress(r)'
    BY <1>t, <1>4, <2>1, <2>2, <2>3, <2>w DEF Alone, Progress, Whole, streamVars, Encrypt
  <2> QED BY <1>t, <1>4, <2>1, <2>2, <2>4, <2>5, GoesOn DEF Encrypt
<1>5. CASE OpenEnc(r)
  <2> DEFINE q == [Moved(r, "write") EXCEPT !.fd = TRUE]
  <2>1. q \in ReqType /\ q.pc = "write" /\ q.fd /\ q.piece = request[r].piece /\ q.alone = request[r].alone
    BY <1>m DEF ReqType
  <2>2. GoOn(r, q) /\ request[r].pc = "open" /\ UNCHANGED <<streamVars, sweep>>
    BY <1>5 DEF OpenEnc, Is
  <2> HIDE DEF q
  <2>3. request'[r] = q
    BY <2>2 DEF GoOn, IInv, SegmentTypeOK
  <2>4. q.fd => enc' # NoFile
    BY <2>1, <1>t, <1>5 DEF FdOpen, OpenEnc
  <2>5. q.alone => request[r].alone /\ Progress(r)'
    BY <1>t, <1>5, <2>1, <2>2, <2>3 DEF Alone, Progress, Whole, streamVars, OpenEnc
  <2> QED BY <1>t, <1>5, <2>1, <2>2, <2>4, <2>5, GoesOn DEF OpenEnc
<1>6. CASE WriteEnc(r)
  <2> DEFINE a == request[r].alone
             q == [NoRequest EXCEPT !.pc = "unlock", !.alone = a]
  <2>1. q \in ReqType /\ q.pc = "unlock" /\ ~q.fd /\ q.alone = request[r].alone
    <3>1. a \in BOOLEAN
      BY <1>t DEF ReqType
    <3>2. a = request[r].alone
      OBVIOUS
    <3>3. "unlock" \in {"look", "unlock"}
      OBVIOUS
    <3> HIDE DEF a
    <3>4. q \in ReqType /\ q.pc = "unlock" /\ ~q.fd /\ q.alone = a
      BY <3>1, <3>3, NewType, Zenon
    <3> QED BY <3>2, <3>4
  <2>2. GoOn(r, q) /\ request[r].pc = "write" /\ UNCHANGED <<streamVars, sweep>>
    BY <1>6 DEF WriteEnc, Is
  <2> HIDE DEF q
  <2>3. request'[r] = q
    BY <2>2 DEF GoOn, IInv, SegmentTypeOK
  <2>4. q.fd => enc' # NoFile
    BY <2>1, <1>t, <1>6 DEF FdOpen, WriteEnc
  <2>5. q.alone => request[r].alone /\ Progress(r)'
    BY <1>t, <1>6, <2>1, <2>2, <2>3 DEF Alone, Progress, Whole, streamVars, WriteEnc
  <2>6. enc' \in (SUBSET Piece) \cup {NoFile} /\ (enc # NoFile => enc' # NoFile)
    <3>1. request[r].piece \in Piece /\ (request[r].fd => enc \in SUBSET Piece)
      BY <1>t DEF ReqType, FdOpen
    <3> DEFINE piece == request[r].piece
    <3>2. IF request[r].fd THEN enc' \in {{piece}, enc \cup {piece}} ELSE enc' = enc
      BY <1>6 DEF WriteEnc
    <3>3. CASE request[r].fd
      <4>1. enc' = {piece} \/ enc' = enc \cup {piece}
        BY <3>2, <3>3
      <4>2. enc' \in SUBSET Piece
        BY <3>1, <3>3, <4>1
      <4> QED BY <4>2
    <3>4. CASE ~request[r].fd
      BY <1>t, <3>2, <3>4
    <3> QED BY <3>3, <3>4
  <2> QED BY <1>t, <1>6, <2>1, <2>2, <2>4, <2>5, <2>6, GoesOn DEF WriteEnc
<1>10. CASE Send(r)
  <2> DEFINE q == NoRequest
  <2>1. q \in ReqType /\ q.pc = "off" /\ ~q.fd /\ ~q.alone
    BY NoRequestType
  <2>2. GoOn(r, q) /\ request[r].pc = "send" /\ UNCHANGED <<streamVars, sweep>>
    BY <1>10 DEF Send, Is
  <2> HIDE DEF q
  <2>3. request'[r] = q
    BY <2>2 DEF GoOn, IInv, SegmentTypeOK
  <2>4. q.fd => enc' # NoFile
    BY <2>1, <1>t, <1>10 DEF FdOpen, Send
  <2>5. q.alone => request[r].alone /\ Progress(r)'
    BY <1>t, <1>10, <2>1, <2>2, <2>3 DEF Alone, Progress, Whole, streamVars, Send
  <2> QED BY <1>t, <1>10, <2>1, <2>2, <2>4, <2>5, GoesOn DEF Send, Locking
<1>11. CASE RequestDies(r)
  <2>1. /\ request[r].pc # "off" /\ GoOn(r, NoRequest) /\ UNCHANGED <<streamVars, enc, sweep>>
        /\ lock' = IF Locking(r) /\ lock = "touched" THEN "left" ELSE lock
    BY <1>11 DEF RequestDies, Is
  <2> QED BY <1>t, <2>1, NoRequestType, GoesOn
<1> QED BY <1>1, <1>2, <1>3, <1>4, <1>5, <1>6, <1>7, <1>8, <1>9, <1>10, <1>11 DEF Works

-----------------------------------------------------------------------------
(* Theorems                                                                *)

LEMMA IInvHolds == SegmentSpec => []IInv
<1>1. IInv /\ [SegmentNext]_segmentVars => IInv'
  <2>1. ASSUME IInv, UNCHANGED segmentVars PROVE IInv'
    BY <2>1 DEF IInv, segmentVars, SegmentTypeOK, FdOpen, OfRun, LockHeld, Locking, Alone, Progress, Whole
  <2> QED BY <2>1, StreamKeeps, ArriveKeeps, WorksKeeps DEF SegmentNext
<1> QED BY <1>1, SegmentInitIInv, PTL DEF SegmentSpec

\* The files, the steps of the requests and the pieces keep their types.
THEOREM SegmentTypeCorrect == SegmentSpec => []SegmentTypeOK
<1>1. IInv => SegmentTypeOK
  BY DEF IInv
<1> QED BY <1>1, IInvHolds, PTL

\* However many requests raced, died or were overtaken by restarts and stops of the
\* stream before, a request that meets no other one sends the whole segment under the
\* current key (segment.php), unless the .enc_write of a dead worker still stands.
THEOREM HealedAlone == SegmentSpec => []HealsItself
<1>1. IInv => HealsItself
  BY DEF IInv, Alone, Progress, Whole, HealsItself, Is
<1> QED BY <1>1, IInvHolds, PTL
=================================================================================
