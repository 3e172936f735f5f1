------------------------ MODULE StreamMonitor_proofs ------------------------
(***************************************************************************)
(* For any number of processes and disturbances: the types; that two       *)
(* monitors come from starts that overlap or from a start beside a monitor *)
(* that took over an encoder, and from nothing else; and without both no   *)
(* way out of the list of streams.php but a stop, and an encoder that      *)
(* outlives its monitors.                                                  *)
(***************************************************************************)
EXTENDS StreamStarts, TLAPS

\* The tuples of variables that most actions leave alone.
USE DEF viewers, pids

Kind == {"start", "stop", "viewer", "crash", "trouble", "source", "reuse", "overlap", "blind"}
Procs == {"free", "boot", "monitor", "encoder"}
MonPcs == {"off", "check", "register", "adopt", "watch", "kill", "restart", "start", "record",
           "await", "announced"}
Mons == [pc : MonPcs, enc : Pid \cup {NoPid, MinusOne}, restart : BOOLEAN]
Rows == [monitor : Pid \cup {NoPid}, pid : Pid \cup {NoPid, MinusOne}, status : 0..2]

\* A process and what it does as a monitor belong together.
Fits(what, m) ==
  /\ m.pc \in {"check", "register"} <=> what = "boot"
  /\ m.pc = "off" <=> what \in {"free", "encoder"}

ProcOK ==
  /\ proc \in [Pid -> Procs]
  /\ mon \in [Pid -> Mons]
  /\ \A p \in Pid : Fits(proc[p], mon[p])

RestOK ==
  /\ row \in Rows
  /\ fresh \in BOOLEAN /\ playlist \in BOOLEAN /\ source \in BOOLEAN
  /\ monitorFile \in Pid \cup {NoPid} /\ pidFile \in Pid \cup {NoPid}
  /\ clients \in 0..MaxClients /\ watching \in 0..clients
  /\ cron.pc \in {"off", "stream", "refresh", "sweep"}
  /\ live \subseteq Pid /\ held \subseteq Pid
  /\ api \in {"idle", "stopping"}

CountOK == faults \in [Kind -> Nat]

TInv == ProcOK /\ RestOK /\ CountOK

\* TInv has the types of TypeOK and those of the disturbances.
LEMMA TInvTypes == TInv => TypeOK
BY DEF TInv, ProcOK, RestOK, Fits, Procs, MonPcs, Mons, Rows, TypeOK

-----------------------------------------------------------------------------
(* What the operators of the module do to the process table                *)

\* Whoever is killed is gone with its variables.
LEMMA KillAllFits ==
  ASSUME ProcOK, NEW victims, KillAll(victims)
  PROVE  /\ ProcOK'
         /\ \A q \in Pid : proc'[q] = "free" \/ (proc'[q] = proc[q] /\ mon'[q] = mon[q])
<1>1. NoMonitor \in Mons /\ Fits("free", NoMonitor)
  BY DEF NoMonitor, Mons, MonPcs, Fits
<1>2. \A q \in Pid : q \in victims => proc'[q] = "free" /\ mon'[q] = NoMonitor
  BY DEF KillAll, Killed, Forgotten
<1>3. \A q \in Pid : q \notin victims => proc'[q] = proc[q] /\ mon'[q] = mon[q]
  BY DEF KillAll, Killed, Forgotten
<1>4. proc' \in [Pid -> Procs] /\ mon' \in [Pid -> Mons]
  BY <1>1 DEF KillAll, Killed, Forgotten, ProcOK, Procs
<1> QED BY <1>1, <1>2, <1>3, <1>4 DEF ProcOK

\* A monitor goes on, and others are killed.
LEMMA GoFits ==
  ASSUME ProcOK, NEW p \in Pid, NEW m \in Mons, NEW victims, Go(p, m, victims),
         p \notin victims => Fits(proc[p], m)
  PROVE  /\ ProcOK'
         /\ \A q \in Pid : proc'[q] = "free" \/ proc'[q] = proc[q]
         /\ \A q \in Pid : q # p => proc'[q] = "free" \/ mon'[q] = mon[q]
         /\ \A q \in victims : q \in Pid => proc'[q] = "free"
<1>1. NoMonitor \in Mons /\ Fits("free", NoMonitor)
  BY DEF NoMonitor, Mons, MonPcs, Fits
<1>2. \A q \in Pid : q \in victims => proc'[q] = "free" /\ mon'[q] = NoMonitor
  BY DEF Go, Killed
<1>3. \A q \in Pid : q \notin victims => proc'[q] = proc[q] /\ mon'[q] = IF q = p THEN m ELSE mon[q]
  BY DEF Go, Killed
<1>4. proc' \in [Pid -> Procs] /\ mon' \in [Pid -> Mons]
  BY <1>1 DEF Go, Killed, ProcOK, Procs
<1>5. \A q \in Pid : Fits(proc'[q], mon'[q])
  BY <1>1, <1>2, <1>3 DEF ProcOK
<1> QED BY <1>2, <1>3, <1>4, <1>5 DEF ProcOK

\* Disturbances are used up, and none that is not left happens.
LEMMA DisturbCounts ==
  ASSUME CountOK, NEW kinds, Disturb(kinds)
  PROVE  /\ CountOK'
         /\ \A k \in Kind : k \in kinds => faults[k] > 0
         /\ \A k \in Kind : k \notin kinds => faults'[k] = faults[k]
<1>1. DOMAIN faults = Kind
  BY DEF CountOK
<1>2. \A k \in Kind : k \in kinds => faults[k] > 0
  BY DEF Disturb
<1>3. faults' = [k \in Kind |-> faults[k] - IF k \in kinds THEN 1 ELSE 0]
  BY <1>1 DEF Disturb
<1>4. \A k \in Kind : faults[k] - (IF k \in kinds THEN 1 ELSE 0) \in Nat
  BY <1>2 DEF CountOK
<1>5. CountOK'
  BY <1>3, <1>4 DEF CountOK
<1>6. \A k \in Kind : k \notin kinds => faults'[k] = faults[k]
  BY <1>3 DEF CountOK
<1> QED BY <1>2, <1>5, <1>6

\* A new process uses up what it is said to.
LEMMA NewPidCounts ==
  ASSUME CountOK, NEW p, NEW kinds, NewPid(p, kinds)
  PROVE  CountOK' /\ \A k \in Kind : k \in kinds => faults[k] > 0
<1>1. PICK all : Disturb(all) /\ kinds \subseteq all
  <2>1. Disturb(kinds) \/ Disturb(kinds \cup {"reuse"})
    BY DEF NewPid
  <2>2. CASE Disturb(kinds)
    BY <2>2
  <2>3. CASE Disturb(kinds \cup {"reuse"})
    BY <2>3
  <2> QED BY <2>1, <2>2, <2>3
<1> QED BY <1>1, DisturbCounts

\* startMonitor adds one process, which has not got its title yet, and which
\* may miss a monitor only as often as it is said to.
LEMMA StartMonitorFits ==
  ASSUME ProcOK, CountOK, NEW restart \in BOOLEAN, NEW kinds, StartMonitor(restart, kinds)
  PROVE  /\ ProcOK' /\ CountOK'
         /\ \A k \in Missed : faults[k] > 0
         /\ \E p \in Pid : /\ proc[p] = "free" /\ proc'[p] = "boot" /\ mon'[p].pc = "check"
                           /\ \A q \in Pid : q # p => proc'[q] = proc[q] /\ mon'[q] = mon[q]
<1>1. PICK p \in Spare :
        /\ NewPid(p, kinds \cup Missed)
        /\ proc' = [proc EXCEPT ![p] = "boot"]
        /\ mon' = [mon EXCEPT ![p] = [pc |-> "check", enc |-> NoPid, restart |-> restart]]
  BY DEF StartMonitor
<1>2. p \in Pid /\ proc[p] = "free"
  BY DEF Spare
<1>3. [pc |-> "check", enc |-> NoPid, restart |-> restart] \in Mons
  BY DEF Mons, MonPcs
<1>4. Fits("boot", [pc |-> "check", enc |-> NoPid, restart |-> restart])
  BY DEF Fits
<1>5. proc'[p] = "boot" /\ mon'[p] = [pc |-> "check", enc |-> NoPid, restart |-> restart]
  BY <1>1, <1>2 DEF ProcOK
<1>6. \A q \in Pid : q # p => proc'[q] = proc[q] /\ mon'[q] = mon[q]
  BY <1>1 DEF ProcOK
<1>7. proc' \in [Pid -> Procs] /\ mon' \in [Pid -> Mons]
  BY <1>1, <1>3 DEF ProcOK, Procs
<1>8. ProcOK'
  BY <1>4, <1>5, <1>6, <1>7 DEF ProcOK
<1>9. Missed \subseteq Kind
  BY DEF Missed, Kind
<1>10. CountOK' /\ \A k \in Missed : faults[k] > 0
  BY <1>1, <1>9, NewPidCounts
<1> QED BY <1>2, <1>5, <1>6, <1>8, <1>10

-----------------------------------------------------------------------------
(* Types                                                                   *)

LEMMA TypeInit == Init => TInv
<1> SUFFICES ASSUME Init PROVE TInv
  OBVIOUS
<1>1. ProcOK
  BY DEF Init, ProcOK, Procs, Mons, MonPcs, NoMonitor, Fits
<1>2. RestOK
  <2>1. 0 \in 0..2 /\ 0 \in 0..MaxClients /\ 0 \in 0..0
    BY BoundAssumption
  <2>2. row \in Rows
    BY <2>1 DEF Init, Rows
  <2> QED BY <2>1, <2>2 DEF Init, RestOK, NoRun
<1>3. CountOK
  BY BoundAssumption DEF Init, CountOK, Kind
<1> QED BY <1>1, <1>2, <1>3 DEF TInv

\* The place a monitor goes to when it does no more than going on.
LEMMA AtFits ==
  ASSUME ProcOK, NEW p \in Pid, mon[p].pc \notin {"off", "check", "register"},
         NEW pc \in MonPcs \ {"off", "check", "register"}
  PROVE  /\ At(p, pc) \in Mons
         /\ Fits(proc[p], At(p, pc))
         /\ \A e \in Pid \cup {NoPid, MinusOne}, r \in BOOLEAN :
              /\ [At(p, pc) EXCEPT !.enc = e, !.restart = r] \in Mons
              /\ Fits(proc[p], [At(p, pc) EXCEPT !.enc = e, !.restart = r])
              /\ [At(p, pc) EXCEPT !.enc = e] \in Mons
              /\ Fits(proc[p], [At(p, pc) EXCEPT !.enc = e])
              /\ [At(p, pc) EXCEPT !.restart = r] \in Mons
              /\ Fits(proc[p], [At(p, pc) EXCEPT !.restart = r])
<1>1. mon[p] \in Mons /\ proc[p] = "monitor"
  BY DEF ProcOK, Procs, Fits
<1> QED BY <1>1 DEF At, Mons, Fits

\* A row of streams_servers with a new value in one of its columns.
LEMMA RowTypes ==
  ASSUME RestOK
  PROVE  /\ \A m \in Pid \cup {NoPid} : [row EXCEPT !.monitor = m] \in Rows
         /\ \A e \in Pid \cup {NoPid, MinusOne} : [row EXCEPT !.pid = e] \in Rows
         /\ \A st \in {0, 1, 2} : [row EXCEPT !.status = st] \in Rows
         /\ \A e \in Pid \cup {NoPid, MinusOne}, st \in {0, 1, 2} :
              [row EXCEPT !.pid = e, !.status = st] \in Rows
         /\ ClearRow \in Rows
<1>1. row \in Rows
  BY DEF RestOK
<1>2. \A r \in Rows, m \in Pid \cup {NoPid} : [r EXCEPT !.monitor = m] \in Rows
  BY DEF Rows
<1>3. \A r \in Rows, e \in Pid \cup {NoPid, MinusOne} : [r EXCEPT !.pid = e] \in Rows
  BY DEF Rows
<1>4. \A r \in Rows, st \in {0, 1, 2} : [r EXCEPT !.status = st] \in Rows
  BY DEF Rows
<1>5. \A e, st : [row EXCEPT !.pid = e, !.status = st] = [[row EXCEPT !.pid = e] EXCEPT !.status = st]
  OBVIOUS
<1>6. ClearRow \in Rows
  BY DEF ClearRow, Rows
<1>7. \A e \in Pid \cup {NoPid, MinusOne}, st \in {0, 1, 2} :
        [row EXCEPT !.pid = e, !.status = st] \in Rows
  <2> SUFFICES ASSUME NEW e \in Pid \cup {NoPid, MinusOne}, NEW st \in {0, 1, 2}
               PROVE  [[row EXCEPT !.pid = e] EXCEPT !.status = st] \in Rows
    BY <1>5
  <2>1. [row EXCEPT !.pid = e] \in Rows
    BY <1>1, <1>3
  <2> QED BY <2>1, <1>4
<1> QED BY <1>1, <1>2, <1>3, <1>4, <1>6, <1>7

\* Every step of a monitor keeps the types,
LEMMA MonitorTypes ==
  ASSUME TInv, NEW p \in Pid, Monitor(p) \/ Segment(p) \/ Trouble(p)
  PROVE  TInv'
<1>1. ProcOK /\ RestOK /\ CountOK
  BY DEF TInv
<1>2. mon[p] \in Mons /\ proc[p] \in Procs /\ Fits(proc[p], mon[p])
  BY <1>1 DEF ProcOK
<1>3. mon[p].enc \in Pid \cup {NoPid, MinusOne} /\ mon[p].restart \in BOOLEAN
  BY <1>2 DEF Mons
<1>4. row \in Rows /\ row.pid \in Pid \cup {NoPid, MinusOne} /\ pidFile \in Pid \cup {NoPid}
  BY <1>1 DEF RestOK, Rows
<1>5. NoMonitor \in Mons
  BY DEF NoMonitor, Mons, MonPcs
<1>6. CASE CheckRunning(p)
  <2>1. At(p, "register") \in Mons /\ Fits(proc[p], At(p, "register"))
    BY <1>2, <1>6 DEF CheckRunning, At, Mons, MonPcs, Fits
  <2>2. ProcOK'
    BY <1>1, <1>6, <2>1, GoFits DEF CheckRunning
  <2> QED BY <1>1, <1>6, <2>2 DEF CheckRunning, files, others, TInv, RestOK, CountOK
<1>7. CASE Register(p)
  <2> DEFINE m == [mon[p] EXCEPT !.pc = "adopt", !.enc = IF pidFile # NoPid THEN pidFile ELSE row.pid]
  <2>1. m \in Mons /\ Fits("monitor", m)
    BY <1>2, <1>4 DEF Mons, MonPcs, Fits
  <2>2. mon' = [mon EXCEPT ![p] = m] /\ proc' = [proc EXCEPT ![p] = "monitor"]
    BY <1>1, <1>7 DEF Register, ProcOK
  <2>3. ProcOK'
    BY <1>1, <2>1, <2>2 DEF ProcOK, Procs
  <2> QED BY <1>1, <1>7, <2>3, RowTypes DEF Register, files, others, TInv, RestOK, CountOK
<1>8. CASE Adopt(p)
  <2>1. PICK pc \in {"watch", "kill"} : Go(p, [At(p, pc) EXCEPT !.restart = FALSE], Rogues(mon[p].enc))
    BY <1>8 DEF Adopt
  <2>2. ProcOK'
    BY <1>1, <1>3, <1>8, <2>1, AtFits, GoFits DEF Adopt, MonPcs
  <2> QED BY <1>1, <1>8, <2>2 DEF Adopt, others, TInv, RestOK, CountOK
<1>9. CASE Replace(p)
  <2>1. ProcOK'
    <3>1. CASE mon[p].enc = p
      BY <1>1, <1>9, <3>1, KillAllFits DEF Replace
    <3>2. CASE mon[p].enc # p
      BY <1>1, <1>9, <3>2, AtFits, GoFits DEF Replace, MonPcs
    <3> QED BY <3>1, <3>2
  <2> QED BY <1>1, <1>9, <2>1 DEF Replace, files, others, TInv, RestOK, CountOK
<1>10. CASE Probe(p)
  <2>1. mon[p].enc \in Pid
    BY <1>10 DEF Probe, OnAir, Running
  <2> QED BY <1>1, <1>10, <2>1 DEF Probe, others, TInv, ProcOK, RestOK, CountOK
<1>11. CASE Lost(p) \/ Trouble(p) \/ KillOld(p)
  <2>1. PICK pc \in {"kill", "restart"} : \E victims : Go(p, At(p, pc), victims)
    BY <1>11 DEF Lost, Trouble, KillOld
  <2>2. ProcOK'
    BY <1>1, <1>11, <2>1, AtFits, GoFits DEF Lost, Trouble, KillOld, MonPcs
  <2>3. CountOK'
    BY <1>1, <1>11, DisturbCounts DEF Lost, Trouble, KillOld, others, CountOK
  <2> QED BY <1>1, <1>11, <2>2, <2>3 DEF Lost, Trouble, KillOld, files, others, TInv, RestOK
<1>12. CASE Restart(p)
  <2>1. ProcOK'
    <3>1. CASE Running(mon[p].enc)
      BY <1>1, <1>12, <3>1, AtFits, GoFits DEF Restart, MonPcs
    <3>2. CASE ~ Running(mon[p].enc)
      BY <1>1, <1>12, <3>2, AtFits, GoFits DEF Restart, MonPcs
    <3> QED BY <3>1, <3>2
  <2> QED BY <1>1, <1>12, <2>1 DEF Restart, files, others, TInv, RestOK, CountOK
<1>13. CASE StartFails(p)
  <2>1. ProcOK'
    BY <1>1, <1>5, <1>13, GoFits DEF StartFails
  <2>2. row' \in Rows
    BY <1>1, <1>13, RowTypes DEF StartFails
  <2> QED BY <1>1, <1>13, <2>1, <2>2 DEF StartFails, others, TInv, RestOK, CountOK
<1>14. CASE StartEncoder(p)
  <2>1. PICK f \in Spare :
          EncoderPid(f) /\ proc' = [proc EXCEPT ![f] = "encoder"] /\ pidFile' = f
    BY <1>14 DEF StartEncoder
  <2>2. f \in Pid /\ proc[f] = "free" /\ f # p
    BY <1>2, <1>14, <2>1 DEF Spare, StartEncoder, Fits
  <2>3. At(p, "record") \in Mons /\ Fits(proc[p], At(p, "record")) /\ mon' = [mon EXCEPT ![p] = At(p, "record")]
    BY <1>1, <1>14, AtFits DEF StartEncoder, At, MonPcs, ProcOK
  <2>4. \A m : Fits("free", m) => Fits("encoder", m)
    BY DEF Fits
  <2>5. ProcOK'
    BY <1>1, <2>1, <2>2, <2>3, <2>4 DEF ProcOK, Procs
  <2>6. CountOK'
    BY <1>1, <2>1, NewPidCounts DEF EncoderPid
  <2>7. held' \subseteq Pid
    BY <1>1, <2>1, <2>2 DEF EncoderPid, RestOK
  <2> QED BY <1>1, <1>14, <2>1, <2>2, <2>5, <2>6, <2>7 DEF StartEncoder, TInv, RestOK
<1>15. CASE Record(p) \/ Segment(p)
  <2>1. PICK pc \in {"await", "announced"}, e \in {pidFile, mon[p].enc} :
          mon' = [mon EXCEPT ![p] = [At(p, pc) EXCEPT !.enc = e]] /\ proc' = proc
    <3>1. CASE Record(p)
      BY <1>1, <3>1 DEF Record, At, ProcOK
    <3>2. CASE Segment(p)
      <4>1. At(p, "announced") = [At(p, "announced") EXCEPT !.enc = mon[p].enc]
        BY <1>2 DEF At, Mons
      <4> QED BY <1>1, <3>2, <4>1 DEF Segment, At, ProcOK
    <3> QED BY <1>15, <3>1, <3>2
  <2>2. [At(p, pc) EXCEPT !.enc = e] \in Mons /\ Fits(proc[p], [At(p, pc) EXCEPT !.enc = e])
    <3>1. mon[p].pc \notin {"off", "check", "register"} /\ e \in Pid \cup {NoPid, MinusOne}
      <4>1. mon[p].enc \in Pid \cup {NoPid, MinusOne}
        BY <1>2 DEF Mons
      <4> QED BY <1>4, <1>15, <4>1 DEF Record, Segment
    <3>2. pc \in MonPcs \ {"off", "check", "register"}
      BY DEF MonPcs
    <3>3. \A d \in Pid \cup {NoPid, MinusOne} :
            /\ [At(p, pc) EXCEPT !.enc = d] \in Mons
            /\ Fits(proc[p], [At(p, pc) EXCEPT !.enc = d])
      <4>1. TRUE \in BOOLEAN
        OBVIOUS
      <4> QED BY <1>1, <3>1, <3>2, <4>1, AtFits, Zenon
    <3> QED BY <3>1, <3>3, Zenon
  <2>3. ProcOK'
    BY <1>1, <2>1, <2>2 DEF ProcOK
  <2>4. row' \in Rows
    <3>1. CASE Record(p)
      <4>1. pidFile \in Pid \cup {NoPid, MinusOne} /\ 2 \in {0, 1, 2}
        BY <1>4
      <4>2. row' = [row EXCEPT !.pid = pidFile, !.status = 2]
        BY <3>1 DEF Record
      <4> QED BY <1>1, <4>1, <4>2, RowTypes
    <3>2. CASE Segment(p)
      <4>1. row' = [row EXCEPT !.status = 0] /\ 0 \in {0, 1, 2}
        BY <3>2 DEF Segment
      <4> QED BY <1>1, <4>1, RowTypes
    <3> QED BY <1>15, <3>1, <3>2
  <2> QED BY <1>1, <1>15, <2>3, <2>4 DEF Record, Segment, files, others, TInv, RestOK, CountOK
<1>16. CASE Ready(p)
  <2>1. ProcOK'
    BY <1>1, <1>16, AtFits, GoFits DEF Ready, Awaiting, MonPcs
  <2>2. row' \in Rows
    BY <1>1, <1>16, RowTypes DEF Ready
  <2> QED BY <1>1, <1>16, <2>1, <2>2 DEF Ready, files, others, TInv, RestOK, CountOK
<1>17. CASE NotReady(p)
  <2>1. ProcOK'
    <3>1. PICK old : \/ Go(p, NoMonitor, old \cup {p})
                     \/ Go(p, At(p, "restart"), old)
      BY <1>17 DEF NotReady
    <3>2. CASE Go(p, NoMonitor, old \cup {p})
      BY <1>1, <1>5, <3>2, GoFits
    <3>3. CASE Go(p, At(p, "restart"), old)
      BY <1>1, <1>17, <3>3, AtFits, GoFits DEF NotReady, Awaiting, MonPcs
    <3> QED BY <3>1, <3>2, <3>3
  <2>2. row' \in Rows
    BY <1>1, <1>17, RowTypes DEF NotReady, FailedRow
  <2>3. CountOK'
    BY <1>1, <1>17, DisturbCounts DEF NotReady, CountOK
  <2> QED BY <1>1, <1>17, <2>1, <2>2, <2>3 DEF NotReady, files, TInv, RestOK
<1> QED BY <1>6, <1>7, <1>8, <1>9, <1>10, <1>11, <1>12, <1>13, <1>14, <1>15, <1>16, <1>17 DEF Monitor

\* and so does every step of the crons, the panel, the viewers and the system.
LEMMA OtherTypes ==
  ASSUME TInv,
         \/ \E p \in Pid : Produce(p) \/ EncoderEnds(p) \/ Crash(p)
         \/ ApiStart \/ ApiStop \/ ApiStopped \/ Cron \/ PidMonitor \/ Release
         \/ ViewerStarts \/ ViewerConnects \/ ViewerLeaves \/ CloseRow
         \/ ServiceRestart \/ SourceChanges \/ Ages
  PROVE  TInv'
<1>1. ProcOK /\ RestOK /\ CountOK
  BY DEF TInv
<1>2. CASE \E p \in Pid : Produce(p) \/ EncoderEnds(p) \/ Crash(p)
  <2>1. PICK p \in Pid : Produce(p) \/ EncoderEnds(p) \/ Crash(p)
    BY <1>2
  <2>2. ProcOK'
    BY <1>1, <2>1, KillAllFits DEF Produce, EncoderEnds, Crash, ProcOK
  <2>3. CountOK'
    BY <1>1, <2>1, DisturbCounts DEF Produce, EncoderEnds, Crash, others, CountOK
  <2>4. RestOK'
    <3>1. UNCHANGED <<row, fresh, monitorFile, pidFile, source, viewers, cron, pids, api>>
      BY <2>1 DEF Produce, EncoderEnds, Crash, others, files
    <3>2. playlist' \in {playlist, TRUE}
      BY <2>1 DEF Produce, EncoderEnds, Crash, files
    <3> QED BY <1>1, <3>1, <3>2 DEF RestOK
  <2> QED BY <2>2, <2>3, <2>4 DEF TInv
<1>3. CASE ApiStart \/ ViewerStarts
  <2>1. ProcOK' /\ CountOK'
    BY <1>1, <1>3, StartMonitorFits DEF ApiStart, ViewerStarts
  <2> QED BY <1>1, <1>3, <2>1 DEF ApiStart, ViewerStarts, files, TInv, RestOK
<1>4. CASE ApiStop \/ ApiStopped
  <2>1. ProcOK'
    BY <1>1, <1>4, KillAllFits DEF ApiStop, ApiStopped, ProcOK
  <2>2. CountOK'
    BY <1>1, <1>4, DisturbCounts DEF ApiStop, ApiStopped, CountOK
  <2>3. RestOK'
    <3>1. CASE ApiStop
      BY <1>1, <3>1 DEF ApiStop, files, RestOK
    <3>2. CASE ApiStopped
      <4>1. row' \in Rows
        BY <1>1, <3>2, RowTypes DEF ApiStopped
      <4> QED BY <1>1, <3>2, <4>1 DEF ApiStopped, RemoveFiles, RestOK
    <3> QED BY <1>4, <3>1, <3>2
  <2> QED BY <2>1, <2>2, <2>3 DEF TInv
<1>5. CASE Cron
  <2>1. CASE CronSelect \/ CronSpare
    <3>1. cron'.pc \in {"off", "stream", "refresh", "sweep"}
      <4>1. CASE CronSpare
        BY <4>1 DEF CronSpare, CronAt, NoRun
      <4>2. CASE CronSelect /\ Listed
        BY <4>2 DEF CronSelect
      <4>3. CASE CronSelect /\ ~ Listed
        BY <4>3 DEF CronSelect, NoRun
      <4> QED BY <2>1, <4>1, <4>2, <4>3
    <3>2. UNCHANGED <<row, fresh, files, proc, mon, source, viewers, pids, api, faults>>
      BY <2>1 DEF CronSelect, CronSpare
    <3> QED BY <1>1, <3>1, <3>2 DEF files, TInv, ProcOK, RestOK, CountOK
  <2>2. CASE CronRevive
    <3>1. ProcOK' /\ CountOK'
      BY <1>1, <2>2, StartMonitorFits DEF CronRevive
    <3> QED BY <1>1, <2>2, <3>1 DEF CronRevive, NoRun, files, TInv, RestOK
  <2>3. CASE CronStop
    <3>1. ProcOK'
      BY <1>1, <2>3, KillAllFits DEF CronStop
    <3>2. RestOK'
      BY <1>1, <2>3, RowTypes DEF CronStop, CronAt, NoRun, RemoveFiles, RestOK
    <3> QED BY <1>1, <2>3, <3>1, <3>2 DEF CronStop, TInv, CountOK
  <2>4. CASE CronRefresh
    <3>1. PICK pid \in IF pidFile # NoPid THEN {pidFile} ELSE IF Encoders # {} THEN Encoders ELSE {NoPid} :
            row' = IF Running(pid) /\ playlist /\ cron.pid # pid THEN [row EXCEPT !.pid = pid] ELSE row
      BY <2>4 DEF CronRefresh
    <3>2. pid \in Pid \cup {NoPid, MinusOne}
      BY <1>1, <3>1 DEF Encoders, RestOK
    <3>3. row' \in Rows
      BY <1>1, <3>1, <3>2, RowTypes DEF RestOK
    <3>4. cron'.pc = "sweep"
      BY <2>4 DEF CronRefresh, NoRun
    <3> QED BY <1>1, <2>4, <3>3, <3>4 DEF CronRefresh, files, TInv, ProcOK, RestOK, CountOK
  <2>5. CASE CronSweep
    <3>1. ProcOK'
      BY <1>1, <2>5, KillAllFits DEF CronSweep
    <3>2. RestOK'
      BY <1>1, <2>5 DEF CronSweep, RemoveFiles, files, NoRun, RestOK
    <3> QED BY <1>1, <2>5, <3>1, <3>2 DEF CronSweep, TInv, CountOK
  <2> QED BY <1>5, <2>1, <2>2, <2>3, <2>4, <2>5 DEF Cron
<1>6. CASE PidMonitor \/ Release
  <2>1. CASE KillUnknown
    <3>1. ProcOK'
      BY <1>1, <2>1, KillAllFits DEF KillUnknown
    <3>2. CountOK'
      BY <1>1, <2>1, DisturbCounts DEF KillUnknown, CountOK
    <3> QED BY <1>1, <2>1, <3>1, <3>2 DEF KillUnknown, files, TInv, RestOK
  <2>2. CASE ListEncoders \/ Release
    <3>1. live' \subseteq Pid /\ held' \subseteq Pid
      BY <1>1, <2>2 DEF ListEncoders, Release, Encoders, RestOK
    <3> QED BY <1>1, <2>2, <3>1 DEF ListEncoders, Release, files, TInv, ProcOK, RestOK, CountOK
  <2> QED BY <1>6, <2>1, <2>2 DEF PidMonitor
<1>7. CASE ViewerConnects \/ ViewerLeaves \/ CloseRow
  <2>1. clients' \in 0..MaxClients /\ watching' \in 0..clients'
    BY <1>1, <1>7, BoundAssumption DEF ViewerConnects, ViewerLeaves, CloseRow, RestOK
  <2> QED BY <1>1, <1>7, <2>1 DEF ViewerConnects, ViewerLeaves, CloseRow, files, TInv, ProcOK, RestOK, CountOK
<1>8. CASE ServiceRestart
  <2>1. ProcOK' /\ CountOK'
    BY <1>1, <1>8, KillAllFits, DisturbCounts DEF ServiceRestart
  <2> QED BY <1>1, <1>8, <2>1 DEF ServiceRestart, files, NoRun, TInv, RestOK
<1>9. CASE SourceChanges \/ Ages
  <2>1. CountOK'
    BY <1>1, <1>9, DisturbCounts DEF SourceChanges, Ages, others, CountOK
  <2> QED BY <1>1, <1>9, <2>1 DEF SourceChanges, Ages, files, others, TInv, ProcOK, RestOK
<1> QED BY <1>2, <1>3, <1>4, <1>5, <1>6, <1>7, <1>8, <1>9

LEMMA TypeStep == TInv /\ [Next]_vars => TInv'
<1> SUFFICES ASSUME TInv, [Next]_vars PROVE TInv'
  OBVIOUS
<1>1. CASE UNCHANGED vars
  BY <1>1 DEF vars, TInv, ProcOK, RestOK, CountOK
<1> QED BY <1>1, MonitorTypes, OtherTypes DEF Next

\* Row, files and processes keep their types, and each process is where a
\* process of its kind can be, for any number of processes and disturbances.
THEOREM TypeCorrect == Spec => []TypeOK
BY TInvTypes, TypeInit, TypeStep, PTL DEF Spec

-----------------------------------------------------------------------------
(* Succession                                                              *)

\* A monitor that begins is alone in that, and either sees the one it is to
\* kill, by the file or by its title, or has killed it.
Succession ==
  /\ \A p, q \in Monitors : p = q
  /\ \A p, q \in Pid : proc[p] = "boot" /\ proc[q] = "boot" => p = q
  /\ \A p \in Pid, q \in Monitors : proc[p] = "boot" =>
       mon[p].pc = "check" /\ monitorFile \in {q, NoPid}

\* None of the disturbances is a start that meets a monitor that has just begun,
NoOverlap == \A mix \in Faults : mix["overlap"] = 0

\* nor one that meets a monitor at work that the file does not name.
NoneMissed == NoOverlap /\ \A mix \in Faults : mix["blind"] = 0

SInv == TInv /\ faults["overlap"] = 0 /\ faults["blind"] = 0 /\ Succession

\* A step that makes no new process of monitor.php, and does not let one
\* believe that another monitor is the present one.
LEMMA Successive ==
  ASSUME ProcOK, ProcOK', Succession,
         \A q \in Pid : proc'[q] = "monitor" => proc[q] = "monitor",
         \A q \in Pid : proc'[q] = "boot" => proc[q] = "boot" /\ mon'[q] = mon[q],
         \/ monitorFile' \in {monitorFile, NoPid}
         \/ \E m \in Monitors : monitorFile' = m
  PROVE  Succession'
<1>1. \A q \in Monitors' : q \in Monitors
  BY DEF Monitors
<1>2. \A p, q \in Monitors' : p = q
  BY <1>1 DEF Succession
<1>3. ASSUME NEW p \in Pid, NEW q \in Monitors', proc'[p] = "boot"
      PROVE  mon'[p].pc = "check" /\ monitorFile' \in {q, NoPid}
  <2>1. proc[p] = "boot" /\ mon'[p] = mon[p] /\ q \in Monitors
    BY <1>1, <1>3
  <2>2. mon[p].pc = "check" /\ monitorFile \in {q, NoPid} /\ \A m \in Monitors : m = q
    BY <2>1 DEF Succession
  <2> QED BY <2>1, <2>2
<1> QED BY <1>2, <1>3 DEF Succession

\* A process that begins while no other one begins and the file tells the truth.
LEMMA StartsSuccessor ==
  ASSUME ProcOK, CountOK, Succession, Missed = {}, NEW restart \in BOOLEAN,
         NEW kinds, StartMonitor(restart, kinds), monitorFile' = monitorFile
  PROVE  Succession'
<1>1. PICK p \in Pid : /\ proc[p] = "free" /\ proc'[p] = "boot" /\ mon'[p].pc = "check"
                       /\ \A q \in Pid : q # p => proc'[q] = proc[q] /\ mon'[q] = mon[q]
  BY StartMonitorFits
<1>2. ~ Beginning /\ Hidden = {}
  BY DEF Missed
<1>3. \A q \in Pid : proc[q] # "boot" /\ (proc[q] = "monitor" => monitorFile \in {q, NoPid})
  BY <1>2 DEF Beginning, Booting, Hidden, Unseen, Monitors
<1>4. \A q \in Pid : q \in Monitors' <=> q \in Monitors
  BY <1>1 DEF Monitors
<1> QED BY <1>1, <1>3, <1>4 DEF Succession, Monitors

LEMMA SuccessionInit == Init => Succession
<1> SUFFICES ASSUME Init PROVE Succession
  OBVIOUS
<1>1. \A p \in Pid : proc[p] = "free"
  BY DEF Init
<1> QED BY <1>1 DEF Succession, Monitors

\* Disturbances that may not happen any more do not come back.
LEMMA UsedUp ==
  ASSUME TInv, NEW k \in Kind, faults[k] = 0, [Next]_vars
  PROVE  faults'[k] = 0
<1>1. ProcOK /\ CountOK
  BY DEF TInv
<1>2. \A kinds : Disturb(kinds) => faults'[k] = 0
  BY <1>1, DisturbCounts
<1>3. \A p, kinds : NewPid(p, kinds) => faults'[k] = 0
  BY <1>2 DEF NewPid
<1>4. CASE \E p \in Pid : Monitor(p) \/ Segment(p) \/ Trouble(p)
  BY <1>2, <1>3, <1>4 DEF Monitor, CheckRunning, Register, Adopt, Replace, Probe, Lost,
     KillOld, Restart, StartFails, StartEncoder, Record, Ready, NotReady, Segment, Trouble,
     EncoderPid, others
<1>5. CASE ApiStart \/ ViewerStarts \/ CronRevive
  BY <1>3, <1>5 DEF ApiStart, ViewerStarts, CronRevive, StartMonitor
<1>6. CASE \/ \E p \in Pid : Produce(p) \/ EncoderEnds(p) \/ Crash(p)
           \/ ApiStop \/ ApiStopped \/ PidMonitor \/ ServiceRestart \/ SourceChanges \/ Ages
  BY <1>2, <1>6 DEF Produce, EncoderEnds, Crash, ApiStop, ApiStopped, PidMonitor, ListEncoders,
     KillUnknown, ServiceRestart, SourceChanges, Ages, others
<1>7. CASE \/ CronSelect \/ CronStop \/ CronSpare \/ CronRefresh \/ CronSweep
           \/ Release \/ ViewerConnects \/ ViewerLeaves \/ CloseRow
  BY <1>7 DEF CronSelect, CronStop, CronSpare, CronRefresh, CronSweep, Release, ViewerConnects,
     ViewerLeaves, CloseRow
<1>8. CASE UNCHANGED vars
  BY <1>8 DEF vars
<1> QED BY <1>4, <1>5, <1>6, <1>7, <1>8 DEF Next, Cron

Start == ApiStart \/ ViewerStarts \/ CronRevive

\* Unless a start misses a monitor, a new one finds its predecessor.
LEMMA SuccessionStep ==
  ASSUME TInv, Succession, [Next]_vars, Start => Missed = {}
  PROVE  Succession'
<1>1. TInv' /\ ProcOK /\ ProcOK' /\ RestOK /\ CountOK /\ CountOK'
  BY TypeStep DEF TInv
<1>3. Succession
  OBVIOUS
<1>4. ASSUME NEW p \in Pid, CheckRunning(p) PROVE Succession'
  <2>1. proc[p] = "boot" /\ mon[p].pc = "check"
    BY <1>1, <1>4 DEF CheckRunning, ProcOK, Fits
  <2>2. Monitors \subseteq RunningMonitors
    BY <1>3, <2>1 DEF Succession, RunningMonitors
  <2>3. /\ \A q \in Pid : proc'[q] = "free" \/ proc'[q] = proc[q]
        /\ \A q \in RunningMonitors : q \in Pid => proc'[q] = "free"
    BY <1>4 DEF CheckRunning, Go, Killed
  <2>4. Monitors' = {}
    BY <2>2, <2>3 DEF Monitors
  <2>5. \A q \in Pid : proc'[q] = "boot" => proc[q] = "boot"
    BY <2>3
  <2> QED BY <1>3, <2>4, <2>5 DEF Succession
<1>5. ASSUME NEW p \in Pid, Register(p) PROVE Succession'
  <2>1. proc[p] = "boot" /\ mon[p].pc = "register"
    BY <1>1, <1>5 DEF Register, ProcOK, Fits
  <2>2. Monitors = {}
    BY <1>3, <2>1 DEF Succession
  <2>3. proc' = [proc EXCEPT ![p] = "monitor"]
    BY <1>5 DEF Register
  <2>4. \A q \in Pid : proc'[q] # "boot"
    BY <1>1, <1>3, <2>1, <2>3 DEF Succession, ProcOK
  <2>5. \A q \in Monitors' : q = p
    BY <1>1, <2>2, <2>3 DEF Monitors, ProcOK
  <2> QED BY <2>4, <2>5 DEF Succession
<1>6. ASSUME NEW p \in Pid, Monitor(p) \/ Segment(p) \/ Trouble(p), ~ CheckRunning(p), ~ Register(p)
      PROVE  Succession'
  <2>1. proc[p] = "monitor" /\ p \in Monitors
    BY <1>1, <1>6 DEF Monitor, Adopt, Replace, Probe, Lost, KillOld, Restart, StartFails,
       StartEncoder, Record, Ready, NotReady, Awaiting, Segment, Trouble, ProcOK, Procs, Fits, Monitors
  <2>2. \A q \in Pid : /\ proc'[q] = "monitor" => proc[q] = "monitor"
                       /\ proc'[q] = "boot" => proc[q] = "boot" /\ mon'[q] = mon[q]
    <3>1. CASE \E m, victims : Go(p, m, victims)
      BY <2>1, <3>1 DEF Go, Killed
    <3>2. CASE \E victims : KillAll(victims)
      BY <3>2 DEF KillAll, Killed, Forgotten
    <3>3. CASE StartEncoder(p)
      BY <1>1, <2>1, <3>3 DEF StartEncoder, ProcOK, Spare
    <3>4. CASE Record(p) \/ Segment(p) \/ Probe(p)
      BY <1>1, <2>1, <3>4 DEF Record, Segment, Probe, ProcOK
    <3> QED BY <1>6, <3>1, <3>2, <3>3, <3>4 DEF Monitor, Adopt, Replace, Lost, KillOld, Restart,
            StartFails, Ready, NotReady, Trouble
  <2>3. monitorFile' \in {monitorFile, NoPid, p}
    BY <1>6 DEF Monitor, Adopt, Replace, Probe, Lost, KillOld, Restart, StartFails,
       StartEncoder, Record, Ready, NotReady, Segment, Trouble, files
  <2> QED BY <1>1, <1>3, <2>1, <2>2, <2>3, Successive
<1>7. CASE Start
  BY <1>1, <1>3, <1>7, StartsSuccessor DEF Start, ApiStart, ViewerStarts, CronRevive, files
<1>8. ASSUME (\E victims : KillAll(victims)) \/ UNCHANGED <<proc, mon>>, monitorFile' \in {monitorFile, NoPid}
      PROVE  Succession'
  <2>1. \A q \in Pid : proc'[q] = "free" \/ (proc'[q] = proc[q] /\ mon'[q] = mon[q])
    BY <1>1, <1>8, KillAllFits
  <2> QED BY <1>1, <1>3, <1>8, <2>1, Successive
<1>9. CASE \E p \in Pid : Produce(p) \/ EncoderEnds(p) \/ Crash(p)
  BY <1>8, <1>9 DEF Produce, EncoderEnds, Crash, files
<1>10. CASE ApiStop \/ ApiStopped \/ PidMonitor \/ ServiceRestart
  BY <1>8, <1>10 DEF ApiStop, ApiStopped, PidMonitor, ListEncoders, KillUnknown, ServiceRestart,
     RemoveFiles, files
<1>11. CASE CronSelect \/ CronStop \/ CronSpare \/ CronRefresh \/ CronSweep
  BY <1>8, <1>11 DEF CronSelect, CronStop, CronSpare, CronRefresh, CronSweep, RemoveFiles, files
<1>12. CASE Release \/ ViewerConnects \/ ViewerLeaves \/ CloseRow \/ SourceChanges \/ Ages
  BY <1>8, <1>12 DEF Release, ViewerConnects, ViewerLeaves, CloseRow, SourceChanges, Ages, files
<1>13. CASE UNCHANGED vars
  BY <1>8, <1>13 DEF vars
<1> QED BY <1>4, <1>5, <1>6, <1>7, <1>9, <1>10, <1>11, <1>12, <1>13 DEF Next, Monitor, Cron, Start

LEMMA SInvInit == NoneMissed /\ Init => SInv
<1> SUFFICES ASSUME NoneMissed, Init PROVE SInv
  OBVIOUS
<1>1. faults["overlap"] = 0 /\ faults["blind"] = 0
  BY DEF Init, NoneMissed, NoOverlap
<1> QED BY <1>1, TypeInit, SuccessionInit DEF SInv

LEMMA SInvStep == SInv /\ [Next]_vars => SInv'
<1> SUFFICES ASSUME SInv, [Next]_vars PROVE SInv'
  OBVIOUS
<1>1. TInv /\ TInv' /\ ProcOK /\ CountOK /\ Succession
  BY TypeStep DEF SInv, TInv
<1>2. faults'["overlap"] = 0 /\ faults'["blind"] = 0
  BY UsedUp DEF SInv, Kind
<1>3. ASSUME Start PROVE Missed = {}
  <2>1. \A k \in Missed : faults[k] > 0
    BY <1>1, <1>3, StartMonitorFits DEF Start, ApiStart, ViewerStarts, CronRevive
  <2> QED BY <2>1 DEF Missed, SInv
<1> QED BY <1>1, <1>2, <1>3, SuccessionStep DEF SInv

-----------------------------------------------------------------------------
(* One monitor                                                             *)

NewTakers ==
  takers' = {p \in Monitors' : (p \in takers \/ TakesOver(p)) /\ monitorFile' \notin {p, NoPid}}

\* Who was at work already is hidden as before, or not any more.
LEMMA HiddenBefore ==
  ASSUME Hidden \subseteq takers, NewTakers, NEW q \in Hidden',
         proc[q] = "monitor", mon[q].pc # "adopt",
         monitorFile' = monitorFile \/ monitorFile' \in {q, NoPid}
  PROVE  q \in takers'
<1>1. q \in Pid /\ q \in Monitors' /\ monitorFile' \notin {q, NoPid}
  BY DEF Hidden, Unseen, Monitors
<1>2. q \in Hidden
  BY <1>1 DEF Hidden, Unseen, Monitors
<1> QED BY <1>1, <1>2 DEF NewTakers

\* A monitor at work that the file does not name has taken over an encoder: it has
\* written the file otherwise, and nobody else writes while it is alone.
LEMMA HiddenStep ==
  ASSUME TInv, Succession, Hidden \subseteq takers, [Next]_vars, NewTakers
  PROVE  Hidden' \subseteq takers'
<1> SUFFICES ASSUME NEW q \in Hidden' PROVE q \in takers'
  OBVIOUS
<1>1. ProcOK /\ RestOK
  BY DEF TInv
<1>2. /\ q \in Pid /\ q \in Monitors' /\ proc'[q] = "monitor"
      /\ mon'[q].pc # "adopt" /\ monitorFile' \notin {q, NoPid}
  BY DEF Hidden, Unseen, Monitors
<1>3. ASSUME proc[q] = "monitor", mon'[q] = mon[q], monitorFile' \in {monitorFile, NoPid}
      PROVE  q \in takers'
  BY <1>2, <1>3, HiddenBefore
<1>4. ASSUME \/ \E victims : KillAll(victims)
             \/ UNCHANGED <<proc, mon>>,
             monitorFile' \in {monitorFile, NoPid}
      PROVE  q \in takers'
  <2>1. proc[q] = "monitor" /\ mon'[q] = mon[q]
    BY <1>1, <1>2, <1>4, KillAllFits
  <2> QED BY <1>3, <1>4, <2>1
<1>5. ASSUME NEW p \in Pid, CheckRunning(p) PROVE q \in takers'
  <2>1. proc[p] = "boot"
    BY <1>1, <1>5 DEF CheckRunning, ProcOK, Fits
  <2>2. Go(p, At(p, "register"), RunningMonitors) /\ monitorFile' = monitorFile
    BY <1>5 DEF CheckRunning, files
  <2>3. proc[q] = "monitor" /\ mon'[q] = mon[q]
    BY <1>2, <2>1, <2>2 DEF Go, Killed
  <2> QED BY <1>3, <2>2, <2>3
<1>6. ASSUME NEW p \in Pid, Register(p) PROVE q \in takers'
  <2>1. proc' = [proc EXCEPT ![p] = "monitor"] /\ monitorFile' = monitorFile
        /\ mon' = [mon EXCEPT ![p].pc = "adopt", ![p].enc = IF pidFile # NoPid THEN pidFile ELSE row.pid]
    BY <1>6 DEF Register, files
  <2>2. mon'[p].pc = "adopt"
    BY <1>1, <2>1 DEF ProcOK, Mons
  <2>3. q # p
    BY <1>2, <2>2
  <2>4. proc[q] = "monitor" /\ mon'[q] = mon[q]
    BY <1>1, <1>2, <2>1, <2>3 DEF ProcOK
  <2> QED BY <1>3, <2>1, <2>4
<1>7. ASSUME NEW p \in Pid, Monitor(p) \/ Segment(p) \/ Trouble(p), ~ CheckRunning(p), ~ Register(p)
      PROVE  q \in takers'
  <2>1. p \in Monitors /\ proc[p] = "monitor" /\ mon[p] \in Mons
    BY <1>1, <1>7 DEF Monitor, Adopt, Replace, Probe, Lost, KillOld, Restart, StartFails,
       StartEncoder, Record, Ready, NotReady, Awaiting, Segment, Trouble, ProcOK, Procs, Fits, Monitors
  <2>2. proc[q] = "monitor"
    <3>1. CASE \E m, victims : Go(p, m, victims)
      BY <1>2, <3>1 DEF Go, Killed
    <3>2. CASE \E victims : KillAll(victims)
      BY <1>2, <3>2 DEF KillAll, Killed
    <3>3. CASE StartEncoder(p)
      BY <1>1, <1>2, <3>3 DEF StartEncoder, ProcOK, Spare
    <3>4. CASE Record(p) \/ Segment(p) \/ Probe(p)
      BY <1>2, <3>4 DEF Record, Segment, Probe
    <3> QED BY <1>7, <3>1, <3>2, <3>3, <3>4 DEF Monitor, Adopt, Replace, Lost, KillOld, Restart,
            StartFails, Ready, NotReady, Trouble
  <2>3. q = p
    BY <1>2, <2>1, <2>2 DEF Succession, Monitors
  <2>4. CASE Adopt(p)
    <3>1. mon[p].pc = "adopt" /\ monitorFile' = IF Running(mon[p].enc) THEN monitorFile ELSE p
      BY <2>4 DEF Adopt
    <3>2. Running(mon[p].enc) /\ mon[p].enc \in Pid
      BY <1>2, <2>3, <3>1 DEF Running
    <3>3. Go(p, [At(p, "watch") EXCEPT !.restart = FALSE], Rogues(mon[p].enc))
      BY <2>4, <3>2 DEF Adopt
    <3>4. mon'[p].pc = "watch"
      BY <1>2, <2>1, <2>3, <3>3 DEF Go, Killed, At, Mons
    <3> QED BY <1>2, <2>3, <3>1, <3>2, <3>4 DEF NewTakers, TakesOver
  <2>5. CASE Replace(p)
    BY <1>2, <2>3, <2>5 DEF Replace, KillAll, Killed
  <2>6. CASE ~ Adopt(p) /\ ~ Replace(p)
    <3>1. mon[p].pc # "adopt" /\ monitorFile' \in {monitorFile, NoPid, p}
      BY <1>7, <2>6 DEF Monitor, Probe, Lost, KillOld, Restart, StartFails,
         StartEncoder, Record, Ready, NotReady, Awaiting, Segment, Trouble, files
    <3> QED BY <2>2, <2>3, <3>1, HiddenBefore
  <2> QED BY <2>4, <2>5, <2>6
<1>8. CASE Start
  <2>1. \E p \in Pid : /\ proc[p] = "free" /\ proc'[p] = "boot"
                       /\ \A r \in Pid : r # p => proc'[r] = proc[r] /\ mon'[r] = mon[r]
    BY <1>1, <1>8, StartMonitorFits DEF Start, ApiStart, ViewerStarts, CronRevive, TInv
  <2>2. proc[q] = "monitor" /\ mon'[q] = mon[q] /\ monitorFile' = monitorFile
    BY <1>2, <1>8, <2>1 DEF Start, ApiStart, ViewerStarts, CronRevive, files
  <2> QED BY <1>3, <2>2
<1>9. CASE \E p \in Pid : Produce(p) \/ EncoderEnds(p) \/ Crash(p)
  BY <1>4, <1>9 DEF Produce, EncoderEnds, Crash, files
<1>10. CASE ApiStop \/ ApiStopped \/ PidMonitor \/ ServiceRestart
  BY <1>4, <1>10 DEF ApiStop, ApiStopped, PidMonitor, ListEncoders, KillUnknown, ServiceRestart,
     RemoveFiles, files
<1>11. CASE CronSelect \/ CronStop \/ CronSpare \/ CronRefresh \/ CronSweep
  BY <1>4, <1>11 DEF CronSelect, CronStop, CronSpare, CronRefresh, CronSweep, RemoveFiles, files
<1>12. CASE Release \/ ViewerConnects \/ ViewerLeaves \/ CloseRow \/ SourceChanges \/ Ages
  BY <1>4, <1>12 DEF Release, ViewerConnects, ViewerLeaves, CloseRow, SourceChanges, Ages, files
<1>13. CASE UNCHANGED vars
  BY <1>4, <1>13 DEF vars
<1> QED BY <1>5, <1>6, <1>7, <1>8, <1>9, <1>10, <1>11, <1>12, <1>13 DEF Next, Monitor, Cron, Start

\* Until a start is excused, every monitor has a successor that sees it, or has
\* taken over an encoder.
HInv ==
  /\ TInv /\ faults["overlap"] = 0
  /\ ~excused => Succession /\ Hidden \subseteq takers

LEMMA HInvStep == HInv /\ [HNext]_<<vars, takers, excused>> => HInv'
<1> SUFFICES ASSUME HInv, [HNext]_<<vars, takers, excused>> PROVE HInv'
  OBVIOUS
<1>1. TInv /\ ProcOK /\ CountOK /\ [Next]_vars
  BY DEF HInv, HNext, TInv
<1>2. TInv' /\ faults'["overlap"] = 0
  BY <1>1, TypeStep, UsedUp DEF HInv, Kind
<1>3. CASE UNCHANGED <<vars, takers, excused>>
  BY <1>3 DEF HInv, TInv, ProcOK, RestOK, CountOK, Succession, Hidden, Unseen, Monitors, vars
<1>4. CASE HNext
  <2> SUFFICES ASSUME ~excused' PROVE Succession' /\ Hidden' \subseteq takers'
    BY <1>2 DEF HInv
  <2>1. ~excused /\ ~(takers # {} /\ \E p \in Pid : Starts(p)) /\ NewTakers
    BY <1>4 DEF HNext, NewTakers
  <2>2. Succession /\ Hidden \subseteq takers
    BY <2>1 DEF HInv
  <2>3. ASSUME Start PROVE Missed = {}
    <3>1. (\A k \in Missed : faults[k] > 0) /\ \E p \in Pid : proc[p] = "free" /\ proc'[p] = "boot"
      BY <1>1, <2>3, StartMonitorFits DEF Start, ApiStart, ViewerStarts, CronRevive
    <3>2. takers = {}
      BY <2>1, <3>1 DEF Starts
    <3>3. "overlap" \notin Missed /\ Hidden = {}
      BY <2>2, <3>1, <3>2 DEF HInv
    <3> QED BY <3>3 DEF Missed
  <2> QED BY <1>1, <2>1, <2>2, <2>3, SuccessionStep, HiddenStep
<1> QED BY <1>3, <1>4

\* If no two starts of a stream overlap, two monitors come from a start beside one
\* that has taken over a running encoder and from nothing else, whatever crashes,
\* stops, files that are removed and used pids do.
THEOREM OneMonitorEach ==
  ASSUME NoOverlap
  PROVE  HSpec => []OneMonitor
<1>1. HInv => OneMonitor
  BY DEF HInv, Succession, OneMonitor
<1>2. HInit => HInv
  <2> SUFFICES ASSUME HInit PROVE HInv
    OBVIOUS
  <2>1. faults["overlap"] = 0 /\ Hidden = {}
    BY DEF HInit, Init, NoOverlap, Hidden, Unseen, Monitors
  <2> QED BY <2>1, TypeInit, SuccessionInit DEF HInit, HInv
<1> QED BY <1>1, <1>2, HInvStep, PTL DEF HSpec

-----------------------------------------------------------------------------
(* Monitors that wait for a playlist                                       *)

Waits(m) == m.pc \in {"await", "announced"}
NoNews == \A q \in Pid : Waits(mon'[q]) => Waits(mon[q]) /\ mon'[q].enc = mon[q].enc

\* A step of a monitor that is not one of waiting leaves nobody waiting: it is alone.
LEMMA Alone ==
  ASSUME SInv
  PROVE  /\ ProcOK /\ RestOK /\ row \in Rows /\ mon \in [Pid -> Mons]
         /\ \A p, q \in Monitors : p = q
         /\ \A p \in Pid : mon[p].pc \notin {"off", "check", "register"} => p \in Monitors
BY DEF SInv, TInv, Succession, ProcOK, RestOK, Procs, Fits, Mons, MonPcs, Monitors

\* Who only goes on, or is killed, does not begin to wait,
LEMMA GoesOn ==
  ASSUME mon \in [Pid -> Mons],
         NEW p \in Pid, \/ CheckRunning(p) \/ Adopt(p) \/ Replace(p) \/ Lost(p) \/ KillOld(p)
                        \/ Restart(p) \/ Trouble(p) \/ StartFails(p) \/ Ready(p) \/ NotReady(p)
  PROVE  \E m, victims : (Go(p, m, victims) /\ ~ Waits(m)) \/ (KillAll(victims) /\ p \in victims)
<1>1. ASSUME NEW pc PROVE At(p, pc).pc = pc
  BY <1>1 DEF At, Mons
<1>2. ~ Waits(NoMonitor)
  BY DEF Waits, NoMonitor
<1>3. CASE CheckRunning(p) \/ Lost(p) \/ KillOld(p) \/ Trouble(p) \/ Ready(p)
  BY <1>1, <1>3 DEF CheckRunning, Lost, KillOld, Trouble, Ready, Waits
<1>4. CASE Adopt(p)
  <2> DEFINE m == [At(p, IF mon[p].enc \in Pid THEN "watch" ELSE "kill") EXCEPT !.restart = FALSE]
  <2>1. ~ Waits(m)
    BY DEF At, Mons, Waits
  <2> QED BY <1>4, <2>1 DEF Adopt
<1>5. CASE Replace(p)
  <2> DEFINE m == [At(p, "kill") EXCEPT !.enc = NoPid, !.restart = FALSE]
  <2>1. ~ Waits(m)
    BY DEF At, Mons, Waits
  <2> QED BY <1>5, <2>1 DEF Replace
<1>6. CASE Restart(p)
  <2> DEFINE m == [At(p, "start") EXCEPT !.enc = NoPid]
  <2>1. ~ Waits(m) /\ ~ Waits(At(p, "watch"))
    BY DEF At, Mons, Waits
  <2> QED BY <1>6, <2>1 DEF Restart
<1>7. CASE StartFails(p) \/ NotReady(p)
  BY <1>1, <1>2, <1>7 DEF StartFails, NotReady, Waits
<1> QED BY <1>3, <1>4, <1>5, <1>6, <1>7

\* and its step leaves nobody waiting, because there is no second monitor.
LEMMA NobodyWaits ==
  ASSUME SInv, NEW p \in Pid,
         \/ Adopt(p) \/ Replace(p) \/ Lost(p) \/ KillOld(p) \/ Restart(p) \/ Trouble(p)
         \/ StartFails(p) \/ Ready(p) \/ NotReady(p)
  PROVE  \A q \in Pid : ~ Waits(mon'[q])
<1>1. \A q \in Pid : q # p => ~ Waits(mon[q])
  <2>1. mon[p].pc \notin {"off", "check", "register"}
    BY DEF Adopt, Replace, Lost, KillOld, Restart, Trouble, StartFails, Ready, NotReady, Awaiting
  <2> QED BY <2>1, Alone DEF Waits
<1>2. PICK m, victims : (Go(p, m, victims) /\ ~ Waits(m)) \/ (KillAll(victims) /\ p \in victims)
  BY Alone, GoesOn
<1> QED BY <1>1, <1>2 DEF Go, KillAll, Forgotten, NoMonitor, Waits

\* Only Record makes a monitor wait.
LEMMA NoNewWaits ==
  ASSUME SInv, [Next]_vars, \A p \in Pid : ~ Record(p)
  PROVE  NoNews
<1>1. mon \in [Pid -> Mons]
  BY Alone
<1>2. ASSUME NEW victims, KillAll(victims) PROVE NoNews
  BY <1>2 DEF KillAll, Forgotten, NoMonitor, NoNews, Waits
<1>3. ASSUME NEW p \in Pid, \/ CheckRunning(p) \/ Adopt(p) \/ Replace(p) \/ Lost(p) \/ KillOld(p)
                            \/ Restart(p) \/ Trouble(p) \/ StartFails(p) \/ Ready(p) \/ NotReady(p)
      PROVE  NoNews
  <2>1. PICK m, victims : (Go(p, m, victims) /\ ~ Waits(m)) \/ KillAll(victims)
    BY <1>1, <1>3, GoesOn
  <2> QED BY <1>2, <2>1 DEF Go, NoMonitor, NoNews, Waits
<1>4. ASSUME NEW p \in Pid, Register(p) \/ StartEncoder(p) PROVE NoNews
  <2>1. \A q \in Pid : IF q = p THEN mon'[q].pc \in {"adopt", "record"} ELSE mon'[q] = mon[q]
    <3>1. CASE Register(p)
      BY <1>1, <3>1 DEF Register, Mons
    <3>2. CASE StartEncoder(p)
      BY <1>1, <3>2 DEF StartEncoder, Mons
    <3> QED BY <1>4, <3>1, <3>2
  <2> QED BY <2>1 DEF NoNews, Waits
<1>5. ASSUME NEW p \in Pid, Segment(p) PROVE NoNews
  BY <1>1, <1>5 DEF Segment, Mons, NoNews, Waits
<1>6. ASSUME NEW restart, NEW kinds, StartMonitor(restart, kinds) PROVE NoNews
  BY <1>1, <1>6 DEF StartMonitor, NoNews, Waits
<1>7. CASE ApiStart \/ ViewerStarts \/ CronRevive
  BY <1>6, <1>7 DEF ApiStart, ViewerStarts, CronRevive
<1>8. CASE ApiStop \/ KillUnknown \/ ServiceRestart \/ CronSweep \/ CronStop
  BY <1>2, <1>8 DEF ApiStop, KillUnknown, ServiceRestart, CronSweep, CronStop
<1>9. ASSUME NEW p \in Pid, Probe(p) \/ Produce(p) \/ EncoderEnds(p) \/ Crash(p) PROVE NoNews
  BY <1>2, <1>9 DEF Probe, Produce, EncoderEnds, Crash, NoNews
<1>10. CASE \/ ApiStopped \/ CronSelect \/ CronSpare \/ CronRefresh \/ ListEncoders \/ Release
            \/ ViewerConnects \/ ViewerLeaves \/ CloseRow \/ SourceChanges \/ Ages \/ UNCHANGED vars
  BY <1>10 DEF ApiStopped, CronSelect, CronSpare, CronRefresh, ListEncoders, Release, ViewerConnects,
     ViewerLeaves, CloseRow, SourceChanges, Ages, others, vars, NoNews
<1> QED BY <1>3, <1>4, <1>5, <1>7, <1>8, <1>9, <1>10 DEF Next, Monitor, Cron, PidMonitor

-----------------------------------------------------------------------------
(* Staying listed                                                          *)

\* A monitor that waits for a playlist finds the encoder's pid in the row, unless
\* the row was cleared by a stop.
Recorded ==
  \A p \in Pid : Awaiting(p) /\ mon[p].enc \in Pid => row.pid # NoPid \/ row.status = 0

\* Nobody begins to wait, and whoever changes the row leaves a pid or no status.
LEMMA StillRecorded ==
  ASSUME Recorded, NoNews,
         row'.pid # NoPid \/ row'.status = 0 \/ (row'.pid = row.pid /\ row'.status = row.status)
  PROVE  Recorded'
BY DEF Recorded, Awaiting, NoNews, Waits

LEMMA RecordedStep == SInv /\ Recorded /\ [Next]_vars => Recorded'
<1> SUFFICES ASSUME SInv, Recorded, [Next]_vars PROVE Recorded'
  OBVIOUS
<1> USE PidAssumption
<1>1. /\ row \in Rows /\ mon \in [Pid -> Mons] /\ \A p, q \in Monitors : p = q
      /\ \A p \in Pid : mon[p].pc \notin {"off", "check", "register"} => p \in Monitors
  BY Alone
<1>2. ASSUME NEW p \in Pid, Record(p) PROVE Recorded'
  <2>1. \A q \in Pid : q # p => mon'[q] = mon[q] /\ ~ Waits(mon[q])
    BY <1>1, <1>2 DEF Record, Waits
  <2>2. mon'[p].enc = pidFile /\ row'.pid = pidFile
    BY <1>1, <1>2 DEF Record, Rows, Mons
  <2> QED BY <2>1, <2>2 DEF Recorded, Awaiting, Waits
<1>3. ASSUME NEW p \in Pid, NotReady(p) PROVE Recorded'
  BY <1>3, NobodyWaits DEF Recorded, Awaiting, Waits
<1>4. ASSUME \A p \in Pid : ~ Record(p) /\ ~ NotReady(p)
      PROVE  row'.pid # NoPid \/ row'.status = 0 \/ (row'.pid = row.pid /\ row'.status = row.status)
  <2>1. ASSUME NEW p \in Pid, Register(p) \/ StartFails(p) \/ Segment(p) \/ Ready(p)
        PROVE  row'.pid = MinusOne \/ row'.status = 0 \/ (row'.pid = row.pid /\ row'.status = row.status)
    BY <1>1, <2>1 DEF Register, StartFails, Segment, Ready, Rows
  <2>2. CASE CronRefresh
    BY <1>1, <2>2 DEF CronRefresh, Running, Rows
  <2>3. CASE ApiStopped \/ CronStop
    BY <2>3 DEF ApiStopped, CronStop, ClearRow
  <2>4. CASE \E p \in Pid :
               \/ CheckRunning(p) \/ Adopt(p) \/ Replace(p) \/ Probe(p) \/ Lost(p) \/ KillOld(p)
               \/ Restart(p) \/ StartEncoder(p) \/ Trouble(p) \/ Produce(p) \/ EncoderEnds(p) \/ Crash(p)
    BY <2>4 DEF CheckRunning, Adopt, Replace, Probe, Lost, KillOld, Restart, StartEncoder, Trouble,
       Produce, EncoderEnds, Crash
  <2>5. CASE \/ ApiStart \/ ApiStop \/ CronSelect \/ CronRevive \/ CronSpare \/ CronSweep \/ PidMonitor
             \/ ViewerStarts \/ Release \/ ViewerConnects \/ ViewerLeaves \/ CloseRow \/ ServiceRestart \/ SourceChanges
             \/ Ages \/ UNCHANGED vars
    BY <2>5 DEF ApiStart, ApiStop, CronSelect, CronRevive, CronSpare, CronSweep, PidMonitor, ListEncoders, KillUnknown,
       ViewerStarts, Release, ViewerConnects, ViewerLeaves, CloseRow, ServiceRestart, SourceChanges, Ages, vars
  <2> QED BY <1>4, <2>1, <2>2, <2>3, <2>4, <2>5 DEF Next, Monitor, Cron
<1>5. CASE \A p \in Pid : ~ Record(p) /\ ~ NotReady(p)
  BY <1>4, <1>5, NoNewWaits, StillRecorded
<1> QED BY <1>2, <1>3, <1>5

\* The row of an always-on stream is only emptied by a stop of the panel.
LEMMA ListedStep ==
  ASSUME ~ OnDemand, SInv, Recorded, [Next]_vars, Listed, api = "idle"
  PROVE  Listed'
<1> USE PidAssumption
<1>1. row \in Rows /\ (row.pid # NoPid \/ row.status # 0)
  BY DEF SInv, TInv, RestOK, Listed
<1>2. CASE row'.pid = row.pid /\ row'.status = row.status
  BY <1>1, <1>2 DEF Listed
<1>3. ASSUME NEW p \in Pid, Monitor(p) \/ Segment(p) \/ Trouble(p) PROVE Listed'
  <2>1. CASE Ready(p)
    <3>1. Awaiting(p) /\ mon[p].enc \in Pid /\ row'.pid = row.pid
      BY <1>1, <2>1 DEF Ready, OnAir, Running, Rows
    <3> QED BY <1>1, <3>1 DEF Recorded, Listed
  <2>2. CASE Register(p) \/ StartFails(p) \/ Record(p) \/ NotReady(p)
    <3>1. CASE Register(p)
      <4>1. row'.pid = row.pid /\ row'.status = row.status
        BY <1>1, <3>1 DEF Register, Rows
      <4> QED BY <4>1, <1>2
    <3>2. CASE StartFails(p)
      BY <1>1, <3>2 DEF StartFails, Rows, Listed
    <3>3. CASE Record(p)
      BY <1>1, <3>3 DEF Record, Rows, Listed
    <3>4. CASE NotReady(p)
      <4>1. row' = FailedRow
        BY <3>4 DEF NotReady
      <4> QED BY <1>1, <4>1 DEF FailedRow, Rows, Listed
    <3> QED BY <2>2, <3>1, <3>2, <3>3, <3>4
  <2>3. CASE \/ CheckRunning(p) \/ Adopt(p) \/ Replace(p) \/ Probe(p) \/ Lost(p) \/ KillOld(p)
             \/ Restart(p) \/ StartEncoder(p) \/ Trouble(p)
    BY <1>2, <2>3 DEF CheckRunning, Adopt, Replace, Probe, Lost, KillOld, Restart, StartEncoder, Trouble
  <2> QED BY <1>3, <2>1, <2>2, <2>3 DEF Monitor, Segment
<1>4. CASE CronRefresh
  BY <1>1, <1>4 DEF CronRefresh, Running, Rows, Listed
<1>5. CASE \/ \E p \in Pid : Produce(p) \/ EncoderEnds(p) \/ Crash(p)
           \/ ApiStart \/ ApiStop \/ CronSelect \/ CronRevive \/ CronSpare \/ CronSweep \/ PidMonitor
  <2>1. CASE \E p \in Pid : Produce(p) \/ EncoderEnds(p) \/ Crash(p)
    BY <1>2, <2>1 DEF Produce, EncoderEnds, Crash
  <2>2. CASE ApiStart \/ CronRevive
    BY <1>2, <2>2 DEF ApiStart, CronRevive
  <2>3. CASE ApiStop \/ CronSelect \/ CronSpare
    BY <1>2, <2>3 DEF ApiStop, CronSelect, CronSpare
  <2>4. CASE CronSweep \/ PidMonitor
    BY <1>2, <2>4 DEF CronSweep, PidMonitor, ListEncoders, KillUnknown
  <2> QED BY <1>5, <2>1, <2>2, <2>3, <2>4
<1>6. CASE \/ ViewerStarts \/ Release \/ ViewerConnects \/ ViewerLeaves \/ CloseRow \/ ServiceRestart \/ SourceChanges \/ Ages
           \/ UNCHANGED vars
  BY <1>2, <1>6 DEF ViewerStarts, Release, ViewerConnects, ViewerLeaves, CloseRow, ServiceRestart, SourceChanges, Ages, vars
<1>7. ~ ApiStopped /\ ~ CronStop
  BY DEF ApiStopped, CronStop, Unwatched
<1> QED BY <1>3, <1>4, <1>5, <1>6, <1>7 DEF Next, Cron

\* Whatever crashes, fails or is killed, streams.php goes on finding an always-on
\* stream until the panel stops it, unless a start meets a monitor it cannot see.
THEOREM ListedUntilStopped ==
  ASSUME NoneMissed, ~ OnDemand
  PROVE  Spec => StaysListed
<1>1. Init => SInv /\ Recorded
  <2>1. Init => Recorded
    BY DEF Init, Recorded
  <2> QED BY <2>1, SInvInit
<1>2. SInv /\ Recorded /\ [Next]_vars => (SInv /\ Recorded)'
  BY SInvStep, RecordedStep
<1>3. SInv /\ Recorded /\ [Next]_vars => [Listed /\ api = "idle" => Listed']_vars
  BY ListedStep
<1> QED BY <1>1, <1>2, <1>3, PTL DEF Spec, StaysListed

-----------------------------------------------------------------------------
(* Staying on the air                                                      *)

\* A monitor that still waits for an encoder that the row has on the air finds
\* its playlist: only streams.php can have put it there, after a stop.
Playing ==
  \A p \in Pid :
    Awaiting(p) /\ mon[p].enc \in Pid /\ row.pid = mon[p].enc /\ row.status = 0 => playlist

LEMMA StillPlaying ==
  ASSUME Playing, NoNews, playlist' = playlist \/ playlist' = TRUE,
         \/ row'.pid \notin Pid \/ row'.status # 0 \/ playlist'
         \/ row'.pid = row.pid /\ row'.status = row.status
  PROVE  Playing'
BY DEF Playing, Awaiting, NoNews, Waits

LEMMA PlayingStep ==
  ASSUME ~ OnDemand, SInv, Playing, [Next]_vars
  PROVE  Playing'
<1> USE PidAssumption
<1>1. /\ row \in Rows /\ mon \in [Pid -> Mons] /\ \A p, q \in Monitors : p = q
      /\ \A p \in Pid : mon[p].pc \notin {"off", "check", "register"} => p \in Monitors
  BY Alone
<1>2. ASSUME NEW p \in Pid, Record(p) PROVE Playing'
  <2>1. row'.status = 2
    BY <1>1, <1>2 DEF Record, Rows
  <2> QED BY <2>1 DEF Playing
<1>3. ASSUME NEW p \in Pid,
             \/ Adopt(p) \/ Replace(p) \/ Lost(p) \/ KillOld(p) \/ Restart(p) \/ Trouble(p)
             \/ StartFails(p) \/ Ready(p) \/ NotReady(p)
      PROVE  Playing'
  BY <1>3, NobodyWaits DEF Playing, Awaiting, Waits
<1>4. CASE CronSweep /\ Strays # {}
  <2>1. \A q \in Pid : q \in Monitors => mon'[q] = NoMonitor
    BY <1>4 DEF CronSweep, KillAll, Forgotten, Strays
  <2>2. \A q \in Pid : q \notin Monitors => ~ Waits(mon'[q])
    BY <1>1, <1>4 DEF CronSweep, KillAll, Forgotten, NoMonitor, Waits
  <2> QED BY <2>1, <2>2 DEF Playing, Awaiting, NoMonitor, Waits
<1>5. CASE ApiStopped
  BY <1>5 DEF ApiStopped, ClearRow, Playing
<1>6. CASE CronRefresh
  <2>1. row' = row \/ playlist'
    BY <1>6 DEF CronRefresh, files
  <2>2. playlist' = playlist
    BY <1>6 DEF CronRefresh, files
  <2>3. NoNews
    BY <1>6 DEF CronRefresh, NoNews
  <2> QED BY <2>1, <2>2, <2>3, StillPlaying
<1>7. CASE \E p \in Pid : CheckRunning(p) \/ Register(p) \/ Probe(p) \/ StartEncoder(p)
  <2>1. playlist' = playlist /\ row'.pid = row.pid /\ row'.status = row.status
    BY <1>1, <1>7 DEF CheckRunning, Register, Probe, StartEncoder, files, Rows
  <2>2. CASE \A p \in Pid : ~ Record(p)
    BY <2>1, <2>2, NoNewWaits, StillPlaying
  <2> QED BY <1>2, <2>2
<1>8. CASE \/ \E p \in Pid : Produce(p) \/ EncoderEnds(p) \/ Crash(p)
           \/ ApiStart \/ ApiStop \/ CronSelect \/ CronRevive \/ CronSpare
           \/ (CronSweep /\ Strays = {}) \/ PidMonitor \/ ViewerStarts \/ ViewerConnects
           \/ ViewerLeaves \/ CloseRow \/ Release \/ ServiceRestart \/ SourceChanges \/ Ages \/ UNCHANGED vars
  <2>1. row' = row /\ (playlist' = playlist \/ playlist' = TRUE)
    <3>1. CASE \E p \in Pid : Produce(p) \/ EncoderEnds(p) \/ Crash(p)
      BY <3>1 DEF Produce, EncoderEnds, Crash, files
    <3>2. CASE ApiStart \/ ApiStop \/ CronSelect \/ CronRevive \/ CronSpare \/ (CronSweep /\ Strays = {})
      BY <3>2 DEF ApiStart, ApiStop, CronSelect, CronRevive, CronSpare, CronSweep, files
    <3>3. CASE \/ PidMonitor \/ ViewerStarts \/ Release \/ ViewerConnects \/ ViewerLeaves \/ CloseRow \/ ServiceRestart
               \/ SourceChanges \/ Ages \/ UNCHANGED vars
      BY <3>3 DEF PidMonitor, ListEncoders, KillUnknown, ViewerStarts, Release, ViewerConnects, ViewerLeaves, CloseRow, ServiceRestart,
         SourceChanges, Ages, files, vars
    <3> QED BY <1>8, <3>1, <3>2, <3>3
  <2>2. CASE \A p \in Pid : ~ Record(p)
    BY <2>1, <2>2, NoNewWaits, StillPlaying
  <2> QED BY <1>2, <2>2
<1>9. ~ CronStop /\ \A p \in Pid : ~ Segment(p)
  BY DEF Segment, CronStop, Unwatched
<1> QED BY <1>2, <1>3, <1>4, <1>5, <1>6, <1>7, <1>8, <1>9 DEF Next, Monitor, Cron

\* No step kills an encoder that is on the air.
LEMMA SeamlessStep ==
  ASSUME ~ OnDemand, ~ KillRogue, SInv, Playing, [Next]_vars,
         NEW f \in Encoders, source, row.pid = f, row.status = 0, cron.pc = "off" \/ cron.listed,
         \A p \in Pid : mon[p].pc = "kill" \/ mon[p].restart => mon[p].enc # f
  PROVE  f \in Encoders'
<1>1. f \in Pid /\ proc[f] = "encoder" /\ proc \in [Pid -> Procs] /\ mon \in [Pid -> Mons]
      /\ \A p \in Pid : Fits(proc[p], mon[p])
  BY DEF Encoders, SInv, TInv, ProcOK
<1> SUFFICES proc'[f] = "encoder"
  BY <1>1 DEF Encoders
<1>2. \A victims : KillAll(victims) /\ f \notin victims => proc'[f] = "encoder"
  BY <1>1 DEF KillAll, Killed
<1>3. \A p, m, victims : Go(p, m, victims) /\ f \notin victims => proc'[f] = "encoder"
  BY <1>1 DEF Go, Killed
<1>4. f \notin Monitors /\ mon[f].pc = "off"
  BY <1>1 DEF Monitors, Fits
<1>5. \A pid : Rogues(pid) = {}
  BY DEF Rogues
<1>6. ASSUME NEW p \in Pid, Monitor(p) \/ Segment(p) \/ Trouble(p) PROVE proc'[f] = "encoder"
  <2>1. CASE CheckRunning(p)
    BY <1>3, <1>4, <2>1 DEF CheckRunning, RunningMonitors
  <2>2. CASE Register(p)
    BY <1>1, <1>4, <2>2 DEF Register
  <2>3. CASE Adopt(p)
    BY <1>3, <1>5, <2>3 DEF Adopt
  <2>4. CASE Replace(p)
    BY <1>2, <1>3, <1>4, <1>5, <2>4 DEF Replace
  <2>5. CASE KillOld(p)
    BY <1>3, <2>5 DEF KillOld
  <2>6. CASE Lost(p) \/ Trouble(p) \/ Restart(p) \/ Ready(p)
    <3>1. \E m : Go(p, m, {})
      BY <2>6 DEF Lost, Trouble, Restart, Ready
    <3> QED BY <1>3, <3>1
  <2>7. CASE StartFails(p)
    BY <2>7 DEF StartFails
  <2>8. CASE StartEncoder(p)
    BY <1>1, <2>8 DEF StartEncoder, Spare
  <2>9. CASE NotReady(p)
    <3>1. p # f
      BY <1>4, <2>9 DEF NotReady, Awaiting
    <3>2. mon[p].enc # f
      BY <1>1, <2>9 DEF NotReady, Playing, OnAir, Running
    <3> QED BY <1>3, <2>9, <3>1, <3>2 DEF NotReady
  <2>10. CASE Probe(p) \/ Record(p) \/ Segment(p)
    BY <1>1, <2>10 DEF Probe, Record, Segment
  <2> QED BY <1>6, <2>1, <2>2, <2>3, <2>4, <2>5, <2>6, <2>7, <2>8, <2>9, <2>10 DEF Monitor
<1>7. ASSUME NEW p \in Pid, Produce(p) \/ EncoderEnds(p) \/ Crash(p) PROVE proc'[f] = "encoder"
  <2>1. ~ EncoderEnds(p)
    BY DEF EncoderEnds
  <2>2. CASE Produce(p)
    BY <1>1, <2>2 DEF Produce
  <2>3. CASE Crash(p)
    BY <1>1, <1>2, <2>3 DEF Crash
  <2> QED BY <1>7, <2>1, <2>2, <2>3
<1>8. ASSUME NEW restart, NEW kinds, StartMonitor(restart, kinds) PROVE proc'[f] = "encoder"
  BY <1>1, <1>8 DEF StartMonitor, Spare
<1>9. CASE ApiStart \/ ViewerStarts \/ CronRevive
  BY <1>8, <1>9 DEF ApiStart, ViewerStarts, CronRevive
<1>10. CASE ApiStop \/ CronStop
  BY <1>2, <1>4, <1>10 DEF ApiStop, CronStop, StopVictims
<1>11. CASE KillUnknown \/ ServiceRestart
  <2>1. f \notin Unknown /\ f \notin Pid \ Encoders
    BY DEF Unknown
  <2> QED BY <1>2, <1>11, <2>1 DEF KillUnknown, ServiceRestart
<1>12. CASE CronSweep
  <2>1. Strays = {}
    BY <1>12 DEF CronSweep, Strays
  <2> QED BY <1>2, <1>5, <1>12, <2>1 DEF CronSweep
<1>13. CASE \/ ApiStopped \/ CronSelect \/ CronSpare \/ CronRefresh \/ ListEncoders \/ Release \/ ViewerConnects \/ ViewerLeaves \/ CloseRow
            \/ SourceChanges \/ Ages \/ UNCHANGED vars
  BY <1>1, <1>13 DEF ApiStopped, CronSelect, CronSpare, CronRefresh, ListEncoders, Release, ViewerConnects, ViewerLeaves, CloseRow,
     SourceChanges, Ages, others, vars
<1> QED BY <1>6, <1>7, <1>9, <1>10, <1>11, <1>12, <1>13 DEF Next, Cron, PidMonitor

\* Monitors and the service may crash and be restarted, the panel stop and start,
\* the source go and come back: unless a start meets a monitor it cannot see, an
\* encoder of an always-on stream that is on the air is only killed by a monitor
\* that has judged it lost, by one started for a restart, or by a run of
\* streams.php that did not find the stream listed.  With kill_rogue_ffmpeg the
\* sweep of streams.php also kills the encoder of a stream it has just revived.
THEOREM EncoderOutlives ==
  ASSUME NoneMissed, ~ OnDemand, ~ KillRogue
  PROVE  Spec => Seamless
<1>1. Init => SInv /\ Playing
  <2>1. Init => Playing
    BY PidAssumption DEF Init, Playing
  <2> QED BY <2>1, SInvInit
<1>2. SInv /\ Playing /\ [Next]_vars => (SInv /\ Playing)'
  BY SInvStep, PlayingStep
<1>3. SInv /\ Playing /\ [Next]_vars =>
        [\A f \in Encoders :
           /\ source /\ row.pid = f /\ row.status = 0
           /\ cron.pc = "off" \/ cron.listed
           /\ \A p \in Pid : mon[p].pc = "kill" \/ mon[p].restart => mon[p].enc # f
           => f \in Encoders']_vars
  BY SeamlessStep
<1> QED BY <1>1, <1>2, <1>3, PTL DEF Spec, Seamless

-----------------------------------------------------------------------------
(* Staying off                                                             *)

NoStarts == faults["start"] = 0 /\ faults["viewer"] = 0

\* A stream that is off: streams.php does not know it, and no php process is left.
Off ==
  /\ ~ Listed /\ cron.pc \in {"off", "sweep"}
  /\ \A p \in Pid : proc[p] \in {"free", "encoder"}

\* No disturbance is a start, so nothing begins to run,
LEMMA NothingStarts ==
  ASSUME TInv, NoStarts, Off, [Next]_vars
  PROVE  /\ \A p \in Pid : ~ Monitor(p) /\ ~ Segment(p) /\ ~ Trouble(p) /\ ~ Crash(p)
         /\ ~ ApiStart /\ ~ ViewerStarts
<1>1. ASSUME NEW p \in Pid PROVE ~ Monitor(p) /\ ~ Segment(p) /\ ~ Trouble(p) /\ ~ Crash(p)
  <2>1. mon[p].pc = "off" /\ proc[p] \in {"free", "encoder"}
    BY DEF Off, TInv, ProcOK, Fits
  <2> QED BY <2>1 DEF Monitor, CheckRunning, Register, Adopt, Replace, Probe, Lost, KillOld, Restart,
          StartFails, StartEncoder, Record, Ready, NotReady, Awaiting, Segment, Trouble, Crash
<1>2. ASSUME NEW kind \in {"start", "viewer"}, NEW restart PROVE ~ StartMonitor(restart, {kind})
  <2>1. \A kinds : kind \in kinds => ~ Disturb(kinds)
    BY DisturbCounts DEF NoStarts, TInv, CountOK, Kind
  <2>2. \A p, more : ~ NewPid(p, {kind} \cup more)
    BY <2>1 DEF NewPid
  <2> QED BY <2>2 DEF StartMonitor
<1> QED BY <1>1, <1>2 DEF ApiStart, ViewerStarts

LEMMA OffStep == TInv /\ NoStarts /\ Off /\ [Next]_vars => NoStarts' /\ Off'
<1> SUFFICES ASSUME TInv, NoStarts, Off, [Next]_vars PROVE NoStarts' /\ Off'
  OBVIOUS
<1>1. NoStarts'
  BY UsedUp DEF NoStarts, Kind
<1>2. /\ \A p \in Pid : ~ Monitor(p) /\ ~ Segment(p) /\ ~ Trouble(p) /\ ~ Crash(p)
      /\ ~ ApiStart /\ ~ ViewerStarts
  BY NothingStarts
<1>3. /\ ~ Listed /\ cron.pc \in {"off", "sweep"} /\ \A p \in Pid : proc[p] \in {"free", "encoder"}
  BY DEF Off
<1>4. \A victims, p : p \in Pid /\ KillAll(victims) => proc'[p] \in {"free", "encoder"}
  BY <1>3 DEF KillAll, Killed
<1>5. ASSUME row' = row PROVE ~ Listed'
  BY <1>3, <1>5 DEF Listed
<1>6. CASE CronSelect
  BY <1>1, <1>3, <1>5, <1>6 DEF CronSelect, NoRun, Off
<1>7. CASE CronSweep
  BY <1>1, <1>4, <1>5, <1>7 DEF CronSweep, NoRun, Off
<1>8. CASE ServiceRestart
  BY <1>1, <1>4, <1>5, <1>8 DEF ServiceRestart, NoRun, Off
<1>9. CASE ApiStop \/ KillUnknown \/ \E p \in Pid : EncoderEnds(p)
  <2>1. row' = row /\ cron' = cron /\ \E victims : KillAll(victims)
    BY <1>9 DEF ApiStop, KillUnknown, EncoderEnds, others
  <2> QED BY <1>1, <1>3, <1>4, <1>5, <2>1 DEF Off
<1>10. CASE ApiStopped
  BY <1>1, <1>3, <1>10 DEF ApiStopped, ClearRow, Listed, Off
<1>11. CASE \/ \E p \in Pid : Produce(p)
            \/ ListEncoders \/ Release \/ ViewerConnects \/ ViewerLeaves \/ CloseRow \/ SourceChanges \/ Ages \/ UNCHANGED vars
  <2>1. row' = row /\ cron' = cron /\ proc' = proc
    BY <1>11 DEF Produce, ListEncoders, Release, ViewerConnects, ViewerLeaves, CloseRow, SourceChanges, Ages, others, vars
  <2> QED BY <1>1, <1>3, <1>5, <2>1 DEF Off
<1>12. ~ CronRevive /\ ~ CronStop /\ ~ CronSpare /\ ~ CronRefresh
  BY <1>3 DEF CronRevive, CronStop, CronSpare, CronRefresh
<1> QED BY <1>2, <1>6, <1>7, <1>8, <1>9, <1>10, <1>11, <1>12 DEF Next, Cron, PidMonitor

\* Nothing but a start of the panel or of a viewer brings a stopped stream back,
\* neither a cron nor a stop that goes on nor the files it left: what StopsForGood
\* says besides that the encoder ends.
THEOREM StoppedStaysOff ==
  Spec => [](Stopped /\ NoStarts => [](Monitors = {} /\ ~ Listed))
<1>1. Stopped => Off
  BY DEF Stopped, Off
<1>2. Off => Monitors = {} /\ ~ Listed
  BY DEF Off, Monitors
<1> QED BY <1>1, <1>2, OffStep, TypeInit, TypeStep, PTL DEF Spec
=============================================================================
