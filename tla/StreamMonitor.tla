---------------------------- MODULE StreamMonitor ----------------------------
(***************************************************************************)
(* The life of one live stream on one server: the monitors (monitor.php)   *)
(* that start, watch and restart its encoder, the encoders (ffmpeg), the   *)
(* crons streams.php and pid_monitor.php, the panel's start and stop       *)
(* (api.php) and the viewers that start an on-demand stream (live.php).    *)
(* They share the stream's row of streams_servers, the files <id>_.monitor,*)
(* <id>_.pid and <id>_.m3u8, and the process table.                        *)
(*                                                                         *)
(* A pid is free again as soon as its process has ended.  The encoder is   *)
(* the ffmpeg of startStream; low latency, loopback, created channels and  *)
(* the delay process are left out.  The setting on_demand_instant_off is   *)
(* off: with it addToQueue ends every request for an on-demand stream with *)
(* a TypeError (streaming.php:526), and ondemand.php has nothing to do.    *)
(*                                                                         *)
(* What happens rarely, a crash, a restart of the panel, two starts of the *)
(* stream at about the same time, is a disturbance: Faults says how often  *)
(* each kind may happen in a behaviour.  The other steps go on for ever.   *)
(*                                                                         *)
(* Definitions called ...Slip are plausible mistakes in the code, kept to  *)
(* show that the properties notice them; no specification uses them.       *)
(***************************************************************************)
EXTENDS Naturals, FiniteSets

CONSTANTS
  Pid,           \* pids of the processes of this stream
  NoPid,         \* NULL, 0 or a missing file
  MinusOne,      \* the pid -1 of a stream whose source could not be probed
  OnDemand,      \* the stream is started by its viewers
  KillRogue,     \* setting kill_rogue_ffmpeg
  FailureExit,   \* setting on_demand_failure_exit
  IsMain,        \* the server is the main one, whose users.php closes rows
  MaxClients,    \* bound of the model: viewers
  Faults         \* bound of the model: mixes of disturbances, how often each kind may happen

ASSUME PidAssumption == NoPid \notin Pid /\ MinusOne \notin Pid /\ NoPid # MinusOne
ASSUME SettingAssumption == {OnDemand, KillRogue, FailureExit, IsMain} \subseteq BOOLEAN
ASSUME BoundAssumption ==
  /\ MaxClients \in Nat
  /\ Faults \subseteq [{"start", "stop", "viewer", "crash", "trouble", "source", "reuse", "overlap", "blind"} -> Nat]

VARIABLES
  row,          \* monitor_pid, pid and stream_status of streams_servers
  fresh,        \* stream_started is at most on_demand_wait_time ago
  monitorFile,  \* <id>_.monitor
  pidFile,      \* <id>_.pid
  playlist,     \* <id>_.m3u8 exists
  proc,         \* what runs under a pid: "free", "boot" (monitor.php before it takes
                \* its title), "monitor" or "encoder"
  mon,          \* the variables of a monitor
  source,       \* the source of the stream answers
  clients,      \* open rows of lines_live for the stream on this server
  watching,     \* those whose viewer is still there
  cron,         \* the run of streams.php
  live,         \* the encoders that the run of pid_monitor.php has found
  held,         \* pids that rows of other tables, or of other streams, have
  api,          \* where a stop of the panel is
  faults        \* disturbances that may still happen

vars == <<row, fresh, monitorFile, pidFile, playlist, proc, mon,
          source, clients, watching, cron, live, held, api, faults>>
files == <<monitorFile, pidFile, playlist>>
viewers == <<clients, watching>>
pids == <<live, held>>
others == <<source, viewers, cron, pids, api, faults>>

NoMonitor == [pc |-> "off", enc |-> NoPid, restart |-> FALSE]
NoRun == [pc |-> "off", monitor |-> NoPid, pid |-> NoPid, status |-> 0,
          clients |-> 0, listed |-> FALSE]

\* Disturb(kinds) uses up one disturbance of each of the kinds.
Disturb(kinds) ==
  /\ \A kind \in kinds : faults[kind] > 0
  /\ faults' = [kind \in DOMAIN faults |-> faults[kind] - IF kind \in kinds THEN 1 ELSE 0]

-----------------------------------------------------------------------------
(* Processes                                                               *)

Is(pid, what) == pid \in Pid /\ proc[pid] = what

\* isStreamRunning: an ffmpeg of this stream, or any php process.
Running(pid) == pid \in Pid /\ proc[pid] # "free"

\* checkMonitorRunning: a process that bears the title of a monitor.
MonitorRunning(pid) == Is(pid, "monitor")

Encoders == {p \in Pid : proc[p] = "encoder"}
Monitors == {p \in Pid : proc[p] = "monitor"}

\* The process table after the victims are killed, and after p becomes what.
Killed(victims) == [q \in Pid |-> IF q \in victims THEN "free" ELSE proc[q]]
Forgotten(victims) == [q \in Pid |-> IF q \in victims THEN NoMonitor ELSE mon[q]]

\* p goes on as m while the victims are killed; it may be one of them.
Go(p, m, victims) ==
  /\ proc' = Killed(victims)
  /\ mon' = [q \in Pid |-> IF q \in victims THEN NoMonitor ELSE IF q = p THEN m ELSE mon[q]]

KillAll(victims) == proc' = Killed(victims) /\ mon' = Forgotten(victims)

RemoveFiles == monitorFile' = NoPid /\ pidFile' = NoPid /\ playlist' = FALSE

\* Pids some variable still holds.  The system gives out another one, which
\* one is all the same, unless it reuses a pid.
Remembered == {row.monitor, row.pid, monitorFile, pidFile, cron.monitor, cron.pid}
                \cup {mon[p].enc : p \in Pid} \cup live \cup held
Spare == {p \in Pid : proc[p] = "free"}

NewPid(p, kinds) ==
  \/ /\ Spare \ Remembered # {}
     /\ p = CHOOSE q \in Spare \ Remembered : TRUE
     /\ Disturb(kinds)
  \/ /\ p \in Spare \cap Remembered
     /\ Disturb(kinds \cup {"reuse"})

\* startMonitor: a monitor.php begins to run.  CheckRunning will miss a monitor
\* that has begun at about the same time and has not got its title yet, or has not
\* come to write the file; and one at work that the file does not name.
Booting == \E p \in Pid : proc[p] = "boot"
Unseen == {p \in Monitors : monitorFile \notin {p, NoPid}}
Beginning == Booting \/ \E p \in Unseen : mon[p].pc = "adopt"
Hidden == {p \in Unseen : mon[p].pc # "adopt"}

Missed == (IF Beginning THEN {"overlap"} ELSE {}) \cup (IF Hidden # {} THEN {"blind"} ELSE {})

\* The title comes before checkRunning.
StartMonitorSlip(restart, kinds) ==
  \E p \in Spare :
    /\ NewPid(p, kinds)
    /\ proc' = [proc EXCEPT ![p] = "monitor"]
    /\ mon' = [mon EXCEPT ![p] = [pc |-> "check", enc |-> NoPid, restart |-> restart]]

StartMonitor(restart, kinds) ==
  \E p \in Spare :
    /\ NewPid(p, kinds \cup Missed)
    /\ proc' = [proc EXCEPT ![p] = "boot"]
    /\ mon' = [mon EXCEPT ![p] = [pc |-> "check", enc |-> NoPid, restart |-> restart]]

Init ==
  /\ row = [monitor |-> NoPid, pid |-> NoPid, status |-> 0]
  /\ fresh = FALSE
  /\ monitorFile = NoPid /\ pidFile = NoPid /\ playlist = FALSE
  /\ proc = [p \in Pid |-> "free"]
  /\ mon = [p \in Pid |-> NoMonitor]
  /\ source = TRUE
  /\ clients = 0 /\ watching = 0
  /\ cron = NoRun
  /\ live = {} /\ held = {}
  /\ api = "idle"
  /\ faults \in Faults

-----------------------------------------------------------------------------
(* monitor.php                                                             *)

At(p, pc) == [mon[p] EXCEPT !.pc = pc]

\* checkRunning: the monitor the file names, or all of them without a file.
RunningMonitorsSlip == {monitorFile} \cap Monitors
RunningMonitors == IF monitorFile = NoPid THEN Monitors ELSE {monitorFile} \cap Monitors

CheckRunning(p) ==
  /\ mon[p].pc = "check"
  /\ Go(p, At(p, "register"), RunningMonitors)
  /\ UNCHANGED <<row, fresh, files, others>>

\* Take the title and the row, and look for an encoder.
Register(p) ==
  /\ mon[p].pc = "register"
  /\ proc' = [proc EXCEPT ![p] = "monitor"]
  /\ mon' = [mon EXCEPT ![p].pc = "adopt", ![p].enc = IF pidFile # NoPid THEN pidFile ELSE row.pid]
  /\ row' = [row EXCEPT !.monitor = p]
  /\ UNCHANGED <<fresh, files, others>>

\* kill_rogue_ffmpeg: every encoder of the stream but the one the monitor has.
RoguesSlip(pid) == Encoders \ {pid}
Rogues(pid) == IF KillRogue THEN Encoders \ {pid} ELSE {}

\* A running encoder is kept, unless the panel asked for a restart.
Adopt(p) ==
  /\ mon[p].pc = "adopt"
  /\ ~(Running(mon[p].enc) /\ mon[p].restart)
  /\ Go(p, [At(p, IF mon[p].enc \in Pid THEN "watch" ELSE "kill") EXCEPT !.restart = FALSE],
        Rogues(mon[p].enc))
  /\ monitorFile' = IF Running(mon[p].enc) THEN monitorFile ELSE p
  /\ UNCHANGED <<row, fresh, pidFile, playlist, others>>

Replace(p) ==
  /\ mon[p].pc = "adopt"
  /\ Running(mon[p].enc) /\ mon[p].restart
  /\ IF mon[p].enc = p    \* the pid of a dead encoder, now the monitor's own
     THEN KillAll({p}) /\ UNCHANGED files
     ELSE /\ Go(p, [At(p, "kill") EXCEPT !.enc = NoPid, !.restart = FALSE], {mon[p].enc} \cup Rogues(NoPid))
          /\ monitorFile' = p /\ pidFile' = NoPid /\ playlist' = FALSE
  /\ UNCHANGED <<row, fresh, others>>

OnAir(p) == Running(mon[p].enc) /\ playlist

\* The probe of a segment also restores files somebody has removed.
Probe(p) ==
  /\ mon[p].pc = "watch"
  /\ OnAir(p)
  /\ pidFile' = IF pidFile = NoPid THEN mon[p].enc ELSE pidFile
  /\ monitorFile' = IF monitorFile = NoPid THEN p ELSE monitorFile
  /\ UNCHANGED <<row, fresh, playlist, proc, mon, others>>

\* The encoder has ended, or its playlist is gone or stands still.
Lost(p) ==
  /\ mon[p].pc = "watch"
  /\ ~OnAir(p) \/ Encoders = {}
  /\ Go(p, At(p, "kill"), {})
  /\ UNCHANGED <<row, fresh, files, others>>

\* Auto restart, frame rate, sound, a playlist that stands still, another source.
Trouble(p) ==
  /\ mon[p].pc = "watch"
  /\ OnAir(p)
  /\ Disturb({"trouble"})
  /\ Go(p, At(p, "kill"), {})
  /\ UNCHANGED <<row, fresh, files, source, viewers, cron, pids, api>>

KillOld(p) ==
  /\ mon[p].pc = "kill"
  /\ Go(p, At(p, "restart"), IF Running(mon[p].enc) THEN {mon[p].enc} ELSE {})
  /\ UNCHANGED <<row, fresh, files, others>>

Restart(p) ==
  /\ mon[p].pc = "restart"
  /\ IF Running(mon[p].enc)
     THEN Go(p, At(p, "watch"), {}) /\ UNCHANGED files
     ELSE /\ Go(p, [At(p, "start") EXCEPT !.enc = NoPid], {})
          /\ monitorFile' = p /\ pidFile' = NoPid /\ playlist' = FALSE
  /\ UNCHANGED <<row, fresh, others>>

\* startStream: without a source the row says so and the monitor ends.
StartFails(p) ==
  /\ mon[p].pc = "start"
  /\ ~source
  /\ Go(p, NoMonitor, {p})
  /\ row' = [row EXCEPT !.pid = MinusOne, !.status = 1]
  /\ pidFile' = NoPid
  /\ UNCHANGED <<fresh, monitorFile, playlist, others>>

\* The pid of a new encoder may be that of a dead worker, recording or delay whose
\* row is still there.
EncoderPid(f) ==
  \/ NewPid(f, {}) /\ UNCHANGED held
  \/ NewPid(f, {"reuse"}) /\ held' = held \cup {f}

\* startStream: the shell that starts ffmpeg writes its pid to the file.
StartEncoder(p) ==
  /\ mon[p].pc = "start"
  /\ source
  /\ \E f \in Spare :
       /\ EncoderPid(f)
       /\ proc' = [proc EXCEPT ![f] = "encoder"]
       /\ pidFile' = f
  /\ mon' = [mon EXCEPT ![p].pc = "record"]
  /\ UNCHANGED <<row, fresh, monitorFile, playlist, source, viewers, cron, live, api>>

\* startStream: read the pid back from the file, which others may have removed.
Record(p) ==
  /\ mon[p].pc = "record"
  /\ mon' = [mon EXCEPT ![p].pc = "await", ![p].enc = pidFile]
  /\ row' = [row EXCEPT !.pid = pidFile, !.status = 2]
  /\ fresh' = TRUE
  /\ UNCHANGED <<files, proc, others>>

Awaiting(p) == mon[p].pc \in {"await", "announced"}

\* An on-demand stream is announced with its first segment.
Segment(p) ==
  /\ mon[p].pc = "await"
  /\ OnDemand /\ Running(mon[p].enc) /\ ~playlist
  /\ mon' = [mon EXCEPT ![p].pc = "announced"]
  /\ row' = [row EXCEPT !.status = 0]
  /\ fresh' = TRUE
  /\ UNCHANGED <<files, proc, others>>

\* The start of one not announced yet counts from now if the probe succeeds.
Ready(p) ==
  /\ Awaiting(p)
  /\ OnAir(p)
  /\ Go(p, At(p, "restart"), {})
  /\ row' = [row EXCEPT !.status = 0]
  /\ fresh' \in {fresh} \cup IF OnDemand /\ mon[p].pc = "await" THEN {TRUE} ELSE {}
  /\ UNCHANGED <<files, others>>

\* A failed start is left in the row for streams.php to see.
FailedRowSlip == [row EXCEPT !.pid = NoPid, !.status = 0]
FailedRow == [row EXCEPT !.pid = NoPid, !.status = 1]

\* The encoder has ended, or has made no playlist in time: that takes a
\* trouble while the encoder has its source.
NotReady(p) ==
  /\ Awaiting(p)
  /\ ~OnAir(p)
  /\ IF Is(mon[p].enc, "encoder") /\ source THEN Disturb({"trouble"}) ELSE UNCHANGED faults
  /\ LET old == IF Running(mon[p].enc) THEN {mon[p].enc} ELSE {}
     IN  IF FailureExit /\ OnDemand THEN Go(p, NoMonitor, old \cup {p})
                                    ELSE Go(p, At(p, "restart"), old)
  /\ row' = FailedRow
  /\ UNCHANGED <<fresh, files, source, viewers, cron, pids, api>>

-----------------------------------------------------------------------------
(* ffmpeg                                                                  *)

Produce(f) ==
  /\ proc[f] = "encoder" /\ ~playlist /\ source
  /\ playlist' = TRUE
  /\ UNCHANGED <<row, fresh, monitorFile, pidFile, proc, mon, others>>

\* ffmpeg ends when its source does.
EncoderEnds(f) ==
  /\ proc[f] = "encoder" /\ ~source
  /\ KillAll({f})
  /\ UNCHANGED <<row, fresh, files, others>>

-----------------------------------------------------------------------------
(* stopStream($streamID, true)                                             *)

\* The monitor the file names, or else the row, is killed.  The encoder is
\* not: checkPID looks for the title of a monitor in its command line.
StopVictims == {IF monitorFile # NoPid THEN monitorFile ELSE row.monitor} \cap Monitors

ClearRow == [monitor |-> NoPid, pid |-> NoPid, status |-> 0]

\* The panel (api.php) starts, restarts and stops the stream.
ApiStart ==
  /\ StartMonitor(TRUE, {"start"})
  /\ UNCHANGED <<row, fresh, files, source, viewers, cron, pids, api>>

ApiStop ==
  /\ api = "idle"
  /\ Disturb({"stop"})
  /\ KillAll(StopVictims)
  /\ api' = "stopping"
  /\ UNCHANGED <<row, fresh, files, source, viewers, cron, pids>>

ApiStopped ==
  /\ api = "stopping"
  /\ RemoveFiles
  /\ row' = ClearRow
  /\ fresh' = FALSE
  /\ api' = "idle"
  /\ UNCHANGED <<proc, mon, source, viewers, cron, pids, faults>>

-----------------------------------------------------------------------------
(* crons/streams.php                                                       *)

Listed == row.pid # NoPid \/ row.status # 0

\* A run starts every minute; by then a monitor has its title.
CronSelect ==
  /\ cron.pc = "off"
  /\ ~Booting
  /\ cron' = IF Listed
             THEN [pc |-> "stream", monitor |-> row.monitor, pid |-> row.pid,
                   status |-> row.status, clients |-> clients, listed |-> TRUE]
             ELSE [NoRun EXCEPT !.pc = "sweep"]
  /\ UNCHANGED <<row, fresh, files, proc, mon, source, viewers, pids, api, faults>>

\* The run goes on; of the row only the pid is read again.
CronAt(pc) == [NoRun EXCEPT !.pc = pc, !.pid = cron.pid, !.listed = TRUE]

KeptSlip == Running(cron.pid) \/ OnDemand
Kept == MonitorRunning(cron.monitor) \/ OnDemand

CronRevive ==
  /\ cron.pc = "stream" /\ ~Kept
  /\ StartMonitor(FALSE, {})
  /\ cron' = [NoRun EXCEPT !.pc = "sweep", !.listed = TRUE]
  /\ UNCHANGED <<row, fresh, files, source, viewers, pids, api>>

\* An on-demand stream nobody watches.
UnwatchedSlip == OnDemand /\ cron.clients = 0 /\ playlist

Unwatched ==
  /\ OnDemand /\ cron.clients = 0
  /\ playlist \/ ~fresh \/ cron.status = 1

\* The cron's stopStream is one step: a second monitor that runs between its
\* kill and its update is left to ApiStop.
CronStop ==
  /\ cron.pc = "stream" /\ Kept
  /\ Unwatched
  /\ KillAll(StopVictims)
  /\ RemoveFiles
  /\ row' = ClearRow
  /\ fresh' = FALSE
  /\ cron' = CronAt("refresh")
  /\ UNCHANGED <<source, viewers, pids, api, faults>>

CronSpare ==
  /\ cron.pc = "stream" /\ Kept
  /\ ~Unwatched
  /\ cron' = CronAt("refresh")
  /\ UNCHANGED <<row, fresh, files, proc, mon, source, viewers, pids, api, faults>>

\* The encoder of the file, or the first one ps shows.
CronRefresh ==
  /\ cron.pc = "refresh"
  /\ \E pid \in IF pidFile # NoPid THEN {pidFile} ELSE IF Encoders # {} THEN Encoders ELSE {NoPid} :
       /\ row' = IF Running(pid) /\ playlist /\ cron.pid # pid
                 THEN [row EXCEPT !.pid = pid] ELSE row
       /\ cron' = [NoRun EXCEPT !.pc = "sweep", !.pid = pid, !.listed = TRUE]
  /\ UNCHANGED <<fresh, files, proc, mon, source, viewers, pids, api, faults>>

\* Processes of a stream that was not listed, and encoders that were not.
Strays == IF ~cron.listed /\ ~OnDemand /\ Monitors # {} THEN Monitors \cup Encoders ELSE {}

CronSweep ==
  /\ cron.pc = "sweep"
  /\ KillAll(Strays \cup Rogues(cron.pid))
  /\ IF Strays # {} THEN RemoveFiles ELSE UNCHANGED files
  /\ cron' = NoRun
  /\ UNCHANGED <<row, fresh, source, viewers, pids, api, faults>>

Cron == \/ CronSelect \/ CronRevive \/ CronStop
        \/ CronSpare \/ CronRefresh \/ CronSweep

(* crons/pid_monitor.php                                                   *)

\* pgrep comes first; a run that finds no ffmpeg has nothing to do.
ListEncoders ==
  /\ live = {} /\ Encoders # {}
  /\ live' = Encoders
  /\ UNCHANGED <<row, fresh, files, proc, mon, source, viewers, cron, held, api, faults>>

\* Then the pids no table knows are killed, whatever they belong to by now.  To
\* hit an encoder just before its monitor records it takes a trouble.
UnknownSlip == IF row.pid \in Pid THEN live \ ({row.pid, row.monitor} \cup held) ELSE {}
Unknown == live \ ({row.pid, row.monitor} \cup held)

KillUnknown ==
  /\ live # {}
  /\ IF pidFile \in Unknown /\ \E p \in Pid : mon[p].pc = "record"
     THEN Disturb({"trouble"}) ELSE UNCHANGED faults
  /\ KillAll(Unknown)
  /\ live' = {}
  /\ UNCHANGED <<row, fresh, files, source, viewers, cron, held, api>>

PidMonitor == ListEncoders \/ KillUnknown

\* A row of another table goes; nothing says when.
Release ==
  /\ \E p \in held : held' = held \ {p}
  /\ UNCHANGED <<row, fresh, files, proc, mon, source, viewers, cron, live, api, faults>>

-----------------------------------------------------------------------------
(* Viewers and disturbances                                                *)

\* live.php: the pids of the files, or of the row when the token was made.
SeenPid == IF pidFile # NoPid THEN pidFile ELSE row.pid
SeenMonitor == IF monitorFile # NoPid THEN monitorFile ELSE row.monitor

ViewerStarts ==
  /\ OnDemand /\ ~Running(SeenPid) /\ ~MonitorRunning(SeenMonitor)
  /\ StartMonitor(FALSE, {"viewer"})
  /\ UNCHANGED <<row, fresh, files, source, viewers, cron, pids, api>>

ViewerConnects ==
  /\ clients < MaxClients
  /\ Running(SeenPid) \/ pidFile # NoPid
  /\ clients' = clients + 1 /\ watching' = watching + 1
  /\ UNCHANGED <<row, fresh, files, proc, mon, source, cron, pids, api, faults>>

\* The row stays open: the handle of the shutdown's UPDATE has been closed.
ViewerLeaves ==
  /\ watching > 0
  /\ watching' = watching - 1
  /\ UNCHANGED <<row, fresh, files, proc, mon, source, clients, cron, pids, api, faults>>

\* users.php of the main server closes the rows of its dead workers; on any
\* server the limit of the line may.
CloseRow ==
  /\ clients > watching
  /\ clients' = clients - 1
  /\ UNCHANGED <<row, fresh, files, proc, mon, source, watching, cron, pids, api, faults>>

\* A php process dies.
Crash(p) ==
  /\ proc[p] \in {"boot", "monitor"}
  /\ Disturb({"crash"})
  /\ KillAll({p})
  /\ UNCHANGED <<row, fresh, files, source, viewers, cron, pids, api>>

\* service restart: everything but ffmpeg is killed.
ServiceRestart ==
  /\ Disturb({"crash"})
  /\ KillAll(Pid \ Encoders)
  /\ cron' = NoRun /\ live' = {} /\ api' = "idle"
  /\ UNCHANGED <<row, fresh, files, source, viewers, held>>

SourceChanges ==
  /\ Disturb({"source"})
  /\ source' = ~source
  /\ UNCHANGED <<row, fresh, files, proc, mon, viewers, cron, pids, api>>

\* on_demand_wait_time seconds after the start.
Ages ==
  /\ fresh
  /\ fresh' = FALSE
  /\ UNCHANGED <<row, files, proc, mon, others>>

-----------------------------------------------------------------------------

Monitor(p) ==
  \/ CheckRunning(p) \/ Register(p) \/ Adopt(p) \/ Replace(p) \/ Probe(p) \/ Lost(p)
  \/ KillOld(p) \/ Restart(p) \/ StartFails(p) \/ StartEncoder(p) \/ Record(p)
  \/ Ready(p) \/ NotReady(p)

Next ==
  \/ \E p \in Pid : \/ Monitor(p) \/ Segment(p) \/ Trouble(p)
                    \/ Produce(p) \/ EncoderEnds(p) \/ Crash(p)
  \/ ApiStart \/ ApiStop \/ ApiStopped
  \/ Cron \/ PidMonitor \/ Release
  \/ ViewerStarts \/ ViewerConnects \/ ViewerLeaves \/ CloseRow
  \/ ServiceRestart \/ SourceChanges \/ Ages

Spec == Init /\ [][Next]_vars

(***************************************************************************)
(* Processes go on, ffmpeg writes its playlist or ends, the crons are      *)
(* started every minute, users.php does its work on the main server only,  *)
(* and time passes.  Nothing makes a viewer leave, the panel act, a row of *)
(* another table go, a process crash or the source change.                 *)
(***************************************************************************)
Fairness ==
  /\ \A p \in Pid : WF_vars(Monitor(p) \/ Produce(p) \/ EncoderEnds(p))
  /\ WF_vars(ApiStopped) /\ WF_vars(Cron) /\ WF_vars(PidMonitor) /\ WF_vars(Ages)
  /\ IsMain => WF_vars(CloseRow)

FairSpec == Spec /\ Fairness

-----------------------------------------------------------------------------
(* Properties                                                              *)

\* The variables hold what the code can put there, and each process is where a
\* process of its kind can be (monitor.php sets its title after checkRunning).
TypeOK ==
  /\ row \in [monitor : Pid \cup {NoPid}, pid : Pid \cup {NoPid, MinusOne}, status : 0..2]
  /\ fresh \in BOOLEAN /\ playlist \in BOOLEAN /\ source \in BOOLEAN
  /\ monitorFile \in Pid \cup {NoPid} /\ pidFile \in Pid \cup {NoPid}
  /\ proc \in [Pid -> {"free", "boot", "monitor", "encoder"}]
  /\ mon \in [Pid -> [pc : {"off", "check", "register", "adopt", "watch", "kill", "restart",
                            "start", "record", "await", "announced"},
                      enc : Pid \cup {NoPid, MinusOne}, restart : BOOLEAN]]
  /\ \A p \in Pid : /\ mon[p].pc \in {"check", "register"} <=> proc[p] = "boot"
                    /\ mon[p].pc = "off" <=> proc[p] \in {"free", "encoder"}
  /\ clients \in 0..MaxClients /\ watching \in 0..clients
  /\ live \subseteq Pid /\ held \subseteq Pid
  /\ cron.pc \in {"off", "stream", "refresh", "sweep"}
  /\ api \in {"idle", "stopping"}

Watched == \E p \in Pid : mon[p].pc = "watch" /\ Is(mon[p].enc, "encoder") /\ playlist

\* As long as its row lists it, a stream with a source comes back on the air
\* after crashes, restarts and troubles, through streams.php and monitor.php.
Revived == <>[]source => [](Listed => <>(Watched \/ ~Listed))

\* Nothing but a stop takes a started stream out of the SELECT of streams.php,
\* which is all that revives it.
StaysListed == [][Listed /\ api = "idle" => Listed']_vars

\* A monitor's crash or a restart of the service does not take an encoder down
\* that is on the air: only a monitor kills it that has judged it lost or that
\* the panel has started for a restart, and a run of streams.php that read the
\* rows before the stream was listed.
Seamless ==
  [][\A f \in Encoders :
       /\ source /\ row.pid = f /\ row.status = 0
       /\ cron.pc = "off" \/ cron.listed
       /\ \A p \in Pid : mon[p].pc = "kill" \/ mon[p].restart => mon[p].enc # f
       => f \in Encoders']_vars

\* Nothing of the stream runs but an encoder under a pid that another row has.
Quiet == Monitors = {} /\ Encoders \subseteq held /\ ~Listed

\* On the main server an on-demand stream nobody watches is taken off the air for
\* good, with the encoder that stopStream leaves running: users.php closes the
\* rows the viewers leave, streams.php stops the stream and pid_monitor.php ends
\* the encoder.  A row of another table with the encoder's pid must go as well: a
\* monitor that has taken over an encoder before its predecessor could record it
\* has an unlisted stream, and is only found out when pid_monitor.php kills it.
OffAir == IsMain /\ <>[](watching = 0 /\ held = {}) => <>[]Quiet

Stopped ==
  /\ ~Listed /\ cron.pc = "off" /\ api = "idle"
  /\ \A p \in Pid : proc[p] \in {"free", "encoder"}

\* Once a stop is done and no start is under way or to come, the stream stays off,
\* and the encoder that stopStream leaves running ends, unless a row of another
\* table has its pid.
StopsForGood == Stopped /\ faults["start"] = 0 /\ faults["viewer"] = 0 ~> []Quiet
=============================================================================
