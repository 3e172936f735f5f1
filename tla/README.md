# Xtream_lb in TLA+

The repository is a load balancer for IPTV streams (XC_VM): PHP scripts behind
nginx, crons and daemons that share a MySQL database (or Redis) with the main
server, files under `tmp/` and `content/streams/`, and the process table. This
directory holds TLA+ models of its core, the TLC runs that check them and the
TLAPS proofs about them. All paths below are relative to the root of the repository.

`bin/` (php, nginx, nginx-rtmp, yt-dlp), the panel that writes the tables, and a
few scripts the code calls but the repository lacks (`llod.php`, `loopback.php`,
`cache_engine.php`) are outside; where the code depends on them they are modelled
from its use of them and marked `external` in `PROJECT.json`.

All of the repository's own logic is PHP, some 12600 lines under `crons/`, `includes/`
and `wwwdir/`. By count of lines the tree is dominated by the C headers of the PHP
it ships (`bin/php/include`, 389 files, 199168 lines), of which nothing is modelled.

## The system

| part | code | state | operations |
|---|---|---|---|
| delivery | `wwwdir/streaming/{live,clients_movie}.php` | `lines_live` or Redis, php-fpm worker, `tmp/` files of a connection | open, take over, count, play, recheck every 300 s, shutdown |
| connection limit | `includes/streaming.php` 389-720 | a snapshot of the line's rows | validateConnections, closeConnections, closeConnection |
| Redis registry | `includes/streaming.php` 1205-1420 | a record per connection, indexes per line, stream and server | create, update, list |
| signals | `includes/cli_tool/signals.php` | table `signals`, its own process title | kill pids, refresh caches, delete, replace itself |
| connection cron | `crons/users.php` | a snapshot of all rows | close dead, stale, expired and supernumerary connections, delete in bulk |
| stream monitor | `includes/cli_tool/monitor.php` | process title, `<id>_.monitor`, `<id>_.pid`, row of `streams_servers` | start, adopt, watch, restart, give up |
| stream control | `includes/stream.php`, `wwwdir/api.php` | the same | startMonitor, startStream, stopStream |
| stream cron | `crons/streams.php` | a snapshot of the rows | revive, stop unwatched, refresh pids, kill strays and rogues, remove `.enc` files |
| process cron | `crons/pid_monitor.php` | two lists of pids | kill unknown encoders |
| cron locks | `includes/lib.php` 640-665 | a lock file per cron | checkCron, shutdown |
| log shipping | `crons/{activity,user_logs,errors,tmp}.php` | append-only files | append, read, insert, unlink, sweep |
| caches | `includes/{streaming,lib}.php`, `signals.php` | rows, cache files, signals | updateStream, updateLine, rebuild |
| HLS segments | `wwwdir/streaming/segment.php` | `.enc`, `.enc_write`, key files | encrypt, wait, send |
| tokens, server choice | `wwwdir/streaming/auth.php`, `includes/functions.php`, `includes/streaming.php` 86-252 | flood files, cached capacities | check a line, choose a server, make a token |
| others | film queue, delay, archive, created channels, rtmp, watchdog, root signals, update scripts | | see "What is not modelled" |

Components meet in shared state, never in calls: a worker learns that another
took its place because a row changed or because it is killed; a server asks
another to kill a process by inserting a row of `signals`; the cron revives a
stream because the row of `streams_servers` still lists it. What is hard is that
each of them reads, decides and writes in separate steps, identifies processes by
pids that are used again, and may be killed between any two steps.

What makes each part correct: a line never plays more than `max_connections`
streams, a request kills neither itself nor strangers, what is left behind by
dead processes is cleaned up; a stream that should run is on the air again after
any fault, a stream that was stopped or that nobody watches goes away, and there
is one monitor of it; the registry's indexes say what its records say; a change
of a row reaches the cache; a log entry is stored once or lost for good; one
daemon works on the signals of a server; a segment is sent whole under the right key.

## Modules

| module | models |
|---|---|
| `EvictionScan` | which row closeConnections closes next: kill types, order, tests, number of calls. Operators only, used by the next two |
| `Eviction` | one call of closeConnections on its own, from every snapshot |
| `Connections` | workers, `lines_live` and `signals` on all servers in MySQL mode |
| `ConnectionLimit` | what `Connections` promises of max_connections, with a history of the lines that met a coincidence which costs them their limit |
| `UsersCron` | `Connections` composed with `crons/users.php` |
| `RedisRegistry` | records, indexes and workers with the setting `redis_handler` |
| `StreamMonitor` | one stream on one server: monitors, encoders, crons, panel, viewers |
| `StreamStarts` | `StreamMonitor` with a history of the monitors that took over an encoder, for what one start leaves of another |
| `CronLock` | instances of crons and their lock files |
| `LogShipping` | `CronLock` composed with the log crons and the sweep of `tmp.php` |
| `Ledger` | the abstract specification that `LogShipping` implements |
| `CacheSignals` | changes of rows, their signals, and the daemon that rebuilds the cache |
| `DaemonRelay` | instances of `signals.php` that start and kill each other |
| `HlsSegment` | one encrypted segment, the requests for it and the stream that is restarted |
| `..._proofs` | TLAPS proofs about the module of that name (`Connections_proofs` about `UsersCron` too, `SignalDaemon_proofs` about `CacheSignals` and `DaemonRelay`) |
| `MC...` | the instances for TLC; `MCLimit` bounds the requests of `ConnectionLimit`, `MCServices` puts four modules that share no state side by side |

**Connections.** A worker's `pc` says where its request is: `ip check` (second
address), `lookup` (SELECT), `open` (INSERT, or kill and UPDATE), `validate` and
`close` (closeConnections over the rows it has read), `play`. Each query, and each
closeConnection, is a step of its own, so the steps of two requests interleave as
those of two processes do. closeConnection kills, inserts a signal and deletes the row in one step; the
queries between have no other effect on the modelled state. A pid is a member of
`Pid` per server, so a pid of a dead worker is given to the next one, as Linux
does after a while. A row outlives its worker: in MySQL mode the shutdown
handlers write on a handle that was closed before (`live.php` 282 and 479,
`clients_movie.php` 109 and 273, `pdo.php` 111), and no reachable statement sets
`hls_end`, which therefore is not a variable. `taken` is how far `signals.php` is
between its kills and its DELETE; it may be restarted there. That it is one
process at a time is what `DaemonRelay` shows.

**UsersCron.** The cron reads all rows and the lines' `exp_date` at once and then
works through the lines. For each it closes what is dead, stale or expired, then,
oldest first, what exceeds the limit, and deletes by uuid. Rows may change meanwhile.
Only the main server runs this in MySQL mode (`users.php` 140).

**RedisRegistry.** getConnection is one step that reads a record; createConnection and
updateConnection are one step each, the MULTI that writes the record and the
indexes. What an update writes is the record as its caller read it, with the caller's
changes. A token of a live stream is for one server, one of HLS is good on all. `orphaned`
notes sessions of which a worker died, was killed or failed without its shutdown work.

**StreamMonitor.** `proc` is the process table for one stream, `mon` the variables
of each monitor, and the row and the files are shared by all. The `pc` of a
monitor names the stretch of `monitor.php` it is in: `check` (checkRunning),
`register` (title, row), `adopt`, `watch` (label592), `kill` (label471), `restart`
(label76), `start` and `record` (startStream), `await` (label998) and `announced`
(await, after the first segment of an on-demand stream). `startMonitor` is
asynchronous: until the process has set its title nobody can find it. A stop by the panel is two
steps (kill; files and row), that of the cron one, that of `pid_monitor.php` two: `live` holds what
pgrep has listed (23) until the pids no table knows are killed (25-64). `held` stands for what
`delay_pid`, `tv_archive_pid`, `lines_live.pid` and the rows of other streams hold (27-56): a new encoder
may get a pid whose dead owner still has a row, and nothing says when such a row goes. `clients` counts the
open rows of viewers, which is what `streams.php` reads, `watching` the viewers: the shutdown's UPDATE of
`live.php` goes to a closed handle (282, 479), so a row outlives its viewer until `users.php` closes it, and
that looks only at the rows of the main server (`IsMain`).

**StreamStarts.** A monitor that takes over a running encoder does not write `<id>_.monitor` (74-91), which
goes on naming its predecessor. `takers` are the monitors at work of which this is true, `excused` says that a
start has met one.

**CronLock and LogShipping.** checkCron is three steps: look whether the pid of the
lock file exists (`Pass`, `Refuse`, `Depose`), and write it (`Claim`). Most crons register
shutdown() before they call it, so an instance that refuses removes the lock of the
one that runs. `LogShipping` adds a file and the table; the three logs differ in how much they
read and whether they store or unlink first. Time is the age of a lock file in three classes.

**CacheSignals.** An item's version counts the changes of its row; `cached` is the version
the cache was last built from. Asking whether a signal waits and inserting one are two
steps; so are the daemon's SELECT, rebuild and DELETE. `missed` marks an item whose
sender died, or whose sender took a signal for its own that had been worked off already.

**DaemonRelay.** An instance boots, takes its title, runs its kill command (a shell that
lists with ps and then kills, two steps, and that outlives its instance), works, and
leaves a shell behind that starts the next one. `servers.php` starts one when it
counts none; it counts by the file name, which the title has replaced. The listing leaves out its own process
by `grep -v <pid>`, which drops every line of ps with these digits in it: any other instances may be
missed, and `overlooked` remembers which.

**HlsSegment.** A request's `pc` follows `segment.php` 93-131: look for `.enc_write`, touch it, read the
key, read and encrypt the segment, open and write `.enc`, remove `.enc_write`, send. Opening empties
the file, so two writers may mix. A run of ffmpeg has its own key, and its files go with it. The stream is
listed or not, has a monitor or not, and is stopped and started: `streams.php` sweeps the `.enc` files of a
listed stream whose monitor runs (27, 33, 76-80), and nobody those of a stopped one. `lock` is `left` when
the worker that touched `.enc_write` died.

## Runs

Every property of a passing run has a mutant in `PROJECT.json`: a plausible
mistake in the code (`...Slip`, next to the definition it replaces) with which
TLC finds the property violated.

| run | what it shows | bounds |
|---|---|---|
| `eviction` | `NeverBelowAllowance`, `OwnAddressFirst`, `OldestFirst`, `LimitUnlessRepeated` of one call | every snapshot of up to 4 rows, 2 pids and NULL, 2 addresses, with and without User-Agent |
| `eviction_limit` | violation of `LimitReached`, see Findings | up to 3 rows |
| `connections` | `LimitOnPlay`, `RequesterSurvives` across servers | one line with a device on each of two servers, 2 pids each, 2 addresses of which the second is refused, 4 requests, 3 inserts, 2 waiting signals |
| `connections_films` | `TypeOK`, `RequesterSurvives` for films and HLS of two paired lines | an HLS viewer of one line and a film of the other on each of two servers, 2 pids per server, 2 workers alive at a time, 2 inserts, 1 waiting signal |
| `connections_others` | violation of `OnlyOwnStreamsClosed`, see Findings | 2 lines, 2 workers |
| `users_cron` | `SettlesWithinLimit`, `DeadReaped` on two servers, second addresses refused | 2 devices, 1 worker each |
| `users_cron_lapse` | `CTypeOK`, `StaleReaped`, `LapsedCut`, `SettlesOnePlayer` | a live and an HLS session, 2 workers |
| `stream_monitor` | `TypeOK`, `Revived`, `StaysListed`, `Seamless` of an always-on stream | 5 pids, a start, a crash, a trouble, two changes of the source, a start beside a monitor the file does not name |
| `stream_starts` | `OneMonitor` | 6 pids, two starts and a crash, or a start, a crash and a reused pid, `kill_rogue_ffmpeg` on; not what comes after a start that met a monitor which took over an encoder |
| `stream_viewed` | `OffAir`, `StopsForGood` of an on-demand stream | the main server, 5 pids, one viewer at a time; two starts by viewers, or one and a stop by the panel, each with a crash; a start and a stop by the panel and a start by a viewer; or a start by a viewer, a stop and a reused or held pid; in each also a start beside a monitor the file does not name; `on_demand_failure_exit` on |
| `log_shipping` | `TypeOK`, `OneAtWork`, `KeepsBook` (refinement of `Ledger`), `OldestNotLost`, `NeverBlocked` | 3 pids, the log cron and `tmp.php`, each of 3 logs, 2 entries, 2 troubles: a race, two overlaps, slowness, a crash, a reused pid, a failed INSERT |
| `services` | registry: `TypeOK`, `IndexAgrees`, `NoGhost`, `OnlyOpenCounted`, `PlayersListed`; cache: `FewSignals`, `HandledFirst`, `CatchesUp`; relay: `OneReceiver`, `DaemonBack`; segment: `HealsItself`, `NoLeftovers` | registry: a limited live token and an HLS token in 2 workers, or the HLS token in 3 workers of 2 servers; cache: 2 items, 2 senders, batches of 2, 3 changes of a row and 4 of both; relay: 3 instances, 3 disturbances; segment: 2 requests, 2 runs of ffmpeg, the stream stopped or its monitor dead in the first |

### Why the bounds are enough

*Eviction.* The passes compare a row with the requester in pid, address and agent,
and rows with each other by age. Two addresses and agents with one and no match,
and rows in all their orders, give every combination of these; four rows allow a row to be met by all
three passes while others are left, and leave more to close than the own address holds. The
proofs hold for any number of rows.

*Connections.* Four requests let two devices on different servers count each other, lose their rows to each
other and come back for them; two pids per server let a new worker run beside the one whose row it closes, or
have the pid that a row of the other server names. `MaxConn` is 1: the race is between one stream and the next;
the proof is for any limit. A kill has one killer and one
victim, so two workers that live at a time are enough for the films; which pids they
have, and on which server, is free. `MaxSignals` only delays a step that would add one more signal.

*StreamMonitor.* Five pids hold a monitor and an encoder that are running, their
successors, and one that somebody still remembers; six leave one more to the second start. The pids of
`stream_starts` are symmetric, as the one `NewPid` chooses is one of those that nothing in the state names.
Disturbances have a budget each (`Faults`): `start`, `stop`, `viewer`, `crash` (a process, or all but ffmpeg at a
service restart), `trouble` (auto restart, frame rate, audio, a playlist that
stands still, a late playlist), `source`, `reuse` (the kernel gives a pid again that
a file or a row still holds), `overlap` (a monitor is started before another one has its title, or has come to
write the file) and `blind` (one is started beside a monitor at work that the file does not name: what an
adoption leaves, one after the other). Each run admits one of these `blind` starts, so that a crash, an
adoption and the next start are in it; `overlap`, two starts within the same second, is in none. The always-on
runs have no viewers: `streams.php` counts them for on-demand streams only. `NotExcused` ends a behaviour of
`stream_starts` where `OneMonitor` does not speak of it any more.

*LogShipping.* Two entries are the one that is read and the one that is appended after the
read. Three instances let a third start beside the first because a refusing second has removed its lock.
Each trouble is one coincidence; two of them show every pair. `Write` stops at
`MaxEntry`, the crons go on for ever.

*Services.* Registry: a take-over has a predecessor, a successor and whoever took over in
between. Cache: two senders can ask at once, a batch smaller than the table leaves signals behind,
and an item that changes twice can be ahead of its signal. Relay: of three instances one works while two start.
Segment: two writers, and the files of one run met by a request of the next; a stop, a death of the monitor and
a start in the first run leave the second one undisturbed, in which what they left must go.

### Fairness

`Connections`: a request that has begun goes on, a playing worker comes to its
five minute check (`live.php` 426), the daemon restarts itself after each pass
(`signals.php` 89). Viewers owe nothing: the liveness properties speak of what
happens once they stop sending requests (`<>[]Quiet`). `UsersCron` adds that the
crontab starts the cron, `RedisRegistry` says the same of requests and checks.
`StreamMonitor`: a monitor and an encoder go on, the crons
are started every minute, a stop that has killed also updates the row, and time passes; `users.php` closes the
rows of viewers who left on the main server only. Nothing makes a viewer leave or a row of another table go.
`LogShipping`: instances go on, the crontab starts a cron that has none, and a lock file that
nobody works under grows old. `DaemonRelay`: instances run, and `servers.php` comes once a minute.
`HlsSegment`: a request goes on and `streams.php` sweeps. These are weak. `CacheSignals` adds strong
fairness of the rebuild and the DELETE: a successor kills the daemon at some step, but not every daemon at
that step for ever. Crashes, starts, stops, sources and the end of a foreign process have none.

In `MCServices` a behaviour is about one of the four parts (`part`); each has the fairness of its
own module, conjoined with `part`, so the parts that rest owe nothing.

### Assumptions of the models

- `redis_handler` is off in `Connections`, `UsersCron` and `StreamMonitor` and on in `RedisRegistry`.
- `on_demand_instant_off` is off. It cannot be
  used: `addToQueue` calls in_array with its arguments swapped (`streaming.php`
  526), a TypeError in PHP 8 for every viewer of an on-demand stream.
- In `StreamMonitor` a run of `streams.php` does not begin while a monitor has not set its
  title, which takes it a fraction of a second. `NotReady` for an encoder that is
  alive and has its source, and a `pid_monitor.php` that kills an encoder between its
  start and its UPDATE, use up a `trouble`, since else they could repeat for ever.
- On a server that is not the main one no cron closes the rows of viewers who left, so `streams.php` goes on
  counting them and does not stop the stream: `OffAir` is about the main server (`IsMain`). It and
  `StopsForGood` also except an encoder whose pid a row of another table or stream has (`held`).
- `Connections` and `CacheSignals` have one daemon that may be killed at any step: no instance of `signals.php`
  at work has overlooked another one (`OneReceiver`). No signal waits for a day: `servers.php` 142 deletes
  those that do, handled or not, which takes a daemon that is down for as long.
- In `DaemonRelay` no kill command lasts until the next minute's count, unless that uses up a disturbance.
- A token is valid. What `auth.php` decides is not modelled.
- The encoder is the ffmpeg of `startStream`: no delay, low latency, loopback or created channel.
- `cache_engine.php` reads the rows and writes the cache in one step; only that it does so is used.
- An append to a log and a read of it are one step each (`FILE_APPEND`, `fgets` over a short file).

## Findings

- **A row is counted twice** (`eviction_limit`). closeConnections leaves a closed row
  in `$rConnections`. A row of the requester's address and agent matches again in
  the next pass, closeConnection succeeds again, and `$rKilled` grows: three rows,
  a limit of one, and one of the two calls may be wasted. The comment at
  `streaming.php` 399 promises the limit. `LimitUnlessRepeated` shows that nothing else
  makes it miss in one call, `LimitOnPlay` that concurrent requests keep the limit save for lines that met this or
  one of the next two coincidences (`ConnectionLimit`),
  and `SettlesWithinLimit` that the cron repairs the rest.
- **A stranger's stream is closed** (`connections_others`). In MySQL mode a finished
  stream leaves its row with the pid of a worker that php-fpm uses for the next
  request. When the line opens another stream, closeConnection kills that worker (`streaming.php` 601).

Behaviour met while modelling that no text of the repository contradicts:

- An HLS request over the limit closes its own new row, whose pid is NULL.
- Pids of different servers are compared as if they were of one: closeConnections passes over a row of another server whose
  worker has the requester's pid (`streaming.php` 452), and the line plays one stream more. So it does when a
  film's request takes over a row of another server: the UPDATE leaves `server_id` as it was (`clients_movie.php`).
- `users.php` counts rows it has just closed (284) and then closes the oldest: the one
  living stream of a line within its limit can be closed because of dead rows.
- Two overlapping starts leave two monitors (checkRunning precedes the title, lines 28 and 30);
  each replaces the pid file and the row, and the other's encoder dies. It does not end by itself.
- A monitor that adopts an encoder does not write `<id>_.monitor` (74-91), which names its predecessor. After a
  crash and the cron's start a second start by the panel, hours later, leaves two monitors (`excused`
  in `StreamStarts`), and a stop by the panel does not kill the one that runs (`stream.php` 547 looks at the
  file first): it misses its playlist and starts the stream again, unless `streams.php` has swept it as a stray.
- A monitor that takes over an encoder before its predecessor has recorded it has a running stream whose row
  is not listed; `pid_monitor.php` kills the encoder, and nobody else notices.
- `pid_monitor.php` spares an encoder whose pid some row of `lines_live`, a recording or a delay still has: one
  that stopStream left can go on for as long as that row stays, for ever on a server whose rows no cron closes.
- With `kill_rogue_ffmpeg` on, a run of `streams.php` that revives a stream's monitor (125-128) has not put the
  stream's encoder on `activePIDs` (86 is in the other branch), so its sweep kills the encoder the new monitor would have adopted.
- stopStream never kills ffmpeg (`stream.php` 565); `pid_monitor.php` does, later.
- A monitor that dies before its first UPDATE of `pid` leaves the row unlisted: nobody starts the stream again.
- `closeLastCon` (655) does not end when it meets an ended row; `timeshift.php` stops at line 12.
- Redis: closeConnections counts the two elements of getConnections' result, or null (411): a limited
  line's request dies of a TypeError or nothing is closed. HLS records are never closed, and `users.php`
  cleans nothing (140). A shutdown handler that is late closes the connection another worker has
  taken over; its stream ends at the next check. ENDED may hold an open connection after two workers
  created it at once, SERVER_LINES# may miss an open one, and SERVER# keeps the old
  server of an HLS viewer who moved.
- A refusing cron takes the running one's lock along (`activity.php` 5 registers shutdown first), so a third
  one runs beside the first. After half an hour checkCron kills whatever has the pid, itself included.
- `activity.php` and `user_logs.php` read one entry and remove the file: the others are lost. A cron that dies
  between INSERT and unlink stores an entry twice, except in `panel_logs`, whose key is UNIQUE.
  A cron whose pid is still in the lock of another one is killed by that one's half-hour rule; this counts as such a death.
- A sender that finds a signal the daemon has already rebuilt sends none, and its change waits for the next one.
- `servers.php` does not see a titled signals.php and starts another; the newcomer kills the old one.
  Two chains of instances may go on killing each other, with one at work at a time; unless the digits of one's
  pid are in the other's line of ps (`signals.php` 6), when both work on the signals until the next listing.
- Every request encrypts its segment anew. A viewer may get an empty or mixed `.enc` while another request
  writes it; an `.enc_write` that a dead worker has left makes later requests wait, and answer with an old or
  empty copy or 404, until the files of the stream are removed (`HealsItself` excepts that file).
- An `.enc` that a worker writes after stopStream has removed the files stays until the stream runs again:
  `streams.php` looks only at listed streams whose monitor runs.

## Proofs

The proofs hold for every value of the constants under the assumptions named in the modules; the bounds of the
models (`MaxActivity`, `MaxRuns`, `Faults`, ...) are any numbers there. Only `IndexAgrees` is inductive as it
stands (with `TypeOK`); what the others need is said with each.

**Eviction_proofs**: `TypeCorrect`, `AllowanceKept` (`NeverBelowAllowance`), `OwnAddressGoesFirst`,
`OldestGoesFirst`, `LimitMissedOnlyByRepeats`. The first two follow from `IInv`: `TypeOK` and `Accounted` (at
most `ToKill` calls, each took at most one row out). The others need `InOrder`: every turn that closes a row and comes before one that is
done is done too, and the rows that are gone are those of the turns done. `TurnsOrdered` shows that the order
of turns is strict and total, `GoneWasClosed` and `DoneIsGone` tie rows to turns. From `RowIdAssumption` and
`MaxConnAssumption`.

**Connections_proofs**: `TypeCorrect`, `RequesterSafe` (`RequesterSurvives`), `CronTypeCorrect` (`CTypeOK` of
`UsersCron`). A signal is a pid only because the row it is made from is not of HLS and such rows have a pid
(`PidKnown`), which must hold of the table, of the rows a worker has read, and of those the cron has read
(`CronInv`), after they are gone from the table. When closeConnections returns, its line is taken off the
lines to check, so there must be one (`LineToClose`). `IInvParts` restates the invariant as a part per worker
(`Proper`), one of the table and one of the signals; the `...GoesOn` lemmas show for each action of a request
that its worker goes on as a proper one and is not among its victims (the getmypid() tests, through
`Predecessor` and `NextTurn`). From `SessionAssumption`, `LineAssumption`, `BoundAssumption` and
`MainAssumption`.

**ConnectionLimit_proofs**: `LimitKept` (`LimitOnPlay`), for any servers, lines, pairs and viewers. A worker
that closes works from a snapshot, so none knows at every moment that the limit is kept. `Covered` says what
there is instead: take any set of workers that have counted and still have a row of the line; one of them, the
last that counted, either has all their rows in its snapshot and is not done closing, or they are no more than
the limit. When it is done, every row of its snapshot that is too many is gone, because the turns done are the
first ones (`SnapshotKnown`); and no step gives a holder a row that others could not have counted (`Kept`).
Around it stand `TableKnown` (ids are unique and a row keeps its viewer, line and server) and, for each
worker, what it has looked up (`ReadKnown`), the line it is at (`InTurn`) and that no row is closed twice or
passed over unless the line is excused (`Plain`). Each action changes one worker in one of ten ways
(`Changes`) and only takes victims out of play, so the proof has one case for each. From `SessionAssumption`,
`LineAssumption`, `NullAssumption` and `BoundAssumption`, on top of `IInv` of `Connections_proofs`.

**RedisRegistry_proofs**: `TypeCorrect`, `IndexesAgree` (`IndexAgrees`), `NoGhosts` (`NoGhost`), `LinesOpen`
(`OnlyOpenCounted`). Who may hold a stale record decides everything: a live token is good on one server only
(`AtHome`), an open record names a worker that serves it (`Named`), and only a worker itself closes the record
that names it (`Own`); with these, `Counted` ties SERVER_LINES# to LIVE on that server. From
`WorkerAssumption` and `RecordAssumption`.

**StreamMonitor_proofs**: `TypeCorrect`; `OneMonitorEach` (`OneMonitor` of `StreamStarts`) for mixes of
disturbances without an overlap (`NoOverlap`: no start comes before another monitor has its title or has
written the file); `ListedUntilStopped` (`StaysListed`) and `EncoderOutlives` (`Seamless`) for an always-on
stream where moreover no start meets a monitor at work that the file does not name (`NoneMissed`).
`Succession` says that at most one monitor runs and one boots, and that the one that boots will still find the
one that runs, by the file or, without a file, by its title. `OneMonitorEach` needs besides (`HInv`) that a
monitor the file does not name has taken over an encoder (`Hidden \subseteq takers`, `HiddenStep`), so that
as long as no start is excused none misses a monitor (`SuccessionStep`). `Recorded` says that a monitor that
waits for a playlist finds its encoder's pid in the row, unless a stop cleared it; without that `Ready`, which
sets the status to 0, could unlist the stream. `EncoderOutlives` also needs `kill_rogue_ffmpeg` off (with it
on TLC finds the sweep described above): the one monitor there is has the encoder of the row for its own
(`Recorded`), a successor adopts it, and a monitor that still waits for a playlist will not give up on an
encoder that is on the air, because its playlist is there (`Playing`). `StoppedStaysOff` holds of every
stream: once it is stopped and no start is to come, no monitor runs and the row is unlisted; that the encoder
ends too is liveness (`StopsForGood`). From `PidAssumption` and `BoundAssumption`.

**LogShipping_proofs**: `TypeCorrect`, `CronsApart` (`OneAtWork`), `OldestSafe` (`OldestNotLost`). While the
troubles are few (`Quiet`), one instance enters and one is at work, and the lock is that one's, and fresh,
until the one overlap there may be has come to be refused (`Apart`). `Safe` adds that the file starts with the
entry that an instance has read, until it is removed. `ShippingKeepsBook` (`KeepsBook`) maps every step to one
of `Ledger` or a stutter: what the table holds of an entry is at most one copy more than there were
coincidences. `Counted` bounds the instances that may still store an entry by those coincidences: seen from an
instance of the cron a step lets it come, go or stay (`Comes`, `Goes`, `Stays`), and an instance that comes
beside another has used up a race, an overlap or a death. The first overlap would be one too many were it not
that the lock it meets is then the fresh one of the instance at work, which still has to give it back
(`Guarded`). `Excused` carries the count over from instances to the entries they hold, and `Unshipped` says of
`activity.php`, which unlinks first, that an entry in the file is neither in the table nor in a hand that
would leave it in the file. From `LockAssumption` and `LogAssumption`.

**SignalDaemon_proofs**: of `CacheSignals`, `CacheTypeCorrect`, `DeletedHandled` (`HandledFirst`),
`SignalsFew` (`FewSignals`). A signal is not of the future (`Sent`), and what the daemon is about to delete is
in the cache (`Handled`). A sender that is about to insert counts like a signal, and becomes one only when no
signal waits (`Counted`). From `CacheAssumption`. Of `DaemonRelay`, `RelayTypeCorrect`, `OneDaemon`
(`OneReceiver`). Of two titled instances whose shells have listed, the one that listed last has the other on
its list or has overlooked it (`Marked`); so one whose shell has also killed is alone with those.

**HlsSegment_proofs**: `SegmentTypeCorrect`, `HealedAlone` (`HealsItself`). `Alone` says step by step (`Progress`)
what an undisturbed request has done: each request that begins, or change of the files, disturbs it, but what
it finds is whatever the earlier ones have left. It needs that an open file is there (`FdOpen`), that a segment
is of the present run (`OfRun`) and that `.enc_write` without a request that will remove it was left by
one that died (`LockHeld`). From `SegmentAssumption`.

Every invariant and every action property of the passing runs is stated by one of these theorems, and so is
the refinement. Only model-checked are liveness, since the proof system does not reason about ENABLED and
fairness here (`SettlesWithinLimit`, `DeadReaped`, `StaleReaped`, `LapsedCut`, `SettlesOnePlayer`, `Revived`,
`OffAir`, `StopsForGood`, `NeverBlocked`, `PlayersListed`, `CatchesUp`, `DaemonBack`, `NoLeftovers`), and the
two violations.

## What is not modelled

- `auth.php` and the choice of a server: decisions of one request from cached data. Restating a formula shows nothing.
- The queue of films: `queue.php` deletes the rows of encodings that ended, what starts new ones is commented
  out; `vod.php` detects the end of an encoding with ffprobe.
- `ondemand.php` (unusable, see above), `timeshift.php` (stops at line 12), `archive.php` and `delay.php` (the
  conditions of their main loops, at 40 and 110, are inverted: they do not do what they are for), `created.php`
  (what builds the channel is not in the repository), `rtmp.php` (writes the rows of `Connections`; its closeLastCon may not end).
- The resynchronisation of Redis from MySQL (`users.php` with an argument), the divergence tables, statistics.
- Administrators' streams, watchdog, `servers.php` but for its start of the daemon, `root_signals.php`,
  `service` but for its restart, update scripts: plain I/O and system tools.
- The ffmpeg command line, token encryption, formatting, logging.

## Plan

Done: all modules of the table above, and proofs of all their safety properties. Left, in this order:

1. The safety half of other liveness properties, as `StoppedStaysOff` is of `StopsForGood`: that a
   recovered state stays recovered while nothing disturbs it.
2. `ListedUntilStopped` and `EncoderOutlives` for on-demand streams, with what a viewer's start may take over,
   and with starts beside a monitor the file does not name, which the runs admit.
3. `NotReady` in two steps, for a playlist that appears between judgement and kill (`monitor.php` 293).
4. Low latency and loopback streams in `StreamMonitor`, should their scripts come to the repository.
