----------------------------- MODULE HlsSegment ------------------------------
(***************************************************************************)
(* One segment of an encrypted HLS stream (setting encrypt_hls), as        *)
(* segment.php sends it: every request encrypts it anew into <segment>.enc *)
(* unless another one seems to be doing so, which the file .enc_write      *)
(* says; then it waits until that file goes, .enc comes, or it has waited  *)
(* twice the length of a segment.  Nothing but that file keeps requests    *)
(* apart, and meanwhile ffmpeg deletes old segments, streams.php and the   *)
(* monitor delete .enc files without a segment, and the monitor removes    *)
(* all files of the stream and starts a new run of ffmpeg, with a new key. *)
(* The panel stops the stream and starts it again, and the monitor dies;   *)
(* ffmpeg survives both.  It does not survive the start of the next        *)
(* ffmpeg: the module is about one directory that one ffmpeg writes to.    *)
(*                                                                         *)
(* The key stands for key and initialization vector.  A run is a number;   *)
(* number 0 is a file that was not there to be read.                       *)
(***************************************************************************)
EXTENDS Naturals

CONSTANTS
  Reader,   \* the php-fpm workers that serve the segment
  MaxRuns,  \* bound of the model: runs of ffmpeg
  NoFile    \* no such file

VARIABLES
  listed,   \* the row of the stream is one streams.php asks for
  monitor,  \* a monitor of the stream runs
  encoder,  \* the run of ffmpeg, and where the monitor is in starting the next
  segment,  \* the segment of this run: "none" yet, "there", "gone"
  key,      \* the run the key was made for, or 0
  enc,      \* .enc: the pieces its bytes come from, none after it was opened; or NoFile
  lock,     \* .enc_write: "none", "touched", or "left" by a worker that died
  request,  \* per worker
  sweep     \* streams.php or the monitor has found .enc without its segment

segmentVars == <<listed, monitor, encoder, segment, key, enc, lock, request, sweep>>
streamVars == <<listed, monitor, encoder, segment, key>>

Piece == [of : 0..MaxRuns, key : 0..MaxRuns]

ASSUME SegmentAssumption == MaxRuns \in Nat \ {0} /\ \A S \in SUBSET Piece : NoFile # S

\* fd: the open file is still the one of that name; alone: no other request was at
\* work when this one began, and none has begun and nothing else has changed the
\* files of the segment since.
NoRequest == [pc |-> "off", piece |-> [of |-> 0, key |-> 0], fd |-> FALSE, alone |-> FALSE]

Is(r, pc) == request[r].pc = pc
Moved(r, pc) == [request[r] EXCEPT !.pc = pc]
GoOn(r, q) == request' = [request EXCEPT ![r] = q]

SegmentInit ==
  /\ listed = TRUE /\ monitor = TRUE
  /\ encoder = [run |-> 1, pc |-> "runs"]
  /\ segment = "none"
  /\ key = 1
  /\ enc = NoFile /\ lock = "none"
  /\ request = [r \in Reader |-> NoRequest]
  /\ sweep = FALSE

Disturbed(q) == [q EXCEPT !.alone = FALSE]
Unlinked(q) == [q EXCEPT !.fd = FALSE, !.alone = FALSE]

-----------------------------------------------------------------------------
(* The stream                                                              *)

SegmentComes ==
  /\ encoder.pc \in {"spawned", "runs"} /\ segment = "none"
  /\ segment' = "there"
  /\ UNCHANGED <<listed, monitor, encoder, key, enc, lock, request, sweep>>

SegmentGoes ==
  /\ segment = "there"
  /\ segment' = "gone"
  /\ request' = [r \in Reader |-> Disturbed(request[r])]
  /\ UNCHANGED <<listed, monitor, encoder, key, enc, lock, sweep>>

\* rm -f <id>_*
NoFiles ==
  /\ segment' = "none" /\ key' = 0 /\ enc' = NoFile /\ lock' = "none"
  /\ request' = [r \in Reader |-> Unlinked(request[r])]
  /\ UNCHANGED sweep

\* monitor.php: ffmpeg is dead, or is not known any more.
RemoveFiles ==
  /\ monitor /\ encoder.pc = "runs" /\ encoder.run < MaxRuns
  /\ encoder' = [encoder EXCEPT !.pc = "removed"]
  /\ NoFiles
  /\ UNCHANGED <<listed, monitor>>

\* startStream: first the new ffmpeg, then the new key, and then the row.
Spawn ==
  /\ monitor /\ encoder.pc = "removed" /\ encoder.run < MaxRuns
  /\ encoder' = [run |-> encoder.run + 1, pc |-> "spawned"]
  /\ UNCHANGED <<listed, monitor, segment, key, enc, lock, request, sweep>>

NewKey ==
  /\ monitor /\ encoder.pc = "spawned"
  /\ encoder' = [encoder EXCEPT !.pc = "runs"]
  /\ key' = encoder.run
  /\ listed' = TRUE
  /\ request' = [r \in Reader |-> Disturbed(request[r])]
  /\ UNCHANGED <<monitor, segment, enc, lock, sweep>>

\* Without its monitor nobody makes the key of an ffmpeg that has just started.
LeftAlone == [encoder EXCEPT !.pc = IF @ = "spawned" THEN "runs" ELSE @]

\* stopStream: the monitor is killed; ffmpeg is not, its title is another one.
Stop ==
  /\ listed
  /\ listed' = FALSE /\ monitor' = FALSE
  /\ encoder' = LeftAlone
  /\ NoFiles

MonitorDies ==
  /\ monitor
  /\ monitor' = FALSE
  /\ encoder' = LeftAlone
  /\ UNCHANGED <<listed, segment, key, enc, lock, request, sweep>>

\* By the panel, or by streams.php for a row that is listed.
StartMonitor ==
  /\ ~monitor
  /\ monitor' = TRUE
  /\ UNCHANGED <<listed, encoder, segment, key, enc, lock, request, sweep>>

\* streams.php kills the monitor and the ffmpeg of a stream it has not listed.
KillUnlisted ==
  /\ monitor /\ ~listed
  /\ monitor' = FALSE
  /\ encoder' = [encoder EXCEPT !.pc = "removed"]
  /\ NoFiles
  /\ UNCHANGED listed

\* Definitions called ...Slip are plausible mistakes in the code, kept to show
\* that the properties notice them; no specification uses them.
\* The file that is asked for is .enc itself, which exists.
OrphanedSlip == FALSE

\* !file_exists(rtrim($File, '.enc'))
Orphaned == enc # NoFile /\ segment # "there"

\* streams.php comes here for a listed stream whose monitor runs; that monitor does
\* the same from time to time.
SweepLooks ==
  /\ listed /\ monitor
  /\ ~sweep /\ Orphaned
  /\ sweep' = TRUE
  /\ UNCHANGED <<streamVars, enc, lock, request>>

SweepUnlinks ==
  /\ sweep
  /\ sweep' = FALSE
  /\ enc' = NoFile
  /\ request' = [r \in Reader |-> Unlinked(request[r])]
  /\ UNCHANGED <<streamVars, lock>>

Stream ==
  \/ SegmentComes \/ SegmentGoes \/ RemoveFiles \/ Spawn \/ NewKey
  \/ Stop \/ MonitorDies \/ StartMonitor \/ KillUnlisted
Sweep == SweepLooks \/ SweepUnlinks

-----------------------------------------------------------------------------
(* segment.php                                                             *)

\* A request with a good token; the file exists.
Arrive(r) ==
  LET quiet == \A q \in Reader : Is(q, "off") IN
  /\ Is(r, "off") /\ segment = "there"
  /\ request' = [q \in Reader |->
       IF q = r THEN [NoRequest EXCEPT !.pc = "look", !.alone = quiet]
       ELSE Disturbed(request[q])]
  /\ UNCHANGED <<streamVars, enc, lock, sweep>>

\* What has been encrypted is sent again.
LookSlip(r) ==
  /\ Is(r, "look")
  /\ GoOn(r, Moved(r, IF enc # NoFile THEN "send" ELSE IF lock # "none" THEN "wait" ELSE "touch"))
  /\ UNCHANGED <<streamVars, enc, lock, sweep>>

Look(r) ==
  /\ Is(r, "look")
  /\ GoOn(r, Moved(r, IF lock # "none" THEN "wait" ELSE "touch"))
  /\ UNCHANGED <<streamVars, enc, lock, sweep>>

Touch(r) ==
  /\ Is(r, "touch")
  /\ lock' = "touched"
  /\ GoOn(r, Moved(r, "key"))
  /\ UNCHANGED <<streamVars, enc, sweep>>

ReadKey(r) ==
  /\ Is(r, "key")
  /\ GoOn(r, [Moved(r, "data") EXCEPT !.piece.key = key])
  /\ UNCHANGED <<streamVars, enc, lock, sweep>>

Encrypt(r) ==
  /\ Is(r, "data")
  /\ GoOn(r, [Moved(r, "open") EXCEPT !.piece.of = IF segment = "there" THEN encoder.run ELSE 0])
  /\ UNCHANGED <<streamVars, enc, lock, sweep>>

\* file_put_contents: it opens the file, which empties it, and then writes.
OpenEnc(r) ==
  /\ Is(r, "open")
  /\ enc' = {}
  /\ GoOn(r, [Moved(r, "write") EXCEPT !.fd = TRUE])
  /\ UNCHANGED <<streamVars, lock, sweep>>

\* Two that write from the start of one file: the longer one's tail may stay.
WriteEnc(r) ==
  LET piece == request[r].piece IN
  /\ Is(r, "write")
  /\ IF request[r].fd THEN enc' \in {{piece}, enc \cup {piece}} ELSE enc' = enc
  /\ GoOn(r, [NoRequest EXCEPT !.pc = "unlock", !.alone = request[r].alone])
  /\ UNCHANGED <<streamVars, lock, sweep>>

Unlock(r) ==
  /\ Is(r, "unlock")
  /\ lock' = "none"
  /\ GoOn(r, Moved(r, "send"))
  /\ UNCHANGED <<streamVars, enc, sweep>>

\* The writer is done, or .enc is there, be it still empty.
WaitOver(r) ==
  /\ Is(r, "wait")
  /\ lock = "none" \/ enc # NoFile
  /\ GoOn(r, Moved(r, "send"))
  /\ UNCHANGED <<streamVars, enc, lock, sweep>>

\* Twice the length of a segment has passed.
GiveUp(r) ==
  /\ Is(r, "wait")
  /\ lock # "none" /\ enc = NoFile
  /\ GoOn(r, Moved(r, "send"))
  /\ UNCHANGED <<streamVars, enc, lock, sweep>>

\* The answer is what .enc holds now, or 404.
Send(r) ==
  /\ Is(r, "send")
  /\ GoOn(r, NoRequest)
  /\ UNCHANGED <<streamVars, enc, lock, sweep>>

\* Between touch and unlink.
Locking(r) == request[r].pc \in {"key", "data", "open", "write", "unlock"}

RequestDies(r) ==
  /\ ~Is(r, "off")
  /\ GoOn(r, NoRequest)
  /\ lock' = IF Locking(r) /\ lock = "touched" THEN "left" ELSE lock
  /\ UNCHANGED <<streamVars, enc, sweep>>

Works(r) ==
  \/ Look(r) \/ Touch(r) \/ ReadKey(r) \/ Encrypt(r) \/ OpenEnc(r) \/ WriteEnc(r)
  \/ Unlock(r) \/ WaitOver(r) \/ GiveUp(r) \/ Send(r)

SegmentNext == Stream \/ Sweep \/ \E r \in Reader : Arrive(r) \/ Works(r) \/ RequestDies(r)

SegmentSpec == SegmentInit /\ [][SegmentNext]_segmentVars

\* Requests go on, and streams.php comes every minute.
SegmentFairness == WF_segmentVars(Sweep) /\ \A r \in Reader : WF_segmentVars(Works(r))

SegmentFairSpec == SegmentSpec /\ SegmentFairness

-----------------------------------------------------------------------------
(* Properties                                                              *)

SegmentTypeOK ==
  /\ encoder \in [run : 1..MaxRuns, pc : {"removed", "spawned", "runs"}]
  /\ segment \in {"none", "there", "gone"}
  /\ key \in 0..MaxRuns /\ lock \in {"none", "touched", "left"}
  /\ {listed, monitor, sweep} \subseteq BOOLEAN
  /\ enc \in (SUBSET Piece) \cup {NoFile}
  /\ request \in [Reader ->
       [pc : {"off", "look", "touch", "key", "data", "open", "write", "unlock", "wait", "send"},
        piece : Piece, fd : BOOLEAN, alone : BOOLEAN]]

\* Whatever races, restarts of the stream and dead workers have left in .enc, a
\* viewer whose request meets no other one, nor a change of the stream's files, gets
\* the whole segment, under the key key.php hands out; unless .enc_write still stands
\* that a worker left when it died: then he gets what there is.
HealsItself ==
  \A r \in Reader :
    Is(r, "send") /\ request[r].alone =>
      lock = "left" \/ enc = {[of |-> encoder.run, key |-> key]}

\* While the stream is listed and its monitor runs, an encrypted copy does not outlive
\* its segment for long, also when it is written after the segment was deleted.
NoLeftovers == <>[](listed /\ monitor) => []<>(enc = NoFile \/ segment = "there")
=============================================================================
