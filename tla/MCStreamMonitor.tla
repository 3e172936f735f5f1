--------------------------- MODULE MCStreamMonitor ---------------------------
(* Instances of StreamMonitor for TLC.                                     *)
EXTENDS StreamMonitor

\* How often each disturbance may happen.
None == [k \in {"start", "stop", "viewer", "crash", "trouble", "source", "reuse", "overlap", "blind"} |-> 0]

AlwaysOn == {[None EXCEPT !.start = 1, !.crash = 1, !.trouble = 1, !.source = 2, !.blind = 1]}

WatchedTwice == [None EXCEPT !.viewer = 2, !.crash = 1, !.blind = 1]
WatchedAndStopped == [None EXCEPT !.viewer = 1, !.stop = 1, !.crash = 1, !.blind = 1]
StartedAndStopped == [None EXCEPT !.start = 1, !.stop = 1, !.viewer = 1, !.blind = 1]
Reused == [None EXCEPT !.viewer = 1, !.stop = 1, !.reuse = 1, !.blind = 1]
Viewed == {WatchedTwice, WatchedAndStopped, StartedAndStopped, Reused}
=============================================================================
