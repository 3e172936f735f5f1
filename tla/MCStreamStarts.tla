---------------------------- MODULE MCStreamStarts ----------------------------
(* An instance of StreamStarts for TLC.                                    *)
EXTENDS StreamStarts, TLC

\* How often each disturbance may happen.
None == [k \in {"start", "stop", "viewer", "crash", "trouble", "source", "reuse", "overlap", "blind"} |-> 0]

TwoStarts == [None EXCEPT !.start = 2, !.crash = 1, !.blind = 1]
Reused == [None EXCEPT !.start = 1, !.crash = 1, !.reuse = 1, !.blind = 1]
Starting == {TwoStarts, Reused}

\* What comes after a start that met a monitor nobody sees is not looked at.
NotExcused == ~excused

\* No pid is special: the one NewPid chooses is of those nothing in the state names.
Symmetry == Permutations(Pid)
=============================================================================
