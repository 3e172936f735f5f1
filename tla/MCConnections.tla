---------------------------- MODULE MCConnections ----------------------------
(* Instances of Connections for TLC.                                       *)
EXTENDS Connections, TLC

CONSTANTS main, lb, u1, u2, c1, c2, c3, a1, a2, g1

\* Lines.
OneUser == [c \in Session |-> u1]
TwoUsers == [c \in Session |-> IF c = c1 THEN u1 ELSE u2]
One == [u \in User |-> 1]
NoPair == [u \in User |-> NoUser]
Paired == [u \in User |-> IF u = u1 THEN u2 ELSE NoUser]

\* Viewers.
OneAgent == [c \in Session |-> g1]
Together == [c \in Session |-> a1]
Apart == [c \in Session |-> IF c = c3 THEN a2 ELSE a1]

\* Streams and the servers that send them.
AllTS == [c \in Session |-> "ts"]
FilmsAndHls == [c \in Session |-> IF c = c1 THEN "hls" ELSE "VOD"]
AllMain == [c \in Session |-> main]
OneElsewhere == [c \in Session |-> IF c = c2 THEN lb ELSE main]

\* Bound of the model: workers alive at a time, on all servers.
FewAlive == Cardinality({p \in Worker : Alive(p)}) <= 2

SymmetricPids == Permutations(Pid)
=============================================================================
