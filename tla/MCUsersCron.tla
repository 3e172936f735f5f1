----------------------------- MODULE MCUsersCron -----------------------------
(* Instances of UsersCron for TLC.                                         *)
EXTENDS UsersCron

CONSTANTS main, lb, u1, c1, c2, a1, a2, g1

OneUser == [c \in Session |-> u1]
One == [u \in User |-> 1]
Unlimited == [u \in User |-> 0]
NoPair == [u \in User |-> NoUser]
OneAgent == [c \in Session |-> g1]
Apart == [c \in Session |-> IF c = c1 THEN a1 ELSE a2]
Together == [c \in Session |-> a1]
AllTS == [c \in Session |-> "ts"]
LiveAndHls == [c \in Session |-> IF c = c1 THEN "ts" ELSE "hls"]
AllMain == [c \in Session |-> main]
Spread == [c \in Session |-> IF c = c1 THEN main ELSE lb]
=============================================================================
