------------------------------- MODULE MCLimit -------------------------------
(* ConnectionLimit for TLC, with the number of requests bounded.           *)
EXTENDS ConnectionLimit, MCConnections

CONSTANT MaxRequests  \* bound of the model: requests ever made

VARIABLE requests  \* the number of requests made

Accepted(p) == ~Busy(p) /\ worker'[p].pc \notin {"dead", "idle"}

HInit == LimitInit /\ requests = 0

HNext ==
  /\ LimitNext
  /\ requests' = requests + Cardinality({p \in Worker : Accepted(p)})
  /\ requests' <= MaxRequests

HSpec == HInit /\ [][HNext]_<<vars, excused, requests>>
=============================================================================
