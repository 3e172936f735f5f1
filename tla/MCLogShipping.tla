---------------------------- MODULE MCLogShipping ----------------------------
(* Instances of LogShipping for TLC.                                       *)
EXTENDS LogShipping

SomeTrouble == [race |-> 1, overlap |-> 2, slow |-> 1, crash |-> 1, reuse |-> 1, fail |-> 1]
==============================================================================
