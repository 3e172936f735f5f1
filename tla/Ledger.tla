-------------------------------- MODULE Ledger --------------------------------
(***************************************************************************)
(* What shipping log entries into a table promises: an entry that was      *)
(* written waits until it is stored or lost, a lost entry does not come    *)
(* back, and no entry is stored more often than once, except as often as   *)
(* there is an excuse.                                                     *)
(***************************************************************************)
EXTENDS Naturals

CONSTANT Entry

VARIABLES
  state,   \* per entry: "new", "waiting", "stored" or "lost"
  copies,  \* per entry: how often the table has it
  excuse   \* how many copies too many are excused

vars == <<state, copies, excuse>>

Init ==
  /\ state = [e \in Entry |-> "new"]
  /\ copies = [e \in Entry |-> 0]
  /\ excuse = 0

Write(e) ==
  /\ state[e] = "new"
  /\ state' = [state EXCEPT ![e] = "waiting"]
  /\ UNCHANGED <<copies, excuse>>

\* Entries that wait are stored, others are stored again.
Store(S) ==
  /\ \A e \in S : state[e] \in {"waiting", "stored"} /\ copies[e] <= excuse
  /\ copies' = [e \in Entry |-> copies[e] + IF e \in S THEN 1 ELSE 0]
  /\ state' = [e \in Entry |-> IF e \in S THEN "stored" ELSE state[e]]
  /\ UNCHANGED excuse

Lose(S) ==
  /\ \A e \in S : state[e] = "waiting"
  /\ state' = [e \in Entry |-> IF e \in S THEN "lost" ELSE state[e]]
  /\ excuse' >= excuse
  /\ UNCHANGED copies

Next == (\E e \in Entry : Write(e)) \/ \E S \in SUBSET Entry : Store(S) \/ Lose(S)

Spec == Init /\ [][Next]_vars
===============================================================================
