----------------------------- MODULE CacheSignals -----------------------------
(***************************************************************************)
(* How the main server's cache of streams and lines follows the tables:    *)
(* whoever changes a row calls updateStream or updateLine, which inserts a *)
(* signal unless one for that row is waiting; the daemon signals.php takes *)
(* the signals that wait, rebuilds what they name, and deletes them.  A    *)
(* pass of the daemon ends with it starting a new one, which first kills   *)
(* all others, and it may be killed at any step.                           *)
(*                                                                         *)
(* A stream or a line is an item; the version of its row is the number of  *)
(* its changes.  cache_engine.php, which rebuilds, is not in the           *)
(* repository: it is taken to read the rows and write the files in one     *)
(* step.                                                                   *)
(***************************************************************************)
EXTENDS Naturals, Sequences, FiniteSets

CONSTANTS
  Item,        \* rows of streams and lines
  Writer,      \* processes of any server that change them
  Batch,       \* LIMIT of the daemon's query, 1000 in the code
  MaxVersion   \* bound of the model: changes of a row

ASSUME CacheAssumption ==
  /\ Item # {} /\ IsFiniteSet(Writer)
  /\ Batch \in Nat /\ MaxVersion \in Nat

VARIABLES
  version,  \* per item: the version of its row
  cached,   \* per item: the version in the cache
  signals,  \* the signals of the main server with cache = 1, oldest first
  writer,   \* per process: where it is in a change
  daemon,   \* the pass of signals.php: how many signals it has taken, and where it is
  missed    \* per item: it was changed, and its signal was one the daemon had already rebuilt

cacheVars == <<version, cached, signals, writer, daemon, missed>>

NoChange == [pc |-> "idle", item |-> CHOOSE i \in Item : TRUE]
NoPass == [pc |-> "select", taken |-> 0]

CacheInit ==
  /\ version = [i \in Item |-> 0]
  /\ cached = [i \in Item |-> 0]
  /\ signals = <<>>
  /\ writer = [w \in Writer |-> NoChange]
  /\ daemon = NoPass
  /\ missed = [i \in Item |-> FALSE]

-----------------------------------------------------------------------------
(* updateStream, updateLine                                                *)

\* The row is changed before the signal is sent.
Change(w, i) ==
  /\ writer[w].pc = "idle"
  /\ version[i] < MaxVersion
  /\ version' = [version EXCEPT ![i] = @ + 1]
  /\ writer' = [writer EXCEPT ![w] = [pc |-> "ask", item |-> i]]
  /\ UNCHANGED <<cached, signals, daemon, missed>>

Waits(i) == {n \in DOMAIN signals : signals[n].item = i}
Rebuilt == IF daemon.pc = "delete" THEN 1..daemon.taken ELSE {}

\* Definitions called ...Slip are plausible mistakes in the code, kept to show
\* that the properties notice them; no specification uses them.
\* Without SELECT COUNT(*).
AskSlip(w) ==
  /\ writer[w].pc = "ask"
  /\ writer' = [writer EXCEPT ![w].pc = "insert"]
  /\ UNCHANGED <<version, cached, signals, daemon, missed>>

\* SELECT COUNT(*): a signal that was rebuilt counts until it is deleted.
Ask(w) ==
  LET i == writer[w].item IN
  /\ writer[w].pc = "ask"
  /\ writer' = [writer EXCEPT ![w].pc = IF Waits(i) = {} THEN "insert" ELSE "idle"]
  /\ missed' = [missed EXCEPT ![i] = @ \/ (Waits(i) # {} /\ Waits(i) \subseteq Rebuilt)]
  /\ UNCHANGED <<version, cached, signals, daemon>>

\* since: the version of the row when the signal was sent.
Insert(w) ==
  LET i == writer[w].item IN
  /\ writer[w].pc = "insert"
  /\ signals' = Append(signals, [item |-> i, since |-> version[i]])
  /\ writer' = [writer EXCEPT ![w].pc = "idle"]
  /\ UNCHANGED <<version, cached, daemon, missed>>

\* The process dies before it has sent its signal: the change is never told.
Die(w) ==
  LET i == writer[w].item IN
  /\ writer[w].pc # "idle"
  /\ writer' = [writer EXCEPT ![w].pc = "idle"]
  /\ missed' = [missed EXCEPT ![i] = TRUE]
  /\ UNCHANGED <<version, cached, signals, daemon>>

-----------------------------------------------------------------------------
(* signals.php                                                             *)

Select ==
  /\ daemon.pc = "select"
  /\ signals # <<>>
  /\ daemon' = [pc |-> "rebuild", taken |-> IF Len(signals) < Batch THEN Len(signals) ELSE Batch]
  /\ UNCHANGED <<version, cached, signals, writer, missed>>

Named == {signals[n].item : n \in 1..daemon.taken}

\* Only the first signal is worked off.
RebuildSlip ==
  /\ daemon.pc = "rebuild"
  /\ cached' = [i \in Item |-> IF i = signals[1].item THEN version[i] ELSE cached[i]]
  /\ missed' = [i \in Item |-> missed[i] /\ i \notin Named]
  /\ daemon' = [daemon EXCEPT !.pc = "delete"]
  /\ UNCHANGED <<version, signals, writer>>

Rebuild ==
  /\ daemon.pc = "rebuild"
  /\ cached' = [i \in Item |-> IF i \in Named THEN version[i] ELSE cached[i]]
  /\ missed' = [i \in Item |-> missed[i] /\ i \notin Named]
  /\ daemon' = [daemon EXCEPT !.pc = "delete"]
  /\ UNCHANGED <<version, signals, writer>>

\* DELETE without the list of ids.
DeleteSlip ==
  /\ daemon.pc = "delete"
  /\ signals' = <<>>
  /\ daemon' = NoPass
  /\ UNCHANGED <<version, cached, writer, missed>>

Delete ==
  /\ daemon.pc = "delete"
  /\ signals' = SubSeq(signals, daemon.taken + 1, Len(signals))
  /\ daemon' = NoPass
  /\ UNCHANGED <<version, cached, writer, missed>>

\* The daemon is killed; its successor begins with the signals that are left.
Restart ==
  /\ daemon # NoPass
  /\ daemon' = NoPass
  /\ UNCHANGED <<version, cached, signals, writer, missed>>

Daemon == Select \/ Rebuild \/ Delete

CacheNext ==
  \/ \E w \in Writer : (\E i \in Item : Change(w, i)) \/ Ask(w) \/ Insert(w) \/ Die(w)
  \/ Daemon \/ Restart

CacheSpec == CacheInit /\ [][CacheNext]_cacheVars

\* A change that has begun goes on, and so does the daemon.  That it may be
\* killed again and again is not excluded: Delete happens at last (strong fairness).
CacheFairness ==
  /\ \A w \in Writer : WF_cacheVars(Ask(w) \/ Insert(w))
  /\ WF_cacheVars(Daemon) /\ SF_cacheVars(Rebuild) /\ SF_cacheVars(Delete)

CacheFairSpec == CacheSpec /\ CacheFairness

-----------------------------------------------------------------------------
(* Properties                                                              *)

CacheTypeOK ==
  /\ version \in [Item -> 0..MaxVersion]
  /\ cached \in [Item -> 0..MaxVersion] /\ \A i \in Item : cached[i] <= version[i]
  /\ signals \in Seq([item : Item, since : 0..MaxVersion])
  /\ writer \in [Writer -> [pc : {"idle", "ask", "insert"}, item : Item]]
  /\ daemon \in [pc : {"select", "rebuild", "delete"}, taken : 0..Len(signals)]
  /\ missed \in [Item -> BOOLEAN]

\* No signal is deleted before the cache has what its sender wrote, although new
\* signals arrive between the daemon's SELECT and its DELETE and it may be killed anywhere.
HandledFirst ==
  [][\A n \in DOMAIN signals :
       Len(signals') < Len(signals) /\ n <= Len(signals) - Len(signals')
         => cached[signals[n].item] >= signals[n].since]_cacheVars

\* The question before the INSERT keeps the table small: of one item never
\* more signals wait than there are processes that could have asked at once.
FewSignals == \A i \in Item : Cardinality(Waits(i)) <= Cardinality(Writer)

\* Once the changes stop the cache has caught up with all of them, unless a sender
\* died, or took for a signal of its own one that the daemon had rebuilt and was
\* about to delete.
CatchesUp == <>[](\A i \in Item : cached[i] = version[i] \/ missed[i])
===============================================================================
