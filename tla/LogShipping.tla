----------------------------- MODULE LogShipping -----------------------------
(***************************************************************************)
(* How log entries get from the file the workers append them to into a     *)
(* table: the crons activity.php, user_logs.php and errors.php, each in    *)
(* instances that CronLock keeps apart or not, beside tmp.php, which       *)
(* sweeps old files.  The three crons differ in what they read and in the  *)
(* order of their steps:                                                   *)
(*                                                                         *)
(*   activity  the first entry; unlink, then INSERT                        *)
(*   requests  the first entry; INSERT, then unlink       (user_logs.php)  *)
(*   errors    all entries; INSERT IGNORE, then unlink                     *)
(*                                                                         *)
(* What a cron did not read, or was appended since it read, goes with the  *)
(* file.  An append and a read take no lock of the other, and an append to *)
(* a file just removed is lost as one just before.                         *)
(***************************************************************************)
EXTENDS CronLock, Sequences

CONSTANTS
  MaxEntry,  \* bound of the model: entries ever written
  Log        \* the kinds of log to choose from

ASSUME LogAssumption == MaxEntry \in Nat /\ Log \subseteq {"activity", "requests", "errors"}

VARIABLES
  log,      \* the log this is about
  file,     \* its entries, oldest first; empty when it does not exist
  old,      \* nothing was appended for 600 seconds
  written,  \* entries written so far
  got,      \* per instance: the entries of its INSERT
  table     \* how often the table has an entry

logVars == <<log, file, old, written, got, table>>
vars == <<lockVars, logVars>>

Entry == 1..MaxEntry

LInit ==
  /\ Init
  /\ log \in Log
  /\ file = <<>> /\ old = FALSE /\ written = 0
  /\ got = [p \in Pid |-> <<>>]
  /\ table = [e \in Entry |-> 0]

\* The instance goes on at pc.
Goto(p, pc) == job' = [job EXCEPT ![p].pc = pc]

\* writeOfflineActivity, clientLog, panelLog: FILE_APPEND.
Write ==
  /\ written < MaxEntry
  /\ written' = written + 1
  /\ file' = Append(file, written')
  /\ old' = FALSE
  /\ UNCHANGED <<lockVars, log, got, table>>

\* parseLog: activity.php and user_logs.php leave the loop after one entry.
FirstSlip(s) == <<s[Len(s)]>>
First(s) == <<s[1]>>

Taken == IF file = <<>> THEN <<>> ELSE IF log = "errors" THEN file ELSE First(file)

Read(p) ==
  /\ job[p] = [cron |-> "ship", pc |-> "work"]
  /\ got' = [got EXCEPT ![p] = Taken]
  /\ Goto(p, IF file = <<>> THEN "leave" ELSE IF log = "activity" THEN "unlink" ELSE "insert")
  /\ UNCHANGED <<lock, seen, log, file, old, written, table>>

\* The script ends after its unlink, whatever it still has to store.
UnlinkSlip(p) ==
  /\ job[p] = [cron |-> "ship", pc |-> "unlink"]
  /\ file' = <<>> /\ old' = FALSE
  /\ Goto(p, "leave")
  /\ UNCHANGED <<lock, seen, log, written, got, table>>

Unlink(p) ==
  /\ job[p] = [cron |-> "ship", pc |-> "unlink"]
  /\ file' = <<>> /\ old' = FALSE
  /\ Goto(p, IF log = "activity" THEN "insert" ELSE "leave")
  /\ UNCHANGED <<lock, seen, log, written, got, table>>

InTable(e) == log = "errors" /\ table[e] > 0

StoredSlip(s) == [e \in Entry |-> table[e] + IF \E i \in 1..Len(s) : s[i] = e THEN 1 ELSE 0]
Stored(s) == [e \in Entry |-> table[e] +
               IF (\E i \in 1..Len(s) : s[i] = e) /\ ~InTable(e) THEN 1 ELSE 0]

\* A failed INSERT does not keep the cron from the next step.
Insert(p) ==
  /\ job[p] = [cron |-> "ship", pc |-> "insert"]
  /\ \/ table' = Stored(got[p]) /\ UNCHANGED seen
     \/ Suffer({"fail"}) /\ UNCHANGED table
  /\ got' = [got EXCEPT ![p] = <<>>]
  /\ Goto(p, IF log = "activity" THEN "leave" ELSE "unlink")
  /\ UNCHANGED <<lock, log, file, old, written>>

\* tmp.php, for which the log is a file like any other.
Sweep(p) ==
  /\ job[p] = [cron |-> "tmp", pc |-> "work"]
  /\ lock' = Swept
  /\ file' = IF old THEN <<>> ELSE file
  /\ old' = FALSE
  /\ Goto(p, "leave")
  /\ UNCHANGED <<seen, log, written, got, table>>

\* A log that is read every minute is not that old, unless its cron is slow.
Rests ==
  /\ file # <<>> /\ ~old
  /\ Suffer({"slow"})
  /\ old' = TRUE
  /\ UNCHANGED <<lock, job, log, file, written, got, table>>

\* A step of the lock; who dies forgets what it has read.
Carries ==
  /\ got' = [p \in Pid |-> IF job'[p].cron = "ship" THEN got[p] ELSE <<>>]
  /\ UNCHANGED <<log, file, old, written, table>>

Work(p) == Read(p) \/ Unlink(p) \/ Insert(p) \/ Sweep(p)

LNext == Write \/ (\E p \in Pid : Work(p)) \/ Rests \/ (LockNext /\ Carries)

Spec == LInit /\ [][LNext]_vars

\* Instances go on, the crontab starts them every minute, and time passes.
Fairness ==
  /\ \A p \in Pid : WF_vars(Work(p) \/ ((CheckCron(p) \/ Leave(p)) /\ Carries))
  /\ \A c \in Cron : /\ WF_vars(StartsAlone(c) /\ Carries)
                     /\ WF_vars(AtWork(c) = {} /\ Age(c) /\ Carries)

FairSpec == Spec /\ Fairness

-----------------------------------------------------------------------------
(* Properties                                                              *)

TypeOK ==
  /\ LockTypeOK
  /\ log \in Log /\ old \in BOOLEAN /\ written \in 0..MaxEntry
  /\ file \in Seq(Entry)
  /\ got \in [Pid -> Seq(Entry)]
  /\ \A p \in Pid : got[p] # <<>> => job[p].cron = "ship" /\ job[p].pc \in {"unlink", "insert"}
  /\ table \in [Entry -> Nat]

InFile(e) == \E i \in 1..Len(file) : file[i] = e
InHand(e) == \E p \in Pid : \E i \in 1..Len(got[p]) : got[p][i] = e

\* Two instances at work at once may both store an entry, and user_logs.php
\* stores one again when it dies before its unlink: in a crash, or by the kill
\* of a cron in whose lock file its pid was when it got it.  The UNIQUE key of
\* panel_logs excuses nothing.
Crowding == seen["race"] + seen["slow"] + IF seen["overlap"] > 1 THEN seen["overlap"] - 1 ELSE 0
Deaths == seen["crash"] + seen["reuse"]

Excuse ==
  IF log = "errors" THEN 0 ELSE IF log = "requests" THEN Crowding + Deaths ELSE Crowding

Book == INSTANCE Ledger WITH
  state <- [e \in Entry |-> IF e > written THEN "new"
                            ELSE IF table[e] > 0 THEN "stored"
                            ELSE IF InFile(e) \/ InHand(e) THEN "waiting" ELSE "lost"],
  copies <- table,
  excuse <- Excuse

\* Shipping implements the ledger: what was lost never turns up again, nothing
\* is stored that was not written, and an entry has at most one copy, plus one for
\* each time instances got into each other's way or one may have died before its
\* unlink.
KeepsBook == Book!Spec

\* Without a race, a slow instance or a failed INSERT, the file is not removed
\* before its oldest entry is stored, or in the hand of an instance that will store it.
OldestNotLost ==
  [][file # <<>> /\ file' = <<>> /\ seen["race"] = 0 /\ seen["overlap"] <= 1
       /\ seen["slow"] = 0 /\ seen["fail"] = 0
     => table[file[1]] > 0 \/ InHand(file[1])]_vars
===============================================================================
