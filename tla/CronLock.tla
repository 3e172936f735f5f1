------------------------------- MODULE CronLock -------------------------------
(***************************************************************************)
(* The lock files of the crons (checkCron, lib.php): each cron writes its  *)
(* pid to a file of its own, and an instance that finds the pid of a       *)
(* living process there goes away, or kills that process when the file is  *)
(* half an hour old.                                                       *)
(*                                                                         *)
(* Most crons register shutdown(), which removes the lock file, before     *)
(* they call checkCron: an instance that goes away takes the lock of the   *)
(* running one with it.  A cron that is killed leaves its lock behind, and *)
(* the system may give its pid to any other process.                       *)
(*                                                                         *)
(* What is rare is a trouble; seen counts those of each kind.              *)
(*                                                                         *)
(* Definitions called ...Slip are plausible mistakes in the code, kept to  *)
(* show that the properties notice them; no specification uses them.       *)
(***************************************************************************)
EXTENDS Naturals, FiniteSets

CONSTANTS
  Pid, NoPid,  \* process ids; a lock file that does not exist
  Cron,        \* the crons, each with one lock file
  Unlinks,     \* those that register shutdown() before checkCron
  Troubles,    \* bound of the model: how many troubles of each kind
  MaxTroubles  \* bound of the model: how many of all kinds

\* race:    an instance starts while another one is in checkCron
\* overlap: an instance starts while another one is at work
\* slow:    an instance stays at work until its lock file, or its log, is older
\* crash:   an instance dies without its shutdown function
\* reuse:   the pid in a lock file is given to a new process
\* fail:    a statement fails in the database
Trouble == {"race", "overlap", "slow", "crash", "reuse", "fail"}

ASSUME LockAssumption == NoPid \notin Pid /\ Unlinks \subseteq Cron /\ "none" \notin Cron
ASSUME TroubleAssumption == Troubles \in [Trouble -> Nat] /\ MaxTroubles \in Nat

VARIABLES
  lock,  \* per cron: the pid in its lock file, and whether that file is 0, 600 (1) or 1800 (2) seconds old
  job,   \* per pid: what runs under it: a cron and where it is, or another process
  seen   \* how many troubles of each kind there have been

lockVars == <<lock, job, seen>>

Seen == seen["race"] + seen["overlap"] + seen["slow"] + seen["crash"] + seen["reuse"] + seen["fail"]

Suffer(kinds) ==
  /\ Seen + Cardinality(kinds) <= MaxTroubles
  /\ \A k \in kinds : seen[k] < Troubles[k]
  /\ seen' = [k \in Trouble |-> seen[k] + IF k \in kinds THEN 1 ELSE 0]

Free == [cron |-> "none", pc |-> "off"]
Stranger == [cron |-> "none", pc |-> "other"]
NoFile == [pid |-> NoPid, age |-> 0]

Exists(pid) == pid \in Pid /\ job[pid].pc # "off"
Entering(c) == {p \in Pid : job[p].cron = c /\ job[p].pc \in {"check", "claim"}}
AtWork(c) == {p \in Pid : job[p].cron = c /\ job[p].pc \notin {"check", "claim"}}
Instances(c) == Entering(c) \cup AtWork(c)

\* A free pid; one that a lock file still holds is used again rarely, and which
\* of the others the system takes is all the same.
Kept == {lock[c].pid : c \in Cron}
NewPid(p) ==
  /\ ~Exists(p)
  /\ p \notin Kept => p = CHOOSE q \in Pid \ Kept : ~Exists(q)

Reused(p) == IF p \in Kept THEN {"reuse"} ELSE {}

Init ==
  /\ lock = [c \in Cron |-> NoFile]
  /\ job = [p \in Pid |-> Free]
  /\ seen = [k \in Trouble |-> 0]

-----------------------------------------------------------------------------

\* The crontab starts an instance.
Start(c, p) ==
  /\ NewPid(p)
  /\ Suffer(Reused(p) \cup (IF Entering(c) # {} THEN {"race"} ELSE {})
                      \cup (IF AtWork(c) # {} THEN {"overlap"} ELSE {}))
  /\ job' = [job EXCEPT ![p] = [cron |-> c, pc |-> "check"]]
  /\ UNCHANGED lock

StartsAlone(c) == Instances(c) = {} /\ \E p \in Pid : Start(c, p)

\* The file is there, and /proc has the pid in it.
HeldSlip(c, p) == lock[c].pid = p
Held(c, p) == Exists(lock[c].pid)

Expired(c) == lock[c].age = 2

\* exit('Running...'): the instance runs its shutdown function if it has one.
RefuseSlip(p) ==
  LET c == job[p].cron IN
  /\ job[p].pc = "check"
  /\ Held(c, p)
  /\ job' = [job EXCEPT ![p] = Free]
  /\ lock' = IF c \in Unlinks THEN [lock EXCEPT ![c] = NoFile] ELSE lock
  /\ UNCHANGED seen

Refuse(p) ==
  LET c == job[p].cron IN
  /\ job[p].pc = "check"
  /\ Held(c, p) /\ ~Expired(c)
  /\ job' = [job EXCEPT ![p] = Free]
  /\ lock' = IF c \in Unlinks THEN [lock EXCEPT ![c] = NoFile] ELSE lock
  /\ UNCHANGED seen

\* kill -9 hits whatever has the pid now, this instance itself included.
Depose(p) ==
  LET c == job[p].cron IN
  /\ job[p].pc = "check"
  /\ Held(c, p) /\ Expired(c)
  /\ job' = [[job EXCEPT ![p].pc = "claim"] EXCEPT ![lock[c].pid] = Free]
  /\ UNCHANGED <<lock, seen>>

Pass(p) ==
  /\ job[p].pc = "check"
  /\ ~Held(job[p].cron, p)
  /\ job' = [job EXCEPT ![p].pc = "claim"]
  /\ UNCHANGED <<lock, seen>>

\* file_put_contents: the end of checkCron.
Claim(p) ==
  /\ job[p].pc = "claim"
  /\ lock' = [lock EXCEPT ![job[p].cron] = [pid |-> p, age |-> 0]]
  /\ job' = [job EXCEPT ![p].pc = "work"]
  /\ UNCHANGED seen

\* The end of the script removes the file, whoever's it is.
Leave(p) ==
  /\ job[p].pc = "leave"
  /\ lock' = [lock EXCEPT ![job[p].cron] = NoFile]
  /\ job' = [job EXCEPT ![p] = Free]
  /\ UNCHANGED seen

Crash(p) ==
  /\ job[p].cron \in Cron
  /\ Suffer({"crash"})
  /\ job' = [job EXCEPT ![p] = Free]
  /\ UNCHANGED lock

\* Some other process gets the pid of a dead cron, and may keep it for ever.
StrangerStarts(p) ==
  /\ p \in Kept /\ ~Exists(p)
  /\ Suffer({"reuse"})
  /\ job' = [job EXCEPT ![p] = Stranger]
  /\ UNCHANGED lock

StrangerEnds(p) ==
  /\ job[p] = Stranger
  /\ job' = [job EXCEPT ![p] = Free]
  /\ UNCHANGED <<lock, seen>>

\* Nobody has written the lock file for so long; instances are fast as a rule.
Age(c) ==
  /\ lock[c].pid # NoPid /\ lock[c].age < 2
  /\ Suffer(IF AtWork(c) # {} THEN {"slow"} ELSE {})
  /\ lock' = [lock EXCEPT ![c].age = @ + 1]
  /\ UNCHANGED job

\* Files of 600 seconds are removed by tmp.php, lock files like all others.
Swept == [c \in Cron |-> IF lock[c].age > 0 THEN NoFile ELSE lock[c]]

CheckCron(p) == Refuse(p) \/ Depose(p) \/ Pass(p) \/ Claim(p)

LockNext ==
  \/ \E p \in Pid : \/ \E c \in Cron : Start(c, p)
                    \/ CheckCron(p) \/ Leave(p) \/ Crash(p)
                    \/ StrangerStarts(p) \/ StrangerEnds(p)
  \/ \E c \in Cron : Age(c)

-----------------------------------------------------------------------------
(* Properties                                                              *)

LockTypeOK ==
  /\ lock \in [Cron -> [pid : Pid \cup {NoPid}, age : 0..2]]
  /\ job \in [Pid -> [cron : Cron \cup {"none"},
                      pc : {"off", "other", "check", "claim", "work", "unlink", "insert", "leave"}]]
  /\ \A p \in Pid : job[p].cron = "none" <=> job[p].pc \in {"off", "other"}
  /\ seen \in [Trouble -> Nat]

\* What checkCron does achieve: of two instances that do not start at the same
\* moment one goes away.  The third one may run beside the first, because the
\* second has removed the first one's lock (shutdown); and a lock that is ten minutes old is swept.
OneAtWork ==
  \A c \in Cron :
    seen["race"] = 0 /\ seen["overlap"] <= 1 /\ seen["slow"] = 0 => Cardinality(AtWork(c)) <= 1

\* Neither a lock that a crash has left behind nor a stranger that has its pid
\* keeps a cron from its work for good.
NeverBlocked == \A c \in Cron : []<>(AtWork(c) # {})
===============================================================================
