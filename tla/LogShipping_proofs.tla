------------------------- MODULE LogShipping_proofs -------------------------
(***************************************************************************)
(* Undisturbed crons are alone at work and store the oldest entry of a log *)
(* before they remove it; disturbed or not, they keep the ledger: for any  *)
(* number of crons, instances and entries.                                 *)
(***************************************************************************)
EXTENDS LogShipping, FiniteSetTheorems, SequenceTheorems, TLAPS

Pcs == {"off", "other", "check", "claim", "work", "unlink", "insert", "leave"}
Jobs == [cron : Cron \cup {"none"}, pc : Pcs]
Locks == [pid : Pid \cup {NoPid}, age : 0..2]

\* After its INSERT an instance has nothing in hand.
HandEmpty ==
  \A p \in Pid : job[p].cron = "ship" /\ job[p].pc = "unlink" /\ log # "activity" => got[p] = <<>>

TInv == TypeOK /\ HandEmpty

-----------------------------------------------------------------------------
(* Types                                                                   *)

\* What the troubles count never shrinks, and grows for what is suffered.
LEMMA SufferCounts ==
  ASSUME LockTypeOK, NEW kinds, Suffer(kinds)
  PROVE  /\ seen' \in [Trouble -> Nat]
         /\ \A k \in Trouble : seen'[k] >= seen[k]
         /\ \A k \in Trouble : k \in kinds => seen'[k] = seen[k] + 1
         /\ \A k \in Trouble : k \notin kinds => seen'[k] = seen[k]
BY DEF LockTypeOK, Suffer

\* A step of a lock keeps the types,
LEMMA LockTypeStep ==
  ASSUME LockTypeOK, LockNext
  PROVE  LockTypeOK'
<1> USE LockAssumption DEF LockTypeOK
<1>1. ASSUME NEW p \in Pid, NEW c \in Cron, Start(c, p) PROVE LockTypeOK'
  <2>1. seen' \in [Trouble -> Nat]
    BY <1>1, SufferCounts DEF Start
  <2> QED BY <1>1, <2>1 DEF Start
<1>2. ASSUME NEW p \in Pid, Refuse(p) PROVE LockTypeOK'
  BY <1>2 DEF Refuse, NoFile, Free
<1>3. ASSUME NEW p \in Pid, Depose(p) PROVE LockTypeOK'
  <2>1. job[p].cron # "none" /\ Exists(lock[job[p].cron].pid)
    BY <1>3 DEF Depose, Held
  <2>2. job' \in [Pid -> [cron : Cron \cup {"none"}, pc : Pcs]]
    BY <1>3, <2>1 DEF Depose, Free, Exists, Pcs
  <2>3. \A q \in Pid : job'[q].cron = "none" <=> job'[q].pc \in {"off", "other"}
    BY <1>3, <2>1 DEF Depose, Free, Exists
  <2> QED BY <1>3, <2>2, <2>3 DEF Depose, Pcs
<1>4. ASSUME NEW p \in Pid, Pass(p) PROVE LockTypeOK'
  BY <1>4 DEF Pass
<1>5. ASSUME NEW p \in Pid, Claim(p) PROVE LockTypeOK'
  BY <1>5 DEF Claim
<1>6. ASSUME NEW p \in Pid, Leave(p) PROVE LockTypeOK'
  BY <1>6 DEF Leave, NoFile, Free
<1>7. ASSUME NEW p \in Pid, Crash(p) PROVE LockTypeOK'
  BY <1>7, SufferCounts DEF Crash, Free
<1>8. ASSUME NEW p \in Pid, StrangerStarts(p) PROVE LockTypeOK'
  BY <1>8, SufferCounts DEF StrangerStarts, Stranger
<1>9. ASSUME NEW p \in Pid, StrangerEnds(p) PROVE LockTypeOK'
  BY <1>9 DEF StrangerEnds, Free
<1>10. ASSUME NEW c \in Cron, Age(c) PROVE LockTypeOK'
  <2>1. lock[c] \in Locks /\ lock[c].age < 2
    BY <1>10 DEF Age, Locks
  <2>2. seen' \in [Trouble -> Nat]
    BY <1>10, SufferCounts DEF Age
  <2> QED BY <1>10, <2>1, <2>2 DEF Age, Locks
<1> QED
  BY <1>1, <1>2, <1>3, <1>4, <1>5, <1>6, <1>7, <1>8, <1>9, <1>10 DEF LockNext, CheckCron

\* a step of a lock lets no instance read, store or remove,
LEMMA HandsStay ==
  ASSUME LockTypeOK, LockNext,
         NEW q \in Pid, job'[q].cron = "ship", job'[q].pc \in {"unlink", "insert"}
  PROVE  job'[q] = job[q]
<1> USE LockAssumption DEF LockTypeOK, Free, Stranger, Exists, Held
<1>1. ASSUME NEW p \in Pid, NEW c \in Cron, Start(c, p) PROVE job'[q] = job[q]
  BY <1>1 DEF Start
<1>2. ASSUME NEW p \in Pid, Refuse(p) \/ Pass(p) \/ Claim(p) \/ Leave(p) PROVE job'[q] = job[q]
  BY <1>2 DEF Refuse, Pass, Claim, Leave
<1>3. ASSUME NEW p \in Pid, Depose(p) PROVE job'[q] = job[q]
  BY <1>3 DEF Depose
<1>4. ASSUME NEW p \in Pid, Crash(p) \/ StrangerStarts(p) \/ StrangerEnds(p) PROVE job'[q] = job[q]
  BY <1>4 DEF Crash, StrangerStarts, StrangerEnds
<1>5. ASSUME NEW c \in Cron, Age(c) PROVE job'[q] = job[q]
  BY <1>5 DEF Age
<1> QED BY <1>1, <1>2, <1>3, <1>4, <1>5 DEF LockNext, CheckCron

\* and who holds entries goes on to store them, or dies and forgets them.
LEMMA LockKeepsHands ==
  ASSUME TInv, LockNext, Carries
  PROVE  TInv'
<1>1. LockTypeOK'
  BY LockTypeStep DEF TInv, TypeOK
<1>2. got' \in [Pid -> Seq(Entry)]
  BY DEF Carries, TInv, TypeOK
<1>4. ASSUME NEW q \in Pid, got'[q] # <<>>
      PROVE  job'[q].cron = "ship" /\ job'[q].pc \in {"unlink", "insert"}
  <2>1. job'[q].cron = "ship" /\ got[q] # <<>>
    BY <1>4 DEF Carries
  <2>2. job[q].cron = "ship" /\ job[q].pc \in {"unlink", "insert"}
    BY <2>1 DEF TInv, TypeOK
  <2>3. job'[q] = job[q] \/ job'[q] = Free
    <3> USE <2>1, <2>2, LockAssumption DEF TInv, TypeOK, LockTypeOK, Free, Stranger, Exists, Held
    <3>1. ASSUME NEW p \in Pid, NEW c \in Cron, Start(c, p) PROVE job'[q] = job[q]
      BY <3>1 DEF Start, NewPid
    <3>2. ASSUME NEW p \in Pid, Refuse(p) \/ Pass(p) \/ Claim(p) \/ Leave(p)
          PROVE  job'[q] = job[q]
      BY <3>2 DEF Refuse, Pass, Claim, Leave
    <3>3. ASSUME NEW p \in Pid, Depose(p) PROVE job'[q] = job[q] \/ job'[q] = Free
      BY <3>3 DEF Depose
    <3>4. ASSUME NEW p \in Pid, Crash(p) \/ StrangerStarts(p) \/ StrangerEnds(p)
          PROVE  job'[q] = job[q] \/ job'[q] = Free
      BY <3>4 DEF Crash, StrangerStarts, StrangerEnds
    <3>5. ASSUME NEW c \in Cron, Age(c) PROVE job'[q] = job[q]
      BY <3>5 DEF Age
    <3> QED BY <3>1, <3>2, <3>3, <3>4, <3>5 DEF LockNext, CheckCron
  <2> QED BY <2>1, <2>2, <2>3 DEF Free
<1>5. HandEmpty'
  BY HandsStay DEF Carries, TInv, TypeOK, HandEmpty
<1> QED BY <1>1, <1>2, <1>4, <1>5 DEF Carries, TInv, TypeOK

\* An instance that goes on is still the cron it was.
LEMMA GotoMoves ==
  ASSUME LockTypeOK, NEW p \in Pid, job[p].cron # "none",
         NEW pc \in Pcs \ {"off", "other"}, Goto(p, pc)
  PROVE  /\ job' \in [Pid -> Jobs]
         /\ \A q \in Pid : job'[q].cron = "none" <=> job'[q].pc \in {"off", "other"}
         /\ job'[p] = [job[p] EXCEPT !.pc = pc]
         /\ \A q \in Pid : q # p => job'[q] = job[q]
<1>1. job \in [Pid -> Jobs] /\ job[p] \in Jobs
  BY DEF LockTypeOK, Jobs, Pcs
<1>2. job' = [job EXCEPT ![p] = [job[p] EXCEPT !.pc = pc]]
  BY <1>1 DEF Goto
<1>3. [job[p] EXCEPT !.pc = pc] \in Jobs /\ [job[p] EXCEPT !.pc = pc].cron # "none"
  BY <1>1 DEF Jobs
<1>4. [job[p] EXCEPT !.pc = pc].pc = pc
  BY <1>1 DEF Jobs
<1> QED BY <1>1, <1>2, <1>3, <1>4 DEF LockTypeOK

\* The steps of an instance, and those of the writers, keep them too.
LEMMA WorkTypeStep ==
  ASSUME TInv, NEW p \in Pid, Work(p)
  PROVE  TInv'
<1>1. TypeOK /\ LockTypeOK /\ HandEmpty /\ <<>> \in Seq(Entry)
  BY DEF TInv, TypeOK
<1>2. got \in [Pid -> Seq(Entry)] /\ file \in Seq(Entry)
  BY <1>1 DEF TypeOK
<1>3. job[p].cron \in {"ship", "tmp"} /\ job[p].cron # "none" /\ UNCHANGED log
  BY DEF Work, Read, Unlink, Insert, Sweep
<1>4. PICK pc \in Pcs \ {"off", "other"} : Goto(p, pc)
  BY DEF Work, Read, Unlink, Insert, Sweep, Pcs
<1>5. /\ job' \in [Pid -> Jobs]
      /\ \A q \in Pid : job'[q].cron = "none" <=> job'[q].pc \in {"off", "other"}
      /\ job'[p] = [job[p] EXCEPT !.pc = pc]
      /\ \A q \in Pid : q # p => job'[q] = job[q]
  BY <1>1, <1>3, <1>4, GotoMoves
<1>6. job'[p].cron = job[p].cron /\ job'[p].pc = pc
  <2>1. job[p] \in Jobs
    BY <1>1 DEF LockTypeOK, Jobs, Pcs
  <2> QED BY <1>5, <2>1 DEF Jobs
<1>7. ASSUME lock' \in [Cron -> Locks], seen' \in [Trouble -> Nat] PROVE LockTypeOK'
  BY <1>5, <1>7 DEF LockTypeOK, Jobs, Pcs, Locks
<1>8. lock \in [Cron -> Locks] /\ seen \in [Trouble -> Nat]
  BY <1>1 DEF LockTypeOK, Locks
<1>9. ASSUME NEW hand \in Seq(Entry), got' = [got EXCEPT ![p] = hand],
             hand # <<>> => job[p].cron = "ship" /\ job'[p].pc \in {"unlink", "insert"},
             job'[p].pc = "unlink" /\ log # "activity" => hand = <<>>
      PROVE  /\ got' \in [Pid -> Seq(Entry)] /\ HandEmpty'
             /\ \A q \in Pid : got'[q] # <<>> =>
                  job'[q].cron = "ship" /\ job'[q].pc \in {"unlink", "insert"}
  <2>1. got' \in [Pid -> Seq(Entry)]
    BY <1>2, <1>9
  <2>2. got'[p] = hand /\ \A q \in Pid : q # p => got'[q] = got[q]
    BY <1>2, <1>9
  <2>3. HandEmpty'
    <3> SUFFICES ASSUME NEW q \in Pid, job'[q].cron = "ship" /\ job'[q].pc = "unlink",
                        log' # "activity"
                 PROVE  got'[q] = <<>>
      BY DEF HandEmpty
    <3>1. CASE q = p
      BY <3>1, <1>3, <1>9, <2>2
    <3>2. CASE q # p
      <4>1. job'[q] = job[q] /\ got'[q] = got[q] /\ log' = log
        BY <3>2, <1>3, <1>5, <2>2
      <4> QED BY <4>1, <1>1 DEF HandEmpty
    <3> QED BY <3>1, <3>2
  <2>4. \A q \in Pid : got'[q] # <<>> =>
          job'[q].cron = "ship" /\ job'[q].pc \in {"unlink", "insert"}
    <3> SUFFICES ASSUME NEW q \in Pid, got'[q] # <<>>
                 PROVE  job'[q].cron = "ship" /\ job'[q].pc \in {"unlink", "insert"}
      OBVIOUS
    <3>1. CASE q = p
      BY <3>1, <1>6, <1>9, <2>2
    <3>2. CASE q # p
      <4>1. job'[q] = job[q] /\ got[q] # <<>>
        BY <3>2, <1>5, <2>2
      <4> QED BY <4>1, <1>1 DEF TypeOK
    <3> QED BY <3>1, <3>2
  <2> QED BY <2>1, <2>3, <2>4
<1>10. CASE Read(p)
  <2>1. Taken \in Seq(Entry) /\ (file = <<>> => Taken = <<>>)
    <3>1. file # <<>> => First(file) \in Seq(Entry)
      BY <1>2 DEF First
    <3> QED BY <1>1, <1>2, <3>1 DEF Taken
  <2>2. job'[p].pc = IF file = <<>> THEN "leave" ELSE IF log = "activity" THEN "unlink" ELSE "insert"
    BY <1>1, <1>10 DEF Read, Goto, LockTypeOK
  <2>3. got' = [got EXCEPT ![p] = Taken] /\ UNCHANGED <<lock, seen, log, file, old, written, table>>
    BY <1>10 DEF Read
  <2>4. job[p].cron = "ship"
    BY <1>10 DEF Read
  <2>5. LockTypeOK'
    BY <1>7, <1>8, <2>3
  <2>6. /\ got' \in [Pid -> Seq(Entry)] /\ HandEmpty'
        /\ \A q \in Pid : got'[q] # <<>> => job'[q].cron = "ship" /\ job'[q].pc \in {"unlink", "insert"}
    BY <1>9, <2>1, <2>2, <2>3, <2>4
  <2> QED BY <1>1, <2>3, <2>5, <2>6 DEF TInv, TypeOK
<1>11. CASE Unlink(p)
  <2>1. job'[p].pc = (IF log = "activity" THEN "insert" ELSE "leave") /\ job[p].cron = "ship" /\ job[p].pc = "unlink"
    BY <1>1, <1>11 DEF Unlink, Goto, LockTypeOK
  <2>2. file' = <<>> /\ old' = FALSE /\ UNCHANGED <<lock, seen, log, written, got, table>>
    BY <1>11 DEF Unlink
  <2>3. log # "activity" => got[p] = <<>>
    BY <1>1, <2>1 DEF HandEmpty
  <2>4. got' = [got EXCEPT ![p] = got[p]] /\ got[p] \in Seq(Entry)
    BY <1>2, <2>2
  <2>5. LockTypeOK'
    BY <1>7, <1>8, <2>2
  <2>6. /\ got' \in [Pid -> Seq(Entry)] /\ HandEmpty'
        /\ \A q \in Pid : got'[q] # <<>> => job'[q].cron = "ship" /\ job'[q].pc \in {"unlink", "insert"}
    BY <1>9, <2>1, <2>3, <2>4
  <2> QED BY <1>1, <2>2, <2>5, <2>6 DEF TInv, TypeOK
<1>12. CASE Insert(p)
  <2>1. table' \in [Entry -> Nat]
    <3>1. table \in [Entry -> Nat]
      BY <1>1 DEF TypeOK
    <3>2. Stored(got[p]) \in [Entry -> Nat]
      BY <3>1 DEF Stored
    <3> QED BY <1>12, <3>1, <3>2 DEF Insert
  <2>2. seen' \in [Trouble -> Nat]
    BY <1>1, <1>8, <1>12, SufferCounts DEF Insert
  <2>3. job'[p].pc = (IF log = "activity" THEN "leave" ELSE "unlink")
    BY <1>1, <1>12 DEF Insert, Goto, LockTypeOK
  <2>4. got' = [got EXCEPT ![p] = <<>>] /\ UNCHANGED <<lock, log, file, old, written>>
    BY <1>12 DEF Insert
  <2>5. LockTypeOK'
    BY <1>7, <1>8, <2>2, <2>4
  <2>6. /\ got' \in [Pid -> Seq(Entry)] /\ HandEmpty'
        /\ \A q \in Pid : got'[q] # <<>> => job'[q].cron = "ship" /\ job'[q].pc \in {"unlink", "insert"}
    BY <1>1, <1>9, <2>3, <2>4
  <2> QED BY <1>1, <2>1, <2>4, <2>5, <2>6 DEF TInv, TypeOK
<1>13. CASE Sweep(p)
  <2>1. job'[p].pc = "leave" /\ job[p] = [cron |-> "tmp", pc |-> "work"]
    BY <1>1, <1>13 DEF Sweep, Goto, LockTypeOK
  <2>2. file' \in {<<>>, file} /\ old' = FALSE /\ UNCHANGED <<seen, log, written, got, table>>
    BY <1>13 DEF Sweep
  <2>3. got[p] = <<>> /\ got' = [got EXCEPT ![p] = <<>>]
    BY <1>1, <1>2, <2>1, <2>2 DEF TypeOK
  <2>4. lock' \in [Cron -> Locks]
    BY <1>8, <1>13 DEF Sweep, Swept, NoFile, Locks
  <2>5. LockTypeOK'
    BY <1>7, <1>8, <2>2, <2>4
  <2>6. /\ got' \in [Pid -> Seq(Entry)] /\ HandEmpty'
        /\ \A q \in Pid : got'[q] # <<>> => job'[q].cron = "ship" /\ job'[q].pc \in {"unlink", "insert"}
    BY <1>1, <1>9, <2>1, <2>3
  <2> QED BY <1>1, <1>2, <2>2, <2>5, <2>6 DEF TInv, TypeOK
<1> QED BY <1>10, <1>11, <1>12, <1>13 DEF Work

LEMMA TypeStep == TInv /\ [LNext]_vars => TInv'
<1> SUFFICES ASSUME TInv, [LNext]_vars PROVE TInv'
  OBVIOUS
<1>1. CASE Write
  <2>1. written + 1 \in Entry
    BY <1>1, LogAssumption DEF Write, Entry, TInv, TypeOK
  <2>2. file' \in Seq(Entry)
    BY <1>1, <2>1, AppendProperties DEF Write, TInv, TypeOK
  <2>3. written' \in 0..MaxEntry /\ old' = FALSE
    BY <1>1, LogAssumption DEF Write, TInv, TypeOK
  <2>4. UNCHANGED <<lock, job, seen, log, got, table>>
    BY <1>1 DEF Write, lockVars
  <2> QED BY <2>2, <2>3, <2>4 DEF TInv, TypeOK, LockTypeOK, HandEmpty
<1>2. CASE \E p \in Pid : Work(p)
  BY <1>2, WorkTypeStep
<1>3. CASE Rests
  BY <1>3, SufferCounts DEF Rests, TInv, TypeOK, LockTypeOK, HandEmpty
<1>4. CASE LockNext /\ Carries
  BY <1>4, LockKeepsHands
<1>5. CASE UNCHANGED vars
  BY <1>5 DEF vars, lockVars, logVars, TInv, TypeOK, LockTypeOK, HandEmpty
<1> QED BY <1>1, <1>2, <1>3, <1>4, <1>5 DEF LNext

LEMMA TypeInit == LInit => TInv
<1> SUFFICES ASSUME LInit PROVE TInv
  OBVIOUS
<1>1. lock = [c \in Cron |-> NoFile] /\ job = [p \in Pid |-> Free] /\ seen = [k \in Trouble |-> 0]
  BY DEF LInit, Init
<1>2. LockTypeOK
  BY <1>1 DEF LockTypeOK, NoFile, Free
<1>3. got = [p \in Pid |-> <<>>] /\ <<>> \in Seq(Entry) /\ file = <<>>
  BY DEF LInit
<1>4. 0 \in 0..MaxEntry
  BY LogAssumption
<1> QED BY <1>2, <1>3, <1>4 DEF LInit, TInv, TypeOK, HandEmpty

\* Locks, instances and entries keep their types for any crons and logs; only
\* instances between their read and their INSERT hold entries.
THEOREM TypeCorrect == Spec => []TypeOK
<1>1. TInv => TypeOK
  BY DEF TInv
<1> QED BY <1>1, TypeInit, TypeStep, PTL DEF Spec

-----------------------------------------------------------------------------
(* One at work                                                             *)

\* No two instances have started at one moment, at most one while another was
\* at work, and none has been slow.
Quiet == seen["race"] = 0 /\ seen["overlap"] <= 1 /\ seen["slow"] = 0

\* One instance enters at a time, and one is at work.  The lock is that one's
\* until an instance has been refused; no second one is refused after that.
Apart(c) ==
  /\ \A p, q \in Entering(c) : p = q
  /\ \A p, q \in AtWork(c) : p = q
  /\ \A w \in AtWork(c), e \in Entering(c) : job[e].pc = "check" /\ seen["overlap"] # 0
  /\ \A w \in AtWork(c) :
       Entering(c) # {} \/ seen["overlap"] = 0 => lock[c].pid = w /\ lock[c].age = 0

AInv == TInv /\ (Quiet => \A c \in Cron : Apart(c))

\* A step that takes instances away and touches no fresh lock disturbs nobody.
LEMMA StaysApart ==
  ASSUME LockTypeOK, LockTypeOK', NEW c \in Cron, Apart(c),
         seen'["overlap"] >= seen["overlap"],
         \A p \in Pid : p \in Entering(c)' => p \in Entering(c) /\ job'[p] = job[p],
         \A p \in Pid : p \in AtWork(c)' => p \in AtWork(c),
         lock[c].age = 0 => lock'[c] = lock[c]
  PROVE  Apart(c)'
<1>1. seen["overlap"] \in Nat /\ seen'["overlap"] \in Nat
  BY DEF LockTypeOK, Trouble
<1>2. Entering(c)' \subseteq Entering(c) /\ AtWork(c)' \subseteq AtWork(c)
  BY DEF Entering, AtWork
<1>3. \A w \in AtWork(c)', e \in Entering(c)' : job'[e].pc = "check" /\ seen'["overlap"] # 0
  <2> SUFFICES ASSUME NEW w \in AtWork(c)', NEW e \in Entering(c)'
               PROVE  job'[e].pc = "check" /\ seen'["overlap"] # 0
    OBVIOUS
  <2>1. e \in Pid
    BY DEF Entering
  <2>2. job'[e] = job[e] /\ w \in AtWork(c) /\ e \in Entering(c)
    BY <1>2, <2>1
  <2> QED BY <1>1, <2>2 DEF Apart
<1>4. ASSUME NEW w \in AtWork(c)', Entering(c)' # {} \/ seen'["overlap"] = 0
      PROVE  lock'[c].pid = w /\ lock'[c].age = 0
  <2>1. w \in AtWork(c) /\ (Entering(c) # {} \/ seen["overlap"] = 0)
    BY <1>1, <1>2, <1>4
  <2> QED BY <2>1 DEF Apart
<1> QED BY <1>2, <1>3, <1>4 DEF Apart

\* What a step of a lock does to the instances of a cron.
LEMMA LockApart ==
  ASSUME LockTypeOK, LockTypeOK', LockNext, Quiet', \A c \in Cron : Apart(c), NEW c \in Cron
  PROVE  Apart(c)'
<1>1. c # "none" /\ Apart(c)
  BY LockAssumption
<1>2. seen \in [Trouble -> Nat] /\ {"race", "overlap", "slow"} \subseteq Trouble
  BY DEF LockTypeOK, Trouble
<1> USE DEF Entering, AtWork
<1>3. ASSUME NEW p \in Pid, NEW d \in Cron, Start(d, p) PROVE Apart(c)'
  <2>1. job[p].pc = "off" /\ job[p].cron = "none"
    BY <1>3 DEF Start, NewPid, Exists, LockTypeOK
  <2>2. /\ job'[p].cron = d /\ job'[p].pc = "check"
        /\ \A q \in Pid : q # p => job'[q] = job[q]
        /\ lock' = lock
    BY <1>3 DEF Start, LockTypeOK
  <2>3. seen'["overlap"] >= seen["overlap"]
    BY <1>2, <1>3, SufferCounts DEF Start
  <2>4. CASE d # c
    BY <1>1, <2>1, <2>2, <2>3, <2>4, StaysApart
  <2>5. CASE d = c
    <3>1. Entering(c) = {}
      <4>1. Entering(c) # {} => seen'["race"] = seen["race"] + 1
        BY <1>2, <1>3, <2>5, SufferCounts DEF Start
      <4> QED BY <1>2, <4>1 DEF Quiet
    <3>2. \A q \in Pid : q \in Entering(c)' => q = p
      BY <2>2, <3>1
    <3>3. \A q \in Pid : q \in AtWork(c)' <=> q \in AtWork(c)
      BY <1>1, <2>1, <2>2
    <3>4. AtWork(c) # {} => seen'["overlap"] = seen["overlap"] + 1
      BY <1>2, <1>3, <2>5, SufferCounts DEF Start
    <3>5. AtWork(c) # {} => seen["overlap"] = 0 /\ seen'["overlap"] # 0
      BY <1>2, <3>4 DEF Quiet
    <3>6. \A w \in AtWork(c) : lock[c].pid = w /\ lock[c].age = 0
      BY <1>1, <3>5 DEF Apart
    <3> QED BY <1>1, <2>2, <3>2, <3>3, <3>5, <3>6 DEF Apart
  <2> QED BY <2>4, <2>5
<1>4. ASSUME NEW p \in Pid, Refuse(p) PROVE Apart(c)'
  <2>1. /\ job[p].pc = "check" /\ job[p].cron # "none"
        /\ job'[p] = Free /\ \A q \in Pid : q # p => job'[q] = job[q]
        /\ seen' = seen
    BY <1>4 DEF Refuse, LockTypeOK
  <2>2. \A q \in Pid : /\ q \in Entering(c)' => q \in Entering(c) /\ job'[q] = job[q] /\ q # p
                       /\ q \in AtWork(c)' => q \in AtWork(c)
    BY <1>1, <2>1 DEF Free
  <2>3. CASE job[p].cron # c
    <3>1. lock'[c] = lock[c]
      BY <1>4, <2>3 DEF Refuse, LockTypeOK
    <3> QED BY <1>1, <1>2, <2>1, <2>2, <3>1, StaysApart
  <2>4. CASE job[p].cron = c
    <3>1. p \in Entering(c)
      BY <2>1, <2>4
    <3>2. Entering(c)' = {}
      BY <1>1, <2>2, <3>1 DEF Apart
    <3>3. AtWork(c) # {} => seen["overlap"] # 0
      BY <1>1, <3>1 DEF Apart
    <3> QED BY <1>1, <2>1, <2>2, <3>2, <3>3 DEF Apart
  <2> QED BY <2>3, <2>4
<1>5. ASSUME NEW p \in Pid, Depose(p) \/ Pass(p) PROVE Apart(c)'
  <2>1. job[p].pc = "check" /\ job[p].cron \in Cron /\ lock' = lock /\ seen' = seen
    BY <1>5 DEF Depose, Pass, LockTypeOK
  <2>2. \A q \in Pid : q # p => job'[q] \in {job[q], Free}
    BY <1>5 DEF Depose, Pass, LockTypeOK
  <2>3. job'[p] = Free \/ (job'[p].cron = job[p].cron /\ job'[p].pc = "claim")
    BY <1>5 DEF Depose, Pass, LockTypeOK
  <2>4. CASE job[p].cron # c
    BY <1>1, <1>2, <2>1, <2>2, <2>3, <2>4, StaysApart DEF Free
  <2>5. CASE job[p].cron = c
    <3>1. p \in Entering(c)
      BY <2>1, <2>5
    <3>2. AtWork(c) = {}
      <4> SUFFICES ASSUME NEW w \in AtWork(c) PROVE FALSE
        OBVIOUS
      <4>1. lock[c].pid = w /\ lock[c].age = 0
        BY <1>1, <3>1 DEF Apart
      <4>2. Exists(w)
        BY <1>1 DEF Exists, LockTypeOK
      <4> QED BY <1>5, <2>5, <4>1, <4>2 DEF Depose, Pass, Held, Expired
    <3>3. AtWork(c)' = {}
      BY <1>1, <2>1, <2>2, <2>3, <2>5, <3>2 DEF Free
    <3>4. Entering(c)' \subseteq Entering(c)
      BY <1>1, <2>1, <2>2, <2>3, <2>5, <3>1 DEF Free
    <3> QED BY <1>1, <3>3, <3>4 DEF Apart
  <2> QED BY <2>4, <2>5
<1>6. ASSUME NEW p \in Pid, Claim(p) PROVE Apart(c)'
  <2>1. /\ job[p].pc = "claim" /\ job[p].cron \in Cron /\ seen' = seen
        /\ job'[p].cron = job[p].cron /\ job'[p].pc = "work"
        /\ \A q \in Pid : q # p => job'[q] = job[q]
    BY <1>6 DEF Claim, LockTypeOK
  <2>2. CASE job[p].cron # c
    <3>1. lock'[c] = lock[c]
      BY <1>6, <2>2 DEF Claim, LockTypeOK
    <3> QED BY <1>1, <1>2, <2>1, <2>2, <3>1, StaysApart
  <2>3. CASE job[p].cron = c
    <3>1. p \in Entering(c)
      BY <2>1, <2>3
    <3>2. AtWork(c) = {}
      BY <1>1, <2>1, <3>1 DEF Apart
    <3>3. Entering(c)' = {}
      BY <1>1, <2>1, <3>1 DEF Apart
    <3>4. \A q \in Pid : q \in AtWork(c)' => q = p
      BY <2>1, <3>2
    <3>5. lock'[c].pid = p /\ lock'[c].age = 0
      BY <1>6, <2>3 DEF Claim, LockTypeOK
    <3> QED BY <3>3, <3>4, <3>5 DEF Apart
  <2> QED BY <2>2, <2>3
<1>7. ASSUME NEW p \in Pid, Leave(p) PROVE Apart(c)'
  <2>1. /\ job[p].pc = "leave" /\ job[p].cron \in Cron /\ seen' = seen
        /\ job'[p] = Free /\ \A q \in Pid : q # p => job'[q] = job[q]
    BY <1>7 DEF Leave, LockTypeOK
  <2>2. \A q \in Pid : /\ q \in Entering(c)' => q \in Entering(c) /\ job'[q] = job[q] /\ q # p
                       /\ q \in AtWork(c)' => q \in AtWork(c) /\ q # p
    BY <1>1, <2>1 DEF Free
  <2>3. CASE job[p].cron # c
    <3>1. lock'[c] = lock[c]
      BY <1>7, <2>3 DEF Leave, LockTypeOK
    <3> QED BY <1>1, <1>2, <2>1, <2>2, <3>1, StaysApart
  <2>4. CASE job[p].cron = c
    <3>1. AtWork(c)' = {}
      BY <1>1, <2>1, <2>2, <2>4 DEF Apart
    <3>2. Entering(c)' \subseteq Entering(c)
      BY <2>2
    <3> QED BY <1>1, <3>1, <3>2 DEF Apart
  <2> QED BY <2>3, <2>4
<1>8. ASSUME NEW p \in Pid, Crash(p) \/ StrangerStarts(p) \/ StrangerEnds(p) PROVE Apart(c)'
  <2>1. lock' = lock /\ seen'["overlap"] >= seen["overlap"]
    BY <1>2, <1>8, SufferCounts DEF Crash, StrangerStarts, StrangerEnds
  <2>2. job'[p] \in {Free, Stranger} /\ \A q \in Pid : q # p => job'[q] = job[q]
    BY <1>8 DEF Crash, StrangerStarts, StrangerEnds, LockTypeOK
  <2> QED BY <1>1, <2>1, <2>2, StaysApart DEF Free, Stranger
<1>9. ASSUME NEW d \in Cron, Age(d) PROVE Apart(c)'
  <2>1. job' = job /\ seen'["overlap"] >= seen["overlap"]
    BY <1>2, <1>9, SufferCounts DEF Age
  <2>2. CASE d # c
    <3>1. lock'[c] = lock[c]
      BY <1>9, <2>2 DEF Age, LockTypeOK
    <3> QED BY <1>1, <2>1, <3>1, StaysApart
  <2>3. CASE d = c
    <3>1. AtWork(c) # {} => seen'["slow"] = seen["slow"] + 1
      BY <1>2, <1>9, <2>3, SufferCounts DEF Age
    <3>2. AtWork(c) = {}
      BY <1>2, <3>1 DEF Quiet
    <3> QED BY <1>1, <2>1, <3>2 DEF Apart
  <2> QED BY <2>2, <2>3
<1> QED BY <1>3, <1>4, <1>5, <1>6, <1>7, <1>8, <1>9 DEF LockNext, CheckCron

\* The other steps move no instance from or to the door.
LEMMA WorkApart ==
  ASSUME LockTypeOK, LockTypeOK', NEW p \in Pid, Work(p), NEW c \in Cron, Apart(c)
  PROVE  Apart(c)'
<1>1. job[p].cron # "none" /\ job[p].pc \in {"work", "unlink", "insert"}
  BY DEF Work, Read, Unlink, Insert, Sweep
<1>2. PICK pc \in {"unlink", "insert", "leave"} : Goto(p, pc)
  BY DEF Work, Read, Unlink, Insert, Sweep
<1>3. job'[p] = [job[p] EXCEPT !.pc = pc] /\ \A q \in Pid : q # p => job'[q] = job[q]
  BY <1>1, <1>2, GotoMoves DEF Pcs
<1>4. job'[p].cron = job[p].cron /\ job'[p].pc = pc
  <2>1. job[p] \in Jobs
    BY DEF LockTypeOK, Jobs, Pcs
  <2> QED BY <1>3, <2>1 DEF Jobs
<1>5. \A q \in Pid : /\ q \in Entering(c)' => q \in Entering(c) /\ job'[q] = job[q]
                     /\ q \in AtWork(c)' => q \in AtWork(c)
  BY <1>1, <1>3, <1>4 DEF Entering, AtWork
<1>6. seen'["overlap"] >= seen["overlap"]
  <2>1. "overlap" \in Trouble /\ seen["overlap"] \in Nat
    BY DEF Trouble, LockTypeOK
  <2> QED BY <2>1, SufferCounts DEF Work, Read, Unlink, Insert, Sweep
<1>7. lock[c].age = 0 => lock'[c] = lock[c]
  BY DEF Work, Read, Unlink, Insert, Sweep, Swept
<1> QED BY <1>5, <1>6, <1>7, StaysApart

\* What has been quiet up to now was quiet before.
LEMMA QuietBefore ==
  ASSUME LockTypeOK, [LNext]_vars
  PROVE  /\ Quiet' => Quiet
         /\ Quiet' /\ seen'["fail"] = 0 => seen["fail"] = 0
<1>1. {"race", "overlap", "slow", "fail"} \subseteq Trouble
  BY DEF Trouble
<1>2. \A k \in Trouble : seen[k] \in Nat
  BY DEF LockTypeOK
<1>3. seen' = seen \/ \E kinds : Suffer(kinds)
  BY DEF LNext, Write, Work, Read, Unlink, Insert, Sweep, Rests, LockNext, CheckCron, Start,
         Refuse, Depose, Pass, Claim, Leave, Crash, StrangerStarts, StrangerEnds, Age,
         vars, lockVars
<1>4. \A k \in Trouble : seen'[k] >= seen[k] /\ seen'[k] \in Nat
  BY <1>2, <1>3, SufferCounts
<1> QED BY <1>1, <1>2, <1>4 DEF Quiet

LEMMA ApartInit == LInit => AInv
<1> SUFFICES ASSUME LInit PROVE AInv
  OBVIOUS
<1>1. \A c \in Cron : Entering(c) = {} /\ AtWork(c) = {}
  BY LockAssumption DEF LInit, Init, Free, Entering, AtWork
<1> QED BY <1>1, TypeInit DEF AInv, Apart

LEMMA ApartStep == AInv /\ [LNext]_vars => AInv'
<1> SUFFICES ASSUME AInv, [LNext]_vars PROVE AInv'
  OBVIOUS
<1>1. TInv /\ TInv' /\ LockTypeOK /\ LockTypeOK'
  BY TypeStep DEF AInv, TInv, TypeOK
<1> SUFFICES ASSUME Quiet', NEW c \in Cron PROVE Apart(c)'
  BY <1>1 DEF AInv
<1>2. \A d \in Cron : Apart(d)
  BY <1>1, QuietBefore DEF AInv
<1>3. CASE Write
  BY <1>1, <1>2, <1>3, StaysApart DEF Write, lockVars, Entering, AtWork, LockTypeOK, Trouble
<1>4. CASE \E p \in Pid : Work(p)
  BY <1>1, <1>2, <1>4, WorkApart
<1>5. CASE Rests
  <2>1. "slow" \in Trouble /\ seen["slow"] \in Nat
    BY <1>1 DEF Trouble, LockTypeOK
  <2>2. seen'["slow"] = seen["slow"] + 1
    BY <1>1, <1>5, <2>1, SufferCounts DEF Rests
  <2> QED BY <2>1, <2>2 DEF Quiet
<1>6. CASE LockNext /\ Carries
  BY <1>1, <1>2, <1>6, LockApart
<1>7. CASE UNCHANGED vars
  BY <1>1, <1>2, <1>7, StaysApart DEF vars, lockVars, Entering, AtWork, LockTypeOK, Trouble
<1> QED BY <1>3, <1>4, <1>5, <1>6, <1>7 DEF LNext

LEMMA SpecApart == Spec => []AInv
BY ApartInit, ApartStep, PTL DEF Spec

\* As long as no two instances start at one moment, none is slow and at most one
\* starts beside a running one, no cron has two at work.
THEOREM CronsApart == Spec => []OneAtWork
<1>1. AInv => OneAtWork
  <2> SUFFICES ASSUME AInv, NEW c \in Cron, Quiet PROVE Cardinality(AtWork(c)) <= 1
    BY DEF OneAtWork, Quiet
  <2>1. CASE AtWork(c) = {}
    BY <2>1, FS_EmptySet
  <2>2. ASSUME NEW w \in AtWork(c) PROVE Cardinality(AtWork(c)) <= 1
    <3>1. AtWork(c) = {w}
      BY <2>2 DEF AInv, Apart
    <3> QED BY <3>1, FS_Singleton
  <2> QED BY <2>1, <2>2
<1> QED BY <1>1, SpecApart, PTL

-----------------------------------------------------------------------------
(* The oldest entry                                                        *)

\* What an instance that is to store or to remove has of the oldest entry.
HasOldest(p) ==
  /\ file # <<>>
  /\ IF job[p].pc = "unlink" /\ log # "activity" THEN table[file[1]] > 0
     ELSE got[p] # <<>> /\ got[p][1] = file[1]

\* The file is there and holds what was read first, until it is removed.
Safe ==
  /\ old = FALSE
  /\ \A p \in Pid :
       job[p].cron = "ship" /\ job[p].pc = (IF log = "activity" THEN "unlink" ELSE "insert")
         => HasOldest(p)
  /\ \A p \in Pid :
       job[p].cron = "ship" /\ job[p].pc = "unlink" => HasOldest(p)

OInv == AInv /\ (Quiet /\ seen["fail"] = 0 => Safe)

LEMMA OldestInit == LInit => OInv
<1> SUFFICES ASSUME LInit PROVE OInv
  OBVIOUS
<1>1. \A p \in Pid : job[p].cron = "none"
  BY DEF LInit, Init, Free
<1>2. old = FALSE
  BY DEF LInit
<1> QED BY <1>1, <1>2, ApartInit DEF OInv, Safe

\* The only instance at work keeps its hold on the oldest entry.
LEMMA WorkSafe ==
  ASSUME AInv, AInv', Quiet, Safe, seen'["fail"] = 0, NEW p \in Pid, Work(p)
  PROVE  Safe'
<1>1. TypeOK /\ LockTypeOK
  BY DEF AInv, TInv, TypeOK
<1>2. old' = FALSE
  BY DEF Work, Read, Unlink, Insert, Sweep, Safe
<1>3. PICK pc \in Pcs \ {"off", "other"} : Goto(p, pc)
  BY DEF Work, Read, Unlink, Insert, Sweep, Pcs
<1>4. job[p].cron # "none" /\ log' = log
  BY DEF Work, Read, Unlink, Insert, Sweep
<1>5. job'[p] = [job[p] EXCEPT !.pc = pc] /\ \A q \in Pid : q # p => job'[q] = job[q]
  BY <1>1, <1>3, <1>4, GotoMoves
<1>6. job'[p].cron = job[p].cron
  <2>1. job[p] \in Jobs
    BY <1>1 DEF LockTypeOK, Jobs, Pcs
  <2> QED BY <1>5, <2>1 DEF Jobs
<1>7. CASE Sweep(p)
  <2>1. file' = file /\ got' = got /\ table' = table /\ job[p].cron = "tmp"
    BY <1>7 DEF Sweep, Safe
  <2>2. \A q \in Pid : job'[q].cron = "ship" => job'[q] = job[q]
    BY <1>5, <1>6, <2>1
  <2> QED BY <1>2, <1>4, <2>1, <2>2 DEF Safe, HasOldest
<1>8. CASE Read(p) \/ Unlink(p) \/ Insert(p)
  <2>1. job[p].cron = "ship" /\ job[p].pc \in {"work", "unlink", "insert"}
    BY <1>8 DEF Read, Unlink, Insert
  <2>2. "ship" \in Cron /\ p \in AtWork("ship")
    BY <1>1, <2>1 DEF LockTypeOK, AtWork
  <2>3. \A q \in Pid : job'[q].cron = "ship" /\ job'[q].pc \in {"unlink", "insert"} => q = p
    <3> SUFFICES ASSUME NEW q \in Pid, job'[q].cron = "ship", job'[q].pc \in {"unlink", "insert"}, q # p
                 PROVE  FALSE
      OBVIOUS
    <3>1. q \in AtWork("ship")
      BY <1>5 DEF AtWork
    <3> QED BY <2>2, <3>1 DEF AInv, Apart
  <2>4. ASSUME job'[p].pc = (IF log = "activity" THEN "unlink" ELSE "insert") \/ job'[p].pc = "unlink"
        PROVE  HasOldest(p)'
    <3>1. CASE Read(p)
      <4>1. file # <<>> /\ file' = file /\ job'[p].pc = IF log = "activity" THEN "unlink" ELSE "insert"
        BY <1>1, <2>4, <3>1 DEF Read, Goto, LockTypeOK
      <4>2. got'[p] = Taken
        BY <1>1, <3>1 DEF Read, TypeOK
      <4>3. Taken # <<>> /\ Taken[1] = file[1]
        BY <4>1 DEF Taken, First
      <4> QED BY <1>4, <4>1, <4>2, <4>3 DEF HasOldest
    <3>2. CASE Unlink(p)
      BY <1>1, <2>4, <3>2 DEF Unlink, Goto, LockTypeOK
    <3>3. CASE Insert(p)
      <4>1. log # "activity" /\ job'[p].pc = "unlink" /\ job[p].pc = "insert" /\ file' = file
        BY <1>1, <2>4, <3>3 DEF Insert, Goto, LockTypeOK
      <4>2. file # <<>> /\ got[p] # <<>> /\ got[p][1] = file[1]
        BY <2>1, <4>1 DEF Safe, HasOldest
      <4>3. table' = Stored(got[p])
        <5>1. "fail" \in Trouble /\ seen["fail"] \in Nat
          BY <1>1 DEF Trouble, LockTypeOK
        <5>2. ~ Suffer({"fail"})
          BY <1>1, <5>1, SufferCounts
        <5> QED BY <3>3, <5>2 DEF Insert
      <4>4. 1 \in 1..Len(got[p]) /\ got[p][1] \in Entry
        BY <1>1, <4>2 DEF TypeOK
      <4>5. table[file[1]] \in Nat
        BY <1>1, <4>2, <4>4 DEF TypeOK
      <4>6. table'[file[1]] > 0
        BY <4>2, <4>3, <4>4, <4>5 DEF Stored, InTable
      <4> QED BY <1>4, <4>1, <4>2, <4>6 DEF HasOldest
    <3> QED BY <1>8, <3>1, <3>2, <3>3
  <2> QED BY <1>2, <1>4, <2>3, <2>4 DEF Safe
<1> QED BY <1>7, <1>8 DEF Work

LEMMA OldestStep == OInv /\ [LNext]_vars => OInv'
<1> SUFFICES ASSUME OInv, [LNext]_vars PROVE OInv'
  OBVIOUS
<1>1. AInv /\ AInv' /\ TypeOK /\ LockTypeOK
  BY ApartStep DEF OInv, AInv, TInv, TypeOK
<1> SUFFICES ASSUME Quiet', seen'["fail"] = 0 PROVE Safe'
  BY <1>1 DEF OInv
<1>2. Quiet /\ Safe
  BY <1>1, QuietBefore DEF OInv
<1>3. CASE Write
  <2>1. file # <<>> => file' # <<>> /\ file'[1] = file[1]
    <3>1. file \in Seq(Entry) /\ written' \in Entry /\ file' = Append(file, written')
      BY <1>1, <1>3, LogAssumption DEF TypeOK, Write, Entry
    <3>2. file # <<>> => Len(file) >= 1
      BY <3>1
    <3> QED BY <3>1, <3>2, AppendProperties
  <2>2. old' = FALSE /\ UNCHANGED <<job, log, got, table>>
    BY <1>3 DEF Write, lockVars
  <2> QED BY <1>2, <2>1, <2>2 DEF Safe, HasOldest
<1>4. CASE \E p \in Pid : Work(p)
  BY <1>1, <1>2, <1>4, WorkSafe
<1>5. CASE Rests
  <2>1. "slow" \in Trouble /\ seen["slow"] \in Nat
    BY <1>1 DEF Trouble, LockTypeOK
  <2>2. seen'["slow"] = seen["slow"] + 1
    BY <1>1, <1>5, <2>1, SufferCounts DEF Rests
  <2> QED BY <2>1, <2>2 DEF Quiet
<1>6. CASE LockNext /\ Carries
  <2>1. UNCHANGED <<log, file, old, table>>
    BY <1>6 DEF Carries
  <2>2. ASSUME NEW q \in Pid, job'[q].cron = "ship", job'[q].pc \in {"unlink", "insert"}
        PROVE  job'[q] = job[q] /\ got'[q] = got[q]
    BY <1>1, <1>6, <2>2, HandsStay DEF Carries
  <2> QED BY <1>2, <2>1, <2>2 DEF Safe, HasOldest
<1>7. CASE UNCHANGED vars
  BY <1>2, <1>7 DEF vars, lockVars, logVars, Safe, HasOldest
<1> QED BY <1>3, <1>4, <1>5, <1>6, <1>7 DEF LNext

\* An undisturbed cron does not remove a log before its oldest entry is in the
\* table or in its hand.
THEOREM OldestSafe == Spec => OldestNotLost
<1> DEFINE Step == file # <<>> /\ file' = <<>> /\ seen["race"] = 0 /\ seen["overlap"] <= 1
                     /\ seen["slow"] = 0 /\ seen["fail"] = 0
                   => table[file[1]] > 0 \/ InHand(file[1])
<1>1. OInv /\ [LNext]_vars => [Step]_vars
  <2> SUFFICES ASSUME OInv, LNext, file # <<>>, file' = <<>>, Quiet, seen["fail"] = 0
               PROVE  table[file[1]] > 0 \/ InHand(file[1])
    BY DEF Quiet
  <2>1. Safe /\ TypeOK
    BY DEF OInv, AInv, TInv
  <2>2. ~ Write
    <3> SUFFICES ASSUME Write PROVE FALSE
      OBVIOUS
    <3>1. file \in Seq(Entry) /\ written' \in Entry /\ file' = Append(file, written')
      BY <2>1, LogAssumption DEF TypeOK, Write, Entry
    <3> QED BY <3>1, AppendProperties
  <2>3. ~ Rests /\ ~ (LockNext /\ Carries)
    BY DEF Rests, Carries
  <2>4. PICK p \in Pid : Unlink(p)
    BY <2>1, <2>2, <2>3 DEF LNext, Work, Read, Insert, Sweep, Safe
  <2>5. HasOldest(p) /\ job[p].pc = "unlink"
    BY <2>1, <2>4 DEF Unlink, Safe
  <2>6. CASE log = "activity"
    <3>1. got[p] # <<>> /\ got[p][1] = file[1] /\ got[p] \in Seq(Entry)
      BY <2>1, <2>5, <2>6 DEF HasOldest, TypeOK
    <3>2. 1 \in 1..Len(got[p])
      BY <3>1
    <3> QED BY <3>1, <3>2 DEF InHand
  <2>7. CASE log # "activity"
    BY <2>5, <2>7 DEF HasOldest
  <2> QED BY <2>6, <2>7
<1>2. Spec => []OInv
  BY OldestInit, OldestStep, PTL DEF Spec
<1>3. Spec => [][Step]_vars
  BY <1>1, <1>2, PTL DEF Spec
<1> QED BY <1>3 DEF OldestNotLost

-----------------------------------------------------------------------------
(* Who is at work, however disturbed                                       *)

Ship == Instances("ship")
Unlinking == {p \in Pid : job[p].cron = "ship" /\ job[p].pc = "unlink"}

\* Instances that another cron may kill, which has their pid in its lock file.
Marked == {p \in Ship : \E d \in Cron \ {"ship"} : lock[d].pid = p}

\* Starts beside another instance.
Met == seen["race"] + seen["overlap"]

Grown == \A k \in Trouble : seen[k] \in Nat /\ seen'[k] \in Nat /\ seen'[k] >= seen[k]

\* What a step does to the instances: one starts,
Comes(p) ==
  /\ p \in Pid \ Ship
  /\ Ship' = Ship \cup {p} /\ Unlinking' = Unlinking
  /\ Marked' \subseteq Marked \cup {p}
  /\ p \in Marked' => seen'["reuse"] > seen["reuse"]
  /\ seen'["race"] = seen["race"] + (IF Entering("ship") = {} THEN 0 ELSE 1)
  /\ seen'["overlap"] = seen["overlap"] + (IF AtWork("ship") = {} THEN 0 ELSE 1)
  /\ lock' = lock /\ job'[p] = [cron |-> "ship", pc |-> "check"]
  /\ \A q \in Pid : q # p => job'[q] = job[q]

\* one ends,
Goes(p) ==
  /\ p \in Ship
  /\ Ship' = Ship \ {p} /\ Unlinking' = Unlinking \ {p}
  /\ Marked' \subseteq Marked \ {p}
  /\ p \in Unlinking =>
       \/ seen'["crash"] > seen["crash"]
       \/ p \in Marked
       \/ Ship' # {} /\ lock["ship"].age # 0

\* or they stay.
Stays == Ship' = Ship /\ Unlinking' = Unlinking /\ Marked' \subseteq Marked

LEMMA TroublesGrow ==
  ASSUME LockTypeOK, [LNext]_vars
  PROVE  Grown
<1>1. \A k \in Trouble : seen[k] \in Nat
  BY DEF LockTypeOK
<1>2. seen' = seen \/ \E kinds : Suffer(kinds)
  BY DEF LNext, Write, Work, Read, Unlink, Insert, Sweep, Rests, LockNext, CheckCron, Start,
         Refuse, Depose, Pass, Claim, Leave, Crash, StrangerStarts, StrangerEnds, Age,
         vars, lockVars
<1> QED BY <1>1, <1>2, SufferCounts DEF Grown

LEMMA Classes ==
  ASSUME LockTypeOK, LockTypeOK', LockNext
  PROVE  Stays \/ \E p \in Pid : Comes(p) \/ Goes(p)
<1> USE DEF Ship, Instances, Entering, AtWork, Unlinking, Marked
<1>1. {"race", "overlap", "crash", "reuse"} \subseteq Trouble
  BY DEF Trouble
<1>2. \A k \in Trouble : seen[k] \in Nat /\ seen'[k] \in Nat
  BY DEF LockTypeOK
<1>3. \A p \in Pid : p \in Ship <=> job[p].cron = "ship"
  OBVIOUS
<1>4. ASSUME NEW p \in Pid, p \in Ship, job'[p].cron # "ship", \A q \in Pid : q # p => job'[q].cron = job[q].cron /\ (job'[q].pc = "unlink" <=> job[q].pc = "unlink"),
             \A d \in Cron : lock'[d].pid = lock[d].pid \/ lock'[d].pid = NoPid
      PROVE  Ship' = Ship \ {p} /\ Unlinking' = Unlinking \ {p} /\ Marked' \subseteq Marked \ {p}
  BY <1>4, LockAssumption
<1>5. ASSUME \A q \in Pid : job'[q].cron = "ship" <=> job[q].cron = "ship",
             \A q \in Pid : job[q].cron = "ship" => (job'[q].pc = "unlink" <=> job[q].pc = "unlink"),
             \A d \in Cron \ {"ship"} : lock'[d].pid \in {lock[d].pid, NoPid} \/ (lock'[d].pid \in Pid /\ job'[lock'[d].pid].cron # "ship")
      PROVE  Stays
  BY <1>5, LockAssumption DEF Stays
<1>6. ASSUME NEW p \in Pid, NEW c \in Cron, Start(c, p) PROVE Stays \/ Comes(p)
  <2>1. /\ lock' = lock /\ job[p].cron = "none" /\ job'[p].cron = c /\ job'[p].pc = "check"
        /\ \A q \in Pid : q # p => job'[q] = job[q]
    BY <1>6, LockAssumption DEF Start, NewPid, Exists, LockTypeOK
  <2>2. CASE c # "ship"
    BY <2>1, <2>2, <1>5, LockAssumption
  <2>3. CASE c = "ship"
    <3>1. Ship' = Ship \cup {p} /\ Unlinking' = Unlinking /\ p \notin Ship
      BY <2>1, <2>3, LockAssumption
    <3>2. Marked' \subseteq Marked \cup {p}
      BY <2>1, <3>1
    <3>3. p \in Marked' => p \in Kept
      BY <2>1 DEF Kept
    <3>4. p \in Kept => seen'["reuse"] = seen["reuse"] + 1
      BY <1>1, <1>6, SufferCounts DEF Start, Reused
    <3>5. seen'["race"] = seen["race"] + (IF Entering("ship") = {} THEN 0 ELSE 1)
      BY <1>1, <1>2, <1>6, <2>3, SufferCounts DEF Start, Reused
    <3>6. seen'["overlap"] = seen["overlap"] + (IF AtWork("ship") = {} THEN 0 ELSE 1)
      BY <1>1, <1>2, <1>6, <2>3, SufferCounts DEF Start, Reused
    <3>7. job'[p] = [cron |-> "ship", pc |-> "check"]
      BY <1>6, <2>3 DEF Start, LockTypeOK
    <3> HIDE DEF Ship, Marked, Unlinking, Entering, AtWork
    <3> QED BY <1>1, <1>2, <2>1, <3>1, <3>2, <3>3, <3>4, <3>5, <3>6, <3>7 DEF Comes
  <2> QED BY <2>2, <2>3
<1>7. ASSUME NEW p \in Pid, Refuse(p) \/ Leave(p) PROVE Stays \/ Goes(p)
  <2>1. /\ job[p].pc \in {"check", "leave"} /\ job[p].cron \in Cron /\ job'[p] = Free
        /\ \A q \in Pid : q # p => job'[q] = job[q]
    BY <1>7 DEF Refuse, Leave, LockTypeOK
  <2>2. \A d \in Cron : lock'[d].pid = lock[d].pid \/ lock'[d].pid = NoPid
    BY <1>7, <2>1 DEF Refuse, Leave, LockTypeOK, NoFile
  <2>3. CASE job[p].cron = "ship"
    <3>1. Ship' = Ship \ {p} /\ Unlinking' = Unlinking \ {p} /\ Marked' \subseteq Marked \ {p}
      BY <2>1, <2>2, <2>3, <1>3, <1>4, LockAssumption DEF Free
    <3> QED BY <2>1, <2>3, <3>1 DEF Goes
  <2>4. CASE job[p].cron # "ship"
    BY <2>1, <2>2, <2>4, <1>5, LockAssumption DEF Free
  <2> QED BY <2>3, <2>4
<1>8. ASSUME NEW p \in Pid, Pass(p) \/ Claim(p) PROVE Stays
  <2>1. /\ job[p].pc \in {"check", "claim"} /\ job[p].cron \in Cron /\ job'[p].cron = job[p].cron
        /\ job'[p].pc \in {"claim", "work"} /\ \A q \in Pid : q # p => job'[q] = job[q]
    BY <1>8 DEF Pass, Claim, LockTypeOK
  <2>2. \A d \in Cron : lock'[d].pid = lock[d].pid \/ (lock'[d].pid = p /\ d = job[p].cron)
    BY <1>8, <2>1 DEF Pass, Claim, LockTypeOK
  <2> QED BY <1>5, <2>1, <2>2
<1>9. ASSUME NEW p \in Pid, Crash(p) PROVE Stays \/ Goes(p)
  <2>1. lock' = lock /\ job'[p] = Free /\ \A q \in Pid : q # p => job'[q] = job[q]
    BY <1>9 DEF Crash, LockTypeOK
  <2>2. seen'["crash"] = seen["crash"] + 1
    BY <1>1, <1>9, SufferCounts DEF Crash
  <2>3. CASE job[p].cron = "ship"
    <3>1. Ship' = Ship \ {p} /\ Unlinking' = Unlinking \ {p} /\ Marked' \subseteq Marked \ {p}
      BY <2>1, <2>3, <1>3, <1>4, LockAssumption DEF Free
    <3> QED BY <1>1, <1>2, <2>2, <2>3, <3>1 DEF Goes
  <2>4. CASE job[p].cron # "ship"
    BY <2>1, <2>4, <1>5, LockAssumption DEF Free
  <2> QED BY <2>3, <2>4
<1>10. ASSUME NEW p \in Pid, StrangerStarts(p) \/ StrangerEnds(p) PROVE Stays
  BY <1>5, <1>10, LockAssumption DEF StrangerStarts, StrangerEnds, Stranger, Free, Exists, LockTypeOK
<1>11. ASSUME NEW c \in Cron, Age(c) PROVE Stays
  <2>1. \A d \in Cron : lock'[d].pid = lock[d].pid
    BY <1>11 DEF Age, LockTypeOK
  <2> QED BY <1>5, <1>11, <2>1 DEF Age
<1>12. ASSUME NEW p \in Pid, Depose(p) PROVE Stays \/ \E q \in Pid : Goes(q)
  <2>1. PICK c \in Cron : c = job[p].cron
    BY <1>12 DEF Depose, LockTypeOK
  <2>2. PICK v \in Pid : v = lock[c].pid
    BY <1>12, <2>1 DEF Depose, Held, Exists
  <2>3. /\ job[p].pc = "check" /\ lock[c].age = 2 /\ lock' = lock /\ job'[v] = Free
        /\ p # v => job'[p].cron = c /\ job'[p].pc = "claim"
        /\ \A q \in Pid : q # v /\ q # p => job'[q] = job[q]
    BY <1>12, <2>1, <2>2 DEF Depose, Expired, LockTypeOK
  <2>4. CASE job[v].cron = "ship"
    <3>1. Ship' = Ship \ {v} /\ Unlinking' = Unlinking \ {v} /\ Marked' \subseteq Marked \ {v}
      BY <2>1, <2>3, <2>4, <1>3, <1>4, LockAssumption DEF Free
    <3>2. ASSUME c # "ship" PROVE v \in Marked
      BY <2>1, <2>2, <2>4, <3>2
    <3>3. ASSUME c = "ship", v \in Unlinking PROVE p \in Ship' /\ lock["ship"].age # 0
      BY <2>1, <2>2, <2>3, <3>3
    <3> QED BY <2>4, <3>1, <3>2, <3>3 DEF Goes
  <2>5. CASE job[v].cron # "ship"
    BY <2>1, <2>3, <2>5, <1>5, LockAssumption DEF Free
  <2> QED BY <2>4, <2>5
<1> QED BY <1>6, <1>7, <1>8, <1>9, <1>10, <1>11, <1>12 DEF LockNext, CheckCron

\* The lock is the fresh one of an instance at work, and who has come since will
\* find it.
Guarded ==
  /\ AtWork("ship") # {} => lock["ship"].pid \in AtWork("ship") /\ lock["ship"].age = 0
  /\ seen["overlap"] > 0 => /\ AtWork("ship") # {} /\ Entering("ship") # {}
                            /\ \A p \in Entering("ship") : job[p].pc = "check"

\* A new instance finds it so,
LEMMA ComesGuarded ==
  ASSUME LockTypeOK, LockTypeOK', Guarded, NEW p \in Pid, Comes(p), Met' <= Met + 1
  PROVE  Guarded'
<1>1. {"race", "overlap"} \subseteq Trouble
  BY DEF Trouble
<1>2. \A k \in Trouble : seen[k] \in Nat /\ seen'[k] \in Nat
  BY DEF LockTypeOK
<1>3. p \notin Ship /\ job'[p].cron = "ship" /\ job'[p].pc = "check"
      /\ \A q \in Pid : q # p => job'[q] = job[q]
  BY DEF Comes
<1>4. AtWork("ship")' = AtWork("ship") /\ Entering("ship")' = Entering("ship") \cup {p}
  BY <1>3 DEF Ship, Instances, AtWork, Entering
<1>5. Entering("ship") = {} \/ AtWork("ship") = {}
  BY <1>1, <1>2 DEF Comes, Met
<1>6. p \in Entering("ship")' /\ \A q \in Entering("ship") : job'[q] = job[q]
  BY <1>3, <1>4 DEF Ship, Instances, Entering
<1>7. lock' = lock /\ seen'["overlap"] = seen["overlap"] + (IF AtWork("ship") = {} THEN 0 ELSE 1)
  BY DEF Comes
<1> QED BY <1>1, <1>2, <1>3, <1>4, <1>5, <1>6, <1>7 DEF Guarded

\* one that goes on leaves it so, undisturbed,
LEMMA StaysGuarded ==
  ASSUME LockTypeOK, LockTypeOK', LockNext, Guarded, Stays,
         seen'["overlap"] = seen["overlap"], seen'["slow"] = 0
  PROVE  Guarded'
<1> USE DEF Ship, Instances, Entering, AtWork
<1>1. {"overlap", "slow"} \subseteq Trouble
  BY DEF Trouble
<1>2. \A k \in Trouble : seen[k] \in Nat /\ seen'[k] \in Nat
  BY DEF LockTypeOK
<1>3. "ship" \notin Cron => Ship = {} /\ Ship' = {}
  BY DEF LockTypeOK
<1>4. Ship' = Ship
  BY DEF Stays
<1>5. ASSUME \A q \in Pid : job[q].cron = "ship" => job'[q] = job[q],
             "ship" \in Cron => lock'["ship"] = lock["ship"]
      PROVE  Guarded'
  <2>1. AtWork("ship")' = AtWork("ship") /\ Entering("ship")' = Entering("ship")
    BY <1>4, <1>5
  <2>2. \A q \in Entering("ship") : job'[q] = job[q]
    BY <1>5
  <2> QED BY <1>3, <1>5, <2>1, <2>2 DEF Guarded
<1>6. ASSUME AtWork("ship") = {}, AtWork("ship")' = {} PROVE Guarded'
  BY <1>1, <1>2, <1>6 DEF Guarded
<1>7. ASSUME NEW p \in Pid, NEW c \in Cron, Start(c, p) PROVE Guarded'
  <2>1. lock' = lock /\ job[p].cron = "none" /\ job'[p].cron = c
        /\ \A q \in Pid : q # p => job'[q] = job[q]
    BY <1>7, LockAssumption DEF Start, NewPid, Exists, LockTypeOK
  <2> QED BY <1>4, <1>5, <2>1, LockAssumption
<1>8. ASSUME NEW p \in Pid, Refuse(p) \/ Leave(p) PROVE Guarded'
  <2>1. /\ job[p].cron \in Cron /\ job'[p] = Free /\ \A q \in Pid : q # p => job'[q] = job[q]
        /\ \A d \in Cron : d # job[p].cron => lock'[d] = lock[d]
    BY <1>8 DEF Refuse, Leave, LockTypeOK
  <2>2. job[p].cron # "ship"
    BY <1>4, <2>1, LockAssumption DEF Free
  <2> QED BY <1>5, <2>1, <2>2
<1>9. ASSUME NEW p \in Pid, Pass(p) \/ Depose(p) PROVE Guarded'
  <2>1. /\ job[p].pc = "check" /\ job[p].cron \in Cron /\ lock' = lock
        /\ \A q \in Pid : q # p => job'[q] \in {job[q], Free}
        /\ job'[p] = Free \/ (job'[p].cron = job[p].cron /\ job'[p].pc = "claim")
    BY <1>9 DEF Pass, Depose, LockTypeOK
  <2>2. CASE job[p].cron # "ship"
    <3>1. \A q \in Pid : job[q].cron = "ship" => job'[q] = job[q]
      BY <1>4, <2>1, <2>2, LockAssumption DEF Free
    <3> QED BY <1>5, <2>1, <3>1
  <2>3. CASE job[p].cron = "ship"
    <3>1. AtWork("ship") = {}
      <4> SUFFICES ASSUME AtWork("ship") # {} PROVE FALSE
        OBVIOUS
      <4>1. lock["ship"].pid \in AtWork("ship") /\ lock["ship"].age = 0
        BY DEF Guarded
      <4>2. Exists(lock["ship"].pid)
        BY <4>1 DEF Exists, LockTypeOK
      <4> QED BY <1>9, <2>3, <4>1, <4>2 DEF Pass, Depose, Held, Expired
    <3>2. AtWork("ship")' = {}
      BY <2>1, <3>1 DEF Free
    <3> QED BY <1>6, <3>1, <3>2
  <2> QED BY <2>2, <2>3
<1>10. ASSUME NEW p \in Pid, Claim(p) PROVE Guarded'
  <2>1. /\ job[p].pc = "claim" /\ job[p].cron \in Cron
        /\ job'[p].cron = job[p].cron /\ job'[p].pc = "work"
        /\ \A q \in Pid : q # p => job'[q] = job[q]
        /\ lock'[job[p].cron] = [pid |-> p, age |-> 0]
        /\ \A d \in Cron : d # job[p].cron => lock'[d] = lock[d]
    BY <1>10 DEF Claim, LockTypeOK
  <2>2. CASE job[p].cron # "ship"
    BY <1>5, <2>1, <2>2
  <2>3. CASE job[p].cron = "ship"
    <3>1. p \in AtWork("ship")' /\ lock'["ship"].pid = p /\ lock'["ship"].age = 0
      BY <2>1, <2>3
    <3>2. seen["overlap"] = 0
      BY <1>1, <1>2, <2>1, <2>3 DEF Guarded
    <3> QED BY <3>1, <3>2 DEF Guarded
  <2> QED BY <2>2, <2>3
<1>11. ASSUME NEW p \in Pid, Crash(p) \/ StrangerStarts(p) \/ StrangerEnds(p) PROVE Guarded'
  <2>1. lock' = lock /\ job'[p] \in {Free, Stranger} /\ \A q \in Pid : q # p => job'[q] = job[q]
    BY <1>11 DEF Crash, StrangerStarts, StrangerEnds, LockTypeOK
  <2>2. job[p].cron # "ship"
    BY <1>4, <2>1, LockAssumption DEF Free, Stranger
  <2> QED BY <1>5, <2>1, <2>2
<1>12. ASSUME NEW c \in Cron, Age(c) PROVE Guarded'
  <2>1. job' = job /\ \A d \in Cron : d # c => lock'[d] = lock[d]
    BY <1>12 DEF Age, LockTypeOK
  <2>2. CASE c # "ship"
    BY <1>5, <2>1, <2>2
  <2>3. CASE c = "ship"
    <3>1. AtWork("ship") # {} => seen'["slow"] = seen["slow"] + 1
      BY <1>1, <1>12, <2>3, SufferCounts DEF Age
    <3>2. AtWork("ship") = {}
      BY <1>1, <1>2, <3>1
    <3> QED BY <1>6, <2>1, <3>2
  <2> QED BY <2>2, <2>3
<1> QED BY <1>7, <1>8, <1>9, <1>10, <1>11, <1>12 DEF LockNext, CheckCron

\* and the last one that ends, too.
LEMMA LastGuarded ==
  ASSUME LockTypeOK, Guarded, NEW p \in Pid, Goes(p), Ship' = {}, seen'["overlap"] = seen["overlap"]
  PROVE  Guarded'
<1>1. Ship = {p} /\ AtWork("ship")' = {}
  BY DEF Goes, Ship, Instances
<1>2. seen["overlap"] \in Nat
  BY DEF LockTypeOK, Trouble
<1>3. ~ (AtWork("ship") # {} /\ Entering("ship") # {})
  BY <1>1 DEF Ship, Instances, AtWork, Entering
<1> QED BY <1>1, <1>2, <1>3 DEF Guarded

Living == IF Ship = {} THEN 0 ELSE 1
Yet == Ship \ Unlinking
Copies(e) == table[e] + Cardinality(Yet) + Cardinality(Marked)
Bound == Living + Met + Deaths

Full ==
  \/ Cardinality(Ship) = Living + Met
  \/ log = "requests" /\ \E e \in Entry : InFile(e) /\ Copies(e) = Bound

Counted ==
  /\ IsFiniteSet(Ship)
  /\ Cardinality(Ship) <= Living + Met
  /\ Cardinality(Marked) <= seen["reuse"]
  /\ log = "requests" => \A e \in Entry : InFile(e) => Copies(e) <= Bound
  /\ seen["slow"] = 0 /\ Full => Guarded

LEMMA Numbers ==
  ASSUME NEW S, IsFiniteSet(S), NEW U, NEW M \in SUBSET S
  PROVE  /\ IsFiniteSet(S \ U) /\ IsFiniteSet(M)
         /\ Cardinality(S) \in Nat /\ Cardinality(S \ U) \in Nat /\ Cardinality(M) \in Nat
         /\ Cardinality(S \ U) <= Cardinality(S)
         /\ S = {} => Cardinality(S) = 0 /\ Cardinality(S \ U) = 0
         /\ S # {} => Cardinality(S) >= 1
<1>1. S \ U \in SUBSET S
  OBVIOUS
<1>2. IsFiniteSet(S \ U) /\ IsFiniteSet(M) /\ Cardinality(S \ U) <= Cardinality(S)
  BY <1>1, FS_Subset
<1>3. Cardinality(S) \in Nat /\ Cardinality(S \ U) \in Nat /\ Cardinality(M) \in Nat
  BY <1>2, FS_CardinalityType
<1>4. (Cardinality(S) = 0 <=> S = {}) /\ (Cardinality(S \ U) = 0 <=> S \ U = {})
  BY <1>2, FS_EmptySet
<1> QED BY <1>2, <1>3, <1>4

LEMMA SetsCounted ==
  ASSUME IsFiniteSet(Ship)
  PROVE  /\ Unlinking \subseteq Ship /\ Marked \subseteq Ship
         /\ IsFiniteSet(Yet) /\ IsFiniteSet(Marked)
         /\ Cardinality(Ship) \in Nat /\ Cardinality(Yet) \in Nat /\ Cardinality(Marked) \in Nat
         /\ Cardinality(Yet) <= Cardinality(Ship)
         /\ Ship = {} => Cardinality(Ship) = 0 /\ Cardinality(Yet) = 0
         /\ Ship # {} => Cardinality(Ship) >= 1
<1>1. Unlinking \subseteq Ship /\ Marked \subseteq Ship
  BY DEF Unlinking, Marked, Ship, Instances, AtWork, Entering
<1> QED BY <1>1, Numbers DEF Yet

LEMMA NumbersNext ==
  ASSUME IsFiniteSet(Ship)'
  PROVE  /\ Cardinality(Ship)' \in Nat /\ Cardinality(Yet)' \in Nat /\ Cardinality(Marked)' \in Nat
         /\ Ship' = {} => Cardinality(Ship)' = 0
         /\ Ship' # {} => Cardinality(Ship)' >= 1
<1>1. Marked' \in SUBSET (Ship')
  BY DEF Marked
<1> QED BY <1>1, Numbers DEF Yet

\* Numbers of instances before and after a step,
LEMMA ComesCounted ==
  ASSUME IsFiniteSet(Ship), NEW p \in Pid, Comes(p)
  PROVE  /\ IsFiniteSet(Ship)' /\ Ship' # {}
         /\ Cardinality(Ship)' = Cardinality(Ship) + 1
         /\ Cardinality(Yet)' = Cardinality(Yet) + 1
         /\ Cardinality(Marked)' <= Cardinality(Marked) + (IF p \in Marked' THEN 1 ELSE 0)
<1>1. p \notin Ship /\ Ship' = Ship \cup {p} /\ Unlinking' = Unlinking /\ Marked' \subseteq Marked \cup {p}
  BY DEF Comes
<1>2. Unlinking \subseteq Ship /\ Marked \subseteq Ship /\ IsFiniteSet(Yet) /\ IsFiniteSet(Marked)
  BY SetsCounted
<1>3. IsFiniteSet(Ship \cup {p}) /\ Cardinality(Ship \cup {p}) = Cardinality(Ship) + 1
  BY <1>1, FS_AddElement
<1>4. Yet' = Yet \cup {p} /\ p \notin Yet
  BY <1>1, <1>2 DEF Yet
<1>5. Cardinality(Yet \cup {p}) = Cardinality(Yet) + 1
  BY <1>2, <1>4, FS_AddElement
<1>6. Cardinality(Marked)' <= Cardinality(Marked) + (IF p \in Marked' THEN 1 ELSE 0)
  <2>1. IsFiniteSet(Marked \cup {p}) /\ Cardinality(Marked \cup {p}) = Cardinality(Marked) + 1
    BY <1>1, <1>2, FS_AddElement
  <2>2. CASE p \in Marked'
    <3>1. Cardinality(Marked') <= Cardinality(Marked \cup {p})
      BY <1>1, <2>1, FS_Subset
    <3> QED BY <2>1, <2>2, <3>1
  <2>3. CASE p \notin Marked'
    <3>1. Marked' \subseteq Marked
      BY <1>1, <2>3
    <3>2. Cardinality(Marked') <= Cardinality(Marked) /\ Cardinality(Marked) \in Nat
      BY <1>2, <3>1, FS_Subset, FS_CardinalityType
    <3> QED BY <2>3, <3>2
  <2> QED BY <2>2, <2>3
<1> QED BY <1>1, <1>3, <1>4, <1>5, <1>6

LEMMA GoesCounted ==
  ASSUME IsFiniteSet(Ship), NEW p \in Pid, Goes(p)
  PROVE  /\ IsFiniteSet(Ship)' /\ Ship # {}
         /\ Cardinality(Ship)' = Cardinality(Ship) - 1
         /\ Cardinality(Yet)' = Cardinality(Yet) - (IF p \in Unlinking THEN 0 ELSE 1)
         /\ Cardinality(Marked)' <= Cardinality(Marked) - (IF p \in Marked THEN 1 ELSE 0)
<1>1. p \in Ship /\ Ship' = Ship \ {p} /\ Unlinking' = Unlinking \ {p} /\ Marked' \subseteq Marked \ {p}
  BY DEF Goes
<1>2. Unlinking \subseteq Ship /\ Marked \subseteq Ship /\ IsFiniteSet(Yet) /\ IsFiniteSet(Marked)
  BY SetsCounted
<1>3. IsFiniteSet(Ship \ {p}) /\ Cardinality(Ship \ {p}) = Cardinality(Ship) - 1
  BY <1>1, FS_RemoveElement
<1>4. Yet' = Yet \ {p} /\ (p \in Yet <=> p \notin Unlinking)
  BY <1>1, <1>2 DEF Yet
<1>5. Cardinality(Yet \ {p}) = Cardinality(Yet) - (IF p \in Unlinking THEN 0 ELSE 1)
  <2>1. Cardinality(Yet) \in Nat
    BY <1>2, FS_CardinalityType
  <2>2. Cardinality(Yet \ {p}) = IF p \in Yet THEN Cardinality(Yet) - 1 ELSE Cardinality(Yet)
    BY <1>2, FS_RemoveElement
  <2> QED BY <1>4, <2>1, <2>2
<1>6. Cardinality(Marked') <= Cardinality(Marked) - (IF p \in Marked THEN 1 ELSE 0)
  <2>1. /\ IsFiniteSet(Marked \ {p})
        /\ Cardinality(Marked \ {p}) = IF p \in Marked THEN Cardinality(Marked) - 1 ELSE Cardinality(Marked)
    BY <1>2, FS_RemoveElement
  <2>2. Cardinality(Marked') <= Cardinality(Marked \ {p})
    BY <1>1, <2>1, FS_Subset
  <2>3. Cardinality(Marked) \in Nat
    BY <1>2, FS_CardinalityType
  <2> QED BY <2>1, <2>2, <2>3
<1> QED BY <1>1, <1>3, <1>4, <1>5, <1>6

LEMMA StaysCounted ==
  ASSUME IsFiniteSet(Ship), Stays
  PROVE  /\ IsFiniteSet(Ship)'
         /\ Cardinality(Ship)' = Cardinality(Ship) /\ Cardinality(Yet)' = Cardinality(Yet)
         /\ Cardinality(Marked)' <= Cardinality(Marked)
<1>1. Ship' = Ship /\ Yet' = Yet /\ Marked' \subseteq Marked
  BY DEF Stays, Yet
<1>2. Cardinality(Marked') <= Cardinality(Marked)
  BY <1>1, SetsCounted, FS_Subset
<1> QED BY <1>1, <1>2

\* A step of a lock keeps the count,
LEMMA LockCounted ==
  ASSUME LockTypeOK, LockTypeOK', table \in [Entry -> Nat], LockNext, Carries, Counted
  PROVE  Counted'
<1>1. /\ seen["race"] \in Nat /\ seen["overlap"] \in Nat /\ seen["crash"] \in Nat
      /\ seen["reuse"] \in Nat /\ seen["slow"] \in Nat
      /\ seen'["race"] \in Nat /\ seen'["overlap"] \in Nat /\ seen'["crash"] \in Nat
      /\ seen'["reuse"] \in Nat /\ seen'["slow"] \in Nat
      /\ seen'["race"] >= seen["race"] /\ seen'["overlap"] >= seen["overlap"]
      /\ seen'["crash"] >= seen["crash"] /\ seen'["reuse"] >= seen["reuse"]
      /\ seen'["slow"] >= seen["slow"]
  BY TroublesGrow DEF LNext, Grown, Trouble
<1>2. UNCHANGED <<log, file, table>> /\ \A e \in Entry : InFile(e)' <=> InFile(e)
  BY DEF Carries, InFile
<1>3. /\ Cardinality(Ship) \in Nat /\ Cardinality(Yet) \in Nat /\ Cardinality(Marked) \in Nat
      /\ Cardinality(Yet) <= Cardinality(Ship)
      /\ Ship = {} => Cardinality(Ship) = 0 /\ Cardinality(Yet) = 0
      /\ Ship # {} => Cardinality(Ship) >= 1
  BY SetsCounted DEF Counted
<1>4. /\ Cardinality(Ship) <= Living + Met /\ Cardinality(Marked) <= seen["reuse"]
      /\ log = "requests" => \A e \in Entry : InFile(e) => Copies(e) <= Bound
      /\ \A e \in Entry : table[e] \in Nat
  BY DEF Counted
<1>5. ASSUME Stays PROVE Counted'
  <2>1. /\ IsFiniteSet(Ship)' /\ Living' = Living
        /\ Cardinality(Ship)' = Cardinality(Ship) /\ Cardinality(Yet)' = Cardinality(Yet)
        /\ Cardinality(Marked)' <= Cardinality(Marked)
    BY <1>5, StaysCounted DEF Counted, Stays, Living
  <2>2. Cardinality(Marked)' \in Nat /\ Living \in 0..1
    BY <2>1, NumbersNext DEF Living
  <2>3. Cardinality(Ship)' <= Living' + Met' /\ Cardinality(Marked)' <= seen'["reuse"]
    BY <1>1, <1>3, <1>4, <2>1, <2>2 DEF Met
  <2>4. \A e \in Entry : Copies(e)' <= Copies(e) /\ Copies(e) \in Nat /\ Copies(e)' \in Nat
    BY <1>2, <1>3, <1>4, <2>1, <2>2 DEF Copies
  <2>5. Bound' \in Nat /\ Bound \in Nat /\ Bound' >= Bound /\ (Bound' = Bound => Met' = Met)
    <3>1. Met \in Nat /\ Met' \in Nat /\ Met' >= Met
      BY <1>1 DEF Met
    <3>2. Deaths \in Nat /\ Deaths' \in Nat /\ Deaths' >= Deaths
      BY <1>1 DEF Deaths
    <3>3. Living \in Nat /\ Living' = Living
      BY <2>1, <2>2
    <3>4. \A l, m, d, m2, d2 \in Nat : m2 >= m /\ d2 >= d =>
            /\ l + m + d \in Nat /\ l + m2 + d2 \in Nat /\ l + m2 + d2 >= l + m + d
            /\ l + m2 + d2 = l + m + d => m2 = m
      OBVIOUS
    <3> QED BY <3>1, <3>2, <3>3, <3>4 DEF Bound
  <2>6. log' = "requests" => \A e \in Entry : InFile(e)' => Copies(e)' <= Bound'
    BY <1>2, <1>4, <2>4, <2>5
  <2>7. ASSUME Full' PROVE Full /\ Met' = Met
    <3>1. CASE Cardinality(Ship)' = Living' + Met'
      BY <1>1, <1>3, <1>4, <2>1, <2>2, <3>1 DEF Full, Met
    <3>2. ASSUME NEW e \in Entry, log = "requests", InFile(e), Copies(e)' = Bound'
          PROVE  Full /\ Met' = Met
      BY <1>4, <2>4, <2>5, <3>2 DEF Full
    <3> QED BY <1>2, <2>7, <3>1, <3>2 DEF Full
  <2>8. ASSUME seen'["slow"] = 0, Full' PROVE Guarded'
    <3>1. seen["slow"] = 0 /\ Guarded
      BY <1>1, <2>7, <2>8 DEF Counted
    <3>2. seen'["overlap"] = seen["overlap"]
      BY <1>1, <2>7, <2>8 DEF Met
    <3> QED BY <1>5, <2>8, <3>1, <3>2, StaysGuarded
  <2> QED BY <2>1, <2>3, <2>6, <2>8 DEF Counted
<1>6. ASSUME NEW p \in Pid, Comes(p) PROVE Counted'
  <2>1. /\ IsFiniteSet(Ship)' /\ Living' = 1
        /\ Cardinality(Ship)' = Cardinality(Ship) + 1 /\ Cardinality(Yet)' = Cardinality(Yet) + 1
        /\ Cardinality(Marked)' <= Cardinality(Marked) + (IF p \in Marked' THEN 1 ELSE 0)
    BY <1>6, ComesCounted DEF Counted, Living
  <2>2. Cardinality(Marked)' \in Nat /\ Living \in 0..1 /\ (Ship = {} <=> Living = 0)
    BY <2>1, NumbersNext DEF Living
  <2>3. Ship # {} => Entering("ship") # {} \/ AtWork("ship") # {}
    BY DEF Ship, Instances
  <2>4. Met \in Nat /\ Met' \in Nat /\ Met' >= Met /\ (Living = 1 => Met' >= Met + 1)
    BY <1>1, <1>6, <2>2, <2>3 DEF Comes, Met
  <2>5. /\ Cardinality(Marked)' <= Cardinality(Marked) + (seen'["reuse"] - seen["reuse"])
        /\ Cardinality(Marked)' <= seen'["reuse"]
    BY <1>1, <1>3, <1>4, <1>6, <2>1, <2>2 DEF Comes
  <2>6. Cardinality(Ship)' <= Living' + Met'
    BY <1>3, <1>4, <2>1, <2>2, <2>4
  <2>7. \A e \in Entry : /\ Copies(e) \in Nat /\ Copies(e)' \in Nat
                         /\ Copies(e)' <= Copies(e) + 1 + (seen'["reuse"] - seen["reuse"])
    BY <1>1, <1>2, <1>3, <1>4, <2>1, <2>2, <2>5 DEF Copies
  <2>8. /\ Bound \in Nat /\ Bound' \in Nat
        /\ Bound' >= Bound + 1 + (seen'["reuse"] - seen["reuse"])
        /\ Bound' = Bound + 1 + (seen'["reuse"] - seen["reuse"]) => Met' <= Met + 1
    BY <1>1, <2>1, <2>2, <2>4 DEF Bound, Deaths
  <2>9. log' = "requests" => \A e \in Entry : InFile(e)' => Copies(e)' <= Bound'
    BY <1>1, <1>2, <1>4, <2>7, <2>8
  <2>10. ASSUME Full' PROVE Full /\ Met' <= Met + 1
    <3>1. CASE Cardinality(Ship)' = Living' + Met'
      BY <1>3, <1>4, <2>1, <2>2, <2>4, <3>1 DEF Full
    <3>2. ASSUME NEW e \in Entry, log = "requests", InFile(e), Copies(e)' = Bound'
          PROVE  Full /\ Met' <= Met + 1
      <4>1. Copies(e) <= Bound
        BY <1>4, <3>2
      <4>2. Copies(e) = Bound /\ Bound' = Bound + 1 + (seen'["reuse"] - seen["reuse"])
        BY <1>1, <2>7, <2>8, <3>2, <4>1
      <4> QED BY <2>8, <3>2, <4>2 DEF Full
    <3> QED BY <1>2, <2>10, <3>1, <3>2 DEF Full
  <2>11. ASSUME seen'["slow"] = 0, Full' PROVE Guarded'
    <3>1. Guarded
      BY <1>1, <2>10, <2>11 DEF Counted
    <3> QED BY <1>6, <2>10, <2>11, <3>1, ComesGuarded
  <2> QED BY <2>1, <2>5, <2>6, <2>9, <2>11 DEF Counted
<1>7. ASSUME NEW p \in Pid, Goes(p) PROVE Counted'
  <2>1. /\ IsFiniteSet(Ship)' /\ Living = 1
        /\ Cardinality(Ship)' = Cardinality(Ship) - 1
        /\ Cardinality(Yet)' = Cardinality(Yet) - (IF p \in Unlinking THEN 0 ELSE 1)
        /\ Cardinality(Marked)' <= Cardinality(Marked) - (IF p \in Marked THEN 1 ELSE 0)
    BY <1>7, GoesCounted DEF Counted, Living
  <2>2. /\ Cardinality(Marked)' \in Nat /\ Cardinality(Yet)' \in Nat
        /\ Living' \in 0..1 /\ (Ship' = {} <=> Living' = 0)
        /\ Ship' = {} => Cardinality(Ship)' = 0
        /\ Ship' # {} => Cardinality(Ship)' >= 1
    BY <2>1, NumbersNext DEF Living
  <2>3. Met \in Nat /\ Met' \in Nat /\ Met' >= Met
    BY <1>1 DEF Met
  <2>4. Cardinality(Ship)' <= Living' + Met' /\ Cardinality(Marked)' <= seen'["reuse"]
    BY <1>1, <1>3, <1>4, <2>1, <2>2, <2>3
  <2>5. /\ Deaths \in Nat /\ Deaths' \in Nat /\ Deaths' >= Deaths
        /\ Bound = 1 + Met + Deaths /\ Bound' = Living' + Met' + Deaths'
    BY <1>1, <2>1 DEF Deaths, Bound
  <2>6. \A e \in Entry : Copies(e) \in Nat /\ Copies(e)' \in Nat /\ Copies(e)' <= Copies(e)
    BY <1>2, <1>3, <1>4, <2>1, <2>2 DEF Copies
  <2>7. ASSUME p \notin Unlinking \/ p \in Marked
        PROVE  \A e \in Entry : Copies(e)' <= Copies(e) - 1
    BY <1>2, <1>3, <1>4, <2>1, <2>2, <2>7 DEF Copies
  <2>8. \/ p \notin Unlinking \/ p \in Marked
        \/ Deaths' >= Deaths + 1
        \/ Living' = 1 /\ p \in AtWork("ship") /\ lock["ship"].age # 0
    <3>1. p \in Unlinking => p \in AtWork("ship")
      BY DEF Unlinking, AtWork
    <3> QED BY <1>1, <1>7, <2>2, <3>1 DEF Goes, Deaths
  <2>9. ASSUME NEW e \in Entry, log = "requests", InFile(e)
        PROVE  /\ Copies(e)' <= Bound'
               /\ Copies(e)' = Bound' => /\ Copies(e) = Bound /\ Met' = Met
                                        /\ \/ Living' = 0
                                           \/ p \in AtWork("ship") /\ lock["ship"].age # 0
    <3>1. Copies(e) <= 1 + Met + Deaths
      BY <1>4, <2>5, <2>9
    <3>2. CASE p \notin Unlinking \/ p \in Marked
      BY <2>2, <2>3, <2>5, <2>6, <2>7, <3>1, <3>2
    <3>3. CASE Deaths' >= Deaths + 1
      BY <2>2, <2>3, <2>5, <2>6, <3>1, <3>3
    <3>4. CASE Living' = 1 /\ p \in AtWork("ship") /\ lock["ship"].age # 0
      BY <2>3, <2>5, <2>6, <3>1, <3>4
    <3> QED BY <2>8, <3>2, <3>3, <3>4
  <2>10. ASSUME Full', seen'["slow"] = 0 PROVE Full /\ Met' = Met /\ Ship' = {}
    <3>1. CASE Cardinality(Ship)' = Living' + Met'
      BY <1>3, <1>4, <2>1, <2>2, <2>3, <3>1 DEF Full
    <3>2. ASSUME NEW e \in Entry, log = "requests", InFile(e), Copies(e)' = Bound'
          PROVE  Full /\ Met' = Met /\ Ship' = {}
      <4>1. Full /\ Met' = Met
        BY <2>9, <3>2 DEF Full
      <4>2. Guarded
        BY <1>1, <2>10, <4>1 DEF Counted
      <4> QED BY <2>2, <2>9, <3>2, <4>1, <4>2 DEF Guarded
    <3> QED BY <1>2, <2>10, <3>1, <3>2 DEF Full
  <2>11. ASSUME seen'["slow"] = 0, Full' PROVE Guarded'
    <3>1. Guarded /\ Ship' = {}
      BY <1>1, <2>10, <2>11 DEF Counted
    <3>2. seen'["overlap"] = seen["overlap"]
      BY <1>1, <2>10, <2>11 DEF Met
    <3> QED BY <1>7, <3>1, <3>2, LastGuarded
  <2> QED BY <1>2, <2>1, <2>4, <2>9, <2>11 DEF Counted
<1> QED BY <1>5, <1>6, <1>7, Classes

Holders(e) == {p \in Pid : \E i \in 1..Len(got[p]) : got[p][i] = e}

\* Only what was written is anywhere.
Known == \A e \in Entry : InFile(e) \/ InHand(e) \/ table[e] > 0 => e <= written

CInv == TInv /\ Known /\ Counted

\* A step that moves no instance but may settle one of them counts no more.
LEMMA SettlesCounted ==
  ASSUME LockTypeOK, LockTypeOK', Counted,
         Ship' = Ship, AtWork("ship")' = AtWork("ship"), Marked' \subseteq Marked,
         \A p \in Entering("ship") : job'[p] = job[p],
         "ship" \in Cron /\ lock["ship"].age = 0 => lock'["ship"] = lock["ship"],
         \A k \in Trouble \ {"fail"} : seen'[k] = seen[k],
         log' = "requests" =>
           \A e \in Entry : InFile(e)' => InFile(e) /\ Copies(e)' <= Copies(e) /\ Copies(e)' \in Nat /\ Copies(e) \in Nat,
         log' = log
  PROVE  Counted'
<1>1. /\ seen["race"] \in Nat /\ seen["overlap"] \in Nat /\ seen["crash"] \in Nat
      /\ seen["reuse"] \in Nat /\ Living' = Living /\ Living \in Nat
      /\ seen'["race"] = seen["race"] /\ seen'["overlap"] = seen["overlap"]
      /\ seen'["crash"] = seen["crash"] /\ seen'["reuse"] = seen["reuse"] /\ seen'["slow"] = seen["slow"]
  BY DEF LockTypeOK, Trouble, Living
<1>2. Met' = Met /\ Met \in Nat /\ Bound' = Bound /\ Bound \in Nat
  BY <1>1 DEF Met, Bound, Deaths
<1>3. IsFiniteSet(Ship) /\ IsFiniteSet(Ship)' /\ Cardinality(Ship)' = Cardinality(Ship)
  BY DEF Counted
<1>4. Cardinality(Marked)' <= Cardinality(Marked) /\ Cardinality(Marked)' \in Nat /\ Cardinality(Marked) \in Nat
  BY <1>3, SetsCounted, NumbersNext, FS_Subset
<1>5. Cardinality(Ship)' <= Living' + Met' /\ Cardinality(Marked)' <= seen'["reuse"]
  BY <1>1, <1>2, <1>3, <1>4 DEF Counted
<1>6. log' = "requests" => \A e \in Entry : InFile(e)' => Copies(e)' <= Bound'
  BY <1>2 DEF Counted
<1>7. Full' => Full
  <2>1. CASE Cardinality(Ship)' = Living' + Met'
    BY <1>1, <1>2, <1>3, <2>1 DEF Full
  <2>2. ASSUME NEW e \in Entry, log' = "requests", InFile(e)', Copies(e)' = Bound'
        PROVE  Full
    <3>1. Copies(e) <= Bound
      BY <2>2 DEF Counted
    <3> QED BY <1>2, <2>2, <3>1 DEF Full
  <2> QED BY <2>1, <2>2 DEF Full
<1>8. Guarded => Guarded'
  <2>1. Entering("ship")' = Entering("ship")
    BY DEF Ship, Instances, Entering, AtWork
  <2>2. AtWork("ship") # {} => "ship" \in Cron
    BY DEF AtWork, LockTypeOK
  <2> QED BY <1>1, <2>1, <2>2 DEF Guarded
<1> QED BY <1>1, <1>3, <1>5, <1>6, <1>7, <1>8 DEF Counted

\* The steps of an instance count no more: what it stores, it will not store again.
LEMMA WorkCounted ==
  ASSUME CInv, TInv', NEW p \in Pid, Work(p)
  PROVE  Counted'
<1>1. TypeOK /\ LockTypeOK /\ LockTypeOK' /\ Counted /\ HandEmpty
  BY DEF CInv, TInv, TypeOK
<1>2. job[p].cron # "none" /\ job[p].pc \in {"work", "unlink", "insert"} /\ log' = log
  BY DEF Work, Read, Unlink, Insert, Sweep
<1>3. PICK pc \in {"unlink", "insert", "leave"} : Goto(p, pc)
  BY DEF Work, Read, Unlink, Insert, Sweep
<1>4. job'[p] = [job[p] EXCEPT !.pc = pc] /\ \A q \in Pid : q # p => job'[q] = job[q]
  BY <1>1, <1>2, <1>3, GotoMoves DEF Pcs
<1>5. job'[p].cron = job[p].cron /\ job'[p].pc = pc
  <2>1. job[p] \in Jobs
    BY <1>1 DEF LockTypeOK, Jobs, Pcs
  <2> QED BY <1>4, <2>1 DEF Jobs
<1>6. /\ Ship' = Ship /\ AtWork("ship")' = AtWork("ship")
      /\ \A q \in Entering("ship") : job'[q] = job[q]
  <2>1. \A q \in Pid : /\ q \in AtWork("ship")' <=> q \in AtWork("ship")
                       /\ q \in Entering("ship")' <=> q \in Entering("ship")
    BY <1>2, <1>4, <1>5 DEF Entering, AtWork
  <2>2. AtWork("ship")' = AtWork("ship") /\ Entering("ship")' = Entering("ship")
    BY <2>1 DEF Entering, AtWork
  <2>3. p \notin Entering("ship")
    BY <1>2 DEF Entering
  <2> QED BY <1>4, <2>2, <2>3 DEF Ship, Instances, Entering
<1>7. \A d \in Cron : /\ lock'[d] = lock[d] \/ lock'[d] = NoFile
                      /\ lock[d].age = 0 => lock'[d] = lock[d]
  <2>1. lock' = lock \/ lock' = Swept
    BY DEF Work, Read, Unlink, Insert, Sweep
  <2> QED BY <2>1 DEF Swept
<1>8. Marked' \subseteq Marked
  BY <1>6, <1>7, LockAssumption DEF Marked, NoFile, Ship, Instances, AtWork, Entering
<1>9. \A k \in Trouble \ {"fail"} : seen'[k] = seen[k]
  <2>1. seen' = seen \/ Suffer({"fail"})
    BY DEF Work, Read, Unlink, Insert, Sweep
  <2> QED BY <1>1, <2>1, SufferCounts
<1>10. IsFiniteSet(Ship) /\ Cardinality(Yet) \in Nat /\ Cardinality(Marked) \in Nat
  BY <1>1, SetsCounted DEF Counted
<1>11. Cardinality(Marked)' \in Nat /\ Cardinality(Yet)' \in Nat /\ Cardinality(Marked)' <= Cardinality(Marked)
  <2>1. IsFiniteSet(Ship)' /\ IsFiniteSet(Marked)
    BY <1>6, <1>10, SetsCounted
  <2>2. Cardinality(Marked') <= Cardinality(Marked)
    BY <1>8, <2>1, FS_Subset
  <2> QED BY <2>1, <2>2, NumbersNext
<1>12. ASSUME log = "requests", NEW e \in Entry, InFile(e)'
       PROVE  InFile(e) /\ Copies(e)' <= Copies(e) /\ Copies(e)' \in Nat /\ Copies(e) \in Nat
  <2>1. table[e] \in Nat
    BY <1>1 DEF TypeOK
  <2>2. CASE Read(p) \/ Sweep(p)
    <3>1. table' = table /\ file' \in {file, <<>>}
      BY <2>2 DEF Read, Sweep
    <3>2. job[p].pc = "work" /\ pc \in {"insert", "leave"}
      BY <1>1, <1>3, <1>5, <1>12, <2>2 DEF Read, Sweep, Goto, LockTypeOK
    <3>3. Yet' = Yet
      BY <1>2, <1>4, <1>5, <1>6, <3>2 DEF Yet, Unlinking
    <3>4. InFile(e)
      BY <1>12, <3>1 DEF InFile
    <3>5. Copies(e)' = table[e] + Cardinality(Yet) + Cardinality(Marked)'
      BY <3>1, <3>3 DEF Copies
    <3>6. \A t, y, m, n \in Nat : n <= m => t + y + n <= t + y + m /\ t + y + n \in Nat /\ t + y + m \in Nat
      OBVIOUS
    <3> QED BY <1>10, <1>11, <2>1, <3>4, <3>5, <3>6 DEF Copies
  <2>3. CASE Unlink(p)
    BY <1>12, <2>3 DEF Unlink, InFile
  <2>4. CASE Insert(p)
    <3>1. file' = file /\ table' \in {table, Stored(got[p])}
      BY <2>4 DEF Insert
    <3>2. job[p].cron = "ship" /\ job[p].pc = "insert" /\ pc = "unlink"
      BY <1>1, <1>3, <1>5, <1>12, <2>4 DEF Insert, Goto, LockTypeOK
    <3>3. Yet' = Yet \ {p} /\ p \in Yet
      <4>1. Unlinking' = Unlinking \cup {p} /\ p \notin Unlinking
        BY <1>4, <1>5, <3>2 DEF Unlinking
      <4>2. Ship' = Ship /\ p \in Ship
        BY <1>2, <1>6, <3>2 DEF Ship, Instances, AtWork
      <4> QED BY <4>1, <4>2 DEF Yet
    <3>4. Cardinality(Yet)' = Cardinality(Yet) - 1
      <4>1. Cardinality(Yet \ {p}) = IF p \in Yet THEN Cardinality(Yet) - 1 ELSE Cardinality(Yet)
        BY <1>10, SetsCounted, FS_RemoveElement
      <4>2. Cardinality(Yet \ {p}) = Cardinality(Yet) - 1
        BY <3>3, <4>1
      <4> QED BY <3>3, <4>2
    <3>5. table'[e] \in Nat /\ table'[e] <= table[e] + 1
      BY <2>1, <3>1 DEF Stored
    <3>6. InFile(e)
      BY <1>12, <3>1 DEF InFile
    <3>7. Copies(e)' <= Copies(e) /\ Copies(e)' \in Nat /\ Copies(e) \in Nat
      BY <1>10, <1>11, <2>1, <3>4, <3>5 DEF Copies
    <3> QED BY <3>6, <3>7
  <2> QED BY <2>2, <2>3, <2>4 DEF Work
<1> QED BY <1>1, <1>2, <1>6, <1>7, <1>8, <1>9, <1>12, SettlesCounted

\* A new entry is nowhere else.
LEMMA WriteCounted ==
  ASSUME CInv, TInv', Write
  PROVE  Counted'
<1>1. TypeOK /\ LockTypeOK /\ LockTypeOK' /\ Counted
  BY DEF CInv, TInv, TypeOK
<1>2. UNCHANGED <<lock, job, seen, log, got, table>> /\ written' = written + 1 /\ file' = Append(file, written + 1)
  BY DEF Write, lockVars
<1>3. /\ Ship' = Ship /\ Living' = Living /\ Met' = Met /\ Bound' = Bound /\ Yet' = Yet /\ Marked' = Marked
      /\ AtWork("ship")' = AtWork("ship") /\ Entering("ship")' = Entering("ship")
      /\ \A e \in Entry : Copies(e)' = Copies(e)
  BY <1>2 DEF Ship, Instances, Entering, AtWork, Living, Met, Bound, Deaths, Yet, Unlinking, Marked, Copies
<1>4. \A e \in Entry : InFile(e)' => InFile(e) \/ e = written + 1
  BY <1>1, <1>2, AppendProperties DEF InFile, TypeOK, Entry
<1>5. /\ seen["race"] \in Nat /\ seen["overlap"] \in Nat /\ seen["crash"] \in Nat /\ seen["reuse"] \in Nat
      /\ Living \in 0..1
  BY <1>1 DEF LockTypeOK, Trouble, Living
<1>6. /\ Cardinality(Ship) \in Nat /\ Cardinality(Yet) \in Nat /\ Cardinality(Marked) \in Nat
      /\ Cardinality(Yet) <= Cardinality(Ship)
      /\ Cardinality(Ship) <= Living + Met /\ Cardinality(Marked) <= seen["reuse"]
  BY <1>1, SetsCounted DEF Counted
<1>7. ASSUME NEW e \in Entry, e = written + 1
      PROVE  Copies(e) <= Bound /\ (Copies(e) = Bound => Full)
  <2>1. table[e] = 0
    <3>1. written \in Nat /\ table[e] \in Nat
      BY <1>1, LogAssumption DEF TypeOK
    <3> QED BY <1>7, <3>1 DEF CInv, Known
  <2>2. Copies(e) = Cardinality(Yet) + Cardinality(Marked)
    BY <1>6, <2>1 DEF Copies
  <2>3. Met \in Nat /\ Bound = Living + Met + (seen["crash"] + seen["reuse"])
    BY <1>5 DEF Met, Bound, Deaths
  <2>4. Copies(e) <= Bound /\ (Copies(e) = Bound => Cardinality(Ship) = Living + Met)
    BY <1>5, <1>6, <2>2, <2>3
  <2> QED BY <2>4 DEF Full
<1>8. log' = "requests" => \A e \in Entry : InFile(e)' => Copies(e)' <= Bound'
  BY <1>1, <1>2, <1>3, <1>4, <1>7 DEF Counted
<1>9. Full' => Full
  <2>1. CASE Cardinality(Ship)' = Living' + Met'
    BY <1>3, <2>1 DEF Full
  <2>2. ASSUME NEW e \in Entry, log' = "requests", InFile(e)', Copies(e)' = Bound'
        PROVE  Full
    BY <1>2, <1>3, <1>4, <1>7, <2>2 DEF Full
  <2> QED BY <2>1, <2>2 DEF Full
<1>10. Guarded => Guarded'
  BY <1>2, <1>3 DEF Guarded
<1> QED BY <1>1, <1>2, <1>3, <1>8, <1>9, <1>10 DEF Counted

\* Only what was written is read or stored.
LEMMA KnownStep ==
  ASSUME TInv, Known, [LNext]_vars
  PROVE  Known'
<1>1. TypeOK
  BY DEF TInv
<1>2. /\ written \in Nat /\ got \in [Pid -> Seq(Entry)] /\ file \in Seq(Entry)
      /\ \A e \in Entry : table[e] \in Nat
  BY <1>1, LogAssumption DEF TypeOK
<1>3. ASSUME written' = written, \A e \in Entry : InFile(e)' => InFile(e),
             \A e \in Entry : InHand(e)' => InHand(e) \/ InFile(e),
             \A e \in Entry : table'[e] > 0 => table[e] > 0 \/ InHand(e)
      PROVE  Known'
  BY <1>3 DEF Known
<1>4. CASE Write
  <2>1. \A e \in Entry : InFile(e)' => InFile(e) \/ e = written + 1
    BY <1>2, <1>4, AppendProperties DEF Write, InFile, Entry
  <2>2. written' = written + 1 /\ UNCHANGED <<got, table>>
    BY <1>4 DEF Write
  <2> QED BY <1>2, <2>1, <2>2 DEF Known, InHand, Entry
<1>5. ASSUME NEW p \in Pid, Read(p) PROVE Known'
  <2>1. UNCHANGED <<file, written, table>> /\ got' = [got EXCEPT ![p] = Taken]
    BY <1>5 DEF Read
  <2>2. \A e \in Entry : (\E i \in 1..Len(Taken) : Taken[i] = e) => InFile(e)
    <3>1. file # <<>> => 1 \in 1..Len(file)
      BY <1>2
    <3> QED BY <1>2, <3>1 DEF Taken, First, InFile
  <2>3. \A e \in Entry : InHand(e)' => InHand(e) \/ InFile(e)
    BY <1>2, <2>1, <2>2 DEF InHand
  <2> QED BY <1>3, <2>1, <2>3 DEF InFile
<1>6. ASSUME NEW p \in Pid, Unlink(p) \/ Sweep(p) PROVE Known'
  BY <1>3, <1>6 DEF Unlink, Sweep, InFile, InHand
<1>7. ASSUME NEW p \in Pid, Insert(p) PROVE Known'
  <2>1. UNCHANGED <<file, written>> /\ got' = [got EXCEPT ![p] = <<>>] /\ table' \in {table, Stored(got[p])}
    BY <1>7 DEF Insert
  <2>2. \A e \in Entry : table'[e] > 0 => table[e] > 0 \/ InHand(e)
    <3> SUFFICES ASSUME NEW e \in Entry, table'[e] > 0, ~ table[e] > 0 PROVE InHand(e)
      OBVIOUS
    <3>1. table' = Stored(got[p]) /\ table[e] = 0
      BY <1>2, <2>1
    <3>2. \E i \in 1..Len(got[p]) : got[p][i] = e
      BY <3>1 DEF Stored
    <3> QED BY <3>2 DEF InHand
  <2>3. \A e \in Entry : InHand(e)' => InHand(e)
    BY <1>2, <2>1 DEF InHand
  <2> QED BY <1>3, <2>1, <2>2, <2>3 DEF InFile
<1>8. CASE Rests \/ (LockNext /\ Carries)
  <2>1. UNCHANGED <<file, written, table>> /\ \A p \in Pid : got'[p] \in {got[p], <<>>}
    BY <1>8 DEF Rests, Carries
  <2> QED BY <1>3, <2>1 DEF InFile, InHand
<1>9. CASE UNCHANGED vars
  BY <1>9 DEF vars, logVars, Known, InFile, InHand
<1> QED BY <1>4, <1>5, <1>6, <1>7, <1>8, <1>9 DEF LNext, Work

LEMMA CountedStep == CInv /\ [LNext]_vars => CInv'
<1> SUFFICES ASSUME CInv, [LNext]_vars PROVE Counted'
  BY TypeStep, KnownStep DEF CInv
<1>1. TInv /\ TInv' /\ TypeOK /\ LockTypeOK /\ LockTypeOK' /\ Counted
  BY TypeStep DEF CInv, TInv, TypeOK
<1>2. CASE Write
  BY <1>1, <1>2, WriteCounted
<1>3. CASE \E p \in Pid : Work(p)
  BY <1>1, <1>3, WorkCounted
<1>4. CASE LockNext /\ Carries
  BY <1>1, <1>4, LockCounted DEF TypeOK
<1>5. CASE Rests
  <2>1. UNCHANGED <<lock, job, log, file, table>>
    BY <1>5 DEF Rests
  <2>2. /\ Ship' = Ship /\ Marked' = Marked /\ Living' = Living /\ Yet' = Yet
        /\ \A e \in Entry : InFile(e)' <=> InFile(e)
    BY <2>1 DEF Ship, Instances, Entering, AtWork, Marked, Living, Yet, Unlinking, InFile
  <2>3. \A k \in Trouble \ {"slow"} : seen'[k] = seen[k]
    BY <1>1, <1>5, SufferCounts DEF Rests
  <2>4. Met' = Met /\ Deaths' = Deaths /\ seen'["reuse"] = seen["reuse"]
    BY <2>3 DEF Met, Deaths, Trouble
  <2>5. Bound' = Bound /\ \A e \in Entry : Copies(e)' = Copies(e)
    BY <2>1, <2>2, <2>4 DEF Bound, Copies
  <2>6. seen'["slow"] # 0
    <3>1. "slow" \in Trouble /\ seen["slow"] \in Nat
      BY <1>1 DEF Trouble, LockTypeOK
    <3>2. seen'["slow"] = seen["slow"] + 1
      BY <1>1, <1>5, <3>1, SufferCounts DEF Rests
    <3> QED BY <3>1, <3>2
  <2> QED BY <1>1, <2>1, <2>2, <2>4, <2>5, <2>6 DEF Counted
<1>6. CASE UNCHANGED vars
  <2>1. UNCHANGED <<lock, job, seen, log, file, table>>
    BY <1>6 DEF vars, lockVars, logVars
  <2> QED BY <1>1, <2>1 DEF Counted, Full, Guarded, Ship, Instances, Entering, AtWork, Marked, Living, Yet,
          Unlinking, InFile, Met, Deaths, Bound, Copies
<1> QED BY <1>2, <1>3, <1>4, <1>5, <1>6 DEF LNext

LEMMA CountedInit == LInit => CInv
<1> SUFFICES ASSUME LInit PROVE CInv
  OBVIOUS
<1>1. TInv
  BY TypeInit
<1>2. /\ file = <<>> /\ table = [e \in Entry |-> 0] /\ got = [p \in Pid |-> <<>>]
      /\ job = [p \in Pid |-> Free] /\ seen = [k \in Trouble |-> 0]
  BY DEF LInit, Init
<1>3. Ship = {} /\ AtWork("ship") = {} /\ Entering("ship") = {} /\ Marked = {}
  BY <1>2 DEF Ship, Instances, Entering, AtWork, Marked, Free
<1>4. Met = 0 /\ seen["reuse"] = 0 /\ seen["overlap"] = 0
  BY <1>2 DEF Met, Trouble
<1>5. \A e \in Entry : ~ InFile(e) /\ ~ InHand(e) /\ ~ table[e] > 0
  BY <1>2 DEF InFile, InHand
<1>6. Counted
  BY <1>3, <1>4, <1>5, FS_EmptySet DEF Counted, Living, Guarded
<1> QED BY <1>1, <1>5, <1>6 DEF CInv, Known

\* Fewer than these are at work, and fewer of them may yet store an entry again.
Few ==
  /\ Cardinality(AtWork("ship")) <= 1 + Crowding
  /\ log = "requests" =>
       \A e \in Entry :
         InFile(e) => table[e] + Cardinality(AtWork("ship") \ Unlinking) <= 1 + Crowding + Deaths

LEMMA CountedFew ==
  ASSUME CInv
  PROVE  Few
<1>1. /\ TypeOK /\ LockTypeOK /\ Counted
      /\ \A e \in Entry : table[e] \in Nat
  BY DEF CInv, TInv, TypeOK
<1>2. /\ seen["race"] \in Nat /\ seen["overlap"] \in Nat /\ seen["crash"] \in Nat
      /\ seen["reuse"] \in Nat /\ seen["slow"] \in Nat /\ Living \in 0..1
  BY <1>1 DEF LockTypeOK, Trouble, Living
<1>3. /\ IsFiniteSet(Ship) /\ IsFiniteSet(Yet) /\ Cardinality(Marked) \in Nat
      /\ Cardinality(Ship) \in Nat /\ Cardinality(Yet) \in Nat
      /\ Cardinality(Ship) <= Living + Met
      /\ log = "requests" => \A e \in Entry : InFile(e) => Copies(e) <= Bound
      /\ seen["slow"] = 0 /\ Full => Guarded
  BY <1>1, SetsCounted DEF Counted
<1> DEFINE Working == AtWork("ship")
           Storing == AtWork("ship") \ Unlinking
<1>4. Working \in SUBSET Ship /\ Storing \in SUBSET Yet
  BY DEF Ship, Instances, Yet
<1>5. /\ Cardinality(Working) \in Nat /\ Cardinality(Storing) \in Nat
      /\ Cardinality(Working) <= Cardinality(Ship) /\ Cardinality(Storing) <= Cardinality(Yet)
  BY <1>3, <1>4, FS_Subset, FS_CardinalityType
<1>6. ASSUME Entering("ship") # {}
      PROVE  Cardinality(Working) < Cardinality(Ship) /\ Cardinality(Storing) < Cardinality(Yet)
  <2>1. PICK x : x \in Entering("ship")
    BY <1>6
  <2>2. x \in Ship /\ x \in Yet /\ x \notin Working /\ x \notin Storing
    BY <2>1 DEF Ship, Instances, Entering, AtWork, Unlinking, Yet
  <2>3. Cardinality(Working) # Cardinality(Ship) /\ Cardinality(Storing) # Cardinality(Yet)
    BY <1>3, <1>4, <2>2, FS_Subset
  <2> QED BY <1>3, <1>5, <2>3
<1>7. Crowding \in Nat /\ Deaths \in Nat /\ Met \in Nat
      /\ (Met <= Crowding \/ (seen["slow"] = 0 /\ seen["overlap"] > 0 /\ Met = Crowding + 1))
  BY <1>2 DEF Crowding, Deaths, Met
<1>8. CASE Met <= Crowding
  <2>1. Cardinality(Working) <= 1 + Crowding
    BY <1>2, <1>3, <1>5, <1>7, <1>8
  <2>2. ASSUME log = "requests", NEW e \in Entry, InFile(e)
        PROVE  table[e] + Cardinality(Storing) <= 1 + Crowding + Deaths
    <3>1. table[e] + Cardinality(Yet) + Cardinality(Marked) <= Living + Met + Deaths
      BY <1>3, <2>2 DEF Copies, Bound
    <3> QED BY <1>1, <1>2, <1>3, <1>5, <1>7, <1>8, <3>1
  <2> QED BY <2>1, <2>2 DEF Few
<1>9. CASE seen["slow"] = 0 /\ seen["overlap"] > 0 /\ Met = Crowding + 1
  <2>1. Full => Cardinality(Working) < Cardinality(Ship) /\ Cardinality(Storing) < Cardinality(Yet)
    BY <1>3, <1>6, <1>9 DEF Guarded
  <2>2. Cardinality(Working) <= 1 + Crowding
    <3>1. CASE Cardinality(Ship) = Living + Met
      BY <1>2, <1>3, <1>5, <1>7, <1>9, <2>1, <3>1 DEF Full
    <3>2. CASE Cardinality(Ship) # Living + Met
      BY <1>2, <1>3, <1>5, <1>7, <1>9, <3>2
    <3> QED BY <3>1, <3>2
  <2>3. ASSUME log = "requests", NEW e \in Entry, InFile(e)
        PROVE  table[e] + Cardinality(Storing) <= 1 + Crowding + Deaths
    <3>1. /\ Copies(e) = table[e] + Cardinality(Yet) + Cardinality(Marked)
          /\ Bound = Living + Met + Deaths /\ Copies(e) <= Bound
      BY <1>3, <2>3 DEF Copies, Bound
    <3>2. CASE Copies(e) = Bound
      <4>1. Cardinality(Storing) < Cardinality(Yet)
        BY <2>1, <2>3, <3>2 DEF Full
      <4> QED BY <1>1, <1>2, <1>3, <1>5, <1>7, <1>9, <3>1, <4>1
    <3>3. CASE Copies(e) # Bound
      BY <1>1, <1>2, <1>3, <1>5, <1>7, <1>9, <3>1, <3>3
    <3> QED BY <3>2, <3>3
  <2> QED BY <2>2, <2>3 DEF Few
<1> QED BY <1>7, <1>8, <1>9

LEMMA SpecCounted == Spec => [](CInv /\ Few)
<1>1. CInv => Few
  BY CountedFew
<1> QED BY <1>1, CountedInit, CountedStep, PTL DEF Spec

-----------------------------------------------------------------------------
(* How often the table has an entry                                        *)

\* activity.php: an entry in the file is in no table, and in no hand that would
\* leave it there.
Unshipped ==
  log = "activity" =>
    \A e \in Entry : InFile(e) => table[e] = 0 /\ \A p \in Holders(e) : job[p].pc = "unlink"

\* Copies and those who will make another are few.
Excused == log # "errors" => \A e \in Entry : table[e] + Cardinality(Holders(e)) <= 1 + Excuse

LEMMA ExcuseGrows ==
  ASSUME LockTypeOK, [LNext]_vars
  PROVE  log' = log /\ Excuse \in Nat /\ Excuse' \in Nat /\ Excuse' >= Excuse
<1>1. log' = log
  BY DEF LNext, Write, Work, Read, Unlink, Insert, Sweep, Rests, Carries, vars, logVars
<1>2. /\ seen["race"] \in Nat /\ seen["overlap"] \in Nat /\ seen["crash"] \in Nat
      /\ seen["reuse"] \in Nat /\ seen["slow"] \in Nat
      /\ seen'["race"] \in Nat /\ seen'["overlap"] \in Nat /\ seen'["crash"] \in Nat
      /\ seen'["reuse"] \in Nat /\ seen'["slow"] \in Nat
      /\ seen'["race"] >= seen["race"] /\ seen'["overlap"] >= seen["overlap"]
      /\ seen'["crash"] >= seen["crash"] /\ seen'["reuse"] >= seen["reuse"]
      /\ seen'["slow"] >= seen["slow"]
  BY TroublesGrow DEF Grown, Trouble
<1>3. Crowding \in Nat /\ Crowding' \in Nat /\ Crowding' >= Crowding
  BY <1>2 DEF Crowding
<1>4. Deaths \in Nat /\ Deaths' \in Nat /\ Deaths' >= Deaths
  BY <1>2 DEF Deaths
<1>5. \A c, d, c2, d2 \in Nat : c2 >= c /\ d2 >= d => c2 + d2 \in Nat /\ c2 + d2 >= c + d
  OBVIOUS
<1>6. CASE log = "errors"
  BY <1>1, <1>6 DEF Excuse
<1>7. CASE log = "requests"
  <2>1. Excuse = Crowding + Deaths /\ Excuse' = Crowding' + Deaths'
    BY <1>1, <1>7 DEF Excuse
  <2>2. Crowding + Deaths \in Nat
    BY <1>3, <1>4
  <2>3. Crowding' + Deaths' \in Nat
    BY <1>3, <1>4, <1>5
  <2>4. Crowding' + Deaths' >= Crowding + Deaths
    BY <1>3, <1>4, <1>5
  <2> QED BY <1>1, <2>1, <2>2, <2>3, <2>4
<1>8. CASE log \notin {"errors", "requests"}
  BY <1>1, <1>3, <1>8 DEF Excuse
<1> QED BY <1>6, <1>7, <1>8

\* Who holds an entry has read it when it was in the file.
LEMMA HoldersMove ==
  ASSUME TInv, [LNext]_vars
  PROVE  \A q \in Pid : got'[q] = got[q] \/ got'[q] = <<>>
                        \/ (Read(q) /\ got'[q] = Taken /\ \A p \in Pid : p # q => got'[p] = got[p])
<1>1. got \in [Pid -> Seq(Entry)]
  BY DEF TInv, TypeOK
<1>2. ASSUME NEW p \in Pid, Work(p)
      PROVE  \A q \in Pid : got'[q] = got[q] \/ got'[q] = <<>>
                        \/ (Read(q) /\ got'[q] = Taken /\ \A w \in Pid : w # q => got'[w] = got[w])
  BY <1>1, <1>2 DEF Work, Read, Unlink, Insert, Sweep
<1> QED BY <1>2 DEF LNext, Write, Rests, Carries, vars, logVars

LEMMA TakenInFile ==
  ASSUME TInv
  PROVE  \A e \in Entry : (\E i \in 1..Len(Taken) : Taken[i] = e) => InFile(e)
<1>1. file \in Seq(Entry)
  BY DEF TInv, TypeOK
<1>2. file # <<>> => 1 \in 1..Len(file)
  BY <1>1
<1> QED BY <1>1, <1>2 DEF Taken, First, InFile

LEMMA UnshippedStep ==
  ASSUME CInv, CInv', Unshipped, [LNext]_vars
  PROVE  Unshipped'
<1>1. TInv /\ TInv' /\ TypeOK /\ TypeOK' /\ LockTypeOK /\ Known /\ log' = log
  BY ExcuseGrows DEF CInv, TInv, TypeOK
<1> SUFFICES ASSUME log = "activity", NEW e \in Entry, InFile(e)'
             PROVE  table'[e] = 0 /\ \A p \in Holders(e)' : job'[p].pc = "unlink"
  BY <1>1 DEF Unshipped
<1>2. /\ written \in Nat /\ got \in [Pid -> Seq(Entry)] /\ file \in Seq(Entry) /\ table[e] \in Nat
      /\ job \in [Pid -> Jobs]
  BY <1>1, LogAssumption DEF TypeOK, LockTypeOK, Jobs, Pcs
<1>3. InFile(e) => table[e] = 0 /\ \A p \in Holders(e) : job[p].pc = "unlink"
  BY DEF Unshipped
<1>4. CASE Write
  <2>1. InFile(e) \/ e = written + 1
    BY <1>2, <1>4, AppendProperties DEF Write, InFile, Entry
  <2>2. UNCHANGED <<job, got, table>>
    BY <1>4 DEF Write, lockVars
  <2>3. e = written + 1 => table[e] = 0 /\ Holders(e) = {}
    BY <1>1, <1>2 DEF Known, InHand, Holders
  <2> QED BY <1>3, <2>1, <2>2, <2>3 DEF Holders
<1>5. ASSUME NEW p \in Pid, Read(p)
      PROVE  table'[e] = 0 /\ \A q \in Holders(e)' : job'[q].pc = "unlink"
  <2>1. InFile(e) /\ table' = table
    BY <1>5 DEF Read, InFile
  <2>2. got' = [got EXCEPT ![p] = Taken]
    BY <1>5 DEF Read
  <2>3. \A q \in Pid : q # p => got'[q] = got[q] /\ job'[q] = job[q]
    BY <1>2, <1>5, <2>2 DEF Read, Goto
  <2>4. job'[p].pc = "unlink"
    <3>1. file # <<>>
      BY <2>1 DEF InFile
    <3> QED BY <1>2, <1>5, <3>1 DEF Read, Goto, Jobs
  <2> QED BY <1>3, <2>1, <2>3, <2>4 DEF Holders
<1>6. ASSUME NEW p \in Pid, Unlink(p) PROVE FALSE
  BY <1>6 DEF Unlink, InFile
<1>7. ASSUME NEW p \in Pid, Insert(p)
      PROVE  table'[e] = 0 /\ \A q \in Holders(e)' : job'[q].pc = "unlink"
  <2>1. InFile(e) /\ job[p].pc = "insert"
    BY <1>7 DEF Insert, InFile
  <2>2. p \notin Holders(e)
    BY <1>3, <2>1
  <2>3. table'[e] = 0
    <3>1. ~ \E i \in 1..Len(got[p]) : got[p][i] = e
      BY <2>2 DEF Holders
    <3>2. table' = table \/ table' = Stored(got[p])
      BY <1>7 DEF Insert
    <3>3. Stored(got[p])[e] = table[e]
      BY <1>2, <3>1 DEF Stored
    <3> QED BY <1>3, <2>1, <3>2, <3>3
  <2>4. \A q \in Pid : q # p => got'[q] = got[q] /\ job'[q] = job[q]
    BY <1>2, <1>7 DEF Insert, Goto
  <2>5. p \notin Holders(e)'
    BY <1>2, <1>7 DEF Insert, Holders
  <2> QED BY <1>3, <2>1, <2>3, <2>4, <2>5 DEF Holders
<1>8. ASSUME NEW p \in Pid, Sweep(p)
      PROVE  table'[e] = 0 /\ \A q \in Holders(e)' : job'[q].pc = "unlink"
  <2>1. InFile(e) /\ table' = table /\ got' = got
    BY <1>8 DEF Sweep, InFile
  <2>2. p \notin Holders(e)
    BY <1>1, <1>8 DEF Sweep, Holders, TypeOK
  <2>3. \A q \in Pid : q # p => job'[q] = job[q]
    BY <1>2, <1>8 DEF Sweep, Goto
  <2> QED BY <1>3, <2>1, <2>2, <2>3 DEF Holders
<1>9. CASE LockNext /\ Carries
  <2>1. InFile(e) /\ table' = table /\ \A q \in Pid : got'[q] \in {got[q], <<>>}
    BY <1>9 DEF Carries, InFile
  <2>2. \A q \in Holders(e)' : q \in Holders(e) /\ q \in Pid /\ got'[q] # <<>>
    BY <2>1 DEF Holders
  <2>3. \A q \in Holders(e)' : job'[q] = job[q]
    <3> SUFFICES ASSUME NEW q \in Holders(e)' PROVE job'[q] = job[q]
      OBVIOUS
    <3>1. q \in Pid /\ job'[q].cron = "ship" /\ job'[q].pc \in {"unlink", "insert"}
      BY <1>1, <2>2 DEF TypeOK
    <3> QED BY <1>1, <1>9, <3>1, HandsStay
  <2> QED BY <1>3, <2>1, <2>2, <2>3
<1>10. CASE Rests \/ UNCHANGED vars
  BY <1>3, <1>10 DEF Rests, vars, lockVars, logVars, InFile, Holders
<1> QED BY <1>4, <1>5, <1>6, <1>7, <1>8, <1>9, <1>10 DEF LNext, Work

LEMMA ExcusedStep ==
  ASSUME CInv, CInv', Few', Unshipped', Excused, [LNext]_vars
  PROVE  Excused'
<1>1. TInv /\ TInv' /\ TypeOK /\ TypeOK' /\ LockTypeOK /\ LockTypeOK' /\ HandEmpty'
  BY DEF CInv, TInv, TypeOK
<1>2. log' = log /\ Excuse \in Nat /\ Excuse' \in Nat /\ Excuse' >= Excuse
  BY <1>1, ExcuseGrows
<1> SUFFICES ASSUME log # "errors", NEW e \in Entry
             PROVE  table'[e] + Cardinality(Holders(e)') <= 1 + Excuse'
  BY <1>2 DEF Excused
<1>3. got \in [Pid -> Seq(Entry)] /\ table[e] \in Nat /\ table'[e] \in Nat
  BY <1>1 DEF TypeOK
<1>4. Holders(e) \subseteq AtWork("ship") /\ Holders(e)' \subseteq AtWork("ship")'
  <2>1. \A q \in Pid : /\ q \in Holders(e) => got[q] # <<>>
                       /\ q \in Holders(e)' => got'[q] # <<>>
    BY DEF Holders
  <2>2. Holders(e) \subseteq Pid /\ Holders(e)' \subseteq Pid
    BY DEF Holders
  <2> QED BY <1>1, <2>1, <2>2 DEF AtWork, TypeOK
<1>5. IsFiniteSet(Ship) /\ IsFiniteSet(Ship)' /\ AtWork("ship") \subseteq Ship /\ AtWork("ship")' \subseteq Ship'
  BY DEF CInv, Counted, Ship, Instances
<1>6. IsFiniteSet(Holders(e)) /\ IsFiniteSet(AtWork("ship")')
  BY <1>4, <1>5, FS_Subset
<1>7. Cardinality(Holders(e)) \in Nat /\ Cardinality(Holders(e)') \in Nat
      /\ table[e] + Cardinality(Holders(e)) <= 1 + Excuse
  BY <1>4, <1>6, FS_Subset, FS_CardinalityType DEF Excused
<1>8. CASE InFile(e)'
  <2>1. CASE log = "activity"
    <3>1. table'[e] = 0
      BY <1>2, <1>8, <2>1 DEF Unshipped
    <3>2. Cardinality(Holders(e)') <= Cardinality(AtWork("ship")') /\ Cardinality(AtWork("ship")') \in Nat
      BY <1>4, <1>6, FS_Subset, FS_CardinalityType
    <3>3. Cardinality(AtWork("ship")') <= 1 + Excuse'
      BY <1>2, <2>1 DEF Few, Excuse
    <3> QED BY <1>2, <1>7, <3>1, <3>2, <3>3
  <2>2. CASE log = "requests"
    <3>1. Holders(e)' \subseteq (AtWork("ship") \ Unlinking)'
      <4>1. \A q \in Holders(e)' : got'[q] # <<>> /\ q \in Pid
        BY DEF Holders
      <4> QED BY <1>1, <1>2, <1>4, <2>2, <4>1 DEF Unlinking, HandEmpty
    <3>2. IsFiniteSet((AtWork("ship") \ Unlinking)')
      BY <1>6, FS_Subset
    <3>3. Cardinality(Holders(e)') <= Cardinality((AtWork("ship") \ Unlinking)')
          /\ Cardinality((AtWork("ship") \ Unlinking)') \in Nat
      BY <3>1, <3>2, FS_Subset, FS_CardinalityType
    <3>4. table'[e] + Cardinality((AtWork("ship") \ Unlinking)') <= 1 + Crowding' + Deaths'
      BY <1>2, <1>8, <2>2 DEF Few
    <3>5. Excuse' = Crowding' + Deaths' /\ Crowding' \in Nat /\ Deaths' \in Nat
      <4>1. /\ seen'["race"] \in Nat /\ seen'["overlap"] \in Nat /\ seen'["crash"] \in Nat
            /\ seen'["reuse"] \in Nat /\ seen'["slow"] \in Nat
        BY <1>1 DEF LockTypeOK, Trouble
      <4>2. Excuse' = Crowding' + Deaths'
        BY <1>2, <2>2 DEF Excuse
      <4>3. Crowding' \in Nat
        BY <4>1 DEF Crowding
      <4> QED BY <4>1, <4>2, <4>3 DEF Deaths
    <3>6. \A t, h, w, c, d \in Nat : t + w <= 1 + c + d /\ h <= w => t + h <= 1 + (c + d)
      OBVIOUS
    <3> QED BY <1>3, <1>7, <3>3, <3>4, <3>5, <3>6
  <2>3. log \in {"activity", "requests"}
    BY <1>1, LogAssumption DEF TypeOK
  <2> QED BY <2>1, <2>2, <2>3
<1>9. CASE ~ InFile(e)'
  <2>1. ASSUME table' = table, Holders(e)' \subseteq Holders(e)
        PROVE  table'[e] + Cardinality(Holders(e)') <= 1 + Excuse'
    <3>1. Cardinality(Holders(e)') <= Cardinality(Holders(e))
      BY <1>6, <2>1, FS_Subset
    <3> QED BY <1>2, <1>3, <1>7, <2>1, <3>1
  <2>2. ASSUME NEW p \in Pid, Read(p)
        PROVE  table'[e] + Cardinality(Holders(e)') <= 1 + Excuse'
    <3>1. table' = table /\ ~ InFile(e) /\ got' = [got EXCEPT ![p] = Taken]
      BY <1>9, <2>2 DEF Read, InFile
    <3>2. Holders(e)' \subseteq Holders(e)
      BY <1>1, <1>3, <3>1, TakenInFile DEF Holders
    <3> QED BY <2>1, <3>1, <3>2
  <2>3. ASSUME NEW p \in Pid, Insert(p)
        PROVE  table'[e] + Cardinality(Holders(e)') <= 1 + Excuse'
    <3>1. got' = [got EXCEPT ![p] = <<>>]
      BY <2>3 DEF Insert
    <3>2. Holders(e)' = Holders(e) \ {p}
      BY <1>3, <3>1 DEF Holders
    <3>3. CASE table' = table
      BY <2>1, <3>2, <3>3
    <3>4. CASE p \in Holders(e)
      <4>1. Cardinality(Holders(e)') = Cardinality(Holders(e)) - 1
        <5>1. Cardinality(Holders(e) \ {p}) = IF p \in Holders(e) THEN Cardinality(Holders(e)) - 1
                                              ELSE Cardinality(Holders(e))
          BY <1>6, FS_RemoveElement
        <5>2. Cardinality(Holders(e) \ {p}) = Cardinality(Holders(e)) - 1
          BY <3>4, <5>1
        <5> QED BY <3>2, <5>2
      <4>2. table'[e] <= table[e] + 1
        BY <1>3, <2>3 DEF Insert, Stored
      <4>3. \A t, h, x, u, k, y \in Nat :
              t + h <= 1 + x /\ u <= t + 1 /\ k = h - 1 /\ y >= x => u + k <= 1 + y
        OBVIOUS
      <4> QED BY <1>2, <1>3, <1>7, <4>1, <4>2, <4>3
    <3>5. CASE table' = Stored(got[p]) /\ p \notin Holders(e)
      <4>1. table'[e] = table[e]
        <5>1. ~ \E i \in 1..Len(got[p]) : got[p][i] = e
          BY <3>5 DEF Holders
        <5> QED BY <1>3, <3>5, <5>1 DEF Stored
      <4>2. Holders(e)' = Holders(e)
        BY <3>2, <3>5
      <4>3. \A t, h, x, y \in Nat : t + h <= 1 + x /\ y >= x => t + h <= 1 + y
        OBVIOUS
      <4> QED BY <1>2, <1>3, <1>7, <4>1, <4>2, <4>3
    <3> QED BY <2>3, <3>3, <3>4, <3>5 DEF Insert
  <2>4. CASE Write \/ Rests \/ (\E p \in Pid : Unlink(p) \/ Sweep(p)) \/ (LockNext /\ Carries) \/ UNCHANGED vars
    <3>1. table' = table /\ \A q \in Pid : got'[q] \in {got[q], <<>>}
      BY <2>4 DEF Write, Rests, Unlink, Sweep, Carries, vars, logVars
    <3>2. Holders(e)' \subseteq Holders(e)
      BY <3>1 DEF Holders
    <3> QED BY <2>1, <3>1, <3>2
  <2> QED BY <2>2, <2>3, <2>4 DEF LNext, Work
<1> QED BY <1>8, <1>9

BInv == Unshipped /\ Excused

LEMMA BookInit == LInit => BInv
<1> SUFFICES ASSUME LInit PROVE BInv
  OBVIOUS
<1>1. /\ file = <<>> /\ table = [e \in Entry |-> 0] /\ got = [p \in Pid |-> <<>>]
      /\ seen = [k \in Trouble |-> 0]
  BY DEF LInit, Init
<1>2. \A e \in Entry : ~ InFile(e) /\ Holders(e) = {} /\ table[e] = 0
  BY <1>1 DEF InFile, Holders
<1>3. Excuse = 0
  BY <1>1 DEF Excuse, Crowding, Deaths, Trouble
<1> QED BY <1>2, <1>3, FS_EmptySet DEF BInv, Unshipped, Excused

LEMMA SpecBook == Spec => [](CInv /\ BInv)
<1>1. CInv /\ CInv' /\ Few' /\ BInv /\ [LNext]_vars => BInv'
  BY UnshippedStep, ExcusedStep DEF BInv
<1> QED BY <1>1, SpecCounted, BookInit, PTL DEF Spec

-----------------------------------------------------------------------------
Stage(e) == IF e > written THEN "new"
            ELSE IF table[e] > 0 THEN "stored"
            ELSE IF InFile(e) \/ InHand(e) THEN "waiting" ELSE "lost"

LEMMA LedgerInit == LInit => Book!Init
<1> SUFFICES ASSUME LInit PROVE Book!Init
  OBVIOUS
<1>1. table = [e \in Entry |-> 0] /\ written = 0 /\ seen = [k \in Trouble |-> 0]
  BY DEF LInit, Init
<1>2. Excuse = 0
  BY <1>1 DEF Excuse, Crowding, Deaths, Trouble
<1>3. \A e \in Entry : e > written
  BY <1>1 DEF Entry
<1> QED BY <1>1, <1>2, <1>3 DEF Book!Init

\* Steps that store nothing may lose entries,
LEMMA LosesAtMost ==
  ASSUME table' = table, written' = written,
         \A e \in Entry : InFile(e)' \/ InHand(e)' => InFile(e) \/ InHand(e),
         Excuse' >= Excuse
  PROVE  Book!Next
<1>1. PICK S \in SUBSET Entry : \A e \in Entry : e \in S <=> Stage(e) = "waiting" /\ (Stage(e))' = "lost"
  <2>1. {e \in Entry : Stage(e) = "waiting" /\ (Stage(e))' = "lost"} \in SUBSET Entry
    OBVIOUS
  <2> QED BY <2>1
<1>2. \A e \in Entry : (Stage(e))' = IF e \in S THEN "lost" ELSE Stage(e)
  BY <1>1 DEF Stage
<1>3. Book!Lose(S)
  BY <1>1, <1>2 DEF Book!Lose, Stage
<1> QED BY <1>3 DEF Book!Next

\* an INSERT stores what it has,
LEMMA StoresOnce ==
  ASSUME CInv, BInv, NEW p \in Pid, Insert(p), table' = Stored(got[p]), UNCHANGED seen
  PROVE  Book!Next
<1>0. PICK S \in SUBSET Entry : \A e \in Entry : e \in S <=> p \in Holders(e) /\ ~ InTable(e)
  <2>1. {e \in Entry : p \in Holders(e) /\ ~ InTable(e)} \in SUBSET Entry
    OBVIOUS
  <2> QED BY <2>1
<1>1. /\ got \in [Pid -> Seq(Entry)] /\ TypeOK /\ LockTypeOK
      /\ \A e \in Entry : table[e] \in Nat /\ (InFile(e) \/ InHand(e) \/ table[e] > 0 => ~ e > written)
  <2>1. written \in Nat /\ \A e \in Entry : table[e] \in Nat
    BY LogAssumption DEF CInv, TInv, TypeOK
  <2> QED BY <2>1 DEF CInv, TInv, TypeOK, Known, Entry
<1>2. UNCHANGED <<log, file, written>> /\ got' = [got EXCEPT ![p] = <<>>]
  BY DEF Insert
<1>3. table' = [e \in Entry |-> table[e] + IF e \in S THEN 1 ELSE 0]
  BY <1>0 DEF Stored, Holders
<1>4. \A e \in Entry : p \in Holders(e) => InHand(e)
  BY DEF Holders, InHand
<1>5. \A e \in Entry : InFile(e)' <=> InFile(e)
  BY <1>2 DEF InFile
<1>6. \A e \in Entry : p \notin Holders(e) => (InHand(e)' <=> InHand(e))
  BY <1>1, <1>2 DEF Holders, InHand
<1>7. \A e \in Entry : Stage(e)' = IF e \in S THEN "stored" ELSE Stage(e)
  <2> SUFFICES ASSUME NEW e \in Entry PROVE Stage(e)' = IF e \in S THEN "stored" ELSE Stage(e)
    OBVIOUS
  <2>1. CASE e \in S
    BY <1>0, <1>1, <1>2, <1>3, <1>4, <2>1 DEF Stage
  <2>2. CASE p \in Holders(e) /\ e \notin S
    BY <1>0, <1>1, <1>2, <1>3, <1>4, <2>2 DEF Stage, InTable
  <2>3. CASE p \notin Holders(e)
    BY <1>0, <1>1, <1>2, <1>3, <1>5, <1>6, <2>3 DEF Stage
  <2> QED BY <2>1, <2>2, <2>3
<1>8. \A e \in S : Stage(e) \in {"waiting", "stored"} /\ table[e] <= Excuse
  <2> SUFFICES ASSUME NEW e \in S PROVE Stage(e) \in {"waiting", "stored"} /\ table[e] <= Excuse
    OBVIOUS
  <2>1. Stage(e) \in {"waiting", "stored"}
    BY <1>0, <1>1, <1>4 DEF Stage
  <2>2. CASE log = "errors"
    <3>1. table[e] \in Nat /\ ~ table[e] > 0
      BY <1>0, <1>1, <2>2 DEF InTable
    <3>2. Excuse = 0
      BY <2>2 DEF Excuse
    <3> QED BY <2>1, <3>1, <3>2
  <2>3. CASE log # "errors"
    <3>1. table[e] + Cardinality(Holders(e)) <= 1 + Excuse
      BY <2>3 DEF BInv, Excused
    <3>2. Excuse \in Nat
      BY <1>1, ExcuseGrows DEF LNext, Work
    <3>3. Holders(e) \subseteq AtWork("ship")
      <4>1. \A q \in Holders(e) : q \in Pid /\ got[q] # <<>>
        BY DEF Holders
      <4> QED BY <1>1, <4>1 DEF AtWork, TypeOK
    <3>4. IsFiniteSet(Holders(e))
      <4>1. IsFiniteSet(Ship) /\ Holders(e) \subseteq Ship
        BY <3>3 DEF CInv, Counted, Ship, Instances
      <4> QED BY <4>1, FS_Subset
    <3>5. Cardinality(Holders(e)) \in Nat /\ Cardinality(Holders(e)) # 0
      BY <1>0, <3>4, FS_EmptySet, FS_CardinalityType
    <3>6. \A t, n, x \in Nat : t + n <= 1 + x /\ n # 0 => t <= x
      OBVIOUS
    <3> QED BY <1>1, <2>1, <3>1, <3>2, <3>5, <3>6
  <2> QED BY <2>1, <2>2, <2>3
<1>9. UNCHANGED Excuse
  BY <1>2 DEF Excuse, Crowding, Deaths
<1>10. Book!Store(S)
  BY <1>3, <1>7, <1>8, <1>9 DEF Book!Store, Stage
<1> QED BY <1>10 DEF Book!Next

\* and an append writes an entry.
LEMMA WritesNew ==
  ASSUME CInv, Write
  PROVE  Book!Next
<1>0. PICK n : n = written + 1
  OBVIOUS
<1>1. /\ written \in Nat /\ n \in Entry /\ file \in Seq(Entry)
      /\ \A e \in Entry : e \in Nat /\ table[e] \in Nat
      /\ \A e \in Entry : InFile(e) \/ InHand(e) \/ table[e] > 0 => e <= written
  BY <1>0, LogAssumption DEF CInv, TInv, TypeOK, Known, Write, Entry
<1>2. UNCHANGED <<seen, log, got, table>> /\ written' = n /\ file' = Append(file, n)
  BY <1>0 DEF Write, lockVars
<1>3. \A e \in Entry : (InHand(e)' <=> InHand(e)) /\ (InFile(e)' <=> InFile(e) \/ e = n)
  BY <1>1, <1>2, AppendProperties DEF InFile, InHand
<1>4. \A e \in Entry : Stage(e)' = IF e = n THEN "waiting" ELSE Stage(e)
  BY <1>0, <1>1, <1>2, <1>3 DEF Stage
<1>5. Stage(n) = "new"
  BY <1>0, <1>1 DEF Stage
<1>6. UNCHANGED <<table, Excuse>>
  BY <1>2 DEF Excuse, Crowding, Deaths
<1>7. Book!Write(n)
  BY <1>1, <1>4, <1>5, <1>6 DEF Book!Write, Stage
<1> QED BY <1>1, <1>7 DEF Book!Next

LEMMA LedgerStep ==
  ASSUME CInv, BInv, [LNext]_vars
  PROVE  [Book!Next]_(Book!vars)
<1>1. TInv /\ LockTypeOK /\ Excuse' >= Excuse /\ log' = log
  BY ExcuseGrows DEF CInv, TInv, TypeOK
<1>2. CASE Write
  BY <1>2, WritesNew
<1>3. ASSUME NEW p \in Pid, Insert(p), table' # table PROVE Book!Next
  BY <1>3, StoresOnce DEF Insert
<1>4. ASSUME ~ Write, table' = table PROVE Book!Next
  <2>1. written' = written
    BY <1>4 DEF LNext, Work, Read, Unlink, Insert, Sweep, Rests, Carries, vars, logVars
  <2>2. \A e \in Entry : InFile(e)' => InFile(e)
    BY <1>4 DEF LNext, Work, Read, Unlink, Insert, Sweep, Rests, Carries, vars, logVars, InFile
  <2>3. \A e \in Entry : InHand(e)' => InHand(e) \/ InFile(e)
    BY <1>1, HoldersMove, TakenInFile DEF InHand
  <2> QED BY <1>1, <1>4, <2>1, <2>2, <2>3, LosesAtMost
<1>5. table' = table \/ Write \/ \E p \in Pid : Insert(p)
  BY DEF LNext, Work, Read, Unlink, Sweep, Rests, Carries, vars, logVars
<1> QED BY <1>2, <1>3, <1>4, <1>5

\* Shipping implements the ledger, whatever starts, dies or is slow: what the
\* crons lost never turns up again, and an entry has one copy in activity and
\* client_logs, plus one for each time that instances got past the lock together,
\* and for client_logs one for each crash and each pid that is used again.
THEOREM ShippingKeepsBook == Spec => KeepsBook
<1>1. CInv /\ BInv /\ [LNext]_vars => [Book!Next]_(Book!vars)
  BY LedgerStep
<1> QED BY <1>1, SpecBook, LedgerInit, PTL DEF Spec, KeepsBook, Book!Spec
=============================================================================
