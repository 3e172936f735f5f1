----------------------------- MODULE DaemonRelay -----------------------------
(***************************************************************************)
(* How one, and only one, signals.php works on a server.  An instance      *)
(* gives itself the title 'XC_VM[Signal Receiver]' and kills, with a shell *)
(* that asks ps and then calls kill, every other process of that title.    *)
(* At the end of its pass it leaves a shell behind that starts the next    *)
(* one a second later.  Once a minute servers.php starts an instance when  *)
(* it counts none, and the script "service" starts one.  The count looks   *)
(* for the name of the file, which the title has replaced: servers.php     *)
(* does not see an instance at work, unless the shell that started it      *)
(* lingers, and may start a second one beside it.                          *)
(*                                                                         *)
(* The listing leaves out its own process by "grep -v <pid>", that is      *)
(* every line of ps with these digits anywhere in it: another instance is  *)
(* then not seen, and overlooked remembers it.                             *)
(*                                                                         *)
(* Connections and CacheSignals have one daemon, which may be killed       *)
(* anywhere: OneReceiver says that this is so where no instance at work    *)
(* has overlooked another.                                                 *)
(***************************************************************************)
EXTENDS Naturals

CONSTANTS
  Instance,  \* the pids of signals.php, or of the shell that will become it
  MaxFaults  \* bound of the model: starts beside a running instance, deaths, restarts of the service

VARIABLES
  proc,       \* per pid: where the instance is
  shell,      \* per pid: the shell of its kill command, which outlives it
  overlooked, \* per pid (history): the titled instances its last listing has not seen
  starting,   \* who has decided to start an instance: servers.php, service
  faults      \* the number of disturbances so far

relayVars == <<proc, shell, overlooked, starting, faults>>

NoShell == [pc |-> "none", victims |-> {}]
Listing == [pc |-> "ps", victims |-> {}]
Titled == {i \in Instance : proc[i] \in {"kills", "works"}}
Seen == {i \in Instance : proc[i] \in {"sleeps", "boots"}}  \* by the name of the file

RelayInit ==
  /\ proc = [i \in Instance |-> "off"]
  /\ shell = [i \in Instance |-> NoShell]
  /\ overlooked = [i \in Instance |-> {}]
  /\ starting = {"service"}
  /\ faults = 0

\* A pid that is gone is hit by nobody.
CrossedOff(S) == [i \in Instance |-> [shell[i] EXCEPT !.victims = @ \ S]]
Forgotten(S) == [i \in Instance |-> IF i \in S THEN {} ELSE overlooked[i] \ S]

-----------------------------------------------------------------------------
(* servers.php and service                                                 *)

\* The next minute: no kill command lasts that long.
CronCounts ==
  /\ Seen = {} /\ Titled = {} /\ \A i \in Instance : shell[i] = NoShell
  /\ starting' = starting \cup {"cron"}
  /\ UNCHANGED <<proc, shell, overlooked, faults>>

\* Beside a titled instance, or while the last one's kill command still runs.
CronMisses ==
  /\ Seen = {}
  /\ faults < MaxFaults
  /\ starting' = starting \cup {"cron"}
  /\ faults' = faults + 1
  /\ UNCHANGED <<proc, shell, overlooked>>

Start(i) ==
  /\ proc[i] = "off" /\ shell[i] = NoShell
  /\ \E s \in starting : starting' = starting \ {s}
  /\ proc' = [proc EXCEPT ![i] = "boots"]
  /\ UNCHANGED <<shell, overlooked, faults>>

\* restart kills whatever runs, the shells too, and starts.
ServiceRestart ==
  /\ faults < MaxFaults
  /\ proc' = [i \in Instance |-> "off"]
  /\ shell' = [i \in Instance |-> NoShell]
  /\ overlooked' = [i \in Instance |-> {}]
  /\ starting' = {"service"}
  /\ faults' = faults + 1

-----------------------------------------------------------------------------
(* signals.php                                                             *)

\* cli_set_process_title, then shell_exec('kill $(ps ...)').
SetTitle(i) ==
  /\ proc[i] = "boots"
  /\ proc' = [proc EXCEPT ![i] = "kills"]
  /\ shell' = [shell EXCEPT ![i] = Listing]
  /\ UNCHANGED <<overlooked, starting, faults>>

\* Definitions called ...Slip are plausible mistakes in the code, kept to show
\* that the properties notice them; no specification uses them.
\* Without "grep -v" of its own pid.
ListedSlip(i) == Titled

\* The title is set after the kill.
ListedSlipTitle(i) == {j \in Titled : proc[j] = "works"} \ {i}

\* ps aux | grep 'Signal Receiver', without its own line.
Listed(i) == Titled \ {i}

\* grep -v <its pid>: whatever other lines have these digits in a pid, a size, a
\* share of memory or a time.
Lists(i) ==
  /\ shell[i].pc = "ps"
  /\ \E unseen \in SUBSET (Titled \ {i}) :
       /\ shell' = [shell EXCEPT ![i] = [pc |-> "kill", victims |-> Listed(i) \ unseen]]
       /\ overlooked' = [overlooked EXCEPT ![i] = unseen]
  /\ UNCHANGED <<proc, starting, faults>>

\* The instance goes on when its shell has ended, if nobody has killed it by then.
Kills(i) ==
  LET victims == shell[i].victims IN
  /\ shell[i].pc = "kill"
  /\ proc' = [j \in Instance |-> IF j \in victims THEN "off"
                                 ELSE IF j = i /\ proc[i] = "kills" THEN "works" ELSE proc[j]]
  /\ shell' = [CrossedOff(victims) EXCEPT ![i] = NoShell]
  /\ overlooked' = Forgotten(victims)
  /\ UNCHANGED <<starting, faults>>

\* The pass ends; the shell that is left starts the next.
Ends(i) ==
  /\ proc[i] = "works"
  /\ proc' = [proc EXCEPT ![i] = "sleeps"]
  /\ shell' = CrossedOff({i})
  /\ overlooked' = Forgotten({i})
  /\ UNCHANGED <<starting, faults>>

Wakes(i) ==
  /\ proc[i] = "sleeps"
  /\ proc' = [proc EXCEPT ![i] = "boots"]
  /\ UNCHANGED <<shell, overlooked, starting, faults>>

Dies(i) ==
  /\ proc[i] # "off"
  /\ faults < MaxFaults
  /\ proc' = [proc EXCEPT ![i] = "off"]
  /\ shell' = CrossedOff({i})
  /\ overlooked' = Forgotten({i})
  /\ faults' = faults + 1
  /\ UNCHANGED starting

Runs(i) == SetTitle(i) \/ Lists(i) \/ Kills(i) \/ Ends(i) \/ Wakes(i)

RelayNext ==
  \/ CronCounts \/ CronMisses \/ ServiceRestart
  \/ \E i \in Instance : Start(i) \/ Runs(i) \/ Dies(i)

RelaySpec == RelayInit /\ [][RelayNext]_relayVars

\* Processes run, and servers.php comes once a minute.
RelayFairness ==
  /\ WF_relayVars(CronCounts) /\ WF_relayVars(\E i \in Instance : Start(i))
  /\ \A i \in Instance : WF_relayVars(Runs(i))

RelayFairSpec == RelaySpec /\ RelayFairness

-----------------------------------------------------------------------------
(* Properties                                                              *)

RelayTypeOK ==
  /\ proc \in [Instance -> {"off", "sleeps", "boots", "kills", "works"}]
  /\ shell \in [Instance -> [pc : {"none", "ps", "kill"}, victims : SUBSET Instance]]
  /\ overlooked \in [Instance -> SUBSET Instance]
  /\ starting \subseteq {"cron", "service"}
  /\ faults \in Nat
  /\ \A i \in Instance : /\ proc[i] = "kills" => shell[i].pc # "none"
                         /\ proc[i] \in {"sleeps", "boots", "works"} => shell[i] = NoShell

\* Although ps and kill are two steps, and a shell kills on when its instance is
\* dead, two instances work on the signals of a server at once only if one of them
\* has overlooked the other when it asked ps.
OneReceiver ==
  \A i, j \in Instance :
    proc[i] = "works" /\ proc[j] = "works" => i = j \/ j \in overlooked[i] \/ i \in overlooked[j]

\* Instances that kill each other, deaths and a restart of the service leave the
\* server without its daemon only for a while.
AlwaysBack == []<>(\E i \in Instance : proc[i] = "works")
=============================================================================
