----------------------------- MODULE MCServices ------------------------------
(***************************************************************************)
(* Four parts of a server that share no state: the Redis registry of       *)
(* connections, the cache signals, the relay of signals.php and the        *)
(* segments of encrypted HLS.  part says which of them a behaviour is      *)
(* about; the others rest in their initial states.                         *)
(***************************************************************************)
EXTENDS RedisRegistry, CacheSignals, DaemonRelay, HlsSegment

CONSTANTS s1, s2, p1, p2, t1, h1

VARIABLES
  part,
  may   \* the workers and the requests they may get

\* A token of a live stream on s1, and one of an HLS stream that is good on both servers.
MCWorker == {<<s1, p1>>, <<s1, p2>>, <<s2, p1>>}
MCHomeOf == [u \in Session |-> s1]

\* Who may get which request: both tokens in two workers of s1, or the HLS token in all.
MCRequests == {{<<s1, p1>>, <<s1, p2>>} \X {t1, h1}, MCWorker \X {h1}}

\* Changes of two rows together; three of one row are needed for one signal too many.
MaxChanges == 4
FewChanges == \A i, j \in Item : i # j => version[i] + version[j] <= MaxChanges

\* The stream is stopped, or its monitor dies, during the first run of ffmpeg.
FirstRun == monitor \/ encoder.run = 1

svars == <<part, may, vars, cacheVars, relayVars, segmentVars>>

SInit ==
  /\ part \in {"registry", "cache", "relay", "segment"}
  /\ may \in IF part = "registry" THEN MCRequests ELSE {{}}
  /\ Init /\ CacheInit /\ RelayInit /\ SegmentInit

InRegistry(A) ==
  part = "registry" /\ A /\ UNCHANGED <<part, may, cacheVars, relayVars, segmentVars>>
InCache(A) ==
  part = "cache" /\ A /\ UNCHANGED <<part, may, vars, relayVars, segmentVars>>
InRelay(A) ==
  part = "relay" /\ A /\ UNCHANGED <<part, may, vars, cacheVars, segmentVars>>
InSegment(A) ==
  part = "segment" /\ A /\ UNCHANGED <<part, may, vars, cacheVars, relayVars>>

SNext ==
  \/ InRegistry(Next) /\ \A p \in Worker : Busy(p)' => <<p, worker'[p].session>> \in may
  \/ InCache(CacheNext) /\ FewChanges'
  \/ InRelay(RelayNext)
  \/ InSegment(SegmentNext) /\ FirstRun'

SSpec == SInit /\ [][SNext]_svars

\* The fairness of the four, each for its own part.
SFairSpec ==
  /\ SSpec
  /\ \A p \in Worker : WF_vars(InRegistry(Request(p) \/ Recheck(p)))
  /\ \A w \in Writer : WF_cacheVars(InCache(Ask(w) \/ Insert(w)))
  /\ WF_cacheVars(InCache(Daemon))
  /\ SF_cacheVars(InCache(Rebuild)) /\ SF_cacheVars(InCache(Delete))
  /\ WF_relayVars(InRelay(CronCounts))
  /\ WF_relayVars(InRelay(\E i \in Instance : Start(i)))
  /\ \A i \in Instance : WF_relayVars(InRelay(Runs(i)))
  /\ WF_segmentVars(InSegment(Sweep))
  /\ \A r \in Reader : WF_segmentVars(InSegment(Works(r)))

-----------------------------------------------------------------------------
(* Properties besides those the modules name                               *)

\* The server never stays without an instance of signals.php.
DaemonBack == part = "relay" => AlwaysBack
=============================================================================
