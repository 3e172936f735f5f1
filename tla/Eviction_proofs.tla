-------------------------- MODULE Eviction_proofs --------------------------
(* What closeConnections guarantees for every line, limit and snapshot.    *)
EXTENDS Eviction, FiniteSetTheorems, TLAPS

\* The snapshot of a query is a finite set of rows.
LEMMA RowsOfFinite ==
  ASSUME NEW desc \in Descriptions
  PROVE  RowsOf(desc) \subseteq Row /\ IsFiniteSet(RowsOf(desc))
<1> DEFINE D == DOMAIN desc
           Mk(i) == [id |-> i, pid |-> desc[i].pid, ip |-> desc[i].ip, agent |-> desc[i].agent]
           f == [i \in D |-> Mk(i)]
<1>1. PICK ids \in SUBSET RowId :
        desc \in [ids -> [pid : Pid \cup {NoPid}, ip : Addr, agent : Agent \cup {NoAgent}]]
  BY DEF Descriptions
<1>2. D = ids /\ IsFiniteSet(D)
  BY <1>1, RowIdAssumption, FS_Subset
<1>3. RowsOf(desc) = {Mk(i) : i \in D}
  BY DEF RowsOf
<1>4. f \in Surjection(D, {Mk(i) : i \in D})
  BY DEF Surjection
<1>5. IsFiniteSet({Mk(i) : i \in D})
  BY <1>2, <1>4, FS_Surjection
<1>6. \A i \in D : Mk(i) \in Row
  BY <1>1, <1>2 DEF Row
<1> QED BY <1>3, <1>5, <1>6

\* The number of calls to make is a natural number, and never more than the
\* rows beyond the allowance.
LEMMA ToKillBound ==
  ASSUME NEW rows, IsFiniteSet(rows)
  PROVE  /\ ToKill(rows, MaxConn) \in Nat
         /\ Cardinality(rows) > MaxConn => ToKill(rows, MaxConn) = Cardinality(rows) - MaxConn
         /\ Cardinality(rows) <= MaxConn => ToKill(rows, MaxConn) = 0
BY FS_CardinalityType, MaxConnAssumption DEF ToKill

-----------------------------------------------------------------------------
(* Every closing takes at most one row out, so |done| bounds the rows lost. *)

Accounted ==
  /\ IsFiniteSet(snapshot)
  /\ IsFiniteSet(done)
  /\ Cardinality(done) <= ToKill(snapshot, MaxConn)
  /\ Cardinality(live) + Cardinality(done) >= Cardinality(snapshot)

IInv == TypeOK /\ Accounted

\* The strengthened invariant holds when closeConnections begins,
LEMMA InitIInv == Init => IInv
<1> SUFFICES ASSUME Init PROVE IInv
  OBVIOUS
<1>1. PICK desc \in Descriptions : snapshot = RowsOf(desc)
  BY DEF Init
<1>2. snapshot \subseteq Row /\ IsFiniteSet(snapshot)
  BY <1>1, RowsOfFinite
<1>3. Cardinality(snapshot) \in Nat /\ Cardinality(done) = 0 /\ IsFiniteSet(done)
  BY <1>2, FS_CardinalityType, FS_EmptySet DEF Init
<1>4. TypeOK
  BY <1>2 DEF Init, TypeOK
<1>5. Accounted
  BY <1>2, <1>3, ToKillBound DEF Init, Accounted
<1> QED BY <1>4, <1>5 DEF IInv

\* every call of closeConnection and the return keep it,
LEMMA NextIInv == IInv /\ [Next]_vars => IInv'
<1> SUFFICES ASSUME IInv, [Next]_vars PROVE IInv'
  OBVIOUS
<1>1. CASE CloseNext
  <2>1. PICK t \in Turns(snapshot, requester) :
          /\ IsNext(t, snapshot, requester, done)
          /\ live' = live \ {t[2]}
          /\ done' = done \cup {t}
    BY <1>1 DEF CloseNext
  <2>2. t \in (IF requester.agent = NoAgent THEN {0, 1} ELSE {0, 1, 2}) \X snapshot
    BY <2>1 DEF Turns, KillTypes
  <2>3. UNCHANGED <<requester, snapshot, returned>> /\ Cardinality(done) < ToKill(snapshot, MaxConn)
    BY <1>1 DEF CloseNext
  <2>4. TypeOK'
    BY <2>1, <2>2, <2>3 DEF IInv, TypeOK
  <2>5. IsFiniteSet(live) /\ Cardinality(live) \in Nat
    BY FS_Subset, FS_CardinalityType DEF IInv, TypeOK, Accounted
  <2>6. /\ IsFiniteSet(done')
        /\ Cardinality(done) \in Nat /\ Cardinality(snapshot) \in Nat
        /\ Cardinality(done') \in {Cardinality(done), Cardinality(done) + 1}
    BY <2>1, FS_AddElement, FS_CardinalityType DEF IInv, Accounted
  <2>7. Cardinality(live') \in {Cardinality(live), Cardinality(live) - 1}
    BY <2>1, <2>5, FS_RemoveElement
  <2>8. Cardinality(live') + Cardinality(done') >= Cardinality(snapshot)
    <3>1. t \notin done
      <4>1. \A d \in done : Before(d, t)
        BY <2>1 DEF IsNext, Pending
      <4>2. t[2].id \in Nat
        BY <2>2, RowIdAssumption DEF IInv, TypeOK, Row
      <4>3. ~ Before(t, t)
        BY <2>2, <4>2 DEF Before
      <4> QED BY <4>1, <4>3
    <3>2. Cardinality(done') = Cardinality(done) + 1
      BY <2>1, <3>1, FS_AddElement DEF IInv, Accounted
    <3> QED BY <2>5, <2>6, <2>7, <3>2 DEF IInv, Accounted
  <2>9. Cardinality(done') <= ToKill(snapshot, MaxConn)
    BY <2>3, <2>6, ToKillBound DEF IInv, Accounted
  <2>10. Accounted'
    BY <2>3, <2>6, <2>8, <2>9 DEF IInv, Accounted
  <2> QED BY <2>4, <2>10 DEF IInv
<1>2. CASE Return
  BY <1>2 DEF Return, IInv, TypeOK, Accounted
<1>3. CASE UNCHANGED vars
  BY <1>3 DEF vars, IInv, TypeOK, Accounted
<1> QED BY <1>1, <1>2, <1>3 DEF Next

\* and so it holds all along.
LEMMA SpecIInv == Spec => []IInv
<1> QED BY InitIInv, NextIInv, PTL DEF Spec

\* The variables of Eviction keep their types for every instance.
THEOREM TypeCorrect == Spec => []TypeOK
<1>1. IInv => TypeOK
  BY DEF IInv
<1> QED BY <1>1, SpecIInv, PTL

\* closeConnections never takes a line below its allowance, whatever the
\* snapshot: not even when two passes match the same rows.
THEOREM AllowanceKept == Spec => []NeverBelowAllowance
<1>1. IInv => NeverBelowAllowance
  <2> SUFFICES ASSUME IInv PROVE NeverBelowAllowance
    OBVIOUS
  <2>1. Cardinality(snapshot) \in Nat /\ Cardinality(done) \in Nat
    BY FS_CardinalityType DEF IInv, Accounted
  <2>2. Cardinality(live) \in Nat
    BY FS_Subset, FS_CardinalityType DEF IInv, TypeOK, Accounted
  <2> QED BY <2>1, <2>2, ToKillBound, MaxConnAssumption DEF IInv, Accounted, NeverBelowAllowance
<1> QED BY <1>1, SpecIInv, PTL

-----------------------------------------------------------------------------
(* The order of the closings: the turns done are the first ones of all     *)
(* that close a row, in the order of the passes.                           *)

Closing(t) == t \in Turns(snapshot, requester) /\ Closes(t, requester)

InOrder ==
  /\ \A r, s \in snapshot : r.id = s.id => r = s
  /\ \A t \in done : Closing(t)
  /\ \A t \in done : \A u : Closing(u) /\ Before(u, t) => u \in done
  /\ live = snapshot \ {t[2] : t \in done}
  /\ returned => \/ Cardinality(done) = ToKill(snapshot, MaxConn)
                 \/ Pending(snapshot, requester, done) = {}

OInv == IInv /\ InOrder

\* The turns of a snapshot are in a strict and total order.
LEMMA TurnsOrdered ==
  ASSUME OInv,
         NEW t \in Turns(snapshot, requester), NEW u \in Turns(snapshot, requester)
  PROVE  /\ t = u \/ Before(t, u) \/ Before(u, t)
         /\ ~ (Before(t, u) /\ Before(u, t))
         /\ ~ Before(t, t)
<1>1. t = <<t[1], t[2]>> /\ u = <<u[1], u[2]>>
  BY DEF Turns
<1>2. t[1] \in {0, 1, 2} /\ u[1] \in {0, 1, 2} /\ t[2] \in snapshot /\ u[2] \in snapshot
  BY DEF Turns, KillTypes
<1>3. t[2].id \in Nat /\ u[2].id \in Nat
  BY <1>2, RowIdAssumption DEF OInv, IInv, TypeOK, Row
<1>4. t[2].id = u[2].id => t[2] = u[2]
  BY <1>2 DEF OInv, InOrder
<1>5. t[1] = u[1] /\ t[2] = u[2] => t = u
  BY <1>1
<1>6. ~ (Before(t, u) /\ Before(u, t)) /\ ~ Before(t, t)
  BY <1>2, <1>3 DEF Before
<1>7. t[1] = u[1] \/ Before(t, u) \/ Before(u, t)
  BY <1>2 DEF Before
<1>8. t[1] = u[1] => t[2].id = u[2].id \/ Before(t, u) \/ Before(u, t)
  BY <1>3 DEF Before
<1> QED BY <1>4, <1>5, <1>6, <1>7, <1>8

\* A closing turn that is not pending any more is done.
LEMMA PassedIsDone ==
  ASSUME OInv, NEW u, Closing(u), u \notin Pending(snapshot, requester, done)
  PROVE  u \in done
<1>1. PICK d \in done : ~ Before(d, u)
  BY DEF Pending, Closing
<1>2. Closing(d)
  BY DEF OInv, InOrder
<1>3. d = u \/ Before(u, d)
  BY <1>1, <1>2, TurnsOrdered DEF Closing
<1> QED BY <1>3 DEF OInv, InOrder

\* No two rows of the snapshot share an activity_id, and nothing is done yet,
LEMMA InitInOrder == Init => InOrder
<1> SUFFICES ASSUME Init PROVE InOrder
  OBVIOUS
<1>1. \A r, s \in snapshot : r.id = s.id => r = s
  BY DEF Init, RowsOf
<1> QED BY <1>1 DEF Init, InOrder

\* and every step takes the first turn that is left.
LEMMA NextInOrder == OInv /\ [Next]_vars => InOrder'
<1> SUFFICES ASSUME OInv, [Next]_vars PROVE InOrder'
  OBVIOUS
<1>1. CASE CloseNext
  <2>1. PICK t \in Turns(snapshot, requester) :
          /\ IsNext(t, snapshot, requester, done)
          /\ live' = live \ {t[2]}
          /\ done' = done \cup {t}
    BY <1>1 DEF CloseNext
  <2>2. UNCHANGED <<requester, snapshot, returned>> /\ ~returned
    BY <1>1 DEF CloseNext
  <2>3. Closing(t) /\ \A u : Closing(u)' <=> Closing(u)
    BY <2>1, <2>2 DEF IsNext, Pending, Closing
  <2>4. \A u : Closing(u) /\ Before(u, t) => u \in done
    <3> SUFFICES ASSUME NEW u, Closing(u), Before(u, t) PROVE u \in done
      OBVIOUS
    <3>1. ~ Before(t, u) /\ u # t
      BY <2>3, TurnsOrdered DEF Closing
    <3>2. u \notin Pending(snapshot, requester, done)
      BY <2>1, <3>1 DEF IsNext
    <3> QED BY <3>2, PassedIsDone
  <2>5. live' = snapshot \ {d[2] : d \in done'}
    BY <2>1 DEF OInv, InOrder
  <2> QED BY <2>1, <2>2, <2>3, <2>4, <2>5 DEF OInv, InOrder
<1>2. CASE Return
  <2>1. UNCHANGED <<requester, snapshot, live, done>>
    BY <1>2 DEF Return
  <2>2. \/ Cardinality(done) = ToKill(snapshot, MaxConn)
        \/ Pending(snapshot, requester, done) = {}
    BY <1>2 DEF Return
  <2> QED BY <2>1, <2>2 DEF OInv, InOrder, Closing
<1>3. CASE UNCHANGED vars
  BY <1>3 DEF vars, OInv, InOrder, Closing
<1> QED BY <1>1, <1>2, <1>3 DEF Next

\* So the order holds all along.
LEMMA SpecOInv == Spec => []OInv
<1>1. Init => OInv
  BY InitIInv, InitInOrder DEF OInv
<1>2. OInv /\ [Next]_vars => OInv'
  BY NextIInv, NextInOrder DEF OInv
<1> QED BY <1>1, <1>2, PTL DEF Spec

\* A row that is gone was closed in some pass.
LEMMA GoneWasClosed ==
  ASSUME OInv, NEW r \in snapshot \ live
  PROVE  \E k \in KillTypes(requester) : <<k, r>> \in done /\ Closing(<<k, r>>)
<1>1. PICK t \in done : t[2] = r
  BY DEF OInv, InOrder
<1>2. Closing(t)
  BY DEF OInv, InOrder
<1>3. t = <<t[1], r>> /\ t[1] \in KillTypes(requester)
  BY <1>1, <1>2 DEF Closing, Turns
<1> QED BY <1>2, <1>3

\* A row of the snapshot that a done turn names is gone.
LEMMA DoneIsGone ==
  ASSUME OInv, NEW k, NEW s, <<k, s>> \in done
  PROVE  s \notin live
BY DEF OInv, InOrder

\* Connections of other addresses are closed only when the requester's address
\* has none left that can be closed.
THEOREM OwnAddressGoesFirst == Spec => []OwnAddressFirst
<1>1. OInv => OwnAddressFirst
  <2> SUFFICES ASSUME OInv, NEW r \in snapshot \ live, r.ip # requester.ip,
                      NEW s \in live, s.ip = requester.ip, s.pid # requester.pid
               PROVE  FALSE
    BY DEF OwnAddressFirst
  <2>1. PICK k \in KillTypes(requester) : <<k, r>> \in done /\ Closing(<<k, r>>)
    BY GoneWasClosed
  <2>2. k = 0
    BY <2>1 DEF Closing, Closes
  <2>3. s \in snapshot
    BY DEF OInv, IInv, TypeOK
  <2>4. Closing(<<1, s>>)
    BY <2>3 DEF Closing, Turns, KillTypes, Closes
  <2>5. Before(<<1, s>>, <<0, r>>)
    BY DEF Before
  <2>6. <<1, s>> \in done
    BY <2>1, <2>2, <2>4, <2>5 DEF OInv, InOrder
  <2> QED BY <2>6, DoneIsGone
<1> QED BY <1>1, SpecOInv, PTL

\* Of two connections the passes do not tell apart, the newer is never closed
\* while the older stays.
THEOREM OldestGoesFirst == Spec => []OldestFirst
<1>1. OInv => OldestFirst
  <2> SUFFICES ASSUME OInv, NEW r \in snapshot \ live, NEW s \in live,
                      SameClass(r, s), s.pid # requester.pid
               PROVE  r.id < s.id
    BY DEF OldestFirst
  <2>1. PICK k \in KillTypes(requester) : <<k, r>> \in done /\ Closing(<<k, r>>)
    BY GoneWasClosed
  <2>2. s \in snapshot
    BY DEF OInv, IInv, TypeOK
  <2>3. Closing(<<k, s>>)
    BY <2>1, <2>2 DEF Closing, Turns, Closes, SameClass
  <2>4. <<k, s>> \notin done
    BY DoneIsGone
  <2>5. ~ Before(<<k, s>>, <<k, r>>)
    BY <2>1, <2>3, <2>4 DEF OInv, InOrder
  <2>6. r.id \in Nat /\ s.id \in Nat
    BY <2>2, RowIdAssumption DEF OInv, IInv, TypeOK, Row
  <2>7. s.id # r.id
    BY <2>2 DEF OInv, InOrder
  <2>8. ~ (s.id < r.id)
    BY <2>5 DEF Before
  <2> QED BY <2>6, <2>7, <2>8
<1> QED BY <1>1, SpecOInv, PTL

\* The limit is missed only where a row was closed twice or no other worker's
\* row is left.
THEOREM LimitMissedOnlyByRepeats == Spec => []LimitUnlessRepeated
<1>1. OInv => LimitUnlessRepeated
  <2> DEFINE rows == {t[2] : t \in done}
  <2> SUFFICES ASSUME OInv, returned, Cardinality(live) > MaxConn,
                      ~ (Cardinality(rows) < Cardinality(done)),
                      NEW r \in live, r.pid # requester.pid
               PROVE  FALSE
    BY DEF LimitUnlessRepeated
  <2>1. Cardinality(done) = ToKill(snapshot, MaxConn)
    <3> SUFFICES ASSUME Pending(snapshot, requester, done) = {} PROVE FALSE
      BY DEF OInv, InOrder
    <3>1. r \in snapshot
      BY DEF OInv, IInv, TypeOK
    <3>2. Closing(<<0, r>>)
      BY <3>1 DEF Closing, Turns, KillTypes, Closes
    <3>3. <<0, r>> \in done
      BY <3>2, PassedIsDone
    <3> QED BY <3>3, DoneIsGone
  <2>2. rows \subseteq snapshot /\ live = snapshot \ rows
    BY DEF OInv, InOrder, Closing, Turns
  <2>3. IsFiniteSet(snapshot) /\ IsFiniteSet(rows) /\ IsFiniteSet(done)
    BY <2>2, FS_Subset DEF OInv, IInv, Accounted
  <2>4. snapshot \cap rows = rows
    BY <2>2
  <2>5. Cardinality(live) = Cardinality(snapshot) - Cardinality(rows)
    BY <2>2, <2>3, <2>4, FS_Difference
  <2>6. /\ Cardinality(snapshot) \in Nat /\ Cardinality(rows) \in Nat
        /\ Cardinality(done) \in Nat
    BY <2>3, FS_CardinalityType
  <2>7. Cardinality(snapshot) > MaxConn
    BY <2>5, <2>6, MaxConnAssumption
  <2>8. Cardinality(done) = Cardinality(snapshot) - MaxConn
    BY <2>1, <2>3, <2>7, ToKillBound
  <2> QED BY <2>5, <2>6, <2>8, MaxConnAssumption
<1> QED BY <1>1, SpecOInv, PTL
=============================================================================
