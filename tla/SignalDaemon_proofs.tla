------------------------- MODULE SignalDaemon_proofs -------------------------
(***************************************************************************)
(* TLAPS proofs about the daemon signals.php: of what it does for the      *)
(* cache, for any rows, any finite number of processes that change them    *)
(* and any LIMIT of its query; and of its being alone, on which that rests,*)
(* for any number of instances.                                            *)
(***************************************************************************)
EXTENDS CacheSignals, DaemonRelay, FiniteSetTheorems, SequenceTheorems, FunctionTheorems, TLAPS

-----------------------------------------------------------------------------
(* The cache: what is deleted is handled, and how many signals can wait.   *)

Signal == [item : Item, since : 0..MaxVersion]

\* A signal is no newer than its row.
Sent == \A n \in DOMAIN signals : signals[n].since <= version[signals[n].item]

\* What the daemon is about to delete is in the cache.
Handled ==
  daemon.pc = "delete" =>
    \A n \in 1..daemon.taken : cached[signals[n].item] >= signals[n].since

\* Who has found no signal for i and is about to insert one.
Inserting(i) == {w \in Writer : writer[w].pc = "insert" /\ writer[w].item = i}

\* There are at least as many processes as signals of a row that wait or will.
Counted == \A i \in Item : Cardinality(Waits(i)) + Cardinality(Inserting(i)) <= Cardinality(Writer)

TInv == CacheTypeOK /\ Sent /\ Handled
IInv == TInv /\ Counted

LEMMA DomainOfSignals == CacheTypeOK => DOMAIN signals = 1..Len(signals) /\ Len(signals) \in Nat
BY LenProperties DEF CacheTypeOK

\* What is left after the DELETE is as it was, the first taken ones being gone.
LEMMA DeleteShifts ==
  ASSUME CacheTypeOK, Delete
  PROVE  /\ signals' \in Seq(Signal) /\ Len(signals') = Len(signals) - daemon.taken
         /\ DOMAIN signals' = 1..Len(signals')
         /\ \A n \in 1..Len(signals') :
              n + daemon.taken \in 1..Len(signals) /\ signals'[n] = signals[n + daemon.taken]
<1> DEFINE m == daemon.taken
<1>t. /\ signals \in Seq(Signal) /\ Len(signals) \in Nat /\ m \in 0..Len(signals)
      /\ \A n \in 1..Len(signals) : signals[n] \in Signal
  <2>1. signals \in Seq(Signal) /\ daemon.taken \in 0..Len(signals)
    BY DEF CacheTypeOK, Signal
  <2> QED BY <2>1, LenProperties, ElementOfSeq
<1>1. signals' = SubSeq(signals, m + 1, Len(signals)) /\ m + 1 \in Int /\ Len(signals) \in Int
  BY <1>t DEF Delete
<1>2. \A k \in (m + 1)..Len(signals) : signals[k] \in Signal
  BY <1>t
<1>3. /\ signals' \in Seq(Signal)
      /\ Len(signals') = IF m + 1 <= Len(signals) THEN Len(signals) - (m + 1) + 1 ELSE 0
      /\ \A k \in 1..(Len(signals) - (m + 1) + 1) : signals'[k] = signals[m + 1 + k - 1]
  BY <1>1, <1>2, SubSeqProperties
<1>4. Len(signals') = Len(signals) - m
  BY <1>3, <1>t
<1>5. \A n \in 1..Len(signals') : n + m \in 1..Len(signals) /\ signals'[n] = signals[n + m]
  <2> SUFFICES ASSUME NEW n \in 1..Len(signals')
               PROVE  n + m \in 1..Len(signals) /\ signals'[n] = signals[n + m]
    OBVIOUS
  <2>1. n \in 1..(Len(signals) - (m + 1) + 1) /\ m + 1 + n - 1 = n + m
    BY <1>t, <1>4
  <2>2. n + m \in 1..Len(signals)
    BY <1>t, <1>4
  <2> QED BY <1>3, <2>1, <2>2
<1> QED BY <1>3, <1>4, <1>5, LenProperties

-----------------------------------------------------------------------------
(* Types, and what is handled when it is deleted                           *)

LEMMA TypeInit == CacheInit => TInv
<1> SUFFICES ASSUME CacheInit PROVE TInv
  OBVIOUS
<1>1. NoChange \in [pc : {"idle", "ask", "insert"}, item : Item]
  BY CacheAssumption DEF NoChange
<1>2. signals \in Seq(Signal) /\ Len(signals) = 0 /\ DOMAIN signals = {}
  BY EmptySeq DEF CacheInit, Signal
<1>3. CacheTypeOK
  BY <1>1, <1>2, CacheAssumption DEF CacheInit, CacheTypeOK, NoPass, Signal
<1> QED BY <1>2, <1>3 DEF CacheInit, TInv, Sent, Handled, NoPass

\* A process goes on in its change, and what it has changed is noted per item.
LEMMA WriterMoves ==
  ASSUME CacheTypeOK, NEW w \in Writer, NEW pc \in {"idle", "ask", "insert"},
         writer' = [writer EXCEPT ![w].pc = pc]
  PROVE  writer' \in [Writer -> [pc : {"idle", "ask", "insert"}, item : Item]]
<1> DEFINE Changes == [pc : {"idle", "ask", "insert"}, item : Item]
<1>1. writer \in [Writer -> Changes] /\ writer[w] \in Changes
  BY DEF CacheTypeOK
<1>2. [writer[w] EXCEPT !.pc = pc] \in Changes
  BY <1>1
<1>3. writer' = [writer EXCEPT ![w] = [writer[w] EXCEPT !.pc = pc]]
  OBVIOUS
<1> HIDE DEF Changes
<1>4. writer' \in [Writer -> Changes]
  BY <1>1, <1>2, <1>3
<1> QED BY <1>4 DEF Changes

LEMMA TypeStep == TInv /\ [CacheNext]_cacheVars => TInv'
<1> SUFFICES ASSUME TInv, [CacheNext]_cacheVars PROVE TInv'
  OBVIOUS
<1> USE CacheAssumption
<1>t. /\ CacheTypeOK /\ Sent /\ Handled
      /\ signals \in Seq(Signal) /\ DOMAIN signals = 1..Len(signals) /\ Len(signals) \in Nat
      /\ \A n \in 1..Len(signals) : signals[n] \in Signal
      /\ daemon.taken \in 0..Len(signals)
  <2>1. CacheTypeOK /\ Sent /\ Handled /\ signals \in Seq(Signal) /\ daemon.taken \in 0..Len(signals)
    BY DEF TInv, CacheTypeOK, Signal
  <2> QED BY <2>1, DomainOfSignals, ElementOfSeq
<1>1. ASSUME NEW w \in Writer, NEW i \in Item, Change(w, i) PROVE TInv'
  <2>1. /\ version' \in [Item -> 0..MaxVersion] /\ version'[i] = version[i] + 1
        /\ \A j \in Item : version[j] <= version'[j]
    BY <1>t, <1>1 DEF Change, CacheTypeOK
  <2>2. CacheTypeOK'
    <3>1. \A j \in Item : cached'[j] <= version'[j]
      BY <1>t, <1>1, <2>1 DEF Change, CacheTypeOK
    <3>2. writer' \in [Writer -> [pc : {"idle", "ask", "insert"}, item : Item]]
      BY <1>t, <1>1 DEF Change, CacheTypeOK
    <3> QED BY <1>t, <1>1, <2>1, <3>1, <3>2 DEF Change, CacheTypeOK
  <2>3. Sent'
    <3> SUFFICES ASSUME NEW n \in 1..Len(signals) PROVE signals[n].since <= version'[signals[n].item]
      BY <1>t, <1>1 DEF Change, Sent
    <3>1. signals[n].item \in Item /\ signals[n].since \in Nat
      BY <1>t DEF Signal
    <3>2. signals[n].since <= version[signals[n].item]
      BY <1>t DEF Sent
    <3>3. version[signals[n].item] \in Nat /\ version'[signals[n].item] \in Nat
      BY <1>t, <2>1, <3>1 DEF CacheTypeOK
    <3> QED BY <2>1, <3>1, <3>2, <3>3
  <2>4. Handled'
    BY <1>t, <1>1 DEF Change, Handled
  <2> QED BY <2>2, <2>3, <2>4 DEF TInv
<1>2. ASSUME NEW w \in Writer, Ask(w) PROVE TInv'
  <2>1. CacheTypeOK'
    <3> DEFINE i == writer[w].item
    <3>1. writer' \in [Writer -> [pc : {"idle", "ask", "insert"}, item : Item]]
      <4>1. PICK pc \in {"idle", "ask", "insert"} : writer' = [writer EXCEPT ![w].pc = pc]
        BY <1>2 DEF Ask
      <4> QED BY <1>t, <4>1, WriterMoves
    <3>2. missed' \in [Item -> BOOLEAN]
      <4>1. PICK b \in BOOLEAN : missed' = [missed EXCEPT ![i] = b]
        BY <1>t, <1>2 DEF Ask, CacheTypeOK
      <4> QED BY <1>t, <4>1 DEF CacheTypeOK
    <3>3. UNCHANGED <<version, cached, signals, daemon>>
      BY <1>2 DEF Ask
    <3> QED BY <1>t, <3>1, <3>2, <3>3 DEF CacheTypeOK
  <2>2. Sent' /\ Handled'
    BY <1>t, <1>2 DEF Ask, Sent, Handled
  <2> QED BY <2>1, <2>2 DEF TInv
<1>3. ASSUME NEW w \in Writer, Insert(w) PROVE TInv'
  <2> DEFINE i == writer[w].item
             s == [item |-> i, since |-> version[i]]
  <2>1. i \in Item /\ s \in Signal
    BY <1>t DEF CacheTypeOK, Signal
  <2>2. /\ signals' = Append(signals, s) /\ signals' \in Seq(Signal)
        /\ Len(signals') = Len(signals) + 1 /\ DOMAIN signals' = 1..Len(signals')
        /\ signals'[Len(signals) + 1] = s
        /\ \A n \in 1..Len(signals) : signals'[n] = signals[n]
    BY <1>3, <1>t, <2>1, AppendProperties, LenProperties DEF Insert
  <2>3. CacheTypeOK'
    <3>1. daemon' \in [pc : {"select", "rebuild", "delete"}, taken : 0..Len(signals')]
      <4>1. daemon \in [pc : {"select", "rebuild", "delete"}, taken : 0..Len(signals)] /\ daemon' = daemon
        BY <1>t, <1>3 DEF Insert, CacheTypeOK
      <4>2. \A k \in 0..Len(signals) : k \in 0..Len(signals')
        BY <1>t, <2>2
      <4> QED BY <4>1, <4>2
    <3>2. writer' \in [Writer -> [pc : {"idle", "ask", "insert"}, item : Item]]
      BY <1>t, <1>3, WriterMoves DEF Insert
    <3> QED BY <1>t, <1>3, <2>2, <3>1, <3>2 DEF Insert, CacheTypeOK, Signal
  <2>4. Sent'
    <3> SUFFICES ASSUME NEW n \in 1..Len(signals') PROVE signals'[n].since <= version'[signals'[n].item]
      BY <2>2 DEF Sent
    <3>1. CASE n = Len(signals) + 1
      BY <1>3, <1>t, <2>1, <2>2, <3>1 DEF Insert, CacheTypeOK
    <3>2. CASE n # Len(signals) + 1
      BY <1>3, <1>t, <2>2, <3>2 DEF Insert, Sent
    <3> QED BY <3>1, <3>2
  <2>5. Handled'
    BY <1>3, <1>t, <2>2 DEF Insert, Handled
  <2> QED BY <2>3, <2>4, <2>5 DEF TInv
<1>4. ASSUME NEW w \in Writer, Die(w) PROVE TInv'
  <2>1. CacheTypeOK'
    <3>1. writer' \in [Writer -> [pc : {"idle", "ask", "insert"}, item : Item]]
      BY <1>t, <1>4, WriterMoves DEF Die
    <3> QED BY <1>t, <1>4, <3>1 DEF Die, CacheTypeOK
  <2>2. Sent' /\ Handled'
    BY <1>t, <1>4 DEF Die, Sent, Handled
  <2> QED BY <2>1, <2>2 DEF TInv
<1>5. CASE Select
  <2>1. CacheTypeOK'
    <3>1. daemon' \in [pc : {"select", "rebuild", "delete"}, taken : 0..Len(signals)]
      <4>1. (IF Len(signals) < Batch THEN Len(signals) ELSE Batch) \in 0..Len(signals)
        BY <1>t
      <4> QED BY <1>5, <4>1 DEF Select
    <3>2. UNCHANGED <<version, cached, signals, writer, missed>>
      BY <1>5 DEF Select
    <3> QED BY <1>t, <3>1, <3>2 DEF CacheTypeOK
  <2>2. Sent' /\ Handled'
    BY <1>t, <1>5 DEF Select, Sent, Handled
  <2> QED BY <2>1, <2>2 DEF TInv
<1>6. CASE Rebuild
  <2>1. /\ \A j \in Item : cached'[j] = IF j \in Named THEN version[j] ELSE cached[j]
        /\ cached' \in [Item -> 0..MaxVersion] /\ \A j \in Item : cached'[j] <= version[j]
    BY <1>t, <1>6 DEF Rebuild, CacheTypeOK
  <2>2. daemon' = [pc |-> "delete", taken |-> daemon.taken]
    BY <1>t, <1>6 DEF Rebuild, CacheTypeOK
  <2>3. CacheTypeOK'
    BY <1>t, <1>6, <2>1, <2>2 DEF Rebuild, CacheTypeOK
  <2>4. \A n \in 1..daemon.taken : cached'[signals[n].item] >= signals[n].since
    <3> SUFFICES ASSUME NEW n \in 1..daemon.taken PROVE cached'[signals[n].item] >= signals[n].since
      OBVIOUS
    <3>1. n \in 1..Len(signals) /\ signals[n].item \in Item /\ signals[n].item \in Named
          /\ signals[n].since \in 0..MaxVersion
      BY <1>t DEF Named, Signal
    <3> QED BY <1>t, <2>1, <3>1 DEF Sent, CacheTypeOK
  <2>5. Sent' /\ Handled'
    BY <1>t, <1>6, <2>2, <2>4 DEF Rebuild, Sent, Handled
  <2> QED BY <2>3, <2>5 DEF TInv
<1>7. CASE Delete
  <2>1. /\ signals' \in Seq(Signal) /\ Len(signals') = Len(signals) - daemon.taken
        /\ DOMAIN signals' = 1..Len(signals')
        /\ \A n \in 1..Len(signals') :
             n + daemon.taken \in 1..Len(signals) /\ signals'[n] = signals[n + daemon.taken]
    BY <1>7, <1>t, DeleteShifts
  <2>2. CacheTypeOK'
    <3>1. daemon' \in [pc : {"select", "rebuild", "delete"}, taken : 0..Len(signals')]
      <4>1. 0 \in 0..Len(signals')
        BY <1>t, <2>1
      <4> QED BY <1>7, <4>1 DEF Delete, NoPass
    <3> QED BY <1>t, <1>7, <2>1, <3>1 DEF Delete, CacheTypeOK, Signal
  <2>3. Sent' /\ Handled'
    BY <1>t, <1>7, <2>1 DEF Delete, Sent, Handled, NoPass
  <2> QED BY <2>2, <2>3 DEF TInv
<1>8. CASE Restart
  <2>1. CacheTypeOK' /\ Sent' /\ Handled'
    BY <1>t, <1>8 DEF Restart, CacheTypeOK, Sent, Handled, NoPass
  <2> QED BY <2>1 DEF TInv
<1>9. CASE UNCHANGED cacheVars
  BY <1>9 DEF TInv, cacheVars, CacheTypeOK, Sent, Handled
<1> QED BY <1>1, <1>2, <1>3, <1>4, <1>5, <1>6, <1>7, <1>8, <1>9 DEF CacheNext, Daemon

\* The tables, the cache and what the processes hold keep their types, and the
\* cache never has a change its table does not have.
THEOREM CacheTypeCorrect == CacheSpec => []CacheTypeOK
<1>1. TInv => CacheTypeOK
  BY DEF TInv
<1> QED BY <1>1, TypeInit, TypeStep, PTL DEF CacheSpec

\* signals.php: between its SELECT and its DELETE signals may arrive and it may
\* be killed, and no signal is deleted whose change the cache does not have.
THEOREM DeletedHandled == CacheSpec => HandledFirst
<1> DEFINE Step == \A n \in DOMAIN signals :
                     Len(signals') < Len(signals) /\ n <= Len(signals) - Len(signals')
                       => cached[signals[n].item] >= signals[n].since
<1>1. TInv /\ [CacheNext]_cacheVars => [Step]_cacheVars
  <2> SUFFICES ASSUME TInv, CacheNext, NEW n \in DOMAIN signals,
                      Len(signals') < Len(signals), n <= Len(signals) - Len(signals')
               PROVE  cached[signals[n].item] >= signals[n].since
    BY DEF cacheVars
  <2>1. /\ signals \in Seq(Signal) /\ DOMAIN signals = 1..Len(signals) /\ Len(signals) \in Nat
        /\ daemon.taken \in 0..Len(signals)
    BY DomainOfSignals DEF TInv, CacheTypeOK, Signal
  <2>2. Delete
    <3>1. ASSUME NEW w \in Writer, Insert(w) PROVE FALSE
      <4>1. [item |-> writer[w].item, since |-> version[writer[w].item]] \in Signal
        BY CacheAssumption DEF TInv, CacheTypeOK, Signal
      <4>2. Len(signals') = Len(signals) + 1
        BY <2>1, <3>1, <4>1, AppendProperties DEF Insert
      <4> QED BY <2>1, <4>2
    <3>2. signals' # signals
      BY <2>1
    <3> QED BY <3>1, <3>2 DEF CacheNext, Daemon, Change, Ask, Die, Select, Rebuild, Restart
  <2>3. Len(signals') = Len(signals) - daemon.taken
    BY <2>1, <2>2, SubSeqProperties, LenProperties DEF Delete
  <2>4. n \in 1..daemon.taken
    BY <2>1, <2>3
  <2> QED BY <2>2, <2>4 DEF Delete, TInv, Handled
<1> QED BY <1>1, TypeInit, TypeStep, PTL DEF CacheSpec, HandledFirst

-----------------------------------------------------------------------------
(* Few signals                                                             *)

LEMMA Sizes ==
  ASSUME CacheTypeOK, NEW i \in Item
  PROVE  /\ IsFiniteSet(Waits(i)) /\ Cardinality(Waits(i)) \in Nat
         /\ IsFiniteSet(Inserting(i)) /\ Cardinality(Inserting(i)) \in Nat
         /\ Cardinality(Inserting(i)) <= Cardinality(Writer) /\ Cardinality(Writer) \in Nat
<1>1. IsFiniteSet(Waits(i))
  <2>1. Waits(i) \in SUBSET (1..Len(signals)) /\ IsFiniteSet(1..Len(signals))
    BY DomainOfSignals, FS_Interval DEF Waits
  <2> QED BY <2>1, FS_Subset
<1>2. Inserting(i) \in SUBSET Writer /\ IsFiniteSet(Writer)
  BY CacheAssumption DEF Inserting
<1> QED BY <1>1, <1>2, FS_Subset, FS_CardinalityType

\* Signals that move up in the table stay as many at most.
LEMMA DeleteFewer ==
  ASSUME TInv, Delete, NEW i \in Item
  PROVE  Cardinality(Waits(i)') <= Cardinality(Waits(i))
<1> DEFINE m == daemon.taken
           f == [n \in Waits(i)' |-> n + m]
<1>1. signals \in Seq(Signal) /\ m \in 0..Len(signals) /\ Len(signals) \in Nat /\ DOMAIN signals = 1..Len(signals)
  BY DomainOfSignals DEF TInv, CacheTypeOK, Signal
<1>2. /\ signals' \in Seq(Signal) /\ Len(signals') = Len(signals) - m /\ DOMAIN signals' = 1..Len(signals')
      /\ \A n \in 1..Len(signals') : n + m \in 1..Len(signals) /\ signals'[n] = signals[n + m]
  BY DeleteShifts DEF TInv
<1>3. \A n \in Waits(i)' : n \in Nat /\ n + m \in Waits(i)
  BY <1>1, <1>2 DEF Waits
<1>4. f \in Injection(Waits(i)', Waits(i))
  <2>1. f \in [Waits(i)' -> Waits(i)]
    BY <1>3
  <2>2. \A a, b \in Waits(i)' : f[a] = f[b] => a = b
    BY <1>1, <1>3
  <2> QED BY <2>1, <2>2, Fun_IsInj
<1> QED BY <1>4, FS_Injection, Sizes DEF TInv

LEMMA CountInit == CacheInit => Counted
<1> SUFFICES ASSUME CacheInit, NEW i \in Item
             PROVE Cardinality(Waits(i)) + Cardinality(Inserting(i)) <= Cardinality(Writer)
  BY DEF Counted
<1>1. Waits(i) = {} /\ Inserting(i) = {}
  BY EmptySeq DEF CacheInit, Waits, Inserting, NoChange
<1> QED BY <1>1, FS_EmptySet, FS_CardinalityType, CacheAssumption

LEMMA CountStep == IInv /\ [CacheNext]_cacheVars => Counted'
<1> SUFFICES ASSUME IInv, [CacheNext]_cacheVars, NEW i \in Item
             PROVE  Cardinality(Waits(i)') + Cardinality(Inserting(i)') <= Cardinality(Writer)
  BY DEF Counted
<1>t. CacheTypeOK /\ CacheTypeOK' /\ TInv /\ Cardinality(Waits(i)) + Cardinality(Inserting(i)) <= Cardinality(Writer)
  BY TypeStep DEF IInv, TInv, Counted
<1>s. /\ IsFiniteSet(Waits(i)) /\ Cardinality(Waits(i)) \in Nat
      /\ IsFiniteSet(Inserting(i)) /\ Cardinality(Inserting(i)) \in Nat
      /\ Cardinality(Writer) \in Nat
  BY <1>t, Sizes
<1>p. Cardinality(Waits(i)') \in Nat /\ Cardinality(Inserting(i)') \in Nat /\ Cardinality(Inserting(i)') <= Cardinality(Writer)
  <2>1. IsFiniteSet(Inserting(i)') /\ Inserting(i)' \in SUBSET Writer
    BY CacheAssumption, FS_Subset DEF Inserting
  <2>2. IsFiniteSet(Waits(i)')
    <3>1. Waits(i)' \in SUBSET (1..Len(signals')) /\ IsFiniteSet(1..Len(signals'))
      <4>1. signals' \in Seq(Signal)
        BY <1>t DEF CacheTypeOK, Signal
      <4>2. DOMAIN signals' = 1..Len(signals') /\ Len(signals') \in Nat
        BY <4>1, LenProperties
      <4> QED BY <4>2, FS_Interval DEF Waits
    <3> QED BY <3>1, FS_Subset
  <2> QED BY <2>1, <2>2, FS_CardinalityType, FS_Subset, CacheAssumption
<1>1. CASE Waits(i)' = Waits(i) /\ Inserting(i)' \in SUBSET Inserting(i)
  BY <1>1, <1>t, <1>s, <1>p, FS_Subset
<1>2. ASSUME NEW w \in Writer, NEW j \in Item, Change(w, j) PROVE Waits(i)' = Waits(i) /\ Inserting(i)' \in SUBSET Inserting(i)
  BY <1>2, <1>t DEF Change, Waits, Inserting, CacheTypeOK
<1>3. ASSUME NEW w \in Writer, Die(w) PROVE Waits(i)' = Waits(i) /\ Inserting(i)' \in SUBSET Inserting(i)
  BY <1>3, <1>t DEF Die, Waits, Inserting, CacheTypeOK
<1>4. ASSUME NEW w \in Writer, Ask(w)
      PROVE  Cardinality(Waits(i)') + Cardinality(Inserting(i)') <= Cardinality(Writer)
  <2>1. Waits(i)' = Waits(i)
    BY <1>4 DEF Ask, Waits
  <2>2. CASE Waits(i) = {}
    BY <2>1, <2>2, <1>p, FS_EmptySet
  <2>3. CASE Waits(i) # {}
    <3>1. Inserting(i)' \in SUBSET Inserting(i)
      BY <1>4, <1>t, <2>3 DEF Ask, Inserting, CacheTypeOK
    <3> QED BY <1>1, <2>1, <3>1
  <2> QED BY <2>2, <2>3
<1>5. ASSUME NEW w \in Writer, Insert(w)
      PROVE  Cardinality(Waits(i)') + Cardinality(Inserting(i)') <= Cardinality(Writer)
  <2> DEFINE s == [item |-> writer[w].item, since |-> version[writer[w].item]]
             n == Len(signals) + 1
  <2>1. /\ DOMAIN signals' = 1..n /\ n \in Nat /\ DOMAIN signals = 1..(n - 1) /\ signals'[n] = s
        /\ \A k \in 1..(n - 1) : signals'[k] = signals[k]
    <3>1. s \in Signal /\ signals \in Seq(Signal) /\ signals' = Append(signals, s)
      BY <1>5, <1>t DEF Insert, CacheTypeOK, Signal
    <3> QED BY <3>1, AppendProperties, LenProperties, DomainOfSignals, <1>t
  <2>2. CASE writer[w].item = i
    <3>1. Waits(i)' = Waits(i) \cup {n}
      BY <2>1, <2>2 DEF Waits
    <3>2. Inserting(i)' = Inserting(i) \ {w} /\ w \in Inserting(i)
      BY <1>5, <1>t, <2>2 DEF Insert, Inserting, CacheTypeOK
    <3>3. Cardinality(Waits(i)') <= Cardinality(Waits(i)) + 1
      <4>1. Cardinality(Waits(i) \cup {n})
              = IF n \in Waits(i) THEN Cardinality(Waits(i)) ELSE Cardinality(Waits(i)) + 1
        BY <1>s, FS_AddElement
      <4> QED BY <3>1, <4>1, <1>s
    <3>4. Cardinality(Inserting(i)') = Cardinality(Inserting(i)) - 1
      BY <3>2, <1>s, FS_RemoveElement
    <3> QED BY <3>3, <3>4, <1>t, <1>s, <1>p
  <2>3. CASE writer[w].item # i
    <3>1. Waits(i)' = Waits(i)
      BY <2>1, <2>3 DEF Waits
    <3>2. Inserting(i)' \in SUBSET Inserting(i)
      BY <1>5, <1>t, <2>3 DEF Insert, Inserting, CacheTypeOK
    <3> QED BY <1>1, <3>1, <3>2
  <2> QED BY <2>2, <2>3
<1>6. CASE Delete
  <2>1. Inserting(i)' = Inserting(i)
    BY <1>6 DEF Delete, Inserting
  <2> QED BY <2>1, DeleteFewer, <1>6, <1>t, <1>s, <1>p
<1>7. CASE Select \/ Rebuild \/ Restart \/ UNCHANGED cacheVars
  <2>1. Waits(i)' = Waits(i) /\ Inserting(i)' \in SUBSET Inserting(i)
    BY <1>7 DEF Select, Rebuild, Restart, cacheVars, Waits, Inserting
  <2> QED BY <2>1, <1>1
<1> QED BY <1>1, <1>2, <1>3, <1>4, <1>5, <1>6, <1>7 DEF CacheNext, Daemon

\* updateStream and updateLine: however their question and their INSERT interleave
\* and whatever the daemon deletes, of one row there are never more signals than processes.
THEOREM SignalsFew == CacheSpec => []FewSignals
<1>1. IInv => FewSignals
  <2> SUFFICES ASSUME IInv, NEW i \in Item PROVE Cardinality(Waits(i)) <= Cardinality(Writer)
    BY DEF FewSignals
  <2> QED BY Sizes DEF IInv, TInv, Counted
<1>2. CacheInit => IInv
  BY TypeInit, CountInit DEF IInv
<1>3. IInv /\ [CacheNext]_cacheVars => IInv'
  BY TypeStep, CountStep DEF IInv
<1> QED BY <1>1, <1>2, <1>3, PTL DEF CacheSpec

-----------------------------------------------------------------------------
(* The relay: two instances of signals.php work at once only if one has    *)
(* overlooked the other.  Of two titled instances whose shells have        *)
(* listed, the one that listed last has the other on its list or has       *)
(* overlooked it, whatever the order of their titles (Marked); so the one  *)
(* whose shell has also killed is alone, but for those.                    *)

\* Its shell has asked ps, whether or not it has killed yet.
HasListed(i) == shell[i].pc # "ps"

\* Of two titled instances that have listed, one is about to kill the other or has
\* overlooked it.
Marked ==
  \A i, j \in Instance :
    i # j /\ {i, j} \subseteq Titled /\ HasListed(i) /\ HasListed(j)
      => \/ shell[i].pc = "kill" /\ j \in shell[i].victims
         \/ shell[j].pc = "kill" /\ i \in shell[j].victims
         \/ j \in overlooked[i] \/ i \in overlooked[j]

RelayInv == RelayTypeOK /\ Marked

LEMMA RelayInitInv == RelayInit => RelayInv
  BY DEF RelayInit, RelayInv, RelayTypeOK, Marked, NoShell, Titled, HasListed

Titles == {"off", "sleeps", "boots", "kills", "works"}
Shells == [pc : {"none", "ps", "kill"}, victims : SUBSET Instance]

\* Crossing pids off changes what a shell will kill, and nothing else.
LEMMA WithoutKeeps ==
  ASSUME RelayTypeOK, NEW S
  PROVE  /\ CrossedOff(S) \in [Instance -> Shells]
         /\ \A i \in Instance : /\ CrossedOff(S)[i].pc = shell[i].pc
                                /\ CrossedOff(S)[i].victims = shell[i].victims \ S
                                /\ shell[i] = NoShell => CrossedOff(S)[i] = NoShell
<1>1. shell \in [Instance -> Shells]
  BY DEF RelayTypeOK, Shells
<1>2. ASSUME NEW i \in Instance
      PROVE  CrossedOff(S)[i] = [pc |-> shell[i].pc, victims |-> shell[i].victims \ S]
  <2>1. shell[i] \in Shells
    BY <1>1
  <2> QED
    BY <2>1 DEF CrossedOff, Shells
<1>3. {} \ S = {}
  OBVIOUS
<1>4. ASSUME NEW i \in Instance, shell[i] = NoShell PROVE CrossedOff(S)[i] = NoShell
  BY <1>2, <1>3, <1>4 DEF NoShell
<1>5. ASSUME NEW i \in Instance PROVE CrossedOff(S)[i] \in Shells
  <2>1. shell[i].pc \in {"none", "ps", "kill"} /\ shell[i].victims \in SUBSET Instance
    BY <1>1 DEF Shells
  <2>2. shell[i].victims \ S \in SUBSET Instance
    BY <2>1
  <2>3. \A c \in {"none", "ps", "kill"}, V \in SUBSET Instance :
          [pc |-> c, victims |-> V] \in Shells
    BY DEF Shells
  <2>4. [pc |-> shell[i].pc, victims |-> shell[i].victims \ S] \in Shells
    BY <2>1, <2>2, <2>3
  <2> QED
    BY <1>2, <2>4
<1>6. CrossedOff(S) \in [Instance -> Shells]
  BY <1>5 DEF CrossedOff
<1> QED
  BY <1>2, <1>4, <1>6

\* Types: no step leaves an instance that waits for its kill command without a shell.
LEMMA RelayTypeStep == RelayTypeOK /\ [RelayNext]_relayVars => RelayTypeOK'
<1> SUFFICES ASSUME RelayTypeOK, [RelayNext]_relayVars PROVE RelayTypeOK'
  OBVIOUS
<1> USE DEF Titles, Shells
<1>0. ASSUME NEW S PROVE Forgotten(S) \in [Instance -> SUBSET Instance]
  <2>1. \A i \in Instance : overlooked[i] \in SUBSET Instance
    BY DEF RelayTypeOK
  <2>2. \A i \in Instance : (IF i \in S THEN {} ELSE overlooked[i] \ S) \in SUBSET Instance
    BY <2>1
  <2> QED
    BY <2>2 DEF Forgotten
<1>1. CASE CronCounts
  BY <1>1 DEF CronCounts, RelayTypeOK
<1>2. CASE CronMisses
  BY <1>2 DEF CronMisses, RelayTypeOK
<1>3. CASE ServiceRestart
  BY <1>3 DEF ServiceRestart, RelayTypeOK, NoShell
<1>4. ASSUME NEW i \in Instance, Start(i) PROVE RelayTypeOK'
  BY <1>4 DEF Start, RelayTypeOK
<1>5. ASSUME NEW i \in Instance, SetTitle(i) PROVE RelayTypeOK'
  BY <1>5 DEF SetTitle, RelayTypeOK, Listing, NoShell
<1>6. ASSUME NEW i \in Instance, Lists(i) PROVE RelayTypeOK'
  <2>1. PICK unseen \in SUBSET (Titled \ {i}) :
          /\ shell' = [shell EXCEPT ![i] = [pc |-> "kill", victims |-> Listed(i) \ unseen]]
          /\ overlooked' = [overlooked EXCEPT ![i] = unseen]
    BY <1>6 DEF Lists
  <2>2. proc[i] \notin {"sleeps", "boots", "works"}
    BY <1>6 DEF Lists, RelayTypeOK, NoShell
  <2>3. [pc |-> "kill", victims |-> Listed(i) \ unseen] \in Shells
    BY DEF Listed, Titled
  <2>4. overlooked' \in [Instance -> SUBSET Instance]
    BY <2>1 DEF RelayTypeOK, Titled
  <2> QED
    BY <1>6, <2>1, <2>2, <2>3, <2>4 DEF Lists, RelayTypeOK
<1>7. ASSUME NEW i \in Instance, Kills(i) PROVE RelayTypeOK'
  <2> DEFINE victims == shell[i].victims
  <2>1. /\ shell' = [CrossedOff(victims) EXCEPT ![i] = NoShell] /\ UNCHANGED <<starting, faults>>
        /\ overlooked' \in [Instance -> SUBSET Instance]
    BY <1>7, <1>0 DEF Kills
  <2>2. proc' = [j \in Instance |-> IF j \in victims THEN "off"
                                    ELSE IF j = i /\ proc[i] = "kills" THEN "works" ELSE proc[j]]
    BY <1>7 DEF Kills
  <2>3. shell' \in [Instance -> Shells]
    BY <2>1, WithoutKeeps DEF NoShell
  <2>4. proc' \in [Instance -> Titles]
    BY <2>2 DEF RelayTypeOK
  <2>5. shell'[i] = NoShell /\ proc'[i] # "kills"
    BY <2>1, <2>2, WithoutKeeps DEF RelayTypeOK
  <2>6. ASSUME NEW j \in Instance, j # i
        PROVE  /\ proc'[j] \in {"off", proc[j]}
               /\ shell'[j].pc = shell[j].pc
               /\ shell[j] = NoShell => shell'[j] = NoShell
    BY <2>1, <2>2, <2>6, WithoutKeeps
  <2>7. ASSUME NEW j \in Instance
        PROVE  /\ proc'[j] = "kills" => shell'[j].pc # "none"
               /\ proc'[j] \in {"sleeps", "boots", "works"} => shell'[j] = NoShell
    BY <2>5, <2>6 DEF RelayTypeOK
  <2> QED
    BY <2>1, <2>3, <2>4, <2>7 DEF RelayTypeOK
<1>8. ASSUME NEW i \in Instance, Ends(i) PROVE RelayTypeOK'
  <2>1. shell' = CrossedOff({i}) /\ proc' = [proc EXCEPT ![i] = "sleeps"] /\ proc[i] = "works"
    BY <1>8 DEF Ends
  <2>2. overlooked' \in [Instance -> SUBSET Instance]
    BY <1>8, <1>0 DEF Ends
  <2>3. shell' \in [Instance -> Shells] /\ proc' \in [Instance -> Titles]
    BY <2>1, WithoutKeeps DEF RelayTypeOK
  <2>4. ASSUME NEW j \in Instance
        PROVE  /\ proc'[j] = "kills" => shell'[j].pc # "none"
               /\ proc'[j] \in {"sleeps", "boots", "works"} => shell'[j] = NoShell
    BY <2>1, WithoutKeeps DEF RelayTypeOK
  <2> QED
    BY <1>8, <2>2, <2>3, <2>4 DEF Ends, RelayTypeOK
<1>9. ASSUME NEW i \in Instance, Wakes(i) PROVE RelayTypeOK'
  BY <1>9 DEF Wakes, RelayTypeOK
<1>10. ASSUME NEW i \in Instance, Dies(i) PROVE RelayTypeOK'
  <2>1. shell' = CrossedOff({i}) /\ proc' = [proc EXCEPT ![i] = "off"]
    BY <1>10 DEF Dies
  <2>2. /\ shell' \in [Instance -> Shells] /\ faults' \in Nat /\ starting' = starting
        /\ overlooked' \in [Instance -> SUBSET Instance]
    BY <1>10, <1>0, <2>1, WithoutKeeps DEF Dies, RelayTypeOK
  <2>3. ASSUME NEW j \in Instance
        PROVE  /\ proc'[j] = "kills" => shell'[j].pc # "none"
               /\ proc'[j] \in {"sleeps", "boots", "works"} => shell'[j] = NoShell
    BY <2>1, WithoutKeeps DEF RelayTypeOK
  <2> QED
    BY <2>1, <2>2, <2>3 DEF RelayTypeOK
<1>11. CASE UNCHANGED relayVars
  BY <1>11 DEF relayVars, RelayTypeOK
<1> QED
  BY <1>1, <1>2, <1>3, <1>4, <1>5, <1>6, <1>7, <1>8, <1>9, <1>10, <1>11 DEF RelayNext, Runs

\* A step after which every titled instance that has listed was one before, with
\* no pid of a titled instance crossed off its shell's list or forgotten, breaks nothing.
LEMMA StaysMarked ==
  ASSUME Marked,
         \A i \in Instance : i \in Titled' /\ HasListed(i)' => i \in Titled /\ HasListed(i),
         \A i \in Instance :
           i \in Titled' => \/ shell'[i] = shell[i]
                            \/ /\ shell'[i].pc = shell[i].pc
                               /\ Titled' \cap shell[i].victims \subseteq shell'[i].victims,
         \A i \in Instance : i \in Titled' => Titled' \cap overlooked[i] \subseteq overlooked'[i]
  PROVE  Marked'
<1> SUFFICES ASSUME NEW i \in Instance, NEW j \in Instance, i # j,
                    i \in Titled', j \in Titled', HasListed(i)', HasListed(j)'
             PROVE  \/ shell'[i].pc = "kill" /\ j \in shell'[i].victims
                    \/ shell'[j].pc = "kill" /\ i \in shell'[j].victims
                    \/ j \in overlooked'[i] \/ i \in overlooked'[j]
  BY DEF Marked
<1>1. \/ shell[i].pc = "kill" /\ j \in shell[i].victims
      \/ shell[j].pc = "kill" /\ i \in shell[j].victims
      \/ j \in overlooked[i] \/ i \in overlooked[j]
  BY DEF Marked
<1> QED
  BY <1>1

\* Marked: a shell that lists has every other titled instance on its list or
\* overlooks it, and one that kills leaves of the titled only those that have its
\* own on theirs, or are overlooked by one of the two.
LEMMA MarkedStep == RelayInv /\ [RelayNext]_relayVars => Marked'
<1> SUFFICES ASSUME RelayTypeOK, Marked, [RelayNext]_relayVars PROVE Marked'
  BY DEF RelayInv
<1>1. CASE UNCHANGED <<proc, shell, overlooked>>
  BY <1>1 DEF Marked, Titled, HasListed
<1>2. CASE ServiceRestart
  BY <1>2 DEF ServiceRestart, Marked, Titled
<1>3. ASSUME NEW i \in Instance, Start(i) PROVE Marked'
  BY <1>3, StaysMarked DEF Start, Titled, HasListed, RelayTypeOK
<1>4. ASSUME NEW i \in Instance, SetTitle(i) PROVE Marked'
  <2>1. ~HasListed(i)'
    BY <1>4 DEF SetTitle, HasListed, Listing, RelayTypeOK
  <2>2. /\ \A j \in Instance \ {i} : shell'[j] = shell[j] /\ proc'[j] = proc[j]
        /\ overlooked' = overlooked
    BY <1>4 DEF SetTitle, RelayTypeOK
  <2> QED
    BY <2>1, <2>2 DEF Marked, Titled, HasListed
<1>5. ASSUME NEW i \in Instance, Lists(i) PROVE Marked'
  <2>1. Titled' = Titled
    BY <1>5 DEF Lists, Titled
  <2>2. PICK unseen \in SUBSET (Titled \ {i}) :
          /\ shell'[i].pc = "kill" /\ shell'[i].victims = (Titled \ {i}) \ unseen
          /\ overlooked'[i] = unseen
    BY <1>5 DEF Lists, Listed, RelayTypeOK
  <2>3. \A j \in Instance \ {i} : shell'[j] = shell[j] /\ overlooked'[j] = overlooked[j]
    BY <1>5 DEF Lists, RelayTypeOK
  <2> QED
    BY <2>1, <2>2, <2>3 DEF Marked, HasListed
<1>6. ASSUME NEW i \in Instance, Kills(i) PROVE Marked'
  <2> DEFINE victims == shell[i].victims
  <2>1. shell[i].pc = "kill"
    BY <1>6 DEF Kills
  <2>2. ASSUME NEW j \in Instance, j # i
        PROVE  /\ shell'[j].pc = shell[j].pc
               /\ shell'[j].victims = shell[j].victims \ victims
               /\ j \in Titled' => j \in Titled /\ j \notin victims
    BY <1>6, <2>2, WithoutKeeps DEF Kills, Titled
  <2>3. i \in Titled' => i \in Titled /\ i \notin victims
    BY <1>6 DEF Kills, Titled, RelayTypeOK
  <2>7. \A j \in Instance : j \notin victims => overlooked'[j] = overlooked[j] \ victims
    BY <1>6 DEF Kills, Forgotten
  <2> SUFFICES ASSUME NEW j \in Instance, NEW k \in Instance, j # k,
                      j \in Titled', k \in Titled', HasListed(j)', HasListed(k)'
               PROVE  \/ shell'[j].pc = "kill" /\ k \in shell'[j].victims
                      \/ shell'[k].pc = "kill" /\ j \in shell'[k].victims
                      \/ k \in overlooked'[j] \/ j \in overlooked'[k]
    BY DEF Marked
  <2>4. CASE j # i /\ k # i
    BY <2>2, <2>4, <2>7 DEF Marked, HasListed
  <2>5. CASE j = i
    BY <2>1, <2>2, <2>3, <2>5, <2>7 DEF Marked, HasListed
  <2>6. CASE k = i
    BY <2>1, <2>2, <2>3, <2>6, <2>7 DEF Marked, HasListed
  <2> QED
    BY <2>4, <2>5, <2>6
<1>7. ASSUME NEW i \in Instance, Ends(i) \/ Dies(i) PROVE Marked'
  <2>1. shell' = CrossedOff({i}) /\ Titled' = Titled \ {i}
    BY <1>7 DEF Ends, Dies, Titled, RelayTypeOK
  <2>2. \A j \in Instance : /\ shell'[j].pc = shell[j].pc
                            /\ shell'[j].victims = shell[j].victims \ {i}
    BY <2>1, WithoutKeeps
  <2>3. \A j \in Instance \ {i} : overlooked'[j] = overlooked[j] \ {i}
    BY <1>7 DEF Ends, Dies, Forgotten
  <2> QED
    BY <2>1, <2>2, <2>3, StaysMarked DEF HasListed
<1>8. ASSUME NEW i \in Instance, Wakes(i) PROVE Marked'
  BY <1>8, StaysMarked DEF Wakes, Titled, HasListed, RelayTypeOK
<1> QED
  BY <1>1, <1>2, <1>3, <1>4, <1>5, <1>6, <1>7, <1>8
     DEF RelayNext, Runs, CronCounts, CronMisses, relayVars

LEMMA RelayInvStep == RelayInv /\ [RelayNext]_relayVars => RelayInv'
  BY RelayTypeStep, MarkedStep DEF RelayInv

\* An instance at work has no shell, so Marked leaves room for a second one only
\* where one has overlooked the other.
LEMMA MarkedAlone == RelayInv => OneReceiver
<1> SUFFICES ASSUME RelayTypeOK, Marked, NEW i \in Instance, NEW j \in Instance,
                    proc[i] = "works", proc[j] = "works", i # j
             PROVE  j \in overlooked[i] \/ i \in overlooked[j]
  BY DEF RelayInv, OneReceiver
<1>1. shell[i] = NoShell /\ shell[j] = NoShell
  BY DEF RelayTypeOK
<1>2. {i, j} \subseteq Titled /\ HasListed(i) /\ HasListed(j)
  BY <1>1 DEF Titled, HasListed, NoShell
<1> QED
  BY <1>1, <1>2 DEF Marked, NoShell

LEMMA RelayInvHolds == RelaySpec => []RelayInv
  BY RelayInitInv, RelayInvStep, PTL DEF RelaySpec

\* Every pid is where signals.php can be, and an instance that waits for its kill
\* command has a shell that runs it.
THEOREM RelayTypeCorrect == RelaySpec => []RelayTypeOK
<1>1. RelayInv => RelayTypeOK
  BY DEF RelayInv
<1> QED
  BY <1>1, RelayInvHolds, PTL

\* However many instances of signals.php are started, killed and left behind, two
\* work on the signals of a server at once only if one of them has overlooked the
\* other when it asked ps.
THEOREM OneDaemon == RelaySpec => []OneReceiver
  BY MarkedAlone, RelayInvHolds, PTL
=============================================================================
