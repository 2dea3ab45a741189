------------------------- MODULE MemtableManagerProofs -------------------------
(***************************************************************************)
(* Proofs about MemtableManager, for any number of writers, keys, tables   *)
(* and entries.                                                            *)
(***************************************************************************)
EXTENDS MemtableManager, SequenceFacts, FiniteSetTheorems, SequenceTheorems, TLAPS

-----------------------------------------------------------------------------
(* Type correctness.  That the WaitGroup's counter stays a natural number  *)
(* needs to know what it counts: the tables on their way to the worker and *)
(* the one the worker has in hand.                                         *)

Senders == {w \in Writers : pc[w] = "send"}

WgCounts ==
    wg = Len(flushChannel) + Cardinality(Senders) + (IF worker.pc = "recv" THEN 0 ELSE 1)

(* One writer enters or leaves the set of senders.                         *)
LEMMA SendersStep ==
    ASSUME NEW w \in Writers, pc \in [Writers -> WriterPCs], NEW p \in WriterPCs,
           pc' = [pc EXCEPT ![w] = p]
    PROVE  /\ Cardinality(Senders) \in Nat /\ Cardinality(Senders') \in Nat
           /\ pc[w] # "send" /\ p = "send" => Cardinality(Senders') = Cardinality(Senders) + 1
           /\ pc[w] = "send" /\ p # "send" => /\ Cardinality(Senders') = Cardinality(Senders) - 1
                                              /\ Cardinality(Senders) > 0
           /\ pc[w] # "send" /\ p # "send" => Senders' = Senders
<1>1. IsFiniteSet(Senders) /\ IsFiniteSet(Senders')
  BY WritersAssumption, FS_Subset DEF Senders
<1>2. ASSUME pc[w] # "send", p = "send"
      PROVE  Senders' = Senders \cup {w} /\ w \notin Senders
  BY <1>2 DEF Senders
<1>3. ASSUME pc[w] = "send", p # "send"
      PROVE  Senders' = Senders \ {w} /\ w \in Senders
  BY <1>3 DEF Senders
<1>4. ASSUME pc[w] # "send", p # "send" PROVE Senders' = Senders
  BY <1>4 DEF Senders
<1>5. Cardinality(Senders) \in Nat /\ Cardinality(Senders') \in Nat
  BY <1>1, FS_CardinalityType
<1>6. ASSUME pc[w] # "send", p = "send"
      PROVE  Cardinality(Senders') = Cardinality(Senders) + 1
  BY <1>1, <1>2, <1>6, FS_AddElement
<1>7. ASSUME pc[w] = "send", p # "send"
      PROVE  Cardinality(Senders') = Cardinality(Senders) - 1
  BY <1>1, <1>3, <1>7, FS_RemoveElement
<1> QED
  BY <1>4, <1>5, <1>6, <1>7

(* A fresh table, and a table with one more entry, are tables.             *)
LEMMA TableTypes ==
    ASSUME NEW id \in Nat, NEW t \in Table, NEW e \in Entry
    PROVE  NewTable(id) \in Table /\ Insert(t, e) \in Table /\ Upsert(t, e) \in Table
<1>1. t.ents \cup {e} \in SUBSET Entry
  BY DEF Table
<1>2. {f \in t.ents : f.rd \/ f.key # e.key} \cup {e} \in SUBSET Entry
  BY DEF Table
<1> QED
  BY <1>1, <1>2 DEF NewTable, Insert, Upsert, Table

(* The effect of MoveActive on the types and on the counter.               *)
LEMMA MoveActiveType ==
    ASSUME TypeOK, NEW w \in Writers, MoveActive(w)
    PROVE  /\ active' \in Table /\ immutable' \in Seq(Table)
           /\ held' \in [Writers -> Table] /\ pc' \in [Writers -> WriterPCs]
           /\ wg' = wg + 1 /\ pc' = [pc EXCEPT ![w] = "send"]
<1>1. active.id + 1 \in Nat /\ resets \in Nat
  BY BoundsAssumption DEF TypeOK, Table
<1>2. NewTable(active.id + 1) \in Table
  BY <1>1 DEF NewTable, Table
<1> QED
  BY <1>2 DEF TypeOK, MoveActive, WriterPCs

(* rotate, with or without a wait: the types and the counter's balance.    *)
LEMMA WaitOrMoveType ==
    ASSUME TypeOK, WgCounts, NEW w \in Writers, pc[w] \in {"rotate", "woken"}, WaitOrMove(w),
           UNCHANGED <<flushChannel, worker>>
    PROVE  /\ active' \in Table /\ immutable' \in Seq(Table) /\ wg' \in Nat
           /\ held' \in [Writers -> Table] /\ pc' \in [Writers -> WriterPCs]
           /\ WgCounts'
<1>1. CASE UNCHANGED <<active, immutable, held, wg>> /\ pc' = [pc EXCEPT ![w] = "wait"]
  <2>1. Senders' = Senders
    BY <1>1, SendersStep DEF TypeOK, WriterPCs
  <2> QED
    BY <1>1, <2>1 DEF TypeOK, WriterPCs, WgCounts
<1>2. CASE MoveActive(w)
  <2>1. wg' = wg + 1 /\ pc' = [pc EXCEPT ![w] = "send"]
    BY <1>2, MoveActiveType
  <2>2. Cardinality(Senders') = Cardinality(Senders) + 1 /\ Cardinality(Senders) \in Nat
    BY <2>1, SendersStep DEF TypeOK, WriterPCs
  <2>3. WgCounts' /\ wg' \in Nat
    BY <2>1, <2>2, SMTT(40) DEF TypeOK, WgCounts
  <2> QED
    BY <1>2, <2>3, MoveActiveType
<1> QED
  BY <1>1, <1>2 DEF WaitOrMove

(* cond.Signal lets no writer enter or leave "send".                       *)
LEMMA SignalFacts ==
    ASSUME TypeOK, Signal
    PROVE  /\ pc' \in [Writers -> WriterPCs]
           /\ \A w \in Writers : \/ pc'[w] = pc[w]
                                 \/ pc[w] = "wait" /\ pc'[w] = "woken"
           /\ (\E w \in Writers : pc[w] = "wait") => \E w \in Writers : pc'[w] = "woken"
           /\ Senders' = Senders
<1>1. /\ pc' \in [Writers -> WriterPCs]
      /\ \A w \in Writers : \/ pc'[w] = pc[w]
                            \/ pc[w] = "wait" /\ pc'[w] = "woken"
  BY DEF TypeOK, Signal, WriterPCs
<1>2. (\E w \in Writers : pc[w] = "wait") => \E w \in Writers : pc'[w] = "woken"
  BY DEF TypeOK, Signal, WriterPCs
<1>3. Senders' = Senders
  BY <1>1 DEF Senders
<1> QED
  BY <1>1, <1>2, <1>3

(* The worker's critical section takes its table out of the list, leaves   *)
(* every writer where it is but for one it wakes, and panics only over an  *)
(* empty list.                                                             *)
LEMMA TakeImmutableFacts ==
    ASSUME TypeOK, TakeImmutable
    PROVE  /\ UNCHANGED <<active, flushChannel, wg, held, closing, snapshots, seq, puts, flushed,
                          resets>>
           /\ immutable' \in Seq(Table) /\ Len(immutable') <= Len(immutable)
           /\ immutable' = RemoveFirst(immutable, worker.tab)
           /\ pc' \in [Writers -> WriterPCs]
           /\ \A w \in Writers : \/ pc'[w] = pc[w]
                                 \/ pc[w] = "wait" /\ pc'[w] = "woken"
           /\ Senders' = Senders
           /\ worker.pc = "lock" /\ worker'.tab = worker.tab
           /\ worker' \in [pc : {"flush", "skip", "panicked"}, tab : Table]
           /\ Contains(immutable, worker.tab) => worker'.pc = "flush"
           /\ \/ worker'.pc = "panicked" /\ immutable = <<>>
              \/ /\ worker'.pc # "panicked"
                 /\ (\E w \in Writers : pc[w] = "wait") => \E w \in Writers : pc'[w] = "woken"
<1>1. /\ UNCHANGED <<active, flushChannel, wg, held, closing, snapshots, seq, puts, flushed,
            resets>>
      /\ worker.pc = "lock" /\ immutable \in Seq(Table)
      /\ pc \in [Writers -> WriterPCs] /\ worker.tab \in Table
  BY DEF TakeImmutable, TypeOK
<1>2. CASE RemovePanics
  <2>1. /\ immutable = <<>> /\ immutable' = <<>> /\ pc' = pc
        /\ worker'.pc = "panicked" /\ worker'.tab = worker.tab
        /\ worker' \in [pc : {"flush", "skip", "panicked"}, tab : Table]
    BY <1>2 DEF RemovePanics, TypeOK
  <2>2. ~Contains(immutable, worker.tab)
    BY <2>1, EmptySeq DEF Contains
  <2>3. RemoveFirst(immutable, worker.tab) = immutable
    BY <1>1, <2>2, RemoveFirstAbsent
  <2>4. Senders' = Senders
    BY <2>1 DEF Senders
  <2>5. Len(immutable') <= Len(immutable)
    BY <2>1
  <2> QED
    BY <1>1, <2>1, <2>2, <2>3, <2>4, <2>5
<1>3. CASE immutable # <<>> /\ Signal
           /\ worker' = [worker EXCEPT !.pc = IF Contains(immutable, worker.tab)
                                             THEN "flush" ELSE "skip"]
           /\ immutable' = RemoveFirst(immutable, worker.tab)
  <2>1. immutable' \in Seq(Table) /\ Len(immutable') <= Len(immutable)
    BY <1>1, <1>3, RemoveFirstFacts
  <2>2. /\ worker'.tab = worker.tab /\ worker'.pc \in {"flush", "skip"}
        /\ worker' \in [pc : {"flush", "skip", "panicked"}, tab : Table]
        /\ Contains(immutable, worker.tab) => worker'.pc = "flush"
    BY <1>3 DEF TypeOK
  <2> QED
    BY <1>1, <1>3, <2>1, <2>2, SignalFacts
<1> QED
  BY <1>2, <1>3, Zenon DEF TakeImmutable

(* The types and the counter's balance hold initially ...                  *)
LEMMA TypeInit == Init => TypeOK /\ WgCounts
<1>. SUFFICES ASSUME Init PROVE TypeOK /\ WgCounts
  OBVIOUS
<1>1. active \in Table
  BY DEF Init, NewTable, Table
<1>2. Senders = {}
  BY DEF Init, Senders
<1>3. Cardinality(Senders) = 0
  BY <1>2, FS_EmptySet
<1>4. TypeOK
  BY <1>1, BoundsAssumption DEF Init, TypeOK, WriterPCs
<1>5. WgCounts
  BY <1>3 DEF Init, WgCounts
<1> QED
  BY <1>4, <1>5

(* ... and every step keeps them.                                          *)
LEMMA TypeStep == TypeOK /\ WgCounts /\ [Next]_vars => TypeOK' /\ WgCounts'
<1>. SUFFICES ASSUME TypeOK, WgCounts, [Next]_vars PROVE TypeOK' /\ WgCounts'
  OBVIOUS
<1>1. Cardinality(Senders) \in Nat
  BY WritersAssumption, FS_Subset, FS_CardinalityType DEF Senders
<1>2. ASSUME NEW w \in Writers, NEW k \in Keys, NEW rd \in BOOLEAN, Put(w, k, rd)
      PROVE  TypeOK' /\ WgCounts'
  <2>. DEFINE e == [key |-> k, seq |-> seq', rd |-> rd]
  <2>1. seq' \in 0 .. MaxPuts /\ seq' \in Nat
    BY <1>2, BoundsAssumption DEF Put, TypeOK
  <2>2. e \in Entry
    BY <2>1 DEF Entry
  <2>3. active' \in Table /\ puts' \subseteq Entry
    <3>1. Insert(active, e) \in Table /\ Upsert(active, e) \in Table
      <4>1. active \in Table
        BY DEF TypeOK
      <4>. HIDE DEF e
      <4> QED
        BY <2>2, <4>1, TableTypes
    <3>2. /\ active' = Insert(active, e) \/ active' = Upsert(active, e)
          /\ puts' = puts \cup {e}
      BY <1>2 DEF Put
    <3> QED
      BY <2>2, <3>1, <3>2 DEF TypeOK
  <2>4. PICK p \in {"rotate", "idle"} : pc' = [pc EXCEPT ![w] = p]
    BY <1>2 DEF Put
  <2>5. Senders' = Senders
    BY <1>2, <2>4, SendersStep DEF Put, TypeOK, WriterPCs
  <2>6. TypeOK'
    BY <1>2, <2>1, <2>3, <2>4 DEF Put, TypeOK, WriterPCs
  <2> QED
    BY <1>2, <2>5, <2>6 DEF Put, WgCounts
<1>3. ASSUME NEW w \in Writers, Rotate(w) PROVE TypeOK' /\ WgCounts'
  <2>1. CASE pc' = [pc EXCEPT ![w] = "idle"] /\ UNCHANGED <<active, immutable, held, wg>>
    <3>1. Senders' = Senders
      BY <1>3, <2>1, SendersStep DEF Rotate, TypeOK, WriterPCs
    <3> QED
      BY <1>3, <2>1, <3>1 DEF Rotate, TypeOK, WriterPCs, WgCounts
  <2>2. CASE WaitOrMove(w)
    BY <1>3, <2>2, WaitOrMoveType DEF Rotate, TypeOK
  <2> QED
    BY <1>3, <2>1, <2>2 DEF Rotate
<1>4. ASSUME NEW w \in Writers, WakeUp(w) PROVE TypeOK' /\ WgCounts'
  BY <1>4, WaitOrMoveType DEF WakeUp, TypeOK
<1>5. ASSUME NEW w \in Writers, Send(w) PROVE TypeOK' /\ WgCounts'
  <2>1. Cardinality(Senders') = Cardinality(Senders) - 1 /\ Cardinality(Senders') \in Nat
    BY <1>5, SendersStep DEF Send, TypeOK, WriterPCs
  <2>2. flushChannel' \in Seq(Table) /\ Len(flushChannel') = Len(flushChannel) + 1
    BY <1>5 DEF Send, TypeOK
  <2>3. TypeOK'
    BY <1>5, <2>2 DEF Send, TypeOK, WriterPCs
  <2> QED
    BY <1>1, <1>5, <2>1, <2>2, <2>3 DEF Send, WgCounts, TypeOK
<1>6. CASE Receive
  <2>1. /\ flushChannel' \in Seq(Table) /\ Len(flushChannel') = Len(flushChannel) - 1
        /\ Head(flushChannel) \in Table
    BY <1>6 DEF Receive, TypeOK
  <2>2. TypeOK'
    BY <1>6, <2>1 DEF Receive, TypeOK
  <2>3. Senders' = Senders
    BY <1>6 DEF Receive, Senders
  <2> QED
    BY <1>1, <1>6, <2>1, <2>2, <2>3 DEF Receive, WgCounts, TypeOK
<1>7. CASE TakeImmutable
  <2>1. immutable' \in Seq(Table)
    BY <1>7, TakeImmutableFacts
  <2>2. pc' \in [Writers -> WriterPCs] /\ Senders' = Senders
    BY <1>7, TakeImmutableFacts
  <2>3. UNCHANGED <<active, flushChannel, wg, held, closing, snapshots, seq, puts, flushed, resets>>
    BY <1>7, TakeImmutableFacts
  <2>4. worker.pc # "recv" /\ worker'.pc # "recv"
        /\ worker' \in [pc : {"recv", "lock", "flush", "skip", "panicked"}, tab : Table]
    BY <1>7, TakeImmutableFacts
  <2>5. TypeOK'
    BY <2>1, <2>2, <2>3, <2>4 DEF TypeOK
  <2> QED
    BY <2>2, <2>3, <2>4, <2>5 DEF WgCounts
<1>8. CASE Flush
  <2>1. Senders' = Senders
    BY <1>8 DEF Flush, Senders
  <2>2. WgCounts' /\ wg' \in Nat
    BY <1>1, <1>8, <2>1, SMTT(40) DEF Flush, WgCounts, TypeOK
  <2>3. flushed' \in Seq(Table)
    BY <1>8 DEF Flush, TypeOK
  <2> QED
    BY <1>8, <2>2, <2>3 DEF Flush, TypeOK
<1>9. ASSUME NEW k \in Keys, Snapshot(k) PROVE TypeOK' /\ WgCounts'
  <2>1. Senders' = Senders
    BY <1>9 DEF Snapshot, Senders
  <2> QED
    BY <1>9, <2>1 DEF Snapshot, TypeOK, WgCounts
<1>10. CASE ResetAll
  <2>1. resets' \in 0 .. MaxResets /\ resets' \in Nat /\ active.id + 1 \in Nat
    BY <1>10, BoundsAssumption DEF ResetAll, TypeOK, Table
  <2>2. active' \in Table
    BY <1>10, <2>1 DEF ResetAll, NewTable, Table
  <2>3. Senders' = Senders
    BY <1>10 DEF ResetAll, Senders
  <2> QED
    BY <1>10, <2>1, <2>2, <2>3 DEF ResetAll, TypeOK, WgCounts
<1>11. CASE Close
  <2>1. Senders' = Senders
    BY <1>11 DEF Close, Senders
  <2>2. CASE ShouldFlush(active)
    <3>1. active.id + 1 \in Nat /\ resets \in Nat
      BY BoundsAssumption DEF TypeOK, Table
    <3>2. active' \in Table
      BY <1>11, <2>2, <3>1 DEF Close, NewTable, Table
    <3>3. /\ flushChannel' \in Seq(Table) /\ Len(flushChannel') = Len(flushChannel) + 1
          /\ immutable' \in Seq(Table)
      <4>1. flushChannel' = Append(flushChannel, active) /\ immutable' = Append(immutable, active)
        BY <1>11, <2>2 DEF Close
      <4> QED
        BY <4>1, AppendProperties DEF TypeOK
    <3>4. wg' = wg + 1 /\ worker' = worker /\ wg \in Nat /\ Len(flushChannel) \in Nat
      BY <1>11, <2>2 DEF Close, TypeOK
    <3>5. TypeOK'
      <4>1. wg' \in Nat /\ closing' \in {"open", "closed", "done"}
        BY <1>11, <3>4 DEF Close
      <4> QED
        BY <1>11, <3>2, <3>3, <4>1 DEF Close, TypeOK
    <3> QED
      BY <1>1, <2>1, <3>3, <3>4, <3>5 DEF WgCounts
  <2>3. CASE ~ShouldFlush(active)
    BY <1>11, <2>1, <2>3 DEF Close, TypeOK, WgCounts
  <2> QED
    BY <2>2, <2>3
<1>12. CASE CloseReturns
  <2>1. Senders' = Senders
    BY <1>12 DEF CloseReturns, Senders
  <2> QED
    BY <1>12, <2>1 DEF CloseReturns, TypeOK, WgCounts
<1>13. CASE UNCHANGED vars
  <2>1. Senders' = Senders
    BY <1>13 DEF vars, Senders
  <2> QED
    BY <1>13, <2>1 DEF vars, TypeOK, WgCounts
<1> QED
  BY <1>2, <1>3, <1>4, <1>5, <1>6, <1>7, <1>8, <1>9, <1>10, <1>11, <1>12, <1>13
  DEF Next, Terminated

(* Every variable keeps its type; wg never goes negative, so wg.Done never *)
(* panics, and Close's wg.Wait waits for exactly the tables not yet        *)
(* handled.                                                                *)
THEOREM TypeCorrect == Spec => [](TypeOK /\ WgCounts)
<1> QED
  BY TypeInit, TypeStep, PTL DEF Spec

-----------------------------------------------------------------------------
(* Rotation.  That Close, which appends without waiting, respects the      *)
(* bound on the immutable list rests on FullHasRotator: no full table is   *)
(* left once every writer is idle.                                         *)

(* A fresh table is not full.                                              *)
LEMMA NewTableNotFull ==
    ASSUME NEW id
    PROVE  ~ShouldFlush(NewTable(id))
<1>1. Points(NewTable(id)) = {}
  BY DEF Points, NewTable
<1>2. Cardinality(Points(NewTable(id))) = 0
  BY <1>1, FS_EmptySet
<1> QED
  BY <1>2, BoundsAssumption DEF ShouldFlush

(* Close finds no full table, so it moves none.                            *)
LEMMA CloseMovesNothing ==
    ASSUME FullHasRotator, Close
    PROVE  UNCHANGED <<active, immutable, flushChannel, wg>>
<1>1. ~ShouldFlush(active)
  BY DEF FullHasRotator, Close
<1> QED
  BY <1>1 DEF Close

(* The bound and the rotator survive the loop of rotate.                   *)
LEMMA WaitOrMoveRotation ==
    ASSUME TypeOK, ImmutableBound, NEW w \in Writers, WaitOrMove(w)
    PROVE  ImmutableBound' /\ FullHasRotator'
<1>1. CASE UNCHANGED <<active, immutable, held, wg>> /\ pc' = [pc EXCEPT ![w] = "wait"]
  <2>1. pc'[w] = "wait"
    BY <1>1 DEF TypeOK
  <2> QED
    BY <1>1, <2>1 DEF ImmutableBound, FullHasRotator
<1>2. CASE Len(immutable) < MaxTables /\ MoveActive(w)
  <2>1. Len(immutable') = Len(immutable) + 1
    BY <1>2, AppendProperties DEF MoveActive, TypeOK
  <2>2. ~ShouldFlush(active')
    BY <1>2, NewTableNotFull DEF MoveActive
  <2> QED
    BY <1>2, <2>1, <2>2, BoundsAssumption DEF ImmutableBound, FullHasRotator, TypeOK
<1> QED
  BY <1>1, <1>2 DEF WaitOrMove

(* Every step keeps the list bounded and the full table attended to.       *)
LEMMA RotationStep ==
    TypeOK /\ ImmutableBound /\ FullHasRotator /\ [Next]_vars
        => ImmutableBound' /\ FullHasRotator'
<1>. SUFFICES ASSUME TypeOK, ImmutableBound, FullHasRotator, [Next]_vars
              PROVE  ImmutableBound' /\ FullHasRotator'
  OBVIOUS
<1>1. ASSUME NEW w \in Writers, NEW k \in Keys, NEW rd \in BOOLEAN, Put(w, k, rd)
      PROVE  ImmutableBound' /\ FullHasRotator'
  <2>1. ShouldFlush(active') => pc'[w] = "rotate"
    BY <1>1 DEF Put, TypeOK
  <2> QED
    BY <1>1, <2>1 DEF Put, ImmutableBound, FullHasRotator
<1>2. ASSUME NEW w \in Writers, Rotate(w) PROVE ImmutableBound' /\ FullHasRotator'
  <2>1. CASE ~ShouldFlush(active) /\ UNCHANGED <<active, immutable>>
    BY <2>1 DEF ImmutableBound, FullHasRotator
  <2>2. CASE WaitOrMove(w)
    BY <2>2, WaitOrMoveRotation
  <2> QED
    BY <1>2, <2>1, <2>2 DEF Rotate
<1>3. ASSUME NEW w \in Writers, WakeUp(w) PROVE ImmutableBound' /\ FullHasRotator'
  BY <1>3, WaitOrMoveRotation DEF WakeUp
<1>4. ASSUME NEW w \in Writers, Send(w) PROVE ImmutableBound' /\ FullHasRotator'
  <2>1. ASSUME ShouldFlush(active)
        PROVE  \E v \in Writers : pc'[v] \in {"rotate", "wait", "woken"}
    <3>1. PICK v \in Writers : pc[v] \in {"rotate", "wait", "woken"}
      BY <2>1 DEF FullHasRotator
    <3>2. pc'[v] = pc[v]
      BY <1>4, <3>1 DEF Send, TypeOK
    <3> QED
      BY <3>1, <3>2
  <2> QED
    BY <1>4, <2>1 DEF Send, ImmutableBound, FullHasRotator
<1>5. CASE TakeImmutable
  <2>1. Len(immutable') <= Len(immutable) /\ immutable' \in Seq(Table)
    BY <1>5, TakeImmutableFacts
  <2>2. /\ \A w \in Writers : pc'[w] = pc[w] \/ pc'[w] = "woken"
        /\ active' = active
    BY <1>5, TakeImmutableFacts
  <2>3. ImmutableBound'
    BY <2>1, BoundsAssumption DEF ImmutableBound, TypeOK
  <2> QED
    BY <2>2, <2>3 DEF FullHasRotator
<1>6. CASE ResetAll
  <2>1. ~ShouldFlush(active')
    BY <1>6, NewTableNotFull DEF ResetAll
  <2> QED
    BY <1>6, <2>1, BoundsAssumption DEF ResetAll, ImmutableBound, FullHasRotator
<1>7. CASE Close
  BY <1>7, CloseMovesNothing DEF Close, ImmutableBound, FullHasRotator
<1>8. CASE UNCHANGED <<active, immutable, pc>>
  BY <1>8 DEF ImmutableBound, FullHasRotator
<1> QED
  BY <1>1, <1>2, <1>3, <1>4, <1>5, <1>6, <1>7, <1>8
  DEF Next, Terminated, vars, Receive, Flush, Snapshot, CloseReturns

(* The immutable list never outgrows maxTables, and a full active table    *)
(* always has a writer on its way to rotate it, for any number of          *)
(* concurrent writers.                                                     *)
THEOREM RotationSafe == Spec => [](ImmutableBound /\ FullHasRotator)
<1>1. Init => ImmutableBound /\ FullHasRotator
  <2>. SUFFICES ASSUME Init PROVE ImmutableBound /\ FullHasRotator
    OBVIOUS
  <2>1. ~ShouldFlush(active)
    BY NewTableNotFull DEF Init
  <2> QED
    BY <2>1, BoundsAssumption DEF Init, ImmutableBound, FullHasRotator
<1> QED
  BY <1>1, RotationStep, TypeCorrect, PTL DEF Spec

-----------------------------------------------------------------------------
(* Wakeups.  A writer waits only while the immutable list is full, and     *)
(* every immutable table is on its way to the worker, whose critical       *)
(* section signals.  Receive hands over one table for its one place in the *)
(* list, so no table may be in the list twice: identities increase.        *)

IdsIncrease ==
    /\ \A i \in 1 .. Len(immutable) : immutable[i].id < active.id
    /\ \A i, j \in 1 .. Len(immutable) : i < j => immutable[i].id < immutable[j].id

WakeupInv == IdsIncrease /\ ImmutableOnItsWay /\ NoLostWakeup

(* Moving the active table to the list keeps the identities increasing and *)
(* leaves the new table in the writer's hands.                             *)
LEMMA MoveActiveWakeup ==
    ASSUME TypeOK, WakeupInv, NEW w \in Writers, pc[w] # "send", MoveActive(w),
           UNCHANGED <<flushChannel, worker>>
    PROVE  WakeupInv'
<1>1. /\ Len(immutable') = Len(immutable) + 1 /\ Len(immutable) \in Nat
      /\ \A i \in 1 .. Len(immutable) : immutable'[i] = immutable[i]
      /\ immutable'[Len(immutable) + 1] = active
      /\ immutable' \in Seq(Table)
  BY AppendProperties DEF MoveActive, TypeOK
<1>2. active'.id = active.id + 1 /\ active.id \in Nat
  BY DEF MoveActive, NewTable, TypeOK, Table
<1>3. \A i \in 1 .. Len(immutable) : immutable[i].id \in Nat
  <2>1. \A i \in 1 .. Len(immutable) : immutable[i] \in Table
    BY ElementOfSeq DEF TypeOK
  <2> QED
    BY <2>1 DEF Table
<1>4. IdsIncrease'
  <2>1. ASSUME NEW i \in 1 .. Len(immutable') PROVE immutable'[i].id < active'.id
    BY <1>1, <1>2, <1>3, SMTT(40) DEF WakeupInv, IdsIncrease
  <2>2. ASSUME NEW i \in 1 .. Len(immutable'), NEW j \in 1 .. Len(immutable'), i < j
        PROVE  immutable'[i].id < immutable'[j].id
    <3>1. i \in 1 .. Len(immutable) /\ immutable'[i] = immutable[i]
      BY <1>1, <2>2
    <3>2. CASE j \in 1 .. Len(immutable)
      BY <1>1, <2>2, <3>1, <3>2 DEF WakeupInv, IdsIncrease
    <3>3. CASE j = Len(immutable) + 1
      BY <1>1, <3>1, <3>3 DEF WakeupInv, IdsIncrease
    <3> QED
      BY <1>1, <3>2, <3>3
  <2> QED
    BY <2>1, <2>2 DEF IdsIncrease
<1>5. /\ pc'[w] = "send" /\ held'[w] = active
      /\ \A v \in Writers : pc[v] = "send" => pc'[v] = "send" /\ held'[v] = held[v]
  BY DEF MoveActive, TypeOK
<1>6. ImmutableOnItsWay'
  <2>1. ASSUME NEW t \in ToSet(immutable') PROVE OnItsWay(t)'
    <3>1. t \in ToSet(immutable) \/ t = active
      BY AppendElements DEF MoveActive, TypeOK
    <3>2. CASE t \in ToSet(immutable)
      BY <1>5, <3>2 DEF WakeupInv, ImmutableOnItsWay, OnItsWay
    <3>3. CASE t = active
      BY <1>5, <3>3 DEF OnItsWay
    <3> QED
      BY <3>1, <3>2, <3>3
  <2> QED
    BY <2>1 DEF ImmutableOnItsWay
<1>7. NoLostWakeup'
  BY <1>5 DEF NoLostWakeup
<1> QED
  BY <1>4, <1>6, <1>7 DEF WakeupInv

(* rotate's loop: a writer that waits does so because of a full list.      *)
LEMMA WaitOrMoveWakeup ==
    ASSUME TypeOK, WakeupInv, NEW w \in Writers, pc[w] # "send", WaitOrMove(w),
           UNCHANGED <<flushChannel, worker>>
    PROVE  WakeupInv'
<1>1. CASE Len(immutable) >= MaxTables /\ UNCHANGED <<active, immutable, held, wg>>
           /\ pc' = [pc EXCEPT ![w] = "wait"]
  <2>1. \A v \in Writers : pc[v] = "send" => pc'[v] = "send"
    BY <1>1 DEF TypeOK
  <2>2. \A t : OnItsWay(t) => OnItsWay(t)'
    BY <1>1, <2>1 DEF OnItsWay
  <2>3. ImmutableOnItsWay'
    BY <1>1, <2>2 DEF WakeupInv, ImmutableOnItsWay
  <2>4. \E t : t \in ToSet(immutable)
    <3>1. 1 \in 1 .. Len(immutable) /\ DOMAIN immutable = 1 .. Len(immutable)
      BY <1>1, BoundsAssumption DEF TypeOK
    <3> QED
      BY <3>1 DEF ToSet
  <2>5. \E t : OnItsWay(t)'
    BY <1>1, <2>3, <2>4 DEF ImmutableOnItsWay
  <2>6. NoLostWakeup'
    BY <2>5, EmptySeq DEF OnItsWay, NoLostWakeup, ToSet
  <2> QED
    BY <1>1, <2>3, <2>6 DEF WakeupInv, IdsIncrease
<1>2. CASE MoveActive(w)
  BY <1>2, MoveActiveWakeup
<1> QED
  BY <1>1, <1>2 DEF WaitOrMove

(* The worker's critical section removes its table from the list for good, *)
(* and signals.                                                            *)
LEMMA TakeImmutableWakeup ==
    ASSUME TypeOK, WakeupInv, TakeImmutable
    PROVE  WakeupInv'
<1>. DEFINE r == RemoveFirst(immutable, worker.tab)
<1>1. immutable' = r /\ immutable \in Seq(Table) /\ worker.pc = "lock"
      /\ UNCHANGED <<active, flushChannel, held>>
  BY TakeImmutableFacts DEF TypeOK
<1>2. /\ \A w \in Writers : \/ pc'[w] = pc[w]
                            \/ pc[w] = "wait" /\ pc'[w] = "woken"
      /\ \/ worker'.pc = "panicked"
         \/ (\E w \in Writers : pc[w] = "wait") => \E w \in Writers : pc'[w] = "woken"
  BY TakeImmutableFacts
<1>3. NoLostWakeup'
  BY <1>2 DEF NoLostWakeup, Alive
<1>4. ASSUME NEW t \in ToSet(immutable), t # worker.tab PROVE OnItsWay(t)'
  <2>1. OnItsWay(t)
    BY DEF WakeupInv, ImmutableOnItsWay
  <2>2. t \in ToSet(flushChannel) \/ \E w \in Writers : pc[w] = "send" /\ held[w] = t
    BY <1>4, <2>1 DEF OnItsWay
  <2> QED
    BY <1>1, <1>2, <2>2 DEF OnItsWay
<1>5. CASE ~Contains(immutable, worker.tab)
  <2>1. immutable' = immutable
    BY <1>1, <1>5, RemoveFirstAbsent
  <2>2. worker.tab \notin ToSet(immutable)
    BY <1>1, <1>5 DEF Contains, ToSet
  <2>3. ImmutableOnItsWay'
    BY <1>4, <2>1, <2>2 DEF ImmutableOnItsWay
  <2> QED
    BY <1>1, <1>3, <2>1, <2>3 DEF WakeupInv, IdsIncrease
<1>6. CASE Contains(immutable, worker.tab)
  <2>1. PICK k \in 1 .. Len(immutable) :
              /\ immutable[k] = worker.tab
              /\ r \in Seq(Table)
              /\ Len(r) = Len(immutable) - 1
              /\ \A i \in 1 .. Len(immutable) - 1 :
                    r[i] = IF i < k THEN immutable[i] ELSE immutable[i + 1]
    BY <1>1, <1>6, RemoveFirstElements
  <2>. DEFINE pos(i) == IF i < k THEN i ELSE i + 1
  <2>. HIDE DEF r
  <2>2. Len(immutable) \in Nat /\ DOMAIN immutable = 1 .. Len(immutable)
        /\ DOMAIN r = 1 .. Len(immutable) - 1
    BY <1>1, <2>1
  <2>3. \A i \in 1 .. Len(immutable) - 1 :
            /\ pos(i) \in 1 .. Len(immutable) /\ pos(i) # k
            /\ r[i] = immutable[pos(i)]
    BY <2>1, <2>2
  <2>4. \A i, j \in 1 .. Len(immutable) - 1 : i < j => pos(i) < pos(j)
    BY <2>1, <2>2
  <2>. HIDE DEF pos
  <2>5. IdsIncrease'
    <3>1. Len(immutable') = Len(immutable) - 1 /\ active' = active
      BY <1>1, <2>1
    <3>2. ASSUME NEW i \in 1 .. Len(immutable) - 1 PROVE r[i].id < active.id
      BY <2>3, <3>2 DEF WakeupInv, IdsIncrease
    <3>3. ASSUME NEW i \in 1 .. Len(immutable) - 1, NEW j \in 1 .. Len(immutable) - 1, i < j
          PROVE  r[i].id < r[j].id
      <4>1. pos(i) < pos(j)
        BY <2>4, <3>3
      <4>2. pos(i) \in 1 .. Len(immutable) /\ pos(j) \in 1 .. Len(immutable)
            /\ r[i] = immutable[pos(i)] /\ r[j] = immutable[pos(j)]
        BY <2>3, <3>3
      <4> QED
        BY <4>1, <4>2 DEF WakeupInv, IdsIncrease
    <3> QED
      BY <1>1, <3>1, <3>2, <3>3 DEF IdsIncrease
  <2>6. \A i \in 1 .. Len(immutable) : i # k => immutable[i] # worker.tab
    <3>1. ASSUME NEW i \in 1 .. Len(immutable), i # k PROVE immutable[i].id # immutable[k].id
      <4>1. immutable[i].id \in Nat /\ immutable[k].id \in Nat
        <5>1. immutable[i] \in Table /\ immutable[k] \in Table
          BY <1>1, ElementOfSeq
        <5> QED
          BY <5>1 DEF Table
      <4>2. i < k \/ k < i
        BY <2>2, <3>1
      <4>3. immutable[i].id < immutable[k].id \/ immutable[k].id < immutable[i].id
        BY <4>2 DEF WakeupInv, IdsIncrease
      <4> QED
        BY <4>1, <4>3
    <3> QED
      BY <2>1, <3>1
  <2>7. ImmutableOnItsWay'
    <3>1. ASSUME NEW t \in ToSet(r) PROVE t \in ToSet(immutable) /\ t # worker.tab
      <4>1. PICK i \in 1 .. Len(immutable) - 1 : t = r[i]
        BY <2>2 DEF ToSet
      <4> QED
        BY <2>2, <2>3, <2>6, <4>1 DEF ToSet
    <3> QED
      BY <1>1, <1>4, <3>1 DEF ImmutableOnItsWay
  <2> QED
    BY <1>3, <2>5, <2>7 DEF WakeupInv
<1> QED
  BY <1>5, <1>6

(* Every step keeps the wakeup invariant.                                  *)
LEMMA WakeupStep ==
    TypeOK /\ FullHasRotator /\ WakeupInv /\ [Next]_vars => WakeupInv'
<1>. SUFFICES ASSUME TypeOK, FullHasRotator, WakeupInv, [Next]_vars PROVE WakeupInv'
  OBVIOUS
<1>. USE DEF WakeupInv
<1>1. ASSUME NEW w \in Writers, NEW k \in Keys, NEW rd \in BOOLEAN, Put(w, k, rd)
      PROVE  WakeupInv'
  <2>1. active'.id = active.id
    BY <1>1 DEF Put, Insert, Upsert, TypeOK, Table
  <2>2. \A v \in Writers : \/ pc'[v] = pc[v]
                           \/ pc[v] = "idle" /\ pc'[v] \in {"idle", "rotate"}
    BY <1>1 DEF Put, TypeOK
  <2>3. UNCHANGED <<immutable, flushChannel, held, worker>>
    BY <1>1 DEF Put
  <2>4. IdsIncrease'
    BY <2>1, <2>3 DEF IdsIncrease
  <2>5. ImmutableOnItsWay'
    BY <2>2, <2>3 DEF ImmutableOnItsWay, OnItsWay
  <2>6. NoLostWakeup'
    BY <2>2, <2>3 DEF NoLostWakeup, Alive
  <2> QED
    BY <2>4, <2>5, <2>6
<1>2. ASSUME NEW w \in Writers, Rotate(w) PROVE WakeupInv'
  <2>1. CASE UNCHANGED <<active, immutable, held>> /\ pc' = [pc EXCEPT ![w] = "idle"]
    <3>1. \A v \in Writers : \/ pc'[v] = pc[v]
                             \/ pc[v] = "rotate" /\ pc'[v] = "idle"
      BY <1>2, <2>1 DEF Rotate, TypeOK
    <3>2. IdsIncrease'
      BY <2>1 DEF IdsIncrease
    <3>3. ImmutableOnItsWay'
      BY <1>2, <2>1, <3>1 DEF Rotate, ImmutableOnItsWay, OnItsWay
    <3>4. NoLostWakeup'
      BY <1>2, <3>1 DEF Rotate, NoLostWakeup
    <3> QED
      BY <3>2, <3>3, <3>4
  <2>2. CASE WaitOrMove(w)
    BY <1>2, <2>2, WaitOrMoveWakeup DEF Rotate
  <2> QED
    BY <1>2, <2>1, <2>2 DEF Rotate
<1>3. ASSUME NEW w \in Writers, WakeUp(w) PROVE WakeupInv'
  BY <1>3, WaitOrMoveWakeup DEF WakeUp
<1>4. ASSUME NEW w \in Writers, Send(w) PROVE WakeupInv'
  <2>1. /\ UNCHANGED <<active, immutable, held, worker>>
        /\ ToSet(flushChannel') = ToSet(flushChannel) \cup {held[w]}
        /\ flushChannel' # <<>>
    BY <1>4, AppendElements, AppendProperties DEF Send, TypeOK
  <2>2. \A v \in Writers \ {w} : pc'[v] = pc[v]
    BY <1>4 DEF Send, TypeOK
  <2>3. ImmutableOnItsWay'
    BY <2>1, <2>2 DEF ImmutableOnItsWay, OnItsWay
  <2> QED
    BY <2>1, <2>3 DEF IdsIncrease, NoLostWakeup
<1>5. CASE Receive
  <2>1. /\ UNCHANGED <<active, immutable, held, pc>>
        /\ worker.pc = "recv" /\ worker'.pc = "lock" /\ worker'.tab = Head(flushChannel)
        /\ flushChannel' = Tail(flushChannel) /\ flushChannel # <<>>
        /\ flushChannel \in Seq(Table)
    BY <1>5 DEF Receive, TypeOK
  <2>2. ToSet(flushChannel) \subseteq ToSet(flushChannel') \cup {worker'.tab}
    <3>1. ASSUME NEW i \in 1 .. Len(flushChannel), i # 1
          PROVE  /\ i - 1 \in 1 .. Len(Tail(flushChannel))
                 /\ flushChannel[i] = Tail(flushChannel)[i - 1]
      BY <2>1, <3>1
    <3>2. DOMAIN flushChannel = 1 .. Len(flushChannel) /\ flushChannel[1] = worker'.tab
          /\ DOMAIN Tail(flushChannel) = 1 .. Len(Tail(flushChannel))
      BY <2>1
    <3> QED
      BY <2>1, <3>1, <3>2 DEF ToSet
  <2>3. ImmutableOnItsWay'
    BY <2>1, <2>2 DEF ImmutableOnItsWay, OnItsWay
  <2> QED
    BY <2>1, <2>3 DEF IdsIncrease, NoLostWakeup
<1>6. CASE TakeImmutable
  BY <1>6, TakeImmutableWakeup
<1>7. CASE Flush
  <2>1. /\ UNCHANGED <<active, immutable, held, pc, flushChannel>>
        /\ worker.pc # "lock" /\ Alive
    BY <1>7 DEF Flush, Alive
  <2> QED
    BY <2>1 DEF IdsIncrease, ImmutableOnItsWay, OnItsWay, NoLostWakeup
<1>8. CASE ResetAll
  <2>1. ToSet(immutable') = {} /\ Len(immutable') = 0
    BY <1>8 DEF ResetAll, ToSet
  <2> QED
    BY <1>8, <2>1 DEF ResetAll, IdsIncrease, ImmutableOnItsWay, NoLostWakeup
<1>9. CASE UNCHANGED <<active, immutable, held, pc, flushChannel, worker>>
  BY <1>9 DEF IdsIncrease, ImmutableOnItsWay, OnItsWay, NoLostWakeup, Alive
<1>10. CASE Close
  BY <1>9, <1>10, CloseMovesNothing DEF Close
<1> QED
  BY <1>1, <1>2, <1>3, <1>4, <1>5, <1>6, <1>7, <1>8, <1>9, <1>10
  DEF Next, Terminated, vars, Snapshot, CloseReturns

(* A writer blocked in rotate is never forgotten: a signal for it is still *)
(* to come, or already given, however many writers compete and whenever    *)
(* ResetAll empties the list under them.                                   *)
THEOREM WakeupSafe == Spec => [](NoLostWakeup /\ ImmutableOnItsWay)
<1>1. Init => WakeupInv
  <2>. SUFFICES ASSUME Init PROVE WakeupInv
    OBVIOUS
  <2>1. Len(immutable) = 0 /\ ToSet(immutable) = {}
    BY DEF Init, ToSet
  <2> QED
    BY <2>1 DEF Init, WakeupInv, IdsIncrease, ImmutableOnItsWay, NoLostWakeup
<1>2. WakeupInv => NoLostWakeup /\ ImmutableOnItsWay
  BY DEF WakeupInv
<1> QED
  BY <1>1, <1>2, WakeupStep, TypeCorrect, RotationSafe, PTL DEF Spec

-----------------------------------------------------------------------------
(* Conservation.  An entry replaced in place is superseded only by a newer *)
(* one, because sequence numbers grow: SeqsBounded.                        *)

SeqsBounded ==
    /\ \A e \in puts : e.seq <= seq
    /\ \A e \in active.ents : e.seq <= seq

(* The tables that hold what was put: the ones Conservation looks at.      *)
Holders ==
    {active} \cup ToSet(immutable) \cup ToSet(flushed)
        \cup (IF worker.pc = "flush" THEN {worker.tab} ELSE {})

(* What the active table kept before a Put it keeps after it, the new      *)
(* entry included.                                                         *)
LEMMA PutKeeps ==
    ASSUME TypeOK, SeqsBounded, NEW w \in Writers, NEW k \in Keys, NEW rd \in BOOLEAN,
           Put(w, k, rd)
    PROVE  /\ SeqsBounded'
           /\ \A e \in puts' \ puts : Kept(active', e)
           /\ \A e \in puts : Kept(active, e) => Kept(active', e)
<1>. DEFINE n == [key |-> k, seq |-> seq + 1, rd |-> rd]
<1>1. /\ seq' = seq + 1 /\ seq \in Nat /\ puts' = puts \cup {n} /\ puts \subseteq Entry
      /\ active.ents \subseteq Entry
  BY BoundsAssumption DEF Put, TypeOK, Table
<1>2. \/ active'.ents = active.ents \cup {n}
      \/ /\ active'.ents = {f \in active.ents : f.rd \/ f.key # k} \cup {n}
         /\ ~rd /\ k \notin MergeKeys
  <2>1. CASE rd \/ k \in MergeKeys \cup snapshots
    BY <2>1 DEF Put, Insert, TypeOK, Table
  <2>2. CASE ~(rd \/ k \in MergeKeys \cup snapshots)
    BY <2>2 DEF Put, Upsert, TypeOK, Table
  <2> QED
    BY <2>1, <2>2
<1>3. n \in active'.ents /\ n.seq = seq + 1 /\ n.key = k /\ n.rd = rd
  BY <1>2
<1>. HIDE DEF n
<1>4. \A e \in Entry : e.seq \in Nat
  BY DEF Entry
<1>5. SeqsBounded'
  <2>1. \A e \in puts' : e.seq <= seq'
    BY <1>1, <1>3, <1>4 DEF SeqsBounded
  <2>2. \A e \in active'.ents : e \in active.ents \/ e = n
    BY <1>2
  <2>3. \A e \in active'.ents : e.seq <= seq'
    BY <1>1, <1>3, <1>4, <2>2 DEF SeqsBounded
  <2> QED
    BY <2>1, <2>3 DEF SeqsBounded
<1>6. \A e \in puts' \ puts : Kept(active', e)
  BY <1>1, <1>3 DEF Kept
<1>7. ASSUME NEW e \in puts, Kept(active, e) PROVE Kept(active', e)
  <2>1. e \in Entry /\ e.seq \in Nat
    BY <1>1, <1>4
  <2>2. CASE e \in active'.ents
    BY <2>2 DEF Kept
  <2>3. CASE e \in active.ents /\ e \notin active'.ents
    <3>1. ~e.rd /\ e.key = k /\ e.key \notin MergeKeys /\ ~n.rd
      BY <1>2, <1>3, <2>3
    <3>2. n.seq > e.seq
      BY <1>1, <1>3, <2>1 DEF SeqsBounded
    <3> QED
      BY <1>3, <3>1, <3>2 DEF Kept
  <2>4. CASE e \notin active.ents /\ e \notin active'.ents
    <3>1. PICK f \in active.ents : ~f.rd /\ f.key = e.key /\ f.seq > e.seq
      BY <1>7, <2>4 DEF Kept
    <3>2. ~e.rd /\ e.key \notin MergeKeys
      BY <1>7, <2>4 DEF Kept
    <3>3. CASE f \in active'.ents
      BY <3>1, <3>2, <3>3 DEF Kept
    <3>4. CASE f \notin active'.ents
      <4>1. f.key = k /\ ~n.rd
        BY <1>2, <1>3, <3>4
      <4>2. n.seq > e.seq
        BY <1>1, <1>3, <1>4, <2>1, <3>1 DEF SeqsBounded
      <4> QED
        BY <1>3, <3>1, <3>2, <4>1, <4>2 DEF Kept
    <3> QED
      BY <3>3, <3>4
  <2> QED
    BY <2>2, <2>3, <2>4
<1> QED
  BY <1>5, <1>6, <1>7

(* Every step keeps what was put.                                          *)
LEMMA ConservationStep ==
    TypeOK /\ FullHasRotator /\ SeqsBounded /\ Conservation /\ [Next]_vars
        => SeqsBounded' /\ Conservation'
<1>. SUFFICES ASSUME TypeOK, FullHasRotator, SeqsBounded, Conservation, [Next]_vars
              PROVE  SeqsBounded' /\ Conservation'
  OBVIOUS
<1>1. Conservation = \A e \in puts : \E t \in Holders : Kept(t, e)
  BY DEF Conservation, Holders
<1>2. Conservation' = \A e \in puts' : \E t \in Holders' : Kept(t, e)
  BY DEF Conservation, Holders
<1>3. ASSUME NEW w \in Writers, NEW k \in Keys, NEW rd \in BOOLEAN, Put(w, k, rd)
      PROVE  SeqsBounded' /\ Conservation'
  <2>1. active' \in Holders' /\ Holders \subseteq Holders' \cup {active}
    BY <1>3 DEF Put, Holders
  <2>2. ASSUME NEW e \in puts' PROVE \E t \in Holders' : Kept(t, e)
    <3>1. CASE e \notin puts
      BY <1>3, <2>1, <3>1, PutKeeps
    <3>2. CASE e \in puts
      <4>1. PICK t \in Holders : Kept(t, e)
        BY <1>1, <3>2
      <4> QED
        BY <1>3, <2>1, <3>2, <4>1, PutKeeps
    <3> QED
      BY <3>1, <3>2
  <2> QED
    BY <1>2, <1>3, <2>2, PutKeeps
<1>4. ASSUME UNCHANGED <<puts, seq>>,
             active' = active \/ active'.ents = {},
             Holders \subseteq Holders'
      PROVE  SeqsBounded' /\ Conservation'
  <2>1. SeqsBounded'
    BY <1>4 DEF SeqsBounded
  <2> QED
    BY <1>1, <1>2, <1>4, <2>1
<1>5. ASSUME NEW w \in Writers, Rotate(w) \/ WakeUp(w) PROVE SeqsBounded' /\ Conservation'
  <2>1. CASE UNCHANGED <<active, immutable>>
    BY <1>4, <1>5, <2>1 DEF Rotate, WakeUp, Holders
  <2>2. CASE MoveActive(w)
    <3>1. ToSet(immutable') = ToSet(immutable) \cup {active} /\ active'.ents = {}
      BY <2>2, AppendElements DEF MoveActive, TypeOK, NewTable
    <3> QED
      BY <1>4, <1>5, <3>1 DEF Rotate, WakeUp, Holders
  <2> QED
    BY <1>5, <2>1, <2>2 DEF Rotate, WakeUp, WaitOrMove
<1>6. CASE TakeImmutable
  <2>1. /\ worker.pc = "lock" /\ worker'.tab = worker.tab
        /\ Contains(immutable, worker.tab) => worker'.pc = "flush"
        /\ immutable' = RemoveFirst(immutable, worker.tab)
        /\ UNCHANGED <<active, flushed, puts, seq>>
    BY <1>6, TakeImmutableFacts
  <2>2. ToSet(immutable) \subseteq ToSet(immutable') \cup {worker.tab}
    BY <2>1, RemoveFirstFacts DEF TypeOK
  <2>3. worker.tab \in ToSet(immutable) => worker'.pc = "flush"
    <3>1. worker.tab \in ToSet(immutable) => Contains(immutable, worker.tab)
      BY DEF Contains, ToSet, TypeOK
    <3> QED
      BY <2>1, <3>1
  <2>4. Holders \subseteq Holders'
    BY <2>1, <2>2, <2>3 DEF Holders
  <2> QED
    BY <1>4, <2>1, <2>4
<1>7. CASE Flush
  <2>1. /\ UNCHANGED <<active, immutable, puts, seq>>
        /\ ToSet(flushed) \subseteq ToSet(flushed')
        /\ worker.pc = "flush" => worker.tab \in ToSet(flushed')
    <3>1. ToSet(Append(flushed, worker.tab)) = ToSet(flushed) \cup {worker.tab}
      BY AppendElements DEF TypeOK
    <3> QED
      BY <1>7, <3>1 DEF Flush
  <2>2. Holders \subseteq Holders'
    BY <2>1 DEF Holders
  <2> QED
    BY <1>4, <2>1, <2>2
<1>8. CASE ResetAll
  <2>1. puts' = {} /\ active'.ents = {}
    BY <1>8 DEF ResetAll, NewTable
  <2> QED
    BY <1>2, <2>1 DEF SeqsBounded
<1>9. CASE UNCHANGED <<puts, seq, active, immutable, flushed, worker>>
  <2>1. Holders' = Holders
    BY <1>9 DEF Holders
  <2> QED
    BY <1>4, <1>9, <2>1
<1>10. CASE Receive
  <2>1. UNCHANGED <<puts, seq, active, immutable, flushed>> /\ worker.pc = "recv"
    BY <1>10 DEF Receive
  <2>2. Holders \subseteq Holders'
    BY <2>1 DEF Holders
  <2> QED
    BY <1>4, <2>1, <2>2
<1>11. CASE Close
  BY <1>9, <1>11, CloseMovesNothing DEF Close
<1> QED
  BY <1>3, <1>5, <1>6, <1>7, <1>8, <1>9, <1>10, <1>11
  DEF Next, Terminated, vars, Send, Snapshot, CloseReturns

(* Nothing put since the last ResetAll is lost between Put and the flush   *)
(* handler, for any number of writers and any interleaving with the        *)
(* worker.                                                                 *)
THEOREM NothingLost == Spec => []Conservation
<1>1. Init => SeqsBounded /\ Conservation
  BY DEF Init, SeqsBounded, Conservation, NewTable
<1> QED
  BY <1>1, ConservationStep, TypeCorrect, RotationSafe, PTL DEF Spec

-----------------------------------------------------------------------------
(* Panics.  A table that is on its way to the worker is in the list,       *)
(* unless ResetAll dropped it; then it holds nothing put since.  Only its  *)
(* own way takes it out of the list, as no table is on its way twice.      *)

Dropped(t) == resets > 0 /\ t.ents \cap puts = {}

OlderThan(t, id) == t.id < id /\ \A e \in t.ents : e.seq <= seq

OnceOnItsWay ==
    /\ \A i, j \in 1 .. Len(flushChannel) : flushChannel[i].id = flushChannel[j].id => i = j
    /\ \A v, w \in Senders : held[v].id = held[w].id => v = w
    /\ \A v \in Senders, i \in 1 .. Len(flushChannel) : held[v].id # flushChannel[i].id
    /\ worker.pc = "lock" =>
          /\ \A v \in Senders : held[v].id # worker.tab.id
          /\ \A i \in 1 .. Len(flushChannel) : flushChannel[i].id # worker.tab.id

DroppedInv ==
    /\ OnceOnItsWay
    /\ \A t \in Table : OnItsWay(t) => /\ OlderThan(t, active.id)
                                       /\ t \in ToSet(immutable) \/ Dropped(t)
    /\ PanicNeedsReset

(* A table on its way is in the channel, with a sender or with the worker. *)
LEMMA OnItsWayCases ==
    ASSUME TypeOK
    PROVE  /\ \A i \in 1 .. Len(flushChannel) : flushChannel[i] \in Table
                 /\ OnItsWay(flushChannel[i])
           /\ \A v \in Senders : held[v] \in Table /\ OnItsWay(held[v])
           /\ worker.tab \in Table /\ (worker.pc = "lock" => OnItsWay(worker.tab))
           /\ \A t : OnItsWay(t) => \/ \E i \in 1 .. Len(flushChannel) : t = flushChannel[i]
                                    \/ \E v \in Senders : t = held[v]
                                    \/ worker.pc = "lock" /\ t = worker.tab
<1>1. DOMAIN flushChannel = 1 .. Len(flushChannel) /\ flushChannel \in Seq(Table)
  BY DEF TypeOK
<1>2. \A i \in 1 .. Len(flushChannel) : flushChannel[i] \in Table
         /\ flushChannel[i] \in ToSet(flushChannel)
  BY <1>1, ElementOfSeq DEF ToSet
<1>3. \A t \in ToSet(flushChannel) : \E i \in 1 .. Len(flushChannel) : t = flushChannel[i]
  BY <1>1 DEF ToSet
<1> QED
  BY <1>2, <1>3 DEF TypeOK, OnItsWay, Senders

(* A step that lets nothing new onto the way, takes nothing off the list   *)
(* and adds nothing to puts, keeps the invariant.                          *)
LEMMA DroppedFrame ==
    ASSUME TypeOK, DroppedInv, OnceOnItsWay', PanicNeedsReset',
           \A t \in Table : OnItsWay(t)' => OnItsWay(t),
           active'.id >= active.id, active'.id \in Nat, active.id \in Nat,
           ToSet(immutable) \subseteq ToSet(immutable'),
           UNCHANGED <<puts, seq, resets>>
    PROVE  DroppedInv'
<1>1. ASSUME NEW t \in Table, OnItsWay(t)'
      PROVE  /\ t.id < active'.id /\ \A e \in t.ents : e.seq <= seq'
             /\ t \in ToSet(immutable') \/ (resets' > 0 /\ t.ents \cap puts' = {})
  <2>1. /\ OlderThan(t, active.id)
        /\ t \in ToSet(immutable) \/ Dropped(t)
    BY <1>1 DEF DroppedInv
  <2>2. t.id \in Nat
    BY DEF Table
  <2> QED
    BY <2>1, <2>2 DEF OlderThan, Dropped
<1> QED
  BY <1>1 DEF DroppedInv, OlderThan, Dropped

(* The active table gets on its way as it enters the list.                 *)
LEMMA MoveActiveDropped ==
    ASSUME TypeOK, SeqsBounded, DroppedInv, NEW w \in Writers, pc[w] # "send", MoveActive(w),
           UNCHANGED <<flushChannel, worker, puts, seq, resets>>
    PROVE  DroppedInv'
<1>1. /\ active.id \in Nat /\ active'.id = active.id + 1 /\ active \in Table
      /\ ToSet(immutable') = ToSet(immutable) \cup {active}
  <2>1. active \in Table /\ immutable \in Seq(Table) /\ immutable' = Append(immutable, active)
    BY DEF MoveActive, TypeOK
  <2>2. ToSet(immutable') = ToSet(immutable) \cup {active}
    BY <2>1, AppendElements
  <2> QED
    BY <2>1, <2>2 DEF MoveActive, NewTable, Table
<1>2. /\ Senders' = Senders \cup {w} /\ w \notin Senders
      /\ held'[w] = active /\ \A v \in Senders : held'[v] = held[v]
  BY DEF MoveActive, TypeOK, Senders
<1>3. /\ \A v \in Senders : held[v].id # active.id
      /\ \A i \in 1 .. Len(flushChannel) : flushChannel[i].id # active.id
      /\ worker.pc = "lock" => worker.tab.id # active.id
  <2>1. \A t \in Table : OnItsWay(t) => t.id < active.id /\ t.id \in Nat
    BY DEF DroppedInv, OlderThan, Table
  <2>2. \A t \in Table : OnItsWay(t) => t.id # active.id
    BY <1>1, <2>1
  <2> QED
    BY <2>2, OnItsWayCases
<1>4. OnceOnItsWay'
  BY <1>2, <1>3 DEF DroppedInv, OnceOnItsWay
<1>5. ASSUME NEW t \in Table, OnItsWay(t)'
      PROVE  OlderThan(t, active.id)' /\ (t \in ToSet(immutable') \/ Dropped(t)')
  <2>1. t = active \/ OnItsWay(t)
    BY <1>2, <1>5 DEF OnItsWay, Senders
  <2>2. CASE t = active
    BY <1>1, <2>2 DEF OlderThan, SeqsBounded
  <2>3. CASE OnItsWay(t)
    <3>1. OlderThan(t, active.id) /\ (t \in ToSet(immutable) \/ Dropped(t)) /\ t.id \in Nat
      BY <2>3 DEF DroppedInv, Table
    <3> QED
      BY <1>1, <3>1 DEF OlderThan, Dropped
  <2> QED
    BY <2>1, <2>2, <2>3
<1>6. PanicNeedsReset'
  BY DEF DroppedInv, PanicNeedsReset, Alive
<1> QED
  BY <1>4, <1>5, <1>6 DEF DroppedInv

(* rotate's loop.                                                          *)
LEMMA WaitOrMoveDropped ==
    ASSUME TypeOK, SeqsBounded, DroppedInv, NEW w \in Writers, pc[w] # "send", WaitOrMove(w),
           UNCHANGED <<flushChannel, worker, puts, seq, resets>>
    PROVE  DroppedInv'
<1>1. CASE UNCHANGED <<active, immutable, held>> /\ pc' = [pc EXCEPT ![w] = "wait"]
  <2>1. Senders' = Senders
    BY <1>1 DEF Senders, TypeOK
  <2>2. OnceOnItsWay' /\ PanicNeedsReset'
    BY <1>1, <2>1 DEF DroppedInv, OnceOnItsWay, PanicNeedsReset, Alive
  <2>3. \A t \in Table : OnItsWay(t)' => OnItsWay(t)
    BY <1>1, <2>1 DEF OnItsWay, Senders
  <2>4. active'.id >= active.id /\ active'.id \in Nat /\ active.id \in Nat
    BY <1>1 DEF TypeOK, Table
  <2> QED
    BY <1>1, <2>2, <2>3, <2>4, DroppedFrame
<1>2. CASE MoveActive(w)
  BY <1>2, MoveActiveDropped
<1> QED
  BY <1>1, <1>2 DEF WaitOrMove

(* The worker's critical section: the table in its hands was nowhere else  *)
(* on the way, and an empty list means that it had been dropped.           *)
LEMMA TakeImmutableDropped ==
    ASSUME TypeOK, DroppedInv, TakeImmutable
    PROVE  DroppedInv'
<1>1. /\ UNCHANGED <<active, flushChannel, held, seq, puts, resets>>
      /\ Senders' = Senders /\ worker.pc = "lock" /\ worker'.pc # "lock"
      /\ worker'.tab = worker.tab /\ worker.tab \in Table
      /\ worker'.pc = "panicked" => immutable = <<>>
  BY TakeImmutableFacts DEF TypeOK
<1>2. ToSet(immutable) \subseteq ToSet(immutable') \cup {worker.tab}
  BY RemoveFirstFacts, TakeImmutableFacts DEF TypeOK
<1>3. OnceOnItsWay'
  BY <1>1 DEF DroppedInv, OnceOnItsWay
<1>4. ASSUME NEW t \in Table, OnItsWay(t)' PROVE OnItsWay(t) /\ t # worker.tab
  <2>1. \/ t \in ToSet(flushChannel)
        \/ \E v \in Senders : t = held[v]
    BY <1>1, <1>4 DEF OnItsWay, Senders
  <2>2. OnItsWay(t)
    BY <2>1 DEF OnItsWay, Senders
  <2>3. CASE t \in ToSet(flushChannel)
    <3>1. PICK i \in 1 .. Len(flushChannel) : t = flushChannel[i]
      BY <2>3 DEF TypeOK, ToSet
    <3> QED
      BY <1>1, <2>2, <3>1 DEF DroppedInv, OnceOnItsWay
  <2>4. CASE \E v \in Senders : t = held[v]
    BY <1>1, <2>2, <2>4 DEF DroppedInv, OnceOnItsWay
  <2> QED
    BY <2>1, <2>3, <2>4
<1>5. ASSUME NEW t \in Table, OnItsWay(t)'
      PROVE  OlderThan(t, active.id)' /\ (t \in ToSet(immutable') \/ Dropped(t)')
  <2>1. OlderThan(t, active.id) /\ (t \in ToSet(immutable) \/ Dropped(t)) /\ t # worker.tab
    BY <1>4, <1>5 DEF DroppedInv
  <2> QED
    BY <1>1, <1>2, <2>1 DEF OlderThan, Dropped
<1>6. PanicNeedsReset'
  <2>1. OnItsWay(worker.tab)
    BY <1>1 DEF OnItsWay
  <2>2. immutable = <<>> => ToSet(immutable) = {}
    BY DEF ToSet
  <2>3. immutable = <<>> => Dropped(worker.tab)
    BY <1>1, <2>1, <2>2 DEF DroppedInv
  <2> QED
    BY <1>1, <2>3 DEF PanicNeedsReset, Alive, Dropped
<1> QED
  BY <1>3, <1>5, <1>6 DEF DroppedInv

(* Sending and receiving hand a table on.                                  *)
LEMMA HandOnDropped ==
    ASSUME TypeOK, DroppedInv, (\E w \in Writers : Send(w)) \/ Receive
    PROVE  DroppedInv'
<1>1. UNCHANGED <<active, immutable, held, puts, seq, resets>>
  BY DEF Send, Receive
<1>2. active'.id >= active.id /\ active'.id \in Nat /\ active.id \in Nat
      /\ flushChannel \in Seq(Table) /\ Len(flushChannel) \in Nat
  BY <1>1 DEF TypeOK, Table
<1>3. ASSUME NEW w \in Writers, Send(w)
      PROVE  OnceOnItsWay' /\ PanicNeedsReset' /\ \A t \in Table : OnItsWay(t)' => OnItsWay(t)
  <2>1. /\ Senders' = Senders \ {w} /\ w \in Senders /\ worker' = worker
        /\ Len(flushChannel') = Len(flushChannel) + 1
        /\ \A i \in 1 .. Len(flushChannel) : flushChannel'[i] = flushChannel[i]
        /\ flushChannel'[Len(flushChannel) + 1] = held[w]
        /\ ToSet(flushChannel') = ToSet(flushChannel) \cup {held[w]}
    BY <1>3, AppendElements, AppendProperties DEF Send, Senders, TypeOK
  <2>2. \A i, j \in 1 .. Len(flushChannel') : flushChannel'[i].id = flushChannel'[j].id => i = j
    <3>1. \A i \in 1 .. Len(flushChannel') : i \in 1 .. Len(flushChannel)
             \/ i = Len(flushChannel) + 1
      BY <1>2, <2>1
    <3> QED
      BY <2>1, <3>1 DEF DroppedInv, OnceOnItsWay
  <2>3. \A v \in Senders', i \in 1 .. Len(flushChannel') : held'[v].id # flushChannel'[i].id
    <3>1. \A i \in 1 .. Len(flushChannel') : i \in 1 .. Len(flushChannel)
             \/ i = Len(flushChannel) + 1
      BY <1>2, <2>1
    <3> QED
      BY <1>1, <2>1, <3>1 DEF DroppedInv, OnceOnItsWay
  <2>4. worker'.pc = "lock" =>
          /\ \A v \in Senders' : held'[v].id # worker'.tab.id
          /\ \A i \in 1 .. Len(flushChannel') : flushChannel'[i].id # worker'.tab.id
    <3>1. \A i \in 1 .. Len(flushChannel') : i \in 1 .. Len(flushChannel)
             \/ i = Len(flushChannel) + 1
      BY <1>2, <2>1
    <3> QED
      BY <1>1, <2>1, <3>1 DEF DroppedInv, OnceOnItsWay
  <2>5. OnceOnItsWay'
    BY <1>1, <2>1, <2>2, <2>3, <2>4 DEF DroppedInv, OnceOnItsWay
  <2>6. \A t \in Table : OnItsWay(t)' => OnItsWay(t)
    BY <1>1, <2>1 DEF OnItsWay, Senders
  <2> QED
    BY <1>1, <2>1, <2>5, <2>6 DEF DroppedInv, PanicNeedsReset, Alive
<1>4. ASSUME Receive
      PROVE  OnceOnItsWay' /\ PanicNeedsReset' /\ \A t \in Table : OnItsWay(t)' => OnItsWay(t)
  <2>1. /\ flushChannel # <<>> /\ worker'.pc = "lock" /\ worker'.tab = flushChannel[1]
        /\ flushChannel' = Tail(flushChannel) /\ Senders' = Senders
    BY <1>2, <1>4 DEF Receive, Senders
  <2>2. /\ Len(flushChannel') = Len(flushChannel) - 1
        /\ \A i \in 1 .. Len(flushChannel') : /\ flushChannel'[i] = flushChannel[i + 1]
                                              /\ i + 1 \in 1 .. Len(flushChannel) /\ i + 1 # 1
        /\ 1 \in 1 .. Len(flushChannel)
    BY <1>2, <2>1
  <2>3. OnceOnItsWay'
    <3>1. \A i, j \in 1 .. Len(flushChannel') : i + 1 = j + 1 => i = j
      BY <2>2
    <3> QED
      BY <1>1, <2>1, <2>2, <3>1 DEF DroppedInv, OnceOnItsWay
  <2>4. \A t \in ToSet(flushChannel') \cup {worker'.tab} : t \in ToSet(flushChannel)
    <3>1. DOMAIN flushChannel' = 1 .. Len(flushChannel')
             /\ DOMAIN flushChannel = 1 .. Len(flushChannel)
      BY <1>2, <2>1
    <3> QED
      BY <2>1, <2>2, <3>1 DEF ToSet
  <2>5. \A t \in Table : OnItsWay(t)' => OnItsWay(t)
    BY <1>1, <2>1, <2>4 DEF OnItsWay, Senders
  <2> QED
    BY <2>1, <2>3, <2>5 DEF PanicNeedsReset, Alive
<1> QED
  BY <1>1, <1>2, <1>3, <1>4, DroppedFrame

(* Every step keeps the invariant.                                         *)
LEMMA DroppedStep ==
    TypeOK /\ FullHasRotator /\ SeqsBounded /\ DroppedInv /\ [Next]_vars => DroppedInv'
<1>. SUFFICES ASSUME TypeOK, FullHasRotator, SeqsBounded, DroppedInv, [Next]_vars
              PROVE  DroppedInv'
  OBVIOUS
<1>1. ASSUME NEW w \in Writers, NEW k \in Keys, NEW rd \in BOOLEAN, Put(w, k, rd)
      PROVE  DroppedInv'
  <2>. DEFINE e == [key |-> k, seq |-> seq + 1, rd |-> rd]
  <2>1. /\ UNCHANGED <<flushChannel, held, worker, immutable, resets>> /\ Alive
        /\ puts' = puts \cup {e} /\ seq' = seq + 1 /\ seq \in Nat
    BY <1>1, BoundsAssumption DEF Put, TypeOK
  <2>2. active'.id = active.id
    BY <1>1 DEF Put, Insert, Upsert, TypeOK, Table
  <2>3. Senders' = Senders
    BY <1>1 DEF Put, Senders, TypeOK
  <2>4. OnceOnItsWay' /\ PanicNeedsReset'
    BY <2>1, <2>3 DEF DroppedInv, OnceOnItsWay, PanicNeedsReset, Alive
  <2>5. \A t \in Table : OnItsWay(t)' => OnItsWay(t)
    BY <2>1, <2>3 DEF OnItsWay, Senders
  <2>6. ASSUME NEW t \in Table, OnItsWay(t)
        PROVE  OlderThan(t, active.id)' /\ (t \in ToSet(immutable') \/ Dropped(t)')
    <3>1. OlderThan(t, active.id) /\ (t \in ToSet(immutable) \/ Dropped(t))
      BY <2>6 DEF DroppedInv
    <3>2. \A f \in t.ents : f.seq \in Nat
      BY DEF Table, Entry
    <3>3. \A f \in t.ents : f.seq <= seq + 1 /\ f.seq # seq + 1
      BY <2>1, <3>1, <3>2 DEF OlderThan
    <3>4. e \notin t.ents
      BY <3>3
    <3> QED
      BY <2>1, <2>2, <3>1, <3>3, <3>4 DEF OlderThan, Dropped
  <2> QED
    BY <2>4, <2>5, <2>6 DEF DroppedInv
<1>2. ASSUME NEW w \in Writers, Rotate(w) PROVE DroppedInv'
  <2>1. CASE UNCHANGED <<active, immutable, held>> /\ pc' = [pc EXCEPT ![w] = "idle"]
    <3>1. Senders' = Senders
      BY <1>2, <2>1 DEF Rotate, Senders, TypeOK
    <3>2. OnceOnItsWay' /\ PanicNeedsReset'
      BY <1>2, <2>1, <3>1 DEF Rotate, DroppedInv, OnceOnItsWay, PanicNeedsReset, Alive
    <3>3. \A t \in Table : OnItsWay(t)' => OnItsWay(t)
      BY <1>2, <2>1, <3>1 DEF Rotate, OnItsWay, Senders
    <3>4. active'.id >= active.id /\ active'.id \in Nat /\ active.id \in Nat
      BY <2>1 DEF TypeOK, Table
    <3> QED
      BY <1>2, <2>1, <3>2, <3>3, <3>4, DroppedFrame DEF Rotate
  <2>2. CASE WaitOrMove(w)
    BY <1>2, <2>2, WaitOrMoveDropped DEF Rotate
  <2> QED
    BY <1>2, <2>1, <2>2 DEF Rotate
<1>3. ASSUME NEW w \in Writers, WakeUp(w) PROVE DroppedInv'
  BY <1>3, WaitOrMoveDropped DEF WakeUp
<1>4. ASSUME NEW w \in Writers, Send(w) PROVE DroppedInv'
  BY <1>4, HandOnDropped
<1>5. CASE Receive
  BY <1>5, HandOnDropped
<1>6. CASE TakeImmutable
  BY <1>6, TakeImmutableDropped
<1>7. CASE ResetAll
  <2>1. /\ UNCHANGED <<flushChannel, pc, held, worker, seq>> /\ Alive
        /\ puts' = {} /\ resets' = resets + 1 /\ resets \in Nat
        /\ active'.id = active.id + 1 /\ active.id \in Nat
    BY <1>7, BoundsAssumption DEF ResetAll, TypeOK, NewTable, Table
  <2>2. OnceOnItsWay' /\ PanicNeedsReset'
    BY <2>1 DEF DroppedInv, OnceOnItsWay, PanicNeedsReset, Alive, Senders
  <2>3. ASSUME NEW t \in Table, OnItsWay(t)' PROVE OlderThan(t, active.id)' /\ Dropped(t)'
    <3>1. OlderThan(t, active.id) /\ t.id \in Nat
      BY <2>1, <2>3 DEF DroppedInv, OnItsWay, Table
    <3> QED
      BY <2>1, <3>1 DEF OlderThan, Dropped
  <2> QED
    BY <2>2, <2>3 DEF DroppedInv
<1>8. ASSUME UNCHANGED <<active, immutable, held, pc, flushChannel, puts, seq, resets>>,
             worker'.pc # "lock" \/ worker' = worker, Alive, Alive'
      PROVE  DroppedInv'
  <2>1. Senders' = Senders
    BY <1>8 DEF Senders
  <2>2. OnceOnItsWay' /\ PanicNeedsReset'
    BY <1>8, <2>1 DEF DroppedInv, OnceOnItsWay, PanicNeedsReset
  <2>3. \A t \in Table : OnItsWay(t)' => OnItsWay(t)
    BY <1>8 DEF OnItsWay
  <2>4. active'.id >= active.id /\ active'.id \in Nat /\ active.id \in Nat
    BY <1>8 DEF TypeOK, Table
  <2> QED
    BY <1>8, <2>2, <2>3, <2>4, DroppedFrame
<1>9. CASE Flush
  BY <1>8, <1>9 DEF Flush, Alive
<1>10. ASSUME (\E k \in Keys : Snapshot(k)) \/ CloseReturns PROVE DroppedInv'
  BY <1>8, <1>10 DEF Snapshot, CloseReturns, Alive
<1>11. CASE Close
  BY <1>8, <1>11, CloseMovesNothing DEF Close, Alive
<1>12. CASE UNCHANGED vars
  <2>1. /\ OnceOnItsWay' /\ PanicNeedsReset'
        /\ \A t \in Table : OnItsWay(t)' => OnItsWay(t)
    BY <1>12 DEF vars, DroppedInv, OnceOnItsWay, PanicNeedsReset, Alive, Senders, OnItsWay
  <2>2. active'.id >= active.id /\ active'.id \in Nat /\ active.id \in Nat
    BY <1>12 DEF vars, TypeOK, Table
  <2> QED
    BY <1>12, <2>1, <2>2, DroppedFrame DEF vars
<1> QED
  BY <1>1, <1>2, <1>3, <1>4, <1>5, <1>6, <1>7, <1>9, <1>10, <1>11, <1>12
  DEF Next, Terminated

(* The worker panics only over a table that a ResetAll dropped while it    *)
(* was on its way, for any number of writers: without a reset never, and   *)
(* never over an entry put since the latest one.                           *)
THEOREM PanicsExplained == Spec => []PanicNeedsReset
<1>1. Init => SeqsBounded /\ Conservation /\ DroppedInv
  <2>. SUFFICES ASSUME Init PROVE SeqsBounded /\ Conservation /\ DroppedInv
    OBVIOUS
  <2>1. Senders = {} /\ Len(flushChannel) = 0 /\ ToSet(flushChannel) = {} /\ worker.pc = "recv"
    BY DEF Init, Senders, ToSet
  <2>2. \A t \in Table : ~OnItsWay(t)
    BY <2>1 DEF OnItsWay, Senders
  <2>3. OnceOnItsWay /\ PanicNeedsReset
    BY <2>1 DEF OnceOnItsWay, PanicNeedsReset, Alive
  <2> QED
    BY <2>2, <2>3 DEF Init, SeqsBounded, Conservation, NewTable, DroppedInv
<1>2. DroppedInv => PanicNeedsReset
  BY DEF DroppedInv
<1> QED
  BY <1>1, <1>2, ConservationStep, DroppedStep, TypeCorrect, RotationSafe, PTL DEF Spec

-----------------------------------------------------------------------------
(* Capacity.  A Put that finds the active table full still adds its entry; *)
(* each entry over the limit belongs to a writer now waiting to rotate, so *)
(* the overshoot is counted by the rotating writers.                       *)

Rotators == {w \in Writers : pc[w] \in {"rotate", "wait", "woken"}}

CapacityInv ==
    /\ IsFiniteSet(active.ents)
    /\ ShouldFlush(active) =>
           Cardinality(Points(active)) <= MaxEntries - 1 + Cardinality(Rotators)

(* A Put adds at most one point entry.                                     *)
LEMMA PutAddsOne ==
    ASSUME TypeOK, IsFiniteSet(active.ents),
           NEW w \in Writers, NEW k \in Keys, NEW rd \in BOOLEAN, Put(w, k, rd)
    PROVE  /\ IsFiniteSet(active'.ents)
           /\ Cardinality(Points(active)) \in Nat
           /\ Cardinality(Points(active')) \in Nat
           /\ Cardinality(Points(active')) <= Cardinality(Points(active)) + 1
<1>. DEFINE n == [key |-> k, seq |-> seq', rd |-> rd]
<1>1. active'.ents \subseteq active.ents \cup {n}
  <2>1. CASE rd \/ k \in MergeKeys \cup snapshots
    BY <2>1 DEF Put, Insert, TypeOK, Table
  <2>2. CASE ~(rd \/ k \in MergeKeys \cup snapshots)
    BY <2>2 DEF Put, Upsert, TypeOK, Table
  <2> QED
    BY <2>1, <2>2
<1>. HIDE DEF n
<1>2. IsFiniteSet(active.ents \cup {n}) /\ IsFiniteSet(active'.ents)
  BY <1>1, FS_AddElement, FS_Subset
<1>3. /\ IsFiniteSet(Points(active)) /\ IsFiniteSet(Points(active'))
      /\ Points(active') \subseteq Points(active) \cup {n}
  BY <1>1, <1>2, FS_Subset DEF Points
<1>4. /\ IsFiniteSet(Points(active) \cup {n})
      /\ \/ Cardinality(Points(active) \cup {n}) = Cardinality(Points(active))
         \/ Cardinality(Points(active) \cup {n}) = Cardinality(Points(active)) + 1
  BY <1>3, FS_AddElement
<1>5. Cardinality(Points(active')) <= Cardinality(Points(active) \cup {n})
  BY <1>3, <1>4, FS_Subset
<1>6. Cardinality(Points(active)) \in Nat /\ Cardinality(Points(active')) \in Nat
  BY <1>3, FS_CardinalityType
<1> QED
  BY <1>2, <1>4, <1>5, <1>6

(* An empty table satisfies the capacity invariant.                        *)
LEMMA EmptyTableCapacity ==
    ASSUME NEW id, active' = NewTable(id)
    PROVE  CapacityInv'
<1>1. active'.ents = {} /\ IsFiniteSet(active'.ents)
  BY FS_EmptySet DEF NewTable
<1> QED
  BY <1>1, NewTableNotFull DEF CapacityInv

(* rotate's loop leaves the number of rotating writers alone, or installs  *)
(* an empty table.                                                         *)
LEMMA WaitOrMoveCapacity ==
    ASSUME TypeOK, CapacityInv, NEW w \in Writers, pc[w] \in {"rotate", "woken"}, WaitOrMove(w)
    PROVE  CapacityInv'
<1>1. CASE UNCHANGED active /\ pc' = [pc EXCEPT ![w] = "wait"]
  <2>1. Rotators' = Rotators
    BY <1>1 DEF Rotators, TypeOK
  <2> QED
    BY <1>1, <2>1 DEF CapacityInv
<1>2. CASE MoveActive(w)
  BY <1>2, EmptyTableCapacity DEF MoveActive
<1> QED
  BY <1>1, <1>2 DEF WaitOrMove

(* Every step keeps the capacity invariant.                                *)
LEMMA CapacityStep ==
    TypeOK /\ FullHasRotator /\ CapacityInv /\ [Next]_vars => CapacityInv'
<1>. SUFFICES ASSUME TypeOK, FullHasRotator, CapacityInv, [Next]_vars PROVE CapacityInv'
  OBVIOUS
<1>1. ASSUME NEW w \in Writers, NEW k \in Keys, NEW rd \in BOOLEAN, Put(w, k, rd)
      PROVE  CapacityInv'
  <2>1. /\ IsFiniteSet(active'.ents)
        /\ Cardinality(Points(active)) \in Nat
        /\ Cardinality(Points(active')) \in Nat
        /\ Cardinality(Points(active')) <= Cardinality(Points(active)) + 1
    BY <1>1, PutAddsOne DEF CapacityInv
  <2>2. ASSUME ShouldFlush(active')
        PROVE  Cardinality(Points(active')) <= MaxEntries - 1 + Cardinality(Rotators')
    <3>1. pc[w] = "idle" /\ pc' = [pc EXCEPT ![w] = "rotate"]
      BY <1>1, <2>2 DEF Put
    <3>2. Rotators' = Rotators \cup {w} /\ w \notin Rotators
      BY <3>1 DEF Rotators, TypeOK
    <3>3. IsFiniteSet(Rotators)
      BY WritersAssumption, FS_Subset DEF Rotators
    <3>4. Cardinality(Rotators') = Cardinality(Rotators) + 1 /\ Cardinality(Rotators) \in Nat
      BY <3>2, <3>3, FS_AddElement, FS_CardinalityType
    <3> QED
      BY <2>1, <3>4, BoundsAssumption DEF CapacityInv, ShouldFlush
  <2> QED
    BY <2>1, <2>2 DEF CapacityInv
<1>2. ASSUME NEW w \in Writers, Rotate(w) PROVE CapacityInv'
  <2>1. CASE ~ShouldFlush(active) /\ UNCHANGED active
    BY <2>1 DEF CapacityInv
  <2>2. CASE WaitOrMove(w)
    BY <1>2, <2>2, WaitOrMoveCapacity DEF Rotate
  <2> QED
    BY <1>2, <2>1, <2>2 DEF Rotate
<1>3. ASSUME NEW w \in Writers, WakeUp(w) PROVE CapacityInv'
  BY <1>3, WaitOrMoveCapacity DEF WakeUp
<1>4. ASSUME UNCHANGED active, Rotators' = Rotators PROVE CapacityInv'
  BY <1>4 DEF CapacityInv
<1>5. ASSUME NEW w \in Writers, Send(w) PROVE CapacityInv'
  <2>1. Rotators' = Rotators
    BY <1>5 DEF Send, Rotators, TypeOK
  <2> QED
    BY <1>4, <1>5, <2>1 DEF Send
<1>6. CASE TakeImmutable
  <2>1. \A w \in Writers : \/ pc'[w] = pc[w]
                           \/ pc[w] = "wait" /\ pc'[w] = "woken"
    BY <1>6, TakeImmutableFacts
  <2>2. Rotators' = Rotators /\ active' = active
    BY <1>6, <2>1, TakeImmutableFacts DEF Rotators
  <2> QED
    BY <1>4, <2>2
<1>7. CASE ResetAll
  BY <1>7, EmptyTableCapacity DEF ResetAll
<1>8. CASE UNCHANGED <<active, pc>>
  BY <1>4, <1>8 DEF Rotators
<1>9. CASE Close
  BY <1>8, <1>9, CloseMovesNothing DEF Close
<1> QED
  BY <1>1, <1>2, <1>3, <1>5, <1>6, <1>7, <1>8, <1>9
  DEF Next, Terminated, vars, Receive, Flush, Snapshot, CloseReturns

(* The active table overshoots maxNumEntries by at most one entry per      *)
(* other writer.                                                           *)
THEOREM CapacityRespected == Spec => []ActiveBound
<1>1. Init => CapacityInv
  <2>. SUFFICES ASSUME Init PROVE CapacityInv
    OBVIOUS
  <2>1. active.ents = {} /\ IsFiniteSet(active.ents) /\ ~ShouldFlush(active)
    BY FS_EmptySet, NewTableNotFull DEF Init, NewTable
  <2> QED
    BY <2>1 DEF CapacityInv
<1>2. CapacityInv => ActiveBound
  <2>. SUFFICES ASSUME CapacityInv PROVE ActiveBound
    OBVIOUS
  <2>1. Cardinality(Points(active)) \in Nat
    BY FS_Subset, FS_CardinalityType DEF CapacityInv, Points
  <2>2. /\ Cardinality(Rotators) <= Cardinality(Writers)
        /\ Cardinality(Rotators) \in Nat /\ Cardinality(Writers) \in Nat
    BY WritersAssumption, FS_Subset, FS_CardinalityType DEF Rotators
  <2>3. Cardinality(Writers) # 0
    BY WritersAssumption, FS_EmptySet
  <2> QED
    BY <2>1, <2>2, <2>3, BoundsAssumption DEF CapacityInv, ShouldFlush, ActiveBound
<1> QED
  BY <1>1, <1>2, CapacityStep, TypeCorrect, RotationSafe, PTL DEF Spec

-----------------------------------------------------------------------------
(* Order.  As long as one writer does the rotating, a table passes through *)
(* the pipeline active - sending - queued - in hand - flushed, and every   *)
(* place holds older tables than the places before it.                     *)

Ids(s) == {t.id : t \in ToSet(s)}

Sending == {held[w].id : w \in Senders}

InHand == IF worker.pc = "recv" THEN {} ELSE {worker.tab.id}

Below(S, T) == \A a \in S, b \in T : a < b

Increasing(s) == \A i, j \in 1 .. Len(s) : i < j => s[i].id < s[j].id

Pipeline ==
    /\ Increasing(flushed) /\ Increasing(flushChannel)
    /\ Below(Ids(flushed), InHand \cup Ids(flushChannel) \cup Sending \cup {active.id})
    /\ Below(InHand, Ids(flushChannel) \cup Sending \cup {active.id})
    /\ Below(Ids(flushChannel), Sending \cup {active.id})
    /\ Below(Sending, {active.id})

(* A table that has been moved is told apart from the fresh table of Init: *)
(* it is full, or a table was moved before it.                             *)
Begun ==
    /\ active.id >= 1
    /\ (immutable # <<>> \/ \E w \in Writers : pc[w] \in {"wait", "woken"}) => active.id > 1
    /\ Senders \subseteq HaveRotated

OrderInv == Begun /\ (Cardinality(HaveRotated) <= 1 => Pipeline)

(* The identities in the pipeline are numbers.                             *)
LEMMA PipelineTypes ==
    ASSUME TypeOK
    PROVE  /\ Ids(flushed) \subseteq Nat /\ Ids(flushChannel) \subseteq Nat
           /\ InHand \subseteq Nat /\ Sending \subseteq Nat /\ active.id \in Nat
<1>1. ToSet(flushed) \subseteq Table /\ ToSet(flushChannel) \subseteq Table
  BY DEF TypeOK, ToSet
<1>2. \A t \in Table : t.id \in Nat
  BY DEF Table
<1>3. Ids(flushed) \subseteq Nat /\ Ids(flushChannel) \subseteq Nat
  BY <1>1, <1>2 DEF Ids
<1>4. InHand \subseteq Nat /\ active.id \in Nat
  BY <1>2 DEF InHand, TypeOK
<1>5. Sending \subseteq Nat
  BY <1>2 DEF Sending, Senders, TypeOK
<1> QED
  BY <1>3, <1>4, <1>5

(* Two writers that have rotated are the same one.                         *)
LEMMA OneRotator ==
    ASSUME NEW S, S \subseteq Writers, Cardinality(S) <= 1, NEW v \in S, NEW w \in S
    PROVE  v = w
<1>. SUFFICES ASSUME v # w PROVE FALSE
  OBVIOUS
<1>1. IsFiniteSet(S) /\ IsFiniteSet({v}) /\ {v} \subseteq S /\ {v} # S
  BY WritersAssumption, FS_Subset, FS_Singleton
<1>2. Cardinality({v}) = 1 /\ Cardinality(S) \in Nat
  BY <1>1, FS_Singleton, FS_CardinalityType
<1>3. Cardinality({v}) <= Cardinality(S) /\ Cardinality(S) # Cardinality({v})
  BY <1>1, FS_Subset
<1> QED
  BY <1>2, <1>3

(* Appending a table newer than all of a sequence keeps it increasing.     *)
LEMMA AppendIncreasing ==
    ASSUME NEW s \in Seq(Table), NEW t \in Table, Increasing(s), Below(Ids(s), {t.id})
    PROVE  Increasing(Append(s, t)) /\ Ids(Append(s, t)) = Ids(s) \cup {t.id}
<1>. DEFINE r == Append(s, t)
<1>1. /\ Len(r) = Len(s) + 1 /\ Len(s) \in Nat
      /\ \A i \in 1 .. Len(s) : r[i] = s[i]
      /\ r[Len(s) + 1] = t
  BY AppendProperties
<1>2. ToSet(r) = ToSet(s) \cup {t}
  BY AppendElements
<1>3. \A i \in 1 .. Len(s) : s[i].id < t.id
  <2>1. \A i \in 1 .. Len(s) : s[i] \in ToSet(s)
    BY DEF ToSet
  <2> QED
    BY <2>1 DEF Below, Ids
<1>. HIDE DEF r
<1>4. Increasing(r)
  <2>1. ASSUME NEW i \in 1 .. Len(r), NEW j \in 1 .. Len(r), i < j PROVE r[i].id < r[j].id
    <3>1. i \in 1 .. Len(s)
      BY <1>1, <2>1
    <3>2. CASE j \in 1 .. Len(s)
      BY <1>1, <2>1, <3>1, <3>2 DEF Increasing
    <3>3. CASE j = Len(s) + 1
      BY <1>1, <1>3, <3>1, <3>3
    <3> QED
      BY <1>1, <3>2, <3>3
  <2> QED
    BY <2>1 DEF Increasing
<1>5. Ids(r) = Ids(s) \cup {t.id}
  BY <1>2 DEF Ids
<1> QED
  BY <1>4, <1>5 DEF r

(* The first table of an increasing sequence is older than the others.     *)
LEMMA TailIncreasing ==
    ASSUME NEW s \in Seq(Table), s # <<>>, Increasing(s)
    PROVE  /\ Increasing(Tail(s)) /\ Head(s).id \in Ids(s)
           /\ Ids(Tail(s)) \subseteq Ids(s) /\ Below({Head(s).id}, Ids(Tail(s)))
<1>. DEFINE r == Tail(s)
<1>1. /\ Len(r) = Len(s) - 1 /\ Len(s) \in Nat /\ Len(s) > 0 /\ r \in Seq(Table)
      /\ \A i \in 1 .. Len(s) - 1 : r[i] = s[i + 1]
      /\ Head(s) = s[1]
  BY HeadTailProperties, EmptySeq
<1>. HIDE DEF r
<1>2. DOMAIN s = 1 .. Len(s) /\ DOMAIN r = 1 .. Len(s) - 1
  BY <1>1
<1>3. Increasing(r)
  BY <1>1, SMTT(40) DEF Increasing
<1>4. Head(s) \in ToSet(s)
  BY <1>1, <1>2 DEF ToSet
<1>5. \A t \in ToSet(r) : \E i \in 1 .. Len(s) - 1 : t = s[i + 1]
  BY <1>1, <1>2 DEF ToSet
<1>6. ASSUME NEW t \in ToSet(r) PROVE t \in ToSet(s) /\ Head(s).id < t.id
  <2>1. PICK i \in 1 .. Len(s) - 1 : t = s[i + 1]
    BY <1>5
  <2>2. i + 1 \in 1 .. Len(s) /\ 1 \in 1 .. Len(s) /\ 1 < i + 1
    BY <1>1
  <2> QED
    BY <1>1, <1>2, <2>1, <2>2 DEF ToSet, Increasing
<1>7. Ids(r) \subseteq Ids(s) /\ Below({Head(s).id}, Ids(r)) /\ Head(s).id \in Ids(s)
  BY <1>4, <1>6 DEF Ids, Below
<1> QED
  BY <1>3, <1>7 DEF r

(* The active table, when it is moved, is not the fresh table of Init.     *)
LEMMA MovedIsKnown ==
    ASSUME TypeOK, Begun, NEW w \in Writers, pc[w] = "woken" \/ ShouldFlush(active)
    PROVE  active # NewTable(1)
<1>1. CASE pc[w] = "woken"
  <2>1. active.id > 1
    BY <1>1 DEF Begun
  <2> QED
    BY <2>1 DEF NewTable
<1>2. CASE ShouldFlush(active)
  BY <1>2, NewTableNotFull
<1> QED
  BY <1>1, <1>2

(* Moving the active table: the mover is the only sender.                  *)
LEMMA MoveActiveOrder ==
    ASSUME TypeOK, OrderInv, NEW w \in Writers, pc[w] # "send", active # NewTable(1),
           MoveActive(w), UNCHANGED <<flushChannel, worker, flushed>>
    PROVE  OrderInv'
<1>1. /\ held' = [held EXCEPT ![w] = active] /\ pc' = [pc EXCEPT ![w] = "send"]
      /\ active'.id = active.id + 1 /\ active.id \in Nat
  BY DEF MoveActive, NewTable, TypeOK, Table
<1>2. HaveRotated' = HaveRotated \cup {w}
  BY <1>1 DEF HaveRotated, TypeOK
<1>3. Senders' = Senders \cup {w}
  BY <1>1 DEF Senders, TypeOK
<1>4. Begun'
  BY <1>1, <1>2, <1>3 DEF OrderInv, Begun
<1>5. ASSUME Cardinality(HaveRotated') <= 1 PROVE Pipeline'
  <2>1. HaveRotated' \subseteq Writers
    BY DEF HaveRotated
  <2>2. \A v \in HaveRotated' : v = w
    <3>1. w \in HaveRotated'
      BY <1>2
    <3> QED
      BY <1>5, <2>1, <3>1, OneRotator
  <2>3. Senders = {} /\ Senders' = {w}
    <3>1. w \notin Senders
      BY DEF Senders
    <3> QED
      BY <1>2, <1>3, <2>2, <3>1 DEF OrderInv, Begun
  <2>4. Cardinality(HaveRotated) <= 1
    <3>1. IsFiniteSet(HaveRotated') /\ HaveRotated \subseteq HaveRotated'
      BY <1>2, <2>1, WritersAssumption, FS_Subset
    <3>2. Cardinality(HaveRotated) <= Cardinality(HaveRotated') /\ IsFiniteSet(HaveRotated)
      BY <3>1, FS_Subset
    <3> QED
      BY <1>5, <3>1, <3>2, FS_CardinalityType
  <2>5. Pipeline
    BY <2>4 DEF OrderInv
  <2>6. Sending' = {active.id}
    BY <1>1, <2>3 DEF Sending, TypeOK
  <2>7. Increasing(flushed)' /\ Increasing(flushChannel)'
    BY <2>5 DEF Pipeline, Increasing
  <2>8. Ids(flushed)' = Ids(flushed) /\ Ids(flushChannel)' = Ids(flushChannel) /\ InHand' = InHand
    BY DEF Ids, InHand
  <2>9. /\ \A a \in Ids(flushed) \cup InHand \cup Ids(flushChannel) \cup {active.id} :
              a < active.id + 1
    <3>1. \A a \in Ids(flushed) \cup InHand \cup Ids(flushChannel) : a \in Nat /\ a < active.id
      BY <2>5, PipelineTypes DEF Pipeline, Below
    <3> QED
      BY <1>1, <3>1
  <2> QED
    BY <1>1, <2>5, <2>6, <2>7, <2>8, <2>9 DEF Pipeline, Below
<1> QED
  BY <1>4, <1>5 DEF OrderInv

(* Every step keeps the order.                                             *)
LEMMA OrderStep ==
    TypeOK /\ FullHasRotator /\ OrderInv /\ [Next]_vars => OrderInv'
<1>. SUFFICES ASSUME TypeOK, FullHasRotator, OrderInv, [Next]_vars PROVE OrderInv'
  OBVIOUS
<1>1. active.id \in Nat /\ active.id >= 1
  BY PipelineTypes DEF OrderInv, Begun
<1>2. ASSUME UNCHANGED <<held, flushed, flushChannel, worker>>, Senders' = Senders,
             active'.id = active.id, Begun'
      PROVE  OrderInv'
  <2>1. Sending' = Sending /\ InHand' = InHand
    BY <1>2 DEF Sending, InHand
  <2>2. Pipeline => Pipeline'
    BY <1>2, <2>1 DEF Pipeline, Ids, Increasing
  <2>3. HaveRotated' = HaveRotated
    BY <1>2 DEF HaveRotated
  <2> QED
    BY <1>2, <2>2, <2>3 DEF OrderInv
<1>3. ASSUME NEW w \in Writers, NEW k \in Keys, NEW rd \in BOOLEAN, Put(w, k, rd)
      PROVE  OrderInv'
  <2>1. active'.id = active.id
    <3>1. CASE rd \/ k \in MergeKeys \cup snapshots
      BY <1>3, <3>1 DEF Put, Insert, TypeOK, Table
    <3>2. CASE ~(rd \/ k \in MergeKeys \cup snapshots)
      BY <1>3, <3>2 DEF Put, Upsert, TypeOK, Table
    <3> QED
      BY <3>1, <3>2
  <2>2. PICK p \in {"rotate", "idle"} : pc' = [pc EXCEPT ![w] = p]
    BY <1>3 DEF Put
  <2>3. UNCHANGED <<held, flushed, flushChannel, worker, immutable>> /\ pc[w] = "idle"
    BY <1>3 DEF Put
  <2>4. Senders' = Senders /\ HaveRotated' = HaveRotated
    BY <2>2, <2>3 DEF Senders, HaveRotated, TypeOK
  <2>5. \A v \in Writers : pc'[v] \in {"wait", "woken"} => pc[v] \in {"wait", "woken"}
    BY <2>2 DEF TypeOK
  <2>6. Begun'
    BY <2>1, <2>3, <2>4, <2>5 DEF OrderInv, Begun
  <2> QED
    BY <1>2, <2>1, <2>3, <2>4, <2>6
<1>4. ASSUME NEW w \in Writers, pc[w] \in {"rotate", "woken"}, pc' = [pc EXCEPT ![w] = "wait"],
             Len(immutable) >= MaxTables,
             UNCHANGED <<active, immutable, held, flushed, flushChannel, worker>>
      PROVE  OrderInv'
  <2>1. immutable # <<>>
    BY <1>4, BoundsAssumption
  <2>2. Senders' = Senders /\ HaveRotated' = HaveRotated
    BY <1>4 DEF Senders, HaveRotated, TypeOK
  <2>3. Begun'
    BY <1>4, <2>1, <2>2 DEF OrderInv, Begun
  <2> QED
    BY <1>2, <1>4, <2>2, <2>3
<1>5. ASSUME NEW w \in Writers, Rotate(w) PROVE OrderInv'
  <2>1. CASE pc' = [pc EXCEPT ![w] = "idle"] /\ UNCHANGED <<active, immutable, held>>
    <3>1. Senders' = Senders /\ HaveRotated' = HaveRotated
      BY <1>5, <2>1 DEF Rotate, Senders, HaveRotated, TypeOK
    <3>2. \A v \in Writers : pc'[v] \in {"wait", "woken"} => pc[v] \in {"wait", "woken"}
      BY <2>1 DEF TypeOK
    <3>3. Begun'
      BY <2>1, <3>1, <3>2 DEF OrderInv, Begun
    <3> QED
      BY <1>2, <1>5, <2>1, <3>1, <3>3 DEF Rotate
  <2>2. CASE ShouldFlush(active) /\ MoveActive(w)
    <3>1. active # NewTable(1)
      BY <2>2, NewTableNotFull
    <3> QED
      BY <1>5, <2>2, <3>1, MoveActiveOrder DEF Rotate
  <2> QED
    BY <1>4, <1>5, <2>1, <2>2 DEF Rotate, WaitOrMove
<1>6. ASSUME NEW w \in Writers, WakeUp(w) PROVE OrderInv'
  <2>1. active # NewTable(1)
    BY <1>6, MovedIsKnown DEF WakeUp, OrderInv
  <2> QED
    BY <1>4, <1>6, <2>1, MoveActiveOrder DEF WakeUp, WaitOrMove
<1>7. ASSUME NEW w \in Writers, Send(w) PROVE OrderInv'
  <2>1. /\ pc' = [pc EXCEPT ![w] = "idle"] /\ pc[w] = "send"
        /\ flushChannel' = Append(flushChannel, held[w])
        /\ UNCHANGED <<active, immutable, held, flushed, worker>>
    BY <1>7 DEF Send
  <2>2. Senders' = Senders \ {w} /\ w \in Senders /\ HaveRotated' = HaveRotated
    BY <2>1 DEF Senders, HaveRotated, TypeOK
  <2>3. \A v \in Writers : pc'[v] \in {"wait", "woken"} => pc[v] \in {"wait", "woken"}
    BY <2>1 DEF TypeOK
  <2>4. Begun'
    BY <2>1, <2>2, <2>3 DEF OrderInv, Begun
  <2>5. ASSUME Cardinality(HaveRotated) <= 1 PROVE Pipeline'
    <3>1. \A v \in Senders : v = w
      <4>1. HaveRotated \subseteq Writers /\ w \in HaveRotated /\ Senders \subseteq HaveRotated
        BY <2>2 DEF HaveRotated, OrderInv, Begun
      <4> QED
        BY <2>5, <4>1, OneRotator
    <3>2. Sending = {held[w].id} /\ Sending' = {}
      BY <2>1, <2>2, <3>1 DEF Sending
    <3>3. Pipeline
      BY <2>5 DEF OrderInv
    <3>4. /\ Increasing(Append(flushChannel, held[w]))
          /\ Ids(Append(flushChannel, held[w])) = Ids(flushChannel) \cup {held[w].id}
      <4>1. /\ flushChannel \in Seq(Table) /\ held[w] \in Table
            /\ Increasing(flushChannel) /\ Below(Ids(flushChannel), {held[w].id})
        BY <3>2, <3>3 DEF Pipeline, TypeOK, Below
      <4> QED
        BY <4>1, AppendIncreasing
    <3>5. Increasing(flushChannel)' /\ Ids(flushChannel)' = Ids(flushChannel) \cup {held[w].id}
      BY <2>1, <3>4
    <3>6. Increasing(flushed)' /\ Ids(flushed)' = Ids(flushed) /\ InHand' = InHand
      BY <2>1, <3>3 DEF Pipeline, Increasing, Ids, InHand
    <3> QED
      BY <2>1, <3>2, <3>3, <3>5, <3>6 DEF Pipeline, Below
  <2> QED
    BY <2>2, <2>4, <2>5 DEF OrderInv
<1>8. CASE Receive
  <2>1. /\ worker.pc = "recv" /\ flushChannel # <<>> /\ worker'.pc = "lock"
        /\ worker'.tab = Head(flushChannel) /\ flushChannel' = Tail(flushChannel)
        /\ UNCHANGED <<active, immutable, held, flushed, pc>>
    BY <1>8 DEF Receive
  <2>2. Senders' = Senders /\ HaveRotated' = HaveRotated /\ Sending' = Sending
    BY <2>1 DEF Senders, HaveRotated, Sending
  <2>3. Begun'
    BY <2>1, <2>2 DEF OrderInv, Begun
  <2>4. ASSUME Pipeline PROVE Pipeline'
    <3>1. /\ Increasing(Tail(flushChannel)) /\ Head(flushChannel).id \in Ids(flushChannel)
          /\ Ids(Tail(flushChannel)) \subseteq Ids(flushChannel)
          /\ Below({Head(flushChannel).id}, Ids(Tail(flushChannel)))
      BY <2>1, <2>4, TailIncreasing DEF Pipeline, TypeOK
    <3>2. InHand' = {Head(flushChannel).id}
      BY <2>1 DEF InHand
    <3>3. Ids(flushed)' = Ids(flushed) /\ Ids(flushChannel)' = Ids(Tail(flushChannel))
      BY <2>1 DEF Ids
    <3>4. Increasing(flushed)' /\ Increasing(flushChannel)'
      BY <2>1, <2>4, <3>1 DEF Pipeline, Increasing
    <3> QED
      BY <2>1, <2>2, <2>4, <3>1, <3>2, <3>3, <3>4 DEF Pipeline, Below
  <2> QED
    BY <2>2, <2>3, <2>4 DEF OrderInv
<1>9. CASE TakeImmutable
  <2>1. /\ worker.pc # "recv" /\ worker'.pc # "recv" /\ worker'.tab = worker.tab
        /\ UNCHANGED <<active, held, flushed, flushChannel>>
    BY <1>9, TakeImmutableFacts
  <2>2. /\ Senders' = Senders
        /\ \A v \in Writers : pc'[v] \in {"wait", "woken"} => pc[v] \in {"wait", "woken"}
    BY <1>9, TakeImmutableFacts
  <2>3. immutable' # <<>> => immutable # <<>>
    <3>1. /\ immutable' \in Seq(Table) /\ immutable \in Seq(Table)
          /\ Len(immutable') <= Len(immutable)
      BY <1>9, TakeImmutableFacts DEF TypeOK
    <3> QED
      BY <3>1
  <2>4. HaveRotated' = HaveRotated /\ Sending' = Sending /\ InHand' = InHand
    BY <2>1, <2>2 DEF HaveRotated, Sending, InHand
  <2>5. Begun'
    BY <2>1, <2>2, <2>3, <2>4 DEF OrderInv, Begun
  <2>6. Pipeline => Pipeline'
    BY <2>1, <2>4 DEF Pipeline, Ids, Increasing
  <2> QED
    BY <2>4, <2>5, <2>6 DEF OrderInv
<1>10. CASE Flush
  <2>1. /\ worker.pc # "recv" /\ worker'.pc = "recv"
        /\ flushed' = Append(flushed, worker.tab) \/ flushed' = flushed
        /\ UNCHANGED <<active, immutable, held, flushChannel, pc>>
    BY <1>10 DEF Flush, TypeOK
  <2>2. Senders' = Senders /\ HaveRotated' = HaveRotated /\ Sending' = Sending
    BY <2>1 DEF Senders, HaveRotated, Sending
  <2>3. Begun'
    BY <2>1, <2>2 DEF OrderInv, Begun
  <2>4. ASSUME Pipeline PROVE Pipeline'
    <3>1. InHand = {worker.tab.id} /\ InHand' = {}
      BY <2>1 DEF InHand
    <3>2. /\ Increasing(Append(flushed, worker.tab))
          /\ Ids(Append(flushed, worker.tab)) = Ids(flushed) \cup {worker.tab.id}
      <4>1. /\ flushed \in Seq(Table) /\ worker.tab \in Table /\ Increasing(flushed)
            /\ Below(Ids(flushed), {worker.tab.id})
        BY <2>4, <3>1 DEF Pipeline, TypeOK, Below
      <4> QED
        BY <4>1, AppendIncreasing
    <3>3. Increasing(flushed') /\ Ids(flushed') \subseteq Ids(flushed) \cup {worker.tab.id}
      BY <2>1, <2>4, <3>2 DEF Pipeline
    <3>4. Increasing(flushChannel)' /\ Ids(flushChannel)' = Ids(flushChannel)
      BY <2>1, <2>4 DEF Pipeline, Increasing, Ids
    <3> QED
      BY <2>1, <2>2, <2>4, <3>1, <3>3, <3>4 DEF Pipeline, Below
  <2> QED
    BY <2>2, <2>3, <2>4 DEF OrderInv
<1>11. CASE ResetAll
  <2>1. /\ active'.id = active.id + 1 /\ immutable' = <<>>
        /\ UNCHANGED <<held, flushed, flushChannel, worker, pc>>
    BY <1>11 DEF ResetAll, NewTable
  <2>2. /\ Senders' = Senders /\ HaveRotated' = HaveRotated
        /\ Sending' = Sending /\ InHand' = InHand
        /\ Ids(flushed)' = Ids(flushed) /\ Ids(flushChannel)' = Ids(flushChannel)
    BY <2>1 DEF Senders, HaveRotated, Sending, InHand, Ids
  <2>3. Begun'
    BY <1>1, <2>1, <2>2 DEF OrderInv, Begun
  <2>4. ASSUME Pipeline PROVE Pipeline'
    <3>1. \A a \in Ids(flushed) \cup InHand \cup Ids(flushChannel) \cup Sending :
              a < active.id + 1
      <4>1. \A a \in Ids(flushed) \cup InHand \cup Ids(flushChannel) \cup Sending :
                a \in Nat /\ a < active.id
        BY <2>4, PipelineTypes DEF Pipeline, Below
      <4> QED
        BY <1>1, <4>1
    <3>2. Increasing(flushed)' /\ Increasing(flushChannel)'
      BY <2>1, <2>4 DEF Pipeline, Increasing
    <3> QED
      BY <2>1, <2>2, <2>4, <3>1, <3>2 DEF Pipeline, Below
  <2> QED
    BY <2>2, <2>3, <2>4 DEF OrderInv
<1>12. CASE UNCHANGED <<active, immutable, held, flushed, flushChannel, worker, pc>>
  <2>1. Senders' = Senders /\ HaveRotated' = HaveRotated
    BY <1>12 DEF Senders, HaveRotated
  <2>2. Begun'
    BY <1>12, <2>1 DEF OrderInv, Begun
  <2> QED
    BY <1>2, <1>12, <2>1, <2>2
<1>13. CASE Close
  BY <1>12, <1>13, CloseMovesNothing DEF Close
<1> QED
  BY <1>3, <1>5, <1>6, <1>7, <1>8, <1>9, <1>10, <1>11, <1>12, <1>13
  DEF Next, Terminated, vars, Snapshot, CloseReturns

(* As long as one writer does the rotating, tables reach the flush handler *)
(* in the order they were rotated and none twice, whatever the timing of   *)
(* the worker, ResetAll and Close: the order the WAL's watermark rests on. *)
THEOREM OrderKept == Spec => []FlushedInOrder
<1>1. Init => OrderInv
  <2>. SUFFICES ASSUME Init PROVE OrderInv
    OBVIOUS
  <2>1. Senders = {} /\ Ids(flushed) = {} /\ Ids(flushChannel) = {} /\ InHand = {}
    BY DEF Init, Senders, Ids, InHand, ToSet
  <2>2. Sending = {}
    BY <2>1 DEF Sending
  <2>3. Increasing(flushed) /\ Increasing(flushChannel)
    BY DEF Init, Increasing
  <2>4. Begun
    BY <2>1 DEF Init, Begun, NewTable
  <2>5. Pipeline
    BY <2>1, <2>2, <2>3 DEF Pipeline, Below
  <2> QED
    BY <2>4, <2>5 DEF OrderInv
<1>2. OrderInv => FlushedInOrder
  BY DEF OrderInv, Pipeline, Increasing, FlushedInOrder
<1> QED
  BY <1>1, <1>2, OrderStep, TypeCorrect, RotationSafe, PTL DEF Spec

=============================================================================
