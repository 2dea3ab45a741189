----------------------------- MODULE EngineProofs -----------------------------
(***************************************************************************)
(* Proofs about Engine, for any keys, memtable sizes, batches and crashes: *)
(* its types, the order of the log, and durability.                        *)
(***************************************************************************)
EXTENDS Engine, SequenceFacts, FiniteSetTheorems, SequenceTheorems, TLAPS

-----------------------------------------------------------------------------
(* What the inductive invariant speaks about.                              *)

(* All memtables, oldest first: the one the worker holds until the WAL's   *)
(* watermark has moved past it, the immutable ones, the active one.        *)
MemOf(w, im, ac) ==
    ((IF w.pc \in {"flush", "wal"} THEN <<w.tab>> ELSE <<>>) \o im) \o <<ac>>

Mem == MemOf(worker, immutable, active)

(* The positions of the log that still have to enter the active memtable:  *)
(* in "rotate" and "cache" the first one of todo already has.              *)
Pending ==
    IF client.pc = "apply" THEN client.todo
    ELSE {i \in client.todo : \E j \in client.todo : j < i}

Up == client.pc # "down"

(* The records of S are records of the log that no recovery has dropped.   *)
InLog(S) == \A r \in S : r.id \in 1 .. Len(log) /\ log[r.id] = r /\ r.id \notin lost

(* Record i is newer than everything in the tables before the k-th.        *)
Above(i, k) == \A b \in 1 .. k - 1 : \A r \in Mem[b] : r.seq < log[i].seq

(* The k-th table holds record i, or a newer version of its key.           *)
Held(i, k) ==
    /\ Above(i, k)
    /\ \/ log[i] \in Mem[k]
       \/ /\ ~IsRange(log[i])
          /\ \E r \in Points(Mem[k]) : r.key = log[i].key /\ log[i].seq < r.seq

(* Records that recovery would replay and that were written while table a  *)
(* was the active one, before its newest.                                  *)
Window(a) ==
    {i \in Recoverable : /\ ~IsRange(log[i])
                         /\ Above(i, a)
                         /\ \E r \in Mem[a] : log[i].seq < r.seq}

(* Records that recovery would replay although a newer one is in an        *)
(* SSTable.                                                                *)
Older == {i \in Recoverable : ~IsRange(log[i]) /\ \E r \in sst : log[i].seq < r.seq}

(* The records I are about fewer keys than a memtable has room for.        *)
Few(I) == \E K \in SUBSET Keys : Cardinality(K) < MaxEntries /\ \A i \in I : log[i].key \in K

-----------------------------------------------------------------------------
(* The part of the invariant that a regressed sequence number does not     *)
(* break.                                                                  *)

(* What is stored, or about to be, is in the log.                          *)
Stored ==
    /\ \A i \in 1 .. Len(log) : log[i].id = i
    /\ InLog(sst)
    /\ \A a \in 1 .. Len(Mem) : InLog(Mem[a])
    /\ \A i \in Pending : i \notin lost
    /\ \A i \in lost : log[i].first <= walFlushed

(* Between calls nothing is to be done, and a dead process has no memory.  *)
Quiet ==
    /\ client.pc \in {"ready", "sst", "cover", "down"} => client.todo = {}
    /\ ~Up => active = {} /\ immutable = <<>> /\ worker.pc = "recv"

(* A table is full exactly when it is about to be rotated, holds a key     *)
(* once, and is never rotated without a point record.                      *)
Filled ==
    /\ client.pc = "rotate" <=> Cardinality(Points(active)) >= MaxEntries
    /\ \A r, s \in Points(active) : r.key = s.key => r = s
    /\ \A a \in 1 .. Len(Mem) - 1 : Points(Mem[a]) # {}
    /\ worker.pc = "wal" => worker.tab \subseteq sst

BaseInv == TypeOK /\ Stored /\ Quiet /\ Filled

(* The part that speaks about sequence numbers.                            *)

(* Positions and sequence numbers agree, and the generator is ahead.       *)
Sequenced ==
    /\ \A i, j \in 1 .. Len(log) : i < j /\ i \notin lost => log[i].seq < log[j].seq
    /\ Up => /\ walFlushed <= seqGen
             /\ \A i \in 1 .. Len(log) : i \notin lost => log[i].seq <= seqGen

(* From the watermark over the tables to what is still to be applied       *)
(* sequence numbers grow.                                                  *)
Layered ==
    /\ \A a \in 1 .. Len(Mem) : \A r \in Mem[a] : walFlushed < r.seq
    /\ \A a, b \in 1 .. Len(Mem) : a < b => \A r \in Mem[a], s \in Mem[b] : r.seq < s.seq
    /\ \A i \in Pending : /\ walFlushed < log[i].seq
                          /\ \A a \in 1 .. Len(Mem) : \A r \in Mem[a] : r.seq < log[i].seq

(* What recovery would replay is in memory or about to be; so is what is   *)
(* above the watermark and not in an SSTable.                              *)
Replayed ==
    Up => /\ \A i \in Recoverable : i \in Pending \/ \E k \in 1 .. Len(Mem) : Held(i, k)
          /\ \A i \in 1 .. Len(log) : i \notin lost /\ log[i].seq > walFlushed =>
                \/ log[i] \in sst
                \/ i \in Pending
                \/ \E k \in 1 .. Len(Mem) : Held(i, k)

(* The SSTables are not ahead of the oldest memtable to be flushed: after  *)
(* a crash between FlushToSSTable and MemtableFlushed the replay fills     *)
(* that table again with at least as much.                                 *)
Behind ==
    /\ \A a \in 1 .. Len(Mem) : Few(Window(a))
    /\ Few(Older)
    /\ Len(Mem) >= 2 => \A r \in sst : \E s \in Mem[1] : r.seq <= s.seq
    /\ worker.pc = "compact" => \A r \in sst : r.seq <= walFlushed
    /\ worker.pc \in {"recv", "flush"} /\ (\E r \in sst : r.seq > walFlushed) =>
          /\ \A a \in 1 .. Len(Mem) : \A r \in Mem[a] : r.first > walFlushed
          /\ \A i \in Pending : log[i].first > walFlushed

(* What the watermark has passed is in an SSTable, or no longer matters.   *)
Passed(i) ==
    \/ log[i] \in sst
    \/ \E j \in 1 .. Len(log) : j \notin lost /\ log[j].seq <= walFlushed /\ Overrides(j, i)
    \/ log[i].op # "Put" /\ ~Needed(log[i], sst)
    \/ Leveled /\ IsRange(log[i]) /\ i \in undone

Kept == \A i \in 1 .. Len(log) : i \notin lost /\ log[i].seq <= walFlushed => Passed(i)

SeqInv == Sequenced /\ Layered /\ Replayed /\ Behind /\ Kept

Inv == BaseInv /\ (~regressed => SeqInv)

-----------------------------------------------------------------------------
(* Lemmas about the operators of Engine.                                   *)

(* The largest sequence number of a set of log records exists.             *)
LEMMA MaxSeqFacts ==
    ASSUME log \in Seq(Record), NEW S,
           \A r \in S : \E i \in 1 .. Len(log) : r = log[i]
    PROVE  /\ MaxSeq(S) \in Nat
           /\ \A r \in S : r.seq <= MaxSeq(S)
           /\ S # {} => \E r \in S : r.seq = MaxSeq(S)
<1>. DEFINE I == {r.seq : r \in S}
            f == [i \in 1 .. Len(log) |-> log[i].seq]
<1>1. Len(log) \in Nat /\ \A i \in 1 .. Len(log) : log[i] \in Record
  OBVIOUS
<1>2. \A i \in 1 .. Len(log) : f[i] \in Nat
  BY <1>1 DEF Record
<1>3. PICK B \in Nat : \A i \in 1 .. Len(log) : f[i] <= B
  <2> HIDE DEF f
  <2> QED
    BY <1>1, <1>2, BoundOfSequence
<1>4. I \in SUBSET Nat /\ \A n \in I : n <= B
  <2>1. ASSUME NEW r \in S PROVE r.seq \in Nat /\ r.seq <= B
    <3>1. PICK i \in 1 .. Len(log) : r = log[i]
      OBVIOUS
    <3> QED
      BY <1>2, <1>3, <3>1
  <2> QED
    BY <2>1
<1>5. CASE S = {}
  BY <1>5 DEF MaxSeq
<1>6. CASE S # {}
  <2>1. I # {}
    BY <1>6
  <2>2. \E m \in I : \A n \in I : n <= m
    <3> HIDE DEF I
    <3> QED
      BY <1>3, <1>4, <2>1, GreatestElement
  <2>3. PICK m \in I : \A r \in S : r.seq <= m
    BY <2>2
  <2>4. MaxSeq(S) = CHOOSE n \in I : \A r \in S : r.seq <= n
    BY <1>6 DEF MaxSeq
  <2>5. MaxSeq(S) \in I /\ \A r \in S : r.seq <= MaxSeq(S)
    <3> HIDE DEF I
    <3> QED
      BY <2>3, <2>4
  <2> QED
    BY <1>4, <2>5
<1> QED
  BY <1>5, <1>6

(* So does the newest record of such a set.                                *)
LEMMA NewestFacts ==
    ASSUME log \in Seq(Record), NEW S, S # {},
           \A r \in S : \E i \in 1 .. Len(log) : r = log[i]
    PROVE  Newest(S) \in S
<1>1. \E r \in S : r.seq = MaxSeq(S)
  BY MaxSeqFacts
<1>2. \A r \in S : r.seq <= MaxSeq(S)
  BY MaxSeqFacts
<1>3. \E r \in S : \A s \in S : s.seq <= r.seq
  BY <1>1, <1>2
<1> QED
  BY <1>3 DEF Newest

CacheEntry == [key : Keys, val : Nat]

(* The read cache stays a list of entries.                                 *)
LEMMA CacheWithoutType ==
    ASSUME NEW c \in Seq(CacheEntry), NEW k
    PROVE  CacheWithout(c, k) \in Seq(CacheEntry)
<1>1. CASE ~CacheHas(c, k)
  BY <1>1 DEF CacheWithout
<1>2. CASE CacheHas(c, k)
  <2>. DEFINE i == CHOOSE i \in 1 .. Len(c) : c[i].key = k
              a == SubSeq(c, 1, i - 1)
              b == SubSeq(c, i + 1, Len(c))
  <2>1. i \in 1 .. Len(c)
    BY <1>2 DEF CacheHas
  <2>2. CacheWithout(c, k) = a \o b
    BY <1>2 DEF CacheWithout
  <2> HIDE DEF i
  <2>3. a \in Seq(CacheEntry)
    <3>1. \A j \in 1 .. i - 1 : c[j] \in CacheEntry
      BY <2>1, ElementOfSeq
    <3> QED
      BY <2>1, <3>1, SubSeqProperties
  <2>4. b \in Seq(CacheEntry)
    <3>1. \A j \in i + 1 .. Len(c) : c[j] \in CacheEntry
      BY <2>1, ElementOfSeq
    <3>2. Len(c) \in Int
      OBVIOUS
    <3> QED
      BY <2>1, <3>1, <3>2, SubSeqProperties
  <2> HIDE DEF a, b
  <2> QED
    BY <2>2, <2>3, <2>4, ConcatProperties
<1> QED
  BY <1>1, <1>2

(* The read cache stays a sequence of entries when a value is put (lru.go, *)
(* Put).                                                                   *)
LEMMA CachePutType ==
    ASSUME NEW c \in Seq(CacheEntry), NEW k \in Keys, NEW v \in Nat
    PROVE  CachePut(c, k, v) \in Seq(CacheEntry)
<1>. DEFINE e == <<[key |-> k, val |-> v]>>
            d == e \o CacheWithout(c, k)
<1>1. e \in Seq(CacheEntry)
  BY DEF CacheEntry
<1>2. d \in Seq(CacheEntry)
  <2> HIDE DEF e
  <2> QED
    BY <1>1, CacheWithoutType, ConcatProperties
<1>3. CachePut(c, k, v) = IF Len(d) > CacheSize THEN SubSeq(d, 1, CacheSize) ELSE d
  BY DEF CachePut
<1>. HIDE DEF d
<1>4. CASE Len(d) > CacheSize
  <2>1. CacheSize \in Nat
    BY BoundsAssumption
  <2>2. \A i \in 1 .. CacheSize : d[i] \in CacheEntry
    BY <1>2, <1>4, <2>1
  <2> QED
    BY <1>3, <1>4, <2>1, <2>2, SubSeqProperties
<1> QED
  BY <1>2, <1>3, <1>4

-----------------------------------------------------------------------------
(* What the actions do to the list of all memtables.                       *)

WorkerType == [pc : {"recv", "flush", "wal", "compact"}, tab : SUBSET Record]

(* The tables in age order, position by position: the one in the worker's  *)
(* hands, the immutable ones, the active one.                              *)
LEMMA MemShape ==
    ASSUME NEW w \in WorkerType, NEW im \in Seq(SUBSET Record), NEW ac \in SUBSET Record,
           NEW o, o = IF w.pc \in {"flush", "wal"} THEN 1 ELSE 0
    PROVE  /\ MemOf(w, im, ac) \in Seq(SUBSET Record)
           /\ Len(MemOf(w, im, ac)) = o + Len(im) + 1
           /\ \A a \in 1 .. o + Len(im) + 1 :
                 MemOf(w, im, ac)[a] = IF a <= o THEN w.tab
                                       ELSE IF a <= o + Len(im) THEN im[a - o] ELSE ac
<1>. DEFINE h == IF w.pc \in {"flush", "wal"} THEN <<w.tab>> ELSE <<>>
            l == <<ac>>
            hi == h \o im
<1>1. /\ h \in Seq(SUBSET Record) /\ Len(h) = o
      /\ \A a \in 1 .. o : h[a] = w.tab
  <2>1. CASE w.pc \in {"flush", "wal"}
    <3>1. h = <<w.tab>> /\ o = 1 /\ w.tab \in SUBSET Record
      BY <2>1 DEF WorkerType
    <3>. HIDE DEF h
    <3>2. h \in Seq(SUBSET Record) /\ Len(h) = 1 /\ h[1] = w.tab
      BY <3>1
    <3>3. \A a \in 1 .. 1 : a = 1
      OBVIOUS
    <3> QED
      BY <3>1, <3>2, <3>3
  <2>2. CASE w.pc \notin {"flush", "wal"}
    <3>1. h = <<>> /\ o = 0
      BY <2>2
    <3> QED
      BY <3>1
  <2> QED
    BY <2>1, <2>2
<1>2. l \in Seq(SUBSET Record) /\ Len(l) = 1 /\ l[1] = ac
  OBVIOUS
<1>3. MemOf(w, im, ac) = hi \o l
  BY DEF MemOf
<1>4. o \in {0, 1} /\ Len(im) \in Nat
  OBVIOUS
<1>. HIDE DEF h, l
<1>5. /\ hi \in Seq(SUBSET Record) /\ Len(hi) = o + Len(im)
      /\ \A a \in 1 .. o + Len(im) : hi[a] = IF a <= o THEN h[a] ELSE im[a - o]
  <2>1. /\ hi \in Seq(SUBSET Record) /\ Len(hi) = Len(h) + Len(im)
        /\ \A a \in 1 .. Len(h) + Len(im) : hi[a] = IF a <= Len(h) THEN h[a] ELSE im[a - Len(h)]
    BY <1>1, ConcatProperties, Zenon
  <2> QED
    BY <1>1, <2>1
<1>. HIDE DEF hi
<1>6. /\ hi \o l \in Seq(SUBSET Record) /\ Len(hi \o l) = o + Len(im) + 1
      /\ \A a \in 1 .. o + Len(im) + 1 :
            (hi \o l)[a] = IF a <= o + Len(im) THEN hi[a] ELSE l[a - (o + Len(im))]
  <2>1. /\ hi \o l \in Seq(SUBSET Record) /\ Len(hi \o l) = Len(hi) + Len(l)
        /\ \A a \in 1 .. Len(hi) + Len(l) :
              (hi \o l)[a] = IF a <= Len(hi) THEN hi[a] ELSE l[a - Len(hi)]
    BY <1>2, <1>5, ConcatProperties, Zenon
  <2> QED
    BY <1>2, <1>5, <2>1
<1>7. ASSUME NEW a \in 1 .. o + Len(im) + 1
      PROVE  MemOf(w, im, ac)[a] = IF a <= o THEN w.tab
                                   ELSE IF a <= o + Len(im) THEN im[a - o] ELSE ac
  <2>1. CASE a <= o
    BY <1>1, <1>3, <1>4, <1>5, <1>6, <2>1
  <2>2. CASE ~(a <= o) /\ a <= o + Len(im)
    BY <1>3, <1>4, <1>5, <1>6, <2>2
  <2>3. CASE ~(a <= o + Len(im))
    <3>1. a - (o + Len(im)) = 1 /\ ~(a <= o)
      BY <1>4, <2>3
    <3> QED
      BY <1>2, <1>3, <1>6, <2>3, <3>1
  <2> QED
    BY <1>4, <2>1, <2>2, <2>3
<1> QED
  BY <1>3, <1>6, <1>7

(* The active table is the last one, the one the worker holds the first.   *)
LEMMA MemFacts ==
    ASSUME TypeOK
    PROVE  /\ Mem \in Seq(SUBSET Record)
           /\ Len(Mem) \in Nat \ {0}
           /\ \A a \in 1 .. Len(Mem) : Mem[a] \in SUBSET Record
           /\ Mem[Len(Mem)] = active
           /\ worker.pc \in {"flush", "wal"} => Len(Mem) >= 2 /\ Mem[1] = worker.tab
<1>. DEFINE o == IF worker.pc \in {"flush", "wal"} THEN 1 ELSE 0
<1>1. worker \in WorkerType /\ immutable \in Seq(SUBSET Record) /\ active \in SUBSET Record
  BY DEF TypeOK, WorkerType
<1>2. /\ Mem \in Seq(SUBSET Record)
      /\ Len(Mem) = o + Len(immutable) + 1
      /\ \A a \in 1 .. o + Len(immutable) + 1 :
            Mem[a] = IF a <= o THEN worker.tab
                     ELSE IF a <= o + Len(immutable) THEN immutable[a - o] ELSE active
  BY <1>1, MemShape DEF Mem
<1>3. o \in {0, 1} /\ Len(immutable) \in Nat /\ (worker.pc \in {"flush", "wal"} => o = 1)
  BY <1>1
<1>. HIDE DEF o
<1>4. Mem[Len(Mem)] = active
  BY <1>2, <1>3
<1>5. worker.pc \in {"flush", "wal"} => Len(Mem) >= 2 /\ Mem[1] = worker.tab
  BY <1>2, <1>3
<1> QED
  BY <1>2, <1>3, <1>4, <1>5

(* A step of the client on the active table leaves the older tables alone. *)
LEMMA MemApply ==
    ASSUME TypeOK, TypeOK', UNCHANGED <<worker, immutable>>
    PROVE  /\ Len(Mem') = Len(Mem)
           /\ \A a \in 1 .. Len(Mem) - 1 : Mem'[a] = Mem[a]
           /\ Mem'[Len(Mem)] = active'
<1>. DEFINE o == IF worker.pc \in {"flush", "wal"} THEN 1 ELSE 0
<1>1. /\ worker \in WorkerType /\ immutable \in Seq(SUBSET Record) /\ active \in SUBSET Record
      /\ active' \in SUBSET Record
  BY DEF TypeOK, WorkerType
<1>2. /\ Len(Mem) = o + Len(immutable) + 1
      /\ \A a \in 1 .. o + Len(immutable) + 1 :
            Mem[a] = IF a <= o THEN worker.tab
                     ELSE IF a <= o + Len(immutable) THEN immutable[a - o] ELSE active
  BY <1>1, MemShape DEF Mem
<1>3. /\ Len(Mem') = o + Len(immutable) + 1
      /\ \A a \in 1 .. o + Len(immutable) + 1 :
            Mem'[a] = IF a <= o THEN worker.tab
                      ELSE IF a <= o + Len(immutable) THEN immutable[a - o] ELSE active'
  BY <1>1, MemShape DEF Mem
<1>4. o \in {0, 1} /\ Len(immutable) \in Nat
  BY <1>1
<1>. HIDE DEF o
<1> QED
  BY <1>2, <1>3, <1>4

(* A rotation (rotate) adds an empty table at the young end.               *)
LEMMA MemRotate ==
    ASSUME TypeOK, Rotate
    PROVE  /\ Len(Mem') = Len(Mem) + 1
           /\ \A a \in 1 .. Len(Mem) : Mem'[a] = Mem[a]
           /\ Mem'[Len(Mem) + 1] = {}
<1>. DEFINE o == IF worker.pc \in {"flush", "wal"} THEN 1 ELSE 0
<1>1. /\ worker \in WorkerType /\ immutable \in Seq(SUBSET Record) /\ active \in SUBSET Record
      /\ worker' = worker /\ active' = {} /\ active' \in SUBSET Record
  BY DEF TypeOK, WorkerType, Rotate
<1>2. <<active>> \in Seq(SUBSET Record) /\ Len(<<active>>) = 1 /\ <<active>>[1] = active
  BY <1>1
<1>3. immutable' = immutable \o <<active>>
  BY DEF Rotate
<1>4. /\ immutable' \in Seq(SUBSET Record)
      /\ Len(immutable') = Len(immutable) + 1
      /\ \A a \in 1 .. Len(immutable) + 1 :
            immutable'[a] = IF a <= Len(immutable) THEN immutable[a] ELSE active
  <2>. DEFINE t == <<active>>
  <2>1. t \in Seq(SUBSET Record) /\ Len(t) = 1 /\ t[1] = active
    BY <1>2
  <2>2. immutable' = immutable \o t
    BY <1>3
  <2>. HIDE DEF t
  <2>3. /\ immutable' \in Seq(SUBSET Record)
        /\ Len(immutable') = Len(immutable) + 1
        /\ \A a \in 1 .. Len(immutable) + 1 :
              immutable'[a] = IF a <= Len(immutable) THEN immutable[a]
                              ELSE t[a - Len(immutable)]
    <3>1. immutable \in Seq(SUBSET Record)
      BY <1>1
    <3> QED
      BY ONLY <2>1, <2>2, <3>1, ConcatProperties, SMTT(60)
  <2>4. \A a \in 1 .. Len(immutable) + 1 : ~(a <= Len(immutable)) => a - Len(immutable) = 1
    BY <1>1
  <2> QED
    BY <2>1, <2>3, <2>4
<1>5. /\ Len(Mem) = o + Len(immutable) + 1
      /\ \A a \in 1 .. o + Len(immutable) + 1 :
            Mem[a] = IF a <= o THEN worker.tab
                     ELSE IF a <= o + Len(immutable) THEN immutable[a - o] ELSE active
  BY <1>1, MemShape DEF Mem
<1>6. /\ Len(Mem') = o + Len(immutable') + 1
      /\ \A a \in 1 .. o + Len(immutable') + 1 :
            Mem'[a] = IF a <= o THEN worker.tab
                      ELSE IF a <= o + Len(immutable') THEN immutable'[a - o] ELSE {}
  BY <1>1, <1>4, MemShape DEF Mem
<1>7. o \in {0, 1} /\ Len(immutable) \in Nat
  BY <1>1
<1>. HIDE DEF o
<1>8. Len(Mem') = Len(Mem) + 1 /\ Mem'[Len(Mem) + 1] = {}
  BY <1>4, <1>5, <1>6, <1>7
<1>9. ASSUME NEW a \in 1 .. Len(Mem) PROVE Mem'[a] = Mem[a]
  <2>1. CASE a <= o
    BY <1>4, <1>5, <1>6, <1>7, <2>1
  <2>2. CASE ~(a <= o)
    <3>1. a - o \in 1 .. Len(immutable) + 1 /\ (a - o <= Len(immutable) <=> a <= o + Len(immutable))
      BY <1>5, <1>7, <2>2
    <3>2. Mem[a] = IF a <= o + Len(immutable) THEN immutable[a - o] ELSE active
      BY <1>5, <2>2
    <3>3. a \in 1 .. o + Len(immutable') + 1 /\ a <= o + Len(immutable')
      BY <1>4, <1>5, <1>7
    <3>4. Mem'[a] = immutable'[a - o]
      BY <1>6, <2>2, <3>3
    <3>5. immutable'[a - o] = IF a - o <= Len(immutable) THEN immutable[a - o] ELSE active
      BY <1>4, <3>1
    <3> QED
      BY <3>1, <3>2, <3>4, <3>5
  <2> QED
    BY <2>1, <2>2
<1> QED
  BY <1>8, <1>9

(* The worker takes the oldest table: it changes hands, not its place.     *)
LEMMA MemTake ==
    ASSUME TypeOK, TakeImmutable
    PROVE  Mem' = Mem
<1>1. /\ worker \in WorkerType /\ immutable \in Seq(SUBSET Record) /\ active \in SUBSET Record
      /\ worker.pc = "recv" /\ immutable # <<>> /\ active' = active
      /\ worker' = [pc |-> "flush", tab |-> Head(immutable)]
      /\ immutable' = Tail(immutable)
  BY DEF TypeOK, WorkerType, TakeImmutable
<1>2. /\ immutable' \in Seq(SUBSET Record) /\ Len(immutable') = Len(immutable) - 1
      /\ \A a \in 1 .. Len(immutable) - 1 : immutable'[a] = immutable[a + 1]
      /\ Head(immutable) \in SUBSET Record /\ Head(immutable) = immutable[1]
      /\ Len(immutable) \in Nat \ {0}
  BY <1>1, HeadTailProperties
<1>3. worker' \in WorkerType /\ worker'.pc = "flush" /\ worker'.tab = immutable[1]
  BY <1>1, <1>2 DEF WorkerType
<1>4. /\ Mem \in Seq(SUBSET Record)
      /\ Len(Mem) = 0 + Len(immutable) + 1
      /\ \A a \in 1 .. 0 + Len(immutable) + 1 :
            Mem[a] = IF a <= 0 THEN worker.tab
                     ELSE IF a <= 0 + Len(immutable) THEN immutable[a - 0] ELSE active
  BY <1>1, MemShape DEF Mem
<1>5. /\ Mem' \in Seq(SUBSET Record)
      /\ Len(Mem') = 1 + Len(immutable') + 1
      /\ \A a \in 1 .. 1 + Len(immutable') + 1 :
            Mem'[a] = IF a <= 1 THEN immutable[1]
                      ELSE IF a <= 1 + Len(immutable') THEN immutable'[a - 1] ELSE active
  <2>1. 1 = IF worker'.pc \in {"flush", "wal"} THEN 1 ELSE 0
    BY <1>3
  <2>2. Mem' = MemOf(worker', immutable', active)
    BY <1>1 DEF Mem
  <2> QED
    <3>. DEFINE w == worker'
                im == immutable'
    <3>1. /\ w \in WorkerType /\ im \in Seq(SUBSET Record) /\ active \in SUBSET Record
          /\ w.pc = "flush" /\ w.tab = immutable[1] /\ Mem' = MemOf(w, im, active)
      BY <1>1, <1>2, <1>3, <2>2
    <3>. HIDE DEF w, im
    <3>2. /\ MemOf(w, im, active) \in Seq(SUBSET Record)
          /\ Len(MemOf(w, im, active)) = 1 + Len(im) + 1
          /\ \A a \in 1 .. 1 + Len(im) + 1 :
                MemOf(w, im, active)[a] = IF a <= 1 THEN w.tab
                                          ELSE IF a <= 1 + Len(im) THEN im[a - 1] ELSE active
      BY <3>1, MemShape
    <3> QED
      BY <3>1, <3>2 DEF w, im
<1>6. Len(Mem') = Len(Mem) /\ Len(Mem) = Len(immutable) + 1
  BY <1>2, <1>4, <1>5
<1>7. ASSUME NEW a \in 1 .. Len(Mem) PROVE Mem'[a] = Mem[a]
  <2>1. CASE a = 1
    BY <1>2, <1>4, <1>5, <1>6, <2>1
  <2>2. CASE a # 1 /\ a <= Len(immutable)
    <3>1. a - 1 \in 1 .. Len(immutable) - 1 /\ a - 1 + 1 = a /\ a - 0 = a
      BY <1>2, <1>6, <2>2
    <3>2. Mem'[a] = immutable'[a - 1]
      BY <1>2, <1>5, <1>6, <2>2
    <3>3. immutable'[a - 1] = immutable[a - 1 + 1]
      BY <1>2, <3>1
    <3> QED
      BY <1>2, <1>4, <1>6, <2>2, <3>1, <3>2, <3>3
  <2>3. CASE ~(a <= Len(immutable))
    BY <1>2, <1>4, <1>5, <1>6, <2>3
  <2> QED
    BY <2>1, <2>2, <2>3
<1>. HIDE DEF Mem
<1> QED
  BY <1>4, <1>5, <1>6, <1>7, SeqEqual

(* Writing a table to disk does not change the memtables.                  *)
LEMMA MemFlush ==
    ASSUME TypeOK, FlushToSSTable
    PROVE  Mem' = Mem
BY DEF TypeOK, FlushToSSTable, Mem, MemOf

(* Once the watermark has moved (MemtableFlushed) the oldest table is      *)
(* gone.                                                                   *)
LEMMA MemFlushed ==
    ASSUME TypeOK, MemtableFlushed
    PROVE  /\ Len(Mem') = Len(Mem) - 1
           /\ \A a \in 1 .. Len(Mem) - 1 : Mem'[a] = Mem[a + 1]
<1>1. /\ worker \in WorkerType /\ immutable \in Seq(SUBSET Record) /\ active \in SUBSET Record
      /\ worker.pc = "wal" /\ immutable' = immutable /\ active' = active
      /\ worker' \in WorkerType /\ worker'.pc = "compact"
  BY DEF TypeOK, WorkerType, MemtableFlushed
<1>2. /\ Len(Mem) = 1 + Len(immutable) + 1
      /\ \A a \in 1 .. 1 + Len(immutable) + 1 :
            Mem[a] = IF a <= 1 THEN worker.tab
                     ELSE IF a <= 1 + Len(immutable) THEN immutable[a - 1] ELSE active
  BY <1>1, MemShape DEF Mem
<1>3. /\ Len(Mem') = 0 + Len(immutable) + 1
      /\ \A a \in 1 .. 0 + Len(immutable) + 1 :
            Mem'[a] = IF a <= 0 THEN worker'.tab
                      ELSE IF a <= 0 + Len(immutable) THEN immutable[a - 0] ELSE active
  BY <1>1, MemShape DEF Mem
<1>4. Len(immutable) \in Nat
  BY <1>1
<1>5. ASSUME NEW a \in 1 .. Len(Mem) - 1 PROVE Mem'[a] = Mem[a + 1]
  <2>1. a + 1 - 1 = a /\ a - 0 = a /\ a \in 1 .. Len(immutable) + 1
           /\ a + 1 \in 1 .. 1 + Len(immutable) + 1
    BY <1>2, <1>4
  <2> QED
    BY <1>2, <1>3, <1>4, <2>1
<1> QED
  BY <1>2, <1>3, <1>4, <1>5

(* Compaction does not change the memtables.                               *)
LEMMA MemCompact ==
    ASSUME TypeOK, Compact
    PROVE  Mem' = Mem
BY DEF TypeOK, Compact, Mem, MemOf

(* A process that stops leaves one empty table.                            *)
LEMMA MemStop ==
    ASSUME Stop
    PROVE  Len(Mem') = 1 /\ Mem'[1] = {}
<1>1. worker' \in WorkerType /\ immutable' = <<>> /\ active' = {} /\ worker'.pc = "recv"
  BY DEF Stop, WorkerType
<1>2. immutable' \in Seq(SUBSET Record) /\ active' \in SUBSET Record /\ Len(immutable') = 0
  BY <1>1
<1>3. 0 = IF worker'.pc \in {"flush", "wal"} THEN 1 ELSE 0
  BY <1>1
<1>4. /\ Len(Mem') = 0 + 0 + 1
      /\ \A a \in 1 .. 0 + 0 + 1 :
            Mem'[a] = IF a <= 0 THEN worker'.tab
                      ELSE IF a <= 0 + 0 THEN immutable'[a - 0] ELSE {}
  <2>1. Mem' = MemOf(worker', immutable', active')
    BY DEF Mem
  <2> QED
    <3>. DEFINE w == worker'
                im == immutable'
                ac == active'
    <3>1. /\ w \in WorkerType /\ im \in Seq(SUBSET Record) /\ ac \in SUBSET Record
          /\ w.pc = "recv"
      BY <1>1, <1>2
    <3>2. Len(im) = 0 /\ ac = {} /\ Mem' = MemOf(w, im, ac)
      BY <1>1, <1>2, <2>1
    <3>. HIDE DEF w, im, ac
    <3>3. /\ Len(MemOf(w, im, ac)) = 0 + Len(im) + 1
          /\ \A a \in 1 .. 0 + Len(im) + 1 :
                MemOf(w, im, ac)[a] = IF a <= 0 THEN w.tab
                                      ELSE IF a <= 0 + Len(im) THEN im[a - 0] ELSE ac
      BY <3>1, MemShape
    <3> QED
      BY <3>3, <3>2 DEF w, im, ac
<1> QED
  BY <1>4

-----------------------------------------------------------------------------
(* Types.                                                                  *)

ClientType(n) == [pc : {"ready", "apply", "rotate", "cache", "sst", "cover", "down"},
                  todo : SUBSET (1 .. n), call : SUBSET (1 .. n),
                  key : Keys, val : Nat, seq : Nat]

(* The client between two calls, and the one of a dead process, are well   *)
(* typed and have nothing to apply.                                        *)
LEMMA IdleFacts ==
    /\ \A n : Idle \in ClientType(n) /\ [Idle EXCEPT !.pc = "down"] \in ClientType(n)
    /\ Idle.pc = "ready" /\ Idle.todo = {} /\ Idle.key \in Keys
    /\ [Idle EXCEPT !.pc = "down"].pc = "down" /\ [Idle EXCEPT !.pc = "down"].todo = {}
    /\ NoAnswer \in [key : Keys, val : Nat \cup {-1}]
<1>. DEFINE k == CHOOSE k \in Keys : TRUE
<1>1. k \in Keys
  BY KeysAssumption
<1>2. Idle = [pc |-> "ready", todo |-> {}, call |-> {}, key |-> k, val |-> 0, seq |-> 0]
  BY DEF Idle
<1>. HIDE DEF k
<1>3. NoAnswer = [key |-> k, val |-> -1]
  BY <1>2 DEF NoAnswer
<1>4. NoAnswer \in [key : Keys, val : Nat \cup {-1}]
  BY <1>1, <1>3
<1>5. ASSUME NEW n
      PROVE  Idle \in ClientType(n) /\ [Idle EXCEPT !.pc = "down"] \in ClientType(n)
  BY <1>1, <1>2 DEF ClientType
<1>6. Idle.pc = "ready" /\ Idle.todo = {} /\ Idle.key \in Keys
  BY <1>1, <1>2
<1>7. [Idle EXCEPT !.pc = "down"].pc = "down" /\ [Idle EXCEPT !.pc = "down"].todo = {}
  BY <1>1, <1>2
<1> QED
  BY <1>4, <1>5, <1>6, <1>7

(* Put, Delete, RangeDelete and the batches append to the log records with *)
(* the next positions and the next sequence numbers.                       *)
AppendStep(recs) ==
    /\ client.pc = "ready"
    /\ recs \in Seq(Record)
    /\ \A i \in 1 .. Len(recs) : /\ recs[i].id = Len(log) + i
                                 /\ recs[i].seq = seqGen + i
                                 /\ recs[i].first = seqGen + 1
    /\ WalAppend(recs)

(* Put, Delete and a batch append records with the next sequence numbers   *)
(* to the log.                                                             *)
LEMMA WriteAppends ==
    ASSUME TypeOK, NEW ks \in Batches, NEW op \in {"Put", "Del"}, Write(ks, op)
    PROVE  \E recs : AppendStep(recs)
<1>1. PICK n \in 1 .. MaxBatch : ks \in [1 .. n -> Keys]
  BY DEF Batches
<1>2. n \in Nat /\ Len(ks) = n
  BY <1>1, BoundsAssumption
<1>. DEFINE recs == [i \in 1 .. n |-> NewRecord(i, seqGen + 1, ks[i], op, {})]
<1>3. client.pc = "ready" /\ WalAppend(recs)
  BY <1>2 DEF Write
<1>4. seqGen \in Nat /\ Len(log) \in Nat
  BY DEF TypeOK
<1>5. \A i \in 1 .. n : NewRecord(i, seqGen + 1, ks[i], op, {}) \in Record
  BY <1>1, <1>2, <1>4 DEF NewRecord, Record
<1>6. recs \in Seq(Record) /\ Len(recs) = n
  BY <1>2, <1>5
<1>7. \A i \in 1 .. n : /\ recs[i].id = Len(log) + i
                        /\ recs[i].seq = seqGen + i
                        /\ recs[i].first = seqGen + 1
  BY DEF NewRecord
<1>. HIDE DEF recs
<1> QED
  BY <1>3, <1>6, <1>7 DEF AppendStep

(* RangeDelete appends one record with the next sequence number.           *)
LEMMA RangeDeleteAppends ==
    ASSUME TypeOK, NEW rng \in Ranges, RangeDelete(rng)
    PROVE  \E recs : AppendStep(recs)
<1>. DEFINE r == NewRecord(1, seqGen + 1, rng.start, "RangeDel", rng.keys)
            recs == <<r>>
<1>1. seqGen \in Nat /\ Len(log) \in Nat
  BY DEF TypeOK
<1>2. rng.start \in Keys /\ rng.keys \in SUBSET Keys
  BY KeysAssumption
<1>3. r \in Record /\ r.id = Len(log) + 1 /\ r.seq = seqGen + 1 /\ r.first = seqGen + 1
  BY <1>1, <1>2 DEF NewRecord, Record
<1>4. client.pc = "ready" /\ WalAppend(recs)
  BY DEF RangeDelete
<1>. HIDE DEF r
<1>5. recs \in Seq(Record) /\ Len(recs) = 1 /\ recs[1] = r
  BY <1>3
<1>6. \A i \in 1 .. 1 : i = 1
  OBVIOUS
<1>. HIDE DEF recs
<1> QED
  BY <1>3, <1>4, <1>5, <1>6 DEF AppendStep

(* What an append does to the log, the generator and the client.           *)
LEMMA Appended ==
    ASSUME TypeOK, NEW recs, AppendStep(recs)
    PROVE  /\ log' \in Seq(Record) /\ Len(log') \in Nat /\ Len(log) <= Len(log')
           /\ \A i \in 1 .. Len(log) : i \in 1 .. Len(log') /\ log'[i] = log[i]
           /\ \A i \in Len(log) + 1 .. Len(log') :
                 /\ i \in 1 .. Len(log')
                 /\ log'[i].id = i
                 /\ log'[i].seq = seqGen + (i - Len(log))
                 /\ log'[i].first = seqGen + 1
           /\ seqGen' = seqGen + (Len(log') - Len(log))
           /\ client'.pc = "apply" /\ client'.todo = Len(log) + 1 .. Len(log')
           /\ client' \in ClientType(Len(log'))
<1>1. /\ log \in Seq(Record) /\ recs \in Seq(Record) /\ seqGen \in Nat
      /\ Len(log) \in Nat /\ Len(recs) \in Nat
      /\ client \in ClientType(Len(log))
  BY DEF TypeOK, AppendStep, ClientType
<1>2. log' = log \o recs
  BY DEF AppendStep, WalAppend
<1>3. /\ log' \in Seq(Record) /\ Len(log') = Len(log) + Len(recs)
      /\ \A i \in 1 .. Len(log) + Len(recs) :
            log'[i] = IF i <= Len(log) THEN log[i] ELSE recs[i - Len(log)]
  BY <1>1, <1>2, ConcatProperties
<1>4. \A i \in 1 .. Len(recs) : /\ recs[i].id = Len(log) + i
                                /\ recs[i].seq = seqGen + i
                                /\ recs[i].first = seqGen + 1
  BY DEF AppendStep
<1>5. ASSUME NEW i \in Len(log) + 1 .. Len(log')
      PROVE  /\ i \in 1 .. Len(log')
             /\ log'[i].id = i
             /\ log'[i].seq = seqGen + (i - Len(log))
             /\ log'[i].first = seqGen + 1
  <2>1. i \in 1 .. Len(log') /\ ~(i <= Len(log)) /\ i - Len(log) \in 1 .. Len(recs)
        /\ Len(log) + (i - Len(log)) = i
    BY <1>1, <1>3
  <2>2. log'[i] = recs[i - Len(log)]
    BY <1>3, <2>1
  <2> QED
    BY <1>4, <2>1, <2>2
<1>6. \A i \in 1 .. Len(log) : i \in 1 .. Len(log') /\ log'[i] = log[i]
  BY <1>1, <1>3
<1>7. /\ client' = [client EXCEPT !.pc = "apply", !.todo = Len(log) + 1 .. Len(log'),
                                  !.call = Len(log) + 1 .. Len(log')]
      /\ seqGen' = seqGen + Len(recs)
  BY <1>3 DEF AppendStep, WalAppend
<1>8. Len(log) + 1 .. Len(log') \in SUBSET (1 .. Len(log'))
  BY <1>1, <1>3
<1>9. client'.pc = "apply" /\ client'.todo = Len(log) + 1 .. Len(log')
      /\ client' \in ClientType(Len(log'))
  <2>. DEFINE new == Len(log) + 1 .. Len(log')
              n == Len(log')
  <2>1. client' = [client EXCEPT !.pc = "apply", !.todo = new, !.call = new]
    BY <1>7
  <2>2. new \in SUBSET (1 .. n)
    BY <1>8
  <2>. HIDE DEF new, n
  <2>3. client'.pc = "apply" /\ client'.todo = new /\ client' \in ClientType(n)
    BY <1>1, <2>1, <2>2 DEF ClientType
  <2> QED
    BY <2>3 DEF new, n
<1> QED
  BY <1>1, <1>3, <1>5, <1>6, <1>7, <1>9

(* The value a read finds in the memtables, or in the cache, is a position *)
(* of the log, or 0.                                                       *)
LEMMA MemtableValType ==
    ASSUME TypeOK, NEW k \in Keys, Holding(k) # {}
    PROVE  MemtableVal(k) \in Nat
<1>. DEFINE H == Holding(k)
            i == CHOOSE i \in H : \A j \in H : j <= i
            r == CHOOSE r \in Points(Tables[i]) : r.key = k
<1>1. /\ Tables \in Seq(SUBSET Record) /\ Len(Tables) \in Nat
      /\ \A j \in 1 .. Len(Tables) : Tables[j] \in SUBSET Record
  <2>1. immutable \in Seq(SUBSET Record) /\ <<active>> \in Seq(SUBSET Record)
    BY DEF TypeOK
  <2>2. Tables \in Seq(SUBSET Record)
    BY <2>1, ConcatProperties DEF Tables
  <2> QED
    BY <2>2
<1>2. H \in SUBSET Nat /\ H # {} /\ \A j \in H : j <= Len(Tables)
  BY <1>1 DEF Holding
<1>3. \E m \in H : \A j \in H : j <= m
  <2> HIDE DEF H
  <2> QED
    BY <1>1, <1>2, GreatestElement
<1>4. i \in H
  BY <1>3
<1>5. MemtableVal(k) = IF r.op = "Del" \/ CoveredByRangeDel(Tables[i], k, r.seq) THEN 0 ELSE r.id
  BY DEF MemtableVal
<1>6. i \in 1 .. Len(Tables) /\ \E s \in Points(Tables[i]) : s.key = k
  <2> HIDE DEF i
  <2> QED
    BY <1>4 DEF Holding
<1>. HIDE DEF i
<1>7. r \in Points(Tables[i])
  BY <1>6
<1>. HIDE DEF r
<1>8. r \in Record
  BY <1>1, <1>6, <1>7 DEF Points
<1> QED
  BY <1>5, <1>8 DEF Record

(* A cache hit is a value.                                                 *)
LEMMA CacheValType ==
    ASSUME NEW c \in Seq(CacheEntry), NEW k, CacheHas(c, k)
    PROVE  CacheVal(c, k) \in Nat
<1>. DEFINE i == CHOOSE i \in 1 .. Len(c) : c[i].key = k
<1>1. i \in 1 .. Len(c)
  BY DEF CacheHas
<1>2. CacheVal(c, k) = c[i].val
  BY DEF CacheVal
<1>. HIDE DEF i
<1>3. c[i] \in CacheEntry
  BY <1>1, ElementOfSeq
<1> QED
  BY <1>2, <1>3 DEF CacheEntry

(* The initial state is well typed.                                        *)
LEMMA TypeInit == Init => TypeOK
<1> SUFFICES ASSUME Init PROVE TypeOK
  OBVIOUS
<1>1. client \in ClientType(Len(log)) /\ ret \in [key : Keys, val : Nat \cup {-1}]
  BY IdleFacts DEF Init
<1>2. crashes \in 0 .. MaxCrashes
  BY BoundsAssumption DEF Init
<1>3. immutable = <<>> /\ cache = <<>> /\ log = <<>>
  BY DEF Init
<1>4. immutable \in Seq(SUBSET Record) /\ cache \in Seq([key : Keys, val : Nat])
         /\ log \in Seq(Record)
  BY <1>3
<1>5. worker \in [pc : {"recv", "flush", "wal", "compact"}, tab : SUBSET Record]
  BY DEF Init
<1>6. /\ seqGen \in Nat /\ active \in SUBSET Record /\ walFlushed \in Nat /\ sst \in SUBSET Record
      /\ maxSeqId \in Nat /\ acked \subseteq 1 .. Len(log) /\ lost \subseteq 1 .. Len(log)
      /\ regressed \in BOOLEAN /\ undone \subseteq 1 .. Len(log)
  BY DEF Init
<1> QED
  BY <1>1, <1>2, <1>4, <1>5, <1>6 DEF TypeOK, ClientType

(* Appending to the log keeps the types.                                   *)
LEMMA TypeAppend ==
    ASSUME TypeOK, NEW recs, AppendStep(recs)
    PROVE  TypeOK'
<1>1. /\ log' \in Seq(Record) /\ Len(log') \in Nat /\ Len(log) <= Len(log') /\ Len(log) \in Nat
      /\ client' \in ClientType(Len(log'))
      /\ seqGen' = seqGen + (Len(log') - Len(log))
  BY Appended, SMTT(40) DEF TypeOK
<1>2. seqGen' \in Nat
  BY <1>1 DEF TypeOK
<1>3. /\ acked' \subseteq 1 .. Len(log') /\ lost' \subseteq 1 .. Len(log')
      /\ undone' \subseteq 1 .. Len(log')
  BY <1>1, SMTT(40) DEF TypeOK, AppendStep, WalAppend
<1>4. ret' \in [key : Keys, val : Nat \cup {-1}]
  BY IdleFacts DEF AppendStep, WalAppend
<1> QED
  BY <1>1, <1>2, <1>3, <1>4 DEF TypeOK, AppendStep, WalAppend, ClientType

(* Applying a record to the active table keeps the types.                  *)
LEMMA TypeApply ==
    ASSUME TypeOK, Apply
    PROVE  TypeOK'
<1>1. PICK i \in client.todo :
         active' = LET r == log[i]
                   IN  IF IsRange(r) THEN active \cup {r}
                       ELSE {s \in active : IsRange(s) \/ s.key # r.key} \cup {r}
  BY DEF Apply
<1>2. i \in 1 .. Len(log) /\ log[i] \in Record
  BY DEF TypeOK
<1>3. active' \in SUBSET Record
  BY <1>1, <1>2 DEF TypeOK
<1>4. \E p \in {"rotate", "cache"} : client' = [client EXCEPT !.pc = p]
  BY DEF Apply
<1>5. client' \in ClientType(Len(log))
  BY <1>4 DEF TypeOK, ClientType
<1> QED
  BY <1>3, <1>5 DEF TypeOK, Apply, persistent, history, ClientType

(* A rotation keeps the types.                                             *)
LEMMA TypeRotate ==
    ASSUME TypeOK, Rotate
    PROVE  TypeOK'
<1>1. immutable \in Seq(SUBSET Record) /\ <<active>> \in Seq(SUBSET Record)
  BY DEF TypeOK
<1>2. immutable' \in Seq(SUBSET Record)
  BY <1>1, ConcatProperties DEF Rotate
<1>3. client' \in ClientType(Len(log))
  BY DEF TypeOK, Rotate, ClientType
<1>4. active' \in SUBSET Record
  BY DEF Rotate
<1> QED
  BY <1>2, <1>3, <1>4 DEF TypeOK, Rotate, persistent, history, ClientType

(* Updating the cache, which may end the call, keeps the types.            *)
LEMMA TypeUpdateCache ==
    ASSUME TypeOK, UpdateCache
    PROVE  TypeOK'
<1>1. PICK i \in client.todo :
         /\ cache' = CachePut(cache, log[i].key, IF log[i].op = "Put" THEN i ELSE 0)
         /\ IF client.todo = {i}
            THEN client' = Idle /\ acked' = acked \cup client.call
            ELSE /\ client' = [client EXCEPT !.pc = "apply", !.todo = @ \ {i}]
                 /\ acked' = acked
  BY DEF UpdateCache
<1>2. i \in 1 .. Len(log) /\ log[i] \in Record /\ i \in Nat
  BY DEF TypeOK
<1>3. cache' \in Seq(CacheEntry)
  <2>1. log[i].key \in Keys /\ (IF log[i].op = "Put" THEN i ELSE 0) \in Nat
    BY <1>2 DEF Record
  <2>2. cache \in Seq(CacheEntry)
    BY DEF TypeOK, CacheEntry
  <2> QED
    BY <1>1, <2>1, <2>2, CachePutType
<1>4. client' \in ClientType(Len(log)) /\ acked' \subseteq 1 .. Len(log)
  <2>1. CASE client.todo = {i}
    BY <1>1, <2>1, IdleFacts DEF TypeOK
  <2>2. CASE client.todo # {i}
    <3>1. client \in ClientType(Len(log)) /\ acked \subseteq 1 .. Len(log)
      BY DEF TypeOK, ClientType
    <3>2. client' = [client EXCEPT !.pc = "apply", !.todo = client.todo \ {i}] /\ acked' = acked
      BY <1>1, <2>2
    <3> QED
      BY <3>1, <3>2 DEF ClientType
  <2> QED
    BY <2>1, <2>2
<1> QED
  BY <1>3, <1>4 DEF TypeOK, UpdateCache, persistent, CacheEntry, ClientType

(* A Get that a memtable answers keeps the types.                          *)
LEMMA TypeGetFromMemtable ==
    ASSUME TypeOK, NEW k \in Keys, GetFromMemtable(k)
    PROVE  TypeOK'
<1>1. MemtableVal(k) \in Nat
  BY MemtableValType DEF GetFromMemtable
<1>2. cache' \in Seq(CacheEntry)
  <2>1. cache \in Seq(CacheEntry)
    BY DEF TypeOK, CacheEntry
  <2> QED
    BY <1>1, <2>1, CachePutType DEF GetFromMemtable
<1>3. ret' \in [key : Keys, val : Nat \cup {-1}]
  BY <1>1 DEF GetFromMemtable, Answer
<1> QED
  BY <1>2, <1>3 DEF TypeOK, GetFromMemtable, persistent, CacheEntry

(* A Get that the cache answers keeps the types.                           *)
LEMMA TypeGetFromCache ==
    ASSUME TypeOK, NEW k \in Keys, GetFromCache(k)
    PROVE  TypeOK'
<1>1. cache \in Seq(CacheEntry) /\ CacheHas(cache, k)
  BY DEF TypeOK, CacheEntry, GetFromCache
<1>2. CacheVal(cache, k) \in Nat
  BY <1>1, CacheValType
<1>3. cache' \in Seq(CacheEntry)
  BY <1>1, <1>2, CachePutType DEF GetFromCache
<1>4. ret' \in [key : Keys, val : Nat \cup {-1}]
  BY <1>2 DEF GetFromCache, Answer
<1> QED
  BY <1>3, <1>4 DEF TypeOK, GetFromCache, persistent, CacheEntry

(* A Get that must go to the SSTables keeps the types.                     *)
LEMMA TypeGetMiss ==
    ASSUME TypeOK, NEW k \in Keys, GetMiss(k)
    PROVE  TypeOK'
<1>1. client' \in ClientType(Len(log))
  <2>1. client \in ClientType(Len(log))
    BY DEF TypeOK, ClientType
  <2> QED
    BY <2>1 DEF GetMiss, ClientType
<1> QED
  BY <1>1 DEF TypeOK, GetMiss, persistent, history, ClientType

(* Reading the SSTables keeps the types: the newest of a set of stored     *)
(* records is a record.                                                    *)
LEMMA TypeGetFromSST ==
    ASSUME TypeOK, InLog(sst), GetFromSST
    PROVE  TypeOK'
<1>. DEFINE found == {r \in Points(sst) : r.key = client.key}
            best == Newest(found)
<1>1. client \in ClientType(Len(log)) /\ client.key \in Keys
  BY DEF TypeOK, ClientType
<1>2. \/ client' = Idle /\ Answer(client.key, 0)
      \/ /\ found # {}
         /\ client' = [client EXCEPT !.pc = "cover", !.val = best.id, !.seq = best.seq]
         /\ ret' = ret
  BY DEF GetFromSST
<1>3. found # {} => best.id \in Nat /\ best.seq \in Nat
  <2> SUFFICES ASSUME found # {} PROVE best.id \in Nat /\ best.seq \in Nat
    OBVIOUS
  <2>1. \A r \in found : \E i \in 1 .. Len(log) : r = log[i]
    BY DEF InLog, Points
  <2>2. best \in found
    <3> HIDE DEF found
    <3>1. log \in Seq(Record)
      BY DEF TypeOK
    <3> QED
      BY <2>1, <3>1, NewestFacts
  <2>3. best \in Record
    <3> HIDE DEF best
    <3> QED
      BY <2>2 DEF TypeOK, Points
  <2> QED
    BY <2>3 DEF Record
<1>. HIDE DEF best, found
<1>4. client' \in ClientType(Len(log)) /\ ret' \in [key : Keys, val : Nat \cup {-1}]
  <2>1. CASE client' = Idle /\ Answer(client.key, 0)
    BY <1>1, <2>1, IdleFacts DEF Answer
  <2>2. CASE /\ found # {}
             /\ client' = [client EXCEPT !.pc = "cover", !.val = best.id, !.seq = best.seq]
             /\ ret' = ret
    <3>1. ret \in [key : Keys, val : Nat \cup {-1}]
      BY DEF TypeOK
    <3> QED
      BY <1>1, <1>3, <2>2, <3>1 DEF ClientType
  <2> QED
    BY <1>2, <2>1, <2>2
<1> QED
  BY <1>4 DEF TypeOK, GetFromSST, persistent, ClientType

(* The check of the range tombstones, which ends a Get, keeps the types.   *)
LEMMA TypeGetCheckRangeDel ==
    ASSUME TypeOK, GetCheckRangeDel
    PROVE  TypeOK'
<1>1. client.key \in Keys /\ client.val \in Nat /\ cache \in Seq(CacheEntry)
  BY DEF TypeOK, CacheEntry
<1>2. client' = Idle
  BY DEF GetCheckRangeDel
<1>3. \/ Answer(client.key, 0) /\ cache' = cache
      \/ Answer(client.key, client.val) /\ cache' = CachePut(cache, client.key, client.val)
  BY DEF GetCheckRangeDel
<1>4. cache' \in Seq(CacheEntry) /\ ret' \in [key : Keys, val : Nat \cup {-1}]
  <2>1. CachePut(cache, client.key, client.val) \in Seq(CacheEntry)
    BY <1>1, CachePutType
  <2> QED
    BY <1>1, <1>3, <2>1 DEF Answer
<1>5. client' \in ClientType(Len(log))
  BY <1>2, IdleFacts
<1> QED
  BY <1>4, <1>5 DEF TypeOK, GetCheckRangeDel, persistent, CacheEntry, ClientType

(* Taking the oldest table keeps the types.                                *)
LEMMA TypeTakeImmutable ==
    ASSUME TypeOK, TakeImmutable
    PROVE  TypeOK'
<1>1. immutable \in Seq(SUBSET Record) /\ immutable # <<>>
  BY DEF TypeOK, TakeImmutable
<1>2. Head(immutable) \in SUBSET Record /\ Tail(immutable) \in Seq(SUBSET Record)
  BY <1>1, HeadTailProperties
<1>3. worker' \in [pc : {"recv", "flush", "wal", "compact"}, tab : SUBSET Record]
  BY <1>2 DEF TakeImmutable
<1> QED
  BY <1>2, <1>3 DEF TypeOK, TakeImmutable, persistent, history

(* Writing a table keeps the types.                                        *)
LEMMA TypeFlushToSSTable ==
    ASSUME TypeOK, FlushToSSTable
    PROVE  TypeOK'
<1>1. worker' \in [pc : {"recv", "flush", "wal", "compact"}, tab : SUBSET Record]
      /\ sst' \in SUBSET Record
  BY DEF TypeOK, FlushToSSTable
<1> QED
  BY <1>1 DEF TypeOK, FlushToSSTable, history

(* Moving the watermark keeps the types: it becomes the largest sequence   *)
(* number of a table of stored records.                                    *)
LEMMA TypeMemtableFlushed ==
    ASSUME TypeOK, InLog(worker.tab), MemtableFlushed
    PROVE  TypeOK'
<1>1. worker' \in [pc : {"recv", "flush", "wal", "compact"}, tab : SUBSET Record]
  BY DEF TypeOK, MemtableFlushed
<1>2. MaxSeq(worker.tab) \in Nat
  <2>1. \A r \in worker.tab : \E i \in 1 .. Len(log) : r = log[i]
    BY DEF InLog
  <2>2. log \in Seq(Record)
    BY DEF TypeOK
  <2> QED
    BY <2>1, <2>2, MaxSeqFacts
<1> QED
  BY <1>1, <1>2 DEF TypeOK, MemtableFlushed, history

(* Compaction keeps the types.                                             *)
LEMMA TypeCompact ==
    ASSUME TypeOK, InLog(sst), Compact
    PROVE  TypeOK' /\ sst' \subseteq sst
<1>1. worker' \in [pc : {"recv", "flush", "wal", "compact"}, tab : SUBSET Record]
  BY DEF Compact
<1>2. PICK D \in SUBSET {r \in sst : \E s \in sst : Hides(s, r)} :
          \E E \in SUBSET Droppable(sst \ D) :
              /\ sst' = IF sst \ D = E THEN sst ELSE (sst \ D) \ E
              /\ undone' = undone \cup {t.id : t \in {u \in E : Needed(u, (sst \ D) \ E)}}
  BY DEF Compact
<1>3. PICK E \in SUBSET Droppable(sst \ D) :
              /\ sst' = IF sst \ D = E THEN sst ELSE (sst \ D) \ E
              /\ undone' = undone \cup {t.id : t \in {u \in E : Needed(u, (sst \ D) \ E)}}
  BY <1>2
<1>4. E \subseteq sst
  BY DEF Droppable
<1>5. sst' \subseteq sst
  BY <1>3
<1>6. undone' \subseteq 1 .. Len(log)
  <2>1. \A t \in E : t.id \in 1 .. Len(log)
    BY <1>4 DEF InLog
  <2>2. undone \subseteq 1 .. Len(log) /\ log' = log
    BY DEF Compact, TypeOK
  <2> QED
    BY <1>3, <2>1, <2>2
<1>7. UNCHANGED <<seqGen, active, immutable, cache, client, log, walFlushed, maxSeqId, acked, ret,
                  lost, crashes, regressed>>
  BY DEF Compact
<1>. HIDE DEF Compact
<1>8. sst' \in SUBSET Record
  BY <1>5 DEF TypeOK
<1> QED
  BY <1>1, <1>5, <1>6, <1>7, <1>8 DEF TypeOK

(* A crash or a close keeps the types.                                     *)
LEMMA TypeStop ==
    ASSUME TypeOK, Stop, crashes' \in 0 .. MaxCrashes
    PROVE  TypeOK'
<1>1. client' \in ClientType(Len(log))
  BY IdleFacts DEF Stop
<1>2. worker' \in [pc : {"recv", "flush", "wal", "compact"}, tab : SUBSET Record]
  BY DEF Stop
<1>3. immutable' \in Seq(SUBSET Record) /\ cache' \in Seq([key : Keys, val : Nat])
  BY DEF Stop
<1>4. active' \in SUBSET Record /\ seqGen' \in Nat
  BY DEF Stop
<1> QED
  BY <1>1, <1>2, <1>3, <1>4 DEF TypeOK, Stop, persistent, ClientType

(* What a restart computes from the disk.                                  *)
LEMMA RestartSeqs ==
    ASSUME TypeOK, InLog(sst)
    PROVE  /\ LoadedMaxSeqId \in Nat
           /\ MaxSeq(sst) \in Nat /\ \A r \in sst : r.seq <= MaxSeq(sst)
           /\ MaxSeq({log[i] : i \in Recoverable}) \in Nat
           /\ \A i \in Recoverable : log[i].seq <= MaxSeq({log[j] : j \in Recoverable})
<1>1. log \in Seq(Record) /\ maxSeqId \in Nat
  BY DEF TypeOK
<1>2. \A r \in sst : \E i \in 1 .. Len(log) : r = log[i]
  BY DEF InLog
<1>3. MaxSeq(sst) \in Nat /\ \A r \in sst : r.seq <= MaxSeq(sst)
  BY <1>1, <1>2, MaxSeqFacts
<1>4. MaxSeq(Points(sst)) \in Nat
  <2>1. \A r \in Points(sst) : \E i \in 1 .. Len(log) : r = log[i]
    BY <1>2 DEF Points
  <2> QED
    BY <1>1, <2>1, MaxSeqFacts
<1>5. LoadedMaxSeqId \in Nat
  BY <1>1, <1>4 DEF LoadedMaxSeqId
<1>. DEFINE R == {log[i] : i \in Recoverable}
<1>6. \A r \in R : \E i \in 1 .. Len(log) : r = log[i]
  BY DEF Recoverable
<1>7. MaxSeq(R) \in Nat /\ \A r \in R : r.seq <= MaxSeq(R)
  <2> HIDE DEF R
  <2> QED
    BY <1>1, <1>6, MaxSeqFacts
<1> QED
  BY <1>3, <1>5, <1>7

(* A restart keeps the types.                                              *)
LEMMA TypeRestart ==
    ASSUME TypeOK, InLog(sst), Restart
    PROVE  TypeOK'
<1>1. maxSeqId' \in Nat /\ seqGen' \in Nat
  BY RestartSeqs DEF Restart
<1>2. lost' \subseteq 1 .. Len(log) /\ ret' \in [key : Keys, val : Nat \cup {-1}]
  BY IdleFacts DEF Restart, TypeOK
<1>3. client' \in ClientType(Len(log))
  <2>1. Idle \in ClientType(Len(log)) /\ Recoverable \in SUBSET (1 .. Len(log))
    BY IdleFacts DEF Recoverable
  <2>2. [Idle EXCEPT !.pc = "apply", !.todo = Recoverable] \in ClientType(Len(log))
    BY <2>1 DEF ClientType
  <2> QED
    BY <2>1, <2>2 DEF Restart
<1>4. regressed' \in BOOLEAN
  BY DEF Restart
<1> QED
  BY <1>1, <1>2, <1>3, <1>4 DEF TypeOK, Restart, ClientType

-----------------------------------------------------------------------------
(* The part of the invariant that does not depend on sequence numbers.     *)

(* Steps that leave the memtables, the log and the SSTables alone.         *)
LEMMA BaseFrame ==
    ASSUME BaseInv, TypeOK', Quiet',
           UNCHANGED <<log, lost, walFlushed, sst, worker, immutable, active>>,
           Pending' \subseteq Pending,
           client'.pc = "rotate" <=> client.pc = "rotate"
    PROVE  BaseInv'
<1>1. Mem' = Mem
  BY DEF Mem
<1>2. Stored'
  BY <1>1 DEF BaseInv, Stored, InLog
<1>3. Filled'
  BY <1>1 DEF BaseInv, Filled
<1> QED
  BY <1>2, <1>3 DEF BaseInv

(* The base invariant holds initially.                                     *)
LEMMA BaseInit == Init => BaseInv
<1> SUFFICES ASSUME Init PROVE BaseInv
  OBVIOUS
<1>1. TypeOK
  BY TypeInit
<1>2. immutable = <<>> /\ active = {} /\ Len(immutable) = 0 /\ worker.pc = "recv"
  BY DEF Init
<1>3. Len(Mem) = 1 /\ Mem[1] = {}
  <2>1. Len(Mem) = 0 + Len(immutable) + 1 /\ Mem[Len(Mem)] = active
    <3>1. /\ worker \in WorkerType /\ worker.pc = "recv"
          /\ immutable \in Seq(SUBSET Record) /\ active \in SUBSET Record
      BY <1>1, <1>2 DEF TypeOK, WorkerType
    <3>2. Len(Mem) = 0 + Len(immutable) + 1
      BY <3>1, MemShape DEF Mem
    <3> QED
      BY <1>1, <3>2, MemFacts
  <2> QED
    BY <1>2, <2>1
<1>4. client.pc = "ready" /\ client.todo = {} /\ Pending = {}
  BY IdleFacts DEF Init, Pending
<1>5. Stored
  BY <1>3, <1>4 DEF Init, Stored, InLog
<1>6. Quiet
  BY <1>4 DEF Quiet, Up
<1>7. Filled
  <2>1. Points(active) = {} /\ Cardinality(Points(active)) = 0
    BY <1>2, FS_EmptySet DEF Points
  <2>2. ~(0 >= MaxEntries)
    BY BoundsAssumption
  <2> QED
    BY <1>2, <1>3, <1>4, <2>1, <2>2 DEF Filled
<1> QED
  BY <1>1, <1>5, <1>6, <1>7 DEF BaseInv

(* Appending keeps the base invariant: what was stored is still in the     *)
(* log, at its place.                                                      *)
LEMMA BaseAppend ==
    ASSUME BaseInv, NEW recs, AppendStep(recs)
    PROVE  BaseInv'
<1>1. TypeOK
  BY DEF BaseInv
<1>2. TypeOK'
  BY <1>1, TypeAppend
<1>3. /\ \A i \in 1 .. Len(log) : i \in 1 .. Len(log') /\ log'[i] = log[i]
      /\ \A i \in Len(log) + 1 .. Len(log') : log'[i].id = i
      /\ Len(log') \in Nat /\ Len(log) \in Nat
      /\ client'.pc = "apply" /\ client'.todo = Len(log) + 1 .. Len(log')
  BY <1>1, Appended, SMTT(40) DEF TypeOK
<1>4. /\ UNCHANGED <<worker, immutable, active, lost, walFlushed, sst>>
      /\ client.pc = "ready"
  BY DEF AppendStep, WalAppend
<1>5. Mem' = Mem
  BY <1>4 DEF Mem
<1>6. Pending' = Len(log) + 1 .. Len(log')
  BY <1>3 DEF Pending
<1>7. lost \subseteq 1 .. Len(log)
  BY <1>1 DEF TypeOK
<1>8. ASSUME NEW S, InLog(S) PROVE \A r \in S : r.id \in 1 .. Len(log') /\ log'[r.id] = r
             /\ r.id \notin lost'
  BY <1>3, <1>4, <1>8 DEF InLog
<1>9. Stored'
  <2>1. \A i \in 1 .. Len(log') : log'[i].id = i
    <3> SUFFICES ASSUME NEW i \in 1 .. Len(log') PROVE log'[i].id = i
      OBVIOUS
    <3>1. i \in 1 .. Len(log) \/ i \in Len(log) + 1 .. Len(log')
      BY <1>3
    <3> QED
      BY <1>3, <3>1 DEF BaseInv, Stored
  <2>2. InLog(sst)' /\ \A a \in 1 .. Len(Mem') : InLog(Mem[a])'
    BY <1>4, <1>5, <1>8 DEF BaseInv, Stored, InLog
  <2>3. \A i \in Pending' : i \notin lost'
    BY <1>3, <1>4, <1>6, <1>7
  <2>4. \A i \in lost' : log'[i].first <= walFlushed'
    BY <1>3, <1>4, <1>7 DEF BaseInv, Stored
  <2> QED
    BY <2>1, <2>2, <2>3, <2>4 DEF Stored
<1>10. Quiet'
  BY <1>3 DEF Quiet, Up
<1>11. Filled'
  BY <1>3, <1>4, <1>5 DEF BaseInv, Filled
<1> QED
  BY <1>2, <1>9, <1>10, <1>11 DEF BaseInv

(* What Apply does: the first pending record enters the active table and   *)
(* replaces the version of its key there.                                  *)
LEMMA ApplyFacts ==
    ASSUME TypeOK, Apply
    PROVE  \E i \in 1 .. Len(log) :
              /\ i \in Pending /\ Pending' = Pending \ {i} /\ \A j \in Pending : i <= j
              /\ log[i] \in active'
              /\ \A r \in active' : r = log[i] \/ r \in active
              /\ \A r \in active : \/ r \in active'
                                   \/ ~IsRange(r) /\ ~IsRange(log[i]) /\ r.key = log[i].key
              /\ ~IsRange(log[i]) =>
                    \A r \in active' : IsRange(r) \/ r = log[i] \/ r.key # log[i].key
              /\ client'.pc \in {"rotate", "cache"} /\ client'.todo = client.todo
              /\ client'.pc = "rotate" <=> Cardinality(Points(active')) >= MaxEntries
<1>1. PICK i \in client.todo :
         /\ \A j \in client.todo : i <= j
         /\ active' = LET r == log[i]
                      IN  IF IsRange(r) THEN active \cup {r}
                          ELSE {s \in active : IsRange(s) \/ s.key # r.key} \cup {r}
         /\ client' = [client EXCEPT
                         !.pc = IF Cardinality(Points(active')) >= MaxEntries
                                THEN "rotate" ELSE "cache"]
  <2>1. PICK i \in client.todo :
        /\ \A j \in client.todo : i <= j
        /\ LET r == log[i]
               T == IF IsRange(r) THEN active \cup {r}
                    ELSE {s \in active : IsRange(s) \/ s.key # r.key} \cup {r}
           IN  /\ active' = T
               /\ client' = [client EXCEPT
                     !.pc = IF Cardinality(Points(T)) >= MaxEntries
                            THEN "rotate" ELSE "cache"]
    BY DEF Apply
  <2> QED
    BY <2>1
<1>2. client \in ClientType(Len(log)) /\ client.pc = "apply" /\ client.todo \subseteq 1 .. Len(log)
  BY DEF TypeOK, ClientType, Apply
<1>. DEFINE full == Cardinality(Points(active')) >= MaxEntries
<1>3. /\ client'.pc = IF full THEN "rotate" ELSE "cache"
      /\ client'.todo = client.todo
  <2>1. client' = [client EXCEPT !.pc = IF full THEN "rotate" ELSE "cache"]
    BY <1>1
  <2> HIDE DEF full
  <2> QED
    BY <1>2, <2>1 DEF ClientType
<1>4. Pending = client.todo /\ Pending' = Pending \ {i}
  <2>1. Pending = client.todo
    BY <1>2 DEF Pending
  <2>2. Pending' = {x \in client.todo : \E j \in client.todo : j < x}
    BY <1>3 DEF Pending
  <2>3. \A x \in client.todo : x # i <=> \E j \in client.todo : j < x
    BY <1>1, <1>2
  <2> QED
    BY <2>1, <2>2, <2>3
<1>5. /\ log[i] \in active'
      /\ \A r \in active' : r = log[i] \/ r \in active
      /\ \A r \in active : \/ r \in active'
                           \/ ~IsRange(r) /\ ~IsRange(log[i]) /\ r.key = log[i].key
      /\ ~IsRange(log[i]) =>
            \A r \in active' : IsRange(r) \/ r = log[i] \/ r.key # log[i].key
  <2> HIDE DEF full
  <2> USE DEF IsRange
  <2> QED
    BY <1>1
<1> QED
  BY <1>1, <1>2, <1>3, <1>4, <1>5

(* Applying a record keeps the base invariant: the active table becomes    *)
(* full exactly when the client goes on to rotate it.                      *)
LEMMA BaseApply ==
    ASSUME BaseInv, Apply
    PROVE  BaseInv'
<1>1. TypeOK /\ Stored /\ Quiet /\ Filled
  BY DEF BaseInv
<1>2. TypeOK'
  BY <1>1, TypeApply
<1>3. PICK i \in 1 .. Len(log) :
              /\ i \in Pending /\ Pending' = Pending \ {i}
              /\ \A r \in active' : r = log[i] \/ r \in active
              /\ ~IsRange(log[i]) =>
                    \A r \in active' : IsRange(r) \/ r = log[i] \/ r.key # log[i].key
              /\ client'.pc \in {"rotate", "cache"}
              /\ client'.pc = "rotate" <=> Cardinality(Points(active')) >= MaxEntries
  BY <1>1, ApplyFacts
<1>4. UNCHANGED <<log, lost, walFlushed, sst, worker, immutable>>
  BY DEF Apply, persistent, history
<1>5. /\ Len(Mem') = Len(Mem) /\ Len(Mem) \in Nat \ {0}
      /\ \A a \in 1 .. Len(Mem) - 1 : Mem'[a] = Mem[a]
      /\ Mem'[Len(Mem)] = active' /\ Mem[Len(Mem)] = active
  BY <1>1, <1>2, <1>4, MemApply, MemFacts
<1>6. Stored'
  <2>1. InLog(active)'
    BY <1>1, <1>3, <1>4, <1>5 DEF Stored, InLog
  <2>2. \A a \in 1 .. Len(Mem') : InLog(Mem[a])'
    <3> SUFFICES ASSUME NEW a \in 1 .. Len(Mem') PROVE InLog(Mem[a])'
      OBVIOUS
    <3>1. CASE a = Len(Mem)
      BY <1>5, <2>1, <3>1 DEF InLog
    <3>2. CASE a # Len(Mem)
      <4>1. a \in 1 .. Len(Mem) - 1 /\ a \in 1 .. Len(Mem)
        BY <1>5, <3>2
      <4> QED
        BY <1>1, <1>4, <1>5, <4>1 DEF Stored, InLog
    <3> QED
      BY <3>1, <3>2
  <2> QED
    BY <1>1, <1>3, <1>4, <2>2 DEF Stored, InLog
<1>7. Quiet'
  BY <1>3 DEF Quiet, Up
<1>8. Filled'
  <2>1. \A r, s \in Points(active') : r.key = s.key => r = s
    BY <1>1, <1>3 DEF Filled, Points
  <2>2. \A a \in 1 .. Len(Mem') - 1 : Points(Mem'[a]) # {}
    BY <1>1, <1>5 DEF Filled
  <2> QED
    BY <1>1, <1>3, <1>4, <2>1, <2>2 DEF Filled
<1> QED
  BY <1>2, <1>6, <1>7, <1>8 DEF BaseInv

(* A rotation keeps the base invariant: the table put aside has a point    *)
(* record.                                                                 *)
LEMMA BaseRotate ==
    ASSUME BaseInv, Rotate
    PROVE  BaseInv'
<1>1. TypeOK /\ Stored /\ Quiet /\ Filled
  BY DEF BaseInv
<1>2. TypeOK'
  BY <1>1, TypeRotate
<1>3. /\ UNCHANGED <<log, lost, walFlushed, sst, worker>> /\ active' = {}
      /\ client.pc = "rotate"
  BY DEF Rotate, persistent, history
<1>4. client'.pc = "cache" /\ client'.todo = client.todo
  BY <1>1 DEF TypeOK, Rotate
<1>5. Pending' = Pending
  BY <1>3, <1>4 DEF Pending
<1>6. /\ Len(Mem') = Len(Mem) + 1 /\ Len(Mem) \in Nat \ {0}
      /\ \A a \in 1 .. Len(Mem) : Mem'[a] = Mem[a]
      /\ Mem'[Len(Mem) + 1] = {} /\ Mem[Len(Mem)] = active
  BY <1>1, MemRotate, MemFacts
<1>7. Stored'
  <2>1. \A a \in 1 .. Len(Mem') : InLog(Mem[a])'
    <3> SUFFICES ASSUME NEW a \in 1 .. Len(Mem') PROVE InLog(Mem[a])'
      OBVIOUS
    <3>1. CASE a = Len(Mem) + 1
      BY <1>6, <3>1 DEF InLog
    <3>2. CASE a # Len(Mem) + 1
      <4>1. a \in 1 .. Len(Mem)
        BY <1>6, <3>2
      <4> QED
        BY <1>1, <1>3, <1>6, <4>1 DEF Stored, InLog
    <3> QED
      BY <3>1, <3>2
  <2> QED
    BY <1>1, <1>3, <1>5, <2>1 DEF Stored, InLog
<1>8. Quiet'
  BY <1>4 DEF Quiet, Up
<1>9. Filled'
  <2>1. Points(active') = {} /\ Cardinality(Points(active')) = 0
    BY <1>3, FS_EmptySet DEF Points
  <2>2. ~(0 >= MaxEntries)
    BY BoundsAssumption
  <2>3. Points(active) # {}
    <3>1. Cardinality(Points(active)) >= MaxEntries
      BY <1>1, <1>3 DEF Filled
    <3>2. Cardinality({}) = 0
      BY FS_EmptySet
    <3> QED
      BY <2>2, <3>1, <3>2
  <2>4. ASSUME NEW a \in 1 .. Len(Mem') - 1 PROVE Points(Mem'[a]) # {}
    <3>1. a \in 1 .. Len(Mem) /\ (a = Len(Mem) \/ a \in 1 .. Len(Mem) - 1)
      BY <1>6
    <3> QED
      BY <1>1, <1>6, <2>3, <3>1 DEF Filled
  <2> QED
    BY <1>1, <1>3, <1>4, <2>1, <2>2, <2>4 DEF Filled
<1> QED
  BY <1>2, <1>7, <1>8, <1>9 DEF BaseInv

(* Reads, and the end of a write, leave everything but the client, the     *)
(* cache and the answers alone.                                            *)
ClientOnly ==
    \/ UpdateCache
    \/ \E k \in Keys : GetFromMemtable(k) \/ GetFromCache(k) \/ GetMiss(k)
    \/ GetFromSST
    \/ GetCheckRangeDel

(* What the steps that touch only the client and the cache leave alone.    *)
LEMMA ClientOnlyFacts ==
    ASSUME BaseInv, ClientOnly
    PROVE  /\ UNCHANGED <<seqGen, active, immutable, worker, log, walFlushed, sst, lost, regressed,
                         undone>>
           /\ Pending' = Pending
           /\ client.pc \notin {"rotate", "down"} /\ client'.pc \notin {"rotate", "down"}
           /\ Quiet'
<1>1. TypeOK /\ Quiet /\ client \in ClientType(Len(log))
  BY DEF BaseInv, TypeOK, ClientType
<1>2. CASE UpdateCache
  <2>1. PICK i \in client.todo :
           /\ \A j \in client.todo : i <= j
           /\ \/ client.todo = {i} /\ client' = Idle
              \/ client' = [client EXCEPT !.pc = "apply", !.todo = client.todo \ {i}]
    BY <1>2 DEF UpdateCache
  <2>2. client.pc = "cache" /\ client.todo \subseteq 1 .. Len(log)
    BY <1>1, <1>2 DEF UpdateCache, ClientType
  <2>3. Pending = client.todo \ {i}
    <3>1. Pending = {x \in client.todo : \E j \in client.todo : j < x}
      BY <2>2 DEF Pending
    <3>2. \A x \in client.todo : x # i <=> \E j \in client.todo : j < x
      BY <2>1, <2>2
    <3> QED
      BY <3>1, <3>2
  <2>4. UNCHANGED <<seqGen, active, immutable, worker, log, walFlushed, sst, lost, regressed,
                         undone>>
    BY <1>2 DEF UpdateCache, persistent
  <2>5. CASE client.todo = {i} /\ client' = Idle
    <3>1. client'.pc = "ready" /\ client'.todo = {}
      BY <2>5, IdleFacts
    <3>2. Pending' = {}
      BY <3>1 DEF Pending
    <3>3. Quiet'
      BY <3>1 DEF Quiet, Up
    <3> QED
      BY <2>2, <2>3, <2>4, <2>5, <3>1, <3>2, <3>3
  <2>6. CASE client' = [client EXCEPT !.pc = "apply", !.todo = client.todo \ {i}]
    <3>1. client'.pc = "apply" /\ client'.todo = client.todo \ {i}
      BY <1>1, <2>6 DEF ClientType
    <3>2. Pending' = client.todo \ {i}
      BY <3>1 DEF Pending
    <3>3. Quiet'
      BY <3>1 DEF Quiet, Up
    <3> QED
      BY <2>2, <2>3, <2>4, <3>1, <3>2, <3>3
  <2> QED
    BY <2>1, <2>5, <2>6
<1>3. CASE \/ \E k \in Keys : GetFromMemtable(k) \/ GetFromCache(k) \/ GetMiss(k)
           \/ GetFromSST
           \/ GetCheckRangeDel
  <2>1. UNCHANGED <<seqGen, active, immutable, worker, log, walFlushed, sst, lost, regressed,
                         undone>>
    BY <1>3 DEF GetFromMemtable, GetFromCache, GetMiss, GetFromSST, GetCheckRangeDel,
                persistent, history
  <2>2. client.pc \in {"ready", "sst", "cover"} /\ client.todo = {}
    BY <1>1, <1>3 DEF GetFromMemtable, GetFromCache, GetMiss, GetFromSST, GetCheckRangeDel, Quiet
  <2>3. \/ client' = client
        \/ client' = Idle
        \/ \E k \in Keys : client' = [client EXCEPT !.pc = "sst", !.key = k]
        \/ \E v, n : client' = [client EXCEPT !.pc = "cover", !.val = v, !.seq = n]
    BY <1>3 DEF GetFromMemtable, GetFromCache, GetMiss, GetFromSST, GetCheckRangeDel
  <2>4. client'.pc \in {"ready", "sst", "cover"} /\ client'.todo = {}
    BY <1>1, <2>2, <2>3, IdleFacts DEF ClientType
  <2>5. Pending = {} /\ Pending' = {}
    BY <2>2, <2>4 DEF Pending
  <2>6. Quiet'
    BY <2>4 DEF Quiet, Up
  <2> QED
    BY <2>1, <2>2, <2>4, <2>5, <2>6
<1> QED
  BY <1>2, <1>3 DEF ClientOnly

(* The client's steps on the cache and the reads keep the base invariant.  *)
LEMMA BaseClientOnly ==
    ASSUME BaseInv, ClientOnly
    PROVE  BaseInv'
<1>1. TypeOK /\ InLog(sst)
  BY DEF BaseInv, Stored
<1>2. TypeOK'
  BY <1>1, TypeUpdateCache, TypeGetFromMemtable, TypeGetFromCache, TypeGetMiss,
     TypeGetFromSST, TypeGetCheckRangeDel DEF ClientOnly
<1>3. /\ UNCHANGED <<log, lost, walFlushed, sst, worker, immutable, active>>
      /\ Pending' = Pending
      /\ client'.pc = "rotate" <=> client.pc = "rotate"
      /\ Quiet'
  BY ClientOnlyFacts
<1> QED
  BY <1>2, <1>3, BaseFrame

(* Taking a table keeps the base invariant.                                *)
LEMMA BaseTakeImmutable ==
    ASSUME BaseInv, TakeImmutable
    PROVE  BaseInv'
<1>1. TypeOK /\ Stored /\ Quiet /\ Filled
  BY DEF BaseInv
<1>2. TypeOK'
  BY <1>1, TypeTakeImmutable
<1>3. /\ UNCHANGED <<log, lost, walFlushed, sst, active, client>>
      /\ immutable # <<>> /\ worker'.pc = "flush"
  BY DEF TakeImmutable, persistent, history
<1>4. Mem' = Mem /\ Pending' = Pending
  BY <1>1, <1>3, MemTake DEF Pending
<1>5. Stored'
  BY <1>1, <1>3, <1>4 DEF Stored, InLog
<1>6. Quiet'
  BY <1>1, <1>3 DEF Quiet, Up
<1>7. Filled'
  BY <1>1, <1>3, <1>4 DEF Filled
<1> QED
  BY <1>2, <1>5, <1>6, <1>7 DEF BaseInv

(* Writing a table keeps the base invariant, and all its records reach the *)
(* SSTables: a table in the worker's hands has a point record, so it is    *)
(* not skipped.                                                            *)
LEMMA BaseFlushToSSTable ==
    ASSUME BaseInv, FlushToSSTable
    PROVE  BaseInv' /\ sst' = sst \cup Mem[1]
<1>1. TypeOK /\ Stored /\ Quiet /\ Filled
  BY DEF BaseInv
<1>2. TypeOK'
  BY <1>1, TypeFlushToSSTable
<1>3. /\ UNCHANGED <<log, lost, walFlushed, active, immutable, client>>
      /\ worker.pc = "flush" /\ worker'.pc = "wal" /\ worker'.tab = worker.tab
      /\ sst' = IF Points(worker.tab) = {} THEN sst ELSE sst \cup worker.tab
  BY <1>1 DEF FlushToSSTable, history, TypeOK
<1>4. Mem' = Mem /\ Pending' = Pending
  BY <1>1, <1>3, MemFlush DEF Pending
<1>5. Len(Mem) \in Nat /\ Len(Mem) >= 2 /\ Mem[1] = worker.tab
  BY <1>1, <1>3, MemFacts
<1>6. sst' = sst \cup worker.tab
  BY <1>1, <1>3, <1>5 DEF Filled
<1>7. Stored'
  <2>1. InLog(worker.tab)
    BY <1>1, <1>5 DEF Stored
  <2> QED
    BY <1>1, <1>3, <1>4, <1>6, <2>1 DEF Stored, InLog
<1>8. Quiet'
  BY <1>1, <1>3 DEF Quiet, Up
<1>9. Filled'
  BY <1>1, <1>3, <1>4, <1>6 DEF Filled
<1> QED
  BY <1>2, <1>5, <1>6, <1>7, <1>8, <1>9 DEF BaseInv

(* Moving the watermark keeps the base invariant.                          *)
LEMMA BaseMemtableFlushed ==
    ASSUME BaseInv, MemtableFlushed
    PROVE  BaseInv'
<1>1. TypeOK /\ Stored /\ Quiet /\ Filled
  BY DEF BaseInv
<1>2. /\ UNCHANGED <<log, lost, sst, active, immutable, client>>
      /\ worker.pc = "wal" /\ worker'.pc = "compact"
      /\ walFlushed' > walFlushed
  BY <1>1 DEF MemtableFlushed, history, TypeOK
<1>3. Len(Mem) \in Nat /\ Len(Mem) >= 2 /\ Mem[1] = worker.tab
  BY <1>1, <1>2, MemFacts
<1>4. TypeOK'
  <2>1. InLog(worker.tab)
    BY <1>1, <1>3 DEF Stored
  <2> QED
    BY <1>1, <2>1, TypeMemtableFlushed
<1>5. Len(Mem') = Len(Mem) - 1 /\ \A a \in 1 .. Len(Mem) - 1 : Mem'[a] = Mem[a + 1]
  BY <1>1, MemFlushed
<1>6. Pending' = Pending
  BY <1>2 DEF Pending
<1>7. Stored'
  <2>1. \A a \in 1 .. Len(Mem') : InLog(Mem[a])'
    BY <1>1, <1>2, <1>3, <1>5 DEF Stored, InLog
  <2>2. \A i \in lost' : log'[i].first <= walFlushed'
    <3>1. walFlushed \in Nat /\ walFlushed' \in Nat /\ \A i \in lost : log[i] \in Record
      BY <1>1, <1>4, SMTT(40) DEF TypeOK
    <3>2. \A i \in lost : log[i].first \in Nat
      BY <3>1 DEF Record
    <3> QED
      BY <1>1, <1>2, <3>1, <3>2 DEF Stored
  <2> QED
    BY <1>1, <1>2, <1>6, <2>1, <2>2 DEF Stored, InLog
<1>8. Quiet'
  BY <1>1, <1>2 DEF Quiet, Up
<1>9. Filled'
  <2>1. ASSUME NEW a \in 1 .. Len(Mem') - 1 PROVE Points(Mem'[a]) # {}
    <3>1. a \in 1 .. Len(Mem) - 1 /\ a + 1 \in 1 .. Len(Mem) - 1
      BY <1>3, <1>5
    <3>2. Mem'[a] = Mem[a + 1]
      BY <1>5, <3>1
    <3> QED
      BY <1>1, <3>1, <3>2 DEF Filled
  <2> QED
    BY <1>1, <1>2, <2>1 DEF Filled
<1> QED
  BY <1>4, <1>7, <1>8, <1>9 DEF BaseInv

(* Compaction keeps the base invariant and adds no record.                 *)
LEMMA BaseCompact ==
    ASSUME BaseInv, Compact
    PROVE  BaseInv' /\ sst' \subseteq sst
<1>1. TypeOK /\ Stored /\ Quiet /\ Filled
  BY DEF BaseInv
<1>2. TypeOK' /\ sst' \subseteq sst
  BY <1>1, TypeCompact DEF Stored
<1>3. /\ UNCHANGED <<log, lost, walFlushed, active, immutable, client>>
      /\ worker.pc = "compact" /\ worker'.pc = "recv"
      /\ sst' \subseteq sst
  BY <1>2 DEF Compact
<1>4. Mem' = Mem /\ Pending' = Pending
  BY <1>1, <1>3, MemCompact DEF Pending
<1>5. Stored'
  BY <1>1, <1>3, <1>4 DEF Stored, InLog
<1>6. Quiet'
  BY <1>1, <1>3 DEF Quiet, Up
<1>7. Filled'
  BY <1>1, <1>3, <1>4 DEF Filled
<1> QED
  BY <1>2, <1>3, <1>5, <1>6, <1>7 DEF BaseInv

(* A crash or a close keeps the base invariant, and nothing is left to     *)
(* apply.                                                                  *)
LEMMA BaseStop ==
    ASSUME BaseInv, Stop, crashes' \in 0 .. MaxCrashes
    PROVE  BaseInv' /\ Pending' = {}
<1>1. TypeOK /\ Stored /\ Quiet /\ Filled
  BY DEF BaseInv
<1>2. TypeOK'
  BY <1>1, TypeStop
<1>3. /\ UNCHANGED <<log, lost, walFlushed, sst>>
      /\ active' = {} /\ immutable' = <<>> /\ worker'.pc = "recv"
  BY DEF Stop, persistent
<1>4. client'.pc = "down" /\ client'.todo = {}
  BY IdleFacts DEF Stop
<1>5. Len(Mem') = 1 /\ Mem'[1] = {}
  BY MemStop
<1>6. Pending' = {}
  BY <1>4 DEF Pending
<1>7. Stored'
  BY <1>1, <1>3, <1>5, <1>6 DEF Stored, InLog
<1>8. Quiet'
  BY <1>3, <1>4 DEF Quiet, Up
<1>9. Filled'
  <2>1. Points(active') = {} /\ Cardinality(Points(active')) = 0
    BY <1>3, FS_EmptySet DEF Points
  <2>2. ~(0 >= MaxEntries)
    BY BoundsAssumption
  <2> QED
    BY <1>3, <1>4, <1>5, <2>1, <2>2 DEF Filled
<1> QED
  BY <1>2, <1>6, <1>7, <1>8, <1>9 DEF BaseInv

(* After a restart, the memtables are empty and what is recoverable is to  *)
(* be applied.                                                             *)
LEMMA RestartFacts ==
    ASSUME TypeOK, Quiet, Restart
    PROVE  /\ UNCHANGED <<log, walFlushed, sst, active, immutable, worker>>
           /\ active = {} /\ worker.pc = "recv"
           /\ Len(Mem) = 1 /\ Mem[1] = {} /\ Mem' = Mem
           /\ Pending' = Recoverable
           /\ client'.pc \in {"ready", "apply"} /\ (client'.pc = "ready" => client'.todo = {})
           /\ lost' = lost \cup {i \in 1 .. Len(log) : Cut(i)}
<1>1. /\ UNCHANGED <<log, walFlushed, sst, active, immutable, worker>>
      /\ lost' = lost \cup {i \in 1 .. Len(log) : Cut(i)}
      /\ client.pc = "down"
  BY DEF Restart
<1>2. active = {} /\ immutable = <<>> /\ worker.pc = "recv"
  BY <1>1 DEF Quiet, Up
<1>3. Mem' = Mem
  BY <1>1 DEF Mem
<1>4. Len(Mem) = 1 /\ Mem[1] = {}
  <2>1. /\ worker \in WorkerType /\ worker.pc = "recv"
        /\ immutable \in Seq(SUBSET Record) /\ active \in SUBSET Record
    BY <1>2 DEF TypeOK, WorkerType
  <2>2. Len(Mem) = 0 + Len(immutable) + 1
    BY <2>1, MemShape DEF Mem
  <2>3. Len(Mem) = 1
    BY <1>2, <2>2
  <2> QED
    BY <1>2, <2>3, MemFacts
<1>5. CASE Recoverable = {}
  <2>1. client'.pc = "ready" /\ client'.todo = {}
    BY <1>5, IdleFacts DEF Restart
  <2>2. Pending' = Recoverable
    BY <1>5, <2>1 DEF Pending
  <2> QED
    BY <1>1, <1>2, <1>3, <1>4, <2>1, <2>2
<1>6. CASE Recoverable # {}
  <2>1. client' = [Idle EXCEPT !.pc = "apply", !.todo = Recoverable]
    BY <1>6 DEF Restart
  <2>2. Idle \in ClientType(0)
    BY IdleFacts
  <2>3. client'.pc = "apply" /\ client'.todo = Recoverable
    BY <2>1, <2>2 DEF ClientType
  <2>4. Pending' = Recoverable
    BY <2>3 DEF Pending
  <2> QED
    BY <1>1, <1>2, <1>3, <1>4, <2>3, <2>4
<1> QED
  BY <1>5, <1>6

(* A restart keeps the base invariant: the rests of batches it drops are   *)
(* stored nowhere.                                                         *)
LEMMA BaseRestart ==
    ASSUME BaseInv, Restart
    PROVE  BaseInv'
<1>1. TypeOK /\ Stored /\ Quiet /\ Filled
  BY DEF BaseInv
<1>2. TypeOK'
  BY <1>1, TypeRestart DEF Stored
<1>3. /\ UNCHANGED <<log, walFlushed, sst, active, immutable, worker>>
      /\ active = {} /\ worker.pc = "recv"
      /\ Len(Mem) = 1 /\ Mem[1] = {} /\ Mem' = Mem
      /\ Pending' = Recoverable
      /\ client'.pc \in {"ready", "apply"} /\ (client'.pc = "ready" => client'.todo = {})
      /\ lost' = lost \cup {i \in 1 .. Len(log) : Cut(i)}
  BY <1>1, RestartFacts
<1>4. walFlushed \in Nat /\ \A i \in 1 .. Len(log) : log[i] \in Record
  BY <1>1 DEF TypeOK
<1>5. Stored'
  <2>1. InLog(sst)'
    BY <1>1, <1>3 DEF Stored, InLog, Cut
  <2>2. \A a \in 1 .. Len(Mem') : InLog(Mem[a])'
    <3>1. \A a \in 1 .. 1 : a = 1
      OBVIOUS
    <3>2. \A a \in 1 .. Len(Mem') : Mem'[a] = {}
      BY <1>3, <3>1, Zenon
    <3> QED
      BY <3>2 DEF InLog
  <2>3. \A i \in Recoverable : i \notin lost'
    <3>1. \A i \in Recoverable : ~(log[i].first <= walFlushed)
      BY <1>4 DEF Recoverable, Record
    <3> QED
      BY <1>1, <1>3, <3>1 DEF Stored, Cut
  <2>4. \A i \in lost' : log[i].first <= walFlushed
    BY <1>1, <1>3 DEF Stored, Cut
  <2> QED
    BY <1>1, <1>3, <2>1, <2>2, <2>3, <2>4 DEF Stored
<1>6. Quiet'
  BY <1>3 DEF Quiet, Up
<1>7. Filled'
  <2>1. ~(Cardinality(Points(active)) >= MaxEntries)
    <3>1. client.pc # "rotate"
      BY DEF Restart
    <3> QED
      BY <1>1, <3>1 DEF Filled
  <2> QED
    BY <1>1, <1>3, <2>1 DEF Filled
<1> QED
  BY <1>2, <1>5, <1>6, <1>7 DEF BaseInv

(* Every step keeps the base invariant.                                    *)
LEMMA BaseStep ==
    ASSUME BaseInv, [Next]_vars
    PROVE  BaseInv'
<1>1. CASE \E ks \in Batches, op \in {"Put", "Del"} : Write(ks, op)
  BY <1>1, WriteAppends, BaseAppend DEF BaseInv
<1>2. CASE \E rng \in Ranges : RangeDelete(rng)
  BY <1>2, RangeDeleteAppends, BaseAppend DEF BaseInv
<1>3. CASE Apply
  BY <1>3, BaseApply
<1>4. CASE Rotate
  BY <1>4, BaseRotate
<1>5. CASE ClientOnly
  BY <1>5, BaseClientOnly
<1>6. CASE TakeImmutable
  BY <1>6, BaseTakeImmutable
<1>7. CASE FlushToSSTable
  BY <1>7, BaseFlushToSSTable
<1>8. CASE MemtableFlushed
  BY <1>8, BaseMemtableFlushed
<1>9. CASE Compact
  BY <1>9, BaseCompact
<1>10. CASE WorkerPanics
  <2>1. Stop /\ crashes' \in 0 .. MaxCrashes
    BY <1>10 DEF WorkerPanics, BaseInv, TypeOK
  <2> QED
    BY <2>1, BaseStop
<1>11. CASE Crash
  <2>1. Stop /\ crashes' \in 0 .. MaxCrashes
    BY <1>11, BoundsAssumption DEF Crash, BaseInv, TypeOK
  <2> QED
    BY <2>1, BaseStop
<1>12. CASE Restart
  BY <1>12, BaseRestart
<1>13. CASE UNCHANGED vars
  <2>1. UNCHANGED <<volatile, persistent, history>>
    BY <1>13 DEF vars
  <2>2. /\ UNCHANGED <<log, lost, walFlushed, sst, worker, immutable, active, client>>
        /\ UNCHANGED <<seqGen, cache, maxSeqId, acked, ret, crashes, regressed, undone>>
    BY <2>1 DEF volatile, persistent, history
  <2>3. TypeOK' /\ Quiet' /\ Pending' = Pending
    BY <2>2 DEF BaseInv, TypeOK, Quiet, Up, Pending
  <2> QED
    BY <2>2, <2>3, BaseFrame
<1> QED
  BY <1>1, <1>2, <1>3, <1>4, <1>5, <1>6, <1>7, <1>8, <1>9, <1>10, <1>11, <1>12, <1>13
     DEF Next, ClientOnly

(* Every variable keeps its type: reads find values of the log, the        *)
(* maxima that a restart and a flush compute exist, whatever was written,  *)
(* flushed, compacted or lost before.                                      *)
THEOREM TypeCorrect == Spec => []TypeOK
<1>1. Init => BaseInv
  BY BaseInit
<1>2. BaseInv /\ [Next]_vars => BaseInv'
  BY BaseStep
<1>3. BaseInv => TypeOK
  BY DEF BaseInv
<1> QED
  BY <1>1, <1>2, <1>3, PTL DEF Spec

-----------------------------------------------------------------------------
(* The part of the invariant about sequence numbers.                       *)

(* The types that the arguments about sequence numbers need.               *)
LEMMA SeqTypes ==
    ASSUME BaseInv
    PROVE  /\ walFlushed \in Nat /\ seqGen \in Nat /\ Len(log) \in Nat
           /\ lost \subseteq 1 .. Len(log) /\ Pending \subseteq 1 .. Len(log)
           /\ Recoverable \subseteq 1 .. Len(log)
           /\ \A i \in 1 .. Len(log) : /\ log[i].seq \in Nat /\ log[i].first \in Nat
                                       /\ log[i].key \in Keys /\ log[i].id = i
           /\ Len(Mem) \in Nat \ {0} /\ Mem[Len(Mem)] = active
           /\ \A a \in 1 .. Len(Mem) : \A r \in Mem[a] :
                 /\ r.seq \in Nat /\ r.first \in Nat /\ r.key \in Keys
                 /\ r.id \in 1 .. Len(log) /\ log[r.id] = r /\ r.id \notin lost
           /\ \A r \in sst :
                 /\ r.seq \in Nat /\ r.first \in Nat /\ r.key \in Keys
                 /\ r.id \in 1 .. Len(log) /\ log[r.id] = r /\ r.id \notin lost
<1>1. TypeOK /\ Stored
  BY DEF BaseInv
<1>2. /\ walFlushed \in Nat /\ seqGen \in Nat /\ Len(log) \in Nat
      /\ lost \subseteq 1 .. Len(log)
      /\ \A i \in 1 .. Len(log) : log[i] \in Record
  BY <1>1 DEF TypeOK
<1>3. Pending \subseteq 1 .. Len(log)
  BY <1>1 DEF TypeOK, Pending
<1>4. Len(Mem) \in Nat \ {0} /\ Mem[Len(Mem)] = active
  BY <1>1, MemFacts
<1>5. \A a \in 1 .. Len(Mem) : \A r \in Mem[a] :
                 r.id \in 1 .. Len(log) /\ log[r.id] = r /\ r.id \notin lost
  BY <1>1 DEF Stored, InLog
<1>6. \A r \in sst : r.id \in 1 .. Len(log) /\ log[r.id] = r /\ r.id \notin lost
  BY <1>1 DEF Stored, InLog
<1>7. \A i \in 1 .. Len(log) : /\ log[i].seq \in Nat /\ log[i].first \in Nat
                               /\ log[i].key \in Keys /\ log[i].id = i
  BY <1>1, <1>2 DEF Record, Stored
<1>8. Recoverable \subseteq 1 .. Len(log)
  BY DEF Recoverable
<1> QED
  BY <1>2, <1>3, <1>4, <1>5, <1>6, <1>7, <1>8

(* Steps that change nothing of what the sequence numbers are about.       *)
LEMMA SeqFrame ==
    ASSUME SeqInv,
           UNCHANGED <<seqGen, log, walFlushed, sst, lost, undone>>,
           Mem' = Mem, Pending' = Pending, Up' = Up,
           worker'.pc = "compact" => worker.pc = "compact",
           worker'.pc \in {"recv", "flush"} => worker.pc \in {"recv", "flush"}
    PROVE  SeqInv'
<1>1. Sequenced'
  BY DEF SeqInv, Sequenced
<1>2. Layered'
  BY DEF SeqInv, Layered
<1>3. Recoverable' = Recoverable /\ \A i, k : Above(i, k)' <=> Above(i, k)
  BY DEF Recoverable, Above
<1>4. \A i, k : Held(i, k)' <=> Held(i, k)
  BY <1>3 DEF Held
<1>5. Replayed'
  BY <1>3, <1>4 DEF SeqInv, Replayed
<1>6. (\A a : Window(a)' = Window(a)) /\ Older' = Older
  BY <1>3 DEF Window, Older
<1>7. (\A a \in 1 .. Len(Mem') : Few(Window(a))') /\ Few(Older)'
  BY <1>6 DEF SeqInv, Behind, Few
<1>8. Behind'
  BY <1>7 DEF SeqInv, Behind
<1>9. Kept'
  BY DEF SeqInv, Kept, Passed, Overrides, Needed
<1> QED
  BY <1>1, <1>2, <1>5, <1>8, <1>9 DEF SeqInv

(* Appending keeps the order: the new records are above everything there   *)
(* is.                                                                     *)
LEMMA SeqAppend ==
    ASSUME BaseInv, SeqInv, NEW recs, AppendStep(recs)
    PROVE  SeqInv'
<1>1. TypeOK /\ Quiet
  BY DEF BaseInv
<1>2. /\ walFlushed \in Nat /\ seqGen \in Nat /\ Len(log) \in Nat
      /\ lost \subseteq 1 .. Len(log)
      /\ Recoverable \subseteq 1 .. Len(log)
      /\ \A i \in 1 .. Len(log) : log[i].seq \in Nat /\ log[i].first \in Nat /\ log[i].key \in Keys
      /\ \A a \in 1 .. Len(Mem) : \A r \in Mem[a] :
            r.seq \in Nat /\ r.id \in 1 .. Len(log) /\ log[r.id] = r /\ r.id \notin lost
      /\ \A r \in sst : r.seq \in Nat /\ r.id \in 1 .. Len(log) /\ log[r.id] = r /\ r.id \notin lost
  BY SeqTypes
<1>3. /\ Len(log') \in Nat /\ Len(log) <= Len(log')
      /\ \A i \in 1 .. Len(log) : i \in 1 .. Len(log') /\ log'[i] = log[i]
      /\ \A i \in Len(log) + 1 .. Len(log') :
            /\ i \in 1 .. Len(log')
            /\ log'[i].seq = seqGen + (i - Len(log))
            /\ log'[i].first = seqGen + 1
      /\ seqGen' = seqGen + (Len(log') - Len(log))
      /\ client'.pc = "apply" /\ client'.todo = Len(log) + 1 .. Len(log')
  BY <1>1, Appended
<1>4. /\ UNCHANGED <<worker, immutable, active, lost, walFlushed, sst>>
      /\ client.pc = "ready"
  BY DEF AppendStep, WalAppend
<1>5. Mem' = Mem /\ Pending = {} /\ Pending' = Len(log) + 1 .. Len(log') /\ Up /\ Up'
  BY <1>1, <1>3, <1>4 DEF Mem, Pending, Quiet, Up
<1>6. \A i \in 1 .. Len(log') : i \in 1 .. Len(log) \/ i \in Len(log) + 1 .. Len(log')
  BY <1>3, <1>2
<1>7. /\ walFlushed <= seqGen
      /\ \A i \in 1 .. Len(log) : i \notin lost => log[i].seq <= seqGen
  BY <1>5 DEF SeqInv, Sequenced
<1>8. \A i \in Len(log) + 1 .. Len(log') : /\ log'[i].seq > seqGen /\ log'[i].seq <= seqGen'
                                           /\ log'[i].seq \in Nat /\ log'[i].first > seqGen
  BY <1>3, <1>2
<1>9. /\ \A a \in 1 .. Len(Mem) : \A r \in Mem[a] : r.seq <= seqGen
      /\ \A r \in sst : r.seq <= seqGen
  BY <1>7, <1>2
<1>10. Sequenced'
  <2>1. ASSUME NEW i \in 1 .. Len(log'), NEW j \in 1 .. Len(log'), i < j, i \notin lost
        PROVE  log'[i].seq < log'[j].seq
    <3>1. CASE i \in 1 .. Len(log) /\ j \in 1 .. Len(log)
      BY <1>3, <2>1, <3>1 DEF SeqInv, Sequenced
    <3>2. CASE i \in 1 .. Len(log) /\ j \in Len(log) + 1 .. Len(log')
      BY <1>3, <1>7, <1>8, <1>2, <2>1, <3>2, SMTT(40)
    <3>3. CASE i \in Len(log) + 1 .. Len(log') /\ j \in Len(log) + 1 .. Len(log')
      BY <1>3, <1>2, <2>1, <3>3
    <3>4. CASE i \in Len(log) + 1 .. Len(log') /\ j \in 1 .. Len(log)
      BY <1>2, <2>1, <3>4
    <3> QED
      BY <1>6, <3>1, <3>2, <3>3, <3>4
  <2>2. walFlushed' <= seqGen'
    BY <1>3, <1>4, <1>7, <1>2
  <2>3. ASSUME NEW i \in 1 .. Len(log'), i \notin lost PROVE log'[i].seq <= seqGen'
    <3>1. CASE i \in 1 .. Len(log)
      BY <1>3, <1>7, <1>2, <2>3, <3>1, SMTT(40)
    <3> QED
      BY <1>6, <1>8, <3>1
  <2> QED
    BY <1>4, <2>1, <2>2, <2>3 DEF Sequenced
<1>11. Layered'
  <2>1. \A i \in Pending' : /\ walFlushed < log'[i].seq
                            /\ \A a \in 1 .. Len(Mem) : \A r \in Mem[a] : r.seq < log'[i].seq
    BY <1>5, <1>7, <1>8, <1>9, <1>2
  <2> QED
    BY <1>4, <1>5, <2>1 DEF SeqInv, Layered
<1>12. \A i \in 1 .. Len(log) : \A k : /\ Above(i, k)' <=> Above(i, k)
                                       /\ Held(i, k)' <=> Held(i, k)
  BY <1>3, <1>5 DEF Above, Held
<1>13. \A i \in 1 .. Len(log) : i \in Recoverable' <=> i \in Recoverable
  BY <1>3, <1>4 DEF Recoverable
<1>14. Recoverable' \subseteq 1 .. Len(log')
  BY DEF Recoverable
<1>15. Replayed'
  <2>1. ASSUME NEW i \in Recoverable'
        PROVE  i \in Pending' \/ \E k \in 1 .. Len(Mem') : Held(i, k)'
    <3>1. CASE i \in 1 .. Len(log)
      BY <1>5, <1>12, <1>13, <3>1 DEF SeqInv, Replayed
    <3> QED
      BY <1>5, <1>6, <1>14, <3>1
  <2>2. ASSUME NEW i \in 1 .. Len(log'), i \notin lost, log'[i].seq > walFlushed
        PROVE  log'[i] \in sst \/ i \in Pending' \/ \E k \in 1 .. Len(Mem') : Held(i, k)'
    <3>1. CASE i \in 1 .. Len(log)
      BY <1>3, <1>5, <1>12, <2>2, <3>1 DEF SeqInv, Replayed
    <3> QED
      BY <1>5, <1>6, <3>1
  <2> QED
    BY <1>4, <2>1, <2>2 DEF Replayed
<1>16. Behind'
  <2>1. ASSUME NEW a \in 1 .. Len(Mem') PROVE Few(Window(a))'
    <3>1. ASSUME NEW i \in Window(a)' PROVE i \in Window(a) /\ log'[i] = log[i]
      <4>1. i \in Recoverable' /\ \E r \in Mem[a] : log'[i].seq < r.seq
        BY <1>5 DEF Window
      <4>2. i \in 1 .. Len(log)
        BY <1>5, <1>6, <1>8, <1>9, <1>14, <1>2, <4>1
      <4> QED
        BY <1>3, <1>5, <1>12, <1>13, <4>2 DEF Window
    <3>2. Few(Window(a))
      BY <1>5 DEF SeqInv, Behind
    <3> QED
      BY <3>1, <3>2 DEF Few
  <2>2. Few(Older)'
    <3>1. ASSUME NEW i \in Older' PROVE i \in Older /\ log'[i] = log[i]
      <4>1. i \in Recoverable' /\ \E r \in sst : log'[i].seq < r.seq
        BY <1>4 DEF Older
      <4>2. i \in 1 .. Len(log)
        BY <1>6, <1>8, <1>9, <1>14, <1>2, <4>1
      <4> QED
        BY <1>3, <1>4, <1>13, <4>2 DEF Older
    <3>2. Few(Older)
      BY DEF SeqInv, Behind
    <3> QED
      BY <3>1, <3>2 DEF Few
  <2>3. \A i \in Pending' : log'[i].first > walFlushed
    BY <1>3, <1>5, <1>7, <1>8, <1>2, SMTT(40)
  <2> QED
    BY <1>4, <1>5, <2>1, <2>2, <2>3 DEF SeqInv, Behind
<1>17. Kept'
  <2> SUFFICES ASSUME NEW i \in 1 .. Len(log'), i \notin lost, log'[i].seq <= walFlushed
               PROVE  Passed(i)'
    BY <1>4 DEF Kept
  <2>1. i \in 1 .. Len(log)
    BY <1>6, <1>7, <1>8, <1>2
  <2>2. Passed(i)
    BY <1>3, <2>1 DEF SeqInv, Kept
  <2>3. log'[i] = log[i]
    BY <1>3, <2>1
  <2>4. undone' = undone
    BY DEF AppendStep, WalAppend
  <2>5. CASE \/ log[i] \in sst
             \/ log[i].op # "Put" /\ ~Needed(log[i], sst)
             \/ Leveled /\ IsRange(log[i]) /\ i \in undone
    BY <1>4, <2>3, <2>5, <2>4 DEF Passed, Needed
  <2>6. CASE \E j \in 1 .. Len(log) : j \notin lost /\ log[j].seq <= walFlushed /\ Overrides(j, i)
    BY <1>3, <1>4, <2>3, <2>6 DEF Passed, Overrides
  <2> QED
    BY <2>2, <2>5, <2>6 DEF Passed
<1> QED
  BY <1>10, <1>11, <1>15, <1>16, <1>17 DEF SeqInv

(* The point records of the active table are finitely many, and as many as *)
(* their keys.                                                             *)
LEMMA PointsCount ==
    ASSUME BaseInv
    PROVE  LET K == {r.key : r \in Points(active)}
           IN  /\ Cardinality(Points(active)) \in Nat
               /\ IsFiniteSet(K) /\ K \subseteq Keys
               /\ Cardinality(K) = Cardinality(Points(active))
<1>. DEFINE P == Points(active)
            K == {r.key : r \in P}
            f == [r \in P |-> r.id]
            g == [r \in P |-> r.key]
<1>1. /\ Len(log) \in Nat
      /\ \A r \in P : r.key \in Keys /\ r.id \in 1 .. Len(log) /\ log[r.id] = r
  BY SeqTypes DEF Points
<1>2. f \in Injection(P, 1 .. Len(log))
  BY <1>1 DEF Injection, IsInjective
<1>3. IsFiniteSet(1 .. Len(log))
  BY <1>1, FS_Interval
<1>4. IsFiniteSet(P)
  <2> HIDE DEF f, P
  <2> QED
    BY <1>2, <1>3, FS_Injection
<1>5. g \in Surjection(P, K)
  BY DEF Surjection
<1>6. \A r, s \in P : r.key = s.key => r = s
  BY DEF BaseInv, Filled
<1>7. g \in Injection(P, K)
  BY <1>6 DEF Injection, IsInjective
<1>8. IsFiniteSet(K) /\ Cardinality(K) = Cardinality(P)
  <2> HIDE DEF g, P, K
  <2> QED
    BY <1>4, <1>5, <1>7, FS_Surjection
<1>9. Cardinality(P) \in Nat
  <2> HIDE DEF P
  <2> QED
    BY <1>4, FS_CardinalityType
<1> QED
  BY <1>1, <1>8, <1>9

(* No records are about fewer keys than a table has room for.              *)
LEMMA FewNone == MaxEntries > 0 /\ Cardinality({}) < MaxEntries
  BY BoundsAssumption, FS_EmptySet

(* Applying keeps the order: the record, the oldest that is pending, is    *)
(* above all that the tables hold.                                         *)
LEMMA SeqApply ==
    ASSUME BaseInv, SeqInv, Apply
    PROVE  SeqInv'
<1>1. TypeOK /\ TypeOK'
  BY BaseApply DEF BaseInv
<1>2. PICK N : N = Len(Mem)
  OBVIOUS
<1>3. /\ walFlushed \in Nat /\ Len(log) \in Nat /\ Pending \subseteq 1 .. Len(log)
      /\ Recoverable \subseteq 1 .. Len(log)
      /\ \A i \in 1 .. Len(log) : log[i].seq \in Nat /\ log[i].key \in Keys /\ log[i].first \in Nat
      /\ N \in Nat \ {0} /\ Mem[N] = active
      /\ \A a \in 1 .. N : \A r \in Mem[a] : r.seq \in Nat /\ r.first \in Nat
  BY <1>2, SeqTypes
<1>4. PICK i0 \in 1 .. Len(log) :
         /\ i0 \in Pending /\ Pending' = Pending \ {i0} /\ \A j \in Pending : i0 <= j
         /\ log[i0] \in active'
         /\ \A r \in active' : r = log[i0] \/ r \in active
         /\ \A r \in active : \/ r \in active'
                              \/ ~IsRange(r) /\ ~IsRange(log[i0]) /\ r.key = log[i0].key
         /\ client'.pc \in {"rotate", "cache"}
  BY <1>1, ApplyFacts
<1>5. UNCHANGED <<seqGen, log, lost, walFlushed, sst, worker, immutable>> /\ client.pc = "apply"
  BY DEF Apply, persistent, history
<1>6. /\ Len(Mem') = N
      /\ \A a \in 1 .. N - 1 : Mem'[a] = Mem[a]
      /\ Mem'[N] = active'
  BY <1>1, <1>5, <1>2, MemApply
<1>7. Up /\ Up'
  BY <1>4, <1>5 DEF Up
<1>8. /\ walFlushed < log[i0].seq
      /\ \A a \in 1 .. N : \A r \in Mem[a] : r.seq < log[i0].seq
      /\ \A j \in Pending' : log[i0].seq < log[j].seq
  <2>1. /\ walFlushed < log[i0].seq
        /\ \A a \in 1 .. N : \A r \in Mem[a] : r.seq < log[i0].seq
    BY <1>4, <1>2 DEF SeqInv, Layered
  <2>2. i0 \notin lost
    BY <1>4 DEF BaseInv, Stored
  <2>3. \A j \in Pending' : j \in 1 .. Len(log) /\ i0 < j
    BY <1>4, <1>3
  <2>4. \A j \in Pending' : log[i0].seq < log[j].seq
    BY <1>3, <2>2, <2>3 DEF SeqInv, Sequenced
  <2> QED
    BY <2>1, <2>4
<1>9. \A a \in 1 .. N : \A r \in Mem'[a] : r \in Mem[a] \/ (a = N /\ r = log[i0])
  <2> SUFFICES ASSUME NEW a \in 1 .. N, NEW r \in Mem'[a]
               PROVE  r \in Mem[a] \/ (a = N /\ r = log[i0])
    OBVIOUS
  <2>1. CASE a = N
    BY <1>4, <1>6, <1>3, <2>1
  <2>2. CASE a # N
    <3>1. a \in 1 .. N - 1
      BY <1>3, <2>2
    <3> QED
      BY <1>6, <3>1
  <2> QED
    BY <2>1, <2>2
<1>10. Sequenced'
  BY <1>5, <1>7 DEF SeqInv, Sequenced
<1>11. Layered'
  <2>1. \A a \in 1 .. Len(Mem') : \A r \in Mem'[a] : walFlushed < r.seq
    BY <1>6, <1>8, <1>9, <1>2 DEF SeqInv, Layered
  <2>2. ASSUME NEW a \in 1 .. N, NEW b \in 1 .. N, a < b, NEW r \in Mem'[a], NEW s \in Mem'[b]
        PROVE  r.seq < s.seq
    <3>1. a # N
      BY <1>3, <2>2
    <3>2. r \in Mem[a]
      BY <1>9, <3>1
    <3> QED
      BY <1>8, <1>9, <2>2, <3>2, <1>2 DEF SeqInv, Layered
  <2>3. \A i \in Pending' : /\ walFlushed < log[i].seq
                            /\ \A a \in 1 .. N : \A r \in Mem'[a] : r.seq < log[i].seq
    BY <1>4, <1>8, <1>9, <1>2 DEF SeqInv, Layered
  <2> QED
    BY <1>5, <1>6, <2>1, <2>2, <2>3 DEF Layered
<1>12. Recoverable' = Recoverable
  BY <1>5 DEF Recoverable
<1>13. \A i : \A k \in 1 .. N : Above(i, k)' <=> Above(i, k)
  <2>1. \A k \in 1 .. N : \A b \in 1 .. k - 1 : b \in 1 .. N - 1
    BY <1>3
  <2> QED
    BY <1>5, <1>6, <2>1 DEF Above
<1>14. ASSUME NEW i \in 1 .. Len(log), NEW k \in 1 .. N, Held(i, k) PROVE Held(i, k)'
  <2>1. CASE k # N
    <3>1. k \in 1 .. N - 1
      BY <1>3, <2>1
    <3> QED
      BY <1>5, <1>6, <1>13, <1>14, <3>1 DEF Held
  <2>2. CASE k = N
    <3>1. /\ Above(i, N)'
          /\ \/ log[i] \in active
             \/ /\ ~IsRange(log[i])
                /\ \E r \in Points(active) : r.key = log[i].key /\ log[i].seq < r.seq
      BY <1>13, <1>14, <1>3, <2>2 DEF Held
    <3>2. \A r \in active : r.seq < log[i0].seq /\ r.seq \in Nat
      BY <1>8, <1>3
    <3>3. \/ log[i] \in active'
          \/ /\ ~IsRange(log[i])
             /\ \E r \in Points(active') : r.key = log[i].key /\ log[i].seq < r.seq
      <4>1. CASE log[i] \in active
        BY <1>4, <3>2, <4>1 DEF Points
      <4>2. CASE /\ ~IsRange(log[i])
                 /\ \E r \in Points(active) : r.key = log[i].key /\ log[i].seq < r.seq
        <5>1. PICK r \in Points(active) : r.key = log[i].key /\ log[i].seq < r.seq
          BY <4>2
        <5>2. r \in active /\ ~IsRange(r)
          BY DEF Points
        <5>3. CASE r \in active'
          BY <4>2, <5>1, <5>2, <5>3 DEF Points
        <5>4. CASE ~IsRange(log[i0]) /\ r.key = log[i0].key
          <6>1. log[i].seq < log[i0].seq
            BY <1>3, <3>2, <5>1, <5>2
          <6> QED
            BY <1>4, <4>2, <5>1, <5>4, <6>1 DEF Points
        <5> QED
          BY <1>4, <5>2, <5>3, <5>4
      <4> QED
        BY <3>1, <4>1, <4>2
    <3> QED
      BY <1>5, <1>6, <2>2, <3>1, <3>3 DEF Held
  <2> QED
    BY <2>1, <2>2
<1>15. Held(i0, N)'
  <2>1. Above(i0, N)
    <3>1. \A b \in 1 .. N - 1 : b \in 1 .. N
      BY <1>3
    <3> QED
      BY <1>8, <3>1 DEF Above
  <2>2. Above(i0, N)'
    BY <1>13, <1>3, <2>1
  <2> QED
    BY <1>4, <1>5, <1>6, <2>2 DEF Held
<1>16. Replayed'
  <2>1. \A i \in 1 .. Len(log) : i \in Pending \/ (\E k \in 1 .. N : Held(i, k))
            => i \in Pending' \/ \E k \in 1 .. N : Held(i, k)'
    <3>1. N \in 1 .. N
      BY <1>3
    <3> QED
      BY <1>4, <1>14, <1>15, <3>1
  <2> QED
    BY <1>5, <1>6, <1>7, <1>12, <1>3, <2>1, <1>2 DEF SeqInv, Replayed
<1>17. Few(Window(N))'
  <2>. DEFINE K == {r.key : r \in Points(active)}
  <2>1. K \in SUBSET Keys /\ Cardinality(K) < MaxEntries
    <3>1. Cardinality(Points(active)) \in Nat /\ K \subseteq Keys
             /\ Cardinality(K) = Cardinality(Points(active))
      BY PointsCount
    <3>2. ~(Cardinality(Points(active)) >= MaxEntries)
      BY <1>5 DEF BaseInv, Filled
    <3> HIDE DEF K
    <3> QED
      BY <3>1, <3>2, BoundsAssumption
  <2>2. ASSUME NEW i \in Window(N)' PROVE log'[i].key \in K
    <3>1. /\ i \in Recoverable /\ i \in 1 .. Len(log)
          /\ ~IsRange(log[i]) /\ Above(i, N) /\ \E r \in active' : log[i].seq < r.seq
      <4>1. i \in Recoverable' /\ ~IsRange(log'[i]) /\ Above(i, N)'
               /\ \E r \in Mem'[N] : log'[i].seq < r.seq
        BY DEF Window
      <4> QED
        BY <1>5, <1>6, <1>12, <1>13, <1>3, <4>1
    <3>2. log[i].seq < log[i0].seq
      <4>1. \A r \in active : r.seq < log[i0].seq /\ r.seq \in Nat
        BY <1>8, <1>3
      <4> QED
        BY <1>4, <1>3, <3>1, <4>1, SMTT(40)
    <3>3. i \notin Pending
      BY <1>4, <1>8, <1>3, <3>1, <3>2
    <3>4. PICK k \in 1 .. N : Held(i, k)
      BY <1>7, <3>1, <3>3, <1>2 DEF SeqInv, Replayed
    <3>5. k = N
      <4> SUFFICES ASSUME k # N PROVE FALSE
        OBVIOUS
      <4>1. k \in 1 .. N - 1
        BY <1>3
      <4>2. \A r \in Mem[k] : r.seq < log[i].seq /\ r.seq \in Nat
        BY <1>3, <3>1, <4>1 DEF Above
      <4>3. \E r \in Mem[k] : log[i].seq = r.seq \/ log[i].seq < r.seq
        BY <3>4 DEF Held, Points
      <4> QED
        BY <1>3, <3>1, <4>2, <4>3
    <3>6. \E r \in Points(active) : r.key = log[i].key
      BY <1>3, <3>1, <3>4, <3>5 DEF Held, Points
    <3> QED
      BY <1>5, <3>6
  <2> HIDE DEF K
  <2> QED
    BY <2>1, <2>2 DEF Few
<1>18. Behind'
  <2>1. ASSUME NEW a \in 1 .. Len(Mem') PROVE Few(Window(a))'
    <3>1. CASE a = N
      BY <1>17, <3>1
    <3>2. CASE a # N
      <4>1. a \in 1 .. N - 1 /\ a \in 1 .. N
        BY <1>6, <1>3, <3>2
      <4>2. Window(a)' = Window(a)
        BY <1>5, <1>6, <1>12, <1>13, <4>1 DEF Window
      <4>3. Few(Window(a))
        BY <4>1, <1>2 DEF SeqInv, Behind
      <4> QED
        BY <1>5, <4>2, <4>3 DEF Few
    <3> QED
      BY <3>1, <3>2
  <2>2. Older' = Older
    BY <1>5, <1>12 DEF Older
  <2>3. Few(Older)'
    BY <1>5, <2>2 DEF SeqInv, Behind, Few
  <2>4. Len(Mem') >= 2 => \A r \in sst' : \E s \in Mem'[1] : r.seq <= s.seq
    <3>1. N >= 2 => Mem'[1] = Mem[1]
      BY <1>6, <1>3
    <3> QED
      BY <1>5, <1>6, <3>1, <1>2 DEF SeqInv, Behind
  <2>5. worker'.pc \in {"recv", "flush"} /\ (\E r \in sst' : r.seq > walFlushed') =>
          /\ \A a \in 1 .. Len(Mem') : \A r \in Mem'[a] : r.first > walFlushed'
          /\ \A i \in Pending' : log'[i].first > walFlushed'
    <3> SUFFICES ASSUME worker.pc \in {"recv", "flush"}, \E r \in sst : r.seq > walFlushed
                 PROVE  /\ \A a \in 1 .. N : \A r \in Mem'[a] : r.first > walFlushed
                        /\ \A i \in Pending' : log[i].first > walFlushed
      BY <1>5, <1>6
    <3>1. /\ \A a \in 1 .. N : \A r \in Mem[a] : r.first > walFlushed
          /\ \A i \in Pending : log[i].first > walFlushed
      BY <1>2 DEF SeqInv, Behind
    <3> QED
      BY <1>4, <1>9, <3>1
  <2> QED
    BY <1>5, <2>1, <2>3, <2>4, <2>5 DEF SeqInv, Behind
<1>19. Kept'
  <2>1. undone' = undone
    BY DEF Apply, history
  <2> QED
    BY <1>5, <2>1 DEF SeqInv, Kept, Passed, Overrides, Needed
<1> QED
  BY <1>10, <1>11, <1>16, <1>18, <1>19 DEF SeqInv

(* When the only table is rotated, the SSTables are not ahead of it: it    *)
(* has as many keys as a table can hold, and fewer are older than what an  *)
(* SSTable holds and still to be replayed.                                 *)
LEMMA RotateBehind ==
    ASSUME BaseInv, SeqInv, Rotate, Len(Mem) = 1, NEW r \in sst
    PROVE  \E s \in active : r.seq <= s.seq
<1>1. /\ walFlushed \in Nat /\ Mem[1] = active
      /\ \A s \in active : /\ s.seq \in Nat /\ s.first \in Nat /\ s.key \in Keys
                           /\ s.id \in 1 .. Len(log) /\ log[s.id] = s
      /\ r.seq \in Nat
  <2>1. 1 \in 1 .. Len(Mem)
    OBVIOUS
  <2> QED
    BY <2>1, SeqTypes
<1>2. Cardinality(Points(active)) >= MaxEntries
  BY DEF Rotate, BaseInv, Filled
<1>3. PICK s \in active : TRUE
  <2>1. Cardinality({}) = 0 /\ ~(0 >= MaxEntries)
    BY FS_EmptySet, BoundsAssumption
  <2> QED
    BY <1>2, <2>1 DEF Points
<1>4. \A p \in active : walFlushed < p.seq
  BY <1>1 DEF SeqInv, Layered
<1> SUFFICES ASSUME \A p \in active : p.seq < r.seq PROVE FALSE
  BY <1>1
<1>5. walFlushed < r.seq
  BY <1>1, <1>3, <1>4
<1>6. worker.pc = "recv"
  <2>1. worker.pc \notin {"flush", "wal"}
    <3>1. TypeOK
      BY DEF BaseInv
    <3> QED
      BY <3>1, MemFacts
  <2>2. worker.pc # "compact"
    BY <1>1, <1>5 DEF SeqInv, Behind
  <2> QED
    BY <2>1, <2>2 DEF BaseInv, TypeOK
<1>7. \A p \in active : p.first > walFlushed
  BY <1>1, <1>5, <1>6 DEF SeqInv, Behind
<1>8. \A p \in Points(active) : p.id \in Older
  BY <1>1, <1>4, <1>7 DEF Points, Older, Recoverable
<1>9. PICK K \in SUBSET Keys : Cardinality(K) < MaxEntries /\ \A i \in Older : log[i].key \in K
  BY DEF SeqInv, Behind, Few
<1>. DEFINE A == {p.key : p \in Points(active)}
<1>10. A \in SUBSET K
  BY <1>1, <1>8, <1>9 DEF Points
<1>11. IsFiniteSet(K)
  BY KeysAssumption, FS_Subset
<1>12. Cardinality(A) <= Cardinality(K) /\ Cardinality(K) \in Nat
  <2> HIDE DEF A
  <2> QED
    BY <1>10, <1>11, FS_Subset, FS_CardinalityType
<1>13. Cardinality(A) = Cardinality(Points(active)) /\ Cardinality(A) \in Nat
  BY PointsCount
<1> HIDE DEF A
<1> QED
  BY <1>2, <1>9, <1>12, <1>13, BoundsAssumption

(* A rotation keeps the order: what comes next is above the table put      *)
(* aside.                                                                  *)
LEMMA SeqRotate ==
    ASSUME BaseInv, SeqInv, Rotate
    PROVE  SeqInv'
<1>1. TypeOK
  BY DEF BaseInv
<1>2. PICK N : N = Len(Mem)
  OBVIOUS
<1>3. N \in Nat \ {0} /\ Mem[N] = active
  BY <1>2, SeqTypes
<1>4. /\ UNCHANGED <<seqGen, log, lost, walFlushed, sst, worker>>
      /\ client.pc = "rotate" /\ client'.pc = "cache" /\ client'.todo = client.todo
  BY <1>1 DEF Rotate, persistent, history, TypeOK
<1>5. Pending' = Pending /\ Up /\ Up'
  BY <1>4 DEF Pending, Up
<1>6. Len(Mem') = N + 1 /\ (\A a \in 1 .. N : Mem'[a] = Mem[a]) /\ Mem'[N + 1] = {}
  BY <1>1, <1>2, MemRotate
<1>7. \A a \in 1 .. N + 1 : a \in 1 .. N \/ a = N + 1
  BY <1>3
<1>8. \A a \in 1 .. N + 1 : \A r \in Mem'[a] : a \in 1 .. N /\ r \in Mem[a]
  BY <1>6, <1>7
<1>9. Sequenced'
  BY <1>4, <1>5 DEF SeqInv, Sequenced
<1>10. Layered'
  <2>1. ASSUME NEW a \in 1 .. N + 1, NEW r \in Mem'[a]
        PROVE  walFlushed < r.seq /\ \A i \in Pending : r.seq < log[i].seq
    BY <1>8, <1>2 DEF SeqInv, Layered
  <2>2. ASSUME NEW a \in 1 .. N + 1, NEW b \in 1 .. N + 1, a < b,
               NEW r \in Mem'[a], NEW s \in Mem'[b]
        PROVE  r.seq < s.seq
    BY <1>8, <1>2, <2>2 DEF SeqInv, Layered
  <2>3. \A i \in Pending : walFlushed < log[i].seq
    BY DEF SeqInv, Layered
  <2> QED
    BY <1>4, <1>5, <1>6, <2>1, <2>2, <2>3 DEF Layered
<1>11. Recoverable' = Recoverable
  BY <1>4 DEF Recoverable
<1>12. \A i : \A k \in 1 .. N : Above(i, k)' <=> Above(i, k)
  <2>1. \A k \in 1 .. N : \A b \in 1 .. k - 1 : b \in 1 .. N
    BY <1>3
  <2> QED
    BY <1>4, <1>6, <2>1 DEF Above
<1>13. \A i : \A k \in 1 .. N : Held(i, k)' <=> Held(i, k)
  BY <1>4, <1>6, <1>12 DEF Held
<1>14. Replayed'
  <2>1. \A k \in 1 .. N : k \in 1 .. Len(Mem')
    BY <1>6, <1>3
  <2> QED
    BY <1>4, <1>5, <1>11, <1>13, <1>2, <2>1 DEF SeqInv, Replayed
<1>15. Behind'
  <2>1. ASSUME NEW a \in 1 .. N + 1 PROVE Few(Window(a))'
    <3>1. CASE a \in 1 .. N
      <4>1. Window(a)' = Window(a)
        BY <1>4, <1>6, <1>11, <1>12, <3>1 DEF Window
      <4>2. Few(Window(a))
        BY <1>2, <3>1 DEF SeqInv, Behind
      <4> QED
        BY <1>4, <4>1, <4>2 DEF Few
    <3>2. CASE a = N + 1
      <4>1. Window(a)' = {}
        BY <1>6, <3>2 DEF Window
      <4>2. {} \in SUBSET Keys /\ Cardinality({}) < MaxEntries
        BY FewNone
      <4> QED
        BY <4>1, <4>2 DEF Few
    <3> QED
      BY <1>7, <3>1, <3>2
  <2>2. Older' = Older
    BY <1>4, <1>11 DEF Older
  <2>3. Few(Older)'
    BY <1>4, <2>2 DEF SeqInv, Behind, Few
  <2>4. \A r \in sst : \E s \in Mem'[1] : r.seq <= s.seq
    <3>1. CASE N = 1
      BY <1>6, <1>2, <1>3, <3>1, RotateBehind
    <3>2. CASE N # 1
      <4>1. N >= 2 /\ Mem'[1] = Mem[1]
        BY <1>6, <1>3, <3>2
      <4> QED
        BY <1>2, <4>1 DEF SeqInv, Behind
    <3> QED
      BY <3>1, <3>2
  <2>5. worker'.pc \in {"recv", "flush"} /\ (\E r \in sst' : r.seq > walFlushed') =>
          /\ \A a \in 1 .. Len(Mem') : \A r \in Mem'[a] : r.first > walFlushed'
          /\ \A i \in Pending' : log'[i].first > walFlushed'
    BY <1>4, <1>5, <1>6, <1>8, <1>2 DEF SeqInv, Behind
  <2> QED
    BY <1>4, <1>6, <2>1, <2>3, <2>4, <2>5 DEF SeqInv, Behind
<1>16. Kept'
  <2>1. undone' = undone
    BY DEF Rotate, history
  <2> QED
    BY <1>4, <2>1 DEF SeqInv, Kept, Passed, Overrides, Needed
<1> QED
  BY <1>9, <1>10, <1>14, <1>15, <1>16 DEF SeqInv

(* Writing a table keeps the order: its records are above those written    *)
(* before.                                                                 *)
LEMMA SeqFlushToSSTable ==
    ASSUME BaseInv, SeqInv, FlushToSSTable
    PROVE  SeqInv'
<1>1. TypeOK
  BY DEF BaseInv
<1>2. /\ UNCHANGED <<seqGen, log, lost, walFlushed, client, undone>>
      /\ worker.pc = "flush" /\ worker'.pc = "wal"
  BY <1>1 DEF FlushToSSTable, history, TypeOK
<1>3. Mem' = Mem /\ Pending' = Pending /\ Up' = Up /\ sst' = sst \cup Mem[1]
  BY <1>1, <1>2, MemFlush, BaseFlushToSSTable DEF Pending, Up
<1>4. /\ walFlushed \in Nat /\ Len(log) \in Nat /\ Len(Mem) \in Nat /\ Len(Mem) >= 2
      /\ \A i \in 1 .. Len(log) : log[i].seq \in Nat
      /\ \A r \in Mem[1] : r.seq \in Nat
      /\ \A r \in sst : r.seq \in Nat
      /\ Recoverable \subseteq 1 .. Len(log)
  <2>1. Len(Mem) \in Nat /\ Len(Mem) >= 2
    BY <1>1, <1>2, MemFacts
  <2>2. 1 \in 1 .. Len(Mem)
    BY <2>1
  <2> QED
    BY <2>1, <2>2, SeqTypes
<1>5. Sequenced'
  BY <1>2, <1>3 DEF SeqInv, Sequenced
<1>6. Layered'
  BY <1>2, <1>3 DEF SeqInv, Layered
<1>7. Recoverable' = Recoverable /\ \A i, k : Above(i, k)' <=> Above(i, k)
  BY <1>2, <1>3 DEF Recoverable, Above
<1>8. \A i, k : Held(i, k)' <=> Held(i, k)
  BY <1>2, <1>3, <1>7 DEF Held
<1>9. Replayed'
  BY <1>2, <1>3, <1>7, <1>8 DEF SeqInv, Replayed
<1>10. Behind'
  <2>1. ASSUME NEW a \in 1 .. Len(Mem) PROVE Few(Window(a))'
    <3>1. Window(a)' = Window(a)
      BY <1>2, <1>3, <1>7 DEF Window
    <3> QED
      BY <1>2, <3>1 DEF SeqInv, Behind, Few
  <2>2. Few(Older)'
    <3>1. ASSUME NEW i \in Older' PROVE i \in Window(1)
      <4>1. i \in Recoverable /\ ~IsRange(log[i]) /\ \E r \in sst \cup Mem[1] : log[i].seq < r.seq
        BY <1>2, <1>3, <1>7 DEF Older
      <4>2. \A r \in sst : \E s \in Mem[1] : r.seq <= s.seq
        BY <1>4 DEF SeqInv, Behind
      <4>3. \E s \in Mem[1] : log[i].seq < s.seq
        BY <1>4, <4>1, <4>2, SMTT(40)
      <4>4. Above(i, 1)
        BY DEF Above
      <4> QED
        BY <4>1, <4>3, <4>4 DEF Window
    <3>2. Few(Window(1))
      BY <1>4 DEF SeqInv, Behind
    <3> QED
      BY <1>2, <3>1, <3>2 DEF Few
  <2>3. \A r \in sst' : \E s \in Mem[1] : r.seq <= s.seq
    BY <1>3, <1>4 DEF SeqInv, Behind
  <2> QED
    BY <1>2, <1>3, <2>1, <2>2, <2>3 DEF Behind
<1>11. Kept'
  <2> SUFFICES ASSUME NEW i \in 1 .. Len(log), i \notin lost, log[i].seq <= walFlushed
               PROVE  Passed(i)'
    BY <1>2 DEF Kept
  <2>1. Passed(i)
    BY DEF SeqInv, Kept
  <2>2. \A r \in Mem[1] : ~Hides(log[i], r)
    <3>1. \A r \in Mem[1] : walFlushed < r.seq
      BY <1>4 DEF SeqInv, Layered
    <3> QED
      BY <1>4, <3>1 DEF Hides
  <2>3. ~Needed(log[i], sst) => ~Needed(log[i], sst')
    BY <1>3, <2>2 DEF Needed
  <2> QED
    BY <1>2, <1>3, <2>1, <2>3 DEF Passed, Overrides
<1> QED
  BY <1>5, <1>6, <1>9, <1>10, <1>11 DEF SeqInv

(* When the WAL is told about a table, its watermark moves past it and     *)
(* stays below everything younger.                                         *)
LEMMA FlushedWatermark ==
    ASSUME BaseInv, SeqInv, worker.pc = "wal"
    PROVE  /\ MaxSeq(worker.tab) \in Nat /\ MaxSeq(worker.tab) > walFlushed
           /\ Mem[1] = worker.tab
           /\ \A r \in Mem[1] : r.seq <= MaxSeq(worker.tab)
           /\ \E r \in Mem[1] : r.seq = MaxSeq(worker.tab)
<1>1. TypeOK /\ log \in Seq(Record)
  BY DEF BaseInv, TypeOK
<1>2. Len(Mem) \in Nat /\ Len(Mem) >= 2 /\ Mem[1] = worker.tab
  BY <1>1, MemFacts
<1>3. InLog(worker.tab) /\ worker.tab # {}
  BY <1>2 DEF BaseInv, Stored, Filled, Points
<1>4. \A r \in worker.tab : \E i \in 1 .. Len(log) : r = log[i]
  BY <1>3 DEF InLog
<1>5. /\ MaxSeq(worker.tab) \in Nat
      /\ \A r \in worker.tab : r.seq <= MaxSeq(worker.tab)
      /\ \E r \in worker.tab : r.seq = MaxSeq(worker.tab)
  BY <1>1, <1>3, <1>4, MaxSeqFacts
<1>6. \A r \in worker.tab : walFlushed < r.seq
  BY <1>2 DEF SeqInv, Layered
<1> QED
  BY <1>2, <1>5, <1>6

(* Moving the watermark keeps the order: it passes the records of the      *)
(* table just written and no other.                                        *)
LEMMA SeqMemtableFlushed ==
    ASSUME BaseInv, SeqInv, MemtableFlushed
    PROVE  SeqInv'
<1>1. TypeOK
  BY DEF BaseInv
<1>2. /\ UNCHANGED <<seqGen, log, lost, sst, client, undone>>
      /\ worker.pc = "wal" /\ worker'.pc = "compact"
      /\ walFlushed' = MaxSeq(worker.tab)
  BY <1>1 DEF MemtableFlushed, history, TypeOK
<1>3. PICK N : N = Len(Mem)
  OBVIOUS
<1>4. PICK wf : wf = walFlushed'
  OBVIOUS
<1>5. Len(Mem') = N - 1 /\ (\A a \in 1 .. N - 1 : Mem'[a] = Mem[a + 1])
      /\ Pending' = Pending /\ Up' = Up
  BY <1>1, <1>2, <1>3, MemFlushed DEF Pending, Up
<1>6. /\ wf \in Nat /\ wf > walFlushed
      /\ \A r \in Mem[1] : r.seq <= wf
      /\ \E r \in Mem[1] : r.seq = wf
      /\ Mem[1] \subseteq sst
  BY <1>2, <1>4, FlushedWatermark DEF BaseInv, Filled
<1>7. /\ walFlushed \in Nat /\ Len(log) \in Nat /\ N \in Nat /\ N >= 2 /\ seqGen \in Nat
      /\ Pending \subseteq 1 .. Len(log)
      /\ \A i \in 1 .. Len(log) : log[i].seq \in Nat /\ log[i].first \in Nat
      /\ \A a \in 1 .. N : \A r \in Mem[a] :
            r.seq \in Nat /\ r.id \in 1 .. Len(log) /\ log[r.id] = r /\ r.id \notin lost
      /\ \A r \in sst : r.seq \in Nat
  BY <1>1, <1>2, <1>3, SeqTypes, MemFacts
<1>8. /\ \A a \in 2 .. N : \A r \in Mem[a] : wf < r.seq
      /\ \A i \in Pending : wf < log[i].seq
  <2>1. PICK m \in Mem[1] : m.seq = wf
    BY <1>6
  <2>2. ASSUME NEW a \in 2 .. N, NEW r \in Mem[a] PROVE wf < r.seq
    <3>1. 1 \in 1 .. N /\ a \in 1 .. N /\ 1 < a
      BY <1>7
    <3> QED
      BY <1>3, <2>1, <3>1 DEF SeqInv, Layered
  <2>3. ASSUME NEW i \in Pending PROVE wf < log[i].seq
    <3>1. 1 \in 1 .. N
      BY <1>7
    <3> QED
      BY <1>3, <2>1, <3>1 DEF SeqInv, Layered
  <2> QED
    BY <2>2, <2>3
<1>9. \A a \in 1 .. N - 1 : a \in 1 .. N /\ a + 1 \in 1 .. N /\ a + 1 \in 2 .. N
  BY <1>7
<1>10. Sequenced'
  <2>1. Up => wf <= seqGen
    <3>1. PICK m \in Mem[1] : m.seq = wf
      BY <1>6
    <3>2. 1 \in 1 .. N
      BY <1>7
    <3>3. m.id \in 1 .. Len(log) /\ log[m.id] = m /\ m.id \notin lost
      BY <1>7, <3>2
    <3> QED
      BY <3>1, <3>3 DEF SeqInv, Sequenced
  <2> QED
    BY <1>2, <1>5, <1>4, <2>1 DEF SeqInv, Sequenced
<1>11. Layered'
  <2>1. \A a \in 1 .. N - 1 : \A r \in Mem'[a] : wf < r.seq
    BY <1>5, <1>8, <1>9
  <2>2. ASSUME NEW a \in 1 .. N - 1, NEW b \in 1 .. N - 1, a < b,
               NEW r \in Mem'[a], NEW s \in Mem'[b]
        PROVE  r.seq < s.seq
    <3>1. r \in Mem[a + 1] /\ s \in Mem[b + 1] /\ a + 1 < b + 1
      BY <1>5, <2>2
    <3> QED
      BY <1>9, <1>3, <3>1 DEF SeqInv, Layered
  <2>3. \A i \in Pending : \A a \in 1 .. N - 1 : \A r \in Mem'[a] : r.seq < log[i].seq
    BY <1>5, <1>9, <1>3 DEF SeqInv, Layered
  <2> QED
    BY <1>2, <1>5, <1>8, <1>4, <2>1, <2>2, <2>3 DEF Layered
<1>12. Recoverable' \subseteq Recoverable /\ \A i \in Recoverable' : i \in 1 .. Len(log)
          /\ log[i].seq > wf
  BY <1>2, <1>6, <1>7, <1>4 DEF Recoverable
<1>13. ASSUME NEW i \in 1 .. Len(log), log[i].seq > wf, NEW a \in 1 .. N - 1
      PROVE  Above(i, a)' <=> Above(i, a + 1)
  <2>1. ASSUME Above(i, a + 1) PROVE Above(i, a)'
    <3>1. \A b \in 1 .. a - 1 : b \in 1 .. N - 1 /\ b + 1 \in 1 .. (a + 1) - 1
      BY <1>7
    <3> QED
      BY <1>2, <1>5, <2>1, <3>1 DEF Above
  <2>2. ASSUME Above(i, a)' PROVE Above(i, a + 1)
    <3> SUFFICES ASSUME NEW b \in 1 .. (a + 1) - 1, NEW r \in Mem[b] PROVE r.seq < log[i].seq
      BY DEF Above
    <3>1. CASE b = 1
      BY <1>6, <1>13, <1>7, <3>1
    <3>2. CASE b # 1
      <4>1. b - 1 \in 1 .. a - 1 /\ b - 1 \in 1 .. N - 1 /\ (b - 1) + 1 = b
        BY <1>7, <3>2
      <4>2. Mem'[b - 1] = Mem[b]
        BY <1>5, <4>1
      <4> QED
        BY <1>2, <2>2, <4>1, <4>2 DEF Above
    <3> QED
      BY <3>1, <3>2
  <2> QED
    BY <2>1, <2>2
<1>14. ASSUME NEW i \in 1 .. Len(log), log[i].seq > wf, NEW k \in 1 .. N, Held(i, k)
       PROVE  \E a \in 1 .. N - 1 : Held(i, a)'
  <2>1. k # 1
    <3> SUFFICES ASSUME k = 1 PROVE FALSE
      OBVIOUS
    <3>1. \E r \in Mem[1] : log[i].seq = r.seq \/ log[i].seq < r.seq
      BY <1>14 DEF Held, Points
    <3>2. \A r \in Mem[1] : r.seq \in Nat
      BY <1>7
    <3> QED
      BY <1>6, <1>14, <1>7, <3>1, <3>2
  <2>2. k - 1 \in 1 .. N - 1 /\ (k - 1) + 1 = k
    BY <1>7, <2>1
  <2>3. Mem'[k - 1] = Mem[k]
    BY <1>5, <2>2
  <2>4. Above(i, k - 1)'
    BY <1>13, <1>14, <2>2 DEF Held
  <2>5. Held(i, k - 1)'
    BY <1>2, <1>14, <2>3, <2>4 DEF Held
  <2> QED
    BY <2>2, <2>5
<1>15. Replayed'
  <2> SUFFICES ASSUME Up
               PROVE  /\ \A i \in Recoverable' : i \in Pending \/ \E k \in 1 .. N - 1 : Held(i, k)'
                      /\ \A i \in 1 .. Len(log) : i \notin lost /\ log[i].seq > wf =>
                            log[i] \in sst \/ i \in Pending \/ \E k \in 1 .. N - 1 : Held(i, k)'
    BY <1>2, <1>5, <1>4 DEF Replayed
  <2>1. \A i \in Recoverable' : i \in Pending \/ \E k \in 1 .. N - 1 : Held(i, k)'
    BY <1>12, <1>14, <1>3 DEF SeqInv, Replayed
  <2>2. \A i \in 1 .. Len(log) : log[i].seq > wf => log[i].seq > walFlushed
    BY <1>6, <1>7
  <2> QED
    BY <1>14, <1>3, <2>1, <2>2 DEF SeqInv, Replayed
<1>16. Behind'
  <2>1. ASSUME NEW a \in 1 .. N - 1 PROVE Few(Window(a))'
    <3>1. ASSUME NEW i \in Window(a)' PROVE i \in Window(a + 1)
      <4>1. i \in Recoverable' /\ ~IsRange(log[i]) /\ Above(i, a)'
               /\ \E r \in Mem[a + 1] : log[i].seq < r.seq
        BY <1>2, <1>5 DEF Window
      <4>2. Above(i, a + 1)
        BY <1>12, <1>13, <4>1
      <4> QED
        BY <1>12, <4>1, <4>2 DEF Window
    <3>2. Few(Window(a + 1))
      BY <1>9, <1>3 DEF SeqInv, Behind
    <3> QED
      BY <1>2, <3>1, <3>2 DEF Few
  <2>2. Few(Older)'
    <3>1. Older' \subseteq Older
      BY <1>2, <1>12 DEF Older
    <3> QED
      BY <1>2, <3>1 DEF SeqInv, Behind, Few
  <2>3. \A r \in sst : r.seq <= wf
    <3>1. \A r \in sst : \E s \in Mem[1] : r.seq <= s.seq
      BY <1>3, <1>7 DEF SeqInv, Behind
    <3>2. \A r \in Mem[1] : r.seq \in Nat
      BY <1>7
    <3> QED
      BY <1>6, <1>7, <3>1, <3>2
  <2>4. N - 1 >= 2 => \A r \in sst : \E s \in Mem'[1] : r.seq <= s.seq
    <3> SUFFICES ASSUME N - 1 >= 2 PROVE \E s \in Mem'[1] : wf < s.seq /\ s.seq \in Nat
      BY <1>6, <1>7, <2>3
    <3>1. 2 \in 1 .. N - 1 /\ 2 \in 2 .. N /\ 2 \in 1 .. N /\ 1 \in 1 .. N - 1
      BY <1>7
    <3>2. Mem'[1] = Mem[2]
      BY <1>5, <3>1
    <3>3. Points(Mem[2]) # {}
      BY <1>3, <3>1 DEF BaseInv, Filled
    <3> QED
      BY <1>8, <1>7, <3>1, <3>2, <3>3 DEF Points
  <2> QED
    BY <1>2, <1>5, <1>4, <2>1, <2>2, <2>3, <2>4 DEF Behind
<1>17. Kept'
  <2> SUFFICES ASSUME NEW i \in 1 .. Len(log), i \notin lost, log[i].seq <= wf
               PROVE  Passed(i)'
    BY <1>2, <1>4 DEF Kept
  <2>1. CASE log[i].seq <= walFlushed
    <3>1. Passed(i)
      BY <2>1 DEF SeqInv, Kept
    <3>2. CASE \/ log[i] \in sst
               \/ log[i].op # "Put" /\ ~Needed(log[i], sst)
               \/ Leveled /\ IsRange(log[i]) /\ i \in undone
      BY <1>2, <3>2 DEF Passed, Needed
    <3>3. CASE \E j \in 1 .. Len(log) : j \notin lost /\ log[j].seq <= walFlushed /\ Overrides(j, i)
      <4>1. PICK j \in 1 .. Len(log) : j \notin lost /\ log[j].seq <= walFlushed /\ Overrides(j, i)
        BY <3>3
      <4>2. log[j].seq <= walFlushed'
        BY <1>6, <1>7, <1>4, <4>1
      <4> QED
        BY <1>2, <4>1, <4>2 DEF Passed, Overrides
    <3> QED
      BY <3>1, <3>2, <3>3 DEF Passed
  <2>2. CASE log[i].seq > walFlushed
    <3>1. Up
      BY <1>2 DEF BaseInv, Quiet
    <3>2. i \notin Pending
      BY <1>6, <1>8, <1>7
    <3>3. CASE log[i] \in sst
      BY <1>2, <3>3 DEF Passed
    <3>4. CASE \E k \in 1 .. N : Held(i, k)
      <4>1. PICK k \in 1 .. N : Held(i, k)
        BY <3>4
      <4>2. k = 1
        <5> SUFFICES ASSUME k # 1 PROVE FALSE
          OBVIOUS
        <5>1. 1 \in 1 .. k - 1
          BY <1>7
        <5>2. \A r \in Mem[1] : r.seq < log[i].seq
          BY <4>1, <5>1 DEF Held, Above
        <5> QED
          BY <1>6, <1>7, <5>2
      <4>3. CASE log[i] \in Mem[1]
        BY <1>2, <1>6, <4>3 DEF Passed
      <4>4. CASE /\ ~IsRange(log[i])
                 /\ \E r \in Points(Mem[1]) : r.key = log[i].key /\ log[i].seq < r.seq
        <5>1. PICK r \in Points(Mem[1]) : r.key = log[i].key /\ log[i].seq < r.seq
          BY <4>4
        <5>2. /\ r \in Mem[1] /\ ~IsRange(r) /\ r.seq <= wf /\ r.seq \in Nat
              /\ r.id \in 1 .. Len(log) /\ log[r.id] = r /\ r.id \notin lost
          BY <1>6, <1>7, SMTT(40) DEF Points
        <5>3. r.id > i
          <6>1. ~(r.id < i) /\ r.id # i
            BY <1>7, <5>1, <5>2 DEF SeqInv, Sequenced
          <6> QED
            BY <1>7, <5>2, <6>1
        <5>4. Overrides(r.id, i)
          BY <4>4, <5>1, <5>2, <5>3 DEF Overrides
        <5> QED
          BY <1>2, <1>4, <5>2, <5>4 DEF Passed, Overrides
      <4> QED
        BY <4>1, <4>2, <4>3, <4>4 DEF Held
    <3> QED
      BY <1>3, <2>2, <3>1, <3>2, <3>3, <3>4 DEF SeqInv, Replayed
  <2> QED
    BY <1>7, <2>1, <2>2
<1> QED
  BY <1>10, <1>11, <1>15, <1>16, <1>17 DEF SeqInv

(* Compaction keeps the order and drops only what a newer record hides.    *)
LEMMA SeqCompact ==
    ASSUME BaseInv, SeqInv, Compact
    PROVE  SeqInv'
<1>1. TypeOK
  BY DEF BaseInv
<1>2. /\ UNCHANGED <<seqGen, log, lost, walFlushed, client>>
      /\ worker.pc = "compact" /\ worker'.pc = "recv"
  BY DEF Compact
<1>3. Mem' = Mem /\ Pending' = Pending /\ Up' = Up /\ sst' \subseteq sst
  BY <1>1, <1>2, MemCompact, BaseCompact DEF Pending, Up
<1>4. /\ walFlushed \in Nat /\ Len(log) \in Nat
      /\ \A i \in 1 .. Len(log) : log[i].seq \in Nat
      /\ \A r \in sst : r.seq \in Nat /\ r.id \in 1 .. Len(log) /\ log[r.id] = r /\ r.id \notin lost
  BY SeqTypes
<1>5. \A r \in sst : r.seq <= walFlushed
  BY <1>2 DEF SeqInv, Behind
<1>6. Sequenced'
  BY <1>2, <1>3 DEF SeqInv, Sequenced
<1>7. Layered'
  BY <1>2, <1>3 DEF SeqInv, Layered
<1>8. Recoverable' = Recoverable /\ \A i, k : Above(i, k)' <=> Above(i, k)
  BY <1>2, <1>3 DEF Recoverable, Above
<1>9. \A i, k : Held(i, k)' <=> Held(i, k)
  BY <1>2, <1>3, <1>8 DEF Held
<1>10. Replayed'
  <2>1. \A i \in 1 .. Len(log) : log[i].seq > walFlushed => log[i] \notin sst
    BY <1>5, <1>4
  <2> QED
    BY <1>2, <1>3, <1>8, <1>9, <2>1 DEF SeqInv, Replayed
<1>11. Behind'
  <2>1. ASSUME NEW a \in 1 .. Len(Mem) PROVE Few(Window(a))'
    <3>1. Window(a)' = Window(a)
      BY <1>2, <1>3, <1>8 DEF Window
    <3> QED
      BY <1>2, <3>1 DEF SeqInv, Behind, Few
  <2>2. Few(Older)'
    <3>1. Older' \subseteq Older
      BY <1>2, <1>3, <1>8 DEF Older
    <3> QED
      BY <1>2, <3>1 DEF SeqInv, Behind, Few
  <2>3. \A r \in sst' : ~(r.seq > walFlushed)
    BY <1>3, <1>5, <1>4
  <2> QED
    BY <1>2, <1>3, <2>1, <2>2, <2>3 DEF SeqInv, Behind
<1>12. Kept'
  <2> SUFFICES ASSUME NEW i \in 1 .. Len(log), i \notin lost, log[i].seq <= walFlushed
               PROVE  Passed(i)'
    BY <1>2 DEF Kept
  <2>1. Passed(i)
    BY DEF SeqInv, Kept
  <2>2. CASE log[i] \in sst
    <3>1. PICK D \in SUBSET {r \in sst : \E s \in sst : Hides(s, r)} :
             \E E \in SUBSET Droppable(sst \ D) :
                 /\ sst' = IF sst \ D = E THEN sst ELSE (sst \ D) \ E
                 /\ undone' = undone \cup {t.id : t \in {u \in E : Needed(u, (sst \ D) \ E)}}
      BY DEF Compact
    <3>2. PICK E \in SUBSET Droppable(sst \ D) :
                 /\ sst' = IF sst \ D = E THEN sst ELSE (sst \ D) \ E
                 /\ undone' = undone \cup {t.id : t \in {u \in E : Needed(u, (sst \ D) \ E)}}
      BY <3>1
    <3>3. CASE log[i] \in D
      <4>1. PICK s \in sst : Hides(s, log[i])
        BY <3>3
      <4>2. /\ s.seq > log[i].seq /\ ~IsRange(log[i])
            /\ IF IsRange(s) THEN log[i].key \in s.keys ELSE s.key = log[i].key
        BY <4>1 DEF Hides
      <4>3. s.id \in 1 .. Len(log) /\ log[s.id] = s /\ s.id \notin lost /\ s.seq <= walFlushed
        BY <1>5, <1>4
      <4>4. s.id > i
        <5>1. ~(s.id < i) /\ s.id # i
          BY <1>4, <4>2, <4>3 DEF SeqInv, Sequenced
        <5> QED
          BY <1>4, <4>3, <5>1
      <4>5. Overrides(s.id, i)
        BY <4>2, <4>3, <4>4 DEF Overrides
      <4> QED
        BY <1>2, <4>3, <4>5 DEF Passed, Overrides
    <3>4. CASE log[i] \notin D /\ log[i] \notin sst'
      <4>1. log[i] \in E /\ sst' = (sst \ D) \ E
        BY <2>2, <3>2, <3>4
      <4>2. /\ log[i].op # "Put"
            /\ ~Needed(log[i], sst \ D) \/ (Leveled /\ IsRange(log[i]))
        BY <4>1 DEF Droppable
      <4>3. CASE ~Needed(log[i], sst')
        BY <1>2, <4>2, <4>3 DEF Passed
      <4>4. CASE Needed(log[i], sst')
        <5>1. Needed(log[i], sst \ D)
          BY <4>1, <4>4 DEF Needed
        <5>2. log[i].id = i
          BY DEF BaseInv, Stored
        <5>3. i \in undone'
          BY <3>2, <4>1, <4>4, <5>2
        <5> QED
          BY <1>2, <4>2, <5>1, <5>3 DEF Passed
      <4> QED
        BY <4>3, <4>4
    <3> QED
      BY <1>2, <3>3, <3>4 DEF Passed
  <2>3. CASE log[i].op # "Put" /\ ~Needed(log[i], sst)
    <3>1. ~Needed(log[i], sst')
      BY <1>3, <2>3 DEF Needed
    <3> QED
      BY <1>2, <2>3, <3>1 DEF Passed
  <2>4. CASE \E j \in 1 .. Len(log) : j \notin lost /\ log[j].seq <= walFlushed /\ Overrides(j, i)
    BY <1>2, <2>4 DEF Passed, Overrides
  <2>5. CASE Leveled /\ IsRange(log[i]) /\ i \in undone
    <3>1. undone \subseteq undone'
      BY DEF Compact
    <3> QED
      BY <1>2, <2>5, <3>1 DEF Passed
  <2> QED
    BY <2>1, <2>2, <2>3, <2>4, <2>5 DEF Passed
<1> QED
  BY <1>6, <1>7, <1>10, <1>11, <1>12 DEF SeqInv

(* A crash keeps the order: what the tables held is above the watermark    *)
(* and so in the log.                                                      *)
LEMMA SeqStop ==
    ASSUME BaseInv, SeqInv, Stop, crashes' \in 0 .. MaxCrashes
    PROVE  SeqInv'
<1>1. UNCHANGED <<log, lost, walFlushed, sst, undone>> /\ worker'.pc = "recv"
  BY DEF Stop, persistent
<1>2. Len(Mem') = 1 /\ Mem'[1] = {} /\ Pending' = {} /\ ~Up'
  <2>1. client'.pc = "down"
    BY IdleFacts DEF Stop
  <2> QED
    BY <2>1, MemStop, BaseStop DEF Up
<1>3. \A a \in 1 .. Len(Mem') : Mem'[a] = {}
  <2>1. \A a \in 1 .. 1 : a = 1
    OBVIOUS
  <2> QED
    BY <1>2, <2>1, Zenon
<1>4. Sequenced'
  BY <1>1, <1>2 DEF SeqInv, Sequenced
<1>5. Layered'
  BY <1>2, <1>3 DEF Layered
<1>6. Replayed'
  BY <1>2 DEF Replayed
<1>7. Behind'
  <2>1. ASSUME NEW a \in 1 .. Len(Mem') PROVE Few(Window(a))'
    <3>1. Window(a)' = {}
      BY <1>3 DEF Window
    <3>2. {} \in SUBSET Keys /\ Cardinality({}) < MaxEntries
      BY FewNone
    <3> QED
      BY <3>1, <3>2 DEF Few
  <2>2. Older' = Older
    BY <1>1 DEF Older, Recoverable
  <2>3. Few(Older)'
    BY <1>1, <2>2 DEF SeqInv, Behind, Few
  <2> QED
    BY <1>1, <1>2, <1>3, <2>1, <2>3 DEF Behind
<1>8. Kept'
  BY <1>1 DEF SeqInv, Kept, Passed, Overrides, Needed
<1> QED
  BY <1>4, <1>5, <1>6, <1>7, <1>8 DEF SeqInv

(* A restart that does not regress: the generator is ahead of all that was *)
(* not dropped, and what recovery dropped the watermark had not passed.    *)
LEMMA SeqRestart ==
    ASSUME BaseInv, SeqInv, Restart, ~regressed'
    PROVE  SeqInv'
<1>1. TypeOK /\ Quiet /\ InLog(sst)
  BY DEF BaseInv, Stored
<1>2. /\ UNCHANGED <<log, walFlushed, sst, active, immutable, worker>>
      /\ worker.pc = "recv"
      /\ Len(Mem) = 1 /\ Mem[1] = {} /\ Mem' = Mem
      /\ Pending' = Recoverable
      /\ client'.pc \in {"ready", "apply"}
      /\ lost' = lost \cup {i \in 1 .. Len(log) : Cut(i)}
  BY <1>1, RestartFacts
<1>3. /\ walFlushed \in Nat /\ Len(log) \in Nat
      /\ \A i \in 1 .. Len(log) : log[i].seq \in Nat /\ log[i].first \in Nat
      /\ \A r \in sst : r.seq \in Nat
      /\ Recoverable \subseteq 1 .. Len(log)
  BY SeqTypes
<1>4. Up'
  BY <1>2 DEF Up
<1>5. \A a \in 1 .. Len(Mem) : Mem[a] = {}
  <2>1. \A a \in 1 .. 1 : a = 1
    OBVIOUS
  <2> QED
    BY <1>2, <2>1, Zenon
<1>6. Recoverable' = Recoverable
  BY <1>2 DEF Recoverable
<1>7. \A i \in 1 .. Len(log) : \/ i \in Recoverable
                               \/ log[i].seq <= walFlushed
                               \/ log[i] \in sst
                               \/ i \in lost'
  BY <1>2, <1>3 DEF Recoverable, Cut
<1>8. /\ seqGen' \in Nat /\ walFlushed <= seqGen'
      /\ \A i \in Recoverable : log[i].seq <= seqGen'
      /\ \A r \in sst : r.seq <= seqGen'
  <2>. DEFINE n == MaxSeq({log[i] : i \in Recoverable})
              m == LoadedMaxSeqId
              x == MaxSeq(sst)
  <2>1. /\ seqGen' = IF n > m THEN n ELSE m
        /\ ~(seqGen' < walFlushed) /\ ~(seqGen' < x)
    BY DEF Restart
  <2>2. /\ n \in Nat /\ m \in Nat /\ x \in Nat
        /\ \A r \in sst : r.seq <= x
        /\ \A i \in Recoverable : log[i].seq <= n
    BY <1>1, RestartSeqs
  <2>. HIDE DEF n, m, x
  <2>3. seqGen' \in Nat /\ walFlushed <= seqGen' /\ n <= seqGen' /\ x <= seqGen'
    BY <1>3, <2>1, <2>2
  <2> QED
    BY <1>3, <2>2, <2>3
<1>9. Sequenced'
  <2>1. \A i \in 1 .. Len(log) : i \notin lost' => log[i].seq <= seqGen'
    BY <1>7, <1>8, <1>3
  <2> QED
    BY <1>2, <1>8, <2>1 DEF SeqInv, Sequenced
<1>10. Layered'
  <2>1. \A i \in Recoverable : walFlushed < log[i].seq
    BY DEF Recoverable
  <2> QED
    BY <1>2, <1>5, <2>1 DEF Layered
<1>11. Replayed'
  <2>1. \A i \in 1 .. Len(log) : i \notin lost' /\ log[i].seq > walFlushed =>
           log[i] \in sst \/ i \in Recoverable
    BY <1>7, <1>3
  <2> QED
    BY <1>2, <1>6, <2>1 DEF Replayed
<1>12. Behind'
  <2>1. ASSUME NEW a \in 1 .. Len(Mem') PROVE Few(Window(a))'
    <3>1. Window(a)' = {}
      BY <1>2, <1>5 DEF Window
    <3>2. {} \in SUBSET Keys /\ Cardinality({}) < MaxEntries
      BY FewNone
    <3> QED
      BY <3>1, <3>2 DEF Few
  <2>2. Older' = Older
    BY <1>2, <1>6 DEF Older
  <2>3. Few(Older)'
    BY <1>2, <2>2 DEF SeqInv, Behind, Few
  <2>4. \A i \in Recoverable : log[i].first > walFlushed
    BY DEF Recoverable
  <2>5. ~(Len(Mem') >= 2) /\ worker'.pc # "compact"
    <3>1. Len(Mem') = 1 /\ worker'.pc = "recv"
      BY <1>2, Zenon
    <3>2. ~(1 >= 2) /\ "recv" # "compact"
      OBVIOUS
    <3> QED
      BY <3>1, <3>2, Zenon
  <2>6. /\ \A a \in 1 .. Len(Mem') : \A r \in Mem'[a] : r.first > walFlushed'
        /\ \A i \in Pending' : log'[i].first > walFlushed'
    BY <1>2, <1>5, <2>4
  <2> QED
    BY <2>1, <2>3, <2>5, <2>6 DEF Behind
<1>13. Kept'
  <2> SUFFICES ASSUME NEW i \in 1 .. Len(log), i \notin lost, log[i].seq <= walFlushed
               PROVE  Passed(i)'
    BY <1>2 DEF Kept
  <2>1. Passed(i)
    BY DEF SeqInv, Kept
  <2>2. \A j \in 1 .. Len(log) : j \notin lost /\ log[j].seq <= walFlushed => j \notin lost'
    BY <1>2, <1>3 DEF Cut
  <2> QED
    <3>1. undone' = undone
      BY DEF Restart
    <3> QED
      BY <1>2, <2>1, <2>2, <3>1 DEF Passed, Overrides, Needed
<1> QED
  BY <1>9, <1>10, <1>11, <1>12, <1>13 DEF SeqInv

-----------------------------------------------------------------------------
(* The theorems.                                                           *)

(* The invariant holds initially.                                          *)
LEMMA InvInit == Init => Inv
<1> SUFFICES ASSUME Init PROVE Inv
  OBVIOUS
<1>1. BaseInv /\ TypeOK
  BY BaseInit DEF BaseInv
<1>2. log = <<>> /\ sst = {} /\ active = {} /\ immutable = <<>> /\ worker.pc = "recv"
      /\ walFlushed = 0 /\ seqGen = 0 /\ Len(log) = 0
  BY DEF Init
<1>3. 1 .. Len(log) = {}
  BY <1>2
<1>4. Pending = {} /\ Recoverable = {}
  BY <1>3, IdleFacts DEF Init, Pending, Recoverable
<1>5. Len(Mem) = 1 /\ Mem[1] = {}
  <2>1. /\ worker \in WorkerType /\ worker.pc = "recv"
        /\ immutable \in Seq(SUBSET Record) /\ active \in SUBSET Record
    BY <1>1, <1>2 DEF TypeOK, WorkerType
  <2>2. Len(Mem) = 0 + Len(immutable) + 1
    BY <2>1, MemShape DEF Mem
  <2>3. Len(Mem) = 1
    BY <1>2, <2>2
  <2> QED
    BY <1>1, <1>2, <2>3, MemFacts
<1>6. \A a \in 1 .. Len(Mem) : Mem[a] = {}
  <2>1. \A a \in 1 .. 1 : a = 1
    OBVIOUS
  <2> QED
    BY <1>5, <2>1, Zenon
<1>7. Sequenced
  BY <1>2, <1>3 DEF Sequenced
<1>8. Layered
  BY <1>4, <1>6 DEF Layered
<1>9. Replayed
  BY <1>3, <1>4 DEF Replayed
<1>10. Behind
  <2>1. (\A a : Window(a) = {}) /\ Older = {}
    BY <1>4 DEF Window, Older
  <2>2. {} \in SUBSET Keys /\ Cardinality({}) < MaxEntries
    BY FewNone
  <2>3. Few({})
    BY <2>2 DEF Few
  <2> QED
    BY <1>2, <1>4, <1>5, <1>6, <2>1, <2>3 DEF Behind
<1>11. Kept
  BY <1>3 DEF Kept
<1> QED
  BY <1>1, <1>7, <1>8, <1>9, <1>10, <1>11 DEF Inv, SeqInv

(* Every step keeps the invariant; a restart that regresses the generator  *)
(* ends the part about sequence numbers.                                   *)
LEMMA InvStep ==
    ASSUME Inv, [Next]_vars
    PROVE  Inv'
<1>1. BaseInv /\ BaseInv'
  BY BaseStep, SMTT(40) DEF Inv
<1>2. regressed' = FALSE => regressed = FALSE
  BY <1>1, ZenonT(60) DEF BaseInv, TypeOK, Next, vars, volatile, persistent, history, Write,
        RangeDelete,
     WalAppend, Apply, Rotate, UpdateCache, GetFromMemtable, GetFromCache, GetMiss, GetFromSST,
     GetCheckRangeDel, TakeImmutable, FlushToSSTable, MemtableFlushed, Compact, WorkerPanics,
     Crash, Stop, Restart
<1> SUFFICES ASSUME ~regressed' PROVE SeqInv'
  BY <1>1 DEF Inv
<1>3. SeqInv
  BY <1>1, <1>2 DEF Inv, BaseInv, TypeOK
<1>4. CASE \E ks \in Batches, op \in {"Put", "Del"} : Write(ks, op)
  BY <1>1, <1>3, <1>4, WriteAppends, SeqAppend DEF BaseInv
<1>5. CASE \E rng \in Ranges : RangeDelete(rng)
  BY <1>1, <1>3, <1>5, RangeDeleteAppends, SeqAppend DEF BaseInv
<1>6. CASE Apply
  BY <1>1, <1>3, <1>6, SeqApply
<1>7. CASE Rotate
  BY <1>1, <1>3, <1>7, SeqRotate
<1>8. CASE ClientOnly
  <2>1. /\ UNCHANGED <<seqGen, active, immutable, worker, log, walFlushed, sst, lost, undone>>
        /\ Pending' = Pending /\ client.pc # "down" /\ client'.pc # "down"
    BY <1>1, <1>8, ClientOnlyFacts
  <2>2. Mem' = Mem /\ Up' = Up
    BY <2>1 DEF Mem, Up
  <2> QED
    BY <1>3, <2>1, <2>2, SeqFrame
<1>9. CASE TakeImmutable
  <2>1. /\ UNCHANGED <<seqGen, log, walFlushed, sst, lost, client, undone>>
        /\ worker.pc = "recv" /\ worker'.pc = "flush"
    BY <1>9 DEF TakeImmutable, persistent, history
  <2>2. Mem' = Mem /\ Up' = Up /\ Pending' = Pending
    BY <1>1, <1>9, <2>1, MemTake DEF Up, Pending, BaseInv
  <2> QED
    BY <1>3, <2>1, <2>2, SeqFrame
<1>10. CASE FlushToSSTable
  BY <1>1, <1>3, <1>10, SeqFlushToSSTable
<1>11. CASE MemtableFlushed
  BY <1>1, <1>3, <1>11, SeqMemtableFlushed
<1>12. CASE Compact
  BY <1>1, <1>3, <1>12, SeqCompact
<1>13. CASE WorkerPanics \/ Crash
  <2>1. Stop /\ crashes' \in 0 .. MaxCrashes
    BY <1>1, <1>13, BoundsAssumption DEF WorkerPanics, Crash, BaseInv, TypeOK
  <2> QED
    BY <1>1, <1>3, <2>1, SeqStop
<1>14. CASE Restart
  BY <1>1, <1>3, <1>14, SeqRestart
<1>15. CASE UNCHANGED vars
  <2>1. UNCHANGED <<volatile, persistent, history>>
    BY <1>15 DEF vars
  <2>2. UNCHANGED <<seqGen, log, walFlushed, sst, lost, client, worker, immutable, active, undone>>
    BY <2>1 DEF volatile, persistent, history
  <2>3. Mem' = Mem /\ Up' = Up /\ Pending' = Pending
    BY <2>2 DEF Mem, Up, Pending
  <2> QED
    BY <1>3, <2>2, <2>3, SeqFrame
<1> QED
  BY <1>4, <1>5, <1>6, <1>7, <1>8, <1>9, <1>10, <1>11, <1>12, <1>13, <1>14, <1>15
     DEF Next, ClientOnly

(* As long as no restart has set the generator back, the invariant holds.  *)
LEMMA Invariance == Spec => []Inv
<1>1. Inv /\ [Next]_vars => Inv'
  BY InvStep
<1> QED
  BY <1>1, InvInit, PTL DEF Spec

(* Sequence numbers follow the log, and engine.MemtableFlushed never       *)
(* panics: the watermark of the WAL moves forward with every flush, also   *)
(* with the flushes of what recovery replays.                              *)
THEOREM OrderKept == Spec => []LogOrdered
<1>1. Inv => LogOrdered
  BY FlushedWatermark DEF Inv, SeqInv, Sequenced, LogOrdered
<1> QED
  BY <1>1, Invariance, PTL

(* Durability: every acknowledged write that is not overridden, and whose  *)
(* batch the watermark has not cut, is found by the next recovery.         *)
THEOREM DurableAlways == Spec => []Durable
<1>1. Inv => Durable
  <2> SUFFICES ASSUME Inv, ~regressed, NEW i \in acked \ lost
               PROVE  Superseded(i) \/ Cut(i) \/ Survives(i) \/ (Leveled /\ i \in undone)
    BY DEF Durable
  <2>1. BaseInv /\ SeqInv
    BY DEF Inv
  <2>2. /\ walFlushed \in Nat
        /\ \A j \in 1 .. Len(log) : log[j].seq \in Nat /\ log[j].first \in Nat
    BY <2>1, SeqTypes
  <2>3. i \in 1 .. Len(log) /\ i \notin lost
    BY <2>1 DEF BaseInv, TypeOK
  <2>4. CASE log[i].seq <= walFlushed
    <3>1. Passed(i)
      BY <2>1, <2>3, <2>4 DEF SeqInv, Kept
    <3>2. \A j \in 1 .. Len(log) : log[j].seq <= walFlushed => ~Cut(j)
      BY <2>2 DEF Cut
    <3> QED
      BY <3>1, <3>2 DEF Passed, Superseded, Survives
  <2>5. CASE log[i].seq > walFlushed
    BY <2>2, <2>3, <2>5 DEF Recoverable, Cut, Survives
  <2> QED
    BY <2>2, <2>3, <2>4, <2>5
<1> QED
  BY <1>1, Invariance, PTL
=============================================================================
