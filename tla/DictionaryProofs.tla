--------------------------- MODULE DictionaryProofs ---------------------------
(***************************************************************************)
(* Engine implements KVStore: every step of the engine is a step of the    *)
(* dictionary or changes nothing of it.                                    *)
(*                                                                         *)
(* The read path promises this only where three things the code does not   *)
(* cover cannot happen (see Undisturbed).  Within these limits it holds    *)
(* for any number of keys, memtable sizes, flushes, compactions and        *)
(* crashes.                                                                *)
(***************************************************************************)
EXTENDS EngineProofs

(* Range deletes leave the values of covered keys in the read cache, the   *)
(* watermark may cut a batch, and a table the worker holds is out of the   *)
(* readers' sight, which only the read cache hides: so no range deletes,   *)
(* single writes, and a cache with room for every key.                     *)
Undisturbed == Ranges = {} /\ MaxBatch = 1 /\ Cardinality(Keys) <= CacheSize

-----------------------------------------------------------------------------
(* The invariant.                                                          *)

Distinct(c) == \A i, j \in 1 .. Len(c) : c[i].key = c[j].key => i = j

(* Single point writes, of which recovery drops none; a key is cached at   *)
(* most once, and a dead process has no cache.                             *)
Plain ==
    /\ lost = {}
    /\ \A i \in 1 .. Len(log) : log[i].first = log[i].seq /\ ~IsRange(log[i])
    /\ Distinct(cache)
    /\ client.pc = "down" => cache = <<>>

(* What is to be applied is an end of the log.                             *)
Suffix == \A i \in client.todo : \A j \in 1 .. Len(log) : i <= j => j \in client.todo

(* A memtable holds one version of a key.                                  *)
OneEach == \A a \in 1 .. Len(Mem) : \A r, s \in Mem[a] : r.key = s.key => r = s

(* The key of the record that has entered the active memtable last, while  *)
(* the read cache does not have its value yet.                             *)
InHand(k) == \E i \in client.todo \ Pending : log[i].key = k

(* A key in a memtable is in the read cache, or is about to be.            *)
Shadowed == \A a \in 1 .. Len(Mem) : \A r \in Mem[a] : CacheHas(cache, r.key) \/ InHand(r.key)

(* The read cache has the current value of a key without a pending write.  *)
Current ==
    \A n \in 1 .. Len(cache) : \A k \in Keys :
        cache[n].key = k => \/ \E i \in client.todo : log[i].key = k
                            \/ cache[n].val = DictVal(k)

(* A read goes to the SSTables for keys that are not cached, and what it   *)
(* found there is still current when it looks at the memtables again.      *)
Reading ==
    \A k \in Keys : client.key = k =>
        /\ client.pc = "sst" => ~CacheHas(cache, k)
        /\ client.pc = "cover" => client.val = DictVal(k)

Coherent == Suffix /\ OneEach /\ Shadowed /\ Current /\ Reading

DictInv == Plain /\ (~regressed => Coherent)

-----------------------------------------------------------------------------
(* The read cache.                                                         *)

(* Removing a cached key (lru.go, Put) shifts the entries after it.        *)
LEMMA CacheWithoutElements ==
    ASSUME NEW c \in Seq(CacheEntry), NEW k, CacheHas(c, k)
    PROVE  \E i \in 1 .. Len(c) :
              /\ c[i].key = k
              /\ Len(CacheWithout(c, k)) = Len(c) - 1
              /\ \A j \in 1 .. Len(c) - 1 :
                    CacheWithout(c, k)[j] = IF j < i THEN c[j] ELSE c[j + 1]
<1>. DEFINE i == CHOOSE i \in 1 .. Len(c) : c[i].key = k
            a == SubSeq(c, 1, i - 1)
            b == SubSeq(c, i + 1, Len(c))
<1>1. i \in 1 .. Len(c) /\ c[i].key = k
  BY DEF CacheHas
<1>2. CacheWithout(c, k) = a \o b
  BY DEF CacheWithout
<1>. HIDE DEF i
<1>3. Len(c) \in Nat /\ \A j \in 1 .. Len(c) : c[j] \in CacheEntry
  BY ElementOfSeq
<1>4. a \in Seq(CacheEntry) /\ Len(a) = i - 1 /\ \A j \in 1 .. i - 1 : a[j] = c[j]
  <2>1. \A j \in 1 .. i - 1 : c[j] \in CacheEntry
    BY <1>1, <1>3
  <2>2. 1 \in Int /\ i - 1 \in Int /\ 1 <= i
    BY <1>1
  <2>3. \A j \in 1 .. i - 1 : 1 + j - 1 = j
    BY <1>1
  <2> QED
    BY <1>1, <1>3, <2>1, <2>2, <2>3, SubSeqProperties
<1>5. /\ b \in Seq(CacheEntry) /\ Len(b) = Len(c) - i
      /\ \A j \in 1 .. Len(c) - i : b[j] = c[i + j]
  <2>1. \A j \in i + 1 .. Len(c) : c[j] \in CacheEntry
    BY <1>1, <1>3
  <2>2. \A j \in 1 .. Len(c) - i : i + 1 + j - 1 = i + j
    BY <1>1
  <2>3. b \in Seq(CacheEntry) /\ Len(b) = Len(c) - i
    BY <1>1, <1>3, <2>1, SubSeqProperties
  <2> QED
    BY <1>1, <1>3, <2>1, <2>2, <2>3, SubSeqProperties
<1>. HIDE DEF a, b
<1>6. /\ Len(a \o b) = Len(a) + Len(b)
      /\ \A j \in 1 .. Len(a) + Len(b) : (a \o b)[j] = IF j <= Len(a) THEN a[j] ELSE b[j - Len(a)]
  BY <1>4, <1>5, ConcatProperties
<1>7. Len(a) + Len(b) = Len(c) - 1
  BY <1>1, <1>3, <1>4, <1>5
<1>8. ASSUME NEW j \in 1 .. Len(c) - 1
      PROVE  (a \o b)[j] = IF j < i THEN c[j] ELSE c[j + 1]
  <2>1. CASE j < i
    <3>1. j \in 1 .. i - 1 /\ j <= Len(a) /\ j \in 1 .. Len(a) + Len(b)
      BY <1>1, <1>3, <1>4, <1>7, <2>1
    <3> QED
      BY <1>4, <1>6, <2>1, <3>1
  <2>2. CASE ~(j < i)
    <3>1. /\ ~(j <= Len(a)) /\ j \in 1 .. Len(a) + Len(b)
          /\ j - Len(a) \in 1 .. Len(c) - i /\ i + (j - Len(a)) = j + 1
      BY <1>1, <1>3, <1>4, <1>7, <2>2
    <3> QED
      BY <1>5, <1>6, <2>2, <3>1
  <2> QED
    BY <2>1, <2>2
<1> QED
  BY <1>1, <1>2, <1>6, <1>7, <1>8

(* It removes that key and nothing else.                                   *)
LEMMA CacheWithoutFacts ==
    ASSUME NEW c \in Seq(CacheEntry), NEW k, Distinct(c)
    PROVE  /\ Distinct(CacheWithout(c, k))
           /\ \A j \in 1 .. Len(CacheWithout(c, k)) :
                 /\ CacheWithout(c, k)[j].key # k
                 /\ \E i \in 1 .. Len(c) : CacheWithout(c, k)[j] = c[i]
           /\ \A i \in 1 .. Len(c) : c[i].key # k =>
                 \E j \in 1 .. Len(CacheWithout(c, k)) : CacheWithout(c, k)[j] = c[i]
<1>. DEFINE w == CacheWithout(c, k)
<1>1. CASE ~CacheHas(c, k)
  <2>1. w = c
    BY <1>1 DEF CacheWithout
  <2>2. \A i \in 1 .. Len(c) : c[i].key # k
    BY <1>1 DEF CacheHas
  <2> QED
    BY <2>1, <2>2
<1>2. CASE CacheHas(c, k)
  <2>1. PICK i \in 1 .. Len(c) :
           /\ c[i].key = k
           /\ Len(w) = Len(c) - 1
           /\ \A j \in 1 .. Len(c) - 1 : w[j] = IF j < i THEN c[j] ELSE c[j + 1]
    BY <1>2, CacheWithoutElements
  <2>. HIDE DEF w
  <2>2. PICK n : n = Len(c)
    OBVIOUS
  <2>3. n \in Nat /\ i \in 1 .. n
    BY <2>1, <2>2
  <2>. DEFINE at(j) == IF j < i THEN j ELSE j + 1
  <2>4. \A j \in 1 .. Len(w) : at(j) \in 1 .. n /\ at(j) # i /\ w[j] = c[at(j)]
    BY <2>1, <2>2, <2>3
  <2>5. \A j, m \in 1 .. Len(w) : at(j) = at(m) => j = m
    BY <2>1, <2>2, <2>3
  <2>6. \A m \in 1 .. n : m # i => \E j \in 1 .. Len(w) : w[j] = c[m]
    <3> SUFFICES ASSUME NEW m \in 1 .. n, m # i
                 PROVE  \E j \in 1 .. Len(w) : w[j] = c[m]
      OBVIOUS
    <3>1. CASE m < i
      <4>1. m \in 1 .. Len(w) /\ at(m) = m
        BY <2>1, <2>2, <2>3, <3>1
      <4> QED
        BY <2>4, <4>1
    <3>2. CASE ~(m < i)
      <4>1. m - 1 \in 1 .. Len(w) /\ at(m - 1) = m
        BY <2>1, <2>2, <2>3, <3>2
      <4> QED
        BY <2>4, <4>1
    <3> QED
      BY <3>1, <3>2
  <2>. HIDE DEF at
  <2>7. Distinct(w)
    BY <2>2, <2>4, <2>5 DEF Distinct
  <2>8. \A j \in 1 .. Len(w) : w[j].key # k /\ \E m \in 1 .. Len(c) : w[j] = c[m]
    BY <2>1, <2>2, <2>3, <2>4 DEF Distinct
  <2> QED
    BY <2>1, <2>2, <2>6, <2>7, <2>8 DEF w
<1> QED
  BY <1>1, <1>2

(* Distinct keys fit into a cache that has room for all of them.           *)
LEMMA DistinctShort ==
    ASSUME NEW c \in Seq(CacheEntry), Distinct(c)
    PROVE  Len(c) <= Cardinality(Keys)
<1>. DEFINE I == 1 .. Len(c)
            f == [i \in I |-> c[i].key]
<1>1. Len(c) \in Nat /\ IsFiniteSet(Keys) /\ Cardinality(Keys) \in Nat
  BY KeysAssumption, FS_CardinalityType
<1>2. IsFiniteSet(I) /\ Cardinality(I) = Len(c)
  <2>1. 1 \in Int /\ Len(c) \in Int /\ (1 > Len(c) => Len(c) = 0) /\ Len(c) - 1 + 1 = Len(c)
    BY <1>1
  <2> QED
    BY <2>1, FS_Interval
<1>3. f \in [I -> Keys]
  <2>1. \A i \in I : c[i] \in CacheEntry
    BY ElementOfSeq
  <2> QED
    BY <2>1 DEF CacheEntry
<1>4. \A i, j \in I : f[i] = f[j] => i = j
  BY DEF Distinct
<1>. HIDE DEF I, f
<1>5. ~(Cardinality(Keys) < Cardinality(I))
  BY <1>1, <1>2, <1>3, <1>4, FS_PigeonHole
<1> QED
  BY <1>1, <1>2, <1>5

(* Put into such a cache evicts nothing: it sets the value of one key.     *)
LEMMA CachePutFacts ==
    ASSUME Undisturbed, NEW c \in Seq(CacheEntry), Distinct(c), NEW k \in Keys, NEW v \in Nat
    PROVE  /\ CachePut(c, k, v) \in Seq(CacheEntry)
           /\ Distinct(CachePut(c, k, v))
           /\ \A n \in 1 .. Len(CachePut(c, k, v)) :
                 \/ CachePut(c, k, v)[n] = [key |-> k, val |-> v]
                 \/ /\ CachePut(c, k, v)[n].key # k
                    /\ \E m \in 1 .. Len(c) : CachePut(c, k, v)[n] = c[m]
           /\ CacheHas(CachePut(c, k, v), k)
           /\ \A q : CacheHas(c, q) => CacheHas(CachePut(c, k, v), q)
           /\ \A q : CacheHas(CachePut(c, k, v), q) => q = k \/ CacheHas(c, q)
<1>. DEFINE e == [key |-> k, val |-> v]
            w == CacheWithout(c, k)
            d == <<e>> \o w
<1>1. e \in CacheEntry /\ e.key = k
  BY DEF CacheEntry
<1>2. w \in Seq(CacheEntry)
  BY CacheWithoutType
<1>3. /\ Distinct(w)
      /\ \A j \in 1 .. Len(w) : w[j].key # k /\ \E i \in 1 .. Len(c) : w[j] = c[i]
      /\ \A i \in 1 .. Len(c) : c[i].key # k => \E j \in 1 .. Len(w) : w[j] = c[i]
  BY CacheWithoutFacts
<1>4. CachePut(c, k, v) = IF Len(d) > CacheSize THEN SubSeq(d, 1, CacheSize) ELSE d
  BY DEF CachePut
<1>. HIDE DEF e, w
<1>5. /\ d \in Seq(CacheEntry) /\ Len(d) = Len(w) + 1 /\ Len(w) \in Nat
      /\ d[1] = e /\ \A j \in 2 .. Len(w) + 1 : d[j] = w[j - 1]
  <2>. DEFINE s == <<e>>
  <2>1. s \in Seq(CacheEntry) /\ Len(s) = 1 /\ s[1] = e
    BY <1>1
  <2>. HIDE DEF s
  <2>2. /\ s \o w \in Seq(CacheEntry) /\ Len(s \o w) = 1 + Len(w) /\ Len(w) \in Nat
        /\ \A j \in 1 .. 1 + Len(w) : (s \o w)[j] = IF j <= 1 THEN s[j] ELSE w[j - 1]
    <3>1. /\ s \o w \in Seq(CacheEntry) /\ Len(s \o w) = Len(s) + Len(w)
          /\ \A j \in 1 .. Len(s) + Len(w) :
                (s \o w)[j] = IF j <= Len(s) THEN s[j] ELSE w[j - Len(s)]
      BY <1>2, <2>1, ConcatProperties, Zenon
    <3>2. Len(w) \in Nat
      BY <1>2
    <3> QED
      BY <2>1, <3>1, <3>2
  <2>3. (s \o w)[1] = e /\ \A j \in 2 .. Len(w) + 1 : (s \o w)[j] = w[j - 1]
    BY <2>1, <2>2
  <2> QED
    BY <2>2, <2>3 DEF s
<1>. HIDE DEF d
<1>6. \A j \in 2 .. Len(d) : j - 1 \in 1 .. Len(w) /\ d[j] = w[j - 1]
  BY <1>5
<1>7. Distinct(d)
  <2> SUFFICES ASSUME NEW i \in 1 .. Len(d), NEW j \in 1 .. Len(d), d[i].key = d[j].key
               PROVE  i = j
    BY DEF Distinct
  <2>1. CASE i = 1 /\ j # 1
    <3>1. j \in 2 .. Len(d)
      BY <1>5, <2>1
    <3>2. d[i].key = k
      BY <1>1, <1>5, <2>1
    <3>3. d[j].key # k
      BY <1>3, <1>6, <3>1
    <3> QED
      BY <3>2, <3>3
  <2>2. CASE i # 1 /\ j = 1
    <3>1. i \in 2 .. Len(d)
      BY <1>5, <2>2
    <3>2. d[j].key = k
      BY <1>1, <1>5, <2>2
    <3>3. d[i].key # k
      BY <1>3, <1>6, <3>1
    <3> QED
      BY <3>2, <3>3
  <2>3. CASE i # 1 /\ j # 1
    <3>1. i \in 2 .. Len(d) /\ j \in 2 .. Len(d)
      BY <1>5, <2>3
    <3>2. PICK a \in 1 .. Len(w), b \in 1 .. Len(w) :
             a = i - 1 /\ b = j - 1 /\ w[a].key = w[b].key
      BY <1>6, <3>1
    <3>3. a = b
      BY <1>3, <3>2 DEF Distinct
    <3> QED
      BY <3>1, <3>2, <3>3
  <2> QED
    BY <2>1, <2>2, <2>3
<1>8. CachePut(c, k, v) = d
  <2>1. Len(d) <= Cardinality(Keys)
    BY <1>5, <1>7, DistinctShort
  <2>2. Cardinality(Keys) \in Nat /\ Cardinality(Keys) <= CacheSize /\ CacheSize \in Nat
    BY KeysAssumption, FS_CardinalityType, BoundsAssumption DEF Undisturbed
  <2>3. ~(Len(d) > CacheSize)
    BY <1>5, <2>1, <2>2
  <2> QED
    BY <1>4, <2>3
<1>9. \A n \in 1 .. Len(d) : \/ d[n] = e
                             \/ d[n].key # k /\ \E m \in 1 .. Len(c) : d[n] = c[m]
  <2> SUFFICES ASSUME NEW n \in 1 .. Len(d), n # 1
               PROVE  d[n].key # k /\ \E m \in 1 .. Len(c) : d[n] = c[m]
    BY <1>5
  <2>1. n \in 2 .. Len(d)
    BY <1>5
  <2> QED
    BY <1>3, <1>6, <2>1
<1>10. CacheHas(d, k)
  <2>1. 1 \in 1 .. Len(d)
    BY <1>5
  <2> QED
    BY <1>1, <1>5, <2>1 DEF CacheHas
<1>11. ASSUME NEW q, CacheHas(c, q), q # k PROVE CacheHas(d, q)
  <2>1. PICK j \in 1 .. Len(w) : w[j].key = q
    BY <1>3, <1>11 DEF CacheHas
  <2>2. j + 1 \in 2 .. Len(w) + 1 /\ j + 1 - 1 = j /\ j + 1 \in 1 .. Len(d)
    BY <1>5
  <2>3. d[j + 1] = w[j]
    BY <1>5, <2>2
  <2> QED
    BY <2>1, <2>2, <2>3 DEF CacheHas
<1>12. ASSUME NEW q, CacheHas(d, q), q # k PROVE CacheHas(c, q)
  BY <1>1, <1>9, <1>12 DEF CacheHas
<1> QED
  BY <1>5, <1>7, <1>8, <1>9, <1>10, <1>11, <1>12 DEF e

-----------------------------------------------------------------------------
(* What the log says about a key.                                          *)

(* Record i is the latest about key k in the log l.                        *)
Latest(l, i, k) ==
    /\ i \in 1 .. Len(l) /\ l[i].key = k
    /\ \A j \in 1 .. Len(l) : l[j].key = k => j <= i

(* A log of point records and no dropped ones.                             *)
PointLog == lost = {} /\ \A i \in 1 .. Len(log) : ~IsRange(log[i])

DictOf(l, k) ==
    LET A == {i \in 1 .. Len(l) : l[i].key = k}
        i == CHOOSE i \in A : \A j \in A : j <= i
    IN  IF A = {} \/ l[i].op # "Put" THEN 0 ELSE i

(* The dictionary is then that of the log alone.                           *)
LEMMA DictIsDictOf ==
    ASSUME PointLog, NEW k
    PROVE  DictVal(k) = DictOf(log, k)
<1>. DEFINE A == {i \in 1 .. Len(log) \ lost : Touches(i, k)}
            B == {i \in 1 .. Len(log) : log[i].key = k}
            m(S) == CHOOSE i \in S : \A j \in S : j <= i
            v(S) == IF S = {} \/ log[m(S)].op # "Put" THEN 0 ELSE m(S)
<1>1. A = B
  BY DEF PointLog, Touches
<1>2. DictVal(k) = v(A) /\ DictOf(log, k) = v(B)
  BY DEF DictVal, DictOf
<1>. HIDE DEF A, B, v
<1> QED
  BY <1>1, <1>2

(* The same after a step.                                                  *)
LEMMA DictIsDictOfNext ==
    ASSUME PointLog', NEW k
    PROVE  DictVal(k)' = DictOf(log', k)
<1>. DEFINE A == {i \in 1 .. Len(log') \ lost' : Touches(i, k)'}
            B == {i \in 1 .. Len(log') : log'[i].key = k}
            m(S) == CHOOSE i \in S : \A j \in S : j <= i
            v(S) == IF S = {} \/ log'[m(S)].op # "Put" THEN 0 ELSE m(S)
<1>1. A = B
  BY DEF PointLog, Touches, IsRange
<1>2. DictVal(k)' = v(A) /\ DictOf(log', k) = v(B)
  BY DEF DictVal, DictOf
<1>. HIDE DEF A, B, v
<1> QED
  BY <1>1, <1>2

(* A key with a record has a latest one.                                   *)
LEMMA LatestExists ==
    ASSUME NEW l, Len(l) \in Nat, NEW k, NEW j \in 1 .. Len(l), l[j].key = k
    PROVE  \E i \in 1 .. Len(l) : Latest(l, i, k)
<1>. DEFINE I == {i \in 1 .. Len(l) : l[i].key = k}
<1>1. I \in SUBSET Nat /\ I # {} /\ \A i \in I : i <= Len(l)
  OBVIOUS
<1>2. \A i : i \in I <=> i \in 1 .. Len(l) /\ l[i].key = k
  OBVIOUS
<1>. HIDE DEF I
<1>3. PICK m \in I : \A i \in I : i <= m
  BY <1>1, GreatestElement
<1> QED
  BY <1>2, <1>3 DEF Latest

(* It decides what the dictionary holds.                                   *)
LEMMA DictLatest ==
    ASSUME NEW l, Len(l) \in Nat, NEW k, NEW i, Latest(l, i, k)
    PROVE  DictOf(l, k) = IF l[i].op = "Put" THEN i ELSE 0
<1>. DEFINE A == {j \in 1 .. Len(l) : l[j].key = k}
            m == CHOOSE m \in A : \A j \in A : j <= m
<1>1. i \in A /\ \A j \in A : j <= i
  BY DEF Latest
<1>2. A \subseteq Nat
  OBVIOUS
<1>3. DictOf(l, k) = IF A = {} \/ l[m].op # "Put" THEN 0 ELSE m
  BY DEF DictOf
<1>. HIDE DEF A
<1>4. m \in A /\ \A j \in A : j <= m
  BY <1>1
<1>. HIDE DEF m
<1>5. m = i
  BY <1>1, <1>2, <1>4
<1> QED
  BY <1>1, <1>3, <1>5

(* A key without a record is absent.                                       *)
LEMMA DictAbsent ==
    ASSUME NEW l, NEW k, \A j \in 1 .. Len(l) : l[j].key # k
    PROVE  DictOf(l, k) = 0
<1>1. {i \in 1 .. Len(l) : l[i].key = k} = {}
  OBVIOUS
<1> QED
  BY <1>1, Zenon DEF DictOf

(* A value is a position of the log, 0 for none.                           *)
LEMMA DictBound ==
    ASSUME NEW l, Len(l) \in Nat, NEW k
    PROVE  DictOf(l, k) \in 0 .. Len(l)
<1>1. CASE \A j \in 1 .. Len(l) : l[j].key # k
  BY <1>1, DictAbsent
<1>2. CASE \E j \in 1 .. Len(l) : l[j].key = k
  <2>1. PICK i \in 1 .. Len(l) : Latest(l, i, k)
    BY <1>2, LatestExists
  <2>2. DictOf(l, k) = IF l[i].op = "Put" THEN i ELSE 0
    BY <2>1, DictLatest
  <2> QED
    BY <2>2
<1> QED
  BY <1>1, <1>2

(* One more record sets the value of its key.                              *)
LEMMA DictAppend ==
    ASSUME NEW l, Len(l) \in Nat, NEW m, Len(m) = Len(l) + 1,
           \A i \in 1 .. Len(l) : m[i] = l[i], NEW k
    PROVE  DictOf(m, k) = IF k # m[Len(m)].key THEN DictOf(l, k)
                          ELSE IF m[Len(m)].op = "Put" THEN Len(m) ELSE 0
<1>. PICK n \in Nat : n = Len(l) /\ Len(m) = n + 1
  OBVIOUS
<1>1. CASE k = m[n + 1].key
  <2>1. Latest(m, n + 1, k)
    BY <1>1 DEF Latest
  <2>2. Len(m) \in Nat
    OBVIOUS
  <2> QED
    BY <1>1, <2>1, <2>2, DictLatest
<1>2. CASE k # m[n + 1].key
  <2>1. CASE \A j \in 1 .. n : l[j].key # k
    <3>1. \A j \in 1 .. n + 1 : m[j].key # k
      BY <1>2, <2>1
    <3> QED
      BY <1>2, <2>1, <3>1, DictAbsent
  <2>2. CASE \E j \in 1 .. n : l[j].key = k
    <3>1. PICK i \in 1 .. n : Latest(l, i, k)
      BY <2>2, LatestExists
    <3>2. Latest(m, i, k) /\ Len(m) \in Nat /\ m[i] = l[i]
      <4>1. \A j \in 1 .. n + 1 : m[j].key = k => j \in 1 .. n
        BY <1>2
      <4> QED
        BY <3>1, <4>1 DEF Latest
    <3> QED
      BY <1>2, <3>1, <3>2, DictLatest
  <2> QED
    BY <2>1, <2>2
<1> QED
  BY <1>1, <1>2

(* The dictionary changes only with the log.                               *)
LEMMA DictSame ==
    ASSUME UNCHANGED <<log, lost>>
    PROVE  \A k : DictVal(k)' = DictVal(k)
BY DEF DictVal, Touches, IsRange

-----------------------------------------------------------------------------
(* Single point writes.                                                    *)

(* What Put and Delete do: one record at the end of the log, which the     *)
(* client then applies.                                                    *)
OneMore(k, op) ==
    /\ client.pc = "ready" /\ Len(log') = Len(log) + 1
    /\ \A i \in 1 .. Len(log) : log'[i] = log[i]
    /\ log'[Len(log) + 1].key = k /\ log'[Len(log) + 1].op = op
    /\ log'[Len(log) + 1].first = log'[Len(log) + 1].seq
    /\ client'.pc = "apply" /\ client'.todo = {Len(log) + 1}
    /\ ret' = NoAnswer
    /\ UNCHANGED <<active, immutable, cache, worker, walFlushed, sst, lost, regressed>>

(* Of the writes, only Put and Delete are called, and each writes one      *)
(* record.                                                                 *)
LEMMA WriteOne ==
    ASSUME Undisturbed, TypeOK, NEW ks \in Batches, NEW op \in {"Put", "Del"}, Write(ks, op)
    PROVE  \E k \in Keys : OneMore(k, op)
<1>1. PICK n \in 1 .. MaxBatch : ks \in [1 .. n -> Keys]
  BY DEF Batches
<1>2. n = 1 /\ Len(ks) = 1 /\ ks[1] \in Keys
  <2>1. n = 1
    BY DEF Undisturbed
  <2>2. ks \in [1 .. 1 -> Keys]
    BY <1>1, <2>1
  <2> QED
    BY <2>1, <2>2
<1>. DEFINE r == NewRecord(1, seqGen + 1, ks[1], op, {})
            recs == [i \in 1 .. Len(ks) |-> NewRecord(i, seqGen + 1, ks[i], op, {})]
<1>3. r.key = ks[1] /\ r.op = op /\ r.first = r.seq
  BY DEF NewRecord
<1>4. r \in Record
  <2>1. seqGen \in Nat /\ Len(log) \in Nat
    BY DEF TypeOK
  <2> QED
    BY <1>2, <2>1 DEF NewRecord, Record
<1>5. recs \in Seq(Record) /\ Len(recs) = 1 /\ recs[1] = r
  <2>. DEFINE f(i) == NewRecord(i, seqGen + 1, ks[i], op, {})
              one == [i \in 1 .. n |-> f(i)]
  <2>1. f(1) = r /\ \A i \in 1 .. n : i = 1
    BY <1>2
  <2>2. recs = one
    BY <1>2
  <2>. HIDE DEF f, r
  <2>3. \A i \in 1 .. n : f(i) \in Record
    BY <1>4, <2>1, Zenon
  <2>4. one \in Seq(Record) /\ Len(one) = n /\ one[1] = f(1)
    BY <1>2, <2>3
  <2> HIDE DEF one, recs
  <2> QED
    BY <1>2, <2>1, <2>2, <2>4
<1>6. client.pc = "ready" /\ WalAppend(recs)
  BY DEF Write
<1>. HIDE DEF r, recs
<1>7. log \in Seq(Record) /\ Len(log) \in Nat /\ client \in ClientType(Len(log))
  BY DEF TypeOK, ClientType
<1>8. /\ log' = log \o recs
      /\ LET new == Len(log) + 1 .. Len(log) + Len(recs)
         IN  client' = [client EXCEPT !.pc = "apply", !.todo = new, !.call = new]
      /\ ret' = NoAnswer
      /\ UNCHANGED <<active, immutable, cache, worker, walFlushed, sst, lost, regressed>>
  BY <1>6 DEF WalAppend
<1>9. /\ Len(log') = Len(log) + 1
      /\ \A i \in 1 .. Len(log) : log'[i] = log[i]
      /\ log'[Len(log) + 1] = r
  <2>1. /\ Len(log') = Len(log) + Len(recs)
        /\ \A i \in 1 .. Len(log) + Len(recs) :
              log'[i] = IF i <= Len(log) THEN log[i] ELSE recs[i - Len(log)]
    BY <1>5, <1>7, <1>8, ConcatProperties
  <2>2. Len(log) + 1 - Len(log) = 1 /\ ~(Len(log) + 1 <= Len(log))
    BY <1>7
  <2> QED
    BY <1>5, <1>7, <2>1, <2>2
<1>10. client'.pc = "apply" /\ client'.todo = {Len(log) + 1}
  <2>. DEFINE new == Len(log) + 1 .. Len(log) + Len(recs)
  <2>1. new = {Len(log) + 1}
    BY <1>5, <1>7
  <2>2. client' = [client EXCEPT !.pc = "apply", !.todo = new, !.call = new]
    BY <1>8
  <2>. HIDE DEF new
  <2> QED
    BY <1>7, <2>1, <2>2 DEF ClientType
<1> QED
  BY <1>2, <1>3, <1>6, <1>8, <1>9, <1>10 DEF OneMore

(* What a step may do to the read cache.                                   *)
LEMMA CacheStep ==
    ASSUME TypeOK, [Next]_vars
    PROVE  \/ cache' = cache
           \/ cache' = <<>>
           \/ \E k \in Keys, v \in Nat : cache' = CachePut(cache, k, v)
<1>1. cache \in Seq(CacheEntry)
  BY DEF TypeOK, CacheEntry
<1>2. CASE UpdateCache
  <2>1. PICK i \in client.todo :
           cache' = CachePut(cache, log[i].key, IF log[i].op = "Put" THEN i ELSE 0)
    BY <1>2 DEF UpdateCache
  <2>2. i \in Nat /\ log[i].key \in Keys
    <3>1. i \in 1 .. Len(log) /\ log[i] \in Record
      BY DEF TypeOK
    <3> QED
      BY <3>1 DEF Record
  <2>3. PICK v \in Nat : v = IF log[i].op = "Put" THEN i ELSE 0
    BY <2>2
  <2> QED
    BY <2>1, <2>2, <2>3
<1>3. ASSUME NEW k \in Keys, GetFromMemtable(k)
      PROVE  \E v \in Nat : cache' = CachePut(cache, k, v)
  BY <1>3, MemtableValType DEF GetFromMemtable
<1>4. ASSUME NEW k \in Keys, GetFromCache(k)
      PROVE  \E v \in Nat : cache' = CachePut(cache, k, v)
  BY <1>1, <1>4, CacheValType DEF GetFromCache
<1>5. CASE GetCheckRangeDel
  <2>1. client.key \in Keys /\ client.val \in Nat
    BY DEF TypeOK
  <2> QED
    BY <1>5, <2>1 DEF GetCheckRangeDel
<1>6. CASE WorkerPanics \/ Crash
  BY <1>6 DEF WorkerPanics, Crash, Stop
<1>7. CASE \/ \E ks \in Batches, op \in {"Put", "Del"} : Write(ks, op)
           \/ \E rng \in Ranges : RangeDelete(rng)
  BY <1>7 DEF Write, RangeDelete, WalAppend
<1>8. CASE \/ Apply \/ Rotate \/ \E k \in Keys : GetMiss(k)
           \/ GetFromSST \/ Restart
  BY <1>8 DEF Apply, Rotate, GetMiss, GetFromSST, Restart
<1>9. CASE TakeImmutable \/ FlushToSSTable \/ MemtableFlushed \/ Compact
  BY <1>9 DEF TakeImmutable, FlushToSSTable, MemtableFlushed, Compact
<1>10. CASE UNCHANGED vars
  BY <1>10 DEF vars, volatile
<1> QED
  BY <1>2, <1>3, <1>4, <1>5, <1>6, <1>7, <1>8, <1>9, <1>10 DEF Next

(* A process that is down has just stopped or was down before.             *)
LEMMA DownStep ==
    ASSUME TypeOK, [Next]_vars, client'.pc = "down"
    PROVE  cache' = <<>> \/ (client.pc = "down" /\ cache' = cache)
<1>0. Idle.pc = "ready" /\ \A p : [Idle EXCEPT !.pc = p, !.todo = Recoverable].pc = p
  BY IdleFacts DEF Idle
<1>1. client \in ClientType(Len(log))
  BY DEF TypeOK, ClientType
<1>2. CASE WorkerPanics \/ Crash
  BY <1>2 DEF WorkerPanics, Crash, Stop
<1>3. CASE \/ \E ks \in Batches, op \in {"Put", "Del"} : Write(ks, op)
           \/ \E rng \in Ranges : RangeDelete(rng)
  <2>1. \E new : client' = [client EXCEPT !.pc = "apply", !.todo = new, !.call = new]
    BY <1>3, Zenon DEF Write, RangeDelete, WalAppend
  <2> QED
    BY <1>1, <2>1 DEF ClientType
<1>4. CASE UpdateCache \/ GetFromSST \/ GetCheckRangeDel
  <2>1. \/ client' = Idle
        \/ \E new : client' = [client EXCEPT !.pc = "apply", !.todo = new]
        \/ \E v, n : client' = [client EXCEPT !.pc = "cover", !.val = v, !.seq = n]
    BY <1>4 DEF UpdateCache, GetFromSST, GetCheckRangeDel
  <2> QED
    BY <1>0, <1>1, <2>1 DEF ClientType
<1>5. CASE \/ \E k \in Keys : GetFromMemtable(k) \/ GetFromCache(k)
           \/ TakeImmutable \/ FlushToSSTable \/ MemtableFlushed \/ Compact
           \/ UNCHANGED vars
  <2>1. client' = client
    BY <1>5 DEF GetFromMemtable, GetFromCache, TakeImmutable, FlushToSSTable,
                MemtableFlushed, Compact, vars, volatile
  <2>2. ~\E k \in Keys : GetFromMemtable(k) \/ GetFromCache(k)
    BY <2>1 DEF GetFromMemtable, GetFromCache
  <2>3. cache' = cache
    BY <1>5, <2>2 DEF TakeImmutable, FlushToSSTable, MemtableFlushed, Compact, vars, volatile
  <2> QED
    BY <2>1, <2>3
<1>6. CASE Apply \/ Rotate \/ \E k \in Keys : GetMiss(k)
  <2>1. \/ client' = [client EXCEPT !.pc = "rotate"]
        \/ client' = [client EXCEPT !.pc = "cache"]
        \/ \E k \in Keys : client' = [client EXCEPT !.pc = "sst", !.key = k]
    <3>1. CASE Apply
      <4>1. client'.pc \in {"rotate", "cache"}
        BY <3>1, ApplyFacts
      <4> QED
        BY <4>1
    <3> QED
      BY <1>6, <3>1 DEF Rotate, GetMiss
  <2> QED
    BY <1>1, <2>1 DEF ClientType
<1>7. CASE Restart
  <2>1. client'.pc \in {"ready", "apply"}
    <3>1. client' = Idle \/ client' = [Idle EXCEPT !.pc = "apply", !.todo = Recoverable]
      BY <1>7 DEF Restart
    <3> QED
      BY <1>0, <3>1
  <2> QED
    BY <2>1
<1> QED
  BY <1>2, <1>3, <1>4, <1>5, <1>6, <1>7 DEF Next

(* Nothing is ever dropped, and only point records are logged.             *)
LEMMA PlainStep ==
    ASSUME Undisturbed, BaseInv, Plain, [Next]_vars
    PROVE  Plain'
<1>0. TypeOK
  BY DEF BaseInv
<1>1. Distinct(cache')
  <2>1. cache \in Seq(CacheEntry) /\ Distinct(cache)
    BY <1>0 DEF TypeOK, CacheEntry, Plain
  <2>2. CASE cache' = <<>>
    BY <2>2 DEF Distinct
  <2>3. CASE \E k \in Keys, v \in Nat : cache' = CachePut(cache, k, v)
    <3>1. PICK k \in Keys, v \in Nat : cache' = CachePut(cache, k, v)
      BY <2>3
    <3>2. Distinct(CachePut(cache, k, v))
      BY <2>1, CachePutFacts
    <3> QED
      BY <3>1, <3>2
  <2> QED
    BY <1>0, <2>1, <2>2, <2>3, CacheStep
<1>2. client'.pc = "down" => cache' = <<>>
  BY <1>0, DownStep DEF Plain
<1>3. /\ lost' = {}
      /\ \A i \in 1 .. Len(log') : log'[i].first = log'[i].seq /\ ~IsRange(log'[i])
  <2>1. CASE \E ks \in Batches, op \in {"Put", "Del"} : Write(ks, op)
    <3>1. PICK k \in Keys, op \in {"Put", "Del"} : OneMore(k, op)
      BY <1>0, <2>1, WriteOne
    <3>2. Len(log) \in Nat
      BY <1>0 DEF TypeOK
    <3>3. \A i \in 1 .. Len(log') : i \in 1 .. Len(log) \/ i = Len(log) + 1
      BY <3>1, <3>2 DEF OneMore
    <3>4. ~IsRange(log'[Len(log) + 1])
      BY <3>1 DEF OneMore, IsRange
    <3> QED
      BY <3>1, <3>3, <3>4 DEF OneMore, Plain
  <2>2. CASE Restart
    <3>1. \A i \in 1 .. Len(log) : log[i].seq \in Nat /\ walFlushed \in Nat
      BY SeqTypes
    <3>2. \A i \in 1 .. Len(log) : ~Cut(i)
      BY <3>1 DEF Cut, Plain
    <3> QED
      BY <2>2, <3>2 DEF Restart, Plain
  <2>3. CASE \E rng \in Ranges : RangeDelete(rng)
    BY <2>3 DEF Undisturbed
  <2>4. CASE WorkerPanics \/ Crash
    BY <2>4 DEF WorkerPanics, Crash, Stop, persistent, Plain
  <2>5. CASE \/ Apply \/ Rotate \/ UpdateCache \/ GetFromSST \/ GetCheckRangeDel
             \/ \E k \in Keys : GetFromMemtable(k) \/ GetFromCache(k) \/ GetMiss(k)
    BY <2>5 DEF Apply, Rotate, UpdateCache, GetFromSST, GetCheckRangeDel, GetFromMemtable,
                GetFromCache, GetMiss, persistent, history, Plain
  <2>6. CASE \/ TakeImmutable \/ FlushToSSTable \/ MemtableFlushed \/ Compact
             \/ UNCHANGED vars
    BY <2>6 DEF TakeImmutable, FlushToSSTable, MemtableFlushed, Compact, vars, volatile,
                persistent, history, Plain
  <2> QED
    BY <2>1, <2>2, <2>3, <2>4, <2>5, <2>6 DEF Next
<1> QED
  BY <1>1, <1>2, <1>3 DEF Plain

-----------------------------------------------------------------------------
(* Steps keep memtables, cache and dictionary coherent.                    *)

(* Steps that add nothing to the memtables and leave what is to be applied *)
(* and the cache alone: rotation, the flush worker.                        *)
LEMMA CoherentFrame ==
    ASSUME Coherent, UNCHANGED <<cache, log, lost>>,
           client'.todo = client.todo, Pending' = Pending,
           client' = client \/ client'.pc \notin {"sst", "cover"},
           \A a \in 1 .. Len(Mem') : \E b \in 1 .. Len(Mem) : Mem'[a] \subseteq Mem[b]
    PROVE  Coherent'
<1>1. \A k : DictVal(k)' = DictVal(k)
  BY DictSame
<1>2. \A k : InHand(k)' <=> InHand(k)
  BY DEF InHand
<1>3. \A k : CacheHas(cache, k)' <=> CacheHas(cache, k)
  BY DEF CacheHas
<1>4. Suffix'
  BY DEF Coherent, Suffix
<1>5. OneEach'
  BY DEF Coherent, OneEach
<1>6. Shadowed'
  <2> SUFFICES ASSUME NEW a \in 1 .. Len(Mem'), NEW r \in Mem'[a]
               PROVE  CacheHas(cache, r.key)' \/ InHand(r.key)'
    BY DEF Shadowed
  <2> QED
    BY <1>2, <1>3 DEF Coherent, Shadowed
<1>7. Current'
  BY <1>1 DEF Coherent, Current
<1>8. Reading'
  BY <1>1, <1>3 DEF Coherent, Reading
<1> QED
  BY <1>4, <1>5, <1>6, <1>7, <1>8 DEF Coherent

(* A write makes its key pending.                                          *)
LEMMA CoherentWrite ==
    ASSUME BaseInv, Plain, Plain', Coherent, NEW k \in Keys, NEW op, OneMore(k, op)
    PROVE  Coherent'
<1>. PICK n \in Nat : n = Len(log)
  BY SeqTypes
<1>1. /\ client.pc = "ready" /\ client.todo = {}
      /\ Len(log') = n + 1 /\ \A i \in 1 .. n : log'[i] = log[i]
      /\ log'[n + 1].key = k
      /\ client'.pc = "apply" /\ client'.todo = {n + 1}
      /\ UNCHANGED <<active, immutable, cache, worker>>
  BY DEF OneMore, BaseInv, Quiet
<1>2. Mem' = Mem /\ Pending' = {n + 1}
  BY <1>1 DEF Mem, Pending
<1>3. \A q : q # k => DictVal(q)' = DictVal(q)
  <2>1. PICK l : l = log
    OBVIOUS
  <2>2. PICK m : m = log'
    OBVIOUS
  <2>3. \A q : DictOf(m, q) = IF q # m[Len(m)].key THEN DictOf(l, q)
                              ELSE IF m[Len(m)].op = "Put" THEN Len(m) ELSE 0
    BY <1>1, <2>1, <2>2, DictAppend
  <2>4. PointLog /\ PointLog'
    BY DEF Plain, PointLog
  <2>5. \A q : DictVal(q) = DictOf(log, q)
    BY <2>4, DictIsDictOf
  <2>6. \A q : DictVal(q)' = DictOf(log', q)
    BY <2>4, DictIsDictOfNext
  <2> QED
    BY <1>1, <2>1, <2>2, <2>3, <2>5, <2>6
<1>4. Suffix'
  BY <1>1 DEF Suffix
<1>5. OneEach'
  BY <1>2 DEF Coherent, OneEach
<1>6. Shadowed'
  <2>1. \A q : ~InHand(q)
    BY <1>1 DEF InHand
  <2>2. \A q : CacheHas(cache, q)' <=> CacheHas(cache, q)
    BY <1>1 DEF CacheHas
  <2> QED
    BY <1>2, <2>1, <2>2 DEF Coherent, Shadowed
<1>7. Current'
  <2> SUFFICES ASSUME NEW c \in 1 .. Len(cache'), NEW q \in Keys, cache'[c].key = q
               PROVE  \/ \E i \in client'.todo : log'[i].key = q
                      \/ cache'[c].val = DictVal(q)'
    BY DEF Current
  <2>1. CASE q = k
    BY <1>1, <2>1
  <2>2. CASE q # k
    BY <1>1, <1>3, <2>2 DEF Coherent, Current
  <2> QED
    BY <2>1, <2>2
<1>8. Reading'
  BY <1>1 DEF Reading
<1> QED
  BY <1>4, <1>5, <1>6, <1>7, <1>8 DEF Coherent

(* The record that enters the active table replaces the version of its     *)
(* key there, and is in hand until its value is cached.                    *)
LEMMA CoherentApply ==
    ASSUME BaseInv, BaseInv', Plain, Coherent, Apply
    PROVE  Coherent'
<1>0. TypeOK /\ TypeOK'
  BY DEF BaseInv
<1>1. PICK i \in 1 .. Len(log) :
         /\ i \in Pending /\ Pending' = Pending \ {i}
         /\ \A r \in active' : r = log[i] \/ r \in active
         /\ ~IsRange(log[i]) =>
               \A r \in active' : IsRange(r) \/ r = log[i] \/ r.key # log[i].key
         /\ client'.pc \in {"rotate", "cache"} /\ client'.todo = client.todo
  BY <1>0, ApplyFacts
<1>2. UNCHANGED <<cache, log, lost, worker, immutable>> /\ client.pc = "apply"
  BY DEF Apply, persistent, history
<1>n. PICK N : N = Len(Mem)
  OBVIOUS
<1>3. /\ N \in Nat \ {0} /\ Mem[N] = active
      /\ Len(Mem') = N
      /\ \A a \in 1 .. N - 1 : Mem'[a] = Mem[a]
      /\ Mem'[N] = active'
  BY <1>0, <1>2, <1>n, MemFacts, MemApply
<1>4. \A r \in active' : r = log[i] \/ r.key # log[i].key
  <2>1. \A r \in active' : r.id \in 1 .. Len(log) /\ log[r.id] = r
    <3>1. \A a \in 1 .. Len(Mem') : \A r \in Mem'[a] : r.id \in 1 .. Len(log') /\ log'[r.id] = r
      BY DEF BaseInv, Stored, InLog
    <3>2. N \in 1 .. Len(Mem')
      BY <1>3
    <3> QED
      BY <1>2, <1>3, <3>1, <3>2
  <2>2. \A r \in active' : ~IsRange(r)
    BY <2>1 DEF Plain
  <2> QED
    BY <1>1, <2>2 DEF Plain
<1>5. \A k : DictVal(k)' = DictVal(k)
  BY <1>2, DictSame
<1>6. Suffix'
  BY <1>1, <1>2 DEF Coherent, Suffix
<1>7. OneEach'
  <2> SUFFICES ASSUME NEW a \in 1 .. N, NEW r \in Mem'[a], NEW t \in Mem'[a], r.key = t.key
               PROVE  r = t
    BY <1>3 DEF OneEach
  <2>1. CASE a # N
    <3>1. a \in 1 .. N - 1
      BY <1>3, <2>1
    <3> QED
      BY <1>3, <1>n, <3>1 DEF Coherent, OneEach
  <2>2. CASE a = N
    <3>1. r \in active' /\ t \in active' /\ N \in 1 .. N
      BY <1>3, <2>2
    <3>2. CASE r \in active /\ t \in active
      BY <1>3, <1>n, <3>1, <3>2 DEF Coherent, OneEach
    <3> QED
      BY <1>1, <1>4, <3>1, <3>2
  <2> QED
    BY <2>1, <2>2
<1>8. Shadowed'
  <2> SUFFICES ASSUME NEW a \in 1 .. N, NEW r \in Mem'[a]
               PROVE  CacheHas(cache, r.key)' \/ InHand(r.key)'
    BY <1>3 DEF Shadowed
  <2>1. CASE r = log[i]
    <3>1. i \in client'.todo \ Pending'
      BY <1>1, <1>2 DEF Pending
    <3> QED
      BY <1>2, <2>1, <3>1 DEF InHand
  <2>2. CASE r # log[i]
    <3>1. r \in Mem[a]
      <4>1. CASE a = N
        BY <1>1, <1>3, <2>2, <4>1
      <4>2. CASE a # N
        <5>1. a \in 1 .. N - 1
          BY <1>3, <4>2
        <5> QED
          BY <1>3, <5>1
      <4> QED
        BY <4>1, <4>2
    <3>2. CacheHas(cache, r.key) \/ InHand(r.key)
      BY <1>n, <3>1 DEF Coherent, Shadowed
    <3>3. ~InHand(r.key)
      BY <1>2 DEF InHand, Pending
    <3> QED
      BY <1>2, <3>2, <3>3 DEF CacheHas
  <2> QED
    BY <2>1, <2>2
<1>9. Current'
  BY <1>1, <1>2, <1>5 DEF Coherent, Current
<1>10. Reading'
  BY <1>1 DEF Reading
<1> QED
  BY <1>6, <1>7, <1>8, <1>9, <1>10 DEF Coherent

(* What is cached at the end of a write is the current value, unless a     *)
(* later record about the key is still to be applied.                      *)
LEMMA CoherentUpdateCache ==
    ASSUME Undisturbed, BaseInv, Plain, Coherent, UpdateCache
    PROVE  Coherent'
<1>0. TypeOK /\ Len(log) \in Nat /\ cache \in Seq(CacheEntry)
  BY DEF BaseInv, TypeOK, CacheEntry
<1>1. /\ UNCHANGED <<active, immutable, worker, log, lost>>
      /\ Pending' = Pending /\ Mem' = Mem
  BY ClientOnlyFacts DEF ClientOnly, Mem
<1>2. PICK i \in client.todo :
         /\ \A j \in client.todo : i <= j
         /\ cache' = CachePut(cache, log[i].key, IF log[i].op = "Put" THEN i ELSE 0)
         /\ \/ client.todo = {i} /\ client' = Idle
            \/ client' = [client EXCEPT !.pc = "apply", !.todo = client.todo \ {i}]
  BY DEF UpdateCache
<1>3. i \in 1 .. Len(log) /\ log[i].key \in Keys /\ client.todo \subseteq 1 .. Len(log)
  <2>1. client.todo \subseteq 1 .. Len(log)
    BY <1>0 DEF TypeOK
  <2> QED
    BY <2>1, SeqTypes
<1>. PICK k \in Keys, v \in Nat :
       k = log[i].key /\ v = IF log[i].op = "Put" THEN i ELSE 0
  BY <1>3
<1>4. /\ Distinct(cache')
      /\ \A n \in 1 .. Len(cache') :
            \/ cache'[n] = [key |-> k, val |-> v]
            \/ cache'[n].key # k /\ \E m \in 1 .. Len(cache) : cache'[n] = cache[m]
      /\ CacheHas(cache', k)
      /\ \A q : CacheHas(cache, q) => CacheHas(cache', q)
  <2>1. cache' = CachePut(cache, k, v) /\ Distinct(cache)
    BY <1>2 DEF Plain
  <2> QED
    BY <1>0, <2>1, CachePutFacts
<1>5. client'.todo = client.todo \ {i} /\ client'.pc \in {"ready", "apply"}
  <2>1. client \in ClientType(Len(log))
    BY <1>0 DEF TypeOK, ClientType
  <2> QED
    BY <1>2, <2>1, IdleFacts DEF ClientType
<1>6. Pending = client.todo \ {i}
  <2>1. Pending = {x \in client.todo : \E j \in client.todo : j < x}
    BY DEF Pending, UpdateCache
  <2>2. \A x \in client.todo : x # i <=> \E j \in client.todo : j < x
    BY <1>2, <1>3
  <2> QED
    BY <2>1, <2>2
<1>7. \A q : DictVal(q)' = DictVal(q)
  BY <1>1, DictSame
<1>8. Suffix'
  <2> SUFFICES ASSUME NEW x \in client.todo \ {i}, NEW j \in 1 .. Len(log), x <= j
               PROVE  j \in client.todo \ {i}
    BY <1>1, <1>5 DEF Suffix
  <2> QED
    BY <1>2, <1>3 DEF Coherent, Suffix
<1>9. OneEach'
  BY <1>1 DEF Coherent, OneEach
<1>10. Shadowed'
  <2> SUFFICES ASSUME NEW a \in 1 .. Len(Mem), NEW r \in Mem[a]
               PROVE  CacheHas(cache', r.key)
    BY <1>1 DEF Shadowed
  <2>1. CASE CacheHas(cache, r.key)
    BY <1>4, <2>1
  <2>2. CASE InHand(r.key)
    <3>1. r.key = k
      BY <1>6, <2>2 DEF InHand
    <3> QED
      BY <1>4, <3>1
  <2> QED
    BY <2>1, <2>2 DEF Coherent, Shadowed
<1>11. (\E j \in client.todo \ {i} : log[j].key = k) \/ v = DictVal(k)
  <2> SUFFICES ASSUME \A j \in client.todo \ {i} : log[j].key # k
               PROVE  v = DictVal(k)
    OBVIOUS
  <2>1. PICK l : l = log
    OBVIOUS
  <2>2. Latest(l, i, k)
    <3>1. \A j \in 1 .. Len(log) : log[j].key = k => j <= i
      BY <1>3 DEF Coherent, Suffix
    <3> QED
      BY <1>3, <2>1, <3>1 DEF Latest
  <2>3. DictOf(l, k) = v
    BY <1>0, <2>1, <2>2, DictLatest
  <2>4. PointLog
    BY DEF Plain, PointLog
  <2> QED
    BY <2>1, <2>3, <2>4, DictIsDictOf
<1>12. Current'
  <2> SUFFICES ASSUME NEW n \in 1 .. Len(cache'), NEW q \in Keys, cache'[n].key = q
               PROVE  \/ \E j \in client.todo \ {i} : log[j].key = q
                      \/ cache'[n].val = DictVal(q)
    BY <1>1, <1>5, <1>7 DEF Current
  <2>1. CASE cache'[n] = [key |-> k, val |-> v]
    BY <1>11, <2>1
  <2>2. CASE q # k /\ \E m \in 1 .. Len(cache) : cache'[n] = cache[m]
    BY <2>2 DEF Coherent, Current
  <2> QED
    BY <1>4, <2>1, <2>2
<1>13. Reading'
  BY <1>5 DEF Reading
<1> QED
  BY <1>8, <1>9, <1>10, <1>12, <1>13 DEF Coherent

(* A crash leaves nothing that could disagree.                             *)
LEMMA CoherentStop ==
    ASSUME Stop
    PROVE  Coherent'
<1>1. client'.pc = "down" /\ client'.todo = {} /\ cache' = <<>>
  BY IdleFacts DEF Stop
<1>2. Len(Mem') = 1 /\ Mem'[1] = {}
  BY MemStop
<1>3. \A a \in 1 .. Len(Mem') : Mem'[a] = {}
  <2>1. \A a \in 1 .. 1 : a = 1
    OBVIOUS
  <2> QED
    BY <1>2, <2>1, Zenon
<1> QED
  BY <1>1, <1>3 DEF Coherent, Suffix, OneEach, Shadowed, Current, Reading

(* What recovery replays is an end of the log; the cache is empty.         *)
LEMMA CoherentRestart ==
    ASSUME BaseInv, SeqInv, Plain, Restart
    PROVE  Coherent'
<1>1. TypeOK /\ Quiet
  BY DEF BaseInv
<1>2. /\ UNCHANGED <<log, active, immutable, worker>>
      /\ Len(Mem) = 1 /\ Mem[1] = {} /\ Mem' = Mem
      /\ client'.pc \in {"ready", "apply"}
      /\ Pending' = Recoverable /\ (client'.pc = "ready" => client'.todo = {})
  BY <1>1, RestartFacts
<1>3. cache' = <<>>
  BY DEF Restart, Plain
<1>4. \A a \in 1 .. Len(Mem') : Mem'[a] = {}
  <2>1. \A a \in 1 .. 1 : a = 1
    OBVIOUS
  <2> QED
    BY <1>2, <2>1, Zenon
<1>5. client'.todo \subseteq Recoverable /\ (client'.todo = {} \/ client'.todo = Recoverable)
  BY <1>2 DEF Pending
<1>6. \A i \in Recoverable : \A j \in 1 .. Len(log) : i <= j => j \in Recoverable
  <2> SUFFICES ASSUME NEW i \in Recoverable, NEW j \in 1 .. Len(log), i < j
               PROVE  j \in Recoverable
    BY SeqTypes
  <2>1. i \in 1 .. Len(log) /\ log[i].seq > walFlushed
    BY DEF Recoverable
  <2>2. log[i].seq < log[j].seq /\ log[j].first = log[j].seq
    BY <2>1 DEF SeqInv, Sequenced, Plain
  <2>3. log[i].seq \in Nat /\ log[j].seq \in Nat /\ walFlushed \in Nat
    BY <2>1, SeqTypes
  <2> QED
    BY <2>1, <2>2, <2>3 DEF Recoverable
<1>7. Suffix'
  BY <1>2, <1>5, <1>6 DEF Suffix
<1>8. OneEach' /\ Shadowed'
  BY <1>4 DEF OneEach, Shadowed
<1>9. Current'
  BY <1>3 DEF Current
<1>10. Reading'
  BY <1>2 DEF Reading
<1> QED
  BY <1>7, <1>8, <1>9, <1>10 DEF Coherent

-----------------------------------------------------------------------------
(* Reads.                                                                  *)

(* No table has a range tombstone.                                         *)
LEMMA NoTombstones ==
    ASSUME BaseInv, Plain
    PROVE  /\ \A a \in 1 .. Len(Mem) : \A r \in Mem[a] : ~IsRange(r)
           /\ \A r \in sst : ~IsRange(r)
BY SeqTypes DEF Plain

(* The readers' tables are those in memory but the one the worker holds.   *)
LEMMA TablesFacts ==
    ASSUME TypeOK
    PROVE  \E o \in {0, 1} :
              /\ Len(Mem) = o + Len(Tables) /\ Len(Tables) \in Nat
              /\ \A i \in 1 .. Len(Tables) : Tables[i] = Mem[i + o]
<1>. DEFINE o == IF worker.pc \in {"flush", "wal"} THEN 1 ELSE 0
<1>1. worker \in WorkerType /\ immutable \in Seq(SUBSET Record) /\ active \in SUBSET Record
  BY DEF TypeOK, WorkerType
<1>2. /\ Len(Mem) = o + Len(immutable) + 1
      /\ \A a \in 1 .. o + Len(immutable) + 1 :
            Mem[a] = IF a <= o THEN worker.tab
                     ELSE IF a <= o + Len(immutable) THEN immutable[a - o] ELSE active
  BY <1>1, MemShape DEF Mem
<1>3. o \in {0, 1} /\ Len(immutable) \in Nat
  BY <1>1
<1>4. /\ Len(Tables) = Len(immutable) + 1
      /\ \A i \in 1 .. Len(immutable) + 1 :
            Tables[i] = IF i <= Len(immutable) THEN immutable[i] ELSE active
  <2>. DEFINE l == <<active>>
  <2>1. l \in Seq(SUBSET Record) /\ Len(l) = 1 /\ l[1] = active
    BY <1>1
  <2>2. Tables = immutable \o l
    BY DEF Tables
  <2>. HIDE DEF l
  <2>3. /\ Len(Tables) = Len(immutable) + Len(l)
        /\ \A i \in 1 .. Len(immutable) + Len(l) :
              Tables[i] = IF i <= Len(immutable) THEN immutable[i] ELSE l[i - Len(immutable)]
    BY <1>1, <2>1, <2>2, ConcatProperties
  <2>4. \A i \in 1 .. Len(immutable) + 1 : ~(i <= Len(immutable)) => i - Len(immutable) = 1
    BY <1>3
  <2> QED
    BY <2>1, <2>3, <2>4
<1>. HIDE DEF o
<1>5. ASSUME NEW i \in 1 .. Len(Tables) PROVE Tables[i] = Mem[i + o]
  <2>1. PICK b \in 1 .. o + Len(immutable) + 1 :
           b = i + o /\ ~(b <= o) /\ b - o = i /\ (b <= o + Len(immutable) <=> i <= Len(immutable))
    BY <1>3, <1>4
  <2>2. Mem[b] = IF i <= Len(immutable) THEN immutable[i] ELSE active
    BY <1>2, <2>1
  <2>3. Tables[i] = IF i <= Len(immutable) THEN immutable[i] ELSE active
    BY <1>4
  <2> QED
    BY <2>1, <2>2, <2>3
<1> QED
  BY <1>2, <1>3, <1>4, <1>5

(* The latest record about a key is in memory whenever some record about   *)
(* it is.                                                                  *)
LEMMA LatestInMemory ==
    ASSUME BaseInv, SeqInv, Plain, client.pc = "ready",
           NEW a \in 1 .. Len(Mem), NEW r \in Mem[a],
           NEW j, Latest(log, j, r.key)
    PROVE  \E b \in 1 .. Len(Mem) : log[j] \in Mem[b]
<1>1. j \in 1 .. Len(log) /\ log[j].key = r.key
  BY DEF Latest
<1>2. r.id \in 1 .. Len(log) /\ log[r.id] = r /\ r.id <= j
  BY SeqTypes DEF Latest
<1>3. walFlushed < r.seq
  BY DEF SeqInv, Layered
<1>4. walFlushed < log[j].seq
  <2>1. r.id = j \/ r.seq < log[j].seq
    BY <1>1, <1>2 DEF SeqInv, Sequenced, Plain
  <2>2. walFlushed \in Nat /\ r.seq \in Nat /\ log[j].seq \in Nat
    BY <1>1, SeqTypes
  <2> QED
    BY <1>2, <1>3, <2>1, <2>2
<1>5. j \in Recoverable
  <2>1. walFlushed \in Nat /\ log[j].seq \in Nat
    BY <1>1, SeqTypes
  <2> QED
    BY <1>1, <1>4, <2>1 DEF Recoverable, Plain
<1>6. j \notin Pending /\ Up
  BY DEF BaseInv, Quiet, Pending, Up
<1>7. PICK b \in 1 .. Len(Mem) : Held(j, b)
  BY <1>5, <1>6 DEF SeqInv, Replayed
<1>8. \A t \in Mem[b] : t.key = log[j].key => ~(log[j].seq < t.seq)
  <2> SUFFICES ASSUME NEW t \in Mem[b], t.key = log[j].key, log[j].seq < t.seq
               PROVE  FALSE
    OBVIOUS
  <2>1. t.id \in 1 .. Len(log) /\ log[t.id] = t /\ t.seq \in Nat /\ log[j].seq \in Nat
    BY <1>1, SeqTypes
  <2>2. t.id <= j
    BY <1>1, <2>1 DEF Latest
  <2>3. t.id = j \/ t.seq < log[j].seq
    BY <1>1, <2>1, <2>2 DEF SeqInv, Sequenced, Plain
  <2> QED
    BY <2>1, <2>3
<1> QED
  BY <1>7, <1>8 DEF Held, Points

(* A memtable answers with the current value: the newest table that has    *)
(* the key has its latest record (lsm.Get).                                *)
LEMMA MemtableReads ==
    ASSUME BaseInv, SeqInv, Plain, Coherent, client.pc = "ready",
           NEW k \in Keys, Holding(k) # {}
    PROVE  MemtableVal(k) = DictVal(k)
<1>0. TypeOK /\ Len(log) \in Nat
  BY DEF BaseInv, TypeOK
<1>. DEFINE H == Holding(k)
            i == CHOOSE i \in H : \A j \in H : j <= i
            r == CHOOSE r \in Points(Tables[i]) : r.key = k
<1>1. PICK o \in {0, 1} : /\ Len(Mem) = o + Len(Tables) /\ Len(Tables) \in Nat
                          /\ \A n \in 1 .. Len(Tables) : Tables[n] = Mem[n + o]
  BY <1>0, TablesFacts
<1>2. H \in SUBSET Nat /\ H # {} /\ \A j \in H : j <= Len(Tables)
  BY <1>1 DEF Holding
<1>3. \E m \in H : \A j \in H : j <= m
  <2> HIDE DEF H
  <2> QED
    BY <1>1, <1>2, GreatestElement
<1>4. i \in H /\ \A j \in H : j <= i
  BY <1>3
<1>5. MemtableVal(k) = IF r.op = "Del" \/ CoveredByRangeDel(Tables[i], k, r.seq) THEN 0 ELSE r.id
  BY DEF MemtableVal
<1>6. i \in 1 .. Len(Tables) /\ \E s \in Points(Tables[i]) : s.key = k
  <2> HIDE DEF i
  <2> QED
    BY <1>4 DEF Holding
<1>7. \A j \in 1 .. Len(Tables) : (\E s \in Points(Tables[j]) : s.key = k) => j <= i
  <2> HIDE DEF i
  <2> QED
    BY <1>4 DEF Holding
<1>. HIDE DEF H, i
<1>8. r \in Points(Tables[i]) /\ r.key = k
  BY <1>6
<1>. HIDE DEF r
<1>a. PICK a \in 1 .. Len(Mem) : a = i + o /\ Tables[i] = Mem[a]
  BY <1>1, <1>6
<1>9. r \in Mem[a] /\ r.id \in 1 .. Len(log) /\ log[r.id] = r
  <2>1. r \in Mem[a]
    BY <1>8, <1>a DEF Points
  <2> QED
    BY <2>1, SeqTypes
<1>10. PICK j \in 1 .. Len(log) : Latest(log, j, k)
  <2>. PICK l : l = log
    OBVIOUS
  <2>1. \E j \in 1 .. Len(l) : Latest(l, j, k)
    BY <1>0, <1>8, <1>9, LatestExists
  <2> QED
    BY <2>1
<1>11. PICK b \in 1 .. Len(Mem) : log[j] \in Mem[b]
  BY <1>8, <1>9, <1>10, LatestInMemory
<1>12. log[j] = r
  <2>1. r.id <= j /\ log[j].key = k
    BY <1>8, <1>9, <1>10 DEF Latest
  <2>2. r.seq <= log[j].seq /\ r.seq \in Nat /\ log[j].seq \in Nat
    <3>1. r.id = j \/ r.seq < log[j].seq
      BY <1>9, <2>1 DEF SeqInv, Sequenced, Plain
    <3>2. r.seq \in Nat /\ log[j].seq \in Nat
      BY <1>9, SeqTypes
    <3> QED
      BY <1>9, <3>1, <3>2
  <2>3. ~(b < a)
    <3>1. b < a => log[j].seq < r.seq
      BY <1>9, <1>11 DEF SeqInv, Layered
    <3> QED
      BY <2>2, <3>1
  <2>4. ~(a < b)
    <3> SUFFICES ASSUME a < b PROVE FALSE
      OBVIOUS
    <3>1. b - o \in 1 .. Len(Tables) /\ b - o + o = b /\ ~(b - o <= i)
      BY <1>1, <1>6, <1>a
    <3>2. log[j] \in Points(Tables[b - o])
      <4>1. Tables[b - o] = Mem[b]
        BY <1>1, <3>1
      <4> QED
        BY <1>11, <4>1, NoTombstones DEF Points
    <3> QED
      BY <1>7, <2>1, <3>1, <3>2
  <2>5. a = b
    BY <1>1, <2>3, <2>4
  <2> QED
    BY <1>8, <1>9, <1>11, <2>1, <2>5 DEF Coherent, OneEach
<1>13. ~CoveredByRangeDel(Tables[i], k, r.seq)
  BY <1>a, NoTombstones DEF CoveredByRangeDel
<1>14. DictVal(k) = IF r.op = "Put" THEN j ELSE 0
  <2>. PICK l : l = log
    OBVIOUS
  <2>1. DictOf(l, k) = IF l[j].op = "Put" THEN j ELSE 0
    BY <1>0, <1>10, DictLatest
  <2>2. PointLog
    BY DEF Plain, PointLog
  <2> QED
    BY <1>12, <2>1, <2>2, DictIsDictOf
<1>15. r.op \in {"Put", "Del"} /\ r.id = j
  <2>1. ~IsRange(r) /\ r \in Record
    BY <1>0, <1>9 DEF Plain, TypeOK
  <2>2. log[j].id = j
    BY SeqTypes
  <2> QED
    BY <1>12, <2>1, <2>2 DEF IsRange, Record
<1> QED
  BY <1>5, <1>13, <1>14, <1>15

(* Between calls a cache hit is the current value.                         *)
LEMMA CacheReads ==
    ASSUME Coherent, client.todo = {}, NEW k \in Keys, CacheHas(cache, k)
    PROVE  CacheVal(cache, k) = DictVal(k)
<1>. DEFINE i == CHOOSE i \in 1 .. Len(cache) : cache[i].key = k
<1>1. i \in 1 .. Len(cache) /\ cache[i].key = k
  BY DEF CacheHas
<1>2. CacheVal(cache, k) = cache[i].val
  BY DEF CacheVal
<1>. HIDE DEF i
<1> QED
  BY <1>1, <1>2 DEF Coherent, Current

(* The SSTables give the current value of a key that no memtable has: its  *)
(* latest record is there, unless it is a tombstone that had nothing left  *)
(* to hide.                                                                *)
LEMMA SSTReads ==
    ASSUME BaseInv, SeqInv, Plain, Coherent, client.pc = "sst",
           NEW k \in Keys, client.key = k,
           NEW found, found = {r \in Points(sst) : r.key = k}
    PROVE  /\ ~CoveredByRangeDel(sst, k, Newest(found).seq)
           /\ found = {} \/ Newest(found).op = "Del" => DictVal(k) = 0
           /\ found # {} /\ Newest(found).op # "Del" => DictVal(k) = Newest(found).id
<1>0. TypeOK /\ Len(log) \in Nat /\ log \in Seq(Record)
  BY DEF BaseInv, TypeOK
<1>1. ~CoveredByRangeDel(sst, k, Newest(found).seq)
  BY NoTombstones DEF CoveredByRangeDel
<1>2. \A r : r \in found <=> r \in sst /\ r.key = k
  BY NoTombstones DEF Points
<1>3. \A r \in found : r.id \in 1 .. Len(log) /\ log[r.id] = r /\ r.seq \in Nat
  BY <1>2, SeqTypes
<1>4. found # {} => /\ Newest(found) \in found
                    /\ \A s \in found : s.seq <= Newest(found).seq
  <2> SUFFICES ASSUME found # {}
               PROVE  Newest(found) \in found /\ \A s \in found : s.seq <= Newest(found).seq
    OBVIOUS
  <2>1. \A r \in found : \E i \in 1 .. Len(log) : r = log[i]
    BY <1>3
  <2>2. \E r \in found : \A s \in found : s.seq <= r.seq
    <3>1. /\ \A r \in found : r.seq <= MaxSeq(found)
          /\ found # {} => \E r \in found : r.seq = MaxSeq(found)
      BY <1>0, <2>1, MaxSeqFacts
    <3> QED
      BY <3>1
  <2> QED
    BY <2>2 DEF Newest
<1>5. PICK l : l = log
  OBVIOUS
<1>6. PointLog /\ DictVal(k) = DictOf(l, k)
  BY <1>5, DictIsDictOf DEF Plain, PointLog
<1>7. CASE \A j \in 1 .. Len(log) : log[j].key # k
  <2>1. found = {}
    BY <1>2, <1>3, <1>7
  <2>2. DictOf(l, k) = 0
    BY <1>5, <1>7, DictAbsent
  <2> QED
    BY <1>1, <1>6, <2>1, <2>2
<1>8. CASE \E j \in 1 .. Len(log) : log[j].key = k
  <2>1. PICK j \in 1 .. Len(log) : Latest(l, j, k)
    BY <1>0, <1>5, <1>8, LatestExists
  <2>2. /\ log[j].key = k
        /\ \A i \in 1 .. Len(log) : log[i].key = k => i <= j
    BY <1>5, <2>1 DEF Latest
  <2>3. DictVal(k) = IF log[j].op = "Put" THEN j ELSE 0
    BY <1>0, <1>5, <1>6, <2>1, DictLatest
  <2>4. /\ log[j].op \in {"Put", "Del"} /\ log[j].id = j /\ log[j].seq \in Nat
        /\ walFlushed \in Nat
    <3>1. log[j] \in Record /\ ~IsRange(log[j])
      BY <1>0 DEF Plain
    <3> QED
      BY <3>1, SeqTypes DEF Record, IsRange
  <2>5. \A r \in found : r = log[j] \/ r.seq < log[j].seq
    <3> SUFFICES ASSUME NEW r \in found, r.id # j PROVE r.seq < log[j].seq
      BY <1>3
    <3>1. r.id \in 1 .. Len(log) /\ log[r.id] = r /\ r.id < j
      BY <1>2, <1>3, <2>2
    <3> QED
      BY <3>1 DEF SeqInv, Sequenced, Plain
  <2>6. CASE log[j] \in sst
    <3>1. log[j] \in found
      BY <1>2, <2>2, <2>6
    <3>2. Newest(found) = log[j]
      <4>1. PICK b : b = Newest(found)
        OBVIOUS
      <4>2. b \in found /\ log[j].seq <= b.seq /\ b.seq \in Nat
        BY <1>3, <1>4, <3>1, <4>1
      <4>3. ~(b.seq < log[j].seq)
        BY <2>4, <4>2
      <4> QED
        BY <2>5, <4>1, <4>2, <4>3
    <3> QED
      BY <1>1, <2>3, <2>4, <3>1, <3>2
  <2>7. CASE log[j] \notin sst
    <3>1. \A a \in 1 .. Len(Mem) : \A r \in Mem[a] : r.key # k
      <4>1. ~CacheHas(cache, k)
        BY DEF Coherent, Reading
      <4>2. ~InHand(k)
        BY DEF InHand, BaseInv, Quiet
      <4> QED
        BY <4>1, <4>2 DEF Coherent, Shadowed
    <3>2. j \notin Pending /\ Up
      BY DEF BaseInv, Quiet, Pending, Up
    <3>3. log[j].seq <= walFlushed
      <4> SUFFICES ASSUME log[j].seq > walFlushed PROVE FALSE
        BY <2>4
      <4>1. PICK a \in 1 .. Len(Mem) : Held(j, a)
        BY <2>7, <3>2 DEF SeqInv, Replayed, Plain
      <4> QED
        BY <2>2, <3>1, <4>1 DEF Held, Points
    <3>4. Passed(j)
      BY <3>3 DEF SeqInv, Kept, Plain
    <3>5. ~\E i \in 1 .. Len(log) : Overrides(i, j)
      <4> SUFFICES ASSUME NEW i \in 1 .. Len(log), Overrides(i, j) PROVE FALSE
        OBVIOUS
      <4>1. i > j /\ log[i].key = k
        BY <2>2 DEF Overrides, Plain
      <4> QED
        BY <2>2, <4>1
    <3>6. log[j].op # "Put" /\ ~Needed(log[j], sst)
      BY <2>2, <2>7, <3>4, <3>5 DEF Passed, Plain
    <3>7. found = {}
      <4> SUFFICES ASSUME NEW r \in found PROVE FALSE
        OBVIOUS
      <4>1. r \in sst /\ r.key = k /\ r # log[j] /\ ~IsRange(r) /\ ~IsRange(log[j])
        BY <1>2, <2>7, NoTombstones DEF Plain
      <4>2. log[j].seq > r.seq
        BY <1>3, <2>4, <2>5, <4>1
      <4> QED
        BY <2>2, <3>6, <4>1, <4>2 DEF Needed, Hides
    <3> QED
      BY <1>1, <2>3, <3>6, <3>7
  <2> QED
    BY <2>6, <2>7
<1> QED
  BY <1>7, <1>8

(* A read that caches nothing but the current value of a key.              *)
LEMMA CoherentRead ==
    ASSUME Undisturbed, TypeOK, Plain, Coherent,
           client.todo = {}, client'.todo = {}, Mem' = Mem, UNCHANGED <<log, lost>>,
           \/ cache' = cache
           \/ \E k \in Keys : DictVal(k) \in Nat /\ cache' = CachePut(cache, k, DictVal(k)),
           Reading'
    PROVE  Coherent'
<1>1. \A q : DictVal(q)' = DictVal(q)
  BY DictSame
<1>2. Suffix' /\ OneEach'
  BY DEF Suffix, Coherent, OneEach
<1>3. \A a \in 1 .. Len(Mem) : \A r \in Mem[a] : CacheHas(cache, r.key)
  BY DEF Coherent, Shadowed, InHand
<1>4. \A n \in 1 .. Len(cache) : \A q \in Keys : cache[n].key = q => cache[n].val = DictVal(q)
  BY DEF Coherent, Current
<1>5. /\ \A q : CacheHas(cache, q) => CacheHas(cache', q)
      /\ \A n \in 1 .. Len(cache') : \A q \in Keys : cache'[n].key = q => cache'[n].val = DictVal(q)
  <2>1. CASE cache' = cache
    BY <1>4, <2>1
  <2>2. CASE cache' # cache
    <3>1. PICK k \in Keys : DictVal(k) \in Nat /\ cache' = CachePut(cache, k, DictVal(k))
      BY <2>2
    <3>2. PICK v \in Nat : v = DictVal(k)
      BY <3>1
    <3>3. cache \in Seq(CacheEntry) /\ Distinct(cache)
      BY DEF TypeOK, CacheEntry, Plain
    <3>4. /\ \A n \in 1 .. Len(cache') :
                \/ cache'[n] = [key |-> k, val |-> v]
                \/ cache'[n].key # k /\ \E m \in 1 .. Len(cache) : cache'[n] = cache[m]
          /\ \A q : CacheHas(cache, q) => CacheHas(cache', q)
      BY <3>1, <3>2, <3>3, CachePutFacts
    <3> QED
      BY <1>4, <3>2, <3>4
  <2> QED
    BY <2>1, <2>2
<1>6. Shadowed'
  BY <1>3, <1>5 DEF Shadowed
<1>7. Current'
  BY <1>1, <1>5 DEF Current
<1> QED
  BY <1>2, <1>6, <1>7 DEF Coherent

(* What a read answers, if it does.                                        *)
Answers == ret' = ret \/ \E k \in Keys : ret' = [key |-> k, val |-> DictVal(k)]

(* The steps of Get keep the cache coherent and answer with the current    *)
(* value of the key.                                                       *)
LEMMA GetSteps ==
    ASSUME Undisturbed, BaseInv, SeqInv, Plain, Coherent,
           \/ \E k \in Keys : GetFromMemtable(k) \/ GetFromCache(k) \/ GetMiss(k)
           \/ GetFromSST
           \/ GetCheckRangeDel
    PROVE  Coherent' /\ Answers
<1>0. TypeOK /\ client \in ClientType(Len(log)) /\ client.key \in Keys /\ Len(log) \in Nat
  BY DEF BaseInv, TypeOK, ClientType
<1>1. /\ UNCHANGED <<log, lost>> /\ Mem' = Mem
      /\ client.pc \in {"ready", "sst", "cover"} /\ client.todo = {}
  <2>1. ClientOnly
    BY DEF ClientOnly
  <2>2. UNCHANGED <<log, lost>> /\ Mem' = Mem
    BY <2>1, ClientOnlyFacts DEF Mem
  <2>3. client.pc \in {"ready", "sst", "cover"}
    BY DEF GetFromMemtable, GetFromCache, GetMiss, GetFromSST, GetCheckRangeDel
  <2> QED
    BY <2>2, <2>3 DEF BaseInv, Quiet
<1>2. \A k : DictVal(k)' = DictVal(k) /\ DictVal(k) \in Nat
  <2>1. PointLog
    BY DEF Plain, PointLog
  <2>2. \A k : DictVal(k) \in Nat
    <3>1. PICK l : l = log
      OBVIOUS
    <3>2. \A k : DictOf(l, k) \in 0 .. Len(l)
      BY <1>0, <3>1, DictBound
    <3> QED
      BY <1>0, <2>1, <3>1, <3>2, DictIsDictOf
  <2> QED
    BY <1>1, <2>2, DictSame
<1>i. Idle.pc = "ready" /\ Idle.todo = {}
  BY IdleFacts
<1>3. ASSUME NEW k \in Keys, GetFromMemtable(k) \/ GetFromCache(k)
      PROVE  Coherent' /\ Answers
  <2>1. client.pc = "ready" /\ client' = client
    BY <1>3 DEF GetFromMemtable, GetFromCache
  <2>2. cache' = CachePut(cache, k, DictVal(k)) /\ ret' = [key |-> k, val |-> DictVal(k)]
    <3>1. CASE GetFromMemtable(k)
      <4>1. MemtableVal(k) = DictVal(k)
        BY <2>1, <3>1, MemtableReads DEF GetFromMemtable
      <4> QED
        BY <3>1, <4>1 DEF GetFromMemtable, Answer
    <3>2. CASE GetFromCache(k)
      <4>1. CacheVal(cache, k) = DictVal(k)
        BY <1>1, <3>2, CacheReads DEF GetFromCache
      <4> QED
        BY <3>2, <4>1 DEF GetFromCache, Answer
    <3> QED
      BY <1>3, <3>1, <3>2
  <2>3. Reading'
    BY <2>1 DEF Reading
  <2>4. Coherent'
    BY <1>0, <1>1, <1>2, <2>1, <2>2, <2>3, CoherentRead
  <2> QED
    BY <2>2, <2>4 DEF Answers
<1>4. ASSUME NEW k \in Keys, GetMiss(k) PROVE Coherent' /\ Answers
  <2>1. /\ client' = [client EXCEPT !.pc = "sst", !.key = k] /\ ~CacheHas(cache, k)
        /\ cache' = cache /\ ret' = ret
    BY <1>4 DEF GetMiss, history
  <2>2. client'.pc = "sst" /\ client'.key = k /\ client'.todo = {}
    BY <1>0, <1>1, <2>1 DEF ClientType
  <2>3. Reading'
    BY <2>1, <2>2 DEF Reading, CacheHas
  <2>4. Coherent'
    BY <1>0, <1>1, <2>1, <2>2, <2>3, CoherentRead
  <2> QED
    BY <2>1, <2>4 DEF Answers
<1>5. CASE GetFromSST
  <2>. PICK k \in Keys : k = client.key
    BY <1>0
  <2>. PICK found : found = {r \in Points(sst) : r.key = k}
    OBVIOUS
  <2>. DEFINE best == Newest(found)
  <2>1. client.pc = "sst"
    BY <1>5 DEF GetFromSST
  <2>2. /\ ~CoveredByRangeDel(sst, k, best.seq)
        /\ found = {} \/ best.op = "Del" => DictVal(k) = 0
        /\ found # {} /\ best.op # "Del" => DictVal(k) = best.id
    BY <2>1, SSTReads
  <2>3. /\ IF found = {} \/ best.op = "Del" \/ CoveredByRangeDel(sst, k, best.seq)
           THEN client' = Idle /\ Answer(k, 0)
           ELSE /\ client' = [client EXCEPT !.pc = "cover", !.val = best.id, !.seq = best.seq]
                /\ ret' = ret
        /\ cache' = cache
    BY <1>5 DEF GetFromSST
  <2>. HIDE DEF best
  <2>4. CASE found = {} \/ best.op = "Del"
    <3>1. client' = Idle /\ ret' = [key |-> k, val |-> DictVal(k)]
      BY <2>2, <2>3, <2>4 DEF Answer
    <3>2. Reading'
      BY <1>i, <3>1 DEF Reading
    <3>3. Coherent'
      BY <1>0, <1>1, <1>i, <2>3, <3>1, <3>2, CoherentRead
    <3> QED
      BY <3>1, <3>3 DEF Answers
  <2>5. CASE found # {} /\ best.op # "Del"
    <3>1. /\ client' = [client EXCEPT !.pc = "cover", !.val = best.id, !.seq = best.seq]
          /\ ret' = ret /\ DictVal(k) = best.id
      BY <2>2, <2>3, <2>5
    <3>2. client'.pc = "cover" /\ client'.key = k /\ client'.val = DictVal(k) /\ client'.todo = {}
      BY <1>0, <1>1, <3>1 DEF ClientType
    <3>3. Reading'
      BY <1>2, <3>2 DEF Reading
    <3>4. Coherent'
      BY <1>0, <1>1, <2>3, <3>2, <3>3, CoherentRead
    <3> QED
      BY <3>1, <3>4 DEF Answers
  <2> QED
    BY <2>4, <2>5
<1>6. CASE GetCheckRangeDel
  <2>. PICK k \in Keys : k = client.key
    BY <1>0
  <2>1. client.pc = "cover" /\ client' = Idle
    BY <1>6 DEF GetCheckRangeDel
  <2>2. client.val = DictVal(k)
    BY <2>1 DEF Coherent, Reading
  <2>3. ~\E i \in 1 .. Len(Tables) : CoveredByRangeDel(Tables[i], k, client.seq)
    <3>1. PICK o \in {0, 1} : /\ Len(Mem) = o + Len(Tables) /\ Len(Tables) \in Nat
                              /\ \A i \in 1 .. Len(Tables) : Tables[i] = Mem[i + o]
      BY <1>0, TablesFacts
    <3>2. \A i \in 1 .. Len(Tables) : \E a \in 1 .. Len(Mem) : Tables[i] = Mem[a]
      <4>1. \A i \in 1 .. Len(Tables) : i + o \in 1 .. Len(Mem)
        BY <3>1
      <4> QED
        BY <3>1, <4>1
    <3> QED
      BY <3>2, NoTombstones DEF CoveredByRangeDel
  <2>4. ret' = [key |-> k, val |-> DictVal(k)] /\ cache' = CachePut(cache, k, DictVal(k))
    BY <1>6, <2>2, <2>3 DEF GetCheckRangeDel, Answer
  <2>5. Reading'
    BY <1>i, <2>1 DEF Reading
  <2>6. Coherent'
    BY <1>0, <1>1, <1>2, <1>i, <2>1, <2>4, <2>5, CoherentRead
  <2> QED
    BY <2>4, <2>6 DEF Answers
<1> QED
  BY <1>3, <1>4, <1>5, <1>6

-----------------------------------------------------------------------------
(* The invariant.                                                          *)

(* It holds initially.                                                     *)
LEMMA DictInvInit == Init => DictInv
<1> SUFFICES ASSUME Init PROVE DictInv
  OBVIOUS
<1>1. log = <<>> /\ Len(log) = 0 /\ lost = {} /\ cache = <<>> /\ Len(cache) = 0
      /\ client.pc = "ready" /\ client.todo = {}
  BY IdleFacts DEF Init
<1>2. 1 .. Len(log) = {} /\ 1 .. Len(cache) = {}
  BY <1>1
<1>3. Plain
  BY <1>1, <1>2 DEF Plain, Distinct
<1>4. \A a \in 1 .. Len(Mem) : Mem[a] = {}
  <2>1. TypeOK
    BY TypeInit
  <2>2. /\ worker \in WorkerType /\ immutable \in Seq(SUBSET Record) /\ active \in SUBSET Record
        /\ worker.pc = "recv"
    BY <2>1 DEF Init, TypeOK, WorkerType
  <2>3. Len(Mem) = 0 + Len(immutable) + 1
    BY <2>2, MemShape DEF Mem
  <2>4. Len(Mem) = 1 /\ active = {}
    BY <2>3 DEF Init
  <2>5. Mem[1] = {}
    BY <2>1, <2>4, MemFacts
  <2>6. \A a \in 1 .. 1 : a = 1
    OBVIOUS
  <2> QED
    BY <2>4, <2>5, <2>6, Zenon
<1>5. Coherent
  BY <1>1, <1>2, <1>4 DEF Coherent, Suffix, OneEach, Shadowed, Current, Reading
<1> QED
  BY <1>3, <1>5 DEF DictInv

(* The steps of the client that write, of the worker, and crashes.         *)
LEMMA CoherentStep ==
    ASSUME Undisturbed, BaseInv, BaseInv', SeqInv, Plain, Plain', Coherent, [Next]_vars
    PROVE  Coherent'
<1>0. TypeOK /\ TypeOK'
  BY DEF BaseInv
<1>1. CASE \E ks \in Batches, op \in {"Put", "Del"} : Write(ks, op)
  BY <1>0, <1>1, WriteOne, CoherentWrite
<1>2. CASE \E rng \in Ranges : RangeDelete(rng)
  BY <1>2 DEF Undisturbed
<1>3. CASE Apply
  BY <1>3, CoherentApply
<1>4. CASE Rotate
  <2>1. /\ Len(Mem') = Len(Mem) + 1 /\ Len(Mem) \in Nat \ {0}
        /\ \A a \in 1 .. Len(Mem) : Mem'[a] = Mem[a]
        /\ Mem'[Len(Mem) + 1] = {}
    BY <1>0, <1>4, MemRotate, MemFacts
  <2>2. \A a \in 1 .. Len(Mem') : \E b \in 1 .. Len(Mem) : Mem'[a] \subseteq Mem[b]
    <3> SUFFICES ASSUME NEW a \in 1 .. Len(Mem')
                 PROVE  \E b \in 1 .. Len(Mem) : Mem'[a] \subseteq Mem[b]
      OBVIOUS
    <3>1. CASE a = Len(Mem) + 1
      <4>1. 1 \in 1 .. Len(Mem)
        BY <2>1
      <4> QED
        BY <2>1, <3>1, <4>1
    <3>2. CASE a # Len(Mem) + 1
      <4>1. a \in 1 .. Len(Mem)
        BY <2>1, <3>2
      <4> QED
        BY <2>1, <4>1
    <3> QED
      BY <3>1, <3>2
  <2>3. client'.pc = "cache" /\ client'.todo = client.todo /\ Pending' = Pending
    <3>1. client \in ClientType(Len(log)) /\ client.pc = "rotate"
          /\ client' = [client EXCEPT !.pc = "cache"]
      BY <1>0, <1>4 DEF TypeOK, ClientType, Rotate
    <3>2. client'.pc = "cache" /\ client'.todo = client.todo
      BY <3>1 DEF ClientType
    <3> QED
      BY <3>1, <3>2 DEF Pending
  <2>4. UNCHANGED <<cache, log, lost>>
    BY <1>4 DEF Rotate, persistent, history
  <2> QED
    BY <2>2, <2>3, <2>4, CoherentFrame
<1>5. CASE UpdateCache
  BY <1>5, CoherentUpdateCache
<1>6. CASE \/ \E k \in Keys : GetFromMemtable(k) \/ GetFromCache(k) \/ GetMiss(k)
           \/ GetFromSST
           \/ GetCheckRangeDel
  BY <1>6, GetSteps
<1>7. CASE TakeImmutable \/ FlushToSSTable \/ Compact \/ UNCHANGED vars
  <2>1. Mem' = Mem
    BY <1>0, <1>7, MemTake, MemFlush, MemCompact DEF vars, volatile, Mem
  <2>2. UNCHANGED <<client, cache, log, lost>>
    BY <1>7 DEF TakeImmutable, FlushToSSTable, Compact, vars, volatile, persistent, history
  <2>3. Pending' = Pending
    BY <2>2 DEF Pending
  <2>4. \A a \in 1 .. Len(Mem') : \E b \in 1 .. Len(Mem) : Mem'[a] \subseteq Mem[b]
    BY <2>1
  <2> QED
    BY <2>2, <2>3, <2>4, CoherentFrame
<1>8. CASE MemtableFlushed
  <2>1. /\ Len(Mem') = Len(Mem) - 1 /\ Len(Mem) \in Nat \ {0}
        /\ \A a \in 1 .. Len(Mem) - 1 : Mem'[a] = Mem[a + 1]
    BY <1>0, <1>8, MemFlushed, MemFacts
  <2>2. UNCHANGED <<client, cache, log, lost>>
    BY <1>8 DEF MemtableFlushed, history
  <2>3. Pending' = Pending
    BY <2>2 DEF Pending
  <2>4. \A a \in 1 .. Len(Mem') : a + 1 \in 1 .. Len(Mem) /\ Mem'[a] = Mem[a + 1]
    BY <2>1
  <2> QED
    BY <2>2, <2>3, <2>4, CoherentFrame
<1>9. CASE WorkerPanics \/ Crash
  BY <1>9, CoherentStop DEF WorkerPanics, Crash
<1>10. CASE Restart
  BY <1>10, CoherentRestart
<1> QED
  BY <1>1, <1>2, <1>3, <1>4, <1>5, <1>6, <1>7, <1>8, <1>9, <1>10 DEF Next

(* Only a restart can set the generator back.                              *)
LEMMA RegressedStep ==
    ASSUME TypeOK, [Next]_vars
    PROVE  Restart \/ regressed' = regressed
<1>1. CASE \/ \E ks \in Batches, op \in {"Put", "Del"} : Write(ks, op)
           \/ \E rng \in Ranges : RangeDelete(rng)
  BY <1>1 DEF Write, RangeDelete, WalAppend
<1>2. CASE \/ Apply \/ Rotate \/ UpdateCache \/ GetFromSST \/ GetCheckRangeDel
           \/ \E k \in Keys : GetFromMemtable(k) \/ GetFromCache(k) \/ GetMiss(k)
  BY <1>2 DEF Apply, Rotate, UpdateCache, GetFromSST, GetCheckRangeDel, GetFromMemtable,
              GetFromCache, GetMiss, history
<1>3. CASE \/ TakeImmutable \/ FlushToSSTable \/ MemtableFlushed \/ Compact
           \/ WorkerPanics \/ Crash \/ UNCHANGED vars
  BY <1>3 DEF TakeImmutable, FlushToSSTable, MemtableFlushed, Compact, WorkerPanics, Crash,
              Stop, vars, history
<1> QED
  BY <1>1, <1>2, <1>3 DEF Next

(* Every step keeps the invariant.                                         *)
LEMMA DictInvStep ==
    ASSUME Undisturbed, Inv, Inv', DictInv, [Next]_vars
    PROVE  DictInv'
<1>1. BaseInv /\ BaseInv' /\ TypeOK /\ Plain
  BY DEF Inv, BaseInv, DictInv
<1>2. Plain'
  BY <1>1, PlainStep
<1>3. ASSUME ~regressed' PROVE Coherent'
  <2>1. ~regressed
    <3>1. Restart => (regressed => regressed')
      BY DEF Restart
    <3> QED
      BY <1>1, <1>3, <3>1, RegressedStep
  <2>2. SeqInv /\ Coherent
    BY <2>1 DEF Inv, DictInv
  <2> QED
    BY <1>1, <1>2, <2>2, CoherentStep
<1> QED
  BY <1>2, <1>3 DEF DictInv

(* So it always holds.                                                     *)
LEMMA DictInvariance == Undisturbed => (Spec => []DictInv)
<1>1. Undisturbed /\ Inv /\ Inv' /\ DictInv /\ [Next]_vars => DictInv'
  BY DictInvStep
<1>2. Undisturbed => []Undisturbed
  <2>1. Undisturbed => Undisturbed'
    BY DEF Undisturbed
  <2> QED
    BY <2>1, PTL
<1> QED
  BY <1>1, <1>2, DictInvInit, Invariance, PTL DEF Spec

-----------------------------------------------------------------------------
(* The refinement.                                                         *)

(* The initial state maps to the empty dictionary.                         *)
LEMMA KVInit == Init => KV!Init
<1> SUFFICES ASSUME Init PROVE KV!Init
  OBVIOUS
<1>1. \A k : DictVal(k) = 0
  <2>1. lost = {} /\ 1 .. Len(log) = {}
    BY DEF Init
  <2>2. PointLog
    BY <2>1 DEF PointLog
  <2>3. \A k : DictOf(log, k) = 0
    BY <2>1, Zenon DEF DictOf
  <2> QED
    BY <2>2, <2>3, DictIsDictOf
<1>2. ret = NoAnswer
  BY DEF Init
<1> QED
  BY <1>1, <1>2 DEF KV!Init

(* A write replaces the version of one key, by a value that is new or, for *)
(* a deletion, by none.                                                    *)
LEMMA KVWrite ==
    ASSUME TypeOK, Plain, Plain', NEW k \in Keys, NEW op, OneMore(k, op)
    PROVE  KV!Write
<1>. PICK n \in Nat : n = Len(log)
  BY DEF TypeOK
<1>1. /\ Len(log') = n + 1 /\ \A i \in 1 .. n : log'[i] = log[i] /\ log'[n + 1].key = k
      /\ ret' = NoAnswer
  BY DEF OneMore
<1>2. log'[n + 1].key = k
  BY DEF OneMore
<1>3. \A q : DictVal(q) \in 0 .. n
  <2>1. PICK l : l = log
    OBVIOUS
  <2>2. \A q : DictOf(l, q) \in 0 .. n
    BY <2>1, DictBound
  <2>3. PointLog
    BY DEF Plain, PointLog
  <2> QED
    BY <2>1, <2>2, <2>3, DictIsDictOf
<1>4. \A q : DictVal(q)' = IF q # k THEN DictVal(q)
                           ELSE IF log'[n + 1].op = "Put" THEN n + 1 ELSE 0
  <2>1. PICK l : l = log
    OBVIOUS
  <2>2. PICK m : m = log'
    OBVIOUS
  <2>3. \A q : DictOf(m, q) = IF q # m[Len(m)].key THEN DictOf(l, q)
                              ELSE IF m[Len(m)].op = "Put" THEN Len(m) ELSE 0
    BY <1>1, <2>1, <2>2, DictAppend
  <2>4. PointLog /\ PointLog'
    BY DEF Plain, PointLog
  <2>5. (\A q : DictVal(q) = DictOf(log, q)) /\ (\A q : DictVal(q)' = DictOf(log', q))
    BY <2>4, DictIsDictOf, DictIsDictOfNext
  <2> QED
    BY <1>1, <1>2, <2>1, <2>2, <2>3, <2>5
<1>. DEFINE d == [q \in Keys |-> DictVal(q)]
            e == [q \in Keys |-> DictVal(q)']
<1>5. \E K \in SUBSET Keys :
         \A q \in Keys : IF q \in K THEN e[q] = 0 \/ \A j \in Keys : e[q] > d[j]
                                    ELSE e[q] = d[q]
  <2>1. {k} \in SUBSET Keys
    OBVIOUS
  <2>2. \A q \in Keys : q # k => e[q] = d[q]
    BY <1>4
  <2>3. e[k] = 0 \/ \A j \in Keys : e[k] > d[j]
    <3>1. e[k] = 0 \/ e[k] = n + 1
      BY <1>4
    <3>2. \A j \in Keys : d[j] \in 0 .. n
      BY <1>3
    <3> HIDE DEF d, e
    <3> QED
      BY <3>1, <3>2
  <2> HIDE DEF d, e
  <2> QED
    BY <2>1, <2>2, <2>3
<1>6. DOMAIN e = Keys
  OBVIOUS
<1>7. (IF regressed THEN NoAnswer ELSE ret)' = NoAnswer
  BY <1>1 DEF NoAnswer, Idle
<1> QED
  BY <1>5, <1>6, <1>7 DEF KV!Write, KV!Fresh

(* Steps that change neither the dictionary nor the answer.                *)
LEMMA KVStutter ==
    ASSUME UNCHANGED <<log, lost>>, regressed' = regressed,
           ret' = ret \/ regressed
    PROVE  UNCHANGED KV!kvVars
<1>1. \A k : DictVal(k)' = DictVal(k)
  BY DictSame
<1> QED
  BY <1>1 DEF KV!kvVars, NoAnswer, Idle

(* Every step of the engine is a write, a read, a restart or a stutter of  *)
(* the dictionary.                                                         *)
LEMMA KVStep ==
    ASSUME Undisturbed, Inv, Inv', DictInv, DictInv', [Next]_vars
    PROVE  KV!Next \/ UNCHANGED KV!kvVars
<1>0. BaseInv /\ TypeOK /\ Plain /\ Plain'
  BY DEF Inv, BaseInv, DictInv
<1>1. CASE \E ks \in Batches, op \in {"Put", "Del"} : Write(ks, op)
  <2>1. KV!Write
    BY <1>0, <1>1, WriteOne, KVWrite
  <2> QED
    BY <2>1 DEF KV!Next
<1>2. CASE \E rng \in Ranges : RangeDelete(rng)
  BY <1>2 DEF Undisturbed
<1>3. CASE \/ \E k \in Keys : GetFromMemtable(k) \/ GetFromCache(k) \/ GetMiss(k)
           \/ GetFromSST
           \/ GetCheckRangeDel
  <2>1. UNCHANGED <<log, lost>> /\ regressed' = regressed
    BY <1>3 DEF GetFromMemtable, GetFromCache, GetMiss, GetFromSST, GetCheckRangeDel,
                persistent, history
  <2>2. CASE regressed
    BY <2>1, <2>2, KVStutter
  <2>3. CASE ~regressed
    <3>1. Answers
      BY <1>0, <1>3, <2>3, GetSteps DEF Inv, DictInv
    <3>2. CASE ret' = ret
      BY <2>1, <3>2, KVStutter
    <3>3. CASE \E k \in Keys : ret' = [key |-> k, val |-> DictVal(k)]
      <4>1. PICK k \in Keys : ret' = [key |-> k, val |-> DictVal(k)]
        BY <3>3
      <4>2. \A q : DictVal(q)' = DictVal(q)
        BY <2>1, DictSame
      <4>3. KV!Get(k)
        BY <2>1, <2>3, <4>1, <4>2 DEF KV!Get
      <4> QED
        BY <4>3 DEF KV!Next
    <3> QED
      BY <3>1, <3>2, <3>3 DEF Answers
  <2> QED
    BY <2>2, <2>3
<1>4. CASE Restart
  <2>1. UNCHANGED <<log, lost>> /\ ret' = NoAnswer
    BY <1>0, <1>4 DEF Restart, Plain
  <2>2. \A q : DictVal(q)' = DictVal(q)
    BY <2>1, DictSame
  <2>3. KV!Reopen
    BY <2>1, <2>2 DEF KV!Reopen, NoAnswer, Idle
  <2> QED
    BY <2>3 DEF KV!Next
<1>5. CASE \/ Apply \/ Rotate \/ UpdateCache
           \/ TakeImmutable \/ FlushToSSTable \/ MemtableFlushed \/ Compact
           \/ WorkerPanics \/ Crash \/ UNCHANGED vars
  <2>1. UNCHANGED <<log, lost, regressed, ret>>
    <3>1. CASE Apply \/ Rotate \/ UpdateCache
      BY <3>1 DEF Apply, Rotate, UpdateCache, persistent, history
    <3>2. CASE \/ TakeImmutable \/ FlushToSSTable \/ MemtableFlushed \/ Compact
               \/ WorkerPanics \/ Crash \/ UNCHANGED vars
      BY <3>2 DEF TakeImmutable, FlushToSSTable, MemtableFlushed, Compact, WorkerPanics,
                  Crash, Stop, vars, persistent, history
    <3> QED
      BY <1>5, <3>1, <3>2
  <2> QED
    BY <2>1, KVStutter
<1> QED
  BY <1>1, <1>2, <1>3, <1>4, <1>5 DEF Next

(* The engine is a dictionary: a read returns the newest write whatever    *)
(* was flushed, compacted, lost in a crash and replayed in between,        *)
(* provided that there are no range deletes and no batches, and that the   *)
(* read cache has room for every key (Undisturbed).                        *)
THEOREM EngineIsDictionary ==
    ASSUME Ranges = {}, MaxBatch = 1, Cardinality(Keys) <= CacheSize
    PROVE  Spec => Dictionary
<1>1. Undisturbed
  BY DEF Undisturbed
<1>2. Undisturbed /\ Inv /\ Inv' /\ DictInv /\ DictInv' /\ [Next]_vars => [KV!Next]_(KV!kvVars)
  BY KVStep
<1>3. Undisturbed => []Undisturbed
  <2>1. Undisturbed => Undisturbed'
    BY DEF Undisturbed
  <2> QED
    BY <2>1, PTL
<1> QED
  BY <1>1, <1>2, <1>3, KVInit, Invariance, DictInvariance, PTL DEF Spec, Dictionary, KV!Spec
=============================================================================
