----------------------------- MODULE ReadsProofs -----------------------------
(***************************************************************************)
(* Get answers with the newest flushed version of every key, through any   *)
(* sequence of flushes, merges, moves, crashes and restarts, under both    *)
(* compaction strategies and for any number of layers and keys; with the   *)
(* invariant of SSTableManagerProofs.                                      *)
(***************************************************************************)
EXTENDS CompactionProofs

-----------------------------------------------------------------------------
(* Range tombstones and their fragments.                                   *)

(* The tombstones in D have keys up to B and sequence numbers up to s.     *)
Tombs(D, B, s) == \A d \in D : d.lo \in 1 .. B /\ d.hi \in 1 .. B /\ d.seq \in 0 .. s
Covers(d, k) == d.lo <= k /\ k < d.hi

Bounds(D) == {d.lo : d \in D} \cup {d.hi : d \in D}
After(D, b) == Min({c \in Bounds(D) : c > b})
Over(D, b) == {d \in D : d.lo <= b /\ After(D, b) <= d.hi}
Fragment(D, b) == [lo |-> b, hi |-> After(D, b), seq |-> Max({d.seq : d \in Over(D, b)})]
Starts(D) == {b \in Bounds(D) : b # Max(Bounds(D)) /\ Over(D, b) # {}}

(* Each fragment by its start.                                             *)
LEMMA FragmentSet ==
    ASSUME NEW D
    PROVE  FragmentRangeTombstones(D) = {Fragment(D, b) : b \in Starts(D)}
BY DEF FragmentRangeTombstones, Bounds, After, Over, Fragment, Starts

(* Where a fragment ends, and whose sequence number it has.                *)
LEMMA FragmentFacts ==
    ASSUME NEW D, NEW B \in Nat, NEW s \in Nat, Tombs(D, B, s), NEW b \in Starts(D)
    PROVE  /\ b \in 1 .. B /\ After(D, b) \in 1 .. B /\ b < After(D, b)
           /\ \A c \in Bounds(D) : b < c => After(D, b) <= c
           /\ \E d \in Over(D, b) : Fragment(D, b).seq = d.seq
           /\ \A d \in Over(D, b) : d.seq <= Fragment(D, b).seq
<1>1. Bounds(D) \in SUBSET Nat /\ \A c \in Bounds(D) : c \in 1 .. B
  BY DEF Bounds, Tombs
<1>2. b \in Bounds(D) /\ b # Max(Bounds(D)) /\ Over(D, b) # {}
  BY DEF Starts
<1>3. Max(Bounds(D)) \in Bounds(D) /\ \A c \in Bounds(D) : c <= Max(Bounds(D))
  <2>1. \A c \in Bounds(D) : c <= B
    BY <1>1
  <2> QED
    BY <1>1, <1>2, <2>1, MaxOfNaturals
<1>. DEFINE later == {c \in Bounds(D) : c > b}
            seqs == {d.seq : d \in Over(D, b)}
<1>4. later \in SUBSET Nat /\ later # {}
  BY <1>1, <1>2, <1>3
<1>5. After(D, b) \in later /\ \A c \in later : After(D, b) <= c
  BY <1>4, MinOfNaturals DEF After
<1>6. seqs \in SUBSET Nat /\ seqs # {} /\ \A x \in seqs : x <= s
  BY <1>2 DEF Over, Tombs
<1>7. Max(seqs) \in seqs /\ \A x \in seqs : x <= Max(seqs)
  BY <1>6, MaxOfNaturals
<1>8. Fragment(D, b).seq = Max(seqs)
  BY DEF Fragment
<1> QED
  BY <1>1, <1>2, <1>5, <1>7, <1>8

(* Fragments are tombstones, each of them part of one that covers it.      *)
LEMMA FragmentsCovered ==
    ASSUME NEW D, NEW B \in Nat, NEW s \in Nat, Tombs(D, B, s)
    PROVE  /\ Tombs(FragmentRangeTombstones(D), B, s)
           /\ \A f \in FragmentRangeTombstones(D) : \E d \in D :
                 d.lo <= f.lo /\ f.hi <= d.hi /\ f.seq = d.seq
<1> SUFFICES ASSUME NEW b \in Starts(D)
             PROVE  LET f == Fragment(D, b)
                    IN  /\ f.lo \in 1 .. B /\ f.hi \in 1 .. B /\ f.seq \in 0 .. s
                        /\ \E d \in D : d.lo <= f.lo /\ f.hi <= d.hi /\ f.seq = d.seq
  BY FragmentSet DEF Tombs
<1>. DEFINE f == Fragment(D, b)
<1>1. f.lo = b /\ f.hi = After(D, b)
  BY DEF Fragment
<1>2. b \in 1 .. B /\ After(D, b) \in 1 .. B /\ \E d \in Over(D, b) : f.seq = d.seq
  BY FragmentFacts
<1>3. PICK d \in D : d.lo <= b /\ After(D, b) <= d.hi /\ f.seq = d.seq
  BY <1>2 DEF Over
<1>4. d.seq \in 0 .. s
  BY DEF Tombs
<1>. HIDE DEF f
<1> QED
  BY <1>1, <1>2, <1>3, <1>4 DEF f

(* The fragment a covered key is in.                                       *)
LEMMA FragmentOfKey ==
    ASSUME NEW D, NEW B \in Nat, NEW s \in Nat, Tombs(D, B, s), NEW k \in Nat,
           NEW d \in D, Covers(d, k)
    PROVE  \E b \in Starts(D) : /\ b <= k /\ k < After(D, b) /\ d.seq <= Fragment(D, b).seq
                                /\ \A c \in Starts(D) : c <= k => c <= b
<1>1. Bounds(D) \in SUBSET Nat /\ d.lo \in Bounds(D) /\ d.hi \in Bounds(D)
  BY DEF Bounds, Tombs
<1>2. d.lo <= k /\ k < d.hi
  BY DEF Covers
<1>. DEFINE I == {c \in Bounds(D) : c <= k}
<1>3. I \in SUBSET Nat /\ I # {} /\ \A c \in I : c <= k
  BY <1>1, <1>2
<1>4. PICK b \in I : \A c \in I : c <= b
  BY <1>3, GreatestElement
<1>. DEFINE later == {c \in Bounds(D) : c > b}
<1>5. later \in SUBSET Nat /\ d.hi \in later
  BY <1>1, <1>2, <1>4
<1>6. After(D, b) \in later /\ \A c \in later : After(D, b) <= c
  BY <1>5, MinOfNaturals DEF After
<1>7. k < After(D, b)
  BY <1>1, <1>4, <1>6
<1>8. d \in Over(D, b)
  BY <1>1, <1>2, <1>4, <1>5, <1>6 DEF Over
<1>9. b # Max(Bounds(D))
  <2>1. \A c \in Bounds(D) : c <= B
    BY DEF Bounds, Tombs
  <2>2. \A c \in Bounds(D) : c <= Max(Bounds(D))
    BY <1>1, <2>1, MaxOfNaturals
  <2> QED
    BY <1>1, <1>5, <2>2
<1>10. b \in Starts(D)
  BY <1>8, <1>9 DEF Starts
<1>11. d.seq <= Fragment(D, b).seq
  BY <1>8, <1>10, FragmentFacts
<1>12. \A c \in Starts(D) : c <= k => c <= b
  BY <1>4 DEF Starts
<1> QED
  BY <1>4, <1>7, <1>10, <1>11, <1>12

(* The binary search over the fragments finds a tombstone newer than s if  *)
(* and only if one of the tombstones covers the key.                       *)
LEMMA CoveredKeys ==
    ASSUME NEW D, NEW B \in Nat, NEW s \in Nat, Tombs(D, B, s), NEW k \in Nat, NEW n \in Int
    PROVE  IsCoveredByRangeTombstone(FragmentRangeTombstones(D), k, n)
           <=> \E d \in D : Covers(d, k) /\ d.seq > n
<1>. DEFINE F == FragmentRangeTombstones(D)
            before == {f \in F : f.lo <= k}
            found == CHOOSE f \in before : \A g \in before : g.lo <= f.lo
<1>1. IsCoveredByRangeTombstone(F, k, n) <=> before # {} /\ k < found.hi /\ found.seq > n
  BY DEF IsCoveredByRangeTombstone
<1>2. F = {Fragment(D, b) : b \in Starts(D)}
  BY FragmentSet
<1>3. \A b \in Starts(D) : Fragment(D, b).lo = b /\ Fragment(D, b).hi = After(D, b)
  BY DEF Fragment
<1>4. \A b \in Starts(D) : b \in Nat /\ After(D, b) \in Nat
  BY FragmentFacts
<1>. HIDE DEF F
<1>5. ASSUME before # {} PROVE found \in before /\ \A g \in before : g.lo <= found.lo
  <2>. DEFINE I == {f.lo : f \in before}
  <2>1. I \in SUBSET Nat /\ I # {} /\ \A i \in I : i <= k
    BY <1>2, <1>3, <1>4, <1>5
  <2>2. PICK m \in I : \A i \in I : i <= m
    BY <2>1, GreatestElement
  <2>3. \E f \in before : \A g \in before : g.lo <= f.lo
    BY <2>2
  <2> HIDE DEF before
  <2> QED
    BY <2>3
<1>. HIDE DEF found
<1>6. ASSUME before # {}, k < found.hi, found.seq > n
      PROVE  \E d \in D : Covers(d, k) /\ d.seq > n
  <2>1. found \in F /\ found.lo <= k
    BY <1>5, <1>6
  <2>2. PICK b \in Starts(D) : found = Fragment(D, b)
    BY <1>2, <2>1
  <2>3. b <= k /\ k < After(D, b) /\ b \in Nat /\ After(D, b) \in Nat
    BY <1>3, <1>4, <1>6, <2>1, <2>2
  <2>4. PICK d \in Over(D, b) : found.seq = d.seq
    BY <2>2, FragmentFacts
  <2>5. d \in D /\ d.lo <= b /\ After(D, b) <= d.hi /\ d.lo \in Nat /\ d.hi \in Nat
    BY DEF Over, Tombs
  <2> QED
    BY <1>6, <2>3, <2>4, <2>5 DEF Covers
<1>7. ASSUME NEW d \in D, Covers(d, k), d.seq > n
      PROVE  before # {} /\ k < found.hi /\ found.seq > n
  <2>1. PICK b \in Starts(D) : /\ b <= k /\ k < After(D, b) /\ d.seq <= Fragment(D, b).seq
                               /\ \A c \in Starts(D) : c <= k => c <= b
    BY <1>7, FragmentOfKey
  <2>2. Fragment(D, b) \in before
    BY <1>2, <1>3, <2>1
  <2>3. found \in F /\ found.lo <= k /\ b <= found.lo
    BY <1>3, <1>5, <2>1, <2>2
  <2>4. PICK c \in Starts(D) : found = Fragment(D, c)
    BY <1>2, <2>3
  <2>5. c = b
    BY <1>3, <1>4, <2>1, <2>3, <2>4
  <2>6. d.seq \in Nat /\ Fragment(D, b).seq \in Nat
    <3>1. PICK e \in Over(D, b) : Fragment(D, b).seq = e.seq
      BY FragmentFacts
    <3> QED
      BY <3>1 DEF Over, Tombs
  <2> QED
    BY <1>3, <1>7, <2>1, <2>2, <2>4, <2>5, <2>6
<1> QED
  BY <1>1, <1>6, <1>7 DEF F

-----------------------------------------------------------------------------
(* Marks: what a table says of a key, and when.                            *)

(* A mark is a version of the key ("put", or "exp" if it has expired), its *)
(* deletion, or a range tombstone that covers it.                          *)
KindOf(r) == IF r.op = "Del" THEN "del" ELSE IF r.exp THEN "exp" ELSE "put"
Mark(k, s, kind) == [key |-> k, seq |-> s, kind |-> kind]
Marks(C) ==
    {Mark(r.key, r.seq, KindOf(r)) : r \in C.recs} \cup
    UNION {{Mark(k, d.seq, "rng") : k \in {x \in Keys : Covers(d, x)}} : d \in C.rds}
Has(C, k) == \E r \in C.recs : r.key = k

(* The records of a table, with sequence numbers up to s; only Put records *)
(* expire.                                                                 *)
Version(r, s) ==
    /\ r.key \in Keys /\ r.seq \in 0 .. s /\ r.op \in {"Put", "Del", "Base", "Op"}
    /\ r.exp \in BOOLEAN /\ (r.exp => r.op = "Put")
Typed(C, s) == (\A r \in C.recs : Version(r, s)) /\ Tombs(C.rds, MaxKey + 1, s)

(* The answers reads must give, for each key P has marks of: the newest    *)
(* mark, but for the keys ReadsNewest leaves out under the strategy st.    *)
Newest(P, m) == \A q \in P : q.key = m.key => q.seq <= m.seq
Answers(st, P) ==
    {m \in P : /\ Newest(P, m) /\ m.kind # "exp"
               /\ st = "leveled" => \A q \in P : q.key = m.key => q.kind # "rng"}
Consistent(P) == \A a, b \in P : a.key = b.key /\ a.seq = b.seq => a = b

(* Keys are natural numbers.                                               *)
LEMMA KeysType == MaxKey \in Nat /\ \A k \in Keys : k \in Nat /\ k < MaxKey + 1
BY ManagerAssumption DEF Keys

(* What a mark is made from.                                               *)
LEMMA MarkFacts ==
    ASSUME NEW C, NEW m
    PROVE  m \in Marks(C) <=>
              \/ \E r \in C.recs : m = Mark(r.key, r.seq, KindOf(r))
              \/ \E d \in C.rds, k \in Keys : Covers(d, k) /\ m = Mark(k, d.seq, "rng")
BY DEF Marks

(* Marks that are no tombstones come from records, and have kinds.         *)
LEMMA MarkOrigin ==
    ASSUME NEW C, NEW s \in Nat, Typed(C, s), NEW m \in Marks(C)
    PROVE  /\ m.key \in Keys /\ m.seq \in 0 .. s /\ m.kind \in {"put", "exp", "del", "rng"}
           /\ m.kind # "rng" => \E r \in C.recs : r.key = m.key /\ r.seq = m.seq
                 /\ KindOf(r) = m.kind
           /\ m.kind = "rng" => \E d \in C.rds : Covers(d, m.key) /\ d.seq = m.seq
           /\ m = Mark(m.key, m.seq, m.kind)
<1>1. CASE \E r \in C.recs : m = Mark(r.key, r.seq, KindOf(r))
  <2>1. PICK r \in C.recs : m = Mark(r.key, r.seq, KindOf(r))
    BY <1>1
  <2>2. m.key = r.key /\ m.seq = r.seq /\ m.kind = KindOf(r)
    BY <2>1 DEF Mark
  <2>3. KindOf(r) \in {"put", "exp", "del"}
    BY DEF KindOf
  <2>4. r.key \in Keys /\ r.seq \in 0 .. s
    BY DEF Typed, Version
  <2> QED
    BY <2>1, <2>2, <2>3, <2>4
<1>2. CASE \E d \in C.rds, k \in Keys : Covers(d, k) /\ m = Mark(k, d.seq, "rng")
  <2>1. PICK d \in C.rds, k \in Keys : Covers(d, k) /\ m = Mark(k, d.seq, "rng")
    BY <1>2
  <2>2. m.key = k /\ m.seq = d.seq /\ m.kind = "rng"
    BY <2>1 DEF Mark
  <2>3. d.seq \in 0 .. s
    BY DEF Typed, Tombs
  <2> QED
    BY <2>1, <2>2, <2>3
<1> QED
  BY <1>1, <1>2, MarkFacts

(* A record leaves its mark.                                               *)
LEMMA RecordMark ==
    ASSUME NEW C, NEW r \in C.recs
    PROVE  Mark(r.key, r.seq, KindOf(r)) \in Marks(C)
BY MarkFacts

(* What is typed stays so.                                                 *)
LEMMA TypedLater ==
    ASSUME NEW C, NEW s \in Nat, NEW n \in Nat, s <= n, Typed(C, s)
    PROVE  Typed(C, n)
<1>1. \A x : x \in 0 .. s => x \in 0 .. n
  OBVIOUS
<1> QED
  BY <1>1 DEF Typed, Version, Tombs

(* The newest of a set of records.                                         *)
LEMMA NewestFacts ==
    ASSUME NEW V, V # {}, NEW s \in Nat, \A r \in V : r.seq \in 0 .. s
    PROVE  NewestOf(V) \in V /\ \A r \in V : r.seq <= NewestOf(V).seq
<1>. DEFINE I == {r.seq : r \in V}
<1>1. I \in SUBSET Nat /\ I # {} /\ \A i \in I : i <= s
  OBVIOUS
<1>2. PICK m \in I : \A i \in I : i <= m
  <2>. HIDE DEF I
  <2> QED
    BY <1>1, GreatestElement
<1>3. \E r \in V : \A q \in V : q.seq <= r.seq
  BY <1>2
<1> QED
  BY <1>3 DEF NewestOf

-----------------------------------------------------------------------------
(* What a merge keeps.                                                     *)

(* For one key, whose newest version is new.                               *)
LEMMA MergedVersions ==
    ASSUME NEW V, V # {}, NEW s \in Nat, NEW k, \A r \in V : r.key = k /\ Version(r, s),
           NEW rds, NEW skip, NEW new, new = NewestOf(V)
    PROVE  /\ new \in V /\ \A r \in V : r.seq <= new.seq
           /\ \A q \in MergedKey(V, rds, skip) :
                 /\ Version(q, s)
                 /\ \E r \in V : q.key = r.key /\ q.seq = r.seq /\ KindOf(q) = KindOf(r)
           /\ new.op = "Del" => MergedKey(V, rds, skip) = IF skip THEN {} ELSE {new}
           /\ new.op # "Del" /\ IsCoveredByRangeTombstone(rds, k, new.seq) =>
                 MergedKey(V, rds, skip) = {}
           /\ new.op # "Del" /\ ~IsCoveredByRangeTombstone(rds, k, new.seq) /\ ~new.exp =>
                 \E q \in MergedKey(V, rds, skip) :
                    q.key = k /\ q.seq = new.seq /\ KindOf(q) = "put"
<1>1. new \in V /\ \A r \in V : r.seq <= new.seq
  <2>1. \A r \in V : r.seq \in 0 .. s
    BY DEF Version
  <2> QED
    BY <2>1, NewestFacts
<1>2. new.key = k /\ Version(new, s)
  BY <1>1
<1>. DEFINE B == Rec(new.key, new.seq, "Base", ApplyAll(V), FALSE)
            C == IsCoveredByRangeTombstone(rds, new.key, new.seq)
            Kept == {r \in IF new.key \in snap THEN V ELSE {new} : ~Expired(r)}
<1>3. MergedKey(V, rds, skip) =
        CASE new.op = "Del" -> IF skip THEN {} ELSE {new}
          [] new.op # "Del" /\ C -> {}
          [] new.op \in {"Base", "Op"} /\ ~C -> {B}
          [] OTHER -> Kept
  BY DEF MergedKey
<1>4. B.key = k /\ B.seq = new.seq /\ B.op = "Base" /\ B.exp = FALSE
  BY <1>2 DEF Rec
<1>5. Version(B, s) /\ KindOf(B) = "put"
  BY <1>2, <1>4 DEF Version, KindOf
<1>6. new.op \in {"Base", "Op"} => KindOf(new) = "put"
  BY <1>2 DEF Version, KindOf
<1>7. Kept \subseteq V /\ (~new.exp => new \in Kept)
  BY <1>1 DEF Expired
<1>8. new.op # "Del" /\ ~new.exp => KindOf(new) = "put"
  BY DEF KindOf
<1>. HIDE DEF B, Kept
<1>9. \/ new.op = "Del" /\ MergedKey(V, rds, skip) = IF skip THEN {} ELSE {new}
      \/ new.op # "Del" /\ C /\ MergedKey(V, rds, skip) = {}
      \/ new.op \in {"Base", "Op"} /\ ~C /\ MergedKey(V, rds, skip) = {B}
      \/ new.op = "Put" /\ ~C /\ MergedKey(V, rds, skip) = Kept
  <2>1. new.op \in {"Put", "Del", "Base", "Op"}
    BY <1>2 DEF Version
  <2>. HIDE DEF C
  <2> QED
    BY <1>3, <2>1
<1>10. C <=> IsCoveredByRangeTombstone(rds, k, new.seq)
  BY <1>2
<1>. HIDE DEF C
<1>11. CASE new.op = "Del" /\ MergedKey(V, rds, skip) = IF skip THEN {} ELSE {new}
  BY <1>1, <1>2, <1>11
<1>12. CASE new.op # "Del" /\ C /\ MergedKey(V, rds, skip) = {}
  BY <1>1, <1>10, <1>12
<1>13. CASE new.op \in {"Base", "Op"} /\ ~C /\ MergedKey(V, rds, skip) = {B}
  BY <1>1, <1>2, <1>4, <1>5, <1>6, <1>10, <1>13
<1>14. CASE new.op = "Put" /\ ~C /\ MergedKey(V, rds, skip) = Kept
  BY <1>1, <1>2, <1>7, <1>8, <1>10, <1>14
<1> QED
  BY <1>9, <1>11, <1>12, <1>13, <1>14

(* The content of the table that replaces tables with the records R and    *)
(* the tombstones D.                                                       *)
Replacement(R, D, skip) ==
    LET rds == FragmentRangeTombstones(D)
    IN  Table(Result(R, rds, skip), IF skip THEN {} ELSE rds)

(* It says nothing the merged tables did not say.                          *)
LEMMA MergedType ==
    ASSUME NEW R, NEW D, NEW s \in Nat, Typed(Table(R, D), s), NEW skip \in BOOLEAN,
           NEW C, C = Replacement(R, D, skip)
    PROVE  /\ Typed(C, s) /\ Marks(C) \subseteq Marks(Table(R, D))
           /\ \A k : Has(C, k) => Has(Table(R, D), k)
<1>. DEFINE rds == FragmentRangeTombstones(D)
<1>1. C.recs = Result(R, rds, skip) /\ C.rds = IF skip THEN {} ELSE rds
  BY DEF Replacement, Table
<1>2. Table(R, D).recs = R /\ Table(R, D).rds = D
  BY DEF Table
<1>3. (\A r \in R : Version(r, s)) /\ Tombs(D, MaxKey + 1, s) /\ MaxKey + 1 \in Nat
  BY <1>2, KeysType DEF Typed
<1>4. /\ Tombs(rds, MaxKey + 1, s)
      /\ \A f \in rds : \E d \in D : d.lo <= f.lo /\ f.hi <= d.hi /\ f.seq = d.seq
  BY <1>3, FragmentsCovered
<1>. HIDE DEF rds
<1>5. ASSUME NEW q \in C.recs
      PROVE  /\ Version(q, s)
             /\ \E r \in R : q.key = r.key /\ q.seq = r.seq /\ KindOf(q) = KindOf(r)
  <2>1. PICK k \in {r.key : r \in R} : q \in MergedKey(OfKey(R, k), rds, skip)
    BY <1>1, <1>5 DEF Result
  <2>2. PICK V : V = OfKey(R, k)
    OBVIOUS
  <2>3. V # {} /\ V \subseteq R /\ \A r \in V : r.key = k /\ Version(r, s)
    BY <1>3, <2>1, <2>2 DEF OfKey
  <2>4. q \in MergedKey(V, rds, skip)
    BY <2>1, <2>2
  <2>5. /\ Version(q, s)
        /\ \E r \in V : q.key = r.key /\ q.seq = r.seq /\ KindOf(q) = KindOf(r)
    <3>1. PICK new : new = NewestOf(V)
      OBVIOUS
    <3>2. /\ \A p \in MergedKey(V, rds, skip) :
                /\ Version(p, s)
                /\ \E r \in V : p.key = r.key /\ p.seq = r.seq /\ KindOf(p) = KindOf(r)
          /\ new.op # "Del" /\ IsCoveredByRangeTombstone(rds, k, new.seq) =>
                MergedKey(V, rds, skip) = {}
      BY ONLY s \in Nat, <2>3, <3>1, MergedVersions
    <3> QED
      BY <2>4, <3>2
  <2> QED
    BY <2>3, <2>5
<1>6. Typed(C, s)
  BY <1>1, <1>4, <1>5 DEF Typed, Tombs
<1>7. ASSUME NEW m \in Marks(C) PROVE m \in Marks(Table(R, D))
  <2>1. CASE \E q \in C.recs : m = Mark(q.key, q.seq, KindOf(q))
    BY <1>2, <1>5, <2>1, MarkFacts
  <2>2. CASE \E f \in C.rds, k \in Keys : Covers(f, k) /\ m = Mark(k, f.seq, "rng")
    <3>1. PICK f \in rds, k \in Keys : Covers(f, k) /\ m = Mark(k, f.seq, "rng")
      BY <1>1, <2>2
    <3>2. PICK d \in D : d.lo <= f.lo /\ f.hi <= d.hi /\ f.seq = d.seq
      BY <1>4
    <3>3. k \in Nat /\ d.lo \in Nat /\ d.hi \in Nat /\ f.lo \in Nat /\ f.hi \in Nat
      BY <1>3, <1>4, KeysType DEF Tombs
    <3>4. Covers(d, k)
      BY <3>1, <3>2, <3>3 DEF Covers
    <3> QED
      BY <1>2, <3>1, <3>2, <3>4, MarkFacts
  <2> QED
    BY <2>1, <2>2, MarkFacts
<1> QED
  BY <1>2, <1>5, <1>6, <1>7 DEF Has

(* An answer that one of the merged tables gave is kept; or it is a        *)
(* deletion, which nothing in the new table needs.                         *)
LEMMA MergedAnswers ==
    ASSUME NEW R, NEW D, NEW s \in Nat, Typed(Table(R, D), s), NEW skip \in BOOLEAN,
           NEW C, C = Replacement(R, D, skip),
           NEW P, Consistent(P), Marks(Table(R, D)) \subseteq P,
           NEW T \in Answers(strategy, P), T \in Marks(Table(R, D))
    PROVE  \/ T \in Marks(C)
           \/ skip /\ T.kind # "put" /\ ~Has(C, T.key)
<1>. DEFINE rds == FragmentRangeTombstones(D)
            V == OfKey(R, T.key)
            new == NewestOf(V)
<1>1. C.recs = Result(R, rds, skip) /\ C.rds = IF skip THEN {} ELSE rds
  BY DEF Replacement, Table
<1>2. Table(R, D).recs = R /\ Table(R, D).rds = D
  BY DEF Table
<1>3. (\A r \in R : Version(r, s)) /\ Tombs(D, MaxKey + 1, s) /\ MaxKey + 1 \in Nat
  BY <1>2, KeysType DEF Typed
<1>4. /\ T.key \in Keys /\ T.seq \in 0 .. s /\ T.kind \in {"put", "del", "rng"}
      /\ T.kind # "rng" => \E r \in R : r.key = T.key /\ r.seq = T.seq /\ KindOf(r) = T.kind
      /\ T.kind = "rng" => \E d \in D : Covers(d, T.key) /\ d.seq = T.seq
      /\ T = Mark(T.key, T.seq, T.kind)
  BY <1>2, MarkOrigin DEF Answers
<1>5. T \in P /\ \A q \in P : q.key = T.key => q.seq <= T.seq
  BY DEF Answers, Newest
<1>6. T.key \in Nat
  BY <1>4, KeysType
<1>7. \A n \in Int : IsCoveredByRangeTombstone(rds, T.key, n)
                        <=> \E d \in D : Covers(d, T.key) /\ d.seq > n
  BY <1>3, <1>6, CoveredKeys
<1>8. \A d \in D : Covers(d, T.key) => d.seq <= T.seq /\ d.seq \in Nat
  <2>1. ASSUME NEW d \in D, Covers(d, T.key) PROVE d.seq <= T.seq /\ d.seq \in Nat
    <3>1. Mark(T.key, d.seq, "rng") \in P
      BY <1>2, <1>4, <2>1, MarkFacts
    <3> QED
      BY <1>3, <1>5, <3>1 DEF Mark, Tombs
  <2> QED
    BY <2>1
<1>9. \A r \in V : r \in R /\ r.key = T.key /\ Version(r, s)
  BY <1>3 DEF OfKey
<1>10. \A r \in V : r.seq <= T.seq /\ (r.seq = T.seq => KindOf(r) = T.kind)
  <2>1. ASSUME NEW r \in V PROVE r.seq <= T.seq /\ (r.seq = T.seq => KindOf(r) = T.kind)
    <3>1. Mark(r.key, r.seq, KindOf(r)) \in P
      BY <1>2, <1>9, RecordMark
    <3>2. PICK m \in P : m = Mark(r.key, r.seq, KindOf(r))
      BY <3>1
    <3>3. m.key = T.key /\ m.seq = r.seq /\ m.kind = KindOf(r)
      BY <1>9, <3>2 DEF Mark
    <3>4. r.seq = T.seq => m = T
      BY <1>5, <3>3 DEF Consistent
    <3> QED
      BY <1>5, <3>3, <3>4
  <2> QED
    BY <2>1
<1>11. \A q : q \in MergedKey(V, rds, skip) /\ V # {} => q \in C.recs
  <2>1. V # {} => T.key \in {r.key : r \in R}
    BY <1>9
  <2> QED
    BY <1>1, <2>1 DEF Result
<1>12. ASSUME NEW q \in C.recs, q.key = T.key PROVE V # {} /\ q \in MergedKey(V, rds, skip)
  <2>1. PICK k \in {r.key : r \in R} : q \in MergedKey(OfKey(R, k), rds, skip)
    BY <1>1, <1>12 DEF Result
  <2>2. PICK U : U = OfKey(R, k)
    OBVIOUS
  <2>3. U # {} /\ \A r \in U : r.key = k /\ Version(r, s)
    BY <1>3, <2>1, <2>2 DEF OfKey
  <2>4. \E r \in U : q.key = r.key
    <3>1. PICK latest : latest = NewestOf(U)
      OBVIOUS
    <3>2. /\ \A p \in MergedKey(U, rds, skip) : \E r \in U : p.key = r.key
          /\ latest.op # "Del" /\ IsCoveredByRangeTombstone(rds, k, latest.seq) =>
                MergedKey(U, rds, skip) = {}
      BY ONLY s \in Nat, <2>3, <3>1, MergedVersions
    <3> QED
      BY <2>1, <2>2, <3>2
  <2>5. k = T.key
    BY <1>12, <2>3, <2>4
  <2> QED
    BY <2>1, <2>2, <2>3, <2>5
<1>. HIDE DEF rds, V, new
<1>13. V # {} => /\ new \in V /\ \A r \in V : r.seq <= new.seq
                 /\ new.op = "Del" => MergedKey(V, rds, skip) = IF skip THEN {} ELSE {new}
                 /\ new.op # "Del" /\ IsCoveredByRangeTombstone(rds, T.key, new.seq) =>
                       MergedKey(V, rds, skip) = {}
                 /\ new.op # "Del" /\ ~IsCoveredByRangeTombstone(rds, T.key, new.seq) /\ ~new.exp =>
                       \E q \in MergedKey(V, rds, skip) :
                          q.key = T.key /\ q.seq = new.seq /\ KindOf(q) = "put"
  <2>1. new = NewestOf(V)
    BY DEF new
  <2> QED
    BY ONLY s \in Nat, <1>9, <2>1, MergedVersions
<1>14. CASE T.kind = "rng"
  <2>1. PICK d \in D : Covers(d, T.key) /\ d.seq = T.seq
    BY <1>4, <1>14
  <2>2. CASE skip
    <3>1. ASSUME Has(C, T.key) PROVE FALSE
      <4>1. V # {} /\ MergedKey(V, rds, skip) # {}
        BY <1>12, <3>1 DEF Has
      <4>2. new \in V /\ new.seq <= T.seq /\ KindOf(new) # "rng" /\ new.seq \in Nat
        BY <1>9, <1>10, <1>13, <4>1 DEF KindOf, Version
      <4>3. new.seq < T.seq
        BY <1>4, <1>10, <1>14, <4>2
      <4>4. IsCoveredByRangeTombstone(rds, T.key, new.seq)
        BY <1>7, <2>1, <4>2, <4>3
      <4>5. new.op = "Del" => MergedKey(V, rds, skip) = {}
        BY <1>13, <2>2, <4>1
      <4> QED
        BY <1>13, <4>1, <4>4, <4>5
    <3> QED
      BY <1>14, <2>2, <3>1
  <2>3. CASE ~skip
    <3>1. PICK b \in Starts(D) : b <= T.key /\ T.key < After(D, b) /\ T.seq <= Fragment(D, b).seq
      BY <1>3, <1>6, <2>1, FragmentOfKey
    <3>2. Fragment(D, b) \in C.rds
      BY <1>1, <2>3, FragmentSet DEF rds
    <3>3. Covers(Fragment(D, b), T.key)
      BY <3>1 DEF Covers, Fragment
    <3>4. PICK e \in Over(D, b) : Fragment(D, b).seq = e.seq
      BY <1>3, FragmentFacts
    <3>5. e \in D /\ Covers(e, T.key)
      <4>1. e \in D /\ e.lo <= b /\ After(D, b) <= e.hi /\ e.lo \in Nat /\ e.hi \in Nat
        BY <1>3, <3>4 DEF Over, Tombs
      <4>2. b \in Nat /\ After(D, b) \in Nat
        BY <1>3, FragmentFacts
      <4> QED
        BY <1>6, <3>1, <4>1, <4>2 DEF Covers
    <3>6. Fragment(D, b).seq = T.seq
      BY <1>4, <1>8, <3>1, <3>4, <3>5
    <3> QED
      BY <1>4, <1>14, <3>2, <3>3, <3>6, MarkFacts
  <2> QED
    BY <2>2, <2>3
<1>15. CASE T.kind # "rng"
  <2>1. PICK r \in R : r.key = T.key /\ r.seq = T.seq /\ KindOf(r) = T.kind
    BY <1>4, <1>15
  <2>2. r \in V /\ V # {}
    BY <2>1 DEF V, OfKey
  <2>3. new \in V /\ new.seq = T.seq /\ KindOf(new) = T.kind /\ Version(new, s)
    <3>1. new \in V /\ r.seq <= new.seq /\ new.seq <= T.seq
      BY <1>10, <1>13, <2>2
    <3>2. new.seq = T.seq
      BY <1>4, <1>9, <2>1, <3>1 DEF Version
    <3> QED
      BY <1>9, <1>10, <3>1, <3>2
  <2>4. CASE T.kind = "del"
    <3>1. new.op = "Del"
      BY <2>3, <2>4 DEF KindOf
    <3>2. CASE skip
      <4>1. MergedKey(V, rds, skip) = {}
        BY <1>13, <2>2, <3>1, <3>2
      <4>2. ~Has(C, T.key)
        BY <1>12, <4>1 DEF Has
      <4> QED
        BY <2>4, <3>2, <4>2
    <3>3. CASE ~skip
      <4>1. new \in C.recs
        BY <1>11, <1>13, <2>2, <3>1, <3>3
      <4>2. Mark(new.key, new.seq, KindOf(new)) \in Marks(C)
        BY <4>1, RecordMark
      <4> QED
        BY <1>4, <1>9, <2>3, <4>2
    <3> QED
      BY <3>2, <3>3
  <2>5. CASE T.kind = "put"
    <3>1. new.op # "Del" /\ ~new.exp
      BY <2>3, <2>5 DEF KindOf
    <3>2. ~IsCoveredByRangeTombstone(rds, T.key, new.seq)
      BY <1>4, <1>7, <1>8, <2>3
    <3>3. PICK q \in MergedKey(V, rds, skip) : q.key = T.key /\ q.seq = new.seq /\ KindOf(q) = "put"
      BY <1>13, <2>2, <3>1, <3>2
    <3>4. q \in C.recs
      BY <1>11, <2>2, <3>3
    <3> QED
      BY <1>4, <2>3, <2>5, <3>3, <3>4, RecordMark
  <2> QED
    BY <1>4, <1>15, <2>4, <2>5
<1> QED
  BY <1>14, <1>15

-----------------------------------------------------------------------------
(* Tables in their layers.                                                 *)

(* Where a table is: its layer and the name of its file, which ends with   *)
(* its number.  In L0, and in all layers of tiered compaction, a layer has *)
(* its tables from the oldest to the newest.                               *)
Places == Nat \X (Int \X Nat)
Ordered(st, n) == st = "tiered" \/ n = 0
Follows(st, q, p) ==
    \/ q[1] < p[1]
    \/ q = p
    \/ q[1] = p[1] /\ Ordered(st, p[1]) /\ p[2][2] < q[2][2]

(* The tables at the places V give the answers of P: they say nothing else *)
(* than P, an answer that is a version is in one of them, and a table with *)
(* any version of the key comes with a table that has the answer and is    *)
(* merged no earlier.                                                      *)
Good(st, P, fs, V) ==
    /\ Consistent(P)
    /\ \A p \in V : Marks(fs[p[2]]) \subseteq P
    /\ \A T \in Answers(st, P) :
        /\ T.kind = "put" => \E p \in V : T \in Marks(fs[p[2]])
        /\ \A n \in V : Has(fs[n[2]], T.key) =>
              \E m \in V : Follows(st, m, n) /\ T \in Marks(fs[m[2]])

(* The tables in s may be deleted in their order, because of the table r.  *)
Replaces(st, P, fs, W, r, s) ==
    \A j \in 1 .. Len(s), p \in W, T \in Answers(st, P) :
        p[2] = s[j].name /\ T \in Marks(fs[p[2]]) =>
            /\ T.kind = "put" => T \in Marks(fs[r[2]])
            /\ \A n \in W : n # p /\ Has(fs[n[2]], T.key) /\ Follows(st, p, n) =>
                  \/ T \in Marks(fs[r[2]]) /\ Follows(st, r, n)
                  \/ \E a \in 1 .. j - 1 : s[a].name = n[2]

(* Files elsewhere do not matter.                                          *)
LEMMA GoodFiles ==
    ASSUME NEW P, NEW fs, NEW fs2, NEW V, Good(strategy, P, fs, V),
           \A p \in V : fs2[p[2]] = fs[p[2]]
    PROVE  Good(strategy, P, fs2, V)
BY DEF Good

(* No tables are good for no marks.                                        *)
LEMMA GoodEmpty ==
    ASSUME NEW fs
    PROVE  Good(strategy, {}, fs, {})
BY DEF Good, Consistent, Answers

(* The table of a flush is newer than everything before it.                *)
LEMMA GoodFlush ==
    ASSUME NEW P, NEW fs, NEW V, Good(strategy, P, fs, V), NEW fs2,
           \A p \in V : fs2[p[2]] = fs[p[2]],
           NEW r, \A p \in V : Follows(strategy, r, p), NEW s \in Nat,
           \A m \in P : m.seq \in 0 .. s,
           \A m \in Marks(fs2[r[2]]) : m.seq \in Nat /\ s < m.seq,
           Consistent(Marks(fs2[r[2]]))
    PROVE  Good(strategy, P \cup Marks(fs2[r[2]]), fs2, V \cup {r})
<1>. DEFINE C == fs2[r[2]]
            Q == P \cup Marks(C)
            W == V \cup {r}
<1>1. \A a \in P, b \in Marks(C) : a.seq < b.seq
  OBVIOUS
<1>2. Consistent(Q)
  <2>1. Consistent(P) /\ Consistent(Marks(C))
    BY DEF Good
  <2>2. ASSUME NEW a \in Q, NEW b \in Q, a.key = b.key, a.seq = b.seq PROVE a = b
    <3>1. CASE a \in P /\ b \in P
      BY <2>1, <2>2, <3>1 DEF Consistent
    <3>2. CASE a \in Marks(C) /\ b \in Marks(C)
      BY <2>1, <2>2, <3>2 DEF Consistent
    <3>3. CASE a \in P /\ b \in Marks(C)
      BY <1>1, <2>2, <3>3
    <3>4. CASE a \in Marks(C) /\ b \in P
      BY <1>1, <2>2, <3>4
    <3> QED
      BY <3>1, <3>2, <3>3, <3>4
  <2> QED
    BY <2>2 DEF Consistent
<1>3. \A p \in W : Marks(fs2[p[2]]) \subseteq Q
  BY DEF Good
<1>4. ASSUME NEW T \in Answers(strategy, Q)
      PROVE  /\ T.kind = "put" => \E p \in W : T \in Marks(fs2[p[2]])
             /\ \A n \in W : Has(fs2[n[2]], T.key) =>
                   \E m \in W : Follows(strategy, m, n) /\ T \in Marks(fs2[m[2]])
  <2>1. T \in Q /\ \A q \in Q : q.key = T.key => q.seq <= T.seq
    BY DEF Answers, Newest
  <2>2. CASE T \in Marks(C)
    <3>1. \A p \in W : Follows(strategy, r, p)
      BY DEF Follows
    <3> QED
      BY <2>2, <3>1
  <2>3. CASE T \notin Marks(C)
    <3>1. T \in P /\ T \in Answers(strategy, P)
      BY <2>1, <2>3 DEF Answers, Newest
    <3>2. \A m \in Marks(C) : m.key # T.key
      <4>1. ASSUME NEW m \in Marks(C), m.key = T.key PROVE FALSE
        <5>1. m.seq <= T.seq /\ T.seq < m.seq /\ T.seq \in Nat /\ m.seq \in Nat
          BY <1>1, <2>1, <3>1, <4>1
        <5> QED
          BY <5>1
      <4> QED
        BY <4>1
    <3>3. ~Has(C, T.key)
      <4>1. ASSUME NEW q \in C.recs, q.key = T.key PROVE FALSE
        <5>1. Mark(q.key, q.seq, KindOf(q)).key = q.key
          BY DEF Mark
        <5> QED
          BY <3>2, <4>1, <5>1, RecordMark
      <4> QED
        BY <4>1 DEF Has
    <3>4. /\ T.kind = "put" => \E p \in V : T \in Marks(fs[p[2]])
          /\ \A n \in V : Has(fs[n[2]], T.key) =>
                \E m \in V : Follows(strategy, m, n) /\ T \in Marks(fs[m[2]])
      BY <3>1 DEF Good
    <3> QED
      BY <3>3, <3>4
  <2> QED
    BY <2>2, <2>3
<1>. HIDE DEF C, Q, W
<1>5. Good(strategy, Q, fs2, W)
  BY <1>2, <1>3, <1>4 DEF Good
<1> QED
  BY <1>5 DEF C, Q, W

(* The table r of a merge joins the tables it was merged from, at I.       *)
LEMMA GoodMerge ==
    ASSUME NEW P, NEW fs, NEW V, Good(strategy, P, fs, V), NEW fs2,
           \A p \in V : fs2[p[2]] = fs[p[2]],
           NEW r, NEW I, I \subseteq V,
           Marks(fs2[r[2]]) \subseteq P,
           \A k : Has(fs2[r[2]], k) => \E p \in I : Has(fs[p[2]], k),
           \A T \in Answers(strategy, P), p \in I : T \in Marks(fs[p[2]]) =>
              T \in Marks(fs2[r[2]]) \/ ~Has(fs2[r[2]], T.key),
           \A m \in V, p \in I : Follows(strategy, m, p) => m \in I \/ Follows(strategy, m, r)
    PROVE  Good(strategy, P, fs2, V \cup {r})
<1>. DEFINE C == fs2[r[2]]
            W == V \cup {r}
<1>1. Consistent(P) /\ \A p \in W : Marks(fs2[p[2]]) \subseteq P
  BY DEF Good
<1>2. ASSUME NEW T \in Answers(strategy, P)
      PROVE  /\ T.kind = "put" => \E p \in W : T \in Marks(fs2[p[2]])
             /\ \A n \in W : Has(fs2[n[2]], T.key) =>
                   \E m \in W : Follows(strategy, m, n) /\ T \in Marks(fs2[m[2]])
  <2>1. /\ T.kind = "put" => \E p \in V : T \in Marks(fs[p[2]])
        /\ \A n \in V : Has(fs[n[2]], T.key) =>
              \E m \in V : Follows(strategy, m, n) /\ T \in Marks(fs[m[2]])
    BY DEF Good
  <2>2. ASSUME Has(C, T.key) PROVE \E m \in W : Follows(strategy, m, r) /\ T \in Marks(fs2[m[2]])
    <3>1. PICK p \in I : Has(fs[p[2]], T.key)
      BY <2>2
    <3>2. PICK m \in V : Follows(strategy, m, p) /\ T \in Marks(fs[m[2]])
      BY <2>1, <3>1
    <3>3. CASE m \in I
      <4>1. T \in Marks(C)
        BY <2>2, <3>2, <3>3
      <4> QED
        BY <4>1 DEF Follows
    <3>4. CASE Follows(strategy, m, r)
      BY <3>2, <3>4
    <3> QED
      BY <3>2, <3>3, <3>4
  <2> QED
    BY <2>1, <2>2
<1>. HIDE DEF C, W
<1>3. Good(strategy, P, fs2, W)
  BY <1>1, <1>2 DEF Good
<1> QED
  BY <1>3 DEF W

(* The tables it was merged from may then be deleted.                      *)
LEMMA MergeReplaces ==
    ASSUME NEW P, NEW fs, NEW V, NEW fs2, \A p \in V : fs2[p[2]] = fs[p[2]],
           NEW r, NEW s, NEW skip \in BOOLEAN,
           \A j \in 1 .. Len(s) : s[j].name # r[2],
           \A T \in Answers(strategy, P), p \in V : \A j \in 1 .. Len(s) :
              p[2] = s[j].name /\ T \in Marks(fs[p[2]]) =>
                 \/ T \in Marks(fs2[r[2]])
                 \/ skip /\ T.kind # "put" /\ ~Has(fs2[r[2]], T.key),
           \A j \in 1 .. Len(s), p \in V, n \in V, T \in Answers(strategy, P) :
              /\ p[2] = s[j].name /\ T \in Marks(fs[p[2]])
              /\ Has(fs[n[2]], T.key) /\ Follows(strategy, p, n) /\ n # p
              => \/ \E a \in 1 .. j - 1 : s[a].name = n[2]
                 \/ ~skip /\ Follows(strategy, r, n)
    PROVE  Replaces(strategy, P, fs2, V \cup {r}, r, s)
<1>. DEFINE W == V \cup {r}
<1>1. SUFFICES ASSUME NEW j \in 1 .. Len(s), NEW p \in W, NEW T \in Answers(strategy, P),
                      p[2] = s[j].name, T \in Marks(fs2[p[2]])
               PROVE  /\ T.kind = "put" => T \in Marks(fs2[r[2]])
                      /\ \A n \in W : n # p /\ Has(fs2[n[2]], T.key) /\ Follows(strategy, p, n) =>
                            \/ T \in Marks(fs2[r[2]]) /\ Follows(strategy, r, n)
                            \/ \E a \in 1 .. j - 1 : s[a].name = n[2]
  BY DEF Replaces
<1>2. p \in V /\ fs2[p[2]] = fs[p[2]]
  BY <1>1
<1>3. T \in Marks(fs2[r[2]]) \/ (skip /\ T.kind # "put" /\ ~Has(fs2[r[2]], T.key))
  BY <1>1, <1>2
<1>4. ASSUME NEW n \in W, n # p, Has(fs2[n[2]], T.key), Follows(strategy, p, n)
      PROVE  \/ T \in Marks(fs2[r[2]]) /\ Follows(strategy, r, n)
             \/ \E a \in 1 .. j - 1 : s[a].name = n[2]
  <2>1. CASE n = r
    BY <1>3, <1>4, <2>1 DEF Follows
  <2>2. CASE n \in V
    <3>1. (\E a \in 1 .. j - 1 : s[a].name = n[2]) \/ (~skip /\ Follows(strategy, r, n))
      BY <1>1, <1>2, <1>4, <2>2
    <3> QED
      BY <1>3, <3>1
  <2> QED
    BY <2>1, <2>2
<1> QED
  BY <1>3, <1>4

(* The next of the replaced tables is deleted.                             *)
LEMMA GoodDelete ==
    ASSUME NEW P, NEW fs, NEW W, Good(strategy, P, fs, W), NEW r \in W, NEW s, Len(s) \in Nat \ {0},
           Replaces(strategy, P, fs, W, r, s), r[2] # s[1].name,
           NEW fs2, NEW U, U = {p \in W : p[2] # s[1].name}, \A p \in U : fs2[p[2]] = fs[p[2]]
    PROVE  Good(strategy, P, fs2, U)
<1>1. Consistent(P) /\ \A p \in U : Marks(fs2[p[2]]) \subseteq P
  BY DEF Good
<1>2. ASSUME NEW T \in Answers(strategy, P)
      PROVE  /\ T.kind = "put" => \E p \in U : T \in Marks(fs2[p[2]])
             /\ \A n \in U : Has(fs2[n[2]], T.key) =>
                   \E m \in U : Follows(strategy, m, n) /\ T \in Marks(fs2[m[2]])
  <2>1. /\ T.kind = "put" => \E p \in W : T \in Marks(fs[p[2]])
        /\ \A n \in W : Has(fs[n[2]], T.key) =>
              \E m \in W : Follows(strategy, m, n) /\ T \in Marks(fs[m[2]])
    BY DEF Good
  <2>2. r \in U
    OBVIOUS
  <2>3. ASSUME NEW p \in W, p \notin U, T \in Marks(fs[p[2]])
        PROVE  /\ T.kind = "put" => T \in Marks(fs[r[2]])
               /\ \A n \in U : Has(fs[n[2]], T.key) /\ Follows(strategy, p, n) =>
                     T \in Marks(fs[r[2]]) /\ Follows(strategy, r, n)
    <3>1. 1 \in 1 .. Len(s) /\ p[2] = s[1].name /\ ~\E a \in 1 .. 1 - 1 : TRUE
      BY <2>3
    <3>2. /\ T.kind = "put" => T \in Marks(fs[r[2]])
          /\ \A n \in W : n # p /\ Has(fs[n[2]], T.key) /\ Follows(strategy, p, n) =>
                \/ T \in Marks(fs[r[2]]) /\ Follows(strategy, r, n)
                \/ \E a \in 1 .. 1 - 1 : s[a].name = n[2]
      BY <2>3, <3>1 DEF Replaces
    <3> QED
      BY <2>3, <3>1, <3>2
  <2>4. T.kind = "put" => \E p \in U : T \in Marks(fs2[p[2]])
    BY <2>1, <2>2, <2>3
  <2>5. ASSUME NEW n \in U, Has(fs2[n[2]], T.key)
        PROVE  \E m \in U : Follows(strategy, m, n) /\ T \in Marks(fs2[m[2]])
    <3>1. PICK m \in W : Follows(strategy, m, n) /\ T \in Marks(fs[m[2]])
      BY <2>1, <2>5
    <3>2. CASE m \in U
      BY <3>1, <3>2
    <3>3. CASE m \notin U
      <4>1. T \in Marks(fs[r[2]]) /\ Follows(strategy, r, n)
        BY <2>3, <2>5, <3>1, <3>3
      <4> QED
        BY <2>2, <4>1
    <3> QED
      BY <3>2, <3>3
  <2> QED
    BY <2>4, <2>5
<1> QED
  BY <1>1, <1>2 DEF Good

(* Fewer tables: what may be deleted still may be.                         *)
LEMMA ReplacesFewer ==
    ASSUME NEW P, NEW fs, NEW W, NEW r, NEW s, Replaces(strategy, P, fs, W, r, s),
           NEW fs2, NEW U, U \subseteq W, \A p \in U : fs2[p[2]] = fs[p[2]],
           fs2[r[2]] = fs[r[2]]
    PROVE  Replaces(strategy, P, fs2, U, r, s)
BY DEF Replaces

(* The first of them is gone.                                              *)
LEMMA ReplacesTail ==
    ASSUME NEW P, NEW fs, NEW W, NEW r, NEW s \in Seq(Reader), s # <<>>,
           Replaces(strategy, P, fs, W, r, s),
           \A p \in W : p[2] # s[1].name
    PROVE  Replaces(strategy, P, fs, W, r, Tail(s))
<1>1. PICK u : u = Tail(s)
  OBVIOUS
<1>2. Len(u) = Len(s) - 1 /\ Len(s) \in Nat \ {0} /\ \A i \in 1 .. Len(s) - 1 : u[i] = s[i + 1]
  BY <1>1
<1>3. SUFFICES ASSUME NEW j \in 1 .. Len(u), NEW p \in W, NEW T \in Answers(strategy, P),
                      p[2] = u[j].name, T \in Marks(fs[p[2]])
               PROVE  /\ T.kind = "put" => T \in Marks(fs[r[2]])
                      /\ \A n \in W : n # p /\ Has(fs[n[2]], T.key) /\ Follows(strategy, p, n) =>
                            \/ T \in Marks(fs[r[2]]) /\ Follows(strategy, r, n)
                            \/ \E a \in 1 .. j - 1 : u[a].name = n[2]
  <2>1. SUFFICES Replaces(strategy, P, fs, W, r, u)
    BY <1>1
  <2> QED
    BY Zenon DEF Replaces
<1>4. j + 1 \in 1 .. Len(s) /\ u[j] = s[j + 1] /\ (j + 1) - 1 = j
  BY <1>2
<1>5. /\ T.kind = "put" => T \in Marks(fs[r[2]])
      /\ \A n \in W : n # p /\ Has(fs[n[2]], T.key) /\ Follows(strategy, p, n) =>
            \/ T \in Marks(fs[r[2]]) /\ Follows(strategy, r, n)
            \/ \E a \in 1 .. (j + 1) - 1 : s[a].name = n[2]
  BY <1>3, <1>4 DEF Replaces
<1>6. ASSUME NEW n \in W, NEW a \in 1 .. (j + 1) - 1, s[a].name = n[2]
      PROVE  \E b \in 1 .. j - 1 : u[b].name = n[2]
  <2>1. a # 1
    BY <1>6
  <2>2. a - 1 \in 1 .. j - 1 /\ a - 1 \in 1 .. Len(s) - 1 /\ (a - 1) + 1 = a
    BY <1>2, <2>1
  <2>3. u[a - 1] = s[a]
    BY <1>2, <2>2
  <2> QED
    BY <1>6, <2>2, <2>3
<1> QED
  BY <1>5, <1>6

(* A table moves one layer down, past no table with keys it has; or stays  *)
(* in its old layer too.  Only leveled compaction does so.                 *)
LEMMA GoodMove ==
    ASSUME NEW P, NEW fs, NEW V, V \subseteq Places, Good(strategy, P, fs, V), strategy = "leveled",
           NEW p \in V, NEW q \in Places, q[2] = p[2], q[1] = p[1] + 1, p[1] # 0,
           \A n \in V : n[1] = q[1] => \A T \in Answers(strategy, P) :
              T \in Marks(fs[p[2]]) => ~Has(fs[n[2]], T.key),
           NEW U, U = V \cup {q} \/ U = (V \ {p}) \cup {q}
    PROVE  Good(strategy, P, fs, U)
<1>. p \in Places
  OBVIOUS
<1>1. Consistent(P) /\ \A n \in U : Marks(fs[n[2]]) \subseteq P
  BY DEF Good
<1>2. \A n : ~Ordered(strategy, n) \/ n = 0
  BY DEF Ordered
<1>3. p[1] \in Nat /\ q[1] \in Nat /\ q \in U /\ p # q /\ \A n \in V : n[1] \in Nat
  BY DEF Places
<1>4. ASSUME NEW T \in Answers(strategy, P)
      PROVE  /\ T.kind = "put" => \E m \in U : T \in Marks(fs[m[2]])
             /\ \A n \in U : Has(fs[n[2]], T.key) =>
                   \E m \in U : Follows(strategy, m, n) /\ T \in Marks(fs[m[2]])
  <2>1. /\ T.kind = "put" => \E m \in V : T \in Marks(fs[m[2]])
        /\ \A n \in V : Has(fs[n[2]], T.key) =>
              \E m \in V : Follows(strategy, m, n) /\ T \in Marks(fs[m[2]])
    BY DEF Good
  <2>2. T.kind = "put" => \E m \in U : T \in Marks(fs[m[2]])
    BY <1>3, <2>1
  <2>3. ASSUME NEW m \in V, T \in Marks(fs[m[2]]), m # p PROVE m \in U
    BY <2>3
  <2>4. ASSUME Has(fs[q[2]], T.key)
        PROVE  \E m \in U : Follows(strategy, m, q) /\ T \in Marks(fs[m[2]])
    <3>1. PICK m \in V : Follows(strategy, m, p) /\ T \in Marks(fs[m[2]])
      BY <2>1, <2>4
    <3>2. CASE m = p
      <4>1. T \in Marks(fs[q[2]]) /\ Follows(strategy, q, q)
        BY <3>1, <3>2 DEF Follows
      <4> QED
        BY <1>3, <4>1
    <3>3. CASE m # p
      <4>1. m[1] < p[1]
        BY <1>2, <1>3, <3>1, <3>3 DEF Follows
      <4>2. Follows(strategy, m, q)
        BY <1>3, <4>1 DEF Follows
      <4> QED
        BY <2>3, <3>1, <3>3, <4>2
    <3> QED
      BY <3>2, <3>3
  <2>5. ASSUME NEW n \in U, n # q, Has(fs[n[2]], T.key)
        PROVE  \E m \in U : Follows(strategy, m, n) /\ T \in Marks(fs[m[2]])
    <3>1. n \in V
      BY <2>5
    <3>2. PICK m \in V : Follows(strategy, m, n) /\ T \in Marks(fs[m[2]])
      BY <2>1, <2>5, <3>1
    <3>3. CASE m \in U
      BY <3>2, <3>3
    <3>4. CASE m \notin U
      <4>1. m = p /\ n # p
        BY <2>3, <2>5, <3>2, <3>4
      <4>2. p[1] < n[1]
        BY <1>2, <1>3, <3>2, <4>1 DEF Follows
      <4>3. n[1] # q[1]
        BY <2>5, <3>1, <3>2, <4>1
      <4>4. Follows(strategy, q, n)
        BY <1>3, <3>1, <4>2, <4>3 DEF Follows
      <4> QED
        BY <1>3, <3>2, <4>1, <4>4
    <3> QED
      BY <3>3, <3>4
  <2> QED
    BY <2>2, <2>4, <2>5
<1> QED
  BY <1>1, <1>4 DEF Good

-----------------------------------------------------------------------------
(* The places of the tables in lists of tables.                            *)

View(g) == UNION {{<<n, g[n][k].name>> : k \in 1 .. Len(g[n])} : n \in Nat}

(* The tables of a layer that is ordered have increasing numbers.          *)
Sorted(st, g) ==
    \A n \in Nat : Ordered(st, n) => \A j, k \in 1 .. Len(g[n]) : j < k => g[n][j].id < g[n][k].id

(* What a view holds.                                                      *)
LEMMA ViewElement ==
    ASSUME NEW g, NEW p
    PROVE  p \in View(g) <=> \E n \in Nat : \E k \in 1 .. Len(g[n]) : p = <<n, g[n][k].name>>
BY DEF View

(* Views hold places; the number of a place is that of one table.          *)
LEMMA ViewFacts ==
    ASSUME NEW g \in Lists, NEW top, Identified(g, top)
    PROVE  /\ View(g) \subseteq Places
           /\ \A p \in View(g) : p[2][2] < top
           /\ \A p, q \in View(g) : p[2][2] = q[2][2] => p = q
<1>1. ASSUME NEW n \in Nat, NEW k \in 1 .. Len(g[n])
      PROVE  /\ g[n][k].name \in Int \X Nat /\ g[n][k].name[2] = g[n][k].id
             /\ g[n][k].id < top
  <2>1. g[n][k].name \in Int \X Nat
    BY ListElement DEF Reader
  <2>2. Named(g[n]) /\ g[n][k].id < top
    BY DEF Identified, Earlier
  <2> QED
    BY <2>1, <2>2 DEF Named
<1>2. ASSUME NEW p \in View(g) PROVE p \in Places /\ p[2][2] < top
  <2>1. PICK n \in Nat : \E k \in 1 .. Len(g[n]) : p = <<n, g[n][k].name>>
    BY ViewElement
  <2>2. PICK k \in 1 .. Len(g[n]) : p = <<n, g[n][k].name>>
    BY <2>1
  <2>3. p[2] = g[n][k].name /\ p \in Nat \X (Int \X Nat)
    BY <1>1, <2>2
  <2> QED
    BY <1>1, <2>3 DEF Places
<1>3. ASSUME NEW p \in View(g), NEW q \in View(g), p[2][2] = q[2][2] PROVE p = q
  <2>1. PICK n \in Nat : \E k \in 1 .. Len(g[n]) : p = <<n, g[n][k].name>>
    BY ViewElement
  <2>2. PICK k \in 1 .. Len(g[n]) : p = <<n, g[n][k].name>>
    BY <2>1
  <2>3. PICK l \in Nat : \E j \in 1 .. Len(g[l]) : q = <<l, g[l][j].name>>
    BY ViewElement
  <2>4. PICK j \in 1 .. Len(g[l]) : q = <<l, g[l][j].name>>
    BY <2>3
  <2>5. p[2] = g[n][k].name /\ q[2] = g[l][j].name
    BY <2>2, <2>4
  <2>6. g[n][k].id = g[l][j].id
    BY <1>1, <1>3, <2>5
  <2>7. n = l /\ k = j
    <3>1. Distinct(g)
      BY DEF Identified
    <3> QED
      BY ONLY n \in Nat, l \in Nat, k \in 1 .. Len(g[n]), j \in 1 .. Len(g[l]), <2>6, <3>1
            DEF Distinct
  <2> QED
    BY <2>2, <2>4, <2>7
<1> QED
  BY <1>2, <1>3

(* Lists that agree have the same view.                                    *)
LEMMA ViewSame ==
    ASSUME NEW g, NEW h, \A n \in Nat : Same(g[n], h[n])
    PROVE  View(g) = View(h)
<1>1. ASSUME NEW n \in Nat PROVE Len(g[n]) = Len(h[n])
             /\ \A k \in 1 .. Len(g[n]) : g[n][k].name = h[n][k].name
  BY DEF Same
<1>2. ASSUME NEW p PROVE p \in View(g) <=> p \in View(h)
  <2>1. ASSUME NEW n \in Nat
        PROVE  (\E k \in 1 .. Len(g[n]) : p = <<n, g[n][k].name>>)
                  <=> \E k \in 1 .. Len(h[n]) : p = <<n, h[n][k].name>>
    BY <1>1
  <2>2. p \in View(g) <=> \E n \in Nat : \E k \in 1 .. Len(g[n]) : p = <<n, g[n][k].name>>
    BY ONLY ViewElement
  <2>3. p \in View(h) <=> \E n \in Nat : \E k \in 1 .. Len(h[n]) : p = <<n, h[n][k].name>>
    BY ONLY ViewElement
  <2> QED
    BY ONLY <2>1, <2>2, <2>3
<1> QED
  BY <1>2

(* A table leaves: its place leaves, and there is no other with its file.  *)
LEMMA ViewLeaves ==
    ASSUME NEW g \in Lists, NEW top, Identified(g, top), NEW n \in Nat, NEW id,
           NEW h \in Lists, Leaves(g, h, n, id), NEW name, name[2] = id,
           \A k \in 1 .. Len(g[n]) : g[n][k].id = id => g[n][k].name = name
    PROVE  View(h) = {p \in View(g) : p[2] # name} /\ Identified(h, top)
<1>1. /\ Identified(h, top)
      /\ \A l \in Nat : \A k \in 1 .. Len(h[l]) : h[l][k].id # id
      /\ \A l \in Nat : \A k \in 1 .. Len(h[l]) : \E j \in 1 .. Len(g[l]) : h[l][k] = g[l][j]
  <2>1. PICK fs, X : fs = files /\ X = Nat
    OBVIOUS
  <2>2. \A l \in Nat : \A k \in 1 .. Len(g[l]) : g[l][k].id \in X
    BY <2>1, ListElement
  <2>3. Present(fs, g, X) /\ Separate(fs, g, X)
    BY ONLY <2>2 DEF Present, Separate, Spread
  <2>4. Identified(g, top) /\ Leaves(g, h, n, id)
    OBVIOUS
  <2>5. /\ Identified(h, top)
        /\ \A l \in Nat : \A k \in 1 .. Len(h[l]) : h[l][k].id # id
        /\ \A l \in Nat : \A k \in 1 .. Len(h[l]) : \E j \in 1 .. Len(g[l]) : h[l][k] = g[l][j]
        /\ Present(fs, h, X \ {id}) /\ Separate(fs, h, X \ {id})
    BY ONLY g \in Lists, n \in Nat, h \in Lists, <2>3, <2>4, TableLeaves
  <2> QED
    BY <2>5
<1>2. ASSUME NEW p \in View(h) PROVE p \in View(g) /\ p[2] # name
  <2>1. PICK l \in Nat : \E k \in 1 .. Len(h[l]) : p = <<l, h[l][k].name>>
    BY ViewElement
  <2>2. PICK k \in 1 .. Len(h[l]) : p = <<l, h[l][k].name>>
    BY <2>1
  <2>3. PICK j \in 1 .. Len(g[l]) : h[l][k] = g[l][j]
    BY <1>1
  <2>4. p \in View(g)
    BY <2>2, <2>3, ViewElement
  <2>5. h[l][k].name[2] = h[l][k].id
    <3>1. Named(h[l])
      BY <1>1 DEF Identified
    <3> QED
      BY <3>1 DEF Named
  <2>6. h[l][k].id # id
    BY <1>1
  <2> QED
    BY <2>2, <2>4, <2>5, <2>6
<1>3. ASSUME NEW p \in View(g), p[2] # name PROVE p \in View(h)
  <2>1. PICK l \in Nat : \E j \in 1 .. Len(g[l]) : p = <<l, g[l][j].name>>
    BY ViewElement
  <2>2. PICK j \in 1 .. Len(g[l]) : p = <<l, g[l][j].name>>
    BY <2>1
  <2>3. CASE l # n
    BY <2>2, <2>3, ViewElement DEF Leaves
  <2>4. CASE l = n
    <3>1. PICK s \in Seq(Reader) : s = g[n]
      BY DEF Lists
    <3>2. PICK w \in Seq(Reader) : w = Without(s, id)
      BY WithoutFacts
    <3>3. h[n] = w /\ \E i \in 1 .. Len(s) : s[i].id = id
      BY <3>1, <3>2 DEF Leaves
    <3>4. PICK k \in 1 .. Len(s) :
             /\ s[k].id = id /\ Len(w) = Len(s) - 1
             /\ \A i \in 1 .. Len(s) - 1 : w[i] = IF i < k THEN s[i] ELSE s[i + 1]
      <4>1. \E i \in 1 .. Len(s) : s[i].id = id
        BY <3>3
      <4> QED
        BY ONLY s \in Seq(Reader), <3>2, <4>1, WithoutPresent
    <3>5. j \in 1 .. Len(s) /\ p = <<n, s[j].name>> /\ j # k /\ Len(s) \in Nat
      BY <1>3, <2>2, <2>4, <3>1, <3>4
    <3>6. \E i \in 1 .. Len(w) : w[i] = s[j]
      <4>1. CASE j < k
        <5>1. j \in 1 .. Len(s) - 1
          BY <3>5, <4>1
        <5> QED
          BY <3>4, <4>1, <5>1
      <4>2. CASE k < j
        <5>1. j - 1 \in 1 .. Len(s) - 1 /\ ~(j - 1 < k) /\ (j - 1) + 1 = j
          BY <3>5, <4>2
        <5> QED
          BY <3>4, <5>1
      <4> QED
        BY <3>5, <4>1, <4>2
    <3>7. \E i \in 1 .. Len(h[n]) : p = <<n, h[n][i].name>>
      BY <3>3, <3>5, <3>6
    <3> QED
      BY <3>7, ViewElement
  <2> QED
    BY <2>3, <2>4
<1> QED
  BY <1>1, <1>2, <1>3

(* A table joins.                                                          *)
LEMMA ViewJoins ==
    ASSUME NEW g \in Lists, NEW n \in Nat, NEW t, NEW h \in Lists, Joins(g, h, n, t)
    PROVE  View(h) = View(g) \cup {<<n, t.name>>}
<1>1. PICK s \in Seq(Reader) : s = g[n]
  BY DEF Lists
<1>2. h[n] = Append(s, t) /\ \A l \in Nat : l # n => h[l] = g[l]
  BY <1>1 DEF Joins
<1>3. Len(h[n]) = Len(s) + 1 /\ h[n][Len(s) + 1] = t /\ \A i \in 1 .. Len(s) : h[n][i] = s[i]
  BY <1>2
<1>4. Len(s) \in Nat
  OBVIOUS
<1>5. ASSUME NEW p \in View(h) PROVE p \in View(g) \/ p = <<n, t.name>>
  <2>1. PICK l \in Nat : \E k \in 1 .. Len(h[l]) : p = <<l, h[l][k].name>>
    BY ViewElement
  <2>2. PICK k \in 1 .. Len(h[l]) : p = <<l, h[l][k].name>>
    BY <2>1
  <2>3. CASE l # n
    BY <1>2, <2>2, <2>3, ViewElement
  <2>4. CASE l = n /\ k = Len(s) + 1
    BY <1>3, <2>2, <2>4
  <2>5. CASE l = n /\ k # Len(s) + 1
    <3>1. k \in 1 .. Len(s)
      BY <1>3, <1>4, <2>5
    <3>2. k \in 1 .. Len(g[n]) /\ p = <<n, g[n][k].name>>
      BY <1>1, <1>3, <2>2, <2>5, <3>1
    <3> QED
      BY <3>2, ViewElement
  <2> QED
    BY <2>3, <2>4, <2>5
<1>6. ASSUME NEW p \in View(g) PROVE p \in View(h)
  <2>1. PICK l \in Nat : \E k \in 1 .. Len(g[l]) : p = <<l, g[l][k].name>>
    BY ViewElement
  <2>2. PICK k \in 1 .. Len(g[l]) : p = <<l, g[l][k].name>>
    BY <2>1
  <2>3. k \in 1 .. Len(h[l]) /\ h[l][k] = g[l][k]
    BY <1>1, <1>2, <1>3, <1>4
  <2>4. p = <<l, h[l][k].name>>
    BY <2>2, <2>3
  <2>5. p \in View(h) <=> \E i \in Nat : \E j \in 1 .. Len(h[i]) : p = <<i, h[i][j].name>>
    BY ONLY ViewElement
  <2> QED
    BY ONLY l \in Nat, <2>3, <2>4, <2>5
<1>7. <<n, t.name>> \in View(h)
  <2>1. Len(s) + 1 \in 1 .. Len(h[n]) /\ <<n, t.name>> = <<n, h[n][Len(s) + 1].name>>
    BY <1>3, <1>4
  <2> QED
    BY <2>1, ViewElement
<1> QED
  BY <1>5, <1>6, <1>7

(* The identifiers stay distinct.                                          *)
LEMMA IdentifiedJoins ==
    ASSUME NEW g \in Lists, NEW top \in Int, Identified(g, top), NEW n \in Nat, NEW t \in Reader,
           Fresh(g, top, t), NEW h \in Lists, Joins(g, h, n, t)
    PROVE  Identified(h, top)
<1>1. PICK fs, X : fs = [x \in {t.name} |-> [recs |-> {1}]] /\ X = Nat
  OBVIOUS
<1>2. \A l \in Nat : \A k \in 1 .. Len(g[l]) : g[l][k].id \in X
  BY <1>1, ListElement
<1>3. Present(fs, g, X) /\ Separate(fs, g, X) /\ Room(fs, g, n, t, X)
  BY ONLY n \in Nat, <1>2 DEF Present, Separate, Spread, Room
<1>4. OnDisk(fs, t)
  BY <1>1 DEF OnDisk
<1> QED
  BY ONLY g \in Lists, top \in Int, Identified(g, top), n \in Nat, t \in Reader, Fresh(g, top, t),
          h \in Lists, Joins(g, h, n, t), <1>3, <1>4, TableJoins

(* A list without one of its tables stays sorted.                          *)
LEMMA SortedLeaves ==
    ASSUME NEW g \in Lists, Sorted(strategy, g), NEW n \in Nat, NEW id, NEW h, Leaves(g, h, n, id)
    PROVE  Sorted(strategy, h)
<1>1. PICK s \in Seq(Reader) : s = g[n]
  BY DEF Lists
<1>2. PICK w : w = Without(s, id)
  OBVIOUS
<1>3. h[n] = w /\ (\E i \in 1 .. Len(s) : s[i].id = id) /\ \A l \in Nat : l # n => h[l] = g[l]
  BY <1>1, <1>2 DEF Leaves
<1>4. PICK p \in 1 .. Len(s) :
         /\ Len(w) = Len(s) - 1
         /\ \A i \in 1 .. Len(s) - 1 : w[i] = IF i < p THEN s[i] ELSE s[i + 1]
  <2>1. \E i \in 1 .. Len(s) : s[i].id = id
    BY <1>3
  <2>2. \E k \in 1 .. Len(s) :
           /\ s[k].id = id /\ \A i \in 1 .. Len(s) : s[i].id = id => k <= i
           /\ Without(s, id) \in Seq(Reader)
           /\ Len(Without(s, id)) = Len(s) - 1
           /\ \A i \in 1 .. Len(s) - 1 : Without(s, id)[i] = IF i < k THEN s[i] ELSE s[i + 1]
    BY ONLY s \in Seq(Reader), <2>1, WithoutPresent
  <2> QED
    BY ONLY <1>2, <2>2
<1>5. ASSUME Ordered(strategy, n), NEW j \in 1 .. Len(w),
             NEW k \in 1 .. Len(w), j < k PROVE w[j].id < w[k].id
  <2>1. \A a, b \in 1 .. Len(s) : a < b => s[a].id < s[b].id
    BY <1>1, <1>5 DEF Sorted
  <2>2. Len(s) \in Nat /\ j \in Int /\ k \in Int /\ p \in Int
    BY <1>4
  <2>3. PICK a \in 1 .. Len(s) : a = IF j < p THEN j ELSE j + 1
    BY <1>4, <2>2
  <2>4. PICK b \in 1 .. Len(s) : b = IF k < p THEN k ELSE k + 1
    BY <1>4, <2>2
  <2>5. a < b /\ w[j] = s[a] /\ w[k] = s[b]
    BY <1>4, <1>5, <2>2, <2>3, <2>4
  <2> QED
    BY <2>1, <2>5
<1>6. ASSUME NEW l \in Nat, Ordered(strategy, l), NEW j \in 1 .. Len(h[l]),
             NEW k \in 1 .. Len(h[l]), j < k
      PROVE  h[l][j].id < h[l][k].id
  <2>1. CASE l = n
    BY <1>3, <1>5, <1>6, <2>1
  <2>2. CASE l # n
    BY <1>3, <1>6, <2>2 DEF Sorted
  <2> QED
    BY <2>1, <2>2
<1> QED
  BY <1>6 DEF Sorted

(* So does one with a table that is newer than the others.                 *)
LEMMA SortedJoins ==
    ASSUME NEW g \in Lists, Sorted(strategy, g), NEW n \in Nat, NEW t, NEW h, Joins(g, h, n, t),
           Ordered(strategy, n) => \A k \in 1 .. Len(g[n]) : g[n][k].id < t.id
    PROVE  Sorted(strategy, h)
<1>1. PICK s \in Seq(Reader) : s = g[n]
  BY DEF Lists
<1>2. h[n] = Append(s, t) /\ \A l \in Nat : l # n => h[l] = g[l]
  BY <1>1 DEF Joins
<1>3. /\ Len(h[n]) = Len(s) + 1 /\ h[n][Len(s) + 1] = t /\ \A i \in 1 .. Len(s) : h[n][i] = s[i]
      /\ Len(s) \in Nat
  BY <1>2
<1>4. ASSUME NEW l \in Nat, Ordered(strategy, l), NEW j \in 1 .. Len(h[l]),
             NEW k \in 1 .. Len(h[l]), j < k
      PROVE  h[l][j].id < h[l][k].id
  <2>1. CASE l # n
    BY <1>2, <1>4, <2>1 DEF Sorted
  <2>2. CASE l = n /\ k = Len(s) + 1
    <3>1. j \in 1 .. Len(s)
      BY <1>3, <1>4, <2>2
    <3>2. h[l][j] = g[n][j] /\ j \in 1 .. Len(g[n]) /\ h[l][k] = t
      BY <1>1, <1>3, <2>2, <3>1
    <3> QED
      BY <1>4, <2>2, <3>2
  <2>3. CASE l = n /\ k # Len(s) + 1
    <3>1. j \in 1 .. Len(s) /\ k \in 1 .. Len(s)
      BY <1>3, <1>4, <2>3
    <3>2. h[l][j] = g[n][j] /\ h[l][k] = g[n][k] /\ j \in 1 .. Len(g[n]) /\ k \in 1 .. Len(g[n])
      BY <1>1, <1>3, <2>3, <3>1
    <3> QED
      BY <1>4, <2>3, <3>2 DEF Sorted
  <2> QED
    BY <2>1, <2>2, <2>3
<1> QED
  BY <1>4 DEF Sorted

-----------------------------------------------------------------------------
(* Reads.                                                                  *)

(* What was flushed, and where the tables are that readers see.            *)
Past == Marks(Table(hist, rdHist))
Seen == View(AllTabs(layers))

Opens(fs, V) == \A p \in V : p[2] \in DOMAIN fs /\ fs[p[2]] # Partial
FilesTyped(fs, s) == \A n \in DOMAIN fs : fs[n] = Partial \/ Typed(fs[n], s)

(* The cached fragments are those of the tables, if there are tables.      *)
CacheSound ==
    MuFree /\ ~frags.dirty /\ frags.val # {} =>
        \/ Seen = {}
        \/ frags.val = FragmentRangeTombstones(UNION {files[p[2]].rds : p \in Seen})

(* The readers are the tables in view.                                     *)
LEMMA SeenTables ==
    ASSUME layers \in Seq(Layer)
    PROVE  /\ \A p \in Seen : \E t \in AllTables : t.name = p[2]
           /\ \A t \in AllTables : \E p \in Seen : p[2] = t.name
<1>1. \A l \in 1 .. Len(layers) : layers[l] \in Layer
  OBVIOUS
<1>2. DOMAIN layers = 1 .. Len(layers) /\ Len(layers) \in Nat
  OBVIOUS
<1>3. ASSUME NEW p \in Seen PROVE \E t \in AllTables : t.name = p[2]
  <2>1. PICK n \in Nat : \E k \in 1 .. Len(AllTabs(layers)[n]) :
                p = <<n, AllTabs(layers)[n][k].name>>
    BY ViewElement DEF Seen
  <2>2. AllTabs(layers)[n] = Tabs(layers, n)
    BY DEF AllTabs
  <2>3. PICK k \in 1 .. Len(Tabs(layers, n)) : p = <<n, Tabs(layers, n)[k].name>>
    BY <2>1, <2>2
  <2>4. n + 1 <= Len(layers) /\ Tabs(layers, n) = layers[n + 1].tabs
    BY <2>3 DEF Tabs
  <2>5. n + 1 \in DOMAIN layers /\ layers[n + 1] \in Layer
    BY <1>1, <1>2, <2>4
  <2>6. PICK s \in Seq(Reader) : s = layers[n + 1].tabs
    BY <2>5 DEF Layer
  <2>7. k \in 1 .. Len(s) /\ p[2] = s[k].name /\ s[k] \in ToSet(s)
    BY <2>3, <2>4, <2>6 DEF ToSet
  <2> QED
    BY <2>5, <2>6, <2>7 DEF AllTables
<1>4. ASSUME NEW t \in AllTables PROVE \E p \in Seen : p[2] = t.name
  <2>1. PICK l \in 1 .. Len(layers) : t \in ToSet(layers[l].tabs)
    BY <1>2 DEF AllTables
  <2>2. layers[l] \in Layer /\ l - 1 \in Nat /\ (l - 1) + 1 = l
    BY <1>1
  <2>3. PICK s \in Seq(Reader) : s = layers[l].tabs
    BY <2>2 DEF Layer
  <2>4. PICK k \in 1 .. Len(s) : t = s[k]
    BY <2>1, <2>3 DEF ToSet
  <2>5. Tabs(layers, l - 1) = s /\ AllTabs(layers)[l - 1] = s
    BY <1>2, <2>2, <2>3 DEF Tabs, AllTabs
  <2>6. <<l - 1, t.name>> \in View(AllTabs(layers))
    BY <2>2, <2>4, <2>5, ViewElement
  <2> QED
    BY <2>6 DEF Seen
<1> QED
  BY <1>3, <1>4

(* A reader finds the newest version in its table, if nothing in the table *)
(* is newer; what it finds is in the table.                                *)
LEMMA ReaderAnswer ==
    ASSUME NEW t, seq \in Nat, Typed(files[t.name], seq), NEW k \in Keys
    PROVE  /\ \A q \in ReaderGet(t, k) : q \in files[t.name].recs /\ q.key = k
           /\ \A r \in files[t.name].recs :
                 r.key = k /\ (\A m \in Marks(files[t.name]) : m.key = k => m.seq <= r.seq)
                 => \E q \in ReaderGet(t, k) : q.seq = r.seq
<1>. DEFINE C == files[t.name]
            R == OfKey(C.recs, k)
            F == FragmentRangeTombstones(C.rds)
<1>1. ReaderGet(t, k) = {r \in R : r = NewestOf(R) /\ ~IsCoveredByRangeTombstone(F, k, r.seq)}
  BY DEF ReaderGet, Recs, RangeDels
<1>2. \A r \in R : r \in C.recs /\ r.key = k /\ r.seq \in 0 .. seq
  BY DEF OfKey, Typed, Version
<1>3. ASSUME NEW r \in C.recs, r.key = k, \A m \in Marks(C) : m.key = k => m.seq <= r.seq
      PROVE  \E q \in ReaderGet(t, k) : q.seq = r.seq
  <2>1. r \in R /\ R # {}
    BY <1>3 DEF OfKey
  <2>2. PICK q : q = NewestOf(R)
    OBVIOUS
  <2>3. q \in R /\ \A v \in R : v.seq <= q.seq
    BY <1>2, <2>1, <2>2, NewestFacts
  <2>4. q.seq <= r.seq /\ q.seq \in Int /\ r.seq \in Int
    <3>1. Mark(q.key, q.seq, KindOf(q)) \in Marks(C)
      BY <1>2, <2>3, RecordMark
    <3> QED
      BY <1>2, <1>3, <2>1, <2>3, <3>1 DEF Mark
  <2>5. q.seq = r.seq
    BY <2>1, <2>3, <2>4
  <2>6. ASSUME NEW d \in C.rds, Covers(d, k) PROVE ~(d.seq > q.seq)
    <3>1. Mark(k, d.seq, "rng") \in Marks(C)
      BY <2>6, MarkFacts
    <3>2. d.seq <= r.seq /\ d.seq \in Int
      BY <1>3, <3>1 DEF Mark, Typed, Tombs
    <3> QED
      BY <2>4, <2>5, <3>2
  <2>7. ~IsCoveredByRangeTombstone(F, k, q.seq)
    <3>1. Tombs(C.rds, MaxKey + 1, seq) /\ MaxKey + 1 \in Nat /\ k \in Nat
      BY KeysType DEF Typed
    <3> QED
      BY <2>4, <2>6, <3>1, CoveredKeys
  <2> QED
    BY <1>1, <2>2, <2>3, <2>5, <2>7
<1> QED
  BY <1>1, <1>2, <1>3

(* The newest mark of a key.                                               *)
LEMMA NewestMark ==
    ASSUME NEW P, NEW s \in Nat, \A m \in P : m.seq \in 0 .. s, NEW k, \E m \in P : m.key = k
    PROVE  \E T \in P : T.key = k /\ Newest(P, T)
<1>. DEFINE V == {m \in P : m.key = k}
<1>1. V # {} /\ \A m \in V : m.seq \in 0 .. s
  OBVIOUS
<1>. HIDE DEF V
<1>2. NewestOf(V) \in V /\ \A m \in V : m.seq <= NewestOf(V).seq
  BY <1>1, NewestFacts
<1> QED
  BY <1>2 DEF V, Newest

(* What should be answered follows from the newest mark.                   *)
LEMMA ExpectedAnswer ==
    ASSUME seq \in Nat, Typed(Table(hist, rdHist), seq), Consistent(Past), NEW k \in Keys,
           NEW T \in Past, T.key = k, Newest(Past, T)
    PROVE  /\ T.kind = "put" => Expected(k) = {T.seq}
           /\ T.kind \in {"del", "rng"} => Expected(k) = {}
           /\ T.kind = "exp" => OfKey(hist, k) # {} /\ Expired(NewestOf(OfKey(hist, k)))
           /\ T.kind \in {"put", "del", "rng", "exp"} /\ T.seq \in Nat
<1>. DEFINE R == OfKey(hist, k)
            new == NewestOf(R)
            H == Table(hist, rdHist)
<1>1. H.recs = hist /\ H.rds = rdHist
  BY DEF Table
<1>. HIDE DEF H
<1>2. /\ T.seq \in Nat /\ T.kind \in {"put", "del", "rng", "exp"} /\ T = Mark(T.key, T.seq, T.kind)
      /\ T.kind # "rng" => \E r \in hist : r.key = k /\ r.seq = T.seq /\ KindOf(r) = T.kind
      /\ T.kind = "rng" => \E d \in rdHist : Covers(d, k) /\ d.seq = T.seq
  BY <1>1, MarkOrigin DEF Past, H
<1>3. \A q \in Past : q.key = k => q.seq <= T.seq
  BY DEF Newest
<1>4. ASSUME NEW d \in rdHist, Covers(d, k) PROVE d.seq <= T.seq /\ d.seq \in Nat
  <2>1. Mark(k, d.seq, "rng") \in Past
    BY <1>1, <1>4, MarkFacts DEF Past, H
  <2>2. d.seq \in Nat
    BY <1>1 DEF Typed, Tombs, H
  <2> QED
    BY <1>3, <2>1, <2>2 DEF Mark
<1>5. ASSUME NEW r \in R
      PROVE  r.seq \in 0 .. seq /\ r.seq <= T.seq /\ (r.seq = T.seq => KindOf(r) = T.kind)
  <2>1. r \in hist /\ r.key = k
    BY DEF OfKey
  <2>2. Mark(k, r.seq, KindOf(r)) \in Past
    BY <1>1, <2>1, RecordMark DEF Past, H
  <2>3. r.seq \in 0 .. seq
    BY <1>1, <2>1 DEF Typed, Version, H
  <2>4. r.seq = T.seq => Mark(k, r.seq, KindOf(r)) = T
    BY <2>2 DEF Consistent, Mark
  <2> QED
    BY <1>3, <2>2, <2>3, <2>4 DEF Mark
<1>. HIDE DEF R, new
<1>6. R # {} => new \in R /\ \A r \in R : r.seq <= new.seq
  BY <1>5, NewestFacts DEF new
<1>7. Expected(k) = IF R = {} \/ new.op = "Del"
         \/ (\E d \in rdHist : d.lo <= k /\ k < d.hi /\ d.seq > new.seq)
                    THEN {} ELSE {new.seq}
  BY DEF Expected, R, new
<1>8. ASSUME T.kind # "rng" PROVE R # {} /\ new \in R /\ new.seq = T.seq /\ KindOf(new) = T.kind
  <2>1. PICK r \in hist : r.key = k /\ r.seq = T.seq
    BY <1>2, <1>8
  <2>2. r \in R
    BY <2>1 DEF R, OfKey
  <2>3. new \in R /\ r.seq <= new.seq /\ new.seq <= T.seq /\ new.seq \in Int
    BY <1>5, <1>6, <2>2
  <2>4. new.seq = T.seq
    BY <1>2, <2>1, <2>3
  <2> QED
    BY <1>5, <2>2, <2>3, <2>4
<1>9. CASE T.kind = "put"
  <2>1. new.op # "Del" /\ new.seq = T.seq /\ R # {}
    BY <1>8, <1>9 DEF KindOf
  <2>2. ~\E d \in rdHist : d.lo <= k /\ k < d.hi /\ d.seq > new.seq
    BY <1>2, <1>4, <2>1 DEF Covers
  <2> QED
    BY <1>2, <1>7, <1>9, <2>1, <2>2
<1>10. CASE T.kind = "del"
  <2>1. new.op = "Del"
    BY <1>8, <1>10 DEF KindOf
  <2> QED
    BY <1>2, <1>7, <1>10, <2>1
<1>11. CASE T.kind = "exp"
  <2>1. R # {} /\ new.exp
    BY <1>8, <1>11 DEF KindOf
  <2> QED
    BY <1>2, <1>11, <2>1 DEF Expired, R, new
<1>12. CASE T.kind = "rng"
  <2>1. PICK d \in rdHist : Covers(d, k) /\ d.seq = T.seq
    BY <1>2, <1>12
  <2>2. R # {} => new.seq < T.seq /\ new.seq \in Int
    <3>1. R # {} => new \in R /\ KindOf(new) # "rng"
      BY <1>6 DEF KindOf
    <3> QED
      BY <1>2, <1>5, <1>12, <3>1
  <2>3. Expected(k) = {}
    BY <1>2, <1>7, <2>1, <2>2 DEF Covers
  <2> QED
    BY <1>2, <1>12, <2>3
<1> QED
  BY <1>2, <1>9, <1>10, <1>11, <1>12

(* Get answers so, from tables that are good for what was flushed.         *)
LEMMA GoodReads ==
    ASSUME layers \in Seq(Layer), seq \in Nat, Typed(Table(hist, rdHist), seq),
           FilesTyped(files, seq), Opens(files, Seen), Good(strategy, Past, files, Seen), MuFree,
           CacheSound
    PROVE  GetsNewest
<1>. DEFINE D == UNION {RangeDels(t) : t \in AllTables}
<1>1. Consistent(Past)
  BY DEF Good
<1>2. ASSUME NEW t \in AllTables PROVE Typed(files[t.name], seq)
             /\ Marks(files[t.name]) \subseteq Past
  <2>1. PICK p \in Seen : p[2] = t.name
    BY SeenTables
  <2> QED
    BY <2>1 DEF Good, Opens, FilesTyped
<1>3. \A m \in Past : m.seq \in 0 .. seq /\ m.key \in Keys
  BY MarkOrigin DEF Past
<1>4. AllTables # {} => Fragments = FragmentRangeTombstones(D)
  <2>1. UNION {files[p[2]].rds : p \in Seen} = D
    <3>1. \A p \in Seen : \E t \in AllTables : files[p[2]].rds = RangeDels(t)
      BY SeenTables DEF RangeDels
    <3>2. \A t \in AllTables : \E p \in Seen : files[p[2]].rds = RangeDels(t)
      BY SeenTables DEF RangeDels
    <3>3. {files[p[2]].rds : p \in Seen} = {RangeDels(t) : t \in AllTables}
      BY <3>1, <3>2
    <3> QED
      BY <3>3
  <2>2. AllTables # {} => Seen # {}
    BY SeenTables
  <2> QED
    BY <2>1, <2>2 DEF Fragments, CacheSound, MergeAndFragment
<1>5. Tombs(D, MaxKey + 1, seq) /\ MaxKey + 1 \in Nat
  <2>1. \A t \in AllTables : Tombs(RangeDels(t), MaxKey + 1, seq)
    BY <1>2 DEF Typed, RangeDels
  <2> QED
    BY <2>1, KeysType DEF Tombs
<1>6. SUFFICES ASSUME NEW k \in Keys,
                      ~(OfKey(hist, k) # {} /\ Expired(NewestOf(OfKey(hist, k)))),
                      ~(strategy = "leveled" /\ \E d \in rdHist : d.lo <= k /\ k < d.hi)
               PROVE  {r.seq : r \in Get(k)} = Expected(k)
  BY DEF GetsNewest
<1>. DEFINE found == UNION {ReaderGet(t, k) : t \in AllTables}
            best == NewestOf(found)
<1>7. Get(k) = IF \/ found = {} \/ best.op = "Del"
                  \/ IsCoveredByRangeTombstone(Fragments, k, best.seq) \/ Expired(best)
               THEN {} ELSE {best}
  BY DEF Get
<1>8. ASSUME NEW q \in found
      PROVE  /\ Mark(k, q.seq, KindOf(q)) \in Past /\ q.seq \in 0 .. seq
             /\ \E t \in AllTables : Has(files[t.name], k)
  <2>1. PICK t \in AllTables : q \in ReaderGet(t, k)
    OBVIOUS
  <2>2. q \in files[t.name].recs /\ q.key = k
    BY <1>2, <2>1, ReaderAnswer
  <2>3. Mark(k, q.seq, KindOf(q)) \in Past
    BY <1>2, <2>2, RecordMark
  <2>4. q.seq \in 0 .. seq
    BY <1>2, <2>2 DEF Typed, Version
  <2> QED
    BY <2>2, <2>3, <2>4 DEF Has
<1>. HIDE DEF found, best, D
<1>9. found # {} => best \in found /\ \A q \in found : q.seq <= best.seq
  BY <1>8, NewestFacts DEF best
<1>10. CASE ~\E m \in Past : m.key = k
  <2>1. found = {}
    BY <1>8, <1>10 DEF Mark
  <2>2. OfKey(hist, k) = {}
    <3>1. ASSUME NEW r \in hist, r.key = k PROVE FALSE
      <4>1. Mark(r.key, r.seq, KindOf(r)) \in Past
        BY RecordMark DEF Past, Table
      <4> QED
        BY <1>10, <3>1, <4>1 DEF Mark
    <3> QED
      BY <3>1 DEF OfKey
  <2> QED
    BY <1>7, <2>1, <2>2 DEF Expected
<1>11. CASE \E m \in Past : m.key = k
  <2>1. PICK T \in Past : T.key = k /\ Newest(Past, T)
    BY <1>3, <1>11, NewestMark
  <2>2. /\ T.kind = "put" => Expected(k) = {T.seq}
        /\ T.kind \in {"del", "rng"} => Expected(k) = {}
        /\ T.kind \in {"put", "del", "rng"} /\ T.seq \in Nat
    BY <1>1, <1>6, <2>1, ExpectedAnswer
  <2>3. T \in Answers(strategy, Past)
    <3>1. ASSUME strategy = "leveled", NEW q \in Past, q.key = k, q.kind = "rng" PROVE FALSE
      <4>1. \E d \in rdHist : Covers(d, k)
        BY <3>1, MarkOrigin DEF Past, Table
      <4> QED
        BY <1>6, <3>1, <4>1 DEF Covers
    <3> QED
      BY <2>1, <2>2, <3>1 DEF Answers
  <2>4. \A q \in Past : q.key = k => q.seq <= T.seq
    BY <2>1 DEF Newest
  <2>5. ASSUME NEW q \in found PROVE q.seq <= T.seq /\ (q.seq = T.seq => KindOf(q) = T.kind)
    <3>1. Mark(k, q.seq, KindOf(q)) \in Past
      BY <1>8
    <3>2. q.seq = T.seq => Mark(k, q.seq, KindOf(q)) = T
      BY <1>1, <2>1, <3>1 DEF Consistent, Mark
    <3> QED
      BY <2>4, <3>1, <3>2 DEF Mark
  <2>6. ASSUME NEW t \in AllTables, T \in Marks(files[t.name]), T.kind # "rng"
        PROVE  \E q \in found : q.seq = T.seq
    <3>1. PICK r \in files[t.name].recs : r.key = k /\ r.seq = T.seq
      BY <1>2, <2>1, <2>6, MarkOrigin
    <3>2. \A m \in Marks(files[t.name]) : m.key = k => m.seq <= r.seq
      BY <1>2, <2>4, <3>1
    <3>3. \E q \in ReaderGet(t, k) : q.seq = T.seq
      BY <1>2, <3>1, <3>2, ReaderAnswer
    <3> QED
      BY <3>3 DEF found
  <2>7. /\ T.kind = "put" => \E t \in AllTables : T \in Marks(files[t.name])
        /\ found # {} => \E t \in AllTables : T \in Marks(files[t.name])
    <3>1. /\ T.kind = "put" => \E p \in Seen : T \in Marks(files[p[2]])
          /\ \A n \in Seen : Has(files[n[2]], k) => \E m \in Seen : T \in Marks(files[m[2]])
      BY <2>1, <2>3 DEF Good
    <3>2. found # {} => \E n \in Seen : Has(files[n[2]], k)
      BY <1>8, SeenTables
    <3>3. \A p \in Seen : \E t \in AllTables : t.name = p[2]
      BY SeenTables
    <3> QED
      BY <3>1, <3>2, <3>3
  <2>8. found # {} => best \in found /\ best.seq \in Nat
    BY <1>8, <1>9
  <2>9. ASSUME T.kind # "rng", found # {} PROVE best.seq = T.seq /\ KindOf(best) = T.kind
    <3>1. PICK q \in found : q.seq = T.seq
      BY <2>6, <2>7, <2>9
    <3>2. best \in found /\ q.seq <= best.seq /\ best.seq <= T.seq
      BY <1>9, <2>5, <2>9
    <3>3. best.seq = T.seq
      BY <2>2, <2>8, <3>1, <3>2
    <3> QED
      BY <2>5, <3>2, <3>3
  <2>10. \A n \in Int : AllTables # {} =>
            (IsCoveredByRangeTombstone(Fragments, k, n) <=> \E d \in D : Covers(d, k) /\ d.seq > n)
    <3>1. k \in Nat
      BY KeysType
    <3> QED
      BY <1>4, <1>5, <3>1, CoveredKeys
  <2>11. CASE T.kind = "put"
    <3>1. PICK t \in AllTables : T \in Marks(files[t.name])
      BY <2>7, <2>11
    <3>2. found # {}
      BY <2>6, <2>11, <3>1
    <3>3. best.seq = T.seq /\ best.op # "Del" /\ ~Expired(best)
      BY <2>9, <2>11, <3>2 DEF KindOf, Expired
    <3>4. ASSUME NEW d \in D, Covers(d, k) PROVE ~(d.seq > T.seq)
      <4>1. PICK u \in AllTables : d \in files[u.name].rds
        BY DEF D, RangeDels
      <4>2. Mark(k, d.seq, "rng") \in Past
        BY <1>2, <3>4, <4>1, MarkFacts
      <4>3. d.seq <= T.seq /\ d.seq \in Int
        BY <1>5, <2>4, <4>2 DEF Mark, Tombs
      <4> QED
        BY <2>2, <4>3
    <3>5. ~IsCoveredByRangeTombstone(Fragments, k, best.seq)
      BY <2>2, <2>10, <3>1, <3>3, <3>4
    <3>6. Get(k) = {best}
      BY <1>7, <3>2, <3>3, <3>5
    <3> QED
      BY <2>2, <2>11, <3>3, <3>6
  <2>12. CASE T.kind = "del"
    <3>1. found # {} => best.op = "Del"
      BY <2>9, <2>12 DEF KindOf
    <3>2. Get(k) = {}
      BY <1>7, <3>1
    <3> QED
      BY <2>2, <2>12, <3>2
  <2>13. CASE T.kind = "rng"
    <3>1. ASSUME found # {} PROVE IsCoveredByRangeTombstone(Fragments, k, best.seq)
      <4>1. PICK t \in AllTables : T \in Marks(files[t.name])
        BY <2>7, <3>1
      <4>2. PICK d \in files[t.name].rds : Covers(d, k) /\ d.seq = T.seq
        BY <1>2, <2>1, <2>13, <4>1, MarkOrigin
      <4>3. d \in D
        BY <4>2 DEF D, RangeDels
      <4>4. best.seq <= T.seq /\ best.seq # T.seq
        BY <2>5, <2>8, <2>13, <3>1 DEF KindOf
      <4>5. d.seq > best.seq
        BY <2>2, <2>8, <3>1, <4>2, <4>4
      <4> QED
        BY <2>8, <2>10, <3>1, <4>2, <4>3, <4>5
    <3>2. Get(k) = {}
      BY <1>7, <3>1
    <3> QED
      BY <2>2, <2>13, <3>2
  <2> QED
    BY <2>2, <2>11, <2>12, <2>13
<1> QED
  BY <1>10, <1>11

-----------------------------------------------------------------------------
(* The invariant behind ReadsNewest.                                       *)

(* The rows of the manifest but for the one whose file was just deleted.   *)
Kept == [n \in Nat |-> RowsLeft(n)]
Listed == View(Kept)

(* The table that is being written: its file, its place, and the files,    *)
(* the places and the answers there are once it is added.                  *)
Name == <<worker.to, worker.id>>
Place == <<worker.to, Name>>
Finished == IF worker.pc = "add" THEN [files EXCEPT ![Name] = worker.content] ELSE files
Coming == IF worker.pc = "add" THEN Listed \cup {Place} ELSE Listed
Future == IF worker.inputs = <<>> THEN Past \cup Marks(worker.content) ELSE Past

Basic ==
    /\ seq \in Nat /\ (worker.pc = "idle" => worker = Idle)
    /\ status # "up" => frags.val = {}

AllTyped ==
    FilesTyped(files, seq) /\ Typed(worker.content, seq) /\ Typed(Table(hist, rdHist), seq)

(* The manifest lists each table once, in a layer there is and in order;   *)
(* file names say where the tables are, unless stray tells otherwise.      *)
Books ==
    /\ Identified(AllRows(manifest), manifest.next) /\ Sorted(strategy, AllRows(manifest))
    /\ \A p \in View(AllRows(manifest)) :
          p[1] < MaxHeight /\ (stray = "none" => p[2][1] = p[1])

(* While the process is up the listed tables are on disk, and no others.   *)
Disk ==
    status = "up" =>
        /\ manifest.next <= nextId /\ Opens(files, Listed)
        /\ stray = "none" => \A n \in DOMAIN files : files[n] = Partial \/ <<n[1], n>> \in Listed

(* The listed tables give the right answers, if they can be opened.        *)
Store ==
    (status = "up" \/ manifest # NoManifest) /\ Opens(files, Listed) =>
       Good(strategy, Past, files, Listed)

(* So they do with the table that is being written.                        *)
Writing ==
    worker.pc = "add" =>
        /\ manifest.next <= worker.id /\ worker.id < nextId /\ Name \in DOMAIN files
        /\ worker.to < MaxHeight /\ worker.content.recs # {}
        /\ worker.inputs = <<>> => worker.to = 0
        /\ Good(strategy, Future, Finished, Coming)

(* It, or the latest table, replaces the inputs that are left to delete.   *)
Replacing ==
    worker.inputs # <<>> =>
        /\ Named(worker.inputs)
        /\ \A j \in 1 .. Len(worker.inputs) : \A n \in Nat : \A k \in 1 .. Len(Rows(n)) :
              Rows(n)[k].id = worker.inputs[j].id => Rows(n)[k].name = worker.inputs[j].name
        /\ Place \in Coming
        /\ \A j \in 1 .. Len(worker.inputs) : worker.inputs[j].id # worker.id
        /\ Replaces(strategy, Past, Finished, Coming, Place, worker.inputs)
        /\ worker.pc = "unlist" => \/ Without(Rows(First.layer), First.id) = Rows(First.layer)
                                   \/ First.name \notin DOMAIN files

(* A manifest rebuilt from the file names would give the right answers, to *)
(* which a finished table of L0 belongs, if all the files can be opened.   *)
Names == {<<n[1], n>> : n \in DOMAIN files}
Rebuilt == Past \cup UNION {Marks(files[n]) : n \in {f \in DOMAIN files : f[1] = 0}}
Rebuilding ==
    status = "down" /\ stray = "none" /\ Opens(files, Names) =>
        /\ Good(strategy, Rebuilt, files, Names)
        /\ \A a, b \in DOMAIN files : a[2] = b[2] => a = b
        /\ \A a \in DOMAIN files : a[1] < MaxHeight

Usual == Books /\ Disk /\ Store /\ Writing /\ Replacing /\ Rebuilding
Misplaced == Opens(files, Seen) /\ Good(strategy, Past, files, Seen)

Ready ==
    /\ AllTyped /\ CacheSound
    /\ failure # "misplaced" => Usual
    /\ failure = "misplaced" => Misplaced
ReadInv == Basic /\ (stray # "listed" /\ status # "stuck" => Ready)

(* Memory shows the listed tables.                                         *)
LEMMA SeenListed ==
    ASSUME ManifestInv, status = "up", failure # "misplaced"
    PROVE  Seen = Listed
<1>1. \A n \in Nat : Same(Kept[n], AllTabs(layers)[n])
  BY DEF ManifestInv, Agreement, Kept, AllTabs
<1> QED
  BY <1>1, ViewSame DEF Seen, Listed

(* The invariant gives ReadsNewest.                                        *)
LEMMA ReadsSound ==
    ManifestInv /\ ReadInv => ReadsNewest
<1>. SUFFICES ASSUME ManifestInv, ReadInv, MuFree, stray # "listed" PROVE GetsNewest
  BY DEF ReadsNewest
<1>1. status = "up" /\ Ready
  BY DEF MuFree, ReadInv
<1>2. Opens(files, Seen) /\ Good(strategy, Past, files, Seen)
  <2>1. CASE failure = "misplaced"
    BY <1>1, <2>1 DEF Ready, Misplaced
  <2>2. CASE failure # "misplaced"
    <3>1. Disk /\ Store /\ Seen = Listed
      BY <1>1, <2>2, SeenListed DEF Ready, Usual
    <3> QED
      BY <1>1, <3>1 DEF Disk, Store
  <2> QED
    BY <2>1, <2>2
<1>3. /\ layers \in Seq(Layer) /\ seq \in Nat /\ Typed(Table(hist, rdHist), seq)
      /\ FilesTyped(files, seq) /\ CacheSound
  BY <1>1 DEF ManifestInv, TypeInv, ReadInv, Basic, Ready, AllTyped
<1> QED
  BY <1>2, <1>3, GoodReads

(* What is left of the manifest's rows.                                    *)
LEMMA LeftRows ==
    worker.pc # "unlist" => Kept = AllRows(manifest)
BY DEF Kept, AllRows, RowsLeft, Rows

(* The rows are lists.                                                     *)
LEMMA RowLists ==
    ASSUME ManifestInv
    PROVE  /\ AllRows(manifest) \in Lists /\ manifest.next \in Int
           /\ \A n \in Nat : AllRows(manifest)[n] = Rows(n) /\ Rows(n) \in Seq(Reader)
<1>1. manifest \in Manifest
  BY DEF ManifestInv, TypeInv
<1> QED
  BY <1>1, ListsType, RowsType DEF Rows, Manifest

(* The listed tables are in the manifest; those of a table whose file is   *)
(* gone are the ones that are not listed.                                  *)
LEMMA ListedFacts ==
    ASSUME ManifestInv, Books, Replacing
    PROVE  /\ Kept \in Lists /\ Identified(Kept, manifest.next)
           /\ Listed \subseteq View(AllRows(manifest))
           /\ worker.pc # "unlist" => Listed = View(AllRows(manifest))
           /\ worker.pc = "unlist" =>
                 \/ Without(Rows(First.layer), First.id) = Rows(First.layer)
                       /\ Kept = AllRows(manifest)
                 \/ /\ Leaves(AllRows(manifest), Kept, First.layer, First.id)
                    /\ Listed = {p \in View(AllRows(manifest)) : p[2] # First.name}
                    /\ \E p \in View(AllRows(manifest)) : p[2] = First.name
<1>1. AllRows(manifest) \in Lists /\ manifest.next \in Int /\ \A n \in Nat : Rows(n) \in Seq(Reader)
  BY RowLists
<1>2. Identified(AllRows(manifest), manifest.next)
  BY DEF Books
<1>3. CASE worker.pc # "unlist"
  BY <1>1, <1>2, <1>3, LeftRows DEF Listed
<1>4. CASE worker.pc = "unlist"
  <2>1. worker.inputs # <<>> /\ WorkerInv
    BY <1>4 DEF ManifestInv, TypeInv, WorkerInv
  <2>2. /\ First \in Reader /\ First.layer \in Nat /\ First = worker.inputs[1]
        /\ Len(worker.inputs) \in Nat \ {0}
    BY <2>1, FirstType
  <2>3. PICK g : g = AllRows(manifest)
    OBVIOUS
  <2>4. PICK l, id : l \in Nat /\ l = First.layer /\ id = First.id
    BY <2>2
  <2>5. \A n \in Nat : Kept[n] = IF n = l THEN Without(Rows(l), id) ELSE Rows(n)
    BY <1>4, <2>4 DEF Kept, RowsLeft
  <2>6. Kept \in Lists
    <3>1. Without(Rows(l), id) \in Seq(Reader)
      BY <1>1, <2>4, WithoutFacts
    <3>2. \A n \in Nat : RowsLeft(n) \in Seq(Reader)
      BY <1>1, <2>4, <3>1 DEF RowsLeft
    <3> QED
      BY <3>2 DEF Kept, Lists
  <2>7. CASE Without(Rows(l), id) = Rows(l)
    <3>1. Kept = AllRows(manifest)
      BY <2>4, <2>7 DEF Kept, AllRows, RowsLeft, Rows
    <3> QED
      BY <1>1, <1>2, <1>4, <2>4, <2>7, <3>1 DEF Listed
  <2>8. CASE Without(Rows(l), id) # Rows(l)
    <3>1. \E k \in 1 .. Len(Rows(l)) : Rows(l)[k].id = id
      BY <1>1, <2>8, WithoutAbsent
    <3>2. g[l] = Rows(l) /\ \A n \in Nat : g[n] = Rows(n)
      BY <2>3, <2>4, RowLists
    <3>3. Leaves(g, Kept, l, id)
      BY <2>4, <2>5, <3>1, <3>2 DEF Leaves
    <3>4. PICK nm : nm = First.name
      OBVIOUS
    <3>5. nm[2] = id /\ \A k \in 1 .. Len(g[l]) : g[l][k].id = id => g[l][k].name = nm
      <4>1. 1 \in 1 .. Len(worker.inputs) /\ worker.inputs[1] = First
        BY <2>2
      <4>2. worker.inputs[1].id = worker.inputs[1].name[2]
        BY <2>1, <4>1 DEF Replacing, Named
      <4>3. \A k \in 1 .. Len(Rows(l)) :
               Rows(l)[k].id = worker.inputs[1].id => Rows(l)[k].name = worker.inputs[1].name
        BY <2>1, <2>4, <4>1 DEF Replacing
      <4> QED
        BY <2>4, <3>2, <3>4, <4>1, <4>2, <4>3
    <3>6. View(Kept) = {p \in View(g) : p[2] # nm} /\ Identified(Kept, manifest.next)
      <4>1. PICK top : top = manifest.next
        OBVIOUS
      <4>2. g \in Lists /\ Identified(g, top)
        BY <1>1, <1>2, <2>3, <4>1
      <4>3. View(Kept) = {p \in View(g) : p[2] # nm} /\ Identified(Kept, top)
        BY ONLY <2>4, <2>6, <3>3, <3>5, <4>2, ViewLeaves
      <4> QED
        BY <4>1, <4>3
    <3>7. \E p \in View(g) : p[2] = nm
      <4>1. PICK k \in 1 .. Len(g[l]) : g[l][k].id = id
        BY <3>1, <3>2
      <4>2. <<l, g[l][k].name>> \in View(g) /\ g[l][k].name = nm
        BY <2>4, <3>5, <4>1, ViewElement
      <4> QED
        BY <4>2
    <3> QED
      BY <1>4, <2>3, <2>4, <2>6, <3>3, <3>4, <3>6, <3>7 DEF Listed
  <2> QED
    BY <2>7, <2>8
<1> QED
  BY <1>3, <1>4

(* Where the listed tables are: each at its number, which is not new.      *)
LEMMA ListedPlaces ==
    ASSUME ManifestInv, Books, Replacing
    PROVE  /\ Listed \subseteq Places
           /\ \A p \in Listed : p[1] < MaxHeight /\ p[2][2] < manifest.next
           /\ \A p \in Listed : stray = "none" => p[2][1] = p[1]
           /\ \A p, q \in Listed : p[2][2] = q[2][2] => p = q
<1>1. /\ Kept \in Lists /\ Identified(Kept, manifest.next)
      /\ Listed \subseteq View(AllRows(manifest))
  BY ListedFacts
<1>2. PICK top : top = manifest.next
  OBVIOUS
<1>3. /\ Listed \subseteq Places /\ \A p \in Listed : p[2][2] < top
      /\ \A p, q \in Listed : p[2][2] = q[2][2] => p = q
  <2>1. Kept \in Lists /\ Identified(Kept, top)
    BY <1>1, <1>2
  <2>2. PICK g : g = Kept
    OBVIOUS
  <2>3. /\ View(g) \subseteq Places /\ \A p \in View(g) : p[2][2] < top
        /\ \A p, q \in View(g) : p[2][2] = q[2][2] => p = q
    BY <2>1, <2>2, ViewFacts
  <2> QED
    BY <2>2, <2>3 DEF Listed
<1> QED
  BY <1>1, <1>2, <1>3 DEF Books

(* Records stay typed when sequence numbers go on.                         *)
LEMMA FilesLater ==
    ASSUME NEW fs, NEW s \in Nat, NEW n \in Nat, s <= n, FilesTyped(fs, s)
    PROVE  FilesTyped(fs, n)
BY TypedLater DEF FilesTyped

(* No records.                                                             *)
LEMMA IdleTyped ==
    \A s : Typed(Idle.content, s)
BY DEF Idle, Table, Typed, Tombs

(* What is no longer part of an invariant that has become vacuous.         *)
LEMMA NothingWritten ==
    worker.pc \in {"idle", "compact"} /\ worker.inputs = <<>> => Writing /\ Replacing
BY DEF Writing, Replacing

-----------------------------------------------------------------------------
(* Steps the actions have in common.                                       *)

(* All files can be opened: they are then the listed ones.                 *)
LEMMA NamesListed ==
    ASSUME ManifestInv, Books, Disk, Replacing, status = "up", stray = "none", Opens(files, Names)
    PROVE  Names = Listed
<1>1. \A p \in Listed : p \in Places /\ p[2][1] = p[1] /\ p[2] \in DOMAIN files
  BY ListedPlaces DEF Disk, Opens
<1>2. ASSUME NEW p \in Listed PROVE p \in Names
  <2>1. p = <<p[1], p[2]>> /\ p[2] \in DOMAIN files /\ p[2][1] = p[1]
    BY <1>1 DEF Places
  <2> QED
    BY <2>1 DEF Names
<1>3. ASSUME NEW p \in Names PROVE p \in Listed
  <2>1. PICK n \in DOMAIN files : p = <<n[1], n>>
    BY DEF Names
  <2>2. p[2] = n
    BY <2>1
  <2> QED
    BY <2>1, <2>2 DEF Opens, Disk
<1> QED
  BY <1>2, <1>3

(* What a rebuilt manifest would give, where all files can be opened.      *)
LEMMA RebuildsWell ==
    ASSUME ManifestInv, Books, Disk, Store, Writing, Replacing,
           status = "up", stray = "none", NEW fs, fs = Finished,
           NEW V, V = {<<n[1], n>> : n \in DOMAIN fs}, Opens(fs, V),
           NEW Q, Q = Past \cup UNION {Marks(fs[n]) : n \in {f \in DOMAIN fs : f[1] = 0}}
    PROVE  /\ Good(strategy, Q, fs, V)
           /\ \A a, b \in DOMAIN fs : a[2] = b[2] => a = b
           /\ \A a \in DOMAIN fs : a[1] < MaxHeight
<1>1. /\ DOMAIN files \in SUBSET (Nat \X Nat) /\ manifest.next \in Int
      /\ \A p \in Listed : /\ p \in Places /\ p[1] < MaxHeight /\ p[2][2] < manifest.next
                           /\ p[2][1] = p[1] /\ p[2] \in DOMAIN files
      /\ \A p, q \in Listed : p[2][2] = q[2][2] => p = q
  BY RowLists, ListedPlaces DEF ManifestInv, TypeInv, FilesInv, Disk, Opens
<1>2. \A n \in DOMAIN files : files[n] = Partial \/ <<n[1], n>> \in Listed
  BY DEF Disk
<1>3. PICK x : x = IF worker.inputs = <<>> THEN Past \cup Marks(worker.content) ELSE Past
  OBVIOUS
<1>4. CASE worker.pc # "add"
  <2>1. fs = files /\ V = Names
    BY <1>4 DEF Finished, Names
  <2>2. V = Listed
    BY <2>1, NamesListed
  <2>3. Good(strategy, Past, fs, V)
    BY <2>1, <2>2 DEF Store
  <2>4. \A n \in DOMAIN fs : <<n[1], n>> \in Listed
    BY <2>2
  <2>5. \A n \in DOMAIN fs : Marks(fs[n]) \subseteq Past
    <3>1. ASSUME NEW n \in DOMAIN fs PROVE Marks(fs[n]) \subseteq Past
      <4>1. PICK p \in V : p = <<n[1], n>>
        BY <2>2, <2>4
      <4>2. p[2] = n
        BY <4>1
      <4> QED
        BY <2>3, <4>2 DEF Good
    <3> QED
      BY <3>1
  <2>6. Q = Past
    BY <2>5
  <2>7. ASSUME NEW a \in DOMAIN fs PROVE a[1] < MaxHeight
    <3>1. PICK p \in Listed : p = <<a[1], a>>
      BY <2>4
    <3> QED
      BY <1>1, <3>1
  <2>8. ASSUME NEW a \in DOMAIN fs, NEW b \in DOMAIN fs, a[2] = b[2] PROVE a = b
    <3>1. PICK p \in Listed : p = <<a[1], a>>
      BY <2>4
    <3>2. PICK q \in Listed : q = <<b[1], b>>
      BY <2>4
    <3>3. p[2] = a /\ q[2] = b
      BY <3>1, <3>2
    <3>4. p = q
      BY <1>1, <2>8, <3>3
    <3> QED
      BY <3>3, <3>4
  <2> QED
    BY <2>3, <2>6, <2>7, <2>8
<1>5. CASE worker.pc = "add"
  <2>1. /\ manifest.next <= worker.id /\ Name \in DOMAIN files /\ worker.to < MaxHeight
        /\ worker.inputs = <<>> => worker.to = 0
        /\ Good(strategy, x, fs, Coming)
    BY <1>3, <1>5 DEF Writing, Future
  <2>2. /\ fs = [files EXCEPT ![Name] = worker.content] /\ Coming = Listed \cup {Place}
        /\ worker.to \in Nat /\ worker.id \in Nat
        /\ Name = <<worker.to, worker.id>> /\ Place = <<worker.to, Name>>
    BY <1>5 DEF Finished, Coming, ManifestInv, TypeInv, WorkerInv, Name, Place
  <2>. HIDE DEF Name, Place
  <2>3. DOMAIN fs = DOMAIN files /\ fs[Name] = worker.content
        /\ \A n \in DOMAIN fs : n # Name => fs[n] = files[n]
    BY <2>1, <2>2
  <2>4. Name[1] = worker.to /\ Name[2] = worker.id /\ Place[2] = Name /\ Place[1] = worker.to
        /\ Place = <<Name[1], Name>>
    BY <2>2
  <2>5. ASSUME NEW n \in DOMAIN fs PROVE <<n[1], n>> \in Coming
    <3>1. CASE n = Name
      BY <2>2, <2>4, <3>1
    <3>2. CASE n # Name
      <4>1. fs[n] # Partial
        <5>1. PICK p \in V : p = <<n[1], n>>
          OBVIOUS
        <5>2. p[2] = n
          BY <5>1
        <5> QED
          BY <5>2 DEF Opens
      <4> QED
        BY <1>2, <2>2, <2>3, <3>2, <4>1
    <3> QED
      BY <3>1, <3>2
  <2>6. ASSUME NEW p \in Coming PROVE p \in V
    <3>1. CASE p = Place
      BY <2>1, <2>3, <2>4, <3>1
    <3>2. CASE p \in Listed
      <4>1. p = <<p[1], p[2]>> /\ p[2] \in DOMAIN fs /\ p[2][1] = p[1]
        BY <1>1, <2>3, <3>2 DEF Places
      <4> QED
        BY <4>1
    <3> QED
      BY <2>2, <3>1, <3>2
  <2>7. V = Coming
    BY <2>5, <2>6
  <2>8. \A n \in DOMAIN fs : Marks(fs[n]) \subseteq x
    <3>1. ASSUME NEW n \in DOMAIN fs PROVE Marks(fs[n]) \subseteq x
      <4>1. PICK p \in Coming : p = <<n[1], n>>
        BY <2>5
      <4>2. p[2] = n
        BY <4>1
      <4> QED
        BY <2>1, <4>2 DEF Good
    <3> QED
      BY <3>1
  <2>9. Q = x
    <3>1. Q \subseteq x
      BY <1>3, <2>8
    <3>2. worker.inputs = <<>> => Marks(worker.content) \subseteq Q
      <4>1. worker.inputs = <<>> => Name \in {f \in DOMAIN fs : f[1] = 0}
        BY <2>1, <2>3, <2>4
      <4> QED
        BY <2>3, <4>1
    <3> QED
      BY <1>3, <3>1, <3>2
  <2>10. ASSUME NEW a \in DOMAIN fs
         PROVE  a = Name \/ \E p \in Listed : p[2] = a
    <3>1. PICK p \in Coming : p = <<a[1], a>>
      BY <2>5
    <3>2. p[2] = a
      BY <3>1
    <3> QED
      BY <2>2, <2>4, <3>2
  <2>11. ASSUME NEW a \in DOMAIN fs PROVE a[1] < MaxHeight
    BY <1>1, <2>1, <2>4, <2>10
  <2>12. \A p \in Listed : p[2][2] < worker.id /\ p[2][2] # worker.id
    BY <1>1, <2>1, <2>2 DEF Places
  <2>13. ASSUME NEW a \in DOMAIN fs, NEW b \in DOMAIN fs, a[2] = b[2] PROVE a = b
    BY <1>1, <2>4, <2>10, <2>12, <2>13
  <2> QED
    BY <2>1, <2>7, <2>9, <2>11, <2>13
<1> QED
  BY <1>4, <1>5

(* The process ends: as it was, with a finished table, or with one that    *)
(* cannot be opened.                                                       *)
LEMMA DownReads ==
    ASSUME ManifestInv, Basic, Ready, status = "up", failure # "misplaced", stray # "listed",
           Die, UNCHANGED manifest, failure' # "misplaced", FilesTyped(files', seq),
           \A n \in DOMAIN files : n \in DOMAIN files'
           /\ (n[2] < manifest.next => files'[n] = files[n]),
           \/ files' = files
           \/ worker.pc = "add" /\ files' = Finished
           \/ worker.pc # "unlist" /\ \E n \in DOMAIN files' : files'[n] = Partial
    PROVE  ReadInv'
<1>1. /\ status' = "down" /\ worker' = Idle /\ frags' = [val |-> {}, dirty |-> FALSE]
      /\ UNCHANGED <<strategy, seq, hist, rdHist, stray, manifest>>
  BY DEF Die
<1>2. AllTyped /\ Usual
  BY DEF Ready
<1>3. Books /\ Disk /\ Store /\ Writing /\ Replacing
  BY <1>2 DEF Usual
<1>4. worker'.pc = "idle" /\ worker'.inputs = <<>> /\ (worker'.pc = "idle" => worker' = Idle)
  BY <1>1, IdleContent
<1>5. Basic'
  BY <1>1, <1>4 DEF Basic
<1>6. AllTyped' /\ CacheSound'
  <2>1. Typed(worker'.content, seq)
    BY <1>1, IdleTyped
  <2> QED
    BY <1>1, <1>2, <2>1 DEF AllTyped, CacheSound, MuFree
<1>7. Books'
  BY <1>1, <1>3 DEF Books
<1>8. Disk' /\ Writing' /\ Replacing'
  BY <1>1, <1>4 DEF Disk, Writing, Replacing
<1>. DEFINE A == View(AllRows(manifest))
<1>9. Listed' = A /\ Past' = Past
  <2>1. Kept' = AllRows(manifest)
    BY <1>1, <1>4 DEF Kept, AllRows, RowsLeft, Rows
  <2> QED
    BY <1>1, <2>1 DEF Listed, Past
<1>10. ASSUME Opens(files', A) PROVE Listed = A
  <2>1. CASE Listed = A
    BY <2>1
  <2>2. CASE Listed # A
    <3>1. /\ worker.pc = "unlist" /\ \E p \in A : p[2] = First.name
          /\ Without(Rows(First.layer), First.id) # Rows(First.layer)
      <4>1. CASE worker.pc # "unlist"
        BY <1>3, <2>2, <4>1, ListedFacts
      <4>2. CASE worker.pc = "unlist"
        <5>1. worker.inputs # <<>> /\ First.layer \in Nat
          BY <4>2, FirstType DEF ManifestInv, TypeInv, WorkerInv
        <5>2. Kept # AllRows(manifest)
          BY <2>2 DEF Listed
        <5>3. \A n \in Nat : AllRows(manifest)[n] = Rows(n) /\ Rows(n) \in Seq(Reader)
          BY RowLists
        <5>4. Leaves(AllRows(manifest), Kept, First.layer, First.id)
                 /\ \E p \in A : p[2] = First.name
          BY <1>3, <4>2, <5>2, ListedFacts
        <5>5. PICK s, id : s \in Seq(Reader) /\ s = Rows(First.layer) /\ id = First.id
          BY <5>1, <5>3
        <5>6. \E k \in 1 .. Len(s) : s[k].id = id
          BY <5>1, <5>3, <5>4, <5>5 DEF Leaves
        <5>7. Without(s, id) # s
          BY <5>5, <5>6, WithoutFacts
        <5> QED
          BY <4>2, <5>4, <5>5, <5>7
      <4> QED
        BY <4>1, <4>2
    <3>2. worker.inputs # <<>>
      BY <3>1 DEF ManifestInv, TypeInv, WorkerInv
    <3>3. First.name \notin DOMAIN files /\ files' = files
      BY <1>3, <3>1, <3>2 DEF Replacing
    <3> QED
      BY <1>10, <3>1, <3>3 DEF Opens
  <2> QED
    BY <2>1, <2>2
<1>11. Store'
  <2>1. ASSUME Opens(files', A) PROVE Good(strategy, Past, files', A)
    <3>1. Listed = A
      BY <1>10, <2>1
    <3>2. Good(strategy, Past, files, A) /\ Opens(files, A)
      BY <1>3, <3>1 DEF Disk, Store
    <3>3. \A p \in A : p[2][2] < manifest.next
      BY <1>3, <3>1, ListedPlaces
    <3>4. \A p \in A : files'[p[2]] = files[p[2]]
      BY <3>2, <3>3 DEF Opens
    <3>. HIDE DEF A
    <3> QED
      BY <3>2, <3>4, GoodFiles
  <2> QED
    BY <1>1, <1>9, <2>1 DEF Store
<1>12. Rebuilding'
  <2>1. ASSUME stray = "none", Opens(files', Names')
        PROVE  /\ Good(strategy, Rebuilt', files', Names')
               /\ \A a, b \in DOMAIN files' : a[2] = b[2] => a = b
               /\ \A a \in DOMAIN files' : a[1] < MaxHeight
    <3>1. ~\E n \in DOMAIN files' : files'[n] = Partial
      <4>1. ASSUME NEW n \in DOMAIN files', files'[n] = Partial PROVE FALSE
        <5>1. PICK p \in Names' : p = <<n[1], n>>
          BY DEF Names
        <5>2. p[2] = n
          BY <5>1
        <5> QED
          BY <2>1, <4>1, <5>2 DEF Opens
      <4> QED
        BY <4>1
    <3>2. files' = Finished
      <4>1. CASE files' = files /\ worker.pc = "add"
        <5>1. Name \in DOMAIN files /\ manifest.next <= Name[2]
          BY <1>3, <4>1 DEF Writing, Name
        <5>2. files[Name] = Partial \/ <<Name[1], Name>> \in Listed
          BY <1>3, <2>1, <5>1 DEF Disk
        <5>3. <<Name[1], Name>> \notin Listed
          <6>1. \A p \in Listed : p[2][2] < manifest.next /\ p \in Places
            BY <1>3, ListedPlaces
          <6>2. ASSUME NEW p \in Listed, p = <<Name[1], Name>> PROVE FALSE
            <7>1. p[2] = Name /\ manifest.next \in Int /\ p[2][2] \in Nat
              BY <6>1, <6>2, RowLists DEF Places
            <7> QED
              BY <5>1, <6>1, <7>1
          <6> QED
            BY <6>2
        <5> QED
          BY <3>1, <4>1, <5>1, <5>2, <5>3
      <4>2. CASE files' = files /\ worker.pc # "add"
        BY <4>2 DEF Finished
      <4> QED
        BY <3>1, <4>1, <4>2
    <3>3. PICK fs, V, Q : fs = files' /\ V = Names' /\ Q = Rebuilt'
      OBVIOUS
    <3>4. /\ fs = Finished /\ V = {<<n[1], n>> : n \in DOMAIN fs} /\ Opens(fs, V)
          /\ Q = Past \cup UNION {Marks(fs[n]) : n \in {f \in DOMAIN fs : f[1] = 0}}
      BY <1>9, <2>1, <3>2, <3>3 DEF Names, Rebuilt
    <3>5. /\ Good(strategy, Q, fs, V)
          /\ \A a, b \in DOMAIN fs : a[2] = b[2] => a = b
          /\ \A a \in DOMAIN fs : a[1] < MaxHeight
      BY <1>3, <2>1, <3>4, RebuildsWell
    <3> QED
      BY <3>3, <3>5
  <2> QED
    BY <1>1, <2>1 DEF Rebuilding
<1>13. Usual'
  BY <1>7, <1>8, <1>11, <1>12 DEF Usual
<1> QED
  BY <1>5, <1>6, <1>13 DEF ReadInv, Ready

(* No table is listed or deleted: the places stay as they were.            *)
LEMMA QuietPlaces ==
    ASSUME worker.pc # "unlist", worker'.pc # "unlist", UNCHANGED <<manifest, hist, rdHist>>
    PROVE  Listed' = Listed /\ Past' = Past
<1>1. Kept = AllRows(manifest) /\ Kept' = AllRows(manifest)
  BY DEF Kept, AllRows, RowsLeft, Rows
<1> QED
  BY <1>1 DEF Listed, Past

(* A step that lists and deletes nothing; it may begin a file with a new   *)
(* number.                                                                 *)
LEMMA QuietReads ==
    ASSUME ManifestInv, Basic, Ready, status = "up", failure # "misplaced", stray # "listed",
           worker.pc \in {"idle", "compact"}, worker'.pc \in {"idle", "compact", "add"},
           UNCHANGED <<strategy, status, manifest, failure, hist, rdHist, stray>>,
           \A n \in Nat : Tabs(layers', n) = Tabs(layers, n),
           nextId' \in Nat, nextId <= nextId', seq' \in Nat, seq <= seq',
           files' = files \/ \E a : files' = Written(files, <<a, nextId>>, Partial),
           frags' = frags \/ CacheSound',
           Typed(worker'.content, seq'), worker'.pc = "idle" => worker' = Idle,
           Writing', Replacing'
    PROVE  ReadInv'
<1>1. AllTyped /\ CacheSound /\ Books /\ Disk /\ Store /\ Replacing /\ seq \in Nat
  BY DEF Ready, Usual, Basic
<1>2. worker.pc # "unlist" /\ worker'.pc # "unlist" /\ status' = "up"
  OBVIOUS
<1>3. Listed' = Listed /\ Past' = Past /\ Seen' = Seen /\ Seen = Listed
  <2>1. AllTabs(layers') = AllTabs(layers)
    BY DEF AllTabs
  <2>2. Listed' = Listed /\ Past' = Past
    BY <1>2, QuietPlaces
  <2> QED
    BY <2>1, <2>2, SeenListed DEF Seen
<1>4. \A p \in Listed : /\ p[2] \in DOMAIN files /\ files[p[2]] # Partial
                        /\ p[2] \in DOMAIN files' /\ files'[p[2]] = files[p[2]]
  <2>1. ASSUME NEW p \in Listed PROVE p[2][2] # nextId
    <3>1. p[2][2] < manifest.next /\ p \in Places /\ manifest.next <= nextId
      BY <1>1, ListedPlaces DEF Disk
    <3>2. p[2][2] \in Nat /\ manifest.next \in Int /\ nextId \in Nat
      BY <3>1, RowLists DEF Places, ManifestInv, TypeInv
    <3> QED
      BY <3>1, <3>2
  <2>2. \A p \in Listed : p[2] \in DOMAIN files /\ files[p[2]] # Partial
    BY <1>1 DEF Disk, Opens
  <2>3. CASE files' = files
    BY <2>2, <2>3
  <2>4. CASE \E a : files' = Written(files, <<a, nextId>>, Partial)
    <3>1. PICK a : files' = Written(files, <<a, nextId>>, Partial)
      BY <2>4
    <3>2. \A p \in Listed : p[2] # <<a, nextId>>
      BY <2>1
    <3> QED
      BY <2>2, <3>1, <3>2 DEF Written
  <2> QED
    BY <2>3, <2>4
<1>5. \A n \in DOMAIN files' : files'[n] = Partial \/ (n \in DOMAIN files /\ files'[n] = files[n])
  <2>1. CASE files' = files
    BY <2>1
  <2>2. CASE \E a : files' = Written(files, <<a, nextId>>, Partial)
    <3>1. PICK a : files' = Written(files, <<a, nextId>>, Partial)
      BY <2>2
    <3>2. PICK b, gs : b = <<a, nextId>> /\ gs = files'
      OBVIOUS
    <3>3. gs = [n \in DOMAIN files \cup {b} |-> IF n = b THEN Partial ELSE files[n]]
      BY <3>1, <3>2 DEF Written
    <3>4. \A n \in DOMAIN gs : gs[n] = Partial \/ (n \in DOMAIN files /\ gs[n] = files[n])
      BY ONLY <3>3
    <3> QED
      BY <3>2, <3>4
  <2> QED
    BY <2>1, <2>2
<1>6. Basic'
  BY <1>2 DEF Basic
<1>7. AllTyped'
  <2>1. FilesTyped(files, seq')
    BY <1>1, FilesLater DEF AllTyped
  <2>2. FilesTyped(files', seq')
    BY <1>5, <2>1 DEF FilesTyped
  <2>3. Typed(Table(hist, rdHist), seq')
    BY <1>1, TypedLater DEF AllTyped
  <2> QED
    BY <2>2, <2>3 DEF AllTyped
<1>8. CacheSound'
  <2>1. CASE CacheSound'
    BY <2>1
  <2>2. CASE frags' = frags
    <3>1. UNION {files'[p[2]].rds : p \in Seen} = UNION {files[p[2]].rds : p \in Seen}
      <4>1. {files'[p[2]].rds : p \in Seen} = {files[p[2]].rds : p \in Seen}
        BY <1>3, <1>4
      <4> QED
        BY <4>1
    <3>2. MuFree
      BY DEF MuFree
    <3> QED
      BY <1>1, <1>3, <2>2, <3>1, <3>2 DEF CacheSound
  <2> QED
    BY <2>1, <2>2
<1>9. Books'
  BY <1>1 DEF Books
<1>10. Disk'
  <2>1. manifest.next <= nextId'
    <3>1. manifest.next <= nextId /\ manifest.next \in Int /\ nextId \in Nat
      BY <1>1, RowLists DEF Disk, ManifestInv, TypeInv
    <3> QED
      BY <3>1
  <2>2. Opens(files', Listed)
    BY <1>4 DEF Opens
  <2>3. stray = "none" => \A n \in DOMAIN files' : files'[n] = Partial \/ <<n[1], n>> \in Listed
    BY <1>1, <1>5 DEF Disk
  <2> QED
    BY <1>3, <2>1, <2>2, <2>3 DEF Disk
<1>11. Store'
  <2>1. PICK P, fs, gs, V : P = Past /\ fs = files /\ gs = files' /\ V = Listed
    OBVIOUS
  <2>2. Good(strategy, P, fs, V) /\ \A p \in V : gs[p[2]] = fs[p[2]]
    BY <1>1, <1>4, <2>1 DEF Disk, Store
  <2>3. Good(strategy, P, gs, V)
    BY ONLY <2>2, GoodFiles
  <2> QED
    BY <1>3, <2>1, <2>3 DEF Store
<1>12. Rebuilding'
  BY <1>2 DEF Rebuilding
<1> QED
  BY <1>6, <1>7, <1>8, <1>9, <1>10, <1>11, <1>12 DEF ReadInv, Ready, Usual

(* The worker after a round of the loop of Compact.                        *)
LEMMA LoopWorker ==
    ASSUME NEW ls, NEW i, GoOn(ls, i)
    PROVE  /\ worker'.pc \in {"idle", "compact"} /\ worker'.inputs = <<>> /\ layers' = ls
           /\ worker'.content = Idle.content /\ (worker'.pc = "idle" => worker' = Idle)
<1>1. layers' = ls /\ (worker' = Idle \/ worker' = [Idle EXCEPT !.pc = "compact", !.i = i])
  BY DEF GoOn
<1>2. CASE worker' = Idle
  BY <1>1, <1>2, IdleContent
<1>3. CASE worker' = [Idle EXCEPT !.pc = "compact", !.i = i]
  <2>1. worker' = [pc |-> "compact", i |-> i, id |-> 0, to |-> 0,
                   content |-> Table({}, {}), inputs |-> <<>>]
    BY <1>3 DEF Idle
  <2>2. Idle.content = Table({}, {})
    BY DEF Idle
  <2> QED
    BY <1>1, <2>1, <2>2
<1> QED
  BY <1>1, <1>2, <1>3

(* The loop of Compact goes on.                                            *)
LEMMA OnwardReads ==
    ASSUME ManifestInv, Basic, Ready, status = "up", failure # "misplaced", stray # "listed",
           worker.pc \in {"idle", "compact"},
           UNCHANGED <<strategy, status, manifest, failure, hist, rdHist, stray, frags>>,
           NEW ls, NEW i, GoOn(ls, i), \A n \in Nat : Tabs(ls, n) = Tabs(layers, n),
           nextId' \in Nat, nextId <= nextId', seq' \in Nat, seq <= seq',
           files' = files \/ \E a : files' = Written(files, <<a, nextId>>, Partial)
    PROVE  ReadInv'
<1>1. /\ worker'.pc \in {"idle", "compact"} /\ worker'.inputs = <<>> /\ layers' = ls
      /\ worker'.content = Idle.content /\ (worker'.pc = "idle" => worker' = Idle)
  BY LoopWorker
<1>2. Writing' /\ Replacing' /\ Typed(worker'.content, seq')
  BY <1>1, IdleTyped DEF Writing, Replacing
<1>3. \A n \in Nat : Tabs(layers', n) = Tabs(layers, n)
  BY <1>1
<1> QED
  BY <1>1, <1>2, <1>3, QuietReads

-----------------------------------------------------------------------------
(* Merges.                                                                 *)

(* What tables say together.                                               *)
LEMMA MarksTogether ==
    ASSUME NEW X, NEW R, R = UNION {C.recs : C \in X}, NEW D, D = UNION {C.rds : C \in X}
    PROVE  /\ Marks(Table(R, D)) = UNION {Marks(C) : C \in X}
           /\ \A k : Has(Table(R, D), k) <=> \E C \in X : Has(C, k)
<1>1. Table(R, D).recs = R /\ Table(R, D).rds = D
  BY DEF Table
<1>2. ASSUME NEW m \in Marks(Table(R, D)) PROVE \E C \in X : m \in Marks(C)
  <2>1. \/ \E r \in R : m = Mark(r.key, r.seq, KindOf(r))
        \/ \E d \in D : \E k \in Keys : Covers(d, k) /\ m = Mark(k, d.seq, "rng")
    BY <1>1, MarkFacts
  <2>2. CASE \E r \in R : m = Mark(r.key, r.seq, KindOf(r))
    BY <2>2 DEF Marks
  <2>3. CASE \E d \in D : \E k \in Keys : Covers(d, k) /\ m = Mark(k, d.seq, "rng")
    <3>1. PICK C \in X : \E d \in C.rds : \E k \in Keys : Covers(d, k) /\ m = Mark(k, d.seq, "rng")
      BY <2>3
    <3> QED
      BY <3>1 DEF Marks
  <2> QED
    BY <2>1, <2>2, <2>3
<1>3. ASSUME NEW C \in X, NEW m \in Marks(C) PROVE m \in Marks(Table(R, D))
  <2>1. \/ \E r \in C.recs : m = Mark(r.key, r.seq, KindOf(r))
        \/ \E d \in C.rds : \E k \in Keys : Covers(d, k) /\ m = Mark(k, d.seq, "rng")
    BY DEF Marks
  <2>2. \/ \E r \in R : m = Mark(r.key, r.seq, KindOf(r))
        \/ \E d \in D : \E k \in Keys : Covers(d, k) /\ m = Mark(k, d.seq, "rng")
    BY <2>1
  <2> QED
    BY <1>1, <2>2 DEF Marks
<1>4. Marks(Table(R, D)) = UNION {Marks(C) : C \in X}
  BY <1>2, <1>3
<1>5. \A k : Has(Table(R, D), k) <=> \E C \in X : Has(C, k)
  BY <1>1 DEF Has
<1> QED
  BY <1>4, <1>5

(* What tables of known records say together is known.                     *)
LEMMA TypedTogether ==
    ASSUME NEW X, NEW s \in Nat, \A C \in X : Typed(C, s),
           NEW R, R = UNION {C.recs : C \in X}, NEW D, D = UNION {C.rds : C \in X}
    PROVE  Typed(Table(R, D), s)
<1>1. Table(R, D).recs = R /\ Table(R, D).rds = D
  BY DEF Table
<1> QED
  BY <1>1 DEF Typed, Tombs

(* The table C at the place r is the merge of the tables in, which are at  *)
(* places of V; no table keeps an older version of an answer it gives up.  *)
Merging(P, fs, V, s, skip, in, R, D, C, r, fs2) ==
    /\ Good(strategy, P, fs, V) /\ Opens(fs, V) /\ s \in Nat /\ FilesTyped(fs, s)
    /\ skip \in BOOLEAN /\ \A j \in 1 .. Len(in) : \E p \in V : p[2] = in[j].name
    /\ R = UNION {fs[in[j].name].recs : j \in 1 .. Len(in)}
    /\ D = UNION {fs[in[j].name].rds : j \in 1 .. Len(in)}
    /\ C = Replacement(R, D, skip)
    /\ fs2[r[2]] = C /\ \A p \in V : p[2] # r[2] /\ fs2[p[2]] = fs[p[2]]
    /\ \A j \in 1 .. Len(in), p \in V, n \in V, T \in Answers(strategy, P) :
          /\ p[2] = in[j].name /\ T \in Marks(fs[p[2]])
          /\ Has(fs[n[2]], T.key) /\ Follows(strategy, p, n) /\ n # p
          => \/ \E a \in 1 .. j - 1 : in[a].name = n[2]
             \/ ~skip /\ Follows(strategy, r, n)
    /\ \A j \in 1 .. Len(in), p \in V, m \in V :
          p[2] = in[j].name /\ Follows(strategy, m, p) =>
             (\E a \in 1 .. Len(in) : in[a].name = m[2]) \/ Follows(strategy, m, r)

(* The new table belongs to the others, and the inputs may be deleted one  *)
(* by one.                                                                 *)
LEMMA MergeGood ==
    ASSUME NEW P, NEW fs, NEW V, NEW s, NEW skip, NEW in, NEW R, NEW D, NEW C, NEW r, NEW fs2,
           Merging(P, fs, V, s, skip, in, R, D, C, r, fs2)
    PROVE  /\ Typed(C, s) /\ Good(strategy, P, fs2, V \cup {r})
           /\ Replaces(strategy, P, fs2, V \cup {r}, r, in)
<1>. DEFINE I == {p \in V : \E j \in 1 .. Len(in) : in[j].name = p[2]}
            X == {fs[in[j].name] : j \in 1 .. Len(in)}
<1>. USE DEF Merging
<1>1. R = UNION {c.recs : c \in X} /\ D = UNION {c.rds : c \in X}
  OBVIOUS
<1>2. \A c \in X : Typed(c, s) /\ Marks(c) \subseteq P
  BY DEF Opens, FilesTyped, Good
<1>3. \A c \in X : \E p \in I : c = fs[p[2]]
  OBVIOUS
<1>4. \A p \in I : fs[p[2]] \in X
  OBVIOUS
<1>. HIDE DEF X
<1>5. Typed(Table(R, D), s)
  BY <1>1, <1>2, TypedTogether
<1>6. /\ Marks(Table(R, D)) = UNION {Marks(c) : c \in X}
      /\ \A k : Has(Table(R, D), k) <=> \E c \in X : Has(c, k)
  BY <1>1, MarksTogether
<1>7. Marks(Table(R, D)) \subseteq P
  BY <1>2, <1>6
<1>8. /\ Typed(C, s) /\ Marks(C) \subseteq Marks(Table(R, D))
      /\ \A k : Has(C, k) => Has(Table(R, D), k)
  BY <1>5, MergedType
<1>9. ASSUME NEW T \in Answers(strategy, P), NEW p \in I, T \in Marks(fs[p[2]])
      PROVE  T \in Marks(C) \/ (skip /\ T.kind # "put" /\ ~Has(C, T.key))
  <2>1. T \in Marks(Table(R, D))
    BY <1>4, <1>6, <1>9
  <2>2. Consistent(P)
    BY DEF Good
  <2> QED
    BY <1>5, <1>7, <2>1, <2>2, MergedAnswers
<1>10. Good(strategy, P, fs2, V \cup {r})
  <2>1. Marks(fs2[r[2]]) \subseteq P
    BY <1>7, <1>8
  <2>2. \A k : Has(fs2[r[2]], k) => \E p \in I : Has(fs[p[2]], k)
    BY <1>3, <1>6, <1>8
  <2>3. \A T \in Answers(strategy, P), p \in I : T \in Marks(fs[p[2]]) =>
           T \in Marks(fs2[r[2]]) \/ ~Has(fs2[r[2]], T.key)
    BY <1>9
  <2>4. \A m \in V, p \in I : Follows(strategy, m, p) => m \in I \/ Follows(strategy, m, r)
    OBVIOUS
  <2>5. I \subseteq V
    OBVIOUS
  <2>. HIDE DEF I
  <2> QED
    BY <2>1, <2>2, <2>3, <2>4, <2>5, GoodMerge
<1>11. Replaces(strategy, P, fs2, V \cup {r}, r, in)
  <2>1. \A j \in 1 .. Len(in) : in[j].name # r[2]
    OBVIOUS
  <2>2. \A T \in Answers(strategy, P), p \in V : \A j \in 1 .. Len(in) :
           p[2] = in[j].name /\ T \in Marks(fs[p[2]]) =>
              \/ T \in Marks(fs2[r[2]])
              \/ skip /\ T.kind # "put" /\ ~Has(fs2[r[2]], T.key)
    <3>1. \A p \in V : \A j \in 1 .. Len(in) : p[2] = in[j].name => p \in I
      OBVIOUS
    <3>. HIDE DEF I
    <3> QED
      BY <1>9, <3>1
  <2>. HIDE DEF I
  <2> QED
    BY <2>1, <2>2, MergeReplaces
<1> QED
  BY <1>8, <1>10, <1>11

(* MergeSSTables begins a table that may replace its inputs, or fails.     *)
LEMMA MergeReads ==
    ASSUME ManifestInv, Basic, Ready, status = "up", failure # "misplaced", stray # "listed",
           worker.pc = "compact", NEW in \in Seq(Reader), Named(in),
           \A j \in 1 .. Len(in) : \E p \in Listed : p[2] = in[j].name,
           NEW to \in Nat, to < MaxHeight, NEW skip \in BOOLEAN,
           NEW ls, \A n \in Nat : Tabs(ls, n) = Tabs(layers, n),
           \A j \in 1 .. Len(in), p \in Listed, n \in Listed, T \in Answers(strategy, Past) :
              /\ p[2] = in[j].name /\ T \in Marks(files[p[2]])
              /\ Has(files[n[2]], T.key) /\ Follows(strategy, p, n) /\ n # p
              => \/ \E a \in 1 .. j - 1 : in[a].name = n[2]
                 \/ ~skip /\ (to < n[1] \/ (to = n[1] /\ Ordered(strategy, to))),
           \A j \in 1 .. Len(in), p \in Listed, m \in Listed :
              p[2] = in[j].name /\ Follows(strategy, m, p) =>
                 (\E a \in 1 .. Len(in) : in[a].name = m[2]) \/ m[1] < to,
           MergeSSTables(in, to, skip, ls)
    PROVE  ReadInv'
<1>1. /\ AllTyped /\ Books /\ Disk /\ Store /\ Replacing /\ seq \in Nat
      /\ nextId \in Nat /\ manifest.next \in Int /\ manifest.next <= nextId
  BY RowLists DEF Ready, Usual, Basic, ManifestInv, TypeInv, Disk
<1>2. PICK name, r : name = <<to, nextId>> /\ r = <<to, name>>
  OBVIOUS
<1>3. r[1] = to /\ r[2] = name /\ name[1] = to /\ name[2] = nextId
  BY <1>2
<1>4. files' = Written(files, name, Partial) /\ UNCHANGED manifest
  BY <1>2 DEF MergeSSTables
<1>5. /\ \A p \in Listed : /\ p \in Places /\ p[2][2] < manifest.next /\ p[2] # name
                           /\ p[2] \in DOMAIN files /\ files[p[2]] # Partial
      /\ \A p, q \in Listed : p[2][2] = q[2][2] => p = q
  <2>1. /\ \A p \in Listed : /\ p \in Places /\ p[2][2] < manifest.next
                             /\ p[2] \in DOMAIN files /\ files[p[2]] # Partial
        /\ \A p, q \in Listed : p[2][2] = q[2][2] => p = q
    BY <1>1, ListedPlaces DEF Disk, Opens
  <2>2. ASSUME NEW p \in Listed PROVE p[2] # name
    <3>1. p[2][2] \in Nat /\ p[2][2] < manifest.next
      BY <2>1 DEF Places
    <3> QED
      BY <1>1, <1>3, <3>1
  <2> QED
    BY <2>1, <2>2
<1>6. PICK gs : gs = files'
  OBVIOUS
<1>7. /\ DOMAIN gs = DOMAIN files \cup {name} /\ gs[name] = Partial
      /\ \A n \in DOMAIN files : n # name => gs[n] = files[n]
  BY <1>4, <1>6 DEF Written
<1>8. CASE \E why \in {"noBase", "noLeaves"} : Panic(why)
  <2>1. PICK why \in {"noBase", "noLeaves"} : Panic(why)
    BY <1>8
  <2>2. Die /\ failure' # "misplaced" /\ UNCHANGED manifest
    BY <1>4, <2>1 DEF Panic
  <2>3. FilesTyped(files', seq)
    <3>1. FilesTyped(files, seq)
      BY <1>1 DEF AllTyped
    <3> QED
      BY <1>6, <1>7, <3>1 DEF FilesTyped
  <2>4. \A n \in DOMAIN files : n \in DOMAIN files'
           /\ (n[2] < manifest.next => files'[n] = files[n])
    <3>1. ~(nextId < manifest.next)
      BY <1>1
    <3> QED
      BY <1>3, <1>6, <1>7, <3>1
  <2>5. \E n \in DOMAIN files' : files'[n] = Partial
    BY <1>6, <1>7
  <2> QED
    BY <2>2, <2>3, <2>4, <2>5, DownReads
<1>9. ASSUME nextId' = nextId + 1, NEW next, GoOn(ls, next),
             UNCHANGED <<strategy, frags, snap, status, history>>
      PROVE  ReadInv'
  <2>1. /\ UNCHANGED <<strategy, status, manifest, failure, hist, rdHist, stray, frags>>
        /\ nextId' \in Nat /\ nextId <= nextId' /\ seq' \in Nat /\ seq <= seq'
    BY <1>1, <1>4, <1>9 DEF history
  <2>2. \E a : files' = Written(files, <<a, nextId>>, Partial)
    BY <1>2, <1>4
  <2> QED
    BY <1>9, <2>1, <2>2, OnwardReads
<1>10. PICK R, D : /\ R = UNION {files[in[j].name].recs : j \in 1 .. Len(in)}
                   /\ D = UNION {files[in[j].name].rds : j \in 1 .. Len(in)}
  OBVIOUS
<1>11. PICK C : C = Replacement(R, D, skip)
  OBVIOUS
<1>12. ASSUME nextId' = nextId + 1, layers' = ls, NEW next,
              worker' = [pc |-> "add", i |-> next, id |-> nextId, to |-> to, inputs |-> in,
              content |-> C],
              C.recs # {}, UNCHANGED <<strategy, frags, snap, status, history>>
       PROVE  ReadInv'
  <2>1. /\ UNCHANGED <<strategy, status, manifest, failure, hist, rdHist, stray, frags>>
        /\ nextId' \in Nat /\ nextId < nextId' /\ nextId <= nextId' /\ seq' \in Nat /\ seq <= seq'
    BY <1>1, <1>4, <1>12 DEF history
  <2>2. /\ worker'.pc = "add" /\ worker'.id = nextId /\ worker'.to = to /\ worker'.inputs = in
        /\ worker'.content = C
    BY <1>12
  <2>3. Listed' = Listed /\ Past' = Past
    BY <2>1, <2>2, QuietPlaces
  <2>4. Name' = name /\ Place' = r
    BY <1>2, <2>2 DEF Name, Place
  <2>5. PICK fs2 : fs2 = [gs EXCEPT ![name] = C]
    OBVIOUS
  <2>6. Finished' = fs2 /\ Coming' = Listed \cup {r}
    BY <1>6, <2>2, <2>3, <2>4, <2>5 DEF Finished, Coming
  <2>7. fs2[r[2]] = C /\ \A p \in Listed : p[2] # r[2] /\ fs2[p[2]] = files[p[2]]
    BY <1>3, <1>5, <1>7, <2>5
  <2>8. in # <<>>
    <3>1. R # {}
      <4>1. CASE R = {}
        <5>1. \A rds : Result(R, rds, skip) = {}
          BY <4>1 DEF Result
        <5>2. C.recs = {}
          BY <1>11, <5>1 DEF Replacement, Table
        <5> QED
          BY <1>12, <5>2
      <4> QED
        BY <4>1
    <3> QED
      BY <1>10, <3>1
  <2>9. /\ Typed(C, seq) /\ Good(strategy, Past, fs2, Listed \cup {r})
        /\ Replaces(strategy, Past, fs2, Listed \cup {r}, r, in)
    <3>1. PICK P, V, fs, s : P = Past /\ V = Listed /\ fs = files /\ s = seq
      OBVIOUS
    <3>2. Good(strategy, P, fs, V) /\ Opens(fs, V) /\ FilesTyped(fs, s) /\ s \in Nat
      BY <1>1, <3>1 DEF Disk, Store, AllTyped
    <3>3. ASSUME NEW p \in V, to < p[1] \/ (to = p[1] /\ Ordered(strategy, to))
          PROVE  Follows(strategy, r, p)
      <4>1. p[2][2] \in Nat /\ p[2][2] < nextId
        BY <1>1, <1>5, <3>1 DEF Places
      <4> QED
        BY <1>3, <3>3, <4>1 DEF Follows
    <3>4. \A j \in 1 .. Len(in), p \in V, n \in V, T \in Answers(strategy, P) :
              /\ p[2] = in[j].name /\ T \in Marks(fs[p[2]])
              /\ Has(fs[n[2]], T.key) /\ Follows(strategy, p, n) /\ n # p
              => \/ \E a \in 1 .. j - 1 : in[a].name = n[2]
                 \/ ~skip /\ Follows(strategy, r, n)
      BY <3>1, <3>3
    <3>5. \A j \in 1 .. Len(in), p \in V, m \in V :
              p[2] = in[j].name /\ Follows(strategy, m, p) =>
                 (\E a \in 1 .. Len(in) : in[a].name = m[2]) \/ Follows(strategy, m, r)
      BY <1>3, <3>1 DEF Follows
    <3>6. /\ fs2[r[2]] = C /\ \A p \in V : p[2] # r[2] /\ fs2[p[2]] = fs[p[2]]
      BY <2>7, <3>1
    <3>7. /\ R = UNION {fs[in[j].name].recs : j \in 1 .. Len(in)}
          /\ D = UNION {fs[in[j].name].rds : j \in 1 .. Len(in)}
      BY <1>10, <3>1
    <3>8. \A j \in 1 .. Len(in) : \E p \in V : p[2] = in[j].name
      BY <3>1
    <3>9. Merging(P, fs, V, s, skip, in, R, D, C, r, fs2)
      BY <1>11, <3>2, <3>4, <3>5, <3>6, <3>7, <3>8 DEF Merging
    <3>10. Typed(C, s) /\ Good(strategy, P, fs2, V \cup {r})
              /\ Replaces(strategy, P, fs2, V \cup {r}, r, in)
      BY ONLY <3>9, MergeGood
    <3> QED
      BY <3>1, <3>10
  <2>10. Writing'
    <3>1. manifest'.next <= nextId /\ Name' \in DOMAIN files' /\ Future' = Past
      BY <1>1, <1>6, <1>7, <2>1, <2>2, <2>3, <2>4, <2>8 DEF Future
    <3> QED
      BY <1>12, <2>1, <2>2, <2>6, <2>8, <2>9, <3>1 DEF Writing
  <2>11. Replacing'
    <3>1. ASSUME NEW j \in 1 .. Len(in)
          PROVE  /\ in[j].id # nextId
                 /\ \A n \in Nat : \A k \in 1 .. Len(Rows(n)) :
                       Rows(n)[k].id = in[j].id => Rows(n)[k].name = in[j].name
      <4>1. PICK p \in Listed : p[2] = in[j].name
        OBVIOUS
      <4>2. in[j].id = p[2][2]
        BY <4>1 DEF Named
      <4>3. p[2][2] \in Nat /\ p[2][2] < nextId
        BY <1>1, <1>5 DEF Places
      <4>4. ASSUME NEW n \in Nat, NEW k \in 1 .. Len(Rows(n)), Rows(n)[k].id = in[j].id
            PROVE  Rows(n)[k].name = in[j].name
        <5>1. PICK g, q : g = AllRows(manifest) /\ q = <<n, g[n][k].name>>
          OBVIOUS
        <5>2. g[n] = Rows(n) /\ Named(g[n])
          BY <1>1, <5>1, RowLists DEF Books, Identified
        <5>3. q \in View(g) /\ q[2] = g[n][k].name
          BY <5>1, <5>2, ViewElement
        <5>4. View(g) = Listed
          BY <5>1, LeftRows DEF Listed
        <5>5. q[2][2] = g[n][k].id
          BY <5>2, <5>3 DEF Named
        <5>6. q = p
          BY <1>5, <4>2, <4>4, <5>2, <5>3, <5>4, <5>5
        <5> QED
          BY <4>1, <5>2, <5>3, <5>6
      <4> QED
        BY <4>2, <4>3, <4>4
    <3>2. \A n \in Nat : Rows(n)' = Rows(n)
      BY <2>1 DEF Rows
    <3>3. Place' \in Coming'
      BY <2>4, <2>6
    <3>4. Replaces(strategy', Past', Finished', Coming', Place', worker'.inputs)
      BY <2>1, <2>2, <2>3, <2>4, <2>6, <2>9
    <3>5. \A j \in 1 .. Len(in) : \A n \in Nat : \A k \in 1 .. Len(Rows(n)') :
             Rows(n)'[k].id = in[j].id => Rows(n)'[k].name = in[j].name
      BY <2>1, <3>1 DEF Rows
    <3> QED
      BY <2>2, <2>8, <3>1, <3>3, <3>4, <3>5 DEF Replacing
  <2>12. Typed(worker'.content, seq')
    BY <1>12, <2>2, <2>9 DEF history
  <2>13. \E a : files' = Written(files, <<a, nextId>>, Partial)
    BY <1>2, <1>4
  <2>14. \A n \in Nat : Tabs(layers', n) = Tabs(layers, n)
    BY <1>12
  <2>15. /\ worker.pc \in {"idle", "compact"} /\ worker'.pc \in {"idle", "compact", "add"}
         /\ (worker'.pc = "idle" => worker' = Idle)
    BY <2>2
  <2> QED
    BY <2>1, <2>10, <2>11, <2>12, <2>13, <2>14, <2>15, QuietReads
<1>13. \/ \E why \in {"noBase", "noLeaves"} : Panic(why)
       \/ /\ nextId' = nextId + 1 /\ \E next : GoOn(ls, next)
          /\ UNCHANGED <<strategy, frags, snap, status, history>>
       \/ /\ nextId' = nextId + 1 /\ layers' = ls /\ C.recs # {}
          /\ \E next : worker' = [pc |-> "add", i |-> next, id |-> nextId, to |-> to,
                                  inputs |-> in, content |-> C]
          /\ UNCHANGED <<strategy, frags, snap, status, history>>
  <2>. DEFINE all == UNION {Recs(t) : t \in ToSet(in)}
              rds == MergeAndFragment(ToSet(in))
              out == Result(all, rds, skip)
  <2>1. \/ Panic("noBase") \/ Panic("noLeaves")
        \/ /\ nextId' = nextId + 1
           /\ IF out = {} THEN GoOn(ls, IF skip THEN MaxHeight ELSE worker.i + 1)
              ELSE /\ layers' = ls
                   /\ worker' = [pc |-> "add", i |-> IF skip THEN MaxHeight ELSE worker.i + 1,
                                 id |-> nextId, to |-> to, inputs |-> in,
                                 content |-> Table(out, IF skip THEN {} ELSE rds)]
           /\ UNCHANGED <<strategy, frags, snap, status, history>>
    BY DEF MergeSSTables, Result
  <2>2. all = R /\ rds = FragmentRangeTombstones(D)
    <3>1. ToSet(in) = {in[j] : j \in 1 .. Len(in)}
      BY DEF ToSet
    <3>2. {Recs(t) : t \in ToSet(in)} = {files[in[j].name].recs : j \in 1 .. Len(in)}
      BY <3>1 DEF Recs
    <3>3. {RangeDels(t) : t \in ToSet(in)} = {files[in[j].name].rds : j \in 1 .. Len(in)}
      BY <3>1 DEF RangeDels
    <3> QED
      BY <1>10, <3>2, <3>3 DEF MergeAndFragment
  <2>. HIDE DEF all, rds
  <2>3. C = Table(out, IF skip THEN {} ELSE rds)
    BY <1>11, <2>2 DEF Replacement
  <2>4. C.recs = out
    BY <2>3 DEF Table
  <2> QED
    BY <2>1, <2>3, <2>4
<1> QED
  BY <1>8, <1>9, <1>12, <1>13

(* The tables s are the listed ones of layer n, in order.                  *)
Layered(n, s) ==
    /\ s \in Seq(Reader) /\ Named(s)
    /\ \A k \in 1 .. Len(s) : <<n, s[k].name>> \in Listed
    /\ \A p \in Listed : p[1] = n => \E k \in 1 .. Len(s) : p = <<n, s[k].name>>
    /\ Ordered(strategy, n) => \A j, k \in 1 .. Len(s) : j < k => s[j].name[2] < s[k].name[2]
    /\ \A p \in Listed : \A k \in 1 .. Len(s) : p[2] = s[k].name => p[1] = n

(* So are those that memory has.                                           *)
LEMMA LayerPlaces ==
    ASSUME ManifestInv, Books, status = "up", failure # "misplaced", worker.pc # "unlist",
           NEW n \in Nat, NEW s, s = Tabs(layers, n)
    PROVE  Layered(n, s)
<1>1. layers \in Seq(Layer) /\ s \in Seq(Reader)
  BY TabsType DEF ManifestInv, TypeInv
<1>2. PICK g : g = AllRows(manifest)
  OBVIOUS
<1>3. g \in Lists /\ \A l \in Nat : g[l] = Rows(l) /\ Rows(l) \in Seq(Reader)
  BY <1>2, RowLists
<1>4. PICK top : top = manifest.next
  OBVIOUS
<1>5. Identified(g, top) /\ Sorted(strategy, g) /\ Listed = View(g)
  BY <1>2, <1>4, LeftRows DEF Books, Listed
<1>6. \A p, q \in View(g) : p[2][2] = q[2][2] => p = q
  BY <1>3, <1>5, ViewFacts
<1>7. Len(g[n]) = Len(s) /\ \A k \in 1 .. Len(s) : s[k].id = g[n][k].id /\ s[k].name = g[n][k].name
  <2>1. Same(Rows(n), s)
    BY DEF ManifestInv, Agreement, RowsLeft
  <2> QED
    BY <1>3, <2>1 DEF Same
<1>8. Named(s)
  BY <1>5, <1>7 DEF Identified, Named
<1>9. \A k \in 1 .. Len(s) : <<n, s[k].name>> \in View(g)
  BY <1>7, ViewElement
<1>10. ASSUME NEW p \in View(g), p[1] = n PROVE \E k \in 1 .. Len(s) : p = <<n, s[k].name>>
  <2>1. PICK l \in Nat : \E k \in 1 .. Len(g[l]) : p = <<l, g[l][k].name>>
    BY ViewElement
  <2>2. PICK k \in 1 .. Len(g[l]) : p = <<l, g[l][k].name>>
    BY <2>1
  <2>3. l = n
    BY <1>10, <2>2
  <2> QED
    BY <1>7, <2>2, <2>3
<1>11. Ordered(strategy, n) => \A j, k \in 1 .. Len(s) : j < k => s[j].name[2] < s[k].name[2]
  BY <1>5, <1>7, <1>8 DEF Sorted, Named
<1>12. ASSUME NEW p \in View(g), NEW k \in 1 .. Len(s), p[2] = s[k].name PROVE p[1] = n
  <2>1. PICK q \in View(g) : q = <<n, s[k].name>>
    BY <1>9
  <2>2. p = q
    BY <1>6, <1>12, <2>1
  <2> QED
    BY <2>1, <2>2
<1> QED
  BY <1>1, <1>5, <1>8, <1>9, <1>10, <1>11, <1>12 DEF Layered

(* Tiered compaction merges a whole layer into the next one.               *)
LEMMA TieredReads ==
    ASSUME ManifestInv, Basic, Ready, failure # "misplaced", stray # "listed", TieredCompact
    PROVE  ReadInv'
<1>. DEFINE i == worker.i
            last == i + 1 = MaxHeight
            to == IF last THEN i ELSE Min({i + 1, MaxHeight - 1})
<1>1. /\ status = "up" /\ worker.pc = "compact" /\ strategy = "tiered" /\ i \in Nat
      /\ i + 1 <= Len(layers) /\ layers \in Seq(Layer) /\ nextId \in Nat
      /\ Books /\ Replacing /\ seq \in Nat
  BY DEF TieredCompact, AtLayer, ManifestInv, TypeInv, WorkerInv, Ready, Usual, Basic
<1>2. PICK s : s = layers[i + 1].tabs /\ s = Tabs(layers, i)
  BY <1>1 DEF Tabs
<1>3. \/ GoOn(layers, i + 1) /\ Untouched
      \/ Len(s) >= MinMergeThreshold /\ MergeSSTables(s, to, last, layers)
  BY <1>2 DEF TieredCompact
<1>4. CASE GoOn(layers, i + 1) /\ Untouched
  <2>1. /\ UNCHANGED <<strategy, status, manifest, failure, hist, rdHist, stray, frags>>
        /\ nextId' = nextId /\ seq' = seq /\ files' = files
    BY <1>4 DEF Untouched, history
  <2> QED
    BY <1>1, <1>4, <2>1, OnwardReads
<1>5. CASE Len(s) >= MinMergeThreshold /\ MergeSSTables(s, to, last, layers)
  <2>1. /\ s \in Seq(Reader) /\ Named(s)
        /\ \A k \in 1 .. Len(s) : <<i, s[k].name>> \in Listed
        /\ \A p \in Listed : p[1] = i => \E k \in 1 .. Len(s) : p = <<i, s[k].name>>
        /\ \A j, k \in 1 .. Len(s) : j < k => s[j].name[2] < s[k].name[2]
        /\ \A p \in Listed : \A k \in 1 .. Len(s) : p[2] = s[k].name => p[1] = i
    <3>1. Layered(i, s)
      BY <1>1, <1>2, LayerPlaces
    <3> QED
      BY <1>1, <3>1 DEF Layered, Ordered
  <2>2. MaxHeight \in Nat \ {0} /\ Len(s) \in Nat \ {0}
    BY <1>5, <2>1, ManagerAssumption
  <2>3. \A p \in Listed : p \in Places /\ p[1] < MaxHeight /\ p[1] \in Nat
    BY <1>1, ListedPlaces DEF Places
  <2>4. i < MaxHeight
    <3>1. 1 \in 1 .. Len(s)
      BY <2>2
    <3>2. <<i, s[1].name>> \in Listed
      BY <2>1, <3>1
    <3>3. PICK p \in Listed : p = <<i, s[1].name>>
      BY <3>2
    <3> QED
      BY <2>3, <3>3
  <2>5. to \in Nat /\ to < MaxHeight /\ i <= to /\ (~last => to = i + 1) /\ last \in BOOLEAN
    <3>1. CASE last
      BY <1>1, <2>4, <3>1
    <3>2. CASE ~last
      <4>1. i + 1 \in Nat /\ MaxHeight - 1 \in Nat /\ i + 1 <= MaxHeight - 1
        BY <1>1, <2>2, <2>4, <3>2
      <4>2. Min({i + 1, MaxHeight - 1}) = i + 1
        <5>1. PICK a, b : a = i + 1 /\ b = MaxHeight - 1
          OBVIOUS
        <5>2. a \in Int /\ b \in Int /\ a <= b
          BY <4>1, <5>1
        <5>3. Min({a, b}) = a
          BY ONLY <5>2, MinMaxOfTwo
        <5> QED
          BY <5>1, <5>3
      <4> QED
        BY <1>1, <2>2, <3>2, <4>1, <4>2
    <3> QED
      BY <3>1, <3>2
  <2>6. \A j \in 1 .. Len(s) : \E p \in Listed : p[2] = s[j].name
    BY <2>1
  <2>7. ASSUME NEW j \in 1 .. Len(s), NEW p \in Listed, NEW n \in Listed, p[2] = s[j].name,
               Follows(strategy, p, n), n # p
        PROVE  \/ \E a \in 1 .. j - 1 : s[a].name = n[2]
               \/ ~last /\ (to < n[1] \/ (to = n[1] /\ Ordered(strategy, to)))
    <3>1. p[1] = i /\ n[1] \in Nat /\ n[1] < MaxHeight
      BY <2>1, <2>3, <2>7
    <3>2. CASE n[1] = i
      <4>1. PICK a \in 1 .. Len(s) : n = <<i, s[a].name>>
        BY <2>1, <3>2
      <4>2. n[2] = s[a].name /\ n[2][2] < p[2][2]
        BY <2>7, <3>1, <3>2, <4>1 DEF Follows
      <4>3. a < j
        <5>1. s[a].name[2] \in Nat /\ s[j].name[2] \in Nat
          <6>1. s[a] \in Reader /\ s[j] \in Reader
            BY <2>1
          <6> QED
            BY <6>1 DEF Reader
        <5>2. j < a => s[j].name[2] < s[a].name[2]
          BY <2>1
        <5> QED
          BY <2>2, <2>7, <4>2, <5>1, <5>2
      <4> QED
        BY <2>2, <4>2, <4>3
    <3>3. CASE n[1] # i
      <4>1. i < n[1]
        BY <2>7, <3>1, <3>3 DEF Follows
      <4>2. ~last /\ to <= n[1]
        BY <1>1, <2>2, <2>5, <3>1, <4>1
      <4> QED
        BY <1>1, <2>5, <3>1, <4>2 DEF Ordered
    <3> QED
      BY <3>2, <3>3
  <2>8. ASSUME NEW j \in 1 .. Len(s), NEW p \in Listed, NEW m \in Listed, p[2] = s[j].name,
               Follows(strategy, m, p)
        PROVE  (\E a \in 1 .. Len(s) : s[a].name = m[2]) \/ m[1] < to
    <3>1. p[1] = i /\ m[1] \in Nat
      BY <2>1, <2>3, <2>8
    <3>2. CASE m[1] = i
      <4>1. PICK a \in 1 .. Len(s) : m = <<i, s[a].name>>
        BY <2>1, <3>2
      <4>2. m[2] = s[a].name
        BY <4>1
      <4> QED
        BY <4>2
    <3>3. CASE m[1] # i
      <4>1. m[1] < i
        BY <2>8, <3>1, <3>3 DEF Follows
      <4> QED
        BY <1>1, <2>5, <3>1, <4>1
    <3> QED
      BY <3>2, <3>3
  <2>9. PICK x, skip : x = to /\ skip = last
    OBVIOUS
  <2>. HIDE DEF to, last
  <2>10. MergeSSTables(s, x, skip, layers) /\ x \in Nat /\ x < MaxHeight /\ skip \in BOOLEAN
    BY <1>5, <2>5, <2>9
  <2>11. \A j \in 1 .. Len(s), p \in Listed, n \in Listed, T \in Answers(strategy, Past) :
              /\ p[2] = s[j].name /\ T \in Marks(files[p[2]])
              /\ Has(files[n[2]], T.key) /\ Follows(strategy, p, n) /\ n # p
              => \/ \E a \in 1 .. j - 1 : s[a].name = n[2]
                 \/ ~skip /\ (x < n[1] \/ (x = n[1] /\ Ordered(strategy, x)))
    BY <2>7, <2>9
  <2>12. \A j \in 1 .. Len(s), p \in Listed, m \in Listed :
              p[2] = s[j].name /\ Follows(strategy, m, p) =>
                 (\E a \in 1 .. Len(s) : s[a].name = m[2]) \/ m[1] < x
    BY <2>8, <2>9
  <2> QED
    BY <1>1, <2>1, <2>6, <2>10, <2>11, <2>12, MergeReads
<1> QED
  BY <1>3, <1>4, <1>5

(* The records of the tables in s are of user keys.                        *)
Keyed(t) == \A r \in files[t.name].recs : r.key \in Keys

(* MinKey and MaxKeyOf bound the keys of a table.                          *)
LEMMA KeyBounds ==
    ASSUME NEW t, Keyed(t)
    PROVE  /\ MinKey(t) \in Nat /\ MaxKeyOf(t) \in Nat /\ MaxKeyOf(t) <= MaxKey
           /\ \A v : Has(files[t.name], v) => v \in Nat /\ MinKey(t) <= v /\ v <= MaxKeyOf(t)
<1>1. PICK K : K = {r.key : r \in files[t.name].recs}
  OBVIOUS
<1>2. K \in SUBSET Nat /\ MaxKey \in Nat /\ \A k \in K : k <= MaxKey
  <2>1. \A k \in K : k \in 1 .. MaxKey
    BY <1>1 DEF Keyed, Keys
  <2> QED
    BY <2>1, ManagerAssumption
<1>3. \A v : Has(files[t.name], v) <=> v \in K
  BY <1>1 DEF Has
<1>4. CASE K = {}
  <2>1. files[t.name].recs = {}
    BY <1>1, <1>4
  <2>2. MinKey(t) = 0 /\ MaxKeyOf(t) = 0
    BY <2>1 DEF MinKey, MaxKeyOf, Recs
  <2> QED
    BY <1>2, <1>3, <1>4, <2>2
<1>5. CASE K # {}
  <2>1. files[t.name].recs # {}
    BY <1>1, <1>5
  <2>2. MinKey(t) = Min(K) /\ MaxKeyOf(t) = Max(K)
    BY <1>1, <2>1 DEF MinKey, MaxKeyOf, Recs
  <2>3. Min(K) \in K /\ \A k \in K : Min(K) <= k
    BY <1>2, <1>5, MinOfNaturals
  <2>4. Max(K) \in K /\ \A k \in K : k <= Max(K)
    BY <1>2, <1>5, MaxOfNaturals
  <2> QED
    BY ONLY <1>2, <1>3, <2>2, <2>3, <2>4
<1> QED
  BY <1>4, <1>5

(* The range of a list of tables.                                          *)
LEMMA ListBounds ==
    ASSUME NEW s \in Seq(Reader), s # <<>>, \A k \in 1 .. Len(s) : Keyed(s[k]),
           NEW lo, lo = Min({MinKey(t) : t \in ToSet(s)}),
           NEW hi, hi = Max({MaxKeyOf(t) : t \in ToSet(s)})
    PROVE  /\ lo \in Nat /\ hi \in Nat
           /\ \A k \in 1 .. Len(s) : \A v : Has(files[s[k].name], v) => lo <= v /\ v <= hi
<1>1. PICK A, B : A = {MinKey(t) : t \in ToSet(s)} /\ B = {MaxKeyOf(t) : t \in ToSet(s)}
  OBVIOUS
<1>2. ToSet(s) = {s[k] : k \in 1 .. Len(s)} /\ 1 \in 1 .. Len(s)
  BY DEF ToSet
<1>3. \A k \in 1 .. Len(s) :
         /\ MinKey(s[k]) \in Nat /\ MaxKeyOf(s[k]) \in Nat /\ MaxKeyOf(s[k]) <= MaxKey
         /\ \A v : Has(files[s[k].name], v) => v \in Nat /\ MinKey(s[k]) <= v /\ v <= MaxKeyOf(s[k])
  BY KeyBounds
<1>4. A \in SUBSET Nat /\ A # {} /\ B \in SUBSET Nat /\ B # {} /\ \A b \in B : b <= MaxKey
  BY <1>1, <1>2, <1>3
<1>5. MaxKey \in Nat
  BY ManagerAssumption
<1>6. lo \in A /\ \A a \in A : lo <= a
  BY <1>1, <1>4, MinOfNaturals
<1>7. hi \in B /\ \A b \in B : b <= hi
  BY <1>1, <1>4, <1>5, MaxOfNaturals
<1>8. lo \in Nat /\ hi \in Nat
  BY <1>4, <1>6, <1>7
<1>9. ASSUME NEW k \in 1 .. Len(s), NEW v, Has(files[s[k].name], v)
      PROVE  lo <= v /\ v <= hi
  <2>1. MinKey(s[k]) \in A /\ MaxKeyOf(s[k]) \in B
    BY <1>1, <1>2
  <2>2. PICK a \in Nat, b \in Nat : a = MinKey(s[k]) /\ b = MaxKeyOf(s[k]) /\ v \in Nat /\ a <= v
                /\ v <= b
    BY <1>3, <1>9
  <2>3. lo <= a /\ b <= hi
    BY <1>6, <1>7, <2>1, <2>2
  <2> QED
    BY <1>8, <2>2, <2>3
<1> QED
  BY <1>8, <1>9

(* Overlapping takes tables of the list, among them each one with a key in *)
(* the range.                                                              *)
Takes(v, s, lo, hi) ==
    /\ v \in Seq(Reader) /\ \A k \in 1 .. Len(v) : \E j \in 1 .. Len(s) : v[k] = s[j]
    /\ \A j \in 1 .. Len(s) : \A x : Has(files[s[j].name], x) /\ lo <= x /\ x <= hi =>
          \E k \in 1 .. Len(v) : v[k] = s[j]
(* A table of the layer whose keys meet those of the range is taken.       *)
LEMMA OverlappingHas ==
    ASSUME NEW lo \in Nat, NEW hi \in Nat, NEW s \in Seq(Reader),
           \A k \in 1 .. Len(s) : Keyed(s[k]),
           NEW v, v = Overlapping(lo, hi, s)
    PROVE  Takes(v, s, lo, hi)
<1>1. Selects(v, s, lo, hi)
  BY OverlappingTables
<1>2. ASSUME NEW j \in 1 .. Len(s), NEW x, Has(files[s[j].name], x), lo <= x, x <= hi
      PROVE  Meets(s[j], lo, hi)
  <2>1. PICK a \in Nat, b \in Nat : a = MinKey(s[j]) /\ b = MaxKeyOf(s[j]) /\ x \in Nat /\ a <= x
                /\ x <= b
    BY <1>2, KeyBounds
  <2> QED
    BY <1>2, <2>1 DEF Meets
<1> QED
  BY <1>1, <1>2 DEF Selects, Takes

(* Under leveled compaction an answer is a record's.                       *)
LEMMA LeveledAnswer ==
    ASSUME strategy = "leveled", NEW P, NEW T \in Answers(strategy, P), NEW C, NEW s \in Nat,
           Typed(C, s), T \in Marks(C)
    PROVE  Has(C, T.key)
<1>1. T.kind # "rng"
  BY DEF Answers
<1> QED
  BY <1>1, MarkOrigin DEF Has

(* The listed tables have records of user keys.                            *)
LEMMA ListedKeyed ==
    ASSUME AllTyped, Disk, status = "up"
    PROVE  /\ \A p \in Listed : Typed(files[p[2]], seq)
           /\ \A t : (\E p \in Listed : p[2] = t.name) => Keyed(t)
<1>1. \A p \in Listed : Typed(files[p[2]], seq)
  BY DEF AllTyped, FilesTyped, Disk, Opens
<1> QED
  BY <1>1 DEF Typed, Version, Keyed

(* The tables in are of layer i, with their keys in lo .. hi, and of the   *)
(* next layer to, from where each table comes first which has such a key.  *)
Lowering(i, to, in, lo, hi) ==
    /\ \A j \in 1 .. Len(in) : \E p \in Listed :
          /\ p[2] = in[j].name
          /\ \/ p[1] = to
             \/ p[1] = i /\ \A v : Has(files[in[j].name], v) => lo <= v /\ v <= hi
    /\ \A j \in 1 .. Len(in), n \in Listed : \A v :
          /\ <<i, in[j].name>> \in Listed /\ n[1] = to
          /\ Has(files[n[2]], v) /\ lo <= v /\ v <= hi
          => \E a \in 1 .. j - 1 : in[a].name = n[2]
    /\ i = 0 => \A j \in 1 .. Len(in), n \in Listed :
          <<0, in[j].name>> \in Listed /\ n[1] = 0 /\ n[2][2] < in[j].name[2]
          => \E a \in 1 .. j - 1 : in[a].name = n[2]

(* Leveled compaction merges such tables into layer to.                    *)
LEMMA LowerReads ==
    ASSUME ManifestInv, Basic, Ready, status = "up", failure # "misplaced", stray # "listed",
           worker.pc = "compact", strategy = "leveled", NEW in \in Seq(Reader), Named(in),
           NEW i \in Nat, NEW to \in Nat, to = i + 1, to < MaxHeight, NEW lo, NEW hi,
           NEW ls, \A n \in Nat : Tabs(ls, n) = Tabs(layers, n),
           Lowering(i, to, in, lo, hi),
           NEW skip, skip = FALSE, MergeSSTables(in, to, skip, ls)
    PROVE  ReadInv'
<1>1. AllTyped /\ Books /\ Disk /\ Replacing /\ seq \in Nat
  BY DEF Ready, Usual, Basic
<1>2. /\ \A p \in Listed : p \in Places /\ p[1] \in Nat
      /\ \A p, q \in Listed : p[2][2] = q[2][2] => p = q
  BY <1>1, ListedPlaces DEF Places
<1>3. \A p \in Listed : Typed(files[p[2]], seq)
  BY <1>1, ListedKeyed
(* Where an input is.                                                      *)
<1>4. ASSUME NEW j \in 1 .. Len(in), NEW p \in Listed, p[2] = in[j].name
      PROVE  \/ p[1] = to
             \/ /\ p[1] = i /\ <<i, in[j].name>> \in Listed
                /\ \A v : Has(files[in[j].name], v) => lo <= v /\ v <= hi
  <2>1. PICK q \in Listed :
           /\ q[2] = in[j].name
           /\ \/ q[1] = to
              \/ q[1] = i /\ \A v : Has(files[in[j].name], v) => lo <= v /\ v <= hi
    BY DEF Lowering
  <2>2. p = q
    BY <1>2, <1>4, <2>1
  <2>3. p = <<p[1], p[2]>>
    BY <1>2 DEF Places
  <2> QED
    BY <1>4, <2>1, <2>2, <2>3
<1>5. \A j \in 1 .. Len(in) : \E p \in Listed : p[2] = in[j].name
  BY DEF Lowering
<1>6. ASSUME NEW j \in 1 .. Len(in), NEW p \in Listed, NEW n \in Listed,
             NEW T \in Answers(strategy, Past),
             p[2] = in[j].name, T \in Marks(files[p[2]]),
             Has(files[n[2]], T.key), Follows(strategy, p, n), n # p
      PROVE  (\E a \in 1 .. j - 1 : in[a].name = n[2]) \/ to < n[1]
  <2>1. p[1] \in Nat /\ n[1] \in Nat
    BY <1>2
  <2>2. p[1] < n[1] \/ (p[1] = 0 /\ n[1] = 0 /\ n[2][2] < p[2][2])
    BY <1>6 DEF Follows, Ordered
  <2>3. CASE p[1] = to
    BY <2>1, <2>2, <2>3
  <2>4. CASE p[1] = i /\ <<i, in[j].name>> \in Listed
             /\ \A v : Has(files[in[j].name], v) => lo <= v /\ v <= hi
    <3>1. Has(files[p[2]], T.key)
      BY <1>1, <1>3, <1>6, LeveledAnswer
    <3>2. lo <= T.key /\ T.key <= hi
      BY <1>6, <2>4, <3>1
    <3>3. CASE n[1] = to
      BY <1>6, <2>4, <3>2, <3>3 DEF Lowering
    <3>4. CASE p[1] = 0 /\ n[1] = 0 /\ n[2][2] < p[2][2]
      <4>1. i = 0 /\ <<0, in[j].name>> \in Listed /\ n[2][2] < in[j].name[2]
        BY <1>6, <2>4, <3>4
      <4> QED
        BY <3>4, <4>1 DEF Lowering
    <3> QED
      BY <2>1, <2>2, <2>4, <3>3, <3>4
  <2> QED
    BY <1>4, <1>6, <2>3, <2>4
<1>7. ASSUME NEW j \in 1 .. Len(in), NEW p \in Listed, NEW m \in Listed, p[2] = in[j].name,
             Follows(strategy, m, p)
      PROVE  (\E a \in 1 .. Len(in) : in[a].name = m[2]) \/ m[1] < to
  <2>1. p[1] \in Nat /\ m[1] \in Nat /\ (p[1] = to \/ p[1] = i)
    BY <1>2, <1>4, <1>7
  <2>2. m[1] < p[1] \/ m = p \/ (p[1] = 0 /\ m[1] = 0)
    BY <1>7 DEF Follows, Ordered
  <2> QED
    BY <1>7, <2>1, <2>2
<1>8. skip \in BOOLEAN /\ ~skip
  OBVIOUS
<1>9. \A j \in 1 .. Len(in), p \in Listed, n \in Listed, T \in Answers(strategy, Past) :
         /\ p[2] = in[j].name /\ T \in Marks(files[p[2]])
         /\ Has(files[n[2]], T.key) /\ Follows(strategy, p, n) /\ n # p
         => \/ \E a \in 1 .. j - 1 : in[a].name = n[2]
            \/ ~skip /\ (to < n[1] \/ (to = n[1] /\ Ordered(strategy, to)))
  BY <1>6, <1>8
<1>10. \A j \in 1 .. Len(in), p \in Listed, m \in Listed :
         p[2] = in[j].name /\ Follows(strategy, m, p) =>
            (\E a \in 1 .. Len(in) : in[a].name = m[2]) \/ m[1] < to
  BY <1>7
<1>11. MergeSSTables(in, to, skip, ls) /\ skip \in BOOLEAN
  OBVIOUS
<1>12. /\ ManifestInv /\ Basic /\ Ready /\ status = "up" /\ failure # "misplaced"
       /\ stray # "listed" /\ worker.pc = "compact" /\ in \in Seq(Reader) /\ Named(in)
       /\ to \in Nat /\ to < MaxHeight /\ \A n \in Nat : Tabs(ls, n) = Tabs(layers, n)
  OBVIOUS
<1> QED
  BY ONLY <1>5, <1>9, <1>10, <1>11, <1>12, MergeReads

(* A whole layer that is merged where it is, into the last one.            *)
LEMMA LastReads ==
    ASSUME ManifestInv, Basic, Ready, status = "up", failure # "misplaced", stray # "listed",
           worker.pc = "compact", strategy = "leveled", NEW i \in Nat, i + 1 = MaxHeight,
           NEW s, s = Tabs(layers, i), NEW ls, \A n \in Nat : Tabs(ls, n) = Tabs(layers, n),
           NEW skip, skip = TRUE, MergeSSTables(s, i, skip, ls)
    PROVE  ReadInv'
<1>1. AllTyped /\ Books /\ Disk /\ Replacing /\ seq \in Nat /\ MaxHeight \in Nat \ {0}
  BY ManagerAssumption DEF Ready, Usual, Basic
<1>2. /\ s \in Seq(Reader) /\ Named(s)
      /\ \A k \in 1 .. Len(s) : <<i, s[k].name>> \in Listed
      /\ \A p \in Listed : p[1] = i => \E k \in 1 .. Len(s) : p = <<i, s[k].name>>
      /\ Ordered(strategy, i) => \A j, k \in 1 .. Len(s) : j < k => s[j].name[2] < s[k].name[2]
      /\ \A p \in Listed : \A k \in 1 .. Len(s) : p[2] = s[k].name => p[1] = i
  <2>1. /\ ManifestInv /\ Books /\ status = "up" /\ failure # "misplaced" /\ worker.pc # "unlist"
        /\ i \in Nat /\ s = Tabs(layers, i)
    BY <1>1
  <2>2. Layered(i, s)
    BY ONLY <2>1, LayerPlaces
  <2> QED
    BY ONLY <2>2 DEF Layered
<1>3. \A p \in Listed : p[1] \in Nat /\ p[1] < MaxHeight
  BY <1>1, ListedPlaces DEF Places
<1>4. ASSUME NEW j \in 1 .. Len(s), NEW p \in Listed, NEW n \in Listed, p[2] = s[j].name,
             Follows(strategy, p, n), n # p
      PROVE  \E a \in 1 .. j - 1 : s[a].name = n[2]
  <2>1. p[1] = i /\ n[1] \in Nat /\ n[1] < MaxHeight
    BY <1>2, <1>3, <1>4
  <2>2. n[1] = i /\ Ordered(strategy, i) /\ n[2][2] < p[2][2]
    BY <1>1, <1>4, <2>1 DEF Follows
  <2>3. PICK a \in 1 .. Len(s) : n = <<i, s[a].name>>
    BY <1>2, <2>2
  <2>4. n[2] = s[a].name /\ s[a].name[2] < s[j].name[2]
    BY <1>4, <2>2, <2>3
  <2>5. s[a].name[2] \in Nat /\ s[j].name[2] \in Nat
    <3>1. s[a] \in Reader /\ s[j] \in Reader
      BY <1>2
    <3> QED
      BY <3>1 DEF Reader
  <2>6. ~(j <= a)
    BY <1>2, <2>2, <2>4, <2>5
  <2> QED
    BY <2>4, <2>6
<1>5. ASSUME NEW j \in 1 .. Len(s), NEW p \in Listed, NEW m \in Listed, p[2] = s[j].name,
             Follows(strategy, m, p)
      PROVE  (\E a \in 1 .. Len(s) : s[a].name = m[2]) \/ m[1] < i
  <2>1. p[1] = i /\ m[1] \in Nat /\ (m[1] < i \/ m[1] = i)
    BY <1>2, <1>3, <1>5 DEF Follows
  <2>2. CASE m[1] = i
    <3>1. PICK a \in 1 .. Len(s) : m = <<i, s[a].name>>
      BY <1>2, <2>2
    <3>2. m[2] = s[a].name
      BY <3>1
    <3> QED
      BY <3>2
  <2> QED
    BY <2>1, <2>2
<1>6. skip \in BOOLEAN /\ skip
  OBVIOUS
<1>7. \A j \in 1 .. Len(s), p \in Listed, n \in Listed, T \in Answers(strategy, Past) :
         /\ p[2] = s[j].name /\ T \in Marks(files[p[2]])
         /\ Has(files[n[2]], T.key) /\ Follows(strategy, p, n) /\ n # p
         => \/ \E a \in 1 .. j - 1 : s[a].name = n[2]
            \/ ~skip /\ (i < n[1] \/ (i = n[1] /\ Ordered(strategy, i)))
  BY <1>4
<1>8. \A j \in 1 .. Len(s), p \in Listed, m \in Listed :
         p[2] = s[j].name /\ Follows(strategy, m, p) =>
            (\E a \in 1 .. Len(s) : s[a].name = m[2]) \/ m[1] < i
  BY <1>5
<1>9. \A j \in 1 .. Len(s) : \E p \in Listed : p[2] = s[j].name
  <2>1. ASSUME NEW j \in 1 .. Len(s) PROVE \E p \in Listed : p[2] = s[j].name
    <3>1. <<i, s[j].name>>[2] = s[j].name
      OBVIOUS
    <3> QED
      BY <1>2, <3>1
  <2> QED
    BY <2>1
<1>10. MergeSSTables(s, i, skip, ls) /\ skip \in BOOLEAN
  OBVIOUS
<1>11. /\ ManifestInv /\ Basic /\ Ready /\ status = "up" /\ failure # "misplaced"
       /\ stray # "listed" /\ worker.pc = "compact" /\ i \in Nat
       /\ \A n \in Nat : Tabs(ls, n) = Tabs(layers, n)
  OBVIOUS
<1>12. i < MaxHeight /\ s \in Seq(Reader) /\ Named(s)
  BY <1>1, <1>2
<1> QED
  BY ONLY <1>7, <1>8, <1>9, <1>10, <1>11, <1>12, MergeReads

(* Leveled compaction of L0.                                               *)
LEMMA LeveledL0Reads ==
    ASSUME ManifestInv, Basic, Ready, failure # "misplaced", stray # "listed", LeveledCompactL0
    PROVE  ReadInv'
<1>. DEFINE tabs == layers[1].tabs
            grown == GrowTo(layers, 1)
            lo == Min({MinKey(t) : t \in ToSet(tabs)})
            hi == Max({MaxKeyOf(t) : t \in ToSet(tabs)})
            ov == Overlapping(lo, hi, grown[2].tabs)
<1>1. /\ status = "up" /\ worker.pc = "compact" /\ strategy = "leveled"
      /\ 1 <= Len(layers) /\ layers \in Seq(Layer) /\ nextId \in Nat /\ seq \in Nat
      /\ AllTyped /\ Books /\ Disk /\ Replacing /\ MaxHeight \in Nat \ {0}
            /\ L0Trigger \in Nat \ {0}
  BY ManagerAssumption
     DEF LeveledCompactL0, AtLayer, ManifestInv, TypeInv, WorkerInv, Ready, Usual, Basic
<1>2. PICK s \in Seq(Reader) : s = tabs /\ s = Tabs(layers, 0)
  <2>1. Tabs(layers, 0) = tabs
    BY <1>1 DEF Tabs
  <2>2. Tabs(layers, 0) \in Seq(Reader)
    BY <1>1, TabsType
  <2> QED
    BY <2>1, <2>2
<1>3. PICK u \in Seq(Reader) : u = grown[2].tabs /\ u = Tabs(layers, 1)
  <2>1. grown \in Seq(Layer) /\ 2 <= Len(grown) /\ \A n \in Nat : Tabs(grown, n) = Tabs(layers, n)
    BY <1>1, GrowTabs
  <2>. HIDE DEF grown
  <2>2. Tabs(layers, 1) \in Seq(Reader) /\ Tabs(layers, 1) = Tabs(grown, 1)
    BY <1>1, <2>1, TabsType
  <2>3. Tabs(grown, 1) = grown[2].tabs
    BY <2>1 DEF Tabs
  <2> QED
    BY <2>2, <2>3
<1>4. \/ GoOn(layers, 1) /\ Untouched
      \/ Len(s) >= L0Trigger /\ MaxHeight = 1 /\ MergeSSTables(s, 0, TRUE, layers)
      \/ Len(s) >= L0Trigger /\ MaxHeight > 1 /\ MergeSSTables(ov \o s, 1, FALSE, grown)
  BY <1>2 DEF LeveledCompactL0
<1>5. PICK a, b, v, ls : a = lo /\ b = hi /\ v = ov /\ ls = grown
  OBVIOUS
<1>6. a = Min({MinKey(t) : t \in ToSet(s)}) /\ b = Max({MaxKeyOf(t) : t \in ToSet(s)})
  BY <1>2, <1>5
<1>7. v = Overlapping(a, b, u) /\ \A n \in Nat : Tabs(ls, n) = Tabs(layers, n)
  <2>1. \A n \in Nat : Tabs(grown, n) = Tabs(layers, n)
    BY <1>1, GrowTabs
  <2>2. v = Overlapping(a, b, u)
    BY <1>3, <1>5
  <2> QED
    BY <1>5, <2>1, <2>2
<1>8. \/ GoOn(layers, 1) /\ Untouched
      \/ Len(s) >= L0Trigger /\ MaxHeight = 1 /\ MergeSSTables(s, 0, TRUE, layers)
      \/ Len(s) >= L0Trigger /\ MaxHeight > 1 /\ MergeSSTables(v \o s, 1, FALSE, ls)
  BY <1>4, <1>5
<1>. HIDE DEF tabs, grown, lo, hi, ov
<1>9. CASE GoOn(layers, 1) /\ Untouched
  <2>1. /\ UNCHANGED <<strategy, status, manifest, failure, hist, rdHist, stray, frags>>
        /\ nextId' = nextId /\ seq' = seq /\ files' = files
    BY <1>9 DEF Untouched, history
  <2> QED
    BY <1>1, <1>9, <2>1, OnwardReads
<1>10. CASE MaxHeight = 1 /\ MergeSSTables(s, 0, TRUE, layers)
  <2>1. PICK i, ls2, skip : i = 0 /\ ls2 = layers /\ skip = TRUE
    OBVIOUS
  <2>2. /\ i \in Nat /\ i + 1 = MaxHeight /\ s = Tabs(layers, i) /\ skip = TRUE
        /\ \A n \in Nat : Tabs(ls2, n) = Tabs(layers, n)
    BY <1>2, <1>10, <2>1
  <2>3. MergeSSTables(s, i, skip, ls2)
    BY ONLY <1>10, <2>1
  <2>4. /\ ManifestInv /\ Basic /\ Ready /\ status = "up" /\ failure # "misplaced"
        /\ stray # "listed" /\ worker.pc = "compact" /\ strategy = "leveled"
    BY <1>1
  <2> QED
    BY ONLY <2>2, <2>4, <2>3, LastReads
<1>11. CASE Len(s) >= L0Trigger /\ MaxHeight > 1 /\ MergeSSTables(v \o s, 1, FALSE, ls)
  <2>1. PICK i, to : i \in Nat /\ to \in Nat /\ i = 0 /\ to = 1
    OBVIOUS
  <2>2. PICK skip : skip = FALSE
    OBVIOUS
  <2>3. /\ Named(s) /\ \A k \in 1 .. Len(s) : <<i, s[k].name>> \in Listed
        /\ \A p \in Listed : p[1] = i => \E k \in 1 .. Len(s) : p = <<i, s[k].name>>
        /\ \A j, k \in 1 .. Len(s) : j < k => s[j].name[2] < s[k].name[2]
    <3>1. s = Tabs(layers, i) /\ worker.pc # "unlist" /\ Ordered(strategy, i)
      BY <1>1, <1>2, <2>1 DEF Ordered
    <3>2. ManifestInv /\ Books /\ status = "up" /\ failure # "misplaced"
      BY <1>1
    <3>3. Layered(i, s)
      BY ONLY <2>1, <3>1, <3>2, LayerPlaces
    <3> QED
      BY ONLY <3>1, <3>3 DEF Layered
  <2>4. /\ Named(u) /\ \A k \in 1 .. Len(u) : <<to, u[k].name>> \in Listed
        /\ \A p \in Listed : p[1] = to => \E k \in 1 .. Len(u) : p = <<to, u[k].name>>
        /\ \A p \in Listed : \A k \in 1 .. Len(u) : p[2] = u[k].name => p[1] = to
    <3>1. u = Tabs(layers, to) /\ worker.pc # "unlist"
      BY <1>1, <1>3, <2>1
    <3>2. ManifestInv /\ Books /\ status = "up" /\ failure # "misplaced"
      BY <1>1
    <3>3. Layered(to, u)
      BY ONLY <2>1, <3>1, <3>2, LayerPlaces
    <3> QED
      BY ONLY <3>3 DEF Layered
  <2>5. (\A k \in 1 .. Len(s) : Keyed(s[k])) /\ (\A k \in 1 .. Len(u) : Keyed(u[k]))
    <3>1. \A t : (\E p \in Listed : p[2] = t.name) => Keyed(t)
      BY <1>1, ListedKeyed
    <3>2. \A n, x : <<n, x>>[2] = x
      OBVIOUS
    <3>3. ASSUME NEW k \in 1 .. Len(s) PROVE Keyed(s[k])
      BY <2>3, <3>1, <3>2
    <3>4. ASSUME NEW k \in 1 .. Len(u) PROVE Keyed(u[k])
      BY <2>4, <3>1, <3>2
    <3> QED
      BY <3>3, <3>4
  <2>6. /\ a \in Nat /\ b \in Nat
        /\ \A k \in 1 .. Len(s) : \A x : Has(files[s[k].name], x) => a <= x /\ x <= b
    <3>1. s # <<>>
      BY <1>1, <1>11
    <3> QED
      BY <1>6, <2>5, <3>1, ListBounds
  <2>7. /\ v \in Seq(Reader) /\ \A k \in 1 .. Len(v) : \E j \in 1 .. Len(u) : v[k] = u[j]
        /\ \A j \in 1 .. Len(u) : \A x : Has(files[u[j].name], x) /\ a <= x /\ x <= b =>
              \E k \in 1 .. Len(v) : v[k] = u[j]
    <3>1. Takes(v, u, a, b)
      BY ONLY <1>7, <2>5, <2>6, u \in Seq(Reader), OverlappingHas
    <3> QED
      BY ONLY <3>1 DEF Takes
  <2>8. PICK in \in Seq(Reader) :
           /\ in = v \o s /\ Len(in) = Len(v) + Len(s)
           /\ \A j \in 1 .. Len(v) + Len(s) : in[j] = IF j <= Len(v) THEN v[j] ELSE s[j - Len(v)]
    <3>1. v \in Seq(Reader) /\ s \in Seq(Reader)
      BY <2>7
    <3>2. /\ v \o s \in Seq(Reader) /\ Len(v \o s) = Len(v) + Len(s)
          /\ \A j \in 1 .. Len(v) + Len(s) :
                (v \o s)[j] = IF j <= Len(v) THEN v[j] ELSE s[j - Len(v)]
      BY ONLY <3>1, ConcatProperties
    <3> QED
      BY ONLY <3>2
  <2>9. Len(v) \in Nat /\ Len(s) \in Nat
    BY <2>7
  <2>10. ASSUME NEW j \in 1 .. Len(in)
        PROVE  \/ j <= Len(v) /\ j \in 1 .. Len(v) /\ in[j] = v[j]
                     /\ \E k \in 1 .. Len(u) : in[j] = u[k]
               \/ \E k \in 1 .. Len(s) : j = Len(v) + k /\ in[j] = s[k]
    <3>1. CASE j <= Len(v)
      <4>1. j \in 1 .. Len(v) /\ in[j] = v[j]
        BY <2>8, <2>9, <3>1
      <4>2. PICK k \in 1 .. Len(u) : v[j] = u[k]
        BY <2>7, <4>1
      <4> QED
        BY <3>1, <4>1, <4>2
    <3>2. CASE ~(j <= Len(v))
      <4>1. PICK k \in 1 .. Len(s) : j = Len(v) + k
        <5>1. j - Len(v) \in 1 .. Len(s) /\ j = Len(v) + (j - Len(v))
          BY <2>8, <2>9, <3>2
        <5> QED
          BY <5>1
      <4>2. in[j] = s[k]
        <5>1. j - Len(v) = k /\ j \in 1 .. Len(v) + Len(s)
          BY <2>8, <2>9, <4>1
        <5> QED
          BY <2>8, <3>2, <5>1
      <4> QED
        BY <4>1, <4>2
    <3> QED
      BY <3>1, <3>2
  <2>11. \A k \in 1 .. Len(v) : k \in 1 .. Len(in) /\ in[k] = v[k]
    BY <2>8, <2>9
  <2>12. \A k \in 1 .. Len(s) : Len(v) + k \in 1 .. Len(in) /\ in[Len(v) + k] = s[k]
    <3>1. ASSUME NEW k \in 1 .. Len(s) PROVE Len(v) + k \in 1 .. Len(in) /\ in[Len(v) + k] = s[k]
      <4>1. PICK j : j = Len(v) + k
        OBVIOUS
      <4>2. j \in 1 .. Len(v) + Len(s) /\ ~(j <= Len(v)) /\ j - Len(v) = k
        BY <2>9, <4>1
      <4>3. j \in 1 .. Len(in) /\ in[j] = s[k]
        BY <2>8, <4>2
      <4> QED
        BY <4>1, <4>3
    <3> QED
      BY <3>1
  <2>13. Named(in)
    BY <2>3, <2>4, <2>10 DEF Named
  <2>14. ASSUME NEW j \in 1 .. Len(in)
         PROVE  \E p \in Listed :
                   /\ p[2] = in[j].name
                   /\ \/ p[1] = to
                      \/ p[1] = i /\ \A x : Has(files[in[j].name], x) => a <= x /\ x <= b
    <3>1. CASE \E k \in 1 .. Len(u) : in[j] = u[k]
      <4>1. PICK k \in 1 .. Len(u) : in[j] = u[k]
        BY <3>1
      <4>2. PICK p : p = <<to, u[k].name>>
        OBVIOUS
      <4> QED
        BY <2>4, <4>1, <4>2
    <3>2. CASE \E k \in 1 .. Len(s) : in[j] = s[k]
      <4>1. PICK k \in 1 .. Len(s) : in[j] = s[k]
        BY <3>2
      <4>2. PICK p : p = <<i, s[k].name>>
        OBVIOUS
      <4> QED
        BY <2>3, <2>6, <4>1, <4>2
    <3> QED
      BY <2>10, <3>1, <3>2
(* An input of L0 comes after all those of L1.                             *)
  <2>15. ASSUME NEW j \in 1 .. Len(in), <<i, in[j].name>> \in Listed
         PROVE  \E k \in 1 .. Len(s) : j = Len(v) + k /\ in[j] = s[k]
    <3>1. CASE \E k \in 1 .. Len(u) : in[j] = u[k]
      <4>1. PICK k \in 1 .. Len(u) : in[j] = u[k]
        BY <3>1
      <4>2. PICK p : p = <<i, in[j].name>>
        OBVIOUS
      <4>3. p[1] = to /\ p[1] = i
        BY <2>4, <2>15, <4>1, <4>2
      <4> QED
        BY <2>1, <4>3
    <3> QED
      BY <2>10, <3>1
  <2>16. ASSUME NEW j \in 1 .. Len(in), NEW n \in Listed, NEW x,
                <<i, in[j].name>> \in Listed, n[1] = to, Has(files[n[2]], x), a <= x, x <= b
         PROVE  \E c \in 1 .. j - 1 : in[c].name = n[2]
    <3>1. PICK h \in 1 .. Len(u) : n = <<to, u[h].name>>
      BY <2>4, <2>16
    <3>2. n[2] = u[h].name
      BY <3>1
    <3>3. PICK c \in 1 .. Len(v) : v[c] = u[h]
      BY <2>7, <2>16, <3>2
    <3>4. PICK k \in 1 .. Len(s) : j = Len(v) + k
      BY <2>15, <2>16
    <3>5. c \in 1 .. j - 1
      BY <2>9, <3>4
    <3>6. in[c] = u[h]
      BY <2>11, <3>3
    <3> QED
      BY <3>2, <3>5, <3>6
  <2>17. ASSUME NEW j \in 1 .. Len(in), NEW n \in Listed,
                <<0, in[j].name>> \in Listed, n[1] = 0, n[2][2] < in[j].name[2]
         PROVE  \E c \in 1 .. j - 1 : in[c].name = n[2]
    <3>1. PICK k \in 1 .. Len(s) : j = Len(v) + k /\ in[j] = s[k]
      BY <2>1, <2>15, <2>17
    <3>2. PICK h \in 1 .. Len(s) : n = <<i, s[h].name>>
      BY <2>1, <2>3, <2>17
    <3>3. n[2] = s[h].name /\ s[h].name[2] < s[k].name[2]
      BY <2>17, <3>1, <3>2
    <3>4. s[h].name[2] \in Nat /\ s[k].name[2] \in Nat
      <4>1. s[h] \in Reader /\ s[k] \in Reader
        OBVIOUS
      <4> QED
        BY <4>1 DEF Reader
    <3>5. h < k
      BY <2>3, <3>3, <3>4
    <3>6. Len(v) + h \in 1 .. j - 1 /\ in[Len(v) + h] = s[h]
      BY <2>9, <2>12, <3>1, <3>5
    <3> QED
      BY <3>3, <3>6
  <2>18. to = i + 1 /\ to < MaxHeight /\ skip = FALSE
    BY <1>1, <1>11, <2>2, <2>1
  <2>19. MergeSSTables(in, to, skip, ls)
    BY ONLY <1>11, <2>2, <2>1, <2>8
  <2>20. /\ ManifestInv /\ Basic /\ Ready /\ status = "up" /\ failure # "misplaced"
         /\ stray # "listed" /\ worker.pc = "compact" /\ strategy = "leveled"
         /\ \A n \in Nat : Tabs(ls, n) = Tabs(layers, n)
    BY <1>1, <1>7
  <2>21. Lowering(i, to, in, a, b)
    BY ONLY <2>14, <2>16, <2>17 DEF Lowering
  <2> QED
    BY ONLY <2>1, in \in Seq(Reader), <2>13, <2>18, <2>20, <2>19, <2>21, LowerReads
<1> QED
  BY <1>8, <1>9, <1>10, <1>11

-----------------------------------------------------------------------------
(* Moves.                                                                  *)

(* Lists with the same numbers and names.                                  *)
LEMMA IdentifiedSame ==
    ASSUME NEW g, NEW h, \A n \in Nat : Same(g[n], h[n]), NEW top, Identified(g, top)
    PROVE  Identified(h, top)
<1>1. ASSUME NEW n \in Nat
      PROVE  /\ Len(g[n]) = Len(h[n])
             /\ \A k \in 1 .. Len(h[n]) : h[n][k].id = g[n][k].id /\ h[n][k].name = g[n][k].name
  BY DEF Same
<1>2. (\A n \in Nat : Named(g[n])) /\ Distinct(g) /\ Earlier(g, top)
  BY DEF Identified
<1>3. ASSUME NEW n \in Nat PROVE Named(h[n])
  <2>1. Named(g[n])
    BY <1>2
  <2> QED
    BY <1>1, <2>1 DEF Named
<1>4. Distinct(h)
  <2>1. ASSUME NEW n \in Nat, NEW l \in Nat, NEW j \in 1 .. Len(h[n]), NEW k \in 1 .. Len(h[l]),
               h[n][j].id = h[l][k].id
        PROVE  n = l /\ j = k
    <3>1. /\ j \in 1 .. Len(g[n]) /\ k \in 1 .. Len(g[l]) /\ g[n][j].id = g[l][k].id
      BY <1>1, <2>1
    <3> QED
      BY ONLY n \in Nat, l \in Nat, <1>2, <3>1 DEF Distinct
  <2> QED
    BY ONLY <2>1 DEF Distinct
<1>5. Earlier(h, top)
  BY <1>1, <1>2 DEF Earlier
<1> QED
  BY <1>3, <1>4, <1>5 DEF Identified

(* A table joins the list to, where it was the j-th of the list i; it      *)
(* leaves the list k if it is there.                                       *)
Moved(g, h, top, i, k, to, id, e) ==
    /\ g \in Lists /\ h \in Lists /\ top \in Int /\ Identified(g, top)
    /\ i \in Nat /\ k \in Nat /\ to \in Nat /\ e \in Reader /\ e.id = id /\ e.name[2] = id
    /\ Shifted(g, h, k, to, id, e)
    /\ \E j \in 1 .. Len(g[i]) : g[i][j].id = id /\ g[i][j].name = e.name

(* The places of the tables once one of them has moved to a lower layer.   *)
LEMMA MovedView ==
    ASSUME NEW g, NEW h, NEW top, NEW i, NEW k, NEW to, NEW id, NEW e,
           Moved(g, h, top, i, k, to, id, e)
    PROVE  \/ k = i /\ View(h) = (View(g) \ {<<i, e.name>>}) \cup {<<to, e.name>>}
                 /\ Identified(h, top)
           \/ k # i /\ View(h) = View(g) \cup {<<to, e.name>>}
<1>1. /\ g \in Lists /\ h \in Lists /\ top \in Int /\ Identified(g, top)
      /\ i \in Nat /\ k \in Nat /\ to \in Nat /\ e \in Reader /\ e.id = id /\ e.name[2] = id
      /\ Shifted(g, h, k, to, id, e)
  BY DEF Moved
<1>2. PICK j \in 1 .. Len(g[i]) : g[i][j].id = id /\ g[i][j].name = e.name
  BY DEF Moved
<1>3. PICK m : m = [n \in Nat |-> Left(g[n], n, k, id)]
  OBVIOUS
<1>4. /\ \A n \in Nat : m[n] = (IF n = k THEN Without(g[n], id) ELSE g[n]) /\ m[n] \in Seq(Reader)
      /\ m \in Lists
  <2>1. ASSUME NEW n \in Nat
        PROVE  m[n] = (IF n = k THEN Without(g[n], id) ELSE g[n]) /\ m[n] \in Seq(Reader)
    <3>1. PICK s \in Seq(Reader) : s = g[n]
      BY <1>1 DEF Lists
    <3>2. Without(s, id) \in Seq(Reader)
      BY WithoutFacts
    <3> QED
      BY <1>3, <3>1, <3>2 DEF Left
  <2> QED
    BY <1>3, <2>1 DEF Lists
<1>5. Joins(m, h, to, e)
  BY <1>1, <1>3 DEF Joins, Shifted
<1>6. View(h) = View(m) \cup {<<to, e.name>>}
  BY ONLY <1>1, <1>4, <1>5, ViewJoins
<1>7. ASSUME NEW l \in Nat, NEW x \in 1 .. Len(g[l]), g[l][x].id = id PROVE l = i /\ x = j
  <2>1. Distinct(g) /\ g[l][x].id = g[i][j].id
    BY <1>1, <1>2, <1>7 DEF Identified
  <2> QED
    BY ONLY <1>1, l \in Nat, x \in 1 .. Len(g[l]), j \in 1 .. Len(g[i]), <2>1 DEF Distinct
<1>8. CASE k = i
  <2>1. Leaves(g, m, i, id)
    BY <1>1, <1>2, <1>4, <1>8 DEF Leaves
  <2>2. PICK name : name = e.name
    OBVIOUS
  <2>3. name[2] = id /\ \A x \in 1 .. Len(g[i]) : g[i][x].id = id => g[i][x].name = name
    BY <1>1, <1>2, <1>7, <2>2
  <2>4. View(m) = {p \in View(g) : p[2] # name} /\ Identified(m, top)
    BY ONLY <1>1, <1>4, <2>1, <2>3, ViewLeaves
  <2>5. /\ View(g) \subseteq Places /\ \A p, q \in View(g) : p[2][2] = q[2][2] => p = q
        /\ \A p \in View(g) : p[2][2] < top
    BY <1>1, ViewFacts
  <2>6. <<i, name>> \in View(g)
    BY <1>1, <1>2, <2>2, ViewElement
  <2>7. View(m) = View(g) \ {<<i, name>>}
    <3>1. \A p \in View(g) : p[2] = name => p = <<i, name>>
      BY <2>5, <2>6
    <3> QED
      BY <2>4, <3>1
  <2>8. Fresh(m, top, e)
    <3>1. ASSUME NEW l \in Nat, NEW x \in 1 .. Len(m[l]) PROVE m[l][x].id # id
      <4>1. PICK p : p = <<l, m[l][x].name>>
        OBVIOUS
      <4>2. p \in View(m) /\ m[l][x].id = p[2][2]
        <5>1. Named(m[l])
          BY <2>4 DEF Identified
        <5> QED
          BY <4>1, <5>1, ViewElement DEF Named
      <4> QED
        BY <2>3, <2>4, <2>5, <2>6, <4>2
    <3>2. id < top
      <4>1. <<i, name>>[2] = name
        OBVIOUS
      <4> QED
        BY <2>3, <2>5, <2>6, <4>1
    <3> QED
      BY <1>1, <3>1, <3>2 DEF Fresh
  <2>9. Identified(h, top)
    BY ONLY <1>1, <1>4, <1>5, <2>4, <2>8, IdentifiedJoins
  <2> QED
    BY <1>6, <1>8, <2>2, <2>7, <2>9
<1>9. CASE k # i
  <2>1. m = g
    <3>1. ASSUME NEW n \in Nat PROVE m[n] = g[n]
      <4>1. CASE n = k
        <5>1. ~\E x \in 1 .. Len(g[n]) : g[n][x].id = id
          BY <1>7, <1>9, <4>1
        <5> QED
          BY <1>4, <4>1, <5>1, WithoutAbsent
      <4>2. CASE n # k
        BY <1>4, <4>2
      <4> QED
        BY <4>1, <4>2
    <3> QED
      BY <1>1, <1>4, <3>1 DEF Lists
  <2> QED
    BY <1>6, <1>9, <2>1
<1> QED
  BY <1>8, <1>9

(* MoveSSTable takes the first table of layer i to the next one, where no  *)
(* table has a key in its range.                                           *)
LEMMA MoveReads ==
    ASSUME ManifestInv, Basic, Ready, status = "up", failure # "misplaced", stray # "listed",
           worker.pc = "compact", strategy = "leveled",
           NEW ls \in Seq(Layer), Len(layers) <= Len(ls),
           \A n \in Nat : Tabs(ls, n) = Tabs(layers, n),
           NEW i \in Nat, i # 0, Tabs(layers, i) # <<>>, NEW t, t = Tabs(layers, i)[1],
           NEW to \in Nat, to = i + 1, to < MaxHeight, MoveSSTable(t, to, ls),
           Takes(<<>>, Tabs(layers, to), MinKey(t), MaxKeyOf(t))
    PROVE  ReadInv'
<1>1. /\ AllTyped /\ CacheSound /\ Books /\ Disk /\ Store /\ Replacing /\ seq \in Nat
      /\ nextId \in Nat /\ manifest.next \in Int /\ manifest.next <= nextId
  BY RowLists DEF Ready, Usual, Basic, ManifestInv, TypeInv, Disk
<1>2. PICK k \in Nat, id \in Nat, mv \in Reader, e \in Reader : Relocated(t, to, k, id, mv, e)
  BY MoveTables
<1>3. /\ t.id = id /\ mv.id = id /\ mv.name = t.name
      /\ failure' # "misplaced" =>
            e.id = id /\ e.name = t.name /\ \E j \in 1 .. Len(Rows(k)) : e = Rows(k)[j]
      /\ worker'.pc \in {"idle", "compact"} /\ worker'.inputs = <<>>
      /\ UNCHANGED <<strategy, nextId, status, files>>
      /\ layers' \in Seq(Layer) /\ manifest' \in Manifest /\ manifest'.next = nextId
  BY <1>2 DEF Relocated
<1>4. \A n \in Nat :
         /\ Tabs(layers', n) = IF n = to THEN Append(Left(Tabs(layers, n), n, k, id), mv)
                               ELSE Left(Tabs(layers, n), n, k, id)
         /\ ManifestRows(manifest', n) = IF n = to THEN Append(Left(Rows(n), n, k, id), e)
                                         ELSE Left(Rows(n), n, k, id)
  BY <1>2, SMTT(40) DEF Relocated, Rows
<1>5. /\ UNCHANGED <<frags, seq, hist, rdHist>> /\ \E x, m : GoOn(x, m)
      /\ stray' = "left"
  BY DEF MoveSSTable
<1>6. worker'.content = Idle.content /\ (worker'.pc = "idle" => worker' = Idle)
  <2>1. PICK x, m : GoOn(x, m)
    BY <1>5
  <2>2. worker' = Idle \/ worker' = [Idle EXCEPT !.pc = "compact", !.i = m]
    BY <2>1 DEF GoOn
  <2>3. CASE worker' = Idle
    BY <2>3
  <2>4. CASE worker' = [Idle EXCEPT !.pc = "compact", !.i = m]
    BY <2>4 DEF Idle
  <2> QED
    BY <2>2, <2>3, <2>4
<1>7. PICK g \in Lists, r \in Lists : g = AllTabs(layers) /\ r = AllRows(manifest)
  BY ListsType, RowLists DEF ManifestInv, TypeInv
<1>8. \A n \in Nat : g[n] = Tabs(layers, n) /\ r[n] = Rows(n) /\ Same(r[n], g[n])
  <2>1. \A n \in Nat : Same(Rows(n), Tabs(layers, n))
    BY DEF ManifestInv, Agreement, RowsLeft
  <2> QED
    BY <1>7, <2>1 DEF AllTabs, AllRows, Rows
<1>9. PICK top \in Int : top = manifest.next
  BY <1>1
<1>10. Identified(r, top) /\ Sorted(strategy, r) /\ Identified(g, top)
  <2>1. Identified(r, top) /\ Sorted(strategy, r)
    BY <1>1, <1>7, <1>9 DEF Books
  <2> QED
    BY <1>8, <2>1, IdentifiedSame
<1>11. Listed = View(r) /\ Seen = View(g) /\ View(g) = View(r)
  BY <1>7, <1>8, LeftRows, ViewSame DEF Listed, Seen
<1>12. 1 \in 1 .. Len(g[i]) /\ t = g[i][1] /\ t \in Reader /\ t.name[2] = id
  <2>1. PICK s \in Seq(Reader) : s = g[i]
    BY DEF Lists
  <2>2. s # <<>> /\ t = s[1]
    BY <1>8, <2>1
  <2>3. 1 \in 1 .. Len(s) /\ s[1] \in Reader
    BY <2>2
  <2>4. Named(s)
    BY <1>10, <2>1 DEF Identified
  <2> QED
    BY <1>3, <2>1, <2>2, <2>3, <2>4 DEF Named
<1>13. PICK h \in Lists : h = AllTabs(layers') /\ \A n \in Nat : h[n] = Tabs(layers', n)
  BY <1>3, ListsType DEF AllTabs
<1>14. PICK p, q : p = <<i, t.name>> /\ q = <<to, t.name>>
  OBVIOUS
<1>15. p \in Listed /\ p \in Places /\ q \in Places /\ q[2] = p[2] /\ q[1] = p[1] + 1 /\ p[1] # 0
          /\ p[2] = t.name
  <2>1. p \in Listed
    BY <1>11, <1>12, <1>14, ViewElement
  <2>2. t.name \in Int \X Nat
    BY <1>12 DEF Reader
  <2> QED
    BY <1>14, <2>1, <2>2 DEF Places
<1>16. \/ Seen' = (Listed \ {p}) \cup {q}
       \/ Seen' = Listed \cup {q}
  <2>1. Shifted(g, h, k, to, id, mv)
    BY <1>4, <1>8, <1>13 DEF Shifted
  <2>2. Moved(g, h, top, i, k, to, id, mv)
    BY <1>3, <1>10, <1>12, <2>1 DEF Moved
  <2>3. View(h) = (View(g) \ {<<i, mv.name>>}) \cup {<<to, mv.name>>}
           \/ View(h) = View(g) \cup {<<to, mv.name>>}
    BY ONLY <2>2, MovedView
  <2> QED
    BY <1>3, <1>11, <1>13, <1>14, <2>3 DEF Seen
<1>17. PICK fs, P : fs = files /\ P = Past
  OBVIOUS
<1>18. Opens(fs, Listed) /\ Good(strategy, P, fs, Listed) /\ Listed \subseteq Places
  BY <1>1, <1>17, ListedPlaces DEF Disk, Store
<1>19. ASSUME NEW n \in Listed, n[1] = q[1], NEW T \in Answers(strategy, P), T \in Marks(fs[p[2]])
       PROVE  ~Has(fs[n[2]], T.key)
  <2>1. (\A x \in Listed : Typed(files[x[2]], seq)) /\ \A x : (\E y \in Listed : y[2] = x.name) =>
           Keyed(x)
    BY <1>1, ListedKeyed
  <2>2. Has(files[t.name], T.key)
    <3>1. Typed(files[p[2]], seq)
      BY <1>15, <2>1
    <3> QED
      BY <1>1, <1>15, <1>17, <1>19, <3>1, LeveledAnswer
  <2>3. MinKey(t) <= T.key /\ T.key <= MaxKeyOf(t)
    <3>1. Keyed(t)
      BY <1>15, <2>1
    <3> QED
      BY <2>2, <3>1, KeyBounds
  <2>4. PICK u : u = Tabs(layers, to)
    OBVIOUS
  <2>5. Layered(to, u)
    <3>1. worker.pc # "unlist"
      OBVIOUS
    <3> QED
      BY <1>1, <2>4, <3>1, LayerPlaces
  <2>6. PICK x \in 1 .. Len(u) : n = <<to, u[x].name>>
    BY <1>14, <1>15, <1>19, <2>5 DEF Layered
  <2>7. n[2] = u[x].name
    BY <2>6
  <2>8. ~Has(files[u[x].name], T.key)
    <3>1. Takes(<<>>, u, MinKey(t), MaxKeyOf(t))
      BY <2>4
    <3>2. Has(files[u[x].name], T.key) => \E y \in 1 .. Len(<<>>) : <<>>[y] = u[x]
      BY ONLY x \in 1 .. Len(u), <2>3, <3>1 DEF Takes
    <3> QED
      BY <3>2
  <2> QED
    BY <1>17, <2>7, <2>8
<1>20. ASSUME NEW U, U = (Listed \ {p}) \cup {q} \/ U = Listed \cup {q}
       PROVE  Opens(fs, U) /\ Good(strategy, P, fs, U)
  <2>1. Good(strategy, P, fs, U)
    <3>1. PICK V : V = Listed
      OBVIOUS
    <3>2. /\ V \subseteq Places /\ Good(strategy, P, fs, V) /\ strategy = "leveled"
          /\ p \in V /\ q \in Places /\ q[2] = p[2] /\ q[1] = p[1] + 1 /\ p[1] # 0
          /\ \A n \in V : n[1] = q[1] => \A T \in Answers(strategy, P) :
                T \in Marks(fs[p[2]]) => ~Has(fs[n[2]], T.key)
          /\ U = V \cup {q} \/ U = (V \ {p}) \cup {q}
      BY <1>15, <1>18, <1>19, <1>20, <3>1
    <3> QED
      BY ONLY <3>2, GoodMove
  <2>2. Opens(fs, U)
    BY <1>15, <1>18, <1>20 DEF Opens
  <2> QED
    BY <2>1, <2>2
<1>21. Basic'
  BY <1>1, <1>3, <1>5, <1>6 DEF Basic
<1>22. AllTyped'
  BY <1>1, <1>3, <1>5, <1>6, IdleTyped DEF AllTyped
<1>23. CacheSound'
  <2>1. {files[x[2]].rds : x \in Seen'} = {files[x[2]].rds : x \in Listed} /\ Seen = Listed
    BY <1>11, <1>15, <1>16
  <2>2. ~frags.dirty /\ frags.val # {} =>
           frags.val = FragmentRangeTombstones(UNION {files[x[2]].rds : x \in Seen})
    BY <1>1, <1>11, <1>15 DEF CacheSound, MuFree
  <2> QED
    BY <1>3, <1>5, <2>1, <2>2 DEF CacheSound
<1>24. Past' = Past
  BY <1>5 DEF Past
<1>25. ASSUME failure' = "misplaced" PROVE Misplaced'
  BY <1>3, <1>16, <1>17, <1>20, <1>24 DEF Misplaced
<1>26. ASSUME failure' # "misplaced" PROVE Usual'
  <2>1. PICK h2 \in Lists : h2 = AllRows(manifest')
                /\ \A n \in Nat : h2[n] = ManifestRows(manifest', n)
    BY <1>3, ListsType
  <2>2. PICK j \in 1 .. Len(r[k]) : e = r[k][j] /\ e.id = id /\ e.name = t.name
    BY <1>3, <1>8, <1>26
  <2>3. Shifted(r, h2, k, to, id, e)
    BY <1>4, <1>8, <2>1 DEF Shifted
  <2>4. k = i
    <3>1. 1 \in 1 .. Len(r[i]) /\ r[i][1].id = id
      BY <1>3, <1>8, <1>12 DEF Same
    <3>2. Distinct(r) /\ r[i][1].id = r[k][j].id
      BY <1>10, <2>2, <3>1 DEF Identified
    <3> QED
      BY ONLY <3>1, <3>2, <2>2, j \in 1 .. Len(r[k]), i \in Nat, k \in Nat DEF Distinct
  <2>5. Moved(r, h2, top, i, k, to, id, e)
    BY <1>10, <1>12, <2>2, <2>3, <2>4 DEF Moved
  <2>6. View(h2) = (View(r) \ {<<i, e.name>>}) \cup {<<to, e.name>>} /\ Identified(h2, top)
    BY ONLY <2>4, <2>5, MovedView
  <2>7. Listed' = (Listed \ {p}) \cup {q} /\ View(h2) = Listed'
    <3>1. Kept' = AllRows(manifest')
      BY <1>3 DEF Kept, AllRows, RowsLeft, Rows
    <3> QED
      BY <1>11, <1>14, <2>1, <2>2, <2>6, <3>1 DEF Listed
  <2>8. Books'
    <3>1. Identified(h2, nextId)
      <4>1. \A n \in Nat : \A x \in 1 .. Len(h2[n]) : h2[n][x].id \in Nat
        BY ListElement
      <4>2. \A x \in Nat : x < top => x < nextId
        BY <1>1, <1>9
      <4> QED
        BY <2>6, <4>1, <4>2 DEF Identified, Earlier
    <3>2. Sorted(strategy, h2)
      <4>1. \A n \in Nat : Ordered(strategy, n) => n = 0
        BY DEF Ordered
      <4>2. h2[0] = r[0]
        BY <2>3, <2>4 DEF Shifted, Left
      <4> QED
        BY <1>10, <4>1, <4>2 DEF Sorted
    <3>3. \A x \in View(h2) : x[1] < MaxHeight
      <4>1. q[1] = to
        BY <1>14
      <4>2. \A x \in Listed : x[1] < MaxHeight
        BY <1>1, ListedPlaces
      <4> QED
        BY <2>7, <4>1, <4>2
    <3> QED
      BY <1>3, <1>5, <2>1, <3>1, <3>2, <3>3 DEF Books
  <2>9. Opens(fs, Listed') /\ Good(strategy, P, fs, Listed')
    BY <1>20, <2>7
  <2>10. Disk'
    BY <1>1, <1>3, <1>5, <1>17, <2>9 DEF Disk
  <2>11. Store'
    BY <1>3, <1>17, <1>24, <2>9 DEF Store
  <2>12. Writing' /\ Replacing'
    BY <1>3 DEF Writing, Replacing
  <2>13. Rebuilding'
    BY <1>3 DEF Rebuilding
  <2> QED
    BY <2>8, <2>10, <2>11, <2>12, <2>13 DEF Usual
<1> QED
  BY <1>21, <1>22, <1>23, <1>25, <1>26 DEF ReadInv, Ready

(* Leveled compaction of a layer below L0.                                 *)
LEMMA LeveledReads ==
    ASSUME ManifestInv, Basic, Ready, failure # "misplaced", stray # "listed", LeveledCompact
    PROVE  ReadInv'
<1>. DEFINE i == worker.i
            tabs == layers[i + 1].tabs
            read == [layers EXCEPT ![i + 1].needsUpdate = FALSE]
            last == i = MaxHeight - 1
            to == Min({i + 1, MaxHeight - 1})
            grown == GrowTo(read, to)
            ov == Overlapping(MinKey(tabs[1]), MaxKeyOf(tabs[1]), grown[to + 1].tabs)
<1>1. /\ status = "up" /\ worker.pc = "compact" /\ strategy = "leveled" /\ i \in Nat /\ i # 0
      /\ i + 1 <= Len(layers) /\ layers \in Seq(Layer) /\ nextId \in Nat /\ seq \in Nat
      /\ AllTyped /\ Books /\ Disk /\ Replacing /\ MaxHeight \in Nat \ {0}
  <2>1. worker.i \in Nat /\ layers \in Seq(Layer) /\ nextId \in Nat
    BY DEF ManifestInv, TypeInv, WorkerInv
  <2>2. /\ status = "up" /\ worker.pc = "compact" /\ strategy = "leveled" /\ worker.i > 0
        /\ worker.i < Len(layers)
    BY DEF LeveledCompact, AtLayer
  <2>3. MaxHeight \in Nat \ {0}
    BY ManagerAssumption
  <2>4. seq \in Nat /\ AllTyped /\ Books /\ Disk /\ Replacing
    BY DEF Ready, Usual, Basic
  <2> QED
    BY <2>1, <2>2, <2>3, <2>4
<1>2. PICK s \in Seq(Reader) : s = tabs /\ s = Tabs(layers, i)
  BY <1>1, TabsType DEF Tabs
<1>3. /\ read \in Seq(Layer) /\ Len(read) = Len(layers)
      /\ \A n \in Nat : Tabs(read, n) = Tabs(layers, n)
  <2>. DEFINE L == [layers[i + 1] EXCEPT !.needsUpdate = FALSE]
  <2>1. L \in Layer /\ L.tabs = Tabs(layers, i)
    <3>1. layers[i + 1] \in Layer
      BY <1>1
    <3> QED
      BY <1>1, <3>1 DEF Layer, Tabs
  <2>2. read = [layers EXCEPT ![i + 1] = L]
    BY <1>1
  <2>. HIDE DEF L, read
  <2>3. /\ [layers EXCEPT ![i + 1] = L] \in Seq(Layer)
        /\ Len([layers EXCEPT ![i + 1] = L]) = Len(layers)
        /\ \A n \in Nat : Tabs([layers EXCEPT ![i + 1] = L], n) =
                             IF n = i THEN L.tabs ELSE Tabs(layers, n)
    BY <1>1, <2>1, PutTabs
  <2> QED
    BY <2>1, <2>2, <2>3
<1>4. to \in Nat
  <2>1. i + 1 \in Nat /\ MaxHeight - 1 \in Nat
    BY <1>1
  <2> QED
    BY <2>1, MinOfNats
<1>5. \/ GoOn(read, i + 1) /\ Untouched
      \/ last /\ MergeSSTables(s, i, TRUE, read)
      \/ ~last /\ s # <<>> /\ ov = <<>> /\ MoveSSTable(s[1], to, grown)
      \/ ~last /\ s # <<>> /\ MergeSSTables(Append(ov, s[1]), to, FALSE, grown)
  BY <1>2 DEF LeveledCompact
<1>6. PICK ls, low : ls \in Seq(Layer) /\ ls = read /\ low = to
  BY <1>3
<1>7. PICK gr \in Seq(Layer), u \in Seq(Reader) :
         /\ gr = grown /\ u = Tabs(layers, low) /\ u = grown[to + 1].tabs
         /\ Len(layers) <= Len(gr) /\ \A n \in Nat : Tabs(gr, n) = Tabs(layers, n)
  <2>. HIDE DEF to, read
  <2>1. /\ grown \in Seq(Layer) /\ Len(layers) <= Len(grown) /\ to + 1 <= Len(grown)
        /\ \A n \in Nat : Tabs(grown, n) = Tabs(layers, n)
    BY <1>1, <1>3, <1>4, GrowTabs
  <2>. HIDE DEF grown
  <2>2. Tabs(grown, to) = grown[to + 1].tabs /\ Tabs(grown, to) \in Seq(Reader)
    BY <1>4, <2>1, TabsType DEF Tabs
  <2> QED
    BY <1>4, <1>6, <2>1, <2>2
<1>8. PICK v : v = ov
  OBVIOUS
<1>9. \/ GoOn(ls, i + 1) /\ Untouched
      \/ last /\ MergeSSTables(s, i, TRUE, ls)
      \/ ~last /\ s # <<>> /\ v = <<>> /\ MoveSSTable(s[1], low, gr)
      \/ ~last /\ s # <<>> /\ MergeSSTables(Append(v, s[1]), low, FALSE, gr)
  BY <1>5, <1>6, <1>7, <1>8
<1>10. s # <<>> => v = Overlapping(MinKey(s[1]), MaxKeyOf(s[1]), u)
  BY <1>2, <1>7, <1>8
<1>11. ~last /\ s # <<>> => i + 1 < MaxHeight /\ low = i + 1 /\ low \in Nat
  <2>. SUFFICES ASSUME ~last, s # <<>> PROVE i + 1 < MaxHeight /\ low = i + 1 /\ low \in Nat
    OBVIOUS
  <2>1. i < MaxHeight
    <3>1. Layered(i, s)
      BY <1>1, <1>2, LayerPlaces
    <3>2. 1 \in 1 .. Len(s)
      OBVIOUS
    <3>3. PICK p \in Listed : p = <<i, s[1].name>>
      BY <3>1, <3>2 DEF Layered
    <3>4. p[1] < MaxHeight /\ p[1] = i
      BY <1>1, <3>3, ListedPlaces
    <3> QED
      BY <3>4
  <2>2. i + 1 \in Nat /\ MaxHeight - 1 \in Nat /\ i + 1 <= MaxHeight - 1
    <3>1. i \in Nat /\ MaxHeight \in Nat /\ i < MaxHeight /\ i # MaxHeight - 1
      BY <1>1, <2>1
    <3> QED
      BY ONLY <3>1
  <2>3. Min({i + 1, MaxHeight - 1}) = i + 1
    <3>1. PICK a, b : a = i + 1 /\ b = MaxHeight - 1
      OBVIOUS
    <3>2. a \in Int /\ b \in Int /\ a <= b
      BY <2>2, <3>1
    <3>3. Min({a, b}) = a
      BY ONLY <3>2, MinMaxOfTwo
    <3> QED
      BY <3>1, <3>3
  <2> QED
    BY <1>1, <1>6, <2>2, <2>3
<1>. HIDE DEF tabs, read, to, grown, ov
<1>12. CASE GoOn(ls, i + 1) /\ Untouched
  <2>1. /\ UNCHANGED <<strategy, status, manifest, failure, hist, rdHist, stray, frags>>
        /\ nextId' = nextId /\ seq' = seq /\ files' = files
    BY <1>12 DEF Untouched, history
  <2>2. \A n \in Nat : Tabs(ls, n) = Tabs(layers, n)
    BY <1>3, <1>6
  <2> QED
    BY <1>1, <1>12, <2>1, <2>2, OnwardReads
<1>13. CASE last /\ MergeSSTables(s, i, TRUE, ls)
  <2>1. PICK n, skip : n = i /\ skip = TRUE
    OBVIOUS
  <2>2. /\ n \in Nat /\ n + 1 = MaxHeight /\ s = Tabs(layers, n) /\ skip = TRUE
        /\ \A l \in Nat : Tabs(ls, l) = Tabs(layers, l)
    BY <1>1, <1>2, <1>3, <1>6, <1>13, <2>1
  <2>3. /\ ManifestInv /\ Basic /\ Ready /\ status = "up" /\ failure # "misplaced"
        /\ stray # "listed" /\ worker.pc = "compact" /\ strategy = "leveled"
    BY <1>1
  <2>4. MergeSSTables(s, n, skip, ls)
    BY ONLY <1>13, <2>1
  <2> QED
    BY ONLY <2>2, <2>3, <2>4, LastReads
(* The first table of the layer is taken down.                             *)
<1>14. CASE ~last /\ s # <<>>
  <2>1. PICK n, t : n = i /\ t = s[1]
    OBVIOUS
  <2>2. n \in Nat /\ n # 0 /\ low \in Nat /\ low = n + 1 /\ low < MaxHeight
    BY <1>1, <1>11, <1>14, <2>1
  <2>3. Layered(n, s) /\ Layered(low, u)
    <3>1. s = Tabs(layers, n) /\ u = Tabs(layers, low) /\ worker.pc # "unlist"
      BY <1>1, <1>2, <1>7, <2>1
    <3> QED
      BY <1>1, <2>2, <3>1, LayerPlaces
  <2>4. t \in Reader /\ <<n, t.name>> \in Listed /\ t.id = t.name[2]
    <3>1. 1 \in 1 .. Len(s)
      BY <1>14
    <3> QED
      BY <2>1, <2>3, <3>1 DEF Layered, Named
  <2>5. Keyed(t) /\ \A k \in 1 .. Len(u) : Keyed(u[k])
    <3>1. \A x : (\E p \in Listed : p[2] = x.name) => Keyed(x)
      BY <1>1, ListedKeyed
    <3>2. \A l, x : <<l, x>>[2] = x
      OBVIOUS
    <3>3. ASSUME NEW k \in 1 .. Len(u) PROVE Keyed(u[k])
      BY <2>3, <3>1, <3>2 DEF Layered
    <3> QED
      BY <2>4, <3>1, <3>2, <3>3
  <2>6. PICK a, b : a = MinKey(t) /\ b = MaxKeyOf(t)
    OBVIOUS
  <2>7. a \in Nat /\ b \in Nat /\ \A x : Has(files[t.name], x) => a <= x /\ x <= b
    BY <2>5, <2>6, KeyBounds
  <2>8. Takes(v, u, a, b)
    <3>1. v = Overlapping(a, b, u)
      BY <1>10, <1>14, <2>1, <2>6
    <3> QED
      BY <2>5, <2>7, <3>1, OverlappingHas
  <2>9. CASE v = <<>> /\ MoveSSTable(s[1], low, gr)
    <3>1. Takes(<<>>, Tabs(layers, low), MinKey(t), MaxKeyOf(t))
      BY <1>7, <2>6, <2>8, <2>9
    <3>2. MoveSSTable(t, low, gr) /\ t = Tabs(layers, n)[1] /\ Tabs(layers, n) # <<>>
      BY <1>2, <1>14, <2>1, <2>9
    <3>3. /\ ManifestInv /\ Basic /\ Ready /\ status = "up" /\ failure # "misplaced"
          /\ stray # "listed" /\ worker.pc = "compact" /\ strategy = "leveled"
          /\ gr \in Seq(Layer) /\ Len(layers) <= Len(gr)
                /\ \A l \in Nat : Tabs(gr, l) = Tabs(layers, l)
      BY <1>1, <1>7
    <3> QED
      BY ONLY <2>2, <3>1, <3>2, <3>3, MoveReads
  <2>10. CASE MergeSSTables(Append(v, s[1]), low, FALSE, gr)
    <3>1. v \in Seq(Reader) /\ \A k \in 1 .. Len(v) : \E j \in 1 .. Len(u) : v[k] = u[j]
      BY <2>8 DEF Takes
    <3>2. PICK in \in Seq(Reader) :
             /\ in = Append(v, t) /\ Len(in) = Len(v) + 1 /\ in[Len(v) + 1] = t
             /\ \A k \in 1 .. Len(v) : in[k] = v[k]
      <4>1. v \in Seq(Reader) /\ t \in Reader
        BY <2>4, <3>1
      <4>2. Append(v, t) \in Seq(Reader)
        BY ONLY <4>1, AppendProperties
      <4>3. PICK in \in Seq(Reader) : in = Append(v, t)
        BY ONLY <4>2
      <4>4. Len(in) = Len(v) + 1 /\ in[Len(v) + 1] = t /\ \A k \in 1 .. Len(v) : in[k] = v[k]
        BY ONLY <4>1, <4>3, AppendProperties
      <4> QED
        BY <4>3, <4>4
    <3>3. Len(v) \in Nat
      BY <3>1
    <3>4. \A j \in 1 .. Len(in) : (j = Len(v) + 1 /\ in[j] = t)
             \/ \E k \in 1 .. Len(u) : in[j] = u[k]
      <4>1. ASSUME NEW j \in 1 .. Len(in), j # Len(v) + 1 PROVE \E k \in 1 .. Len(u) : in[j] = u[k]
        <5>1. j \in 1 .. Len(v)
          BY <3>2, <3>3, <4>1
        <5> QED
          BY <3>1, <3>2, <5>1
      <4> QED
        BY <3>2, <4>1
    <3>5. Named(in)
      BY <2>3, <2>4, <3>4 DEF Named, Layered
    <3>6. ASSUME NEW j \in 1 .. Len(in)
          PROVE  \E p \in Listed :
                    /\ p[2] = in[j].name
                    /\ \/ p[1] = low
                       \/ p[1] = n /\ \A x : Has(files[in[j].name], x) => a <= x /\ x <= b
      <4>1. CASE in[j] = t
        <5>1. PICK p : p = <<n, t.name>>
          OBVIOUS
        <5> QED
          BY <2>4, <2>7, <4>1, <5>1
      <4>2. CASE \E k \in 1 .. Len(u) : in[j] = u[k]
        <5>1. PICK k \in 1 .. Len(u) : in[j] = u[k]
          BY <4>2
        <5>2. PICK p : p = <<low, u[k].name>>
          OBVIOUS
        <5>3. p \in Listed /\ p[1] = low /\ p[2] = in[j].name
          BY <2>3, <5>1, <5>2 DEF Layered
        <5> QED
          BY <5>3
      <4> QED
        BY <3>4, <4>1, <4>2
    <3>7. ASSUME NEW j \in 1 .. Len(in), NEW m \in Listed, NEW x,
                 <<n, in[j].name>> \in Listed, m[1] = low, Has(files[m[2]], x), a <= x, x <= b
          PROVE  \E c \in 1 .. j - 1 : in[c].name = m[2]
      <4>1. j = Len(v) + 1
        <5>1. ASSUME \E k \in 1 .. Len(u) : in[j] = u[k] PROVE FALSE
          <6>1. PICK k \in 1 .. Len(u) : in[j] = u[k]
            BY <5>1
          <6>2. PICK p \in Listed : p = <<n, in[j].name>>
            BY <3>7
          <6>3. p[1] = low /\ p[1] = n
            BY <2>3, <6>1, <6>2 DEF Layered
          <6> QED
            BY <2>2, <6>3
        <5> QED
          BY <3>4, <5>1
      <4>2. PICK h \in 1 .. Len(u) : m = <<low, u[h].name>>
        BY <2>3, <3>7 DEF Layered
      <4>3. m[2] = u[h].name
        BY <4>2
      <4>4. PICK c \in 1 .. Len(v) : v[c] = u[h]
        BY <2>8, <3>7, <4>3 DEF Takes
      <4>5. c \in 1 .. j - 1 /\ in[c] = u[h]
        BY <3>2, <3>3, <4>1, <4>4
      <4> QED
        BY <4>3, <4>5
    <3>8. Lowering(n, low, in, a, b)
      BY ONLY <2>2, <3>6, <3>7 DEF Lowering
    <3>9. PICK skip : skip = FALSE
      OBVIOUS
    <3>10. MergeSSTables(in, low, skip, gr)
      BY ONLY <2>1, <2>10, <3>2, <3>9
    <3>11. /\ ManifestInv /\ Basic /\ Ready /\ status = "up" /\ failure # "misplaced"
           /\ stray # "listed" /\ worker.pc = "compact" /\ strategy = "leveled"
           /\ \A l \in Nat : Tabs(gr, l) = Tabs(layers, l)
      BY <1>1, <1>7
    <3> QED
      BY ONLY in \in Seq(Reader), <2>2, <3>5, <3>8, <3>9, <3>10, <3>11, LowerReads
  <2> QED
    BY <1>9, <1>12, <1>13, <1>14, <2>9, <2>10
<1> QED
  BY <1>9, <1>12, <1>13, <1>14

-----------------------------------------------------------------------------
(* Flushes.                                                                *)

(* What a memtable holds: newer than everything before, and consistent.    *)
LEMMA FlushContent ==
    ASSUME NEW m \in Memtables, seq \in Nat, Flush(m), NEW C, C = worker'.content
    PROVE  /\ C.recs # {} /\ seq' \in Nat /\ seq <= seq' /\ Typed(C, seq')
           /\ \A x \in Marks(C) : x.seq \in Nat /\ seq < x.seq
           /\ Consistent(Marks(C))
<1>. DEFINE n == Cardinality(m.ranges)
            sn == IF m.rangeFirst THEN seq + n + 1 ELSE seq + 1
            tn == IF m.rangeFirst THEN seq + 1 ELSE seq + 2
<1>1. PICK s, t : s = sn /\ t = tn
  OBVIOUS
<1>2. /\ seq' = seq + 1 + n
      /\ C = Table({Rec(m.key, s, m.op, IF m.op = "Op" THEN {s} ELSE {}, m.exp)},
                   {[lo |-> r[1], hi |-> r[2], seq |-> t] : r \in m.ranges})
  BY <1>1 DEF Flush
<1>3. /\ m.key \in Keys /\ m.op \in {"Put", "Del", "Base", "Op"} /\ m.exp \in BOOLEAN
      /\ m.exp => m.op = "Put"
      /\ IsFiniteSet(m.ranges) /\ MaxKey \in Nat
      /\ \A r \in m.ranges : r[1] \in Keys /\ r[2] \in r[1] .. MaxKey + 1
  BY ManagerAssumption
<1>4. n \in Nat /\ (m.ranges # {} => n # 0)
  <2>1. n \in Nat /\ (n = 0 <=> m.ranges = {})
    BY <1>3, FS_CardinalityType, FS_EmptySet
  <2> QED
    BY <2>1
<1>5. /\ s \in Nat /\ t \in Nat /\ seq < s /\ seq < t /\ s <= seq'
      /\ seq' \in Nat /\ seq <= seq'
      /\ m.ranges # {} => t <= seq' /\ s # t
  <2>1. PICK c : c = n
    OBVIOUS
  <2>2. c \in Nat /\ (m.ranges # {} => c # 0) /\ seq' = seq + 1 + c
    BY <1>2, <1>4, <2>1
  <2>3. CASE m.rangeFirst
    <3>1. s = seq + c + 1 /\ t = seq + 1
      BY <1>1, <2>1, <2>3
    <3> QED
      BY <2>2, <3>1
  <2>4. CASE ~m.rangeFirst
    <3>1. s = seq + 1 /\ t = seq + 2
      BY <1>1, <2>4
    <3> QED
      BY <2>2, <3>1
  <2> QED
    BY <2>3, <2>4
<1>. HIDE DEF n, sn, tn
<1>6. PICK a : a = Rec(m.key, s, m.op, IF m.op = "Op" THEN {s} ELSE {}, m.exp)
  OBVIOUS
<1>7. /\ a.key = m.key /\ a.seq = s /\ a.op = m.op /\ a.exp = m.exp
      /\ C.recs = {a} /\ C.rds = {[lo |-> r[1], hi |-> r[2], seq |-> t] : r \in m.ranges}
  BY <1>2, <1>6 DEF Rec, Table
<1>8. \A d \in C.rds : d.seq = t /\ m.ranges # {} /\ d.lo \in 1 .. MaxKey + 1
         /\ d.hi \in 1 .. MaxKey + 1
  <2>1. ASSUME NEW d \in C.rds
        PROVE  d.seq = t /\ m.ranges # {} /\ d.lo \in 1 .. MaxKey + 1 /\ d.hi \in 1 .. MaxKey + 1
    <3>1. PICK r \in m.ranges : d = [lo |-> r[1], hi |-> r[2], seq |-> t]
      BY <1>7
    <3>2. PICK lo, hi : lo = r[1] /\ hi = r[2]
      OBVIOUS
    <3>3. d.seq = t /\ d.lo = lo /\ d.hi = hi
      BY <3>1, <3>2
    <3>4. lo \in 1 .. MaxKey /\ hi \in lo .. MaxKey + 1
      BY <1>3, <3>2 DEF Keys
    <3> QED
      BY <1>3, <3>3, <3>4
  <2> QED
    BY <2>1
<1>9. Typed(C, seq')
  <2>1. Version(a, seq')
    BY <1>3, <1>5, <1>7 DEF Version
  <2>2. \A d \in C.rds : d.seq \in 0 .. seq'
    BY <1>5, <1>8
  <2> QED
    BY <1>7, <1>8, <2>1, <2>2 DEF Typed, Tombs
<1>10. ASSUME NEW x \in Marks(C)
       PROVE  \/ x = Mark(a.key, s, KindOf(a)) /\ x.seq = s
              \/ x = Mark(x.key, t, "rng") /\ x.seq = t /\ m.ranges # {}
  <2>1. CASE \E r \in C.recs : x = Mark(r.key, r.seq, KindOf(r))
    BY <1>7, <2>1 DEF Mark
  <2>2. CASE \E d \in C.rds, k \in Keys : Covers(d, k) /\ x = Mark(k, d.seq, "rng")
    <3>1. PICK d \in C.rds, k \in Keys : x = Mark(k, d.seq, "rng")
      BY <2>2
    <3>2. d.seq = t /\ m.ranges # {}
      BY <1>8
    <3> QED
      BY <3>1, <3>2 DEF Mark
  <2> QED
    BY <2>1, <2>2, MarkFacts
<1>11. \A x \in Marks(C) : x.seq \in Nat /\ seq < x.seq
  BY <1>5, <1>10
<1>12. Consistent(Marks(C))
  <2>1. ASSUME NEW x \in Marks(C), NEW y \in Marks(C), x.key = y.key, x.seq = y.seq PROVE x = y
    BY <1>5, <1>10, <2>1
  <2> QED
    BY <2>1 DEF Consistent
<1> QED
  BY <1>5, <1>7, <1>9, <1>11, <1>12

(* FlushToSSTable begins a table that may be listed before all others.     *)
LEMMA FlushReads ==
    ASSUME ManifestInv, Basic, Ready, failure # "misplaced", stray # "listed",
           NEW m \in Memtables, Flush(m)
    PROVE  ReadInv'
<1>1. /\ AllTyped /\ Books /\ Disk /\ Store /\ Replacing /\ seq \in Nat
      /\ nextId \in Nat /\ manifest.next \in Int /\ status = "up" /\ manifest.next <= nextId
      /\ worker.pc = "idle"
  BY RowLists DEF Ready, Usual, Basic, ManifestInv, TypeInv, Disk, Flush, CanFlush
<1>2. PICK C, name, r : C = worker'.content /\ name = <<0, nextId>> /\ r = <<0, name>>
  OBVIOUS
<1>3. r[1] = 0 /\ r[2] = name /\ name[2] = nextId
  BY <1>2
<1>4. /\ files' = Written(files, name, Partial) /\ nextId' = nextId + 1
      /\ UNCHANGED <<strategy, layers, frags, status, manifest, hist, rdHist, failure, stray>>
      /\ worker'.pc = "add" /\ worker'.id = nextId /\ worker'.to = 0 /\ worker'.inputs = <<>>
  BY <1>2 DEF Flush
<1>5. /\ C.recs # {} /\ seq' \in Nat /\ seq <= seq' /\ Typed(C, seq')
      /\ \A x \in Marks(C) : x.seq \in Nat /\ seq < x.seq
      /\ Consistent(Marks(C))
  BY <1>1, <1>2, FlushContent
<1>6. Name' = name /\ Place' = r /\ Listed' = Listed /\ Past' = Past
  <2>1. worker.pc # "unlist" /\ worker'.pc # "unlist"
    BY <1>1, <1>4
  <2>2. Listed' = Listed /\ Past' = Past
    BY <1>4, <2>1, QuietPlaces
  <2>3. Name' = <<worker'.to, worker'.id>> /\ Place' = <<worker'.to, Name'>>
    BY DEF Name, Place
  <2> QED
    BY <1>2, <1>4, <2>2, <2>3
<1>7. PICK fs, gs, V, P : fs = files /\ gs = Finished' /\ V = Listed /\ P = Past
  OBVIOUS
<1>8. DOMAIN files' = DOMAIN files \cup {name} /\ \A n \in DOMAIN files : n # name =>
         files'[n] = files[n]
  BY <1>4 DEF Written
<1>9. gs[name] = C /\ \A n \in DOMAIN files : n # name => gs[n] = files[n]
  <2>1. PICK hs : hs = files'
    OBVIOUS
  <2>2. gs = [hs EXCEPT ![name] = C]
    BY <1>2, <1>4, <1>6, <1>7, <2>1 DEF Finished
  <2>3. name \in DOMAIN hs
    BY <1>8, <2>1
  <2> QED
    BY <1>8, <2>1, <2>2, <2>3
<1>10. ASSUME NEW p \in V PROVE Follows(strategy, r, p) /\ gs[p[2]] = fs[p[2]]
  <2>1. /\ p \in Places /\ p[2][2] < manifest.next /\ p[2] \in DOMAIN files
    BY <1>1, <1>7, ListedPlaces DEF Disk, Opens
  <2>2. p[1] \in Nat /\ p[2][2] \in Nat /\ p[2][2] < nextId
    BY <1>1, <2>1 DEF Places
  <2>3. p[2] # name
    BY <1>1, <1>3, <2>2
  <2>4. p[1] = 0 => Ordered(strategy, p[1])
    BY DEF Ordered
  <2> QED
    BY <1>3, <1>7, <1>9, <2>1, <2>2, <2>3, <2>4 DEF Follows
<1>11. \A x \in P : x.seq \in 0 .. seq
  BY <1>1, <1>7, MarkOrigin DEF AllTyped, Past
<1>12. Good(strategy, P \cup Marks(C), gs, V \cup {r})
  <2>1. PICK s \in Nat : s = seq
    BY <1>1
  <2>2. /\ Good(strategy, P, fs, V) /\ \A p \in V : gs[p[2]] = fs[p[2]] /\ Follows(strategy, r, p)
        /\ \A x \in P : x.seq \in 0 .. s
        /\ \A x \in Marks(gs[r[2]]) : x.seq \in Nat /\ s < x.seq
        /\ Consistent(Marks(gs[r[2]]))
    BY <1>1, <1>3, <1>5, <1>7, <1>9, <1>10, <1>11, <2>1 DEF Disk, Store
  <2>3. Good(strategy, P \cup Marks(gs[r[2]]), gs, V \cup {r})
    BY ONLY s \in Nat, <2>2, GoodFlush
  <2> QED
    BY <1>3, <1>9, <2>3
<1>13. Writing'
  <2>1. Future' = P \cup Marks(C) /\ Coming' = V \cup {r}
    BY <1>2, <1>4, <1>6, <1>7 DEF Future, Coming
  <2>2. Good(strategy, Future, Finished, Coming)'
    BY <1>4, <1>7, <1>12, <2>1
  <2>3. manifest'.next <= worker'.id /\ worker'.id < nextId' /\ Name' \in DOMAIN files'
    BY <1>1, <1>4, <1>6, <1>8
  <2>4. worker'.to < MaxHeight /\ worker'.content.recs # {} /\ worker'.to = 0
    BY <1>2, <1>4, <1>5, ManagerAssumption
  <2> QED
    BY <2>2, <2>3, <2>4 DEF Writing
<1>14. Replacing'
  BY <1>4 DEF Replacing
<1>15. nextId' \in Nat /\ nextId <= nextId' /\ \A n \in Nat : Tabs(layers', n) = Tabs(layers, n)
  BY <1>1, <1>4
<1>16. \E a : files' = Written(files, <<a, nextId>>, Partial)
  BY <1>2, <1>4
<1> QED
  BY <1>1, <1>2, <1>4, <1>5, <1>13, <1>14, <1>15, <1>16, QuietReads

(* The same without a table.                                               *)
LEMMA FlushNothingReads ==
    ASSUME ManifestInv, Basic, Ready, failure # "misplaced", stray # "listed", FlushNothing
    PROVE  ReadInv'
<1>1. /\ status = "up" /\ worker.pc \in {"idle", "compact"} /\ seq \in Nat /\ nextId \in Nat
      /\ seq' = seq + 1 /\ GoOn(layers, 0)
      /\ UNCHANGED <<strategy, status, manifest, failure, hist, rdHist, stray, frags, nextId,
            files>>
  BY DEF FlushNothing, CanFlush, Basic, ManifestInv, TypeInv
<1>2. seq' \in Nat /\ seq <= seq' /\ nextId' \in Nat /\ nextId <= nextId'
  BY <1>1
<1> QED
  BY <1>1, <1>2, OnwardReads

-----------------------------------------------------------------------------
(* Readers.                                                                *)

(* A read may compute the fragments anew.                                  *)
LEMMA ReadReads ==
    ASSUME ManifestInv, Basic, Ready, failure # "misplaced", stray # "listed", Read
    PROVE  ReadInv'
<1>1. /\ status = "up" /\ worker.pc \in {"idle", "compact"} /\ MuFree /\ CacheSound /\ AllTyped
            /\ seq \in Nat
      /\ frags' = [val |-> Fragments, dirty |-> FALSE] /\ nextId \in Nat /\ worker.inputs = <<>>
      /\ UNCHANGED <<strategy, layers, nextId, worker, status, files, manifest, failure,
                     hist, rdHist, stray, seq>>
      /\ layers \in Seq(Layer)
  BY DEF Read, MuFree, Ready, Basic, ManifestInv, TypeInv, WorkerInv, history
<1>2. Seen' = Seen
  BY <1>1 DEF Seen, AllTabs
<1>3. frags'.val = Fragments
  BY <1>1
<1>4. Fragments # {} => \/ Seen = {}
                        \/ Fragments = FragmentRangeTombstones(UNION {files[p[2]].rds : p \in Seen})
  <2>1. CASE ~frags.dirty /\ frags.val # {}
    BY <1>1, <2>1 DEF Fragments, CacheSound
  <2>2. CASE ~(~frags.dirty /\ frags.val # {})
    <3>1. Fragments = MergeAndFragment(AllTables)
      BY <2>2 DEF Fragments
    <3>2. {RangeDels(t) : t \in AllTables} = {files[p[2]].rds : p \in Seen}
      BY <1>1, SeenTables DEF RangeDels
    <3> QED
      BY <3>1, <3>2 DEF MergeAndFragment
  <2> QED
    BY <2>1, <2>2
<1>5. CacheSound'
  BY <1>1, <1>2, <1>3, <1>4 DEF CacheSound
<1>6. Typed(worker.content, seq') /\ (worker.pc = "idle" => worker = Idle)
  BY <1>1 DEF AllTyped, Basic
<1>7. Writing' /\ Replacing'
  BY <1>1 DEF Writing, Replacing
<1>8. \A n \in Nat : Tabs(layers', n) = Tabs(layers, n)
  BY <1>1
<1> QED
  BY <1>1, <1>5, <1>6, <1>7, <1>8, QuietReads

(* Snapshots do not matter for the newest versions.                        *)
LEMMA SnapshotReads ==
    ASSUME ManifestInv, Basic, Ready, failure # "misplaced", stray # "listed",
           NEW k, AddSnapshotKey(k)
    PROVE  ReadInv'
<1>1. /\ status = "up" /\ worker.pc \in {"idle", "compact"} /\ AllTyped /\ seq \in Nat
      /\ nextId \in Nat /\ worker.inputs = <<>>
      /\ UNCHANGED <<strategy, layers, nextId, frags, worker, status, files, manifest, failure,
                     hist, rdHist, stray, seq>>
  BY DEF AddSnapshotKey, MuFree, Ready, Basic, ManifestInv, TypeInv, WorkerInv, history
<1>2. Typed(worker.content, seq') /\ (worker.pc = "idle" => worker = Idle)
  BY <1>1 DEF AllTyped, Basic
<1>3. Writing' /\ Replacing'
  BY <1>1 DEF Writing, Replacing
<1>4. \A n \in Nat : Tabs(layers', n) = Tabs(layers, n)
  BY <1>1
<1> QED
  BY <1>1, <1>2, <1>3, <1>4, QuietReads

-----------------------------------------------------------------------------
(* A table is finished and listed.                                         *)

(* What was flushed before and what is flushed now.                        *)
LEMMA MarksAdded ==
    ASSUME NEW A, NEW B
    PROVE  Marks(Table(A.recs \cup B.recs, A.rds \cup B.rds)) = Marks(A) \cup Marks(B)
<1>1. PICK C : C = Table(A.recs \cup B.recs, A.rds \cup B.rds)
  OBVIOUS
<1>2. C.recs = A.recs \cup B.recs /\ C.rds = A.rds \cup B.rds
  BY <1>1 DEF Table
<1>3. ASSUME NEW m PROVE m \in Marks(C) <=> m \in Marks(A) \cup Marks(B)
  BY <1>2, MarkFacts
<1> QED
  BY <1>1, <1>3

(* A finished table is listed.                                             *)
LEMMA AddReads ==
    ASSUME ManifestInv, Basic, Ready, failure # "misplaced", stray # "listed", Add
    PROVE  ReadInv'
<1>. DEFINE t == [id |-> worker.id, layer |-> worker.to, name |-> Name]
            sm == Saved(manifest)
            C == worker.content
<1>1. /\ status = "up" /\ worker.pc = "add" /\ files' = Finished
      /\ manifest' = [ManifestPut(sm, worker.to, Append(ManifestRows(sm, worker.to), t))
                         EXCEPT !.next = nextId]
      /\ worker' = [worker EXCEPT !.pc = IF worker.inputs = <<>> THEN "compact" ELSE "delete",
                                  !.content = Idle.content]
      /\ frags' = IF worker.inputs = <<>> THEN [frags EXCEPT !.dirty = TRUE] ELSE frags
      /\ hist' = IF worker.inputs = <<>> THEN hist \cup C.recs ELSE hist
      /\ rdHist' = IF worker.inputs = <<>> THEN rdHist \cup C.rds ELSE rdHist
      /\ UNCHANGED <<strategy, nextId, status, seq, failure, stray>>
  BY DEF Add, Name, Finished
<1>2. WorkerInv /\ manifest \in Manifest /\ nextId \in Nat
  BY DEF ManifestInv, TypeInv
<1>3. AllTyped /\ CacheSound /\ Books /\ Disk /\ Store /\ Writing /\ Replacing /\ seq \in Nat
  BY <1>1 DEF Ready, Usual, Basic
<1>4. PICK to \in Nat, id \in Nat : to = worker.to /\ id = worker.id
  BY <1>2 DEF WorkerInv
<1>5. Name = <<to, id>> /\ Place = <<to, Name>>
  BY <1>4 DEF Name, Place
<1>6. PICK u \in Reader : u = t /\ u.id = id /\ u.name = Name /\ u.name[2] = id
  <2>1. t \in Reader /\ t.id = id /\ t.name = Name /\ Name[2] = id
    BY <1>4, <1>5 DEF Reader
  <2>. HIDE DEF t
  <2> QED
    BY <2>1
<1>. HIDE DEF t
<1>7. PICK g \in Lists : g = AllRows(manifest) /\ \A n \in Nat : g[n] = ManifestRows(manifest, n)
  BY <1>2, ListsType
<1>8. PICK top \in Int : top = manifest.next
  BY <1>2 DEF Manifest
<1>9. Identified(g, top) /\ Sorted(strategy, g)
  BY <1>3, <1>7, <1>8 DEF Books
<1>10. /\ top <= id /\ id < nextId /\ Name \in DOMAIN files /\ C.recs # {} /\ to < MaxHeight
       /\ Good(strategy, Future, Finished, Coming)
  BY <1>1, <1>3, <1>4, <1>8 DEF Writing
(* No row has the number of the new table.                                 *)
<1>11. \A n \in Nat : \A k \in 1 .. Len(g[n]) : g[n][k].id \in Nat /\ g[n][k].id < id
  <2>1. ASSUME NEW n \in Nat, NEW k \in 1 .. Len(g[n])
        PROVE  g[n][k].id \in Nat /\ g[n][k].id < id
    <3>1. g[n][k].id < top
      BY <1>9 DEF Identified, Earlier
    <3>2. g[n][k].id \in Nat
      BY ListElement
    <3> QED
      BY <1>10, <3>1, <3>2
  <2> QED
    BY <2>1
<1>12. PICK a \in Seq(Reader) : a = Append(g[to], u)
  BY AppendProperties DEF Lists
<1>13. PICK h \in Lists : /\ h = AllRows(manifest') /\ manifest'.next = nextId /\ Joins(g, h, to, u)
                          /\ \A n \in Nat : Rows(n)' = h[n]
  <2>1. PICK m \in Manifest : m = sm
    BY <1>2, SavedRows
  <2>2. \A n \in Nat : ManifestRows(m, n) = g[n]
    BY <1>2, <1>7, <2>1, SavedRows
  <2>3. manifest' = [ManifestPut(m, to, a) EXCEPT !.next = nextId]
    BY <1>1, <1>4, <1>6, <1>12, <2>1, <2>2
  <2>4. /\ manifest' \in Manifest /\ manifest'.next = nextId
        /\ \A n \in Nat : Rows(n)' = IF n = to THEN a ELSE ManifestRows(m, n)
    BY <1>2, <2>3, SaveRows
  <2>5. PICK m2 \in Manifest : m2 = manifest'
    BY <2>4
  <2>6. AllRows(m2) \in Lists /\ \A n \in Nat : AllRows(m2)[n] = ManifestRows(m2, n)
    BY ListsType
  <2>7. \A n \in Nat : ManifestRows(manifest', n) = Rows(n)'
    BY DEF Rows
  <2> QED
    BY <1>12, <2>2, <2>4, <2>5, <2>6, <2>7 DEF Joins
<1>14. Identified(h, nextId)
  <2>1. PICK x \in Int : x = nextId
    BY <1>2
  <2>2. Earlier(g, x)
    BY <1>2, <1>10, <1>11, <2>1 DEF Earlier
  <2>3. Identified(g, x)
    BY <1>9, <2>2 DEF Identified
  <2>4. Fresh(g, x, u)
    BY <1>6, <1>10, <1>11, <2>1 DEF Fresh
  <2>5. Identified(h, x)
    BY ONLY g \in Lists, x \in Int, to \in Nat, u \in Reader, h \in Lists, <1>13, <2>3, <2>4,
            IdentifiedJoins
  <2> QED
    BY <2>1, <2>5
<1>15. Sorted(strategy, h)
  <2>1. Ordered(strategy, to) => \A k \in 1 .. Len(g[to]) : g[to][k].id < u.id
    BY <1>6, <1>11
  <2> QED
    BY <1>9, <1>13, <2>1, SortedJoins
<1>16. /\ worker'.pc = IF worker.inputs = <<>> THEN "compact" ELSE "delete"
       /\ worker'.inputs = worker.inputs /\ worker'.content = Idle.content
       /\ worker'.to = worker.to /\ worker'.id = worker.id
  BY <1>1, <1>2 DEF WorkerInv
<1>17. worker'.pc # "unlist" /\ worker'.pc # "add" /\ worker'.pc # "idle"
  BY <1>16
<1>18. Listed = View(g) /\ Coming = Listed \cup {Place} /\ Listed' = Coming
  <2>1. Listed = View(g)
    BY <1>1, <1>7, LeftRows DEF Listed
  <2>2. Coming = Listed \cup {Place}
    BY <1>1 DEF Coming
  <2>3. Kept' = h
    BY <1>13, <1>17 DEF Kept, RowsLeft, AllRows, Rows
  <2>4. View(h) = View(g) \cup {<<to, u.name>>}
    BY <1>13, ViewJoins
  <2>5. Listed' = View(h)
    BY <2>3 DEF Listed
  <2> QED
    BY <1>5, <1>6, <2>1, <2>2, <2>4, <2>5
<1>19. Past' = Future
  <2>1. CASE worker.inputs = <<>>
    <3>1. Past' = Marks(Table(hist \cup C.recs, rdHist \cup C.rds))
      BY <1>1, <2>1 DEF Past
    <3>2. PICK A, B : A = Table(hist, rdHist) /\ B = C
      OBVIOUS
    <3>3. A.recs = hist /\ A.rds = rdHist
      BY <3>2 DEF Table
    <3>4. Marks(Table(A.recs \cup B.recs, A.rds \cup B.rds)) = Marks(A) \cup Marks(B)
      BY MarksAdded
    <3> QED
      BY <2>1, <3>1, <3>2, <3>3, <3>4 DEF Past, Future
  <2>2. CASE worker.inputs # <<>>
    BY <1>1, <2>2 DEF Past, Future
  <2> QED
    BY <2>1, <2>2
<1>20. PICK gs : /\ gs = files' /\ gs = Finished /\ DOMAIN gs = DOMAIN files /\ gs[Name] = C
                 /\ \A n \in DOMAIN files : n # Name => gs[n] = files[n]
  <2>1. Finished = [files EXCEPT ![Name] = C]
    BY <1>1 DEF Finished
  <2> QED
    BY <1>1, <1>10, <2>1
<1>21. \A p \in Listed : /\ p \in Places /\ p[1] < MaxHeight /\ p[2] # Name
                         /\ stray = "none" => p[2][1] = p[1]
  <2>1. ASSUME NEW p \in Listed
        PROVE  /\ p \in Places /\ p[1] < MaxHeight /\ p[2] # Name
               /\ stray = "none" => p[2][1] = p[1]
    <3>1. /\ p \in Places /\ p[1] < MaxHeight /\ p[2][2] < top
          /\ stray = "none" => p[2][1] = p[1]
      BY <1>3, <1>8, ListedPlaces
    <3>2. p[2] # Name
      BY <1>5, <1>10, <3>1 DEF Places
    <3> QED
      BY <3>1, <3>2
  <2> QED
    BY <2>1
<1>22. Basic'
  BY <1>1, <1>3, <1>17 DEF Basic
<1>23. AllTyped'
  <2>1. FilesTyped(files, seq) /\ Typed(C, seq) /\ Typed(Table(hist, rdHist), seq)
    BY <1>3 DEF AllTyped
  <2>2. FilesTyped(files', seq)
    BY <1>20, <2>1 DEF FilesTyped
  <2>3. Typed(Table(hist', rdHist'), seq)
    <3>1. CASE worker.inputs = <<>>
      BY <1>1, <2>1, <3>1 DEF Typed, Tombs, Table
    <3>2. CASE worker.inputs # <<>>
      BY <1>1, <2>1, <3>2
    <3> QED
      BY <3>1, <3>2
  <2>4. Typed(worker'.content, seq)
    BY <1>16, IdleTyped
  <2> QED
    BY <1>1, <2>2, <2>3, <2>4 DEF AllTyped
<1>24. CacheSound'
  <2>1. CASE worker.inputs = <<>>
    <3>1. frags' = [frags EXCEPT !.dirty = TRUE]
      BY <1>1, <2>1
    <3> QED
      BY <3>1 DEF CacheSound
  <2>2. CASE worker.inputs # <<>>
    BY <1>16, <2>2 DEF CacheSound, MuFree
  <2> QED
    BY <2>1, <2>2
<1>25. Books'
  <2>1. ASSUME NEW p \in View(h)
        PROVE  p[1] < MaxHeight /\ (stray = "none" => p[2][1] = p[1])
    <3>1. p \in Listed \/ p = Place
      <4>1. View(h) = Listed'
        <5>1. Kept' = h
          BY <1>13, <1>17 DEF Kept, RowsLeft, AllRows, Rows
        <5> QED
          BY <5>1 DEF Listed
      <4> QED
        BY <1>18, <4>1
    <3>2. CASE p \in Listed
      BY <1>21, <3>2
    <3>3. CASE p = Place
      BY <1>5, <1>10, <3>3
    <3> QED
      BY <3>1, <3>2, <3>3
  <2> QED
    BY <1>1, <1>13, <1>14, <1>15, <2>1 DEF Books
<1>26. Disk'
  <2>1. manifest'.next <= nextId'
    BY <1>1, <1>2, <1>13
  <2>2. Opens(gs, Coming)
    <3>1. SUFFICES ASSUME NEW p \in Coming PROVE p[2] \in DOMAIN gs /\ gs[p[2]] # Partial
      BY DEF Opens
    <3>2. CASE p \in Listed
      <4>1. p[2] \in DOMAIN files /\ files[p[2]] # Partial
        BY <1>1, <1>3, <3>2 DEF Disk, Opens
      <4> QED
        BY <1>20, <1>21, <3>2, <4>1
    <3>3. CASE p = Place
      <4>1. p[2] = Name /\ C # Partial
        BY <1>5, <1>10, <3>3 DEF Partial
      <4> QED
        BY <1>10, <1>20, <4>1
    <3> QED
      BY <1>18, <3>1, <3>2, <3>3
  <2>3. ASSUME stray = "none", NEW n \in DOMAIN gs
        PROVE  gs[n] = Partial \/ <<n[1], n>> \in Coming
    <3>1. CASE n = Name
      BY <1>5, <1>18, <3>1
    <3>2. CASE n # Name
      BY <1>1, <1>3, <1>18, <1>20, <2>3, <3>2 DEF Disk
    <3> QED
      BY <3>1, <3>2
  <2> QED
    BY <1>1, <1>18, <1>20, <2>1, <2>2, <2>3 DEF Disk
<1>27. Store'
  BY <1>1, <1>10, <1>18, <1>19 DEF Store
<1>28. Writing'
  BY <1>17 DEF Writing
<1>29. Replacing'
  <2>1. SUFFICES ASSUME worker.inputs # <<>> PROVE Replacing'
    BY <1>16 DEF Replacing
  <2>2. PICK in, P, fs, W, r : /\ in = worker.inputs /\ P = Past /\ fs = Finished /\ W = Coming
                               /\ r = Place
    OBVIOUS
  <2>3. /\ Named(in)
        /\ \A j \in 1 .. Len(in) : \A n \in Nat : \A k \in 1 .. Len(g[n]) :
              g[n][k].id = in[j].id => g[n][k].name = in[j].name
        /\ r \in W /\ \A j \in 1 .. Len(in) : in[j].id # id
        /\ Replaces(strategy, P, fs, W, r, in)
    <3>1. \A n \in Nat : Rows(n) = g[n]
      BY <1>7 DEF Rows
    <3>2. \A j \in 1 .. Len(in) : \A n \in Nat : \A k \in 1 .. Len(Rows(n)) :
             Rows(n)[k].id = in[j].id => Rows(n)[k].name = in[j].name
      BY <1>3, <2>1, <2>2 DEF Replacing
    <3>3. \A j \in 1 .. Len(in) : \A n \in Nat : \A k \in 1 .. Len(g[n]) :
             g[n][k].id = in[j].id => g[n][k].name = in[j].name
      <4>1. ASSUME NEW j \in 1 .. Len(in), NEW n \in Nat
            PROVE  \A k \in 1 .. Len(g[n]) : g[n][k].id = in[j].id => g[n][k].name = in[j].name
        <5>1. Rows(n) = g[n]
          BY <3>1
        <5>2. \A k \in 1 .. Len(Rows(n)) : Rows(n)[k].id = in[j].id => Rows(n)[k].name = in[j].name
          BY <3>2
        <5> QED
          BY ONLY <5>1, <5>2
      <4> QED
        BY <4>1
    <3>4. /\ Named(in) /\ r \in W /\ \A j \in 1 .. Len(in) : in[j].id # id
          /\ Replaces(strategy, P, fs, W, r, in)
      BY <1>3, <1>4, <2>1, <2>2 DEF Replacing
    <3> QED
      BY <3>3, <3>4
  <2>4. ASSUME NEW j \in 1 .. Len(in), NEW n \in Nat,
               NEW k \in 1 .. Len(h[n]), h[n][k].id = in[j].id
        PROVE  h[n][k].name = in[j].name
    <3>1. CASE n # to
      <4>1. h[n] = g[n]
        BY <1>13, <3>1 DEF Joins
      <4>2. k \in 1 .. Len(g[n]) /\ g[n][k].id = in[j].id
        BY <2>4, <4>1
      <4>3. g[n][k].name = in[j].name
        BY ONLY n \in Nat, j \in 1 .. Len(in), <2>3, <4>2
      <4> QED
        BY <4>1, <4>3
    <3>2. CASE n = to
      <4>1. PICK s \in Seq(Reader) : s = g[to]
        BY DEF Lists
      <4>2. h[n] = Append(s, u)
        BY <1>13, <3>2, <4>1 DEF Joins
      <4>3. k = Len(s) + 1 \/ (k \in 1 .. Len(s) /\ h[n][k] = s[k])
        BY ONLY s \in Seq(Reader), u \in Reader, k \in 1 .. Len(h[n]), <4>2, AppendProperties
      <4>4. k # Len(s) + 1
        <5>1. k = Len(s) + 1 => h[n][k] = u
          BY ONLY s \in Seq(Reader), u \in Reader, <4>2, AppendProperties
        <5> QED
          BY <1>6, <2>3, <2>4, <5>1
      <4>5. n = to /\ k \in 1 .. Len(g[n]) /\ h[n][k] = g[n][k]
        BY <3>2, <4>1, <4>3, <4>4
      <4>6. g[n][k].name = in[j].name
        BY ONLY n \in Nat, j \in 1 .. Len(in), h[n][k].id = in[j].id, <2>3, <4>5, <2>4
      <4> QED
        BY <4>5, <4>6
    <3> QED
      BY <3>1, <3>2
  <2>5. worker'.inputs = in /\ worker'.id = id /\ worker'.pc = "delete"
    BY <1>4, <1>16, <2>1, <2>2
  <2>6. Place' = r /\ Coming' = W /\ Past' = P /\ Finished' = fs /\ strategy' = strategy
    <3>1. Place' = r
      BY <1>16, <2>2 DEF Place, Name
    <3>2. Coming' = W
      BY <1>17, <1>18, <2>2 DEF Coming
    <3>3. Finished' = fs
      BY <1>17, <1>20, <2>2 DEF Finished
    <3>4. Past' = P
      BY <1>19, <2>1, <2>2 DEF Future
    <3> QED
      BY <1>1, <3>1, <3>2, <3>3, <3>4
  <2>7. \A j \in 1 .. Len(in) : \A n \in Nat : \A k \in 1 .. Len(Rows(n)') :
           Rows(n)'[k].id = in[j].id => Rows(n)'[k].name = in[j].name
    <3>1. \A n \in Nat : Rows(n)' = h[n]
      BY <1>13
    <3>2. \A j \in 1 .. Len(in) : \A n \in Nat : \A k \in 1 .. Len(h[n]) :
             h[n][k].id = in[j].id => h[n][k].name = in[j].name
      BY <2>4
    <3> QED
      BY ONLY <3>1, <3>2
  <2> QED
    BY <2>3, <2>5, <2>6, <2>7 DEF Replacing
<1>30. Rebuilding'
  BY <1>1 DEF Rebuilding
<1> QED
  BY <1>1, <1>22, <1>23, <1>24, <1>25, <1>26, <1>27, <1>28, <1>29, <1>30 DEF ReadInv, Ready, Usual

-----------------------------------------------------------------------------
(* The inputs of a merge are deleted.                                      *)

(* The file of the first input goes, if the table is where it is looked    *)
(* for; its row does not count from now on.                                *)
LEMMA DeleteReads ==
    ASSUME ManifestInv, Basic, Ready, failure # "misplaced", stray # "listed", Delete
    PROVE  ReadInv'
<1>1. /\ status = "up" /\ worker.pc = "delete" /\ WorkerInv /\ worker.inputs # <<>>
      /\ layers \in Seq(Layer)
  BY DEF Delete, ManifestInv, TypeInv, WorkerInv
<1>2. AllTyped /\ Books /\ Disk /\ Store /\ Writing /\ Replacing /\ seq \in Nat
  BY <1>1 DEF Ready, Usual, Basic
<1>3. PICK t \in Reader, n \in Nat, in \in Seq(Reader) :
         /\ t = First /\ n = t.layer /\ in = worker.inputs /\ t = in[1] /\ Len(in) \in Nat \ {0}
  BY <1>1, FirstType DEF WorkerInv
<1>4. CASE t.layer + 1 > Len(layers)
  <2>1. Panic("notFound") /\ UNCHANGED <<files, manifest>>
    BY <1>3, <1>4 DEF Delete, First
  <2>2. Die /\ UNCHANGED manifest /\ files' = files /\ failure' # "misplaced"
    BY <2>1 DEF Panic
  <2>3. FilesTyped(files', seq)
    BY <1>2, <2>2 DEF AllTyped
  <2> QED
    BY <1>1, <2>2, <2>3, DownReads
<1>5. CASE ~(t.layer + 1 > Len(layers))
  <2>1. /\ layers' = RemoveSSTable(layers, t.id, n)
        /\ files' = IF layers' = layers THEN files ELSE [f \in DOMAIN files \ {t.name} |-> files[f]]
        /\ worker' = [worker EXCEPT !.pc = "unlist"]
        /\ UNCHANGED <<strategy, nextId, status, manifest, failure, seq, hist, rdHist, stray>>
    BY <1>3, <1>5 DEF Delete, First, history
  <2>2. /\ worker'.pc = "unlist" /\ worker'.inputs = in /\ worker'.content = worker.content
        /\ worker'.to = worker.to /\ worker'.id = worker.id /\ First' = t
    BY <1>1, <1>3, <2>1 DEF WorkerInv, First
  <2>3. PICK g \in Lists : g = AllRows(manifest) /\ \A l \in Nat : g[l] = Rows(l)
    BY RowLists
  <2>4. PICK tabs \in Seq(Reader) : tabs = Tabs(layers, n) /\ Same(g[n], tabs)
    <3>1. Same(Rows(n), Tabs(layers, n))
      BY <1>1, <1>3 DEF ManifestInv, Agreement, RowsLeft
    <3> QED
      BY <1>1, <1>3, <2>3, <3>1, TabsType
  <2>5. PICK P, fs, gs, W, r, id, name :
           /\ P = Past /\ fs = files /\ gs = files' /\ W = Listed /\ r = Place /\ id = t.id
           /\ name = t.name
    OBVIOUS
  <2>6. /\ Named(in) /\ r \in W /\ r[2] # name /\ name[2] = id
        /\ Replaces(strategy, P, fs, W, r, in)
        /\ \A k \in 1 .. Len(g[n]) : g[n][k].id = id => g[n][k].name = name
    <3>1. Coming = W /\ Finished = fs
      BY <1>1, <2>5 DEF Coming, Finished
    <3>2. /\ Named(in) /\ Place \in Coming /\ \A j \in 1 .. Len(in) : in[j].id # worker.id
          /\ Replaces(strategy, Past, Finished, Coming, Place, in)
      BY <1>1, <1>2, <1>3 DEF Replacing
    <3>3. 1 \in 1 .. Len(in) /\ in[1] = t
      BY <1>3
    <3>4. \A k \in 1 .. Len(Rows(n)) : Rows(n)[k].id = in[1].id => Rows(n)[k].name = in[1].name
      BY <1>1, <1>2, <1>3, <3>3 DEF Replacing
    <3>5. name[2] = id /\ id # worker.id
      BY <2>5, <3>2, <3>3 DEF Named
    <3>6. r[2][2] = worker.id
      BY <2>5 DEF Place, Name
    <3> QED
      BY <2>3, <2>5, <3>1, <3>2, <3>3, <3>4, <3>5, <3>6
  <2>7. Good(strategy, P, fs, W) /\ Opens(fs, W)
    BY <1>1, <1>2, <2>5 DEF Disk, Store
  <2>8. /\ Kept' = [l \in Nat |-> IF l = n THEN Without(g[l], id) ELSE g[l]] /\ Past' = P
        /\ W = View(g) /\ Rows(n)' = g[n]
    <3>1. \A l \in Nat : RowsLeft(l)' = IF l = n THEN Without(g[l], id) ELSE g[l]
      BY <1>3, <2>1, <2>2, <2>3, <2>5 DEF RowsLeft, Rows
    <3>2. Kept' = [l \in Nat |-> IF l = n THEN Without(g[l], id) ELSE g[l]]
      BY <3>1 DEF Kept
    <3>3. Past' = P
      BY <2>1, <2>5 DEF Past
    <3>4. W = View(g)
      BY <1>1, <2>3, <2>5, LeftRows DEF Listed
    <3>5. Rows(n)' = g[n]
      BY <2>1, <2>3 DEF Rows
    <3> QED
      BY <3>2, <3>3, <3>4, <3>5
  <2>9. PICK U : U = Listed'
    OBVIOUS
  <2>10. /\ Good(strategy, P, gs, U) /\ Opens(gs, U) /\ r \in U
         /\ Replaces(strategy, P, gs, U, r, in)
         /\ \A f \in DOMAIN gs : f \in DOMAIN fs /\ gs[f] = fs[f]
               /\ (<<f[1], f>> \in W => <<f[1], f>> \in U)
         /\ Without(g[n], id) = g[n] \/ name \notin DOMAIN gs
    <3>1. CASE \A k \in 1 .. Len(g[n]) : g[n][k].id # id
      <4>1. \A k \in 1 .. Len(tabs) : tabs[k].id # id
        BY <2>4, <3>1 DEF Same
      <4>2. ~\E x \in ToSet(layers[n + 1].tabs) : x.id = id
        <5>1. n + 1 <= Len(layers)
          BY <1>1, <1>3, <1>5
        <5>2. layers[n + 1].tabs = tabs
          BY <2>4, <5>1 DEF Tabs
        <5> QED
          BY <4>1, <5>2 DEF ToSet
      <4>3. layers' = layers
        BY <2>1, <2>5, <4>2 DEF RemoveSSTable
      <4>4. gs = fs
        BY <2>1, <2>5, <4>3
      <4>5. Without(g[n], id) = g[n]
        BY <3>1, WithoutAbsent
      <4>6. Kept' = g
        <5>1. \A l \in Nat : (IF l = n THEN Without(g[l], id) ELSE g[l]) = g[l]
          BY <4>5
        <5> QED
          BY <2>8, <5>1 DEF Lists
      <4>7. U = W
        BY <2>8, <2>9, <4>6 DEF Listed
      <4> QED
        BY <2>6, <2>7, <4>4, <4>5, <4>7
    <3>2. CASE ~\A k \in 1 .. Len(g[n]) : g[n][k].id # id
      <4>1. \E k \in 1 .. Len(g[n]) : g[n][k].id = id
        BY <3>2
      <4>2. \E k \in 1 .. Len(tabs) : tabs[k].id = id
        BY <2>4, <4>1 DEF Same
      <4>3. layers' # layers
        <5>1. Without(tabs, id) # tabs
          BY <4>2, WithoutFacts
        <5>2. n + 1 <= Len(layers)
          BY <1>1, <1>3, <1>5
        <5>3. Tabs(layers', n) = Without(tabs, id)
          BY <1>1, <2>1, <2>4, <2>5, <5>2, RemoveTabs
        <5> QED
          BY <2>4, <5>1, <5>3
      <4>4. gs = [f \in DOMAIN fs \ {name} |-> fs[f]]
        BY <2>1, <2>5, <4>3
      <4>5. PICK h \in Lists : h = Kept' /\ Leaves(g, h, n, id)
        <5>1. Without(g[n], id) \in Seq(Reader)
          BY WithoutFacts DEF Lists
        <5>2. \A l \in Nat : (IF l = n THEN Without(g[l], id) ELSE g[l]) \in Seq(Reader)
          BY <5>1 DEF Lists
        <5>3. Kept' \in Lists
          BY <2>8, <5>2 DEF Lists
        <5> QED
          BY <2>8, <4>1, <5>3 DEF Leaves
      <4>6. U = {p \in W : p[2] # name}
        <5>1. PICK top : Identified(g, top)
          BY <1>2, <2>3 DEF Books
        <5>2. View(h) = {p \in View(g) : p[2] # name}
          BY ONLY g \in Lists, h \in Lists, n \in Nat, <2>6, <4>5, <5>1, ViewLeaves
        <5> QED
          BY <2>8, <2>9, <4>5, <5>2 DEF Listed
      <4>7. \A p \in U : p \in W /\ p[2] \in DOMAIN fs /\ fs[p[2]] # Partial /\ p[2] # name
        BY <2>7, <4>6 DEF Opens
      <4>8. \A p \in U : p[2] \in DOMAIN gs /\ gs[p[2]] = fs[p[2]]
        BY <4>4, <4>7
      <4>9. Good(strategy, P, gs, U)
        <5>1. name = in[1].name
          BY <1>3, <2>5
        <5>2. Len(in) \in Nat \ {0} /\ r[2] # in[1].name /\ U = {p \in W : p[2] # in[1].name}
          BY <1>3, <2>6, <4>6, <5>1
        <5> QED
          BY ONLY <2>6, <2>7, <4>8, <5>2, GoodDelete
      <4>10. r \in U
        BY <2>6, <4>6
      <4>11. Replaces(strategy, P, gs, U, r, in)
        <5>1. U \subseteq W /\ gs[r[2]] = fs[r[2]]
          BY <4>7, <4>8, <4>10
        <5> QED
          BY ONLY <2>6, <4>8, <5>1, ReplacesFewer
      <4>12. Opens(gs, U)
        BY <4>7, <4>8 DEF Opens
      <4>13. \A f \in DOMAIN gs : /\ f \in DOMAIN fs /\ gs[f] = fs[f]
                                  /\ <<f[1], f>> \in W => <<f[1], f>> \in U
        BY <4>4, <4>6
      <4>14. name \notin DOMAIN gs
        BY <4>4
      <4> QED
        BY <4>9, <4>10, <4>11, <4>12, <4>13, <4>14
    <3> QED
      BY <3>1, <3>2
  <2>11. Basic'
    BY <1>1, <1>2, <2>1, <2>2 DEF Basic
  <2>12. AllTyped'
    <3>1. FilesTyped(gs, seq)
      BY <1>2, <2>5, <2>10 DEF AllTyped, FilesTyped
    <3> QED
      BY <1>2, <2>1, <2>2, <2>5, <3>1 DEF AllTyped
  <2>13. CacheSound'
    BY <2>2 DEF CacheSound, MuFree
  <2>14. Books'
    BY <1>2, <2>1 DEF Books
  <2>15. Disk'
    <3>1. stray = "none" => \A f \in DOMAIN gs : gs[f] = Partial \/ <<f[1], f>> \in U
      BY <1>1, <1>2, <2>5, <2>10 DEF Disk
    <3> QED
      BY <1>1, <1>2, <2>1, <2>5, <2>9, <2>10, <3>1 DEF Disk
  <2>16. Store'
    BY <2>1, <2>5, <2>8, <2>9, <2>10 DEF Store
  <2>17. Writing'
    BY <2>2 DEF Writing
  <2>18. Replacing'
    <3>1. Place' = r /\ Coming' = U /\ Finished' = gs /\ Past' = P /\ strategy' = strategy
      <4>1. Place' = r
        BY <2>2, <2>5 DEF Place, Name
      <4>2. Coming' = U /\ Finished' = gs
        BY <2>2, <2>5, <2>9 DEF Coming, Finished
      <4> QED
        BY <2>1, <2>8, <4>1, <4>2
    <3>2. Without(Rows(First.layer)', First'.id) = Rows(First.layer)'
             \/ First'.name \notin DOMAIN files'
      BY <1>3, <2>2, <2>5, <2>8, <2>10
    <3>3. \A j \in 1 .. Len(in) : \A l \in Nat : \A k \in 1 .. Len(Rows(l)') :
             Rows(l)'[k].id = in[j].id => Rows(l)'[k].name = in[j].name
      <4>1. \A j \in 1 .. Len(in) : \A l \in Nat : \A k \in 1 .. Len(Rows(l)) :
               Rows(l)[k].id = in[j].id => Rows(l)[k].name = in[j].name
        BY <1>1, <1>2, <1>3 DEF Replacing
      <4> QED
        BY <2>1, <4>1 DEF Rows
    <3>4. \A j \in 1 .. Len(in) : in[j].id # worker'.id
      BY <1>1, <1>2, <1>3, <2>2 DEF Replacing
    <3> QED
      BY <2>2, <2>6, <2>10, <3>1, <3>2, <3>3, <3>4 DEF Replacing
  <2>19. Rebuilding'
    BY <1>1, <2>1 DEF Rebuilding
  <2> QED
    BY <2>1, <2>11, <2>12, <2>13, <2>14, <2>15, <2>16, <2>17, <2>18, <2>19 DEF ReadInv, Ready, Usual
<1> QED
  BY <1>4, <1>5

(* The row of the first input goes, and the round ends.                    *)
LEMMA UnlistReads ==
    ASSUME ManifestInv, Basic, Ready, failure # "misplaced", stray # "listed", Unlist
    PROVE  ReadInv'
<1>1. /\ status = "up" /\ worker.pc = "unlist" /\ WorkerInv /\ worker.inputs # <<>>
      /\ manifest \in Manifest /\ nextId \in Nat
  BY DEF Unlist, ManifestInv, TypeInv, WorkerInv
<1>2. AllTyped /\ Books /\ Disk /\ Store /\ Writing /\ Replacing /\ seq \in Nat
  BY <1>1 DEF Ready, Usual, Basic
<1>3. PICK t \in Reader, n \in Nat, in \in Seq(Reader) :
         /\ t = First /\ n = t.layer /\ in = worker.inputs /\ t = in[1] /\ Len(in) \in Nat \ {0}
  BY <1>1, FirstType DEF WorkerInv
<1>4. CASE Without(Rows(n), t.id) = Rows(n)
  <2>1. Panic("notFound") /\ UNCHANGED <<files, manifest>>
    BY <1>3, <1>4 DEF Unlist, First, Rows
  <2>2. Die /\ UNCHANGED manifest /\ files' = files /\ failure' # "misplaced"
    BY <2>1 DEF Panic
  <2>3. FilesTyped(files', seq)
    BY <1>2, <2>2 DEF AllTyped
  <2> QED
    BY <1>1, <2>2, <2>3, DownReads
<1>5. CASE Without(Rows(n), t.id) # Rows(n)
  <2>1. /\ manifest' = [ManifestPut(manifest, n, Without(Rows(n), t.id)) EXCEPT !.next = nextId]
        /\ \/ GoOn(layers, worker.i) /\ frags' = [frags EXCEPT !.dirty = TRUE]
           \/ worker' = [worker EXCEPT !.pc = "delete", !.inputs = Tail(@)]
                 /\ UNCHANGED <<layers, frags>>
        /\ UNCHANGED <<strategy, nextId, status, files, failure, seq, hist, rdHist, stray>>
    BY <1>3, <1>5 DEF Unlist, First, Rows, history
  <2>2. PICK g \in Lists : g = AllRows(manifest) /\ \A l \in Nat : g[l] = Rows(l)
    BY RowLists
  <2>3. PICK top \in Int : top = manifest.next
    BY RowLists
  <2>4. PICK h \in Lists :
           /\ h = Kept /\ Identified(h, top) /\ Leaves(g, h, n, t.id) /\ View(h) = Listed
           /\ h[n] = Without(g[n], t.id) /\ \A l \in Nat : l # n => h[l] = g[l]
    <3>1. Kept \in Lists /\ Identified(Kept, manifest.next)
      BY <1>2, ListedFacts
    <3>2. Leaves(AllRows(manifest), Kept, First.layer, First.id)
      BY <1>1, <1>2, <1>3, <1>5, ListedFacts
    <3> QED
      BY <1>3, <2>2, <2>3, <3>1, <3>2 DEF Listed, Leaves
  <2>5. manifest'.next = nextId /\ \A l \in Nat : Rows(l)' = h[l]
    <3>1. PICK m \in Manifest : m = manifest
      BY <1>1
    <3>2. PICK w \in Seq(Reader) : w = Without(g[n], t.id)
      BY WithoutFacts DEF Lists
    <3>3. manifest' = [ManifestPut(m, n, w) EXCEPT !.next = nextId]
      BY <1>3, <2>1, <2>2, <3>1, <3>2
    <3>4. manifest'.next = nextId /\ \A l \in Nat :
             Rows(l)' = IF l = n THEN w ELSE ManifestRows(m, l)
      BY ONLY m \in Manifest, n \in Nat, w \in Seq(Reader), <1>1, <3>3, SaveRows
    <3>5. \A l \in Nat : ManifestRows(m, l) = g[l]
      BY <2>2, <3>1 DEF Rows
    <3> QED
      BY <2>4, <3>2, <3>4, <3>5
  <2>6. AllRows(manifest') = h
    BY <2>4, <2>5 DEF AllRows, Rows, Lists
  <2>7. worker'.pc \in {"idle", "compact", "delete"}
    <3>1. GoOn(layers, worker.i) => worker'.pc \in {"idle", "compact"}
      BY LoopWorker
    <3>2. worker' = [worker EXCEPT !.pc = "delete", !.inputs = Tail(@)] => worker'.pc = "delete"
      BY <1>1 DEF WorkerInv
    <3> QED
      BY <2>1, <3>1, <3>2
  <2>8. Listed' = Listed /\ Past' = Past
    <3>1. Kept' = h
      BY <2>4, <2>5, <2>7 DEF Kept, RowsLeft, Lists
    <3> QED
      BY <2>1, <2>4, <3>1 DEF Listed, Past
  <2>9. Books'
    <3>1. Identified(h, nextId)
      <4>1. ASSUME NEW l \in Nat, NEW k \in 1 .. Len(h[l]) PROVE h[l][k].id < nextId
        <5>1. h[l][k].id \in Nat
          BY ListElement
        <5>2. h[l][k].id < top
          BY <2>4 DEF Identified, Earlier
        <5>3. top <= nextId
          BY <1>1, <1>2, <2>3 DEF Disk
        <5> QED
          BY <1>1, <5>1, <5>2, <5>3
      <4> QED
        BY <2>4, <4>1 DEF Identified, Earlier
    <3>2. Sorted(strategy, h)
      BY <1>2, <2>2, <2>4, SortedLeaves DEF Books
    <3>3. \A p \in Listed : p[1] < MaxHeight /\ (stray = "none" => p[2][1] = p[1])
      BY <1>2, ListedPlaces
    <3> QED
      BY <2>1, <2>4, <2>5, <2>6, <3>1, <3>2, <3>3 DEF Books
  <2>10. Disk'
    BY <1>1, <1>2, <2>1, <2>5, <2>8 DEF Disk
  <2>11. Store'
    BY <1>1, <1>2, <2>1, <2>8 DEF Disk, Store
  <2>12. Rebuilding'
    BY <1>1, <2>1 DEF Rebuilding
  <2>13. CASE GoOn(layers, worker.i) /\ frags' = [frags EXCEPT !.dirty = TRUE]
    <3>1. /\ worker'.pc \in {"idle", "compact"} /\ worker'.inputs = <<>>
          /\ worker'.content = Idle.content /\ (worker'.pc = "idle" => worker' = Idle)
      BY <2>13, LoopWorker
    <3>2. Basic'
      BY <1>1, <1>2, <2>1, <3>1 DEF Basic
    <3>3. AllTyped'
      <4>1. Typed(worker'.content, seq)
        BY <3>1, IdleTyped
      <4> QED
        BY <1>2, <2>1, <4>1 DEF AllTyped
    <3>4. CacheSound'
      BY <2>13 DEF CacheSound
    <3>5. Writing' /\ Replacing'
      BY <3>1 DEF Writing, Replacing
    <3> QED
      BY <2>1, <2>9, <2>10, <2>11, <2>12, <3>2, <3>3, <3>4, <3>5 DEF ReadInv, Ready, Usual
  <2>14. CASE worker' = [worker EXCEPT !.pc = "delete", !.inputs = Tail(@)]
    <3>1. PICK u \in Seq(Reader) : /\ u = Tail(in) /\ Len(u) = Len(in) - 1
                                   /\ \A k \in 1 .. Len(in) - 1 : u[k] = in[k + 1]
      <4>1. Len(in) \in Nat \ {0} /\ in # <<>>
        BY <1>3
      <4>2. /\ Tail(in) \in Seq(Reader) /\ Len(Tail(in)) = Len(in) - 1
            /\ \A k \in 1 .. Len(in) - 1 : Tail(in)[k] = in[k + 1]
        BY ONLY in \in Seq(Reader), <4>1
      <4>. PICK x : x = Tail(in)
        OBVIOUS
      <4> QED
        BY <4>2
    <3>2. /\ worker'.pc = "delete" /\ worker'.inputs = u /\ worker'.content = worker.content
          /\ worker'.to = worker.to /\ worker'.id = worker.id
      BY <1>1, <1>3, <2>14, <3>1 DEF WorkerInv
    <3>3. \A k \in 1 .. Len(u) : k + 1 \in 1 .. Len(in) /\ u[k] = in[k + 1]
      BY <1>3, <3>1
    <3>4. /\ Named(in) /\ Place \in Listed /\ \A j \in 1 .. Len(in) : in[j].id # worker.id
          /\ Replaces(strategy, Past, files, Listed, Place, in)
          /\ \A j \in 1 .. Len(in) : \A l \in Nat : \A k \in 1 .. Len(Rows(l)) :
                Rows(l)[k].id = in[j].id => Rows(l)[k].name = in[j].name
          /\ t.name \notin DOMAIN files
      <4>1. Coming = Listed /\ Finished = files
        BY <1>1 DEF Coming, Finished
      <4> QED
        BY <1>1, <1>2, <1>3, <1>5, <4>1 DEF Replacing
    <3>5. Basic'
      BY <1>1, <1>2, <2>1, <3>2 DEF Basic
    <3>6. AllTyped'
      BY <1>2, <2>1, <3>2 DEF AllTyped
    <3>7. CacheSound' /\ Writing'
      BY <3>2 DEF CacheSound, MuFree, Writing
    <3>8. Replacing'
      <4>1. Place' = Place /\ Coming' = Listed /\ Finished' = files
        BY <2>1, <2>8, <3>2 DEF Place, Name, Coming, Finished
      <4>2. Named(u) /\ \A j \in 1 .. Len(u) : u[j].id # worker.id
        BY <3>3, <3>4 DEF Named
      <4>3. Replaces(strategy, Past, files, Listed, Place, u)
        <5>1. in # <<>> /\ \A p \in Listed : p[2] # in[1].name
          BY <1>1, <1>2, <1>3, <3>4 DEF Disk, Opens
        <5>2. PICK P, fs, W, r : P = Past /\ fs = files /\ W = Listed /\ r = Place
          OBVIOUS
        <5>3. Replaces(strategy, P, fs, W, r, in) /\ in # <<>> /\ \A p \in W : p[2] # in[1].name
          BY <3>4, <5>1, <5>2
        <5>4. Replaces(strategy, P, fs, W, r, Tail(in))
          BY ONLY in \in Seq(Reader), <5>3, ReplacesTail
        <5> QED
          BY <3>1, <5>2, <5>4
      <4>4. ASSUME NEW j \in 1 .. Len(u), NEW l \in Nat
            PROVE  \A k \in 1 .. Len(h[l]) : h[l][k].id = u[j].id => h[l][k].name = u[j].name
        <5>1. j + 1 \in 1 .. Len(in) /\ u[j] = in[j + 1]
          BY <3>3
        <5>2. \A k \in 1 .. Len(Rows(l)) : Rows(l)[k].id = u[j].id => Rows(l)[k].name = u[j].name
          BY <3>4, <5>1
        <5>3. g[l] = Rows(l)
          BY <2>2
        <5>4. PICK s \in Seq(Reader) : s = g[l]
          BY DEF Lists
        <5>5. \A k \in 1 .. Len(s) : s[k].id = u[j].id => s[k].name = u[j].name
          BY ONLY <5>2, <5>3, <5>4
        <5>6. \A k \in 1 .. Len(h[l]) : \E i \in 1 .. Len(s) : h[l][k] = s[i]
          <6>1. CASE l # n
            BY <2>4, <5>4, <6>1
          <6>2. CASE l = n
            <7>1. h[l] = Without(s, t.id)
              BY <2>4, <5>4, <6>2
            <7>2. PICK f \in [1 .. Len(Without(s, t.id)) -> 1 .. Len(s)] :
                     \A i \in 1 .. Len(Without(s, t.id)) : Without(s, t.id)[i] = s[f[i]]
              BY WithoutFacts
            <7> QED
              BY <7>1, <7>2
          <6> QED
            BY <6>1, <6>2
        <5> QED
          BY <5>5, <5>6
      <4>5. ASSUME NEW j \in 1 .. Len(u), NEW l \in Nat
            PROVE  \A k \in 1 .. Len(Rows(l)') : Rows(l)'[k].id = u[j].id =>
                      Rows(l)'[k].name = u[j].name
        <5>1. Rows(l)' = h[l]
          BY <2>5
        <5>2. \A k \in 1 .. Len(h[l]) : h[l][k].id = u[j].id => h[l][k].name = u[j].name
          BY <4>4
        <5> QED
          BY ONLY <5>1, <5>2
      <4> QED
        BY <2>1, <2>8, <3>2, <3>4, <4>1, <4>2, <4>3, <4>5 DEF Replacing
    <3>9. Usual'
      BY <2>9, <2>10, <2>11, <2>12, <3>7, <3>8 DEF Usual
    <3>10. Ready'
      BY <2>1, <3>6, <3>7, <3>9 DEF Ready
    <3> QED
      BY <3>5, <3>10 DEF ReadInv
  <2> QED
    BY <2>1, <2>13, <2>14
<1> QED
  BY <1>4, <1>5

-----------------------------------------------------------------------------
(* The ends of a process, and the first start.                             *)

(* A crash leaves the table that is being written finished or not.         *)
LEMMA CrashReads ==
    ASSUME ManifestInv, Basic, Ready, failure # "misplaced", stray # "listed", Crash
    PROVE  ReadInv'
<1>1. status = "up" /\ Die /\ UNCHANGED <<manifest, failure>>
  BY DEF Crash
<1>2. AllTyped /\ Writing /\ seq \in Nat
  BY DEF Ready, Usual, Basic
<1>3. CASE worker.pc = "add"
  <2>1. PICK c \in {Partial, worker.content} : files' = [files EXCEPT ![Name] = c]
    BY <1>3 DEF Crash, Name
  <2>2. Name \in DOMAIN files /\ manifest.next <= Name[2] /\ Name[2] \in Nat
           /\ manifest.next \in Int
    <3>1. worker.id \in Nat
      BY DEF ManifestInv, TypeInv, WorkerInv
    <3> QED
      BY <1>2, <1>3, <3>1, RowLists DEF Writing, Name
  <2>3. PICK gs : gs = files' /\ DOMAIN gs = DOMAIN files /\ gs[Name] = c
                  /\ \A n \in DOMAIN files : n # Name => gs[n] = files[n]
    BY <2>1, <2>2
  <2>4. FilesTyped(gs, seq)
    BY <1>2, <2>3 DEF AllTyped, FilesTyped
  <2>5. \A n \in DOMAIN files : n \in DOMAIN gs /\ (n[2] < manifest.next => gs[n] = files[n])
    BY <2>2, <2>3
  <2>6. files' = Finished \/ (worker.pc # "unlist" /\ \E n \in DOMAIN gs : gs[n] = Partial)
    BY <1>3, <2>1, <2>2, <2>3 DEF Finished
  <2> QED
    BY <1>1, <1>3, <2>3, <2>4, <2>5, <2>6, DownReads
<1>4. CASE worker.pc # "add"
  <2>1. files' = files
    BY <1>4 DEF Crash
  <2>2. FilesTyped(files', seq)
    BY <1>2, <2>1 DEF AllTyped
  <2> QED
    BY <1>1, <2>1, <2>2, DownReads
<1> QED
  BY <1>3, <1>4

(* Lists of no tables.                                                     *)
LEMMA EmptyView ==
    ASSUME NEW g, \A n \in Nat : g[n] = <<>>, NEW top
    PROVE  View(g) = {} /\ Identified(g, top) /\ Sorted(strategy, g)
<1>1. \A n \in Nat : Len(g[n]) = 0 /\ 1 .. Len(g[n]) = {}
  OBVIOUS
<1>2. View(g) = {}
  BY <1>1, ViewElement
<1>3. Identified(g, top)
  BY <1>1 DEF Identified, Named, Distinct, Earlier
<1> QED
  BY <1>1, <1>2, <1>3 DEF Sorted

(* The manifest is lost while the engine is down.                          *)
LEMMA LoseReads ==
    ASSUME ManifestInv, Basic, Ready, failure # "misplaced", stray # "listed", LoseManifest
    PROVE  ReadInv'
<1>1. /\ status = "down" /\ manifest' = NoManifest
      /\ UNCHANGED <<strategy, layers, nextId, frags, worker, status, files, seq, hist, rdHist,
                     failure, stray>>
  BY DEF LoseManifest, volatile
<1>2. AllTyped /\ Rebuilding
  BY DEF Ready, Usual
<1>3. worker = Idle /\ worker.pc = "idle" /\ worker.inputs = <<>>
  BY <1>1, IdleContent DEF ManifestInv, TypeInv
<1>4. Basic'
  BY <1>1 DEF Basic
<1>5. AllTyped' /\ CacheSound'
  BY <1>1, <1>2 DEF AllTyped, CacheSound, MuFree
<1>6. Books'
  <2>1. PICK g, top : g = AllRows(manifest') /\ top = manifest'.next
    OBVIOUS
  <2>2. \A n \in Nat : g[n] = <<>>
    BY <1>1, <2>1, EmptyRows DEF AllRows
  <2>3. View(g) = {} /\ Identified(g, top) /\ Sorted(strategy, g)
    BY <2>2, EmptyView
  <2> QED
    BY <1>1, <2>1, <2>3 DEF Books
<1>7. Disk' /\ Store' /\ Writing' /\ Replacing'
  BY <1>1, <1>3 DEF Disk, Store, Writing, Replacing
<1>8. Rebuilding'
  <2>1. Names' = Names /\ Rebuilt' = Rebuilt
    BY <1>1 DEF Names, Rebuilt, Past
  <2> QED
    BY <1>1, <1>2, <2>1 DEF Rebuilding
<1> QED
  BY <1>1, <1>4, <1>5, <1>6, <1>7, <1>8 DEF ReadInv, Ready, Usual

(* Nothing was flushed and there are no tables.                            *)
Nothing ==
    /\ files = <<>> /\ hist = {} /\ rdHist = {} /\ seq \in Nat
    /\ layers = <<NoLayer>> /\ worker = Idle /\ status = "up" /\ failure # "misplaced"
    /\ manifest \in {EmptyManifest, NoManifest} /\ manifest.next <= nextId

(* With no table there is no wrong answer.                                 *)
LEMMA NothingReads ==
    Nothing => ReadInv
<1>. SUFFICES ASSUME Nothing PROVE ReadInv
  OBVIOUS
<1>1. worker.pc = "idle" /\ worker.inputs = <<>> /\ DOMAIN files = {}
  BY IdleContent DEF Nothing
<1>2. Basic
  BY DEF Nothing, Basic
<1>3. AllTyped
  <2>1. Typed(worker.content, seq)
    BY IdleTyped DEF Nothing
  <2> QED
    BY <1>1, <2>1 DEF Nothing, AllTyped, FilesTyped, Typed, Tombs, Table
<1>4. PICK g, h : g = AllRows(manifest) /\ h = AllTabs(layers)
  OBVIOUS
<1>5. \A n \in Nat : g[n] = <<>> /\ h[n] = <<>>
  <2>1. \A n \in Nat : ManifestRows(manifest, n) = <<>>
    BY EmptyRows DEF Nothing
  <2>2. \A n \in Nat : Tabs(layers, n) = <<>>
    BY EmptyTabs DEF Nothing
  <2> QED
    BY <1>4, <2>1, <2>2 DEF AllRows, AllTabs
<1>6. View(g) = {} /\ View(h) = {} /\ Identified(g, manifest.next) /\ Sorted(strategy, g)
  BY <1>5, EmptyView
<1>7. Seen = {} /\ Listed = {}
  BY <1>1, <1>4, <1>6, LeftRows DEF Seen, Listed
<1>8. Past = {}
  BY MarkFacts DEF Nothing, Past, Table
<1>9. CacheSound
  BY <1>7 DEF CacheSound
<1>10. Books
  BY <1>4, <1>6 DEF Books
<1>11. Disk
  BY <1>1, <1>7 DEF Nothing, Disk, Opens
<1>12. Store
  BY <1>7, <1>8, GoodEmpty DEF Store
<1>13. Writing /\ Replacing
  BY <1>1, NothingWritten
<1>14. Rebuilding
  BY DEF Nothing, Rebuilding
<1> QED
  BY <1>2, <1>3, <1>9, <1>10, <1>11, <1>12, <1>13, <1>14 DEF Nothing, ReadInv, Ready, Usual

(* So it is after ClearAll, and at first.                                  *)
LEMMA ClearReads ==
    ASSUME ManifestInv, Basic, failure # "misplaced", QuietClear, ClearAll
    PROVE  ReadInv'
<1>1. /\ status = "up" /\ worker.pc = "idle" /\ layers' = <<NoLayer>> /\ nextId' = 0
      /\ files' = <<>> /\ manifest' = NoManifest /\ hist' = {} /\ rdHist' = {}
      /\ UNCHANGED <<worker, status, seq, failure>>
  BY DEF ClearAll
<1>2. seq \in Nat /\ worker = Idle
  BY <1>1 DEF Basic
<1>3. manifest'.next <= nextId'
  BY <1>1 DEF NoManifest
<1>4. Nothing'
  BY <1>1, <1>2, <1>3 DEF Nothing
<1>5. Nothing' => ReadInv'
  BY NothingReads, PTL
<1> QED
  BY <1>4, <1>5

(* The first state.                                                        *)
LEMMA InitReads ==
    Init => ReadInv
<1>. SUFFICES ASSUME Init PROVE ReadInv
  OBVIOUS
<1>1. Nothing
  BY DEF Init, Nothing, EmptyManifest
<1> QED
  BY <1>1, NothingReads

-----------------------------------------------------------------------------
(* A start.                                                                *)

(* Nth counts upwards.                                                     *)
LEMMA NthOrder ==
    ASSUME NEW I \in SUBSET Nat, IsFiniteSet(I),
           NEW j \in 1 .. Cardinality(I), NEW k \in 1 .. Cardinality(I), j < k
    PROVE  Nth(I, j) < Nth(I, k)
<1>1. ASSUME NEW i \in 1 .. Cardinality(I) PROVE Nth(I, i) \in I /\ Rank(I, Nth(I, i)) = i
  <2>1. \E x \in I : Rank(I, x) = i
    BY RankTaken
  <2> QED
    BY <2>1 DEF Nth, Rank
<1>2. PICK a \in I, b \in I : a = Nth(I, j) /\ b = Nth(I, k) /\ Rank(I, a) = j /\ Rank(I, b) = k
  BY <1>1
<1>3. ASSUME b <= a PROVE FALSE
  <2>1. PICK A, B : A = {x \in I : x <= a} /\ B = {x \in I : x <= b}
    OBVIOUS
  <2>2. B \in SUBSET A /\ A \in SUBSET I
    <3>1. ASSUME NEW x \in I, x <= b PROVE x <= a
      <4>1. x \in Nat /\ a \in Nat /\ b \in Nat
        OBVIOUS
      <4> QED
        BY ONLY <1>3, <3>1, <4>1
    <3> QED
      BY <2>1, <3>1
  <2>3. IsFiniteSet(A)
    BY <2>2, FS_Subset
  <2>4. Cardinality(B) <= Cardinality(A)
    BY <2>2, <2>3, FS_Subset
  <2>5. Cardinality(A) = j /\ Cardinality(B) = k
    BY <1>2, <2>1 DEF Rank
  <2>6. Cardinality(I) \in Nat
    BY FS_CardinalityType
  <2> QED
    BY <2>4, <2>5, <2>6
<1> QED
  BY <1>2, <1>3

(* A manifest read from the file names lists each file, in order.          *)
LEMMA RebuiltRows ==
    ASSUME FilesInv, \A f \in DOMAIN files : f[1] < MaxHeight, NEW g, g = AllRows(Reconstruct)
    PROVE  /\ \A n \in Nat : \A k \in 1 .. Len(g[n]) :
                 /\ g[n][k].name = <<n, g[n][k].id>> /\ g[n][k].name \in DOMAIN files
                 /\ g[n][k].id < Reconstruct.next
           /\ \A f \in DOMAIN files : \E k \in 1 .. Len(g[f[1]]) : g[f[1]][k].name = f
           /\ \A n \in Nat : \A j, k \in 1 .. Len(g[n]) : j < k => g[n][j].id < g[n][k].id
<1>. DEFINE idsOf(l) == {n[2] : n \in {f \in DOMAIN files : f[1] = l}}
            rows(l) == [i \in 1 .. Cardinality(idsOf(l)) |->
                           LET id == Nth(idsOf(l), i) IN [id |-> id, layer |-> l, name |-> <<l,
                              id>>]]
            ids == {n[2] : n \in DOMAIN files}
            next == IF ids = {} THEN 0 ELSE Max(ids) + 1
            ls == [l \in 1 .. MaxHeight |-> rows(l - 1)]
<1>1. Reconstruct = [next |-> next, layers |-> ls]
  BY DEF Reconstruct
<1>2. PICK B \in Nat : \A f \in DOMAIN files : f[2] \in Nat /\ f[2] <= B
  BY BoundedIds
<1>3. \A f \in DOMAIN files : f[2] < next
  <2>1. ids \in SUBSET Nat /\ (\A i \in ids : i <= B) /\ \A f \in DOMAIN files : f[2] \in ids
    BY <1>2
  <2>. HIDE DEF ids
  <2>2. ASSUME NEW f \in DOMAIN files PROVE f[2] < next
    <3>1. Max(ids) \in Nat /\ f[2] <= Max(ids) /\ f[2] \in Nat /\ ids # {}
      BY <2>1, MaxOfNaturals
    <3> QED
      BY <3>1
  <2> QED
    BY <2>2
<1>. HIDE DEF next
<1>4. ASSUME NEW l \in Nat
      PROVE  /\ \A k \in 1 .. Len(rows(l)) :
                   rows(l)[k].name = <<l, rows(l)[k].id>> /\ rows(l)[k].name \in DOMAIN files
             /\ \A f \in DOMAIN files : f[1] = l => \E k \in 1 .. Len(rows(l)) : rows(l)[k].name = f
             /\ \A j, k \in 1 .. Len(rows(l)) : j < k => rows(l)[j].id < rows(l)[k].id
  <2>1. PICK I : I = idsOf(l)
    OBVIOUS
  <2>2. /\ I \in SUBSET Nat /\ \A i \in I : i <= B
        /\ \A i \in I : <<l, i>> \in DOMAIN files
        /\ \A f \in DOMAIN files : f[1] = l => f[2] \in I /\ f = <<l, f[2]>>
    <3>1. \A f \in DOMAIN files : f = <<f[1], f[2]>>
      BY DEF FilesInv
    <3> QED
      BY <1>2, <2>1, <3>1
  <2>3. IsFiniteSet(I)
    BY <2>2, FS_BoundedSetOfNaturals
  <2>4. /\ Cardinality(I) \in Nat /\ \A k \in 1 .. Cardinality(I) : Nth(I, k) \in I
        /\ \A i \in I : \E k \in 1 .. Cardinality(I) : Nth(I, k) = i
    BY <2>2, <2>3, NthElement
  <2>5. \A j, k \in 1 .. Cardinality(I) : j < k => Nth(I, j) < Nth(I, k)
    BY <2>2, <2>3, NthOrder
  <2>6. PICK c \in Nat : c = Cardinality(I)
    BY <2>4
  <2>7. PICK r : r = rows(l)
    OBVIOUS
  <2>8. r = [i \in 1 .. c |-> [id |-> Nth(I, i), layer |-> l, name |-> <<l, Nth(I, i)>>]]
    BY <2>1, <2>6, <2>7
  <2>9. \A k \in 1 .. c : r[k].id = Nth(I, k) /\ r[k].name = <<l, Nth(I, k)>>
    BY <2>8
  <2>10. Len(r) = c
    BY ONLY c \in Nat, <2>8
  <2>11. \A k \in 1 .. Len(r) : r[k].name = <<l, r[k].id>> /\ r[k].name \in DOMAIN files
    <3>1. SUFFICES ASSUME NEW k \in 1 .. c
                   PROVE  r[k].name = <<l, r[k].id>> /\ r[k].name \in DOMAIN files
      BY <2>10
    <3>2. PICK x \in I : x = Nth(I, k)
      BY <2>4, <2>6
    <3>3. r[k].id = x /\ r[k].name = <<l, x>>
      BY <2>9, <3>2
    <3> QED
      BY <2>2, <3>3
  <2>12. \A j, k \in 1 .. Len(r) : j < k => r[j].id < r[k].id
    BY <2>5, <2>6, <2>9, <2>10
  <2>13. \A f \in DOMAIN files : f[1] = l => \E k \in 1 .. Len(r) : r[k].name = f
    <3>1. SUFFICES ASSUME NEW f \in DOMAIN files, f[1] = l
                   PROVE \E k \in 1 .. Len(r) : r[k].name = f
      OBVIOUS
    <3>2. PICK k \in 1 .. Cardinality(I) : Nth(I, k) = f[2]
      BY <2>2, <2>4, <3>1
    <3>3. k \in 1 .. Len(r) /\ r[k].name = <<l, f[2]>>
      BY <2>6, <2>9, <2>10, <3>2
    <3> QED
      BY <2>2, <3>1, <3>3
  <2> QED
    BY <2>7, <2>11, <2>12, <2>13
<1>5. MaxHeight \in Nat
  BY ManagerAssumption
<1>. HIDE DEF rows
<1>6. Reconstruct.layers = ls /\ Reconstruct.next = next /\ Len(ls) = MaxHeight
  BY <1>1, <1>5
<1>7. \A n \in Nat : g[n] = IF n + 1 <= MaxHeight THEN rows(n) ELSE <<>>
  <2>1. \A l \in 1 .. MaxHeight : ls[l] = rows(l - 1)
    OBVIOUS
  <2>2. ASSUME NEW n \in Nat PROVE g[n] = IF n + 1 <= MaxHeight THEN rows(n) ELSE <<>>
    <3>1. g[n] = IF n + 1 <= MaxHeight THEN ls[n + 1] ELSE <<>>
      BY <1>6 DEF AllRows, ManifestRows
    <3>2. n + 1 <= MaxHeight => n + 1 \in 1 .. MaxHeight /\ (n + 1) - 1 = n
      BY <1>5
    <3> QED
      BY <2>1, <3>1, <3>2
  <2> QED
    BY <2>2
<1>. HIDE DEF ls
<1>8. ASSUME NEW n \in Nat, NEW k \in 1 .. Len(g[n])
      PROVE  /\ g[n][k].name = <<n, g[n][k].id>> /\ g[n][k].name \in DOMAIN files
             /\ g[n][k].id < Reconstruct.next
  <2>1. n + 1 <= MaxHeight
    <3>1. ~(n + 1 <= MaxHeight) => Len(g[n]) = 0
      BY <1>7
    <3> QED
      BY <3>1
  <2>2. g[n] = rows(n)
    BY <1>7, <2>1
  <2>3. g[n][k].name = <<n, g[n][k].id>> /\ g[n][k].name \in DOMAIN files
    BY <1>4, <2>2
  <2>4. g[n][k].name[2] < next
    BY <1>3, <2>3
  <2> QED
    BY <1>6, <2>3, <2>4
<1>9. ASSUME NEW f \in DOMAIN files PROVE \E k \in 1 .. Len(g[f[1]]) : g[f[1]][k].name = f
  <2>1. f[1] \in Nat /\ f[1] + 1 <= MaxHeight
    BY <1>5 DEF FilesInv
  <2>2. g[f[1]] = rows(f[1])
    BY <1>7, <2>1
  <2>3. \E k \in 1 .. Len(rows(f[1])) : rows(f[1])[k].name = f
    BY <1>4, <2>1
  <2> QED
    BY <2>2, <2>3
<1>10. ASSUME NEW n \in Nat, NEW j \in 1 .. Len(g[n]), NEW k \in 1 .. Len(g[n]), j < k
       PROVE  g[n][j].id < g[n][k].id
  <2>1. n + 1 <= MaxHeight
    <3>1. ~(n + 1 <= MaxHeight) => Len(g[n]) = 0
      BY <1>7
    <3> QED
      BY <3>1
  <2>2. g[n] = rows(n)
    BY <1>7, <2>1
  <2>3. \A a, b \in 1 .. Len(rows(n)) : a < b => rows(n)[a].id < rows(n)[b].id
    BY <1>4
  <2> QED
    BY <1>10, <2>2, <2>3
<1> QED
  BY <1>8, <1>9, <1>10

(* The entries of a manifest are its rows.                                 *)
Entries(m) == UNION {ToSet(m.layers[l]) : l \in DOMAIN m.layers}

ElementOf(e, g) == \E n \in Nat : \E k \in 1 .. Len(g[n]) : e = g[n][k]

(* An entry of a manifest is an element of one of its rows.                *)
LEMMA EntriesRows ==
    ASSUME NEW m \in Manifest, NEW e
    PROVE  e \in Entries(m) <=> ElementOf(e, AllRows(m))
<1>1. PICK ml \in Seq(Seq(Reader)) : ml = m.layers
  BY DEF Manifest
<1>2. PICK N \in Nat : N = Len(ml) /\ DOMAIN ml = 1 .. N /\ \A l \in 1 .. N : ml[l] \in Seq(Reader)
  BY <1>1
<1>3. PICK g : g = AllRows(m)
  OBVIOUS
<1>4. ASSUME NEW n \in Nat
      PROVE  /\ n + 1 <= N => g[n] = ml[n + 1] /\ n + 1 \in 1 .. N
             /\ ~(n + 1 <= N) => g[n] = <<>>
  <2>1. g[n] = ManifestRows(m, n)
    BY <1>3 DEF AllRows
  <2>2. ManifestRows(m, n) = IF n + 1 <= N THEN ml[n + 1] ELSE <<>>
    BY <1>1, <1>2 DEF ManifestRows
  <2> QED
    BY <2>1, <2>2
<1>5. ASSUME e \in Entries(m) PROVE \E n \in Nat : \E k \in 1 .. Len(g[n]) : e = g[n][k]
  <2>1. PICK l \in 1 .. N : e \in ToSet(ml[l])
    BY <1>1, <1>2, <1>5 DEF Entries
  <2>2. PICK n \in Nat : n = l - 1 /\ n + 1 = l /\ n + 1 <= N
    BY <1>2
  <2>3. g[n] = ml[l]
    BY <1>4, <2>2
  <2>4. PICK s \in Seq(Reader) : s = ml[l]
    BY <1>2
  <2>5. \E k \in 1 .. Len(s) : e = s[k]
    BY <2>1, <2>4 DEF ToSet
  <2> QED
    BY <2>3, <2>4, <2>5
<1>6. ASSUME NEW n \in Nat, NEW k \in 1 .. Len(g[n]), e = g[n][k] PROVE e \in Entries(m)
  <2>1. n + 1 <= N
    <3>1. g[n] = <<>> => FALSE
      OBVIOUS
    <3> QED
      BY <1>4, <3>1
  <2>2. n + 1 \in 1 .. N /\ g[n] = ml[n + 1]
    BY <1>4, <2>1
  <2>3. PICK s \in Seq(Reader) : s = ml[n + 1]
    BY <1>2, <2>2
  <2>4. e \in ToSet(s)
    BY <1>6, <2>2, <2>3 DEF ToSet
  <2> QED
    BY <1>1, <1>2, <2>2, <2>3, <2>4 DEF Entries
<1> QED
  BY <1>3, <1>5, <1>6 DEF ElementOf

(* What a start does, with the entries E of the manifest m.                *)
Tops(E) == {files[e.name] : e \in {f \in E : f.name[1] = 0}}
Restarted(m, E) ==
    /\ status = "down" /\ manifest' = m /\ nextId' = m.next
    /\ UNCHANGED <<strategy, frags, worker, files, seq, failure>>
    /\ status' = IF \A e \in E : e.name \in DOMAIN files /\ files[e.name] # Partial
                 THEN "up" ELSE "stuck"
    /\ manifest = NoManifest => stray' = IF stray = "left" THEN "listed" ELSE stray
    /\ manifest # NoManifest =>
          stray' = IF /\ stray = "none"
                      /\ \E n \in DOMAIN files : files[n] # Partial /\ \A e \in E : e.name # n
                   THEN "left" ELSE stray
    /\ status' = "up" => /\ hist' = hist \cup UNION {t.recs : t \in Tops(E)}
                         /\ rdHist' = rdHist \cup UNION {t.rds : t \in Tops(E)}

(* A start is a step of that kind.                                         *)
LEMMA RestartFacts ==
    ASSUME Restart, NEW m, m = IF manifest = NoManifest THEN Reconstruct ELSE manifest
    PROVE  Restarted(m, Entries(m))
<1>1. PICK E, F : E = Entries(m) /\ F = Tops(E)
  OBVIOUS
<1>. DEFINE opens == \A e \in E : e.name \in DOMAIN files /\ files[e.name] # Partial
            G == {files[e.name] : e \in {f \in E : opens /\ f.name[1] = 0}}
            leftOut == \E n \in DOMAIN files : files[n] # Partial /\ \A e \in E : e.name # n
<1>2. /\ status = "down" /\ manifest' = m /\ nextId' = m.next
      /\ UNCHANGED <<strategy, frags, worker, files, seq, failure>>
  BY DEF Restart
<1>3. /\ status' = IF opens THEN "up" ELSE "stuck"
      /\ stray' = IF manifest = NoManifest
                  THEN IF stray = "left" THEN "listed" ELSE stray
                  ELSE IF stray = "none" /\ leftOut THEN "left" ELSE stray
      /\ hist' = hist \cup UNION {t.recs : t \in G}
      /\ rdHist' = rdHist \cup UNION {t.rds : t \in G}
  BY <1>1 DEF Restart, Entries
<1>4. opens => G = F
  BY <1>1 DEF Tops
<1>. HIDE DEF opens, G, leftOut
<1>5. status' = "up" => opens
  BY <1>3
<1> QED
  BY <1>2, <1>3, <1>4, <1>5, <1>1 DEF opens, leftOut, Restarted

(* What was flushed, with more tables of L0.                               *)
LEMMA PastGrows ==
    ASSUME AllTyped, seq \in Nat, seq' = seq, NEW F, \A T \in F : Typed(T, seq),
           hist' = hist \cup UNION {t.recs : t \in F}, rdHist' = rdHist \cup UNION {t.rds : t \in F}
    PROVE  Past' = Past \cup UNION {Marks(T) : T \in F} /\ Typed(Table(hist', rdHist'), seq)
<1>1. PICK R, D : R = UNION {t.recs : t \in F} /\ D = UNION {t.rds : t \in F}
  OBVIOUS
<1>2. PICK A, B : A = Table(hist, rdHist) /\ B = Table(R, D)
  OBVIOUS
<1>3. A.recs = hist /\ A.rds = rdHist /\ B.recs = R /\ B.rds = D
  BY <1>2 DEF Table
<1>4. PICK H, K : H = hist' /\ K = rdHist' /\ H = A.recs \cup B.recs /\ K = A.rds \cup B.rds
  BY <1>1, <1>3
<1>5. Marks(Table(A.recs \cup B.recs, A.rds \cup B.rds)) = Marks(A) \cup Marks(B)
  BY MarksAdded
<1>6. Marks(B) = UNION {Marks(T) : T \in F}
  BY <1>1, <1>2, MarksTogether
<1>7. Marks(Table(H, K)) = Past \cup UNION {Marks(T) : T \in F}
  BY <1>2, <1>4, <1>5, <1>6 DEF Past
<1>8. Typed(Table(H, K), seq)
  <2>1. Typed(A, seq) /\ Typed(B, seq)
    BY <1>1, <1>2, TypedTogether DEF AllTyped
  <2>2. Table(H, K).recs = H /\ Table(H, K).rds = K
    BY DEF Table
  <2>3. Typed(Table(H, K), seq)
    BY <1>4, <2>1, <2>2 DEF Typed, Tombs
  <2> QED
    BY <2>3
<1> QED
  BY <1>4, <1>7, <1>8 DEF Past

(* What holds of the file names and of stray in every state.               *)
Bounded ==
    stray \in {"none", "left", "listed"} /\ \A f \in DOMAIN files : f[1] < MaxHeight

(* The lists g of a start's manifest, at the places V, may be read.        *)
Started(g, top, V, Q, left) ==
    /\ Identified(g, top) /\ Sorted(strategy, g) /\ Good(strategy, Q, files, V)
    /\ \A p \in V : p[1] < MaxHeight /\ (left = "none" => p[2][1] = p[1])
    /\ left = "none" => \A n \in DOMAIN files : files[n] = Partial \/ <<n[1], n>> \in V

(* The entries E name the tables at V, and Q are the versions flushed once *)
(* those of L0 count as flushed.                                           *)
Offered(V, E, Q) ==
    /\ \A p \in V : \E e \in E : e.name = p[2]
    /\ \A e \in E : \E p \in V : p[2] = e.name
    /\ Q = Past \cup UNION {Marks(files[e.name]) : e \in {f \in E : f.name[1] = 0}}

(* Every complete table is one of E.                                       *)
AllNamed(E) == \A n \in DOMAIN files : files[n] = Partial \/ \E e \in E : e.name = n

(* A manifest that was saved.                                              *)
LEMMA KnownStart ==
    ASSUME ManifestInv, Books, Store, worker.pc = "idle", manifest # NoManifest,
           NEW g \in Lists, g = AllRows(manifest), NEW V, V = View(g), Opens(files, V),
           NEW E, NEW Q, Offered(V, E, Q),
           NEW left,
           left = "none" => stray = "none" /\ AllNamed(E)
    PROVE  Started(g, manifest.next, V, Q, left)
<1>1. /\ \A p \in V : \E e \in E : e.name = p[2]
      /\ \A e \in E : \E p \in V : p[2] = e.name
      /\ Q = Past \cup UNION {Marks(files[e.name]) : e \in {f \in E : f.name[1] = 0}}
  BY DEF Offered
<1>2. Identified(g, manifest.next) /\ Sorted(strategy, g)
  BY DEF Books
<1>3. V = Listed
  BY LeftRows DEF Listed
<1>4. \A p \in V : p \in Places /\ p[1] < MaxHeight /\ (stray = "none" => p[2][1] = p[1])
  <2>1. V \subseteq Places
    <3>1. PICK top : Identified(g, top)
      BY <1>2
    <3> QED
      BY <3>1, ViewFacts
  <2> QED
    BY <2>1 DEF Books
<1>5. Good(strategy, Past, files, V)
  BY <1>3 DEF Store
<1>6. Q = Past
  <2>1. ASSUME NEW e \in E PROVE Marks(files[e.name]) \subseteq Past
    <3>1. PICK p \in V : p[2] = e.name
      BY <1>1
    <3>2. Marks(files[p[2]]) \subseteq Past
      BY <1>5 DEF Good
    <3> QED
      BY <3>1, <3>2
  <2> QED
    BY <1>1, <2>1
<1>7. ASSUME left = "none", NEW n \in DOMAIN files, files[n] # Partial PROVE <<n[1], n>> \in V
  <2>1. PICK e \in E : e.name = n
    BY <1>7 DEF AllNamed
  <2>2. PICK p \in V : p[2] = n
    BY <1>1, <2>1
  <2>3. p = <<p[1], p[2]>> /\ p[2][1] = p[1]
    BY <1>4, <1>7 DEF Places
  <2> QED
    BY <2>2, <2>3
<1> QED
  BY <1>2, <1>4, <1>5, <1>6, <1>7 DEF Started

(* A manifest rebuilt from the file names.                                 *)
LEMMA RebuiltStart ==
    ASSUME ManifestInv, Bounded, Rebuilding, status = "down", stray = "none",
           NEW g \in Lists, g = AllRows(Reconstruct), NEW V, V = View(g), Opens(files, V),
           NEW E, NEW Q, Offered(V, E, Q),
           NEW left
    PROVE  Started(g, Reconstruct.next, V, Q, left)
<1>1. /\ \A p \in V : \E e \in E : e.name = p[2]
      /\ \A e \in E : \E p \in V : p[2] = e.name
      /\ Q = Past \cup UNION {Marks(files[e.name]) : e \in {f \in E : f.name[1] = 0}}
  BY DEF Offered
<1>2. FilesInv /\ \A f \in DOMAIN files : f[1] \in Nat /\ f[1] < MaxHeight
  BY DEF ManifestInv, TypeInv, FilesInv, Bounded
<1>3. PICK top : top = Reconstruct.next
  OBVIOUS
<1>4. /\ \A n \in Nat : \A k \in 1 .. Len(g[n]) :
            /\ g[n][k].name = <<n, g[n][k].id>> /\ g[n][k].name \in DOMAIN files /\ g[n][k].id < top
      /\ \A f \in DOMAIN files : \E k \in 1 .. Len(g[f[1]]) : g[f[1]][k].name = f
      /\ \A n \in Nat : \A j, k \in 1 .. Len(g[n]) : j < k => g[n][j].id < g[n][k].id
  BY <1>2, <1>3, RebuiltRows
<1>5. V = Names
  <2>1. ASSUME NEW p
        PROVE  p \in V <=> \E n \in Nat : \E k \in 1 .. Len(g[n]) : p = <<n, g[n][k].name>>
    <3>1. V = View(g)
      OBVIOUS
    <3>2. p \in View(g) <=> \E n \in Nat : \E k \in 1 .. Len(g[n]) : p = <<n, g[n][k].name>>
      BY ONLY ViewElement
    <3> QED
      BY ONLY <3>1, <3>2
  <2>2. ASSUME NEW p \in V PROVE p \in Names
    <3>1. PICK n \in Nat : \E k \in 1 .. Len(g[n]) : p = <<n, g[n][k].name>>
      BY ONLY p \in V, <2>1
    <3>2. PICK k \in 1 .. Len(g[n]) : p = <<n, g[n][k].name>>
      BY <3>1
    <3>3. PICK f \in DOMAIN files : f = g[n][k].name /\ f[1] = n
      BY <1>4
    <3> QED
      BY <3>2, <3>3 DEF Names
  <2>3. ASSUME NEW f \in DOMAIN files PROVE <<f[1], f>> \in V
    <3>1. PICK n \in Nat : n = f[1]
      BY <1>2
    <3>2. PICK k \in 1 .. Len(g[n]) : g[n][k].name = f
      BY <1>4, <3>1
    <3>3. PICK p : p = <<n, f>>
      OBVIOUS
    <3>4. p = <<n, g[n][k].name>>
      BY ONLY <3>2, <3>3
    <3>5. p \in V
      BY ONLY <2>1, <3>4, n \in Nat, k \in 1 .. Len(g[n])
    <3> QED
      BY ONLY <3>1, <3>3, <3>5
  <2> QED
    BY <2>2, <2>3 DEF Names
<1>6. /\ Good(strategy, Rebuilt, files, Names)
      /\ \A a, b \in DOMAIN files : a[2] = b[2] => a = b
  BY <1>5 DEF Rebuilding
<1>7. \A p \in V : p[1] < MaxHeight /\ p[2][1] = p[1]
  BY <1>2, <1>5 DEF Names
<1>8. \A n \in DOMAIN files : <<n[1], n>> \in V
  BY <1>5 DEF Names
<1>9. Q = Rebuilt
  <2>1. \A e \in E : e.name \in DOMAIN files
    BY <1>1 DEF Opens
  <2>2. \A f \in DOMAIN files : \E e \in E : e.name = f
    <3>1. ASSUME NEW f \in DOMAIN files PROVE \E e \in E : e.name = f
      <4>1. PICK p \in V : p = <<f[1], f>>
        BY <1>8
      <4>2. p[2] = f
        BY <4>1
      <4> QED
        BY <1>1, <4>2
    <3> QED
      BY <3>1
  <2> QED
    BY <1>1, <2>1, <2>2 DEF Rebuilt
<1>10. Identified(g, top)
  <2>1. ASSUME NEW n \in Nat, NEW l \in Nat, NEW j \in 1 .. Len(g[n]), NEW k \in 1 .. Len(g[l]),
               g[n][j].id = g[l][k].id
        PROVE  n = l /\ j = k
    <3>1. PICK a \in DOMAIN files, b \in DOMAIN files :
             a = g[n][j].name /\ b = g[l][k].name /\ a = <<n, g[n][j].id>> /\ b = <<l, g[l][k].id>>
      BY <1>4
    <3>2. a = b
      BY <1>6, <2>1, <3>1
    <3>3. n = l
      BY <3>1, <3>2
    <3>4. g[n][j].id \in Nat
      BY ListElement
    <3>5. ~(j < k) /\ ~(k < j)
      BY <1>4, <2>1, <3>3, <3>4
    <3>6. j \in Int /\ k \in Int
      OBVIOUS
    <3> QED
      BY ONLY <3>3, <3>5, <3>6
  <2>2. Distinct(g)
    BY <2>1 DEF Distinct
  <2>3. Earlier(g, top) /\ \A n \in Nat : Named(g[n])
    BY <1>4 DEF Earlier, Named
  <2> QED
    BY <2>2, <2>3 DEF Identified
<1>11. Sorted(strategy, g)
  BY <1>4 DEF Sorted
<1> QED
  BY <1>3, <1>5, <1>6, <1>7, <1>8, <1>9, <1>10, <1>11 DEF Started

(* A start.                                                                *)
LEMMA RestartReads ==
    ASSUME ManifestInv, Basic, Ready, Bounded, failure # "misplaced", stray # "listed", Restart
    PROVE  ReadInv'
<1>1. PICK m : m = IF manifest = NoManifest THEN Reconstruct ELSE manifest
  OBVIOUS
<1>2. PICK E, F : E = Entries(m) /\ F = Tops(E)
  OBVIOUS
<1>3. Restarted(m, E)
  <2>1. Restart
    OBVIOUS
  <2>2. Restarted(m, Entries(m))
    BY ONLY <2>1, <1>1, RestartFacts
  <2> QED
    BY <1>2, <2>2
<1>4. /\ status = "down" /\ manifest' = m /\ nextId' = m.next
      /\ UNCHANGED <<strategy, frags, worker, files, seq, failure>>
      /\ status' = IF \A e \in E : e.name \in DOMAIN files /\ files[e.name] # Partial
                   THEN "up" ELSE "stuck"
      /\ manifest = NoManifest => stray' = IF stray = "left" THEN "listed" ELSE stray
      /\ manifest # NoManifest =>
            stray' = IF /\ stray = "none"
                        /\ \E n \in DOMAIN files : files[n] # Partial /\ \A e \in E : e.name # n
                     THEN "left" ELSE stray
      /\ status' = "up" => /\ hist' = hist \cup UNION {t.recs : t \in F}
                           /\ rdHist' = rdHist \cup UNION {t.rds : t \in F}
  BY <1>3, <1>2 DEF Restarted
<1>5. AllTyped /\ Books /\ Store /\ Rebuilding /\ seq \in Nat
  BY DEF Ready, Usual, Basic
<1>6. worker = Idle /\ worker.pc = "idle" /\ worker.inputs = <<>> /\ frags.val = {} /\ FilesInv
  BY <1>4, IdleContent DEF ManifestInv, TypeInv, Basic
<1>7. m \in Manifest /\ m.next \in Nat
  BY <1>1, <1>6, ReconstructRows DEF ManifestInv, TypeInv
<1>8. PICK g \in Lists : g = AllRows(m)
  BY <1>7, ListsType
<1>9. PICK V : V = View(g)
  OBVIOUS
<1>10. (\A p \in V : \E e \in E : e.name = p[2]) /\ (\A e \in E : \E p \in V : p[2] = e.name)
  <2>1. \A e : e \in E <=> \E n \in Nat : \E k \in 1 .. Len(g[n]) : e = g[n][k]
    <3>1. ASSUME NEW e
          PROVE  e \in Entries(m) <=> ElementOf(e, AllRows(m))
      BY ONLY <1>7, EntriesRows
    <3>2. ASSUME NEW e PROVE e \in E <=> ElementOf(e, g)
      BY ONLY <1>2, <1>8, <3>1
    <3> QED
      BY ONLY <3>2 DEF ElementOf
  <2>2. ASSUME NEW p \in V PROVE \E e \in E : e.name = p[2]
    <3>1. PICK n \in Nat : \E k \in 1 .. Len(g[n]) : p = <<n, g[n][k].name>>
      BY <1>9, ViewElement
    <3>2. PICK k \in 1 .. Len(g[n]) : p = <<n, g[n][k].name>>
      BY <3>1
    <3>3. g[n][k] \in E /\ p[2] = g[n][k].name
      BY <2>1, <3>2
    <3> QED
      BY <3>3
  <2>3. ASSUME NEW e \in E PROVE \E p \in V : p[2] = e.name
    <3>1. PICK n \in Nat : \E k \in 1 .. Len(g[n]) : e = g[n][k]
      BY <2>1
    <3>2. PICK p : p = <<n, e.name>>
      OBVIOUS
    <3>3. p \in V /\ p[2] = e.name
      BY <1>9, <3>1, <3>2, ViewElement
    <3> QED
      BY <3>3
  <2> QED
    BY <2>2, <2>3
<1>11. Basic'
  BY <1>4, <1>6 DEF Basic
<1>12. CASE status' = "stuck" \/ stray' = "listed"
  BY <1>11, <1>12 DEF ReadInv
<1>13. CASE status' # "stuck" /\ stray' # "listed"
  <2>1. status' = "up" /\ \A e \in E : e.name \in DOMAIN files /\ files[e.name] # Partial
    BY <1>4, <1>13
  <2>2. Opens(files, V)
    <3>1. ASSUME NEW p \in V PROVE p[2] \in DOMAIN files /\ files[p[2]] # Partial
      <4>1. PICK e \in E : e.name = p[2]
        BY <1>10
      <4> QED
        BY <2>1, <4>1
    <3> QED
      BY <3>1 DEF Opens
  <2>3. \A T \in F : Typed(T, seq)
    BY <1>2, <1>5, <2>1 DEF AllTyped, FilesTyped, Tops
  <2>4. PICK Q : Q = Past' /\ Q = Past \cup UNION {Marks(T) : T \in F}
    BY <1>4, <1>5, <2>1, <2>3, PastGrows
  <2>5. Typed(Table(hist', rdHist'), seq)
    BY <1>4, <1>5, <2>1, <2>3, PastGrows
  <2>6. Q = Past \cup UNION {Marks(files[e.name]) : e \in {f \in E : f.name[1] = 0}}
    BY <1>2, <2>4 DEF Tops
  <2>7. Offered(V, E, Q)
    BY ONLY <1>10, <2>6 DEF Offered
  <2>8. PICK left : left = stray'
    OBVIOUS
  <2>9. Started(g, m.next, V, Q, left)
    <3>1. CASE manifest # NoManifest
      <4>1. m = manifest
        BY <1>1, <3>1
      <4>2. left = "none" => stray = "none" /\ AllNamed(E)
        BY <1>4, <2>8, <3>1 DEF AllNamed
      <4>3. g = AllRows(manifest)
        BY <1>8, <4>1
      <4>4. Started(g, manifest.next, V, Q, left)
        BY <1>5, <1>6, <1>8, <1>9, <2>2, <2>7, <3>1, <4>2, <4>3, KnownStart
      <4> QED
        BY <4>1, <4>4
    <3>2. CASE manifest = NoManifest
      <4>1. m = Reconstruct /\ stray = "none"
        BY <1>1, <1>4, <1>13, <3>2 DEF Bounded
      <4>2. g = AllRows(Reconstruct)
        BY <1>8, <4>1
      <4>3. Started(g, Reconstruct.next, V, Q, left)
        BY <1>4, <1>5, <1>8, <1>9, <2>2, <2>7, <4>1, <4>2, RebuiltStart
      <4> QED
        BY <4>1, <4>3
    <3> QED
      BY <3>1, <3>2
  <2>10. AllRows(manifest') = g /\ Listed' = V
    <3>1. AllRows(manifest') = g
      BY <1>4, <1>8
    <3>2. Kept' = AllRows(manifest')
      BY <1>4, <1>6 DEF Kept, RowsLeft, AllRows, Rows
    <3> QED
      BY <1>9, <3>1, <3>2 DEF Listed
  <2>11. AllTyped' /\ CacheSound'
    BY <1>4, <1>5, <1>6, <2>5 DEF AllTyped, CacheSound
  <2>12. Books'
    BY <1>4, <1>9, <2>8, <2>9, <2>10 DEF Books, Started
  <2>13. Disk'
    BY <1>4, <1>7, <2>2, <2>8, <2>9, <2>10 DEF Disk, Started
  <2>14. Store'
    BY <1>4, <2>4, <2>9, <2>10 DEF Store, Started
  <2>15. Writing' /\ Replacing' /\ Rebuilding'
    BY <1>4, <1>6, <2>1 DEF Writing, Replacing, Rebuilding
  <2> QED
    BY <1>4, <1>11, <2>11, <2>12, <2>13, <2>14, <2>15 DEF ReadInv, Ready, Usual
<1> QED
  BY <1>12, <1>13

-----------------------------------------------------------------------------
(* Every step.                                                             *)

(* A new file goes to a layer there is.                                    *)
LEMMA NewName ==
    ASSUME \A f \in DOMAIN files : f[1] < MaxHeight, NEW to, to < MaxHeight, NEW n, NEW t,
           files' = Written(files, <<to, n>>, t)
    PROVE  \A f \in DOMAIN files' : f[1] < MaxHeight
<1>1. DOMAIN files' = DOMAIN files \cup {<<to, n>>}
  BY DEF Written
<1> QED
  BY <1>1

(* The lower layer of a merge.                                             *)
LEMMA Lower ==
    ASSUME NEW i \in Nat
    PROVE  Min({i + 1, MaxHeight - 1}) < MaxHeight
<1>1. PICK a, b : a = i + 1 /\ b = MaxHeight - 1
  OBVIOUS
<1>2. a \in Int /\ b \in Int /\ b < MaxHeight
  BY <1>1, ManagerAssumption
<1>3. Min({a, b}) = IF a <= b THEN a ELSE b
  <2>1. a <= b => Min({a, b}) = a
    BY ONLY <1>2, MinMaxOfTwo
  <2>2. b <= a => Min({b, a}) = b
    BY ONLY <1>2, MinMaxOfTwo
  <2>3. {a, b} = {b, a}
    OBVIOUS
  <2> QED
    BY ONLY <1>2, <2>1, <2>2, <2>3
<1>4. Min({a, b}) < MaxHeight
  BY <1>2, <1>3, ManagerAssumption
<1> QED
  BY <1>1, <1>4

(* The names of the files, once Compact has gone on.                       *)
LEMMA CompactNames ==
    ASSUME ManifestInv, \A f \in DOMAIN files : f[1] < MaxHeight,
           TieredCompact \/ LeveledCompactL0 \/ LeveledCompact
    PROVE  \A f \in DOMAIN files' : f[1] < MaxHeight
<1>1. worker.i \in Nat /\ MaxHeight \in Nat \ {0}
  BY ManagerAssumption DEF ManifestInv, TypeInv, WorkerInv
<1>2. Min({worker.i + 1, MaxHeight - 1}) < MaxHeight
  BY <1>1, Lower
<1>3. ASSUME NEW inputs, NEW to, NEW skip, NEW ls, MergeSSTables(inputs, to, skip, ls),
             to < MaxHeight
      PROVE  \A f \in DOMAIN files' : f[1] < MaxHeight
  <2>1. files' = Written(files, <<to, nextId>>, Partial)
    BY <1>3 DEF MergeSSTables
  <2> QED
    BY <1>3, <2>1, NewName
<1>4. ASSUME Untouched PROVE files' = files
  BY <1>4 DEF Untouched
<1>5. CASE TieredCompact
  <2>. DEFINE last == worker.i + 1 = MaxHeight
              to == IF last THEN worker.i ELSE Min({worker.i + 1, MaxHeight - 1})
  <2>1. Untouched \/ \E tabs : MergeSSTables(tabs, to, last, layers)
    BY <1>5 DEF TieredCompact
  <2>2. to < MaxHeight
    BY <1>1, <1>2
  <2>. HIDE DEF to, last
  <2> QED
    BY <1>3, <1>4, <2>1, <2>2
<1>6. CASE LeveledCompactL0
  <2>1. \/ Untouched
        \/ MaxHeight = 1 /\ \E tabs : MergeSSTables(tabs, 0, TRUE, layers)
        \/ MaxHeight > 1 /\ \E tabs, grown : MergeSSTables(tabs, 1, FALSE, grown)
    BY <1>6, Zenon DEF LeveledCompactL0
  <2>2. CASE Untouched
    BY <1>4, <2>2
  <2>3. CASE MaxHeight = 1 /\ \E tabs : MergeSSTables(tabs, 0, TRUE, layers)
    <3>1. PICK tabs : MergeSSTables(tabs, 0, TRUE, layers)
      BY <2>3
    <3>2. PICK to : to = 0 /\ to < MaxHeight
      BY <1>1
    <3>3. MergeSSTables(tabs, to, TRUE, layers)
      BY <3>1, <3>2
    <3> QED
      BY <1>3, <3>2, <3>3
  <2>4. CASE MaxHeight > 1 /\ \E tabs, grown : MergeSSTables(tabs, 1, FALSE, grown)
    <3>1. PICK tabs, grown : MergeSSTables(tabs, 1, FALSE, grown)
      BY <2>4
    <3> QED
      BY <1>3, <2>4, <3>1
  <2> QED
    BY <2>1, <2>2, <2>3, <2>4
<1>7. CASE LeveledCompact
  <2>. DEFINE i == worker.i
              to == Min({i + 1, MaxHeight - 1})
  <2>1. ASSUME NEW t, NEW n, NEW ls, MoveSSTable(t, n, ls) PROVE files' = files
    BY <2>1 DEF MoveSSTable
  <2>2. \/ Untouched
        \/ i = MaxHeight - 1 /\ \E tabs, ls : MergeSSTables(tabs, i, TRUE, ls)
        \/ \E t, n, ls : MoveSSTable(t, n, ls)
        \/ \E tabs, ls : MergeSSTables(tabs, to, FALSE, ls)
    BY <1>7, Zenon DEF LeveledCompact
  <2>3. to < MaxHeight /\ (i = MaxHeight - 1 => i < MaxHeight)
    BY <1>1, <1>2
  <2>. HIDE DEF to, i
  <2> QED
    BY <1>3, <1>4, <2>1, <2>2, <2>3
<1> QED
  BY <1>5, <1>6, <1>7

(* No step writes a file of a layer that is not there.                     *)
LEMMA StepNames ==
    ASSUME ManifestInv, \A f \in DOMAIN files : f[1] < MaxHeight, Step
    PROVE  \A f \in DOMAIN files' : f[1] < MaxHeight
<1>1. MaxHeight \in Nat \ {0}
  BY ManagerAssumption
<1>2. ASSUME NEW m \in Memtables, Flush(m) PROVE \A f \in DOMAIN files' : f[1] < MaxHeight
  <2>1. files' = Written(files, <<0, nextId>>, Partial) /\ 0 < MaxHeight
    BY <1>1, <1>2 DEF Flush
  <2> QED
    BY <2>1, NewName
<1>3. CASE FlushNothing \/ Read \/ LoseManifest \/ Restart \/ \E k \in SnapKeys : AddSnapshotKey(k)
  <2>1. files' = files
    BY <1>3 DEF FlushNothing, Read, LoseManifest, Restart, AddSnapshotKey
  <2> QED
    BY <2>1
<1>4. CASE Add
  <2>1. DOMAIN files' = DOMAIN files
    BY <1>4 DEF Add
  <2> QED
    BY <2>1
<1>5. CASE Delete
  <2>1. \/ files' = files
        \/ \E t : files' = [n \in DOMAIN files \ {t.name} |-> files[n]]
    BY <1>5, Zenon DEF Delete
  <2> QED
    BY <2>1
<1>6. CASE Unlist
  <2>1. files' = files
    BY <1>6 DEF Unlist
  <2> QED
    BY <2>1
<1>7. CASE TieredCompact \/ LeveledCompactL0 \/ LeveledCompact
  BY <1>7, CompactNames
<1>8. CASE ClearAll
  <2>1. files' = <<>>
    BY <1>8 DEF ClearAll
  <2> QED
    BY <2>1
<1>9. CASE Crash
  <2>1. DOMAIN files' = DOMAIN files
    BY <1>9 DEF Crash
  <2> QED
    BY <2>1
<1> QED
  BY <1>2, <1>3, <1>4, <1>5, <1>6, <1>7, <1>8, <1>9 DEF Step

(* A process that died.                                                    *)
LEMMA DeadBasic ==
    ASSUME Basic, Die
    PROVE  Basic' /\ stray' = stray
BY DEF Die, Basic

(* A process that goes on.                                                 *)
LEMMA GoOnBasic ==
    ASSUME NEW ls, NEW i, GoOn(ls, i)
    PROVE  worker'.pc = "idle" => worker' = Idle
BY DEF GoOn, Idle

(* Compact goes on, or the process is gone.                                *)
LEMMA CompactBasic ==
    ASSUME Basic, TieredCompact \/ LeveledCompactL0 \/ LeveledCompact
    PROVE  Basic' /\ (stray' = stray \/ (stray # "listed" /\ stray' = "left"))
<1>1. status = "up" /\ seq \in Nat
  BY DEF Basic, TieredCompact, LeveledCompactL0, LeveledCompact, AtLayer
<1>2. ASSUME status' = status, seq' = seq, worker'.pc = "idle" => worker' = Idle PROVE Basic'
  BY <1>1, <1>2 DEF Basic
<1>3. ASSUME NEW inputs, NEW to, NEW skip, NEW ls, MergeSSTables(inputs, to, skip, ls)
      PROVE  Basic' /\ stray' = stray
  <2>1. \/ \E why \in {"noBase", "noLeaves"} : Panic(why)
        \/ /\ UNCHANGED <<strategy, frags, snap, status, history>>
           /\ \/ \E n : GoOn(ls, n)
              \/ \E n, C : worker' = [pc |-> "add", i |-> n, id |-> nextId, to |-> to,
                                      inputs |-> inputs, content |-> C]
    BY <1>3, Zenon DEF MergeSSTables
  <2>2. CASE \E why \in {"noBase", "noLeaves"} : Panic(why)
    <3>1. Die
      BY <2>2 DEF Panic
    <3> QED
      BY <3>1, DeadBasic
  <2>3. CASE UNCHANGED <<strategy, frags, snap, status, history>> /\ \E n : GoOn(ls, n)
    <3>1. worker'.pc = "idle" => worker' = Idle
      BY <2>3, GoOnBasic
    <3>2. status' = status /\ seq' = seq /\ stray' = stray
      BY <2>3 DEF history
    <3> QED
      BY <1>2, <3>1, <3>2
  <2>4. CASE /\ UNCHANGED <<strategy, frags, snap, status, history>>
             /\ \E n, C : worker' = [pc |-> "add", i |-> n, id |-> nextId, to |-> to,
                                     inputs |-> inputs, content |-> C]
    <3>1. worker'.pc = "add"
      BY <2>4
    <3>2. status' = status /\ seq' = seq /\ stray' = stray
      BY <2>4 DEF history
    <3> QED
      BY <1>2, <3>1, <3>2
  <2> QED
    BY <2>1, <2>2, <2>3, <2>4
<1>4. ASSUME NEW ls, NEW n, GoOn(ls, n), Untouched PROVE Basic' /\ stray' = stray
  <2>1. status' = status /\ seq' = seq /\ stray' = stray
    BY <1>4 DEF Untouched, history
  <2> QED
    BY <1>2, <1>4, <2>1, GoOnBasic
<1>5. ASSUME NEW t, NEW to, NEW ls, MoveSSTable(t, to, ls)
      PROVE  Basic' /\ (stray' = stray \/ (stray # "listed" /\ stray' = "left"))
  <2>1. /\ status' = status /\ seq' = seq /\ \E l, n : GoOn(l, n)
        /\ stray' = IF stray = "listed" THEN stray ELSE "left"
    BY <1>5, Zenon DEF MoveSSTable
  <2>2. worker'.pc = "idle" => worker' = Idle
    BY <2>1, GoOnBasic
  <2> QED
    BY <1>2, <2>1, <2>2
<1>6. \/ \E l, n : GoOn(l, n) /\ Untouched
      \/ \E inputs, to, skip, ls : MergeSSTables(inputs, to, skip, ls)
      \/ \E t, to, ls : MoveSSTable(t, to, ls)
  BY Zenon DEF TieredCompact, LeveledCompactL0, LeveledCompact
<1> QED
  BY <1>3, <1>4, <1>5, <1>6

(* What every step does to the history and to an idle worker.              *)
LEMMA StepBasics ==
    ASSUME ManifestInv, Basic, Step
    PROVE  /\ Basic'
           /\ \/ stray' = stray
              \/ stray # "listed" /\ stray' = "left"
              \/ stray = "left" /\ stray' = "listed"
              \/ ClearAll /\ stray' = "none"
<1>1. /\ worker \in [pc : {"idle", "compact", "add", "delete", "unlist"}, i : Nat, id : Nat,
                     to : Nat, content : {worker.content}, inputs : Seq(Reader)]
      /\ seq \in Nat /\ (worker.pc = "idle" => worker = Idle)
  BY DEF ManifestInv, TypeInv, WorkerInv, Basic
<1>2. ASSUME NEW m \in Memtables, Flush(m) PROVE Basic' /\ stray' = stray
  <2>1. Cardinality(m.ranges) \in Nat
    BY ManagerAssumption, FS_CardinalityType
  <2>2. seq' = seq + 1 + Cardinality(m.ranges) /\ worker'.pc = "add" /\ stray' = stray
        /\ status' = status /\ status = "up"
    BY <1>2 DEF Flush, CanFlush
  <2> QED
    BY <1>1, <2>1, <2>2 DEF Basic
<1>3. CASE FlushNothing
  <2>1. seq' = seq + 1 /\ status' = status /\ status = "up" /\ stray' = stray /\ GoOn(layers, 0)
    BY <1>3 DEF FlushNothing, CanFlush
  <2> QED
    BY <1>1, <2>1, GoOnBasic DEF Basic
<1>4. CASE Add
  <2>1. seq' = seq /\ status' = status /\ status = "up" /\ stray' = stray
        /\ worker'.pc \in {"compact", "delete"}
    BY <1>1, <1>4 DEF Add
  <2> QED
    BY <1>1, <2>1 DEF Basic
<1>5. CASE Delete
  <2>1. \/ Panic("notFound")
        \/ UNCHANGED <<status, history>> /\ worker' = [worker EXCEPT !.pc = "unlist"]
    BY <1>5, Zenon DEF Delete
  <2>2. CASE Panic("notFound")
    BY <2>2, DeadBasic DEF Panic
  <2>3. CASE UNCHANGED <<status, history>> /\ worker' = [worker EXCEPT !.pc = "unlist"]
    <3>1. seq' = seq /\ status' = status /\ status = "up" /\ stray' = stray /\ worker'.pc = "unlist"
      BY <1>1, <1>5, <2>3 DEF history, Delete
    <3> QED
      BY <1>1, <3>1 DEF Basic
  <2> QED
    BY <2>1, <2>2, <2>3
<1>6. CASE Unlist
  <2>1. \/ Panic("notFound")
        \/ /\ UNCHANGED <<status, history>>
           /\ \/ \E n : GoOn(layers, n)
              \/ worker' = [worker EXCEPT !.pc = "delete", !.inputs = Tail(@)]
    BY <1>6, Zenon DEF Unlist
  <2>2. CASE Panic("notFound")
    BY <2>2, DeadBasic DEF Panic
  <2>3. ASSUME UNCHANGED <<status, history>>, worker'.pc = "idle" => worker' = Idle
        PROVE  Basic' /\ stray' = stray
    <3>1. seq' = seq /\ status' = status /\ status = "up" /\ stray' = stray
      BY <1>6, <2>3 DEF history, Unlist
    <3> QED
      BY <1>1, <2>3, <3>1 DEF Basic
  <2>4. ASSUME NEW n, GoOn(layers, n) PROVE worker'.pc = "idle" => worker' = Idle
    BY <2>4, GoOnBasic
  <2>5. ASSUME worker' = [worker EXCEPT !.pc = "delete", !.inputs = Tail(@)]
        PROVE  worker'.pc = "delete"
    BY <1>1, <2>5
  <2> QED
    BY <2>1, <2>2, <2>3, <2>4, <2>5
<1>7. CASE TieredCompact \/ LeveledCompactL0 \/ LeveledCompact
  BY <1>7, CompactBasic
<1>8. CASE Read \/ \E k \in SnapKeys : AddSnapshotKey(k)
  <2>1. /\ seq' = seq /\ status' = status /\ status = "up" /\ stray' = stray
        /\ worker' = worker
    BY <1>8 DEF Read, AddSnapshotKey, MuFree, history
  <2> QED
    BY <1>1, <2>1 DEF Basic
<1>9. CASE ClearAll
  <2>1. seq' = seq /\ status' = status /\ status = "up" /\ stray' = "none" /\ worker' = worker
    BY <1>9 DEF ClearAll
  <2> QED
    BY <1>1, <1>9, <2>1 DEF Basic
<1>10. CASE Crash
  BY <1>10, DeadBasic DEF Crash
<1>11. CASE LoseManifest
  <2>1. /\ seq' = seq /\ status' = status /\ stray' = stray /\ worker' = worker /\ frags' = frags
    BY <1>11 DEF LoseManifest, volatile
  <2> QED
    BY <1>1, <2>1 DEF Basic
<1>12. CASE Restart
  <2>1. /\ seq' = seq /\ status = "down" /\ worker' = worker /\ frags' = frags
        /\ stray' = IF manifest = NoManifest
                    THEN IF stray = "left" THEN "listed" ELSE stray
                    ELSE IF /\ stray = "none"
                            /\ \E n \in DOMAIN files : /\ files[n] # Partial
                                                       /\ \A e \in Entries(manifest) : e.name # n
                         THEN "left" ELSE stray
    BY <1>12 DEF Restart, Entries
  <2> QED
    BY <1>1, <2>1 DEF Basic
<1> QED
  BY <1>2, <1>3, <1>4, <1>5, <1>6, <1>7, <1>8, <1>9, <1>10, <1>11, <1>12 DEF Step

(* Any step, while the file names tell where the tables are.               *)
LEMMA ReadyNext ==
    ASSUME QuietClear, ManifestInv, Basic, Ready, Bounded, failure # "misplaced",
           stray # "listed", Step
    PROVE  ReadInv'
<1>1. ASSUME NEW m \in Memtables, Flush(m) PROVE ReadInv'
  BY <1>1, FlushReads
<1>2. CASE FlushNothing
  BY <1>2, FlushNothingReads
<1>3. CASE Add
  BY <1>3, AddReads
<1>4. CASE Delete
  BY <1>4, DeleteReads
<1>5. CASE Unlist
  BY <1>5, UnlistReads
<1>6. CASE TieredCompact
  BY <1>6, TieredReads
<1>7. CASE LeveledCompactL0
  BY <1>7, LeveledL0Reads
<1>8. CASE LeveledCompact
  BY <1>8, LeveledReads
<1>9. CASE Read
  BY <1>9, ReadReads
<1>10. ASSUME NEW k \in SnapKeys, AddSnapshotKey(k) PROVE ReadInv'
  BY <1>10, SnapshotReads
<1>11. CASE ClearAll
  BY <1>11, ClearReads
<1>12. CASE Crash
  BY <1>12, CrashReads
<1>13. CASE LoseManifest
  BY <1>13, LoseReads
<1>14. CASE Restart
  <2>1. /\ ManifestInv /\ Basic /\ Ready /\ Bounded /\ Restart
        /\ failure # "misplaced" /\ stray # "listed"
    BY <1>14
  <2> QED
    BY ONLY <2>1, RestartReads
<1> QED
  BY <1>1, <1>2, <1>3, <1>4, <1>5, <1>6, <1>7, <1>8, <1>9, <1>10, <1>11, <1>12, <1>13, <1>14
     DEF Step

(* A process that is stuck takes no step.                                  *)
LEMMA StuckStays ==
    ASSUME Step
    PROVE  status # "stuck"
<1>1. \A m \in Memtables : Flush(m) => status = "up"
  BY DEF Flush, CanFlush
<1> QED
  BY <1>1 DEF Step, FlushNothing, CanFlush, Add, Delete, Unlist, TieredCompact, LeveledCompactL0,
              LeveledCompact, AtLayer, Read, AddSnapshotKey, MuFree, ClearAll, Crash,
              LoseManifest, Restart

(* A stuttering step.                                                      *)
LEMMA ReadsStutter ==
    ASSUME ReadInv, Bounded, UNCHANGED vars
    PROVE  ReadInv' /\ Bounded'
<1>1. UNCHANGED <<strategy, layers, nextId, frags, worker, status, files, manifest, seq, hist,
                  rdHist, failure, stray>>
  BY DEF vars, volatile, history
<1>2. Past' = Past
  BY <1>1 DEF Past
<1>3. Kept' = Kept /\ AllRows(manifest)' = AllRows(manifest)
  BY <1>1 DEF Kept, RowsLeft, Rows, First
<1>4. Listed' = Listed /\ Seen' = Seen /\ Names' = Names
  BY <1>1, <1>3 DEF Listed, Seen, Names
<1>5. Basic' = Basic /\ Bounded' = Bounded
  BY <1>1 DEF Basic, Bounded
<1>6. AllTyped => AllTyped'
  BY <1>1 DEF AllTyped
<1>7. CacheSound => CacheSound'
  BY <1>1, <1>4 DEF CacheSound, MuFree
<1>8. Misplaced => Misplaced'
  BY <1>1, <1>2, <1>4 DEF Misplaced
<1>9. Name' = Name /\ Place' = Place /\ Finished' = Finished /\ Coming' = Coming /\ Future' = Future
  BY <1>1, <1>2, <1>4 DEF Name, Place, Finished, Coming, Future
<1>10. Books => Books'
  BY <1>1, <1>3 DEF Books
<1>11. Disk => Disk'
  BY <1>1, <1>4 DEF Disk
<1>12. Store => Store'
  BY <1>1, <1>2, <1>4 DEF Store
<1>13. Writing => Writing'
  BY <1>1, <1>9 DEF Writing
<1>14. Replacing => Replacing'
  BY <1>1, <1>2, <1>9 DEF Replacing, Rows, First
<1>15. Rebuilding => Rebuilding'
  BY <1>1, <1>2, <1>4 DEF Rebuilding, Rebuilt
<1>16. Ready => Ready'
  BY <1>1, <1>6, <1>7, <1>8, <1>10, <1>11, <1>12, <1>13, <1>14, <1>15 DEF Ready, Usual
<1> QED
  BY <1>1, <1>5, <1>16 DEF ReadInv

(* Every step keeps the invariant.                                         *)
LEMMA ReadsNext ==
    ASSUME QuietClear, ManifestInv, ReadInv, Bounded, [Next]_vars
    PROVE  ReadInv' /\ Bounded'
<1>1. CASE UNCHANGED vars \/ FailAgain
  BY <1>1, ReadsStutter DEF FailAgain
<1>2. CASE failure # "misplaced" /\ Step
  <2>1. Basic /\ status # "stuck" /\ (stray # "listed" => Ready)
    BY <1>2, StuckStays DEF ReadInv
  <2>2. /\ Basic'
        /\ \/ stray' = stray
           \/ stray # "listed" /\ stray' = "left"
           \/ stray = "left" /\ stray' = "listed"
           \/ ClearAll /\ stray' = "none"
    BY <1>2, <2>1, StepBasics
  <2>3. stray' \in {"none", "left", "listed"}
    BY <2>2 DEF Bounded
  <2>4. \A f \in DOMAIN files' : f[1] < MaxHeight
    BY <1>2, StepNames DEF Bounded
  <2>5. ASSUME stray # "listed" PROVE ReadInv'
    BY <1>2, <2>1, <2>5, ReadyNext
  <2>6. ASSUME stray = "listed", stray' = "listed" PROVE ReadInv'
    BY <2>2, <2>6 DEF ReadInv
  <2>7. ASSUME ClearAll PROVE ReadInv'
    BY <1>2, <2>1, <2>7, ClearReads
  <2>8. ReadInv'
    BY <2>2, <2>5, <2>6, <2>7
  <2> QED
    BY <2>3, <2>4, <2>8 DEF Bounded
<1> QED
  BY <1>1, <1>2 DEF Next

(* Get answers with the newest flushed version of every key, for any       *)
(* memtables, number of layers and thresholds of both strategies, through  *)
(* flushes, merges, moves, crashes at every change of the disk, restarts,  *)
(* a lost manifest and ClearAll while the flush worker is idle, as long as *)
(* no manifest was rebuilt from file names that do not say what the lost   *)
(* one said.                                                               *)
THEOREM ReadsAlways ==
    ASSUME QuietClear
    PROVE  Spec => []ReadsNewest
<1>1. Spec => [](ManifestInv /\ ReadInv /\ Bounded)
  <2>1. Init => ManifestInv /\ ReadInv /\ Bounded
    <3>1. Init => Bounded
      BY DEF Init, Bounded
    <3> QED
      BY <3>1, ManifestInit, InitReads
  <2>2. ManifestInv /\ ReadInv /\ Bounded /\ [Next]_vars => ManifestInv' /\ ReadInv' /\ Bounded'
    BY ManifestNext, ReadsNext
  <2> QED
    BY <2>1, <2>2, PTL DEF Spec
<1>2. ManifestInv /\ ReadInv => ReadsNewest
  BY ReadsSound
<1> QED
  BY <1>1, <1>2, PTL
=============================================================================
