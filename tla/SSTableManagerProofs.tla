------------------------ MODULE SSTableManagerProofs ------------------------
(***************************************************************************)
(* Proofs about SSTableManager, for any number of layers, keys, crashes    *)
(* and compactions, and for both strategies: what is in memory is what the *)
(* saved manifest names, as long as ClearAll is called while the worker is *)
(* idle (QuietClear).                                                      *)
(***************************************************************************)
EXTENDS SSTableManager, SequenceFacts, FiniteSetTheorems

(* A reader in memory, or an entry of the manifest.                        *)
Reader == [id : Nat, layer : Nat, name : Int \X Nat]
Layer == [tabs : Seq(Reader), needsUpdate : BOOLEAN]
Manifest == [next : Int, layers : Seq(Seq(Reader))]

(* The tables of layer n, none if the layer does not exist.                *)
Tabs(ls, n) == IF n + 1 <= Len(ls) THEN ls[n + 1].tabs ELSE <<>>

-----------------------------------------------------------------------------
(* Lists of tables.                                                        *)

(* Without removes the first entry with the identifier, if there is one.   *)
LEMMA WithoutPresent ==
    ASSUME NEW s \in Seq(Reader), NEW id, \E i \in 1 .. Len(s) : s[i].id = id
    PROVE  \E k \in 1 .. Len(s) :
              /\ s[k].id = id /\ \A i \in 1 .. Len(s) : s[i].id = id => k <= i
              /\ Without(s, id) \in Seq(Reader)
              /\ Len(Without(s, id)) = Len(s) - 1
              /\ \A i \in 1 .. Len(s) - 1 : Without(s, id)[i] = IF i < k THEN s[i] ELSE s[i + 1]
<1>. DEFINE I == {i \in 1 .. Len(s) : s[i].id = id}
            k == SelectInSeq(s, LAMBDA t : t.id = id)
<1>1. I # {} /\ I \in SUBSET Nat
  OBVIOUS
<1>2. k \in I /\ \A i \in I : k <= i
  <2>1. k = Min(I)
    BY <1>1 DEF SelectInSeq
  <2> HIDE DEF I, k
  <2> QED
    BY <1>1, <2>1, MinOfNaturals
<1>3. Without(s, id) = RemoveAt(s, k)
  BY DEF Without, RemoveFirstMatch
<1>. HIDE DEF k
<1> QED
  BY <1>2, <1>3, RemoveAtElements, ZenonT(60)

(* If there is none, Without changes nothing.                              *)
LEMMA WithoutAbsent ==
    ASSUME NEW s, NEW id, ~\E i \in 1 .. Len(s) : s[i].id = id
    PROVE  Without(s, id) = s
BY DEF Without, RemoveFirstMatch

(* Without shortens a sequence exactly when the identifier is in it, and   *)
(* leaves only elements of the sequence.                                   *)
LEMMA WithoutFacts ==
    ASSUME NEW s \in Seq(Reader), NEW id
    PROVE  /\ Without(s, id) \in Seq(Reader)
           /\ Without(s, id) = s <=> ~\E i \in 1 .. Len(s) : s[i].id = id
           /\ \E f \in [1 .. Len(Without(s, id)) -> 1 .. Len(s)] :
                 /\ \A i, j \in 1 .. Len(Without(s, id)) : f[i] = f[j] => i = j
                 /\ \A i \in 1 .. Len(Without(s, id)) : Without(s, id)[i] = s[f[i]]
<1>1. CASE \E i \in 1 .. Len(s) : s[i].id = id
  <2>. DEFINE w == Without(s, id)
  <2>1. PICK k \in 1 .. Len(s) :
              /\ w \in Seq(Reader)
              /\ Len(w) = Len(s) - 1
              /\ \A i \in 1 .. Len(s) - 1 : w[i] = IF i < k THEN s[i] ELSE s[i + 1]
    BY <1>1, WithoutPresent
  <2>. HIDE DEF w
  <2>. DEFINE f == [i \in 1 .. Len(w) |-> IF i < k THEN i ELSE i + 1]
  <2>2. f \in [1 .. Len(w) -> 1 .. Len(s)]
    BY <2>1
  <2>3. \A i, j \in 1 .. Len(w) : f[i] = f[j] => i = j
    BY <2>1
  <2>4. \A i \in 1 .. Len(w) : w[i] = s[f[i]]
    BY <2>1
  <2>5. w # s
    BY <2>1
  <2>. HIDE DEF f
  <2> QED
    BY <1>1, <2>1, <2>2, <2>3, <2>4, <2>5 DEF w
<1>2. CASE ~\E i \in 1 .. Len(s) : s[i].id = id
  <2>1. Without(s, id) = s
    BY <1>2, WithoutAbsent
  <2>. DEFINE f == [i \in 1 .. Len(s) |-> i]
  <2>2. /\ f \in [1 .. Len(s) -> 1 .. Len(s)]
        /\ \A i, j \in 1 .. Len(s) : f[i] = f[j] => i = j
        /\ \A i \in 1 .. Len(s) : s[i] = s[f[i]]
    OBVIOUS
  <2>. HIDE DEF f
  <2> QED
    BY <1>2, <2>1, <2>2
<1> QED
  BY <1>1, <1>2

(* Two lists with the same identifiers and file names.                     *)
Same(rows, tabs) ==
    /\ Len(rows) = Len(tabs)
    /\ \A k \in 1 .. Len(rows) : rows[k].id = tabs[k].id /\ rows[k].name = tabs[k].name

(* Two lists that agree still do without the same identifier.              *)
LEMMA SameWithout ==
    ASSUME NEW r \in Seq(Reader), NEW s \in Seq(Reader), NEW id, Same(r, s)
    PROVE  Same(Without(r, id), Without(s, id))
<1>. DEFINE v == Without(r, id)
            w == Without(s, id)
<1>1. Len(r) = Len(s) /\ \A k \in 1 .. Len(r) : r[k].id = s[k].id /\ r[k].name = s[k].name
  BY DEF Same
<1>2. CASE \E i \in 1 .. Len(r) : r[i].id = id
  <2>1. PICK k \in 1 .. Len(r) :
              /\ r[k].id = id /\ \A i \in 1 .. Len(r) : r[i].id = id => k <= i
              /\ v \in Seq(Reader)
              /\ Len(v) = Len(r) - 1
              /\ \A i \in 1 .. Len(r) - 1 : v[i] = IF i < k THEN r[i] ELSE r[i + 1]
    BY <1>2, WithoutPresent
  <2>. HIDE DEF v
  <2>. \E i \in 1 .. Len(s) : s[i].id = id
    BY <1>1, <2>1
  <2>2. PICK l \in 1 .. Len(s) :
              /\ s[l].id = id /\ \A i \in 1 .. Len(s) : s[i].id = id => l <= i
              /\ w \in Seq(Reader)
              /\ Len(w) = Len(s) - 1
              /\ \A i \in 1 .. Len(s) - 1 : w[i] = IF i < l THEN s[i] ELSE s[i + 1]
    BY WithoutPresent
  <2>. HIDE DEF w
  <2>3. k = l
    <3>1. k <= l
      <4>1. l \in 1 .. Len(r) /\ r[l].id = id
        BY <1>1, <2>2
      <4> QED
        BY <2>1, <4>1
    <3>2. l <= k
      <4>1. k \in 1 .. Len(s) /\ s[k].id = id
        BY <1>1, <2>1
      <4> QED
        BY <2>2, <4>1
    <3>3. k \in Nat /\ l \in Nat
      OBVIOUS
    <3> QED
      BY <3>1, <3>2, <3>3
  <2>4. ASSUME NEW i \in 1 .. Len(v) PROVE v[i].id = w[i].id /\ v[i].name = w[i].name
    <3>1. i \in 1 .. Len(r) /\ i + 1 \in 1 .. Len(r) /\ i \in 1 .. Len(r) - 1
      BY <2>1
    <3>2. CASE i < k
      BY <1>1, <2>1, <2>2, <2>3, <3>1, <3>2
    <3>3. CASE ~(i < k)
      BY <1>1, <2>1, <2>2, <2>3, <3>1, <3>3, SMTT(40)
    <3> QED
      BY <3>2, <3>3
  <2> QED
    BY <1>1, <2>1, <2>2, <2>4 DEF Same, v, w
<1>3. CASE ~\E i \in 1 .. Len(r) : r[i].id = id
  <2>1. v = r /\ w = s
    BY <1>1, <1>3, WithoutAbsent
  <2> QED
    BY <2>1
<1> QED
  BY <1>2, <1>3

(* Two lists that agree still do after appending tables that agree.        *)
LEMMA SameAppend ==
    ASSUME NEW r \in Seq(Reader), NEW s \in Seq(Reader), Same(r, s),
           NEW e \in Reader, NEW t \in Reader, e.id = t.id, e.name = t.name
    PROVE  Same(Append(r, e), Append(s, t))
<1>. DEFINE v == Append(r, e)
            w == Append(s, t)
<1>1. /\ v \in Seq(Reader) /\ Len(v) = Len(r) + 1 /\ v[Len(r) + 1] = e
      /\ \A i \in 1 .. Len(r) : v[i] = r[i]
  BY AppendProperties
<1>2. /\ w \in Seq(Reader) /\ Len(w) = Len(s) + 1 /\ w[Len(s) + 1] = t
      /\ \A i \in 1 .. Len(s) : w[i] = s[i]
  BY AppendProperties
<1>. HIDE DEF v, w
<1>3. Len(r) = Len(s) /\ \A k \in 1 .. Len(r) : r[k].id = s[k].id /\ r[k].name = s[k].name
  BY DEF Same
<1>4. ASSUME NEW i \in 1 .. Len(v) PROVE v[i].id = w[i].id /\ v[i].name = w[i].name
  <2>1. CASE i \in 1 .. Len(r)
    BY <1>1, <1>2, <1>3, <2>1
  <2>2. CASE i = Len(r) + 1
    BY <1>1, <1>2, <1>3, <2>2
  <2> QED
    BY <1>1, <2>1, <2>2
<1> QED
  BY <1>1, <1>2, <1>3, <1>4 DEF Same, v, w

-----------------------------------------------------------------------------
(* Layers and the rows of the manifest.                                    *)

(* The tables of a layer are a list of readers.                            *)
LEMMA TabsType ==
    ASSUME NEW ls \in Seq(Layer), NEW n \in Nat
    PROVE  Tabs(ls, n) \in Seq(Reader)
<1>1. CASE n + 1 <= Len(ls)
  <2>1. n + 1 \in 1 .. Len(ls) /\ ls[n + 1] \in Layer
    BY <1>1
  <2> QED
    BY <1>1, <2>1 DEF Tabs, Layer
<1>2. CASE ~(n + 1 <= Len(ls))
  BY <1>2 DEF Tabs
<1> QED
  BY <1>1, <1>2

(* New layers are empty.                                                   *)
LEMMA GrowTabs ==
    ASSUME NEW ls \in Seq(Layer), NEW k \in Nat
    PROVE  /\ GrowTo(ls, k) \in Seq(Layer)
           /\ Len(GrowTo(ls, k)) = IF Len(ls) <= k + 1 THEN k + 1 ELSE Len(ls)
           /\ \A n \in Nat : Tabs(GrowTo(ls, k), n) = Tabs(ls, n)
<1>. DEFINE N == IF Len(ls) <= k + 1 THEN k + 1 ELSE Len(ls)
            g == [l \in 1 .. N |-> IF l <= Len(ls) THEN ls[l] ELSE NoLayer]
<1>1. GrowTo(ls, k) = g
  <2>1. Max({Len(ls), k + 1}) = N
    BY MinMaxOfTwo
  <2> QED
    BY <2>1 DEF GrowTo
<1>2. NoLayer \in Layer /\ NoLayer.tabs = <<>>
  BY DEF NoLayer, Layer
<1>3. N \in Nat /\ Len(ls) <= N
  OBVIOUS
<1>4. g \in Seq(Layer) /\ Len(g) = N
  <2>1. \A l \in 1 .. N : g[l] \in Layer
    BY <1>2, <1>3
  <2>. HIDE DEF N
  <2> QED
    BY <1>3, <2>1
<1>5. ASSUME NEW n \in Nat PROVE Tabs(g, n) = Tabs(ls, n)
  <2>1. CASE n + 1 <= Len(ls)
    <3>1. n + 1 \in 1 .. N /\ g[n + 1] = ls[n + 1]
      BY <1>3, <2>1
    <3> QED
      BY <1>3, <1>4, <2>1, <3>1 DEF Tabs
  <2>2. CASE ~(n + 1 <= Len(ls)) /\ n + 1 <= N
    <3>1. n + 1 \in 1 .. N /\ g[n + 1] = NoLayer
      BY <1>3, <2>2
    <3> QED
      BY <1>2, <1>4, <2>2, <3>1 DEF Tabs
  <2>3. CASE ~(n + 1 <= N)
    BY <1>3, <1>4, <2>3 DEF Tabs
  <2> QED
    BY <2>1, <2>2, <2>3
<1> QED
  BY <1>1, <1>4, <1>5

(* Replacing one layer.                                                    *)
LEMMA PutTabs ==
    ASSUME NEW ls \in Seq(Layer), NEW k \in Nat, k + 1 <= Len(ls), NEW L \in Layer
    PROVE  /\ [ls EXCEPT ![k + 1] = L] \in Seq(Layer)
           /\ Len([ls EXCEPT ![k + 1] = L]) = Len(ls)
           /\ \A n \in Nat : Tabs([ls EXCEPT ![k + 1] = L], n) =
                                IF n = k THEN L.tabs ELSE Tabs(ls, n)
<1>. DEFINE p == [ls EXCEPT ![k + 1] = L]
<1>1. p \in Seq(Layer) /\ Len(p) = Len(ls)
  OBVIOUS
<1>2. ASSUME NEW n \in Nat PROVE Tabs(p, n) = IF n = k THEN L.tabs ELSE Tabs(ls, n)
  <2>1. CASE n + 1 <= Len(ls)
    <3>1. p[n + 1] = IF n = k THEN L ELSE ls[n + 1]
      BY <2>1
    <3> QED
      BY <1>1, <2>1, <3>1 DEF Tabs
  <2>2. CASE ~(n + 1 <= Len(ls))
    <3>1. n # k
      BY <2>2
    <3> QED
      BY <1>1, <2>2, <3>1 DEF Tabs
  <2> QED
    BY <2>1, <2>2
<1> QED
  BY <1>1, <1>2

(* AppendSSTable adds a table to one layer.                                *)
LEMMA AppendTabs ==
    ASSUME NEW ls \in Seq(Layer), NEW k \in Nat, NEW t \in Reader
    PROVE  /\ AppendSSTable(ls, t, k) \in Seq(Layer)
           /\ Len(ls) <= Len(AppendSSTable(ls, t, k)) /\ k < Len(AppendSSTable(ls, t, k))
           /\ \A n \in Nat : Tabs(AppendSSTable(ls, t, k), n) =
                                IF n = k THEN Append(Tabs(ls, k), t) ELSE Tabs(ls, n)
<1>. DEFINE g == GrowTo(ls, k)
            L == [tabs |-> Append(g[k + 1].tabs, t), needsUpdate |-> TRUE]
<1>1. /\ g \in Seq(Layer) /\ k + 1 <= Len(g) /\ Len(ls) <= Len(g)
      /\ \A n \in Nat : Tabs(g, n) = Tabs(ls, n)
  BY GrowTabs
<1>2. AppendSSTable(ls, t, k) = [g EXCEPT ![k + 1] = L]
  BY DEF AppendSSTable
<1>. HIDE DEF g
<1>3. g[k + 1].tabs = Tabs(ls, k) /\ Tabs(ls, k) \in Seq(Reader)
  <2>1. Tabs(g, k) = g[k + 1].tabs
    BY <1>1 DEF Tabs
  <2> QED
    BY <1>1, <2>1, TabsType
<1>4. L \in Layer /\ L.tabs = Append(Tabs(ls, k), t)
  BY <1>3 DEF Layer
<1>. HIDE DEF L
<1>5. /\ [g EXCEPT ![k + 1] = L] \in Seq(Layer)
      /\ Len([g EXCEPT ![k + 1] = L]) = Len(g)
      /\ \A n \in Nat : Tabs([g EXCEPT ![k + 1] = L], n) = IF n = k THEN L.tabs ELSE Tabs(g, n)
  BY <1>1, <1>4, PutTabs
<1>6. k < Len(g)
  BY <1>1
<1> QED
  BY <1>1, <1>2, <1>4, <1>5, <1>6

(* RemoveSSTable takes a table out of one layer.                           *)
LEMMA RemoveTabs ==
    ASSUME NEW ls \in Seq(Layer), NEW k \in Nat, k + 1 <= Len(ls), NEW id
    PROVE  /\ RemoveSSTable(ls, id, k) \in Seq(Layer)
           /\ Len(RemoveSSTable(ls, id, k)) = Len(ls)
           /\ \A n \in Nat : Tabs(RemoveSSTable(ls, id, k), n) =
                                IF n = k THEN Without(Tabs(ls, k), id) ELSE Tabs(ls, n)
<1>. DEFINE s == ls[k + 1].tabs
            L == [tabs |-> Without(s, id), needsUpdate |-> TRUE]
<1>1. s \in Seq(Reader) /\ Tabs(ls, k) = s
  BY TabsType DEF Tabs
<1>2. Without(s, id) \in Seq(Reader)
  BY <1>1, WithoutFacts
<1>3. (\E t \in ToSet(s) : t.id = id) <=> \E i \in 1 .. Len(s) : s[i].id = id
  BY <1>1 DEF ToSet
<1>4. CASE \E t \in ToSet(s) : t.id = id
  <2>1. RemoveSSTable(ls, id, k) = [ls EXCEPT ![k + 1] = L]
    BY <1>4 DEF RemoveSSTable
  <2>2. L \in Layer /\ L.tabs = Without(s, id)
    BY <1>2 DEF Layer
  <2>. HIDE DEF L, s
  <2>3. /\ [ls EXCEPT ![k + 1] = L] \in Seq(Layer)
        /\ Len([ls EXCEPT ![k + 1] = L]) = Len(ls)
        /\ \A n \in Nat : Tabs([ls EXCEPT ![k + 1] = L], n) = IF n = k THEN L.tabs ELSE Tabs(ls, n)
    BY <2>2, PutTabs
  <2> QED
    BY <1>1, <2>1, <2>2, <2>3
<1>5. CASE ~\E t \in ToSet(s) : t.id = id
  <2>1. RemoveSSTable(ls, id, k) = ls
    BY <1>5 DEF RemoveSSTable
  <2>2. Without(s, id) = s
    BY <1>3, <1>5, WithoutAbsent
  <2> QED
    BY <1>1, <2>1, <2>2
<1> QED
  BY <1>4, <1>5

(* The rows of a layer are a list of entries.                              *)
LEMMA RowsType ==
    ASSUME NEW m \in Manifest, NEW n \in Nat
    PROVE  ManifestRows(m, n) \in Seq(Reader)
<1>1. m.layers \in Seq(Seq(Reader))
  BY DEF Manifest
<1>2. CASE n + 1 <= Len(m.layers)
  <2>1. n + 1 \in 1 .. Len(m.layers)
    BY <1>1, <1>2
  <2> QED
    BY <1>1, <1>2, <2>1 DEF ManifestRows
<1>3. CASE ~(n + 1 <= Len(m.layers))
  BY <1>3 DEF ManifestRows
<1> QED
  BY <1>2, <1>3

(* ManifestPut replaces the rows of one layer.                             *)
LEMMA PutRows ==
    ASSUME NEW m \in Manifest, NEW k \in Nat, NEW rows \in Seq(Reader),
           NEW p, p = ManifestPut(m, k, rows)
    PROVE  /\ p \in Manifest /\ p.next = m.next
           /\ Len(m.layers) <= Len(p.layers) /\ k < Len(p.layers)
           /\ \A n \in Nat : ManifestRows(p, n) = IF n = k THEN rows ELSE ManifestRows(m, n)
<1>. DEFINE N == IF Len(m.layers) <= k + 1 THEN k + 1 ELSE Len(m.layers)
            g == [l \in 1 .. N |-> IF l = k + 1 THEN rows ELSE ManifestRows(m, l - 1)]
<1>1. m.layers \in Seq(Seq(Reader)) /\ N \in Nat /\ k + 1 <= N /\ Len(m.layers) <= N
  BY DEF Manifest
<1>2. p = [m EXCEPT !.layers = g]
  <2>1. Max({Len(m.layers), k + 1}) = N
    <3>1. \A a, b \in Int : Max({a, b}) = IF a <= b THEN b ELSE a
      BY MinMaxOfTwo
    <3>2. Len(m.layers) \in Int /\ k + 1 \in Int
      BY <1>1
    <3> QED
      BY <3>1, <3>2
  <2> QED
    BY <2>1 DEF ManifestPut
<1>3. g \in Seq(Seq(Reader)) /\ Len(g) = N
  <2>1. ASSUME NEW l \in 1 .. N PROVE g[l] \in Seq(Reader)
    BY <1>1, RowsType
  <2> HIDE DEF N
  <2> QED
    BY <1>1, <2>1
<1>4. p \in Manifest /\ p.layers = g /\ p.next = m.next
  <2>. HIDE DEF g
  <2> QED
    BY <1>2, <1>3 DEF Manifest
<1>5. ASSUME NEW n \in Nat
      PROVE  ManifestRows(p, n) = IF n = k THEN rows ELSE ManifestRows(m, n)
  <2>1. CASE n + 1 <= N
    <3>1. n + 1 \in 1 .. N /\ (n + 1) - 1 = n
      BY <1>1, <2>1
    <3>2. g[n + 1] = IF n = k THEN rows ELSE ManifestRows(m, n)
      BY <3>1
    <3>3. ManifestRows(p, n) = g[n + 1]
      <4> HIDE DEF g, N
      <4> QED
        BY <1>3, <1>4, <2>1 DEF ManifestRows
    <3> QED
      BY <3>2, <3>3
  <2>2. CASE ~(n + 1 <= N)
    <3>1. n # k /\ ~(n + 1 <= Len(m.layers))
      BY <1>1, <2>2
    <3>. HIDE DEF g, N
    <3> QED
      BY <1>3, <1>4, <2>2, <3>1 DEF ManifestRows
  <2> QED
    BY <2>1, <2>2
<1>6. Len(p.layers) = N
  BY <1>3, <1>4
<1>. HIDE DEF N
<1> QED
  BY <1>1, <1>4, <1>5, <1>6

(* The same, quantified.                                                   *)
LEMMA AnyPutRows ==
    \A m \in Manifest, k \in Nat, rows \in Seq(Reader) : \A p : p = ManifestPut(m, k, rows) =>
        /\ p \in Manifest /\ Len(m.layers) <= Len(p.layers)
        /\ \A n \in Nat : ManifestRows(p, n) = IF n = k THEN rows ELSE ManifestRows(m, n)
BY PutRows

(* Saving the counter leaves the rows.                                     *)
LEMMA NextRows ==
    ASSUME NEW m \in Manifest, NEW x \in Int, NEW q, q = [m EXCEPT !.next = x]
    PROVE  /\ q \in Manifest /\ q.next = x /\ q.layers = m.layers
           /\ \A n \in Nat : ManifestRows(q, n) = ManifestRows(m, n)
<1>1. q \in Manifest /\ q.next = x /\ q.layers = m.layers
  BY DEF Manifest
<1> QED
  BY <1>1 DEF ManifestRows

-----------------------------------------------------------------------------
(* Nth and Chosen enumerate a finite set of numbers.                       *)

(* How many elements of I are at most i.                                   *)
Rank(I, i) == Cardinality({j \in I : j <= i})

(* The least element has rank 1.                                           *)
LEMMA RankOfLeast ==
    ASSUME NEW I \in SUBSET Nat, NEW m \in I, \A i \in I : m <= i
    PROVE  Rank(I, m) = 1
<1>1. {j \in I : j <= m} = {m}
  <2>1. m \in {j \in I : j <= m}
    OBVIOUS
  <2>2. ASSUME NEW j \in I, j <= m PROVE j = m
    BY <2>2
  <2> QED
    BY <2>1, <2>2
<1> QED
  BY <1>1, FS_Singleton DEF Rank

(* The least element above i has the next rank.                            *)
LEMMA RankOfNext ==
    ASSUME NEW I \in SUBSET Nat, IsFiniteSet(I), NEW i \in I,
           NEW m \in I, ~(m <= i), \A j \in I : j <= i \/ m <= j
    PROVE  Rank(I, m) = Rank(I, i) + 1
<1>. DEFINE A == {j \in I : j <= i}
<1>1. {j \in I : j <= m} = A \cup {m}
  <2>1. ASSUME NEW j \in I, j <= m PROVE j \in A \cup {m}
    BY <2>1
  <2>2. ASSUME NEW j \in A \cup {m} PROVE j \in I /\ j <= m
    BY <2>2
  <2> QED
    BY <2>1, <2>2
<1>2. IsFiniteSet(A) /\ m \notin A
  BY FS_Subset
<1>. HIDE DEF A
<1>3. Cardinality(A \cup {m}) = Cardinality(A) + 1
  BY <1>2, FS_AddElement
<1> QED
  BY <1>1, <1>3 DEF Rank, A

(* Every rank is taken, and by one element only.                           *)
LEMMA RankTaken ==
    ASSUME NEW I \in SUBSET Nat, IsFiniteSet(I), NEW k \in 1 .. Cardinality(I)
    PROVE  \E i \in I : Rank(I, i) = k
<1>. DEFINE Bad == {n \in 1 .. Cardinality(I) : ~\E i \in I : Rank(I, i) = n}
<1>1. SUFFICES ASSUME Bad # {} PROVE FALSE
  OBVIOUS
<1>2. Cardinality(I) \in Nat /\ I # {}
  BY FS_CardinalityType, FS_EmptySet
<1>3. PICK n \in Bad : \A b \in Bad : n <= b
  <2>1. Bad \in SUBSET Nat
    BY <1>2
  <2>. HIDE DEF Bad
  <2> QED
    BY <1>1, <2>1, LeastElement
<1>4. CASE n = 1
  <2>1. PICK m \in I : \A i \in I : m <= i
    BY <1>2, LeastElement
  <2>2. Rank(I, m) = 1
    BY <2>1, RankOfLeast
  <2> QED
    BY <1>3, <1>4, <2>2
<1>5. CASE n # 1
  <2>1. n - 1 \in 1 .. Cardinality(I) /\ ~(n <= n - 1)
    BY <1>2, <1>3, <1>5
  <2>2. PICK i \in I : Rank(I, i) = n - 1
    BY <1>3, <2>1
  <2>. DEFINE B == {j \in I : ~(j <= i)}
  <2>3. B # {}
    <3>1. SUFFICES ASSUME B = {} PROVE FALSE
      OBVIOUS
    <3>2. {j \in I : j <= i} = I
      BY <3>1
    <3>3. Cardinality(I) = n - 1
      BY <2>2, <3>2 DEF Rank
    <3> QED
      BY <1>2, <1>3, <3>3
  <2>4. PICK m \in B : \A j \in B : m <= j
    <3>1. B \in SUBSET Nat
      OBVIOUS
    <3>. HIDE DEF B
    <3> QED
      BY <2>3, <3>1, LeastElement
  <2>5. Rank(I, m) = Rank(I, i) + 1
    BY <2>4, RankOfNext
  <2> QED
    BY <1>2, <1>3, <2>2, <2>4, <2>5
<1> QED
  BY <1>4, <1>5

(* Elements with the same rank are equal.                                  *)
LEMMA RankUnique ==
    ASSUME NEW I \in SUBSET Nat, IsFiniteSet(I), NEW i \in I, NEW j \in I,
           Rank(I, i) = Rank(I, j)
    PROVE  i = j
<1>1. ASSUME NEW a \in I, NEW b \in I, a < b, Rank(I, a) = Rank(I, b) PROVE FALSE
  <2>. DEFINE A == {x \in I : x <= a}
              B == {x \in I : x <= b}
  <2>1. IsFiniteSet(B) /\ A \in SUBSET B
    <3>1. IsFiniteSet(B)
      BY FS_Subset
    <3>2. ASSUME NEW x \in I, x <= a PROVE x <= b
      BY <1>1, <3>2
    <3> QED
      BY <3>1, <3>2
  <2>2. b \in B /\ b \notin A
    BY <1>1
  <2>3. Cardinality(A) = Cardinality(B)
    BY <1>1 DEF Rank
  <2>. HIDE DEF A, B
  <2> QED
    BY <2>1, <2>2, <2>3, FS_Subset
<1> QED
  BY <1>1

(* Nth enumerates the set.                                                 *)
LEMMA NthElement ==
    ASSUME NEW I \in SUBSET Nat, IsFiniteSet(I)
    PROVE  /\ Cardinality(I) \in Nat
           /\ \A k \in 1 .. Cardinality(I) : Nth(I, k) \in I
           /\ \A i \in I : \E k \in 1 .. Cardinality(I) : Nth(I, k) = i
<1>1. Cardinality(I) \in Nat
  BY FS_CardinalityType
<1>2. ASSUME NEW k \in 1 .. Cardinality(I) PROVE Nth(I, k) \in I /\ Rank(I, Nth(I, k)) = k
  <2>1. \E i \in I : Rank(I, i) = k
    BY RankTaken
  <2> QED
    BY <2>1 DEF Nth, Rank
<1>3. ASSUME NEW i \in I PROVE \E k \in 1 .. Cardinality(I) : Nth(I, k) = i
  <2>. DEFINE A == {j \in I : j <= i}
  <2>1. IsFiniteSet(A) /\ Cardinality(A) <= Cardinality(I) /\ i \in A
    BY FS_Subset
  <2>2. Rank(I, i) = Cardinality(A)
    BY DEF Rank
  <2>. HIDE DEF A
  <2>3. Rank(I, i) \in 1 .. Cardinality(I)
    BY <1>1, <2>1, <2>2, FS_CardinalityType, FS_EmptySet
  <2>4. PICK j \in I : j = Nth(I, Rank(I, i)) /\ Rank(I, j) = Rank(I, i)
    BY <1>2, <2>3
  <2>5. j = i
    BY <2>4, RankUnique
  <2> QED
    BY <2>3, <2>4, <2>5
<1> QED
  BY <1>1, <1>2, <1>3

(* Chosen takes exactly the elements at the positions I.                   *)
LEMMA ChosenElements ==
    ASSUME NEW S, NEW s \in Seq(S), NEW I \in SUBSET DOMAIN s
    PROVE  /\ Chosen(s, I) \in Seq(S)
           /\ \A k \in 1 .. Len(Chosen(s, I)) : \E i \in I : Chosen(s, I)[k] = s[i]
           /\ \A i \in I : \E k \in 1 .. Len(Chosen(s, I)) : Chosen(s, I)[k] = s[i]
<1>. DEFINE c == Chosen(s, I)
            n == Cardinality(I)
<1>1. I \in SUBSET Nat /\ IsFiniteSet(I) /\ I \in SUBSET (1 .. Len(s))
  <2>1. I \in SUBSET (1 .. Len(s)) /\ Len(s) \in Nat
    OBVIOUS
  <2>2. I \in SUBSET Nat /\ \A i \in I : i <= Len(s)
    BY <2>1
  <2> QED
    BY <2>1, <2>2, FS_BoundedSetOfNaturals
<1>2. /\ n \in Nat
      /\ \A k \in 1 .. n : Nth(I, k) \in I
      /\ \A i \in I : \E k \in 1 .. n : Nth(I, k) = i
  BY <1>1, NthElement
<1>3. c = [k \in 1 .. n |-> s[Nth(I, k)]]
  BY DEF Chosen
<1>. HIDE DEF c, n
<1>4. ASSUME NEW k \in 1 .. n PROVE c[k] = s[Nth(I, k)] /\ c[k] \in S
  <2>1. Nth(I, k) \in 1 .. Len(s)
    BY <1>1, <1>2
  <2> QED
    BY <1>3, <2>1
<1>5. c \in Seq(S) /\ Len(c) = n
  BY <1>2, <1>3, <1>4
<1>6. \A k \in 1 .. n : \E i \in I : c[k] = s[i]
  BY <1>2, <1>4
<1>7. \A i \in I : \E k \in 1 .. n : c[k] = s[i]
  BY <1>2, <1>4
<1> QED
  BY <1>5, <1>6, <1>7 DEF c

-----------------------------------------------------------------------------
(* The invariant behind ManifestAgrees.                                    *)

WorkerInv ==
    /\ worker \in [pc : {"idle", "compact", "add", "delete", "unlist"}, i : Nat, id : Nat,
                   to : Nat, content : {worker.content}, inputs : Seq(Reader)]
    /\ worker.pc \in {"idle", "compact"} => worker.inputs = <<>>
    /\ worker.pc \in {"delete", "unlist"} => worker.inputs # <<>>

FilesInv == IsFiniteSet(DOMAIN files) /\ DOMAIN files \in SUBSET (Nat \X Nat)

TypeInv ==
    /\ strategy \in {"leveled", "tiered"} /\ status \in {"up", "down", "stuck"}
    /\ layers \in Seq(Layer) /\ nextId \in Nat
    /\ WorkerInv /\ (status # "up" => worker = Idle)
    /\ FilesInv
    /\ manifest \in Manifest /\ (manifest # NoManifest => manifest.next \in Nat)

(* The rows of layer n in the saved manifest, and those that are left once *)
(* the table is unlisted whose file was just deleted.                      *)
Rows(n) == ManifestRows(manifest, n)
First == Head(worker.inputs)
RowsLeft(n) ==
    IF worker.pc = "unlist" /\ n = First.layer THEN Without(Rows(n), First.id) ELSE Rows(n)

(* Manifest and memory agree, but for that table.                          *)
Agreement ==
    status = "up" /\ failure # "misplaced" => \A n \in Nat : Same(RowsLeft(n), Tabs(layers, n))

(* The layer an entry names is one of the N there are, and the one it is   *)
(* in, unless MoveSSTable, which tiered compaction does not use, took it   *)
(* to another.                                                             *)
PlacedAt(s, n, N) ==
    \A k \in 1 .. Len(s) : s[k].layer < N /\ (strategy = "tiered" => s[k].layer = n)
Placed ==
    \A n \in Nat : /\ PlacedAt(Rows(n), n, Len(manifest.layers))
                   /\ PlacedAt(Tabs(layers, n), n, Len(layers))

(* The list s begins the rows of layer n.                                  *)
InFront(s, rows, n) ==
    /\ Len(s) <= Len(rows)
    /\ \A k \in 1 .. Len(s) : s[k].layer = n /\ s[k].id = rows[k].id

(* Tiered compaction merges a whole layer, from its first table on: what   *)
(* is left to delete begins the layer.                                     *)
WholeLayer ==
    strategy = "tiered" /\ worker.inputs # <<>> =>
        InFront(worker.inputs, Rows(First.layer), First.layer)

Blame == failure \in {"notFound", "misplaced"} => strategy = "leveled"

ManifestInv == TypeInv /\ Agreement /\ Placed /\ WholeLayer /\ Blame

mvars == <<strategy, status, layers, nextId, worker, files, manifest, failure>>

(* The invariant gives ManifestAgrees.                                     *)
LEMMA AgreementNames ==
    ManifestInv => ManifestAgrees
<1>. SUFFICES ASSUME ManifestInv PROVE ManifestAgrees
  OBVIOUS
<1>1. failure \in {"notFound", "misplaced"} => strategy = "leveled"
  BY DEF ManifestInv, Blame
<1>2. ASSUME MuFree, failure # "misplaced", NEW l \in 1 .. MaxHeight
      PROVE  [i \in DOMAIN ManifestRows(manifest, l - 1) |-> ManifestRows(manifest, l - 1)[i].name]
              = IF l > Len(layers) THEN <<>>
                ELSE [i \in DOMAIN layers[l].tabs |-> layers[l].tabs[i].name]
  <2>. DEFINE r == ManifestRows(manifest, l - 1)
              t == Tabs(layers, l - 1)
  <2>1. l - 1 \in Nat /\ (l - 1) + 1 = l
    OBVIOUS
  <2>2. layers \in Seq(Layer) /\ manifest \in Manifest
    BY DEF ManifestInv, TypeInv
  <2>3. r \in Seq(Reader) /\ t \in Seq(Reader)
    BY <2>1, <2>2, RowsType, TabsType
  <2>4. Same(r, t)
    BY <1>2, <2>1 DEF ManifestInv, Agreement, MuFree, RowsLeft, Rows
  <2>5. t = IF l > Len(layers) THEN <<>> ELSE layers[l].tabs
    BY <2>1, <2>2 DEF Tabs
  <2>. HIDE DEF r, t
  <2>6. [i \in DOMAIN r |-> r[i].name] = [i \in DOMAIN t |-> t[i].name]
    <3>1. DOMAIN r = 1 .. Len(r) /\ DOMAIN t = 1 .. Len(r)
      BY <2>3, <2>4 DEF Same
    <3>2. \A i \in 1 .. Len(r) : r[i].name = t[i].name
      BY <2>4 DEF Same
    <3> QED
      BY <3>1, <3>2
  <2>7. [i \in DOMAIN t |-> t[i].name] =
          IF l > Len(layers) THEN <<>> ELSE [i \in DOMAIN layers[l].tabs |-> layers[l].tabs[i].name]
    <3>1. CASE l > Len(layers)
      <4>1. t = <<>> /\ DOMAIN t = {}
        BY <2>5, <3>1
      <4>2. [i \in DOMAIN t |-> t[i].name] = <<>>
        BY <4>1
      <4> QED
        BY <3>1, <4>2
    <3>2. CASE ~(l > Len(layers))
      <4>1. t = layers[l].tabs
        BY <2>5, <3>2
      <4> QED
        BY <3>2, <4>1
    <3> QED
      BY <3>1, <3>2
  <2> QED
    BY <2>6, <2>7 DEF r
<1> QED
  BY <1>1, <1>2 DEF ManifestAgrees

(* No layers, or one empty layer, have no tables.                          *)
LEMMA EmptyTabs ==
    /\ <<>> \in Seq(Layer) /\ <<NoLayer>> \in Seq(Layer)
    /\ \A n \in Nat : Tabs(<<>>, n) = <<>> /\ Tabs(<<NoLayer>>, n) = <<>>
<1>1. NoLayer \in Layer /\ NoLayer.tabs = <<>>
  BY DEF NoLayer, Layer
<1>. HIDE DEF NoLayer
<1>2. ASSUME NEW n \in Nat PROVE Tabs(<<NoLayer>>, n) = <<>>
  <2>1. CASE n = 0
    BY <1>1, <2>1 DEF Tabs
  <2>2. CASE n # 0
    <3>1. ~(n + 1 <= Len(<<NoLayer>>))
      BY <2>2
    <3> QED
      BY <3>1 DEF Tabs
  <2> QED
    BY <2>1, <2>2
<1>3. ASSUME NEW n \in Nat PROVE Tabs(<<>>, n) = <<>>
  <2>1. ~(n + 1 <= Len(<<>>))
    OBVIOUS
  <2> QED
    BY <2>1 DEF Tabs
<1> QED
  BY <1>1, <1>2, <1>3

(* An empty or missing manifest has no rows.                               *)
LEMMA EmptyRows ==
    ASSUME NEW m, m = EmptyManifest \/ m = NoManifest
    PROVE  m \in Manifest /\ \A n \in Nat : ManifestRows(m, n) = <<>>
<1>1. m \in Manifest /\ m.layers = <<>>
  <2>1. <<>> \in Seq(Seq(Reader)) /\ -1 \in Int
    OBVIOUS
  <2>2. EmptyManifest \in Manifest /\ EmptyManifest.layers = <<>>
    BY <2>1 DEF EmptyManifest, Manifest
  <2>3. NoManifest \in Manifest /\ NoManifest.layers = <<>>
    BY <2>1 DEF NoManifest, Manifest
  <2> QED
    BY <2>2, <2>3
<1>2. ASSUME NEW n \in Nat PROVE ManifestRows(m, n) = <<>>
  <2>1. ~(n + 1 <= Len(m.layers))
    BY <1>1
  <2> QED
    BY <2>1 DEF ManifestRows
<1> QED
  BY <1>1, <1>2

(* An idle worker has nothing to delete.                                   *)
LEMMA IdleWorker ==
    worker = Idle => WorkerInv /\ worker.pc = "idle" /\ worker.inputs = <<>>
BY DEF Idle, WorkerInv

(* The table whose turn it is to be deleted.                               *)
LEMMA FirstType ==
    ASSUME WorkerInv, worker.inputs # <<>>
    PROVE  /\ First \in Reader /\ First.layer \in Nat /\ First = worker.inputs[1]
           /\ Len(worker.inputs) \in Nat \ {0}
<1>1. PICK s \in Seq(Reader) : s = worker.inputs
  BY DEF WorkerInv
<1>2. Len(s) \in Nat \ {0} /\ Head(s) = s[1] /\ s[1] \in Reader
  BY <1>1
<1>3. First = s[1]
  BY <1>1, <1>2 DEF First
<1> QED
  BY <1>1, <1>2, <1>3 DEF Reader

(* A missing manifest is saved as an empty one.                            *)
LEMMA SavedRows ==
    ASSUME NEW m \in Manifest
    PROVE  /\ Saved(m) \in Manifest /\ Saved(m).layers = m.layers
           /\ \A n \in Nat : ManifestRows(Saved(m), n) = ManifestRows(m, n)
<1>1. CASE m = NoManifest
  <2>1. NoManifest.layers = EmptyManifest.layers
    BY DEF NoManifest, EmptyManifest
  <2> QED
    BY <1>1, <2>1, EmptyRows DEF Saved
<1>2. CASE m # NoManifest
  BY <1>2 DEF Saved
<1> QED
  BY <1>1, <1>2

(* No tables agree with no rows.                                           *)
LEMMA SameEmpty == Same(<<>>, <<>>)
BY DEF Same

(* No table is out of place.                                               *)
LEMMA PlacedEmpty == ASSUME NEW n, NEW N PROVE PlacedAt(<<>>, n, N)
BY DEF PlacedAt

(* More layers put no table out of place.                                  *)
LEMMA PlacedMore ==
    ASSUME NEW s \in Seq(Reader), NEW n, NEW N \in Nat, NEW M \in Nat, N <= M, PlacedAt(s, n, N)
    PROVE  PlacedAt(s, n, M)
<1>1. ASSUME NEW k \in 1 .. Len(s) PROVE s[k].layer \in Nat
  <2>1. s[k] \in Reader
    OBVIOUS
  <2> QED
    BY <2>1 DEF Reader
<1> QED
  BY <1>1 DEF PlacedAt

(* A new table in its own layer is in place.                               *)
LEMMA PlacedAppend ==
    ASSUME NEW s \in Seq(Reader), NEW e \in Reader, NEW n, NEW N, PlacedAt(s, n, N),
           e.layer < N, strategy = "tiered" => e.layer = n
    PROVE  PlacedAt(Append(s, e), n, N)
<1>. DEFINE a == Append(s, e)
<1>1. /\ a \in Seq(Reader) /\ Len(a) = Len(s) + 1
      /\ a[Len(s) + 1] = e /\ \A i \in 1 .. Len(s) : a[i] = s[i]
  BY AppendProperties
<1>. HIDE DEF a
<1>2. ASSUME NEW i \in 1 .. Len(a) PROVE a[i].layer < N /\ (strategy = "tiered" => a[i].layer = n)
  <2>1. CASE i \in 1 .. Len(s)
    BY <1>1, <2>1 DEF PlacedAt
  <2>2. CASE i = Len(s) + 1
    BY <1>1, <2>2
  <2> QED
    BY <1>1, <2>1, <2>2
<1> QED
  BY <1>2 DEF PlacedAt, a

(* Removing a table puts no other out of place.                            *)
LEMMA PlacedWithout ==
    ASSUME NEW s \in Seq(Reader), NEW id, NEW n, NEW N, PlacedAt(s, n, N)
    PROVE  PlacedAt(Without(s, id), n, N)
<1>. DEFINE w == Without(s, id)
<1>1. PICK f \in [1 .. Len(w) -> 1 .. Len(s)] : \A i \in 1 .. Len(w) : w[i] = s[f[i]]
  BY WithoutFacts
<1>. HIDE DEF w
<1>2. \A i \in 1 .. Len(w) : f[i] \in 1 .. Len(s)
  BY <1>1
<1> QED
  BY <1>1, <1>2 DEF PlacedAt, w

(* A new state that concerns neither tables nor manifest.                  *)
LEMMA ManifestStutter ==
    ManifestInv /\ UNCHANGED mvars => ManifestInv'
BY DEF ManifestInv, mvars, TypeInv, WorkerInv, FilesInv, Agreement, Placed, PlacedAt, WholeLayer,
       InFront, Blame, Rows, RowsLeft, First, Tabs, Same

(* The empty engine.                                                       *)
LEMMA ManifestInit ==
    Init => ManifestInv
<1>. SUFFICES ASSUME Init PROVE ManifestInv
  OBVIOUS
<1>1. /\ strategy \in {"leveled", "tiered"} /\ status = "up" /\ layers = <<NoLayer>>
      /\ nextId = 0 /\ worker = Idle /\ files = <<>> /\ manifest = EmptyManifest
      /\ failure = "none"
  BY ManagerAssumption DEF Init
<1>2. TypeInv
  <2>1. WorkerInv
    BY <1>1, IdleWorker
  <2>3. DOMAIN files = {}
    BY <1>1
  <2>4. manifest \in Manifest /\ manifest.next \in Nat
    BY <1>1, EmptyRows DEF EmptyManifest
  <2> QED
    BY <1>1, <2>1, <2>3, <2>4, EmptyTabs, FS_EmptySet DEF TypeInv, FilesInv
<1>3. ASSUME NEW n \in Nat
      PROVE  Rows(n) = <<>> /\ RowsLeft(n) = <<>> /\ Tabs(layers, n) = <<>>
  <2>1. Rows(n) = <<>> /\ Tabs(layers, n) = <<>>
    BY <1>1, EmptyRows, EmptyTabs DEF Rows
  <2>2. worker.pc = "idle"
    BY <1>1 DEF Idle
  <2> QED
    BY <2>1, <2>2 DEF RowsLeft
<1>4. Agreement /\ Placed
  BY <1>3, SameEmpty, PlacedEmpty DEF Agreement, Placed
<1>5. WholeLayer
  BY <1>1 DEF WholeLayer, Idle
<1> QED
  BY <1>1, <1>2, <1>4, <1>5 DEF ManifestInv, Blame

-----------------------------------------------------------------------------
(* Steps the actions have in common.                                       *)

(* A new file.                                                             *)
LEMMA WrittenFiles ==
    ASSUME FilesInv, NEW a \in Nat, NEW b \in Nat, NEW x, files' = Written(files, <<a, b>>, x)
    PROVE  FilesInv'
<1>1. DOMAIN files' = DOMAIN files \cup {<<a, b>>}
  BY DEF Written
<1>2. IsFiniteSet(DOMAIN files \cup {<<a, b>>})
  BY FS_AddElement DEF FilesInv
<1> QED
  BY <1>1, <1>2 DEF FilesInv

(* The process ends.                                                       *)
LEMMA DieStep ==
    ASSUME ManifestInv, Die, UNCHANGED manifest, FilesInv',
           failure' # "misplaced", failure' = "notFound" => strategy = "leveled"
    PROVE  ManifestInv'
<1>1. /\ status' = "down" /\ layers' = <<>> /\ nextId' = 0 /\ worker' = Idle
      /\ UNCHANGED <<strategy, manifest>>
  BY DEF Die
<1>2. TypeInv'
  <2>1. WorkerInv'
    BY <1>1 DEF Idle, WorkerInv
  <2> QED
    BY <1>1, <2>1, EmptyTabs DEF ManifestInv, TypeInv
<1>3. Agreement'
  BY <1>1 DEF Agreement
<1>4. Placed'
  <2>1. ASSUME NEW n \in Nat
        PROVE  PlacedAt(Rows(n), n, Len(manifest.layers))' /\ PlacedAt(Tabs(layers, n), n, Len(layers))'
    <3>1. PlacedAt(Rows(n), n, Len(manifest.layers))
      BY DEF ManifestInv, Placed
    <3>2. Tabs(layers', n) = <<>>
      BY <1>1, EmptyTabs
    <3> QED
      BY <1>1, <3>1, <3>2 DEF PlacedAt, Rows
  <2> QED
    BY <2>1 DEF Placed
<1>5. WholeLayer'
  BY <1>1 DEF WholeLayer, Idle
<1> QED
  BY <1>1, <1>2, <1>3, <1>4, <1>5 DEF ManifestInv, Blame

(* Compact goes on, a merge begins, or a memtable is flushed: the tables   *)
(* stay where they are.                                                    *)
LEMMA KeepStep ==
    ASSUME ManifestInv, status = "up", worker.pc \in {"idle", "compact"},
           UNCHANGED <<strategy, status, manifest, failure>>,
           layers' \in Seq(Layer), Len(layers) <= Len(layers'),
           \A n \in Nat : Tabs(layers', n) = Tabs(layers, n),
           nextId' \in Nat, FilesInv', WorkerInv', worker'.pc \in {"idle", "compact", "add"},
           WholeLayer'
    PROVE  ManifestInv'
<1>1. TypeInv'
  BY DEF ManifestInv, TypeInv
<1>2. Agreement'
  <2>1. ASSUME NEW n \in Nat, failure # "misplaced" PROVE Same(RowsLeft(n)', Tabs(layers', n))
    <3>1. RowsLeft(n) = Rows(n) /\ RowsLeft(n)' = Rows(n)
      BY DEF RowsLeft, Rows
    <3>2. Same(RowsLeft(n), Tabs(layers, n))
      BY <2>1 DEF ManifestInv, Agreement
    <3> QED
      BY <3>1, <3>2
  <2> QED
    BY <2>1 DEF Agreement
<1>3. Placed'
  <2>1. ASSUME NEW n \in Nat
        PROVE  PlacedAt(Rows(n), n, Len(manifest.layers))' /\ PlacedAt(Tabs(layers, n), n, Len(layers))'
    <3>1. /\ PlacedAt(Rows(n), n, Len(manifest.layers)) /\ PlacedAt(Tabs(layers, n), n, Len(layers))
          /\ Tabs(layers', n) = Tabs(layers, n)
      BY DEF ManifestInv, Placed
    <3>2. PlacedAt(Tabs(layers, n), n, Len(layers'))
      <4>1. PICK s \in Seq(Reader) : s = Tabs(layers, n)
        BY TabsType DEF ManifestInv, TypeInv
      <4>2. Len(layers) \in Nat /\ Len(layers') \in Nat
        BY DEF ManifestInv, TypeInv
      <4> QED
        BY <3>1, <4>1, <4>2, PlacedMore
    <3> QED
      BY <3>1, <3>2 DEF PlacedAt, Rows
  <2> QED
    BY <2>1 DEF Placed
<1> QED
  BY <1>1, <1>2, <1>3 DEF ManifestInv, Blame

(* The manifest is saved, with new rows for one layer.                     *)
LEMMA SaveRows ==
    ASSUME NEW m \in Manifest, NEW k \in Nat, NEW rows \in Seq(Reader), nextId \in Nat,
           manifest' = [ManifestPut(m, k, rows) EXCEPT !.next = nextId]
    PROVE  /\ manifest' \in Manifest /\ manifest'.next = nextId
           /\ Len(m.layers) <= Len(manifest'.layers) /\ k < Len(manifest'.layers)
           /\ \A n \in Nat : Rows(n)' = IF n = k THEN rows ELSE ManifestRows(m, n)
<1>1. PICK p : p = ManifestPut(m, k, rows)
  OBVIOUS
<1>2. /\ p \in Manifest /\ Len(m.layers) <= Len(p.layers) /\ k < Len(p.layers)
      /\ \A n \in Nat : ManifestRows(p, n) = IF n = k THEN rows ELSE ManifestRows(m, n)
  BY <1>1, PutRows
<1>3. manifest' = [p EXCEPT !.next = nextId]
  BY <1>1
<1>4. /\ manifest' \in Manifest /\ manifest'.next = nextId /\ manifest'.layers = p.layers
      /\ \A n \in Nat : ManifestRows(manifest', n) = ManifestRows(p, n)
  <2>0. PICK x \in Int : x = nextId
    OBVIOUS
  <2>1. PICK q : q = manifest'
    OBVIOUS
  <2>2. q = [p EXCEPT !.next = x]
    BY <1>3, <2>0, <2>1
  <2>3. /\ q \in Manifest /\ q.next = x /\ q.layers = p.layers
        /\ \A n \in Nat : ManifestRows(q, n) = ManifestRows(p, n)
    BY <1>2, <2>2, NextRows
  <2> QED
    BY <2>0, <2>1, <2>3
<1> QED
  BY <1>2, <1>4 DEF Rows

(* The worker after a step of the loop of Compact.                         *)
LEMMA GoOnWorker ==
    ASSUME NEW ls \in Seq(Layer), NEW i \in Nat, GoOn(ls, i)
    PROVE  /\ WorkerInv' /\ worker'.pc \in {"idle", "compact"}
           /\ worker'.inputs = <<>> /\ layers' = ls
<1>1. layers' = ls
  BY DEF GoOn
<1>2. worker' = Idle \/ worker' = [Idle EXCEPT !.pc = "compact", !.i = i]
  BY DEF GoOn
<1>3. CASE worker' = Idle
  BY <1>1, <1>3 DEF Idle, WorkerInv
<1>4. CASE worker' = [Idle EXCEPT !.pc = "compact", !.i = i]
  <2>1. worker' = [pc |-> "compact", i |-> i, id |-> 0, to |-> 0,
                   content |-> Table({}, {}), inputs |-> <<>>]
    BY <1>4 DEF Idle
  <2> QED
    BY <1>1, <2>1 DEF WorkerInv
<1> QED
  BY <1>2, <1>3, <1>4

(* The loop of Compact goes on, with the same tables.                      *)
LEMMA GoOnStep ==
    ASSUME ManifestInv, status = "up", worker.pc \in {"idle", "compact"},
           UNCHANGED <<strategy, status, manifest, failure>>, nextId' \in Nat, FilesInv',
           NEW ls \in Seq(Layer), Len(layers) <= Len(ls),
           \A n \in Nat : Tabs(ls, n) = Tabs(layers, n),
           NEW i \in Nat, GoOn(ls, i)
    PROVE  ManifestInv'
<1>1. /\ WorkerInv' /\ worker'.pc \in {"idle", "compact"}
      /\ worker'.inputs = <<>> /\ layers' = ls
  BY GoOnWorker
<1>2. WholeLayer'
  BY <1>1 DEF WholeLayer
<1> QED
  BY <1>1, <1>2, KeepStep

(* A merge of some tables, into the files only.                            *)
LEMMA MergeStep ==
    ASSUME ManifestInv, failure # "misplaced", status = "up", worker.pc = "compact",
           NEW inputs \in Seq(Reader), inputs # <<>>, NEW to \in Nat, NEW skip \in BOOLEAN,
           NEW ls \in Seq(Layer), Len(layers) <= Len(ls),
           \A n \in Nat : Tabs(ls, n) = Tabs(layers, n),
           strategy = "tiered" => InFront(inputs, Rows(inputs[1].layer), inputs[1].layer),
           MergeSSTables(inputs, to, skip, ls)
    PROVE  ManifestInv'
<1>1. nextId \in Nat /\ worker.i \in Nat /\ FilesInv /\ MaxHeight \in Nat
  BY ManagerAssumption DEF ManifestInv, TypeInv, WorkerInv
<1>2. files' = Written(files, <<to, nextId>>, Partial) /\ UNCHANGED manifest
  BY DEF MergeSSTables
<1>3. FilesInv'
  BY <1>1, <1>2, WrittenFiles
<1>4. CASE \E why \in {"noBase", "noLeaves"} : Panic(why)
  BY <1>2, <1>3, <1>4, DieStep DEF Panic
<1>5. CASE /\ nextId' = nextId + 1
           /\ \E next \in {MaxHeight, worker.i + 1} : GoOn(ls, next)
           /\ UNCHANGED <<strategy, frags, snap, status, history>>
  <2>1. PICK next \in Nat : GoOn(ls, next)
    BY <1>1, <1>5
  <2>2. UNCHANGED <<strategy, status, manifest, failure>> /\ nextId' \in Nat
    BY <1>1, <1>2, <1>5 DEF history
  <2> QED
    BY <1>3, <2>1, <2>2, GoOnStep
<1>6. CASE /\ nextId' = nextId + 1 /\ layers' = ls
           /\ \E next \in {MaxHeight, worker.i + 1} : \E c :
                worker' = [pc |-> "add", i |-> next, id |-> nextId, to |-> to, inputs |-> inputs,
                           content |-> c]
           /\ UNCHANGED <<strategy, frags, snap, status, history>>
  <2>1. PICK next \in {MaxHeight, worker.i + 1} : \E c :
          worker' = [pc |-> "add", i |-> next, id |-> nextId, to |-> to, inputs |-> inputs,
                     content |-> c]
    BY <1>6, Zenon
  <2>. next \in Nat
    BY <1>1
  <2>2. UNCHANGED <<strategy, status, manifest, failure>> /\ nextId' \in Nat
    BY <1>1, <1>2, <1>6 DEF history
  <2>3. WorkerInv' /\ worker'.pc = "add" /\ worker'.inputs = inputs
    BY <1>1, <2>1 DEF WorkerInv
  <2>4. WholeLayer'
    <3>1. First' = inputs[1] /\ \A n : Rows(n)' = Rows(n)
      BY <1>2, <2>3 DEF First, Rows
    <3> QED
      BY <2>2, <2>3, <3>1 DEF WholeLayer, InFront
  <2>5. /\ worker'.pc \in {"idle", "compact", "add"} /\ layers' \in Seq(Layer)
        /\ Len(layers) <= Len(layers')
    BY <1>6, <2>3
  <2>6. \A n \in Nat : Tabs(layers', n) = Tabs(layers, n)
    BY <1>6
  <2> QED
    BY <1>3, <2>2, <2>3, <2>4, <2>5, <2>6, KeepStep
<1> QED
  BY <1>4, <1>5, <1>6 DEF MergeSSTables

-----------------------------------------------------------------------------
(* The actions, one by one.                                                *)

(* Flush only creates an unfinished file.                                  *)
LEMMA FlushStep ==
    ASSUME ManifestInv, NEW m \in Memtables, Flush(m)
    PROVE  ManifestInv'
<1>1. /\ status = "up" /\ worker.pc = "idle" /\ nextId' = nextId + 1
      /\ files' = Written(files, <<0, nextId>>, Partial)
      /\ UNCHANGED <<strategy, layers, status, manifest, failure>>
      /\ \E c : worker' = [pc |-> "add", i |-> 0, id |-> nextId, to |-> 0, inputs |-> <<>>,
                           content |-> c]
  BY DEF Flush, CanFlush
<1>2. nextId \in Nat /\ FilesInv /\ layers \in Seq(Layer)
  BY DEF ManifestInv, TypeInv
<1>3. FilesInv'
  BY <1>1, <1>2, WrittenFiles
<1>4. WorkerInv' /\ worker'.pc = "add" /\ worker'.inputs = <<>>
  BY <1>1, <1>2 DEF WorkerInv
<1>5. WholeLayer'
  BY <1>4 DEF WholeLayer
<1>6. \A n \in Nat : Tabs(layers', n) = Tabs(layers, n)
  BY <1>1
<1> QED
  BY <1>1, <1>2, <1>3, <1>4, <1>5, <1>6, KeepStep

(* A memtable that is not written changes no table.                        *)
LEMMA FlushNothingStep ==
    ASSUME ManifestInv, FlushNothing
    PROVE  ManifestInv'
<1>1. /\ status = "up" /\ worker.pc = "idle" /\ GoOn(layers, 0)
      /\ UNCHANGED <<strategy, status, manifest, failure, nextId, files>>
  BY DEF FlushNothing, CanFlush
<1>2. nextId' \in Nat /\ FilesInv' /\ layers \in Seq(Layer)
  BY <1>1 DEF ManifestInv, TypeInv, FilesInv
<1> QED
  BY <1>1, <1>2, GoOnStep

(* What a list is followed by does not matter to what it begins with.      *)
LEMMA InFrontAppend ==
    ASSUME NEW s \in Seq(Reader), NEW r \in Seq(Reader), NEW e \in Reader, NEW n, InFront(s, r, n)
    PROVE  InFront(s, Append(r, e), n)
<1>. DEFINE a == Append(r, e)
<1>1. a \in Seq(Reader) /\ Len(a) = Len(r) + 1 /\ \A i \in 1 .. Len(r) : a[i] = r[i]
  BY AppendProperties
<1>2. Len(s) \in Nat /\ Len(r) \in Nat
  OBVIOUS
<1>. HIDE DEF a
<1> QED
  BY <1>1, <1>2 DEF InFront, a

(* A finished table enters layer and manifest.                             *)
LEMMA AddStep ==
    ASSUME ManifestInv, failure # "misplaced", Add
    PROVE  ManifestInv'
<1>. DEFINE t == [id |-> worker.id, layer |-> worker.to, name |-> <<worker.to, worker.id>>]
            m == Saved(manifest)
            to == worker.to
            r == Append(ManifestRows(m, to), t)
<1>1. /\ status = "up" /\ worker.pc = "add"
      /\ files' = [files EXCEPT ![<<worker.to, worker.id>>] = worker.content]
      /\ layers' = AppendSSTable(layers, t, to)
      /\ manifest' = [ManifestPut(m, to, r) EXCEPT !.next = nextId]
      /\ worker' = [worker EXCEPT !.pc = IF worker.inputs = <<>> THEN "compact" ELSE "delete",
                                  !.content = Idle.content]
      /\ UNCHANGED <<strategy, status, nextId, failure>>
  BY DEF Add
<1>2. /\ to \in Nat /\ worker.id \in Nat /\ worker.inputs \in Seq(Reader) /\ WorkerInv
      /\ layers \in Seq(Layer) /\ nextId \in Nat /\ FilesInv /\ manifest \in Manifest
  BY DEF ManifestInv, TypeInv, WorkerInv
<1>3. t \in Reader /\ t.layer = to
  BY <1>2 DEF Reader
<1>4. /\ m \in Manifest /\ m.layers = manifest.layers
      /\ \A n \in Nat : ManifestRows(m, n) = Rows(n)
      /\ \A n \in Nat : Rows(n) \in Seq(Reader) /\ Tabs(layers, n) \in Seq(Reader)
  BY <1>2, SavedRows, RowsType, TabsType DEF Rows
<1>. HIDE DEF t, m, to
<1>5. r = Append(Rows(to), t) /\ r \in Seq(Reader)
  <2>1. r = Append(Rows(to), t)
    BY <1>2, <1>4
  <2> QED
    BY <1>2, <1>3, <1>4, <2>1, AppendProperties
<1>. HIDE DEF r
<1>6. /\ manifest' \in Manifest /\ manifest'.next = nextId
      /\ Len(manifest.layers) <= Len(manifest'.layers) /\ to < Len(manifest'.layers)
      /\ \A n \in Nat : Rows(n)' = IF n = to THEN r ELSE Rows(n)
  <2>1. /\ manifest' \in Manifest /\ manifest'.next = nextId
        /\ Len(m.layers) <= Len(manifest'.layers) /\ to < Len(manifest'.layers)
        /\ \A n \in Nat : ManifestRows(manifest', n) = IF n = to THEN r ELSE ManifestRows(m, n)
    <3>1. m \in Manifest /\ to \in Nat /\ r \in Seq(Reader) /\ nextId \in Nat
      BY <1>2, <1>4, <1>5
    <3>2. manifest' = [ManifestPut(m, to, r) EXCEPT !.next = nextId]
      BY <1>1
    <3>3. /\ manifest' \in Manifest /\ manifest'.next = nextId
          /\ Len(m.layers) <= Len(manifest'.layers) /\ to < Len(manifest'.layers)
          /\ \A n \in Nat : Rows(n)' = IF n = to THEN r ELSE ManifestRows(m, n)
      BY <3>1, <3>2, SaveRows
    <3> QED
      BY <3>3 DEF Rows
  <2> QED
    BY <1>4, <2>1 DEF Rows
<1>7. /\ layers' \in Seq(Layer) /\ Len(layers) <= Len(layers') /\ to < Len(layers')
      /\ \A n \in Nat : Tabs(layers', n) =
                           IF n = to THEN Append(Tabs(layers, to), t) ELSE Tabs(layers, n)
  <2>1. /\ AppendSSTable(layers, t, to) \in Seq(Layer)
        /\ Len(layers) <= Len(AppendSSTable(layers, t, to)) /\ to < Len(AppendSSTable(layers, t, to))
        /\ \A n \in Nat : Tabs(AppendSSTable(layers, t, to), n) =
                             IF n = to THEN Append(Tabs(layers, to), t) ELSE Tabs(layers, n)
    BY <1>2, <1>3, AppendTabs, ZenonT(60)
  <2> QED
    BY <1>1, <2>1
<1>8. /\ WorkerInv' /\ worker'.pc \in {"compact", "delete"} /\ worker'.inputs = worker.inputs
  <2>1. worker' = [pc |-> IF worker.inputs = <<>> THEN "compact" ELSE "delete", i |-> worker.i,
                   id |-> worker.id, to |-> worker.to, content |-> Idle.content,
                   inputs |-> worker.inputs]
    BY <1>1, <1>2 DEF WorkerInv
  <2> QED
    BY <1>2, <2>1 DEF WorkerInv
<1>9. TypeInv'
  <2>1. FilesInv'
    BY <1>1, <1>2 DEF FilesInv
  <2> QED
    BY <1>1, <1>2, <1>6, <1>7, <1>8, <2>1 DEF ManifestInv, TypeInv
<1>10. Agreement'
  <2>1. ASSUME NEW n \in Nat PROVE Same(RowsLeft(n)', Tabs(layers', n))
    <3>1. RowsLeft(n)' = Rows(n)'
      BY <1>8 DEF RowsLeft
    <3>2. Same(Rows(n), Tabs(layers, n))
      BY <1>1 DEF ManifestInv, Agreement, RowsLeft
    <3>3. CASE n = to
      BY <1>3, <1>4, <1>5, <1>6, <1>7, <3>1, <3>2, <3>3, SameAppend
    <3>4. CASE n # to
      BY <1>6, <1>7, <3>1, <3>2, <3>4
    <3> QED
      BY <3>3, <3>4
  <2> QED
    BY <2>1 DEF Agreement
<1>11. Placed'
  <2>1. PICK N \in Nat, M \in Nat : N = Len(manifest'.layers) /\ M = Len(layers')
    BY <1>6, <1>7 DEF Manifest
  <2>2. ASSUME NEW n \in Nat PROVE PlacedAt(Rows(n)', n, N) /\ PlacedAt(Tabs(layers', n), n, M)
    <3>1. PlacedAt(Rows(n), n, N) /\ PlacedAt(Tabs(layers, n), n, M)
      <4>1. Len(manifest.layers) \in Nat /\ Len(layers) \in Nat
        BY <1>2 DEF Manifest
      <4> QED
        BY <1>4, <1>6, <1>7, <2>1, <4>1, PlacedMore DEF ManifestInv, Placed
    <3>2. CASE n = to
      <4>1. t.layer < N /\ t.layer < M /\ (strategy = "tiered" => t.layer = n)
        BY <1>3, <1>6, <1>7, <2>1, <3>2
      <4>2. PlacedAt(Append(Rows(n), t), n, N) /\ PlacedAt(Append(Tabs(layers, n), t), n, M)
        BY <1>3, <1>4, <3>1, <4>1, PlacedAppend
      <4> QED
        BY <1>5, <1>6, <1>7, <3>2, <4>2
    <3>3. CASE n # to
      BY <1>6, <1>7, <3>1, <3>3
    <3> QED
      BY <3>2, <3>3
  <2> QED
    BY <1>1, <2>1, <2>2 DEF Placed, PlacedAt
<1>12. WholeLayer'
  <2>1. SUFFICES ASSUME strategy = "tiered", worker.inputs # <<>>,
                        NEW n \in Nat, n = First.layer
                 PROVE  InFront(worker.inputs, Rows(n)', n)
    <3>1. worker.inputs # <<>> => First.layer \in Nat
      BY <1>2, FirstType
    <3>2. First' = First
      BY <1>8 DEF First
    <3> QED
      BY <1>1, <1>8, <2>1, <3>1, <3>2, SMTT(40) DEF WholeLayer, InFront, Rows
  <2>2. InFront(worker.inputs, Rows(n), n)
    BY <2>1 DEF ManifestInv, WholeLayer
  <2>3. CASE n = to
    <3>1. InFront(worker.inputs, Append(Rows(n), t), n)
      BY <1>2, <1>3, <1>4, <2>2, InFrontAppend
    <3> QED
      BY <1>5, <1>6, <2>3, <3>1
  <2>4. CASE n # to
    BY <1>6, <2>2, <2>4
  <2> QED
    BY <2>3, <2>4
<1> QED
  BY <1>1, <1>9, <1>10, <1>11, <1>12 DEF ManifestInv, Blame

(* DeleteSSTables, first half: the table leaves its layer.                 *)
LEMMA DeleteStep ==
    ASSUME ManifestInv, failure # "misplaced", Delete
    PROVE  ManifestInv'
<1>1. /\ status = "up" /\ worker.pc = "delete" /\ WorkerInv /\ worker.inputs # <<>>
      /\ layers \in Seq(Layer) /\ nextId \in Nat /\ FilesInv /\ manifest \in Manifest
  BY DEF Delete, ManifestInv, TypeInv, WorkerInv
<1>2. PICK t \in Reader : t = First /\ t.layer \in Nat /\ Len(worker.inputs) \in Nat \ {0}
  BY <1>1, FirstType
<1>3. \A n \in Nat : /\ Rows(n) \in Seq(Reader) /\ Tabs(layers, n) \in Seq(Reader)
                     /\ Same(Rows(n), Tabs(layers, n))
  BY <1>1, RowsType, TabsType DEF ManifestInv, Agreement, RowsLeft, Rows
<1>4. CASE t.layer + 1 > Len(layers)
  <2>1. Panic("notFound") /\ UNCHANGED <<files, manifest>>
    BY <1>2, <1>4 DEF Delete, First
  <2>2. strategy = "leveled"
    <3>1. SUFFICES ASSUME strategy = "tiered" PROVE FALSE
      BY DEF ManifestInv, TypeInv
    <3>2. InFront(worker.inputs, Rows(t.layer), t.layer)
      BY <1>1, <1>2, <3>1 DEF ManifestInv, WholeLayer
    <3>3. PICK r \in Seq(Reader) : r = Rows(t.layer) /\ Same(r, Tabs(layers, t.layer))
      BY <1>2, <1>3
    <3>4. Len(r) # 0
      BY <1>2, <3>2, <3>3 DEF InFront
    <3>5. Tabs(layers, t.layer) = <<>>
      BY <1>1, <1>2, <1>4 DEF Tabs
    <3> QED
      BY <3>3, <3>4, <3>5 DEF Same
  <2> QED
    BY <1>1, <2>1, <2>2, DieStep DEF Panic, FilesInv
<1>5. CASE ~(t.layer + 1 > Len(layers))
  <2>1. /\ layers' = RemoveSSTable(layers, t.id, t.layer)
        /\ files' = IF layers' = layers THEN files ELSE [n \in DOMAIN files \ {t.name} |-> files[n]]
        /\ worker' = [worker EXCEPT !.pc = "unlist"]
        /\ UNCHANGED <<strategy, nextId, status, manifest, failure>>
    BY <1>2, <1>5 DEF Delete, First, history
  <2>2. /\ layers' \in Seq(Layer) /\ Len(layers') = Len(layers)
        /\ \A n \in Nat : Tabs(layers', n) =
                             IF n = t.layer THEN Without(Tabs(layers, n), t.id) ELSE Tabs(layers, n)
    <3>1. t.layer + 1 <= Len(layers)
      BY <1>1, <1>2, <1>5
    <3> QED
      BY <1>1, <1>2, <2>1, <3>1, RemoveTabs
  <2>3. /\ WorkerInv' /\ worker'.pc = "unlist" /\ worker'.inputs = worker.inputs /\ First' = t
    BY <1>1, <1>2, <2>1 DEF WorkerInv, First
  <2>4. FilesInv'
    <3>1. DOMAIN files' \in SUBSET DOMAIN files
      BY <2>1
    <3> QED
      BY <1>1, <3>1, FS_Subset DEF FilesInv
  <2>5. TypeInv'
    BY <1>1, <2>1, <2>2, <2>3, <2>4 DEF ManifestInv, TypeInv
  <2>6. \A n : Rows(n)' = Rows(n)
    BY <2>1 DEF Rows
  <2>7. Agreement'
    <3>1. ASSUME NEW n \in Nat PROVE Same(RowsLeft(n)', Tabs(layers', n))
      <4>1. RowsLeft(n)' = IF n = t.layer THEN Without(Rows(n), t.id) ELSE Rows(n)
        BY <2>3, <2>6 DEF RowsLeft
      <4>2. Same(Without(Rows(n), t.id), Without(Tabs(layers, n), t.id))
        BY <1>3, SameWithout
      <4> QED
        BY <1>3, <2>2, <4>1, <4>2
    <3> QED
      BY <3>1 DEF Agreement
  <2>8. Placed'
    <3>1. PICK N, M : N = Len(manifest.layers) /\ M = Len(layers)
      OBVIOUS
    <3>2. ASSUME NEW n \in Nat PROVE PlacedAt(Rows(n), n, N) /\ PlacedAt(Tabs(layers', n), n, M)
      <4>1. PlacedAt(Rows(n), n, N) /\ PlacedAt(Tabs(layers, n), n, M)
        BY <3>1 DEF ManifestInv, Placed
      <4>2. PlacedAt(Without(Tabs(layers, n), t.id), n, M)
        BY <1>3, <4>1, PlacedWithout
      <4> QED
        BY <2>2, <4>1, <4>2
    <3> QED
      BY <2>1, <2>2, <2>6, <3>1, <3>2 DEF Placed, PlacedAt
  <2>9. WholeLayer'
    <3>1. First' = First
      BY <1>2, <2>3
    <3> QED
      BY <2>1, <2>3, <2>6, <3>1 DEF ManifestInv, WholeLayer, InFront
  <2> QED
    BY <2>1, <2>5, <2>7, <2>8, <2>9 DEF ManifestInv, Blame
<1> QED
  BY <1>4, <1>5

(* Without the first table of a layer, what follows it begins the layer.   *)
LEMMA InFrontTail ==
    ASSUME NEW s \in Seq(Reader), NEW r \in Seq(Reader), NEW n, s # <<>>, InFront(s, r, n)
    PROVE  /\ \E i \in 1 .. Len(r) : r[i].id = s[1].id
           /\ InFront(Tail(s), Without(r, s[1].id), n)
<1>1. /\ Len(s) \in Nat /\ Len(s) >= 1 /\ Len(r) \in Nat /\ Len(s) <= Len(r)
      /\ \A k \in 1 .. Len(s) : s[k].layer = n /\ s[k].id = r[k].id
  BY DEF InFront
<1>2. 1 \in 1 .. Len(r) /\ r[1].id = s[1].id
  BY <1>1
<1>a. PICK id : id = s[1].id
  OBVIOUS
<1>. DEFINE w == Without(r, id)
            u == Tail(s)
<1>3. PICK k \in 1 .. Len(r) :
          /\ r[k].id = id /\ \A i \in 1 .. Len(r) : r[i].id = id => k <= i
          /\ w \in Seq(Reader)
          /\ Len(w) = Len(r) - 1
          /\ \A i \in 1 .. Len(r) - 1 : w[i] = IF i < k THEN r[i] ELSE r[i + 1]
  <2>1. \E i \in 1 .. Len(r) : r[i].id = id
    BY <1>2, <1>a
  <2> QED
    BY <2>1, WithoutPresent
<1>4. k = 1
  BY <1>2, <1>3, <1>a
<1>5. Len(u) = Len(s) - 1 /\ \A i \in 1 .. Len(s) - 1 : u[i] = s[i + 1]
  BY <1>1
<1>. HIDE DEF w, u
<1>6. ASSUME NEW i \in 1 .. Len(u) PROVE u[i].layer = n /\ u[i].id = w[i].id
  <2>1. i + 1 \in 1 .. Len(s) /\ i \in 1 .. Len(r) - 1 /\ ~(i < k) /\ i \in 1 .. Len(s) - 1
    BY <1>1, <1>4, <1>5
  <2> QED
    BY <1>1, <1>3, <1>5, <2>1
<1>7. InFront(u, w, n)
  BY <1>1, <1>3, <1>5, <1>6 DEF InFront
<1> QED
  BY <1>2, <1>7, <1>a DEF u, w

(* Second half: the table leaves the manifest.                             *)
LEMMA UnlistStep ==
    ASSUME ManifestInv, failure # "misplaced", Unlist
    PROVE  ManifestInv'
<1>1. /\ status = "up" /\ worker.pc = "unlist" /\ WorkerInv /\ worker.inputs # <<>>
      /\ layers \in Seq(Layer) /\ nextId \in Nat /\ FilesInv /\ manifest \in Manifest
  BY DEF Unlist, ManifestInv, TypeInv, WorkerInv
<1>2. PICK t \in Reader : t = First /\ t.layer \in Nat
  BY <1>1, FirstType
<1>3. PICK s \in Seq(Reader) : s = worker.inputs /\ s # <<>> /\ t = s[1] /\ worker.i \in Nat
  BY <1>1, <1>2, FirstType DEF WorkerInv
<1>4. \A n \in Nat : Rows(n) \in Seq(Reader) /\ Tabs(layers, n) \in Seq(Reader)
  BY <1>1, RowsType, TabsType DEF Rows
<1>5. \A n \in Nat : RowsLeft(n) = IF n = t.layer THEN Without(Rows(n), t.id) ELSE Rows(n)
  BY <1>1, <1>2 DEF RowsLeft
<1>6. ASSUME NEW n \in Nat PROVE RowsLeft(n) \in Seq(Reader)
  <2>1. PICK r \in Seq(Reader) : r = Rows(n)
    BY <1>4
  <2>2. Without(r, t.id) \in Seq(Reader)
    BY WithoutFacts
  <2> QED
    BY <1>5, <2>1, <2>2
<1>7. strategy = "tiered" => InFront(s, Rows(t.layer), t.layer)
  BY <1>2, <1>3 DEF ManifestInv, WholeLayer
<1>8. CASE Without(Rows(t.layer), t.id) = Rows(t.layer)
  <2>1. Panic("notFound") /\ UNCHANGED <<files, manifest>>
    BY <1>2, <1>8 DEF Unlist, First, Rows
  <2>2. strategy = "leveled"
    <3>1. SUFFICES ASSUME strategy = "tiered" PROVE FALSE
      BY DEF ManifestInv, TypeInv
    <3>2. PICK r \in Seq(Reader) : r = Rows(t.layer)
      BY <1>2, <1>4
    <3>3. \E i \in 1 .. Len(r) : r[i].id = t.id
      BY <1>3, <1>7, <3>1, <3>2, InFrontTail
    <3>4. Without(r, t.id) # r
      BY <3>3, WithoutFacts
    <3> QED
      BY <1>8, <3>2, <3>4
  <2> QED
    BY <1>1, <2>1, <2>2, DieStep DEF Panic, FilesInv
<1>9. CASE Without(Rows(t.layer), t.id) # Rows(t.layer)
  <2>1. /\ manifest' = [ManifestPut(manifest, t.layer, Without(Rows(t.layer), t.id))
                           EXCEPT !.next = nextId]
        /\ \/ GoOn(layers, worker.i)
           \/ /\ Len(s) # 1 /\ worker' = [worker EXCEPT !.pc = "delete", !.inputs = Tail(@)]
              /\ UNCHANGED layers
        /\ UNCHANGED <<strategy, nextId, status, files, failure>>
    BY <1>2, <1>3, <1>9 DEF Unlist, First, Rows, history
  <2>2. /\ manifest' \in Manifest /\ manifest'.next = nextId
        /\ Len(manifest.layers) <= Len(manifest'.layers)
        /\ \A n \in Nat : Rows(n)' = RowsLeft(n)
    <3>1. /\ manifest' \in Manifest /\ manifest'.next = nextId
          /\ Len(manifest.layers) <= Len(manifest'.layers)
          /\ \A n \in Nat : Rows(n)' = IF n = t.layer THEN Without(Rows(t.layer), t.id)
                                       ELSE ManifestRows(manifest, n)
      <4>1. Without(Rows(t.layer), t.id) \in Seq(Reader)
        BY <1>2, <1>5, <1>6
      <4> QED
        BY <1>1, <1>2, <2>1, <4>1, SaveRows, ZenonT(60)
    <3> QED
      BY <1>5, <3>1 DEF Rows
  <2>. DEFINE u == Tail(s)
  <2>a. /\ u \in Seq(Reader) /\ Len(u) = Len(s) - 1 /\ Len(s) \in Nat \ {0}
        /\ \A i \in 1 .. Len(s) - 1 : u[i] = s[i + 1]
    BY <1>3
  <2>. HIDE DEF u
  <2>3. /\ WorkerInv' /\ worker'.pc # "unlist" /\ layers' = layers
        /\ worker'.inputs # <<>> => worker'.inputs = u
    <3>1. CASE GoOn(layers, worker.i)
      BY <1>1, <1>3, <3>1, GoOnWorker
    <3>2. CASE /\ Len(s) # 1 /\ worker' = [worker EXCEPT !.pc = "delete", !.inputs = Tail(@)]
               /\ UNCHANGED layers
      <4>1. u # <<>>
        BY <2>a, <3>2
      <4>2. worker' = [pc |-> "delete", i |-> worker.i, id |-> worker.id, to |-> worker.to,
                       content |-> worker.content, inputs |-> u]
        BY <1>1, <1>3, <3>2 DEF WorkerInv, u
      <4>3. worker.id \in Nat /\ worker.to \in Nat
        BY <1>1 DEF WorkerInv
      <4> QED
        BY <1>3, <2>a, <3>2, <4>1, <4>2, <4>3 DEF WorkerInv
    <3> QED
      BY <2>1, <3>1, <3>2
  <2>4. TypeInv'
    BY <1>1, <2>1, <2>2, <2>3 DEF ManifestInv, TypeInv, FilesInv
  <2>5. Agreement'
    <3>1. ASSUME NEW n \in Nat PROVE Same(RowsLeft(n)', Tabs(layers', n))
      <4>1. RowsLeft(n)' = Rows(n)'
        BY <2>3 DEF RowsLeft
      <4>2. Same(RowsLeft(n), Tabs(layers, n))
        BY <1>1 DEF ManifestInv, Agreement
      <4> QED
        BY <2>2, <2>3, <4>1, <4>2
    <3> QED
      BY <3>1 DEF Agreement
  <2>6. Placed'
    <3>1. PICK N \in Nat : N = Len(manifest'.layers)
      BY <2>2 DEF Manifest
    <3>. DEFINE M == Len(layers)
    <3>2. ASSUME NEW n \in Nat PROVE PlacedAt(Rows(n)', n, N) /\ PlacedAt(Tabs(layers', n), n, M)
      <4>1. PlacedAt(Rows(n), n, N) /\ PlacedAt(Tabs(layers, n), n, M)
        <5>1. Len(manifest.layers) \in Nat
          BY <1>1 DEF Manifest
        <5> QED
          BY <1>4, <2>2, <3>1, <5>1, PlacedMore DEF ManifestInv, Placed
      <4>2. PlacedAt(Without(Rows(n), t.id), n, N)
        BY <1>4, <4>1, PlacedWithout
      <4> QED
        BY <1>5, <2>2, <2>3, <4>1, <4>2
    <3> QED
      BY <2>1, <2>3, <3>1, <3>2 DEF Placed, PlacedAt
  <2>7. WholeLayer'
    <3>1. SUFFICES ASSUME strategy = "tiered", worker'.inputs # <<>>
                   PROVE  InFront(worker'.inputs, Rows(First.layer)', First.layer')
      BY <2>1 DEF WholeLayer, InFront
    <3>2. worker'.inputs = u /\ First' = u[1] /\ u[1] = s[2] /\ 2 \in 1 .. Len(s)
      <4>1. worker'.inputs = u /\ u # <<>>
        BY <2>3, <3>1
      <4>2. Len(u) >= 1
        BY <2>a, <4>1
      <4>3. Head(u) = u[1]
        BY <2>a, <4>2
      <4> QED
        BY <2>a, <4>1, <4>2, <4>3 DEF First
    <3>3. InFront(s, Rows(t.layer), t.layer)
      BY <1>7, <3>1
    <3>4. First.layer' = t.layer
      <4>1. s[2].layer = t.layer
        BY <3>2, <3>3 DEF InFront
      <4> QED
        BY <3>2, <4>1
    <3>5. Rows(First.layer)' = Without(Rows(t.layer), t.id)
      <4>1. \A n \in Nat : n = t.layer => Rows(n)' = Without(Rows(n), t.id)
        BY <1>5, <2>2
      <4>2. Rows(First.layer)' = ManifestRows(manifest', t.layer)
        BY <3>4 DEF Rows
      <4> QED
        BY <1>2, <4>1, <4>2 DEF Rows
    <3>6. InFront(u, Without(Rows(t.layer), t.id), t.layer)
      <4>1. PICK r \in Seq(Reader) : r = Rows(t.layer)
        BY <1>2, <1>4
      <4>2. InFront(Tail(s), Without(r, s[1].id), t.layer)
        BY <1>3, <3>3, <4>1, InFrontTail
      <4> QED
        BY <1>3, <4>1, <4>2 DEF u
    <3> QED
      BY <3>2, <3>4, <3>5, <3>6
  <2> QED
    BY <2>1, <2>4, <2>5, <2>6, <2>7 DEF ManifestInv, Blame
<1> QED
  BY <1>8, <1>9

(* The zero value MoveSSTable appends when it finds no entry.              *)
LEMMA NoEntryType == NoEntry \in Reader /\ NoEntry.layer = 0
<1>1. -1 \in Int
  OBVIOUS
<1> QED
  BY <1>1 DEF NoEntry, Reader

(* What is left of a list of layer n when the table leaves layer k.        *)
Left(s, n, k, id) == IF n = k THEN Without(s, id) ELSE s

(* MoveSSTable takes table t, with number id, from layer k to layer to, as *)
(* mv, and its entry in the manifest as e, if it is found there.           *)
Relocated(t, to, k, id, mv, e) ==
    /\ t.layer = k /\ t.id = id /\ mv.id = id /\ mv.name = t.name /\ mv.layer = to
    /\ e.layer = 0 \/ e.layer < Len(manifest.layers)
    /\ failure' = failure \/ failure' = "misplaced"
    /\ failure' # "misplaced" =>
          e.id = id /\ e.name = t.name /\ \E j \in 1 .. Len(Rows(k)) : e = Rows(k)[j]
    /\ WorkerInv' /\ worker'.pc \in {"idle", "compact"} /\ worker'.inputs = <<>>
    /\ UNCHANGED <<strategy, nextId, status, files>>
    /\ layers' \in Seq(Layer) /\ Len(layers) <= Len(layers') /\ to < Len(layers')
    /\ manifest' \in Manifest /\ manifest'.next = nextId
    /\ Len(manifest.layers) <= Len(manifest'.layers) /\ to < Len(manifest'.layers)
    /\ \A n \in Nat :
          /\ Tabs(layers', n) = IF n = to THEN Append(Left(Tabs(layers, n), n, k, id), mv)
                                ELSE Left(Tabs(layers, n), n, k, id)
          /\ Rows(n)' = IF n = to THEN Append(Left(Rows(n), n, k, id), e)
                        ELSE Left(Rows(n), n, k, id)

(* A move: table and entry go to the same layer, or the entry is not found.*)
LEMMA MoveTables ==
    ASSUME ManifestInv, failure # "misplaced", status = "up", worker.pc = "compact",
           strategy = "leveled",
           NEW ls \in Seq(Layer), Len(layers) <= Len(ls),
           \A n \in Nat : Tabs(ls, n) = Tabs(layers, n),
           NEW i \in Nat, Tabs(layers, i) # <<>>, NEW t, t = Tabs(layers, i)[1],
           NEW to \in Nat, MoveSSTable(t, to, ls)
    PROVE  \E k \in Nat, id \in Nat, mv \in Reader, e \in Reader : Relocated(t, to, k, id, mv, e)
<1>1. /\ WorkerInv /\ layers \in Seq(Layer) /\ nextId \in Nat /\ FilesInv
      /\ manifest \in Manifest /\ worker.i \in Nat
  BY DEF ManifestInv, TypeInv, WorkerInv
<1>2. \A n \in Nat : /\ Rows(n) \in Seq(Reader) /\ Tabs(layers, n) \in Seq(Reader)
                     /\ Same(Rows(n), Tabs(layers, n))
  BY <1>1, RowsType, TabsType DEF ManifestInv, Agreement, RowsLeft, Rows
<1>3. t \in Reader /\ t.layer \in Nat /\ t.layer + 1 <= Len(layers)
  <2>1. PICK s \in Seq(Reader) : s = Tabs(layers, i)
    BY <1>2
  <2>2. PlacedAt(s, i, Len(layers))
    BY <2>1 DEF ManifestInv, Placed
  <2>3. 1 \in 1 .. Len(s) /\ t = s[1] /\ s[1] \in Reader
    BY <2>1
  <2>4. t.layer \in Nat
    BY <2>3 DEF Reader
  <2> QED
    BY <1>1, <2>2, <2>3, <2>4 DEF PlacedAt
<1>4. PICK k \in Nat, id \in Nat : k = t.layer /\ id = t.id
  BY <1>3, SMTT(40) DEF Reader
<1>. DEFINE moved == [t EXCEPT !.layer = to]
            rest == RemoveSSTable(ls, id, k)
            rows == Rows(k)
            hit == {j \in DOMAIN rows : rows[j].id = id}
            entry == IF hit = {} THEN NoEntry ELSE rows[Min(hit)]
            gone == ManifestPut(manifest, k, Without(rows, id))
<1>5. /\ GoOn(AppendSSTable(rest, moved, to), worker.i + 1)
      /\ manifest' = [ManifestPut(gone, to, Append(ManifestRows(gone, to), entry))
                         EXCEPT !.next = nextId]
      /\ failure' = IF hit # {} /\ entry.name = t.name THEN failure ELSE "misplaced"
      /\ UNCHANGED <<strategy, nextId, status, files>>
  BY <1>4 DEF MoveSSTable, Rows
<1>6. moved \in Reader /\ moved.id = id /\ moved.name = t.name /\ moved.layer = to
  BY <1>3, <1>4 DEF Reader
<1>7. /\ rest \in Seq(Layer) /\ Len(rest) = Len(ls)
      /\ \A n \in Nat : Tabs(rest, n) = IF n = k THEN Without(Tabs(layers, n), id) ELSE Tabs(layers, n)
  <2>1. k + 1 <= Len(ls)
    BY <1>1, <1>3, <1>4
  <2> QED
    BY <2>1, RemoveTabs
<1>8. rows \in Seq(Reader) /\ Without(rows, id) \in Seq(Reader)
  <2>1. PICK r \in Seq(Reader) : r = rows
    BY <1>2
  <2>2. Without(r, id) \in Seq(Reader)
    BY WithoutFacts
  <2> QED
    BY <2>1, <2>2
<1>9. /\ gone \in Manifest /\ Len(manifest.layers) <= Len(gone.layers)
      /\ \A n \in Nat : ManifestRows(gone, n) = IF n = k THEN Without(Rows(n), id) ELSE Rows(n)
  <2>. HIDE DEF rows
  <2>1. PICK w \in Seq(Reader) : w = Without(rows, id)
    BY <1>8
  <2>2. PICK p : p = ManifestPut(manifest, k, w)
    OBVIOUS
  <2>3. /\ p \in Manifest /\ Len(manifest.layers) <= Len(p.layers)
        /\ \A n \in Nat : ManifestRows(p, n) = IF n = k THEN w ELSE ManifestRows(manifest, n)
    <3>1. manifest \in Manifest /\ k \in Nat /\ w \in Seq(Reader)
      BY <1>1, <1>4, <2>1
    <3> QED
      BY ONLY <2>2, <3>1, AnyPutRows
  <2>4. p = gone
    BY <2>1, <2>2
  <2> QED
    BY <2>1, <2>3, <2>4 DEF Rows, rows
<1>10. /\ entry \in Reader /\ (entry.layer = 0 \/ entry.layer < Len(manifest.layers))
       /\ (hit # {} => entry.id = id /\ \E j \in 1 .. Len(rows) : entry = rows[j])
  <2>1. CASE hit = {}
    BY <2>1, NoEntryType
  <2>2. CASE hit # {}
    <3>1. hit \in SUBSET Nat
      BY <1>8
    <3>2. Min(hit) \in hit
      <4>. HIDE DEF hit
      <4> QED
        BY <2>2, <3>1, MinOfNaturals
    <3>3. PICK j \in 1 .. Len(rows) : j = Min(hit) /\ rows[j].id = id
      <4>1. DOMAIN rows = 1 .. Len(rows)
        BY <1>8
      <4>. HIDE DEF rows
      <4>2. PICK j \in hit : j = Min(hit)
        BY <3>2
      <4> QED
        BY <4>1, <4>2
    <3>4. entry = rows[j]
      BY <2>2, <3>3
    <3>5. PlacedAt(rows, k, Len(manifest.layers))
      BY DEF ManifestInv, Placed
    <3>. HIDE DEF rows, entry, hit
    <3> QED
      BY <1>8, <3>3, <3>4, <3>5 DEF PlacedAt
  <2> QED
    BY <2>1, <2>2
<1>. HIDE DEF moved, rest, rows, hit, entry, gone
<1>11. /\ WorkerInv' /\ worker'.pc \in {"idle", "compact"} /\ worker'.inputs = <<>>
       /\ layers' = AppendSSTable(rest, moved, to)
  <2>1. AppendSSTable(rest, moved, to) \in Seq(Layer)
    BY <1>6, <1>7, AppendTabs
  <2>2. worker.i + 1 \in Nat
    BY <1>1
  <2> QED
    BY <1>5, <2>1, <2>2, GoOnWorker
<1>. DEFINE tl(n) == Left(Tabs(layers, n), n, k, id)
            rl(n) == Left(Rows(n), n, k, id)
<1>12. ASSUME NEW n \in Nat PROVE tl(n) \in Seq(Reader) /\ rl(n) \in Seq(Reader)
  <2>1. PICK r \in Seq(Reader), s \in Seq(Reader) : r = Rows(n) /\ s = Tabs(layers, n)
    BY <1>2
  <2>2. Without(r, id) \in Seq(Reader) /\ Without(s, id) \in Seq(Reader)
    BY WithoutFacts
  <2> QED
    BY <2>1, <2>2 DEF Left
<1>a. \A n \in Nat : Tabs(rest, n) = tl(n) /\ ManifestRows(gone, n) = rl(n)
  BY <1>7, <1>9 DEF Left
<1>. HIDE DEF tl, rl
<1>13. /\ layers' \in Seq(Layer) /\ Len(layers) <= Len(layers') /\ to < Len(layers')
       /\ \A n \in Nat : Tabs(layers', n) = IF n = to THEN Append(tl(n), moved) ELSE tl(n)
  <2>1. /\ AppendSSTable(rest, moved, to) \in Seq(Layer)
        /\ Len(rest) <= Len(AppendSSTable(rest, moved, to)) /\ to < Len(AppendSSTable(rest, moved, to))
        /\ \A n \in Nat : Tabs(AppendSSTable(rest, moved, to), n) =
                             IF n = to THEN Append(Tabs(rest, to), moved) ELSE Tabs(rest, n)
    BY <1>6, <1>7, AppendTabs, ZenonT(60)
  <2>2. PICK l \in Seq(Layer) : l = AppendSSTable(rest, moved, to)
    BY <2>1
  <2>3. Len(layers) <= Len(l)
    BY <1>1, <1>7, <2>1, <2>2
  <2> QED
    BY <1>a, <1>11, <2>1, <2>2, <2>3
<1>14. /\ manifest' \in Manifest /\ manifest'.next = nextId
       /\ Len(manifest.layers) <= Len(manifest'.layers) /\ to < Len(manifest'.layers)
       /\ \A n \in Nat : Rows(n)' = IF n = to THEN Append(rl(n), entry) ELSE rl(n)
  <2>1. ManifestRows(gone, to) = rl(to) /\ Append(rl(to), entry) \in Seq(Reader)
    BY <1>a, <1>10, <1>12, AppendProperties
  <2>2. PICK a \in Seq(Reader) : a = Append(rl(to), entry)
    BY <2>1
  <2>3. manifest' = [ManifestPut(gone, to, a) EXCEPT !.next = nextId]
    BY <1>5, <2>1, <2>2
  <2>4. /\ manifest' \in Manifest /\ manifest'.next = nextId
        /\ Len(gone.layers) <= Len(manifest'.layers) /\ to < Len(manifest'.layers)
        /\ \A n \in Nat : Rows(n)' = IF n = to THEN a ELSE ManifestRows(gone, n)
    BY <1>1, <1>9, <2>3, SaveRows
  <2>5. Len(manifest.layers) <= Len(manifest'.layers)
    <3>1. Len(manifest.layers) \in Nat /\ Len(gone.layers) \in Nat /\ Len(manifest'.layers) \in Nat
      BY <1>1, <1>9, <2>4, SMTT(40) DEF Manifest
    <3> QED
      BY <1>9, <2>4, <3>1, SMTT(40)
  <2> QED
    BY <1>a, <2>2, <2>4, <2>5
<1>15. PICK mv \in Reader, e \in Reader : mv = moved /\ e = entry
  BY <1>6, <1>10
<1>16. Relocated(t, to, k, id, mv, e)
  <2>1. failure' # "misplaced" =>
           e.id = id /\ e.name = t.name /\ \E j \in 1 .. Len(Rows(k)) : e = Rows(k)[j]
    BY <1>5, <1>10, <1>15 DEF rows
  <2>2. failure' = failure \/ failure' = "misplaced"
    BY <1>5
  <2> QED
    BY <1>4, <1>5, <1>6, <1>10, <1>11, <1>13, <1>14, <1>15, <2>1, <2>2 DEF Relocated, tl, rl
<1> QED
  BY <1>16

(* Memory and manifest still agree, or the table is misplaced.             *)
LEMMA MoveStep ==
    ASSUME ManifestInv, failure # "misplaced", status = "up", worker.pc = "compact",
           strategy = "leveled",
           NEW ls \in Seq(Layer), Len(layers) <= Len(ls),
           \A n \in Nat : Tabs(ls, n) = Tabs(layers, n),
           NEW i \in Nat, Tabs(layers, i) # <<>>, NEW t, t = Tabs(layers, i)[1],
           NEW to \in Nat, MoveSSTable(t, to, ls)
    PROVE  ManifestInv'
<1>1. /\ WorkerInv /\ layers \in Seq(Layer) /\ nextId \in Nat /\ FilesInv
      /\ manifest \in Manifest /\ worker.i \in Nat
  BY DEF ManifestInv, TypeInv, WorkerInv
<1>2. \A n \in Nat : /\ Rows(n) \in Seq(Reader) /\ Tabs(layers, n) \in Seq(Reader)
                     /\ Same(Rows(n), Tabs(layers, n))
  BY <1>1, RowsType, TabsType DEF ManifestInv, Agreement, RowsLeft, Rows
<1>3. PICK k \in Nat, id \in Nat, moved \in Reader, entry \in Reader :
         Relocated(t, to, k, id, moved, entry)
  BY MoveTables
<1>4. /\ moved.id = id /\ moved.name = t.name /\ moved.layer = to
      /\ entry.layer = 0 \/ entry.layer < Len(manifest.layers)
      /\ failure' # "misplaced" => entry.id = id /\ entry.name = t.name
      /\ UNCHANGED <<strategy, nextId, status, files>>
  BY <1>3 DEF Relocated
<1>5. WorkerInv' /\ worker'.pc \in {"idle", "compact"} /\ worker'.inputs = <<>>
  BY <1>3 DEF Relocated
<1>. DEFINE tl(n) == Left(Tabs(layers, n), n, k, id)
            rl(n) == Left(Rows(n), n, k, id)
<1>6. /\ layers' \in Seq(Layer) /\ Len(layers) <= Len(layers') /\ to < Len(layers')
      /\ \A n \in Nat : Tabs(layers', n) = IF n = to THEN Append(tl(n), moved) ELSE tl(n)
  BY <1>3 DEF Relocated
<1>7. /\ manifest' \in Manifest /\ manifest'.next = nextId
      /\ Len(manifest.layers) <= Len(manifest'.layers) /\ to < Len(manifest'.layers)
      /\ \A n \in Nat : Rows(n)' = IF n = to THEN Append(rl(n), entry) ELSE rl(n)
  BY <1>3 DEF Relocated
<1>8. ASSUME NEW n \in Nat
       PROVE  /\ tl(n) \in Seq(Reader) /\ rl(n) \in Seq(Reader) /\ Same(rl(n), tl(n))
              /\ PlacedAt(tl(n), n, Len(layers)) /\ PlacedAt(rl(n), n, Len(manifest.layers))
  <2>1. PICK r \in Seq(Reader), s \in Seq(Reader) : r = Rows(n) /\ s = Tabs(layers, n)
    BY <1>2
  <2>2. PlacedAt(r, n, Len(manifest.layers)) /\ PlacedAt(s, n, Len(layers)) /\ Same(r, s)
    BY <1>2, <2>1 DEF ManifestInv, Placed
  <2>3. Without(r, id) \in Seq(Reader) /\ Without(s, id) \in Seq(Reader)
    BY WithoutFacts
  <2>4. Same(Without(r, id), Without(s, id))
    BY <2>2, SameWithout
  <2>5. /\ PlacedAt(Without(s, id), n, Len(layers))
        /\ PlacedAt(Without(r, id), n, Len(manifest.layers))
    BY <2>2, PlacedWithout
  <2> QED
    BY <2>1, <2>2, <2>3, <2>4, <2>5 DEF Left
<1>. HIDE DEF tl, rl
<1>9. TypeInv'
  <2>1. FilesInv'
    BY <1>1, <1>4 DEF FilesInv
  <2> QED
    BY <1>1, <1>4, <1>5, <1>6, <1>7, <2>1 DEF ManifestInv, TypeInv
<1>10. Agreement'
  <2>1. SUFFICES ASSUME failure' # "misplaced", NEW n \in Nat
                 PROVE  Same(RowsLeft(n)', Tabs(layers', n))
    BY DEF Agreement
  <2>2. RowsLeft(n)' = Rows(n)'
    BY <1>5 DEF RowsLeft
  <2>3. entry.name = t.name /\ entry.id = id
    BY <1>4, <2>1
  <2>4. Same(Append(rl(n), entry), Append(tl(n), moved))
    BY <1>4, <1>8, <2>3, SameAppend
  <2> QED
    BY <1>8, <1>6, <1>7, <2>2, <2>4
<1>11. Placed'
  <2>1. PICK N \in Nat, M \in Nat : N = Len(manifest'.layers) /\ M = Len(layers')
    BY <1>6, <1>7 DEF Manifest
  <2>2. ASSUME NEW n \in Nat PROVE PlacedAt(Rows(n)', n, N) /\ PlacedAt(Tabs(layers', n), n, M)
    <3>1. PlacedAt(rl(n), n, N) /\ PlacedAt(tl(n), n, M)
      <4>1. Len(manifest.layers) \in Nat /\ Len(layers) \in Nat
        BY <1>1 DEF Manifest
      <4> QED
        BY <1>8, <1>6, <1>7, <2>1, <4>1, PlacedMore
    <3>2. entry.layer < N /\ moved.layer < M
      <4>1. Len(manifest.layers) \in Nat /\ entry.layer \in Nat
        BY <1>1, <1>4 DEF Manifest, Reader
      <4> QED
        BY <1>4, <1>6, <1>7, <2>1, <4>1, SMTT(40)
    <3>3. PlacedAt(Append(rl(n), entry), n, N) /\ PlacedAt(Append(tl(n), moved), n, M)
      BY <1>4, <1>8, <3>1, <3>2, PlacedAppend
    <3> QED
      BY <1>6, <1>7, <3>1, <3>3
  <2> QED
    BY <1>4, <2>1, <2>2 DEF Placed, PlacedAt
<1>12. WholeLayer'
  BY <1>5 DEF WholeLayer
<1> QED
  BY <1>4, <1>9, <1>10, <1>11, <1>12 DEF ManifestInv, Blame

(* The layer a merge writes to.                                            *)
LEMMA MinOfNats ==
    \A a, b \in Nat : Min({a, b}) \in Nat
<1>1. \A a, b \in Int : Min({a, b}) = IF a <= b THEN a ELSE b
  BY MinMaxOfTwo
<1> QED
  BY <1>1

(* Compact, one layer at a time.                                           *)
LEMMA TieredStep ==
    ASSUME ManifestInv, failure # "misplaced", TieredCompact
    PROVE  ManifestInv'
<1>. DEFINE i == worker.i
            last == i + 1 = MaxHeight
            to == IF last THEN i ELSE Min({i + 1, MaxHeight - 1})
<1>1. /\ status = "up" /\ worker.pc = "compact" /\ strategy = "tiered" /\ i \in Nat
      /\ i + 1 <= Len(layers) /\ layers \in Seq(Layer) /\ manifest \in Manifest
  BY DEF TieredCompact, AtLayer, ManifestInv, TypeInv, WorkerInv
<1>2. PICK s \in Seq(Reader) : s = layers[i + 1].tabs /\ s = Tabs(layers, i)
  BY <1>1, TabsType DEF Tabs
<1>3. \/ GoOn(layers, i + 1) /\ Untouched
      \/ Len(s) >= MinMergeThreshold /\ MergeSSTables(s, to, last, layers)
  BY <1>2 DEF TieredCompact
<1>4. CASE GoOn(layers, i + 1) /\ Untouched
  <2>1. /\ UNCHANGED <<strategy, status, manifest, failure>> /\ nextId' \in Nat /\ FilesInv'
        /\ i + 1 \in Nat
    BY <1>1, <1>4 DEF Untouched, history, ManifestInv, TypeInv, FilesInv
  <2> QED
    BY <1>1, <1>4, <2>1, GoOnStep
<1>5. CASE Len(s) >= MinMergeThreshold /\ MergeSSTables(s, to, last, layers)
  <2>1. to \in Nat
    <3>1. MaxHeight - 1 \in Nat
      BY ManagerAssumption
    <3>2. i + 1 \in Nat
      BY <1>1
    <3> QED
      BY <1>1, <3>1, <3>2, MinOfNats
  <2>2. s # <<>> /\ Len(s) >= 1 /\ Len(s) \in Nat
    BY <1>2, <1>5, ManagerAssumption
  <2>3. InFront(s, Rows(s[1].layer), s[1].layer)
    <3>1. PlacedAt(s, i, Len(layers)) /\ Same(Rows(i), s)
      BY <1>1, <1>2 DEF ManifestInv, Placed, Agreement, RowsLeft
    <3>2. s[1].layer = i /\ \A k \in 1 .. Len(s) : s[k].layer = i
      BY <1>1, <2>2, <3>1 DEF PlacedAt
    <3>3. InFront(s, Rows(i), i)
      BY <2>2, <3>1, <3>2 DEF InFront, Same
    <3> QED
      BY <3>2, <3>3
  <2>4. last \in BOOLEAN
    OBVIOUS
  <2>. HIDE DEF to, last
  <2> QED
    BY <1>1, <1>5, <2>1, <2>2, <2>3, <2>4, MergeStep
<1> QED
  BY <1>3, <1>4, <1>5

(* Overlapping chooses readers of its list.                                *)
LEMMA OverlappingType ==
    ASSUME NEW lo, NEW hi, NEW s \in Seq(Reader)
    PROVE  Overlapping(lo, hi, s) \in Seq(Reader)
<1>. DEFINE I == {i \in DOMAIN s : MaxKeyOf(s[i]) >= lo /\ MinKey(s[i]) <= hi}
<1>1. I \in SUBSET DOMAIN s /\ Overlapping(lo, hi, s) = Chosen(s, I)
  BY DEF Overlapping
<1>. HIDE DEF I
<1> QED
  BY <1>1, ChosenElements

(* L0 is merged with the tables of L1 its keys meet.                       *)
LEMMA LeveledL0Step ==
    ASSUME ManifestInv, failure # "misplaced", LeveledCompactL0
    PROVE  ManifestInv'
<1>. DEFINE tabs == layers[1].tabs
            grown == GrowTo(layers, 1)
            lo == Min({MinKey(t) : t \in ToSet(tabs)})
            hi == Max({MaxKeyOf(t) : t \in ToSet(tabs)})
            ov == Overlapping(lo, hi, grown[2].tabs)
<1>1. /\ status = "up" /\ worker.pc = "compact" /\ strategy = "leveled"
      /\ 1 <= Len(layers) /\ layers \in Seq(Layer) /\ manifest \in Manifest
  BY DEF LeveledCompactL0, AtLayer, ManifestInv, TypeInv, WorkerInv
<1>2. PICK s \in Seq(Reader) : s = tabs
  <2>1. Tabs(layers, 0) \in Seq(Reader) /\ Tabs(layers, 0) = tabs
    BY <1>1, TabsType DEF Tabs
  <2> QED
    BY <2>1
<1>3. /\ grown \in Seq(Layer) /\ 2 <= Len(grown) /\ Len(layers) <= Len(grown)
      /\ \A n \in Nat : Tabs(grown, n) = Tabs(layers, n)
  BY <1>1, GrowTabs
<1>4. \/ GoOn(layers, 1) /\ Untouched
      \/ Len(s) >= L0Trigger /\ MergeSSTables(s, 0, TRUE, layers)
      \/ Len(s) >= L0Trigger /\ MergeSSTables(ov \o s, 1, FALSE, grown)
  BY <1>2 DEF LeveledCompactL0
<1>. HIDE DEF grown, lo, hi
<1>5. ov \in Seq(Reader)
  <2>1. Tabs(grown, 1) \in Seq(Reader)
    BY <1>3, TabsType
  <2>2. Tabs(grown, 1) = grown[2].tabs
    BY <1>3 DEF Tabs
  <2> QED
    BY <2>1, <2>2, OverlappingType
<1>. HIDE DEF ov, tabs
<1>6. CASE GoOn(layers, 1) /\ Untouched
  <2>1. /\ UNCHANGED <<strategy, status, manifest, failure>> /\ nextId' \in Nat /\ FilesInv'
    BY <1>1, <1>6 DEF Untouched, history, ManifestInv, TypeInv, FilesInv
  <2> QED
    BY <1>1, <1>6, <2>1, GoOnStep
<1>7. CASE Len(s) >= L0Trigger /\ MergeSSTables(s, 0, TRUE, layers)
  <2>1. s # <<>>
    BY <1>7, ManagerAssumption
  <2>2. /\ Len(layers) <= Len(layers) /\ \A n \in Nat : Tabs(layers, n) = Tabs(layers, n)
        /\ 0 \in Nat /\ TRUE \in BOOLEAN /\ strategy # "tiered"
    BY <1>1
  <2>3. PICK ls \in Seq(Layer) : ls = layers
    BY <1>1
  <2>4. MergeSSTables(s, 0, TRUE, ls)
    BY <1>7, <2>3
  <2> QED
    BY <1>1, <2>1, <2>2, <2>3, <2>4, MergeStep
<1>8. CASE Len(s) >= L0Trigger /\ MergeSSTables(ov \o s, 1, FALSE, grown)
  <2>1. PICK inp \in Seq(Reader) : inp = ov \o s
    <3>1. ov \o s \in Seq(Reader)
      BY <1>5, ConcatProperties
    <3> QED
      BY <3>1
  <2>2. inp # <<>>
    <3>1. Len(inp) = Len(ov) + Len(s) /\ Len(s) >= 1
      BY <1>5, <1>8, <2>1, ManagerAssumption
    <3> QED
      BY <1>5, <2>1, <3>1
  <2>3. MergeSSTables(inp, 1, FALSE, grown)
    BY <1>8, <2>1
  <2> QED
    BY <1>1, <1>3, <2>2, <2>3, MergeStep
<1> QED
  BY <1>4, <1>6, <1>7, <1>8

(* A lower layer: read only, merged, or its first table moved down.        *)
LEMMA LeveledStep ==
    ASSUME ManifestInv, failure # "misplaced", LeveledCompact
    PROVE  ManifestInv'
<1>. DEFINE i == worker.i
            tabs == layers[i + 1].tabs
            read == [layers EXCEPT ![i + 1].needsUpdate = FALSE]
            to == Min({i + 1, MaxHeight - 1})
            grown == GrowTo(read, to)
            ov == Overlapping(MinKey(tabs[1]), MaxKeyOf(tabs[1]), grown[to + 1].tabs)
<1>1. /\ status = "up" /\ worker.pc = "compact" /\ strategy = "leveled" /\ i \in Nat
      /\ i + 1 <= Len(layers) /\ layers \in Seq(Layer) /\ manifest \in Manifest
  BY DEF LeveledCompact, AtLayer, ManifestInv, TypeInv, WorkerInv
<1>2. PICK s \in Seq(Reader) : s = tabs /\ s = Tabs(layers, i)
  BY <1>1, TabsType DEF Tabs
<1>3. /\ read \in Seq(Layer) /\ Len(read) = Len(layers)
      /\ \A n \in Nat : Tabs(read, n) = Tabs(layers, n)
  <2>. DEFINE L == [layers[i + 1] EXCEPT !.needsUpdate = FALSE]
  <2>1. L \in Layer /\ L.tabs = Tabs(layers, i)
    <3>1. layers[i + 1] \in Layer
      BY <1>1
    <3> QED
      BY <1>1, <3>1 DEF Layer, Tabs
  <2>2. read = [layers EXCEPT ![i + 1] = L]
    BY <1>1
  <2>. HIDE DEF L, read
  <2>3. /\ [layers EXCEPT ![i + 1] = L] \in Seq(Layer)
        /\ Len([layers EXCEPT ![i + 1] = L]) = Len(layers)
        /\ \A n \in Nat : Tabs([layers EXCEPT ![i + 1] = L], n) =
                             IF n = i THEN L.tabs ELSE Tabs(layers, n)
    BY <1>1, <2>1, PutTabs
  <2> QED
    BY <2>1, <2>2, <2>3
<1>4. to \in Nat
  <2>1. i + 1 \in Nat /\ MaxHeight - 1 \in Nat
    BY <1>1, ManagerAssumption, SMTT(40)
  <2> QED
    BY <2>1, MinOfNats
<1>5. \/ GoOn(read, i + 1) /\ Untouched
      \/ Len(s) > 1 /\ MergeSSTables(s, i, TRUE, read)
      \/ s # <<>> /\ MoveSSTable(s[1], to, grown)
      \/ s # <<>> /\ MergeSSTables(Append(ov, s[1]), to, FALSE, grown)
  BY <1>2 DEF LeveledCompact
<1>. HIDE DEF to, read
<1>6. /\ grown \in Seq(Layer) /\ Len(layers) <= Len(grown) /\ to + 1 <= Len(grown)
      /\ \A n \in Nat : Tabs(grown, n) = Tabs(layers, n)
  BY <1>1, <1>3, <1>4, GrowTabs
<1>. HIDE DEF grown
<1>7. ov \in Seq(Reader)
  <2>1. Tabs(grown, to) = grown[to + 1].tabs /\ Tabs(grown, to) \in Seq(Reader)
    BY <1>4, <1>6, TabsType DEF Tabs
  <2> QED
    BY <2>1, OverlappingType
<1>. HIDE DEF ov, tabs
<1>8. CASE GoOn(read, i + 1) /\ Untouched
  <2>1. /\ UNCHANGED <<strategy, status, manifest, failure>> /\ nextId' \in Nat /\ FilesInv'
        /\ i + 1 \in Nat
    BY <1>1, <1>8 DEF Untouched, history, ManifestInv, TypeInv, FilesInv
  <2> QED
    BY <1>1, <1>3, <1>8, <2>1, GoOnStep
<1>9. CASE Len(s) > 1 /\ MergeSSTables(s, i, TRUE, read)
  <2>1. s # <<>> /\ Len(layers) <= Len(read)
    BY <1>1, <1>3, <1>9
  <2> QED
    BY <1>1, <1>3, <1>9, <2>1, MergeStep
<1>10. CASE s # <<>> /\ MoveSSTable(s[1], to, grown)
  BY <1>1, <1>2, <1>4, <1>6, <1>10, MoveStep
<1>11. CASE s # <<>> /\ MergeSSTables(Append(ov, s[1]), to, FALSE, grown)
  <2>1. PICK inp \in Seq(Reader) : inp = Append(ov, s[1])
    <3>1. PICK x \in Reader : x = s[1]
      <4>1. Len(s) >= 1
        BY <1>11
      <4> QED
        BY <4>1
    <3>2. Append(ov, x) \in Seq(Reader)
      BY <1>7, AppendProperties
    <3> QED
      BY <3>1, <3>2
  <2>2. inp # <<>>
    BY <1>7, <2>1
  <2>3. MergeSSTables(inp, to, FALSE, grown)
    BY <1>11, <2>1
  <2> QED
    BY <1>1, <1>4, <1>6, <2>2, <2>3, MergeStep
<1> QED
  BY <1>5, <1>8, <1>9, <1>10, <1>11

-----------------------------------------------------------------------------
(* The other callers, and the ends of a process.                           *)

(* Read and AddSnapshotKey touch nothing the invariant speaks of.          *)
LEMMA ReaderSteps ==
    ASSUME ManifestInv, Read \/ \E k \in SnapKeys : AddSnapshotKey(k)
    PROVE  ManifestInv'
<1>1. UNCHANGED mvars
  BY DEF Read, AddSnapshotKey, mvars, history
<1> QED
  BY <1>1, ManifestStutter

(* ClearAll while the worker is idle.                                      *)
LEMMA ClearStep ==
    ASSUME ManifestInv, QuietClear, ClearAll
    PROVE  ManifestInv'
<1>1. /\ status = "up" /\ worker.pc = "idle" /\ layers' = <<NoLayer>> /\ nextId' = 0
      /\ files' = <<>> /\ manifest' = NoManifest /\ UNCHANGED <<strategy, worker, status, failure>>
  BY DEF ClearAll
<1>2. WorkerInv /\ worker.inputs = <<>>
  BY <1>1 DEF ManifestInv, TypeInv, WorkerInv
<1>3. \A n \in Nat : Rows(n)' = <<>> /\ Tabs(layers', n) = <<>>
  BY <1>1, EmptyRows, EmptyTabs DEF Rows
<1>4. TypeInv'
  <2>1. FilesInv'
    <3>1. DOMAIN files' = {}
      BY <1>1
    <3> QED
      BY <3>1, FS_EmptySet DEF FilesInv
  <2>2. WorkerInv'
    BY <1>1, <1>2 DEF WorkerInv
  <2> QED
    BY <1>1, <2>1, <2>2, EmptyTabs, EmptyRows DEF ManifestInv, TypeInv
<1>5. Agreement' /\ Placed'
  <2>1. \A n \in Nat : RowsLeft(n)' = <<>>
    BY <1>1, <1>3 DEF RowsLeft
  <2> QED
    BY <1>3, <2>1, SameEmpty DEF Agreement, Placed, PlacedAt
<1>6. WholeLayer'
  BY <1>1, <1>2 DEF WholeLayer
<1> QED
  BY <1>1, <1>4, <1>5, <1>6 DEF ManifestInv, Blame

(* A crash leaves the file under construction in one of two states.        *)
LEMMA CrashStep ==
    ASSUME ManifestInv, failure # "misplaced", Crash
    PROVE  ManifestInv'
<1>1. Die /\ UNCHANGED <<manifest, failure>>
  BY DEF Crash
<1>2. DOMAIN files' = DOMAIN files
  BY DEF Crash
<1>3. FilesInv'
  BY <1>2 DEF ManifestInv, TypeInv, FilesInv
<1> QED
  BY <1>1, <1>3, DieStep DEF ManifestInv, Blame

(* The manifest is lost while the engine is down.                          *)
LEMMA LoseStep ==
    ASSUME ManifestInv, LoseManifest
    PROVE  ManifestInv'
<1>1. /\ status = "down" /\ manifest' = NoManifest
      /\ UNCHANGED <<strategy, layers, nextId, worker, status, files, failure>>
  BY DEF LoseManifest, volatile
<1>2. worker = Idle /\ WorkerInv /\ FilesInv /\ layers \in Seq(Layer) /\ nextId \in Nat
  BY <1>1 DEF ManifestInv, TypeInv
<1>3. \A n \in Nat : Rows(n)' = <<>>
  BY <1>1, EmptyRows DEF Rows
<1>4. TypeInv'
  BY <1>1, <1>2, EmptyRows DEF ManifestInv, TypeInv, FilesInv, WorkerInv
<1>5. Agreement' /\ WholeLayer'
  BY <1>1, <1>2 DEF Agreement, WholeLayer, Idle
<1>6. Placed'
  <2>1. ASSUME NEW n \in Nat
        PROVE  PlacedAt(Rows(n), n, Len(manifest.layers))' /\ PlacedAt(Tabs(layers, n), n, Len(layers))'
    <3>1. PlacedAt(Tabs(layers, n), n, Len(layers))
      BY DEF ManifestInv, Placed
    <3> QED
      BY <1>1, <1>3, <3>1 DEF PlacedAt, Tabs
  <2> QED
    BY <2>1 DEF Placed
<1> QED
  BY <1>1, <1>4, <1>5, <1>6 DEF ManifestInv, Blame

(* The ids in the names of the files are bounded.                          *)
LEMMA BoundedIds ==
    ASSUME FilesInv
    PROVE  \E B \in Nat : \A f \in DOMAIN files : f[2] \in Nat /\ f[2] <= B
<1>. DEFINE D == DOMAIN files
            c == Cardinality(D)
<1>1. c \in Nat /\ ExistsBijection(1 .. c, D)
  BY FS_CardinalityType DEF FilesInv
<1>2. PICK b \in Bijection(1 .. c, D) : TRUE
  BY <1>1 DEF ExistsBijection
<1>3. b \in [1 .. c -> D] /\ \A f \in D : \E i \in 1 .. c : b[i] = f
  BY <1>2 DEF Bijection, Injection, Surjection
<1>4. \A f \in D : f[2] \in Nat
  BY DEF FilesInv
<1>. HIDE DEF c, D
<1>. DEFINE g == [i \in 1 .. c |-> b[i][2]]
<1>5. \A i \in 1 .. c : g[i] \in Nat /\ g[i] = b[i][2]
  BY <1>3, <1>4
<1>. HIDE DEF g
<1>6. PICK B \in Nat : \A i \in 1 .. c : g[i] <= B
  BY <1>1, <1>5, BoundOfSequence
<1>7. \A f \in D : f[2] \in Nat /\ f[2] <= B
  BY <1>3, <1>4, <1>5, <1>6
<1> QED
  BY <1>7 DEF D

(* A manifest read from the file names is one, and puts each table in the  *)
(* layer its name gives.                                                   *)
LEMMA ReconstructRows ==
    ASSUME FilesInv
    PROVE  /\ Reconstruct \in Manifest /\ Reconstruct.next \in Nat
           /\ \A n \in Nat : \A k \in 1 .. Len(ManifestRows(Reconstruct, n)) :
                 /\ ManifestRows(Reconstruct, n)[k].layer = n
                 /\ n < Len(Reconstruct.layers)
<1>. DEFINE idsOf(l) == {n[2] : n \in {f \in DOMAIN files : f[1] = l}}
            rows(l) == [i \in 1 .. Cardinality(idsOf(l)) |->
                           LET id == Nth(idsOf(l), i) IN [id |-> id, layer |-> l, name |-> <<l, id>>]]
            ids == {n[2] : n \in DOMAIN files}
            next == IF ids = {} THEN 0 ELSE Max(ids) + 1
            ls == [l \in 1 .. MaxHeight |-> rows(l - 1)]
<1>1. Reconstruct = [next |-> next, layers |-> ls]
  BY DEF Reconstruct
<1>2. PICK B \in Nat : \A f \in DOMAIN files : f[2] \in Nat /\ f[2] <= B
  BY BoundedIds
<1>3. next \in Nat
  <2>1. ids \in SUBSET Nat /\ \A i \in ids : i <= B
    BY <1>2
  <2>. HIDE DEF ids
  <2>2. CASE ids # {}
    <3>1. Max(ids) \in Nat
      BY <2>1, <2>2, MaxOfNaturals
    <3> QED
      BY <2>2, <3>1
  <2> QED
    BY <2>2
<1>4. ASSUME NEW l \in Nat
      PROVE  rows(l) \in Seq(Reader) /\ \A k \in 1 .. Len(rows(l)) : rows(l)[k].layer = l
  <2>1. PICK I : I = idsOf(l)
    OBVIOUS
  <2>2. I \in SUBSET Nat /\ \A i \in I : i <= B
    BY <1>2, <2>1
  <2>3. IsFiniteSet(I)
    BY <2>2, FS_BoundedSetOfNaturals
  <2>4. Cardinality(I) \in Nat /\ \A k \in 1 .. Cardinality(I) : Nth(I, k) \in Nat
    BY <2>2, <2>3, NthElement
  <2>5. PICK c \in Nat : c = Cardinality(I)
    BY <2>4
  <2>6. PICK r : r = rows(l)
    OBVIOUS
  <2>7. r = [i \in 1 .. c |-> [id |-> Nth(I, i), layer |-> l, name |-> <<l, Nth(I, i)>>]]
    BY <2>1, <2>5, <2>6
  <2>8. ASSUME NEW k \in 1 .. c PROVE r[k] \in Reader /\ r[k].layer = l
    <3>1. PICK id \in Nat : id = Nth(I, k)
      BY <2>4, <2>5
    <3>2. r[k] = [id |-> id, layer |-> l, name |-> <<l, id>>]
      BY <2>7, <3>1
    <3> QED
      BY <3>2 DEF Reader
  <2>9. r \in Seq(Reader) /\ Len(r) = c
    BY ONLY c \in Nat, <2>7, <2>8
  <2> QED
    BY <2>6, <2>8, <2>9
<1>5. MaxHeight \in Nat
  BY ManagerAssumption
<1>. HIDE DEF rows, next
<1>6. ls \in Seq(Seq(Reader)) /\ Len(ls) = MaxHeight /\ \A l \in 1 .. MaxHeight : ls[l] = rows(l - 1)
  <2>1. \A l \in 1 .. MaxHeight : rows(l - 1) \in Seq(Reader)
    BY <1>4
  <2> QED
    BY ONLY <1>5, <2>1
<1>. HIDE DEF ls
<1>7. Reconstruct \in Manifest /\ Reconstruct.next \in Nat /\ Reconstruct.layers = ls
  BY <1>1, <1>3, <1>6 DEF Manifest
<1>8. ASSUME NEW n \in Nat, NEW k \in 1 .. Len(ManifestRows(Reconstruct, n))
      PROVE  /\ ManifestRows(Reconstruct, n)[k].layer = n
             /\ n < Len(Reconstruct.layers)
  <2>1. ManifestRows(Reconstruct, n) = IF n + 1 <= MaxHeight THEN ls[n + 1] ELSE <<>>
    BY <1>6, <1>7 DEF ManifestRows
  <2>2. n + 1 <= MaxHeight
    <3>1. SUFFICES ASSUME ~(n + 1 <= MaxHeight) PROVE FALSE
      OBVIOUS
    <3>2. Len(ManifestRows(Reconstruct, n)) = 0
      BY <2>1, <3>1
    <3> QED
      BY <3>2
  <2>3. ls[n + 1] = rows(n)
    BY <1>5, <1>6, <2>2
  <2>4. n < Len(Reconstruct.layers)
    BY <1>5, <1>6, <1>7, <2>2
  <2>5. ManifestRows(Reconstruct, n) = rows(n)
    BY <2>1, <2>2, <2>3
  <2>6. \A j \in 1 .. Len(rows(n)) : rows(n)[j].layer = n
    BY <1>4
  <2> QED
    BY <2>4, <2>5, <2>6
<1> QED
  BY <1>7, <1>8


(* A start reads the tables the manifest names.                            *)
LEMMA RestartStep ==
    ASSUME ManifestInv, failure # "misplaced", Restart
    PROVE  ManifestInv'
<1>1. PICK m : m = IF manifest = NoManifest THEN Reconstruct ELSE manifest
  OBVIOUS
<1>2. /\ status = "down" /\ manifest' = m /\ nextId' = m.next /\ status' \in {"up", "stuck"}
      /\ \/ m.layers # <<>> /\ layers' = [l \in DOMAIN m.layers |->
                                 [tabs |-> m.layers[l], needsUpdate |-> m.layers[l] # <<>>]]
         \/ (m.layers = <<>> \/ status' = "stuck") /\ layers' = <<NoLayer>>
      /\ UNCHANGED <<strategy, worker, files, failure>>
  BY <1>1 DEF Restart
<1>3. worker = Idle /\ WorkerInv /\ FilesInv /\ manifest \in Manifest
  BY <1>2 DEF ManifestInv, TypeInv
<1>4. /\ m \in Manifest /\ m.next \in Nat /\ m.layers \in Seq(Seq(Reader))
      /\ \A n \in Nat : PlacedAt(ManifestRows(m, n), n, Len(m.layers))
  <2>1. CASE manifest = NoManifest
    <3>1. m = Reconstruct
      BY <1>1, <2>1
    <3> QED
      BY <1>3, <3>1, ReconstructRows DEF PlacedAt, Manifest
  <2>2. CASE manifest # NoManifest
    BY <1>1, <1>3, <2>2 DEF ManifestInv, TypeInv, Placed, Rows, Manifest
  <2> QED
    BY <2>1, <2>2
<1>5. /\ layers' \in Seq(Layer)
      /\ \A n \in Nat : PlacedAt(Tabs(layers', n), n, Len(layers'))
      /\ status' = "up" => \A n \in Nat : Tabs(layers', n) = ManifestRows(m, n)
  <2>1. CASE m.layers # <<>> /\ layers' = [l \in DOMAIN m.layers |->
                                 [tabs |-> m.layers[l], needsUpdate |-> m.layers[l] # <<>>]]
    <3>1. PICK ml \in Seq(Seq(Reader)) : ml = m.layers
      BY <1>4
    <3>2. PICK ls : ls = layers'
      OBVIOUS
    <3>3. Len(ml) \in Nat /\ DOMAIN ml = 1 .. Len(ml) /\ \A l \in 1 .. Len(ml) : ml[l] \in Seq(Reader)
      BY <3>1
    <3>4. ls = [l \in 1 .. Len(ml) |-> [tabs |-> ml[l], needsUpdate |-> ml[l] # <<>>]]
      BY <2>1, <3>1, <3>2, <3>3
    <3>5. \A l \in 1 .. Len(ml) : ls[l] \in Layer /\ ls[l].tabs = ml[l]
      BY <3>3, <3>4 DEF Layer
    <3>6. ls \in Seq(Layer) /\ Len(ls) = Len(ml)
      BY ONLY <3>3, <3>4, <3>5
    <3>7. \A n \in Nat : Tabs(ls, n) = ManifestRows(m, n)
      BY <3>1, <3>3, <3>5, <3>6 DEF Tabs, ManifestRows
    <3> QED
      BY <1>4, <3>1, <3>2, <3>6, <3>7
  <2>2. CASE (m.layers = <<>> \/ status' = "stuck") /\ layers' = <<NoLayer>>
    <3>1. \A n \in Nat : Tabs(layers', n) = <<>>
      BY <2>2, EmptyTabs
    <3>2. m.layers = <<>> => \A n \in Nat : ManifestRows(m, n) = <<>>
      <4>1. ASSUME m.layers = <<>>, NEW n \in Nat PROVE ManifestRows(m, n) = <<>>
        <5>1. ~(n + 1 <= Len(m.layers))
          BY <4>1
        <5> QED
          BY <5>1 DEF ManifestRows
      <4> QED
        BY <4>1
    <3> QED
      BY <2>2, <3>1, <3>2, EmptyTabs, PlacedEmpty
  <2> QED
    BY <1>2, <2>1, <2>2
<1>6. \A n \in Nat : Rows(n)' = ManifestRows(m, n) /\ RowsLeft(n)' = ManifestRows(m, n)
  <2>1. \A n \in Nat : Rows(n)' = ManifestRows(m, n)
    BY <1>2 DEF Rows
  <2>2. worker'.pc = "idle"
    BY <1>2, <1>3 DEF Idle
  <2> QED
    BY <2>1, <2>2 DEF RowsLeft
<1>7. TypeInv'
  BY <1>2, <1>3, <1>4, <1>5 DEF ManifestInv, TypeInv, FilesInv, WorkerInv
<1>8. Agreement'
  <2>1. SUFFICES ASSUME status' = "up", NEW n \in Nat PROVE Same(RowsLeft(n)', Tabs(layers', n))
    BY DEF Agreement
  <2>2. PICK s \in Seq(Reader) : s = ManifestRows(m, n)
    BY <1>4, RowsType
  <2>3. Same(s, s)
    BY DEF Same
  <2> QED
    BY <1>5, <1>6, <2>1, <2>2, <2>3
<1>9. Placed'
  BY <1>2, <1>4, <1>5, <1>6 DEF Placed, PlacedAt
<1>10. WholeLayer'
  BY <1>2, <1>3 DEF WholeLayer, Idle
<1> QED
  BY <1>2, <1>7, <1>8, <1>9, <1>10 DEF ManifestInv, Blame

(* Every step keeps the invariant.                                         *)
LEMMA ManifestNext ==
    ASSUME QuietClear, ManifestInv, [Next]_vars
    PROVE  ManifestInv'
<1>1. CASE UNCHANGED vars
  <2>1. UNCHANGED mvars
    BY <1>1 DEF vars, volatile, history, mvars
  <2> QED
    BY <2>1, ManifestStutter
<1>2. CASE FailAgain
  BY <1>1, <1>2 DEF FailAgain
<1>3. CASE failure # "misplaced" /\ Step
  <2>1. ASSUME NEW m \in Memtables, Flush(m) PROVE ManifestInv'
    BY <2>1, FlushStep
  <2>2. CASE FlushNothing
    BY <2>2, FlushNothingStep
  <2>3. CASE Add
    BY <1>3, <2>3, AddStep
  <2>4. CASE Delete
    BY <1>3, <2>4, DeleteStep
  <2>5. CASE Unlist
    BY <1>3, <2>5, UnlistStep
  <2>6. CASE TieredCompact
    BY <1>3, <2>6, TieredStep
  <2>7. CASE LeveledCompactL0
    BY <1>3, <2>7, LeveledL0Step
  <2>8. CASE LeveledCompact
    BY <1>3, <2>8, LeveledStep
  <2>9. CASE Read \/ \E k \in SnapKeys : AddSnapshotKey(k)
    BY <2>9, ReaderSteps
  <2>10. CASE ClearAll
    BY <2>10, ClearStep
  <2>11. CASE Crash
    BY <1>3, <2>11, CrashStep
  <2>12. CASE LoseManifest
    BY <2>12, LoseStep
  <2>13. CASE Restart
    BY <1>3, <2>13, RestartStep
  <2> QED
    BY <1>3, <2>1, <2>2, <2>3, <2>4, <2>5, <2>6, <2>7, <2>8, <2>9, <2>10, <2>11, <2>12, <2>13
       DEF Step
<1> QED
  BY <1>1, <1>2, <1>3 DEF Next

(* Whatever is flushed, merged, moved, cleared while the worker is idle,   *)
(* crashed, restarted or rebuilt from file names: while no merge is under  *)
(* way, the tables in memory are the ones the saved manifest names, layer  *)
(* by layer, and under tiered compaction a merge finds each table it is to *)
(* delete (addToLayers, RemoveSSTable, MoveSSTable, NewSSTableManager).    *)
THEOREM ManifestAlways ==
    ASSUME QuietClear
    PROVE  Spec => []ManifestAgrees
<1>1. Spec => []ManifestInv
  <2>1. Init => ManifestInv
    BY ManifestInit
  <2>2. ManifestInv /\ [Next]_vars => ManifestInv'
    BY ManifestNext
  <2> QED
    BY <2>1, <2>2, PTL DEF Spec
<1>2. ManifestInv => ManifestAgrees
  BY AgreementNames
<1> QED
  BY <1>1, <1>2, PTL
=============================================================================
