-------------------------- MODULE CompactionProofs --------------------------
(***************************************************************************)
(* Leveled compaction keeps the key ranges of the tables of a layer apart, *)
(* for any number of layers, keys, flushes, crashes and restarts; with the *)
(* invariant of SSTableManagerProofs.                                      *)
(***************************************************************************)
EXTENDS SSTableManagerProofs

-----------------------------------------------------------------------------
(* The tables of all layers, as the manifest and as memory list them.      *)
Lists == [Nat -> Seq(Reader)]
AllRows(m) == [n \in Nat |-> ManifestRows(m, n)]
AllTabs(ls) == [n \in Nat |-> Tabs(ls, n)]

KeysOf(R) == {r.key : r \in R}
KeysAt(fs, t) == KeysOf(fs[t.name].recs)
Below(K, L) == \A a \in K, b \in L : a < b
Apart(K, L) == Below(K, L) \/ Below(L, K)

(* Two tables of a list have keys that do not interleave, unless one of    *)
(* them is among those with an identifier in X.                            *)
Spread(fs, s, X) ==
    \A j, k \in 1 .. Len(s) : \/ j = k \/ s[j].id \in X \/ s[k].id \in X
                              \/ Apart(KeysAt(fs, s[j]), KeysAt(fs, s[k]))

(* The number in a file's name identifies the table, there is one table of *)
(* each number, and those to come are larger.                              *)
Named(s) == \A k \in 1 .. Len(s) : s[k].id = s[k].name[2]
Distinct(g) == \A n, l \in Nat : \A j \in 1 .. Len(g[n]), k \in 1 .. Len(g[l]) :
                   g[n][j].id = g[l][k].id => n = l /\ j = k
Earlier(g, top) == \A n \in Nat : \A k \in 1 .. Len(g[n]) : g[n][k].id < top
Identified(g, top) == (\A n \in Nat : Named(g[n])) /\ Distinct(g) /\ Earlier(g, top)

(* Each table but those in X is a file with records.                       *)
OnDisk(fs, t) == t.name \in DOMAIN fs /\ fs[t.name].recs # {}
Present(fs, g, X) == \A n \in Nat : \A k \in 1 .. Len(g[n]) : g[n][k].id \in X \/ OnDisk(fs, g[n][k])
Separate(fs, g, X) == \A n \in Nat \ {0} : Spread(fs, g[n], X)

(* The identifiers of a merge's inputs, once its result is in the layers;  *)
(* and of the input whose file is gone.                                    *)
Ids(s) == {s[k].id : k \in 1 .. Len(s)}
ExemptOf(w) == IF w.pc \in {"delete", "unlist"} THEN Ids(w.inputs) ELSE {}
MissingOf(w) == IF w.pc = "unlist" THEN {w.inputs[1].id} ELSE {}

(* A table that is being written: new, not empty, and apart from the       *)
(* tables of its layer that are not merged into it.                        *)
Fits(fs, s, w) ==
    \A k \in 1 .. Len(s) : s[k].id \in Ids(w.inputs) \/ Apart(KeysOf(w.content.recs), KeysAt(fs, s[k]))
Adding(fs, g, w, top, nid) ==
    w.pc = "add" =>
        /\ top <= w.id /\ w.id < nid /\ <<w.to, w.id>> \in DOMAIN fs
        /\ w.content.recs # {}
        /\ w.inputs = <<>> => w.to = 0
        /\ w.to # 0 => Fits(fs, g[w.to], w)

Sound(fs, m, w, nid) ==
    /\ Identified(AllRows(m), m.next) /\ Named(w.inputs)
    /\ Present(fs, AllRows(m), MissingOf(w))
    /\ Separate(fs, AllRows(m), ExemptOf(w))
    /\ Adding(fs, AllRows(m), w, m.next, nid)

Known(R, s) == \A r \in R : r.key \in Keys /\ r.seq \in 0 .. s
Recorded(fs, w, s) == s \in Nat /\ (\A n \in DOMAIN fs : Known(fs[n].recs, s)) /\ Known(w.content.recs, s)

(* No merge was cut short, and no table misplaced.                         *)
Whole == strategy = "leveled" /\ ~torn /\ failure # "misplaced"

Orderly ==
    /\ Recorded(files, worker, seq) /\ Sound(files, manifest, worker, nextId)
    /\ status = "up" => manifest.next <= nextId

LayersInv == (Whole => Orderly) /\ (failure = "misplaced" => LayersDisjoint)

-----------------------------------------------------------------------------
(* Lists of tables, and the files behind them.                             *)

(* The rows and the tables are lists.                                      *)
LEMMA ListsType ==
    /\ \A m \in Manifest : AllRows(m) \in Lists /\ \A n \in Nat : AllRows(m)[n] = ManifestRows(m, n)
    /\ \A ls \in Seq(Layer) : AllTabs(ls) \in Lists /\ \A n \in Nat : AllTabs(ls)[n] = Tabs(ls, n)
<1>1. ASSUME NEW m \in Manifest
      PROVE  AllRows(m) \in Lists /\ \A n \in Nat : AllRows(m)[n] = ManifestRows(m, n)
  <2>1. \A n \in Nat : ManifestRows(m, n) \in Seq(Reader)
    BY RowsType
  <2> QED
    BY <2>1 DEF AllRows, Lists
<1>2. ASSUME NEW ls \in Seq(Layer)
      PROVE  AllTabs(ls) \in Lists /\ \A n \in Nat : AllTabs(ls)[n] = Tabs(ls, n)
  <2>1. \A n \in Nat : Tabs(ls, n) \in Seq(Reader)
    BY TabsType
  <2> QED
    BY <2>1 DEF AllTabs, Lists
<1> QED
  BY <1>1, <1>2

(* Fewer tables, of an injection into the old ones, stay apart.            *)
LEMMA SpreadFewer ==
    ASSUME NEW fs, NEW X, NEW s \in Seq(Reader), NEW id, Spread(fs, s, X)
    PROVE  Spread(fs, Without(s, id), X)
<1>1. PICK w \in Seq(Reader) : w = Without(s, id)
  BY WithoutFacts
<1>2. PICK f \in [1 .. Len(w) -> 1 .. Len(s)] :
         /\ \A i, j \in 1 .. Len(w) : f[i] = f[j] => i = j
         /\ \A i \in 1 .. Len(w) : w[i] = s[f[i]]
  BY <1>1, WithoutFacts
<1>3. ASSUME NEW j \in 1 .. Len(w), NEW k \in 1 .. Len(w)
      PROVE  j = k \/ w[j].id \in X \/ w[k].id \in X \/ Apart(KeysAt(fs, w[j]), KeysAt(fs, w[k]))
  <2>1. f[j] \in 1 .. Len(s) /\ f[k] \in 1 .. Len(s) /\ w[j] = s[f[j]] /\ w[k] = s[f[k]]
    BY <1>2
  <2>2. f[j] = f[k] => j = k
    BY <1>2
  <2> QED
    BY ONLY <2>1, <2>2, Spread(fs, s, X) DEF Spread
<1> QED
  BY ONLY <1>1, <1>3 DEF Spread

(* A table apart from the others may join them.                            *)
LEMMA SpreadMore ==
    ASSUME NEW fs, NEW X, NEW s \in Seq(Reader), NEW t \in Reader, Spread(fs, s, X),
           \A k \in 1 .. Len(s) : s[k].id \in X \/ Apart(KeysAt(fs, t), KeysAt(fs, s[k]))
    PROVE  Spread(fs, Append(s, t), X)
<1>1. PICK a \in Seq(Reader) : a = Append(s, t)
  BY AppendProperties
<1>2. Len(a) = Len(s) + 1 /\ a[Len(s) + 1] = t /\ \A i \in 1 .. Len(s) : a[i] = s[i]
  BY <1>1
<1>3. Len(s) \in Nat
  OBVIOUS
<1>4. ASSUME NEW j \in 1 .. Len(a), NEW k \in 1 .. Len(a), j # k
      PROVE  a[j].id \in X \/ a[k].id \in X \/ Apart(KeysAt(fs, a[j]), KeysAt(fs, a[k]))
  <2>1. CASE j \in 1 .. Len(s) /\ k \in 1 .. Len(s)
    <3>1. a[j] = s[j] /\ a[k] = s[k]
      BY <1>2, <2>1
    <3> QED
      BY ONLY <1>4, <2>1, <3>1, Spread(fs, s, X) DEF Spread
  <2>2. CASE j = Len(s) + 1
    <3>1. k \in 1 .. Len(s) /\ a[j] = t
      BY <1>2, <1>3, <1>4, <2>2
    <3>2. a[k] = s[k]
      BY <1>2, <3>1
    <3> QED
      BY <3>1, <3>2
  <2>3. CASE k = Len(s) + 1
    <3>1. j \in 1 .. Len(s) /\ a[k] = t
      BY <1>2, <1>3, <1>4, <2>3
    <3>2. a[j] = s[j]
      BY <1>2, <3>1
    <3> QED
      BY <3>1, <3>2 DEF Apart
  <2> QED
    BY <1>2, <1>3, <2>1, <2>2, <2>3
<1> QED
  BY ONLY <1>1, <1>4 DEF Spread

(* Fewer exceptions will do if the others are not in the list.             *)
LEMMA SpreadNarrow ==
    ASSUME NEW fs, NEW X, NEW Y, NEW s \in Seq(Reader), Spread(fs, s, X),
           \A k \in 1 .. Len(s) : s[k].id \in X => s[k].id \in Y
    PROVE  Spread(fs, s, Y)
BY DEF Spread

(* More exceptions never hurt.                                             *)
LEMMA MoreExceptions ==
    ASSUME NEW g, NEW fs, NEW X, NEW Y, X \subseteq Y
    PROVE  /\ Present(fs, g, X) => Present(fs, g, Y)
           /\ Separate(fs, g, X) => Separate(fs, g, Y)
BY DEF Present, Separate, Spread

(* What a list holds.                                                      *)
LEMMA ListElement ==
    ASSUME NEW g \in Lists, NEW n \in Nat, NEW k \in 1 .. Len(g[n])
    PROVE  g[n][k] \in Reader /\ g[n][k].id \in Nat /\ g[n][k].layer \in Nat
<1>1. PICK s \in Seq(Reader) : s = g[n]
  BY DEF Lists
<1>2. s[k] \in Reader
  BY <1>1
<1> QED
  BY <1>1, <1>2 DEF Reader

(* The files of the tables keep their records.                             *)
LEMMA FilesKept ==
    ASSUME NEW g \in Lists, NEW fs, NEW fs2, NEW X, NEW Y,
           Present(fs, g, X), Separate(fs, g, Y), X \subseteq Y,
           \A n \in Nat : \A k \in 1 .. Len(g[n]) :
              \/ g[n][k].id \in X
              \/ g[n][k].name \in DOMAIN fs => /\ g[n][k].name \in DOMAIN fs2
                                               /\ fs2[g[n][k].name].recs = fs[g[n][k].name].recs
    PROVE  Present(fs2, g, X) /\ Separate(fs2, g, Y)
<1>1. Present(fs2, g, X)
  BY DEF Present, OnDisk
<1>2. ASSUME NEW n \in Nat \ {0} PROVE Spread(fs2, g[n], Y)
  <2>1. PICK s : s = g[n]
    OBVIOUS
  <2>2. \A k \in 1 .. Len(s) : s[k].id \in Y \/ KeysAt(fs2, s[k]) = KeysAt(fs, s[k])
    BY <2>1 DEF KeysAt, Present, OnDisk
  <2>3. Spread(fs, s, Y)
    BY <2>1 DEF Separate
  <2>4. Spread(fs2, s, Y)
    BY ONLY <2>2, <2>3 DEF Spread
  <2> QED
    BY <2>1, <2>4
<1> QED
  BY <1>1, <1>2 DEF Separate

(* From g to h a table leaves list n.                                      *)
Leaves(g, h, n, id) ==
    /\ \E k \in 1 .. Len(g[n]) : g[n][k].id = id
    /\ h[n] = Without(g[n], id) /\ \A l \in Nat : l # n => h[l] = g[l]

(* The tables that are left stay as they were.                             *)
LEMMA TableLeaves ==
    ASSUME NEW g \in Lists, NEW top, Identified(g, top), NEW n \in Nat, NEW id,
           NEW h \in Lists, Leaves(g, h, n, id),
           NEW fs, NEW X, NEW Y, Present(fs, g, X), Separate(fs, g, Y)
    PROVE  /\ Identified(h, top)
           /\ \A l \in Nat : \A k \in 1 .. Len(h[l]) : h[l][k].id # id
           /\ \A l \in Nat : \A k \in 1 .. Len(h[l]) : \E j \in 1 .. Len(g[l]) : h[l][k] = g[l][j]
           /\ Present(fs, h, X \ {id}) /\ Separate(fs, h, Y \ {id})
<1>1. PICK s \in Seq(Reader) : s = g[n]
  BY DEF Lists
<1>2. PICK w \in Seq(Reader) : w = Without(s, id)
  BY WithoutFacts
<1>3. PICK p \in 1 .. Len(s) :
         /\ s[p].id = id /\ Len(w) = Len(s) - 1
         /\ \A i \in 1 .. Len(s) - 1 : w[i] = IF i < p THEN s[i] ELSE s[i + 1]
  <2>1. \E i \in 1 .. Len(s) : s[i].id = id
    BY <1>1 DEF Leaves
  <2> QED
    BY ONLY s \in Seq(Reader), <1>2, <2>1, WithoutPresent
<1>4. h \in Lists /\ h[n] = w /\ \A l \in Nat : l # n => h[l] = g[l]
  BY <1>1, <1>2 DEF Leaves
(* Where the tables of h were.                                             *)
<1>. DEFINE Old(l, k) == IF l = n /\ ~(k < p) THEN k + 1 ELSE k
<1>5. ASSUME NEW l \in Nat, NEW k \in 1 .. Len(h[l])
      PROVE  /\ Old(l, k) \in 1 .. Len(g[l]) /\ h[l][k] = g[l][Old(l, k)]
             /\ ~(l = n /\ Old(l, k) = p)
  <2>1. CASE l = n
    <3>1. k \in 1 .. Len(s) - 1 /\ Len(s) \in Nat
      BY <1>3, <1>4, <2>1
    <3>2. w[k] = s[Old(l, k)]
      BY <1>3, <2>1, <3>1
    <3> QED
      BY <1>1, <1>3, <1>4, <2>1, <3>1, <3>2
  <2>2. CASE l # n
    BY <1>4, <2>2
  <2> QED
    BY <2>1, <2>2
<1>6. ASSUME NEW l \in Nat, NEW j \in 1 .. Len(h[l]), NEW k \in 1 .. Len(h[l]), Old(l, j) = Old(l, k)
      PROVE  j = k
  <2>1. j \in Int /\ k \in Int /\ p \in Int
    OBVIOUS
  <2> QED
    BY <1>6, <2>1
<1>. HIDE DEF Old
<1>7. ASSUME NEW l \in Nat, NEW k \in 1 .. Len(h[l]) PROVE h[l][k].id # id
  <2>1. PICK q \in 1 .. Len(g[l]) : q = Old(l, k) /\ h[l][k] = g[l][q] /\ ~(l = n /\ q = p)
    BY <1>5
  <2>2. g[n][p].id = id /\ p \in 1 .. Len(g[n])
    BY <1>1, <1>3
  <2>3. Distinct(g)
    BY DEF Identified
  <2> QED
    BY ONLY n \in Nat, l \in Nat, <2>1, <2>2, <2>3, SMTT(40) DEF Distinct
<1>8. Identified(h, top)
  <2>1. ASSUME NEW l \in Nat PROVE Named(h[l])
    <3>1. Named(g[l])
      BY DEF Identified
    <3>2. ASSUME NEW k \in 1 .. Len(h[l]) PROVE h[l][k].id = h[l][k].name[2]
      <4>1. PICK q \in 1 .. Len(g[l]) : h[l][k] = g[l][q]
        BY <1>5
      <4> QED
        BY ONLY <3>1, <4>1 DEF Named
    <3> QED
      BY ONLY <3>2 DEF Named
  <2>2. Earlier(h, top)
    BY <1>5 DEF Identified, Earlier
  <2>3. ASSUME NEW a \in Nat, NEW b \in Nat, NEW j \in 1 .. Len(h[a]), NEW k \in 1 .. Len(h[b]),
               h[a][j].id = h[b][k].id
        PROVE  a = b /\ j = k
    <3>1. PICK x \in 1 .. Len(g[a]) : x = Old(a, j) /\ h[a][j] = g[a][x]
      BY <1>5
    <3>2. PICK y \in 1 .. Len(g[b]) : y = Old(b, k) /\ h[b][k] = g[b][y]
      BY <1>5
    <3>3. a = b /\ x = y
      <4>1. Distinct(g)
        BY DEF Identified
      <4>2. g[a][x].id = g[b][y].id
        BY <2>3, <3>1, <3>2
      <4> QED
        BY ONLY a \in Nat, b \in Nat, x \in 1 .. Len(g[a]), y \in 1 .. Len(g[b]), <4>1, <4>2 DEF Distinct
    <3> QED
      BY <1>6, <3>1, <3>2, <3>3
  <2> QED
    BY <2>1, <2>2, <2>3 DEF Identified, Distinct
<1>9. Present(fs, h, X \ {id})
  BY <1>5, <1>7 DEF Present
<1>10. ASSUME NEW l \in Nat \ {0} PROVE Spread(fs, h[l], Y \ {id})
  <2>1. Spread(fs, h[l], Y)
    <3>1. Spread(fs, g[l], Y)
      BY DEF Separate
    <3> QED
      BY <1>1, <1>2, <1>4, <3>1, SpreadFewer
  <2>2. PICK v \in Seq(Reader) : v = h[l]
    BY <1>4 DEF Lists
  <2>3. \A k \in 1 .. Len(v) : v[k].id \in Y => v[k].id \in Y \ {id}
    BY <1>7, <2>2
  <2> QED
    BY <2>1, <2>2, <2>3, SpreadNarrow
<1>11. Separate(fs, h, Y \ {id})
  BY <1>10 DEF Separate
<1> QED
  BY <1>4, <1>5, <1>7, <1>8, <1>9, <1>11

(* From g to h a table that g does not have joins list n, and has room     *)
(* there, as it has everywhere in L0.                                      *)
Joins(g, h, n, t) == h[n] = Append(g[n], t) /\ \A l \in Nat : l # n => h[l] = g[l]
Fresh(g, top, t) ==
    t.id = t.name[2] /\ t.id < top /\ \A l \in Nat : \A k \in 1 .. Len(g[l]) : g[l][k].id # t.id
Room(fs, g, n, t, Y) ==
    n # 0 => \A k \in 1 .. Len(g[n]) : g[n][k].id \in Y \/ Apart(KeysAt(fs, t), KeysAt(fs, g[n][k]))

(* The tables stay as they were, the new one among them.                   *)
LEMMA TableJoins ==
    ASSUME NEW g \in Lists, NEW top \in Int, Identified(g, top), NEW n \in Nat, NEW t \in Reader,
           Fresh(g, top, t), NEW h \in Lists, Joins(g, h, n, t),
           NEW fs, NEW X, NEW Y, Present(fs, g, X), Separate(fs, g, Y), OnDisk(fs, t),
           Room(fs, g, n, t, Y)
    PROVE  Identified(h, top) /\ Present(fs, h, X) /\ Separate(fs, h, Y)
<1>0. t.id = t.name[2] /\ t.id < top /\ \A l \in Nat : \A k \in 1 .. Len(g[l]) : g[l][k].id # t.id
  BY DEF Fresh
<1>1. PICK s \in Seq(Reader) : s = g[n]
  BY DEF Lists
<1>2. PICK a \in Seq(Reader) : a = Append(s, t)
  BY AppendProperties
<1>3. Len(a) = Len(s) + 1 /\ a[Len(s) + 1] = t /\ \A i \in 1 .. Len(s) : a[i] = s[i]
  BY <1>2
<1>4. h \in Lists /\ h[n] = a /\ \A l \in Nat : l # n => h[l] = g[l]
  BY <1>1, <1>2 DEF Joins
<1>5. ASSUME NEW l \in Nat, NEW k \in 1 .. Len(h[l])
      PROVE  \/ l = n /\ k = Len(s) + 1 /\ h[l][k] = t
             \/ k \in 1 .. Len(g[l]) /\ h[l][k] = g[l][k]
  <2>1. CASE l = n
    <3>1. k \in 1 .. Len(s) + 1 /\ Len(s) \in Nat
      BY <1>3, <1>4, <2>1
    <3>2. CASE k = Len(s) + 1
      BY <1>3, <1>4, <2>1, <3>2
    <3>3. CASE k \in 1 .. Len(s)
      BY <1>1, <1>3, <1>4, <2>1, <3>3
    <3> QED
      BY <3>1, <3>2, <3>3
  <2>2. CASE l # n
    BY <1>4, <2>2
  <2> QED
    BY <2>1, <2>2
<1>6. Identified(h, top)
  <2>1. ASSUME NEW l \in Nat PROVE Named(h[l])
    <3>1. Named(g[l])
      BY DEF Identified
    <3>2. ASSUME NEW k \in 1 .. Len(h[l]) PROVE h[l][k].id = h[l][k].name[2]
      <4>1. CASE h[l][k] = t
        BY <1>0, <4>1
      <4>2. CASE k \in 1 .. Len(g[l]) /\ h[l][k] = g[l][k]
        BY ONLY <3>1, <4>2 DEF Named
      <4> QED
        BY <1>5, <4>1, <4>2
    <3> QED
      BY ONLY <3>2 DEF Named
  <2>2. Earlier(h, top)
    BY <1>0, <1>5 DEF Identified, Earlier
  <2>3. ASSUME NEW b \in Nat, NEW c \in Nat, NEW j \in 1 .. Len(h[b]), NEW k \in 1 .. Len(h[c]),
               h[b][j].id = h[c][k].id
        PROVE  b = c /\ j = k
    <3>1. CASE j \in 1 .. Len(g[b]) /\ h[b][j] = g[b][j] /\ k \in 1 .. Len(g[c]) /\ h[c][k] = g[c][k]
      <4>1. Distinct(g)
        BY DEF Identified
      <4>2. j \in 1 .. Len(g[b]) /\ k \in 1 .. Len(g[c]) /\ g[b][j].id = g[c][k].id
        BY ONLY <2>3, <3>1
      <4> QED
        BY ONLY b \in Nat, c \in Nat, <4>1, <4>2 DEF Distinct
    <3>2. /\ (b = n /\ j = Len(s) + 1 /\ h[b][j] = t) \/ (j \in 1 .. Len(g[b]) /\ h[b][j] = g[b][j])
          /\ (c = n /\ k = Len(s) + 1 /\ h[c][k] = t) \/ (k \in 1 .. Len(g[c]) /\ h[c][k] = g[c][k])
      BY ONLY b \in Nat, c \in Nat, j \in 1 .. Len(h[b]), k \in 1 .. Len(h[c]), <1>5
    <3>3. /\ j \in 1 .. Len(g[b]) => g[b][j].id # t.id
          /\ k \in 1 .. Len(g[c]) => g[c][k].id # t.id
      BY <1>0
    <3> QED
      BY ONLY <2>3, <3>1, <3>2, <3>3
  <2> QED
    BY <2>1, <2>2, <2>3 DEF Identified, Distinct
<1>7. Present(fs, h, X)
  BY <1>5 DEF Present
<1>8. ASSUME NEW l \in Nat \ {0} PROVE Spread(fs, h[l], Y)
  <2>1. Spread(fs, g[l], Y)
    BY DEF Separate
  <2>2. CASE l = n
    <3>1. Spread(fs, s, Y) /\ \A k \in 1 .. Len(s) : s[k].id \in Y \/ Apart(KeysAt(fs, t), KeysAt(fs, s[k]))
      BY <1>1, <2>1, <2>2 DEF Room
    <3>2. Spread(fs, Append(s, t), Y)
      BY ONLY s \in Seq(Reader), t \in Reader, <3>1, SpreadMore
    <3> QED
      BY <1>2, <1>4, <2>2, <3>2
  <2>3. CASE l # n
    BY <1>4, <2>1, <2>3
  <2> QED
    BY <2>2, <2>3
<1> QED
  BY <1>4, <1>6, <1>7, <1>8 DEF Separate

(* What holds of the rows holds of the tables that agree with them.        *)
LEMMA SameLists ==
    ASSUME NEW g \in Lists, NEW h \in Lists, \A n \in Nat : Same(g[n], h[n]), NEW fs,
           NEW X, NEW Y, Present(fs, g, X), Separate(fs, g, Y), \A n \in Nat : Named(g[n])
    PROVE  Present(fs, h, X) /\ Separate(fs, h, Y) /\ \A n \in Nat : Named(h[n])
<1>1. ASSUME NEW n \in Nat, NEW k \in 1 .. Len(h[n])
      PROVE  k \in 1 .. Len(g[n]) /\ g[n][k].id = h[n][k].id /\ g[n][k].name = h[n][k].name
  BY DEF Same
<1>2. Present(fs, h, X)
  BY <1>1 DEF Present, OnDisk
<1>3. ASSUME NEW n \in Nat PROVE Named(h[n])
  <2>1. Named(g[n])
    OBVIOUS
  <2>2. ASSUME NEW k \in 1 .. Len(h[n]) PROVE h[n][k].id = h[n][k].name[2]
    <3>1. g[n][k].id = g[n][k].name[2]
      BY <1>1, <2>1 DEF Named
    <3> QED
      BY <1>1, <3>1
  <2> QED
    BY ONLY <2>2 DEF Named
<1>4. ASSUME NEW n \in Nat \ {0} PROVE Spread(fs, h[n], Y)
  <2>1. Spread(fs, g[n], Y)
    BY DEF Separate
  <2>2. \A k \in 1 .. Len(h[n]) : KeysAt(fs, g[n][k]) = KeysAt(fs, h[n][k])
    BY <1>1 DEF KeysAt
  <2> QED
    BY ONLY n \in Nat, <1>1, <2>1, <2>2 DEF Spread
<1> QED
  BY <1>2, <1>3, <1>4 DEF Separate

-----------------------------------------------------------------------------
(* Keys.                                                                   *)

(* MinKey and MaxKeyOf are keys of the table, and bound the others.        *)
LEMMA KeyRange ==
    ASSUME NEW t, files[t.name].recs # {}, Known(files[t.name].recs, seq)
    PROVE  /\ KeysAt(files, t) \in SUBSET Nat
           /\ MinKey(t) \in KeysAt(files, t) /\ \A k \in KeysAt(files, t) : MinKey(t) <= k
           /\ MaxKeyOf(t) \in KeysAt(files, t) /\ \A k \in KeysAt(files, t) : k <= MaxKeyOf(t)
<1>1. PICK K : K = KeysAt(files, t)
  OBVIOUS
<1>2. K \in SUBSET Nat /\ K # {} /\ MaxKey \in Nat /\ \A k \in K : k <= MaxKey
  <2>1. MaxKey \in Nat
    BY ManagerAssumption
  <2>2. \A r \in files[t.name].recs : r.key \in 1 .. MaxKey
    BY DEF Known, Keys
  <2>3. \A k \in K : k \in 1 .. MaxKey
    BY <1>1, <2>2 DEF KeysAt, KeysOf
  <2>4. K # {}
    BY <1>1 DEF KeysAt, KeysOf
  <2> QED
    BY <2>1, <2>3, <2>4
<1>3. MinKey(t) = Min(K) /\ MaxKeyOf(t) = Max(K)
  BY <1>1 DEF MinKey, MaxKeyOf, Recs, KeysAt, KeysOf
<1>4. Min(K) \in K /\ \A k \in K : Min(K) <= k
  BY <1>2, MinOfNaturals
<1>5. Max(K) \in K /\ \A k \in K : k <= Max(K)
  BY <1>2, MaxOfNaturals
<1> QED
  BY ONLY <1>1, <1>2, <1>3, <1>4, <1>5

(* Keys all below lo, or all above hi, do not interleave with those of a   *)
(* set that lies in lo .. hi, or that meets it and is apart from them.     *)
LEMMA ApartFromRange ==
    ASSUME NEW U \in SUBSET Nat, NEW V \in SUBSET Nat, NEW lo \in Nat, NEW hi \in Nat,
           \/ \A v \in V : lo <= v /\ v <= hi
           \/ Apart(U, V) /\ (\E v \in V : lo <= v) /\ \E v \in V : v <= hi
    PROVE  /\ (\A u \in U : u < lo) => Below(U, V)
           /\ (\A u \in U : hi < u) => Below(V, U)
<1>1. CASE \A v \in V : lo <= v /\ v <= hi
  BY <1>1 DEF Below
<1>2. CASE Apart(U, V) /\ (\E v \in V : lo <= v) /\ \E v \in V : v <= hi
  <2>1. ASSUME \A u \in U : u < lo, NEW u \in U, Below(V, U) PROVE FALSE
    BY <1>2, <2>1 DEF Below
  <2>2. ASSUME \A u \in U : hi < u, NEW u \in U, Below(U, V) PROVE FALSE
    BY <1>2, <2>2 DEF Below
  <2>3. U = {} => Below(U, V) /\ Below(V, U)
    BY DEF Below
  <2> QED
    BY <1>2, <2>1, <2>2, <2>3 DEF Apart
<1> QED
  BY <1>1, <1>2

(* Tables that are on disk and apart have ranges that are.                 *)
LEMMA DisjointRanges ==
    ASSUME NEW g \in Lists, Present(files, g, {}), Separate(files, g, {}),
           Recorded(files, worker, seq),
           NEW n \in Nat \ {0}, NEW i \in 1 .. Len(g[n]), NEW j \in 1 .. Len(g[n]), i # j
    PROVE  MaxKeyOf(g[n][i]) < MinKey(g[n][j]) \/ MaxKeyOf(g[n][j]) < MinKey(g[n][i])
<1>1. PICK t, u : t = g[n][i] /\ u = g[n][j]
  OBVIOUS
<1>2. OnDisk(files, t) /\ OnDisk(files, u)
  BY <1>1 DEF Present
<1>3. Known(files[t.name].recs, seq) /\ Known(files[u.name].recs, seq)
  BY <1>2 DEF OnDisk, Recorded
<1>4. Apart(KeysAt(files, t), KeysAt(files, u))
  BY <1>1 DEF Separate, Spread
<1>5. MinKey(t) \in KeysAt(files, t) /\ MaxKeyOf(t) \in KeysAt(files, t)
  BY <1>2, <1>3, KeyRange DEF OnDisk
<1>6. MinKey(u) \in KeysAt(files, u) /\ MaxKeyOf(u) \in KeysAt(files, u)
  BY <1>2, <1>3, KeyRange DEF OnDisk
<1>7. MaxKeyOf(t) < MinKey(u) \/ MaxKeyOf(u) < MinKey(t)
  BY ONLY <1>4, <1>5, <1>6 DEF Apart, Below
<1> QED
  BY <1>1, <1>7

-----------------------------------------------------------------------------
(* Steps that leave the manifest alone.                                    *)

(* Only files with a number that no table has yet are touched.             *)
LEMMA QuietStep ==
    ASSUME manifest \in Manifest, Orderly, worker.pc \in {"idle", "compact", "add"},
           UNCHANGED manifest, Recorded(files', worker', seq'),
           NEW b \in Int, manifest.next <= b,
           \A n \in DOMAIN files : n[2] # b => n \in DOMAIN files' /\ files'[n] = files[n],
           status' = "up" => status = "up" /\ nextId <= nextId', nextId \in Nat, nextId' \in Nat,
           worker'.pc \in {"idle", "compact", "add"}, Named(worker'.inputs),
           Adding(files', AllRows(manifest), worker', manifest.next, nextId')
    PROVE  Orderly'
<1>1. PICK g \in Lists : g = AllRows(manifest)
  BY ListsType
<1>2. PICK fs, fs2 : fs = files /\ fs2 = files'
  OBVIOUS
<1>3. /\ Identified(g, manifest.next) /\ Present(fs, g, {}) /\ Separate(fs, g, {})
  BY <1>1, <1>2 DEF Orderly, Sound, MissingOf, ExemptOf
<1>4. manifest.next \in Int /\ \A n \in Nat : \A k \in 1 .. Len(g[n]) : g[n][k] \in Reader
  BY <1>1, SMTT(40) DEF Manifest, Lists
<1>5. ASSUME NEW n \in Nat, NEW k \in 1 .. Len(g[n])
      PROVE  g[n][k].name[2] # b
  <2>1. g[n][k].id = g[n][k].name[2] /\ g[n][k].id < manifest.next
    BY <1>3 DEF Identified, Named, Earlier
  <2>2. g[n][k].id \in Nat
    BY <1>4 DEF Reader
  <2> QED
    BY <1>4, <2>1, <2>2
<1>6. \A n \in Nat : \A k \in 1 .. Len(g[n]) :
         g[n][k].name \in DOMAIN fs => /\ g[n][k].name \in DOMAIN fs2
                                       /\ fs2[g[n][k].name].recs = fs[g[n][k].name].recs
  BY <1>2, <1>5
<1>7. Present(fs2, g, {}) /\ Separate(fs2, g, {})
  <2>1. PICK E : E = {}
    OBVIOUS
  <2>2. E \subseteq E /\ Present(fs, g, E) /\ Separate(fs, g, E)
    BY <1>3, <2>1
  <2>3. \A n \in Nat : \A k \in 1 .. Len(g[n]) :
           \/ g[n][k].id \in E
           \/ g[n][k].name \in DOMAIN fs => /\ g[n][k].name \in DOMAIN fs2
                                            /\ fs2[g[n][k].name].recs = fs[g[n][k].name].recs
    BY <1>6
  <2>4. Present(fs2, g, E) /\ Separate(fs2, g, E)
    BY ONLY g \in Lists, <2>2, <2>3, FilesKept
  <2> QED
    BY <2>1, <2>4
<1>8. MissingOf(worker') = {} /\ ExemptOf(worker') = {}
  BY DEF MissingOf, ExemptOf
<1>9. Sound(files', manifest, worker', nextId')
  BY <1>1, <1>2, <1>3, <1>7, <1>8 DEF Sound
<1>10. status' = "up" => manifest.next <= nextId'
  BY <1>4 DEF Orderly
<1> QED
  BY <1>9, <1>10 DEF Orderly

(* The same when the worker neither merges nor flushes.                    *)
LEMMA CalmStep ==
    ASSUME manifest \in Manifest, Orderly, worker.pc \in {"idle", "compact", "add"},
           UNCHANGED manifest, Recorded(files', worker', seq'),
           NEW b \in Int, manifest.next <= b,
           \A n \in DOMAIN files : n[2] # b => n \in DOMAIN files' /\ files'[n] = files[n],
           status' = "up" => status = "up" /\ nextId <= nextId', nextId \in Nat, nextId' \in Nat,
           worker'.pc \in {"idle", "compact"}, worker'.inputs = <<>>
    PROVE  Orderly'
<1>1. Named(worker'.inputs) /\ Adding(files', AllRows(manifest), worker', manifest.next, nextId')
  BY DEF Named, Adding
<1> QED
  BY <1>1, QuietStep

(* Records stay known when sequence numbers go on.                         *)
LEMMA KnownLater ==
    ASSUME NEW R, NEW s \in Nat, NEW n \in Nat, Known(R, s), s <= n
    PROVE  Known(R, n)
BY DEF Known

(* A new, unfinished file.                                                 *)
LEMMA RecordedNew ==
    ASSUME NEW w, NEW s \in Nat, Recorded(files, w, s), NEW name, NEW n \in Nat, s <= n,
           files' = Written(files, name, Partial), NEW x, Known(x.content.recs, n)
    PROVE  Recorded(files', x, n)
<1>1. ASSUME NEW f \in DOMAIN files' PROVE Known(files'[f].recs, n)
  <2>1. CASE f = name
    <3>1. files'[f].recs = {}
      BY <2>1 DEF Written, Partial
    <3> QED
      BY <3>1 DEF Known
  <2>2. CASE f # name
    <3>1. f \in DOMAIN files /\ files'[f] = files[f]
      BY <2>2 DEF Written
    <3> QED
      BY <3>1, KnownLater DEF Recorded
  <2> QED
    BY <2>1, <2>2
<1> QED
  BY <1>1 DEF Recorded

(* The content of an idle worker.                                          *)
LEMMA IdleContent ==
    /\ Idle.content.recs = {} /\ Idle.pc = "idle" /\ Idle.inputs = <<>>
    /\ \A s : Known(Idle.content.recs, s)
BY DEF Idle, Table, Known

(* GoOn leaves an idle worker or one at the next layer.                    *)
LEMMA GoOnContent ==
    ASSUME NEW ls, NEW i, GoOn(ls, i)
    PROVE  worker'.pc \in {"idle", "compact"} /\ worker'.inputs = <<>> /\ worker'.content.recs = {}
<1>1. worker' = Idle \/ worker' = [Idle EXCEPT !.pc = "compact", !.i = i]
  BY DEF GoOn
<1>2. worker' = Idle \/ worker' = [pc |-> "compact", i |-> i, id |-> 0, to |-> 0,
                                   content |-> Table({}, {}), inputs |-> <<>>]
  BY <1>1 DEF Idle
<1> QED
  BY <1>2 DEF Idle, Table

(* The loop of Compact goes on, or a memtable without records is flushed.  *)
LEMMA OnwardStep ==
    ASSUME ManifestInv, Orderly, status = "up", worker.pc \in {"idle", "compact"},
           NEW ls, NEW i, GoOn(ls, i), UNCHANGED <<nextId, files, manifest>>,
           seq' \in Nat, seq <= seq'
    PROVE  Orderly'
<1>1. worker'.pc \in {"idle", "compact"} /\ worker'.inputs = <<>> /\ worker'.content.recs = {}
  BY GoOnContent
<1>2. manifest \in Manifest /\ nextId \in Nat /\ manifest.next \in Int
  BY DEF ManifestInv, TypeInv, Manifest
<1>3. Recorded(files', worker', seq')
  <2>1. Known(worker'.content.recs, seq')
    BY <1>1 DEF Known
  <2>2. seq \in Nat /\ \A n \in DOMAIN files : Known(files[n].recs, seq)
    BY DEF Orderly, Recorded
  <2>3. \A n \in DOMAIN files : Known(files[n].recs, seq')
    BY <2>2, KnownLater
  <2> QED
    BY <2>1, <2>3 DEF Recorded
<1>4. manifest.next <= nextId /\ nextId <= nextId'
  BY <1>2 DEF Orderly
<1> QED
  BY <1>1, <1>2, <1>3, <1>4, CalmStep

(* The process ends, but not in the middle of a merge's deletions.         *)
LEMMA DeadStep ==
    ASSUME ManifestInv, Orderly, Die, ~torn', UNCHANGED manifest,
           NEW b \in Int, manifest.next <= b,
           \A n \in DOMAIN files : n[2] # b => n \in DOMAIN files' /\ files'[n] = files[n],
           \A n \in DOMAIN files' : Known(files'[n].recs, seq)
    PROVE  Orderly'
<1>1. worker' = Idle /\ nextId' = 0 /\ status' = "down" /\ seq' = seq
  BY DEF Die
<1>2. worker.pc \in {"idle", "compact", "add"}
  BY DEF Die, ManifestInv, TypeInv, WorkerInv
<1>3. manifest \in Manifest /\ nextId \in Nat /\ nextId' \in Nat
  BY <1>1 DEF ManifestInv, TypeInv
<1>4. Recorded(files', worker', seq')
  BY <1>1, IdleContent DEF Recorded, Orderly
<1>5. worker'.pc \in {"idle", "compact"} /\ worker'.inputs = <<>> /\ status' # "up"
  BY <1>1, IdleContent
<1> QED
  BY <1>2, <1>3, <1>4, <1>5, CalmStep

-----------------------------------------------------------------------------
(* The actions of the flush worker.                                        *)

(* Flush begins a table of L0 with the memtable's record.                  *)
LEMMA FlushOrderly ==
    ASSUME ManifestInv, Orderly, NEW m \in Memtables, Flush(m)
    PROVE  Orderly'
<1>. DEFINE n == Cardinality(m.ranges)
            s == IF m.rangeFirst THEN seq + n + 1 ELSE seq + 1
            R == {Rec(m.key, s, m.op, IF m.op = "Op" THEN {s} ELSE {}, m.exp)}
<1>1. /\ status = "up" /\ worker.pc = "idle" /\ seq' = seq + 1 + n
      /\ files' = Written(files, <<0, nextId>>, Partial) /\ nextId' = nextId + 1
      /\ UNCHANGED <<manifest, status>>
  BY DEF Flush, CanFlush
<1>2. \E d : worker' = [pc |-> "add", i |-> 0, id |-> nextId, to |-> 0, inputs |-> <<>>,
                        content |-> Table(R, d)]
  BY DEF Flush
<1>3. /\ worker'.pc = "add" /\ worker'.id = nextId /\ worker'.to = 0 /\ worker'.inputs = <<>>
      /\ worker'.content.recs = R
  <2>. HIDE DEF R
  <2> QED
    BY <1>2 DEF Table
<1>4. /\ manifest \in Manifest /\ nextId \in Nat /\ nextId' \in Nat /\ manifest.next \in Int
      /\ seq \in Nat /\ manifest.next <= nextId
  BY <1>1 DEF ManifestInv, TypeInv, Manifest, Orderly, Recorded
<1>5. n \in Nat /\ m.key \in Keys
  BY ManagerAssumption, FS_CardinalityType
<1>. HIDE DEF n
<1>6. seq' \in Nat /\ seq <= seq' /\ s \in 0 .. seq'
  BY <1>1, <1>4, <1>5
<1>. HIDE DEF s
<1>7. Known(R, seq') /\ R # {}
  BY <1>5, <1>6 DEF Known, Rec
<1>. HIDE DEF R
<1>8. Recorded(files', worker', seq')
  <2>1. Recorded(files, worker, seq)
    BY DEF Orderly
  <2>2. Known(worker'.content.recs, seq')
    BY <1>3, <1>7
  <2> QED
    BY ONLY <1>1, <1>4, <1>6, <2>1, <2>2, RecordedNew
<1>9. \A f \in DOMAIN files : f[2] # nextId => f \in DOMAIN files' /\ files'[f] = files[f]
  BY <1>1 DEF Written
<1>10. Named(worker'.inputs) /\ Adding(files', AllRows(manifest), worker', manifest.next, nextId')
  <2>1. <<0, nextId>> \in DOMAIN files'
    BY <1>1 DEF Written
  <2>2. Named(worker'.inputs)
    BY <1>3 DEF Named
  <2> QED
    BY <1>1, <1>3, <1>4, <1>7, <2>1, <2>2 DEF Adding
<1>11. nextId <= nextId' /\ nextId \in Int
  BY <1>1, <1>4
<1> QED
  BY <1>1, <1>3, <1>4, <1>8, <1>9, <1>10, <1>11, QuietStep

(* A memtable without point records.                                       *)
LEMMA FlushNothingOrderly ==
    ASSUME ManifestInv, Orderly, FlushNothing
    PROVE  Orderly'
<1>1. /\ status = "up" /\ worker.pc = "idle" /\ seq' = seq + 1 /\ GoOn(layers, 0)
      /\ UNCHANGED <<nextId, files, manifest>>
  BY DEF FlushNothing, CanFlush
<1>2. seq' \in Nat /\ seq <= seq'
  BY <1>1 DEF Orderly, Recorded
<1> QED
  BY <1>1, <1>2, OnwardStep

(* The finished table is entered in its layer.                             *)
LEMMA AddOrderly ==
    ASSUME ManifestInv, Orderly, Add
    PROVE  Orderly'
<1>. DEFINE name == <<worker.to, worker.id>>
            t == [id |-> worker.id, layer |-> worker.to, name |-> name]
            sm == Saved(manifest)
<1>1. /\ status = "up" /\ worker.pc = "add" /\ files' = [files EXCEPT ![name] = worker.content]
      /\ manifest' = [ManifestPut(sm, worker.to, Append(ManifestRows(sm, worker.to), t))
                         EXCEPT !.next = nextId]
      /\ worker' = [worker EXCEPT !.pc = IF worker.inputs = <<>> THEN "compact" ELSE "delete",
                                  !.content = Idle.content]
      /\ UNCHANGED <<nextId, status, seq>>
  BY DEF Add
<1>2. WorkerInv /\ manifest \in Manifest /\ nextId \in Nat
  BY DEF ManifestInv, TypeInv
<1>3. PICK to \in Nat, id \in Nat : to = worker.to /\ id = worker.id
  BY <1>2 DEF WorkerInv
<1>4. PICK u \in Reader : u = t /\ u.id = id /\ u.name = name /\ u.name[2] = id /\ name = <<to, id>>
  <2>1. t \in Reader /\ t.id = id /\ t.name = name /\ t.name[2] = id /\ name = <<to, id>>
    BY <1>3 DEF Reader
  <2>. HIDE DEF t, name
  <2> QED
    BY <2>1
<1>. HIDE DEF t, name
<1>5. PICK g \in Lists : g = AllRows(manifest) /\ \A n \in Nat : g[n] = ManifestRows(manifest, n)
  BY <1>2, ListsType
<1>6. /\ Identified(g, manifest.next) /\ Present(files, g, {}) /\ Separate(files, g, {})
      /\ Named(worker.inputs)
  BY <1>1, <1>5 DEF Orderly, Sound, MissingOf, ExemptOf
<1>7. /\ manifest.next <= id /\ id < nextId /\ name \in DOMAIN files /\ worker.content.recs # {}
      /\ worker.inputs = <<>> => to = 0
      /\ to # 0 => Fits(files, g[to], worker)
  BY <1>1, <1>3, <1>4, <1>5 DEF Orderly, Sound, Adding
<1>8. /\ worker'.pc = IF worker.inputs = <<>> THEN "compact" ELSE "delete"
      /\ worker'.inputs = worker.inputs /\ worker'.content = Idle.content
  BY <1>1, <1>2 DEF WorkerInv
<1>9. PICK top \in Int : top = manifest.next
  BY <1>2 DEF Manifest
(* No row has the number of the new table.                                 *)
<1>10. \A n \in Nat : \A k \in 1 .. Len(g[n]) :
          g[n][k].id \in Nat /\ g[n][k].id < id /\ g[n][k].name # name
  <2>1. ASSUME NEW n \in Nat, NEW k \in 1 .. Len(g[n])
        PROVE  g[n][k].id \in Nat /\ g[n][k].id < id /\ g[n][k].name # name
    <3>1. g[n][k].id = g[n][k].name[2] /\ g[n][k].id < top
      BY <1>6, <1>9 DEF Identified, Named, Earlier
    <3>2. g[n][k].id \in Nat
      BY ListElement
    <3>3. g[n][k].id < id
      BY <1>7, <1>9, <3>1, <3>2
    <3> QED
      BY <1>4, <3>1, <3>2, <3>3
  <2> QED
    BY <2>1
<1>11. PICK fs2 : fs2 = files' /\ DOMAIN fs2 = DOMAIN files /\ fs2[name] = worker.content
                  /\ \A f \in DOMAIN files : f # name => fs2[f] = files[f]
  BY <1>1, <1>7
<1>. PICK Y : Y = IF worker.inputs = <<>> THEN {} ELSE Ids(worker.inputs)
  OBVIOUS
<1>12. Present(fs2, g, {}) /\ Separate(fs2, g, Y)
  <2>1. PICK E, fs : E = {} /\ fs = files
    OBVIOUS
  <2>2. E \subseteq Y /\ Present(fs, g, E) /\ Separate(fs, g, Y)
    BY <1>6, <2>1, MoreExceptions
  <2>3. \A n \in Nat : \A k \in 1 .. Len(g[n]) :
           \/ g[n][k].id \in E
           \/ g[n][k].name \in DOMAIN fs => /\ g[n][k].name \in DOMAIN fs2
                                            /\ fs2[g[n][k].name].recs = fs[g[n][k].name].recs
    BY <1>10, <1>11, <2>1
  <2>4. Present(fs2, g, E) /\ Separate(fs2, g, Y)
    BY ONLY g \in Lists, <2>2, <2>3, FilesKept
  <2> QED
    BY <2>1, <2>4
<1>13. PICK a \in Seq(Reader) : a = Append(g[to], u)
  BY <1>5, AppendProperties DEF Lists
<1>14. PICK h \in Lists : /\ h = AllRows(manifest') /\ manifest'.next = nextId
                          /\ h[to] = Append(g[to], u) /\ \A l \in Nat : l # to => h[l] = g[l]
  <2>1. PICK m \in Manifest : m = sm
    BY <1>2, SavedRows
  <2>2. \A n \in Nat : ManifestRows(m, n) = g[n]
    BY <1>2, <1>5, <2>1, SavedRows
  <2>3. manifest' = [ManifestPut(m, to, a) EXCEPT !.next = nextId]
    BY <1>1, <1>3, <1>4, <1>13, <2>1, <2>2
  <2>4. /\ manifest' \in Manifest /\ manifest'.next = nextId
        /\ \A n \in Nat : Rows(n)' = IF n = to THEN a ELSE ManifestRows(m, n)
    BY <1>2, <2>3, SaveRows
  <2>5. \A n \in Nat : ManifestRows(manifest', n) = IF n = to THEN a ELSE g[n]
    BY <2>2, <2>4 DEF Rows
  <2>6. PICK m2 \in Manifest : m2 = manifest'
    BY <2>4
  <2>7. AllRows(m2) \in Lists /\ \A n \in Nat : AllRows(m2)[n] = ManifestRows(m2, n)
    BY ListsType
  <2> QED
    BY <1>13, <2>4, <2>5, <2>6, <2>7
<1>15. Identified(h, nextId) /\ Present(fs2, h, {}) /\ Separate(fs2, h, Y)
  <2>1. Identified(g, nextId)
    <3>1. Earlier(g, nextId)
      BY <1>2, <1>7, <1>10 DEF Earlier
    <3> QED
      BY <1>6, <3>1 DEF Identified
  <2>2. OnDisk(fs2, u)
    BY <1>4, <1>7, <1>11 DEF OnDisk
  <2>3. Room(fs2, g, to, u, Y)
    <3>1. SUFFICES ASSUME to # 0, NEW k \in 1 .. Len(g[to])
                   PROVE  g[to][k].id \in Y \/ Apart(KeysAt(fs2, u), KeysAt(fs2, g[to][k]))
      BY DEF Room
    <3>2. worker.inputs # <<>> /\ Fits(files, g[to], worker)
      BY <1>7, <3>1
    <3>3. g[to][k].id \in Y \/ Apart(KeysOf(worker.content.recs), KeysAt(files, g[to][k]))
      BY <3>2 DEF Fits
    <3>4. KeysAt(fs2, u) = KeysOf(worker.content.recs)
      BY <1>4, <1>11 DEF KeysAt
    <3>5. KeysAt(fs2, g[to][k]) = KeysAt(files, g[to][k])
      <4>1. g[to][k].name \in DOMAIN files /\ g[to][k].name # name
        BY <1>6, <1>10 DEF Present, OnDisk
      <4> QED
        BY <1>11, <4>1 DEF KeysAt
    <3> QED
      BY <3>3, <3>4, <3>5
  <2>4. u.id < nextId /\ \A l \in Nat : \A k \in 1 .. Len(g[l]) : g[l][k].id # u.id
    BY <1>4, <1>7, <1>10
  <2>5. PICK x \in Int : x = nextId
    BY <1>2
  <2>6. PICK E : E = {}
    OBVIOUS
  <2>7. Identified(g, x) /\ Fresh(g, x, u) /\ Present(fs2, g, E)
    BY <1>4, <1>12, <2>1, <2>4, <2>5, <2>6 DEF Fresh
  <2>8. Joins(g, h, to, u)
    BY <1>14 DEF Joins
  <2>9. Identified(h, x) /\ Present(fs2, h, E) /\ Separate(fs2, h, Y)
    BY ONLY g \in Lists, x \in Int, to \in Nat, u \in Reader, h \in Lists, <1>12, <2>2, <2>3,
            <2>7, <2>8, TableJoins
  <2> QED
    BY <2>5, <2>6, <2>9
<1>16. ExemptOf(worker') = Y /\ MissingOf(worker') = {} /\ worker'.pc # "add"
  BY <1>8 DEF ExemptOf, MissingOf
<1>17. Sound(files', manifest', worker', nextId')
  BY <1>6, <1>8, <1>11, <1>14, <1>15, <1>16 DEF Sound, Adding
<1>18. Recorded(files', worker', seq')
  <2>1. Recorded(files, worker, seq)
    BY DEF Orderly
  <2>2. \A f \in DOMAIN files' : Known(files'[f].recs, seq)
    BY <1>11, <2>1 DEF Recorded
  <2> QED
    BY <1>1, <1>8, <2>1, <2>2, IdleContent DEF Recorded
<1>19. manifest'.next <= nextId'
  <2>1. manifest'.next = nextId /\ nextId' = nextId
    BY <1>1, <1>14
  <2> QED
    BY ONLY <1>2, <2>1
<1> QED
  BY <1>17, <1>18, <1>19 DEF Orderly

(* First half of a round of DeleteSSTables: the file of an input goes, and *)
(* no other table's.                                                       *)
LEMMA DeleteOrderly ==
    ASSUME ManifestInv, Orderly, Delete, ~torn'
    PROVE  Orderly'
<1>1. status = "up" /\ worker.pc = "delete" /\ WorkerInv /\ worker.inputs # <<>> /\ manifest \in Manifest
  BY DEF Delete, ManifestInv, TypeInv, WorkerInv
<1>2. PICK t \in Reader : t = First /\ t = worker.inputs[1]
  BY <1>1, FirstType
<1>3. /\ \/ files' = files
         \/ files' = [n \in DOMAIN files \ {t.name} |-> files[n]]
      /\ worker' = [worker EXCEPT !.pc = "unlist"]
      /\ UNCHANGED <<nextId, status, manifest, seq>>
  <2>1. ~Panic("notFound")
    BY <1>1 DEF Panic, Die
  <2> QED
    BY <1>2, <2>1 DEF Delete, First, history
<1>4. /\ worker'.pc = "unlist" /\ worker'.inputs = worker.inputs /\ worker'.content = worker.content
  BY <1>1, <1>3 DEF WorkerInv
<1>5. PICK g \in Lists : g = AllRows(manifest)
  BY <1>1, ListsType
<1>6. PICK fs, fs2, X, Y : fs = files /\ fs2 = files' /\ X = {t.id} /\ Y = Ids(worker.inputs)
  OBVIOUS
<1>7. /\ Identified(g, manifest.next) /\ Present(fs, g, {}) /\ Separate(fs, g, Y)
      /\ Named(worker.inputs)
  BY <1>1, <1>5, <1>6 DEF Orderly, Sound, MissingOf, ExemptOf
<1>8. t.id = t.name[2] /\ X \subseteq Y /\ {} \subseteq X
  <2>1. 1 \in 1 .. Len(worker.inputs)
    BY <1>1, FirstType
  <2> QED
    BY <1>2, <1>6, <1>7, <2>1 DEF Named, Ids
<1>9. \A f \in DOMAIN fs : f # t.name => f \in DOMAIN fs2 /\ fs2[f] = fs[f]
  BY <1>3, <1>6
<1>10. \A n \in Nat : \A k \in 1 .. Len(g[n]) :
          \/ g[n][k].id \in X
          \/ g[n][k].name \in DOMAIN fs => /\ g[n][k].name \in DOMAIN fs2
                                           /\ fs2[g[n][k].name].recs = fs[g[n][k].name].recs
  <2>1. ASSUME NEW n \in Nat, NEW k \in 1 .. Len(g[n]), g[n][k].id \notin X
        PROVE  g[n][k].name # t.name
    <3>1. g[n][k].id = g[n][k].name[2]
      BY <1>7 DEF Identified, Named
    <3> QED
      BY <1>6, <1>8, <2>1, <3>1
  <2> QED
    BY <1>9, <2>1
<1>11. Present(fs, g, X)
  BY <1>7, <1>8, MoreExceptions
<1>12. Present(fs2, g, X) /\ Separate(fs2, g, Y)
  <2>1. X \subseteq Y /\ Present(fs, g, X) /\ Separate(fs, g, Y)
    BY <1>7, <1>8, <1>11
  <2> QED
    BY ONLY g \in Lists, <1>10, <2>1, FilesKept
<1>13. ExemptOf(worker') = Y /\ MissingOf(worker') = X
  BY <1>2, <1>4, <1>6 DEF ExemptOf, MissingOf
<1>14. Sound(files', manifest', worker', nextId')
  BY <1>3, <1>4, <1>5, <1>6, <1>7, <1>12, <1>13 DEF Sound, Adding
<1>15. Recorded(files', worker', seq')
  <2>1. Recorded(files, worker, seq)
    BY DEF Orderly
  <2>2. \A f \in DOMAIN files' : f \in DOMAIN files /\ files'[f] = files[f]
    BY <1>3
  <2> QED
    BY <1>3, <1>4, <2>1, <2>2 DEF Recorded
<1> QED
  BY <1>3, <1>14, <1>15 DEF Orderly

(* Second half: its entry goes, and with it the exception.                 *)
LEMMA UnlistOrderly ==
    ASSUME ManifestInv, Orderly, Unlist, ~torn'
    PROVE  Orderly'
<1>1. /\ status = "up" /\ worker.pc = "unlist" /\ WorkerInv /\ worker.inputs # <<>>
      /\ manifest \in Manifest /\ nextId \in Nat
  BY DEF Unlist, ManifestInv, TypeInv, WorkerInv
<1>2. PICK t \in Reader, n \in Nat : t = First /\ n = t.layer
  BY <1>1, FirstType
<1>3. PICK s \in Seq(Reader) : s = worker.inputs /\ t = s[1] /\ Len(s) \in Nat \ {0}
  BY <1>1, <1>2, FirstType DEF WorkerInv
<1>4. PICK g \in Lists : g = AllRows(manifest) /\ \A l \in Nat : g[l] = ManifestRows(manifest, l)
  BY <1>1, ListsType
<1>5. PICK r \in Seq(Reader) : r = g[n]
  BY DEF Lists
<1>6. /\ Without(r, t.id) # r
      /\ manifest' = [ManifestPut(manifest, n, Without(r, t.id)) EXCEPT !.next = nextId]
      /\ \/ Len(s) = 1 /\ GoOn(layers, worker.i)
         \/ Len(s) # 1 /\ worker' = [worker EXCEPT !.pc = "delete", !.inputs = Tail(@)]
      /\ UNCHANGED <<nextId, status, files, seq>>
  <2>1. ~Panic("notFound")
    BY <1>1 DEF Panic, Die
  <2> QED
    BY <1>2, <1>3, <1>4, <1>5, <2>1 DEF Unlist, First, history
<1>7. PICK w \in Seq(Reader) : w = Without(r, t.id)
  BY WithoutFacts
<1>8. PICK h \in Lists : h = AllRows(manifest') /\ manifest'.next = nextId /\ Leaves(g, h, n, t.id)
  <2>1. PICK m \in Manifest : m = manifest
    BY <1>1
  <2>2. manifest' = [ManifestPut(m, n, w) EXCEPT !.next = nextId]
    BY <1>6, <1>7, <2>1
  <2>3. /\ manifest' \in Manifest /\ manifest'.next = nextId
        /\ \A l \in Nat : Rows(l)' = IF l = n THEN w ELSE ManifestRows(m, l)
    BY ONLY m \in Manifest, n \in Nat, w \in Seq(Reader), <1>1, <2>2, SaveRows
  <2>4. PICK m2 \in Manifest : m2 = manifest'
    BY <2>3
  <2>5. AllRows(m2) \in Lists /\ \A l \in Nat : AllRows(m2)[l] = IF l = n THEN w ELSE g[l]
    BY <1>4, <2>1, <2>3, <2>4, ListsType DEF Rows
  <2>6. \E k \in 1 .. Len(r) : r[k].id = t.id
    BY ONLY r \in Seq(Reader), <1>6, WithoutAbsent
  <2> QED
    BY <1>5, <1>7, <2>3, <2>4, <2>5, <2>6 DEF Leaves
<1>9. PICK fs, X, Y, id : fs = files /\ X = {t.id} /\ Y = Ids(s) /\ id = t.id
  OBVIOUS
<1>10. /\ Identified(g, manifest.next) /\ Present(fs, g, X) /\ Separate(fs, g, Y)
       /\ Named(s) /\ manifest.next <= nextId
  BY <1>1, <1>3, <1>4, <1>9 DEF Orderly, Sound, MissingOf, ExemptOf
<1>11. PICK top \in Int : top = manifest.next
  BY <1>1 DEF Manifest
<1>12. Identified(h, top) /\ Present(fs, h, X \ {id}) /\ Separate(fs, h, Y \ {id})
  <2>1. Leaves(g, h, n, id) /\ Identified(g, top)
    BY <1>8, <1>9, <1>10, <1>11
  <2> QED
    BY ONLY g \in Lists, h \in Lists, n \in Nat, <1>10, <2>1, TableLeaves
<1>13. Identified(h, nextId)
  <2>1. ASSUME NEW l \in Nat, NEW k \in 1 .. Len(h[l]) PROVE h[l][k].id < nextId
    <3>1. h[l][k].id \in Nat
      BY ListElement
    <3>2. h[l][k].id < top
      BY <1>12 DEF Identified, Earlier
    <3> QED
      BY <1>1, <1>10, <1>11, <3>1, <3>2, SMTT(40)
  <2> QED
    BY <1>12, <2>1 DEF Identified, Earlier
<1>14. Present(fs, h, {})
  <2>1. X \ {id} = {}
    BY <1>9
  <2> QED
    BY <1>12, <2>1
<1>15. CASE Len(s) = 1 /\ GoOn(layers, worker.i)
  <2>1. worker'.pc \in {"idle", "compact"} /\ worker'.inputs = <<>> /\ worker'.content.recs = {}
    BY <1>15, GoOnContent
  <2>2. Y \ {id} = {}
    BY <1>3, <1>9, <1>15 DEF Ids
  <2>3. ExemptOf(worker') = {} /\ MissingOf(worker') = {}
    BY <2>1 DEF ExemptOf, MissingOf
  <2>a. Separate(fs, h, {}) /\ Named(worker'.inputs) /\ worker'.pc # "add"
    <3>1. Separate(fs, h, {})
      BY ONLY <1>12, <2>2
    <3>2. Named(<<>>)
      BY DEF Named
    <3> QED
      BY ONLY <2>1, <3>1, <3>2
  <2>4. Sound(files', manifest', worker', nextId')
    BY <1>6, <1>8, <1>9, <1>13, <1>14, <2>a, <2>3 DEF Sound, Adding
  <2>5. Recorded(files', worker', seq')
    BY <1>6, <2>1 DEF Orderly, Recorded, Known
  <2> QED
    BY <1>1, <1>6, <1>8, <2>4, <2>5 DEF Orderly
<1>16. CASE Len(s) # 1 /\ worker' = [worker EXCEPT !.pc = "delete", !.inputs = Tail(@)]
  <2>. DEFINE u == Tail(s)
  <2>1. /\ u \in Seq(Reader) /\ Len(u) = Len(s) - 1
        /\ \A k \in 1 .. Len(s) - 1 : u[k] = s[k + 1]
    BY ONLY s \in Seq(Reader), <1>3
  <2>2. worker'.pc = "delete" /\ worker'.inputs = u /\ worker'.content = worker.content
    BY <1>1, <1>3, <1>16 DEF WorkerInv
  <2>. HIDE DEF u
  <2>3. Y \ {id} \subseteq Ids(u)
    <3>1. SUFFICES ASSUME NEW k \in 1 .. Len(s), s[k].id # id PROVE s[k].id \in Ids(u)
      BY <1>9 DEF Ids
    <3>2. k # 1
      BY <1>3, <1>9, <3>1
    <3>3. k - 1 \in 1 .. Len(s) - 1 /\ (k - 1) + 1 = k
      BY <1>3, <3>2
    <3>4. u[k - 1] = s[k] /\ k - 1 \in 1 .. Len(u)
      BY <2>1, <3>3
    <3> QED
      BY <3>4 DEF Ids
  <2>4. Named(u)
    <3>1. \A k \in 1 .. Len(u) : k + 1 \in 1 .. Len(s) /\ u[k] = s[k + 1]
      BY <1>3, <2>1
    <3> QED
      BY <1>10, <3>1 DEF Named
  <2>5. ExemptOf(worker') = Ids(u) /\ MissingOf(worker') = {}
    BY <2>2 DEF ExemptOf, MissingOf
  <2>6. Separate(fs, h, Ids(u))
    BY <1>12, <2>3, MoreExceptions
  <2>7. Sound(files', manifest', worker', nextId')
    BY <1>6, <1>8, <1>9, <1>13, <1>14, <2>2, <2>4, <2>5, <2>6 DEF Sound, Adding
  <2>8. Recorded(files', worker', seq')
    BY <1>6, <2>2 DEF Orderly, Recorded
  <2> QED
    BY <1>1, <1>6, <1>8, <2>7, <2>8 DEF Orderly
<1> QED
  BY <1>6, <1>15, <1>16

-----------------------------------------------------------------------------
(* The other callers, and the ends of a process.                           *)

(* Nothing is out of order where there is nothing.                         *)
LEMMA EmptyOrderly ==
    ASSUME \A n \in Nat : ManifestRows(manifest', n) = <<>>, Recorded(files', worker', seq'),
           worker'.pc = "idle", worker'.inputs = <<>>, status' = "up" => manifest'.next <= nextId'
    PROVE  Orderly'
<1>1. PICK g : g = AllRows(manifest')
  OBVIOUS
<1>2. \A n \in Nat : g[n] = <<>> /\ Len(g[n]) = 0
  BY <1>1 DEF AllRows
<1>3. Identified(g, manifest'.next)
  BY <1>2 DEF Identified, Named, Distinct, Earlier
<1>4. \A fs : Present(fs, g, {}) /\ Separate(fs, g, {})
  BY <1>2 DEF Present, Separate, Spread
<1>5. MissingOf(worker') = {} /\ ExemptOf(worker') = {}
  BY DEF MissingOf, ExemptOf
<1>6. Sound(files', manifest', worker', nextId')
  BY <1>1, <1>3, <1>4, <1>5 DEF Sound, Named, Adding
<1> QED
  BY <1>6 DEF Orderly

(* The empty engine.                                                       *)
LEMMA OrderlyClear ==
    ASSUME ManifestInv, Orderly, QuietClear, ClearAll
    PROVE  Orderly'
<1>1. /\ worker.pc = "idle" /\ nextId' = 0 /\ files' = <<>> /\ manifest' = NoManifest
      /\ UNCHANGED <<worker, seq>>
  BY DEF ClearAll
<1>2. \A n \in Nat : ManifestRows(manifest', n) = <<>>
  BY <1>1, EmptyRows
<1>3. worker'.pc = "idle" /\ worker'.inputs = <<>>
  BY <1>1 DEF ManifestInv, TypeInv, WorkerInv
<1>4. manifest'.next <= nextId'
  BY <1>1 DEF NoManifest
<1>5. Recorded(files', worker', seq')
  <2>1. DOMAIN files' = {}
    BY <1>1
  <2> QED
    BY <1>1, <2>1 DEF Orderly, Recorded
<1> QED
  BY <1>2, <1>3, <1>4, <1>5, EmptyOrderly

(* A lost manifest.                                                        *)
LEMMA LoseOrderly ==
    ASSUME ManifestInv, Orderly, LoseManifest
    PROVE  Orderly'
<1>1. status' = "down" /\ manifest' = NoManifest /\ UNCHANGED <<worker, files, seq>> /\ worker = Idle
  BY DEF LoseManifest, volatile, ManifestInv, TypeInv
<1>2. \A n \in Nat : ManifestRows(manifest', n) = <<>>
  BY <1>1, EmptyRows
<1>3. worker'.pc = "idle" /\ worker'.inputs = <<>>
  BY <1>1, IdleContent
<1>4. Recorded(files', worker', seq')
  BY <1>1 DEF Orderly, Recorded
<1> QED
  BY <1>1, <1>2, <1>3, <1>4, EmptyOrderly

(* A crash outside of a merge's deletions.                                 *)
LEMMA CrashOrderly ==
    ASSUME ManifestInv, Orderly, Crash, ~torn'
    PROVE  Orderly'
<1>1. Die /\ UNCHANGED manifest /\ manifest \in Manifest /\ WorkerInv /\ manifest.next \in Int
  BY DEF Crash, ManifestInv, TypeInv, Manifest
<1>2. \A f \in DOMAIN files : Known(files[f].recs, seq)
  BY DEF Orderly, Recorded
<1>3. CASE worker.pc = "add"
  <2>1. PICK c \in {Partial, worker.content} : files' = [files EXCEPT ![<<worker.to, worker.id>>] = c]
    BY <1>3 DEF Crash
  <2>2. PICK b \in Int, a \in Int : b = worker.id /\ a = worker.to
    BY <1>1 DEF WorkerInv
  <2>3. manifest.next <= b
    BY <1>3, <2>2 DEF Orderly, Sound, Adding
  <2>4. \A f \in DOMAIN files : f[2] # b => f \in DOMAIN files' /\ files'[f] = files[f]
    BY <2>1, <2>2
  <2>5. Known(c.recs, seq)
    <3>1. Known(worker.content.recs, seq)
      BY DEF Orderly, Recorded
    <3>2. Partial.recs = {}
      BY DEF Partial
    <3>3. Known({}, seq)
      BY DEF Known
    <3> QED
      BY <3>1, <3>2, <3>3
  <2>6. ASSUME NEW f \in DOMAIN files' PROVE Known(files'[f].recs, seq)
    <3>1. f \in DOMAIN files /\ (files'[f] = c \/ files'[f] = files[f])
      BY <2>1
    <3> QED
      BY <1>2, <2>5, <3>1
  <2> QED
    BY <1>1, <2>3, <2>4, <2>6, DeadStep
<1>4. CASE worker.pc # "add"
  <2>1. files' = files
    BY <1>4 DEF Crash
  <2>2. PICK b \in Int : b = manifest.next
    BY <1>1
  <2>3. manifest.next <= b /\ \A f \in DOMAIN files : f \in DOMAIN files' /\ files'[f] = files[f]
    BY <2>1, <2>2
  <2>4. \A f \in DOMAIN files' : Known(files'[f].recs, seq)
    BY <1>2, <2>1
  <2> QED
    BY <1>1, <2>3, <2>4, DeadStep
<1> QED
  BY <1>3, <1>4

(* Without files, reconstruct finds no tables.                             *)
LEMMA NoFilesNoRows ==
    ASSUME DOMAIN files = {}, NEW n \in Nat
    PROVE  ManifestRows(Reconstruct, n) = <<>>
<1>. DEFINE idsOf(l) == {f[2] : f \in {e \in DOMAIN files : e[1] = l}}
            rows(l) == [i \in 1 .. Cardinality(idsOf(l)) |->
                           LET id == Nth(idsOf(l), i) IN [id |-> id, layer |-> l, name |-> <<l, id>>]]
            ls == [l \in 1 .. MaxHeight |-> rows(l - 1)]
<1>1. Reconstruct.layers = ls
  BY DEF Reconstruct
<1>2. ASSUME NEW l PROVE rows(l) = <<>>
  <2>1. idsOf(l) = {}
    OBVIOUS
  <2>. HIDE DEF idsOf
  <2>2. Cardinality(idsOf(l)) = 0
    BY <2>1, FS_EmptySet
  <2>3. 1 .. Cardinality(idsOf(l)) = {}
    BY <2>2
  <2> QED
    BY <2>3
<1>. HIDE DEF rows
<1>3. MaxHeight \in Nat
  BY ManagerAssumption
<1>4. ls = [l \in 1 .. MaxHeight |-> <<>>] /\ Len(ls) = MaxHeight
  BY ONLY <1>2, <1>3
<1>. HIDE DEF ls
<1> QED
  BY <1>1, <1>3, <1>4 DEF ManifestRows

(* A start reads the rows, or there are none.                              *)
LEMMA RestartOrderly ==
    ASSUME ManifestInv, Orderly, Restart, ~torn'
    PROVE  Orderly'
<1>1. /\ manifest' = IF manifest = NoManifest THEN Reconstruct ELSE manifest
      /\ nextId' = manifest'.next /\ status = "down"
      /\ manifest = NoManifest => files = <<>>
      /\ UNCHANGED <<worker, files, seq>>
  BY DEF Restart
<1>2. worker = Idle /\ FilesInv /\ manifest \in Manifest
  BY <1>1 DEF ManifestInv, TypeInv
<1>3. worker'.pc = "idle" /\ worker'.inputs = <<>>
  BY <1>1, <1>2, IdleContent
<1>4. Recorded(files', worker', seq')
  BY <1>1 DEF Orderly, Recorded
<1>5. nextId' \in Int /\ manifest'.next <= nextId'
  <2>1. Reconstruct.next \in Nat
    BY <1>2, ReconstructRows
  <2>2. manifest.next \in Int
    BY <1>2 DEF Manifest
  <2> QED
    BY <1>1, <2>1, <2>2
<1>6. CASE manifest = NoManifest
  <2>1. DOMAIN files = {}
    BY <1>1, <1>6
  <2>2. \A n \in Nat : ManifestRows(manifest', n) = <<>>
    BY <1>1, <1>6, <2>1, NoFilesNoRows
  <2> QED
    BY <1>3, <1>4, <1>5, <2>2, EmptyOrderly
<1>7. CASE manifest # NoManifest
  <2>1. UNCHANGED manifest /\ worker.pc = "idle"
    BY <1>1, <1>2, <1>7, IdleContent
  <2>2. Sound(files', manifest', worker', nextId')
    BY <1>1, <2>1 DEF Orderly, Sound, Adding
  <2> QED
    BY <1>4, <1>5, <2>2 DEF Orderly
<1> QED
  BY <1>6, <1>7

-----------------------------------------------------------------------------
(* What a merge writes.                                                    *)

(* A set of records has a newest one.                                      *)
LEMMA NewestElement ==
    ASSUME NEW V, V # {}, NEW s \in Nat, Known(V, s)
    PROVE  NewestOf(V) \in V
<1>. DEFINE I == {r.seq : r \in V}
<1>1. I \in SUBSET Nat /\ I # {} /\ \A i \in I : i <= s
  BY DEF Known
<1>2. PICK m \in I : \A i \in I : i <= m
  <2>. HIDE DEF I
  <2> QED
    BY <1>1, GreatestElement
<1>3. \E r \in V : \A q \in V : q.seq <= r.seq
  BY <1>2
<1> QED
  BY <1>3 DEF NewestOf

(* A merge writes for a key records of that key, with a sequence number it *)
(* has seen.                                                               *)
LEMMA MergedRecords ==
    ASSUME NEW V, V # {}, NEW s \in Nat, Known(V, s), NEW k, \A r \in V : r.key = k,
           NEW rds, NEW skip, NEW q \in MergedKey(V, rds, skip)
    PROVE  q.key = k /\ q.key \in Keys /\ q.seq \in 0 .. s
<1>1. PICK new : new = NewestOf(V)
  OBVIOUS
<1>2. new \in V /\ new.key = k /\ new.key \in Keys /\ new.seq \in 0 .. s
  BY <1>1, NewestElement DEF Known
<1>3. \/ q = new
      \/ q = Rec(new.key, new.seq, "Base", ApplyAll(V), FALSE)
      \/ q \in V
  <2>. DEFINE B == Rec(new.key, new.seq, "Base", ApplyAll(V), FALSE)
              C == IsCoveredByRangeTombstone(rds, new.key, new.seq)
  <2>1. MergedKey(V, rds, skip) =
          CASE new.op = "Del" -> IF skip THEN {} ELSE {new}
            [] new.op # "Del" /\ C -> {}
            [] new.op \in {"Base", "Op"} /\ ~C -> {B}
            [] OTHER -> {r \in IF new.key \in snap THEN V ELSE {new} : ~Expired(r)}
    BY <1>1 DEF MergedKey
  <2>. HIDE DEF B, C
  <2>2. q = new \/ q = B \/ q \in V
    BY <2>1
  <2> QED
    BY <2>2 DEF B
<1>4. CASE q = Rec(new.key, new.seq, "Base", ApplyAll(V), FALSE)
  <2>1. q.key = new.key /\ q.seq = new.seq
    BY <1>4 DEF Rec
  <2> QED
    BY <1>2, <2>1
<1>5. CASE q = new \/ q \in V
  BY <1>2, <1>5 DEF Known
<1> QED
  BY <1>3, <1>4, <1>5

(* The records of the tables of a list, and those a merge makes of them.   *)
Source(s) == UNION {Recs(t) : t \in ToSet(s)}
Result(R, rds, skip) == UNION {MergedKey(OfKey(R, k), rds, skip) : k \in {r.key : r \in R}}

(* A merge writes no keys of its own.                                      *)
LEMMA MergedContent ==
    ASSUME NEW R, NEW s \in Nat, Known(R, s), NEW rds, NEW skip
    PROVE  Known(Result(R, rds, skip), s) /\ KeysOf(Result(R, rds, skip)) \subseteq KeysOf(R)
<1>1. ASSUME NEW q \in Result(R, rds, skip)
      PROVE  q.key \in Keys /\ q.seq \in 0 .. s /\ q.key \in KeysOf(R)
  <2>1. PICK k \in {r.key : r \in R} : q \in MergedKey(OfKey(R, k), rds, skip)
    BY DEF Result
  <2>2. PICK V : V = OfKey(R, k)
    OBVIOUS
  <2>3. V # {} /\ Known(V, s) /\ \A r \in V : r.key = k
    BY <2>1, <2>2 DEF OfKey, Known
  <2>4. q \in MergedKey(V, rds, skip)
    BY <2>1, <2>2
  <2>5. q.key = k /\ q.key \in Keys /\ q.seq \in 0 .. s
    BY ONLY s \in Nat, <2>3, <2>4, MergedRecords
  <2> QED
    BY <2>1, <2>5 DEF KeysOf
<1> QED
  BY <1>1 DEF Known, KeysOf

-----------------------------------------------------------------------------
(* Merges.                                                                 *)

(* The tables in memory are as orderly as the rows.                        *)
LEMMA TabsSound ==
    ASSUME ManifestInv, Orderly, status = "up", worker.pc \in {"idle", "compact"},
           failure # "misplaced", NEW h, h = AllTabs(layers)
    PROVE  /\ h \in Lists /\ Present(files, h, {}) /\ Separate(files, h, {})
           /\ \A n \in Nat : Named(h[n]) /\ h[n] = Tabs(layers, n) /\ Same(Rows(n), h[n])
<1>1. layers \in Seq(Layer) /\ manifest \in Manifest
  BY DEF ManifestInv, TypeInv
<1>2. PICK g \in Lists : g = AllRows(manifest) /\ \A n \in Nat : g[n] = Rows(n)
  BY <1>1, ListsType DEF Rows
<1>3. h \in Lists /\ \A n \in Nat : h[n] = Tabs(layers, n)
  BY <1>1, ListsType
<1>4. \A n \in Nat : Same(Rows(n), Tabs(layers, n))
  BY DEF ManifestInv, Agreement, RowsLeft
<1>5. PICK fs, E : fs = files /\ E = {}
  OBVIOUS
<1>6. Present(fs, g, E) /\ Separate(fs, g, E) /\ \A n \in Nat : Named(g[n])
  BY <1>2, <1>5 DEF Orderly, Sound, MissingOf, ExemptOf, Identified
<1>7. \A n \in Nat : Same(g[n], h[n])
  BY <1>2, <1>3, <1>4
<1>8. Present(fs, h, E) /\ Separate(fs, h, E) /\ \A n \in Nat : Named(h[n])
  BY ONLY g \in Lists, <1>3, <1>6, <1>7, SameLists
<1> QED
  BY <1>3, <1>4, <1>5, <1>8

(* The list takes tables of the layers.                                    *)
Taken(s) ==
    \A p \in 1 .. Len(s) : \E n \in Nat : \E k \in 1 .. Len(Tabs(layers, n)) : s[p] = Tabs(layers, n)[k]

(* Their merge fits into layer n.                                          *)
RoomFor(s, n) ==
    n # 0 => \A k \in 1 .. Len(Tabs(layers, n)) :
                \/ Tabs(layers, n)[k].id \in Ids(s)
                \/ Apart(KeysOf(Source(s)), KeysAt(files, Tabs(layers, n)[k]))

(* Tables of the layers are on disk.                                       *)
LEMMA TakenTables ==
    ASSUME ManifestInv, Orderly, status = "up", worker.pc \in {"idle", "compact"},
           failure # "misplaced", NEW s \in Seq(Reader), Taken(s)
    PROVE  /\ Named(s) /\ Known(Source(s), seq)
           /\ \A p \in 1 .. Len(s) : OnDisk(files, s[p]) /\ Known(files[s[p].name].recs, seq)
<1>1. PICK h : h = AllTabs(layers)
  OBVIOUS
<1>2. /\ Present(files, h, {})
      /\ \A n \in Nat : Named(h[n]) /\ h[n] = Tabs(layers, n)
  BY <1>1, TabsSound
<1>3. ASSUME NEW p \in 1 .. Len(s)
      PROVE  /\ OnDisk(files, s[p]) /\ s[p].id = s[p].name[2]
             /\ Known(files[s[p].name].recs, seq)
  <2>1. PICK n \in Nat : \E k \in 1 .. Len(Tabs(layers, n)) : s[p] = Tabs(layers, n)[k]
    BY DEF Taken
  <2>2. PICK k \in 1 .. Len(h[n]) : s[p] = h[n][k]
    BY <1>2, <2>1
  <2>3. OnDisk(files, s[p])
    BY <1>2, <2>2 DEF Present
  <2>4. s[p].id = s[p].name[2]
    BY <1>2, <2>2 DEF Named
  <2>5. Known(files[s[p].name].recs, seq)
    BY <2>3 DEF OnDisk, Orderly, Recorded
  <2> QED
    BY <2>3, <2>4, <2>5
<1>4. Known(Source(s), seq)
  <2>1. ASSUME NEW r \in Source(s) PROVE r.key \in Keys /\ r.seq \in 0 .. seq
    <3>1. PICK t \in ToSet(s) : r \in Recs(t)
      BY DEF Source
    <3>2. PICK p \in 1 .. Len(s) : t = s[p]
      BY <3>1 DEF ToSet
    <3> QED
      BY <1>3, <3>1, <3>2 DEF Recs, Known
  <2> QED
    BY <2>1 DEF Known
<1> QED
  BY <1>3, <1>4 DEF Named

(* MergeSSTables begins a table that fits into its layer.                  *)
LEMMA MergeOrderly ==
    ASSUME ManifestInv, Orderly, status = "up", worker.pc = "compact", failure # "misplaced", ~torn',
           NEW inputs \in Seq(Reader), inputs # <<>>, Taken(inputs),
           NEW to \in Nat, RoomFor(inputs, to), NEW skip, NEW ls, MergeSSTables(inputs, to, skip, ls)
    PROVE  Orderly'
<1>. DEFINE all == Source(inputs)
            rds == MergeAndFragment(ToSet(inputs))
            out == Result(all, rds, skip)
<1>1. /\ files' = Written(files, <<to, nextId>>, Partial) /\ UNCHANGED manifest
      /\ \/ \E why \in {"noBase", "noLeaves"} : Panic(why)
         \/ /\ nextId' = nextId + 1 /\ UNCHANGED <<status, seq>>
            /\ \/ \E next : GoOn(ls, next)
               \/ /\ out # {}
                  /\ \E next, d : worker' = [pc |-> "add", i |-> next, id |-> nextId, to |-> to,
                                             inputs |-> inputs, content |-> Table(out, d)]
  <2>1. /\ files' = Written(files, <<to, nextId>>, Partial) /\ UNCHANGED manifest
        /\ \/ \E why \in {"noBase", "noLeaves"} : Panic(why)
           \/ /\ nextId' = nextId + 1 /\ UNCHANGED <<strategy, frags, snap, status, history>>
              /\ \/ \E next : GoOn(ls, next)
                 \/ /\ out # {}
                    /\ \E next, d : worker' = [pc |-> "add", i |-> next, id |-> nextId, to |-> to,
                                               inputs |-> inputs, content |-> Table(out, d)]
    BY Zenon DEF MergeSSTables, Source, Result
  <2>. HIDE DEF out
  <2> QED
    BY <2>1 DEF history
<1>2. /\ manifest \in Manifest /\ nextId \in Nat /\ manifest.next \in Int /\ manifest.next <= nextId
      /\ seq \in Nat /\ Recorded(files, worker, seq)
  BY DEF ManifestInv, TypeInv, Manifest, Orderly, Recorded
<1>3. PICK b \in Int : b = nextId /\ manifest.next <= b
  BY <1>2
<1>4. \A f \in DOMAIN files : f[2] # b => f \in DOMAIN files' /\ files'[f] = files[f]
  BY <1>1, <1>3 DEF Written
<1>5. Known(out, seq) /\ KeysOf(out) \subseteq KeysOf(all)
  <2>1. Known(all, seq)
    BY TakenTables
  <2>. HIDE DEF all, rds
  <2> QED
    BY <1>2, <2>1, MergedContent
<1>. HIDE DEF out, all, rds
<1>6. \A x : Known(x.content.recs, seq) => Recorded(files', x, seq)
  BY ONLY <1>1, <1>2, RecordedNew
<1>7. CASE \E why \in {"noBase", "noLeaves"} : Panic(why)
  <2>1. Recorded(files', Idle, seq)
    BY <1>6, IdleContent
  <2>2. \A f \in DOMAIN files' : Known(files'[f].recs, seq)
    BY <2>1 DEF Recorded
  <2>3. Die
    BY <1>7 DEF Panic
  <2> QED
    BY <1>1, <1>3, <1>4, <2>2, <2>3, DeadStep
<1>8. CASE nextId' = nextId + 1 /\ UNCHANGED <<status, seq>> /\ \E next : GoOn(ls, next)
  <2>1. worker'.pc \in {"idle", "compact"} /\ worker'.inputs = <<>> /\ worker'.content.recs = {}
    BY <1>8, GoOnContent
  <2>2. Recorded(files', worker', seq')
    <3>1. Known(worker'.content.recs, seq)
      BY <2>1 DEF Known
    <3> QED
      BY <1>6, <1>8, <3>1
  <2>3. nextId <= nextId' /\ nextId' \in Nat
    BY <1>2, <1>8
  <2> QED
    BY <1>1, <1>2, <1>3, <1>4, <1>8, <2>1, <2>2, <2>3, CalmStep
<1>9. CASE /\ nextId' = nextId + 1 /\ UNCHANGED <<status, seq>> /\ out # {}
           /\ \E next, d : worker' = [pc |-> "add", i |-> next, id |-> nextId, to |-> to,
                                      inputs |-> inputs, content |-> Table(out, d)]
  <2>1. /\ worker'.pc = "add" /\ worker'.id = nextId /\ worker'.to = to /\ worker'.inputs = inputs
        /\ worker'.content.recs = out
    BY <1>9 DEF Table
  <2>2. Recorded(files', worker', seq')
    BY <1>5, <1>6, <1>9, <2>1
  <2>3. nextId <= nextId' /\ nextId' \in Nat /\ nextId < nextId'
    BY <1>2, <1>9
  <2>4. Named(worker'.inputs)
    BY <2>1, TakenTables
  <2>5. <<to, nextId>> \in DOMAIN files'
    BY <1>1 DEF Written
  <2>6. PICK g \in Lists : g = AllRows(manifest) /\ \A n \in Nat : g[n] = Rows(n)
    BY <1>2, ListsType DEF Rows
  <2>7. to # 0 => Fits(files', g[to], worker')
    <3>1. SUFFICES ASSUME to # 0, NEW k \in 1 .. Len(g[to])
                   PROVE  \/ g[to][k].id \in Ids(inputs)
                          \/ Apart(KeysOf(out), KeysAt(files', g[to][k]))
      BY <2>1 DEF Fits
    <3>2. PICK s : s = Tabs(layers, to) /\ Same(g[to], s)
      BY <2>6, TabsSound
    <3>3. k \in 1 .. Len(s) /\ g[to][k].id = s[k].id /\ g[to][k].name = s[k].name
      BY <3>2 DEF Same
    <3>4. s[k].id \in Ids(inputs) \/ Apart(KeysOf(all), KeysAt(files, s[k]))
      BY <3>1, <3>2, <3>3 DEF RoomFor, all
    <3>5. KeysAt(files', g[to][k]) = KeysAt(files, s[k])
      <4>1. /\ OnDisk(files, g[to][k]) /\ g[to][k].id = g[to][k].name[2]
            /\ g[to][k].id < manifest.next
        BY <2>6 DEF Orderly, Sound, MissingOf, Present, Identified, Named, Earlier
      <4>2. g[to][k].id \in Nat
        BY ListElement
      <4>3. g[to][k].name[2] # b
        BY <1>2, <1>3, <4>1, <4>2
      <4> QED
        BY <1>4, <3>3, <4>1, <4>3 DEF KeysAt, OnDisk
    <3>6. CASE Apart(KeysOf(all), KeysAt(files, s[k]))
      <4>1. Apart(KeysOf(out), KeysAt(files, s[k]))
        BY ONLY <1>5, <3>6 DEF Apart, Below
      <4> QED
        BY <3>5, <4>1
    <3> QED
      BY <3>3, <3>4, <3>6
  <2>8. Adding(files', AllRows(manifest), worker', manifest.next, nextId')
    BY <1>2, <1>9, <2>1, <2>3, <2>5, <2>6, <2>7 DEF Adding
  <2> QED
    BY <1>1, <1>2, <1>3, <1>4, <1>9, <2>1, <2>2, <2>3, <2>4, <2>8, QuietStep
<1> QED
  BY <1>1, <1>7, <1>8, <1>9

(* The inputs are the tables of the layer that meet the range lo .. hi,    *)
(* and others whose keys are in the range: the rest of the layer stays     *)
(* apart from their merge.                                                 *)
Meets(t, lo, hi) == MaxKeyOf(t) >= lo /\ MinKey(t) <= hi
Inside(t, lo, hi) == \A v \in KeysAt(files, t) : lo <= v /\ v <= hi
AroundRange(s, tabs, lo, hi) ==
    /\ \A k \in 1 .. Len(tabs) : Meets(tabs[k], lo, hi) => tabs[k].id \in Ids(s)
    /\ \A p \in 1 .. Len(s) : \/ Inside(s[p], lo, hi)
                              \/ \E k \in 1 .. Len(tabs) : s[p] = tabs[k] /\ Meets(tabs[k], lo, hi)

(* Leveled compaction's choice leaves room.                                *)
LEMMA RangeRoom ==
    ASSUME ManifestInv, Orderly, status = "up", worker.pc = "compact", failure # "misplaced",
           NEW inputs \in Seq(Reader), Taken(inputs), NEW to \in Nat,
           NEW lo \in Nat, NEW hi \in Nat, AroundRange(inputs, Tabs(layers, to), lo, hi)
    PROVE  RoomFor(inputs, to)
<1>1. SUFFICES ASSUME to # 0, NEW k \in 1 .. Len(Tabs(layers, to)), Tabs(layers, to)[k].id \notin Ids(inputs)
               PROVE  Apart(KeysOf(Source(inputs)), KeysAt(files, Tabs(layers, to)[k]))
  BY DEF RoomFor
<1>2. PICK h : h = AllTabs(layers)
  OBVIOUS
<1>3. /\ h \in Lists /\ Present(files, h, {}) /\ Separate(files, h, {})
      /\ \A n \in Nat : h[n] = Tabs(layers, n)
  BY <1>2, TabsSound
<1>4. PICK s : s = h[to] /\ s = Tabs(layers, to) /\ Spread(files, s, {}) /\ k \in 1 .. Len(s)
  BY <1>1, <1>3 DEF Separate
<1>5. PICK u : u = s[k]
  OBVIOUS
<1>6. \A j \in 1 .. Len(s) : OnDisk(files, s[j]) /\ Known(files[s[j].name].recs, seq)
  BY <1>3, <1>4 DEF Present, OnDisk, Orderly, Recorded
<1>7. /\ KeysAt(files, u) \in SUBSET Nat
      /\ MinKey(u) \in KeysAt(files, u) /\ \A v \in KeysAt(files, u) : MinKey(u) <= v
      /\ MaxKeyOf(u) \in KeysAt(files, u) /\ \A v \in KeysAt(files, u) : v <= MaxKeyOf(u)
  <2>1. OnDisk(files, u) /\ Known(files[u.name].recs, seq)
    BY <1>4, <1>5, <1>6
  <2> QED
    BY <2>1, KeyRange DEF OnDisk
<1>8. PICK U \in SUBSET Nat : U = KeysAt(files, u)
  BY <1>7
<1>9. (\A v \in U : v < lo) \/ (\A v \in U : hi < v)
  <2>1. ~(MaxKeyOf(u) >= lo /\ MinKey(u) <= hi)
    BY <1>1, <1>4, <1>5 DEF AroundRange, Meets
  <2>2. MaxKeyOf(u) \in Nat /\ MinKey(u) \in Nat
    BY <1>7
  <2> QED
    BY <1>7, <1>8, <2>1, <2>2
<1>10. ASSUME NEW p \in 1 .. Len(inputs)
       PROVE  /\ (\A v \in U : v < lo) => Below(U, KeysAt(files, inputs[p]))
              /\ (\A v \in U : hi < v) => Below(KeysAt(files, inputs[p]), U)
  <2>1. OnDisk(files, inputs[p]) /\ Known(files[inputs[p].name].recs, seq)
    BY TakenTables
  <2>2. PICK t : t = inputs[p]
    OBVIOUS
  <2>3. /\ KeysAt(files, t) \in SUBSET Nat
        /\ MinKey(t) \in KeysAt(files, t) /\ MaxKeyOf(t) \in KeysAt(files, t)
    BY <2>1, <2>2, KeyRange DEF OnDisk
  <2>4. PICK V \in SUBSET Nat : V = KeysAt(files, t)
    BY <2>3
  <2>5. \/ \A v \in V : lo <= v /\ v <= hi
        \/ Apart(U, V) /\ (\E v \in V : lo <= v) /\ \E v \in V : v <= hi
    <3>1. CASE Inside(t, lo, hi)
      BY <2>4, <3>1 DEF Inside
    <3>2. CASE \E j \in 1 .. Len(s) : t = s[j] /\ Meets(s[j], lo, hi)
      <4>1. PICK j \in 1 .. Len(s) : t = s[j] /\ Meets(s[j], lo, hi)
        BY <3>2
      <4>2. j # k
        <5>1. t.id \in Ids(inputs)
          BY <2>2 DEF Ids
        <5> QED
          BY <1>1, <1>4, <4>1, <5>1
      <4>3. Apart(U, V)
        <5>1. Apart(KeysAt(files, s[k]), KeysAt(files, s[j]))
          BY ONLY <1>4, <4>1, <4>2 DEF Spread
        <5> QED
          BY <1>5, <1>8, <2>4, <4>1, <5>1
      <4>4. MaxKeyOf(t) >= lo /\ MinKey(t) <= hi
        BY <4>1 DEF Meets
      <4> QED
        BY <2>3, <2>4, <4>3, <4>4
    <3>3. Inside(t, lo, hi) \/ \E j \in 1 .. Len(s) : t = s[j] /\ Meets(s[j], lo, hi)
      BY <1>4, <2>2 DEF AroundRange
    <3> QED
      BY <3>1, <3>2, <3>3
  <2>6. /\ (\A v \in U : v < lo) => Below(U, V)
        /\ (\A v \in U : hi < v) => Below(V, U)
    BY ONLY U \in SUBSET Nat, V \in SUBSET Nat, lo \in Nat, hi \in Nat, <2>5, ApartFromRange
  <2> QED
    BY <2>2, <2>4, <2>6
<1>11. \A v \in KeysOf(Source(inputs)) : \E p \in 1 .. Len(inputs) : v \in KeysAt(files, inputs[p])
  <2>1. ASSUME NEW r \in Source(inputs) PROVE \E p \in 1 .. Len(inputs) : r.key \in KeysAt(files, inputs[p])
    <3>1. PICK t \in ToSet(inputs) : r \in Recs(t)
      BY DEF Source
    <3>2. PICK p \in 1 .. Len(inputs) : t = inputs[p]
      BY <3>1 DEF ToSet
    <3>3. r.key \in KeysAt(files, inputs[p])
      BY <3>1, <3>2 DEF Recs, KeysAt, KeysOf
    <3> QED
      BY <3>3
  <2> QED
    BY <2>1 DEF KeysOf
<1>12. Apart(KeysOf(Source(inputs)), U)
  <2>1. CASE \A v \in U : v < lo
    <3>1. Below(U, KeysOf(Source(inputs)))
      BY <1>10, <1>11, <2>1 DEF Below
    <3> QED
      BY <3>1 DEF Apart
  <2>2. CASE \A v \in U : hi < v
    <3>1. Below(KeysOf(Source(inputs)), U)
      BY <1>10, <1>11, <2>2 DEF Below
    <3> QED
      BY <3>1 DEF Apart
  <2> QED
    BY <1>9, <2>1, <2>2
<1> QED
  BY <1>4, <1>5, <1>8, <1>12

(* A whole layer is merged into itself.                                    *)
LEMMA LayerRoom ==
    ASSUME NEW inputs, NEW n \in Nat, inputs = Tabs(layers, n)
    PROVE  Taken(inputs) /\ RoomFor(inputs, n)
BY DEF Taken, RoomFor, Ids

(* v has the tables of s that meet the range lo .. hi.                     *)
Selects(v, s, lo, hi) ==
    /\ v \in Seq(Reader)
    /\ \A k \in 1 .. Len(v) : \E j \in 1 .. Len(s) : v[k] = s[j] /\ Meets(s[j], lo, hi)
    /\ \A j \in 1 .. Len(s) : Meets(s[j], lo, hi) => \E k \in 1 .. Len(v) : v[k] = s[j]

(* These are what Overlapping takes from a list.                           *)
LEMMA OverlappingTables ==
    ASSUME NEW lo, NEW hi, NEW s \in Seq(Reader)
    PROVE  Selects(Overlapping(lo, hi, s), s, lo, hi)
<1>0. PICK v : v = Overlapping(lo, hi, s)
  OBVIOUS
<1>. DEFINE I == {i \in DOMAIN s : MaxKeyOf(s[i]) >= lo /\ MinKey(s[i]) <= hi}
<1>1. I \in SUBSET DOMAIN s /\ v = Chosen(s, I)
  BY <1>0 DEF Overlapping
<1>2. DOMAIN s = 1 .. Len(s) /\ \A j \in 1 .. Len(s) : j \in I <=> Meets(s[j], lo, hi)
  BY DEF Meets
<1>. HIDE DEF I
<1>3. PICK J \in SUBSET DOMAIN s : J = I /\ v = Chosen(s, J)
  BY <1>1
<1>4. /\ v \in Seq(Reader)
      /\ \A k \in 1 .. Len(v) : \E i \in J : v[k] = s[i]
      /\ \A i \in J : \E k \in 1 .. Len(v) : v[k] = s[i]
  BY <1>3, ChosenElements
<1>5. \A i \in J : i \in 1 .. Len(s) /\ Meets(s[i], lo, hi)
  BY <1>2, <1>3
<1>6. Selects(v, s, lo, hi)
  BY <1>2, <1>3, <1>4, <1>5 DEF Selects
<1> QED
  BY <1>0, <1>6

(* The keys of a table of the layers.                                      *)
LEMMA TableRange ==
    ASSUME ManifestInv, Orderly, status = "up", worker.pc = "compact", failure # "misplaced",
           NEW s \in Seq(Reader), Taken(s), NEW p \in 1 .. Len(s)
    PROVE  /\ MinKey(s[p]) \in Nat /\ MaxKeyOf(s[p]) \in Nat /\ MaxKeyOf(s[p]) <= MaxKey
           /\ Inside(s[p], MinKey(s[p]), MaxKeyOf(s[p]))
<1>1. OnDisk(files, s[p]) /\ Known(files[s[p].name].recs, seq)
  BY TakenTables
<1>2. PICK t : t = s[p]
  OBVIOUS
<1>3. /\ KeysAt(files, t) \in SUBSET Nat
      /\ MinKey(t) \in KeysAt(files, t) /\ \A k \in KeysAt(files, t) : MinKey(t) <= k
      /\ MaxKeyOf(t) \in KeysAt(files, t) /\ \A k \in KeysAt(files, t) : k <= MaxKeyOf(t)
  BY <1>1, <1>2, KeyRange DEF OnDisk
<1>4. \A k \in KeysAt(files, t) : k <= MaxKey
  <2>1. \A r \in files[t.name].recs : r.key \in 1 .. MaxKey
    BY <1>1, <1>2 DEF Known, Keys
  <2> QED
    BY <2>1, ManagerAssumption DEF KeysAt, KeysOf
<1> QED
  BY <1>2, <1>3, <1>4 DEF Inside

(* The range of a list of tables.                                          *)
LEMMA ListRange ==
    ASSUME ManifestInv, Orderly, status = "up", worker.pc = "compact", failure # "misplaced",
           NEW s \in Seq(Reader), Taken(s), s # <<>>,
           NEW lo, lo = Min({MinKey(t) : t \in ToSet(s)}),
           NEW hi, hi = Max({MaxKeyOf(t) : t \in ToSet(s)})
    PROVE  lo \in Nat /\ hi \in Nat /\ \A p \in 1 .. Len(s) : Inside(s[p], lo, hi)
<1>1. PICK A, B : A = {MinKey(t) : t \in ToSet(s)} /\ B = {MaxKeyOf(t) : t \in ToSet(s)}
  OBVIOUS
<1>2. ToSet(s) = {s[p] : p \in 1 .. Len(s)} /\ 1 \in 1 .. Len(s)
  BY DEF ToSet
<1>3. \A p \in 1 .. Len(s) : /\ MinKey(s[p]) \in Nat /\ MaxKeyOf(s[p]) \in Nat
                             /\ MaxKeyOf(s[p]) <= MaxKey
                             /\ Inside(s[p], MinKey(s[p]), MaxKeyOf(s[p]))
  BY TableRange
<1>4. A \in SUBSET Nat /\ A # {} /\ B \in SUBSET Nat /\ B # {} /\ \A b \in B : b <= MaxKey
  BY <1>1, <1>2, <1>3
<1>5. MaxKey \in Nat
  BY ManagerAssumption
<1>6. lo \in A /\ \A a \in A : lo <= a
  BY <1>1, <1>4, MinOfNaturals
<1>7. hi \in B /\ \A b \in B : b <= hi
  BY <1>1, <1>4, <1>5, MaxOfNaturals
<1>8. lo \in Nat /\ hi \in Nat
  BY <1>4, <1>6, <1>7
<1>9. ASSUME NEW p \in 1 .. Len(s) PROVE Inside(s[p], lo, hi)
  <2>1. lo <= MinKey(s[p]) /\ MaxKeyOf(s[p]) <= hi
    <3>1. MinKey(s[p]) \in A /\ MaxKeyOf(s[p]) \in B
      BY <1>1, <1>2
    <3> QED
      BY <1>6, <1>7, <3>1
  <2>2. KeysAt(files, s[p]) \in SUBSET Nat
    <3>1. OnDisk(files, s[p]) /\ Known(files[s[p].name].recs, seq)
      BY TakenTables
    <3>2. PICK t : t = s[p]
      OBVIOUS
    <3> QED
      BY <3>1, <3>2, KeyRange DEF OnDisk
  <2>3. PICK x \in Nat, y \in Nat : x = MinKey(s[p]) /\ y = MaxKeyOf(s[p])
    BY <1>3
  <2>4. \A v \in KeysAt(files, s[p]) : x <= v /\ v <= y
    BY <1>3, <2>3 DEF Inside
  <2> QED
    BY <1>8, <2>1, <2>2, <2>3, <2>4 DEF Inside
<1> QED
  BY <1>8, <1>9

(* L0 goes down with the tables of L1 its keys meet.                       *)
LEMMA LeveledL0Orderly ==
    ASSUME ManifestInv, Orderly, failure # "misplaced", LeveledCompactL0, ~torn'
    PROVE  Orderly'
<1>. DEFINE tabs == layers[1].tabs
            grown == GrowTo(layers, 1)
            lo == Min({MinKey(t) : t \in ToSet(tabs)})
            hi == Max({MaxKeyOf(t) : t \in ToSet(tabs)})
            ov == Overlapping(lo, hi, grown[2].tabs)
<1>1. /\ status = "up" /\ worker.pc = "compact"
      /\ 1 <= Len(layers) /\ layers \in Seq(Layer)
  BY DEF LeveledCompactL0, AtLayer, ManifestInv, TypeInv, WorkerInv
<1>2. PICK s \in Seq(Reader) : s = tabs /\ s = Tabs(layers, 0)
  <2>1. Tabs(layers, 0) = tabs
    BY <1>1 DEF Tabs
  <2>2. Tabs(layers, 0) \in Seq(Reader)
    BY <1>1, TabsType
  <2> QED
    BY <2>1, <2>2
<1>3. PICK u \in Seq(Reader) : u = grown[2].tabs /\ u = Tabs(layers, 1)
  <2>1. grown \in Seq(Layer) /\ 2 <= Len(grown) /\ \A n \in Nat : Tabs(grown, n) = Tabs(layers, n)
    BY <1>1, GrowTabs
  <2>. HIDE DEF grown
  <2>2. Tabs(layers, 1) \in Seq(Reader) /\ Tabs(layers, 1) = Tabs(grown, 1)
    BY <1>1, <2>1, TabsType
  <2>3. Tabs(grown, 1) = grown[2].tabs
    BY <2>1 DEF Tabs
  <2> QED
    BY <2>2, <2>3
<1>4. \/ GoOn(layers, 1) /\ Untouched
      \/ Len(s) >= L0Trigger /\ MergeSSTables(s, 0, TRUE, layers)
      \/ Len(s) >= L0Trigger /\ MergeSSTables(ov \o s, 1, FALSE, grown)
  BY <1>2 DEF LeveledCompactL0
<1>5. PICK a, b, v : a = lo /\ b = hi /\ v = ov
  OBVIOUS
<1>6. a = Min({MinKey(t) : t \in ToSet(s)}) /\ b = Max({MaxKeyOf(t) : t \in ToSet(s)})
  BY <1>2, <1>5
<1>7. v = Overlapping(a, b, u)
  BY <1>3, <1>5
<1>. HIDE DEF tabs, grown, lo, hi, ov
<1>8. Len(s) >= L0Trigger => s # <<>>
  BY ManagerAssumption
<1>9. Taken(s) /\ RoomFor(s, 0)
  BY <1>2, LayerRoom
<1>10. CASE GoOn(layers, 1) /\ Untouched
  <2>1. UNCHANGED <<nextId, files, manifest, seq>>
    BY <1>10 DEF Untouched, history
  <2>2. seq' \in Nat /\ seq <= seq'
    BY <2>1 DEF Orderly, Recorded
  <2> QED
    BY <1>1, <1>10, <2>1, <2>2, OnwardStep
<1>11. CASE Len(s) >= L0Trigger /\ MergeSSTables(s, 0, TRUE, layers)
  <2>1. PICK to \in Nat : to = 0
    OBVIOUS
  <2>2. PICK skip, ls : skip = TRUE /\ ls = layers
    OBVIOUS
  <2>3. RoomFor(s, to) /\ MergeSSTables(s, to, skip, ls) /\ s # <<>>
    BY <1>8, <1>9, <1>11, <2>1, <2>2
  <2> QED
    BY <1>1, <1>9, <2>3, MergeOrderly
<1>12. CASE Len(s) >= L0Trigger /\ MergeSSTables(ov \o s, 1, FALSE, grown)
  <2>1. /\ v \in Seq(Reader)
        /\ \A k \in 1 .. Len(v) : \E j \in 1 .. Len(u) : v[k] = u[j] /\ Meets(u[j], a, b)
        /\ \A j \in 1 .. Len(u) : Meets(u[j], a, b) => \E k \in 1 .. Len(v) : v[k] = u[j]
    <3>1. Selects(v, u, a, b)
      BY <1>7, OverlappingTables
    <3> QED
      BY <3>1 DEF Selects
  <2>2. PICK w \in Seq(Reader) :
           /\ w = v \o s /\ Len(w) = Len(v) + Len(s)
           /\ \A i \in 1 .. Len(v) : w[i] = v[i]
           /\ \A i \in 1 .. Len(w) : i \in 1 .. Len(v) \/ \E j \in 1 .. Len(s) : w[i] = s[j]
    <3>1. /\ v \o s \in Seq(Reader) /\ Len(v \o s) = Len(v) + Len(s)
          /\ \A i \in 1 .. Len(v) + Len(s) : (v \o s)[i] = IF i <= Len(v) THEN v[i] ELSE s[i - Len(v)]
      BY <2>1, ConcatProperties
    <3>2. Len(v) \in Nat /\ Len(s) \in Nat
      BY <2>1
    <3>3. PICK w \in Seq(Reader) :
             /\ w = v \o s /\ Len(w) = Len(v) + Len(s)
             /\ \A i \in 1 .. Len(v) + Len(s) : w[i] = IF i <= Len(v) THEN v[i] ELSE s[i - Len(v)]
      BY <3>1
    <3>4. \A i \in 1 .. Len(v) : w[i] = v[i]
      BY <3>2, <3>3
    <3>5. ASSUME NEW i \in 1 .. Len(w), i \notin 1 .. Len(v) PROVE \E j \in 1 .. Len(s) : w[i] = s[j]
      <4>1. i - Len(v) \in 1 .. Len(s) /\ ~(i <= Len(v)) /\ i \in 1 .. Len(v) + Len(s)
        BY <3>2, <3>3, <3>5
      <4> QED
        BY <3>3, <4>1
    <3> QED
      BY <3>3, <3>4, <3>5
  <2>3. Len(v) \in Nat /\ Len(s) \in Nat \ {0} /\ 1 .. Len(v) \subseteq 1 .. Len(w)
    BY <1>8, <1>12, <2>1, <2>2
  <2>4. w # <<>>
    BY <2>2, <2>3
  <2>5. Taken(w)
    <3>1. ASSUME NEW i \in 1 .. Len(w)
          PROVE  \E n \in Nat : \E k \in 1 .. Len(Tabs(layers, n)) : w[i] = Tabs(layers, n)[k]
      <4>1. CASE i \in 1 .. Len(v)
        <5>1. PICK j \in 1 .. Len(u) : v[i] = u[j]
          BY <2>1, <4>1
        <5>2. w[i] = u[j]
          BY <2>2, <4>1, <5>1
        <5> QED
          BY <1>3, <5>2
      <4>2. CASE \E j \in 1 .. Len(s) : w[i] = s[j]
        BY <1>2, <4>2
      <4> QED
        BY <2>2, <4>1, <4>2
    <3> QED
      BY <3>1 DEF Taken
  <2>6. a \in Nat /\ b \in Nat /\ \A p \in 1 .. Len(s) : Inside(s[p], a, b)
    BY <1>1, <1>6, <1>8, <1>9, <1>12, ListRange
  <2>7. AroundRange(w, u, a, b)
    <3>1. ASSUME NEW k \in 1 .. Len(u), Meets(u[k], a, b) PROVE u[k].id \in Ids(w)
      <4>1. PICK i \in 1 .. Len(v) : v[i] = u[k]
        BY <2>1, <3>1
      <4>2. i \in 1 .. Len(w) /\ w[i] = u[k]
        BY <2>2, <2>3, <4>1
      <4> QED
        BY <4>2 DEF Ids
    <3>2. ASSUME NEW p \in 1 .. Len(w)
          PROVE  Inside(w[p], a, b) \/ \E k \in 1 .. Len(u) : w[p] = u[k] /\ Meets(u[k], a, b)
      BY <2>1, <2>2, <2>6
    <3> QED
      BY <3>1, <3>2 DEF AroundRange
  <2>8. PICK to \in Nat : to = 1
    OBVIOUS
  <2>9. RoomFor(w, to)
    <3>1. AroundRange(w, Tabs(layers, to), a, b)
      BY <1>3, <2>7, <2>8
    <3> QED
      BY <1>1, <2>5, <2>6, <3>1, RangeRoom
  <2>10. PICK skip, ls : skip = FALSE /\ ls = grown
    OBVIOUS
  <2>11. MergeSSTables(w, to, skip, ls)
    BY <1>5, <1>12, <2>2, <2>8, <2>10
  <2> QED
    BY <1>1, <2>4, <2>5, <2>9, <2>11, MergeOrderly
<1> QED
  BY <1>4, <1>10, <1>11, <1>12

-----------------------------------------------------------------------------
(* Moves.                                                                  *)

(* A table that meets no table of layer n has room there.                  *)
LEMMA MoveRoom ==
    ASSUME ManifestInv, Orderly, status = "up", worker.pc = "compact", failure # "misplaced",
           NEW i \in Nat, Tabs(layers, i) # <<>>, NEW t \in Reader, t = Tabs(layers, i)[1],
           NEW n \in Nat,
           \A j \in 1 .. Len(Tabs(layers, n)) : ~Meets(Tabs(layers, n)[j], MinKey(t), MaxKeyOf(t))
    PROVE  /\ OnDisk(files, t) /\ t.id = t.name[2]
           /\ \A j \in 1 .. Len(Tabs(layers, n)) :
                 Apart(KeysAt(files, t), KeysAt(files, Tabs(layers, n)[j]))
<1>1. layers \in Seq(Layer)
  BY DEF ManifestInv, TypeInv
<1>2. PICK a \in Seq(Reader), s \in Seq(Reader) : a = Tabs(layers, i) /\ s = Tabs(layers, n)
  BY <1>1, TabsType
<1>3. Taken(a) /\ Taken(s) /\ 1 \in 1 .. Len(a) /\ t = a[1]
  BY <1>2 DEF Taken
<1>4. /\ OnDisk(files, t) /\ t.id = t.name[2] /\ Known(files[t.name].recs, seq)
  BY <1>3, TakenTables DEF Named
<1>5. /\ KeysAt(files, t) \in SUBSET Nat /\ MinKey(t) \in Nat /\ MaxKeyOf(t) \in Nat
      /\ \A k \in KeysAt(files, t) : MinKey(t) <= k /\ k <= MaxKeyOf(t)
  BY <1>4, KeyRange DEF OnDisk
<1>6. ASSUME NEW j \in 1 .. Len(s) PROVE Apart(KeysAt(files, t), KeysAt(files, s[j]))
  <2>1. OnDisk(files, s[j]) /\ Known(files[s[j].name].recs, seq)
    BY <1>3, TakenTables
  <2>2. PICK u : u = s[j]
    OBVIOUS
  <2>3. /\ KeysAt(files, u) \in SUBSET Nat /\ MinKey(u) \in Nat /\ MaxKeyOf(u) \in Nat
        /\ \A k \in KeysAt(files, u) : MinKey(u) <= k /\ k <= MaxKeyOf(u)
    BY <2>1, <2>2, KeyRange DEF OnDisk
  <2>4. MaxKeyOf(u) < MinKey(t) \/ MaxKeyOf(t) < MinKey(u)
    <3>1. ~(MaxKeyOf(u) >= MinKey(t) /\ MinKey(u) <= MaxKeyOf(t))
      BY <1>2, <2>2 DEF Meets
    <3> QED
      BY <1>5, <2>3, <3>1
  <2>5. Apart(KeysAt(files, t), KeysAt(files, u))
    BY ONLY <1>5, <2>3, <2>4 DEF Apart, Below
  <2> QED
    BY <2>2, <2>5
<1> QED
  BY <1>2, <1>4, <1>6

(* A table leaves one list, if it is there, and one like it joins another. *)
Shifted(g, h, k, to, id, e) ==
    \A n \in Nat : h[n] = IF n = to THEN Append(Left(g[n], n, k, id), e) ELSE Left(g[n], n, k, id)

(* The lists stay apart.                                                   *)
LEMMA ShiftedLists ==
    ASSUME NEW g \in Lists, NEW h \in Lists, NEW k \in Nat, NEW to \in Nat, NEW id, NEW e \in Reader,
           Shifted(g, h, k, to, id, e), NEW fs, Present(fs, g, {}), Separate(fs, g, {}),
           OnDisk(fs, e), Room(fs, g, to, e, {})
    PROVE  Present(fs, h, {}) /\ Separate(fs, h, {})
<1>. DEFINE L(n) == Left(g[n], n, k, id)
<1>1. ASSUME NEW n \in Nat
      PROVE  /\ L(n) \in Seq(Reader) /\ (n # 0 => Spread(fs, L(n), {}))
             /\ \A j \in 1 .. Len(L(n)) : \E l \in 1 .. Len(g[n]) : L(n)[j] = g[n][l]
  <2>1. PICK s \in Seq(Reader) : s = g[n]
    BY DEF Lists
  <2>2. n # 0 => Spread(fs, s, {})
    BY <2>1 DEF Separate
  <2>3. PICK w \in Seq(Reader) : w = Without(s, id)
    BY WithoutFacts
  <2>4. n # 0 => Spread(fs, w, {})
    <3>1. PICK E : E = {}
      OBVIOUS
    <3>2. Spread(fs, s, E) => Spread(fs, w, E)
      BY ONLY s \in Seq(Reader), <2>3, SpreadFewer
    <3> QED
      BY <2>2, <3>1, <3>2
  <2>5. \A j \in 1 .. Len(w) : \E l \in 1 .. Len(s) : w[j] = s[l]
    <3>1. PICK f \in [1 .. Len(w) -> 1 .. Len(s)] : \A j \in 1 .. Len(w) : w[j] = s[f[j]]
      BY <2>3, WithoutFacts
    <3> QED
      BY <3>1
  <2>6. L(n) = IF n = k THEN w ELSE s
    BY <2>1, <2>3 DEF Left
  <2>. HIDE DEF L
  <2> QED
    BY <2>1, <2>2, <2>3, <2>4, <2>5, <2>6
<1>. HIDE DEF L
<1>2. \A n \in Nat : h[n] = IF n = to THEN Append(L(n), e) ELSE L(n)
  BY DEF Shifted, L
<1>3. ASSUME NEW n \in Nat PROVE \A j \in 1 .. Len(L(n)) : OnDisk(fs, L(n)[j])
  BY <1>1 DEF Present
<1>4. PICK w \in Seq(Reader), a \in Seq(Reader) :
         /\ w = L(to) /\ a = Append(w, e) /\ Len(a) = Len(w) + 1 /\ a[Len(w) + 1] = e
         /\ \A j \in 1 .. Len(w) : a[j] = w[j]
  <2>1. PICK w \in Seq(Reader) : w = L(to)
    BY <1>1
  <2>2. PICK a \in Seq(Reader) : a = Append(w, e)
    BY AppendProperties
  <2> QED
    BY <2>1, <2>2
<1>5. Present(fs, h, {})
  <2>1. ASSUME NEW n \in Nat, NEW j \in 1 .. Len(h[n]) PROVE OnDisk(fs, h[n][j])
    <3>1. CASE n = to
      <4>1. h[n] = a
        BY <1>2, <1>4, <3>1
      <4>2. j = Len(w) + 1 \/ j \in 1 .. Len(w)
        BY <1>4, <4>1
      <4> QED
        BY <1>3, <1>4, <3>1, <4>1, <4>2
    <3>2. CASE n # to
      BY <1>2, <1>3, <3>2
    <3> QED
      BY <3>1, <3>2
  <2> QED
    BY <2>1 DEF Present
<1>6. ASSUME NEW n \in Nat \ {0} PROVE Spread(fs, h[n], {})
  <2>1. CASE n = to
    <3>1. PICK E : E = {}
      OBVIOUS
    <3>2. Spread(fs, w, E)
      BY <1>1, <1>4, <2>1, <3>1
    <3>3. \A j \in 1 .. Len(w) : w[j].id \in E \/ Apart(KeysAt(fs, e), KeysAt(fs, w[j]))
      <4>1. ASSUME NEW j \in 1 .. Len(w) PROVE Apart(KeysAt(fs, e), KeysAt(fs, w[j]))
        <5>1. PICK l \in 1 .. Len(g[to]) : w[j] = g[to][l]
          BY <1>1, <1>4
        <5>2. Apart(KeysAt(fs, e), KeysAt(fs, g[to][l]))
          BY <2>1 DEF Room
        <5> QED
          BY <5>1, <5>2
      <4> QED
        BY <4>1
    <3>4. Spread(fs, Append(w, e), E)
      BY ONLY w \in Seq(Reader), e \in Reader, <3>2, <3>3, SpreadMore
    <3> QED
      BY <1>2, <1>4, <2>1, <3>1, <3>4
  <2>2. CASE n # to
    BY <1>1, <1>2, <2>2
  <2> QED
    BY <2>1, <2>2
<1> QED
  BY <1>5, <1>6 DEF Separate

(* The identifiers of the lists stay as they were, if the one that leaves  *)
(* was there.                                                              *)
LEMMA ShiftedIds ==
    ASSUME NEW g \in Lists, NEW h \in Lists, NEW k \in Nat, NEW to \in Nat, NEW id, NEW e \in Reader,
           Shifted(g, h, k, to, id, e), NEW top \in Int, Identified(g, top),
           NEW j \in 1 .. Len(g[k]), e = g[k][j], e.id = id,
           NEW fs, Present(fs, g, {}), Separate(fs, g, {}), Room(fs, g, to, e, {})
    PROVE  Identified(h, top) /\ Present(fs, h, {}) /\ Separate(fs, h, {})
<1>1. PICK m : m = [n \in Nat |-> Left(g[n], n, k, id)]
  OBVIOUS
<1>2. ASSUME NEW n \in Nat PROVE m[n] = (IF n = k THEN Without(g[n], id) ELSE g[n]) /\ m[n] \in Seq(Reader)
  <2>1. PICK s \in Seq(Reader) : s = g[n]
    BY DEF Lists
  <2>2. Without(s, id) \in Seq(Reader)
    BY WithoutFacts
  <2> QED
    BY <1>1, <2>1, <2>2 DEF Left
<1>3. m \in Lists
  BY <1>1, <1>2 DEF Lists
<1>4. Leaves(g, m, k, id)
  BY <1>2 DEF Leaves
<1>5. PICK E : E = {}
  OBVIOUS
<1>6. /\ Identified(m, top)
      /\ \A l \in Nat : \A i \in 1 .. Len(m[l]) : m[l][i].id # id
      /\ \A l \in Nat : \A i \in 1 .. Len(m[l]) : \E p \in 1 .. Len(g[l]) : m[l][i] = g[l][p]
      /\ Present(fs, m, E \ {id}) /\ Separate(fs, m, E \ {id})
  <2>1. Present(fs, g, E) /\ Separate(fs, g, E) /\ Identified(g, top)
    BY <1>5
  <2> QED
    BY ONLY g \in Lists, m \in Lists, k \in Nat, <1>3, <1>4, <2>1, TableLeaves
<1>7. E \ {id} = E
  BY <1>5
<1>8. Present(fs, m, E) /\ Separate(fs, m, E) /\ Identified(m, top)
  BY <1>6, <1>7
<1>9. Fresh(m, top, e)
  <2>1. e.id = e.name[2] /\ e.id < top
    BY DEF Identified, Named, Earlier
  <2> QED
    BY <1>6, <2>1 DEF Fresh
<1>10. Joins(m, h, to, e)
  BY <1>1 DEF Joins, Shifted
<1>11. OnDisk(fs, e)
  BY DEF Present
<1>12. Room(fs, m, to, e, E)
  <2>1. SUFFICES ASSUME to # 0, NEW i \in 1 .. Len(m[to])
                 PROVE  Apart(KeysAt(fs, e), KeysAt(fs, m[to][i]))
    BY DEF Room
  <2>2. PICK p \in 1 .. Len(g[to]) : m[to][i] = g[to][p]
    BY <1>6
  <2>3. Apart(KeysAt(fs, e), KeysAt(fs, g[to][p]))
    BY <2>1 DEF Room
  <2> QED
    BY <2>2, <2>3
<1>13. Identified(h, top) /\ Present(fs, h, E) /\ Separate(fs, h, E)
  BY ONLY m \in Lists, h \in Lists, top \in Int, to \in Nat, e \in Reader, <1>8, <1>9, <1>10,
          <1>11, <1>12, <1>3, TableJoins
<1> QED
  BY <1>5, <1>13

(* The tables of a layer below L0.                                         *)
LEMMA LayerTabs ==
    ASSUME NEW ls \in Seq(Layer), NEW l \in 2 .. Len(ls)
    PROVE  /\ l - 1 \in Nat \ {0} /\ Tabs(ls, l - 1) = ls[l].tabs
           /\ DOMAIN ls[l].tabs = 1 .. Len(Tabs(ls, l - 1))
<1>1. l \in Int /\ Len(ls) \in Nat /\ l - 1 \in Nat \ {0} /\ l - 1 + 1 = l /\ l - 1 + 1 <= Len(ls)
  OBVIOUS
<1>2. Tabs(ls, l - 1) = ls[l].tabs
  BY <1>1 DEF Tabs
<1>3. PICK s \in Seq(Reader) : s = ls[l].tabs
  BY <1>1, <1>2, TabsType
<1> QED
  BY <1>1, <1>2, <1>3

(* LayersDisjoint, with its files and layers as parameters.                *)
FirstKey(fs, t) == IF fs[t.name].recs = {} THEN 0 ELSE Min({r.key : r \in fs[t.name].recs})
LastKey(fs, t) == IF fs[t.name].recs = {} THEN 0 ELSE Max({r.key : r \in fs[t.name].recs})
LayersApart(ls, fs) ==
    \A l \in 2 .. Len(ls) : \A i, j \in DOMAIN ls[l].tabs :
        i < j => \/ LastKey(fs, ls[l].tabs[i]) < FirstKey(fs, ls[l].tabs[j])
                 \/ LastKey(fs, ls[l].tabs[j]) < FirstKey(fs, ls[l].tabs[i])

(* The property says that the layers are apart.                            *)
LEMMA LayersSay ==
    LayersDisjoint <=> (strategy = "leveled" /\ MuFree /\ ~torn => LayersApart(layers, files))
BY DEF LayersDisjoint, LayersApart, FirstKey, LastKey, MinKey, MaxKeyOf, Recs

(* They are if the tables are on disk and apart.                           *)
LEMMA ListsApart ==
    ASSUME NEW ls \in Seq(Layer), NEW h \in Lists, \A n \in Nat : h[n] = Tabs(ls, n),
           Present(files, h, {}), Separate(files, h, {}), Recorded(files, worker, seq)
    PROVE  LayersApart(ls, files)
<1>1. ASSUME NEW l \in 2 .. Len(ls), NEW a \in DOMAIN ls[l].tabs, NEW b \in DOMAIN ls[l].tabs, a < b
      PROVE  \/ LastKey(files, ls[l].tabs[a]) < FirstKey(files, ls[l].tabs[b])
             \/ LastKey(files, ls[l].tabs[b]) < FirstKey(files, ls[l].tabs[a])
  <2>1. /\ l - 1 \in Nat \ {0} /\ Tabs(ls, l - 1) = ls[l].tabs
        /\ DOMAIN ls[l].tabs = 1 .. Len(Tabs(ls, l - 1))
    BY LayerTabs
  <2>2. PICK n \in Nat \ {0} : n = l - 1 /\ h[n] = ls[l].tabs
    BY <2>1
  <2>3. a \in 1 .. Len(h[n]) /\ b \in 1 .. Len(h[n]) /\ a # b
    BY <1>1, <2>1, <2>2
  <2>4. MaxKeyOf(h[n][a]) < MinKey(h[n][b]) \/ MaxKeyOf(h[n][b]) < MinKey(h[n][a])
    BY <2>3, DisjointRanges
  <2>5. \A t : FirstKey(files, t) = MinKey(t) /\ LastKey(files, t) = MaxKeyOf(t)
    BY DEF FirstKey, LastKey, MinKey, MaxKeyOf, Recs
  <2> QED
    BY <2>2, <2>4, <2>5
<1> QED
  BY <1>1 DEF LayersApart

(* The table, and its entry if it is found, go where they have room.       *)
LEMMA MoveOrderly ==
    ASSUME ManifestInv, Orderly, failure # "misplaced", status = "up", worker.pc = "compact",
           strategy = "leveled",
           NEW ls \in Seq(Layer), Len(layers) <= Len(ls),
           \A n \in Nat : Tabs(ls, n) = Tabs(layers, n),
           NEW i \in Nat, Tabs(layers, i) # <<>>, NEW t, t = Tabs(layers, i)[1],
           NEW to \in Nat, MoveSSTable(t, to, ls),
           \A j \in 1 .. Len(Tabs(layers, to)) : ~Meets(Tabs(layers, to)[j], MinKey(t), MaxKeyOf(t))
    PROVE  /\ failure' # "misplaced" => Orderly'
           /\ failure' = "misplaced" => LayersDisjoint'
<1>1. PICK k \in Nat, id \in Nat, mv \in Reader, e \in Reader : Relocated(t, to, k, id, mv, e)
  BY MoveTables
<1>2. /\ t.id = id /\ mv.id = id /\ mv.name = t.name
      /\ failure' # "misplaced" =>
            e.id = id /\ e.name = t.name /\ \E j \in 1 .. Len(Rows(k)) : e = Rows(k)[j]
      /\ worker'.pc \in {"idle", "compact"} /\ worker'.inputs = <<>>
      /\ UNCHANGED <<strategy, nextId, status, files>>
      /\ layers' \in Seq(Layer) /\ manifest' \in Manifest /\ manifest'.next = nextId
  BY <1>1 DEF Relocated
<1>3. \A n \in Nat :
         /\ Tabs(layers', n) = IF n = to THEN Append(Left(Tabs(layers, n), n, k, id), mv)
                               ELSE Left(Tabs(layers, n), n, k, id)
         /\ ManifestRows(manifest', n) = IF n = to THEN Append(Left(Rows(n), n, k, id), e)
                                         ELSE Left(Rows(n), n, k, id)
  BY <1>1, SMTT(40) DEF Relocated, Rows
<1>4. UNCHANGED seq /\ \E x, m : GoOn(x, m)
  BY DEF MoveSSTable
<1>5. worker'.content.recs = {}
  BY <1>4, GoOnContent
<1>6. Recorded(files', worker', seq')
  BY <1>2, <1>4, <1>5 DEF Orderly, Recorded, Known
<1>7. t \in Reader
  <2>1. PICK s \in Seq(Reader) : s = Tabs(layers, i)
    BY TabsType DEF ManifestInv, TypeInv
  <2> QED
    BY <2>1
<1>8. /\ OnDisk(files, t)
      /\ \A j \in 1 .. Len(Tabs(layers, to)) : Apart(KeysAt(files, t), KeysAt(files, Tabs(layers, to)[j]))
  BY <1>7, MoveRoom
<1>9. PICK E : E = {}
  OBVIOUS
<1>10. PICK g \in Lists : g = AllTabs(layers)
  BY ListsType DEF ManifestInv, TypeInv
<1>11. /\ Present(files, g, {}) /\ Separate(files, g, {})
       /\ \A n \in Nat : g[n] = Tabs(layers, n) /\ Same(Rows(n), g[n])
  BY <1>10, TabsSound
<1>12. ASSUME failure' = "misplaced" PROVE LayersDisjoint'
  <2>1. PICK h \in Lists : \A n \in Nat : h[n] = Tabs(layers', n)
    BY <1>2, ListsType
  <2>2. Shifted(g, h, k, to, id, mv)
    BY <1>3, <1>11, <2>1 DEF Shifted
  <2>3. OnDisk(files, mv) /\ Room(files, g, to, mv, {})
    BY <1>2, <1>8, <1>11 DEF OnDisk, Room, KeysAt
  <2>4. Present(files, h, {}) /\ Separate(files, h, {})
    <3>1. PICK fs : fs = files
      OBVIOUS
    <3>2. Present(fs, g, {}) /\ Separate(fs, g, {}) /\ OnDisk(fs, mv) /\ Room(fs, g, to, mv, {})
      BY <1>11, <2>3, <3>1
    <3>3. Present(fs, h, {}) /\ Separate(fs, h, {})
      BY ONLY g \in Lists, h \in Lists, k \in Nat, to \in Nat, mv \in Reader, <2>2, <3>2, ShiftedLists
    <3> QED
      BY <3>1, <3>3
  <2>5. LayersApart(layers', files)
    BY <1>2, <2>1, <2>4, ListsApart DEF Orderly
  <2>6. LayersDisjoint' <=> (strategy = "leveled" /\ MuFree /\ ~torn => LayersApart(layers, files))'
    BY LayersSay, PTL
  <2> QED
    BY <1>2, <2>5, <2>6
<1>13. ASSUME failure' # "misplaced" PROVE Orderly'
  <2>1. PICK r \in Lists : r = AllRows(manifest) /\ \A n \in Nat : r[n] = Rows(n)
    BY ListsType DEF Rows, ManifestInv, TypeInv
  <2>2. PICK h \in Lists : h = AllRows(manifest') /\ \A n \in Nat : h[n] = ManifestRows(manifest', n)
    BY <1>2, ListsType
  <2>3. Shifted(r, h, k, to, id, e)
    BY <1>3, <2>1, <2>2 DEF Shifted
  <2>4. PICK top \in Int : top = manifest.next /\ top <= nextId
    BY DEF ManifestInv, TypeInv, Manifest, Orderly
  <2>5. Identified(r, top) /\ Present(files, r, {}) /\ Separate(files, r, {})
    BY <2>1, <2>4 DEF Orderly, Sound, MissingOf, ExemptOf
  <2>6. PICK j \in 1 .. Len(r[k]) : e = r[k][j] /\ e.id = id
    BY <1>2, <1>13, <2>1
  <2>7. Room(files, r, to, e, {})
    <3>1. KeysAt(files, e) = KeysAt(files, t)
      BY <1>2, <1>13 DEF KeysAt
    <3>2. ASSUME NEW p \in 1 .. Len(r[to]) PROVE Apart(KeysAt(files, e), KeysAt(files, r[to][p]))
      <4>1. p \in 1 .. Len(Tabs(layers, to)) /\ r[to][p].name = Tabs(layers, to)[p].name
        BY <1>11, <2>1, SMTT(40) DEF Same
      <4> QED
        BY <1>8, <3>1, <4>1 DEF KeysAt
    <3> QED
      BY <3>2 DEF Room
  <2>8. Identified(h, top) /\ Present(files, h, {}) /\ Separate(files, h, {})
    BY ONLY r \in Lists, h \in Lists, k \in Nat, to \in Nat, e \in Reader, top \in Int,
            j \in 1 .. Len(r[k]), <2>3, <2>5, <2>6, <2>7, ShiftedIds
  <2>9. Identified(h, nextId)
    <3>1. \A n \in Nat : \A p \in 1 .. Len(h[n]) : h[n][p].id \in Nat
      BY ListElement
    <3>2. nextId \in Nat
      BY DEF ManifestInv, TypeInv
    <3>3. \A x \in Nat : x < top => x < nextId
      BY <2>4, <3>2
    <3> QED
      BY <2>8, <3>1, <3>3 DEF Identified, Earlier
  <2>10. Sound(files', manifest', worker', nextId')
    <3>1. MissingOf(worker') = {} /\ ExemptOf(worker') = {} /\ Named(worker'.inputs)
      BY <1>2 DEF MissingOf, ExemptOf, Named
    <3>2. Adding(files', AllRows(manifest'), worker', manifest'.next, nextId')
      BY <1>2 DEF Adding
    <3> QED
      BY <1>2, <2>2, <2>8, <2>9, <3>1, <3>2 DEF Sound
  <2>11. manifest'.next <= nextId'
    BY <1>2 DEF ManifestInv, TypeInv
  <2> QED
    BY <1>6, <2>10, <2>11 DEF Orderly
<1> QED
  BY <1>12, <1>13

(* A merge does not misplace a table.                                      *)
LEMMA MergePlaces ==
    ASSUME failure # "misplaced", NEW inputs, NEW to, NEW skip, NEW ls, MergeSSTables(inputs, to, skip, ls)
    PROVE  failure' # "misplaced"
<1>1. (\E why \in {"noBase", "noLeaves"} : Panic(why)) \/ UNCHANGED <<strategy, frags, snap, status, history>>
  BY Zenon DEF MergeSSTables
<1> QED
  BY <1>1 DEF Panic, history

(* A layer below L0 is merged in place, or one table of it goes down.      *)
LEMMA LeveledOrderly ==
    ASSUME ManifestInv, Orderly, failure # "misplaced", LeveledCompact, ~torn'
    PROVE  /\ failure' # "misplaced" => Orderly'
           /\ failure' = "misplaced" => LayersDisjoint'
<1>. DEFINE i == worker.i
            tabs == layers[i + 1].tabs
            read == [layers EXCEPT ![i + 1].needsUpdate = FALSE]
            to == Min({i + 1, MaxHeight - 1})
            grown == GrowTo(read, to)
            ov == Overlapping(MinKey(tabs[1]), MaxKeyOf(tabs[1]), grown[to + 1].tabs)
<1>1. /\ status = "up" /\ worker.pc = "compact" /\ strategy = "leveled" /\ i \in Nat
      /\ i + 1 <= Len(layers) /\ layers \in Seq(Layer) /\ manifest \in Manifest
  BY DEF LeveledCompact, AtLayer, ManifestInv, TypeInv, WorkerInv
<1>2. PICK s \in Seq(Reader) : s = tabs /\ s = Tabs(layers, i)
  BY <1>1, TabsType DEF Tabs
<1>3. /\ read \in Seq(Layer) /\ Len(read) = Len(layers)
      /\ \A n \in Nat : Tabs(read, n) = Tabs(layers, n)
  <2>. DEFINE L == [layers[i + 1] EXCEPT !.needsUpdate = FALSE]
  <2>1. L \in Layer /\ L.tabs = Tabs(layers, i)
    <3>1. layers[i + 1] \in Layer
      BY <1>1
    <3> QED
      BY <1>1, <3>1 DEF Layer, Tabs
  <2>2. read = [layers EXCEPT ![i + 1] = L]
    BY <1>1
  <2>. HIDE DEF L, read
  <2>3. /\ [layers EXCEPT ![i + 1] = L] \in Seq(Layer)
        /\ Len([layers EXCEPT ![i + 1] = L]) = Len(layers)
        /\ \A n \in Nat : Tabs([layers EXCEPT ![i + 1] = L], n) =
                             IF n = i THEN L.tabs ELSE Tabs(layers, n)
    BY <1>1, <2>1, PutTabs
  <2> QED
    BY <2>1, <2>2, <2>3
<1>4. to \in Nat
  <2>1. i + 1 \in Nat /\ MaxHeight - 1 \in Nat
    BY <1>1, ManagerAssumption, SMTT(40)
  <2> QED
    BY <2>1, MinOfNats
<1>5. \/ GoOn(read, i + 1) /\ Untouched
      \/ Len(s) > 1 /\ MergeSSTables(s, i, TRUE, read)
      \/ s # <<>> /\ ov = <<>> /\ MoveSSTable(s[1], to, grown)
      \/ s # <<>> /\ MergeSSTables(Append(ov, s[1]), to, FALSE, grown)
  BY <1>2 DEF LeveledCompact
<1>. HIDE DEF to, read
<1>6. /\ grown \in Seq(Layer) /\ Len(layers) <= Len(grown) /\ to + 1 <= Len(grown)
      /\ \A n \in Nat : Tabs(grown, n) = Tabs(layers, n)
  BY <1>1, <1>3, <1>4, GrowTabs
<1>. HIDE DEF grown
<1>7. PICK d \in Nat, m \in Nat, g \in Seq(Layer) : d = to /\ m = i /\ g = grown
  BY <1>1, <1>4, <1>6
<1>8. PICK u \in Seq(Reader) : u = Tabs(layers, d) /\ u = grown[to + 1].tabs
  <2>1. Tabs(grown, to) = grown[to + 1].tabs /\ Tabs(grown, to) \in Seq(Reader)
    BY <1>4, <1>6, TabsType DEF Tabs
  <2> QED
    BY <1>4, <1>6, <1>7, <2>1
<1>9. ASSUME s # <<>>
      PROVE  /\ 1 \in 1 .. Len(s) /\ s[1] \in Reader /\ s[1] = Tabs(layers, m)[1] /\ Taken(s)
             /\ MinKey(s[1]) \in Nat /\ MaxKeyOf(s[1]) \in Nat
             /\ Inside(s[1], MinKey(s[1]), MaxKeyOf(s[1]))
             /\ Selects(ov, u, MinKey(s[1]), MaxKeyOf(s[1]))
  <2>1. 1 \in 1 .. Len(s) /\ s[1] \in Reader /\ s[1] = Tabs(layers, m)[1] /\ Taken(s)
    BY <1>2, <1>7, <1>9, LayerRoom
  <2>2. /\ MinKey(s[1]) \in Nat /\ MaxKeyOf(s[1]) \in Nat
        /\ Inside(s[1], MinKey(s[1]), MaxKeyOf(s[1]))
    BY <1>1, <2>1, TableRange
  <2>3. PICK a, b : a = MinKey(s[1]) /\ b = MaxKeyOf(s[1])
    OBVIOUS
  <2>4. ov = Overlapping(a, b, u)
    BY <1>2, <1>8, <2>3
  <2>5. Selects(ov, u, a, b)
    BY <2>4, OverlappingTables
  <2> QED
    BY <2>1, <2>2, <2>3, <2>5
<1>. HIDE DEF ov, tabs
<1>10. CASE GoOn(read, i + 1) /\ Untouched
  <2>1. UNCHANGED <<nextId, files, manifest, seq, failure>>
    BY <1>10 DEF Untouched, history
  <2>2. seq' \in Nat /\ seq <= seq'
    BY <2>1 DEF Orderly, Recorded
  <2>3. \E a, b : GoOn(a, b)
    BY <1>10
  <2> QED
    BY <1>1, <2>1, <2>2, <2>3, OnwardStep
<1>11. CASE Len(s) > 1 /\ MergeSSTables(s, i, TRUE, read)
  <2>1. PICK skip, ls : skip = TRUE /\ ls = read
    OBVIOUS
  <2>2. MergeSSTables(s, m, skip, ls)
    BY <1>7, <1>11, <2>1
  <2>3. s # <<>> /\ Taken(s) /\ RoomFor(s, m)
    <3>1. s # <<>>
      BY <1>11
    <3> QED
      BY <1>2, <1>7, <3>1, LayerRoom
  <2>4. failure' # "misplaced"
    BY <2>2, MergePlaces
  <2>5. Orderly'
    BY <1>1, <2>2, <2>3, MergeOrderly
  <2> QED
    BY <2>4, <2>5
<1>12. CASE s # <<>> /\ ov = <<>> /\ MoveSSTable(s[1], to, grown)
  <2>1. PICK t : t = s[1]
    OBVIOUS
  <2>2. /\ t = Tabs(layers, m)[1] /\ Tabs(layers, m) # <<>> /\ MoveSSTable(t, d, g)
        /\ Len(layers) <= Len(g) /\ \A n \in Nat : Tabs(g, n) = Tabs(layers, n)
    BY <1>2, <1>6, <1>7, <1>12, <2>1
  <2>3. ~\E k : k \in 1 .. Len(ov)
    BY <1>12
  <2>4. \A j \in 1 .. Len(Tabs(layers, d)) : ~Meets(Tabs(layers, d)[j], MinKey(t), MaxKeyOf(t))
    BY <1>8, <1>9, <1>12, <2>1, <2>3 DEF Selects
  <2> QED
    BY <1>1, <2>2, <2>4, MoveOrderly
<1>13. CASE s # <<>> /\ MergeSSTables(Append(ov, s[1]), to, FALSE, grown)
  <2>1. PICK v \in Seq(Reader), a \in Nat, b \in Nat, x \in Reader :
           v = ov /\ x = s[1] /\ a = MinKey(x) /\ b = MaxKeyOf(x)
    BY <1>9, <1>13 DEF Selects
  <2>2. Selects(v, u, a, b) /\ Inside(x, a, b)
    BY <1>9, <1>13, <2>1
  <2>3. PICK w \in Seq(Reader) : w = Append(v, x)
    BY AppendProperties
  <2>4. /\ Len(w) = Len(v) + 1 /\ w[Len(v) + 1] = x /\ \A k \in 1 .. Len(v) : w[k] = v[k]
        /\ Len(v) \in Nat
    BY <2>3
  <2>5. w # <<>> /\ (\A k \in 1 .. Len(v) : k \in 1 .. Len(w))
        /\ \A k \in 1 .. Len(w) : k \in 1 .. Len(v) \/ w[k] = x
    BY <2>4
  <2>6. Taken(w)
    <3>1. ASSUME NEW k \in 1 .. Len(w)
          PROVE  \E n \in Nat : \E l \in 1 .. Len(Tabs(layers, n)) : w[k] = Tabs(layers, n)[l]
      <4>1. CASE k \in 1 .. Len(v)
        <5>1. PICK j \in 1 .. Len(u) : v[k] = u[j]
          BY <2>2, <4>1 DEF Selects
        <5>2. w[k] = u[j]
          BY <2>4, <4>1, <5>1
        <5> QED
          BY <1>8, <5>2
      <4>2. CASE w[k] = x
        BY <1>2, <1>7, <1>9, <1>13, <2>1, <4>2
      <4> QED
        BY <2>5, <4>1, <4>2
    <3> QED
      BY <3>1 DEF Taken
  <2>7. AroundRange(w, u, a, b)
    <3>1. ASSUME NEW k \in 1 .. Len(u), Meets(u[k], a, b) PROVE u[k].id \in Ids(w)
      <4>1. PICK j \in 1 .. Len(v) : v[j] = u[k]
        BY <2>2, <3>1 DEF Selects
      <4>2. j \in 1 .. Len(w) /\ w[j] = u[k]
        BY <2>4, <2>5, <4>1
      <4> QED
        BY <4>2 DEF Ids
    <3>2. ASSUME NEW p \in 1 .. Len(w)
          PROVE  Inside(w[p], a, b) \/ \E k \in 1 .. Len(u) : w[p] = u[k] /\ Meets(u[k], a, b)
      BY <2>2, <2>4, <2>5 DEF Selects
    <3> QED
      BY <3>1, <3>2 DEF AroundRange
  <2>8. RoomFor(w, d)
    <3>1. AroundRange(w, Tabs(layers, d), a, b)
      BY <1>8, <2>7
    <3> QED
      BY <1>1, <2>6, <3>1, RangeRoom
  <2>9. PICK skip : skip = FALSE
    OBVIOUS
  <2>10. MergeSSTables(w, d, skip, g)
    BY <1>7, <1>13, <2>1, <2>3, <2>9
  <2>11. failure' # "misplaced"
    BY <2>10, MergePlaces
  <2>12. Orderly'
    BY <1>1, <2>5, <2>6, <2>8, <2>10, MergeOrderly
  <2> QED
    BY <2>11, <2>12
<1> QED
  BY <1>5, <1>10, <1>11, <1>12, <1>13

-----------------------------------------------------------------------------
(* The invariant.                                                          *)

(* It gives LayersDisjoint.                                                *)
LEMMA LayersSound ==
    ManifestInv /\ LayersInv => LayersDisjoint
<1>. SUFFICES ASSUME ManifestInv, LayersInv, failure # "misplaced", strategy = "leveled", MuFree, ~torn
              PROVE  LayersApart(layers, files)
  BY LayersSay DEF LayersInv
<1>1. Orderly
  BY DEF LayersInv, Whole
<1>2. status = "up" /\ worker.pc \in {"idle", "compact"}
  BY DEF MuFree
<1>3. layers \in Seq(Layer)
  BY DEF ManifestInv, TypeInv
<1>4. PICK h : h = AllTabs(layers)
  OBVIOUS
<1>5. /\ h \in Lists /\ Present(files, h, {}) /\ Separate(files, h, {})
      /\ \A n \in Nat : h[n] = Tabs(layers, n)
  BY <1>1, <1>2, <1>4, TabsSound
<1> QED
  BY <1>1, <1>3, <1>5, ListsApart DEF Orderly

(* The empty engine.                                                       *)
LEMMA LayersInit ==
    Init => LayersInv
<1>. SUFFICES ASSUME Init PROVE LayersInv
  OBVIOUS
<1>1. /\ nextId = 0 /\ worker = Idle /\ files = <<>> /\ manifest = EmptyManifest
      /\ seq = 0 /\ failure = "none"
  BY DEF Init
<1>2. PICK g : g = AllRows(manifest)
  OBVIOUS
<1>3. \A n \in Nat : g[n] = <<>> /\ Len(g[n]) = 0
  <2>1. \A n \in Nat : ManifestRows(manifest, n) = <<>>
    BY <1>1, EmptyRows
  <2> QED
    BY <1>2, <2>1 DEF AllRows
<1>4. Identified(g, manifest.next)
  BY <1>3 DEF Identified, Named, Distinct, Earlier
<1>5. \A fs : Present(fs, g, {}) /\ Separate(fs, g, {})
  BY <1>3 DEF Present, Separate, Spread
<1>6. MissingOf(worker) = {} /\ ExemptOf(worker) = {} /\ worker.pc = "idle" /\ worker.inputs = <<>>
  BY <1>1, IdleContent DEF MissingOf, ExemptOf
<1>7. Sound(files, manifest, worker, nextId)
  BY <1>2, <1>4, <1>5, <1>6 DEF Sound, Named, Adding
<1>8. Recorded(files, worker, seq)
  <2>1. DOMAIN files = {}
    BY <1>1
  <2> QED
    BY <1>1, <2>1, IdleContent DEF Recorded
<1>9. manifest.next <= nextId
  BY <1>1 DEF EmptyManifest
<1> QED
  BY <1>1, <1>7, <1>8, <1>9 DEF LayersInv, Orderly

(* Nothing happens.                                                        *)
LEMMA LayersStutter ==
    ASSUME LayersInv, UNCHANGED vars
    PROVE  LayersInv'
<1>1. UNCHANGED <<strategy, layers, nextId, worker, status, files, manifest, seq, failure, torn>>
  BY DEF vars, volatile, history
<1>2. Orderly => Orderly'
  BY <1>1 DEF Orderly
<1>3. LayersDisjoint => LayersDisjoint'
  <2>1. LayersDisjoint' <=> (strategy = "leveled" /\ MuFree /\ ~torn => LayersApart(layers, files))'
    BY LayersSay, PTL
  <2> QED
    BY <1>1, <2>1, LayersSay DEF MuFree
<1> QED
  BY <1>1, <1>2, <1>3 DEF LayersInv, Whole

(* The steps below that leave the tables as they are.                      *)
LEMMA ReadersOrderly ==
    ASSUME Orderly, Read \/ \E k \in SnapKeys : AddSnapshotKey(k)
    PROVE  Orderly'
<1>1. UNCHANGED <<nextId, worker, status, files, manifest, seq>>
  BY DEF Read, AddSnapshotKey, history
<1> QED
  BY <1>1 DEF Orderly

(* A merge that was cut short stays so when the process ends.              *)
LEMMA DieKeeps ==
    ASSUME Die
    PROVE  strategy' = strategy /\ (torn => torn')
<1>1. strategy' = strategy
  BY DEF Die
<1>2. torn' = (torn \/ worker.pc \in {"delete", "unlist"})
  BY DEF Die
<1>3. torn => torn'
  BY <1>2, Zenon
<1> QED
  BY <1>1, <1>3

(* What cannot be repaired, and what only a move can break.                *)
LEMMA StepKeeps ==
    ASSUME failure # "misplaced", Step
    PROVE  /\ strategy' = strategy /\ (torn => torn')
           /\ failure' = "misplaced" => LeveledCompact
<1>1. ASSUME NEW inputs, NEW to, NEW skip, NEW ls, MergeSSTables(inputs, to, skip, ls)
      PROVE  strategy' = strategy /\ (torn => torn') /\ failure' # "misplaced"
  <2>1. \/ \E why \in {"noBase", "noLeaves"} : Panic(why)
        \/ UNCHANGED <<strategy, frags, snap, status, history>>
    BY <1>1, Zenon DEF MergeSSTables
  <2>2. ASSUME \E why \in {"noBase", "noLeaves"} : Panic(why)
        PROVE  strategy' = strategy /\ (torn => torn') /\ failure' # "misplaced"
    <3>1. Die /\ failure' # "misplaced"
      BY <2>2 DEF Panic
    <3> QED
      BY <3>1, DieKeeps
  <2>3. ASSUME UNCHANGED <<strategy, frags, snap, status, history>>
        PROVE  strategy' = strategy /\ (torn => torn') /\ failure' # "misplaced"
    BY <2>3 DEF history
  <2> QED
    BY <2>1, <2>2, <2>3
<1>2. ASSUME NEW m \in Memtables, Flush(m) PROVE UNCHANGED <<strategy, torn, failure>>
  BY <1>2 DEF Flush
<1>3. CASE FlushNothing \/ Add \/ Read \/ \E k \in SnapKeys : AddSnapshotKey(k)
  BY <1>3 DEF FlushNothing, Add, Read, AddSnapshotKey, history
<1>4. CASE Delete \/ Unlist
  <2>1. Panic("notFound") \/ UNCHANGED <<strategy, history>>
    BY <1>4, Zenon DEF Delete, Unlist
  <2>2. CASE Panic("notFound")
    <3>1. Die /\ failure' # "misplaced"
      BY <2>2 DEF Panic
    <3> QED
      BY <3>1, DieKeeps
  <2>3. CASE UNCHANGED <<strategy, history>>
    BY <2>3 DEF history
  <2> QED
    BY <2>1, <2>2, <2>3
<1>5. CASE ClearAll \/ Crash \/ LoseManifest \/ Restart
  <2>1. CASE ClearAll \/ LoseManifest
    BY <2>1 DEF ClearAll, LoseManifest
  <2>2. CASE Crash
    <3>1. Die /\ failure' = failure
      BY <2>2 DEF Crash
    <3> QED
      BY <3>1, DieKeeps
  <2>3. CASE Restart
    <3>1. /\ strategy' = strategy /\ failure' = failure
          /\ torn' = (torn \/ (manifest = NoManifest /\ files # <<>>))
      BY <2>3 DEF Restart
    <3>2. torn => torn'
      BY <3>1, Zenon
    <3> QED
      BY <3>1, <3>2
  <2> QED
    BY <1>5, <2>1, <2>2, <2>3
<1>6. ASSUME Untouched PROVE UNCHANGED <<strategy, torn, failure>>
  BY <1>6 DEF Untouched, history
<1>7. CASE TieredCompact
  BY <1>1, <1>6, <1>7 DEF TieredCompact
<1>8. CASE LeveledCompactL0
  <2>1. Untouched \/ \E inputs, to, skip, ls : MergeSSTables(inputs, to, skip, ls)
    BY <1>8, Zenon DEF LeveledCompactL0
  <2> QED
    BY <1>1, <1>6, <2>1
<1>9. CASE LeveledCompact
  <2>1. ASSUME NEW t, NEW to, NEW ls, MoveSSTable(t, to, ls) PROVE UNCHANGED <<strategy, torn>>
    BY <2>1 DEF MoveSSTable
  <2>2. \/ Untouched \/ \E inputs, to, skip, ls : MergeSSTables(inputs, to, skip, ls)
        \/ \E t, to, ls : MoveSSTable(t, to, ls)
    BY <1>9, Zenon DEF LeveledCompact
  <2> QED
    BY <1>1, <1>6, <1>9, <2>1, <2>2
<1> QED
  BY <1>2, <1>3, <1>4, <1>5, <1>7, <1>8, <1>9 DEF Step

(* Every step keeps the invariant.                                         *)
LEMMA LayersNext ==
    ASSUME QuietClear, ManifestInv, LayersInv, [Next]_vars
    PROVE  LayersInv'
<1>1. CASE UNCHANGED vars
  BY <1>1, LayersStutter
<1>2. CASE FailAgain
  BY <1>1, <1>2 DEF FailAgain
<1>3. CASE failure # "misplaced" /\ Step
  <2>1. /\ strategy' = strategy /\ (torn => torn')
        /\ failure' = "misplaced" => LeveledCompact
    BY <1>3, StepKeeps
  <2>2. ASSUME ~Whole PROVE LayersInv'
    <3>1. ~Whole' /\ ~(strategy = "leveled" /\ ~torn)'
      BY <1>3, <2>1, <2>2 DEF Whole
    <3> QED
      BY <3>1 DEF LayersInv, LayersDisjoint
  <2>3. ASSUME Whole, torn' PROVE LayersInv'
    BY <2>3 DEF LayersInv, LayersDisjoint, Whole
  <2>4. ASSUME Whole, ~torn' PROVE LayersInv'
    <3>1. Orderly /\ strategy = "leveled" /\ failure # "misplaced"
      BY <2>4 DEF LayersInv, Whole
    <3>2. ASSUME failure' = "misplaced" PROVE LayersDisjoint'
      BY <2>1, <2>4, <3>1, <3>2, LeveledOrderly
    <3>3. ASSUME failure' # "misplaced" PROVE Orderly'
      <4>1. ASSUME NEW m \in Memtables, Flush(m) PROVE Orderly'
        BY <3>1, <4>1, FlushOrderly
      <4>2. CASE FlushNothing
        BY <2>1, <3>1, <4>2, FlushNothingOrderly DEF FlushNothing
      <4>3. CASE Add
        BY <3>1, <4>3, AddOrderly DEF Add
      <4>4. CASE Delete
        BY <2>4, <3>1, <4>4, DeleteOrderly
      <4>5. CASE Unlist
        BY <2>4, <3>1, <4>5, UnlistOrderly
      <4>6. CASE TieredCompact
        BY <3>1, <4>6 DEF TieredCompact
      <4>7. CASE LeveledCompactL0
        BY <2>4, <3>1, <4>7, LeveledL0Orderly
      <4>8. CASE LeveledCompact
        BY <2>4, <3>1, <3>3, <4>8, LeveledOrderly
      <4>9. CASE Read \/ \E k \in SnapKeys : AddSnapshotKey(k)
        BY <3>1, <4>9, ReadersOrderly
      <4>10. CASE ClearAll
        BY <3>1, <4>10, OrderlyClear
      <4>11. CASE Crash
        BY <2>4, <3>1, <4>11, CrashOrderly
      <4>12. CASE LoseManifest
        BY <3>1, <4>12, LoseOrderly
      <4>13. CASE Restart
        BY <2>4, <3>1, <4>13, RestartOrderly
      <4> QED
        BY <1>3, <4>1, <4>2, <4>3, <4>4, <4>5, <4>6, <4>7, <4>8, <4>9, <4>10, <4>11, <4>12, <4>13
           DEF Step
    <3> QED
      BY <3>2, <3>3 DEF LayersInv, Whole
  <2> QED
    BY <2>2, <2>3, <2>4
<1> QED
  BY <1>1, <1>2, <1>3 DEF Next

(* Leveled compaction (Compact, MergeSSTables, MoveSSTable) keeps the key  *)
(* ranges of the tables of every layer below L0 apart, for any number of   *)
(* layers and keys, through flushes, merges, moves, crashes, restarts, a   *)
(* lost manifest and ClearAll while the worker is idle, unless a crash cut *)
(* a merge short or the tables were rebuilt from their file names.         *)
THEOREM LayersAlways ==
    ASSUME QuietClear
    PROVE  Spec => []LayersDisjoint
<1>1. Spec => [](ManifestInv /\ LayersInv)
  <2>1. Init => ManifestInv /\ LayersInv
    BY ManifestInit, LayersInit
  <2>2. ManifestInv /\ LayersInv /\ [Next]_vars => ManifestInv' /\ LayersInv'
    BY ManifestNext, LayersNext
  <2> QED
    BY <2>1, <2>2, PTL DEF Spec
<1>2. ManifestInv /\ LayersInv => LayersDisjoint
  BY LayersSound
<1> QED
  BY <1>1, <1>2, PTL
=============================================================================
