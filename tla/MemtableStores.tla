---------------------------- MODULE MemtableStores ----------------------------
(***************************************************************************)
(* The five structures a memtable may keep its entries in                  *)
(* (internal/structures) behind the adapters of internal/memtable/         *)
(* adapters.go, with the memtable's calls: Put, Remove (the rollback of a  *)
(* batch), Get, the iterators and Flush.                                   *)
(*                                                                         *)
(* An entry is <<key, seqId>>; entries are ordered by key, the newest      *)
(* first.  A nested tree is a record that holds its children, the          *)
(* red-black tree and the skip list are pointer structures.                *)
(***************************************************************************)
EXTENDS Integers, Sequences, FiniteSets, FiniteSetsExt, SequencesExt

CONSTANTS
    Kinds,          \* the structures: "btree", "skiplist", "hashmap", "rbtree", "avl"
    Keys,           \* a set of positive numbers
    MinimumDegree,  \* t of the B-tree
    MaxLevel,       \* of the skip list
    SnapKeys,       \* the keys the user may snapshot
    Preloads,       \* sequences of keys: what the memtable is filled with first
    MaxPuts, MaxRollbacks   \* bounds

ASSUME StoresAssumption ==
    /\ Kinds \subseteq {"btree", "skiplist", "hashmap", "rbtree", "avl"}
    /\ Keys \subseteq Nat \ {0} /\ MinimumDegree \in Nat \ {0, 1}
    /\ SnapKeys \subseteq Keys /\ \A p \in Preloads : ToSet(p) \subseteq Keys
    /\ {MaxLevel, MaxPuts, MaxRollbacks} \subseteq Nat /\ MaxLevel > 0

VARIABLES
    kind, st,      \* the structure and its state
    numEntries,    \* GenericMemtable.numEntries
    snapshotted,   \* the keys whose versions are all kept
    ents,          \* history: the entries that should be in the store
    batch,         \* history: the latest puts, which a failing batch rolls back
    load,          \* the keys still to be put before anything else
    seq, puts, rollbacks,
    inexact        \* history: a rollback met several versions of a key

vars == <<kind, st, numEntries, snapshotted, ents, batch, load, seq, puts, rollbacks, inexact>>

MaxSeq == Max({Len(p) : p \in Preloads}) + MaxPuts
MaxSeqId == MaxSeq + 1          \* math.MaxUint64
(* Mutant: the oldest version comes first.                                 *)
LessOldFirst(a, b) == a[1] < b[1] \/ (a[1] = b[1] /\ a[2] < b[2])

Less(a, b) == a[1] < b[1] \/ (a[1] = b[1] /\ a[2] > b[2])
Sorted(E) ==
    [i \in 1 .. Cardinality(E) |-> CHOOSE x \in E : Cardinality({y \in E : Less(y, x)}) = i - 1]
CountLess(s, x) == Cardinality({i \in DOMAIN s : Less(s[i], x)})
CountLeq(s, x) == Cardinality({i \in DOMAIN s : ~Less(x, s[i])})

(* A sequence without its element i, and with x put before element i.      *)
Without(s, i) == SubSeq(s, 1, i - 1) \o SubSeq(s, i + 1, Len(s))
With(s, i, x) == SubSeq(s, 1, i - 1) \o <<x>> \o SubSeq(s, i, Len(s))

-----------------------------------------------------------------------------
(* B-tree.  A node is [data, kids]; a leaf has no kids.                    *)

T == MinimumDegree
Leaf(n) == n.kids = <<>>
EmptyNode == [data |-> <<>>, kids |-> <<>>]

RECURSIVE BLowerBound(_, _)
BLowerBound(n, x) ==
    LET i == CountLess(n.data, x) + 1
        below == IF Leaf(n) THEN <<>> ELSE BLowerBound(n.kids[i], x)
    IN  IF below # <<>> THEN below
        ELSE IF i <= Len(n.data) THEN <<n.data[i]>> ELSE <<>>

SplitChild(n, i) ==
    LET full == n.kids[i]
        kids(a, b) == IF Leaf(full) THEN <<>> ELSE SubSeq(full.kids, a, b)
        left == [data |-> SubSeq(full.data, 1, T - 1), kids |-> kids(1, T)]
        right == [data |-> SubSeq(full.data, T + 1, 2 * T - 1), kids |-> kids(T + 1, 2 * T)]
    IN  [data |-> With(n.data, i, full.data[T]),
         kids |-> With([n.kids EXCEPT ![i] = left], i + 1, right)]

Full(n) == Len(n.data) = 2 * T - 1

RECURSIVE InsertNonFull(_, _)
InsertNonFull(n, x) ==
    LET i == CountLeq(n.data, x) + 1
    IN  IF Leaf(n) THEN [n EXCEPT !.data = With(@, i, x)]
        ELSE LET m == IF Full(n.kids[i]) THEN SplitChild(n, i) ELSE n
                 j == IF m # n /\ Less(m.data[i], x) THEN i + 1 ELSE i
             IN  [m EXCEPT !.kids[j] = InsertNonFull(@, x)]

BInsert(n, x) ==
    IF Full(n) THEN InsertNonFull(SplitChild([data |-> <<>>, kids |-> <<n>>], 1), x)
    ELSE InsertNonFull(n, x)

BorrowFromPrev(n, i) ==
    LET c == n.kids[i]
        s == n.kids[i - 1]
    IN  [data |-> [n.data EXCEPT ![i - 1] = Last(s.data)],
         kids |-> [n.kids EXCEPT
            ![i] = [data |-> <<n.data[i - 1]>> \o c.data,
                    kids |-> IF Leaf(c) THEN <<>> ELSE <<Last(s.kids)>> \o c.kids],
            ![i - 1] = [data |-> Front(s.data), kids |-> IF Leaf(c) THEN s.kids ELSE Front(s.kids)]]]

BorrowFromNext(n, i) ==
    LET c == n.kids[i]
        s == n.kids[i + 1]
    IN  [data |-> [n.data EXCEPT ![i] = Head(s.data)],
         kids |-> [n.kids EXCEPT
            ![i] = [data |-> Append(c.data, n.data[i]),
                    kids |-> IF Leaf(c) THEN <<>> ELSE Append(c.kids, Head(s.kids))],
            ![i + 1] = [data |-> Tail(s.data), kids |-> IF Leaf(c) THEN s.kids ELSE Tail(s.kids)]]]

(* Mutant: the separating key is dropped.                                  *)
MergeLosesKey(n, i) ==
    [data |-> Without(n.data, i),
     kids |-> Without([n.kids EXCEPT ![i] =
        [data |-> @.data \o n.kids[i + 1].data, kids |-> @.kids \o n.kids[i + 1].kids]], i + 1)]

Merge(n, i) ==
    [data |-> Without(n.data, i),
     kids |-> Without([n.kids EXCEPT ![i] =
        [data |-> Append(@.data, n.data[i]) \o n.kids[i + 1].data,
         kids |-> @.kids \o n.kids[i + 1].kids]], i + 1)]

Fill(n, i) ==
    IF i > 1 /\ Len(n.kids[i - 1].data) >= T THEN BorrowFromPrev(n, i)
    ELSE IF i < Len(n.kids) /\ Len(n.kids[i + 1].data) >= T THEN BorrowFromNext(n, i)
    ELSE IF i < Len(n.kids) THEN Merge(n, i) ELSE Merge(n, i - 1)

RECURSIVE GetMin(_), GetMax(_)
GetMin(n) == IF Leaf(n) THEN Head(n.data) ELSE GetMin(Head(n.kids))
GetMax(n) == IF Leaf(n) THEN Last(n.data) ELSE GetMax(Last(n.kids))

RECURSIVE DeleteFrom(_, _)
DeleteFrom(n, x) ==
    LET i == CountLess(n.data, x) + 1
    IN  IF i <= Len(n.data) /\ n.data[i] = x
        THEN IF Leaf(n) THEN [n EXCEPT !.data = Without(@, i)]
             ELSE IF Len(n.kids[i].data) >= T
             THEN LET pred == GetMax(n.kids[i])
                  IN  [n EXCEPT !.data[i] = pred, !.kids[i] = DeleteFrom(@, pred)]
             ELSE IF Len(n.kids[i + 1].data) >= T
             THEN LET succ == GetMin(n.kids[i + 1])
                  IN  [n EXCEPT !.data[i] = succ, !.kids[i + 1] = DeleteFrom(@, succ)]
             ELSE [Merge(n, i) EXCEPT !.kids[i] = DeleteFrom(@, x)]
        ELSE IF Leaf(n) THEN n
        ELSE LET m == IF Len(n.kids[i].data) < T THEN Fill(n, i) ELSE n
                 j == IF i > Len(m.data) + 1 THEN i - 1 ELSE i
             IN  [m EXCEPT !.kids[j] = DeleteFrom(@, x)]

(* The root shrinks only when something was deleted.                       *)
BDelete(n, x) ==
    LET m == DeleteFrom(n, x)
    IN  IF BLowerBound(n, x) = <<x>> /\ m.data = <<>> /\ ~Leaf(m) THEN m.kids[1] ELSE m

(* The iterator: the node, the index in it (0: not valid) and the parents. *)
BNone == [node |-> EmptyNode, i |-> 0, up |-> <<>>]

RECURSIVE BDescend(_, _, _)
BDescend(n, up, x) ==       \* to the leaf that x belongs to
    LET i == CountLess(n.data, x) + 1
    IN  IF Leaf(n) THEN [node |-> n, i |-> i, up |-> up]
        ELSE BDescend(n.kids[i], Append(up, [node |-> n, i |-> i]), x)

BSeekToFirst(n) == BDescend(n, <<>>, <<0, 0>>)
BSeek(n, x) ==
    LET it == BDescend(n, <<>>, x) IN IF it.i <= Len(it.node.data) THEN it ELSE BNone

RECURSIVE BPop(_)
BPop(up) ==
    IF up = <<>> THEN BNone
    ELSE IF Last(up).i <= Len(Last(up).node.data)
    THEN [node |-> Last(up).node, i |-> Last(up).i, up |-> Front(up)]
    ELSE BPop(Front(up))

BNext(it) ==
    IF ~Leaf(it.node)
    THEN BDescend(it.node.kids[it.i + 1], Append(it.up, [node |-> it.node, i |-> it.i + 1]), <<0, 0>>)
    ELSE IF it.i + 1 <= Len(it.node.data) THEN [it EXCEPT !.i = @ + 1]
    ELSE BPop(it.up)

-----------------------------------------------------------------------------
(* AVL tree.  A node is [key, l, r, h]; Nil has height 0.                  *)

Nil == [h |-> 0]
Node(k, l, r) == [key |-> k, l |-> l, r |-> r, h |-> Max({l.h, r.h}) + 1]

LeftRotate(x) == Node(x.r.key, Node(x.key, x.l, x.r.l), x.r.r)
RightRotate(x) == Node(x.l.key, x.l.l, Node(x.key, x.l.r, x.r))
LeftRightRotate(x) == RightRotate([x EXCEPT !.l = LeftRotate(@)])
RightLeftRotate(x) == LeftRotate([x EXCEPT !.r = RightRotate(@)])

RECURSIVE AInsert(_, _)
AInsert(n, x) ==
    IF n = Nil THEN Node(x, Nil, Nil)
    ELSE LET leq(k) == ~Less(k, x)
             m == IF leq(n.key) THEN Node(n.key, AInsert(n.l, x), n.r)
                  ELSE Node(n.key, n.l, AInsert(n.r, x))
             balance == m.l.h - m.r.h
         IN  CASE balance > 1 /\ leq(m.l.key) -> RightRotate(m)
               [] balance > 1 /\ ~leq(m.l.key) -> LeftRightRotate(m)
               [] balance < -1 /\ ~leq(m.r.key) -> LeftRotate(m)
               [] balance < -1 /\ leq(m.r.key) -> RightLeftRotate(m)
               [] OTHER -> m

RECURSIVE Leftmost(_)
Leftmost(n) == IF n.l = Nil THEN n ELSE Leftmost(n.l)

Rebalance(m) ==
    LET balance == m.l.h - m.r.h
    IN  CASE balance > 1 /\ m.l.l.h >= m.l.r.h -> RightRotate(m)
          [] balance > 1 /\ m.l.l.h < m.l.r.h -> LeftRightRotate(m)
          [] balance < -1 /\ m.r.l.h <= m.r.r.h -> LeftRotate(m)
          [] balance < -1 /\ m.r.l.h > m.r.r.h -> RightLeftRotate(m)
          [] OTHER -> m

RECURSIVE ADelete(_, _)
ADelete(n, x) ==
    CASE n = Nil -> Nil
      [] n # Nil /\ Less(x, n.key) -> Rebalance(Node(n.key, ADelete(n.l, x), n.r))
      [] n # Nil /\ Less(n.key, x) -> Rebalance(Node(n.key, n.l, ADelete(n.r, x)))
      [] n # Nil /\ x = n.key ->
            IF n.l = Nil THEN n.r
            ELSE IF n.r = Nil THEN n.l
            ELSE LET succ == Leftmost(n.r).key
                 IN  Rebalance(Node(succ, n.l, ADelete(n.r, succ)))

(* cmpIgnoringSeqId: the first entry whose key is not below that of x.     *)
RECURSIVE ALowerBound(_, _, _)
ALowerBound(n, x, candidate) ==
    IF n = Nil THEN candidate
    ELSE IF n.key[1] >= x[1] THEN ALowerBound(n.l, x, <<n.key>>)
    ELSE ALowerBound(n.r, x, candidate)

(* The iterator: the node and its parents, with the side it came from.     *)
RECURSIVE AFirst(_, _)
AFirst(n, up) ==
    IF n = Nil \/ n.l = Nil THEN [node |-> n, up |-> up]
    ELSE AFirst(n.l, Append(up, [node |-> n, left |-> TRUE]))

(* Seek keeps the path to the last node it looked at, also when it stops   *)
(* at an earlier one.                                                      *)
RECURSIVE ASeek(_, _, _)
ASeek(n, x, it) ==
    LET left == n.key[1] >= x[1]
        next == IF left THEN n.l ELSE n.r
        up == IF next = Nil THEN it.up ELSE Append(it.up, [node |-> n, left |-> left])
    IN  IF n = Nil THEN it
        ELSE ASeek(next, x, [node |-> IF left THEN n ELSE it.node, up |-> up])

RECURSIVE APop(_)
APop(up) ==
    IF up = <<>> THEN [node |-> Nil, up |-> <<>>]
    ELSE IF Last(up).left THEN [node |-> Last(up).node, up |-> Front(up)]
    ELSE APop(Front(up))

ANext(it) ==
    IF it.node.r # Nil
    THEN AFirst(it.node.r, Append(it.up, [node |-> it.node, left |-> FALSE]))
    ELSE APop(it.up)

-----------------------------------------------------------------------------
(* Red-black tree: [root, n], n a sequence of nodes [key, l, r, p, red]    *)
(* that name each other by their place; node S is the sentinel, whose      *)
(* parent is overwritten.                                                  *)

S == 1
Sentinel == [key |-> <<0, 0>>, l |-> S, r |-> S, p |-> S, red |-> FALSE]
EmptyRB == [root |-> S, n |-> <<Sentinel>>]

(* Child of x on a side, and the tree with it replaced.                    *)
Kid(t, x, left) == IF left THEN t.n[x].l ELSE t.n[x].r
SetKid(t, x, left, y) == IF left THEN [t EXCEPT !.n[x].l = y] ELSE [t EXCEPT !.n[x].r = y]
SetParent(t, x, p) == [t EXCEPT !.n[x].p = p]
SetRed(t, x, red) == [t EXCEPT !.n[x].red = red]

(* v takes the place of u below u's parent.                                *)
Replace(t, u, v) ==
    LET p == t.n[u].p
    IN  IF p = S THEN [t EXCEPT !.root = v] ELSE SetKid(t, p, u = t.n[p].l, v)
Transplant(t, u, v) == SetParent(Replace(t, u, v), v, t.n[u].p)

(* leftRotate, and rightRotate with the sides exchanged.                   *)
Rotate(t, x, left) ==
    LET y == Kid(t, x, ~left)
        b == Kid(t, y, left)
        t1 == SetKid(t, x, ~left, b)
        t2 == IF b = S THEN t1 ELSE SetParent(t1, b, x)
        t3 == Replace(SetParent(t2, y, t.n[x].p), x, y)
    IN  SetParent(SetKid(t3, y, left, x), x, y)

RECURSIVE InsertFixup(_, _)
InsertFixup(t, z) ==
    LET p == t.n[z].p
        g == t.n[p].p
        left == p = t.n[g].l
        u == Kid(t, g, ~left)
        inner == z = Kid(t, p, ~left)
        t1 == IF inner THEN Rotate(t, p, left) ELSE t
        q == IF inner THEN z ELSE p
    IN  CASE ~t.n[p].red -> SetRed(t, t.root, FALSE)
          [] t.n[p].red /\ t.n[u].red ->
                InsertFixup(SetRed(SetRed(SetRed(t, p, FALSE), u, FALSE), g, TRUE), g)
          [] t.n[p].red /\ ~t.n[u].red ->
                InsertFixup(Rotate(SetRed(SetRed(t1, q, FALSE), g, TRUE), g, ~left),
                            IF inner THEN p ELSE z)

RECURSIVE ParentFor(_, _, _, _)
ParentFor(t, x, y, k) ==
    IF x = S THEN y ELSE ParentFor(t, Kid(t, x, Less(k, t.n[x].key)), x, k)

RInsert(t, k) ==
    LET z == Len(t.n) + 1
        y == ParentFor(t, t.root, S, k)
        new == [key |-> k, l |-> S, r |-> S, p |-> y, red |-> TRUE]
        t1 == [t EXCEPT !.n = Append(@, new)]
        t2 == IF y = S THEN [t1 EXCEPT !.root = z] ELSE SetKid(t1, y, Less(k, t.n[y].key), z)
    IN  InsertFixup(t2, z)

RECURSIVE Minimum(_, _)
Minimum(t, x) == IF t.n[x].l = S THEN x ELSE Minimum(t, t.n[x].l)

RECURSIVE DeleteFixup(_, _)
DeleteFixup(t, x) ==
    LET p == t.n[x].p
        left == x = t.n[p].l
        w0 == Kid(t, p, ~left)
        t1 == IF t.n[w0].red
              THEN Rotate(SetRed(SetRed(t, w0, FALSE), p, TRUE), p, left) ELSE t
        w1 == Kid(t1, p, ~left)
        near == Kid(t1, w1, left)
        far == Kid(t1, w1, ~left)
        t2 == IF t1.n[far].red THEN t1
              ELSE Rotate(SetRed(SetRed(t1, near, FALSE), w1, TRUE), w1, ~left)
        w2 == Kid(t2, p, ~left)
        t3 == SetRed(SetRed(SetRed(t2, w2, t2.n[p].red), p, FALSE), Kid(t2, w2, ~left), FALSE)
    IN  IF x = t.root \/ t.n[x].red THEN SetRed(t, x, FALSE)
        ELSE IF ~t1.n[near].red /\ ~t1.n[far].red THEN DeleteFixup(SetRed(t1, w1, TRUE), p)
        ELSE LET t4 == Rotate(t3, p, left) IN SetRed(t4, t4.root, FALSE)

(* Mutant: the colour of the moved node decides, after it was recoloured.  *)
FixupNeededLate(t, z) ==
    ~t.n[z].red

(* The colour of the node that leaves its place decides.                   *)
FixupNeeded(t, z) ==
    ~t.n[IF t.n[z].l = S \/ t.n[z].r = S THEN z ELSE Minimum(t, t.n[z].r)].red

RDelete(t, z) ==
    LET l == t.n[z].l
        r == t.n[z].r
        one == l = S \/ r = S
        y == IF one THEN z ELSE Minimum(t, r)
        x == IF l = S THEN r ELSE IF r = S THEN l ELSE t.n[y].r
        t1 == IF t.n[y].p = z THEN SetParent(t, x, y)
              ELSE LET u == Transplant(t, y, x)
                   IN  SetParent(SetKid(u, y, FALSE, u.n[z].r), u.n[z].r, y)
        t2 == Transplant(t1, z, y)
        t3 == SetRed(SetParent(SetKid(t2, y, TRUE, l), l, y), y, t.n[z].red)
        t4 == IF one THEN Transplant(t, z, x) ELSE t3
        t5 == IF FixupNeeded(t, z) THEN DeleteFixup(t4, x) ELSE t4
    IN  [t5 EXCEPT !.n[z] = Sentinel]

RECURSIVE RLowerBound(_, _, _, _)
RLowerBound(t, x, k, candidate) ==
    IF x = S THEN candidate
    ELSE IF t.n[x].key[1] >= k[1] THEN RLowerBound(t, t.n[x].l, k, x)
    ELSE RLowerBound(t, t.n[x].r, k, candidate)

RECURSIVE Climb(_, _, _)
Climb(t, x, p) == IF p # S /\ x = t.n[p].r THEN Climb(t, p, t.n[p].p) ELSE p
RNext(t, x) ==
    IF t.n[x].r # S THEN Minimum(t, t.n[x].r) ELSE Climb(t, x, t.n[x].p)

-----------------------------------------------------------------------------
(* Skip list: [level, nodes]; node 1 is the header, 0 is nil, and a node   *)
(* has an entry and, for each of its levels, the number of the next node.  *)

SkipNode(x, next) == [entry |-> x, next |-> next]
EmptySL == [level |-> 1, nodes |-> <<SkipNode(<<0, 0>>, [i \in 1 .. MaxLevel |-> 0])>>]

(* The last node before x on level i, starting at node j.                  *)
RECURSIVE Before(_, _, _, _)
Before(l, j, i, x) ==
    LET n == l.nodes[j].next[i]
    IN  IF n # 0 /\ Less(l.nodes[n].entry, x) THEN Before(l, n, i, x) ELSE j

(* update: these nodes for the levels i .. level, from the top down.       *)
RECURSIVE Update(_, _, _)
Update(l, i, x) ==
    IF i > l.level THEN <<>>
    ELSE LET above == Update(l, i + 1, x)
         IN  <<Before(l, IF above = <<>> THEN 1 ELSE Head(above), i, x)>> \o above

SLowerBound(l, x) == l.nodes[Update(l, 1, x)[1]].next[1]

(* The nodes with the links of node j on level i given by link(j, i).      *)
Relinked(l, link) ==
    [j \in DOMAIN l.nodes |-> [l.nodes[j] EXCEPT !.next = [i \in DOMAIN @ |-> link[j, i]] \o <<>>]]
Links(l) == {<<j, i>> \in (DOMAIN l.nodes) \X (1 .. MaxLevel) : i <= Len(l.nodes[j].next)}

(* Entries are never equal to one in the list: sequence numbers are new.   *)
SInsert(l, x, rand) ==
    LET up == Update(l, 1, x)
        before(i) == IF i > l.level THEN 1 ELSE up[i]
        link == [e \in Links(l) |-> IF e[2] <= rand /\ e[1] = before(e[2]) THEN Len(l.nodes) + 1
                                    ELSE l.nodes[e[1]].next[e[2]]]
        new == SkipNode(x, [i \in 1 .. rand |-> l.nodes[before(i)].next[i]] \o <<>>)
    IN  [level |-> Max({l.level, rand}), nodes |-> Append(Relinked(l, link), new)]

SDelete(l, x) ==
    LET up == Update(l, 1, x)
        d == SLowerBound(l, x)
        linked(i) == i <= l.level /\ \A j \in 1 .. i : l.nodes[up[j]].next[j] = d
        link == [e \in Links(l) |-> IF linked(e[2]) /\ e[1] = up[e[2]] THEN l.nodes[d].next[e[2]]
                                    ELSE l.nodes[e[1]].next[e[2]]]
        nodes == Relinked(l, link) \o <<>>
    IN  IF d = 0 \/ l.nodes[d].entry # x THEN l
        ELSE [level |-> Max({i \in 1 .. l.level : nodes[1].next[i] # 0} \cup {1}),
              nodes |-> [nodes EXCEPT ![d] = SkipNode(<<0, 0>>, <<>>)]]

-----------------------------------------------------------------------------
(* Hash map: a stack of entries per key.                                   *)

HPush(m, x) ==
    IF x[1] \in DOMAIN m THEN [m EXCEPT ![x[1]] = Append(@, x)] ELSE m @@ (x[1] :> <<x>>)
HUpsert(m, x) == (x[1] :> <<x>>) @@ m
(* Remove pops one entry and drops the key with all the others.            *)
HRemove(m, x) == [k \in DOMAIN m \ {x[1]} |-> m[k]]
HLowerBound(m, x) ==
    LET from == {k \in DOMAIN m : k >= x[1]} IN IF from = {} THEN <<>> ELSE <<Last(m[Min(from)])>>
(* Mutant: the key itself is left out.                                     *)
HFromAfter(m, k) ==
    LET keys == Sorted({<<j, 0>> : j \in {h \in DOMAIN m : h > k}})
    IN  FlattenSeq([i \in DOMAIN keys |-> Reverse(m[keys[i][1]])])

(* The entries from key k on, as the iterator gives them.                  *)
HFrom(m, k) ==
    LET keys == Sorted({<<j, 0>> : j \in {h \in DOMAIN m : h >= k}})
    IN  FlattenSeq([i \in DOMAIN keys |-> Reverse(m[keys[i][1]])])

-----------------------------------------------------------------------------
(* The adapters, one operator per method of MemtableStore.                 *)

Empty(k) ==
    CASE k = "btree" -> EmptyNode [] k = "avl" -> Nil [] k = "rbtree" -> EmptyRB
      [] k = "skiplist" -> EmptySL [] k = "hashmap" -> <<>>

(* Search: the structure's lower bound, <<>> if there is none.             *)
Search(s, x) ==
    CASE kind = "btree" -> BLowerBound(s, x)
      [] kind = "avl" -> ALowerBound(s, x, <<>>)
      [] kind = "rbtree" -> LET c == RLowerBound(s, s.root, x, S)
                            IN  IF c = S THEN <<>> ELSE <<s.n[c].key>>
      [] kind = "skiplist" -> LET j == SLowerBound(s, x)
                              IN  IF j = 0 THEN <<>> ELSE <<s.nodes[j].entry>>
      [] kind = "hashmap" -> HLowerBound(s, x)

(* rand is the level a skip list draws.                                    *)
Insert(s, x, rand) ==
    CASE kind = "btree" -> BInsert(s, x) [] kind = "avl" -> AInsert(s, x)
      [] kind = "rbtree" -> RInsert(s, x) [] kind = "skiplist" -> SInsert(s, x, rand)
      [] kind = "hashmap" -> HPush(s, x)

Delete(s, x) ==
    CASE kind = "btree" -> BDelete(s, x) [] kind = "avl" -> ADelete(s, x)
      [] kind = "rbtree" -> RDelete(s, RLowerBound(s, s.root, x, S))
      [] kind = "skiplist" -> SDelete(s, x) [] kind = "hashmap" -> HRemove(s, x)

(* The newest entry of key k, as Upsert and Get look it up.                *)
Existing(s, k) ==
    LET e == Search(s, <<k, MaxSeqId>>) IN IF e = <<>> \/ e[1][1] # k THEN <<>> ELSE e

Upsert(s, x, rand) ==
    IF kind = "hashmap" THEN HUpsert(s, x)
    ELSE Insert(IF Existing(s, x[1]) = <<>> THEN s ELSE Delete(s, Existing(s, x[1])[1]), x, rand)

(* The trees that ignore sequence numbers remove an entry only if it is    *)
(* the newest of its key.                                                  *)
RemoveEntry(s, x) ==
    IF kind \in {"avl", "rbtree"} /\ Existing(s, x[1]) # <<x>> THEN s ELSE Delete(s, x)

(* What an iterator gives after Seek(x), bounded by twice the entries;     *)
(* SeekToFirst is Seek to the least entry, but for the AVL tree.           *)
Cap == 2 * MaxSeq
RECURSIVE BWalk(_, _), AWalk(_, _), RWalk(_, _), SWalk(_, _)
BWalk(it, n) ==
    IF it.i = 0 \/ n = 0 THEN <<>> ELSE <<it.node.data[it.i]>> \o BWalk(BNext(it), n - 1)
AWalk(it, n) ==
    IF it.node = Nil \/ n = 0 THEN <<>> ELSE <<it.node.key>> \o AWalk(ANext(it), n - 1)
RWalk(t, x) == IF x = S THEN <<>> ELSE <<t.n[x].key>> \o RWalk(t, RNext(t, x))
SWalk(l, j) == IF j = 0 THEN <<>> ELSE <<l.nodes[j].entry>> \o SWalk(l, l.nodes[j].next[1])

EntriesFrom(s, x) ==
    CASE kind = "btree" -> BWalk(BSeek(s, x), Cap)
      [] kind = "avl" -> AWalk(ASeek(s, x, [node |-> Nil, up |-> <<>>]), Cap)
      [] kind = "rbtree" -> RWalk(s, RLowerBound(s, s.root, x, S))
      [] kind = "skiplist" -> SWalk(s, SLowerBound(s, x))
      [] kind = "hashmap" -> HFrom(s, x[1])

(* EntriesInOrder; an empty B-tree panics: its iterator is valid.          *)
EntriesInOrder(s) ==
    CASE kind = "btree" -> IF s = EmptyNode THEN <<"panic">> ELSE BWalk(BSeekToFirst(s), Cap)
      [] kind = "avl" -> AWalk(AFirst(s, <<>>), Cap)
      [] OTHER -> EntriesFrom(s, <<0, 0>>)

-----------------------------------------------------------------------------
(* The memtable (generic_memtable.go) and its manager's Put and Remove.    *)

Rands ==
    IF kind # "skiplist" THEN {1}
    ELSE IF load # <<>> THEN {1 + (Len(load) % MaxLevel)} ELSE 1 .. MaxLevel

(* Put of a snapshotted key, or of a merge operand, keeps older versions.  *)
Put(k, rand) ==
    LET x == <<k, seq + 1>>
        replaced == Existing(st, k) # <<>>
        same == {e \in ents : e[1] = k}
    IN  /\ IF load = <<>> THEN puts < MaxPuts /\ puts' = puts + 1 /\ UNCHANGED load
           ELSE k = Head(load) /\ load' = Tail(load) /\ UNCHANGED puts
        /\ seq' = seq + 1
        /\ IF k \in snapshotted
           THEN /\ st' = Insert(st, x, rand) /\ numEntries' = numEntries + 1
                /\ ents' = ents \cup {x}
           ELSE /\ st' = Upsert(st, x, rand)
                /\ numEntries' = IF replaced THEN numEntries ELSE numEntries + 1
                /\ ents' = (ents \ same) \cup {x}
        /\ batch' = IF Len(batch) < 2 THEN Append(batch, x) ELSE <<batch[2], x>>
        /\ UNCHANGED <<kind, snapshotted, rollbacks, inexact>>

AddSnapshotKey(k) ==
    /\ k \notin snapshotted /\ load = <<>>
    /\ snapshotted' = snapshotted \cup {k}
    /\ UNCHANGED <<kind, st, numEntries, ents, batch, load, seq, puts, rollbacks, inexact>>

(* A batch of two fails: BatchWrite calls Remove for its entries in turn.  *)
Rollback ==
    /\ Len(batch) = 2 /\ load = <<>> /\ rollbacks < MaxRollbacks
    /\ st' = RemoveEntry(RemoveEntry(st, batch[1]), batch[2])
    /\ numEntries' = Max({0, numEntries - 2})
    /\ ents' = ents \ ToSet(batch)
    /\ inexact' = (inexact \/ \E b \in ToSet(batch) : b[1] \in snapshotted)
    /\ batch' = <<>> /\ rollbacks' = rollbacks + 1
    /\ UNCHANGED <<kind, snapshotted, load, seq, puts>>

(* Flush: the entries are read and the memtable is reset.                  *)
Flush ==
    /\ st # Empty(kind) /\ load = <<>>
    /\ st' = Empty(kind) /\ numEntries' = 0 /\ ents' = {} /\ batch' = <<>>
    /\ UNCHANGED <<kind, snapshotted, load, seq, puts, rollbacks, inexact>>

Init ==
    /\ kind \in Kinds /\ st = Empty(kind) /\ numEntries = 0 /\ snapshotted = {}
    /\ load \in Preloads
    /\ ents = {} /\ batch = <<>> /\ seq = 0 /\ puts = 0 /\ rollbacks = 0 /\ inexact = FALSE

Next ==
    \/ \E k \in Keys, rand \in Rands : Put(k, rand)
    \/ \E k \in SnapKeys : AddSnapshotKey(k)
    \/ Rollback \/ Flush

Spec == Init /\ [][Next]_vars

-----------------------------------------------------------------------------
(* Properties.                                                             *)

(* Rollback of a key with versions is exact in the B-tree and skip list.   *)
Exact == inexact => kind \in {"btree", "skiplist"}

(* Get finds the newest entry of every key, and none of a key that has     *)
(* none: Search is a lower bound in the order of the entries.              *)
FindsNewest ==
    Exact => \A k \in Keys :
        LET same == {e \in ents : e[1] = k}
        IN  Existing(st, k) = IF same = {} THEN <<>> ELSE <<<<k, Max({e[2] : e \in same})>>>>

(* EntriesInOrder, which Flush writes to an SSTable, gives exactly the     *)
(* entries, in order; a B-tree must not be empty.  The counter that        *)
(* triggers the rotation is their number, until the first rollback.        *)
InOrder ==
    /\ Exact /\ (kind = "btree" => st # EmptyNode) => EntriesInOrder(st) = Sorted(ents)
    /\ rollbacks = 0 => numEntries = Cardinality(ents)

(* Seek(x) moves to the first entry >= x, and Next goes on from there, as  *)
(* RawSingleMemtableIterator.Seek says and GetVersions relies on, in the   *)
(* structures whose iterators keep their place (the B-tree's and the AVL   *)
(* tree's do not).                                                         *)
SeekWhereSound ==
    kind \notin {"btree", "avl"} /\ Exact => \A k \in Keys :
        EntriesFrom(st, <<k, MaxSeqId>>) = Sorted({e \in ents : e[1] >= k})

(* The trees stay balanced through inserts, overwrites and removals.       *)
RECURSIVE BDepths(_), ABalanced(_), BlackHeights(_, _)
BDepths(n) == IF Leaf(n) THEN {1} ELSE {d + 1 : d \in UNION {BDepths(n.kids[i]) : i \in DOMAIN n.kids}}
RECURSIVE BFilled(_)
BFilled(n) ==
    \A i \in DOMAIN n.kids : Len(n.kids[i].data) \in T - 1 .. 2 * T - 1 /\ BFilled(n.kids[i])
ABalanced(n) ==
    n = Nil \/ (n.l.h - n.r.h \in -1 .. 1 /\ ABalanced(n.l) /\ ABalanced(n.r))
BlackHeights(t, x) ==
    IF x = S THEN {0}
    ELSE {d + (IF t.n[x].red THEN 0 ELSE 1) : d \in BlackHeights(t, t.n[x].l) \cup BlackHeights(t, t.n[x].r)}
Balanced ==
    CASE kind = "btree" -> Cardinality(BDepths(st)) = 1 /\ BFilled(st)
      [] kind = "avl" -> ABalanced(st)
      [] kind = "rbtree" ->
            /\ Cardinality(BlackHeights(st, st.root)) = 1 /\ ~st.n[st.root].red
            /\ \A x \in DOMAIN st.n : st.n[x].red => ~st.n[st.n[x].l].red /\ ~st.n[st.n[x].r].red
      [] OTHER -> TRUE

===============================================================================
