------------------------------- MODULE Iterators -------------------------------
(***************************************************************************)
(* Range scans: the merge structures (internal/structures/min_heap.go and  *)
(* winner_tree.go), the merged iterators over the memtables                *)
(* (internal/memtable/memtable_iterator.go) and over the SSTables          *)
(* (internal/sstable/iterator.go), DBIterator and RangeIterator            *)
(* (internal/iterator) and the pages of internal/core/scan.go.             *)
(*                                                                         *)
(* A source, one memtable or one SSTable, is the sequence of its records   *)
(* by key, the newest version first, together with its tombstones; keys    *)
(* are numbers, 0 the empty key.  An iterator is a position in its source. *)
(* Iterators change when they are moved, so the operators take and return  *)
(* the whole merge m: [src, seek, kind, its, pos, data].                   *)
(***************************************************************************)
EXTENDS Integers, Sequences, FiniteSets, SequencesExt, RangeDel

CONSTANT ProbKeys   \* keys of probabilistic structures, which scans leave out

(* The zero entry, which a memtable's iterator returns once it is invalid. *)
Zero == [key |-> 0, seq |-> 0, op |-> "Put"]

-----------------------------------------------------------------------------
(* One source.                                                             *)

Before(a, b) == a.key < b.key \/ (a.key = b.key /\ a.seq > b.seq)

ItValid(m, i) == i # 0 /\ m.pos[i] <= Len(m.src[i])
ItKey(m, i) == IF ItValid(m, i) THEN m.src[i][m.pos[i]] ELSE Zero
MoveTo(m, i, p) == [m EXCEPT !.pos[i] = p]

(* Memtables are searched for the pair of the key and sequence number 0,   *)
(* which sorts behind every version of the key: a store that compares both *)
(* ("after") moves behind the key, one that compares keys ("at") to it.    *)
SeekPos(recs, k, seek) ==
    1 + Cardinality({i \in DOMAIN recs : recs[i].key < k \/ (seek = "after" /\ recs[i].key = k)})

-----------------------------------------------------------------------------
(* HeapPriorityQueue; data holds the numbers of the iterators.             *)

Top(m, j) == ItKey(m, m.data[j])
Swap(m, i, j) == [m EXCEPT !.data[i] = m.data[j], !.data[j] = m.data[i]]
DropLast(m, j) == [m EXCEPT !.data = Front([m.data EXCEPT ![j] = Last(m.data)])]

RECURSIVE Upheap(_, _)
Upheap(m, j) ==
    IF j > 1 /\ Before(Top(m, j), Top(m, j \div 2))
    THEN Upheap(Swap(m, j, j \div 2), j \div 2) ELSE m

RECURSIVE Downheap(_, _)
Downheap(m, j) ==
    LET n == Len(m.data)
        child == IF 2 * j < n /\ Before(Top(m, 2 * j + 1), Top(m, 2 * j)) THEN 2 * j + 1 ELSE 2 * j
    IN  IF 2 * j <= n /\ Before(Top(m, child), Top(m, j))
        THEN Downheap(Swap(m, j, child), child) ELSE m

NewHeap(m) ==
    LET full == [m EXCEPT !.data = m.its]
        half == Len(m.its) \div 2
    IN  FoldLeft(Downheap, full, [i \in 1 .. half |-> half + 1 - i])

(* An iterator that became invalid leaves for good; the one that takes its *)
(* place is only moved down.                                               *)
HeapUpdate(m, i) ==
    IF i \notin ToSet(m.data) THEN m
    ELSE LET j == CHOOSE j \in DOMAIN m.data : m.data[j] = i
         IN  IF ItValid(m, i) THEN Upheap(Downheap(m, j), j)
             ELSE IF j = Len(m.data) THEN DropLast(m, j) ELSE Downheap(DropLast(m, j), j)

HeapAdvance(m) ==
    LET i == m.data[1]
        moved == MoveTo(m, i, m.pos[i] + 1)
    IN  IF ItValid(moved, i) THEN Downheap(moved, 1)
        ELSE IF Len(m.data) = 1 THEN DropLast(moved, 1) ELSE Downheap(DropLast(moved, 1), 1)

-----------------------------------------------------------------------------
(* WinnerTree; data holds the k leaves (0: none), then the inner nodes.    *)

LeafCount(m) == CHOOSE k \in {1, 2, 4, 8} : k >= Len(m.its) /\ (k = 1 \/ k \div 2 < Len(m.its))

(* iterator.Compare: an invalid iterator loses, the left one wins a tie.   *)
Compare(m, a, b) ==
    IF ~ItValid(m, a) THEN b
    ELSE IF ~ItValid(m, b) THEN a
    ELSE IF Before(ItKey(m, b), ItKey(m, a)) THEN b ELSE a

Replay(m, n) ==
    LET left == 2 * (n - LeafCount(m)) - 1
    IN  [m EXCEPT !.data[n] = Compare(m, m.data[left], m.data[left + 1])]

NewWinnerTree(m) ==
    LET k == LeafCount(m)
        leaves == [i \in 1 .. 2 * k - 1 |-> IF i <= Len(m.its) THEN m.its[i] ELSE 0]
    IN  FoldLeft(Replay, [m EXCEPT !.data = leaves], [i \in 1 .. k - 1 |-> k + i])

(* The inner nodes from a leaf to the root.                                *)
RECURSIVE PathToRoot(_, _)
PathToRoot(m, n) ==
    LET k == LeafCount(m)
        up == k + (n + 1) \div 2
    IN  IF n = 2 * k - 1 THEN <<>> ELSE <<up>> \o PathToRoot(m, up)

TreeUpdate(m, i) == FoldLeft(Replay, m, PathToRoot(m, CHOOSE j \in DOMAIN m.its : m.its[j] = i))

TreeAdvance(m) ==
    LET i == Last(m.data)
    IN  TreeUpdate(MoveTo(m, i, m.pos[i] + 1), i)

-----------------------------------------------------------------------------
(* MergeStructure, and the raw merged iterators on top of it.              *)

Winner(m) == IF m.data = <<>> THEN 0 ELSE IF m.kind = "heap" THEN m.data[1] ELSE Last(m.data)
Update(m, i) == IF m.kind = "heap" THEN HeapUpdate(m, i) ELSE TreeUpdate(m, i)
Advance(m) == IF m.kind = "heap" THEN HeapAdvance(m) ELSE TreeAdvance(m)
Its(m) == IF m.kind = "heap" THEN m.data ELSE m.its

RawValid(m) == ItValid(m, Winner(m))
RawKey(m) == ItKey(m, Winner(m))

(* NewRawIterator, NewSSTableMergeIteratorRaw: sources without records are *)
(* left out.                                                               *)
NewRaw(src, seek, kind) ==
    LET its == SelectSeq([i \in DOMAIN src |-> i], LAMBDA i : src[i] # <<>>)
        m == [src |-> src, seek |-> seek, kind |-> kind, its |-> its,
              pos |-> [i \in DOMAIN src |-> 1], data |-> <<>>]
    IN  IF its = <<>> THEN m ELSE IF kind = "heap" THEN NewHeap(m) ELSE NewWinnerTree(m)

(* SeekToFirst of both raw iterators, and Seek of the SSTables' one: move  *)
(* and update one iterator after the other.                                *)
RawSeekToFirst(m) == FoldLeft(LAMBDA n, i : Update(MoveTo(n, i, 1), i), m, Its(m))

SSTSeek(m, k) ==
    FoldLeft(LAMBDA n, i : Update(MoveTo(n, i, SeekPos(m.src[i], k, m.seek)), i), m, Its(m))

(* Seek of the memtables' one: move all, then update each.                 *)
MemSeek(m, k) ==
    LET moved == [m EXCEPT !.pos = [i \in DOMAIN m.src |->
                     IF i \in ToSet(Its(m)) THEN SeekPos(m.src[i], k, m.seek) ELSE @[i]]]
    IN  FoldLeft(Update, moved, Its(moved))

RECURSIVE SkipKey(_, _)
SkipKey(m, k) == IF RawValid(m) /\ RawKey(m).key = k THEN SkipKey(Advance(m), k) ELSE m

-----------------------------------------------------------------------------
(* SSTableMergeIterator: [raw, chk, cur], cur = Zero when it is not valid; *)
(* chk holds the tombstone iterators of the tables.                        *)

RECURSIVE SSTAdvance(_, _)
SSTAdvance(s, prev) ==
    LET rec == RawKey(s.raw)
        chk == [i \in DOMAIN s.chk |-> Sweep(s.chk[i], rec.key)]
        skipped == [s EXCEPT !.raw = SkipKey(@, rec.key)]
    IN  IF ~RawValid(s.raw) THEN [s EXCEPT !.cur = Zero]
        ELSE IF rec.key = prev THEN SSTAdvance(skipped, prev)
        ELSE IF rec.op = "Del" THEN SSTAdvance(skipped, rec.key)
        ELSE IF ShouldDelete(ToSet(chk), rec.seq)
        THEN SSTAdvance([skipped EXCEPT !.chk = chk], rec.key)
        ELSE [s EXCEPT !.cur = rec, !.chk = chk]

SSTNext(s) == SSTAdvance([s EXCEPT !.raw = SkipKey(@, RawKey(@).key)], s.cur.key)

-----------------------------------------------------------------------------
(* DBIterator: [mem, sst, frags, memRds, cur], cur = Zero when not valid.  *)

(* GenericMemtable.IsCoveredByRangeDel: of the tombstones with the same    *)
(* start the newest is looked at, and the end key is covered too.          *)
MemCovered(memRds, k, s) ==
    \E R \in memRds : \E d \in R :
        /\ d.seq > s /\ d.lo <= k /\ k <= d.hi
        /\ \A e \in R : e.lo = d.lo => e.seq <= d.seq

RECURSIVE SkipTables(_, _)
SkipTables(s, k) == IF s.cur # Zero /\ s.cur.key = k THEN SkipTables(SSTNext(s), k) ELSE s

SelectWinner(db) ==
    IF RawValid(db.mem) /\ (db.sst.cur = Zero \/ ~Before(db.sst.cur, RawKey(db.mem)))
    THEN RawKey(db.mem) ELSE db.sst.cur

RECURSIVE DBAdvance(_)
DBAdvance(db) ==
    LET e == SelectWinner(db)
        skipped == [db EXCEPT !.mem = SkipKey(@, e.key), !.sst = SkipTables(@, e.key)]
    IN  IF e = Zero THEN [db EXCEPT !.cur = Zero]
        ELSE IF e.op = "Del" \/ MemCovered(db.memRds, e.key, e.seq) THEN DBAdvance(skipped)
        ELSE [skipped EXCEPT !.cur = e]

SSTSeekToFirst(s, frags) ==
    SSTAdvance([raw |-> RawSeekToFirst(s.raw), cur |-> Zero,
                chk |-> [i \in DOMAIN frags |-> SeekTombstonesToFirst(frags[i])]], 0)

DBSeekToFirst(db) ==
    DBAdvance([db EXCEPT !.mem = RawSeekToFirst(@), !.sst = SSTSeekToFirst(@, db.frags)])

DBSeek(db, k) ==
    DBAdvance([db EXCEPT
        !.mem = MemSeek(@, k),
        !.sst = SSTAdvance([raw |-> SSTSeek(@.raw, k), cur |-> Zero,
                            chk |-> [i \in DOMAIN db.frags |-> SeekTombstones(db.frags[i], k)]], 0)])

(* ReadersForRange, EntryIterator and NewDBIterator.  Each new iterator is *)
(* moved to its first entry; deleted keys before it, and in DBIterator the *)
(* entry's own key, have then been taken out of the sources.               *)
Overlaps(t, lower, upper) ==
    /\ upper = 0 \/ Head(t.recs).key <= upper
    /\ lower = 0 \/ Last(t.recs).key >= lower

NewDBIterator(mem, sst, seek, kind, lower, upper) ==
    LET readers == SelectSeq(sst, LAMBDA t : Overlaps(t, lower, upper))
        frags == [i \in DOMAIN readers |-> FragmentRangeTombstones(readers[i].rds)]
        raw == NewRaw([i \in DOMAIN readers |-> readers[i].recs], "at", "heap")
    IN  DBSeekToFirst(
            [mem |-> NewRaw([i \in DOMAIN mem |-> mem[i].recs], seek, kind),
             sst |-> SSTSeekToFirst([raw |-> raw, cur |-> Zero, chk |-> <<>>], frags),
             frags |-> frags, memRds |-> {mem[i].rds : i \in DOMAIN mem}, cur |-> Zero])

(* RangeIterator over [lower, upper]; an empty bound is none.              *)
SeekToLower(db, lower) == IF lower = 0 THEN DBSeekToFirst(db) ELSE DBSeek(db, lower)

InRange(db, lower, upper) ==
    /\ db.cur # Zero
    /\ lower = 0 \/ db.cur.key >= lower
    /\ upper = 0 \/ db.cur.key <= upper

RECURSIVE Entries(_, _, _)
Entries(db, lower, upper) ==
    IF InRange(db, lower, upper) THEN <<db.cur>> \o Entries(DBAdvance(db), lower, upper) ELSE <<>>

(* RangeScan: page number page of the entries a user may see.              *)
Visible(es) == SelectSeq(es, LAMBDA e : e.key \notin ProbKeys)
PageOf(es, page, size) ==
    SubSeq(es, page * size + 1, IF Len(es) < (page + 1) * size THEN Len(es) ELSE (page + 1) * size)

RangeScan(mem, sst, seek, kind, lower, upper, page, size) ==
    PageOf(Visible(Entries(SeekToLower(NewDBIterator(mem, sst, seek, kind, lower, upper), lower),
                           lower, upper)), page, size)
=============================================================================
