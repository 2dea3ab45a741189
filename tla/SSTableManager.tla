--------------------------- MODULE SSTableManager ---------------------------
(***************************************************************************)
(* The SSTable manager (internal/sstable/manager.go, manifest.go) and the  *)
(* two compaction strategies (internal/lsm/strategy.go): the flush worker  *)
(* writes L0 tables and compacts the layers, readers look keys up between  *)
(* its steps, and the process may crash between any two changes of the     *)
(* disk: a new table file, a saved manifest, a deleted file.               *)
(*                                                                         *)
(* Keys are numbers in their byte order, 0 the nil key; a range tombstone  *)
(* covers lo <= key < hi.  What a table file does with its records is the  *)
(* subject of module SSTableFile: here a file is the set of its records.   *)
(* A table's size is its number of records and tombstones.                 *)
(***************************************************************************)
EXTENDS Integers, Sequences, FiniteSets, FiniteSetsExt, SequencesExt, RangeDel

CONSTANTS
    MaxKey,       \* user keys are 1 .. MaxKey
    ProbKeys,     \* those that hold a probabilistic structure (merge operands)
    SnapKeys,     \* those the user may snapshot
    Memtables,    \* the memtables to flush: [key, op, exp, ranges, rangeFirst], one
                  \* point record and range tombstones <<lo, hi>> that are older or newer
    Strategies,   \* CompactionAlgorithm: "leveled", "tiered"
    MaxHeight, L0Trigger, L1Max, LevelSizeMultiplier, MinMergeThreshold,
    QuietClear,   \* ClearAll is only called while the flush worker is idle
    MaxSeq, MaxCrashes, MaxClears   \* bounds

Keys == 1 .. MaxKey

ASSUME ManagerAssumption ==
    /\ MaxKey \in Nat \ {0} /\ ProbKeys \cup SnapKeys \subseteq Keys
    /\ \A m \in Memtables : m.key \in Keys /\ m.op \in {"Put", "Del", "Base", "Op"}
    /\ \A m \in Memtables : m.exp \in BOOLEAN /\ (m.exp => m.op = "Put")
    /\ \A m \in Memtables : IsFiniteSet(m.ranges)
    /\ \A m \in Memtables : \A r \in m.ranges : r[1] \in Keys /\ r[2] \in r[1] .. MaxKey + 1
    /\ Strategies \subseteq {"leveled", "tiered"}
    /\ \A n \in {MaxHeight, L0Trigger, L1Max, LevelSizeMultiplier, MinMergeThreshold} :
          n \in Nat \ {0}
    /\ QuietClear \in BOOLEAN /\ {MaxSeq, MaxCrashes, MaxClears} \subseteq Nat

VARIABLES
    strategy,   \* lsm.strategy
    layers,     \* sm.Layers: a sequence of [tabs : Seq(reader), needsUpdate]
    nextId,     \* Manifest.NextSStableId in memory
    frags,      \* the fragment cache: [val, dirty]
    snap,       \* sm.snapshotKeys
    worker,     \* the flush worker, see Worker
    status,     \* "up", "down", or "stuck": NewSSTableManager panics
    files,      \* on disk: file name -> table
    manifest,   \* on disk: [next, layers], or NoManifest
    \* history
    seq,        \* the sequence numbers given out
    hist,       \* every record of a table in L0 since the last ClearAll
    rdHist,     \* every range tombstone of these tables
    kept,       \* versions of snapshotted keys that must be retained
    crashes, clears,
    failure,    \* why the latest Compact panicked: "none", "noBase", "noLeaves", "notFound";
                \* or "misplaced", see MoveSSTable
    torn,       \* a merge was cut short, or the manifest rebuilt from file names
    stray       \* "left": file names do not tell any more which tables there are, and in
                \* which layer; "listed": and the manifest was rebuilt from them; or "none"

volatile == <<layers, nextId, frags, snap, worker, status>>
history == <<seq, hist, rdHist, kept, crashes, clears, failure, torn, stray>>
vars == <<strategy, volatile, files, manifest, history>>

(* A record: vals are the operands applied to a probabilistic structure    *)
(* since its base state, exp says that it has expired when it reaches a    *)
(* table (a TTL that is over later is not told apart from none).            *)
Rec(k, s, op, vals, exp) == [key |-> k, seq |-> s, op |-> op, vals |-> vals, exp |-> exp]
Table(recs, rds) == [recs |-> recs, rds |-> rds]

(* A file whose writing was not finished: no valid footer.                 *)
Partial == [recs |-> {}, rds |-> {<<>>}]
NoManifest == [next |-> -1, layers |-> <<>>]
NoLayer == [tabs |-> <<>>, needsUpdate |-> FALSE]

Idle == [pc |-> "idle", i |-> 0, id |-> 0, to |-> 0, content |-> Table({}, {}), inputs |-> <<>>]

Expired(r) == r.exp
NewestOf(R) == CHOOSE r \in R : \A s \in R : s.seq <= r.seq
OfKey(R, k) == {r \in R : r.key = k}

(* The k-th smallest of a set of numbers, and the elements of a sequence   *)
(* at the positions I.                                                     *)
Nth(I, k) == CHOOSE i \in I : Cardinality({j \in I : j <= i}) = k
Chosen(s, I) == [k \in 1 .. Cardinality(I) |-> s[Nth(I, k)]]

-----------------------------------------------------------------------------
(* Tables and layers.                                                      *)

Recs(t) == files[t.name].recs
RangeDels(t) == files[t.name].rds
Written(fs, name, t) == [n \in DOMAIN fs \cup {name} |-> IF n = name THEN t ELSE fs[n]]
MinKey(t) == IF Recs(t) = {} THEN 0 ELSE Min({r.key : r \in Recs(t)})
MaxKeyOf(t) == IF Recs(t) = {} THEN 0 ELSE Max({r.key : r \in Recs(t)})
SizeBytes(t) == Cardinality(Recs(t)) + Cardinality(RangeDels(t))

AllTables == UNION {ToSet(layers[l].tabs) : l \in DOMAIN layers}
MergeAndFragment(T) == FragmentRangeTombstones(UNION {RangeDels(t) : t \in T})

(* The first reader, or manifest entry, with the identifier goes.          *)
Without(ts, id) == RemoveFirstMatch(ts, LAMBDA t : t.id = id)
GrowTo(ls, n) == [l \in 1 .. Max({Len(ls), n + 1}) |-> IF l <= Len(ls) THEN ls[l] ELSE NoLayer]
AppendSSTable(ls, t, n) ==
    [GrowTo(ls, n) EXCEPT ![n + 1] = [tabs |-> Append(@.tabs, t), needsUpdate |-> TRUE]]
RemoveSSTable(ls, id, n) ==
    IF \E t \in ToSet(ls[n + 1].tabs) : t.id = id
    THEN [ls EXCEPT ![n + 1] = [tabs |-> Without(@.tabs, id), needsUpdate |-> TRUE]]
    ELSE ls

(* GetSize never stores the sum it returns: a second call sees sizeBytes,  *)
(* which stays 0, until the layer changes again.                           *)
GetSize(l) == IF l.needsUpdate THEN MapThenSumSet(SizeBytes, ToSet(l.tabs)) ELSE 0

(* Manifest entries, indexed by layer + 1.                                 *)
ManifestRows(m, n) == IF n + 1 <= Len(m.layers) THEN m.layers[n + 1] ELSE <<>>
ManifestPut(m, n, rows) ==
    [m EXCEPT !.layers = [l \in 1 .. Max({Len(m.layers), n + 1}) |->
                             IF l = n + 1 THEN rows ELSE ManifestRows(m, l - 1)]]
EmptyManifest == [next |-> 0, layers |-> <<>>]
Saved(m) == IF m = NoManifest THEN EmptyManifest ELSE m

-----------------------------------------------------------------------------
(* Reads.                                                                  *)

(* getFragments: the cache serves while it is neither dirty nor empty.     *)
Fragments == IF ~frags.dirty /\ frags.val # {} THEN frags.val ELSE MergeAndFragment(AllTables)

(* SSTableReader.Get: the newest version in the table, unless the table's  *)
(* own tombstones cover it.                                                *)
ReaderGet(t, k) ==
    LET R == OfKey(Recs(t), k)
    IN  {r \in R : r = NewestOf(R)
                   /\ ~IsCoveredByRangeTombstone(FragmentRangeTombstones(RangeDels(t)), k, r.seq)}

(* Get: {} for not found, else the record.                                 *)
Get(k) ==
    LET found == UNION {ReaderGet(t, k) : t \in AllTables}
        best == NewestOf(found)
    IN  IF \/ found = {}
           \/ best.op = "Del"
           \/ IsCoveredByRangeTombstone(Fragments, k, best.seq)
           \/ Expired(best)
        THEN {} ELSE {best}

(* GetVersions: every live version, one per sequence number; an upper      *)
(* layer is read first, and in a layer the latest table.                   *)
Precedes(t, u) ==
    \E l, m \in DOMAIN layers :
        \E i \in DOMAIN layers[l].tabs, j \in DOMAIN layers[m].tabs :
            /\ layers[l].tabs[i] = t /\ layers[m].tabs[j] = u
            /\ l < m \/ (l = m /\ i > j)
GetVersions(k) ==
    {r \in UNION {OfKey(Recs(t), k) : t \in AllTables} :
        /\ r.op # "Del" /\ ~Expired(r)
        /\ \E t \in AllTables :
              /\ r \in Recs(t)
              /\ \A u \in AllTables : Precedes(u, t) => \A v \in OfKey(Recs(u), k) :
                    v = r \/ v.seq # r.seq \/ v.op = "Del"}

(* merge.ApplyAll over the versions of a probabilistic key.  baseFirst     *)
(* orders a base state and an operand with the same sequence number.       *)
NeedsBase(V, baseFirst) ==
    LET old(a, b) == a.seq < b.seq \/ (a.seq = b.seq /\ (a.op = "Base") = baseFirst)
        live == {r \in V : r.op # "Del"}
    IN  \E r \in live : r.op = "Op" /\ \A b \in live : b = r \/ old(r, b)
ApplyAll(V) ==
    LET bases == {r \in V : r.op = "Base"}
        last == NewestOf(bases)
    IN  last.vals \cup UNION {r.vals : r \in {q \in V : q.op = "Op" /\ q.seq > last.seq}}

-----------------------------------------------------------------------------
(* MergeSSTables.                                                          *)

(* Mutants: tombstones are dropped by every merge; only the newest version *)
(* of a snapshotted key is kept; only the newest operand is folded.        *)
MergedKeyDrop(V, rds, skipTombstones) ==
    LET new == NewestOf(V)
    IN  IF new.op = "Del" \/ IsCoveredByRangeTombstone(rds, new.key, new.seq) THEN {}
        ELSE IF new.op = "Put" THEN {r \in IF new.key \in snap THEN V ELSE {new} : ~Expired(r)}
        ELSE {Rec(new.key, new.seq, "Base", ApplyAll(V), FALSE)}
MergedKeyOne(V, rds, skipTombstones) ==
    LET new == NewestOf(V)
    IN  IF (skipTombstones /\ new.op = "Del") \/ IsCoveredByRangeTombstone(rds, new.key, new.seq)
        THEN {} ELSE {[new EXCEPT !.op = IF @ = "Op" THEN "Base" ELSE @]}

(* What a merge writes for one key.                                        *)
MergedKey(V, rds, skipTombstones) ==
    LET new == NewestOf(V)
    IN  CASE new.op = "Del" -> IF skipTombstones THEN {} ELSE {new}
          [] new.op # "Del" /\ IsCoveredByRangeTombstone(rds, new.key, new.seq) -> {}
          [] new.op \in {"Base", "Op"} /\ ~IsCoveredByRangeTombstone(rds, new.key, new.seq) ->
                {Rec(new.key, new.seq, "Base", ApplyAll(V), FALSE)}
          [] OTHER -> {r \in IF new.key \in snap THEN V ELSE {new} : ~Expired(r)}

MergeFails(T, rds, baseFirst) ==
    \E k \in ProbKeys :
        LET V == OfKey(UNION {Recs(t) : t \in T}, k)
        IN  /\ V # {} /\ NewestOf(V).op # "Del"
            /\ ~IsCoveredByRangeTombstone(rds, k, NewestOf(V).seq)
            /\ NeedsBase(V, baseFirst)

(* The process is gone, and with it everything in memory.                  *)
Die ==
    /\ status' = "down" /\ layers' = <<>> /\ nextId' = 0 /\ worker' = Idle
    /\ frags' = [val |-> {}, dirty |-> FALSE] /\ snap' = {} /\ kept' = {}
    /\ torn' = (torn \/ worker.pc \in {"delete", "unlist"})
    /\ UNCHANGED <<strategy, seq, hist, rdHist, clears, stray>>

(* An error of Compact: onFlush panics in the worker's goroutine.          *)
Panic(why) == Die /\ failure' = why /\ UNCHANGED crashes

(* The loop of Compact reaches layer i, or its end.                        *)
GoOn(ls, i) ==
    /\ layers' = ls
    /\ worker' = IF i >= Len(ls) THEN Idle ELSE [Idle EXCEPT !.pc = "compact", !.i = i]

(* createSSTable and the records.  Nothing to write: the inputs stay, and  *)
(* so does the new, unfinished file.  Only tombstones to write: Finalize   *)
(* cannot build a Merkle tree over no data block.  A merge that drops      *)
(* tombstones is the last step of Compact.                                 *)
MergeSSTables(inputs, to, skipTombstones, ls) ==
    LET T == ToSet(inputs)
        all == UNION {Recs(t) : t \in T}
        rds == MergeAndFragment(T)
        out == UNION {MergedKey(OfKey(all, k), rds, skipTombstones) : k \in {r.key : r \in all}}
        next == IF skipTombstones THEN MaxHeight ELSE worker.i + 1
    IN  /\ files' = Written(files, <<to, nextId>>, Partial)
        /\ UNCHANGED manifest
        /\ \E baseFirst \in BOOLEAN :
              \/ MergeFails(T, rds, baseFirst) /\ Panic("noBase")
              \/ /\ ~MergeFails(T, rds, baseFirst)
                 /\ out = {} /\ ~skipTombstones /\ rds # {}
                 /\ Panic("noLeaves")
              \/ /\ ~MergeFails(T, rds, baseFirst)
                 /\ out # {} \/ skipTombstones \/ rds = {}
                 /\ nextId' = nextId + 1
                 /\ IF out = {}
                    THEN GoOn(ls, next)
                    ELSE layers' = ls /\ worker' =
                            [pc |-> "add", i |-> next, id |-> nextId, to |-> to, inputs |-> inputs,
                             content |-> Table(out, IF skipTombstones THEN {} ELSE rds)]
                 /\ UNCHANGED <<strategy, frags, snap, status, history>>

(* MoveSSTable: the reader follows current.Layer, the manifest entry keeps *)
(* the layer it was created with.  A table that was moved before the       *)
(* latest restart is not found in the layer of its entry: the reader is    *)
(* then in two layers, and the manifest gets an entry without a file.      *)
NoEntry == [id |-> 0, layer |-> 0, name |-> <<-1, 0>>]
MoveSSTable(t, to, ls) ==
    LET moved == [t EXCEPT !.layer = to]
        rest == RemoveSSTable(ls, t.id, t.layer)
        rows == ManifestRows(manifest, t.layer)
        hit == {i \in DOMAIN rows : rows[i].id = t.id}
        entry == IF hit = {} THEN NoEntry ELSE rows[Min(hit)]
        gone == ManifestPut(manifest, t.layer, Without(rows, t.id))
    IN  /\ GoOn(AppendSSTable(rest, moved, to), worker.i + 1)
        /\ manifest' = [ManifestPut(gone, to, Append(ManifestRows(gone, to), entry))
                           EXCEPT !.next = nextId]
        /\ failure' = IF hit # {} /\ entry.name = t.name THEN failure ELSE "misplaced"
        /\ stray' = IF stray = "listed" THEN stray ELSE "left"
        /\ UNCHANGED <<strategy, nextId, frags, snap, status, files,
                       seq, hist, rdHist, kept, crashes, clears, torn>>

-----------------------------------------------------------------------------
(* The flush worker.                                                       *)

CanFlush == status = "up" /\ worker.pc = "idle" /\ seq < MaxSeq

Exists(k) == OfKey(hist, k) # {} /\ NewestOf(OfKey(hist, k)).op # "Del"

(* FlushToSSTable; a structure is created before operands are added to it. *)
Flush(m) ==
    LET n == Cardinality(m.ranges)
        s == IF m.rangeFirst THEN seq + n + 1 ELSE seq + 1
        t == IF m.rangeFirst THEN seq + 1 ELSE seq + 2
    IN  /\ CanFlush
        /\ m.op = "Base" => ~Exists(m.key)
        /\ m.op = "Op" => Exists(m.key)
        /\ seq' = seq + 1 + n
        /\ files' = Written(files, <<0, nextId>>, Partial)
        /\ nextId' = nextId + 1
        /\ worker' = [pc |-> "add", i |-> 0, id |-> nextId, to |-> 0, inputs |-> <<>>,
                      content |-> Table({Rec(m.key, s, m.op, IF m.op = "Op" THEN {s} ELSE {}, m.exp)},
                                        {[lo |-> r[1], hi |-> r[2], seq |-> t] : r \in m.ranges})]
        /\ UNCHANGED <<strategy, layers, frags, snap, status, manifest,
                       hist, rdHist, kept, crashes, clears, failure, torn, stray>>

(* A memtable without point records is not written, whatever its range     *)
(* tombstones; Compact runs all the same.                                  *)
FlushNothing ==
    /\ CanFlush
    /\ seq' = seq + 1
    /\ GoOn(layers, 0)
    /\ UNCHANGED <<strategy, nextId, frags, snap, status, files, manifest,
                   hist, rdHist, kept, crashes, clears, failure, torn, stray>>

Superseded(r, C) ==
    \/ \E d \in C.recs : d.op = "Del" /\ d.key = r.key
    \/ \E d \in C.rds : d.lo <= r.key /\ r.key < d.hi

(* Finalize and addToLayers, with the saved manifest.                      *)
Add ==
    LET name == <<worker.to, worker.id>>
        t == [id |-> worker.id, layer |-> worker.to, name |-> name]
        m == Saved(manifest)
        flush == worker.inputs = <<>>
        C == worker.content
    IN  /\ status = "up" /\ worker.pc = "add"
        /\ files' = [files EXCEPT ![name] = C]
        /\ layers' = AppendSSTable(layers, t, worker.to)
        /\ manifest' = [ManifestPut(m, worker.to, Append(ManifestRows(m, worker.to), t))
                           EXCEPT !.next = nextId]
        /\ worker' = [worker EXCEPT !.pc = IF flush THEN "compact" ELSE "delete",
                                    !.content = Idle.content]
        /\ frags' = IF flush THEN [frags EXCEPT !.dirty = TRUE] ELSE frags
        /\ hist' = IF flush THEN hist \cup C.recs ELSE hist
        /\ rdHist' = IF flush THEN rdHist \cup C.rds ELSE rdHist
        /\ kept' = IF flush THEN {r \in kept : ~Superseded(r, C)}
                                 \cup {r \in C.recs : r.op = "Put" /\ r.key \in snap
                                                      /\ ~Superseded(r, C)}
                            ELSE kept
        /\ UNCHANGED <<strategy, nextId, snap, status, seq, crashes, clears, failure, torn, stray>>

(* DeleteSSTables, first half of one round: the file goes.                 *)
Delete ==
    /\ status = "up" /\ worker.pc = "delete"
    /\ LET t == Head(worker.inputs)
       IN  IF t.layer + 1 > Len(layers)
           THEN Panic("notFound") /\ UNCHANGED <<files, manifest>>
           ELSE /\ layers' = RemoveSSTable(layers, t.id, t.layer)
                /\ files' = IF layers' = layers THEN files
                            ELSE [n \in DOMAIN files \ {t.name} |-> files[n]]
                /\ worker' = [worker EXCEPT !.pc = "unlist"]
                /\ UNCHANGED <<strategy, nextId, frags, snap, status, manifest, history>>

(* Second half: Manifest.RemoveSSTable, an error if it is not found.  The  *)
(* merge ends with the last input, and invalidates the fragment cache.     *)
Unlist ==
    /\ status = "up" /\ worker.pc = "unlist"
    /\ LET t == Head(worker.inputs)
           rows == ManifestRows(manifest, t.layer)
       IN  IF Without(rows, t.id) = rows
           THEN Panic("notFound") /\ UNCHANGED <<files, manifest>>
           ELSE /\ manifest' = [ManifestPut(manifest, t.layer, Without(rows, t.id))
                                   EXCEPT !.next = nextId]
                /\ IF Len(worker.inputs) = 1
                   THEN GoOn(layers, worker.i) /\ frags' = [frags EXCEPT !.dirty = TRUE]
                   ELSE /\ worker' = [worker EXCEPT !.pc = "delete", !.inputs = Tail(@)]
                        /\ UNCHANGED <<layers, frags>>
                /\ UNCHANGED <<strategy, nextId, snap, status, files, history>>

-----------------------------------------------------------------------------
(* Compact, one layer at a time.                                           *)

(* Mutant: a table that ends at the first key does not overlap.            *)
OverlappingStrict(lo, hi, tabs) ==
    Chosen(tabs, {i \in DOMAIN tabs : MaxKeyOf(tabs[i]) > lo /\ MinKey(tabs[i]) <= hi})

Overlapping(lo, hi, tabs) ==
    Chosen(tabs, {i \in DOMAIN tabs : MaxKeyOf(tabs[i]) >= lo /\ MinKey(tabs[i]) <= hi})

AtLayer == status = "up" /\ worker.pc = "compact" /\ worker.i < Len(layers)
Untouched == UNCHANGED <<strategy, nextId, frags, snap, status, files, manifest, history>>

TieredCompact ==
    /\ AtLayer /\ strategy = "tiered"
    /\ LET i == worker.i
           tabs == layers[i + 1].tabs
           last == i + 1 = MaxHeight
       IN  \/ Len(tabs) < MinMergeThreshold /\ GoOn(layers, i + 1) /\ Untouched
           \/ /\ Len(tabs) >= MinMergeThreshold
              /\ MergeSSTables(tabs, IF last THEN i ELSE Min({i + 1, MaxHeight - 1}), last, layers)

LeveledCompactL0 ==
    /\ AtLayer /\ strategy = "leveled" /\ worker.i = 0
    /\ LET tabs == layers[1].tabs
           grown == GrowTo(layers, 1)
           lo == Min({MinKey(t) : t \in ToSet(tabs)})
           hi == Max({MaxKeyOf(t) : t \in ToSet(tabs)})
       IN  \/ Len(tabs) < L0Trigger /\ GoOn(layers, 1) /\ Untouched
           \/ Len(tabs) >= L0Trigger /\ MaxHeight = 1 /\ MergeSSTables(tabs, 0, TRUE, layers)
           \/ /\ Len(tabs) >= L0Trigger /\ MaxHeight > 1
              /\ MergeSSTables(Overlapping(lo, hi, grown[2].tabs) \o tabs, 1, FALSE, grown)

(* The oldest table of an overfull layer moves down, together with the     *)
(* tables of the next layer whose key range meets its own.                 *)
LeveledCompact ==
    /\ AtLayer /\ strategy = "leveled" /\ worker.i > 0
    /\ LET i == worker.i
           tabs == layers[i + 1].tabs
           read == [layers EXCEPT ![i + 1].needsUpdate = FALSE]
           full == GetSize(layers[i + 1]) >= L1Max * LevelSizeMultiplier ^ (i - 1)
           last == i = MaxHeight - 1
           to == Min({i + 1, MaxHeight - 1})
           ov == Overlapping(MinKey(tabs[1]), MaxKeyOf(tabs[1]), GrowTo(read, to)[to + 1].tabs)
       IN  \/ (~full \/ tabs = <<>> \/ (last /\ Len(tabs) <= 1)) /\ GoOn(read, i + 1) /\ Untouched
           \/ full /\ last /\ Len(tabs) > 1 /\ MergeSSTables(tabs, i, TRUE, read)
           \/ full /\ ~last /\ tabs # <<>> /\ ov = <<>> /\ MoveSSTable(tabs[1], to, GrowTo(read, to))
           \/ /\ full /\ ~last /\ tabs # <<>> /\ ov # <<>>
              /\ MergeSSTables(Append(ov, tabs[1]), to, FALSE, GrowTo(read, to))

-----------------------------------------------------------------------------
(* Other callers.                                                          *)

MuFree == status = "up" /\ worker.pc \in {"idle", "compact"}

(* Get, for its effect on the fragment cache.                              *)
Read ==
    /\ MuFree
    /\ frags' = [val |-> Fragments, dirty |-> FALSE]
    /\ UNCHANGED <<strategy, layers, nextId, snap, worker, status, files, manifest, history>>

AddSnapshotKey(k) ==
    /\ MuFree /\ k \notin snap
    /\ snap' = snap \cup {k}
    /\ UNCHANGED <<strategy, layers, nextId, frags, worker, status, files, manifest, history>>

(* Engine.ClearAll: the manager's ClearAll takes no lock and leaves the    *)
(* fragment cache; clearDataDir then removes the files, the manifest too.  *)
ClearAll ==
    /\ status = "up" /\ clears < MaxClears
    /\ QuietClear => worker.pc = "idle"
    /\ layers' = <<NoLayer>> /\ nextId' = 0
    /\ files' = <<>> /\ manifest' = NoManifest
    /\ hist' = {} /\ rdHist' = {} /\ kept' = {} /\ clears' = clears + 1
    /\ stray' = "none"
    /\ UNCHANGED <<strategy, frags, snap, worker, status, seq, crashes, failure, torn>>

(* A crash: the file under construction is or is not complete.             *)
Crash ==
    /\ status = "up" /\ crashes < MaxCrashes
    /\ Die
    /\ crashes' = crashes + 1
    /\ IF worker.pc = "add"
       THEN \E c \in {Partial, worker.content} :
               files' = [files EXCEPT ![<<worker.to, worker.id>>] = c]
       ELSE UNCHANGED files
    /\ UNCHANGED <<manifest, failure>>

(* The manifest file is deleted while the engine is down.                  *)
LoseManifest ==
    /\ status = "down" /\ clears < MaxClears /\ manifest # NoManifest
    /\ manifest' = NoManifest /\ clears' = clears + 1
    /\ UNCHANGED <<strategy, volatile, files, seq, hist, rdHist, kept, crashes, failure, torn,
                   stray>>

(* reconstruct: the layers and ids are read from the file names, in order. *)
Reconstruct ==
    LET idsOf(l) == {n[2] : n \in {f \in DOMAIN files : f[1] = l}}
        rows(l) == [i \in 1 .. Cardinality(idsOf(l)) |->
                       LET id == Nth(idsOf(l), i) IN [id |-> id, layer |-> l, name |-> <<l, id>>]]
        ids == {n[2] : n \in DOMAIN files}
    IN  [next |-> IF ids = {} THEN 0 ELSE Max(ids) + 1,
         layers |-> [l \in 1 .. MaxHeight |-> rows(l - 1)]]

(* Mutant: a table that cannot be opened is skipped.                       *)
RestartSkips ==
    LET m == IF manifest = NoManifest THEN Reconstruct ELSE manifest
        opens(e) == e.name \in DOMAIN files /\ files[e.name] # Partial
    IN  /\ status = "down"
        /\ manifest' = m /\ status' = "up" /\ nextId' = m.next
        /\ layers' = IF m.layers = <<>> THEN <<NoLayer>>
                     ELSE [l \in DOMAIN m.layers |->
                             [tabs |-> SelectSeq(m.layers[l], opens), needsUpdate |-> TRUE]]
        /\ UNCHANGED <<strategy, frags, snap, worker, files, history>>

(* NewSSTableManager: a table that cannot be opened ends it.  Each reader  *)
(* takes its Layer from its entry.                                         *)
Restart ==
    LET m == IF manifest = NoManifest THEN Reconstruct ELSE manifest
        entries == UNION {ToSet(m.layers[l]) : l \in DOMAIN m.layers}
        opens == \A e \in entries : e.name \in DOMAIN files /\ files[e.name] # Partial
        flushed == {files[e.name] : e \in {f \in entries : opens /\ f.name[1] = 0}}
        leftOut == \E n \in DOMAIN files : files[n] # Partial /\ \A e \in entries : e.name # n
    IN  /\ status = "down"
        /\ manifest' = m
        /\ torn' = (torn \/ (manifest = NoManifest /\ files # <<>>))
        /\ stray' = IF manifest = NoManifest
                    THEN IF stray = "left" THEN "listed" ELSE stray
                    ELSE IF stray = "none" /\ leftOut THEN "left" ELSE stray
        /\ status' = IF opens THEN "up" ELSE "stuck"
        /\ layers' = IF opens /\ m.layers # <<>>
                     THEN [l \in DOMAIN m.layers |-> [tabs |-> m.layers[l],
                                                      needsUpdate |-> m.layers[l] # <<>>]]
                     ELSE <<NoLayer>>
        /\ nextId' = m.next
        /\ hist' = hist \cup UNION {t.recs : t \in flushed}
        /\ rdHist' = rdHist \cup UNION {t.rds : t \in flushed}
        /\ UNCHANGED <<strategy, frags, snap, worker, files,
                       seq, kept, crashes, clears, failure>>

(* The next start meets the same error.  What a process with a misplaced   *)
(* table does is left out: its manifest names a table that is not there.   *)
FailAgain == (status = "stuck" \/ failure = "misplaced") /\ UNCHANGED vars

Init ==
    /\ strategy \in Strategies
    /\ layers = <<NoLayer>> /\ nextId = 0 /\ frags = [val |-> {}, dirty |-> FALSE]
    /\ snap = {} /\ worker = Idle /\ status = "up"
    /\ files = <<>> /\ manifest = EmptyManifest
    /\ seq = 0 /\ hist = {} /\ rdHist = {} /\ kept = {}
    /\ crashes = 0 /\ clears = 0 /\ failure = "none" /\ torn = FALSE /\ stray = "none"

Step ==
    \/ \E m \in Memtables : Flush(m)
    \/ FlushNothing
    \/ Add \/ Delete \/ Unlist
    \/ TieredCompact \/ LeveledCompactL0 \/ LeveledCompact
    \/ Read \/ \E k \in SnapKeys : AddSnapshotKey(k)
    \/ ClearAll
    \/ Crash \/ LoseManifest \/ Restart

Next == (failure # "misplaced" /\ Step) \/ FailAgain

Spec == Init /\ [][Next]_vars

-----------------------------------------------------------------------------
(* Properties.                                                             *)

(* What the tables should answer for key k.                                *)
Expected(k) ==
    LET R == OfKey(hist, k)
        new == NewestOf(R)
    IN  IF R = {} \/ new.op = "Del" \/ (\E d \in rdHist : d.lo <= k /\ k < d.hi /\ d.seq > new.seq)
        THEN {} ELSE {new.seq}

(* What Get should answer, if it is asked: the newest flushed version of   *)
(* each key.  Left out: a key whose newest version has expired, and under  *)
(* leveled compaction a key a range tombstone was written for.             *)
GetsNewest ==
    \A k \in Keys :
        \/ OfKey(hist, k) # {} /\ Expired(NewestOf(OfKey(hist, k)))
        \/ strategy = "leveled" /\ \E d \in rdHist : d.lo <= k /\ k < d.hi
        \/ {r.seq : r \in Get(k)} = Expected(k)

(* Get answers with the newest flushed version of a key, through any       *)
(* sequence of flushes, merges, moves, crashes between two disk changes    *)
(* and restarts: no merge drops a version that is still the newest, or a   *)
(* tombstone that still hides one.  A manifest rebuilt from file names     *)
(* keeps this as long as the names say what the deleted manifest said.     *)
ReadsNewest == MuFree /\ stray # "listed" => GetsNewest

(* manifest.go:59, "reconstructs manifest if deleted": whatever is left in *)
(* the directory, the rebuilt manifest gives back the same store.  It does *)
(* not: the output of a merge that a crash cut off before the manifest was *)
(* saved stays in the directory, and what it holds comes back.             *)
RebuiltReads == MuFree => GetsNewest

(* Every version of a snapshotted key that was flushed after AddSnapshotKey*)
(* stays readable through GetVersions until the key is deleted: merges of  *)
(* MergeSSTables keep all versions.                                        *)
VersionsKept ==
    MuFree => \A r \in kept : Expired(r) \/ r \in GetVersions(r.key)

(* A probabilistic structure that Get finds has all operands added since   *)
(* its creation, whatever part of them a merge has folded into a base      *)
(* state, unless a crash cut a merge short.                                *)
OperandsKept ==
    MuFree /\ ~torn => \A k \in ProbKeys :
        Get(k) # {} =>
            /\ ~NeedsBase(GetVersions(k), TRUE)
            /\ ApplyAll(GetVersions(k)) = ApplyAll(OfKey(hist, k))

(* Leveled compaction keeps the key ranges of the tables of a layer below  *)
(* L0 apart, as long as no merge was cut short.                            *)
LayersDisjoint ==
    strategy = "leveled" /\ MuFree /\ ~torn =>
        \A l \in 2 .. Len(layers) : \A i, j \in DOMAIN layers[l].tabs :
            LET t == layers[l].tabs[i]
                u == layers[l].tabs[j]
            IN  i < j => MaxKeyOf(t) < MinKey(u) \/ MaxKeyOf(u) < MinKey(t)

(* The tables in memory are the ones the saved manifest names, each in its *)
(* layer, whenever no merge is under way: a crash then loses nothing.  And *)
(* a merge finds each table it is to delete, in memory and in the manifest,*)
(* after any crash, restart and rebuilt manifest, but under leveled        *)
(* compaction, where MoveSSTable keeps a stale layer in the manifest.      *)
ManifestAgrees ==
    /\ failure \in {"notFound", "misplaced"} => strategy = "leveled"
    /\ MuFree /\ manifest # NoManifest /\ failure # "misplaced" =>
          \A l \in 1 .. MaxHeight :
              [i \in DOMAIN ManifestRows(manifest, l - 1) |-> ManifestRows(manifest, l - 1)[i].name]
              = IF l > Len(layers) THEN <<>>
                ELSE [i \in DOMAIN layers[l].tabs |-> layers[l].tabs[i].name]
=============================================================================
