-------------------------------- MODULE Engine --------------------------------
(***************************************************************************)
(* The write, read, flush and recovery paths of the engine (internal/core, *)
(* internal/lsm): one client goroutine and the flush worker share the      *)
(* memtables, the SSTables and the write-ahead log; the process may crash  *)
(* between any two steps and is then restarted.                            *)
(*                                                                         *)
(* The parts below are taken by what they promise:                         *)
(*  - the memtable manager (module MemtableManager) with one writer: the   *)
(*    channel never blocks and tables are flushed in rotation order, so    *)
(*    the immutable list itself is the worker's queue;                     *)
(*  - the WAL (module WAL): a log of which recovery returns the records    *)
(*    above the flushed watermark, a batch only if its START record is;    *)
(*  - compaction (module SSTableManager): it may drop records that a newer *)
(*    one hides and, on the last layer, tombstones that hide nothing; but  *)
(*    leveled compaction also drops range tombstones that still hide       *)
(*    something in the tables it does not merge.                           *)
(* A value is the position of its record in the log, which is unique.      *)
(***************************************************************************)
EXTENDS Integers, Sequences, FiniteSets

CONSTANTS
    Keys,         \* user keys
    Ranges,       \* the ranges RangeDelete is called with: [start, keys]
    MaxEntries,   \* capacity of a memtable
    MaxTables,    \* bound on the immutable list
    CacheSize,    \* ReadCacheSize
    MaxBatch,     \* longest batch (1: no batches)
    DropTombstones, \* does compaction reach the last layer, where tombstones are dropped?
    Leveled,      \* is the compaction leveled?
    MaxWrites,    \* bound on the length of the log
    MaxCrashes    \* bound on the number of crashes

ASSUME KeysAssumption == /\ IsFiniteSet(Keys) /\ Keys # {}
                         /\ Ranges \subseteq [start : Keys, keys : SUBSET Keys]
ASSUME BoundsAssumption ==
    /\ MaxEntries \in Nat \ {0} /\ MaxTables \in Nat \ {0}
    /\ CacheSize \in Nat /\ MaxBatch \in Nat \ {0}
    /\ MaxWrites \in Nat /\ MaxCrashes \in Nat
    /\ DropTombstones \in BOOLEAN /\ Leveled \in BOOLEAN

VARIABLES
    \* volatile
    seqGen,       \* the sequence generator
    active,       \* the active memtable: a set of records
    immutable,    \* rotated memtables, oldest first
    cache,        \* the read cache, most recently used first: [key, val]
    worker,       \* the flush worker: [pc, tab]
    client,       \* the client goroutine, see Idle
    \* persistent
    log,          \* all committed WAL records in order
    walFlushed,   \* FlushedUpToSeqID of the WAL manifest
    sst,          \* the records in the SSTables
    maxSeqId,     \* MaxSeqId of the SSTable manifest
    \* history
    acked,        \* log positions of the writes that returned to the client
    ret,          \* the latest answer to Get
    lost,         \* log positions dropped by a recovery: rests of batches cut by the watermark
    crashes,      \* number of crashes so far
    regressed,    \* a restart set seqGen below a sequence number in use
    undone        \* log positions of range deletes dropped while they hid something

volatile == <<seqGen, active, immutable, cache, worker, client>>
persistent == <<log, walFlushed, sst, maxSeqId>>
history == <<acked, ret, lost, crashes, regressed, undone>>
vars == <<volatile, persistent, history>>

(* A record.  id is its log position, first the sequence number of its     *)
(* batch's START record (its own for a single write), keys what a range    *)
(* tombstone covers.                                                       *)
Record == [id : Nat, seq : Nat, first : Nat, key : Keys,
           op : {"Put", "Del", "RangeDel"}, keys : SUBSET Keys]

IsRange(r) == r.op = "RangeDel"

Points(T) == {r \in T : ~IsRange(r)}

(* The largest sequence number in a set of records, 0 for none.            *)
MaxSeq(T) == IF T = {} THEN 0 ELSE CHOOSE n \in {r.seq : r \in T} : \A r \in T : r.seq <= n

Newest(T) == CHOOSE r \in T : \A s \in T : s.seq <= r.seq

(* utils.IsCoveredByRangeTombstone, isRangeDeleted.                        *)
CoveredByRangeDel(T, k, seq) == \E t \in T : IsRange(t) /\ k \in t.keys /\ t.seq > seq

-----------------------------------------------------------------------------
(* The read cache (internal/cache/lru.go): a list in order of use.         *)

CacheHas(c, k) == \E i \in 1 .. Len(c) : c[i].key = k
CacheVal(c, k) == LET i == CHOOSE i \in 1 .. Len(c) : c[i].key = k IN c[i].val

(* A key is in the list at most once.                                      *)
CacheWithout(c, k) ==
    LET i == CHOOSE i \in 1 .. Len(c) : c[i].key = k
    IN  IF CacheHas(c, k) THEN SubSeq(c, 1, i - 1) \o SubSeq(c, i + 1, Len(c)) ELSE c

(* Put moves the key to the front and drops the last entry of an overfull  *)
(* list.                                                                   *)
CachePut(c, k, v) ==
    LET d == <<[key |-> k, val |-> v]>> \o CacheWithout(c, k)
    IN  IF Len(d) > CacheSize THEN SubSeq(d, 1, CacheSize) ELSE d

-----------------------------------------------------------------------------

(* The client goroutine: todo holds the log positions still to be applied  *)
(* to the LSM tree, call those to acknowledge when the call returns; key,  *)
(* val and seq belong to a Get under way.                                  *)
Idle == [pc |-> "ready", todo |-> {}, call |-> {},
         key |-> CHOOSE k \in Keys : TRUE, val |-> 0, seq |-> 0]

(* ret before the first Get after a write or a restart.                    *)
NoAnswer == [key |-> Idle.key, val |-> -1]

Init ==
    /\ seqGen = 0
    /\ active = {}
    /\ immutable = <<>>
    /\ cache = <<>>
    /\ worker = [pc |-> "recv", tab |-> {}]
    /\ client = Idle
    /\ log = <<>>
    /\ walFlushed = 0
    /\ sst = {}
    /\ maxSeqId = 0
    /\ acked = {}
    /\ ret = NoAnswer
    /\ lost = {}
    /\ crashes = 0
    /\ regressed = FALSE
    /\ undone = {}

-----------------------------------------------------------------------------
(* Writes: engine.Put, Delete, RangeDelete, BatchWrite and BatchDelete.    *)

(* Mutant: one position too many is applied. *)
WalAppendOneMore(recs) ==
    /\ log' = log \o recs
    /\ seqGen' = seqGen + Len(recs)
    /\ LET new == Len(log) + 1 .. Len(log) + Len(recs) + 1
       IN  client' = [client EXCEPT !.pc = "apply", !.todo = new, !.call = new]
    /\ ret' = NoAnswer
    /\ UNCHANGED <<active, immutable, cache, worker, walFlushed, sst, maxSeqId,
                   acked, lost, crashes, regressed, undone>>

(* Allocate sequence numbers and write the WAL; the records become         *)
(* recoverable together, with the COMMIT record.  What remains is to apply *)
(* them to the LSM tree in order.                                          *)
WalAppend(recs) ==
    /\ log' = log \o recs
    /\ seqGen' = seqGen + Len(recs)
    /\ LET new == Len(log) + 1 .. Len(log) + Len(recs)
       IN  client' = [client EXCEPT !.pc = "apply", !.todo = new, !.call = new]
    /\ ret' = NoAnswer
    /\ UNCHANGED <<active, immutable, cache, worker, walFlushed, sst, maxSeqId,
                   acked, lost, crashes, regressed, undone>>

NewRecord(i, first, k, op, keys) ==
    [id |-> Len(log) + i, seq |-> seqGen + i, first |-> first, key |-> k,
     op |-> op, keys |-> keys]

(* A batch of n point writes of the same kind; n = 1 is Put or Delete.     *)
Write(ks, op) ==
    /\ client.pc = "ready"
    /\ Len(log) + Len(ks) <= MaxWrites
    /\ WalAppend([i \in 1 .. Len(ks) |-> NewRecord(i, seqGen + 1, ks[i], op, {})])

RangeDelete(rng) ==
    /\ client.pc = "ready"
    /\ Len(log) < MaxWrites
    /\ WalAppend(<<NewRecord(1, seqGen + 1, rng.start, "RangeDel", rng.keys)>>)

(* lsm.Put, first half: the next record enters the active memtable.        *)
Apply ==
    /\ client.pc = "apply"
    /\ \E i \in client.todo :
        /\ \A j \in client.todo : i <= j
        /\ LET r == log[i]
               T == IF IsRange(r) THEN active \cup {r}
                    ELSE {s \in active : IsRange(s) \/ s.key # r.key} \cup {r}
           IN  /\ active' = T
               /\ client' = [client EXCEPT
                     !.pc = IF Cardinality(Points(T)) >= MaxEntries
                            THEN "rotate" ELSE "cache"]
    /\ UNCHANGED <<seqGen, immutable, cache, worker, persistent, history>>

(* rotate: blocks while the immutable list is full.                        *)
Rotate ==
    /\ client.pc = "rotate"
    /\ Len(immutable) < MaxTables
    /\ immutable' = immutable \o <<active>>
    /\ active' = {}
    /\ client' = [client EXCEPT !.pc = "cache"]
    /\ UNCHANGED <<seqGen, cache, worker, persistent, history>>

(* lsm.Put, second half: the read cache gets the value, or nil for a       *)
(* tombstone (for a range: at its start key only).  After the last record  *)
(* the call, or the recovery, is over.                                     *)
UpdateCache ==
    /\ client.pc = "cache"
    /\ \E i \in client.todo :
        /\ \A j \in client.todo : i <= j
        /\ cache' = CachePut(cache, log[i].key, IF log[i].op = "Put" THEN i ELSE 0)
        /\ IF client.todo = {i}
           THEN client' = Idle /\ acked' = acked \cup client.call
           ELSE /\ client' = [client EXCEPT !.pc = "apply", !.todo = @ \ {i}]
                /\ acked' = acked
    /\ UNCHANGED <<seqGen, active, immutable, worker, persistent, ret,
                   lost, crashes, regressed, undone>>

-----------------------------------------------------------------------------
(* Reads: lsm.Get.                                                         *)

Tables == immutable \o <<active>>

(* The memtables that have a point record of k.                            *)
Holding(k) == {i \in 1 .. Len(Tables) : \E r \in Points(Tables[i]) : r.key = k}

(* Mutant: the immutable tables are searched from the oldest. *)
MemtableValOldest(k) ==
    LET i == CHOOSE i \in Holding(k) : \A j \in Holding(k) : i <= j
        r == CHOOSE r \in Points(Tables[i]) : r.key = k
    IN  IF r.op = "Del" \/ CoveredByRangeDel(Tables[i], k, r.seq) THEN 0 ELSE r.id

(* GenericMemtable.Get on the newest of them: only the range tombstones of *)
(* that table are looked at.  0 is a nil answer, which is final.           *)
MemtableVal(k) ==
    LET i == CHOOSE i \in Holding(k) : \A j \in Holding(k) : j <= i
        r == CHOOSE r \in Points(Tables[i]) : r.key = k
    IN  IF r.op = "Del" \/ CoveredByRangeDel(Tables[i], k, r.seq) THEN 0 ELSE r.id

Answer(k, v) == ret' = [key |-> k, val |-> v]

GetFromMemtable(k) ==
    /\ client.pc = "ready"
    /\ Holding(k) # {}
    /\ Answer(k, MemtableVal(k))
    /\ cache' = CachePut(cache, k, MemtableVal(k))
    /\ UNCHANGED <<seqGen, active, immutable, worker, client, persistent, acked,
                   lost, crashes, regressed, undone>>

GetFromCache(k) ==
    /\ client.pc = "ready"
    /\ Holding(k) = {}
    /\ CacheHas(cache, k)
    /\ Answer(k, CacheVal(cache, k))
    /\ cache' = CachePut(cache, k, CacheVal(cache, k))
    /\ UNCHANGED <<seqGen, active, immutable, worker, client, persistent, acked,
                   lost, crashes, regressed, undone>>

(* Both missed; the SSTables are read in a step of its own.                *)
GetMiss(k) ==
    /\ client.pc = "ready"
    /\ Holding(k) = {}
    /\ ~CacheHas(cache, k)
    /\ client' = [client EXCEPT !.pc = "sst", !.key = k]
    /\ UNCHANGED <<seqGen, active, immutable, cache, worker, persistent, history>>

(* SSTableManager.Get: the version with the largest sequence number, if it *)
(* is not deleted and no range tombstone covers it.                        *)
GetFromSST ==
    /\ client.pc = "sst"
    /\ LET found == {r \in Points(sst) : r.key = client.key}
           best == Newest(found)
       IN  IF \/ found = {}
              \/ best.op = "Del"
              \/ CoveredByRangeDel(sst, client.key, best.seq)
           THEN client' = Idle /\ Answer(client.key, 0)
           ELSE /\ client' = [client EXCEPT !.pc = "cover", !.val = best.id, !.seq = best.seq]
                /\ ret' = ret
    /\ UNCHANGED <<seqGen, active, immutable, cache, worker, persistent, acked,
                   lost, crashes, regressed, undone>>

(* IsCoveredByRangeDel over the memtables, then the cache is filled.       *)
GetCheckRangeDel ==
    /\ client.pc = "cover"
    /\ IF \E i \in 1 .. Len(Tables) : CoveredByRangeDel(Tables[i], client.key, client.seq)
       THEN Answer(client.key, 0) /\ cache' = cache
       ELSE /\ Answer(client.key, client.val)
            /\ cache' = CachePut(cache, client.key, client.val)
    /\ client' = Idle
    /\ UNCHANGED <<seqGen, active, immutable, worker, persistent, acked,
                   lost, crashes, regressed, undone>>

-----------------------------------------------------------------------------
(* The flush worker: flushWorker and lsm.onFlush.                          *)

(* The oldest table leaves the immutable list (and the readers' sight).    *)
TakeImmutable ==
    /\ worker.pc = "recv"
    /\ immutable # <<>>
    /\ worker' = [pc |-> "flush", tab |-> Head(immutable)]
    /\ immutable' = Tail(immutable)
    /\ UNCHANGED <<seqGen, active, cache, client, persistent, history>>

(* FlushToSSTable: the table is written and enters the manifest.           *)
FlushToSSTable ==
    /\ worker.pc = "flush"
    /\ sst' = IF Points(worker.tab) = {} THEN sst ELSE sst \cup worker.tab
    /\ worker' = [worker EXCEPT !.pc = "wal"]
    /\ UNCHANGED <<seqGen, active, immutable, cache, client, log, walFlushed,
                   maxSeqId, history>>

(* Mutant: the WAL is told the newest sequence number handed out. *)
MemtableFlushedNewest ==
    /\ worker.pc = "wal"
    /\ seqGen > walFlushed
    /\ walFlushed' = seqGen
    /\ worker' = [worker EXCEPT !.pc = "compact"]
    /\ UNCHANGED <<seqGen, active, immutable, cache, client, log, sst, maxSeqId,
                   history>>

(* EngineFlushCallback: the WAL is told the table's largest sequence       *)
(* number.                                                                 *)
MemtableFlushed ==
    /\ worker.pc = "wal"
    /\ MaxSeq(worker.tab) > walFlushed
    /\ walFlushed' = MaxSeq(worker.tab)
    /\ worker' = [worker EXCEPT !.pc = "compact"]
    /\ UNCHANGED <<seqGen, active, immutable, cache, client, log, sst, maxSeqId,
                   history>>

(* s hides r: a newer version of the same key, or a range tombstone on it. *)
Hides(s, r) ==
    /\ s.seq > r.seq
    /\ ~IsRange(r)
    /\ IF IsRange(s) THEN r.key \in s.keys ELSE s.key = r.key

(* Does tombstone t still have something to hide in S?                     *)
Needed(t, S) == \E r \in S : Hides(t, r)

(* Mutant: the worker gives up after a compaction. *)
CompactExits ==
    /\ worker.pc = "compact"
    /\ worker' = [pc |-> "exit", tab |-> {}]
    /\ UNCHANGED <<seqGen, active, immutable, cache, client, persistent, history>>

(* The tombstones a merge into the last layer may drop: those that hide    *)
(* nothing in S, as all older versions of their keys were in the merge;    *)
(* and under leveled compaction any range tombstone in the merge, for it   *)
(* may cover keys of tables above that the merge leaves alone.             *)
Droppable(S) ==
    IF DropTombstones
    THEN {t \in S : t.op # "Put" /\ (~Needed(t, S) \/ (Leveled /\ IsRange(t)))}
    ELSE {}

(* strategy.Compact.  Which tables are merged depends on sizes and layers; *)
(* a merge keeps the newest version of a key that is not hidden and, on    *)
(* the last layer, drops tombstones.  A merge with an empty result is not  *)
(* carried out.                                                            *)
Compact ==
    /\ worker.pc = "compact"
    /\ \E D \in SUBSET {r \in sst : \E s \in sst : Hides(s, r)} :
        LET S == sst \ D
        IN  \E E \in SUBSET Droppable(S) :
                /\ sst' = IF S = E THEN sst ELSE S \ E
                /\ undone' = undone \cup {t.id : t \in {u \in E : Needed(u, S \ E)}}
    /\ worker' = [pc |-> "recv", tab |-> {}]
    /\ UNCHANGED <<seqGen, active, immutable, cache, client, log, walFlushed,
                   maxSeqId, acked, ret, lost, crashes, regressed>>

-----------------------------------------------------------------------------
(* Crash and restart.                                                      *)

(* The process dies: all that is volatile is gone.                         *)
Stop ==
    /\ seqGen' = 0
    /\ active' = {}
    /\ immutable' = <<>>
    /\ cache' = <<>>
    /\ worker' = [pc |-> "recv", tab |-> {}]
    /\ client' = [Idle EXCEPT !.pc = "down"]
    /\ UNCHANGED <<persistent, acked, ret, lost, regressed, undone>>

Crash ==
    /\ client.pc # "down"
    /\ crashes < MaxCrashes
    /\ crashes' = crashes + 1
    /\ Stop

(* wal.MemtableFlushed does not find the sequence number among the records *)
(* above its watermark, and engine.MemtableFlushed panics.                 *)
WorkerPanics ==
    /\ worker.pc = "wal"
    /\ MaxSeq(worker.tab) <= walFlushed
    /\ crashes' = crashes
    /\ Stop

(* wal.Recover: the records above the watermark; those of a batch only if  *)
(* the batch's START record is above it too.                               *)
Recoverable == {i \in 1 .. Len(log) : log[i].first > walFlushed /\ log[i].seq > walFlushed}

(* The rest of a batch whose first records were flushed: above the         *)
(* watermark, but without its START record, and not in an SSTable.         *)
Cut(i) == log[i].first <= walFlushed /\ log[i].seq > walFlushed /\ log[i] \notin sst

(* LoadExistingSSTables computes MaxSeqId only while the manifest has none.*)
LoadedMaxSeqId == IF maxSeqId = 0 THEN MaxSeq(Points(sst)) ELSE maxSeqId

(* Mutant: the sequence generator ignores the replayed records. *)
RestartIgnoresLog ==
    /\ client.pc = "down"
    /\ maxSeqId' = LoadedMaxSeqId
    /\ seqGen' = LoadedMaxSeqId
    /\ client' = IF Recoverable = {} THEN Idle
                 ELSE [Idle EXCEPT !.pc = "apply", !.todo = Recoverable]
    /\ ret' = NoAnswer
    /\ lost' = lost \cup {i \in 1 .. Len(log) : Cut(i)}
    /\ regressed' = (regressed \/ seqGen' < walFlushed \/ seqGen' < MaxSeq(sst))
    /\ UNCHANGED <<active, immutable, cache, worker, log, walFlushed, sst, acked, crashes,
                   undone>>

(* NewLSM, OpenWAL, engine.recover.  The records are replayed by the same  *)
(* steps as a write; no call starts before they are done.                  *)
Restart ==
    /\ client.pc = "down"
    /\ maxSeqId' = LoadedMaxSeqId
    /\ LET n == MaxSeq({log[i] : i \in Recoverable})
       IN  seqGen' = IF n > LoadedMaxSeqId THEN n ELSE LoadedMaxSeqId
    /\ client' = IF Recoverable = {} THEN Idle
                 ELSE [Idle EXCEPT !.pc = "apply", !.todo = Recoverable]
    /\ ret' = NoAnswer
    /\ lost' = lost \cup {i \in 1 .. Len(log) : Cut(i)}
    /\ regressed' = (regressed \/ seqGen' < walFlushed \/ seqGen' < MaxSeq(sst))
    /\ UNCHANGED <<active, immutable, cache, worker, log, walFlushed, sst, acked, crashes,
                   undone>>

-----------------------------------------------------------------------------

Batches == UNION {[1 .. n -> Keys] : n \in 1 .. MaxBatch}

ClientStep == Apply \/ Rotate \/ UpdateCache \/ GetFromSST \/ GetCheckRangeDel

WorkerStep == TakeImmutable \/ FlushToSSTable \/ MemtableFlushed \/ Compact \/ WorkerPanics

Next ==
    \/ \E ks \in Batches, op \in {"Put", "Del"} : Write(ks, op)
    \/ \E rng \in Ranges : RangeDelete(rng)
    \/ Apply
    \/ Rotate
    \/ UpdateCache
    \/ \E k \in Keys : GetFromMemtable(k)
    \/ \E k \in Keys : GetFromCache(k)
    \/ \E k \in Keys : GetMiss(k)
    \/ GetFromSST
    \/ GetCheckRangeDel
    \/ TakeImmutable
    \/ FlushToSSTable
    \/ MemtableFlushed
    \/ Compact
    \/ WorkerPanics
    \/ Crash
    \/ Restart

Spec == Init /\ [][Next]_vars

(* Go runs both goroutines, and a process that went down is started again. *)
(* The client need not call anything and nothing has to crash.             *)
FairSpec == Spec /\ WF_vars(ClientStep) /\ WF_vars(WorkerStep) /\ WF_vars(Restart)

-----------------------------------------------------------------------------
(* Properties.                                                             *)

(* Every variable keeps its type; in particular the positions the client,  *)
(* the acknowledgements and the history refer to are in the log.           *)
TypeOK ==
    /\ seqGen \in Nat
    /\ active \in SUBSET Record
    /\ immutable \in Seq(SUBSET Record)
    /\ cache \in Seq([key : Keys, val : Nat])
    /\ worker \in [pc : {"recv", "flush", "wal", "compact"}, tab : SUBSET Record]
    /\ client \in [pc : {"ready", "apply", "rotate", "cache", "sst", "cover", "down"},
                   todo : SUBSET (1 .. Len(log)), call : SUBSET (1 .. Len(log)),
                   key : Keys, val : Nat, seq : Nat]
    /\ log \in Seq(Record)
    /\ walFlushed \in Nat
    /\ sst \in SUBSET Record
    /\ maxSeqId \in Nat
    /\ acked \subseteq 1 .. Len(log)
    /\ ret \in [key : Keys, val : Nat \cup {-1}]
    /\ lost \subseteq 1 .. Len(log)
    /\ crashes \in 0 .. MaxCrashes
    /\ regressed \in BOOLEAN
    /\ undone \subseteq 1 .. Len(log)

(* Record j of the log overrides record i.                                 *)
Overrides(j, i) ==
    /\ j > i
    /\ ~IsRange(log[i])
    /\ IF IsRange(log[j]) THEN log[i].key \in log[j].keys ELSE log[j].key = log[i].key

Superseded(i) == \E j \in 1 .. Len(log) : j \notin lost /\ ~Cut(j) /\ Overrides(j, i)

(* Record i would be found after a crash: replayed from the WAL, in an     *)
(* SSTable, or a tombstone that has nothing left to hide.                  *)
Survives(i) ==
    \/ i \in Recoverable
    \/ log[i] \in sst
    \/ log[i].op # "Put" /\ ~Needed(log[i], sst)

(* Durability: whatever the client, the flush worker, compaction and any   *)
(* number of crashes did, an acknowledged write that no later one          *)
(* overrides is found by the next recovery, unless the watermark cut its   *)
(* batch.  The log is truncated only after the SSTable is in place.  Left  *)
(* out: a range delete whose tombstone leveled compaction dropped at the   *)
(* last layer while an older covered key was in a table that was not       *)
(* merged (sstable/manager.go:476); that key comes back.                   *)
Durable ==
    ~regressed => \A i \in acked \ lost :
        Superseded(i) \/ Cut(i) \/ Survives(i) \/ (Leveled /\ i \in undone)

(* Sequence numbers follow the order of the writes, also across restarts   *)
(* that did not regress: SSTableManager.Get may let the largest one win,   *)
(* and each flush moves the WAL's watermark on, which it refuses to move   *)
(* back (engine.MemtableFlushed panics).                                   *)
LogOrdered ==
    ~regressed =>
        /\ \A i, j \in 1 .. Len(log) : i < j /\ i \notin lost => log[i].seq < log[j].seq
        /\ worker.pc = "wal" => MaxSeq(worker.tab) > walFlushed

(* The engine always comes to wait for the next call again: no call waits *)
(* for ever for the flush worker to make room, and after a crash recovery  *)
(* comes to an end, as replaying into full memtables does not block for    *)
(* ever and no flush it triggers takes the process down again and again.   *)
ReadyAgain == client.pc # "ready" ~> client.pc = "ready"

(* What the log says about a key: the position of its value, 0 if absent.  *)
Touches(i, k) == IF IsRange(log[i]) THEN k \in log[i].keys ELSE log[i].key = k

DictVal(k) ==
    LET A == {i \in 1 .. Len(log) \ lost : Touches(i, k)}
        i == CHOOSE i \in A : \A j \in A : j <= i
    IN  IF A = {} \/ log[i].op # "Put" THEN 0 ELSE i

(* The engine is a dictionary: reads return the newest write, over         *)
(* flushes, compactions, crashes and recoveries.                           *)
KV == INSTANCE KVStore WITH
          dict <- [k \in Keys |-> DictVal(k)],
          ret <- IF regressed THEN NoAnswer ELSE ret,
          NoAnswer <- NoAnswer

Dictionary == KV!Spec
=============================================================================
