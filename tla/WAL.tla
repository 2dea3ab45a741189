---------------------------------- MODULE WAL ----------------------------------
(***************************************************************************)
(* The write-ahead log of internal/wal.  Records are cut into fragments    *)
(* that fill fixed-size blocks, blocks fill segment files, and a manifest  *)
(* says for every segment from which block, and above which sequence       *)
(* number, its records still matter.  The goroutine that writes and the    *)
(* flush worker, which moves these watermarks and deletes old segments,    *)
(* run concurrently; the process may crash between any two writes to disk. *)
(*                                                                         *)
(* A key and a value are abstracted to the number of bytes they take       *)
(* together; op, the number of the operation a fragment belongs to, stands *)
(* for their contents.  Checksums, encodings and file names are left out,  *)
(* and a block or a manifest is written atomically.                        *)
(***************************************************************************)
EXTENDS Integers, Sequences, FiniteSets, SequencesExt

CONSTANTS
    HeaderSize,  \* KEY_START, 47 in the code
    BlockSize,   \* bytes in a block
    MaxBlocks,   \* blocks in a segment
    Payloads,    \* len(key) + len(value) of the operations
    MaxBatch,    \* longest batch (0: no batches)
    Capacities,  \* the memtable capacities the process is started with
    MaxOps,      \* bound on the number of operations
    MaxFlushes,  \* bound on the number of flushed memtables
    MaxCrashes   \* bound on the number of crashes

(* OpenSegment wants room for one byte of payload in a block; a record     *)
(* that does not fit into an empty segment makes the engine panic.         *)
ASSUME SizesAssumption ==
    /\ HeaderSize \in Nat \ {0} /\ MaxBlocks \in Nat \ {0}
    /\ BlockSize \in Nat /\ BlockSize > HeaderSize
    /\ Payloads \subseteq 1 .. MaxBlocks * (BlockSize - HeaderSize)
ASSUME BoundsAssumption ==
    /\ Capacities # {} /\ Capacities \subseteq Nat \ {0}
    /\ MaxBatch \in Nat /\ MaxOps \in Nat /\ MaxFlushes \in Nat /\ MaxCrashes \in Nat

VARIABLES
    \* on disk
    disk,      \* disk[s]: the blocks of segment s; a block is a sequence of fragments
    manifest,  \* the manifest's entries: segment |-> [from, upTo]
    low,       \* the manifest's LowWatermark
    \* in memory
    up,        \* the process runs
    nextTxn,   \* NextTxnID
    nextSeq,   \* the engine's next sequence number
    todo,      \* the WAL records the call under way has still to append
    left,      \* payload bytes of Head(todo) that follow its fragments on disk; 0: none written
    full,      \* the append failed because the segment is full
    call,      \* the operations of the call under way
    memtable,  \* the operations in the memtables
    capacity,  \* entries that fill a memtable
    flusher,   \* the flush worker inside MemtableFlushed
    \* history
    issued,    \* issued[op]: [seq, n, batch]; batch is 0 for a Put
    acked,     \* the operations whose call returned
    inSST,     \* the operations whose memtable was written to an SSTable
    flushes, crashes

diskVars == <<disk, manifest, low>>
writerVars == <<nextTxn, nextSeq, todo, left, full, call>>
history == <<issued, acked, inSST, flushes, crashes>>
vars == <<diskVars, up, writerVars, memtable, capacity, flusher, history>>

(* end is the offset in the block at which the fragment ends.              *)
Fragment == [ft : {"FULL", "FIRST", "MIDDLE", "LAST"},
             rt : {"SINGLE", "START", "TRANSACTION", "COMMIT"},
             txn : Nat, seq : Nat, n : Nat, op : Nat, end : Nat]

MaxOf(S) == IF S = {} THEN 0 ELSE CHOOSE m \in S : \A n \in S : n <= m

Seqs(ops) == {issued[o].seq : o \in ops}

(* A manifest entry as AddSegment makes it.                                *)
NewEntry == [from |-> 0, upTo |-> 0]

(* The active segment is the newest one, its current block the last block. *)
ActiveSegment == Len(disk)
CurrentBlock == Last(disk[ActiveSegment])

Remaining(block) == IF block = <<>> THEN BlockSize ELSE BlockSize - Last(block).end

LastBlock == Len(disk[ActiveSegment]) = MaxBlocks

IsFull(blocks) == Len(blocks) = MaxBlocks /\ Remaining(Last(blocks)) < HeaderSize + 1

NoFlush == [pc |-> "idle", target |-> 0, seg |-> 0, old |-> {}]

Init ==
    /\ disk = << << <<>> >> >>
    /\ manifest = [s \in {1} |-> NewEntry]
    /\ low = 0
    /\ up = TRUE
    /\ nextTxn = 1
    /\ nextSeq = 1
    /\ todo = <<>>
    /\ left = 0
    /\ full = FALSE
    /\ call = {}
    /\ memtable = {}
    /\ capacity \in Capacities
    /\ flusher = NoFlush
    /\ issued = <<>>
    /\ acked = {}
    /\ inSST = {}
    /\ flushes = 0
    /\ crashes = 0

-----------------------------------------------------------------------------
(* Reading the log.                                                        *)

(* RecordSizeAt wants more than a header's room before the end of the      *)
(* block, so a record without payload that ends the block is not read.     *)
ReadBlockRecords(block) ==
    IF block # <<>> /\ Remaining(block) = 0 /\ Last(block).n = 0 THEN Front(block) ELSE block

(* The fragments of the segment's blocks from the given one (numbered from *)
(* 0) on.                                                                  *)
ReadAllRecordsFromBlock(s, from) ==
    FoldLeft(LAMBDA a, block : a \o ReadBlockRecords(block), <<>>,
             SubSeq(disk[s], from + 1, Len(disk[s])))

(* The segments in order, without what lies below their watermarks.        *)
ReadAllFragments ==
    FoldLeft(LAMBDA a, s :
                 IF s \notin DOMAIN manifest \/ manifest[s].from >= MaxBlocks THEN a
                 ELSE a \o SelectSeq(ReadAllRecordsFromBlock(s, manifest[s].from),
                                     LAMBDA f : f.seq > manifest[s].upTo),
             <<>>, [s \in 1 .. Len(disk) |-> s])

(* Mutant: MIDDLE fragments are not expected. *)
JoinFragmentNoMiddle(a, f) ==
    CASE a.broken -> a
      [] f.ft = "FULL" /\ a.cur = <<>> -> [a EXCEPT !.out = Append(@, f)]
      [] f.ft = "FIRST" /\ a.cur = <<>> -> [a EXCEPT !.cur = <<f>>]
      [] f.ft = "LAST" /\ a.cur # <<>> ->
             [a EXCEPT !.out = Append(@, [a.cur[1] EXCEPT !.n = @ + f.n]), !.cur = <<>>]
      [] OTHER -> [a EXCEPT !.broken = TRUE]

(* One round of JoinFragments' loop.  A fragment that does not belong      *)
(* where it stands ends the join: what follows is ignored.                 *)
JoinFragment(a, f) ==
    CASE a.broken -> a
      [] f.ft = "FULL" /\ a.cur = <<>> -> [a EXCEPT !.out = Append(@, f)]
      [] f.ft = "FIRST" /\ a.cur = <<>> -> [a EXCEPT !.cur = <<f>>]
      [] f.ft = "MIDDLE" /\ a.cur # <<>> -> [a EXCEPT !.cur[1].n = @ + f.n]
      [] f.ft = "LAST" /\ a.cur # <<>> ->
             [a EXCEPT !.out = Append(@, [a.cur[1] EXCEPT !.n = @ + f.n]), !.cur = <<>>]
      [] OTHER -> [a EXCEPT !.broken = TRUE]

JoinFragments(frags) ==
    FoldLeft(JoinFragment, [out |-> <<>>, cur |-> <<>>, broken |-> FALSE], frags).out

(* Mutant: a batch needs no COMMIT record. *)
ApplyTransactionEagerly(a, r) ==
    CASE r.rt = "SINGLE" -> [a EXCEPT !.out = Append(@, r)]
      [] r.rt = "START" -> [a EXCEPT !.started = @ \cup {r.txn}]
      [] r.rt = "TRANSACTION" /\ r.txn \in a.started -> [a EXCEPT !.out = Append(@, r)]
      [] OTHER -> a

(* One round of ApplyTransactions' loop: pending holds the records of      *)
(* started, uncommitted batches.                                           *)
ApplyTransaction(a, r) ==
    CASE r.rt = "SINGLE" -> [a EXCEPT !.out = Append(@, r)]
      [] r.rt = "START" ->
             [a EXCEPT !.started = @ \cup {r.txn},
                       !.pending = SelectSeq(@, LAMBDA p : p.txn # r.txn)]
      [] r.rt = "TRANSACTION" /\ r.txn \in a.started -> [a EXCEPT !.pending = Append(@, r)]
      [] r.rt = "COMMIT" /\ r.txn \in a.started ->
             [out |-> a.out \o SelectSeq(a.pending, LAMBDA p : p.txn = r.txn),
              pending |-> SelectSeq(a.pending, LAMBDA p : p.txn # r.txn),
              started |-> a.started \ {r.txn}]
      [] OTHER -> a

ApplyTransactions(records) ==
    FoldLeft(ApplyTransaction, [out |-> <<>>, pending |-> <<>>, started |-> {}], records).out

Recover == ApplyTransactions(JoinFragments(ReadAllFragments))

Recovered == {r.op : r \in ToSet(Recover)}

-----------------------------------------------------------------------------
(* The writing goroutine.                                                  *)

WALRecord(rt, txn, op, n) ==
    [rt |-> rt, txn |-> txn, seq |-> op.seq, n |-> n, op |-> op.id]

(* The operations of a call, with the numbers the sequence generator gives.*)
NewOps(ns) ==
    [i \in 1 .. Len(ns) |-> [id |-> Len(issued) + i, seq |-> nextSeq + i - 1, n |-> ns[i]]]

(* The engine hands a call's operations to the WAL, as these records.      *)
Begin(ops, records) ==
    /\ up /\ call = {} /\ ~full
    /\ Len(issued) + Len(ops) <= MaxOps
    /\ nextSeq' = nextSeq + Len(ops)
    /\ todo' = records
    /\ call' = {o.id : o \in ToSet(ops)}
    /\ issued' = issued \o [i \in 1 .. Len(ops) |->
                               [seq |-> ops[i].seq, n |-> ops[i].n,
                                batch |-> IF Len(records) = 1 THEN 0 ELSE Len(issued) + 1]]
    /\ UNCHANGED <<diskVars, up, left, full, memtable, capacity, flusher, acked, inSST,
                   flushes, crashes>>

Put(n) ==
    /\ LET op == NewOps(<<n>>)[1]
       IN  Begin(<<op>>, <<WALRecord("SINGLE", 0, op, n)>>)
    /\ UNCHANGED nextTxn

(* START carries the first operation's sequence number, COMMIT the last    *)
(* one's.                                                                  *)
BatchWrite(ns) ==
    /\ LET ops == NewOps(ns)
       IN  Begin(ops, <<WALRecord("START", nextTxn, ops[1], 0)>>
                      \o [i \in 1 .. Len(ns) |-> WALRecord("TRANSACTION", nextTxn, ops[i], ns[i])]
                      \o <<WALRecord("COMMIT", nextTxn, ops[Len(ns)], 0)>>)
    /\ nextTxn' = nextTxn + 1

(* Write the next n bytes of Head(todo) into the current block.            *)
WithFragment(ft, n) ==
    [disk EXCEPT ![ActiveSegment][Len(disk[ActiveSegment])] =
        Append(@, [ft |-> ft, rt |-> Head(todo).rt, txn |-> Head(todo).txn,
                   seq |-> Head(todo).seq, n |-> n, op |-> Head(todo).op,
                   end |-> BlockSize - Remaining(CurrentBlock) + HeaderSize + n])]

(* MoveToNextBlock, after the current block was written as d says.  On the *)
(* last block it fails, and the append is given up with what it has        *)
(* written left in place.                                                  *)
MoveToNextBlock(d, rest) ==
    \/ /\ ~LastBlock
       /\ disk' = [d EXCEPT ![ActiveSegment] = Append(@, <<>>)]
       /\ left' = rest
       /\ full' = FALSE
    \/ /\ LastBlock
       /\ disk' = d
       /\ left' = 0
       /\ full' = TRUE

Appending == todo # <<>> /\ ~full

Rest == IF left = 0 THEN Head(todo).n ELSE left

Fits == Remaining(CurrentBlock) >= HeaderSize + Rest

(* AppendWALRecord: no room for a header and some payload.                 *)
NextBlock ==
    /\ Appending
    /\ ~Fits
    /\ Remaining(CurrentBlock) <= HeaderSize
    /\ MoveToNextBlock(disk, 0)
    /\ UNCHANGED <<manifest, low, up, nextTxn, nextSeq, todo, call, memtable, capacity, flusher, history>>

(* A FIRST or MIDDLE fragment fills the block.                             *)
WritePart ==
    /\ Appending
    /\ ~Fits
    /\ Remaining(CurrentBlock) > HeaderSize
    /\ LET space == Remaining(CurrentBlock) - HeaderSize
       IN  MoveToNextBlock(WithFragment(IF left = 0 THEN "FIRST" ELSE "MIDDLE", space),
                           Rest - space)
    /\ UNCHANGED <<manifest, low, up, nextTxn, nextSeq, todo, call, memtable, capacity, flusher, history>>

(* A FULL or LAST fragment ends the record, and the segment is synced.     *)
WriteEnd ==
    /\ Appending
    /\ Fits
    /\ disk' = WithFragment(IF left = 0 THEN "FULL" ELSE "LAST", Rest)
    /\ left' = 0
    /\ todo' = Tail(todo)
    /\ UNCHANGED <<manifest, low, up, nextTxn, nextSeq, full, call, memtable, capacity, flusher, history>>

(* RotateSegment; the record is then appended from its beginning.          *)
RotateSegment ==
    /\ full
    /\ full' = FALSE
    /\ disk' = Append(disk, << <<>> >>)
    /\ manifest' = [s \in DOMAIN manifest \cup {Len(disk) + 1} |->
                       IF s = Len(disk) + 1 THEN NewEntry ELSE manifest[s]]
    /\ UNCHANGED <<low, up, nextTxn, nextSeq, todo, left, call, memtable, capacity, flusher, history>>

(* Everything is logged: the operations go into the memtable, the call     *)
(* returns.                                                                *)
Return ==
    /\ call # {} /\ todo = <<>>
    /\ memtable' = memtable \cup call
    /\ acked' = acked \cup call
    /\ call' = {}
    /\ UNCHANGED <<diskVars, up, nextTxn, nextSeq, todo, left, full, capacity, flusher,
                   issued, inSST, flushes, crashes>>

-----------------------------------------------------------------------------
(* The flush worker: MemtableFlushed(target), one action per write of the  *)
(* manifest or the file system.  The operations write different keys, so   *)
(* the oldest capacity operations that are in memory fill a memtable;      *)
(* target is its largest sequence number.                                  *)

(* OpenWAL has still to rotate a full active segment.                      *)
Opening == full /\ call = {}

MemtableFlushed(target) ==
    /\ up /\ ~Opening /\ flusher.pc = "idle"
    /\ flushes < MaxFlushes
    /\ LET ops == {o \in memtable : issued[o].seq <= target}
       IN  /\ Cardinality(ops) = capacity
           /\ memtable' = memtable \ ops
           /\ inSST' = inSST \cup ops
    /\ flusher' = [NoFlush EXCEPT !.pc = "scan", !.target = target]
    /\ flushes' = flushes + 1
    /\ UNCHANGED <<diskVars, up, writerVars, capacity, issued, acked, crashes>>

(* Mutant: the scan starts behind the first valid block. *)
FlushedBlocksBehind(target) ==
    {sb \in (DOMAIN manifest) \X (0 .. MaxBlocks - 1) :
        LET s == sb[1]  b == sb[2]
        IN  /\ manifest[s].from < b /\ manifest[s].upTo < target
            /\ b < Len(disk[s])
            /\ \E f \in ToSet(ReadBlockRecords(disk[s][b + 1])) : f.seq <= target}

(* The blocks, as <<segment, block>>, that MemtableFlushed looks at and    *)
(* that hold a record at or below the target.                              *)
FlushedBlocks(target) ==
    {sb \in (DOMAIN manifest) \X (0 .. MaxBlocks - 1) :
        LET s == sb[1]  b == sb[2]
        IN  /\ manifest[s].from <= b /\ manifest[s].upTo < target
            /\ b < Len(disk[s])
            /\ \E f \in ToSet(ReadBlockRecords(disk[s][b + 1])) : f.seq <= target}

LastFlushedBlock(target) ==
    LET found == FlushedBlocks(target)
    IN  CHOOSE sb \in found :
            \A tc \in found : tc[1] < sb[1] \/ (tc[1] = sb[1] /\ tc[2] <= sb[2])

(* Mutant: the log is taken to be valid from the block after the found one. *)
SetValidFromBlockNext ==
    /\ flusher.pc = "scan"
    /\ IF FlushedBlocks(flusher.target) = {}
       THEN /\ flusher' = [flusher EXCEPT !.pc = "failed"]
            /\ UNCHANGED manifest
       ELSE LET sb == LastFlushedBlock(flusher.target)
            IN  /\ manifest' = [manifest EXCEPT ![sb[1]].from = sb[2] + 1]
                /\ flusher' = [flusher EXCEPT !.pc = "upTo", !.seg = sb[1],
                                              !.old = {s \in DOMAIN manifest : s < sb[1]}]
    /\ UNCHANGED <<disk, low, up, writerVars, memtable, capacity, history>>

SetValidFromBlock ==
    /\ flusher.pc = "scan"
    /\ IF FlushedBlocks(flusher.target) = {}
       THEN /\ flusher' = [flusher EXCEPT !.pc = "failed"]
            /\ UNCHANGED manifest
       ELSE LET sb == LastFlushedBlock(flusher.target)
            IN  /\ manifest' = [manifest EXCEPT ![sb[1]].from = sb[2]]
                /\ flusher' = [flusher EXCEPT !.pc = "upTo", !.seg = sb[1],
                                              !.old = {s \in DOMAIN manifest : s < sb[1]}]
    /\ UNCHANGED <<disk, low, up, writerVars, memtable, capacity, history>>

SetFlushedUpToSeqID ==
    /\ flusher.pc = "upTo"
    /\ IF flusher.target < manifest[flusher.seg].upTo
       THEN /\ flusher' = [flusher EXCEPT !.pc = "failed"]
            /\ UNCHANGED manifest
       ELSE /\ manifest' = [manifest EXCEPT ![flusher.seg].upTo = flusher.target]
            /\ flusher' = [flusher EXCEPT !.pc = "retire"]
    /\ UNCHANGED <<disk, low, up, writerVars, memtable, capacity, history>>

(* An older segment's two watermarks.  Once its first one is set to        *)
(* MaxBlocks nobody looks at the second any more.                          *)
RetireSegment ==
    /\ flusher.pc = "retire" /\ flusher.old # {}
    /\ LET s == CHOOSE s \in flusher.old : \A t \in flusher.old : s <= t
       IN  IF flusher.target < manifest[s].upTo
           THEN /\ flusher' = [flusher EXCEPT !.pc = "failed"]
                /\ manifest' = [manifest EXCEPT ![s].from = MaxBlocks]
           ELSE /\ flusher' = [flusher EXCEPT !.old = @ \ {s}]
                /\ manifest' = [manifest EXCEPT ![s] = [from |-> MaxBlocks,
                                                        upTo |-> flusher.target]]
    /\ UNCHANGED <<disk, low, up, writerVars, memtable, capacity, history>>

SetLowWatermark ==
    /\ flusher.pc = "retire" /\ flusher.old = {}
    /\ IF flusher.seg = 1
       THEN /\ flusher' = NoFlush
            /\ UNCHANGED low
       ELSE IF flusher.seg - 1 < low
       THEN /\ flusher' = [flusher EXCEPT !.pc = "failed"]
            /\ UNCHANGED low
       ELSE /\ low' = flusher.seg - 1
            /\ flusher' = [flusher EXCEPT !.pc = "delete",
                                          !.old = {s \in DOMAIN manifest : s <= low'}]
    /\ UNCHANGED <<disk, manifest, up, writerVars, memtable, capacity, history>>

(* DeleteOldSegments removes the file, then the manifest's entry.          *)
DeleteFile ==
    /\ flusher.pc = "delete"
    /\ IF flusher.old = {}
       THEN /\ flusher' = NoFlush
            /\ UNCHANGED disk
       ELSE LET s == CHOOSE s \in flusher.old : \A t \in flusher.old : s <= t
            IN  /\ disk' = [disk EXCEPT ![s] = <<>>]
                /\ flusher' = [flusher EXCEPT !.pc = "remove", !.seg = s]
    /\ UNCHANGED <<manifest, low, up, writerVars, memtable, capacity, history>>

(* Mutant: the entry stays. *)
RemoveSegmentKeeps ==
    /\ flusher.pc = "remove"
    /\ manifest' = manifest
    /\ flusher' = [flusher EXCEPT !.pc = "delete", !.old = @ \ {flusher.seg}]
    /\ UNCHANGED <<disk, low, up, writerVars, memtable, capacity, history>>

RemoveSegment ==
    /\ flusher.pc = "remove"
    /\ manifest' = [s \in DOMAIN manifest \ {flusher.seg} |-> manifest[s]]
    /\ flusher' = [flusher EXCEPT !.pc = "delete", !.old = @ \ {flusher.seg}]
    /\ UNCHANGED <<disk, low, up, writerVars, memtable, capacity, history>>

-----------------------------------------------------------------------------
(* Crash and restart.                                                      *)

Crash ==
    /\ up
    /\ crashes < MaxCrashes
    /\ crashes' = crashes + 1
    /\ up' = FALSE
    /\ todo' = <<>> /\ left' = 0 /\ full' = FALSE
    /\ call' = {} /\ memtable' = {}
    /\ flusher' = NoFlush
    /\ UNCHANGED <<diskVars, nextTxn, nextSeq, capacity, issued, acked, inSST, flushes>>

(* OpenSegment positions the active segment after the last record it can   *)
(* read.                                                                   *)
Reopened(blocks) ==
    LET used == IF Len(blocks) > 1 /\ Last(blocks) = <<>> THEN Front(blocks) ELSE blocks
    IN  [used EXCEPT ![Len(used)] = ReadBlockRecords(@)]

(* OpenWAL and the engine's recover: the recovered operations go back into *)
(* the memtable and the sequence numbers continue after the largest one    *)
(* that survived.  A full active segment is rotated first of all.          *)
Reopen ==
    /\ ~up
    /\ up' = TRUE
    /\ disk' = [disk EXCEPT ![ActiveSegment] = Reopened(@)]
    /\ full' = IsFull(disk'[ActiveSegment])
    /\ nextTxn' = 1 + MaxOf({f.txn : f \in ToSet(ReadAllFragments)})
    /\ memtable' = Recovered
    /\ capacity' \in Capacities
    /\ nextSeq' = 1 + MaxOf(Seqs(inSST \cup Recovered))
    /\ UNCHANGED <<manifest, low, todo, left, call, flusher, history>>

-----------------------------------------------------------------------------

Batches == UNION {[1 .. len -> Payloads] : len \in 1 .. MaxBatch}

AppendStep == NextBlock \/ WritePart \/ WriteEnd \/ RotateSegment \/ Return

FlushStep == \/ SetValidFromBlock \/ SetFlushedUpToSeqID \/ RetireSegment
             \/ SetLowWatermark \/ DeleteFile \/ RemoveSegment

(* Everything the bounds allow was done; a flush that failed is a panic.   *)
Finished ==
    /\ up /\ call = {} /\ flusher.pc \in {"idle", "failed"}
    /\ UNCHANGED vars

Next ==
    \/ \E n \in Payloads : Put(n)
    \/ \E ns \in Batches : BatchWrite(ns)
    \/ NextBlock
    \/ WritePart
    \/ WriteEnd
    \/ RotateSegment
    \/ Return
    \/ \E target \in Seqs(memtable) : MemtableFlushed(target)
    \/ SetValidFromBlock
    \/ SetFlushedUpToSeqID
    \/ RetireSegment
    \/ SetLowWatermark
    \/ DeleteFile
    \/ RemoveSegment
    \/ Crash
    \/ Reopen
    \/ Finished

Spec == Init /\ [][Next]_vars

(* The goroutines keep running while the process does.                     *)
FairSpec == /\ Spec
            /\ WF_vars(AppendStep)
            /\ WF_vars(FlushStep)

-----------------------------------------------------------------------------
(* Properties.                                                             *)

(* Whenever the process crashes, recovery returns every operation whose    *)
(* call returned and whose memtable was not yet written to an SSTable, in  *)
(* strictly increasing order of their sequence numbers, which the          *)
(* memtable's update in place relies on; a number that an uncommitted      *)
(* batch used before a crash may be used again.                            *)
Durable ==
    LET R == Recovered
        r == Recover
    IN  /\ \A o \in acked : o \in inSST \/ o \in R
        /\ \A i, j \in 1 .. Len(r) : i < j => r[i].seq < r[j].seq

(* A record whose end is missing has another one behind it: its append ran *)
(* over the end of the segment.                                            *)
Dangling ==
    LET F == FlattenSeq([s \in DOMAIN disk |-> FlattenSeq(disk[s])])
    IN  \E i \in 1 .. Len(F) - 1 :
            F[i].ft \in {"FIRST", "MIDDLE"} /\ F[i + 1].ft \in {"FIRST", "FULL"}

(* Fragmented records are durable while no watermark is being moved, until *)
(* a crash or the end of a segment tears one: every Put that returned is   *)
(* in an SSTable or recovered, in order; and what is recovered is whole: no*)
(* operation comes back with a part of its payload, or joined from pieces  *)
(* that do not belong together.                                            *)
DurableAtRest ==
    LET R == Recovered
        r == Recover
    IN  flusher.pc = "idle" /\ crashes = 0 /\ ~Dangling =>
            /\ \A o \in acked : o \in inSST \/ o \in R \/ issued[o].batch # 0
            /\ \A i, j \in 1 .. Len(r) : i < j => r[i].seq < r[j].seq
            /\ \A q \in ToSet(r) : q.n = issued[q.op].n /\ q.seq = issued[q.op].seq

(* A batch is recovered as a whole or not at all (but for operations that  *)
(* reached an SSTable), however crashes, full segments and flushes cut it. *)
BatchAtomic ==
    LET R == Recovered
    IN  \A o, p \in DOMAIN issued :
            (o \in R /\ issued[o].batch # 0 /\ issued[o].batch = issued[p].batch) => p \in R \cup inSST

(* MemtableFlushed never fails (the engine panics when it does): the       *)
(* flushed records are always found and no watermark would move backwards. *)
FlushNeverFails == flusher.pc # "failed"

(* Both goroutines get through.  Every call returns, whatever blocks and   *)
(* segments it takes to fit its records in.  The flush worker comes to an  *)
(* end, and then every segment below the low watermark is gone from the    *)
(* manifest; a crash may end the worker first, and the next flush of the   *)
(* new process then removes what was left.                                 *)
Progress ==
    /\ call # {} ~> call = {}
    /\ flusher.pc # "idle" ~>
          ~up \/ (flusher.pc = "idle" /\ \A s \in DOMAIN manifest : s > low)

=============================================================================
