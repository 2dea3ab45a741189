---------------------------- MODULE SSTableFile ----------------------------
(***************************************************************************)
(* One SSTable file: the writer that cuts the records into data blocks     *)
(* (internal/sstable/writer.go, data.go), the index, summary, TTL and      *)
(* range tombstone segments, the Merkle tree over the data blocks, and the *)
(* reader and iterators that find the records again.                       *)
(*                                                                         *)
(* The lengths are those of the code, in bytes; the bytes themselves are   *)
(* left out.  A value is a name with a length, a part of it the interval   *)
(* [lo, hi) of its bytes.  A hash is the term that was hashed.             *)
(***************************************************************************)
EXTENDS Integers, Sequences, FiniteSets, FiniteSetsExt, SequencesExt

CONSTANTS
    Keys,             \* numbers in their byte order
    KeyLen,           \* the length of each key
    SharedLen,        \* the length of the common prefix of two different keys
    Vals,             \* what a record may hold: [name, len, op, ttl]
    Versions,         \* the records there may be, as pairs of key and sequence number
    Dels,             \* the range tombstones of the memtable, a sequence of [lo, hi, seq]
    BlockSize, RestartInterval,
    DictThreshold, DictWindow,   \* NewAdaptiveDictEncoderFrequency(2, 5)
    IdsPerByte,       \* dictionary ids that one byte can hold (256 in the code)
    MaxRecords, MaxCorrupt       \* bounds

ASSUME FileAssumption ==
    /\ Keys \subseteq Nat \ {0} /\ KeyLen \in [Keys -> Nat \ {0}]
    /\ \A k \in Keys : SharedLen <= KeyLen[k]
    /\ \A v \in Vals : v.len \in Nat /\ v.op \in {"Put", "Del"} /\ v.ttl \in BOOLEAN
    /\ Versions \subseteq Keys \X (Nat \ {0})
    /\ \A n \in {BlockSize, RestartInterval, DictThreshold, IdsPerByte} : n \in Nat \ {0}
    /\ {DictWindow, MaxRecords, MaxCorrupt} \subseteq Nat

VARIABLES
    input,    \* the records given to the writer, in order (reference)
    w,        \* the writer, see NewSSTableWriter
    phase,    \* "writing"; "closed" after Finalize; "failed" after an error or a panic
    why,      \* what made it fail
    corrupt   \* the data blocks whose bytes changed on disk after they were written

vars == <<input, w, phase, why, corrupt>>

NoKey == 0
Garbage == [name |-> "garbage", lo |-> 0, hi |-> 0]

\* Bytes of n as an uvarint.
Varint(n) == IF n < 128 THEN 1 ELSE 2

-----------------------------------------------------------------------------
(* The adaptive encoder: a value seen often enough within the window gets an id. *)

NewDict == [keys |-> <<>>, cand |-> {}, count |-> 0]

HasId(d, v) == v.name \in ToSet(d.keys)

\* AddToDict: candidates outside the window are dropped first, then this one is counted.
AddToDict(d, v) ==
    LET count == d.count + 1
        live  == {c \in d.cand : count - c.last <= DictWindow}
        mine  == {c \in live : c.name = v.name}
        freq  == IF mine = {} THEN 1 ELSE (CHOOSE c \in mine : TRUE).freq + 1
    IN IF HasId(d, v) THEN [d EXCEPT !.count = count, !.cand = live]
       ELSE IF freq >= DictThreshold
            THEN [keys |-> Append(d.keys, v.name), cand |-> live \ mine, count |-> count]
            ELSE [d EXCEPT !.count = count,
                           !.cand = (live \ mine)
                               \cup {[name |-> v.name, freq |-> freq, last |-> count]}]

\* outSize in Encode and Decode, from bitWidth, the number of ids the dictionary has.
OutSize(d) == IF Len(d.keys) = 0 THEN 0 ELSE IF Len(d.keys) <= IdsPerByte THEN 1 ELSE 2

-----------------------------------------------------------------------------
(* The data block builder. *)

NewBuilder ==
    [chunks |-> <<>>, used |-> 0, restarts |-> <<>>, entry |-> 0, prev |-> NoKey,
     bits |-> {}, first |-> NoKey]

\* The lengths the fit tests use.
Reserved(b) == 12 + (Len(b.chunks) \div RestartInterval + 1) * 4
BitmapSize(b) == Len(b.chunks) \div 8 + 1
Estimated(rec, len) == 1 + KeyLen[rec.key] * 2 + len + 32 + 8

\* The delta encoder starts a new restart point after every RestartInterval keys.
AtRestart(b) == b.entry = 0 \/ b.entry = RestartInterval
Shared(b, rec) ==
    IF AtRestart(b) THEN 0 ELSE IF b.prev = rec.key THEN KeyLen[rec.key] ELSE SharedLen

\* The bit of the record about to be added.
BitOf(b) == Len(b.chunks)
\* Append a chunk that carries the key: chunk type, sequence number, expiry, operation,
\* the delta-encoded key, the length of the value part and `stored' bytes of it.
AppendKeyed(b, type, rec, part, enc, stored) ==
    [b EXCEPT
       !.chunks = Append(@, [type |-> type, key |-> rec.key, seq |-> rec.seq, op |-> rec.val.op,
                             base |-> IF AtRestart(b) THEN NoKey ELSE b.prev,
                             val |-> part, enc |-> enc, stored |-> stored]),
       !.used = @ + 1 + 1 + 8 + 1 + 2 + (KeyLen[rec.key] - Shared(b, rec))
                  + Varint(stored) + stored,
       !.restarts = IF AtRestart(b) THEN Append(@, Len(b.chunks) + 1) ELSE @,
       !.entry = IF AtRestart(b) THEN 1 ELSE @ + 1,
       !.prev = rec.key,
       !.bits = IF enc THEN @ \cup {BitOf(b)} ELSE @]

\* The key becomes the block's first key before the fit is tested.
SetFirst(b, rec) == IF b.first = NoKey THEN [b EXCEPT !.first = rec.key] ELSE b

Whole(v) == [name |-> v.name, lo |-> 0, hi |-> v.len]

\* DataBlockBuilder.AddRecord: does the record fit, and the builder and dictionary after it.
RecordFits(b, rec) ==
    b.used + Estimated(rec, rec.val.len) + Reserved(b) + BitmapSize(b) <= BlockSize

AddWhole(b, d, rec) ==
    LET enc == HasId(d, rec.val)
    IN AppendKeyed(b, "full", rec, Whole(rec.val), enc,
                   IF enc THEN OutSize(d) ELSE rec.val.len)

FirstFits(b, rec, len) == b.used + Estimated(rec, len) + Reserved(b) <= BlockSize

ContinuationFits(b, len) == b.used + 1 + 10 + len + Reserved(b) <= BlockSize

AddContinuationChunk(b, type, part) ==
    [b EXCEPT
       !.chunks = Append(@, [type |-> type, key |-> NoKey, seq |-> 0, op |-> "Put",
                             base |-> NoKey, val |-> part, enc |-> FALSE,
                             stored |-> part.hi - part.lo]),
       !.used = @ + 1 + Varint(part.hi - part.lo) + part.hi - part.lo]

\* Finish appends restart array, sizes, bitmap and checksum; the bitmap is empty when
\* no bit was ever set.
FinishFits(b) ==
    b.used + Len(b.restarts) * 4 + 12
        + (IF b.bits = {} THEN 0 ELSE Max(b.bits) \div 8 + 1) + 4 <= BlockSize

-----------------------------------------------------------------------------
(* The writer. *)

IndexEntrySize(e) == 1 + KeyLen[e.key] + 4
RealSize(entries) ==
    4 + FoldLeft(LAMBDA n, e : n + IndexEntrySize(e), 0, entries)

NewSSTableWriter ==
    [b |-> NewBuilder, dict |-> NewDict, blocks |-> <<>>, index |-> <<>>, cur |-> <<>>,
     ttl |-> <<>>, dels |-> <<>>, count |-> 0, min |-> NoKey, max |-> NoKey,
     err |-> "none"]

Fail(x, e) == [x EXCEPT !.err = e]

\* flushDataBlock: nothing to do for an empty builder; a block without a first key
\* (only continuation chunks) gets no index entry.
FlushDataBlock(x) ==
    IF x.err # "none" \/ Len(x.b.chunks) = 0 THEN x
    ELSE IF ~FinishFits(x.b) THEN Fail(x, "block too large")
    ELSE LET entry == [key |-> x.b.first, block |-> Len(x.blocks) + 1]
             cur   == IF x.b.first = NoKey THEN x.cur ELSE Append(x.cur, entry)
             full  == RealSize(cur) >= BlockSize
         IN [x EXCEPT !.blocks = Append(@, [chunks |-> x.b.chunks, restarts |-> x.b.restarts,
                                            bits |-> x.b.bits]),
                      !.cur = IF full THEN <<>> ELSE cur,
                      !.index = IF full THEN Append(@, cur) ELSE @,
                      !.b = NewBuilder]

\* An overhead without the room for what ends the block.
FirstOverheadShort(rec) == 1 + 10 + 8 + 1 + KeyLen[rec.key] * 2 + 10
\* What the writer sets aside for the header of a first chunk, and of a later one.
FirstOverhead(rec) == 1 + 10 + 8 + 1 + KeyLen[rec.key] * 2 + 10 + 60
ContOverhead == 1 + 10 + 60

\* Does what is left of the value fit in the room of this block?
IsLastStrict(left, room) == left < room
IsLast(left, room) == left <= room

\* The rest of the value, from byte lo on, as MIDDLE chunks and one LAST chunk.
RECURSIVE AddRest(_, _, _)
AddRest(x, v, lo) ==
    IF x.err # "none" \/ lo >= v.len THEN x
    ELSE LET room == BlockSize - x.b.used - ContOverhead
             y    == IF room <= 0 THEN FlushDataBlock(x) ELSE x
             av   == IF room <= 0 THEN BlockSize - ContOverhead ELSE room
             last == IsLast(v.len - lo, av)
             hi   == IF last THEN v.len ELSE lo + av
             part == [name |-> v.name, lo |-> lo, hi |-> hi]
             type == IF last THEN "last" ELSE "middle"
             z    == IF ContinuationFits(y.b, hi - lo) THEN y ELSE FlushDataBlock(y)
         IN IF ~ContinuationFits(z.b, hi - lo) THEN Fail(z, "cannot write continuation chunk")
            ELSE AddRest([z EXCEPT !.b = AddContinuationChunk(z.b, type, part)], v, hi)

\* AddRecord after the builder took the record: AddToDict, then Encode.
Added(x, rec) ==
    LET d == AddToDict(x.dict, rec.val)
    IN [x EXCEPT !.dict = d, !.b = AddWhole(SetFirst(x.b, rec), d, rec)]

\* addRecordChunked: the header with the first part of the value, then the rest.
AddRecordChunked(x, rec) ==
    LET y  == IF x.b.used + FirstOverhead(rec) >= BlockSize THEN FlushDataBlock(x) ELSE x
        av == BlockSize - y.b.used - FirstOverhead(rec)
        b  == SetFirst(y.b, rec)
        part == [name |-> rec.val.name, lo |-> 0, hi |-> av]
    IN CASE y.err # "none" -> y
         [] y.err = "none" /\ av <= 0 -> Fail(y, "key too large")
         [] y.err = "none" /\ av > 0 /\ av >= rec.val.len ->
              IF RecordFits(b, rec) THEN Added(y, rec) ELSE Fail(y, "still does not fit")
         [] OTHER ->
              IF ~FirstFits(b, rec, av) THEN Fail(y, "cannot write first chunk")
              ELSE AddRest([y EXCEPT !.b = AppendKeyed(b, "first", rec, part, FALSE, av)],
                           rec.val, av)

\* SSTableWriter.AddRecord.  A record that is cut into chunks is not counted.
AddedRecord(x0, rec) ==
    LET x == [x0 EXCEPT !.count = @ + 1,
                        !.ttl = IF rec.val.ttl THEN Append(@, rec.key) ELSE @,
                        !.min = IF @ = NoKey \/ rec.key < @ THEN rec.key ELSE @,
                        !.max = IF rec.key > @ THEN rec.key ELSE @,
                        !.b = SetFirst(@, rec)]
        y == FlushDataBlock(x)
        z == [y EXCEPT !.b = SetFirst(@, rec)]
    IN CASE RecordFits(x.b, rec) -> Added(x, rec)
         [] ~RecordFits(x.b, rec) /\ y.err # "none" -> y
         [] ~RecordFits(x.b, rec) /\ y.err = "none" /\ RecordFits(z.b, rec) -> Added(z, rec)
         [] OTHER -> AddRecordChunked([z EXCEPT !.count = @ - 1], rec)

-----------------------------------------------------------------------------
(* Segments of index, TTL and range tombstone blocks.  The last four bytes of a  *)
(* block are its checksum, written over whatever is there and never verified.    *)

TTLSize(keys) == 4 + FoldLeft(LAMBDA n, k : n + 1 + KeyLen[k] + 8, 0, keys)
DelSize(dels) == 4 + FoldLeft(LAMBDA n, e : n + 2 + KeyLen[e.lo] + KeyLen[e.hi] + 8, 0, dels)

\* Encode writes past the end of its buffer.
Overflows(size) == size > BlockSize
\* The checksum overwrites the end of the last entry.
Clobbers(size) == size \in BlockSize - 3 .. BlockSize

IndexSegment(x) == IF x.cur = <<>> THEN x.index ELSE Append(x.index, x.cur)

\* Finalize: the last data block, the index segment, then in this order the steps that
\* can fail.  The Merkle tree of no block cannot be built.
Finalized(x) ==
    LET y == FlushDataBlock(x)
        z == [y EXCEPT !.index = IndexSegment(y), !.cur = <<>>]
    IN CASE y.err # "none" -> y
         [] y.err = "none" /\ y.blocks = <<>> -> Fail(y, "no leaves")
         [] OTHER ->
              IF \E i \in DOMAIN z.index : Overflows(RealSize(z.index[i]))
              THEN Fail(z, "index overflow")
              ELSE IF Overflows(TTLSize(z.ttl)) THEN Fail(z, "TTL overflow")
              ELSE IF Overflows(DelSize(z.dels)) THEN Fail(z, "range tombstone overflow")
              ELSE z

\* What loadIndexBlock gives: the block number of the last entry may be lost.
IndexBlock(i) ==
    LET entries == w.index[i]
    IN IF Clobbers(RealSize(entries))
       THEN [entries EXCEPT ![Len(entries)].block = 0]
       ELSE entries

\* The range tombstones as GetRangeDelEntries reads them back: the high bytes of a
\* clobbered sequence number are the checksum's.
ReadDels ==
    IF w.dels # <<>> /\ Clobbers(DelSize(w.dels))
    THEN [w.dels EXCEPT ![Len(w.dels)].seq = @ + 1000]
    ELSE w.dels

Covered(k, s) == \E i \in DOMAIN ReadDels :
    ReadDels[i].lo <= k /\ k < ReadDels[i].hi /\ ReadDels[i].seq > s

-----------------------------------------------------------------------------
(* The data block reader and its raw iterator. *)

NumBlocks == Len(w.blocks)
Chunks(n) == w.blocks[n].chunks
Restarts(n) == w.blocks[n].restarts

\* A block that does not exist, or whose checksum is wrong, cannot be read.
Readable(n) == n \in 1 .. NumBlocks /\ n \notin corrupt

\* The key the delta decoder has when it reads chunk j after starting at chunk i.
PrevKey(n, i, j) ==
    LET keyed == {m \in i .. j - 1 : Chunks(n)[m].type \in {"full", "first"}}
    IN IF keyed = {} THEN NoKey ELSE Chunks(n)[Max(keyed)].key

\* The value of a keyed chunk, for the bit that is looked up: bytes are taken for a
\* dictionary id just when the bit says so, and cannot be decoded when they are fewer than
\* an id has now.
TooShort(c, bit) == bit /\ c.stored < OutSize(w.dict)
DecodedValue(c, bit) == IF bit = c.enc THEN c.val ELSE Garbage

\* ReadRecord at chunk j, for a reader that started at chunk i with recordIdx = idx.
ReadRecord(n, i, idx, j) ==
    LET c   == Chunks(n)[j]
        bit == (idx + j - i) \in w.blocks[n].bits
    IN IF c.type \in {"middle", "last"}
       THEN [type |-> c.type, key |-> NoKey, seq |-> 0, op |-> "Put", val |-> c.val]
       ELSE IF TooShort(c, bit) THEN [type |-> "error", key |-> NoKey]
       ELSE [type |-> c.type, seq |-> c.seq, op |-> c.op, val |-> DecodedValue(c, bit),
             key |-> IF c.base \in {NoKey, PrevKey(n, i, j)} THEN c.key ELSE NoKey]

\* Where SeekToRestart(r) puts the reader: chunk and record index.  Restart points are
\* counted in keys, the bitmap in chunks.
SeekToRestart(n, r) ==
    IF Restarts(n) = <<>> THEN [at |-> 1, idx |-> 0]
    ELSE [at |-> Restarts(n)[r + 1], idx |-> r * RestartInterval]

\* Does the search go right of a restart point with this key?
GoesRightEqual(key, k) == key <= k
GoesRight(key, k) == key < k

\* The binary search over the restart points for the last key < k; -1 after an error.
RECURSIVE SearchRestarts(_, _, _, _, _)
SearchRestarts(n, k, left, right, best) ==
    IF left > right THEN best
    ELSE LET mid == left + (right - left) \div 2
             st  == SeekToRestart(n, mid)
             rec == ReadRecord(n, st.at, st.idx, st.at)
         IN IF rec.type = "error" THEN -1
            ELSE IF GoesRight(rec.key, k) THEN SearchRestarts(n, k, mid + 1, right, mid)
            ELSE SearchRestarts(n, k, left, mid - 1, best)

\* An iterator that has no position; the position of one is the block, the chunk it is
\* on, and where its reader started.
Nowhere == [block |-> 0]

\* DataBlockIteratorRaw.Seek.
BlockSeek(n, k) ==
    LET best == SearchRestarts(n, k, 0, Len(Restarts(n)) - 1, 0)
        st   == SeekToRestart(n, best)
        hits == {j \in st.at .. Len(Chunks(n)) :
                    ReadRecord(n, st.at, st.idx, j).type = "error"
                       \/ ReadRecord(n, st.at, st.idx, j).key >= k}
    IN IF best < 0 \/ hits = {} THEN Nowhere
       ELSE IF ReadRecord(n, st.at, st.idx, Min(hits)).type = "error" THEN Nowhere
       ELSE [block |-> n, chunk |-> Min(hits), at |-> st.at, idx |-> st.idx]

Current(p) == ReadRecord(p.block, p.at, p.idx, p.chunk)

-----------------------------------------------------------------------------
(* The raw iterator over the table. *)

\* The first position at or after block n (advanceBlock): blocks that cannot be read,
\* and blocks whose first chunk cannot, are skipped.
AdvanceBlock(n) ==
    LET good == {m \in n .. NumBlocks : Readable(m) /\ ReadRecord(m, 1, 0, 1).type # "error"}
    IN IF good = {} THEN Nowhere
       ELSE [block |-> Min(good), chunk |-> 1, at |-> 1, idx |-> 0]

\* One chunk further, in the next block when this one has no more or cannot be decoded.
Step(p) ==
    LET q == [p EXCEPT !.chunk = @ + 1]
    IN IF q.chunk <= Len(Chunks(p.block)) /\ Current(q).type # "error" THEN q
       ELSE AdvanceBlock(p.block + 1)

\* Appending the bytes of a chunk to those assembled so far.
Joined(a, b) ==
    IF a.name = b.name /\ a.hi = b.lo THEN [a EXCEPT !.hi = b.hi] ELSE Garbage

\* reassembleChunks: the position of the last chunk and the assembled value; Nowhere
\* when the chunks end, or something else than a chunk of the value follows.
RECURSIVE Reassemble(_, _)
Reassemble(p, val) ==
    LET q == Step(p)
        c == Current(q)
    IN IF q = Nowhere THEN [pos |-> Nowhere, val |-> val]
       ELSE IF c.type = "last" THEN [pos |-> q, val |-> Joined(val, c.val)]
       ELSE IF c.type = "middle" THEN Reassemble(q, Joined(val, c.val))
       ELSE [pos |-> Nowhere, val |-> val]

\* The records an iterator delivers from position p on.
RECURSIVE From(_)
From(p) ==
    IF p = Nowhere THEN <<>>
    ELSE LET c == Current(p)
             r == Reassemble(p, c.val)
             Rec(v) == [key |-> c.key, seq |-> c.seq, op |-> c.op, val |-> v]
         IN IF c.type # "first" THEN <<Rec(c.val)>> \o From(Step(p))
            ELSE IF r.pos = Nowhere THEN <<>>
            ELSE <<Rec(r.val)>> \o From(Step(r.pos))

SeekToFirst == From(AdvanceBlock(1))

\* The binary search of IndexBlock.FindBlock, and of the summary: any entry with the
\* key, else the last one below it.
RECURSIVE Search(_, _, _, _, _)
Search(entries, k, left, right, result) ==
    IF left > right THEN result
    ELSE LET mid == left + (right - left) \div 2
         IN IF k < entries[mid].key THEN Search(entries, k, left, mid - 1, result)
            ELSE IF k = entries[mid].key THEN mid
            ELSE Search(entries, k, mid + 1, right, mid)

\* A search that leaves the last entry out.
FindBlockShort(entries, k) ==
    IF k < entries[1].key THEN 1 ELSE Search(entries, k, 1, Len(entries) - 1, 1)
FindBlock(entries, k) ==
    IF k < entries[1].key THEN 1
    ELSE IF k > entries[Len(entries)].key THEN Len(entries)
    ELSE Search(entries, k, 1, Len(entries), 1)

Summary == [i \in DOMAIN w.index |-> w.index[i][1]]

FindIndexBlockNumber(k) == Search(Summary, k, 1, Len(Summary), 1)

\* SSTableIteratorRaw.Seek: summary, index block, data block, else the next block.
Seek(k) ==
    LET entries == IndexBlock(FindIndexBlockNumber(k))
        n       == entries[FindBlock(entries, k)].block
        p       == BlockSeek(n, k)
    IN IF ~Readable(n) THEN <<>>
       ELSE From(IF p = Nowhere THEN AdvanceBlock(n + 1) ELSE p)

\* SSTableReader.Get; fp: the filter takes an absent key for a present one.
NotFound == [key |-> NoKey, seq |-> 0, op |-> "none", val |-> Garbage]

Get(k, fp) ==
    LET found == Seek(k)
    IN IF ~(fp \/ \E i \in DOMAIN input : input[i].key = k) THEN NotFound
       ELSE IF k < w.min \/ k > w.max THEN NotFound
       ELSE IF found = <<>> \/ Head(found).key # k THEN NotFound
       ELSE IF Covered(k, Head(found).seq) THEN NotFound
       ELSE Head(found)

\* SSTableIterator: of a key only the newest version, and nothing of a deleted one.
Filtered(recs) ==
    FoldLeft(LAMBDA acc, r :
                 IF r.key = acc.prev THEN acc
                 ELSE [prev |-> r.key, out |-> IF r.op = "Del" THEN acc.out ELSE Append(acc.out, r)],
             [prev |-> NoKey, out |-> <<>>], recs).out

-----------------------------------------------------------------------------
(* The Merkle tree over the data blocks: a leaf is a tuple of one, an inner node *)
(* of its two children.                                                          *)

\* A level that leaves an unpaired node out.
NextLevelPairs(level) ==
    [i \in 1 .. Len(level) \div 2 |-> <<level[2 * i - 1], level[2 * i]>>]
\* One level of Build; the last node of an odd level is paired with itself.
NextLevel(level) ==
    [i \in 1 .. (Len(level) + 1) \div 2 |->
        <<level[2 * i - 1], IF 2 * i <= Len(level) THEN level[2 * i] ELSE level[2 * i - 1]>>]

RECURSIVE Build(_)
Build(level) == IF Len(level) = 1 THEN level[1] ELSE Build(NextLevel(level))

StoredHashes == [n \in 1 .. NumBlocks |-> <<n>>]
DiskHashes == [n \in 1 .. NumBlocks |-> IF n \in corrupt THEN <<-n>> ELSE <<n>>]

\* findCorruptedBlocks, with the code's halving of the index range (from 0).
MidIndex(start, end) == start + (end - start) \div 2

RECURSIVE FindCorruptedBlocks(_, _, _, _)
FindCorruptedBlocks(expected, actual, start, end) ==
    IF expected = actual THEN {}
    ELSE IF Len(expected) = 1 THEN {start}
    ELSE FindCorruptedBlocks(expected[1], actual[1], start, MidIndex(start, end))
         \cup (IF end > MidIndex(start, end)
               THEN FindCorruptedBlocks(expected[2], actual[2], MidIndex(start, end), end)
               ELSE {})

\* Verify, called by Validate with the hashes of the blocks on disk.
Verify ==
    LET expected == Build(StoredHashes)
        actual   == Build(DiskHashes)
    IN [valid |-> expected = actual,
        corrupted |-> FindCorruptedBlocks(expected, actual, 0, NumBlocks)]

\* GetProof: at each level the sibling, the node itself where there is none.
Sibling(level, i) ==
    LET j == IF i % 2 = 1 THEN i + 1 ELSE i - 1
    IN IF j > Len(level) THEN level[i] ELSE level[j]

\* ValidateBlock: the hash of the block on disk, combined with the siblings of block i.
RECURSIVE VerifyProof(_, _, _)
VerifyProof(level, i, hash) ==
    IF Len(level) = 1 THEN hash = level[1]
    ELSE VerifyProof(NextLevel(level), (i + 1) \div 2,
                     IF i % 2 = 1 THEN <<hash, Sibling(level, i)>>
                     ELSE <<Sibling(level, i), hash>>)

ValidateBlock(n) == VerifyProof(StoredHashes, n, DiskHashes[n])

-----------------------------------------------------------------------------
(* The specification: a flush or a merge hands its records to the writer in the   *)
(* order of their keys, newer versions first, then the range tombstones.          *)

Records == {[key |-> p[1], seq |-> p[2], val |-> v] : p \in Versions, v \in Vals}

Init ==
    /\ input = <<>> /\ w = NewSSTableWriter
    /\ phase = "writing" /\ why = "none" /\ corrupt = {}

Before(r, q) == r.key < q.key \/ (r.key = q.key /\ r.seq > q.seq)

\* The writer after a call; an error of any call is the end of the file.
Becomes(x, done) ==
    /\ w' = x /\ why' = x.err
    /\ phase' = IF x.err # "none" THEN "failed" ELSE IF done THEN "closed" ELSE "writing"
    /\ UNCHANGED corrupt

AddRecord(rec) ==
    /\ phase = "writing" /\ Len(input) < MaxRecords /\ w.dels = <<>>
    /\ input # <<>> => Before(Last(input), rec)
    /\ input' = Append(input, rec)
    /\ Becomes(AddedRecord(w, rec), FALSE)

AddToRangeDel ==
    /\ phase = "writing" /\ Len(w.dels) < Len(Dels)
    /\ Becomes([w EXCEPT !.dels = Append(@, Dels[Len(@) + 1])], FALSE)
    /\ UNCHANGED input

Finalize ==
    /\ phase = "writing"
    /\ Becomes(Finalized(w), TRUE)
    /\ UNCHANGED input

\* A data block of the finished file changes on disk.
Corrupt(n) ==
    /\ phase = "closed" /\ Cardinality(corrupt) < MaxCorrupt /\ n \notin corrupt
    /\ corrupt' = corrupt \cup {n}
    /\ UNCHANGED <<input, w, phase, why>>

Next ==
    \/ \E rec \in Records : AddRecord(rec)
    \/ AddToRangeDel
    \/ Finalize
    \/ \E n \in 1 .. NumBlocks : Corrupt(n)

Spec == Init /\ [][Next]_vars

-----------------------------------------------------------------------------
(* Properties. *)

\* The record as it was given to the writer.
Given(r) == [key |-> r.key, seq |-> r.seq, op |-> r.val.op, val |-> Whole(r.val)]
Reference == [i \in DOMAIN input |-> Given(input[i])]

\* Ids did not outgrow the bytes of those already written.
DictStable == Len(w.dict.keys) <= IdsPerByte

\* A scan of an intact file (SeekToFirst and Next until the end, what a merge does)
\* delivers every record given to the writer, in order and with its whole value, however
\* the values were cut into chunks and spread over blocks; and the filtering iterator
\* exactly the keys whose newest version is no tombstone, with that version.
ScanWhole ==
    phase = "closed" /\ corrupt = {} /\ DictStable =>
        /\ SeekToFirst = Reference
        /\ Range(Filtered(SeekToFirst)) =
              {r \in Range(Reference) : r.op # "Del" /\ \A q \in Range(Reference) :
                                            q.key = r.key => q.seq <= r.seq}

\* The size estimates are large enough: whatever the records, no block is too large to be
\* finished and no chunk is refused; the writer fails only where a segment of index
\* entries, TTLs or range tombstones outgrows its block, or there is no block at all.
BlocksNeverOverflow ==
    why \in {"none", "no leaves", "index overflow", "TTL overflow", "range tombstone overflow"}

\* Blocks with a record of key k.
BlocksOf(k) == {n \in 1 .. NumBlocks : \E j \in DOMAIN Chunks(n) : Chunks(n)[j].key = k}

\* A continuation chunk stands before the records of its block.
HasContinuation(n) == Chunks(n)[1].type \in {"middle", "last"}

NewestOf(k) ==
    LET versions == {i \in DOMAIN input : input[i].key = k}
    IN IF versions = {} \/ Covered(k, input[Min(versions)].seq) THEN NotFound
       ELSE Given(input[Min(versions)])

\* The checksum of an index block did not overwrite an entry.
IndexIntact == \A i \in DOMAIN w.index : ~Clobbers(RealSize(w.index[i]))

\* All records of key k are in one block, at the start of which no value continues.
Plain(k) == \A n \in BlocksOf(k) : BlocksOf(k) = {n} /\ ~HasContinuation(n)

\* Get finds the newest version of every plain key with its value, and nothing for an
\* absent key whatever the filter says.
GetNewest ==
    phase = "closed" /\ corrupt = {} /\ DictStable /\ IndexIntact =>
        \A k \in Keys, fp \in BOOLEAN : Plain(k) => Get(k, fp) = NewestOf(k)

\* Seek positions the iterator at the first record whose key is >= the target, and all
\* the others follow: for a plain key the file has, and for an absent one if no block
\* begins inside a value.
SeekFirstNotLess ==
    phase = "closed" /\ corrupt = {} /\ DictStable /\ IndexIntact =>
        \A k \in Keys :
            /\ Plain(k)
            /\ BlocksOf(k) # {} \/ \A n \in 1 .. NumBlocks : ~HasContinuation(n)
            => Seek(k) = SelectSeq(Reference, LAMBDA r : r.key >= k)

\* The Merkle tree tells a changed file from an intact one, and which single block
\* changed when it is asked about one.  Verify names some block of a changed file, always
\* one the file has, and exactly the changed ones if the number of blocks is a power of two.
MerkleDetects ==
    phase = "closed" =>
        /\ Verify.valid <=> corrupt = {}
        /\ \A n \in 1 .. NumBlocks : ValidateBlock(n) <=> n \notin corrupt
        /\ corrupt # {} =>
              /\ Verify.corrupted # {} /\ Verify.corrupted \subseteq 0 .. NumBlocks - 1
              /\ NumBlocks \in {1, 2, 4, 8, 16} => Verify.corrupted = {n - 1 : n \in corrupt}

=============================================================================
