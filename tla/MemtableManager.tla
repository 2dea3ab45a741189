---------------------------- MODULE MemtableManager ----------------------------
(***************************************************************************)
(* The memtable manager of internal/memtable: one active memtable, a       *)
(* bounded list of immutable ones, and a background goroutine (the flush   *)
(* worker) that receives rotated tables on a channel and hands their       *)
(* entries to the flush handler.  Any number of goroutines may call Put;   *)
(* every action is one critical section of mm.mu, one channel operation or *)
(* one call of the flush handler.  A panic of the worker ends the process. *)
(*                                                                         *)
(* Values are abstracted away: an entry is its key, its sequence number    *)
(* and whether it is a range tombstone.  Iterators, GetVersions and TTL    *)
(* read the same state and change none of it.                              *)
(***************************************************************************)
EXTENDS Integers, Sequences, FiniteSets, SequencesExt

CONSTANTS
    Writers,      \* goroutines that call Put
    Keys,         \* keys
    MergeKeys,    \* the keys that are only written with OpTypeMerge (probabilistic structures)
    MaxTables,    \* maxTables: the bound on the immutable list and the channel's capacity
    MaxEntries,   \* maxNumEntries of every memtable
    MaxPuts,      \* bound on the number of Put calls
    MaxResets     \* bound on the number of ResetAll calls

ASSUME WritersAssumption == IsFiniteSet(Writers) /\ Writers # {}
ASSUME KeysAssumption == MergeKeys \subseteq Keys
ASSUME BoundsAssumption ==
    /\ MaxTables \in Nat \ {0}
    /\ MaxEntries \in Nat \ {0}
    /\ MaxPuts \in Nat
    /\ MaxResets \in Nat

VARIABLES
    active,        \* the writeable memtable
    immutable,     \* tables rotated out, oldest first
    flushChannel,  \* buffered channel to the flush worker
    wg,            \* the WaitGroup's counter
    pc,            \* where each writer is inside Put/rotate
    held,          \* the table a writer in "send" is about to send
    worker,        \* the flush worker: [pc, tab]
    closing,       \* "open", then "closed" (channel closed), then "done" (Close returned)
    snapshots,     \* keys whose versions are kept
    seq,           \* sequence number of the latest Put
    puts,          \* history: the entries put since the last ResetAll
    flushed,       \* history: tables handed to the flush handler, in order
    resets         \* history: number of ResetAll calls

vars == <<active, immutable, flushChannel, wg, pc, held, worker, closing,
          snapshots, seq, puts, flushed, resets>>

Entry == [key : Keys, seq : Nat, rd : BOOLEAN]

(* A table carries an identity: pointer equality in the code.              *)
Table == [id : Nat, ents : SUBSET Entry]

NewTable(id) == [id |-> id, ents |-> {}]

Points(t) == {e \in t.ents : ~e.rd}

(* Mutant: one entry more than the limit. *)
ShouldFlushLate(t) == Cardinality(Points(t)) > MaxEntries

ShouldFlush(t) == Cardinality(Points(t)) >= MaxEntries

Upsert(t, e) == [t EXCEPT !.ents = {f \in @ : f.rd \/ f.key # e.key} \cup {e}]

Insert(t, e) == [t EXCEPT !.ents = @ \cup {e}]

Init ==
    /\ active = NewTable(1)
    /\ immutable = <<>>
    /\ flushChannel = <<>>
    /\ wg = 0
    /\ pc = [w \in Writers |-> "idle"]
    /\ held = [w \in Writers |-> active]
    /\ worker = [pc |-> "recv", tab |-> active]
    /\ closing = "open"
    /\ snapshots = {}
    /\ seq = 0
    /\ puts = {}
    /\ flushed = <<>>
    /\ resets = 0

(* The worker has not panicked.  Nobody recovers, so a panic takes the     *)
(* whole process down.                                                     *)
Alive == worker.pc # "panicked"

-----------------------------------------------------------------------------
(* The writers.                                                            *)

(* Put's critical section: the entry goes into the active table, replacing *)
(* the key's older entry unless versions must be kept, and the writer      *)
(* remembers whether the table is now full.  The number is the caller's:   *)
(* the engine draws it just before the call, on its only goroutine.        *)
Put(w, k, rd) ==
    /\ Alive /\ closing = "open"
    /\ pc[w] = "idle"
    /\ seq < MaxPuts
    /\ seq' = seq + 1
    /\ LET e == [key |-> k, seq |-> seq', rd |-> rd]
       IN  /\ active' = IF rd \/ k \in MergeKeys \cup snapshots
                        THEN Insert(active, e) ELSE Upsert(active, e)
           /\ puts' = puts \cup {e}
    /\ pc' = [pc EXCEPT ![w] = IF ShouldFlush(active') THEN "rotate" ELSE "idle"]
    /\ UNCHANGED <<immutable, flushChannel, wg, held, worker, closing,
                   snapshots, flushed, resets>>

(* Mutant: the table is sent without being listed. *)
MoveActiveUnlisted(w) ==
    /\ immutable' = immutable
    /\ held' = [held EXCEPT ![w] = active]
    /\ active' = NewTable(active.id + 1)
    /\ wg' = wg + 1
    /\ pc' = [pc EXCEPT ![w] = "send"]

(* Mutant: the WaitGroup is not told of the new table. *)
MoveActiveNoAdd(w) ==
    /\ immutable' = Append(immutable, active)
    /\ held' = [held EXCEPT ![w] = active]
    /\ active' = NewTable(active.id + 1)
    /\ wg' = wg
    /\ pc' = [pc EXCEPT ![w] = "send"]

(* The tail of rotate: the active table joins the immutable list, a fresh  *)
(* one takes its place, and the writer goes on to send it.                 *)
MoveActive(w) ==
    /\ immutable' = Append(immutable, active)
    /\ held' = [held EXCEPT ![w] = active]
    /\ active' = NewTable(active.id + 1)
    /\ wg' = wg + 1
    /\ pc' = [pc EXCEPT ![w] = "send"]

(* Mutant: off by one in the loop condition. *)
WaitOrMoveOneMore(w) ==
    \/ /\ Len(immutable) > MaxTables
       /\ pc' = [pc EXCEPT ![w] = "wait"]
       /\ UNCHANGED <<active, immutable, held, wg>>
    \/ /\ Len(immutable) <= MaxTables
       /\ MoveActive(w)

(* The loop of rotate: wait on the condition variable while the list is    *)
(* full.  ShouldFlush is not looked at again after a wait.                 *)
WaitOrMove(w) ==
    \/ /\ Len(immutable) >= MaxTables
       /\ pc' = [pc EXCEPT ![w] = "wait"]
       /\ UNCHANGED <<active, immutable, held, wg>>
    \/ /\ Len(immutable) < MaxTables
       /\ MoveActive(w)

Rotate(w) ==
    /\ Alive /\ pc[w] = "rotate"
    /\ \/ /\ ~ShouldFlush(active)
          /\ pc' = [pc EXCEPT ![w] = "idle"]
          /\ UNCHANGED <<active, immutable, held, wg>>
       \/ /\ ShouldFlush(active)
          /\ WaitOrMove(w)
    /\ UNCHANGED <<flushChannel, worker, closing, snapshots, seq, puts, flushed, resets>>

(* A signalled writer gets the mutex back and tests the loop condition.    *)
WakeUp(w) ==
    /\ Alive /\ pc[w] = "woken"
    /\ WaitOrMove(w)
    /\ UNCHANGED <<flushChannel, worker, closing, snapshots, seq, puts, flushed, resets>>

(* flushChannel <- immutable, outside the mutex; blocks on a full channel. *)
Send(w) ==
    /\ Alive /\ pc[w] = "send"
    /\ Len(flushChannel) < MaxTables
    /\ flushChannel' = Append(flushChannel, held[w])
    /\ pc' = [pc EXCEPT ![w] = "idle"]
    /\ UNCHANGED <<active, immutable, wg, held, worker, closing, snapshots,
                   seq, puts, flushed, resets>>

-----------------------------------------------------------------------------
(* The flush worker.                                                       *)

(* Mutant: the newest queued table is taken first. *)
ReceiveNewest ==
    /\ worker.pc = "recv"
    /\ flushChannel # <<>>
    /\ worker' = [pc |-> "lock", tab |-> Last(flushChannel)]
    /\ flushChannel' = Front(flushChannel)
    /\ UNCHANGED <<active, immutable, wg, pc, held, closing, snapshots, seq, puts,
                   flushed, resets>>

Receive ==
    /\ worker.pc = "recv"
    /\ flushChannel # <<>>
    /\ worker' = [pc |-> "lock", tab |-> Head(flushChannel)]
    /\ flushChannel' = Tail(flushChannel)
    /\ UNCHANGED <<active, immutable, wg, pc, held, closing, snapshots, seq, puts,
                   flushed, resets>>

(* Mutant: the signal is forgotten. *)
SignalDropped == pc' = pc

(* cond.Signal: one waiting writer, if there is one, is made runnable.     *)
Signal ==
    \/ /\ \A w \in Writers : pc[w] # "wait"
       /\ pc' = pc
    \/ \E w \in Writers : /\ pc[w] = "wait"
                          /\ pc' = [pc EXCEPT ![w] = "woken"]

(* removeImmutable makes the new list with room for one table less than    *)
(* the old one.  If ResetAll has emptied the list that is a negative       *)
(* capacity, and the worker panics, with the mutex held.                   *)
RemovePanics ==
    /\ immutable = <<>>
    /\ worker' = [worker EXCEPT !.pc = "panicked"]
    /\ UNCHANGED <<immutable, pc>>

(* Mutant: membership is tested after the removal. *)
TakeImmutableSwapped ==
    /\ worker.pc = "lock"
    /\ \/ RemovePanics
       \/ /\ immutable # <<>>
          /\ immutable' = RemoveFirst(immutable, worker.tab)
          /\ worker' = [worker EXCEPT !.pc = IF Contains(immutable', worker.tab)
                                             THEN "flush" ELSE "skip"]
          /\ Signal
    /\ UNCHANGED <<active, flushChannel, wg, held, closing, snapshots, seq, puts,
                   flushed, resets>>

(* The worker's critical section.  The table leaves the immutable list     *)
(* before its entries reach the flush handler; a table that ResetAll has   *)
(* dropped is not flushed.                                                 *)
TakeImmutable ==
    /\ worker.pc = "lock"
    /\ \/ RemovePanics
       \/ /\ immutable # <<>>
          /\ worker' = [worker EXCEPT !.pc = IF Contains(immutable, worker.tab)
                                             THEN "flush" ELSE "skip"]
          /\ immutable' = RemoveFirst(immutable, worker.tab)
          /\ Signal
    /\ UNCHANGED <<active, flushChannel, wg, held, closing, snapshots, seq, puts,
                   flushed, resets>>

(* Mutant: a dropped table returns to the loop before wg.Done. *)
FlushNoDone ==
    /\ worker.pc \in {"flush", "skip"}
    /\ flushed' = IF worker.pc = "flush" THEN Append(flushed, worker.tab) ELSE flushed
    /\ worker' = [worker EXCEPT !.pc = "recv"]
    /\ wg' = IF worker.pc = "flush" THEN wg - 1 ELSE wg
    /\ UNCHANGED <<active, immutable, flushChannel, pc, held, closing,
                   snapshots, seq, puts, resets>>

(* mem.Flush, the handler, wg.Done.                                        *)
Flush ==
    /\ worker.pc \in {"flush", "skip"}
    /\ flushed' = IF worker.pc = "flush" THEN Append(flushed, worker.tab) ELSE flushed
    /\ worker' = [worker EXCEPT !.pc = "recv"]
    /\ wg' = wg - 1
    /\ UNCHANGED <<active, immutable, flushChannel, pc, held, closing,
                   snapshots, seq, puts, resets>>

-----------------------------------------------------------------------------
(* Operations of the manager's owner.                                      *)

Snapshot(k) ==
    /\ Alive /\ closing = "open"
    /\ k \notin snapshots
    /\ snapshots' = snapshots \cup {k}
    /\ UNCHANGED <<active, immutable, flushChannel, wg, pc, held, worker,
                   closing, seq, puts, flushed, resets>>

ResetAll ==
    /\ Alive /\ closing = "open"
    /\ resets < MaxResets
    /\ resets' = resets + 1
    /\ active' = NewTable(active.id + 1)
    /\ immutable' = <<>>
    /\ puts' = {}
    /\ UNCHANGED <<flushChannel, wg, pc, held, worker, closing, snapshots,
                   seq, flushed>>

(* Close.  The engine calls it on the goroutine that issues the writes, so *)
(* no Put is under way.                                                    *)
Close ==
    /\ Alive /\ closing = "open"
    /\ \A w \in Writers : pc[w] = "idle"
    /\ IF ShouldFlush(active)
       THEN /\ Len(flushChannel) < MaxTables
            /\ immutable' = Append(immutable, active)
            /\ flushChannel' = Append(flushChannel, active)
            /\ active' = NewTable(active.id + 1)
            /\ wg' = wg + 1
       ELSE UNCHANGED <<immutable, flushChannel, active, wg>>
    /\ closing' = "closed"
    /\ UNCHANGED <<pc, held, worker, snapshots, seq, puts, flushed, resets>>

CloseReturns ==
    /\ Alive /\ closing = "closed"
    /\ wg = 0
    /\ closing' = "done"
    /\ UNCHANGED <<active, immutable, flushChannel, wg, pc, held, worker,
                   snapshots, seq, puts, flushed, resets>>

Terminated == (closing = "done" \/ ~Alive) /\ UNCHANGED vars

-----------------------------------------------------------------------------

WorkerStep == Receive \/ TakeImmutable \/ Flush

RotateStep(w) == Rotate(w) \/ WakeUp(w) \/ Send(w)

Next ==
    \/ \E w \in Writers, k \in Keys, rd \in BOOLEAN : Put(w, k, rd)
    \/ \E w \in Writers : Rotate(w)
    \/ \E w \in Writers : WakeUp(w)
    \/ \E w \in Writers : Send(w)
    \/ Receive
    \/ TakeImmutable
    \/ Flush
    \/ \E k \in Keys : Snapshot(k)
    \/ ResetAll
    \/ Close
    \/ CloseReturns
    \/ Terminated

Spec == Init /\ [][Next]_vars

(* The Go scheduler runs every runnable goroutine: the worker and a writer *)
(* inside Put keep going, Close's wait returns once it can.  Nobody is     *)
(* obliged to call Put, Snapshot, ResetAll or Close.                       *)
FairSpec ==
    /\ Spec
    /\ WF_vars(WorkerStep)
    /\ \A w \in Writers : WF_vars(RotateStep(w))
    /\ WF_vars(CloseReturns)

-----------------------------------------------------------------------------
(* Properties.                                                             *)

WriterPCs == {"idle", "rotate", "wait", "woken", "send"}

(* Every variable keeps its type; in particular the WaitGroup's counter    *)
(* never goes negative (Go panics if wg.Done runs once too often).         *)
TypeOK ==
    /\ active \in Table
    /\ immutable \in Seq(Table)
    /\ flushChannel \in Seq(Table)
    /\ wg \in Nat
    /\ pc \in [Writers -> WriterPCs]
    /\ held \in [Writers -> Table]
    /\ worker \in [pc : {"recv", "lock", "flush", "skip", "panicked"}, tab : Table]
    /\ closing \in {"open", "closed", "done"}
    /\ snapshots \subseteq Keys
    /\ seq \in 0 .. MaxPuts
    /\ puts \subseteq Entry
    /\ flushed \in Seq(Table)
    /\ resets \in 0 .. MaxResets

(* The immutable list never outgrows maxTables, whatever the writers, the  *)
(* condition variable and Close (which appends without waiting) do.        *)
ImmutableBound == Len(immutable) <= MaxTables

(* Writers block after the Put that fills the table, so the active table   *)
(* overshoots its capacity by at most one entry per other writer.          *)
ActiveBound == Cardinality(Points(active)) <= MaxEntries + Cardinality(Writers) - 1

(* A full active table always has a writer on its way to rotate it: it is  *)
(* never left behind for the next Put to notice.                           *)
FullHasRotator ==
    ShouldFlush(active) => \E w \in Writers : pc[w] \in {"rotate", "wait", "woken"}

(* Table t still holds e, or a newer entry that replaced it in place.      *)
Kept(t, e) ==
    \/ e \in t.ents
    \/ /\ ~e.rd /\ e.key \notin MergeKeys
       /\ \E f \in t.ents : ~f.rd /\ f.key = e.key /\ f.seq > e.seq

(* Nothing put since the last reset is lost on its way from the active     *)
(* table over the immutable list and the worker to the flush handler.      *)
Conservation ==
    \A e \in puts :
        \E t \in {active} \cup ToSet(immutable) \cup ToSet(flushed)
                 \cup (IF worker.pc = "flush" THEN {worker.tab} ELSE {}) : Kept(t, e)

(* Every immutable table is on its way to the worker, so each will be      *)
(* flushed and its slot given back.                                        *)
OnItsWay(t) ==
    \/ t \in ToSet(flushChannel)
    \/ \E w \in Writers : pc[w] = "send" /\ held[w] = t
    \/ worker.pc = "lock" /\ worker.tab = t

ImmutableOnItsWay == \A t \in ToSet(immutable) : OnItsWay(t)

(* A writer waiting on the condition variable is never forgotten: a table  *)
(* whose removal signals is still on its way to the worker, or a signalled *)
(* writer is about to send one.                                            *)
NoLostWakeup ==
    Alive /\ (\E w \in Writers : pc[w] = "wait") =>
        \/ \E w \in Writers : pc[w] \in {"woken", "send"}
        \/ flushChannel # <<>>
        \/ worker.pc = "lock"

(* A writer that never rotated still holds the fresh table of Init.        *)
HaveRotated == {w \in Writers : held[w] # NewTable(1)}

(* Tables reach the flush handler in the order they were rotated, and none *)
(* twice, as long as one writer does the rotating: two of them may send in *)
(* the other order, since the send is outside the mutex.  The engine calls *)
(* from one goroutine, and the WAL's watermark depends on the order.       *)
FlushedInOrder ==
    Cardinality(HaveRotated) <= 1 =>
        \A i, j \in 1 .. Len(flushed) : i < j => flushed[i].id < flushed[j].id

(* The worker panics only over a table of before the latest reset: one     *)
(* that ResetAll dropped while it was on its way (memtable/manager.go:136, *)
(* :222).  Without a reset, and for every entry put since the latest one,  *)
(* each table that reaches the worker is still in the list.                *)
PanicNeedsReset == ~Alive => resets > 0 /\ worker.tab.ents \cap puts = {}

(* Every Put returns, unless the process goes down first: a writer blocked *)
(* on a full immutable list is let go.                                     *)
PutReturns == \A w \in Writers : pc[w] # "idle" ~> pc[w] = "idle" \/ ~Alive

(* Close returns, unless the process goes down first, and only after every *)
(* table it promised to flush was handled.                                 *)
CloseTerminates ==
    closing = "closed" ~> (closing = "done" /\ immutable = <<>>) \/ ~Alive

=============================================================================
