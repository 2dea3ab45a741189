------------------------------- MODULE PagedScan -------------------------------
(***************************************************************************)
(* Paged scans over a changing store: one session of PagedRangeScan or     *)
(* PagedPrefixScan (internal/core/paged_scan.go), its watcher goroutine,   *)
(* the notifier (internal/notifier/notifier.go) and the TTL janitor        *)
(* (internal/ttl/janitor.go), which announces expired keys.  Another       *)
(* goroutine writes, rotates and flushes; pages are read through the       *)
(* iterators of module Iterators.                                          *)
(*                                                                         *)
(* A prefix is the interval of the keys that have it.  A write and its     *)
(* notification are two steps, as in Engine.Put; notify holds the read     *)
(* lock over its loop and is one step.                                     *)
(***************************************************************************)
EXTENDS Iterators

CONSTANTS
    MaxKey,        \* keys are 1 .. MaxKey
    RangeDeletes,  \* the pairs <<lo, hi>> RangeDelete is called with
    Bounds,        \* the pairs <<lower, upper>> ScanCorrect scans,
    Scanners,      \* with these pairs <<Seek, MergeStructure>>
    Sessions,      \* [prefix, lower, upper]: what scans are opened over
    Seek,          \* the memtable's store: "at" or "after", see SeekPos
    MergeStructure,\* of the memtables' iterator: "heap" or "tree"
    PageSize, BufferSize,
    MaxTables,     \* immutable memtables
    MaxSeq,        \* bound on the writes without a session
    MaxSessionSeq, \* bound on the writes and expiries before and during one
    MaxTurns       \* bound on the pages turned

Keys == 1 .. MaxKey

ASSUME ScanAssumption ==
    /\ MaxKey \in Nat \ {0} /\ ProbKeys \subseteq Keys
    /\ \A r \in RangeDeletes : r[1] \in Keys /\ r[2] \in r[1] + 1 .. MaxKey + 1
    /\ Bounds \subseteq (0 .. MaxKey) \X (0 .. MaxKey)
    /\ Scanners \subseteq {"at", "after"} \X {"heap", "tree"}
    /\ \A s \in Sessions : s.prefix \in BOOLEAN /\ {s.lower, s.upper} \subseteq 0 .. MaxKey
    /\ Seek \in {"at", "after"} /\ MergeStructure \in {"heap", "tree"}
    /\ {PageSize, BufferSize, MaxTables} \subseteq Nat \ {0}
    /\ {MaxSeq, MaxSessionSeq, MaxTurns} \subseteq Nat

VARIABLES
    mem,        \* the memtables, the active one first
    sst,        \* the SSTables, the latest last
    seq,        \* the sequence numbers given out
    event,      \* the event the writer is about to announce, or NoEvent
    session,    \* the open scan, see NoSession
    listeners,  \* Notifier.listeners: identifier -> [lo, hi]
    chans,      \* the listeners' channels: identifier -> [buf, open]
    watcher,    \* the watcher: [pc, ch], ch the channel its select waits on
    mutex,      \* the session's mutex is held between fetch and subscribe
    turns, expiries,
    touched     \* history: an event in the session's range since its Subscribe

store == <<mem, sst, seq>>
vars == <<store, event, session, listeners, chans, watcher, mutex, turns, expiries, touched>>

NoEvent == [type |-> "none", lo |-> 0, hi |-> 0]
NoSession == [status |-> "none", prefix |-> FALSE, lower |-> 0, upper |-> 0, page |-> <<>>,
              pageNumber |-> 0, dirty |-> FALSE, listener |-> 0]
NewTable == [recs |-> <<>>, rds |-> {}]

-----------------------------------------------------------------------------
(* The store.                                                              *)

Sorted(R) == SetToSortSeq(R, Before)

(* Upsert: one version of a key in a memtable.                             *)
WithRecord(t, r) == [t EXCEPT !.recs = Sorted({q \in ToSet(@) : q.key # r.key} \cup {r})]

CanWrite ==
    event = NoEvent /\ seq + expiries < IF session.status = "none" THEN MaxSeq ELSE MaxSessionSeq

Write(k, op) ==
    /\ CanWrite
    /\ seq' = seq + 1
    /\ mem' = [mem EXCEPT ![1] = WithRecord(@, [key |-> k, seq |-> seq + 1, op |-> op])]
    /\ event' = [type |-> op, lo |-> k, hi |-> k]
    /\ UNCHANGED <<sst, session, listeners, chans, watcher, mutex, turns, expiries, touched>>

RangeDelete(r) ==
    /\ CanWrite
    /\ seq' = seq + 1
    /\ mem' = [mem EXCEPT ![1].rds = @ \cup {[lo |-> r[1], hi |-> r[2], seq |-> seq + 1]}]
    /\ event' = [type |-> "RangeDel", lo |-> r[1], hi |-> r[2]]
    /\ UNCHANGED <<sst, session, listeners, chans, watcher, mutex, turns, expiries, touched>>

Rotate ==
    /\ event = NoEvent
    /\ mem[1].recs # <<>> /\ Len(mem) <= MaxTables
    /\ mem' = <<NewTable>> \o mem
    /\ UNCHANGED <<sst, seq, event, session, listeners, chans, watcher, mutex, turns,
                   expiries, touched>>

(* The oldest immutable memtable becomes a table of L0.                    *)
Flush ==
    /\ Len(mem) > 1
    /\ mem' = Front(mem)
    /\ sst' = Append(sst, Last(mem))
    /\ UNCHANGED <<seq, event, session, listeners, chans, watcher, mutex, turns,
                   expiries, touched>>

-----------------------------------------------------------------------------
(* The notifier.                                                           *)

(* Mutant: the ends of the listener's range are left out.                  *)
HearsInside(l, e) ==
    /\ l.hi = 0 \/ e.lo < l.hi
    /\ l.lo = 0 \/ e.hi > l.lo

(* inRange and overlapsRange.                                              *)
Hears(l, e) ==
    /\ l.hi = 0 \/ e.lo <= l.hi
    /\ l.lo = 0 \/ e.hi >= l.lo

(* The channels after notify: an event for a full channel is dropped.      *)
Notified(e) ==
    [i \in DOMAIN chans |->
        IF i \in DOMAIN listeners /\ Hears(listeners[i], e) /\ chans[i].buf < BufferSize
        THEN [chans[i] EXCEPT !.buf = @ + 1] ELSE chans[i]]

(* The keys the session's page is about, by the words of paged_scan.go.    *)
Watched(s) ==
    IF s.page # <<>> THEN Head(s.page).key .. Last(s.page).key
    ELSE IF s.prefix THEN {s.lower} ELSE {k \in Keys : k >= s.lower /\ (s.upper = 0 \/ k <= s.upper)}

Touches(e) ==
    session.status = "open" /\ ~mutex
        /\ \E k \in Watched(session) : e.lo <= k /\ k <= e.hi

Notify ==
    /\ event # NoEvent
    /\ chans' = Notified(event)
    /\ touched' = (touched \/ Touches(event))
    /\ event' = NoEvent
    /\ UNCHANGED <<store, session, listeners, watcher, mutex, turns, expiries>>

(* Janitor.evict, for one key whose time is over: NotifyDelete and nothing *)
(* else, whatever has become of the key; without a session nobody listens. *)
Evict(k) ==
    /\ session.status # "none" /\ seq + expiries < MaxSessionSeq
    /\ expiries' = expiries + 1
    /\ LET e == [type |-> "Del", lo |-> k, hi |-> k]
       IN  chans' = Notified(e) /\ touched' = (touched \/ Touches(e))
    /\ UNCHANGED <<store, event, session, listeners, watcher, mutex, turns>>

-----------------------------------------------------------------------------
(* The session.                                                            *)

Fetch(s) ==
    RangeScan(mem, sst, Seek, MergeStructure, s.lower, s.upper, s.pageNumber, PageSize)

(* resubscribe: Unsubscribe closes the old channel.                        *)
Resubscribe(s) ==
    LET id == Cardinality(DOMAIN chans) + 1
        range == IF s.page # <<>> THEN [lo |-> Head(s.page).key, hi |-> Last(s.page).key]
                 ELSE [lo |-> s.lower, hi |-> IF s.prefix THEN s.lower ELSE s.upper]
    IN  /\ listeners' = (id :> range)
        /\ chans' = (id :> [buf |-> 0, open |-> TRUE]) @@
                        [i \in DOMAIN chans |-> [chans[i] EXCEPT !.open = FALSE]]
        /\ session' = [s EXCEPT !.listener = id]

(* NewPagedRangeScan, NewPagedPrefixScan: the first page is fetched.       *)
Open(o) ==
    /\ session.status = "none" /\ seq < MaxSessionSeq
    /\ session' = [NoSession EXCEPT !.status = "opening", !.prefix = o.prefix, !.lower = o.lower,
                        !.upper = o.upper, !.page = Fetch(o @@ [pageNumber |-> 0])]
    /\ UNCHANGED <<store, event, listeners, chans, watcher, mutex, turns, expiries, touched>>

StartWatching ==
    /\ session.status = "opening"
    /\ Resubscribe([session EXCEPT !.status = "open"])
    /\ watcher' = [pc |-> "loop", ch |-> 0]
    /\ UNCHANGED <<store, event, mutex, turns, expiries, touched>>

(* CurrentPage of a dirty session, NextPage, PrevPage: fetch under the     *)
(* mutex; behind the last page NextPage fetches the same page again.       *)
TurnTo(n) ==
    LET s == [session EXCEPT !.pageNumber = n]
    IN  session' = [s EXCEPT !.page = Fetch(s)]

BeginTurn ==
    /\ session.status = "open" /\ ~mutex /\ turns < MaxTurns
    /\ mutex' = TRUE /\ turns' = turns + 1
    /\ UNCHANGED <<store, event, listeners, chans, watcher, expiries, touched>>

CurrentPage == session.dirty /\ BeginTurn /\ TurnTo(session.pageNumber)

NextPage ==
    /\ BeginTurn
    /\ LET n == session.pageNumber + 1
       IN  TurnTo(IF Fetch([session EXCEPT !.pageNumber = n]) = <<>> THEN n - 1 ELSE n)

PrevPage == session.pageNumber > 0 /\ BeginTurn /\ TurnTo(session.pageNumber - 1)

(* The second half of each.                                                *)
EndTurn ==
    /\ mutex
    /\ Resubscribe([session EXCEPT !.dirty = FALSE])
    /\ mutex' = FALSE
    /\ touched' = FALSE
    /\ UNCHANGED <<store, event, watcher, turns, expiries>>

(* Close: stopCh is closed, then, under the mutex, the listener goes.      *)
CloseStop ==
    /\ session.status = "open" /\ ~mutex
    /\ session' = [session EXCEPT !.status = "stopping"]
    /\ UNCHANGED <<store, event, listeners, chans, watcher, mutex, turns, expiries, touched>>

CloseListener ==
    /\ session.status = "stopping"
    /\ session' = [session EXCEPT !.status = "closed", !.listener = 0]
    /\ listeners' = <<>>
    /\ chans' = [i \in DOMAIN chans |-> [chans[i] EXCEPT !.open = FALSE]]
    /\ UNCHANGED <<store, event, watcher, mutex, turns, expiries, touched>>

-----------------------------------------------------------------------------
(* watchEvents.                                                            *)

(* The select evaluates s.listener.Ch, without the mutex.                  *)
WatcherSelects ==
    /\ watcher.pc = "loop"
    /\ watcher' = IF session.listener = 0 THEN [pc |-> "panic", ch |-> 0]
                  ELSE [pc |-> "select", ch |-> session.listener]
    /\ UNCHANGED <<store, event, session, listeners, chans, mutex, turns, expiries, touched>>

(* Mutant: the event is taken and the session not marked.                  *)
WatcherReceivesOnly ==
    /\ watcher.pc = "select" /\ chans[watcher.ch].buf > 0
    /\ chans' = [chans EXCEPT ![watcher.ch].buf = @ - 1]
    /\ watcher' = [watcher EXCEPT !.pc = "loop"]
    /\ UNCHANGED <<store, event, session, listeners, mutex, turns, expiries, touched>>

WatcherReceives ==
    /\ watcher.pc = "select" /\ chans[watcher.ch].buf > 0
    /\ chans' = [chans EXCEPT ![watcher.ch].buf = @ - 1]
    /\ watcher' = [watcher EXCEPT !.pc = "lock"]
    /\ UNCHANGED <<store, event, session, listeners, mutex, turns, expiries, touched>>

(* The channel is closed and empty, or stopCh is closed.                   *)
WatcherEnds ==
    /\ watcher.pc = "select"
    /\ \/ chans[watcher.ch] = [buf |-> 0, open |-> FALSE]
       \/ session.status \in {"stopping", "closed"}
    /\ watcher' = [pc |-> "ended", ch |-> 0]
    /\ UNCHANGED <<store, event, session, listeners, chans, mutex, turns, expiries, touched>>

WatcherMarks ==
    /\ watcher.pc = "lock" /\ ~mutex
    /\ session' = [session EXCEPT !.dirty = TRUE]
    /\ watcher' = [pc |-> "loop", ch |-> 0]
    /\ UNCHANGED <<store, event, listeners, chans, mutex, turns, expiries, touched>>

WatcherStep == WatcherSelects \/ WatcherReceives \/ WatcherEnds \/ WatcherMarks

-----------------------------------------------------------------------------

Init ==
    /\ mem = <<NewTable>> /\ sst = <<>> /\ seq = 0
    /\ event = NoEvent /\ session = NoSession
    /\ listeners = <<>> /\ chans = <<>>
    /\ watcher = [pc |-> "none", ch |-> 0] /\ mutex = FALSE
    /\ turns = 0 /\ expiries = 0 /\ touched = FALSE

Next ==
    \/ \E k \in Keys, op \in {"Put", "Del"} : Write(k, op)
    \/ \E r \in RangeDeletes : RangeDelete(r)
    \/ Rotate \/ Flush \/ Notify
    \/ \E k \in Keys : Evict(k)
    \/ \E o \in Sessions : Open(o)
    \/ StartWatching \/ CurrentPage \/ NextPage \/ PrevPage \/ EndTurn
    \/ CloseStop \/ CloseListener
    \/ WatcherSelects \/ WatcherReceives \/ WatcherEnds \/ WatcherMarks

Spec == Init /\ [][Next]_vars

(* The runtime runs the watcher, a session operation under way goes on,    *)
(* and the writer announces what it wrote; nobody must write, turn pages   *)
(* or close.                                                               *)
FairSpec ==
    /\ Spec
    /\ WF_vars(WatcherStep) /\ WF_vars(EndTurn) /\ WF_vars(Notify)
    /\ WF_vars(StartWatching) /\ WF_vars(CloseListener)

-----------------------------------------------------------------------------
(* Properties.                                                             *)

(* What a scan should show: the newest version of every key in the bounds, *)
(* if it is no tombstone and no newer range tombstone covers it.           *)
Tables == ToSet(mem) \cup ToSet(sst)
AllRecords == UNION {ToSet(t.recs) : t \in Tables}
AllRangeDels == UNION {t.rds : t \in Tables}
Live(r) ==
    /\ r.op = "Put" /\ r.key \notin ProbKeys
    /\ \A q \in AllRecords : q.key = r.key => q.seq <= r.seq
    /\ \A d \in AllRangeDels : d.lo <= r.key /\ r.key < d.hi => d.seq < r.seq
Within(k, lower, upper) == k >= lower /\ (upper = 0 \/ k <= upper)
Contents(lower, upper) ==
    Sorted({r \in AllRecords : Within(r.key, lower, upper) /\ Live(r)})

(* The cases in which a scan shows something else; the hazards name them.  *)

(* Opening the iterator moved a table's to its end, and so out of the heap.*)
OpeningDrops(seek, kind, lower, upper) ==
    LET db == NewDBIterator(mem, sst, seek, kind, lower, upper)
        usedUp(m) == m.kind = "heap" /\ \E i \in ToSet(m.its) : ~ItValid(m, i)
    IN  db.cur # Zero /\ (usedUp(db.mem) \/ usedUp(db.sst.raw))

(* The memtables are searched for what follows the lower bound.            *)
LowerSkipped(seek, lower) ==
    seek = "after" /\ \E t \in ToSet(mem) : \E r \in ToSet(t.recs) : r.key = lower

(* A memtable's tombstone ends at a key it should not cover, or is hidden  *)
(* by a newer one with the same start.                                     *)
MemtableDelMisread ==
    \E t \in ToSet(mem) : \E d \in t.rds :
        \/ \E r \in AllRecords : r.key = d.hi
        \/ \E e \in t.rds : e # d /\ e.lo = d.lo

(* A table's tombstones leave a gap, or the table itself is not read.      *)
TableDelMisread(lower, upper) ==
    \E t \in ToSet(sst) :
        \/ \E d, e \in t.rds : d.hi < e.lo
        \/ t.rds # {} /\ ~Overlaps(t, lower, upper)

(* RangeScan returns exactly the live keys of the range in order, whatever *)
(* versions and tombstones the memtables and tables hold, except in the    *)
(* cases above.                                                            *)
ScanCorrect ==
    session.status = "none" /\ event = NoEvent =>
        \A <<lower, upper>> \in Bounds, <<seek, kind>> \in Scanners :
            \/ RangeScan(mem, sst, seek, kind, lower, upper, 0, MaxKey) = Contents(lower, upper)
            \/ OpeningDrops(seek, kind, lower, upper) \/ LowerSkipped(seek, lower)
            \/ MemtableDelMisread \/ TableDelMisread(lower, upper)

(* Turning and refreshing pages and closing leave no listener behind: at   *)
(* most the one the session waits for is registered.  And no change of the *)
(* shown page is forgotten before the first turn: until the session is     *)
(* dirty the event is in the channel or in the watcher's hands, although   *)
(* events for a full channel are dropped.                                  *)
ChangePending ==
    /\ DOMAIN listeners = {session.listener} \ {0}
    /\ session.status = "closed" => listeners = <<>>
    /\ session.status = "open" /\ turns = 0 /\ touched =>
          session.dirty \/ chans[session.listener].buf > 0 \/ watcher.pc = "lock"

(* ... and the session does become dirty, unless a page is turned or it is *)
(* closed before.                                                          *)
ChangeSeen == (session.status = "open" /\ touched /\ turns = 0) ~>
                  (session.dirty \/ turns > 0 \/ session.status # "open")
=============================================================================
