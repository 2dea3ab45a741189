------------------------------- MODULE RangeDel -------------------------------
(***************************************************************************)
(* Range tombstones: how they are cut into fragments and searched          *)
(* (internal/utils/fragmenter.go, range_del.go) and how a scan sweeps over *)
(* those of one table (internal/sstable/range_del_iterator.go).            *)
(*                                                                         *)
(* A tombstone is [lo, hi, seq] and covers lo <= key < hi.  The heaps of   *)
(* ForwardRangeDelChecker only order the work: the tables' iterators do    *)
(* not depend on each other, so each is described by itself.               *)
(***************************************************************************)
EXTENDS Integers, FiniteSetsExt

(* The intervals between neighbouring boundaries, each with the newest     *)
(* tombstone that contains it.                                             *)
FragmentRangeTombstones(R) ==
    LET bounds == {r.lo : r \in R} \cup {r.hi : r \in R}
        next(b) == Min({c \in bounds : c > b})
        over(b) == {r \in R : r.lo <= b /\ next(b) <= r.hi}
    IN  {[lo |-> b, hi |-> next(b), seq |-> Max({r.seq : r \in over(b)})] :
            b \in {c \in bounds : c # Max(bounds) /\ over(c) # {}}}

(* The first of a set of fragments; their starts differ.                   *)
FirstOf(F) == CHOOSE f \in F : \A g \in F : f.lo <= g.lo

(* Binary search for the last fragment that starts at or before the key.   *)
IsCoveredByRangeTombstone(F, k, s) ==
    LET before == {f \in F : f.lo <= k}
    IN  before # {} /\ LET f == CHOOSE f \in before : \A g \in before : g.lo <= f.lo
                       IN  k < f.hi /\ f.seq > s

-----------------------------------------------------------------------------
(* One table's FragmentedTombstoneIter: the fragments from its position    *)
(* on, and whether the iterator is in the active heap.                     *)

TombstonesFrom(F, active) == [rest |-> F, active |-> active /\ F # {}]

SeekTombstonesToFirst(F) == TombstonesFrom(F, FALSE)

SeekTombstones(F, k) ==
    LET rest == {f \in F : f.hi > k}
    IN  TombstonesFrom(rest, rest # {} /\ FirstOf(rest).lo <= k)

(* Mutant: an active tombstone is not retired at its end.                  *)
SweepStays(it, k) ==
    IF it.active \/ it.rest = {} THEN it
    ELSE TombstonesFrom(it.rest, FirstOf(it.rest).lo <= k)

(* ShouldDelete and classifyIter for the next key: an active fragment that *)
(* has ended makes room for its successor; an iterator whose fragment has  *)
(* begun skips the ended ones and becomes active, even if the fragment it  *)
(* arrives at has not begun yet.                                           *)
Sweep(it, k) ==
    LET ended == it.active /\ FirstOf(it.rest).hi <= k
        rest == IF ended THEN it.rest \ {FirstOf(it.rest)} ELSE it.rest
    IN  IF it.active /\ ~ended THEN it
        ELSE IF rest # {} /\ FirstOf(rest).lo <= k
        THEN TombstonesFrom({f \in rest : f.hi > k}, TRUE)
        ELSE TombstonesFrom(rest, FALSE)

(* The newest active tombstone is newer than the record.                   *)
ShouldDelete(its, s) == \E it \in its : it.active /\ FirstOf(it.rest).seq > s
=============================================================================
