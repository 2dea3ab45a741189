--------------------------- MODULE MCSSTableManager ---------------------------
(* Model values for TLC: key 1 is put, deleted and range-deleted and may be  *)
(* snapshotted, key 2 has a TTL, key 3 holds a probabilistic structure.      *)
EXTENDS SSTableManager

Point(k, op) == [key |-> k, op |-> op, exp |-> FALSE, ranges |-> {}, rangeFirst |-> FALSE]
MCMemtables ==
    {Point(1, "Put"), Point(1, "Del"), Point(3, "Base"), Point(3, "Op"),
     [key |-> 2, op |-> "Put", exp |-> TRUE, ranges |-> {<<1, 2>>}, rangeFirst |-> TRUE]}

(* Key 1 is put and deleted, key 2 only put.                                 *)
MCRebuild == {Point(1, "Put"), Point(1, "Del"), Point(2, "Put")}
===============================================================================
