----------------------------- MODULE MCSSTableFile -----------------------------
(* An instance of SSTableFile for TLC with the default block size: three short   *)
(* keys and two long ones; a tombstone, a short value, and a value that fills the *)
(* two blocks of a short key exactly and takes three with a long one.             *)
EXTENDS SSTableFile

MCKeyLen == <<5, 5, 34, 34, 5>>
MCVersions == {<<1, 1>>, <<2, 2>>, <<2, 1>>, <<3, 2>>, <<3, 1>>, <<4, 2>>, <<4, 1>>, <<5, 1>>}
MCVals ==
    {[name |-> "empty", len |-> 0, op |-> "Del", ttl |-> FALSE],
     [name |-> "small", len |-> 3, op |-> "Put", ttl |-> TRUE],
     [name |-> "large", len |-> 159, op |-> "Put", ttl |-> FALSE]}
MCDels == <<[lo |-> 3, hi |-> 4, seq |-> 2], [lo |-> 3, hi |-> 4, seq |-> 1],
            [lo |-> 3, hi |-> 4, seq |-> 2]>>
================================================================================
