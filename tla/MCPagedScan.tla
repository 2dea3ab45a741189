------------------------------ MODULE MCPagedScan ------------------------------
(* Model values for TLC: the range deletes, the bounds of single scans and   *)
(* those of sessions, everything and a prefix that one key has.              *)
EXTENDS PagedScan

MCRangeDeletes == {<<1, 3>>, <<2, 4>>}
MCBounds == {<<0, 0>>, <<1, 2>>, <<2, 0>>}
MCScanners == {<<"at", "heap">>, <<"after", "tree">>}
MCSessions ==
    {[prefix |-> FALSE, lower |-> 0, upper |-> 0], [prefix |-> TRUE, lower |-> 2, upper |-> 2]}
================================================================================
