--------------------------- MODULE MCMemtableStores ---------------------------
(* Instances of MemtableStores for TLC: an empty memtable, and memtables     *)
(* that hold enough keys for trees of three levels.                          *)
EXTENDS MemtableStores

MCPreloads ==
    {<<>>, <<1, 2, 3, 4, 5, 6, 7, 8, 9>>, <<9, 8, 7, 6, 5, 4, 3, 2, 1>>,
     <<5, 2, 8, 1, 9, 3, 7, 4, 6>>}
===============================================================================
