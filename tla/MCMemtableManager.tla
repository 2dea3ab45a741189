--------------------------- MODULE MCMemtableManager ---------------------------
(***************************************************************************)
(* The instance of MemtableManager for TLC: two writers and one key, which *)
(* a snapshot turns from replaced in place to kept in versions.            *)
(***************************************************************************)
EXTENDS MemtableManager
=============================================================================
