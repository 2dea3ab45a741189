------------------------------ MODULE MCBackups ------------------------------
(* Instance of Backups for TLC.                                            *)
EXTENDS Backups
=============================================================================
