--------------------------------- MODULE MCWAL ---------------------------------
(***************************************************************************)
(* Instances of WAL for TLC; the sizes of the configurations are chosen    *)
(* for the fragments they produce.                                         *)
(***************************************************************************)
EXTENDS WAL
=============================================================================
