-------------------------------- MODULE MCEngine --------------------------------
(* Instances of Engine for TLC: the ranges RangeDelete may be called with. *)
EXTENDS Engine

NoRanges == {}

(* One range over all keys, starting at any of them. *)
FullRange == {[start |-> CHOOSE k \in Keys : TRUE, keys |-> Keys]}
=============================================================================
