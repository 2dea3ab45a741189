-------------------------------- MODULE KVStore --------------------------------
(***************************************************************************)
(* What the engine promises its client: a dictionary.  A write replaces    *)
(* the versions of some keys at once by new ones (0 stands for an absent   *)
(* key), a read returns the current version, and nothing else, a crash and *)
(* a recovery included, changes the dictionary.                            *)
(***************************************************************************)
EXTENDS Naturals

CONSTANTS
    Keys,
    NoAnswer   \* ret when nothing was read since the last write or restart

VARIABLES
    dict,   \* the current version of every key, 0 when absent
    ret     \* the latest answer to Get: [key, val]

kvVars == <<dict, ret>>

Init ==
    /\ dict = [k \in Keys |-> 0]
    /\ ret = NoAnswer

(* A new version is one the dictionary has not held at any key.            *)
Fresh(v) == \A k \in Keys : v > dict[k]

Write ==
    /\ \E K \in SUBSET Keys :
           \A k \in Keys : IF k \in K THEN dict'[k] = 0 \/ Fresh(dict'[k])
                                      ELSE dict'[k] = dict[k]
    /\ DOMAIN dict' = Keys
    /\ ret' = NoAnswer

Get(k) ==
    /\ ret' = [key |-> k, val |-> dict[k]]
    /\ UNCHANGED dict

(* A crash, or the restart after it.                                       *)
Reopen == ret' = NoAnswer /\ UNCHANGED dict

Next ==
    \/ Write
    \/ \E k \in Keys : Get(k)
    \/ Reopen

Spec == Init /\ [][Next]_kvVars
=============================================================================
