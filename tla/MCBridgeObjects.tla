--------------------------- MODULE MCBridgeObjects ---------------------------
(* A list, a dictionary and a plain object; two wrappers and one iterator.   *)
EXTENDS BridgeObjects, TLC

CONSTANTS list, dict, x, w1, w2, i1
MCObjs == {list, dict, x}
MCWrappers == {w1, w2}
MCSymmetry == Permutations(MCWrappers)
==============================================================================
