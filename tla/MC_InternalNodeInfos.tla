------------------------ MODULE MC_InternalNodeInfos ------------------------
(* Model-checking instance: two node IDs and two addresses, a directory of *)
(* up to two files, and up to three configuration entries, so that an      *)
(* address can be configured twice with different weights, 0 (invalid)    *)
(* and 1.                                                                  *)
EXTENDS InternalNodeInfos

CONSTANTS a, b, x, y

MCNodeIDs == {a, b}
MCAddresses == {x, y}
MCWeights == {0, 1}
MCMaxFiles == 2
MCMaxConfigs == 3
=============================================================================
