------------------------- MODULE MC_PartnerNodeInfos -------------------------
(* Model-checking instance: two node IDs, a directory of up to two files   *)
(* (so that a node ID can appear twice and a file can lack the prefix),    *)
(* and weights 0 (invalid) and 1.                                          *)
EXTENDS PartnerNodeInfos

CONSTANTS a, b

MCNodeIDs == {a, b}
MCWeights == {0, 1}
MCMaxFiles == 2
=============================================================================
