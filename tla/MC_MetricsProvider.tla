------------------------- MODULE MC_MetricsProvider -------------------------
(* TLC instance of MetricsProvider: a ring of 3 slots, 3-bit heights (0..7) *)
(* so that gaps longer than the ring and the wrap of height + 1 occur, and  *)
(* two distinguishable metrics values.                                      *)
EXTENDS MetricsProvider, TLC

CONSTANTS d1, d2
MCData == {d1, d2}
MCSymmetry == Permutations(MCData)
=============================================================================
