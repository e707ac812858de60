------------------------- MODULE MC_ResultCollector -------------------------
(* Model-checking instance: four transactions in three collections, the    *)
(* last being the system collection of one transaction.                   *)
EXTENDS ResultCollector

MCCollectionOf == <<0, 0, 1, 2>>

MCFailures == FailurePoints

=============================================================================
