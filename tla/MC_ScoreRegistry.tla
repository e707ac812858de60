-------------------------- MODULE MC_ScoreRegistry --------------------------
(* Model-checking instance: a clean staked peer, a staked peer subscribed  *)
(* to a forbidden topic and an access node; two notifier goroutines and a  *)
(* cache of one record, so that a second peer's Add must evict.  The       *)
(* penalties keep the code's values except the misbehaviour penalty and    *)
(* the decay threshold, scaled to integers in the same order.              *)
EXTENDS ScoreRegistry, TLC

CONSTANTS p1, p2, p3, n1, n2

MCPeers == {p1, p2, p3}
MCNotifiers == {n1, n2}
MCRole == (p1 :> "staked") @@ (p2 :> "staked") @@ (p3 :> "access")
MCViolators == {p2}
MCMisbehaviourPenalty == -4
MCSkipDecayThreshold == -2
MCMaxAppSpecificPenalty == -100
MCMinAppSpecificPenalty == -1
=============================================================================
