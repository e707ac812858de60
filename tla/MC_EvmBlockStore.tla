-------------------------- MODULE MC_EvmBlockStore --------------------------
(* Model-checking instance: a hash list of 2 kept hashes, so that it       *)
(* slides, blocks up to height 4 and proposals of at most one transaction. *)
EXTENDS EvmBlockStore

MCCapacity == 2
MCMaxHeight == 4
MCMaxTxCount == 1
=============================================================================
