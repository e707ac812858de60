------------------------------- MODULE EvmChain -------------------------------
(***************************************************************************)
(* What the EVM block store promises its callers, as seen between Cadence *)
(* transactions: a latest block, a pending proposal of some transactions   *)
(* that extends it, and the hashes of the last BlockHashListCapacity       *)
(* blocks.  Adding a transaction grows the proposal; committing turns the  *)
(* proposal into the next block, atomically.                               *)
(*                                                                         *)
(* A block is its height, its parent's hash and its number of              *)
(* transactions; its hash is the block itself, which is injective as a     *)
(* real hash is assumed to be.                                             *)
(***************************************************************************)
EXTENDS Naturals

CONSTANTS
  BlockHashListCapacity,  \* how many recent block hashes are kept
  MaxHeight,              \* bound on the height, for model checking
  MaxTxCount,             \* bound on a proposal's transactions
  ZeroHash                \* gethCommon.Hash{}, the parent of genesis

Hash(b) == b

GenesisBlock == [height |-> 0, parentHash |-> ZeroHash, txCount |-> 0]

(* The heights whose hashes are kept when the latest height is t.          *)
Window(t) == {h \in 0 .. t : h + BlockHashListCapacity > t}

VARIABLES
  latest,    \* the latest committed block
  pending,   \* the transactions of the proposal extending it
  recent     \* height -> hash, for the heights of Window(latest.height)

chainVars == <<latest, pending, recent>>

Init ==
  /\ latest = GenesisBlock
  /\ pending = 0
  /\ recent = [h \in {0} |-> Hash(GenesisBlock)]

AddTransaction ==
  /\ pending < MaxTxCount
  /\ pending' = pending + 1
  /\ UNCHANGED <<latest, recent>>

Commit ==
  LET new == [height |-> latest.height + 1, parentHash |-> Hash(latest),
              txCount |-> pending]
  IN
  /\ latest.height < MaxHeight
  /\ latest' = new
  /\ pending' = 0
  /\ recent' = [h \in Window(new.height) |->
                  IF h = new.height THEN Hash(new) ELSE recent[h]]

Next == AddTransaction \/ Commit

Spec == Init /\ [][Next]_chainVars

=============================================================================
