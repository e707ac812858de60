----------------------------- MODULE EvmBlockStore -----------------------------
(***************************************************************************)
(* The EVM block store (fvm/evm/handler/blockstore.go): three registers of *)
(* the EVM root account hold the latest block, the block proposal under    *)
(* construction and the list of recent block hashes.  An EVM transaction   *)
(* reads the proposal (BlockProposal, which builds a fresh one on the      *)
(* latest block when the register is empty) and writes it back with one    *)
(* more transaction (UpdateBlockProposal).  At the end of each Cadence     *)
(* block the heartbeat commits the proposal (CommitBlockProposal): it      *)
(* writes the latest block, pushes its hash on the hash list and resets    *)
(* the proposal, three writes each of which may fail.                      *)
(*                                                                         *)
(* Every call runs inside a Cadence transaction, and the FVM discards the  *)
(* register writes of a transaction that fails.  The commit is therefore   *)
(* modelled write by write, with the transaction's snapshot of the         *)
(* registers restored on a failure.  Encoding to bytes and decoding back   *)
(* is a round trip, so a register holds the decoded value; an empty        *)
(* register is NoValue.                                                    *)
(*                                                                         *)
(* types.BlockHashList is not under src/; its contract is taken as given:  *)
(* Push accepts only the height after the last one (or any height on an    *)
(* empty list) and drops the oldest hash beyond the capacity, and          *)
(* BlockHashByHeight returns the zero hash outside the kept heights.       *)
(***************************************************************************)
EXTENDS Naturals, Sequences

CONSTANTS BlockHashListCapacity, MaxHeight, MaxTxCount, ZeroHash, NoValue

ASSUME StoreConstantsAssumption ==
  /\ BlockHashListCapacity \in Nat \ {0}
  /\ MaxHeight \in Nat
  /\ MaxTxCount \in Nat
  /\ NoValue # ZeroHash

Genesis == INSTANCE EvmChain WITH latest <- NoValue, pending <- 0,
                                  recent <- NoValue

GenesisBlock == Genesis!GenesisBlock
Hash(b) == Genesis!Hash(b)

-----------------------------------------------------------------------------
(* types.BlockHashList: the last height and the kept hashes, oldest first. *)
EmptyHashList == [height |-> 0, hashes |-> <<>>]

HashListPushAccepts(l, height) ==
  l.hashes = <<>> \/ height = l.height + 1

HashListPush(l, height, hash) ==
  LET s == Append(l.hashes, hash) IN
  [height |-> height,
   hashes |-> IF Len(s) > BlockHashListCapacity THEN Tail(s) ELSE s]

BlockHashByHeight(l, height) ==
  IF l.hashes = <<>> \/ height > l.height
     \/ l.height - height >= Len(l.hashes)
    THEN ZeroHash
    ELSE l.hashes[Len(l.hashes) - (l.height - height)]

-----------------------------------------------------------------------------
VARIABLES
  latestBlockReg,   \* register BlockStoreLatestBlockKey
  proposalReg,      \* register BlockStoreLatestBlockProposalKey
  hashListReg,      \* register BlockStoreBlockHashesKey
  pc,               \* where the heartbeat's CommitBlockProposal is
  block,            \* the block the commit is writing
  snapshot,         \* the registers when the commit's transaction began
  pushRejected      \* BlockHashList.Push refused a non-sequential height

vars == <<latestBlockReg, proposalReg, hashListReg, pc, block, snapshot,
          pushRejected>>

registers == <<latestBlockReg, proposalReg, hashListReg>>

(* LatestBlock: genesis while the register is empty.                       *)
LatestBlockOf(reg) == IF reg = NoValue THEN GenesisBlock ELSE reg

(* Mutant: a fresh proposal skips a height.                             *)
BlockProposalOfSkipping(latestReg, propReg) ==
  IF propReg # NoValue THEN propReg
  ELSE [height |-> LatestBlockOf(latestReg).height + 2,
        parentHash |-> Hash(LatestBlockOf(latestReg)),
        txCount |-> 0]

(* BlockProposal: the stored proposal, or a fresh empty one on the latest  *)
(* block.                                                                  *)
BlockProposalOf(latestReg, propReg) ==
  IF propReg # NoValue THEN propReg
  ELSE [height |-> LatestBlockOf(latestReg).height + 1,
        parentHash |-> Hash(LatestBlockOf(latestReg)),
        txCount |-> 0]

(* getBlockHashList: a list holding the genesis hash while the register    *)
(* is empty.                                                               *)
BlockHashListOf(reg) ==
  IF reg = NoValue THEN HashListPush(EmptyHashList, 0, Hash(GenesisBlock))
  ELSE reg

(* BlockHash(height) on the given hash-list register.                      *)
BlockHashIn(reg, height) == BlockHashByHeight(BlockHashListOf(reg), height)

Init ==
  /\ latestBlockReg = NoValue
  /\ proposalReg = NoValue
  /\ hashListReg = NoValue
  /\ pc = "idle"
  /\ block = NoValue
  /\ snapshot = NoValue
  /\ pushRejected = FALSE

-----------------------------------------------------------------------------
(* An EVM transaction: BlockProposal, then UpdateBlockProposal with one    *)
(* more transaction.  A failure of either discards the transaction.        *)
AddTransaction ==
  LET bp == BlockProposalOf(latestBlockReg, proposalReg) IN
  /\ pc = "idle"
  /\ bp.txCount < MaxTxCount
  /\ proposalReg' = [bp EXCEPT !.txCount = bp.txCount + 1]
  /\ UNCHANGED <<latestBlockReg, hashListReg, pc, block, snapshot,
                 pushRejected>>

(* The heartbeat transaction reads the proposal and starts                 *)
(* CommitBlockProposal with it.                                            *)
BeginCommit ==
  LET bp == BlockProposalOf(latestBlockReg, proposalReg) IN
  /\ pc = "idle"
  /\ bp.height <= MaxHeight
  /\ block' = bp
  /\ snapshot' = registers
  /\ pc' = "setLatest"
  /\ UNCHANGED <<latestBlockReg, proposalReg, hashListReg, pushRejected>>

(* SetValue(BlockStoreLatestBlockKey, block).                              *)
CommitSetLatest ==
  /\ pc = "setLatest"
  /\ latestBlockReg' = block
  /\ pc' = "updateHashList"
  /\ UNCHANGED <<proposalReg, hashListReg, block, snapshot, pushRejected>>

(* updateBlockHashList(block.Height, hash): a refused push fails the       *)
(* transaction like any other error.                                       *)
CommitUpdateHashList ==
  LET l == BlockHashListOf(hashListReg) IN
  /\ pc = "updateHashList"
  /\ HashListPushAccepts(l, block.height)
  /\ hashListReg' = HashListPush(l, block.height, Hash(block))
  /\ pc' = "resetProposal"
  /\ UNCHANGED <<latestBlockReg, proposalReg, block, snapshot, pushRejected>>

(* Mutant: the commit never resets the proposal.                         *)
CommitResetProposalMissing ==
  /\ pc = "resetProposal"
  /\ pc' = "idle"
  /\ UNCHANGED <<latestBlockReg, proposalReg, hashListReg, block, snapshot,
                 pushRejected>>

(* ResetBlockProposal; the transaction then commits its writes.            *)
CommitResetProposal ==
  /\ pc = "resetProposal"
  /\ proposalReg' = NoValue
  /\ pc' = "idle"
  /\ UNCHANGED <<latestBlockReg, hashListReg, block, snapshot, pushRejected>>

(* A write, the hash or the push fails: the transaction's writes are       *)
(* discarded.                                                              *)
CommitFails ==
  /\ pc # "idle"
  /\ pushRejected' = (pushRejected \/
                      /\ pc = "updateHashList"
                      /\ ~HashListPushAccepts(BlockHashListOf(hashListReg),
                                              block.height))
  /\ latestBlockReg' = snapshot[1]
  /\ proposalReg' = snapshot[2]
  /\ hashListReg' = snapshot[3]
  /\ pc' = "idle"
  /\ UNCHANGED <<block, snapshot>>

Next ==
  \/ AddTransaction \/ BeginCommit \/ CommitSetLatest
  \/ CommitUpdateHashList \/ CommitResetProposal \/ CommitFails

Spec == Init /\ [][Next]_vars

-----------------------------------------------------------------------------
TypeOK ==
  /\ pc \in {"idle", "setLatest", "updateHashList", "resetProposal"}
  /\ proposalReg = NoValue \/ proposalReg.txCount \in 0 .. MaxTxCount
  /\ hashListReg = NoValue
       \/ /\ hashListReg.height \in 0 .. MaxHeight
          /\ Len(hashListReg.hashes) \in 1 .. BlockHashListCapacity
  /\ pushRejected \in BOOLEAN

(* The registers of the last committed transaction: a commit in progress   *)
(* is not visible until its transaction ends.                              *)
committed == IF pc = "idle" THEN registers ELSE snapshot

(***************************************************************************)
(* The store implements the abstract chain: between transactions the       *)
(* latest block, the proposal (stored or built fresh) and the answers of   *)
(* BlockHash for the kept heights behave as EvmChain says, so a commit     *)
(* turns exactly the proposal into the next block and a failure in the     *)
(* middle of CommitBlockProposal leaves no trace.                          *)
(***************************************************************************)
Chain == INSTANCE EvmChain WITH
  latest <- LatestBlockOf(committed[1]),
  pending <- BlockProposalOf(committed[1], committed[2]).txCount,
  recent <- [h \in Genesis!Window(LatestBlockOf(committed[1]).height) |->
               BlockHashIn(committed[3], h)]

ChainRefinement == Chain!Spec

(***************************************************************************)
(* The heartbeat's push on the hash list is never refused: the proposal    *)
(* CommitBlockProposal writes is always the block after the last hashed    *)
(* one.  A refusal would fail every later heartbeat, since the same        *)
(* proposal is read again.                                                 *)
(***************************************************************************)
HashListAcceptsCommit == ~pushRejected

=============================================================================
