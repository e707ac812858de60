-------------------------- MODULE EvmBlockStoreProofs --------------------------
(***************************************************************************)
(* Proofs about the EVM block store: the heartbeat's push on the hash list *)
(* is never refused, and the store implements the abstract chain EvmChain  *)
(* under the refinement mapping of EvmBlockStore (the registers of the     *)
(* last committed transaction).                                            *)
(*                                                                         *)
(* Both rest on one invariant of the committed registers: a stored         *)
(* proposal is the block after the latest one, and the hash list ends at   *)
(* the latest height and holds min(height + 1, capacity) hashes.  While    *)
(* CommitBlockProposal runs, the invariant holds of the transaction's      *)
(* snapshot, and the registers are the snapshot with the writes done so    *)
(* far.                                                                    *)
(***************************************************************************)
EXTENDS EvmBlockStore, SequenceTheorems, TLAPS

K == BlockHashListCapacity

(* An empty register is told apart from every block and every hash list,   *)
(* as a model value is.                                                    *)
NoValueIsNoRecord ==
  /\ \A h, p, t : NoValue # [height |-> h, parentHash |-> p, txCount |-> t]
  /\ \A h, s : NoValue # [height |-> h, hashes |-> s]

BlockRec(h, p, t) == [height |-> h, parentHash |-> p, txCount |-> t]

(* The number of hashes a list ending at height H holds.                   *)
Kept(H) == IF H + 1 < K THEN H + 1 ELSE K

ListRec(H, s) == [height |-> H, hashes |-> s]

-----------------------------------------------------------------------------
(* A height the list keeps answers with its hash, counted from the end.    *)
LEMMA LookupKept ==
  ASSUME NEW H \in Nat, NEW s, Len(s) \in Nat, NEW h \in 0 .. H,
         H - h < Len(s)
  PROVE  BlockHashByHeight(ListRec(H, s), h) = s[Len(s) - (H - h)]
<1>1. s # <<>>
  <2>1. Len(<<>>) = 0
    OBVIOUS
  <2>2. QED
    BY <2>1
<1>2. ListRec(H, s).hashes = s /\ ListRec(H, s).height = H
  BY DEF ListRec
<1>3. ~(h > H) /\ ~(H - h >= Len(s))
  OBVIOUS
<1>4. QED
  BY <1>1, <1>2, <1>3, Zenon DEF BlockHashByHeight

(* The same, on a list that ends one height later.                         *)
LEMMA LookupKeptNext ==
  ASSUME NEW H \in Nat, NEW s, Len(s) \in Nat, NEW h \in 0 .. H + 1,
         H + 1 - h < Len(s)
  PROVE  BlockHashByHeight(ListRec(H + 1, s), h) = s[Len(s) - (H + 1 - h)]
<1>1. s # <<>>
  <2>1. Len(<<>>) = 0
    OBVIOUS
  <2>2. QED
    BY <2>1
<1>2. ListRec(H + 1, s).hashes = s /\ ListRec(H + 1, s).height = H + 1
  BY DEF ListRec
<1>3. ~(h > H + 1) /\ ~(H + 1 - h >= Len(s))
  OBVIOUS
<1>4. QED
  BY <1>1, <1>2, <1>3 DEF BlockHashByHeight

(* Pushing the next height's hash: the new height answers with the new     *)
(* hash, every other height of the new window as the old list did.         *)
LEMMA PushLookup ==
  ASSUME NEW H \in Nat, NEW S, NEW s \in Seq(S), Len(s) = Kept(H),
         NEW x, NEW h \in Genesis!Window(H + 1)
  PROVE  /\ BlockHashByHeight(HashListPush(ListRec(H, s), H + 1, x), h) =
              IF h = H + 1 THEN x ELSE BlockHashByHeight(ListRec(H, s), h)
         /\ h # H + 1 => h \in Genesis!Window(H)
<1> USE StoreConstantsAssumption DEF K
<1>1. /\ Append(s, x) \in Seq(S \cup {x})
      /\ Len(Append(s, x)) = Len(s) + 1
      /\ \A i \in 1 .. Len(s) : Append(s, x)[i] = s[i]
      /\ Append(s, x)[Len(s) + 1] = x
  BY AppendProperties, SeqMonotonic
<1>2. h \in 0 .. H + 1 /\ h + K > H + 1
  BY DEF Genesis!Window
<1>3. CASE Len(s) + 1 > K
  <2> DEFINE t == Tail(Append(s, x))
  <2>1. Len(s) = K
    BY <1>3 DEF Kept
  <2>2. /\ Len(t) = K
        /\ \A i \in 1 .. K : t[i] = Append(s, x)[i + 1]
    BY <1>1, <2>1, HeadTailProperties
  <2>3. HashListPush(ListRec(H, s), H + 1, x) = ListRec(H + 1, t)
    <3>1. Len(Append(s, x)) > BlockHashListCapacity
      BY <1>1, <1>3
    <3>2. QED
      BY <3>1, Zenon DEF HashListPush, ListRec, t
  <2>4. t # <<>> /\ s # <<>>
    BY <2>1, <2>2, EmptySeq
  <2>5. BlockHashByHeight(ListRec(H + 1, t), H + 1) = x
    <3>1. BlockHashByHeight(ListRec(H + 1, t), H + 1) =
            t[Len(t) - (H + 1 - (H + 1))]
      <4>1. /\ H \in Nat /\ H + 1 \in 0 .. H + 1
            /\ Len(t) \in Nat /\ H + 1 - (H + 1) < Len(t)
        BY <2>2
      <4>2. QED
        BY <4>1, LookupKeptNext, Zenon
    <3>2. t[Len(t) - (H + 1 - (H + 1))] = t[K]
      <4>1. Len(t) - (H + 1 - (H + 1)) = K
        BY <2>2
      <4>2. QED
        BY <4>1, Zenon
    <3>3. t[K] = Append(s, x)[K + 1]
      BY <2>2, StoreConstantsAssumption
    <3>4. QED
      BY <1>1, <2>1, <3>1, <3>2, <3>3
  <2>6. ASSUME h # H + 1
        PROVE  /\ BlockHashByHeight(ListRec(H + 1, t), h) =
                    BlockHashByHeight(ListRec(H, s), h)
               /\ h \in Genesis!Window(H)
    <3>1. h \in 0 .. H /\ H + 1 - h < K
      BY <1>2, <2>6
    <3>2. t[K - (H + 1 - h)] = s[K - (H - h)]
      BY <1>1, <2>1, <2>2, <3>1
    <3>3. BlockHashByHeight(ListRec(H + 1, t), h) = t[Len(t) - (H + 1 - h)]
      <4>1. /\ H \in Nat /\ h \in 0 .. H + 1
            /\ Len(t) \in Nat /\ H + 1 - h < Len(t)
        BY <2>2, <3>1
      <4>2. QED
        BY <4>1, LookupKeptNext, Zenon
    <3>4. BlockHashByHeight(ListRec(H, s), h) = s[Len(s) - (H - h)]
      <4>1. /\ H \in Nat /\ h \in 0 .. H
            /\ Len(s) \in Nat /\ H - h < Len(s)
        BY <2>1, <3>1
      <4>2. QED
        BY <4>1, LookupKept, Zenon
    <3>5. QED
      BY <2>1, <2>2, <3>1, <3>2, <3>3, <3>4 DEF Genesis!Window
  <2>7. QED
    BY <2>3, <2>5, <2>6
<1>4. CASE Len(s) + 1 <= K
  <2> DEFINE t == Append(s, x)
  <2>1. Len(s) = H + 1
    BY <1>4 DEF Kept
  <2>2. HashListPush(ListRec(H, s), H + 1, x) = ListRec(H + 1, t)
    <3>1. ~(Len(Append(s, x)) > BlockHashListCapacity)
      BY <1>1, <1>4
    <3>2. QED
      BY <3>1, Zenon DEF HashListPush, ListRec, t
  <2>3. t # <<>> /\ s # <<>>
    BY <1>1, <2>1, EmptySeq
  <2>4. BlockHashByHeight(ListRec(H + 1, t), H + 1) = x
    <3>1. BlockHashByHeight(ListRec(H + 1, t), H + 1) =
            t[Len(t) - (H + 1 - (H + 1))]
      <4>1. /\ H \in Nat /\ H + 1 \in 0 .. H + 1
            /\ Len(t) \in Nat /\ H + 1 - (H + 1) < Len(t)
        BY <1>1, <2>1
      <4>2. QED
        BY <4>1, LookupKeptNext, Zenon
    <3>2. QED
      BY <1>1, <2>1, <3>1
  <2>5. ASSUME h # H + 1
        PROVE  /\ BlockHashByHeight(ListRec(H + 1, t), h) =
                    BlockHashByHeight(ListRec(H, s), h)
               /\ h \in Genesis!Window(H)
    <3>1. h \in 0 .. H /\ H + 1 - h < K
      BY <1>2, <2>5
    <3>2. t[H + 2 - (H + 1 - h)] = s[H + 1 - (H - h)]
      BY <1>1, <2>1, <3>1
    <3>3. BlockHashByHeight(ListRec(H + 1, t), h) = t[Len(t) - (H + 1 - h)]
      <4>1. /\ H \in Nat /\ h \in 0 .. H + 1
            /\ Len(t) \in Nat /\ H + 1 - h < Len(t)
        BY <1>1, <2>1, <3>1
      <4>2. QED
        BY <4>1, LookupKeptNext, Zenon
    <3>4. BlockHashByHeight(ListRec(H, s), h) = s[Len(s) - (H - h)]
      <4>1. /\ H \in Nat /\ h \in 0 .. H
            /\ Len(s) \in Nat /\ H - h < Len(s)
        BY <2>1, <3>1
      <4>2. QED
        BY <4>1, LookupKept, Zenon
    <3>5. QED
      BY <1>1, <2>1, <3>1, <3>2, <3>3, <3>4 DEF Genesis!Window
  <2>6. QED
    BY <2>2, <2>4, <2>5
<1>5. QED
  BY <1>3, <1>4
-----------------------------------------------------------------------------
(* The shape of the three registers of a committed transaction.            *)
LatestOK(lat) ==
  \/ lat = NoValue
  \/ /\ lat = BlockRec(lat.height, lat.parentHash, lat.txCount)
     /\ lat.height \in Nat

ProposalOK(lat, pr) ==
  \/ pr = NoValue
  \/ /\ pr = BlockRec(LatestBlockOf(lat).height + 1, Hash(LatestBlockOf(lat)),
                      pr.txCount)
     /\ pr.txCount \in 0 .. MaxTxCount

ListOK(lat, hl) ==
  LET L == BlockHashListOf(hl) IN
  /\ hl = NoValue \/ hl = ListRec(hl.height, hl.hashes)
  /\ L.height = LatestBlockOf(lat).height
  /\ \E S : L.hashes \in Seq(S)
  /\ Len(L.hashes) = Kept(L.height)

RegsOK(r) == LatestOK(r[1]) /\ ProposalOK(r[1], r[2]) /\ ListOK(r[1], r[3])

(* A commit in progress: the block is the snapshot's proposal, and the     *)
(* registers are the snapshot with the writes of the steps done so far.    *)
CommitOK ==
  /\ snapshot = <<snapshot[1], snapshot[2], snapshot[3]>>
  /\ block = BlockProposalOf(snapshot[1], snapshot[2])
  /\ block.height <= MaxHeight
  /\ proposalReg = snapshot[2]
  /\ pc = "setLatest" =>
       latestBlockReg = snapshot[1] /\ hashListReg = snapshot[3]
  /\ pc = "updateHashList" =>
       latestBlockReg = block /\ hashListReg = snapshot[3]
  /\ pc = "resetProposal" =>
       /\ latestBlockReg = block
       /\ hashListReg = HashListPush(BlockHashListOf(snapshot[3]),
                                     block.height, Hash(block))

IInv ==
  /\ pc \in {"idle", "setLatest", "updateHashList", "resetProposal"}
  /\ pushRejected = FALSE
  /\ RegsOK(committed)
  /\ pc # "idle" => CommitOK

-----------------------------------------------------------------------------
(* The latest block is a block record with a natural height.               *)
LEMMA LatestShape ==
  ASSUME NEW lat, LatestOK(lat)
  PROVE  LET B == LatestBlockOf(lat) IN
         B = BlockRec(B.height, B.parentHash, B.txCount) /\ B.height \in Nat
BY DEF LatestOK, LatestBlockOf, GenesisBlock, Genesis!GenesisBlock, BlockRec

(* The proposal, stored or fresh, is the block after the latest one.       *)
LEMMA ProposalShape ==
  ASSUME NEW lat, NEW pr, LatestOK(lat), ProposalOK(lat, pr)
  PROVE  LET B == LatestBlockOf(lat)
             P == BlockProposalOf(lat, pr)
         IN  /\ P = BlockRec(B.height + 1, Hash(B), P.txCount)
             /\ P.txCount \in 0 .. MaxTxCount
             /\ B.height \in Nat
<1>1. LatestBlockOf(lat).height \in Nat
  BY LatestShape
<1>2. QED
  BY <1>1, StoreConstantsAssumption DEF ProposalOK, BlockProposalOf, BlockRec

(* A push of the next height keeps min(height + 1, capacity) hashes.       *)
LEMMA PushKeeps ==
  ASSUME NEW H \in Nat, NEW S, NEW s \in Seq(S), Len(s) = Kept(H), NEW x
  PROVE  LET L2 == HashListPush(ListRec(H, s), H + 1, x) IN
         /\ L2 = ListRec(H + 1, L2.hashes)
         /\ L2.hashes \in Seq(S \cup {x})
         /\ Len(L2.hashes) = Kept(H + 1)
<1> USE StoreConstantsAssumption DEF K
<1>1. /\ Append(s, x) \in Seq(S \cup {x})
      /\ Len(Append(s, x)) = Len(s) + 1
  BY AppendProperties, SeqMonotonic
<1>2. CASE Len(s) + 1 > K
  <2>1. /\ Tail(Append(s, x)) \in Seq(S \cup {x})
        /\ Len(Tail(Append(s, x))) = Len(s)
    <3>1. Append(s, x) # <<>>
      BY <1>1, EmptySeq
    <3>2. QED
      BY <1>1, <3>1, HeadTailProperties
  <2>2. HashListPush(ListRec(H, s), H + 1, x) =
          ListRec(H + 1, Tail(Append(s, x)))
    BY <1>1, <1>2, Zenon DEF HashListPush, ListRec
  <2>3. Len(s) = K /\ Kept(H + 1) = K
    BY <1>2 DEF Kept
  <2>4. HashListPush(ListRec(H, s), H + 1, x).hashes = Tail(Append(s, x))
    BY <2>2 DEF ListRec
  <2>5. QED
    BY <2>1, <2>2, <2>3, <2>4
<1>3. CASE Len(s) + 1 <= K
  <2>1. HashListPush(ListRec(H, s), H + 1, x) = ListRec(H + 1, Append(s, x))
    <3>1. ~(Len(Append(s, x)) > BlockHashListCapacity)
      BY <1>1, <1>3
    <3>2. QED
      BY <3>1, Zenon DEF HashListPush, ListRec
  <2>2. Len(Append(s, x)) = Kept(H + 1)
    BY <1>1, <1>3 DEF Kept
  <2>3. HashListPush(ListRec(H, s), H + 1, x).hashes = Append(s, x)
    BY <2>1 DEF ListRec
  <2>4. QED
    BY <1>1, <2>1, <2>2, <2>3
<1>4. QED
  BY <1>2, <1>3

(* The list a hash-list register holds ends at the latest height.          *)
LEMMA ListShape ==
  ASSUME NEW lat, NEW hl, LatestOK(lat), ListOK(lat, hl)
  PROVE  LET L == BlockHashListOf(hl) IN
         /\ L = ListRec(L.height, L.hashes)
         /\ L.height = LatestBlockOf(lat).height
         /\ L.height \in Nat
         /\ \E S : L.hashes \in Seq(S)
         /\ Len(L.hashes) = Kept(L.height)
<1>1. LatestBlockOf(lat).height \in Nat
  BY LatestShape
<1>2. BlockHashListOf(hl) = ListRec(BlockHashListOf(hl).height,
                                    BlockHashListOf(hl).hashes)
  BY DEF ListOK, BlockHashListOf, HashListPush, EmptyHashList, ListRec
<1>3. QED
  BY <1>1, <1>2 DEF ListOK

LEMMA InitIInv == Init => IInv
<1> SUFFICES ASSUME Init PROVE IInv
  OBVIOUS
<1>1. BlockHashListOf(NoValue) = ListRec(0, <<Hash(GenesisBlock)>>)
  BY StoreConstantsAssumption
     DEF BlockHashListOf, HashListPush, EmptyHashList, ListRec
<1>2. LatestBlockOf(NoValue).height = 0
  BY DEF LatestBlockOf, GenesisBlock, Genesis!GenesisBlock
<1>3. ListOK(NoValue, NoValue)
  <2>1. <<Hash(GenesisBlock)>> \in Seq({Hash(GenesisBlock)})
    OBVIOUS
  <2>2. Len(<<Hash(GenesisBlock)>>) = Kept(0)
    BY StoreConstantsAssumption DEF Kept, K
  <2>3. \E S : BlockHashListOf(NoValue).hashes \in Seq(S)
    <3>1. BlockHashListOf(NoValue).hashes \in Seq({Hash(GenesisBlock)})
      BY <1>1, <2>1 DEF ListRec
    <3>2. WITNESS {Hash(GenesisBlock)}
    <3>3. QED
      BY <3>1
  <2>4. QED
    BY <1>1, <1>2, <2>2, <2>3 DEF ListOK, ListRec
<1>4. committed = <<NoValue, NoValue, NoValue>>
  BY DEF Init, committed, registers
<1>5. QED
  BY <1>3, <1>4 DEF Init, IInv, RegsOK, LatestOK, ProposalOK

-----------------------------------------------------------------------------
(* An EVM transaction stores the proposal with one more transaction.       *)
LEMMA AddTransactionIInv ==
  ASSUME NoValueIsNoRecord, IInv, AddTransaction
  PROVE  IInv'
<1> DEFINE B == LatestBlockOf(latestBlockReg)
           bp == BlockProposalOf(latestBlockReg, proposalReg)
<1>1. committed = registers /\ committed' = registers'
  BY DEF AddTransaction, committed
<1>2. /\ LatestOK(latestBlockReg)
      /\ ProposalOK(latestBlockReg, proposalReg)
      /\ ListOK(latestBlockReg, hashListReg)
  BY <1>1 DEF IInv, RegsOK, registers
<1>3. /\ bp = BlockRec(B.height + 1, Hash(B), bp.txCount)
      /\ bp.txCount \in 0 .. MaxTxCount
  BY <1>2, ProposalShape
<1>4. proposalReg' = BlockRec(B.height + 1, Hash(B), bp.txCount + 1)
  BY <1>3 DEF AddTransaction, BlockRec
<1>5. /\ LatestBlockOf(latestBlockReg)' = B
      /\ Hash(LatestBlockOf(latestBlockReg))' = Hash(B)
  BY DEF AddTransaction, LatestBlockOf, Hash, Genesis!Hash
<1>6. ProposalOK(latestBlockReg, proposalReg)'
  <2>1. proposalReg' = BlockRec(B.height + 1, Hash(B), proposalReg'.txCount)
    BY <1>4 DEF BlockRec
  <2>2. proposalReg'.txCount \in 0 .. MaxTxCount
    <3>1. proposalReg'.txCount = bp.txCount + 1
      BY <1>4 DEF BlockRec
    <3>2. bp.txCount \in Nat /\ bp.txCount < MaxTxCount
      BY <1>3 DEF AddTransaction
    <3>3. QED
      BY <3>1, <3>2, StoreConstantsAssumption
  <2>3. QED
    BY <1>5, <2>1, <2>2 DEF ProposalOK
<1>7. QED
  BY <1>1, <1>2, <1>6 DEF AddTransaction, IInv, RegsOK, registers

(* The heartbeat's transaction takes its snapshot of the registers.        *)
LEMMA BeginCommitIInv ==
  ASSUME IInv, BeginCommit
  PROVE  IInv'
<1>1. committed = registers /\ committed' = registers
  BY DEF BeginCommit, committed
<1>2. CommitOK'
  BY DEF BeginCommit, CommitOK, registers
<1>3. QED
  BY <1>1, <1>2 DEF BeginCommit, IInv

LEMMA CommitSetLatestIInv ==
  ASSUME IInv, CommitSetLatest
  PROVE  IInv'
<1>1. committed' = committed
  BY DEF CommitSetLatest, committed, IInv
<1>2. CommitOK'
  BY DEF CommitSetLatest, CommitOK, IInv
<1>3. QED
  BY <1>1, <1>2 DEF CommitSetLatest, IInv

LEMMA CommitUpdateHashListIInv ==
  ASSUME IInv, CommitUpdateHashList
  PROVE  IInv'
<1>1. committed' = committed
  BY DEF CommitUpdateHashList, committed, IInv
<1>2. CommitOK'
  BY DEF CommitUpdateHashList, CommitOK, IInv
<1>3. QED
  BY <1>1, <1>2 DEF CommitUpdateHashList, IInv

(* The facts about a commit in progress that its last write and a failure *)
(* use: the block is the one after the snapshot's latest block, and the    *)
(* snapshot's hash list ends at the snapshot's latest height.              *)
LEMMA CommitFacts ==
  ASSUME IInv, pc # "idle"
  PROVE  LET B == LatestBlockOf(snapshot[1])
             L == BlockHashListOf(snapshot[3])
         IN  /\ CommitOK
             /\ RegsOK(snapshot)
             /\ block = BlockRec(B.height + 1, Hash(B), block.txCount)
             /\ block.txCount \in 0 .. MaxTxCount
             /\ B.height \in Nat
             /\ L = ListRec(B.height, L.hashes)
             /\ \E S : L.hashes \in Seq(S)
             /\ Len(L.hashes) = Kept(B.height)
<1>1. CommitOK /\ RegsOK(snapshot)
  BY DEF IInv, committed
<1>2. LatestOK(snapshot[1]) /\ ProposalOK(snapshot[1], snapshot[2])
      /\ ListOK(snapshot[1], snapshot[3])
  BY <1>1 DEF RegsOK
<1>3. block = BlockProposalOf(snapshot[1], snapshot[2])
  BY <1>1 DEF CommitOK
<1>4. QED
  BY <1>1, <1>2, <1>3, ProposalShape, ListShape

(* The hash list the commit pushes ends at the block's height and keeps    *)
(* min(height + 1, capacity) hashes.                                       *)
LEMMA CommitPush ==
  ASSUME IInv, pc # "idle"
  PROVE  LET B == LatestBlockOf(snapshot[1])
             L == BlockHashListOf(snapshot[3])
             P == HashListPush(L, block.height, Hash(block))
         IN  /\ P = ListRec(B.height + 1, P.hashes)
             /\ \E S2 : P.hashes \in Seq(S2)
             /\ Len(P.hashes) = Kept(B.height + 1)
<1> DEFINE B == LatestBlockOf(snapshot[1])
           L == BlockHashListOf(snapshot[3])
           P == HashListPush(L, block.height, Hash(block))
<1>1. /\ block = BlockRec(B.height + 1, Hash(B), block.txCount)
      /\ B.height \in Nat
      /\ L = ListRec(B.height, L.hashes)
      /\ \E S : L.hashes \in Seq(S)
      /\ Len(L.hashes) = Kept(B.height)
  BY CommitFacts
<1>2. PICK S : L.hashes \in Seq(S)
  BY <1>1
<1>3. P = HashListPush(ListRec(B.height, L.hashes), B.height + 1, Hash(block))
  BY <1>1 DEF BlockRec
<1>4. /\ P = ListRec(B.height + 1, P.hashes)
      /\ P.hashes \in Seq(S \cup {Hash(block)})
      /\ Len(P.hashes) = Kept(B.height + 1)
  <2>1. PICK H \in Nat : H = B.height
    BY <1>1
  <2>2. PICK s \in Seq(S) : s = L.hashes /\ Len(s) = Kept(H)
    BY <1>1, <1>2, <2>1
  <2>3. PICK x : x = Hash(block)
    OBVIOUS
  <2>4. /\ HashListPush(ListRec(H, s), H + 1, x) =
             ListRec(H + 1, HashListPush(ListRec(H, s), H + 1, x).hashes)
        /\ HashListPush(ListRec(H, s), H + 1, x).hashes \in Seq(S \cup {x})
        /\ Len(HashListPush(ListRec(H, s), H + 1, x).hashes) = Kept(H + 1)
    <3>1. \A HH \in Nat, ss \in Seq(S) : \A xx :
            Len(ss) = Kept(HH) =>
              /\ HashListPush(ListRec(HH, ss), HH + 1, xx) =
                   ListRec(HH + 1, HashListPush(ListRec(HH, ss), HH + 1, xx).hashes)
              /\ HashListPush(ListRec(HH, ss), HH + 1, xx).hashes \in Seq(S \cup {xx})
              /\ Len(HashListPush(ListRec(HH, ss), HH + 1, xx).hashes) = Kept(HH + 1)
      BY PushKeeps
    <3>2. QED
      BY <2>2, <3>1
  <2>5. QED
    BY <1>3, <2>1, <2>2, <2>3, <2>4
<1>5. \E S2 : P.hashes \in Seq(S2)
  <2>1. WITNESS S \cup {Hash(block)}
  <2>2. QED
    BY <1>4
<1>6. QED
  BY <1>4, <1>5

(* The commit's transaction ends: its writes become the committed ones.    *)
LEMMA CommitResetProposalIInv ==
  ASSUME NoValueIsNoRecord, IInv, CommitResetProposal
  PROVE  IInv'
<1> DEFINE B == LatestBlockOf(snapshot[1])
           L == BlockHashListOf(snapshot[3])
           P == HashListPush(L, block.height, Hash(block))
<1>1. /\ CommitOK
      /\ block = BlockRec(B.height + 1, Hash(B), block.txCount)
      /\ B.height \in Nat
  BY CommitFacts DEF CommitResetProposal
<1>4. /\ P = ListRec(B.height + 1, P.hashes)
      /\ \E S2 : P.hashes \in Seq(S2)
      /\ Len(P.hashes) = Kept(B.height + 1)
  BY CommitPush DEF CommitResetProposal
<1>5. committed' = <<block, NoValue, P>>
  BY <1>1 DEF CommitResetProposal, CommitOK, committed, registers
<1>6. block # NoValue /\ P # NoValue
  BY <1>1, <1>4 DEF NoValueIsNoRecord, BlockRec, ListRec
<1>7. LatestBlockOf(block) = block /\ BlockHashListOf(P) = P
  BY <1>6 DEF LatestBlockOf, BlockHashListOf
<1>8. LatestOK(block)
  BY <1>1 DEF LatestOK, BlockRec
<1>9. ListOK(block, P)
  <2>2. P.height = B.height + 1 /\ block.height = B.height + 1
    BY <1>1, <1>4 DEF BlockRec, ListRec
  <2>3. QED
    BY <1>4, <1>7, <2>2 DEF ListOK
<1>10. RegsOK(<<block, NoValue, P>>)
  BY <1>8, <1>9 DEF RegsOK, ProposalOK
<1>11. QED
  BY <1>5, <1>10 DEF CommitResetProposal, IInv

(* A failed commit restores the snapshot, and the push it may have tried   *)
(* was acceptable.                                                         *)
LEMMA CommitFailsIInv ==
  ASSUME IInv, CommitFails
  PROVE  IInv'
<1> DEFINE B == LatestBlockOf(snapshot[1])
           L == BlockHashListOf(snapshot[3])
<1>1. /\ CommitOK
      /\ RegsOK(snapshot)
      /\ block = BlockRec(B.height + 1, Hash(B), block.txCount)
      /\ L = ListRec(B.height, L.hashes)
  BY CommitFacts DEF CommitFails
<1>2. pc = "updateHashList" =>
        HashListPushAccepts(BlockHashListOf(hashListReg), block.height)
  <2>1. block.height = L.height + 1
    BY <1>1 DEF BlockRec, ListRec
  <2>2. QED
    BY <1>1, <2>1 DEF CommitOK, HashListPushAccepts
<1>3. pushRejected' = FALSE
  BY <1>2 DEF CommitFails, IInv
<1>4. committed' = snapshot
  BY <1>1 DEF CommitFails, CommitOK, committed, registers
<1>5. QED
  BY <1>1, <1>3, <1>4 DEF CommitFails, IInv

LEMMA NextIInv ==
  ASSUME NoValueIsNoRecord
  PROVE  IInv /\ [Next]_vars => IInv'
<1> SUFFICES ASSUME IInv, [Next]_vars PROVE IInv'
  OBVIOUS
<1>1. CASE AddTransaction
  BY <1>1, AddTransactionIInv
<1>2. CASE BeginCommit
  BY <1>2, BeginCommitIInv
<1>3. CASE CommitSetLatest
  BY <1>3, CommitSetLatestIInv
<1>4. CASE CommitUpdateHashList
  BY <1>4, CommitUpdateHashListIInv
<1>5. CASE CommitResetProposal
  BY <1>5, CommitResetProposalIInv
<1>6. CASE CommitFails
  BY <1>6, CommitFailsIInv
<1>7. CASE UNCHANGED vars
  BY <1>7 DEF vars, IInv, committed, registers, CommitOK
<1>8. QED
  BY <1>1, <1>2, <1>3, <1>4, <1>5, <1>6, <1>7 DEF Next

(***************************************************************************)
(* For every capacity and bound, the heartbeat's push of the committed     *)
(* block's hash on the hash list (updateBlockHashList in                   *)
(* CommitBlockProposal) is never refused (HashListAcceptsCommit): the      *)
(* proposal CommitBlockProposal writes is always at the height after the   *)
(* last hashed one, however EVM transactions and failed commits            *)
(* interleave.                                                             *)
(***************************************************************************)
THEOREM HashListNeverRejects ==
  ASSUME NoValueIsNoRecord
  PROVE  Spec => []HashListAcceptsCommit
<1>1. Init => IInv
  BY InitIInv
<1>2. IInv /\ [Next]_vars => IInv'
  BY NextIInv
<1>3. IInv => HashListAcceptsCommit
  BY DEF IInv, HashListAcceptsCommit
<1>4. QED
  BY <1>1, <1>2, <1>3, PTL DEF Spec

-----------------------------------------------------------------------------
(* The latest committed block is never above the bound on heights: only   *)
(* the commit's last step changes it, to a block BeginCommit admitted.     *)
HeightBound == LatestBlockOf(committed[1]).height <= MaxHeight

(* A hash list keeps at least one and at most capacity hashes.             *)
LEMMA KeptRange ==
  ASSUME NEW H \in Nat
  PROVE  Kept(H) \in 1 .. K
BY StoreConstantsAssumption DEF Kept, K

LEMMA InitBound == Init => HeightBound
BY StoreConstantsAssumption
   DEF Init, HeightBound, committed, registers, LatestBlockOf, GenesisBlock,
       Genesis!GenesisBlock

LEMMA NextBound ==
  ASSUME NoValueIsNoRecord
  PROVE  IInv /\ HeightBound /\ [Next]_vars => HeightBound'
<1> SUFFICES ASSUME IInv, HeightBound, [Next]_vars PROVE HeightBound'
  OBVIOUS
<1>1. CASE AddTransaction
  BY <1>1 DEF AddTransaction, HeightBound, committed, registers
<1>2. CASE BeginCommit
  BY <1>2 DEF BeginCommit, HeightBound, committed, registers
<1>3. CASE CommitSetLatest
  BY <1>3 DEF CommitSetLatest, HeightBound, committed
<1>4. CASE CommitUpdateHashList
  BY <1>4 DEF CommitUpdateHashList, HeightBound, committed
<1>5. CASE CommitResetProposal
  <2>1. /\ CommitOK
        /\ block = BlockRec(LatestBlockOf(snapshot[1]).height + 1,
                            Hash(LatestBlockOf(snapshot[1])), block.txCount)
    BY <1>5, CommitFacts DEF CommitResetProposal
  <2>2. committed'[1] = block
    BY <1>5, <2>1 DEF CommitResetProposal, CommitOK, committed, registers
  <2>3. LatestBlockOf(block) = block
    BY <2>1 DEF NoValueIsNoRecord, BlockRec, LatestBlockOf
  <2>4. QED
    BY <2>1, <2>2, <2>3 DEF CommitOK, HeightBound
<1>6. CASE CommitFails
  <2>1. CommitOK
    BY <1>6, CommitFacts DEF CommitFails
  <2>2. committed' = committed
    BY <1>6, <2>1 DEF CommitFails, CommitOK, committed, registers
  <2>3. QED
    BY <2>2 DEF HeightBound
<1>7. CASE UNCHANGED vars
  BY <1>7 DEF vars, HeightBound, committed, registers
<1>8. QED
  BY <1>1, <1>2, <1>3, <1>4, <1>5, <1>6, <1>7 DEF Next

(* The proposal register is the committed proposal in every phase.         *)
LEMMA ProposalTyped ==
  ASSUME IInv
  PROVE  proposalReg = NoValue \/ proposalReg.txCount \in 0 .. MaxTxCount
<1>1. proposalReg = committed[2] /\ ProposalOK(committed[1], committed[2])
  BY DEF IInv, CommitOK, committed, registers, RegsOK
<1>2. QED
  BY <1>1 DEF ProposalOK

(* Outside the commit's last step the hash-list register is the committed  *)
(* list; at that step it is the pushed one, which ends at the block.       *)
LEMMA ListTyped ==
  ASSUME IInv, HeightBound
  PROVE  hashListReg = NoValue
           \/ /\ hashListReg.height \in 0 .. MaxHeight
              /\ Len(hashListReg.hashes) \in 1 .. BlockHashListCapacity
<1> SUFFICES ASSUME hashListReg # NoValue
             PROVE  /\ hashListReg.height \in 0 .. MaxHeight
                    /\ Len(hashListReg.hashes) \in 1 .. K
  BY DEF K
<1>1. CASE pc # "resetProposal"
  <2>1. hashListReg = committed[3]
        /\ LatestOK(committed[1]) /\ ListOK(committed[1], committed[3])
    BY <1>1 DEF IInv, CommitOK, committed, registers, RegsOK
  <2>2. BlockHashListOf(hashListReg) = hashListReg
    BY DEF BlockHashListOf
  <2>3. /\ hashListReg.height = LatestBlockOf(committed[1]).height
        /\ hashListReg.height \in Nat
        /\ Len(hashListReg.hashes) = Kept(hashListReg.height)
    BY <2>1, <2>2, ListShape
  <2>4. QED
    BY <2>3, KeptRange DEF HeightBound
<1>2. CASE pc = "resetProposal"
  <2> DEFINE B == LatestBlockOf(snapshot[1])
             P == HashListPush(BlockHashListOf(snapshot[3]), block.height,
                               Hash(block))
  <2>1. /\ CommitOK
        /\ block = BlockRec(B.height + 1, Hash(B), block.txCount)
        /\ B.height \in Nat
    BY <1>2, CommitFacts
  <2>2. /\ P = ListRec(B.height + 1, P.hashes)
        /\ Len(P.hashes) = Kept(B.height + 1)
    BY <1>2, CommitPush
  <2>3. hashListReg = P /\ block.height <= MaxHeight
    BY <1>2, <2>1 DEF CommitOK
  <2>4. QED
    BY <2>1, <2>2, <2>3, KeptRange DEF BlockRec, ListRec
<1>3. QED
  BY <1>1, <1>2

(***************************************************************************)
(* For every capacity and bound, the registers of the block store keep     *)
(* their shape (TypeOK) through EVM transactions, heartbeats and failed    *)
(* commits: the proposal's transaction count stays within MaxTxCount, and  *)
(* the stored hash list ends at a height within MaxHeight and holds        *)
(* between one and BlockHashListCapacity hashes.                           *)
(***************************************************************************)
THEOREM StoreTypeCorrect ==
  ASSUME NoValueIsNoRecord
  PROVE  Spec => []TypeOK
<1>1. Init => IInv /\ HeightBound
  BY InitIInv, InitBound
<1>2. IInv /\ HeightBound /\ [Next]_vars => IInv' /\ HeightBound'
  BY NextIInv, NextBound
<1>3. IInv /\ HeightBound => TypeOK
  <2> SUFFICES ASSUME IInv, HeightBound PROVE TypeOK
    OBVIOUS
  <2>1. proposalReg = NoValue \/ proposalReg.txCount \in 0 .. MaxTxCount
    BY ProposalTyped
  <2>2. hashListReg = NoValue
          \/ /\ hashListReg.height \in 0 .. MaxHeight
             /\ Len(hashListReg.hashes) \in 1 .. BlockHashListCapacity
    BY ListTyped
  <2>3. QED
    BY <2>1, <2>2 DEF IInv, TypeOK
<1>4. QED
  BY <1>1, <1>2, <1>3, PTL DEF Spec

-----------------------------------------------------------------------------
(* The refinement mapping of EvmBlockStore's Chain instance.               *)
absLatest == LatestBlockOf(committed[1])
absPending == BlockProposalOf(committed[1], committed[2]).txCount
absRecent == [h \in Genesis!Window(absLatest.height) |->
                BlockHashIn(committed[3], h)]

(* The empty registers map to the genesis state of the chain.              *)
LEMMA InitRefines == Init => Chain!Init
<1> SUFFICES ASSUME Init PROVE Chain!Init
  OBVIOUS
<1>1. committed = <<NoValue, NoValue, NoValue>>
  BY DEF Init, committed, registers
<1>2. absLatest = Chain!GenesisBlock /\ absPending = 0
  BY <1>1 DEF absLatest, absPending, LatestBlockOf, BlockProposalOf,
     GenesisBlock, Genesis!GenesisBlock, Chain!GenesisBlock
<1>3. Genesis!Window(0) = {0}
  BY StoreConstantsAssumption DEF Genesis!Window
<1>4. BlockHashIn(NoValue, 0) = Chain!Hash(Chain!GenesisBlock)
  <2>1. BlockHashListOf(NoValue) = ListRec(0, <<Hash(GenesisBlock)>>)
    BY StoreConstantsAssumption
       DEF BlockHashListOf, HashListPush, EmptyHashList, ListRec
  <2>2. BlockHashByHeight(ListRec(0, <<Hash(GenesisBlock)>>), 0) =
          <<Hash(GenesisBlock)>>[Len(<<Hash(GenesisBlock)>>) - (0 - 0)]
    <3>1. /\ 0 \in Nat /\ 0 \in 0 .. 0
          /\ Len(<<Hash(GenesisBlock)>>) \in Nat
          /\ 0 - 0 < Len(<<Hash(GenesisBlock)>>)
      OBVIOUS
    <3>2. QED
      BY <3>1, LookupKept, Zenon
  <2>3. QED
    BY <2>1, <2>2 DEF BlockHashIn, Hash, Genesis!Hash, Chain!Hash,
       GenesisBlock, Genesis!GenesisBlock, Chain!GenesisBlock
<1>5. absRecent = [h \in {0} |-> Chain!Hash(Chain!GenesisBlock)]
  BY <1>1, <1>2, <1>3, <1>4 DEF absRecent, Chain!GenesisBlock
<1>6. QED
  BY <1>2, <1>5 DEF Chain!Init, absLatest, absPending, absRecent

(* The end of the commit's transaction is the chain's Commit: the         *)
(* proposal becomes the latest block, the proposal is empty again, and the *)
(* pushed list answers the new height with its hash and every other kept  *)
(* height as before.                                                       *)
LEMMA CommitRefines ==
  ASSUME NoValueIsNoRecord, IInv, CommitResetProposal
  PROVE  Chain!Commit
<1> DEFINE B == LatestBlockOf(snapshot[1])
           L == BlockHashListOf(snapshot[3])
           P == HashListPush(L, block.height, Hash(block))
<1>1. /\ CommitOK
      /\ block = BlockRec(B.height + 1, Hash(B), block.txCount)
      /\ B.height \in Nat
      /\ L = ListRec(B.height, L.hashes)
      /\ \E S : L.hashes \in Seq(S)
      /\ Len(L.hashes) = Kept(B.height)
  BY CommitFacts DEF CommitResetProposal
<1>2. committed = snapshot /\ committed' = <<block, NoValue, P>>
  BY <1>1 DEF CommitResetProposal, CommitOK, committed, registers
<1>3. block # NoValue /\ P # NoValue
  <2>1. P = ListRec(block.height, P.hashes)
    BY DEF HashListPush, ListRec
  <2>2. QED
    BY <1>1, <2>1 DEF NoValueIsNoRecord, BlockRec, ListRec
<1>4. /\ absLatest = B
      /\ absPending = block.txCount
      /\ absRecent = [h \in Genesis!Window(B.height) |->
                        BlockHashIn(snapshot[3], h)]
  BY <1>1, <1>2 DEF absLatest, absPending, absRecent, CommitOK
<1>5. /\ absLatest' = block
      /\ absPending' = 0
      /\ absRecent' = [h \in Genesis!Window(block.height) |->
                         BlockHashByHeight(P, h)]
  BY <1>2, <1>3 DEF absLatest, absPending, absRecent, LatestBlockOf,
     BlockProposalOf, BlockHashIn, BlockHashListOf
<1>6. ASSUME NEW h \in Genesis!Window(B.height + 1)
      PROVE  BlockHashByHeight(P, h) =
               IF h = B.height + 1 THEN Hash(block)
               ELSE absRecent[h]
  <2>1. PICK S : L.hashes \in Seq(S)
    BY <1>1
  <2>2. PICK H \in Nat : H = B.height
    BY <1>1
  <2>3. PICK s \in Seq(S) : s = L.hashes /\ Len(s) = Kept(H)
    BY <1>1, <2>1, <2>2
  <2>4. PICK x : x = Hash(block)
    OBVIOUS
  <2>5. h \in Genesis!Window(H + 1)
    BY <2>2
  <2>6. /\ BlockHashByHeight(HashListPush(ListRec(H, s), H + 1, x), h) =
             IF h = H + 1 THEN x ELSE BlockHashByHeight(ListRec(H, s), h)
        /\ h # H + 1 => h \in Genesis!Window(H)
    BY <2>3, <2>5, PushLookup, SMTT(60)
  <2>7. P = HashListPush(ListRec(H, s), H + 1, x) /\ L = ListRec(H, s)
    BY <1>1, <2>2, <2>3, <2>4 DEF BlockRec
  <2>8. h # H + 1 => absRecent[h] = BlockHashByHeight(ListRec(H, s), h)
    BY <1>4, <2>2, <2>6, <2>7 DEF BlockHashIn
  <2>9. QED
    BY <2>2, <2>4, <2>6, <2>7, <2>8
<1>7. block.height = B.height + 1 /\ block.height <= MaxHeight
  BY <1>1 DEF BlockRec, CommitOK
<1>8. block = [height |-> absLatest.height + 1,
               parentHash |-> Chain!Hash(absLatest),
               txCount |-> absPending]
  BY <1>1, <1>4 DEF BlockRec, Hash, Genesis!Hash, Chain!Hash
<1>9. QED
  <2>1. absLatest.height < MaxHeight
    BY <1>1, <1>4, <1>7, StoreConstantsAssumption
  <2>2. absRecent' = [h \in Genesis!Window(block.height) |->
                       IF h = block.height THEN Chain!Hash(block)
                       ELSE absRecent[h]]
    BY <1>5, <1>6, <1>7 DEF Hash, Genesis!Hash, Chain!Hash
  <2>3. QED
    BY <1>5, <1>8, <2>1, <2>2
       DEF Chain!Commit, Chain!Window, Genesis!Window, absLatest,
           absPending, absRecent

(* A step that leaves the committed registers alone is a stutter of the   *)
(* chain.                                                                  *)
LEMMA CommittedUnchanged ==
  ASSUME committed' = committed
  PROVE  UNCHANGED Chain!chainVars
BY DEF Chain!chainVars, LatestBlockOf, BlockProposalOf, BlockHashIn,
   BlockHashListOf

(* An EVM transaction is the chain's AddTransaction.                       *)
LEMMA AddTransactionRefines ==
  ASSUME NoValueIsNoRecord, IInv, AddTransaction
  PROVE  Chain!AddTransaction
<1> DEFINE B == LatestBlockOf(latestBlockReg)
           bp == BlockProposalOf(latestBlockReg, proposalReg)
<1>1. committed = registers /\ committed' = registers'
  BY DEF AddTransaction, committed
<1>2. LatestOK(latestBlockReg) /\ ProposalOK(latestBlockReg, proposalReg)
  BY <1>1 DEF IInv, RegsOK, registers
<1>3. bp = BlockRec(B.height + 1, Hash(B), bp.txCount)
  BY <1>2, ProposalShape
<1>4. proposalReg' = BlockRec(B.height + 1, Hash(B), bp.txCount + 1)
  BY <1>3 DEF AddTransaction, BlockRec
<1>5. proposalReg' # NoValue
  BY <1>4 DEF NoValueIsNoRecord, BlockRec
<1>6. /\ absPending = bp.txCount
      /\ absPending' = bp.txCount + 1
  BY <1>1, <1>4, <1>5 DEF absPending, registers, BlockProposalOf, BlockRec
<1>7. absLatest' = absLatest /\ absRecent' = absRecent
  BY <1>1 DEF AddTransaction, absLatest, absRecent, registers, LatestBlockOf,
     BlockHashIn, BlockHashListOf
<1>8. QED
  BY <1>6, <1>7 DEF AddTransaction, Chain!AddTransaction, absLatest,
     absPending, absRecent

LEMMA StepRefines ==
  ASSUME NoValueIsNoRecord, IInv, [Next]_vars
  PROVE  [Chain!Next]_Chain!chainVars
<1>1. CASE AddTransaction
  BY <1>1, AddTransactionRefines DEF Chain!Next
<1>2. CASE BeginCommit
  <2>1. committed' = committed
    BY <1>2 DEF BeginCommit, committed
  <2>2. QED
    BY <2>1, CommittedUnchanged
<1>3. CASE CommitSetLatest \/ CommitUpdateHashList
  <2>1. committed' = committed
    BY <1>3 DEF CommitSetLatest, CommitUpdateHashList, committed
  <2>2. QED
    BY <2>1, CommittedUnchanged
<1>4. CASE CommitResetProposal
  BY <1>4, CommitRefines DEF Chain!Next
<1>5. CASE CommitFails
  <2>1. committed' = committed
    BY <1>5 DEF IInv, CommitOK, CommitFails, committed, registers
  <2>2. QED
    BY <2>1, CommittedUnchanged
<1>6. CASE UNCHANGED vars
  <2>1. committed' = committed
    BY <1>6 DEF vars, committed, registers
  <2>2. QED
    BY <2>1, CommittedUnchanged
<1>7. QED
  BY <1>1, <1>2, <1>3, <1>4, <1>5, <1>6 DEF Next

(***************************************************************************)
(* For every capacity and bound, the EVM block store implements the        *)
(* abstract chain EvmChain (ChainRefinement): under the registers of the   *)
(* last committed Cadence transaction, every EVM transaction adds one      *)
(* transaction to the pending proposal, every completed                    *)
(* CommitBlockProposal turns exactly that proposal into the next block     *)
(* and extends BlockHash by its hash, and a commit that fails after any of *)
(* its writes changes nothing.                                             *)
(***************************************************************************)
THEOREM StoreRefinesChain ==
  ASSUME NoValueIsNoRecord
  PROVE  Spec => ChainRefinement
<1>1. Spec => []IInv
  <2>1. Init => IInv
    BY InitIInv
  <2>2. IInv /\ [Next]_vars => IInv'
    BY NextIInv
  <2>3. QED
    BY <2>1, <2>2, PTL DEF Spec
<1>2. Init => Chain!Init
  BY InitRefines
<1>3. IInv /\ [Next]_vars => [Chain!Next]_Chain!chainVars
  BY StepRefines
<1>4. QED
  BY <1>1, <1>2, <1>3, PTL DEF Spec, ChainRefinement, Chain!Spec

=============================================================================
