------------------------ MODULE ResultCollectorProofs ------------------------
(***************************************************************************)
(* Proofs about the block result collector (ResultCollector): its type,    *)
(* and that a receipt Finalize returns without error covers the whole      *)
(* block.                                                                  *)
(*                                                                         *)
(* The argument follows the processor through the block.  While no call of *)
(* the processor failed, the results it has taken from the channel are     *)
(* exactly the first Processed transactions; the channel holds the next    *)
(* ones, up to the last the executor added; the chunks and SPoCKs are      *)
(* those of the collections that end before transaction Processed + 1; and *)
(* the collection state holds the transactions of the open collection      *)
(* taken so far.  Finalize reads the chunks only after processorDoneChan   *)
(* closed, which without an error happens only on the closed and drained   *)
(* channel, after the executor added every transaction: then Processed is  *)
(* the whole block.                                                        *)
(***************************************************************************)
EXTENDS ResultCollector, FiniteSetTheorems, SequenceTheorems, TLAPS

(* The transactions a + 1 .. b, in order.                                  *)
TxnRange(a, b) == [k \in 1 .. b - a |-> a + k]

(* The results the processor has taken from the channel.                   *)
Processed == nextTxn - 1 - Len(processorInputChan)

(* The first of them in the open collection.                               *)
Start == Processed - Len(currentCollectionTxns)

(* The number of collections completed after n transactions.               *)
Completed(n) ==
  IF n = numTransactions THEN numCollections ELSE CollectionOf[n + 1]

(* The chunks and SPoCKs of the first n collections.                       *)
ChunksUpTo(n) ==
  [i \in 1 .. n |-> [collection |-> i - 1, txns |-> TxnsOfCollection(i - 1)]]
SpocksUpTo(n) == [i \in 1 .. n |-> i - 1]

(***************************************************************************)
(* The inductive invariant.                                                *)
(***************************************************************************)
ProcessorInv ==
  /\ Len(processorInputChan) < nextTxn
  /\ processorInputChan = TxnRange(Processed, nextTxn - 1)
  /\ doneClosed => processorInputChan = <<>> /\ inputClosed
  /\ chunks = ChunksUpTo(Completed(Processed))
  /\ spockSignatures = SpocksUpTo(Completed(Processed))
  /\ Len(currentCollectionTxns) <= Processed
  /\ currentCollectionTxns = TxnRange(Start, Processed)
  /\ Processed = numTransactions => Start = numTransactions
  /\ Processed < numTransactions =>
       /\ \A k \in Start + 1 .. Processed :
            CollectionOf[k] = CollectionOf[Processed + 1]
       /\ Start > 0 => CollectionOf[Start] < CollectionOf[Processed + 1]

IInv ==
  /\ TypeOK
  /\ inputClosed <=> executor # "adding"
  /\ executor \in {"waitDone", "returned"} => nextTxn = numTransactions + 1
  /\ processorRunning <=> ~doneClosed
  /\ ReceiptCoversBlock
  /\ ~processorError => ProcessorInv

-----------------------------------------------------------------------------
(***************************************************************************)
(* The collections of the block.  Collection indices never decrease along  *)
(* the block, so each collection is an interval of transactions: the       *)
(* steps of one give the whole order (by a least counterexample, from the  *)
(* well-foundedness of < on Nat).                                          *)
(***************************************************************************)
LEMMA CollectionFacts ==
  /\ numTransactions \in Nat \ {0}
  /\ CollectionOf \in [Txns -> Nat]
  /\ CollectionOf[1] = 0
  /\ \A i \in 1 .. numTransactions - 1 :
       CollectionOf[i + 1] \in {CollectionOf[i], CollectionOf[i] + 1}
  /\ numCollections = CollectionOf[numTransactions] + 1
  BY CollectionOfAssumption DEF numTransactions, Txns, numCollections

NatLess == {ss \in Nat \X Nat : ss[1] < ss[2]}

LEMMA NatMin ==
  ASSUME NEW T \in SUBSET Nat, T # {}
  PROVE  \E m \in T : \A y \in T : m <= y
<1>1. IsWellFoundedOn(NatLess, Nat)
  BY NatLessThanWellFounded DEF OpToRel, NatLess
<1>2. PICK m \in T : \A y \in T : ~(<<y, m>> \in NatLess)
  BY <1>1, WFMin
<1>3. ASSUME NEW y \in T PROVE m <= y
  <2>1. ~(<<y, m>> \in NatLess) BY <1>2
  <2>2. ~(y < m) BY <2>1 DEF NatLess
  <2>3. QED BY <2>2
<1>4. QED BY <1>3

LEMMA CollectionMono ==
  ASSUME NEW i \in Txns, NEW j \in Txns, i <= j
  PROVE  CollectionOf[i] <= CollectionOf[j]
<1> SUFFICES ASSUME CollectionOf[j] < CollectionOf[i] PROVE FALSE
  BY CollectionFacts
<1> DEFINE T == {n \in Txns : i <= n /\ CollectionOf[n] < CollectionOf[i]}
<1>1. j \in T BY CollectionFacts
<1>2. T \in SUBSET Nat /\ T # {} BY <1>1 DEF Txns
<1>3. PICK m \in T : \A y \in T : m <= y
  BY <1>2, NatMin
<1>4. /\ m \in Txns /\ i <= m /\ CollectionOf[m] < CollectionOf[i]
      /\ \A y \in Txns : i <= y /\ CollectionOf[y] < CollectionOf[i] => m <= y
  BY <1>3
<1>5. m # i BY <1>4, CollectionFacts
<1>6. /\ m - 1 \in 1 .. numTransactions - 1 /\ i <= m - 1
      /\ CollectionOf[m - 1] >= CollectionOf[i]
  BY <1>4, <1>5, CollectionFacts DEF Txns
<1>7. CollectionOf[(m - 1) + 1] \in
        {CollectionOf[m - 1], CollectionOf[m - 1] + 1}
  BY <1>6, CollectionFacts
<1>8. QED BY <1>4, <1>6, <1>7, CollectionFacts DEF Txns

(***************************************************************************)
(* A run s + 1 .. t of transactions of one collection, with the            *)
(* collection changing right before s + 1 and right after t, is the whole  *)
(* collection.                                                             *)
(***************************************************************************)
LEMMA CollectionInterval ==
  ASSUME NEW s \in Nat, NEW t \in Txns, s < t,
         \A k \in s + 1 .. t : CollectionOf[k] = CollectionOf[t],
         s > 0 => CollectionOf[s] < CollectionOf[t],
         t < numTransactions => CollectionOf[t + 1] # CollectionOf[t]
  PROVE  TxnsOfCollection(CollectionOf[t]) = TxnRange(s, t)
<1>1. ASSUME NEW j \in Txns
      PROVE  CollectionOf[j] = CollectionOf[t] <=> j \in s + 1 .. t
  <2>1. CASE j <= s
    <3>1. s \in Txns BY <2>1, CollectionFacts DEF Txns
    <3>2. CollectionOf[j] <= CollectionOf[s] BY <2>1, <3>1, CollectionMono
    <3>3. QED BY <2>1, <3>1, <3>2, CollectionFacts DEF Txns
  <2>2. CASE j > t
    <3>1. t + 1 \in Txns /\ t + 1 <= j BY <2>2, CollectionFacts DEF Txns
    <3>2. CollectionOf[t + 1] <= CollectionOf[j] BY <3>1, CollectionMono
    <3>3. CollectionOf[t + 1] = CollectionOf[t] + 1
      BY <3>1, CollectionFacts DEF Txns
    <3>4. QED BY <2>2, <3>2, <3>3, CollectionFacts DEF Txns
  <2>3. CASE j \in s + 1 .. t
    BY <2>3
  <2>4. QED BY <2>1, <2>2, <2>3 DEF Txns
<1>2. {i \in Txns : CollectionOf[i] = CollectionOf[t]} = s + 1 .. t
  BY <1>1, CollectionFacts DEF Txns
<1>3. CollectionSize(CollectionOf[t]) = t - s
  <2>1. Cardinality(s + 1 .. t) = IF s + 1 > t THEN 0 ELSE t - (s + 1) + 1
    BY CollectionFacts, FS_Interval DEF Txns
  <2>2. CollectionSize(CollectionOf[t]) = Cardinality(s + 1 .. t)
    BY <1>2, Zenon DEF CollectionSize
  <2>3. QED BY <2>1, <2>2, CollectionFacts DEF Txns
<1>4. FirstOfCollection(CollectionOf[t]) = s + 1
  <2>1. /\ s + 1 \in Txns /\ CollectionOf[s + 1] = CollectionOf[t]
        /\ \A j \in Txns : CollectionOf[j] = CollectionOf[t] => s + 1 <= j
    BY <1>1, CollectionFacts DEF Txns
  <2>2. \A i \in Txns :
           /\ CollectionOf[i] = CollectionOf[t]
           /\ \A j \in Txns : CollectionOf[j] = CollectionOf[t] => i <= j
           => i = s + 1
    BY <2>1, CollectionFacts DEF Txns
  <2>3. QED BY <2>1, <2>2 DEF FirstOfCollection
<1>5. QED BY <1>3, <1>4 DEF TxnsOfCollection, TxnRange

-----------------------------------------------------------------------------
(***************************************************************************)
(* The ranges the channel and the collection state hold, and the chunks    *)
(* and SPoCKs of a prefix of the collections, as sequences.                *)
(***************************************************************************)
LEMMA RangeType ==
  ASSUME NEW a \in Int, NEW b \in Int, a <= b
  PROVE  /\ TxnRange(a, b) \in Seq(a + 1 .. b)
         /\ Len(TxnRange(a, b)) = b - a
<1>1. b - a \in Nat
  OBVIOUS
<1>2. TxnRange(a, b) \in [1 .. b - a -> a + 1 .. b]
  BY DEF TxnRange
<1>3. TxnRange(a, b) \in Seq(a + 1 .. b)
  BY <1>1, <1>2, SeqDef
<1>4. DOMAIN TxnRange(a, b) = 1 .. b - a
  BY DEF TxnRange
<1>5. Len(TxnRange(a, b)) \in Nat
      /\ DOMAIN TxnRange(a, b) = 1 .. Len(TxnRange(a, b))
  BY <1>3, LenProperties
<1>6. QED
  BY <1>1, <1>3, <1>4, <1>5

LEMMA RangeEmpty ==
  ASSUME NEW a \in Int
  PROVE  TxnRange(a, a) = <<>>
  BY DEF TxnRange

LEMMA RangeAppend ==
  ASSUME NEW a \in Int, NEW b \in Int, a <= b
  PROVE  Append(TxnRange(a, b), b + 1) = TxnRange(a, b + 1)
  BY DEF TxnRange

LEMMA RangeTail ==
  ASSUME NEW a \in Int, NEW b \in Int, a < b
  PROVE  /\ Head(TxnRange(a, b)) = a + 1
         /\ Tail(TxnRange(a, b)) = TxnRange(a + 1, b)
<1> DEFINE r == TxnRange(a, b)
           S == a + 1 .. b
<1>1. r \in Seq(S) /\ Len(r) = b - a
  BY RangeType
<1>2. r # <<>>
  BY <1>1
<1>3. Head(r) = a + 1
  <2>1. r[1] = a + 1
    BY DEF TxnRange
  <2>2. Head(r) = r[1]
    BY <1>1
  <2>3. QED
    BY <2>1, <2>2
<1>4. /\ Tail(r) \in Seq(S)
      /\ Len(Tail(r)) = b - a - 1
      /\ \A i \in 1 .. Len(Tail(r)) : Tail(r)[i] = r[i + 1]
  BY <1>1, <1>2, HeadTailProperties
<1>5. TxnRange(a + 1, b) \in Seq(S) /\ Len(TxnRange(a + 1, b)) = b - a - 1
  <2>1. TxnRange(a + 1, b) \in Seq(a + 2 .. b)
        /\ Len(TxnRange(a + 1, b)) = b - (a + 1)
    BY RangeType
  <2>2. a + 2 .. b \subseteq S
    OBVIOUS
  <2>3. QED
    BY <2>1, <2>2, SeqMonotonic
<1>6. \A i \in 1 .. b - a - 1 : Tail(r)[i] = TxnRange(a + 1, b)[i]
  BY <1>4 DEF TxnRange
<1>7. QED
  BY <1>3, <1>4, <1>5, <1>6, SeqEqual

LEMMA UpToAppend ==
  ASSUME NEW n \in Nat
  PROVE  /\ ChunksUpTo(n + 1) =
              Append(ChunksUpTo(n),
                     [collection |-> n, txns |-> TxnsOfCollection(n)])
         /\ SpocksUpTo(n + 1) = Append(SpocksUpTo(n), n)
  BY DEF ChunksUpTo, SpocksUpTo

-----------------------------------------------------------------------------
(***************************************************************************)
(* The invariant holds initially and is kept by every step of the          *)
(* executor.                                                               *)
(***************************************************************************)
LEMMA InitIInv == Init => IInv
<1> SUFFICES ASSUME Init PROVE IInv
  OBVIOUS
<1>1. Len(processorInputChan) = 0 /\ Len(currentCollectionTxns) = 0
  BY DEF Init
<1>2. TypeOK
  <2>1. \A S : <<>> \in Seq(S)
    BY EmptySeq
  <2>2. nextTxn \in 1 .. numTransactions + 1
    BY CollectionFacts DEF Init
  <2>3. /\ processorInputChan \in Seq(Txns)
        /\ currentCollectionTxns \in Seq(Txns)
        /\ chunks \in Seq([collection : Nat, txns : Seq(Txns)])
        /\ spockSignatures \in Seq(Nat)
    BY <2>1, Zenon DEF Init
  <2>4. Len(processorInputChan) <= numTransactions
    BY <1>1, CollectionFacts
  <2>5. QED
    BY <2>2, <2>3, <2>4 DEF Init, TypeOK
<1>3. Processed = 0 /\ Start = 0
  <2>1. nextTxn = 1
    BY DEF Init
  <2>2. QED
    BY <1>1, <2>1 DEF Processed, Start
<1>4. Completed(0) = 0
  BY CollectionFacts DEF Completed
<1>5. ChunksUpTo(0) = <<>> /\ SpocksUpTo(0) = <<>> /\ TxnRange(0, 0) = <<>>
  BY DEF ChunksUpTo, SpocksUpTo, TxnRange
<1>6. ProcessorInv
  BY <1>3, <1>4, <1>5, CollectionFacts DEF Init, ProcessorInv
<1>7. ReceiptCoversBlock
  BY DEF Init, ReceiptCoversBlock, NoReceipt
<1>8. QED BY <1>2, <1>6, <1>7 DEF Init, IInv

(* The executor's steps other than a send leave the processor's view of    *)
(* the channel and the result alone.                                       *)
LEMMA ProcessorVarsUnchanged ==
  ASSUME ProcessorInv,
         UNCHANGED <<processorInputChan, currentCollectionTxns, chunks,
                     spockSignatures, nextTxn>>,
         doneClosed' => doneClosed, inputClosed => inputClosed'
  PROVE  ProcessorInv'
  BY DEF ProcessorInv, Processed, Start

LEMMA AddTransactionResultIInv ==
  ASSUME IInv, AddTransactionResult PROVE IInv'
<1>1. ~inputClosed /\ nextTxn \in Txns
  BY DEF IInv, AddTransactionResult
<1>2. /\ processorInputChan \in Seq(Txns)
      /\ Len(processorInputChan) \in Nat
  BY LenProperties DEF IInv, TypeOK
<1>3. TypeOK'
  <2>1. nextTxn' \in 1 .. numTransactions + 1
    BY <1>1, CollectionFacts DEF AddTransactionResult, Txns
  <2>2. /\ processorInputChan' \in Seq(Txns)
        /\ Len(processorInputChan') <= numTransactions
    <3>1. CASE /\ Len(processorInputChan) < numTransactions
               /\ processorInputChan' = Append(processorInputChan, nextTxn)
      <4>1. /\ Append(processorInputChan, nextTxn) \in Seq(Txns)
            /\ Len(Append(processorInputChan, nextTxn))
                 = Len(processorInputChan) + 1
        BY <1>1, <1>2, AppendProperties
      <4>2. QED
        BY <1>2, <3>1, <4>1, CollectionFacts
    <3>2. CASE doneClosed /\ UNCHANGED processorInputChan
      BY <3>2 DEF IInv, TypeOK
    <3>3. QED
      BY <3>1, <3>2 DEF AddTransactionResult
  <2>3. QED
    BY <2>1, <2>2 DEF IInv, TypeOK, AddTransactionResult
<1>4. ~processorError => ProcessorInv'
  <2> SUFFICES ASSUME ~processorError PROVE ProcessorInv'
    OBVIOUS
  <2>1. ProcessorInv /\ ~doneClosed
    BY <1>1 DEF IInv, ProcessorInv
  <2>2. /\ processorInputChan' = Append(processorInputChan, nextTxn)
        /\ nextTxn' = nextTxn + 1
        /\ UNCHANGED <<doneClosed, inputClosed, currentCollectionTxns,
                       chunks, spockSignatures>>
    BY <2>1 DEF AddTransactionResult
  <2>3. /\ Len(processorInputChan) < nextTxn
        /\ processorInputChan = TxnRange(Processed, nextTxn - 1)
    BY <2>1 DEF ProcessorInv
  <2>4. /\ Processed \in Int /\ Processed <= nextTxn - 1
        /\ Processed = nextTxn - 1 - Len(processorInputChan)
    BY <1>1, <1>2, <2>3, CollectionFacts DEF Processed, Txns
  <2>5. Len(processorInputChan') = Len(processorInputChan) + 1
    BY <1>1, <1>2, <2>2, AppendProperties
  <2>6. Processed' = Processed /\ Start' = Start
    <3>1. Processed' = Processed
      <4>1. /\ Len(processorInputChan') = Len(processorInputChan) + 1
            /\ nextTxn' = nextTxn + 1
            /\ nextTxn \in Int /\ Len(processorInputChan) \in Int
        BY <1>1, <1>2, <2>2, <2>5, CollectionFacts DEF Txns
      <4>2. nextTxn' - 1 - Len(processorInputChan')
              = nextTxn - 1 - Len(processorInputChan)
        BY <4>1
      <4>3. QED
        BY <4>2 DEF Processed
    <3>2. QED
      BY <2>2, <3>1 DEF Start
  <2>7. processorInputChan' = TxnRange(Processed', nextTxn' - 1)
    <3>1. Append(TxnRange(Processed, nextTxn - 1), (nextTxn - 1) + 1)
            = TxnRange(Processed, (nextTxn - 1) + 1)
      <4>1. Processed \in Int /\ nextTxn - 1 \in Int /\ Processed <= nextTxn - 1
        BY <1>1, <2>4, CollectionFacts DEF Txns
      <4>2. \A aa, bb \in Int : aa <= bb =>
              Append(TxnRange(aa, bb), bb + 1) = TxnRange(aa, bb + 1)
        BY RangeAppend
      <4>3. QED
        BY <4>1, <4>2
    <3>2. (nextTxn - 1) + 1 = nextTxn /\ nextTxn' - 1 = nextTxn
      BY <1>1, <2>2, CollectionFacts DEF Txns
    <3>3. QED
      BY <2>2, <2>3, <2>6, <3>1, <3>2
  <2>8. Len(processorInputChan') < nextTxn'
    BY <1>1, <1>2, <2>2, <2>3, <2>5, CollectionFacts DEF Txns
  <2>9. doneClosed' => processorInputChan' = <<>> /\ inputClosed'
    BY <2>1, <2>2
  <2>10. QED BY <2>1, <2>2, <2>6, <2>7, <2>8, <2>9 DEF ProcessorInv
<1>5. QED
  BY <1>3, <1>4 DEF IInv, AddTransactionResult, ReceiptCoversBlock

LEMMA StopIInv ==
  ASSUME IInv, Stop PROVE IInv'
<1>1. TypeOK' BY DEF IInv, TypeOK, Stop, CloseInputOnce
<1>2. ~processorError => ProcessorInv'
  BY ProcessorVarsUnchanged DEF IInv, Stop, CloseInputOnce
<1>3. QED BY <1>1, <1>2 DEF IInv, Stop, CloseInputOnce, ReceiptCoversBlock

LEMMA FinalizeStopIInv ==
  ASSUME IInv, FinalizeStop PROVE IInv'
<1>1. TypeOK' BY DEF IInv, TypeOK, FinalizeStop, CloseInputOnce
<1>2. ~processorError => ProcessorInv'
  BY ProcessorVarsUnchanged DEF IInv, FinalizeStop, CloseInputOnce
<1>3. QED BY <1>1, <1>2 DEF IInv, FinalizeStop, CloseInputOnce,
                            ReceiptCoversBlock

(* Finalize returns a result only after a clean exit of the processor,     *)
(* which drained the channel after the executor added the whole block.     *)
LEMMA FinalizeReturnIInv ==
  ASSUME IInv, FinalizeReturn PROVE IInv'
<1>1. ~processorError =>
        /\ chunks = ExpectedChunks
        /\ spockSignatures = ExpectedSpocks
  <2> SUFFICES ASSUME ~processorError
               PROVE  /\ chunks = ExpectedChunks
                      /\ spockSignatures = ExpectedSpocks
    OBVIOUS
  <2>1. processorInputChan = <<>> /\ nextTxn = numTransactions + 1
    BY DEF IInv, ProcessorInv, FinalizeReturn
  <2>2. Processed = numTransactions
    BY <2>1, CollectionFacts DEF Processed
  <2>3. Completed(Processed) = numCollections
    BY <2>2 DEF Completed
  <2>4. QED BY <2>3 DEF IInv, ProcessorInv, ChunksUpTo, SpocksUpTo,
                        ExpectedChunks, ExpectedSpocks
<1>2. ReceiptCoversBlock'
  BY <1>1 DEF FinalizeReturn, ReceiptCoversBlock, ErrorReceipt
<1>3. TypeOK'
  <2>1. \/ receipt' = ErrorReceipt
        \/ receipt' = [ok |-> TRUE, chunks |-> chunks, spocks |-> spockSignatures]
    BY DEF FinalizeReturn
  <2>2. receipt' \in {NoReceipt, ErrorReceipt}
                   \cup [ok : {TRUE}, chunks : Seq([collection : Nat,
                                                   txns : Seq(Txns)]),
                        spocks : Seq(Nat)]
    <3>1. CASE receipt' = ErrorReceipt
      BY <3>1
    <3>2. CASE receipt' = [ok |-> TRUE, chunks |-> chunks,
                           spocks |-> spockSignatures]
      <4>1. /\ chunks \in Seq([collection : Nat, txns : Seq(Txns)])
            /\ spockSignatures \in Seq(Nat)
        BY DEF IInv, TypeOK
      <4>2. QED
        BY <3>2, <4>1
    <3>3. QED
      BY <2>1, <3>1, <3>2
  <2>3. QED
    BY <2>2 DEF IInv, TypeOK, FinalizeReturn
<1>4. ~processorError => ProcessorInv'
  BY ProcessorVarsUnchanged DEF IInv, FinalizeReturn
<1>5. QED BY <1>2, <1>3, <1>4 DEF IInv, FinalizeReturn

-----------------------------------------------------------------------------
(***************************************************************************)
(* The processor's steps.                                                  *)
(***************************************************************************)
LEMMA ProcessorExitsIInv ==
  ASSUME IInv, ProcessorExits PROVE IInv'
<1>1. TypeOK' BY DEF IInv, TypeOK, ProcessorExits
<1>2. ~processorError => ProcessorInv'
  BY DEF IInv, ProcessorInv, ProcessorExits, Processed, Start
<1>3. QED BY <1>1, <1>2 DEF IInv, ProcessorExits, ReceiptCoversBlock

(* Where the processor stands when it takes a result from the channel:     *)
(* the result is that of transaction Processed + 1.                        *)
LEMMA TakeFacts ==
  ASSUME IInv, ~processorError, processorRunning, processorInputChan # <<>>
  PROVE  /\ Processed \in Nat /\ Start \in Nat
         /\ Start <= Processed /\ Processed < numTransactions
         /\ Head(processorInputChan) = Processed + 1
         /\ Tail(processorInputChan) = TxnRange(Processed + 1, nextTxn - 1)
         /\ Len(Tail(processorInputChan)) = Len(processorInputChan) - 1
         /\ currentCollectionTxns = TxnRange(Start, Processed)
         /\ Append(currentCollectionTxns, Processed + 1) =
              TxnRange(Start, Processed + 1)
         /\ \A k \in Start + 1 .. Processed :
              CollectionOf[k] = CollectionOf[Processed + 1]
         /\ Start > 0 => CollectionOf[Start] < CollectionOf[Processed + 1]
         /\ chunks = ChunksUpTo(CollectionOf[Processed + 1])
         /\ spockSignatures = SpocksUpTo(CollectionOf[Processed + 1])
<1>1. ProcessorInv /\ TypeOK BY DEF IInv
<1>2. /\ nextTxn \in 1 .. numTransactions + 1
      /\ Len(processorInputChan) \in Nat
      /\ Len(currentCollectionTxns) \in Nat
  BY <1>1 DEF TypeOK
<1>3. /\ Processed \in Nat /\ Start \in Nat /\ Start <= Processed
      /\ Processed < nextTxn - 1
  BY <1>1, <1>2, CollectionFacts DEF ProcessorInv, Processed, Start
<1>4. Processed < numTransactions
  BY <1>2, <1>3, CollectionFacts
<1>5. /\ Head(processorInputChan) = Processed + 1
      /\ Tail(processorInputChan) = TxnRange(Processed + 1, nextTxn - 1)
  <2>1. processorInputChan = TxnRange(Processed, nextTxn - 1)
    BY <1>1 DEF ProcessorInv
  <2>2. /\ Head(TxnRange(Processed, nextTxn - 1)) = Processed + 1
        /\ Tail(TxnRange(Processed, nextTxn - 1)) =
             TxnRange(Processed + 1, nextTxn - 1)
    BY <1>2, <1>3, RangeTail
  <2>3. QED
    BY <2>1, <2>2
<1>6. Len(Tail(processorInputChan)) = Len(processorInputChan) - 1
  BY <1>1, <1>2, <1>3, <1>5, RangeType DEF ProcessorInv
<1>7. Append(currentCollectionTxns, Processed + 1) =
        TxnRange(Start, Processed + 1)
  <2>1. currentCollectionTxns = TxnRange(Start, Processed)
    BY <1>1 DEF ProcessorInv
  <2>2. \A aa, bb \in Int : aa <= bb =>
          Append(TxnRange(aa, bb), bb + 1) = TxnRange(aa, bb + 1)
    BY RangeAppend
  <2>3. Start \in Int /\ Processed \in Int /\ Start <= Processed
    BY <1>3
  <2>4. QED
    BY <2>1, <2>2, <2>3, Zenon
<1>8. Completed(Processed) = CollectionOf[Processed + 1]
  BY <1>3, <1>4, CollectionFacts DEF Completed
<1>9. QED BY <1>1, <1>3, <1>4, <1>5, <1>6, <1>7, <1>8 DEF ProcessorInv

(* The branches of processTransactionResult: a failing call, a merge      *)
(* inside a collection, and a commit at the end of one.                    *)
LEMMA ProcessBranches ==
  ASSUME ProcessTransactionResult
  PROVE  LET t == Head(processorInputChan)
             chunk == [collection |-> CollectionOf[t],
                       txns |-> Append(currentCollectionTxns, t)]
         IN  \/ /\ processorError' = TRUE /\ processorRunning' = FALSE
                /\ doneClosed' = TRUE
                /\ chunks' \in {chunks, Append(chunks, chunk)}
                /\ spockSignatures' \in
                     {spockSignatures,
                      Append(spockSignatures, CollectionOf[t])}
                /\ currentCollectionTxns' \in {currentCollectionTxns, <<>>}
             \/ /\ ~LastTransactionInCollection(t)
                /\ currentCollectionTxns' =
                     Append(currentCollectionTxns, t)
                /\ UNCHANGED <<processorRunning, processorError, doneClosed,
                               chunks, spockSignatures>>
             \/ /\ LastTransactionInCollection(t)
                /\ chunks' = Append(chunks, chunk)
                /\ spockSignatures' = Append(spockSignatures, CollectionOf[t])
                /\ currentCollectionTxns' = <<>>
                /\ UNCHANGED <<processorRunning, processorError, doneClosed>>
  BY DEF ProcessTransactionResult, ProcessorFails

LEMMA ProcessCommon ==
  ASSUME IInv, ProcessTransactionResult
  PROVE  /\ processorRunning /\ processorInputChan # <<>>
         /\ processorInputChan' = Tail(processorInputChan)
         /\ UNCHANGED <<inputClosed, executor, nextTxn, receipt>>
         /\ Head(processorInputChan) \in Txns
         /\ Tail(processorInputChan) \in Seq(Txns)
         /\ Len(Tail(processorInputChan)) <= numTransactions
         /\ Append(currentCollectionTxns, Head(processorInputChan))
              \in Seq(Txns)
         /\ CollectionOf[Head(processorInputChan)] \in Nat
<1>1. /\ processorRunning /\ processorInputChan # <<>>
      /\ processorInputChan' = Tail(processorInputChan)
      /\ UNCHANGED <<inputClosed, executor, nextTxn, receipt>>
  BY DEF ProcessTransactionResult
<1>2. /\ processorInputChan \in Seq(Txns)
      /\ Len(processorInputChan) <= numTransactions
      /\ currentCollectionTxns \in Seq(Txns)
  BY DEF IInv, TypeOK
<1>3. /\ Head(processorInputChan) \in Txns
      /\ Tail(processorInputChan) \in Seq(Txns)
      /\ Len(Tail(processorInputChan)) <= numTransactions
  BY <1>1, <1>2, HeadTailProperties, CollectionFacts
<1>4. QED BY <1>1, <1>2, <1>3, CollectionFacts

(* Every step of the processor takes the next result from the channel:    *)
(* Processed grows by one and the channel keeps the rest of the range.      *)
LEMMA TakeAdvances ==
  ASSUME IInv, ProcessTransactionResult, ~processorError
  PROVE  /\ Processed' = Processed + 1
         /\ processorInputChan' = TxnRange(Processed', nextTxn' - 1)
         /\ Len(processorInputChan') < nextTxn'
         /\ ~doneClosed
<1>1. /\ processorRunning
      /\ processorInputChan' = Tail(processorInputChan)
      /\ nextTxn' = nextTxn
  BY ProcessCommon
<1>2. /\ Processed \in Nat
      /\ Tail(processorInputChan) = TxnRange(Processed + 1, nextTxn - 1)
      /\ Len(Tail(processorInputChan)) = Len(processorInputChan) - 1
  BY ProcessCommon, TakeFacts
<1>3. /\ Len(processorInputChan) \in Nat
      /\ nextTxn \in Int
      /\ Len(processorInputChan) < nextTxn
  <2>1. ProcessorInv
    BY DEF IInv
  <2>2. Len(processorInputChan) < nextTxn
    BY <2>1 DEF ProcessorInv
  <2>3. processorInputChan \in Seq(Txns) /\ nextTxn \in 1 .. numTransactions + 1
    BY DEF IInv, TypeOK
  <2>4. QED
    BY <2>2, <2>3, LenProperties
<1>4. Len(processorInputChan') = Len(processorInputChan) - 1
  BY <1>1, <1>2
<1>5. Processed' = Processed + 1
  <2>1. nextTxn' - 1 - Len(processorInputChan') =
          (nextTxn - 1 - Len(processorInputChan)) + 1
    <3>1. nextTxn' = nextTxn
      BY <1>1
    <3>2. QED
      BY <1>3, <1>4, <3>1
  <2>2. QED
    BY <2>1 DEF Processed
<1>6. processorInputChan' = TxnRange(Processed', nextTxn' - 1)
  BY <1>1, <1>2, <1>5
<1>7. Len(processorInputChan') < nextTxn'
  BY <1>1, <1>3, <1>4
<1>8. ~doneClosed
  BY <1>1 DEF IInv
<1>9. QED
  BY <1>5, <1>6, <1>7, <1>8

(* A merge inside a collection: the collection state grows by the result,  *)
(* the chunks stay those of the completed collections.                     *)
LEMMA MergeIInv ==
  ASSUME IInv, ProcessTransactionResult,
         ~LastTransactionInCollection(Head(processorInputChan)),
         currentCollectionTxns' =
           Append(currentCollectionTxns, Head(processorInputChan)),
         UNCHANGED <<processorRunning, processorError, doneClosed, chunks,
                     spockSignatures>>
  PROVE  IInv'
<1>1. TypeOK'
  BY ProcessCommon DEF IInv, TypeOK
<1>2. ~processorError => ProcessorInv'
  <2> SUFFICES ASSUME ~processorError PROVE ProcessorInv'
    OBVIOUS
  <2>1. /\ Processed \in Nat /\ Start \in Nat
        /\ Start <= Processed /\ Processed < numTransactions
        /\ Head(processorInputChan) = Processed + 1
        /\ Append(currentCollectionTxns, Processed + 1) =
             TxnRange(Start, Processed + 1)
        /\ \A k \in Start + 1 .. Processed :
             CollectionOf[k] = CollectionOf[Processed + 1]
        /\ Start > 0 => CollectionOf[Start] < CollectionOf[Processed + 1]
        /\ chunks = ChunksUpTo(CollectionOf[Processed + 1])
        /\ spockSignatures = SpocksUpTo(CollectionOf[Processed + 1])
    BY ProcessCommon, TakeFacts
  <2>2. /\ Processed' = Processed + 1
        /\ processorInputChan' = TxnRange(Processed', nextTxn' - 1)
        /\ Len(processorInputChan') < nextTxn'
        /\ ~doneClosed
    BY TakeAdvances
  <2>3. /\ Processed + 1 < numTransactions
        /\ CollectionOf[Processed + 2] = CollectionOf[Processed + 1]
    BY <2>1, CollectionFacts DEF LastTransactionInCollection
  <2>4. currentCollectionTxns' = TxnRange(Start, Processed + 1)
    BY <2>1
  <2>5. Len(currentCollectionTxns') = Processed + 1 - Start
    <3>1. Start \in Int /\ Processed + 1 \in Int /\ Start <= Processed + 1
      BY <2>1
    <3>2. Len(TxnRange(Start, Processed + 1)) = Processed + 1 - Start
      BY <2>1, <3>1, RangeType
    <3>3. QED
      BY <2>4, <3>2
  <2>6. Start' = Start
    BY <2>1, <2>2, <2>5 DEF Start
  <2>7. Completed(Processed') = CollectionOf[Processed + 1]
    BY <2>1, <2>2, <2>3, CollectionFacts DEF Completed
  <2>8. ASSUME NEW k \in Start + 1 .. Processed + 1
        PROVE  CollectionOf[k] = CollectionOf[Processed + 2]
    <3>1. CASE k = Processed + 1
      BY <2>3, <3>1
    <3>2. CASE k \in Start + 1 .. Processed
      BY <2>1, <2>3, <3>2
    <3>3. QED
      BY <2>1, <3>1, <3>2
  <2>9. Start > 0 => CollectionOf[Start] < CollectionOf[Processed + 2]
    BY <2>1, <2>3
  <2>10. chunks' = ChunksUpTo(Completed(Processed'))
         /\ spockSignatures' = SpocksUpTo(Completed(Processed'))
    BY <2>1, <2>7
  <2>11. Len(currentCollectionTxns') <= Processed'
    BY <2>1, <2>2, <2>5
  <2>12. currentCollectionTxns' = TxnRange(Start', Processed')
    BY <2>2, <2>4, <2>6
  <2>13. Processed' = numTransactions => Start' = numTransactions
    BY <2>2, <2>3
  <2>14. Processed' < numTransactions =>
           /\ \A k \in Start' + 1 .. Processed' :
                CollectionOf[k] = CollectionOf[Processed' + 1]
           /\ Start' > 0 => CollectionOf[Start'] < CollectionOf[Processed' + 1]
    <3>1. Processed' + 1 = Processed + 2
      BY <2>1, <2>2
    <3>2. QED
      BY <2>2, <2>6, <2>8, <2>9, <3>1
  <2>15. doneClosed' => processorInputChan' = <<>> /\ inputClosed'
    BY <2>2
  <2>16. QED
    BY <2>2, <2>10, <2>11, <2>12, <2>13, <2>14, <2>15 DEF ProcessorInv
<1>3. QED BY <1>1, <1>2, ProcessCommon DEF IInv, ReceiptCoversBlock

(* A commit at the end of a collection appends that collection's chunk    *)
(* and SPoCK: the collection state then held exactly the collection.       *)
LEMMA CommitIInv ==
  ASSUME IInv, ProcessTransactionResult,
         LastTransactionInCollection(Head(processorInputChan)),
         chunks' =
           Append(chunks,
                  [collection |-> CollectionOf[Head(processorInputChan)],
                   txns |-> Append(currentCollectionTxns,
                                   Head(processorInputChan))]),
         spockSignatures' =
           Append(spockSignatures, CollectionOf[Head(processorInputChan)]),
         currentCollectionTxns' = <<>>,
         UNCHANGED <<processorRunning, processorError, doneClosed>>
  PROVE  IInv'
<1>1. TypeOK'
  <2>1. /\ processorInputChan' \in Seq(Txns)
        /\ Len(processorInputChan') <= numTransactions
        /\ Head(processorInputChan) \in Txns
        /\ Append(currentCollectionTxns, Head(processorInputChan)) \in Seq(Txns)
        /\ CollectionOf[Head(processorInputChan)] \in Nat
        /\ UNCHANGED <<inputClosed, executor, nextTxn, receipt>>
    BY ProcessCommon
  <2>2. /\ chunks \in Seq([collection : Nat, txns : Seq(Txns)])
        /\ spockSignatures \in Seq(Nat)
    BY DEF IInv, TypeOK
  <2>3. /\ chunks' \in Seq([collection : Nat, txns : Seq(Txns)])
        /\ spockSignatures' \in Seq(Nat)
    <3>1. [collection |-> CollectionOf[Head(processorInputChan)],
           txns |-> Append(currentCollectionTxns, Head(processorInputChan))]
            \in [collection : Nat, txns : Seq(Txns)]
      BY <2>1
    <3>2. QED
      BY <2>1, <2>2, <3>1, AppendProperties
  <2>4. currentCollectionTxns' \in Seq(Txns)
    BY EmptySeq
  <2>5. QED
    BY <2>1, <2>3, <2>4 DEF IInv, TypeOK
<1>2. ~processorError => ProcessorInv'
  <2> SUFFICES ASSUME ~processorError PROVE ProcessorInv'
    OBVIOUS
  <2>1. /\ Processed \in Nat /\ Start \in Nat
        /\ Start <= Processed /\ Processed < numTransactions
        /\ Head(processorInputChan) = Processed + 1
        /\ \A k \in Start + 1 .. Processed :
             CollectionOf[k] = CollectionOf[Processed + 1]
        /\ Start > 0 => CollectionOf[Start] < CollectionOf[Processed + 1]
        /\ chunks = ChunksUpTo(CollectionOf[Processed + 1])
        /\ spockSignatures = SpocksUpTo(CollectionOf[Processed + 1])
        /\ Append(currentCollectionTxns, Processed + 1) =
             TxnRange(Start, Processed + 1)
    BY ProcessCommon, TakeFacts
  <2>2. /\ Processed' = Processed + 1
        /\ processorInputChan' = TxnRange(Processed', nextTxn' - 1)
        /\ Len(processorInputChan') < nextTxn'
        /\ ~doneClosed
    BY TakeAdvances
  <2>3. PICK t \in Txns : t = Processed + 1
    BY <2>1, CollectionFacts DEF Txns
  <2>4. PICK s \in Nat : s = Start
    BY <2>1
  <2>5. t < numTransactions => CollectionOf[t + 1] = CollectionOf[t] + 1
    <3>1. LastTransactionInCollection(t)
      BY <2>1, <2>3
    <3>2. t < numTransactions => CollectionOf[t + 1] # CollectionOf[t]
      BY <3>1, CollectionFacts DEF LastTransactionInCollection, Txns
    <3>3. ASSUME t < numTransactions
          PROVE  CollectionOf[t + 1] \in {CollectionOf[t], CollectionOf[t] + 1}
      <4>1. t \in 1 .. numTransactions - 1
        BY <3>3, CollectionFacts DEF Txns
      <4>2. QED
        BY <4>1, CollectionFacts
    <3>4. QED
      BY <3>2, <3>3
  <2>6. TxnsOfCollection(CollectionOf[t]) = TxnRange(s, t)
    <3>1. s < t
      BY <2>1, <2>3, <2>4
    <3>2. ASSUME NEW k \in s + 1 .. t PROVE CollectionOf[k] = CollectionOf[t]
      <4>1. CASE k = t
        BY <4>1
      <4>2. CASE k \in Start + 1 .. Processed
        BY <2>1, <2>3, <4>2
      <4>3. QED
        BY <2>1, <2>3, <2>4, <4>1, <4>2
    <3>3. s > 0 => CollectionOf[s] < CollectionOf[t]
      BY <2>1, <2>3, <2>4
    <3>4. t < numTransactions => CollectionOf[t + 1] # CollectionOf[t]
      BY <2>5, CollectionFacts DEF Txns
    <3>5. QED BY <3>1, <3>2, <3>3, <3>4, CollectionInterval
  <2>7. PICK n \in Nat : n = CollectionOf[t]
    BY CollectionFacts
  <2>8. /\ chunks' = ChunksUpTo(n + 1)
        /\ spockSignatures' = SpocksUpTo(n + 1)
    <3>1. chunks' = Append(ChunksUpTo(n),
                           [collection |-> n, txns |-> TxnRange(s, t)])
      BY <2>1, <2>3, <2>4, <2>7
    <3>2. QED BY <2>1, <2>3, <2>6, <2>7, <3>1, UpToAppend
  <2>9. Len(currentCollectionTxns') = 0
    BY EmptySeq
  <2>10. Processed' = t /\ Start' = t
    BY <2>2, <2>3, <2>9 DEF Start, Txns
  <2>11. Completed(t) = n + 1
    BY <2>5, <2>7, CollectionFacts DEF Completed, Txns
  <2>12. currentCollectionTxns' = TxnRange(t, t)
    BY RangeEmpty DEF Txns
  <2>13. chunks' = ChunksUpTo(Completed(Processed'))
         /\ spockSignatures' = SpocksUpTo(Completed(Processed'))
    BY <2>8, <2>10, <2>11
  <2>14. Len(currentCollectionTxns') <= Processed'
    BY <2>9, <2>10 DEF Txns
  <2>15. currentCollectionTxns' = TxnRange(Start', Processed')
    BY <2>10, <2>12
  <2>16. Processed' = numTransactions => Start' = numTransactions
    BY <2>10
  <2>17. Processed' < numTransactions =>
           /\ \A k \in Start' + 1 .. Processed' :
                CollectionOf[k] = CollectionOf[Processed' + 1]
           /\ Start' > 0 => CollectionOf[Start'] < CollectionOf[Processed' + 1]
    BY <2>5, <2>10, CollectionFacts DEF Txns
  <2>18. doneClosed' => processorInputChan' = <<>> /\ inputClosed'
    BY <2>2
  <2>19. QED
    BY <2>2, <2>13, <2>14, <2>15, <2>16, <2>17, <2>18 DEF ProcessorInv
<1>3. QED BY <1>1, <1>2, ProcessCommon DEF IInv, ReceiptCoversBlock

(* A failing call ends the processor with its error recorded.              *)
LEMMA FailIInv ==
  ASSUME IInv, ProcessTransactionResult,
         processorError' = TRUE, processorRunning' = FALSE, doneClosed' = TRUE,
         chunks' \in
           {chunks,
            Append(chunks,
                   [collection |-> CollectionOf[Head(processorInputChan)],
                    txns |-> Append(currentCollectionTxns,
                                    Head(processorInputChan))])},
         spockSignatures' \in
           {spockSignatures,
            Append(spockSignatures, CollectionOf[Head(processorInputChan)])},
         currentCollectionTxns' \in {currentCollectionTxns, <<>>}
  PROVE  IInv'
<1>1. TypeOK'
  <2>1. /\ processorInputChan' \in Seq(Txns)
        /\ Len(processorInputChan') <= numTransactions
        /\ Append(currentCollectionTxns, Head(processorInputChan)) \in Seq(Txns)
        /\ CollectionOf[Head(processorInputChan)] \in Nat
        /\ UNCHANGED <<inputClosed, executor, nextTxn, receipt>>
    BY ProcessCommon
  <2>2. /\ chunks \in Seq([collection : Nat, txns : Seq(Txns)])
        /\ spockSignatures \in Seq(Nat)
        /\ currentCollectionTxns \in Seq(Txns)
    BY DEF IInv, TypeOK
  <2>3. chunks' \in Seq([collection : Nat, txns : Seq(Txns)])
    <3>1. [collection |-> CollectionOf[Head(processorInputChan)],
           txns |-> Append(currentCollectionTxns, Head(processorInputChan))]
            \in [collection : Nat, txns : Seq(Txns)]
      BY <2>1
    <3>2. Append(chunks,
                 [collection |-> CollectionOf[Head(processorInputChan)],
                  txns |-> Append(currentCollectionTxns,
                                  Head(processorInputChan))])
            \in Seq([collection : Nat, txns : Seq(Txns)])
      BY <2>2, <3>1, AppendProperties
    <3>3. QED
      BY <2>2, <3>2
  <2>4. spockSignatures' \in Seq(Nat)
    <3>1. Append(spockSignatures, CollectionOf[Head(processorInputChan)])
            \in Seq(Nat)
      BY <2>1, <2>2, AppendProperties
    <3>2. QED
      BY <2>2, <3>1
  <2>5. currentCollectionTxns' \in Seq(Txns)
    BY <2>2, EmptySeq
  <2>6. QED
    BY <2>1, <2>3, <2>4, <2>5 DEF IInv, TypeOK
<1>2. QED BY <1>1, ProcessCommon DEF IInv, ReceiptCoversBlock

LEMMA ProcessIInv ==
  ASSUME IInv, ProcessTransactionResult PROVE IInv'
  BY ProcessBranches, MergeIInv, CommitIInv, FailIInv, Zenon

LEMMA NextIInv ==
  ASSUME IInv, [Next]_vars PROVE IInv'
<1>1. CASE AddTransactionResult BY <1>1, AddTransactionResultIInv
<1>2. CASE Stop BY <1>2, StopIInv
<1>3. CASE FinalizeStop BY <1>3, FinalizeStopIInv
<1>4. CASE FinalizeReturn BY <1>4, FinalizeReturnIInv
<1>5. CASE ProcessTransactionResult BY <1>5, ProcessIInv
<1>6. CASE ProcessorExits BY <1>6, ProcessorExitsIInv
<1>7. CASE UNCHANGED vars
  BY <1>7 DEF vars, IInv, TypeOK, ProcessorInv, ReceiptCoversBlock,
              Processed, Start
<1>8. QED BY <1>1, <1>2, <1>3, <1>4, <1>5, <1>6, <1>7
            DEF Next, Executor, Processor

-----------------------------------------------------------------------------
THEOREM InvariantHolds == Spec => []IInv
  BY InitIInv, NextIInv, PTL DEF Spec

(***************************************************************************)
(* The collector's state is always well typed, in particular the channel   *)
(* never holds more than the block's results (its buffer size).            *)
(***************************************************************************)
THEOREM CollectorTypeCorrect == Spec => []TypeOK
  BY InvariantHolds, PTL DEF IInv

(***************************************************************************)
(* For every block and every set of failing calls, a receipt Finalize      *)
(* returns without error holds one chunk per collection, in order, each    *)
(* with exactly that collection's transactions, and one SPoCK per chunk.   *)
(***************************************************************************)
THEOREM ReceiptCorrect == Spec => []ReceiptCoversBlock
  BY InvariantHolds, PTL DEF IInv

=============================================================================
