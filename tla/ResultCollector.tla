--------------------------- MODULE ResultCollector ---------------------------
(***************************************************************************)
(* The execution node's block result collector                             *)
(* (engine/execution/computation/computer/result_collector.go).            *)
(*                                                                         *)
(* Two goroutines share it.  The block executor calls AddTransaction-      *)
(* Result for each transaction of the block, in block order, then          *)
(* Finalize, and Stop again on return (deferred).  The processor goroutine *)
(* (runResultProcessor) ranges over the buffered processorInputChan,       *)
(* merging each transaction's snapshot into the current collection state   *)
(* and, at the last transaction of a collection, committing the            *)
(* collection: an attestation (chunk) and a SPoCK signature are appended   *)
(* and the collection state is reset.  On the first error it records       *)
(* processorError and exits; its deferred close of processorDoneChan       *)
(* unblocks Finalize and any AddTransactionResult blocked on a full        *)
(* channel.                                                                *)
(*                                                                         *)
(* A transaction is its position in the block; its snapshot, events and    *)
(* output are abstracted to that identity.  Each fallible call of the      *)
(* processor (Merge; CommitView or EventsMerkleRootHash; SignFunc; a       *)
(* consumer) and of Finalize (Provide, the receipt signature) may fail.    *)
(***************************************************************************)
EXTENDS Integers, Sequences, FiniteSets

CONSTANTS
  CollectionOf,   \* transaction position -> index of its collection
  Failures        \* the fallible calls that may fail in a run

ASSUME CollectionOfAssumption ==
  /\ CollectionOf \in Seq(Nat)
  /\ Len(CollectionOf) > 0
  /\ CollectionOf[1] = 0
  /\ \A i \in 1 .. Len(CollectionOf) - 1 :
       CollectionOf[i + 1] \in {CollectionOf[i], CollectionOf[i] + 1}

FailurePoints ==
  {"merge", "commit", "sign", "consumer", "provide", "receipt"}

ASSUME FailuresAssumption == Failures \subseteq FailurePoints

numTransactions == Len(CollectionOf)
Txns == 1 .. numTransactions
numCollections == CollectionOf[numTransactions] + 1

(* transactionRequest.lastTransactionInCollection                          *)
LastTransactionInCollection(t) ==
  IF t = numTransactions THEN TRUE ELSE CollectionOf[t + 1] # CollectionOf[t]

VARIABLES
  processorInputChan,    \* the buffered transaction results, in order
  inputClosed,           \* processorInputChan has been closed
  doneClosed,            \* processorDoneChan has been closed
  processorRunning,      \* the processor goroutine has not exited
  processorError,        \* processorError # nil
  currentCollectionTxns, \* the transactions merged into the collection state
  chunks,                \* the attestations appended to the result
  spockSignatures,       \* the collections whose SPoCK was appended
  executor,              \* the executor's place in its calls
  nextTxn,               \* the next transaction the executor adds
  receipt                \* what Finalize returned: an error or the result

vars == <<processorInputChan, inputClosed, doneClosed, processorRunning,
          processorError, currentCollectionTxns, chunks, spockSignatures,
          executor, nextTxn, receipt>>

NoReceipt == [ok |-> FALSE]
ErrorReceipt == [ok |-> FALSE, err |-> TRUE]

(* newResultCollector, with the processor goroutine started.               *)
Init ==
  /\ processorInputChan = <<>>
  /\ inputClosed = FALSE
  /\ doneClosed = FALSE
  /\ processorRunning = TRUE
  /\ processorError = FALSE
  /\ currentCollectionTxns = <<>>
  /\ chunks = <<>>
  /\ spockSignatures = <<>>
  /\ executor = "adding"
  /\ nextTxn = 1
  /\ receipt = NoReceipt

-----------------------------------------------------------------------------
(***************************************************************************)
(* The executor.                                                           *)
(***************************************************************************)

(* Mutant: the executor adds results past the end of the block.         *)
AddTransactionResultUnbounded ==
  /\ executor = "adding"
  /\ Len(processorInputChan) < numTransactions
  /\ processorInputChan' = Append(processorInputChan, nextTxn)
  /\ nextTxn' = nextTxn + 1
  /\ UNCHANGED <<inputClosed, doneClosed, processorRunning, processorError,
                 currentCollectionTxns, chunks, spockSignatures, executor,
                 receipt>>

(* AddTransactionResult of the next transaction in block order: the       *)
(* select sends into the channel when it has room, or returns when the     *)
(* processor is done; Go picks either when both are ready.               *)
AddTransactionResult ==
  /\ executor = "adding"
  /\ nextTxn \in Txns
  /\ \/ /\ Len(processorInputChan) < numTransactions
        /\ processorInputChan' = Append(processorInputChan, nextTxn)
     \/ /\ doneClosed
        /\ UNCHANGED processorInputChan
  /\ nextTxn' = nextTxn + 1
  /\ UNCHANGED <<inputClosed, doneClosed, processorRunning, processorError,
                 currentCollectionTxns, chunks, spockSignatures, executor,
                 receipt>>

(* Stop: closeOnce.Do(close(processorInputChan)); the sync.Once makes a    *)
(* second call a no-op instead of a close of a closed channel.             *)
CloseInputOnce == inputClosed' = TRUE

(* The executor calls Stop without Finalize when executing a transaction   *)
(* fails, and again (deferred) after Finalize returned.                    *)
Stop ==
  /\ executor \in {"adding", "returned"}
  /\ CloseInputOnce
  /\ executor' = "stopped"
  /\ UNCHANGED <<processorInputChan, doneClosed, processorRunning,
                 processorError, currentCollectionTxns, chunks,
                 spockSignatures, nextTxn, receipt>>

(* Finalize, once every transaction was added: Stop, then block on         *)
(* <-processorDoneChan.                                                    *)
FinalizeStop ==
  /\ executor = "adding"
  /\ nextTxn = numTransactions + 1
  /\ CloseInputOnce
  /\ executor' = "waitDone"
  /\ UNCHANGED <<processorInputChan, doneClosed, processorRunning,
                 processorError, currentCollectionTxns, chunks,
                 spockSignatures, nextTxn, receipt>>

(* Finalize, once the processor is done: return its error, or provide the  *)
(* execution data and sign the receipt over the chunks and SPoCKs          *)
(* (GenerateExecutionReceipt), either of which may fail.                   *)
FinalizeReturn ==
  /\ executor = "waitDone"
  /\ doneClosed
  /\ \/ /\ processorError
        /\ receipt' = ErrorReceipt
     \/ /\ ~processorError
        /\ \E f \in (Failures \cap {"provide", "receipt"}) \cup {"none"} :
             receipt' = IF f = "none"
                          THEN [ok |-> TRUE, chunks |-> chunks,
                                spocks |-> spockSignatures]
                          ELSE ErrorReceipt
  /\ executor' = "returned"
  /\ UNCHANGED <<processorInputChan, inputClosed, doneClosed,
                 processorRunning, processorError, currentCollectionTxns,
                 chunks, spockSignatures, nextTxn>>

-----------------------------------------------------------------------------
(***************************************************************************)
(* The processor goroutine.                                                *)
(***************************************************************************)

(* The processor returns with err: processorError is set and the deferred  *)
(* close of processorDoneChan runs.                                        *)
(* Mutant: the error return path does not close processorDoneChan.      *)
ProcessorFailsNoClose ==
  /\ processorError' = TRUE
  /\ processorRunning' = FALSE
  /\ UNCHANGED doneClosed

ProcessorFails ==
  /\ processorError' = TRUE
  /\ processorRunning' = FALSE
  /\ doneClosed' = TRUE

(* processTransactionResult of the head of the channel, up to the first    *)
(* failing call.  A collection's commit appends the chunk before signing   *)
(* the SPoCK, and resets the collection state before calling consumers.    *)
ProcessTransactionResult ==
  LET t == Head(processorInputChan)
      merged == Append(currentCollectionTxns, t)
      chunk == [collection |-> CollectionOf[t], txns |-> merged]
  IN
  /\ processorRunning
  /\ processorInputChan # <<>>
  /\ processorInputChan' = Tail(processorInputChan)
  /\ \/ /\ "merge" \in Failures
        /\ ProcessorFails
        /\ UNCHANGED <<currentCollectionTxns, chunks, spockSignatures>>
     \/ /\ ~LastTransactionInCollection(t)
        /\ currentCollectionTxns' = merged
        /\ UNCHANGED <<processorRunning, processorError, doneClosed,
                       chunks, spockSignatures>>
     \/ /\ LastTransactionInCollection(t)
        /\ \/ /\ "commit" \in Failures
              /\ ProcessorFails
              /\ UNCHANGED <<currentCollectionTxns, chunks, spockSignatures>>
           \/ /\ "sign" \in Failures
              /\ ProcessorFails
              /\ chunks' = Append(chunks, chunk)
              /\ UNCHANGED <<currentCollectionTxns, spockSignatures>>
           \/ /\ "consumer" \in Failures
              /\ ProcessorFails
              /\ chunks' = Append(chunks, chunk)
              /\ spockSignatures' = Append(spockSignatures, CollectionOf[t])
              /\ currentCollectionTxns' = <<>>
           \/ /\ chunks' = Append(chunks, chunk)
              /\ spockSignatures' = Append(spockSignatures, CollectionOf[t])
              /\ currentCollectionTxns' = <<>>
              /\ UNCHANGED <<processorRunning, processorError, doneClosed>>
  /\ UNCHANGED <<inputClosed, executor, nextTxn, receipt>>

(* Mutant: the processor quits as soon as the channel is closed, dropping *)
(* the results still buffered in it.                                     *)
ProcessorExitsUndrained ==
  /\ processorRunning
  /\ inputClosed
  /\ processorRunning' = FALSE
  /\ doneClosed' = TRUE
  /\ UNCHANGED <<processorInputChan, inputClosed, processorError,
                 currentCollectionTxns, chunks, spockSignatures, executor,
                 nextTxn, receipt>>

(* The range loop ends on the closed, drained channel; the processor exits *)
(* and closes processorDoneChan.                                           *)
ProcessorExits ==
  /\ processorRunning
  /\ inputClosed
  /\ processorInputChan = <<>>
  /\ processorRunning' = FALSE
  /\ doneClosed' = TRUE
  /\ UNCHANGED <<processorInputChan, inputClosed, processorError,
                 currentCollectionTxns, chunks, spockSignatures, executor,
                 nextTxn, receipt>>

-----------------------------------------------------------------------------
Executor ==
  \/ AddTransactionResult \/ Stop \/ FinalizeStop \/ FinalizeReturn

Processor == ProcessTransactionResult \/ ProcessorExits

Next == Executor \/ Processor

(* Both goroutines are scheduled whenever they can run.                    *)
Spec == Init /\ [][Next]_vars /\ WF_vars(Executor) /\ WF_vars(Processor)

-----------------------------------------------------------------------------
(* The first transaction of collection c, and the number it has.          *)
FirstOfCollection(c) ==
  CHOOSE i \in Txns : /\ CollectionOf[i] = c
                      /\ \A j \in Txns : CollectionOf[j] = c => i <= j
CollectionSize(c) == Cardinality({i \in Txns : CollectionOf[i] = c})

(* The transactions of collection c, in block order.                       *)
TxnsOfCollection(c) ==
  [k \in 1 .. CollectionSize(c) |-> FirstOfCollection(c) + k - 1]

(* The chunks and SPoCKs of a completely executed block.                   *)
ExpectedChunks ==
  [i \in 1 .. numCollections |->
     [collection |-> i - 1, txns |-> TxnsOfCollection(i - 1)]]
ExpectedSpocks == [i \in 1 .. numCollections |-> i - 1]

TypeOK ==
  /\ processorInputChan \in Seq(Txns)
  /\ Len(processorInputChan) <= numTransactions
  /\ inputClosed \in BOOLEAN
  /\ doneClosed \in BOOLEAN
  /\ processorRunning \in BOOLEAN
  /\ processorError \in BOOLEAN
  /\ currentCollectionTxns \in Seq(Txns)
  /\ chunks \in Seq([collection : Nat, txns : Seq(Txns)])
  /\ spockSignatures \in Seq(Nat)
  /\ executor \in {"adding", "waitDone", "returned", "stopped"}
  /\ nextTxn \in 1 .. numTransactions + 1
  /\ receipt \in {NoReceipt, ErrorReceipt}
                 \cup [ok : {TRUE}, chunks : Seq([collection : Nat,
                                                  txns : Seq(Txns)]),
                      spocks : Seq(Nat)]

(***************************************************************************)
(* A receipt Finalize returns without error covers the whole block: one    *)
(* chunk per collection, in order, each holding exactly that collection's  *)
(* transactions, and one SPoCK per chunk.  It relies on the processor      *)
(* draining the channel after Stop closed it, on Finalize reading          *)
(* processorError only after processorDoneChan closed, on the collection   *)
(* state being reset at each commit, and on a failed commit never being    *)
(* followed by a successful Finalize.                                      *)
(***************************************************************************)
ReceiptCoversBlock ==
  receipt.ok => /\ receipt.chunks = ExpectedChunks
                /\ receipt.spocks = ExpectedSpocks

(***************************************************************************)
(* The executor always gets through: no AddTransactionResult blocks        *)
(* forever on a full channel and Finalize always returns, whether the      *)
(* processor drains the channel or exits on an error, and the processor    *)
(* goroutine always exits.                                                 *)
(***************************************************************************)
CollectorTerminates ==
  <>(executor = "stopped" /\ ~processorRunning)

=============================================================================
