-------------------------- MODULE MetricsProvider --------------------------
(***************************************************************************)
(* The transaction-execution metrics provider of the execution node        *)
(* (engine/execution/computation/metrics/provider.go).  It keeps the       *)
(* metrics of the last bufferSize executed blocks in a circular buffer:    *)
(* bufferIndex is the slot of the most recent block, whose height is       *)
(* blockHeightAtBufferIndex.  Push appends the metrics of the next height, *)
(* filling a gap of skipped heights with nil; GetTransactionExecution-     *)
(* MetricsAfter reads back every buffered height above a given one.        *)
(*                                                                         *)
(* Both methods run under the provider's RWMutex, so each is one atomic    *)
(* step here.  Heights are uint64 in the code; here they are integers of   *)
(* HeightBits bits, so that the wrap-around of height+1 is reachable.      *)
(* A metrics slice is abstracted to a model value of Data; nil and the     *)
(* empty slice (both skipped by len(d) == 0) are the model value Nil.      *)
(***************************************************************************)
EXTENDS Integers

CONSTANTS
  bufferSize,   \* the capacity of the circular buffer
  HeightBits,   \* the width of a height (64 in the code)
  Data,         \* the non-empty metrics slices a caller may push
  Nil           \* a nil or empty metrics slice

ASSUME BufferSizeAssumption == bufferSize \in Nat \ {0}
ASSUME HeightBitsAssumption == HeightBits \in Nat \ {0}
ASSUME NilAssumption == Nil \notin Data

MaxHeight == 2^HeightBits - 1
Heights == 0 .. MaxHeight
Slots == 0 .. bufferSize - 1

VARIABLES
  bufferIndex,               \* the slot holding the most recent block
  blockHeightAtBufferIndex,  \* the height of the most recent block
  buffer,                    \* slot -> metrics
  pushed                     \* history: height -> metrics pushed for it
                             \* (Nil for heights never pushed or skipped)

vars == <<bufferIndex, blockHeightAtBufferIndex, buffer, pushed>>

(***************************************************************************)
(* newProvider: an empty buffer whose most recent block is any height.     *)
(***************************************************************************)
Init ==
  /\ bufferIndex = 0
  /\ blockHeightAtBufferIndex \in Heights
  /\ buffer = [s \in Slots |-> Nil]
  /\ pushed = [h \in Heights |-> Nil]

(***************************************************************************)
(* Push of a height n blocks ahead of the most recent one runs pushData n  *)
(* times: n - 1 times with nil for the skipped heights, then with the      *)
(* data.  The k-th call writes slot (bufferIndex + k) % bufferSize, so     *)
(* the last call that writes slot s is the k below; a slot no call writes  *)
(* keeps its value, and only the n-th call writes the data.                *)
(***************************************************************************)
(* Mutant: Push writes only the data slot and leaves the gap's slots.    *)
PushedBufferNoGapFill(n, data) ==
  [buffer EXCEPT ![(bufferIndex + n) % bufferSize] = data]

LastWriteOf(s, n) == n - ((bufferIndex + n - s) % bufferSize)

PushedBuffer(n, data) ==
  [s \in Slots |->
     IF LastWriteOf(s, n) < 1 THEN buffer[s]
     ELSE IF LastWriteOf(s, n) = n THEN data
     ELSE Nil]

(***************************************************************************)
(* Push(height, data): ignored unless height is above the most recent one  *)
(* (the early return of the code, a step that changes nothing).            *)
(***************************************************************************)
PushIgnored(height) ==
  /\ height <= blockHeightAtBufferIndex
  /\ UNCHANGED vars

(* Mutant: the slot index advanced without the modulo.                   *)
PushAcceptedNoModulo(height, data) ==
  LET n == height - blockHeightAtBufferIndex IN
  /\ height > blockHeightAtBufferIndex
  /\ buffer' = PushedBuffer(n, data)
  /\ bufferIndex' = bufferIndex + n
  /\ blockHeightAtBufferIndex' = height
  /\ pushed' = [pushed EXCEPT ![height] = data]

PushAccepted(height, data) ==
  LET n == height - blockHeightAtBufferIndex IN
  /\ height > blockHeightAtBufferIndex
  /\ buffer' = PushedBuffer(n, data)
  /\ bufferIndex' = (bufferIndex + n) % bufferSize
  /\ blockHeightAtBufferIndex' = height
  /\ pushed' = [pushed EXCEPT ![height] = data]

Push(height, data) == PushIgnored(height) \/ PushAccepted(height, data)

Next == \E h \in Heights, d \in Data \cup {Nil} : Push(h, d)

Spec == Init /\ [][Next]_vars

(***************************************************************************)
(* GetTransactionExecutionMetricsAfter(height), a read under the RLock.    *)
(* height + 1 is computed in uint64 and wraps to 0 at the largest height.  *)
(* The loop visits startHeight .. blockHeightAtBufferIndex and maps a      *)
(* height h to slot (bufferIndex + bufferSize - diff) % bufferSize with    *)
(* diff = blockHeightAtBufferIndex - h; empty slots are skipped.  diff is  *)
(* at most bufferSize, so the uint sum never wraps.                        *)
(***************************************************************************)
(* Mutant: the slot of a height taken one position too far.              *)
SlotOfHeightOffByOne(h) ==
  (bufferIndex + bufferSize - (blockHeightAtBufferIndex - h) + 1) % bufferSize

SlotOfHeight(h) ==
  (bufferIndex + bufferSize - (blockHeightAtBufferIndex - h)) % bufferSize

GetTransactionExecutionMetricsAfter(height) ==
  LET next == (height + 1) % (MaxHeight + 1)
      lowest == IF blockHeightAtBufferIndex > bufferSize
                  THEN blockHeightAtBufferIndex - bufferSize ELSE 0
      startHeight == IF next > lowest THEN next ELSE lowest
      found == {h \in startHeight .. blockHeightAtBufferIndex :
                  buffer[SlotOfHeight(h)] # Nil}
  IN IF next > blockHeightAtBufferIndex
       THEN [h \in {} |-> Nil]
       ELSE [h \in found |-> buffer[SlotOfHeight(h)]]

-----------------------------------------------------------------------------
(* The metrics pushed for h, for any integer h (Nil outside the heights). *)
PushedAt(h) == IF h \in Heights THEN pushed[h] ELSE Nil

TypeOK ==
  /\ bufferIndex \in Slots
  /\ blockHeightAtBufferIndex \in Heights
  /\ buffer \in [Slots -> Data \cup {Nil}]
  /\ pushed \in [Heights -> Data \cup {Nil}]

(***************************************************************************)
(* The ring holds the last bufferSize heights: the slot d places behind    *)
(* bufferIndex holds what was pushed for the height d below the most       *)
(* recent one, and nil when that height was skipped by a gap in Push or   *)
(* precedes the provider.  This is what the gap filling and the modular    *)
(* index arithmetic of Push must maintain across wrap-arounds.             *)
(***************************************************************************)
RingHoldsLastHeights ==
  \A d \in Slots :
    buffer[(bufferIndex + bufferSize - d) % bufferSize]
      = PushedAt(blockHeightAtBufferIndex - d)

(***************************************************************************)
(* A read returns, for every height above the queried one among the last   *)
(* bufferSize heights, exactly what Push was given for it, and omits it    *)
(* when nil was pushed or the height was skipped.                          *)
(***************************************************************************)
ReadReturnsWindow ==
  \A q \in Heights :
    LET r == GetTransactionExecutionMetricsAfter(q) IN
    \A h \in Heights :
      (/\ h > q
       /\ h <= blockHeightAtBufferIndex
       /\ h + bufferSize > blockHeightAtBufferIndex)
        => IF pushed[h] = Nil THEN h \notin DOMAIN r
                              ELSE h \in DOMAIN r /\ r[h] = pushed[h]

(***************************************************************************)
(* What the code comments promise: every height a read returns carries     *)
(* the metrics pushed for that height.  The queried height is kept below  *)
(* the largest one, so that height + 1 does not wrap (that is the bug of   *)
(* ReadReturnsOnlyLaterHeights).  Violated once more than bufferSize       *)
(* heights were pushed: the loop starts at blockHeightAtBufferIndex -      *)
(* bufferSize (line 94), one height too low, whose diff is bufferSize and  *)
(* whose slot is that of the most recent height.                           *)
(***************************************************************************)
ReadReturnsOnlyPushedData ==
  \A q \in 0 .. MaxHeight - 1 :
    LET r == GetTransactionExecutionMetricsAfter(q) IN
    \A h \in DOMAIN r : r[h] = pushed[h]

(***************************************************************************)
(* A read for heights after q returns no height at or below q.  Violated   *)
(* at q = the largest height: height + 1 wraps to 0 and the whole buffer   *)
(* is returned.                                                            *)
(***************************************************************************)
ReadReturnsOnlyLaterHeights ==
  \A q \in Heights :
    \A h \in DOMAIN GetTransactionExecutionMetricsAfter(q) : h > q

=============================================================================
