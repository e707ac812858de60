----------------------- MODULE MetricsProviderProofs -----------------------
(***************************************************************************)
(* Proofs about MetricsProvider for every ring size and height width:      *)
(* the type invariant, and that the ring always holds the metrics of the   *)
(* last bufferSize heights (RingHoldsLastHeights), from which a read of    *)
(* any height inside that window is correct (ReadReturnsWindow).           *)
(***************************************************************************)
EXTENDS MetricsProvider, TLAPS

(***************************************************************************)
(* Arithmetic of the slot index, all modulo bufferSize.                    *)
(***************************************************************************)
LEMMA ModInSlots ==
  ASSUME NEW x \in Int
  PROVE  x % bufferSize \in Slots
BY BufferSizeAssumption DEF BufferSizeAssumption, Slots

LEMMA ModOfSlot ==
  ASSUME NEW d \in Slots
  PROVE  d % bufferSize = d
BY BufferSizeAssumption DEF BufferSizeAssumption, Slots

LEMMA ModDecompose ==
  ASSUME NEW x \in Int
  PROVE  x = (x \div bufferSize) * bufferSize + (x % bufferSize)
BY BufferSizeAssumption, Z3 DEF BufferSizeAssumption

LEMMA ModUnique ==
  ASSUME NEW x \in Int, NEW q \in Int, NEW r \in Slots,
         x = q * bufferSize + r
  PROVE  x % bufferSize = r
BY BufferSizeAssumption, Z3 DEF BufferSizeAssumption, Slots

(* Adding a multiple of the ring size does not move a slot.              *)
LEMMA ModMultiple ==
  ASSUME NEW x \in Int, NEW k \in Int
  PROVE  (x + k * bufferSize) % bufferSize = x % bufferSize
<1>1. x + k * bufferSize
        = ((x \div bufferSize) + k) * bufferSize + (x % bufferSize)
  BY ModDecompose, BufferSizeAssumption DEF BufferSizeAssumption
<1>2. /\ (x \div bufferSize) + k \in Int
      /\ x % bufferSize \in Slots
      /\ x + k * bufferSize \in Int
  BY ModInSlots, BufferSizeAssumption DEF BufferSizeAssumption
<1>3. QED
  BY <1>1, <1>2, ModUnique, Zenon

LEMMA ModAddRing ==
  ASSUME NEW x \in Int
  PROVE  (x + bufferSize) % bufferSize = x % bufferSize
<1>1. x + bufferSize = x + 1 * bufferSize
  BY BufferSizeAssumption DEF BufferSizeAssumption
<1>2. QED
  BY <1>1, ModMultiple

LEMMA ModOfMod ==
  ASSUME NEW x \in Int, NEW y \in Int
  PROVE  ((x % bufferSize) + y) % bufferSize = (x + y) % bufferSize
<1>1. /\ -(x \div bufferSize) \in Int
      /\ (x % bufferSize) + y = (x + y) + (-(x \div bufferSize)) * bufferSize
  BY ModDecompose, BufferSizeAssumption DEF BufferSizeAssumption
<1>2. x + y \in Int
  OBVIOUS
<1>3. QED
  BY <1>1, <1>2, ModMultiple, Zenon

(* The offset of slot (x - d) % bufferSize behind x is d again.            *)
LEMMA ModDistance ==
  ASSUME NEW x \in Int, NEW d \in Slots
  PROVE  (x - ((x - d) % bufferSize)) % bufferSize = d
<1> DEFINE q == (x - d) \div bufferSize
<1> USE BufferSizeAssumption DEF BufferSizeAssumption
<1>1. d \in Int /\ x - d \in Int /\ q \in Int
  BY DEF Slots
<1>2. x - d = q * bufferSize + ((x - d) % bufferSize)
  BY <1>1, ModDecompose, Zenon
<1>5. x - ((x - d) % bufferSize) = d + q * bufferSize
  <2>1. (x - d) % bufferSize \in Int /\ q * bufferSize \in Int
    BY <1>1, ModInSlots DEF Slots
  <2>2. \A r, m \in Int : x - d = m + r => x - r = d + m
    BY <1>1
  <2>3. QED
    BY <1>2, <2>1, <2>2, Zenon
<1>3. (d + q * bufferSize) % bufferSize = d % bufferSize
  BY <1>1, ModMultiple
<1>4. QED
  BY <1>5, <1>3, ModOfSlot

-----------------------------------------------------------------------------
(* Nothing has been pushed above the most recent height.                   *)
NothingPushedAbove ==
  \A h \in Heights : h > blockHeightAtBufferIndex => pushed[h] = Nil

(* The inductive strengthening of RingHoldsLastHeights.                    *)
IInv == TypeOK /\ RingHoldsLastHeights /\ NothingPushedAbove

LEMMA MaxHeightInt == MaxHeight \in Int
BY HeightBitsAssumption DEF MaxHeight, HeightBitsAssumption

LEMMA HeightsFacts == Heights \subseteq Nat
BY HeightBitsAssumption DEF MaxHeight, Heights

(***************************************************************************)
(* Type correctness.                                                       *)
(***************************************************************************)
LEMMA TypeInit == Init => TypeOK
BY BufferSizeAssumption DEF Init, TypeOK, Slots

LEMMA TypeStep == TypeOK /\ [Next]_vars => TypeOK'
<1> SUFFICES ASSUME TypeOK, [Next]_vars PROVE TypeOK'
  OBVIOUS
<1>1. CASE UNCHANGED vars
  BY <1>1 DEF TypeOK, vars
<1>2. ASSUME NEW h \in Heights, NEW d \in Data \cup {Nil}, PushIgnored(h)
      PROVE  TypeOK'
  BY <1>2 DEF PushIgnored, TypeOK, vars
<1>3. ASSUME NEW h \in Heights, NEW d \in Data \cup {Nil}, PushAccepted(h, d)
      PROVE  TypeOK'
  <2> DEFINE n == h - blockHeightAtBufferIndex
  <2>1. n \in Int
    BY HeightsFacts DEF TypeOK
  <2>2. bufferIndex' \in Slots
    BY <1>3, <2>1, ModInSlots DEF PushAccepted, TypeOK, Slots
  <2>3. buffer' \in [Slots -> Data \cup {Nil}]
    BY <1>3 DEF PushAccepted, PushedBuffer, TypeOK
  <2>4. pushed' \in [Heights -> Data \cup {Nil}]
    BY <1>3 DEF PushAccepted, TypeOK
  <2>5. QED
    BY <1>3, <2>2, <2>3, <2>4 DEF PushAccepted, TypeOK
<1>4. QED
  BY <1>1, <1>2, <1>3 DEF Next, Push

(* The provider's fields always have their types.                          *)
THEOREM TypeCorrect == Spec => []TypeOK
BY TypeInit, TypeStep, PTL DEF Spec

-----------------------------------------------------------------------------
(***************************************************************************)
(* The ring invariant.  A Push of n heights writes, for each offset e      *)
(* behind the new bufferIndex, the slot (bufferIndex + n - e) % bufferSize *)
(* last at call n - e: the data for e = 0, nil for the skipped heights     *)
(* 0 < e < n (nothing was pushed there, by NothingPushedAbove), and for    *)
(* e >= n nothing at all, so that slot still holds height h - e, which was *)
(* e - n behind the old bufferIndex.                                       *)
(***************************************************************************)
LEMMA IInvInit == Init => IInv
<1> SUFFICES ASSUME Init PROVE IInv
  OBVIOUS
<1>1. TypeOK
  BY TypeInit
<1>2. RingHoldsLastHeights
  <2> SUFFICES ASSUME NEW e \in Slots
               PROVE  buffer[(bufferIndex + bufferSize - e) % bufferSize]
                        = PushedAt(blockHeightAtBufferIndex - e)
    BY DEF RingHoldsLastHeights
  <2>1. bufferIndex + bufferSize - e \in Int
    BY BufferSizeAssumption DEF Init, Slots, BufferSizeAssumption
  <2>2. (bufferIndex + bufferSize - e) % bufferSize \in Slots
    BY <2>1, ModInSlots
  <2>3. QED
    BY <2>2 DEF Init, PushedAt
<1>3. NothingPushedAbove
  BY DEF Init, NothingPushedAbove
<1>4. QED
  BY <1>1, <1>2, <1>3 DEF IInv

LEMMA RingStep ==
  ASSUME IInv, NEW h \in Heights, NEW v \in Data \cup {Nil},
         PushAccepted(h, v)
  PROVE  RingHoldsLastHeights'
<1> USE BufferSizeAssumption DEF BufferSizeAssumption
<1> DEFINE bh == blockHeightAtBufferIndex
           n == h - bh
           x == bufferIndex + n
<1>1. /\ bh \in Nat /\ h \in Nat /\ n \in Nat \ {0}
      /\ bufferIndex \in Slots /\ x \in Int
  BY HeightsFacts DEF IInv, TypeOK, PushAccepted, Slots
<1> SUFFICES ASSUME NEW e \in Slots
             PROVE  buffer'[(bufferIndex' + bufferSize - e) % bufferSize]
                      = PushedAt(h - e)'
  BY DEF RingHoldsLastHeights, PushAccepted
<1>0. e \in Nat /\ e < bufferSize
  BY DEF Slots
<1> DEFINE s == (x - e) % bufferSize
<1>2. (bufferIndex' + bufferSize - e) % bufferSize = s
  <2>1. bufferIndex' = x % bufferSize
    BY DEF PushAccepted
  <2>2. bufferSize - e \in Int /\ x - e \in Int
    BY <1>0, <1>1
  <2>3. ((x % bufferSize) + (bufferSize - e)) % bufferSize
          = (x + (bufferSize - e)) % bufferSize
    BY <1>1, <2>2, ModOfMod
  <2>4. (x - e + bufferSize) % bufferSize = s
    BY <2>2, ModAddRing
  <2>5. /\ bufferIndex' + bufferSize - e = (x % bufferSize) + (bufferSize - e)
        /\ x + (bufferSize - e) = x - e + bufferSize
    BY <2>1, <1>0, <1>1, ModInSlots DEF Slots
  <2>6. QED
    BY <2>3, <2>4, <2>5
<1>3. s \in Slots
  BY <1>0, <1>1, ModInSlots
<1>4. LastWriteOf(s, n) = n - e
  <2>1. (x - s) % bufferSize = e
    BY <1>1, ModDistance, Zenon DEF s
  <2>2. bufferIndex + n - s = x - s
    BY <1>1, <1>3 DEF Slots
  <2>3. QED
    BY <2>1, <2>2 DEF LastWriteOf
<1>5. buffer'[s] = PushedBuffer(n, v)[s]
  BY DEF PushAccepted
<1>6. pushed' = [pushed EXCEPT ![h] = v]
  BY DEF PushAccepted
<1>7. CASE e = 0
  <2>1. buffer'[s] = v
    BY <1>1, <1>3, <1>4, <1>5, <1>7 DEF PushedBuffer
  <2>2. PushedAt(h - e)' = v
    BY <1>6, <1>7, <1>1 DEF PushedAt, IInv, TypeOK
  <2>3. QED
    BY <1>2, <2>1, <2>2
<1>8. CASE 0 < e /\ e < n
  <2>1. n - e # n /\ n - e >= 1
    BY <1>0, <1>1, <1>8
  <2>2. buffer'[s] = Nil
    BY <1>0, <1>1, <1>3, <1>4, <1>5, <2>1 DEF PushedBuffer
  <2>3. h - e \in Heights /\ h - e > bh /\ h - e # h
    <3>1. h - e > bh /\ h - e # h /\ h - e \in Int /\ 0 <= h - e /\ h - e <= h
      BY <1>0, <1>1, <1>8
    <3>2. QED
      BY <3>1, MaxHeightInt DEF Heights
  <2>4. PushedAt(h - e)' = pushed[h - e]
    BY <1>6, <2>3 DEF PushedAt, IInv, TypeOK
  <2>5. pushed[h - e] = Nil
    BY <2>3 DEF IInv, NothingPushedAbove
  <2>6. QED
    BY <1>2, <2>2, <2>4, <2>5
<1>9. CASE e >= n
  <2>1. n - e < 1
    BY <1>0, <1>1, <1>9
  <2>2. buffer'[s] = buffer[s]
    BY <1>3, <1>4, <1>5, <2>1 DEF PushedBuffer
  <2>3. e - n \in Slots
    BY <1>0, <1>1, <1>9 DEF Slots
  <2>4. s = (bufferIndex + bufferSize - (e - n)) % bufferSize
    <3>1. bufferIndex + bufferSize - (e - n) = (x - e) + bufferSize
      BY <1>0, <1>1
    <3>2. x - e \in Int
      BY <1>0, <1>1
    <3>4. ((x - e) + bufferSize) % bufferSize = s
      BY <3>2, ModAddRing, Zenon DEF s
    <3>3. QED
      BY <3>1, <3>4
  <2>5. buffer[s] = PushedAt(bh - (e - n))
    BY <2>3, <2>4 DEF IInv, RingHoldsLastHeights
  <2>6. bh - (e - n) = h - e /\ h - e # h
    BY <1>0, <1>1, <1>9
  <2>7. PushedAt(h - e)' = PushedAt(h - e)
    BY <1>6, <2>6 DEF PushedAt, IInv, TypeOK
  <2>8. QED
    BY <1>2, <2>2, <2>5, <2>6, <2>7
<1>10. QED
  BY <1>0, <1>1, <1>7, <1>8, <1>9

LEMMA IInvStep == IInv /\ [Next]_vars => IInv'
<1> SUFFICES ASSUME IInv, [Next]_vars PROVE IInv'
  OBVIOUS
<1>1. TypeOK'
  BY TypeStep DEF IInv
<1>2. CASE UNCHANGED vars
  BY <1>1, <1>2 DEF IInv, vars, RingHoldsLastHeights, NothingPushedAbove,
                    PushedAt
<1>3. ASSUME NEW h \in Heights, NEW v \in Data \cup {Nil}, PushIgnored(h)
      PROVE  IInv'
  BY <1>1, <1>3 DEF PushIgnored, IInv, vars, RingHoldsLastHeights,
                    NothingPushedAbove, PushedAt
<1>4. ASSUME NEW h \in Heights, NEW v \in Data \cup {Nil}, PushAccepted(h, v)
      PROVE  IInv'
  <2>1. RingHoldsLastHeights'
    BY <1>4, RingStep
  <2>2. NothingPushedAbove'
    BY <1>4, HeightsFacts DEF PushAccepted, NothingPushedAbove, IInv, TypeOK
  <2>3. QED
    BY <1>1, <2>1, <2>2 DEF IInv
<1>5. QED
  BY <1>2, <1>3, <1>4 DEF Next, Push

(* The provider's ring always holds the metrics of the last bufferSize    *)
(* heights, across gaps in Push and wrap-arounds of bufferIndex.           *)
THEOREM RingCorrect == Spec => []RingHoldsLastHeights
<1>1. Spec => []IInv
  BY IInvInit, IInvStep, PTL DEF Spec
<1>2. QED
  BY <1>1, PTL DEF IInv

-----------------------------------------------------------------------------
(***************************************************************************)
(* A read inside the window.  For q < h <= blockHeightAtBufferIndex, q + 1 *)
(* does not wrap, so the loop starts at or below h; h is fewer than        *)
(* bufferSize heights behind the most recent one, so SlotOfHeight(h) is    *)
(* the slot the ring invariant assigns to h.                               *)
(***************************************************************************)
LEMMA WindowFromRing == IInv => ReadReturnsWindow
<1> USE BufferSizeAssumption DEF BufferSizeAssumption
<1> SUFFICES ASSUME IInv, NEW q \in Heights, NEW h \in Heights,
                    h > q, h <= blockHeightAtBufferIndex,
                    h + bufferSize > blockHeightAtBufferIndex
             PROVE  LET r == GetTransactionExecutionMetricsAfter(q) IN
                    IF pushed[h] = Nil THEN h \notin DOMAIN r
                                       ELSE h \in DOMAIN r /\ r[h] = pushed[h]
  BY DEF ReadReturnsWindow
<1> DEFINE bh == blockHeightAtBufferIndex
           e == bh - h
<1>1. /\ q \in Nat /\ h \in Nat /\ bh \in Nat /\ bufferIndex \in Slots
      /\ bh <= MaxHeight /\ MaxHeight \in Int
  BY HeightsFacts, MaxHeightInt DEF IInv, TypeOK, Heights
<1>2. (q + 1) % (MaxHeight + 1) = q + 1
  <2>1. /\ MaxHeight + 1 \in Nat \ {0}
        /\ q + 1 \in Int /\ 0 <= q + 1 /\ q + 1 < MaxHeight + 1
    BY <1>1
  <2>2. \A m \in Nat \ {0} : \A a \in Int : 0 <= a /\ a < m => a % m = a
    OBVIOUS
  <2>3. QED
    BY <2>1, <2>2, Zenon
<1>3. e \in Slots
  BY <1>1 DEF Slots
<1>4. SlotOfHeight(h) = (bufferIndex + bufferSize - e) % bufferSize
  BY DEF SlotOfHeight
<1>5. buffer[SlotOfHeight(h)] = pushed[h]
  <2>1. buffer[(bufferIndex + bufferSize - e) % bufferSize] = PushedAt(bh - e)
    BY <1>3 DEF IInv, RingHoldsLastHeights
  <2>2. bh - e = h
    BY <1>1
  <2>3. QED
    BY <1>4, <2>1, <2>2 DEF PushedAt
<1>6. LET lowest == IF bh > bufferSize THEN bh - bufferSize ELSE 0
          startHeight == IF q + 1 > lowest THEN q + 1 ELSE lowest
      IN  /\ ~(q + 1 > bh)
          /\ h \in startHeight .. bh
  BY <1>1
<1>7. QED
  BY <1>2, <1>5, <1>6 DEF GetTransactionExecutionMetricsAfter

(* A read returns exactly the pushed metrics of every height above the    *)
(* queried one within the last bufferSize heights, for every ring size,   *)
(* height width and history of pushes.                                    *)
THEOREM ReadWindowCorrect == Spec => []ReadReturnsWindow
<1>1. Spec => []IInv
  BY IInvInit, IInvStep, PTL DEF Spec
<1>2. QED
  BY <1>1, WindowFromRing, PTL

=============================================================================
