--------------------------- MODULE TestBackendProofs ---------------------------
(***************************************************************************)
(* Proofs about the test backend's value store: for every byte alphabet    *)
(* and every set of owners of one length, getSimpleValueStore behaves as   *)
(* one register per (owner, key).  The argument is that fullKey is         *)
(* injective on owners of one length: the owner is the first Len(owner)    *)
(* bytes of the full key and the key is what follows the separator, even   *)
(* when the key itself holds separator bytes.                              *)
(***************************************************************************)
EXTENDS TestBackend, SequenceTheorems, TLAPS

(* The parts of the state the store's proof is about.                      *)
TypeP ==
  /\ \A fk \in DOMAIN data : data[fk] \in Values
  /\ written \in [Owners \X Keys -> Values]

(* Every register reads what was last written to it.                       *)
Stored == \A o \in Owners, k \in Keys : GetValue(o, k) = written[<<o, k>>]

IInv == TypeP /\ Stored

-----------------------------------------------------------------------------
(* A full key is the owner's bytes, the separator, then the key's bytes.   *)
LEMMA FullKeyBytes ==
  ASSUME NEW o \in Seq(Bytes), NEW k \in Seq(Bytes)
  PROVE  /\ fullKey(o, k) \in Seq(Bytes)
         /\ Len(fullKey(o, k)) = Len(o) + 1 + Len(k)
         /\ \A i \in 1 .. Len(o) : fullKey(o, k)[i] = o[i]
         /\ \A j \in 1 .. Len(k) : fullKey(o, k)[Len(o) + 1 + j] = k[j]
<1>1. <<Tilde>> \in Seq(Bytes) /\ Len(<<Tilde>>) = 1
  BY BackendConstantsAssumption
<1>2. /\ o \o <<Tilde>> \in Seq(Bytes)
      /\ Len(o \o <<Tilde>>) = Len(o) + 1
      /\ \A i \in 1 .. Len(o) : (o \o <<Tilde>>)[i] = o[i]
  BY <1>1, ConcatProperties
<1>3. /\ (o \o <<Tilde>>) \o k \in Seq(Bytes)
      /\ Len((o \o <<Tilde>>) \o k) = Len(o) + 1 + Len(k)
      /\ \A i \in 1 .. Len(o) + 1 + Len(k) :
           ((o \o <<Tilde>>) \o k)[i] =
             IF i <= Len(o) + 1 THEN (o \o <<Tilde>>)[i]
             ELSE k[i - (Len(o) + 1)]
  BY <1>2, ConcatProperties
<1>4. QED
  BY <1>2, <1>3 DEF fullKey

(* fullKey is injective on owners of one length.                           *)
LEMMA FullKeyInjective ==
  ASSUME NEW o1 \in Owners, NEW o2 \in Owners, NEW k1 \in Keys,
         NEW k2 \in Keys, fullKey(o1, k1) = fullKey(o2, k2)
  PROVE  o1 = o2 /\ k1 = k2
<1>1. /\ o1 \in Seq(Bytes) /\ o2 \in Seq(Bytes)
      /\ k1 \in Seq(Bytes) /\ k2 \in Seq(Bytes)
      /\ Len(o1) = Len(o2)
  BY BackendConstantsAssumption
<1>2. /\ Len(fullKey(o1, k1)) = Len(o1) + 1 + Len(k1)
      /\ \A i \in 1 .. Len(o1) : fullKey(o1, k1)[i] = o1[i]
      /\ \A j \in 1 .. Len(k1) : fullKey(o1, k1)[Len(o1) + 1 + j] = k1[j]
  BY <1>1, FullKeyBytes
<1>3. /\ Len(fullKey(o2, k2)) = Len(o2) + 1 + Len(k2)
      /\ \A i \in 1 .. Len(o2) : fullKey(o2, k2)[i] = o2[i]
      /\ \A j \in 1 .. Len(k2) : fullKey(o2, k2)[Len(o2) + 1 + j] = k2[j]
  BY <1>1, FullKeyBytes
<1>4. Len(k1) = Len(k2)
  BY <1>1, <1>2, <1>3
<1>5. o1 = o2
  BY <1>1, <1>2, <1>3, SeqEqual
<1>6. k1 = k2
  BY <1>1, <1>2, <1>3, <1>4, SeqEqual
<1>7. QED
  BY <1>5, <1>6

-----------------------------------------------------------------------------
LEMMA InitIInv == Init => IInv
BY BackendConstantsAssumption DEF Init, IInv, TypeP, Stored, GetValue

(* Writing one register leaves every other one as it was.                  *)
LEMMA SetValueIInv ==
  ASSUME IInv, NEW o \in Owners, NEW k \in Keys, NEW v \in Values,
         SetValue(o, k, v)
  PROVE  IInv'
<1>1. TypeP'
  BY DEF IInv, TypeP, SetValue, MapPut
<1>2. ASSUME NEW o2 \in Owners, NEW k2 \in Keys
      PROVE  GetValue(o2, k2)' = written'[<<o2, k2>>]
  <2>1. CASE <<o2, k2>> = <<o, k>>
    BY <2>1 DEF IInv, TypeP, SetValue, MapPut, GetValue
  <2>2. CASE <<o2, k2>> # <<o, k>>
    <3>1. fullKey(o2, k2) # fullKey(o, k)
      BY <2>2, FullKeyInjective
    <3>2. GetValue(o2, k2) = written[<<o2, k2>>]
      BY DEF IInv, Stored
    <3>3. QED
      BY <2>2, <3>1, <3>2 DEF IInv, TypeP, SetValue, MapPut, GetValue
  <2>3. QED
    BY <2>1, <2>2
<1>3. QED
  BY <1>1, <1>2 DEF IInv, Stored

LEMMA NextIInv == IInv /\ [Next]_vars => IInv'
<1> SUFFICES ASSUME IInv, [Next]_vars PROVE IInv'
  OBVIOUS
<1>1. CASE \E o \in Owners, k \in Keys, v \in Values : SetValue(o, k, v)
  BY <1>1, SetValueIInv
<1>2. CASE \E o \in Owners : AllocateStorageIndex(o)
  BY <1>2 DEF AllocateStorageIndex, IInv, TypeP, Stored, GetValue
<1>3. CASE \E t \in EventTypes, v \in Values : EmitFlowEvent(t, v)
  BY <1>3 DEF EmitFlowEvent, IInv, TypeP, Stored, GetValue
<1>4. CASE DropEvents
  BY <1>4 DEF DropEvents, IInv, TypeP, Stored, GetValue
<1>5. CASE \E i \in Intensities : MeterComputation(i)
  BY <1>5 DEF MeterComputation, IInv, TypeP, Stored, GetValue
<1>6. CASE UNCHANGED vars
  BY <1>6 DEF vars, IInv, TypeP, Stored, GetValue
<1>7. QED
  BY <1>1, <1>2, <1>3, <1>4, <1>5, <1>6 DEF Next

(* A register holds a non-empty value exactly when its bytes are some.     *)
LEMMA IInvStore == IInv => StoreReadsLastWrite
<1> SUFFICES ASSUME IInv, NEW o \in Owners, NEW k \in Keys
             PROVE  /\ GetValue(o, k) = written[<<o, k>>]
                    /\ ValueExists(o, k) <=> written[<<o, k>>] # <<>>
  BY DEF StoreReadsLastWrite
<1>1. GetValue(o, k) = written[<<o, k>>]
  BY DEF IInv, Stored
<1>2. written[<<o, k>>] \in Seq(Bytes)
  BY BackendConstantsAssumption DEF IInv, TypeP
<1>3. Len(written[<<o, k>>]) > 0 <=> written[<<o, k>>] # <<>>
  BY <1>2, EmptySeq, LenProperties
<1>4. QED
  BY <1>1, <1>3 DEF ValueExists

-----------------------------------------------------------------------------
(***************************************************************************)
(* For every byte alphabet and every set of owners of one length, the test *)
(* value store reads back the last value written under an owner and a key  *)
(* (StoreReadsLastWrite), whatever the order of the backend calls.         *)
(***************************************************************************)
THEOREM StoreIsRegisterPerKey == Spec => []StoreReadsLastWrite
<1>1. Init => IInv
  BY InitIInv
<1>2. IInv /\ [Next]_vars => IInv'
  BY NextIInv
<1>3. IInv => StoreReadsLastWrite
  BY IInvStore
<1>4. QED
  BY <1>1, <1>2, <1>3, PTL DEF Spec

=============================================================================
