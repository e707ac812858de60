------------------------------ MODULE TestBackend ------------------------------
(***************************************************************************)
(* The EVM test backend (fvm/evm/testutils/backend.go) that                *)
(* RunWithTestBackend hands to the EVM handler tests: the simple value     *)
(* store (a Go map keyed by fullKey(owner, key) plus a per-owner storage   *)
(* index allocator), the simple event emitter and the simple meter.        *)
(*                                                                         *)
(* Byte strings are sequences over a small alphabet that contains the "~"  *)
(* separator byte (Tilde).  Owners are account addresses, so they all have *)
(* one length.  uint and uint64 are UintBits wide: every sum is taken      *)
(* modulo 2^UintBits, and TestComputationLimit keeps its place one below   *)
(* the largest value.  The wrappers that panic with "method not set" are   *)
(* never reached for the methods the simple backend sets, and left out.    *)
(***************************************************************************)
EXTENDS Naturals, Sequences

CONSTANTS
  Bytes,         \* the bytes strings are made of
  Tilde,         \* the byte "~"
  Owners,        \* owner byte strings (addresses, all of one length)
  Keys,          \* register key byte strings
  Values,        \* value byte strings, <<>> among them
  EventTypes,    \* flow event types
  Intensities,   \* computation intensities a caller meters
  UintBits,      \* width of uint and uint64
  MaxCalls       \* bound on the calls of a run

ASSUME BackendConstantsAssumption ==
  /\ UintBits \in Nat \ {0}
  /\ MaxCalls \in Nat
  /\ Intensities \subseteq Nat
  /\ Tilde \in Bytes
  /\ Owners \cup Keys \cup Values \subseteq Seq(Bytes)
  /\ <<>> \in Values
  /\ \A o1, o2 \in Owners : Len(o1) = Len(o2)

Modulus == 2 ^ UintBits

TestComputationLimit == Modulus - 2     \* uint(math.MaxUint64 - 1)

(* fullKey: string(owner) + "~" + string(key).                             *)
fullKey(owner, key) == owner \o <<Tilde>> \o key

(* m[k] = v on a Go map.                                                   *)
MapPut(m, k, v) == [x \in DOMAIN m \cup {k} |-> IF x = k THEN v ELSE m[x]]

VARIABLES
  data,          \* fullKey -> value, the map of getSimpleValueStore
  allocator,     \* owner -> next storage index, for the owners seen
  events,        \* the events list of getSimpleEventEmitter
  compUsed,      \* the meter's compUsed
  calls,         \* calls made so far
  written        \* ghost: <<owner, key>> -> the value last set, <<>> if none

vars == <<data, allocator, events, compUsed, calls, written>>

Init ==
  /\ data = [fk \in {} |-> <<>>]
  /\ allocator = [o \in {} |-> 0]
  /\ events = <<>>
  /\ compUsed = 0
  /\ calls = 0
  /\ written = [ok \in Owners \X Keys |-> <<>>]

-----------------------------------------------------------------------------
(* getValue: data[fullKey], the empty slice when the key is missing.       *)
GetValue(owner, key) ==
  LET fk == fullKey(owner, key) IN
  IF fk \in DOMAIN data THEN data[fk] ELSE <<>>

(* valueExists: a stored value of length 0 counts as absent.               *)
ValueExists(owner, key) == Len(GetValue(owner, key)) > 0

(* Mutant: the value is stored under the key and owner swapped.         *)
SetValueSwapped(owner, key, value) ==
  /\ calls < MaxCalls
  /\ data' = MapPut(data, fullKey(key, owner), value)
  /\ written' = [written EXCEPT ![<<owner, key>>] = value]
  /\ calls' = calls + 1
  /\ UNCHANGED <<allocator, events, compUsed>>

(* setValue: data[fullKey(owner, key)] = value.                            *)
SetValue(owner, key, value) ==
  /\ calls < MaxCalls
  /\ data' = MapPut(data, fullKey(owner, key), value)
  /\ written' = [written EXCEPT ![<<owner, key>>] = value]
  /\ calls' = calls + 1
  /\ UNCHANGED <<allocator, events, compUsed>>

(* allocateStorageIndex: return the owner's counter (0 for a new owner)    *)
(* and store it incremented.                                               *)
AllocateStorageIndex(owner) ==
  LET index == IF owner \in DOMAIN allocator THEN allocator[owner] ELSE 0 IN
  /\ calls < MaxCalls
  /\ allocator' = MapPut(allocator, owner, (index + 1) % Modulus)
  /\ calls' = calls + 1
  /\ UNCHANGED <<data, events, compUsed, written>>

(* emitFlowEvent: append the event to the list.                            *)
EmitFlowEvent(etype, payload) ==
  /\ calls < MaxCalls
  /\ events' = Append(events, [type |-> etype, payload |-> payload])
  /\ calls' = calls + 1
  /\ UNCHANGED <<data, allocator, compUsed, written>>

(* DropEvents calls reset: a new empty events list.                        *)
DropEvents ==
  /\ calls < MaxCalls
  /\ events' = <<>>
  /\ calls' = calls + 1
  /\ UNCHANGED <<data, allocator, compUsed, written>>

(* computationAvailable: compUsed + intensity < computationLimit.          *)
ComputationAvailable(intensity) ==
  (compUsed + intensity) % Modulus < TestComputationLimit

(* meterComputation: compUsed += intensity, then an error if it is above   *)
(* the limit; the intensity is counted either way.                         *)
MeterComputation(intensity) ==
  LET used == (compUsed + intensity) % Modulus IN
  /\ calls < MaxCalls
  /\ compUsed' = used
  /\ calls' = calls + 1
  /\ UNCHANGED <<data, allocator, events, written>>

Next ==
  \/ \E o \in Owners, k \in Keys, v \in Values : SetValue(o, k, v)
  \/ \E o \in Owners : AllocateStorageIndex(o)
  \/ \E t \in EventTypes, v \in Values : EmitFlowEvent(t, v)
  \/ DropEvents
  \/ \E i \in Intensities : MeterComputation(i)

Spec == Init /\ [][Next]_vars

-----------------------------------------------------------------------------
TypeOK ==
  /\ \A fk \in DOMAIN data : data[fk] \in Values
  /\ DOMAIN allocator \subseteq Owners
  /\ \A o \in DOMAIN allocator : allocator[o] \in 0 .. Modulus - 1
  /\ events \in Seq([type : EventTypes, payload : Values])
  /\ compUsed \in 0 .. Modulus - 1
  /\ calls \in 0 .. MaxCalls
  /\ written \in [Owners \X Keys -> Values]

(***************************************************************************)
(* The value store behaves as one register per (owner, key): GetValue      *)
(* returns what the last SetValue of that owner and key stored, and        *)
(* ValueExists holds exactly when that was non-empty, although keys may    *)
(* themselves contain the "~" that fullKey puts between owner and key.     *)
(***************************************************************************)
StoreReadsLastWrite ==
  \A o \in Owners, k \in Keys :
    /\ GetValue(o, k) = written[<<o, k>>]
    /\ ValueExists(o, k) <=> written[<<o, k>>] # <<>>

=============================================================================
