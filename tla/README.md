# Formal models of flow-go components

This directory holds TLA+ models of the flow-go code under `src/`. There are
TLC configurations that model-check them on small instances, and TLAPS proofs
of their main invariants for every value of the constants.

## The system and its parts

`src/` holds a selection of flow-go files. The specification (`spec.md`)
describes the HotStuff certification engine: safety rules, vote and timeout
collectors, the collector factory and the pacemaker. Only a mock of that engine
is under `src/`. The code that is present falls into these groups:

| Part | Source | Status |
|------|--------|--------|
| Execution metrics provider | `engine/execution/computation/metrics/provider.go` | modelled (`MetricsProvider`), proved (`MetricsProviderProofs`) |
| Block result collector | `engine/execution/computation/computer/result_collector.go` | modelled (`ResultCollector`) |
| GossipSub score registry | `network/p2p/scoring/registry.go` | modelled (`ScoreRegistry`), proved (`ScoreRegistryProofs`) |
| EVM block store | `fvm/evm/handler/blockstore.go` | modelled (`EvmBlockStore`), refines `EvmChain`, proved (`EvmBlockStoreProofs`) |
| Node-info files and weights | `cmd/util/cmd/common/node_info.go` | modelled (`PartnerNodeInfos`, `InternalNodeInfos`, on `NodeInfoLists`), proved (`PartnerNodeInfosProofs`, `InternalNodeInfosProofs`) |
| Cadence identifier and index checker | `pkg/language/runtime/sema/check_expression.go` | modelled (`CadenceChecker`) |
| EVM test backend | `fvm/evm/testutils/backend.go` | modelled (`TestBackend`), proved (`TestBackendProofs`) |
| HotStuff test block helpers | `consensus/hotstuff/helper/block.go` | not modelled |
| Slashing violations consumer | `network/slashing/consumer.go` | not modelled |
| HotStuff engine | not under `src/` | not modelled |
| Mocks, generated code, tests, glue | the remaining files | not modelled: no behaviour of their own |

The first two components meet in the execution node. The block computer
executes a block's transactions and hands each result to a result collector.
The collector commits collections into chunks and signs the receipt. The
metrics provider buffers per-block transaction metrics, pushed by height as
blocks are executed, for later queries. The score registry sits in the
networking layer: notification goroutines penalise peers and GossipSub's score
refresh reads the penalties. The EVM block store keeps the EVM chain's latest
block, proposal and recent hashes in registers of the Flow state, written by
Cadence transactions. The node-info reader and the Cadence checker are
sequential. The test backend is the test double that the EVM handler tests
run on.

## Modules

### MetricsProvider

`MetricsProvider.tla` models the provider's state: `bufferIndex`,
`blockHeightAtBufferIndex` and `buffer`. It adds a ghost history `pushed`
(height -> data) that the properties compare the buffer against. Both methods
take the provider's RWMutex, so each one is a single step.

- `Push(height, data)` is `PushIgnored`, the early return for
  `height <= blockHeightAtBufferIndex`, or `PushAccepted`. `PushAccepted`
  covers the gap-filling loop and the final `pushData` in one step. After
  `n = height - blockHeightAtBufferIndex` calls of `pushData`, slot `s` was
  last written by call `LastWriteOf(s, n)`. That call wrote nil for a gap
  height, or the data for call `n`. If no call wrote `s`, it keeps its value.
- `GetTransactionExecutionMetricsAfter(q)` is an operator. It keeps the code's
  `startHeight` computation and slot arithmetic, and computes `height + 1`
  modulo `2^HeightBits`.

The constants are:

- `bufferSize`;
- `HeightBits`, the width of a height (64 in the code);
- `Data`, a set of model values standing for non-empty metrics slices;
- `Nil`, which stands for nil or an empty slice (the code skips both).

### ResultCollector

`ResultCollector.tla` models two goroutines that share the collector.

- **The executor** calls `AddTransactionResult` for each transaction in block
  order. It then calls `Finalize`, split into `FinalizeStop` (Stop, then wait
  on the done channel) and `FinalizeReturn`. Finally it calls `Stop` again
  (deferred). It may also call `Stop` early, without `Finalize`, when executing
  a transaction fails.
- **The processor** takes the head of the buffered channel and runs
  `ProcessTransactionResult`. That action is `processTransactionResult` with
  `commitCollection` at a collection's last transaction. When the closed
  channel is drained, `ProcessorExits` ends the goroutine.

The channel is a sequence bounded by `numTransactions`, the code's capacity.
`AddTransactionResult`'s `select` is a disjunction: a send when the channel has
room, or a return when the done channel is closed. `Stop`'s `closeOnce` is part of
the action, so the second `Stop` changes nothing. No property is stated about
closing the channel twice or sending on it once closed: with the `sync.Once`
and the executor sending only before it stops, neither can happen in any
model of this code. Each fallible call may fail:

- `Merge`;
- `CommitView` or `EventsMerkleRootHash`;
- `SignFunc`;
- a consumer;
- `Provide`;
- the receipt signature.

Such a failure applies the effects of the calls before it, then
`ProcessorFails`: the processor sets `processorError` and its deferred close of
the done channel runs. A transaction is its position in the block.
`CollectionOf` gives its collection. A chunk is the collection index and the
sequence of merged transactions. A SPoCK is the index of the collection it
signs.

### EvmChain and EvmBlockStore

`EvmChain.tla` is the abstract specification: what the block store promises
between Cadence transactions. Its state is the latest block, the number of
transactions in the pending proposal, and the hashes of the last
`BlockHashListCapacity` heights. `AddTransaction` grows the proposal, and
`Commit` atomically turns the proposal into the next block.

`EvmBlockStore.tla` models the code. Its state is the three registers: the
latest block, the proposal and the block hash list. `NoValue` stands for an
empty register.

- `AddTransaction` is an EVM transaction: `BlockProposal`, which builds a
  fresh proposal on the latest block when the register is empty, then
  `UpdateBlockProposal` with one more transaction.
- `CommitBlockProposal` is split into `BeginCommit`, `CommitSetLatest`,
  `CommitUpdateHashList` and `CommitResetProposal`, one step per register
  write.
- `CommitFails` may happen at any of those steps. The FVM discards a failed
  transaction's writes, so it restores the registers from the snapshot the
  transaction began with.

`types.BlockHashList` is not under `src/`, so its contract is taken as given:
`Push` accepts only the next height and drops the oldest hash beyond the
capacity.

The refinement mapping sends the abstract state to the registers of the last
committed transaction. A commit in progress is invisible until its
transaction ends. `ChainRefinement` is `EvmChain`'s `Spec` under this
mapping.

### ScoreRegistry

`ScoreRegistry.tla` models the GossipSub application-specific score registry.
Its state is:

- the spam-record cache, peer -> penalty or `NoRecord`, with `CacheSize`
  entries;
- the registry mutex `mu`, its owner or `NoOwner`;
- one program counter and target peer per notifier goroutine;
- a `fatal` flag for the `lg.Fatal` on a failed `Adjust`;
- the last score the refresh computed for each peer.

`OnInvalidControlMessageNotification` is two steps under the mutex:

1. `NotificationAdd` initialises the record. `Add` may evict another peer's
   record when the cache is full.
2. `NotificationAdjust` decays the record and adds the misbehaviour penalty.

`AppSpecificScore(p)` is the refresh. It does not take the mutex: it decays
and stores the record through `Get`, then computes the score from the
staking role and the subscription penalty.

The cache is not under `src/`; its contract (atomic calls, eviction,
preprocessing on `Adjust` and `Get`) is taken as given. The geometric decay
is any integer strictly between the penalty and 0, or 0 once the penalty is
above `skipDecayThreshold`. The penalties are scaled to integers in the
code's order (`MisbehaviourPenalty < SkipDecayThreshold < 0`).

### PartnerNodeInfos and InternalNodeInfos

These modules model the two readers of node-info files in `node_info.go`.

`PartnerNodeInfos.tla` models `ReadFullPartnerNodeInfos`. It lists the
directory, reads each file that has the partner prefix, reads the weights
file, then builds one `NodeInfo` per partner. A weight of 0 fails
`ValidateWeight`, and that `Fatal` exits.

`InternalNodeInfos.tla` models `ReadInternalNodeInfos`. It reads the private
files, then `internalWeightsByAddress`, where the first configuration of an
address wins and a duplicate is only logged. Then it builds the `NodeInfo`s.

In both modules:

- each loop iteration is a step;
- the directory and the JSON files are inputs chosen in `Init`;
- every failed read is an action of its own, ending in "exited";
- a reference definition (`IsPartnerReference`, `IsInternalReference`)
  states the result declaratively. It says there is an increasing
  enumeration `idx` of the prefixed positions of the directory
  (`Enumerates`, `PrefixedFiles`), and entry `j` of the result is built from
  file `idx[j]`. The internal reader's weight is that of the least
  configuration position naming the address (`FirstWeight`, `FirstConfig`),
  or 0 when none does.

`NodeInfoLists.tla` holds what the two modules share: `ListsUpTo(S, n)`, the
lists of at most `n` elements, and the enumeration helpers. The modules use
only the standard `Sequences`, with no recursive operator, so TLAPS can
reason about them.

### CadenceChecker

`CadenceChecker.tla` models `VisitExpressionStatement` over identifier,
literal and index expressions, nested up to two levels deep. A variable in
scope has a type and optional move and destroy positions.

- `VisitIdentifierExpression` has the code's cases: undeclared, used after a
  move, and used after destruction.
- `visitIndexingExpression` visits the indexed expression, then the indexing
  one. It reports `NotIndexableType` or `NotIndexingType` without cascading
  on an invalid type.
- A nil dereference is a `panic` result that ends the walk.

`ExpectedErrors` is the reference: it lists the errors a correct checker
reports, one per faulty subexpression.

### TestBackend

`TestBackend.tla` models the simple backend that `RunWithTestBackend` builds.

- The value store is a Go map keyed by `fullKey(owner, key)`, which is
  `owner ~ key` on byte sequences. It has `SetValue`, `GetValue` and
  `ValueExists`, plus the per-owner `AllocateStorageIndex` counter.
- The event emitter has `EmitFlowEvent` and `DropEvents`.
- The meter has `MeterComputation` and `ComputationAvailable`. Its sums are
  taken modulo `2^UintBits`, and `TestComputationLimit` stays one below the
  largest value.

Owners are addresses, so they all have one length; this is an assumption.
Keys may contain the `~` byte. The ghost variable `written` holds the last
value set per (owner, key).

## Runs

| Run | Config | Checks | Result |
|-----|--------|--------|--------|
| mp_pass | `MC_MetricsProvider.cfg` | `TypeOK`, `RingHoldsLastHeights`, `ReadReturnsWindow` | passes (2379 states) |
| mp_stale | `MC_MetricsProvider_stale.cfg` | `ReadReturnsOnlyPushedData` | violated: a code bug |
| mp_wrap | `MC_MetricsProvider_wrap.cfg` | `ReadReturnsOnlyLaterHeights` | violated: a code bug |
| rc_pass | `MC_ResultCollector.cfg` | `TypeOK`, `ReceiptCoversBlock`, `CollectorTerminates` | passes (211 states) |
| evm_pass | `MC_EvmBlockStore.cfg` | `HashListAcceptsCommit`, `ChainRefinement` | passes (197 states) |
| sr_pass | `MC_ScoreRegistry.cfg` | `TypeOK`, `AdjustFindsRecord`, `PenalisedNeverRewarded`, `PenaltyEventuallyForgiven` | passes (2108 states) |
| ni_partner_pass | `MC_PartnerNodeInfos.cfg` | `TypeOK`, `PartnerNodesFromFiles` | passes (1769 states) |
| ni_weights_error | `MC_PartnerNodeInfos_weights.cfg` | `WeightsErrorIsFatal` | violated: a code bug |
| ni_internal_pass | `MC_InternalNodeInfos.cfg` | `TypeOK`, `InternalNodesFromFiles` | passes (76486 states) |
| cc_pass | `MC_CadenceChecker.cfg` | `TypeOK`, `ReportsExactlyTheFaults` | passes (62436 states) |
| cc_destroy | `MC_CadenceChecker_destroy.cfg` | `UseAfterDestructionReported` | violated: a code bug |
| tb_pass | `MC_TestBackend.cfg` | `StoreReadsLastWrite` | passes (2064 states) |

Each property of a passing run has a mutant in `PROJECT.json`: a
plausible bug in one mapped definition (a dropped guard, a missing reset, a
swapped key, a sum that no longer wraps) that makes TLC report that property violated.

**Metrics-provider bounds.** The instance has 3 slots, 3-bit heights (0..7)
and two data values under symmetry. Pushes can:

- skip more heights than the ring holds;
- wrap the ring index several times;
- reach the largest height, where `height + 1` wraps.

Every start height is an initial state, because `newProvider` takes any height.

**Result-collector bounds.** The instance has four transactions in three
collections: `<<0, 0, 1, 2>>`. That includes a collection of two transactions,
which exercises the merge and reset, and a final one-transaction collection,
like the system collection. Every failure point is enabled.

**EVM block-store bounds.** The instance has a capacity of 2 hashes, heights
up to 4 and proposals of at most one transaction.
- The hash list fills and then slides.
- A commit fails at each of its writes, after a proposal has been stored and
  while none is stored.

**Score-registry bounds.** The instance has three peers:
- a clean staked peer;
- a staked peer subscribed to a forbidden topic;
- an access node.

Two notifier goroutines and a cache of one record mean that a second peer's
`Add` must evict a record while another notification is between its `Add`
and its `Adjust`. With two notifications, both goroutines are active at
once.

**Node-info bounds.** Directories hold up to two files, with and without the
prefix. Weights include the invalid 0. The internal configuration file has
up to three entries, so one address can be configured twice.

**Checker bounds.** The instance has two identifiers. Each one is either
undeclared or a variable of one of these types:
- an Int, or an array of Int;
- a resource, or an array of resources, moved or destroyed or neither.

Statements are every expression of up to two nested index expressions over
identifiers and literals.

**Test-backend bounds.** The instance uses:
- one-byte owners, one of them the `~` byte;
- keys of length 0 to 2 with and without `~`;
- 3-bit uints, whose limit is 6;
- three calls.

Three calls are enough to write one register, then another register whose
full key shares bytes with the first, and then to read either one.

**Fairness.**
- `rc_pass` assumes weak fairness of each goroutine. Go's scheduler
  eventually runs a goroutine that is runnable and stays runnable.
  `CollectorTerminates` needs this: without fairness either goroutine could
  simply stop.
- `sr_pass` assumes weak fairness of each notifier's `Adjust`, because the
  goroutine runs its handler to the end. It also assumes weak fairness of
  each peer's score refresh, because GossipSub refreshes every peer's score
  on a timer. `PenaltyEventuallyForgiven` needs both.
- No other run checks liveness.

**Deadlock.** Deadlock checking is off where the system really stops:
- the result collector (its final state is that both goroutines have ended);
- the node-info readers (they return or exit);
- the test doubles (their calls are bounded);
- the EVM store, whose heights are bounded.

### Findings

1. **Stale read (mp_stale).** Suppose `blockHeightAtBufferIndex > bufferSize`.
   `GetTransactionExecutionMetricsAfter` then starts its loop at
   `blockHeightAtBufferIndex - bufferSize` (provider.go:94), one height below
   the buffered window. That height's `diff` is `bufferSize`, while the comment at
   provider.go:107 says `diff < bufferSize`. The height maps to the latest
   block's slot, so the read returns the latest metrics under a height that
   was never pushed or has been overwritten. The property quantifies only over
   queried heights below the largest, so this run cannot report the
   wrap-around of finding 2. TLC's trace:
   1. A 3-slot provider starts at height 0.
   2. `Push(4, d1)` fills heights 1 to 3 with nil and stores `d1` at height 4.
   3. A read after height 0 starts at height 1, whose slot is that of
      height 4, and returns `{1: d1}`, though nothing was pushed for
      height 1.
2. **Wrap-around (mp_wrap).** `height + 1` overflows at the largest height. The
   early return is then skipped, and every buffered height is returned as
   being after it.
3. **Unsent Fatal (ni_weights_error).** At node_info.go:28,
   `log.Fatal().Err(err)` is never sent: there is no `Msg` or `Send`. So a
   failed partner-weights read does not exit, even though the doc comment
   calls every error irrecoverable. The function goes on with a nil map. It
   returns normally when there are no partner files; otherwise every weight
   is 0, and the exit comes later with a misleading message.
4. **Nil dereference (cc_destroy).** At check_expression.go:27 the
   use-after-destruction branch is taken only when `variable.MovePos` is nil,
   yet it dereferences `*variable.MovePos`. Using a destroyed resource that
   was never moved panics the checker instead of reporting
   `ResourceUseAfterDestructionError`.
## Proofs

TLAPS proves the following for every value of the constants that satisfies
the modules' named assumptions.

**`MetricsProviderProofs.tla`** proves, for every `bufferSize > 0` and
`HeightBits > 0`:

- `TypeCorrect`: `Spec => []TypeOK`.
- `RingCorrect`: `Spec => []RingHoldsLastHeights`.
- `ReadWindowCorrect`: `Spec => []ReadReturnsWindow`.

`RingHoldsLastHeights` is not inductive on its own. A push can bring into the
window heights that were never pushed, and the invariant must know those hold
nil in `pushed`. The inductive invariant is

    IInv == TypeOK /\ RingHoldsLastHeights /\ NothingPushedAbove

where `NothingPushedAbove` says nothing was pushed above the latest height. The
step proof `RingStep` splits the slots `e` places behind the new index into
three cases:

- `e = 0`: the data slot;
- `0 < e < n`: a gap slot, now nil, whose height was never pushed;
- `e >= n`: an old slot, unchanged, whose old and new distances agree.

The proof rests on modular-arithmetic lemmas (`ModUnique`, `ModMultiple`,
`ModOfMod`, `ModDistance`) stated for a symbolic `bufferSize`.
`ReadReturnsWindow` follows from `IInv` in each state (`WindowFromRing`). A
height in the window has `diff < bufferSize`, so `SlotOfHeight` is the slot
`diff` places behind the index.

**`ScoreRegistryProofs.tla`** proves the following for any sets of peers and
notifiers, any cache size and any penalties ordered as in the code:

- `RegistryTypeCorrect`: `Spec => []TypeOK`.
- `AdjustNeverFatal`: `Spec => []AdjustFindsRecord`.
- `NeverRewardPenalised`: `Spec => PenalisedNeverRewarded`.

`TypeOK` includes the cache bound `Cardinality(Cached) <= CacheSize`. Its
proof needs the named assumption that the peer set is finite
(`IsFiniteSet(Peers)` in `RegistryAssumption`). The argument: `Add` on a full
cache evicts one record for the one it inserts (`CacheAddBound`), and the
refresh never adds a record. `FS_AddElement` and `FS_RemoveElement` from
`FiniteSetTheorems` give the cardinalities.

`AdjustFindsRecord` (`~fatal`) is not inductive. The inductive invariant adds
`LockHeld`: a notifier between `Add` and `Adjust` holds the mutex, and its
target peer has a record. `Add` needs the mutex, so no other notification
can evict that record. The refresh never removes a record. Two lemmas
support the argument:
- `CacheAddResult` says what `Add` leaves in the cache;
- `PenaltiesNonPositive` is part of the invariant. Every cached penalty is
  at most 0, and `DecayedNonPositive` shows that the decay keeps it so.

`NeverRewardPenalised` is an action property. It follows from the same
invariant and the lemma `ScoreOfSign`: the score function gives the maximum
reward to a clean staked peer with a zero penalty, and a negative score to
every other peer.

**`TestBackendProofs.tla`** proves `StoreIsRegisterPerKey`:
`Spec => []StoreReadsLastWrite`. This holds for every byte alphabet and every
set of owners of one length. The lemma `FullKeyInjective` shows that
`fullKey` is injective on such owners: the owner is the first `Len(owner)`
bytes and the key is everything after the separator. It uses `ConcatProperties`
and `SeqEqual` from `SequenceTheorems`. The inductive invariant is that every
register reads its last write; `SetValueIInv` is the only step that needs the
lemma.

**`EvmBlockStoreProofs.tla`** proves three theorems for every hash-list
capacity, height bound and transaction bound:

- `HashListNeverRejects`: `Spec => []HashListAcceptsCommit`.
- `StoreTypeCorrect`: `Spec => []TypeOK`. No run checks this `TypeOK`: its
  bounds on the proposal's transactions and on heights are bounds of the
  model, and no change to blockstore.go could break them.
- `StoreRefinesChain`: `Spec => ChainRefinement`, that is
  `Spec => Chain!Spec` under the refinement mapping of `EvmBlockStore`.

Both theorems carry the hypothesis `NoValueIsNoRecord`: the empty-register
value `NoValue` is neither a block record nor a hash-list record. TLC's
model values satisfy it. The provers cannot see that for themselves.

The inductive invariant `IInv` is stated over the committed registers:
those of the last finished Cadence transaction. They are the registers
themselves between transactions, and the snapshot during a commit.
`RegsOK` says three things of them:
- a stored proposal is the block after the latest one;
- the hash list ends at the latest height;
- the hash list holds `min(height + 1, capacity)` hashes.

While `CommitBlockProposal` runs, `CommitOK` relates the registers to the
snapshot. The block being written is the snapshot's proposal. Each register
holds either its snapshot value or the write of a step already taken.

`HashListAcceptsCommit` needs `IInv` for the following reason. The push is
accepted only at the height after the list's last one. That height equals the
committed latest height only because every commit writes the latest block
and the list together, and a failure restores both.

`TypeOK` needs one more inductive conjunct, `HeightBound`: the committed
latest block is no higher than `MaxHeight`. Only the commit's last step
changes it, to a block `BeginCommit` admitted. With it, the hash-list
register ends at a height within the bound, in every phase of the commit.
At `resetProposal` it is the pushed list (lemma `CommitPush`), and
elsewhere it is the committed list. Its length `min(height + 1, capacity)`
lies in `1 .. capacity` (`KeptRange`).

The refinement proof maps the steps as follows:
- `AddTransaction` maps to the chain's `AddTransaction`
  (`AddTransactionRefines`);
- `CommitResetProposal`, the end of the commit's transaction, maps to
  `Commit` (`CommitRefines`);
- every other step leaves the committed registers alone and is a stutter
  (`CommittedUnchanged`). This covers a failure after any of the writes.

`CommitRefines` rests on the lemma `PushLookup`. After a push, the new height
answers with the new hash. Every other height of the new window answers as
before, whether or not the oldest hash was dropped. The lemmas `LookupKept`
and `PushKeeps` state the list arithmetic, for a symbolic capacity.

**`ResultCollectorProofs.tla`** proves the following for every block:
every sequence `CollectionOf` of collection indices that starts at 0 and
grows by at most 1, and every set of failing calls.

- `CollectorTypeCorrect`: `Spec => []TypeOK`. It covers the bound on the
  buffered channel.
- `ReceiptCorrect`: `Spec => []ReceiptCoversBlock`.

Both follow from one inductive invariant, `InvariantHolds`:
`Spec => []IInv`. `IInv` relates the executor's phase to the closing of the
input channel, and the processor's running flag to the done channel. While
no call of the processor has failed, `ProcessorInv` follows the processor
through the block:
- `Processed`, the results taken so far, is `nextTxn - 1` minus the
  channel's length;
- the channel holds exactly the transactions `Processed + 1 .. nextTxn - 1`;
- the chunks and SPoCKs are those of the collections completed before
  transaction `Processed + 1`;
- the collection state holds the transactions of the open collection taken
  so far;
- the done channel is closed only on the closed, drained channel.

`ReceiptCoversBlock` is not inductive on its own. `FinalizeReturn` builds
the receipt from the chunks, and only `ProcessorInv` says what they are.

The step proof has one lemma per action. The processor's step splits into
a merge, a commit at a collection's last transaction, and a failing call
(`ProcessBranches`). `TakeAdvances` states what all three share. The commit
case rests on `CollectionInterval`: a run of transactions of one
collection, bounded by collection changes on both sides, is the whole
collection. That lemma needs the collection indices to be monotone
(`CollectionMono`). Its proof takes the least counterexample. The least
element comes from the well-foundedness of `<` on `Nat`
(`NatLessThanWellFounded`, `WFMin`), since the installed provers cannot
use an induction rule with an operator parameter. For the proof,
`TxnsOfCollection` is written with the collection's first transaction and
its size (`FirstOfCollection`, `CollectionSize`) rather than a `LET` and
`CHOOSE`. TLC evaluates it the same way.

**`PartnerNodeInfosProofs.tla`** and **`InternalNodeInfosProofs.tla`**
prove, for any node IDs, addresses, weights and bounds that satisfy the
modules' assumptions, and for any directory, weights file or configuration
file:

- `PartnerTypeCorrect`, `InternalTypeCorrect`: `Spec => []TypeOK`. Every
  NodeInfo built has a weight `ValidateWeight` accepted, and no list
  outgrows the directory.
- `PartnerListCorrect`: `Spec => []PartnerNodesFromFiles`. This includes
  the run after a failed weights read (the bug `ni_weights_error` shows).
  With a nil map every lookup is 0, so the function can only return when
  there are no partners, and then the empty list is the reference.
- `InternalListCorrect`: `Spec => []InternalNodesFromFiles`. The first
  configuration of an address fixes its weight, whatever duplicates follow.

The inductive invariant `IInv` follows the loops through `pc`:
- while the directory is read, the list read so far is an increasing
  enumeration of the prefixed files among the first `i - 1` files
  (`PartnersSoFar`, `InternalsSoFar`). A read step extends the enumeration
  with `i` when that file has the prefix;
- while the configurations are read, the map's domain is the addresses of
  the first `i - 1` entries, and each maps to `FirstWeight` of them
  (`WeightsSoFar`). The lemma `FirstWeightStep` gives `FirstWeight` after
  one more entry without induction. Adding a larger position never changes
  the least one (`FirstConfigAdd`);
- while the result is built, its first `i - 1` entries are those of the
  first `i - 1` files read, with the looked-up weight (`NodesSoFar`).
The existential over `idx` keeps the proof free of induction. Each step
gives the new witness explicitly.

**Only TLC checks the following:**

- the checker's properties;
- liveness (`CollectorTerminates`, `PenaltyEventuallyForgiven`), which TLAPS
  cannot check because it involves ENABLED and fairness;
- the violated properties.

`CadenceChecker` cannot hold theorems because it declares RECURSIVE
operators (the expression visitor and its reference). In any case, what a
recursive definition computes for every input is an induction over data,
which the installed provers cannot do.

## Hazards

`PROJECT.json` lists the hazards at their source lines. Each entry names the
properties that cover it, or says why none does.

## Not modelled

- **`network/slashing/consumer.go`.** Each handler logs the violation and
  forwards a misbehaviour report when the identity is known. It is a single
  synchronous call with no state of its own beyond the logger and metrics.
- **`consensus/hotstuff/helper/block.go`.** These are builders of blocks and
  proposals for the HotStuff tests, whose engine is not under `src/`.
  `PROJECT.json` lists the wrap of `MakeBlock`'s QC view at 0 as a hazard.
- **`engine/execution/testutil/fixtures.go`.** It builds transactions and
  signs them with the crypto library; that is pure data construction.
- **Mocks, generated code, tests and small glue.** They have no behaviour to
  model.
- **The HotStuff engine that `spec.md` describes.** Its code is not under
  `src/`. The only code of it here is the mocks and the block helper.

## Plan for the next sittings

1. The slashing consumer, if its reports get a stated contract.
2. The test meter's wrap and its boundary at `used + intensity = limit`. They
   need a stated contract for `ComputationAvailable` before a property can
   take a side.
