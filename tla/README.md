# ProofBox in TLA+

ProofBox is a versioned, authenticated key-value store: a Jellyfish Merkle tree
whose nodes live in a storage engine, with a version manager on top and proofs
of inclusion and exclusion beside it. This directory holds TLA+ models of its
core, the TLC configurations that check them and proofs that TLAPS checks.

    tlc -workers 2 -config MCTree.cfg MCTree      # model-check
    tlapm TreeProofs.tla                          # check the proofs of a module

`PROJECT.json` maps every definition to the lines it models and lists the runs,
the mutants, the findings, the hazards and the theorems.

## 1. Inventory

| Component | State | Operations | Talks to |
|---|---|---|---|
| version manager, `pkg/tree/version_manager.go` | `versions`, `pendingWrites`, `latestVersion`, `committedVersion`, retention policy; one RWMutex | `Begin`, `Commit`, `Abort`, `SetPendingUpdater`, `CollectGarbage`, `SetRetentionPolicy`, `RemoveVersion`, queries | called by the tree |
| tree, `tree.go`, `put.go`, `delete.go`, `reader.go` | `rootHashes`, `latestVer` under `mu`; `writeMu`; storage | `NewTree`/`loadRootHashes`, `Put`, `Delete`, `BeginVersion`, `PutVersioned`, `DeleteVersioned`, `CommitVersion`, `AbortVersion`, `CollectVersionGarbage`, `Get`, `GetAtVersion` | version manager, updater, cache, storage |
| tree structure, `tree_updater.go`, `internal_node.go`, `leaf_node.go`, `reader.go` | an updater's `nodeWrites` and root key; nodes with lazily cached hashes | `Put`, `Delete`, `BuildUpdateBatch`, `ValidateBatch`, the reader's walk | storage through `getNode` |
| node cache, `cache.go` | an LRU map of nodes with a size limit, RWMutex | `Get`, `Put`, `Remove`, `Clear` | readers and updaters |
| batch transaction, `batch_transaction.go` | operations, last index per key; one mutex | `BatchPut`, `BatchDelete`, `Clear`, `Execute` | the tree's versioned calls |
| batch optimizer, `batch_optimizer.go` | none | deduplicate, compress | `CommitVersion` |
| storage, `pkg/storage/memory`, `pkg/storage/pebble` | data; reference count, wait group, closing flag, iterator and snapshot counters; pebble's metrics goroutine | `Get`, `Put`, `Delete`, batches, snapshots, iterators, `Close` | the tree, the CLI |
| storage pruning, `pkg/storage/pruning.go` | none | which versions a policy drops | nothing yet |
| proofs, `pkg/proof` | none | generate, verify, encode, compress | tree readers |
| checks of a version, `health.go`, `validation.go` | none | `CheckVersion`, `VerifyIntegrity`, `ValidateTreeStructure` | tree readers |
| encodings, `pkg/types`, `pkg/codec`, `storage_keys.go` | none | nibble paths, node keys, node bytes | all |
| CLI, `cmd/pb` | the REPL's `ctx.version`; files | `put`, `delete`, `batch`, `import`, `export-keys`, `prove`, `verify`, REPL | tree, batch transaction, proofs |
| metrics; fuzzing; benchmarks | counters | | the tree |

What is hard here:

* **Concurrency.** A write operation is several critical sections: `BeginVersion`
  and `AbortVersion` run beside a commit, garbage collection beside a reader,
  and `GetAtVersion` nests a read lock. Storage is written without `mu`. The
  storage engines count references with three atomics that change one after
  the other beside `Close`; a batch is cleared after it was executed unlocked.
* **Failure.** A commit is a storage batch, then a swap of in-memory maps, then
  a version manager update; a crash, a storage error or a panic can fall
  between any two. Recovery guesses what storage does not hold. A command may
  be killed anywhere; a file may have one bad entry; a node may be lost or
  unreadable.
* **Ordering.** Versions are committed in another order than they began;
  updates and deletions inside a version restructure the tree, and the root hash
  must not remember in which order.
* **Sharing.** A node is stored once and used by many later versions, decoded
  with the version in its key, and proofs are made from it for all of them.
* **Edges.** Paths of odd length, prefixes that end in the largest byte, unsigned
  differences, limits on iterators, snapshots and the size of a proof.

What makes it correct: a committed version is whole, durable, immutable and
readable; its root hash stands for its contents and nothing else; numbers are
never reused; garbage collection removes old versions only; every call returns.
A proof verifies exactly when it is true; bytes read back are what was written;
a batch or an import is all or nothing; `Close` waits for what is in use.
The list of hazards in `PROJECT.json` ties each of these to a line.

## 2. Modules

| Module | Models | Lines of argument |
|---|---|---|
| `VersionManager` | the version manager, one action per method | invariants, action properties; proved |
| `VersionManagerProofs` | | TLAPS proofs about it |
| `VersionedStore` | nothing in the code: what the tree promises | abstract specification |
| `Tree` | versioned operations of several goroutines, EXTENDS `VersionManager` | invariants, refinement of `VersionedStore`, liveness; safety proved |
| `TreeProofs` | | TLAPS proofs of its safety, EXTENDS `VersionManagerProofs` |
| `TreeRefinementProofs` | | TLAPS proof that it implements `VersionedStore`, EXTENDS `TreeProofs` |
| `TreeLocks` | the lock operations of every path of the tree's methods | lock order, no circular wait, liveness; safety proved |
| `TreeLocksProofs` | | TLAPS proofs about it |
| `JellyfishTree` | insertion, deletion, batches, validation and reads on nodes | reads, root hashes, sharing |
| `Proof` | proofs, their encodings, `prove` and `verify`, the checks of a version, EXTENDS `JellyfishTree` | completeness, soundness, round trips, detection of loss |
| `Storage` | references, limits, resources and `Close` of both engines | accounting, limits, no use after `Close`, liveness; safety proved |
| `StorageProofs` | | TLAPS proofs about it |
| `BatchTransaction` | a batch shared by goroutines, on a tree of contents | order and atomicity; proved |
| `BatchTransactionProofs` | | TLAPS proofs about it |
| `Commands` | the command line, EXTENDS `BatchTransaction` | atomicity, import of exports, the REPL's reads; proved |
| `CommandsProofs` | | TLAPS proofs about it, EXTENDS `BatchTransactionProofs` |
| `Encoding` | nibble paths, node and storage keys, codecs, as pure operators | |
| `Iteration` | iterators of both engines and the recovery scan over such keys, EXTENDS `Encoding` | complete walks, agreement of the engines, faithful bytes; walks and recovery proved |
| `Pruning` | the pruning policies, EXTENDS `Iteration` | what survives; proved |
| `IterationProofs` | | TLAPS proofs about `Encoding`, `Iteration` and `Pruning` |
| `MC...` | constants for TLC | |

### VersionManager

Each exported method holds `vm.mu` for its whole body, so each is one action; a
call that returns an error changes nothing and is a stuttering step. The maps
are functions on finite sets. `clock` is `time.Now`, in ticks; `panicked` is a
Go panic that left the manager. `NewVersion`, `CanBegin`, `NewestCommitted`,
`ToRemove` and `Removed` are the decisions inside `Begin`, `Commit` and
`CollectGarbage`.

### Tree

A goroutine is a client with a program counter and the locals of the method it
is in (`cl[c]`). A method is cut at every critical section of `mu` or the
version manager and at every storage access, so whatever other goroutines can
do in between happens:

* `CallBegin`, `CallPut`, `CallDelete`, `BeginVersion`, `BeginFails`:
  `BeginVersion` reads the committed version, then begins on it. `Put` and
  `Delete` start with it and go on with the steps below (`auto`).
* `LockUpdate`, `InitUpdater`, `GetPendingAgain`, `ApplyUpdate`:
  `PutVersioned` and `DeleteVersioned` under `writeMu`. A delete is a write of
  `NoValue`; deleting what is not there is an error.
* `LockCommit`, then `EmptyCommitRoot/Publish/Finish` for a version without an
  updater, or `CopyRoots`, `StoreBatch` or `StoreFails`, `SwapRoots`,
  `FinishCommit`. `panic` in `FinishCommit` sets `panicked`.
* `AbortVersion`, `StartGC`/`GCRoots`, `StartGet`/`ReadSnapshot`.
* `Restart`: the process dies at any moment (also after a panic) and
  `loadRootHashes` rebuilds memory from storage.

The tree's nodes are abstracted to contents, a root hash to the contents it
authenticates. What decides the outcome is kept: a version is read through the
root node stored under its own number. Two constants describe how clients
behave: `SharePending` (do goroutines use versions other goroutines began?) and
`CommitUntouched` (do they commit versions in which no update succeeded?). The
API allows both.

### TreeLocks

A method is a set of sequences of lock operations, one for each path through its
body including the error returns. A write lock is taken in two steps, as
`sync.RWMutex` does: the writer announces itself, which stops new readers, and
enters when the readers are gone. `GetAtVersion` is left out of the passing run
and examined on its own.

### JellyfishTree

Nodes are records under a node key (version and nibble path); hashes are the
terms they cover, so equal hashes mean equal data. `InsertAt`, `DeleteAt` and
`SplitLeafNodes` follow the code branch by branch; `ValidBatch` is
`ValidateBatch`. One updater exists at a time, on any committed parent: `Tree`
covers interleavings. `contents` and `written` are history variables. With
`ReadFaults` one stored node cannot be read while an update runs; `getNode`
returns the same error as for a node that is not there. The module uses
RECURSIVE operators and is for TLC only.

### Proof

Everything in it reads: the state and the steps are `JellyfishTree`'s, and the
properties look at every version whenever no version is being built. `Generate`
is the generator's walk, `ReconstructRoot` the verifier's way up, `IsValid` the
checks both do. Encoded data is the sequence of its fields, so that what is
written in one order and read in another is noticed; sizes are counted in bytes,
because the codec refuses what is too long. `RunProve` and `RunVerify` are the
commands. `VerifyIntegrity`, `CheckVersion` and `ValidateTreeStructure` take the
store and the node cache as arguments, so that nodes can be missing from either:
`LoadNode` looks in the cache before it looks in storage, as the reader does.

### Storage

One module for the two engines, which share their reference counting: `engine` is
chosen in `StorageInit`, and where they differ there is one action for each
(`MemoryCommit`, `PebbleCommit`, ...). Every atomic operation of `addRef` and
`releaseRef` is a step: `LoadClosing`, `LoadRefs`, `CompareAndSwapRefs`,
`WaitGroupAdd`; `Unref`, `WaitGroupDone`. So are the count against the limit
(`CountOpen`), giving it back (`UncountOpen`) and the parts of `Close`
(`BeginClose`, `WaitMetrics`, `WaitResources`, `Wake`, `ClearData`). `WaitResources`
and `Wake` are `sync.WaitGroup`: a waiter that was woken panics when the counter
is in use again. A client holds one resource at a time, and a snapshot may have
an iterator of its own, which is counted and holds no reference; when the engine
fails to make it the count is given back (`PebbleSnapshotIteratorFails`).

### BatchTransaction and Commands

`Execute` is cut at its critical sections (`StartExecute`, `ClearExecuted`) and at
every call of the tree (`BeginVersion`, `ApplyOp`, `CommitVersion`), and any call
may fail. `all` is a history variable: what the batch held when `Execute` began.
In `Commands` a database is opened by one process at a time; `Start` opens it,
`Exit` ends or kills the process at any step. A key is a name; hashing is
injective and a name of 64 hexadecimal digits spells the hash of another name
(`HexOf`); a name of 64 characters (`LongNames`) that is not hexadecimal cannot be
imported. A value is bytes; `TextOf` is what the reader of a format gets of a value
written as text: JSON replaces bytes that are not UTF-8, CSV drops the carriage
return of a line break. `ExportEntry` has that text and, in JSON with `--hex`, the
bytes; `EntryValue` is what an import takes of it. The REPL's lines come from the
prompt or from a script, whose lines do not refresh `ctx.version`. Three fields are
history: `from` and `was` of an entry, the tree key and the value it was exported
from, and `proc.asked`, the version a `version <n>` at the prompt asked for.
`Effect` applies operations one after the other; `Newest` and `At` are what
`optimizeOperationsLocked` keeps, the operations at the last positions of their
keys in order; `GoodEntries` is what `--skip-errors` leaves of a file.

### Encoding, Iteration and Pruning

`Encoding` holds the pure functions, `Iteration` a state machine: an iterator over
a store that holds some entries, moved by `SeekGE`, `SeekLT`, `First`, `Last`,
`Next` and `Prev`. The properties of the pure functions are invariants over the
entries the initial states choose, so each is checked for every small store.
`MemoryKeys` sorts, searches and filters as the memory engine does; `PebbleKeys`
gives bounds to an engine that keeps to them. `LoadRootHashes` is the scan of
`loadRootHashes`. `Pruning` asks its policies about the versions that scan finds.
Loops are recursive functions or folds (`Power`, `WithPrefix`, `NodeStorageKey`), and
`Sorted` is the one increasing sequence of a set, because these definitions are
reasoned about.

### VersionedStore

A durable map from versions to contents: a version is a copy of its parent,
changed one key at a time, becomes durable whole and never changes; a crash
loses what was being built and nothing else; garbage collection never hides the
newest visible version.

## 3. Runs

| Run | Instance | Shows |
|---|---|---|
| `vm` | 3 versions, clock to 2, minimum 0 or 2, age 0 or 1 | any order of begin, commit, abort, remove and collect: numbers stay in their bounds (`VMTypeOK`) and are never rewritten or revived (`VersionsAreImmutable`), the committed version is the newest (`CommittedVersionIsNewest`), lineages are committed (`LineageIsCommitted`), collection leaves the newest versions and as many as it must (`GCKeepsNewest`) |
| `tree` | 2 goroutines, 2 keys, 2 versions; each goroutine uses its own versions and commits only after a successful update | committed versions are durable (`CommittedIsDurable`), nodes match root hashes for every open version and every reader in progress (`ReadsMatchRootHash`), nobody panics, and each step is a step of `VersionedStore` (`ImplementsVersionedStore`) |
| `tree_shared` | 2 goroutines, 1 key, 2 versions, shared pending versions, untouched commits, panics | even so a committed version can be opened under its root hash (`CommittedIsReadable`), and storage under a number never changes (`DurableIsImmutable`) |
| `tree_live` | as `tree`, 1 key, fair | every call returns (`CallsReturn`) |
| `locks` | 2 goroutines, all methods but `GetAtVersion`, fair | the lock hierarchy is respected (`LockOrder`) and every method returns (`MethodsReturn`): no path keeps a lock, nobody waits in a circle |
| `jmt` | `MCProof`: 3 keys of 3 bits that never share all but the last, 2 values, 3 versions of 2 updates | reads at every version return what the updates left (`ReadsMatchUpdates`), equal contents have equal root hashes (`RootHashIsCanonical`), every commit is accepted (`CommitAccepts`); every key has a proof that verifies and is true (`GeneratedProofsVerify`), what is estimated to fit goes through `prove` and `verify` (`ProveThenVerify`), the loss of a node of a version is found exactly when the node is not cached (`HealthCheckFindsLoss`) |
| `jmt_adjacent` | `MCProof`: 3 keys of 3 bits, two of them siblings, 2 values, 2 versions of 4 updates | with collapses and splits: equal root hashes mean equal contents (`RootHashIsBinding`), only the paths of updated keys are rewritten (`UnchangedSubtreesAreShared`); no generated proof verifies against a version it is not true for (`VerifiedProofsAreTrue`), both encodings give proofs back (`ProofsSurviveEncoding`) |
| `storage` | both engines, 2 goroutines and a closer, at most 1 iterator and 1 snapshot, fair | every count belongs to something open (`ResourcesAccounted`), the limits hold (`LimitsHold`), what was counted before `Close` keeps its data (`CountedResourcesKeepData`), metrics read an open database (`MetricsReadOpenDatabase`), memory batches never meet the nil map (`MemoryBatchesNeverPanic`), `Close` ends (`CloseReturns`) |
| `commands` | both backends, 1 goroutine, 2 names, one of which has 64 characters and spells the hash of the other, 2 values, one of which JSON text cannot hold, 3 versions, 2 operations in a batch | an executed batch is all its operations in order (`ExecutedIsSequential`), nothing accepted is lost (`AcceptedIsExecuted`), `batch` and `import` are all or nothing (`CommandsAreAtomic`), an imported export restores every value its file holds, under its key (`ImportRestoresExport`), the prompt reads the latest version unless it was told to switch (`PromptReadsLatest`) |
| `encoding` | bytes of 9 values (nibbles of 3), versions, keys and hashes of 2 bytes, 14 entries of which a store holds up to 3, 11 sets of options, 3 targets | walks are complete and in order (`WalksAreComplete`), on both engines, recovery finds the versions (`RecoveryFindsVersions`), keys, paths and nodes survive their encodings and keep their order (`KeysAreFaithful`, `NodesSurviveEncoding`), pruning spares the latest version (`PruningKeepsNewest`) |
| `locks_reentry` | `GetAtVersion` and `CollectVersionGarbage` | violation: a nested read lock deadlocks with a writer |
| `jmt_delete_rejected` | keys of `jmt_adjacent`, 1 value, 2 versions of 2 updates | violation: deleting a sibling leaf cannot be committed |

Deadlock is checked in `locks`, where it matters, and in the runs of `Tree`,
`commands` and `encoding`, where a restart, a kill or another move is always
possible. It is off where the bounded instance simply runs out of versions,
updates or time (`vm`, `jmt`, `jmt_adjacent` and their violations) and in
`storage`, which may stop once it is closed; `CloseReturns` is what excludes
waiting for ever there.

**Bounds.** Two goroutines suffice for every race found by reading the code: each
is between two critical sections of one method and one other call; for locks,
`LockOrder` is a property of one goroutine's path, and excludes waiting in a
circle for any number of them. Two versions in `Tree` give a version on top of
another, two siblings, a restart after which a number is reused or not, and a
collection (retention keeps one). Two keys in `tree` tell an update of one key
from a rewrite of the contents. In `VersionManager` three versions give commits
out of order, a gap and a collection of two, with a minimum of zero and of two. In
`JellyfishTree`, radix 2 and three levels give an internal node with one and with
two children at every level above the leaves, a branch at every depth, pruning,
collapsing and splitting; four updates in a version are enough for a collapse, a
put of the moved leaf, a split and one more. For `Proof`, whether the
encoded proof of the longer value fits `MaxProofSize` depends on the branches
above its leaf; the estimate, an upper bound, says it may not.
In `Storage` two goroutines race for a limit of one, and one counts while the
other or `Close` is anywhere between two atomics. In `Commands` a batch of two
operations has one on each key or both on the same; three versions give an
export of an old one, a change and an import; the import of a file with a bad entry
stands for the one with a name of 64 characters that is not hexadecimal, which is
refused in the same place. Longer histories and such names are left to the proofs, which cover every property of this run. In `Encoding` three entries are a
root, a node and a value, or three keys in an order; the byte values include
zero and the largest, the versions differ in every byte and reach the maximum,
the paths are empty, odd, even and full. `MaxClock`, `MaxVersion`, `MaxOps`,
`MaxEntries`, `MaxKeep`, `MaxProofSize` (10 KB in the code) and the sets of
arguments are the only bounds. Goroutines are interchangeable in `tree`, so
client symmetry is used there; it is not used with liveness.

**Fairness.** `Tree`: weak fairness of each step that waits for nobody (the Go
scheduler runs every runnable goroutine; storage calls return, with success or
failure) and strong fairness of taking `writeMu` (a Go mutex in starvation mode
hands itself to the longest waiter). New calls, crashes and policy changes have
no fairness. `TreeLocks`: strong fairness of every goroutine inside a method,
for the same two reasons. `Storage`: weak fairness of the steps inside a call and
of `Close`; strong fairness of closing a resource, because every caller in
`pkg/tree` defers the `Close` of what it opened, and of the metrics goroutine
taking the closed channel, because Go's `select` chooses among the ready cases
at random. New calls have no fairness, and `Close` need never be called.

**Mutants.** Every property of a passing run is broken by a mistake planted in the
model (the operators commented "Mutant"): a dropped check, a missing field of
the batch, a lock not released, a hash that covers too much or too little.

## 4. Findings and known divergences

The two violation runs are findings, with quotations, in `PROJECT.json`. Other
divergences between code and documentation were met while modelling; each has a
configuration that shows it and a property that states the documented behaviour
(`MCEncodingDivergences.cfg` has four of them and `MCCommandsDivergences.cfg` two: run
TLC with `-continue`):

| Configuration | Property | What happens |
|---|---|---|
| `MCTreeSerial.cfg` | `WritersAreSerialised` | `Put` does not hold `writeMu` around `BeginVersion`: two concurrent `Put`s begin on the same parent, and the later version lacks the earlier write (`concurrency-model.md:9` "Ensure write operations are serialized", `locking.md:22` "Must be held for entire write operation") |
| `MCTreeGC.cfg` | `CollectedStaysGone` | a commit swaps in a copy of `rootHashes` taken before a collection and brings collected versions back to readers (`tree.go:498-523`) |
| `MCTreeEmptyDurable.cfg` | `CommittedIsDurable` | a version committed without updates is never written to storage (`tree.go:418-427`; `persistence-reliability.md:17` "Either version fully exists or doesn't") |
| `MCTreeInitial.cfg` | `InitialVersionIsReadable` | after a restart with data version 0 is committed and cannot be opened (`tree.go:234`) |
| `MCJellyfishTreeSplit.cfg` | `ReadsMatchUpdates` | splitting a collapsed leaf leaves out the nodes in between; committed keys are lost (`tree_updater.go:392-398`) |
| `MCJellyfishTreeHistory.cfg` | `RootHashIsCanonical` | collapse and re-insert commit a shorter path: equal contents, another root hash (`node-implementation-notes.md:43` "Same tree state must produce same root hash") |
| `MCJellyfishTreeUntouched.cfg` | `ReadsMatchUpdates` | a version whose only update failed commits without a root node (`tree_updater.go:457`) |
| `MCJellyfishTreeCompressed.cfg` | `LeavesAreCompressed` | a new leaf hangs below a chain of one-child nodes (`overview.md:52` "linked directly to its highest branching ancestor") |
| `MCVersionManagerPanic.cfg` | `NeverPanics` | time-based collection with fewer versions than the minimum slices with a negative bound (`version_manager.go:301`; the comment at :299 "always keep minimum number") |
| `MCTreeAbortPanic.cfg` | `NeverPanics` | an abort of a version another goroutine updates or commits panics (`tree.go:317`, `tree.go:531`; `locking.md:20` "Guards all write operations (Put, Delete, Commit, Abort)") |
| `MCTreeEmptyCommit.cfg` | `ReadsMatchRootHash` | a version committed without updates has its parent's root hash and reads as empty (`tree.go:411`) |
| `MCJellyfishTreeReadFault.cfg` | `ReadsMatchUpdates` | a `Put` during which storage fails to read a node succeeds and drops the node's subtree (`tree_updater.go:125`, comment "Node doesn't exist, create path to leaf") |
| `MCProofNeighbor.cfg` | `GeneratedProofsVerify` | below a collapsed leaf the generator claims a divergence where the keys agree, and the verifier rejects the proof (`verifier.go:113`) |
| `MCProofSize.cfg` | `EveryProofEncodes` | a value may have 1 MB (`key.go:26`), an encoded proof 10 KB (`codec.go:97`) |
| `MCStorageClose.cfg` | `ActiveResourcesKeepData` | a reference counted after `Close` looked at the wait group gets a resource without data (`memory.go:71`; `resource_management.spec.md:110` "Storage waits for active resources") |
| `MCCommandsLostOps.cfg` | `AcceptedIsExecuted` | operations added while `Execute` runs are cleared without having been executed (`batch_transaction.go:215`; `steps/archive/15-update-batch.md:36` "Thread-safe for concurrent operation building") |
| `MCCommandsDivergences.cfg` | `PromptKeepsVersion` | `version <n>` at the REPL's prompt says "Switched to version" (`repl.go:205`) and the refresh after the same line switches back (`repl.go:99`): the next `get` reads the latest version (`docs/how-to/cli/repl-mode.md:204-208` shows `version 50`, then `get` printing 'old value', :111-117 the same) |
| `MCCommandsDivergences.cfg` | `ImportRestoresEveryValue` | a value that is not UTF-8, as `put --file-value` stores it, is exported to JSON with its bytes replaced unless `--hex` is given (`export_keys.go:168`, 208), and CSV import reads no `value_hex` (`import.go:119-122`): other bytes come back (`docs/how-to/cli/import-export.md:7` "useful for backups, migrations") |
| `MCEncodingDivergences.cfg` | `EnginesAlwaysAgree` | pebble's bound for a prefix that ends in the largest byte admits keys outside it (`pebble.go:612`) |
| `MCEncodingDivergences.cfg` | `NextLeavesFront` | the memory iterator's `Next` from before the first key, after `Prev` or `SeekLT`, goes to the end; pebble's goes to the first key |
| `MCEncodingDivergences.cfg` | `StalePolicyKeepsNewer` | a policy made before a version was written prunes that version: the difference wraps (`pruning.go:45`) |
| `MCEncodingDivergences.cfg` | `KeepsAtMostN` | `KeepLastNVersions` keeps N + 1 (`pruning.go:22` "keeps only the most recent N versions") |

Smaller ones, read off the models: `VerifyIntegrity` rejects every empty version,
which `ValidateTreeStructure` accepts, and compares no hashes; `validateNode`
accepts a node that is missing. Both read through the node cache, so a node that
storage has lost and the cache still holds is not noticed until the tree is opened
again (`reader.go:160`; `health.go:20` "comprehensive integrity check"). Inside a
script `version <n>` lasts, so that `get` there reads behind the script's own puts.
A batch that puts and then deletes an absent key fails, because only the
deletion is left. A text name of 64 characters is imported under the key
it spells in hexadecimal, or refused if it spells none, and the REPL's import hashes every name and is not atomic. A database
made with the memory backend is empty in every process.

This is why `tree` and `jmt` restrict their clients: `tree` to goroutines that use
their own versions and commit after an update, `jmt` to key sets in which
no deletion leaves a lone sibling leaf, and `commands` has one goroutine for each
batch, as the command line does. The restrictions are constants (`SharePending`,
`CommitUntouched`, `ReadFaults`, `Keys`, `Users`), not changes of the model.

## 5. Proofs

TLC's runs are about two goroutines and two or three versions. The theorems below
hold for every value of the constants, under the assumptions the modules state
(named ASSUMEs, which TLC evaluates on every run): bounds and retention arguments
are naturals, the values that stand for "none" differ from the real ones, the
goroutines of `Storage` are finitely many. Files, exports and scripts are
sequences of the entries their parsers give (`NamesAreKeys`, `FilesAreParsed`). A
store holds finitely many entries, each of which fits the fields of its key, one of
a kind and name, and prefixes, bounds and targets are bytes (`StoreIsWritten`); the
sizes of the fields and of a nibble are any, and the tags are four different bytes
(`EncodingParameters`). Nothing else is assumed of the constants except where a
theorem says so.

| Theorem | Module | States |
|---|---|---|
| `VMTypeCorrect` | `VersionManagerProofs` | `VMTypeOK` |
| `VMCommittedIsNewest` | | `CommittedVersionIsNewest` |
| `VMLineage` | | `LineageIsCommitted`, `HistoryIsAcyclic` |
| `VMImmutable` | | `VersionsAreImmutable` |
| `VMGCKeepsNewest` | | `GCKeepsNewest` |
| `TreeCommittedIsReadable` | `TreeProofs` | `CommittedIsReadable`, whatever the clients do |
| `TreeDurableIsImmutable` | | `DurableIsImmutable`, whatever the clients do |
| `TreeCommittedIsDurable` | | `CommittedIsDurable`, if not `CommitUntouched` |
| `TreeReadsMatchRootHash` | | `ReadsMatchRootHash`, if not `CommitUntouched` |
| `TreeNeverPanics` | | `NeverPanics`, if not `SharePending` |
| `TreeImplementsStore` | `TreeRefinementProofs` | `ImplementsVersionedStore`, if neither |
| `LocksTypeCorrect`, `LocksOrdered` | `TreeLocksProofs` | `LocksTypeOK`, `LockOrder`, without `GetAtVersion` |
| `LocksNoDeadlock` | | `NoCircularWait`, without `GetAtVersion` |
| `StorageResourcesAccounted` | `StorageProofs` | `ResourcesAccounted` |
| `StorageLimitsHold` | | `LimitsHold` |
| `StorageKeepsData` | | `CountedResourcesKeepData` |
| `StorageMetricsSafe` | | `MetricsReadOpenDatabase` |
| `StorageBatchesSafe` | | `MemoryBatchesNeverPanic` |
| `ExecuteIsSequential` | `CommandsProofs` | `ExecutedIsSequential` |
| `BatchAndImportAreAtomic` | | `CommandsAreAtomic` |
| `ImportsRestore` | | `ImportRestoresExport`, for any `TextOf` |
| `PromptIsFresh` | | `PromptReadsLatest` |
| `NothingAcceptedIsLost` | | `AcceptedIsExecuted`, for a batch of one goroutine |
| `IteratorsMissNothing` | `IterationProofs` | `WalksAreComplete` |
| `RecoveryIsExact` | | `RecoveryFindsVersions` |
| `KeysAreReadBack` | | `KeysAreFaithful` |
| `PruningIsFromTheOldEnd` | | `PruningKeepsNewest` |

The conditions are the disciplines without which the code does something else:
section 4 lists what happens with `CommitUntouched` (`MCTreeEmptyDurable.cfg`,
`MCTreeEmptyCommit.cfg`), `SharePending` (`MCTreeAbortPanic.cfg`) and
`GetAtVersion` (`locks_reentry`). Each theorem takes the weakest one it needs;
without any, `TreeInv` still holds.

**Version manager.** One inductive invariant, `VMInv`. `CommittedVersionIsNewest`
alone is not inductive: if a pending number could equal the committed one, an
abort would overwrite its record, so it needs `VersionNumbersDisjoint`.
`LineageIsCommitted` alone is not inductive either: a parent that is pending
could be aborted later, so `ParentsNotPending` is added. `Commit` and `Abort`
both move a number from pending to recorded and share a lemma (`ResolveInv`);
`CollectGarbage` and `RemoveVersion` both drop recorded numbers other than the
committed one and share another (`RemovalInv`). Garbage collection compares an
element's rank, the number of smaller elements; the ranks of n elements are
0 .. n-1, each once (`RankOrder`, `RankTaken`), so `Oldest(S, n)` has n elements or
all of them (`OldestCount`).

**Tree.** `TreeInv` says who is inside a writer's critical section
(`MutualExclusion`) and what such a writer's private copies have to do with the
shared maps. The delicate part is a commit between its four steps: the copy of
`rootHashes` it took must stay complete (`CopyComplete`) although collections
shrink the map and aborts change the version manager beside it; what is about to
be told to the manager is already published (`Published`); and the number it
writes is not in storage (`BatchIsNew`, from `PendingNotDurable`: a pending version
is in storage only while its writer is between the batch and the manager). What a
collection is about to drop is older than the committed version (`RemovedGone`), so
it cannot take away a version committed meanwhile. Steps without `writeMu` are
quiet (`VMQuiet`, `RootsQuiet`) and disturb no writer (`OthersOfQuiet`); steps with it
disturb nobody else (`OthersOfWriter`); so each action is examined for one client
only. A restart is compared with storage (`RecoveredIsNewest`). `DurableInv` adds
that readers and the copies in flight show only what is in storage, with its
nodes. It needs that an updated version stays updated until its commit takes
`writeMu`. `OwnedInv` adds that a version somebody works on is pending and his own;
that excludes both panics.

**Refinement.** A step simulation: `StoreBatch` is the store's `CommitVersion`,
`SwapRoots` its `Publish`, `GCRoots` its `Hide`, `ApplyUpdate` its `Write`,
`BeginVersion`, `AbortVersion` and `Restart` the steps of the same meaning; every
other step changes nothing the store can see. A version without an updater stands
for its parent's contents, so the creation of the updater is invisible
(`RefInitUpdater`), and writing a batch changes no other version under
construction because parents are never pending (`RefStore`).

**Locks.** The invariant reads the locks a goroutine holds off what is left of its
method (`ClientShape`). That works because each method is a list of short critical
sections of one inner lock each, alone or inside `writeMu` (`PathsWhole`), a shape
every step preserves (`NextRemainder`). A goroutine waits only for goroutines that
ask further up the hierarchy, or for a writer that has announced itself on the
same lock (`WaitsUpwards`); the hierarchy has an end, so nobody waits in a circle.
`GetAtVersion` does not have the shape.

**Storage.** Each counter is the size of the set of goroutines that hold what it
counts; a step moves one goroutine, which changes a size by one or not at all
(`Recount`). What is left for each action is where its own goroutine was and is
(`ClientOK`). `CloseOK` relates the phase of `Close` to who was counted before it
began. `LimitsHold` needs that a resource is granted only after the count, the
grantee's included, was within the limit (`GrantsInLimits`).

**Batches and commands.** `ExecutedIsSequential` compares two folds, so the proof
first says what a fold computes. Induction is the principle of the least element
here: the set of lengths at which a claim fails has no least member (`LeastElement`,
`Induction`). Every key has the value of its last operation (`EffectIsLastWrites`), and
what `optimizeOperationsLocked` keeps has the same last operations, each key once
(`At` takes elements by rank). The invariant of an `Execute` under way says that
what is pending is the parent's contents with the operations so far applied and
that no key applied already comes again, so the order of the rest does not matter. For
commands it adds what of the file is in the batch: `Meant` is what the entries read
so far stand for, and reading one more entry appends one operation or, with
`--skip-errors`, none. Only `CommitVersion` of the process's own `Execute` commits
while a file runs, which gives the atomicity of both commands. An exported file has
one value and one text for each key, because both come from the contents of one
version in one format, so the last entry of a key restores it or loses it like all
the others; nothing is assumed of `TextOf` but its type. The REPL's version is the
latest whenever the prompt is back; inside a script it need not be, and the property
does not claim it.

**Iterators, recovery and pruning.** Three layers. Numbers: powers of the byte
multiply (`PowersMultiply`), so a number that fits survives its bytes
(`BigEndianInverse`, with `DivMod` and `DivDiv`, which the provers do not know). Order:
`BytesLess` is decided at one position of the padded strings (`LessIsDecided`), hence
transitive and total, so a finite set of keys has exactly one increasing
enumeration (`EnumerationExists`, `EnumerationUnique`); a binary search cuts it in
two (`SearchCuts`) and filtering keeps it one (`WithPrefixEnumerates`). From this
both engines run over the keys asked for (`MemoryKeysAreAsked`,
`PebbleKeysAreAsked`); for Pebble this needs that the last byte of the prefix can
be increased, which is `Plain`, or that nothing lies above it, which saves the scan
for roots even if their tag is the largest byte (`LargestTagBounds`). Moves:
`IteratorInv` places an iterator on the last key of what its walk returned, a part
of its course, or past the end of all of it; `WalksAreComplete` alone does not say
where the iterator is and is not inductive. An iterator that never had keys may be
on either side of them. For pruning, the latest version found is the greatest, all
differences to it are below the modulus, and modular subtraction is the real one.

**Keys and paths.** `makeNodeKey` packs nibble by nibble into a zeroed buffer and
`EncodeNodeKey` two nibbles at a time; the first loop is shown to have, after m
nibbles, what the second has of them (`PackedStep`, `NodeKeyIsEncoded`). What is
packed is unpacked (`UnpackPack`), since a byte is made of two nibbles in one way
(`SplitNumber`), and the fields of a key are its slices (`ThreeParts`), so both parsers
give the key back; keys of another kind start with another tag. For the order:
big-endian bytes of one length are in the order of their numbers (`NumbersInOrder`), a
field of fixed length decides what it begins (`HeadDecides`), after equal fields
the rest does (`TailDecides`), and two paths of one length are packed in the order of
the nibble where they part (`PackedInOrder`). Paths of different lengths are not in
that order, as the count of nibbles comes first; the property does not claim it.
A key's nibbles are packed into the key again, so the order of paths is that of
keys (`PathIsKey`), and the definitions of common prefix and comparison by position
agree with the library's on sequences (`PathsCompared`, `PrefixIsLongest`).

**Only model-checked.** Liveness (`CallsReturn`, `MethodsReturn`, `CloseReturns`):
fairness is out of the prover's reach. Everything about `JellyfishTree` and `Proof`,
whose operators are RECURSIVE on trees of nodes. `NodesSurviveEncoding`: the children
of a node are sorted before they are written, and the batch decoder's loop has no
bound of its own.

## 6. Not modelled

* The lazily cached hash of an internal node. `Hash` reads the children without
  the node's lock, but every `SetChild` and `RemoveChild` in the code is on a new
  node or a clone that no other goroutine can see yet, so the race does not
  happen; the models take the hash as a function of the node.
* What the node cache holds, and in which order it evicts. A cached node is the stored
  one, because nodes are immutable under their key, so the cache matters only for
  nodes that storage has lost; there `Proof` reads through it, for the caches that a
  fresh tree, a read of one key and a finished check leave.
* Names that are not text; `Commands` takes names as they were typed.
* The engine below pebble, gzip (with the limit on the compressed size) and SHA-256:
  libraries, modelled by what they promise.
* Decoding of data the encoders did not write, beyond the checks of lengths.
* Time-based retention in `Tree`; it is checked in `VersionManager`.
* `init`, `get`, `stats`, `root-hash`, completion and path checks of the CLI,
  metrics, error wording and retry handlers nothing installs, configuration, and
  the fuzzing and benchmark drivers: no state a property could be about.

## 7. Plan

1. `NodesSurviveEncoding` for every size: the sorted children and the loop of the
   batch decoder as enumerations like those of `IterationProofs`.
2. Theorems about `Storage` after `Close`: which counts may still change, and that a
   wait group that panicked was in use again.
3. A history of collected root hashes in `Tree`, for the empty commit on a parent
   that was collected (`tree.go:413`).
