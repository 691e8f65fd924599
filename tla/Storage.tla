------------------------------- MODULE Storage -------------------------------
(***************************************************************************)
(* The resource protocol of the two storage engines,                       *)
(* pkg/storage/memory/memory.go and pkg/storage/pebble/pebble.go: batches, *)
(* iterators and snapshots hold references, limits cap what is open, and   *)
(* Close waits for what it knows of.                                       *)
(*                                                                         *)
(* Both engines count references with the same code: an atomic flag        *)
(* (closing), an atomic counter (refCount) and a wait group, each changed  *)
(* in a step of its own.  Clients are goroutines that use the store, each  *)
(* with one resource at a time, and one closer shuts it down.  Where the   *)
(* engines differ (what a write does after Close, the check in Commit, the *)
(* metrics goroutine, iterators of a closed snapshot) the action has one   *)
(* definition for each.  What is stored is left out: the properties only   *)
(* tell a live map or database from a nil one.                             *)
(***************************************************************************)
EXTENDS Integers, FiniteSets

CONSTANTS
    Clients,        \* goroutines that use the store
    MaxIterators,   \* Options.MaxIterators, 0: unlimited
    MaxSnapshots    \* Options.MaxSnapshots, 0: unlimited

ASSUME StorageLimits == MaxIterators \in Nat /\ MaxSnapshots \in Nat
ASSUME StorageClients == IsFiniteSet(Clients)

VARIABLES
    engine,         \* "memory" or "pebble"
    live,           \* the map or the database is there, not nil
    closing,        \* the atomic closing flag
    closer,         \* where Close is
    collector,      \* pebble's updateDatabaseMetrics goroutine
    refCount,       \* references taken
    wg,             \* the counter of resourceWG
    openIterators, openSnapshots,
    pc,             \* where each client is
    want,           \* the resource or the operation a client is working on
    seen,           \* the refCount that addRef loaded
    handle,         \* the batch, iterator or snapshot of a client
    panicked        \* the clients that a panic stopped

store == <<engine, live, closing, closer, collector>>
counters == <<refCount, wg, openIterators, openSnapshots>>
storageVars == <<store, counters, pc, want, seen, handle, panicked>>

Kinds == {"batch", "iterator", "snapshot"}
Ops == {"get", "put", "delete"}

\* open: the closed flag is not set.  early: counted before Close began.
\* puts: the batch has a Put.  sub: an iterator made by the snapshot is open.
Handles == [kind : Kinds \cup {"none"}, open : BOOLEAN, early : BOOLEAN, puts : BOOLEAN, sub : BOOLEAN]
NoHandle == [kind |-> "none", open |-> FALSE, early |-> FALSE, puts |-> FALSE, sub |-> FALSE]

\* An empty store; pebble with metrics enabled starts their goroutine.
StorageInit ==
    /\ engine \in {"memory", "pebble"}
    /\ live = TRUE /\ closing = FALSE /\ closer = "idle"
    /\ collector = IF engine = "pebble" THEN "waiting" ELSE "off"
    /\ refCount = 0 /\ wg = 0 /\ openIterators = 0 /\ openSnapshots = 0
    /\ pc = [c \in Clients |-> "idle"]
    /\ want = [c \in Clients |-> "none"]
    /\ seen = [c \in Clients |-> 0]
    /\ handle = [c \in Clients |-> NoHandle]
    /\ panicked = {}

Goto(c, l) == pc' = [pc EXCEPT ![c] = l]
At(c, l) == pc[c] = l /\ c \notin panicked
Panic(c) == panicked' = panicked \cup {c} /\ UNCHANGED pc

-----------------------------------------------------------------------------
(* addRef: the flag, the counter, the wait group.                          *)

\* NewBatch, NewIterator and NewSnapshot begin with addRef.
NewResource(c, k) ==
    /\ At(c, "idle") /\ handle[c] = NoHandle
    /\ want' = [want EXCEPT ![c] = k]
    /\ Goto(c, "check")
    /\ UNCHANGED <<store, counters, seen, handle, panicked>>

\* A closing store hands out an error resource.
LoadClosing(c) ==
    /\ At(c, "check")
    /\ Goto(c, IF closing THEN "idle" ELSE "load")
    /\ UNCHANGED <<store, counters, want, seen, handle, panicked>>

LoadRefs(c) ==
    /\ At(c, "load")
    /\ seen' = [seen EXCEPT ![c] = refCount]
    /\ Goto(c, "cas")
    /\ UNCHANGED <<store, counters, want, handle, panicked>>

\* A failed swap starts over, with the flag.
CompareAndSwapRefs(c) ==
    /\ At(c, "cas")
    /\ \/ refCount = seen[c] /\ refCount' = refCount + 1 /\ Goto(c, "add")
       \/ refCount # seen[c] /\ UNCHANGED refCount /\ Goto(c, "check")
    /\ seen' = [seen EXCEPT ![c] = 0]
    /\ UNCHANGED <<store, wg, openIterators, openSnapshots, want, handle, panicked>>

\* resourceWG.Add(1).
WaitGroupAdd(c) ==
    /\ At(c, "add")
    /\ wg' = wg + 1
    /\ handle' = [handle EXCEPT ![c].early = ~closing]
    /\ Goto(c, IF want[c] = "batch" THEN "create" ELSE "limit")
    /\ UNCHANGED <<store, refCount, openIterators, openSnapshots, want, seen, panicked>>

(* releaseRef.                                                              *)

Unref(c) ==
    /\ At(c, "unref")
    /\ refCount' = refCount - 1
    /\ Goto(c, "done")
    /\ UNCHANGED <<store, wg, openIterators, openSnapshots, want, seen, handle, panicked>>

\* resourceWG.Done; at zero it wakes a sleeping Close.
WaitGroupDone(c) ==
    /\ At(c, "done")
    /\ wg' = wg - 1
    /\ closer' = IF wg = 1 /\ closer = "sleeping" THEN "woken" ELSE closer
    /\ handle' = IF handle[c].kind = "none" THEN [handle EXCEPT ![c] = NoHandle] ELSE handle
    /\ Goto(c, "idle")
    /\ UNCHANGED <<engine, live, closing, collector, refCount, openIterators, openSnapshots,
                   want, seen, panicked>>

-----------------------------------------------------------------------------
(* The limits on iterators and snapshots.                                  *)

Limit(k) == IF k = "iterator" THEN MaxIterators ELSE MaxSnapshots
OpenOf(k) == IF k = "iterator" THEN openIterators ELSE openSnapshots
AddOpen(k, d) ==
    /\ openIterators' = IF k = "iterator" THEN openIterators + d ELSE openIterators
    /\ openSnapshots' = IF k = "snapshot" THEN openSnapshots + d ELSE openSnapshots

\* Mutant: the counter is compared as it was before it is increased.
CountOpenStale(c) ==
    /\ At(c, "limit")
    /\ AddOpen(want[c], 1)
    /\ Goto(c, IF Limit(want[c]) > 0 /\ OpenOf(want[c]) > Limit(want[c]) THEN "uncount" ELSE "create")
    /\ UNCHANGED <<store, refCount, wg, want, seen, handle, panicked>>

\* The counter is increased and the new value compared with the limit.
CountOpen(c) ==
    /\ At(c, "limit")
    /\ AddOpen(want[c], 1)
    /\ Goto(c, IF Limit(want[c]) > 0 /\ OpenOf(want[c]) + 1 > Limit(want[c]) THEN "uncount" ELSE "create")
    /\ UNCHANGED <<store, refCount, wg, want, seen, handle, panicked>>

\* Mutant: a refused resource keeps its reference.
UncountOpenKeepsRef(c) ==
    /\ At(c, "uncount")
    /\ AddOpen(want[c], -1)
    /\ Goto(c, IF handle[c].kind = "none" THEN "idle" ELSE "unref")
    /\ handle' = IF handle[c].kind = "none" THEN [handle EXCEPT ![c] = NoHandle] ELSE handle
    /\ UNCHANGED <<store, refCount, wg, want, seen, panicked>>

\* A refused or closed iterator or snapshot no longer counts; its reference
\* is released next.
UncountOpen(c) ==
    /\ At(c, "uncount")
    /\ AddOpen(want[c], -1)
    /\ Goto(c, "unref")
    /\ UNCHANGED <<store, refCount, wg, want, seen, handle, panicked>>

-----------------------------------------------------------------------------
(* Batches, iterators and snapshots.                                       *)

Give(c) ==
    /\ handle' = [handle EXCEPT ![c].kind = want[c], ![c].open = TRUE]
    /\ Goto(c, "idle")
    /\ UNCHANGED panicked

\* An iterator or a snapshot copies the map under mu; a nil map copies as an
\* empty one.
MemoryCreate(c) ==
    /\ At(c, "create") /\ engine = "memory"
    /\ Give(c)
    /\ UNCHANGED <<store, counters, want, seen>>

\* A batch only keeps the database pointer.  NewIter and NewSnapshot of a nil
\* database panic, and NewIter may fail, which gives everything back.
PebbleCreate(c) ==
    /\ At(c, "create") /\ engine = "pebble"
    /\ \/ (live \/ want[c] = "batch") /\ Give(c)
       \/ ~live /\ want[c] # "batch" /\ Panic(c) /\ UNCHANGED handle
       \/ live /\ want[c] = "iterator" /\ Goto(c, "uncount") /\ UNCHANGED <<handle, panicked>>
    /\ UNCHANGED <<store, counters, want, seen>>

\* Mutant: Close of a closed resource releases again.
CloseHandleTwice(c) ==
    /\ At(c, "idle") /\ handle[c].kind # "none"
    /\ handle' = [handle EXCEPT ![c].open = FALSE, ![c].puts = FALSE]
    /\ Goto(c, IF handle[c].kind = "batch" THEN "unref" ELSE "uncount")
    /\ UNCHANGED <<store, counters, want, seen, panicked>>

\* Close of a batch, iterator or snapshot swaps the closed flag once, then
\* counts down.
CloseHandle(c) ==
    /\ At(c, "idle") /\ handle[c].open
    /\ handle' = [handle EXCEPT ![c].open = FALSE, ![c].puts = FALSE]
    /\ Goto(c, IF handle[c].kind = "batch" THEN "unref" ELSE "uncount")
    /\ UNCHANGED <<store, counters, want, seen, panicked>>

\* The caller lets go of a closed resource.
DropHandle(c) ==
    /\ At(c, "idle") /\ handle[c].kind # "none" /\ ~handle[c].open /\ ~handle[c].sub
    /\ handle' = [handle EXCEPT ![c] = NoHandle]
    /\ want' = [want EXCEPT ![c] = "none"]
    /\ UNCHANGED <<store, counters, pc, seen, panicked>>

\* batch.Put.  batch.Delete changes nothing the properties see.
BatchPut(c) ==
    /\ At(c, "idle") /\ handle[c].kind = "batch" /\ handle[c].open
    /\ handle' = [handle EXCEPT ![c].puts = TRUE]
    /\ UNCHANGED <<store, counters, pc, want, seen, panicked>>

\* Mutant: memory's Commit does not look at the closing flag.
CommitUnchecked(c) ==
    /\ At(c, "idle") /\ handle[c].kind = "batch" /\ handle[c].open
    /\ Goto(c, "commit")
    /\ UNCHANGED <<store, counters, want, seen, handle, panicked>>

\* memory's Commit of an open batch: refused when the store is closing, and
\* then the batch stays open for its Close.
CommitCheck(c) ==
    /\ At(c, "idle") /\ handle[c].kind = "batch" /\ handle[c].open
    /\ engine = "memory" => ~closing
    /\ Goto(c, "commit")
    /\ UNCHANGED <<store, counters, want, seen, handle, panicked>>

Close(c) ==
    /\ handle' = [handle EXCEPT ![c].open = FALSE, ![c].puts = FALSE]
    /\ Goto(c, "unref")
    /\ UNCHANGED panicked

\* All operations under mu, then close.  Assigning to a nil map panics,
\* deleting from one does not.
MemoryCommit(c) ==
    /\ At(c, "commit") /\ engine = "memory"
    /\ \/ (live \/ ~handle[c].puts) /\ Close(c)
       \/ ~live /\ handle[c].puts /\ Panic(c) /\ UNCHANGED handle
    /\ UNCHANGED <<store, counters, want, seen>>

\* The batch is closed whether the engine's commit succeeds or fails.
PebbleCommit(c) ==
    /\ At(c, "commit") /\ engine = "pebble"
    /\ \/ live /\ Close(c)
       \/ ~live /\ Panic(c) /\ UNCHANGED handle
    /\ UNCHANGED <<store, counters, want, seen>>

(* Iterators of a snapshot hold no reference.                               *)

SubIterator(c) ==
    /\ At(c, "idle") /\ handle[c].kind = "snapshot" /\ ~handle[c].sub
    /\ openIterators' = openIterators + 1
    /\ IF MaxIterators > 0 /\ openIterators + 1 > MaxIterators
       THEN Goto(c, "uncountSub") /\ UNCHANGED handle
       ELSE handle' = [handle EXCEPT ![c].sub = TRUE] /\ UNCHANGED pc
    /\ UNCHANGED <<store, refCount, wg, openSnapshots, want, seen, panicked>>

\* memory does not look whether the snapshot is closed, pebble does.
MemorySnapshotIterator(c) == engine = "memory" /\ SubIterator(c)
PebbleSnapshotIterator(c) == engine = "pebble" /\ handle[c].open /\ SubIterator(c)

\* snap.NewIter fails after the iterator was counted within the limit; the
\* count is given back.
PebbleSnapshotIteratorFails(c) ==
    /\ At(c, "idle") /\ handle[c].kind = "snapshot" /\ ~handle[c].sub
    /\ engine = "pebble" /\ handle[c].open
    /\ MaxIterators > 0 => openIterators + 1 <= MaxIterators
    /\ openIterators' = openIterators + 1
    /\ Goto(c, "uncountSub")
    /\ UNCHANGED <<store, refCount, wg, openSnapshots, want, seen, handle, panicked>>

SnapshotIteratorClose(c) ==
    /\ At(c, "idle") /\ handle[c].sub
    /\ handle' = [handle EXCEPT ![c].sub = FALSE]
    /\ Goto(c, "uncountSub")
    /\ UNCHANGED <<store, counters, want, seen, panicked>>

UncountSub(c) ==
    /\ At(c, "uncountSub")
    /\ openIterators' = openIterators - 1
    /\ Goto(c, "idle")
    /\ UNCHANGED <<store, refCount, wg, openSnapshots, want, seen, handle, panicked>>

(* Get, Put and Delete hold no reference: they look at the flag only.       *)

OpCheck(c, op) ==
    /\ At(c, "idle") /\ handle[c] = NoHandle /\ ~closing
    /\ want' = [want EXCEPT ![c] = op]
    /\ Goto(c, "op")
    /\ UNCHANGED <<store, counters, seen, handle, panicked>>

\* A nil map has nothing to read or delete, and a write to it panics.
MemoryOp(c) ==
    /\ At(c, "op") /\ engine = "memory"
    /\ \/ (live \/ want[c] # "put") /\ Goto(c, "idle") /\ UNCHANGED panicked
       \/ ~live /\ want[c] = "put" /\ Panic(c)
    /\ UNCHANGED <<store, counters, want, seen, handle>>

\* Every call on the nil database panics.
PebbleOp(c) ==
    /\ At(c, "op") /\ engine = "pebble"
    /\ \/ live /\ Goto(c, "idle") /\ UNCHANGED panicked
       \/ ~live /\ Panic(c)
    /\ UNCHANGED <<store, counters, want, seen, handle>>

-----------------------------------------------------------------------------
(* Close and the metrics goroutine.                                        *)

clientVars == <<counters, pc, want, seen, handle, panicked>>

\* The flag is swapped once; a second Close returns nil at once.
BeginClose ==
    /\ closer = "idle" /\ ~closing
    /\ closing' = TRUE
    /\ closer' = "metrics"
    /\ UNCHANGED <<clientVars, engine, live, collector>>

\* Mutant: Close does not wait for the metrics goroutine.
SkipMetrics ==
    /\ closer = "metrics"
    /\ closer' = "wait"
    /\ UNCHANGED <<clientVars, engine, live, closing, collector>>

\* metricsWG.Wait, after stopMetrics is closed.
WaitMetrics ==
    /\ closer = "metrics" /\ collector \in {"off", "stopped"}
    /\ closer' = "wait"
    /\ UNCHANGED <<clientVars, engine, live, closing, collector>>

\* Mutant: Close does not wait for the resources.
WaitNothing ==
    /\ closer = "wait"
    /\ closer' = "clear"
    /\ UNCHANGED <<clientVars, engine, live, closing, collector>>

\* resourceWG.Wait returns at zero or sleeps.
WaitResources ==
    /\ closer = "wait"
    /\ closer' = IF wg = 0 THEN "clear" ELSE "sleeping"
    /\ UNCHANGED <<clientVars, engine, live, closing, collector>>

\* A woken Wait that finds the counter in use again panics.
Wake ==
    /\ closer = "woken"
    /\ closer' = IF wg = 0 THEN "clear" ELSE "panicked"
    /\ UNCHANGED <<clientVars, engine, live, closing, collector>>

\* The leak check only prints; the map or the database goes.
ClearData ==
    /\ closer = "clear"
    /\ live' = FALSE
    /\ closer' = "closed"
    /\ UNCHANGED <<clientVars, engine, closing, collector>>

\* A tick: stop when closing, else read the database's metrics.
MetricsTick ==
    /\ collector = "waiting"
    /\ collector' = IF closing THEN "stopped" ELSE "reading"
    /\ UNCHANGED <<clientVars, engine, live, closing, closer>>

MetricsRead ==
    /\ collector = "reading"
    /\ collector' = "waiting"
    /\ UNCHANGED <<clientVars, engine, live, closing, closer>>

\* The other case of the select: Close has closed stopMetrics.
MetricsStop ==
    /\ collector = "waiting" /\ closer # "idle"
    /\ collector' = "stopped"
    /\ UNCHANGED <<clientVars, engine, live, closing, closer>>

-----------------------------------------------------------------------------

Call(c) ==
    \/ \E k \in Kinds : NewResource(c, k)
    \/ \E op \in Ops : OpCheck(c, op)
    \/ BatchPut(c) \/ CommitCheck(c)
    \/ MemorySnapshotIterator(c) \/ PebbleSnapshotIterator(c) \/ PebbleSnapshotIteratorFails(c)

\* The rest of a call, once begun.
Step(c) ==
    \/ LoadClosing(c) \/ LoadRefs(c) \/ CompareAndSwapRefs(c) \/ WaitGroupAdd(c)
    \/ CountOpen(c) \/ UncountOpen(c) \/ Unref(c) \/ WaitGroupDone(c)
    \/ MemoryCreate(c) \/ PebbleCreate(c)
    \/ MemoryCommit(c) \/ PebbleCommit(c)
    \/ UncountSub(c)
    \/ MemoryOp(c) \/ PebbleOp(c)

Wait == WaitMetrics \/ WaitResources \/ Wake \/ ClearData

StorageNext ==
    \/ \E c \in Clients :
        Call(c) \/ Step(c) \/ CloseHandle(c) \/ SnapshotIteratorClose(c) \/ DropHandle(c)
    \/ BeginClose \/ Wait
    \/ MetricsTick \/ MetricsRead \/ MetricsStop

StorageSpec == StorageInit /\ [][StorageNext]_storageVars

\* A goroutine inside a call is scheduled.  Every caller in pkg/tree defers
\* the Close of what it opened, so the Close comes after finitely many other
\* calls on the resource.  The select of the metrics goroutine takes the
\* closed channel in the end.
StorageFairSpec ==
    /\ StorageSpec
    /\ \A c \in Clients : WF_storageVars(Step(c)) /\ SF_storageVars(CloseHandle(c))
    /\ WF_storageVars(Wait)
    /\ WF_storageVars(MetricsRead) /\ SF_storageVars(MetricsStop)

-----------------------------------------------------------------------------
(* Properties.                                                              *)

\* The counters never go below zero, however releases and refusals of both
\* engines interleave, and every call is at a step it has (addRef, releaseRef).
StorageTypeOK ==
    /\ engine \in {"memory", "pebble"}
    /\ live \in BOOLEAN /\ closing \in BOOLEAN
    /\ refCount \in Nat /\ wg \in Nat /\ openIterators \in Nat /\ openSnapshots \in Nat
    /\ pc \in [Clients -> {"idle", "check", "load", "cas", "add", "limit", "create", "uncount",
                           "unref", "done", "commit", "uncountSub", "op"}]
    /\ want \in [Clients -> Kinds \cup Ops \cup {"none"}]
    /\ seen \in [Clients -> Nat]
    /\ handle \in [Clients -> Handles]
    /\ panicked \subseteq Clients
    /\ closer \in {"idle", "metrics", "wait", "sleeping", "woken", "clear", "closed", "panicked"}
    /\ collector \in {"off", "waiting", "reading", "stopped"}

\* A reference is held by an open resource and by a call that makes or ends one.
Counted(c) == handle[c].open \/ pc[c] \in {"limit", "create", "uncount"}

\* Every reference and every count of an open iterator or snapshot belongs to
\* a resource that is open, being made or being closed: no path (refusal,
\* failed creation, a commit followed by Close) releases twice or not at all
\* (addRef, releaseRef and the closed flags of both engines).
ResourcesAccounted ==
    /\ StorageTypeOK
    /\ refCount = Cardinality({c \in Clients : Counted(c) \/ pc[c] \in {"add", "unref"}})
    /\ wg = Cardinality({c \in Clients : Counted(c) \/ pc[c] \in {"unref", "done"}})
    /\ openSnapshots =
         Cardinality({c \in Clients : want[c] = "snapshot" /\ Counted(c) /\ pc[c] # "limit"})
    /\ openIterators =
         Cardinality({c \in Clients : want[c] = "iterator" /\ Counted(c) /\ pc[c] # "limit"})
         + Cardinality({c \in Clients : handle[c].sub \/ pc[c] = "uncountSub"})

\* However many goroutines race for the last one, no more iterators and
\* snapshots are handed out than the options allow (NewIterator, NewSnapshot
\* and the snapshots' NewIterator).
LimitsHold ==
    /\ MaxIterators > 0 =>
         Cardinality({c \in Clients : handle[c].kind = "iterator" /\ handle[c].open})
         + Cardinality({c \in Clients : handle[c].sub}) <= MaxIterators
    /\ MaxSnapshots > 0 =>
         Cardinality({c \in Clients : handle[c].kind = "snapshot" /\ handle[c].open}) <= MaxSnapshots

\* Close does not take the data from a batch, an iterator or a snapshot that
\* was counted before Close began (Close waits for resourceWG).
CountedResourcesKeepData ==
    \A c \in Clients : (handle[c].open /\ handle[c].early) => live

\* The metrics goroutine never reads a database Close has closed (pebble.go:
\* "This is safe because Close() waits for us to finish").
MetricsReadOpenDatabase == collector = "reading" => live

\* A memory batch is applied or refused whatever Close does between NewBatch
\* and Commit: only a plain Put can meet the nil map (batch.Commit, Put).
MemoryBatchesNeverPanic ==
    engine = "memory" => \A c \in panicked : want[c] = "put"

\* Close ends once the resources are closed: it returns, or its wait group
\* panics because a reference was counted after it had reached zero.
CloseReturns == closing ~> closer \in {"closed", "panicked"}

\* What pkg/storage/resource_management.spec.md asks of Close, "Storage waits
\* for active resources": no open resource loses the data.
ActiveResourcesKeepData == \A c \in Clients : handle[c].open => live
=============================================================================
