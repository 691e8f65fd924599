-------------------------------- MODULE Tree --------------------------------
(***************************************************************************)
(* The versioned operations of a Jellyfish Merkle tree shared by several   *)
(* goroutines (pkg/tree/tree.go, put.go, delete.go, reader.go), over the   *)
(* version manager and a storage engine that commits batches atomically.   *)
(*                                                                         *)
(* A goroutine is a client.  A method runs as a sequence of actions, one   *)
(* for each critical section (Tree.mu, VersionManager.mu) and for each     *)
(* storage access, so that everything other goroutines can do in between   *)
(* happens: Tree.writeMu serialises PutVersioned, DeleteVersioned and      *)
(* CommitVersion, but BeginVersion, AbortVersion and garbage collection    *)
(* run beside them.  Two steps are joined only where the first one takes   *)
(* writeMu and the second one reads what writeMu alone protects.           *)
(*                                                                         *)
(* The tree's structure is abstracted to its contents, and a root hash to  *)
(* the contents it authenticates (no two contents share a hash).  What the *)
(* structure decides is kept: a version's nodes are found through the root *)
(* node stored under that version's number, and a version whose batch has  *)
(* no root node reads as empty.  JellyfishTree models the structure.       *)
(***************************************************************************)
EXTENDS VersionManager

CONSTANTS
    Clients,            \* goroutines using the tree
    NoClient,           \* nobody (writeMu free)
    Keys, Values,       \* keys and values
    NoValue,            \* nil: no value under a key; a write of it is a delete
    NoKey,              \* a call without a key argument
    SharePending,       \* may clients use versions that other clients began?
    CommitUntouched     \* may clients commit versions no update succeeded in?

Contents == [Keys -> Values \cup {NoValue}]

EmptyTree == [k \in Keys |-> NoValue]

\* A TreeUpdater: the contents its current root stands for, and whether that
\* root is still the parent's (no update succeeded yet).
Updater == [contents : Contents, touched : BOOLEAN]

\* The version manager's parameters in this module.
ASSUME TreeHashes == Hashes = Contents /\ EmptyHash = EmptyTree
ASSUME TreeUpdaters == Updaters = Updater
ASSUME TreeClients == NoClient \notin Clients
ASSUME TreeValues == NoValue \notin Values /\ NoKey \notin Keys
ASSUME TreeDiscipline == SharePending \in BOOLEAN /\ CommitUntouched \in BOOLEAN

VARIABLES
    rootHashes,     \* t.rootHashes (under t.mu)
    latestVer,      \* t.latestVer (under t.mu)
    writeMu,        \* holder of t.writeMu
    dbRoots,        \* storage, root keys: version -> root hash
    dbNodes,        \* storage, node keys: version -> contents under its root node
    cl,             \* the clients' stacks: program counter and locals
    owner           \* the client that began each version

memVars == <<rootHashes, latestVer>>
dbVars == <<dbRoots, dbNodes>>
treeVars == <<vmVars, memVars, writeMu, dbVars, cl, owner>>

PCs == {"idle", "begin", "update", "setUpdater", "getPending", "apply",
        "commit", "emptyRoot", "emptyPublish", "emptyFinish", "copyRoots",
        "store", "swapRoots", "finish", "abort", "gcRoots", "read"}

\* auto: the call is made by Put or Delete, which begin, update and commit.
\* root, nodes: the root hash and "has a root node" of the batch being built.
\* roots, latest: newRootHashes and newLatestVer of CommitVersion.
\* removed: the versions CollectGarbage returned.
IdleClient ==
    [pc |-> "idle", auto |-> FALSE, parent |-> 0, version |-> 0, key |-> NoKey,
     value |-> NoValue, root |-> EmptyTree, nodes |-> FALSE,
     roots |-> [v \in {} |-> EmptyTree], latest |-> 0, removed |-> {}]

At(c, pc) == ~ panicked /\ cl[c].pc = pc

Goto(c, pc) == cl' = [cl EXCEPT ![c].pc = pc]

Return(c) == cl' = [cl EXCEPT ![c] = IdleClient]

\* An error: Put and Delete abort the version they began.
Fail(c) == IF cl[c].auto THEN Goto(c, "abort") ELSE Return(c)

-----------------------------------------------------------------------------
(* Storage: loadNodeFromStorage and the traversal from a version's root.   *)

\* The contents found below the root node stored for version v; without one
\* (getNode and loadNode find nothing) the tree is empty.
NodeContents(v) == IF v \in DOMAIN dbNodes THEN dbNodes[v] ELSE EmptyTree

Largest(S) == CHOOSE v \in S : \A w \in S : w <= v

TreeInit ==
    /\ VMInit
    /\ rootHashes = [v \in {InitialVersion} |-> EmptyTree]
    /\ latestVer = 0
    /\ writeMu = NoClient
    /\ dbRoots = [v \in {} |-> EmptyTree]
    /\ dbNodes = [v \in {} |-> EmptyTree]
    /\ cl = [c \in Clients |-> IdleClient]
    /\ owner = [v \in Version |-> NoClient]

-----------------------------------------------------------------------------
(* BeginVersion: read the latest committed version, then begin on it: two  *)
(* critical sections of the version manager.  Put and Delete start here.   *)

StartBegin(c, auto, key, value) ==
    /\ At(c, "idle")
    /\ cl' = [cl EXCEPT ![c] = [IdleClient EXCEPT
                !.pc = "begin", !.auto = auto, !.key = key, !.value = value,
                !.parent = committedVersion]]
    /\ UNCHANGED <<vmVars, memVars, writeMu, dbVars, owner>>

CallBegin(c) == StartBegin(c, FALSE, NoKey, NoValue)

CallPut(c) == \E k \in Keys, x \in Values : StartBegin(c, TRUE, k, x)

CallDelete(c) == \E k \in Keys : StartBegin(c, TRUE, k, NoValue)

BeginVersion(c) ==
    /\ At(c, "begin")
    /\ Begin(cl[c].parent)
    /\ owner' = [owner EXCEPT ![NewVersion] = c]
    /\ IF cl[c].auto
       THEN cl' = [cl EXCEPT ![c].pc = "update", ![c].parent = 0,
                    ![c].version = NewVersion]
       ELSE Return(c)
    /\ UNCHANGED <<memVars, writeMu, dbVars>>

BeginFails(c) ==
    /\ At(c, "begin")
    /\ ~ CanBegin(cl[c].parent)
    /\ Return(c)
    /\ UNCHANGED <<vmVars, memVars, writeMu, dbVars, owner>>

-----------------------------------------------------------------------------
(* PutVersioned and DeleteVersioned.                                       *)

\* The versions client c passes to the versioned calls.
MayUse(c, v) == SharePending \/ owner[v] = c

CallUpdate(c) ==
    /\ At(c, "idle")
    /\ \E v \in DOMAIN pendingWrites, k \in Keys, x \in Values \cup {NoValue} :
        /\ MayUse(c, v)
        /\ cl' = [cl EXCEPT ![c] = [IdleClient EXCEPT
                    !.pc = "update", !.version = v, !.key = k, !.value = x]]
    /\ UNCHANGED <<vmVars, memVars, writeMu, dbVars, owner>>

\* Lock writeMu and look the pending version up.
LockUpdate(c) ==
    LET v == cl[c].version
    IN  /\ At(c, "update")
        /\ writeMu = NoClient
        /\ IF v \notin DOMAIN pendingWrites
           THEN Fail(c) /\ UNCHANGED writeMu
           ELSE /\ writeMu' = c
                /\ IF pendingWrites[v].updater = NoUpdater
                   THEN Goto(c, "setUpdater")
                   ELSE cl' = [cl EXCEPT ![c].pc = "apply",
                                ![c].root = pendingWrites[v].updater.contents]
        /\ UNCHANGED <<vmVars, memVars, dbVars, owner>>

\* Mutant: a new version starts from nothing.
NewTreeUpdaterEmpty(v) ==
    [contents |-> EmptyTree, touched |-> FALSE]

\* NewTreeUpdater: the current root is the parent's root node.  A committed
\* parent's nodes never change, so they may as well be read here.
NewTreeUpdater(v) ==
    [contents |-> NodeContents(pendingWrites[v].parent), touched |-> FALSE]

InitUpdater(c) ==
    LET v == cl[c].version
    IN  /\ At(c, "setUpdater")
        /\ IF v \in DOMAIN pendingWrites
           THEN /\ SetPendingUpdater(v, NewTreeUpdater(v))
                /\ Goto(c, "getPending")
                /\ UNCHANGED writeMu
           ELSE Fail(c) /\ writeMu' = NoClient /\ UNCHANGED vmVars
        /\ UNCHANGED <<memVars, dbVars, owner>>

\* The pending version is looked up a second time and its updater called: if
\* an abort removed the version in between, that is a nil pointer.
GetPendingAgain(c) ==
    LET v == cl[c].version
    IN  /\ At(c, "getPending")
        /\ IF v \in DOMAIN pendingWrites /\ pendingWrites[v].updater # NoUpdater
           THEN /\ cl' = [cl EXCEPT ![c].pc = "apply",
                            ![c].root = pendingWrites[v].updater.contents]
                /\ UNCHANGED vmVars
           ELSE /\ panicked' = TRUE
                /\ UNCHANGED <<versions, latestVersion, committedVersion,
                               pendingWrites, retention, clock, cl>>
        /\ UNCHANGED <<memVars, writeMu, dbVars, owner>>

\* updater.Put or updater.Delete, then unlock.  Deleting a key that is not
\* there is an error and leaves the updater as it was.  The updater of an
\* aborted version is garbage: changing it changes nothing.
ApplyUpdate(c) ==
    LET v == cl[c].version
        k == cl[c].key
        x == cl[c].value
        contents == [cl[c].root EXCEPT ![k] = x]
    IN  /\ At(c, "apply")
        /\ writeMu' = NoClient
        /\ IF x = NoValue /\ cl[c].root[k] = NoValue
           THEN Fail(c) /\ UNCHANGED vmVars
           ELSE /\ IF v \in DOMAIN pendingWrites
                   THEN SetPendingUpdater(v, [contents |-> contents, touched |-> TRUE])
                   ELSE UNCHANGED vmVars
                /\ IF cl[c].auto THEN Goto(c, "commit") ELSE Return(c)
        /\ UNCHANGED <<memVars, dbVars, owner>>

-----------------------------------------------------------------------------
(* CommitVersion.                                                          *)

Touched(v) ==
    /\ pendingWrites[v].updater # NoUpdater
    /\ pendingWrites[v].updater.touched

CallCommit(c) ==
    /\ At(c, "idle")
    /\ \E v \in DOMAIN pendingWrites :
        /\ MayUse(c, v)
        /\ CommitUntouched \/ Touched(v)
        /\ cl' = [cl EXCEPT ![c] = [IdleClient EXCEPT
                    !.pc = "commit", !.version = v]]
    /\ UNCHANGED <<vmVars, memVars, writeMu, dbVars, owner>>

\* BuildUpdateBatch of an updater whose root is still a non-initial parent's
\* loads that root node, and fails if there is none.
BatchFails(v) ==
    /\ ~ pendingWrites[v].updater.touched
    /\ pendingWrites[v].parent # InitialVersion
    /\ pendingWrites[v].parent \notin DOMAIN dbNodes

\* Lock writeMu, look the pending version up and build the batch: its root
\* hash, and a root node unless nothing was written or the tree is empty.
LockCommit(c) ==
    LET v == cl[c].version
        u == pendingWrites[v].updater
    IN  /\ At(c, "commit")
        /\ writeMu = NoClient
        /\ \/ /\ v \in DOMAIN pendingWrites
              /\ u = NoUpdater
              /\ writeMu' = c
              /\ cl' = [cl EXCEPT ![c].pc = "emptyRoot",
                            ![c].parent = pendingWrites[v].parent]
           \/ /\ v \in DOMAIN pendingWrites
              /\ u # NoUpdater
              /\ ~ BatchFails(v)
              /\ writeMu' = c
              /\ cl' = [cl EXCEPT ![c].pc = "copyRoots", ![c].root = u.contents,
                            ![c].nodes = u.touched /\ u.contents # EmptyTree]
           \/ /\ v \in DOMAIN pendingWrites => u # NoUpdater /\ BatchFails(v)
              /\ Fail(c)
              /\ UNCHANGED writeMu
        /\ UNCHANGED <<vmVars, memVars, dbVars, owner>>

\* The empty version: no updater.  Its root hash is its parent's, or the
\* empty hash when the parent's is not known any more.
EmptyCommitRoot(c) ==
    LET parent == cl[c].parent
    IN  /\ At(c, "emptyRoot")
        /\ cl' = [cl EXCEPT ![c].pc = "emptyPublish",
                    ![c].root = IF parent > 0 /\ parent \in DOMAIN rootHashes
                                THEN rootHashes[parent] ELSE EmptyTree]
        /\ UNCHANGED <<vmVars, memVars, writeMu, dbVars, owner>>

EmptyCommitPublish(c) ==
    LET v == cl[c].version
    IN  /\ At(c, "emptyPublish")
        /\ rootHashes' = MapPut(rootHashes, v, cl[c].root)
        /\ latestVer' = IF v > latestVer THEN v ELSE latestVer
        /\ Goto(c, "emptyFinish")
        /\ UNCHANGED <<vmVars, writeMu, dbVars, owner>>

EmptyCommitFinish(c) ==
    LET v == cl[c].version
    IN  /\ At(c, "emptyFinish")
        /\ writeMu' = NoClient
        /\ IF v \in DOMAIN pendingWrites
           THEN Commit(v, cl[c].root) /\ Return(c)
           ELSE Fail(c) /\ UNCHANGED vmVars
        /\ UNCHANGED <<memVars, dbVars, owner>>

\* Mutant: the new version is left out of the copy.
CopyWithoutVersion(c) == rootHashes

\* newRootHashes: a copy of the map, with the new version added.
CopyWithVersion(c) == MapPut(rootHashes, cl[c].version, cl[c].root)

CopyRoots(c) ==
    LET v == cl[c].version
    IN  /\ At(c, "copyRoots")
        /\ cl' = [cl EXCEPT ![c].pc = "store", ![c].roots = CopyWithVersion(c),
                    ![c].latest = IF v > latestVer THEN v ELSE latestVer]
        /\ UNCHANGED <<vmVars, memVars, writeMu, dbVars, owner>>

\* Mutant: the root hash is left out of the batch.
BatchWithoutRoot(c) ==
    /\ dbRoots' = dbRoots
    /\ dbNodes' = IF cl[c].nodes THEN MapPut(dbNodes, cl[c].version, cl[c].root)
                  ELSE dbNodes

\* Mutant: the nodes are left out of the batch.
BatchWithoutNodes(c) ==
    /\ dbRoots' = MapPut(dbRoots, cl[c].version, cl[c].root)
    /\ dbNodes' = dbNodes

\* The batch: the new nodes and the root hash, written together.
WriteBatch(c) ==
    /\ dbRoots' = MapPut(dbRoots, cl[c].version, cl[c].root)
    /\ dbNodes' = IF cl[c].nodes THEN MapPut(dbNodes, cl[c].version, cl[c].root)
                  ELSE dbNodes

StoreBatch(c) ==
    /\ At(c, "store")
    /\ WriteBatch(c)
    /\ Goto(c, "swapRoots")
    /\ UNCHANGED <<vmVars, memVars, writeMu, owner>>

\* Mutant: the error path keeps writeMu.
StoreFailsLocked(c) ==
    /\ At(c, "store")
    /\ Fail(c)
    /\ UNCHANGED <<vmVars, memVars, writeMu, dbVars, owner>>

\* Encoding the nodes or committing the batch fails: the version stays pending.
StoreFails(c) ==
    /\ At(c, "store")
    /\ Fail(c)
    /\ writeMu' = NoClient
    /\ UNCHANGED <<vmVars, memVars, dbVars, owner>>

SwapRoots(c) ==
    /\ At(c, "swapRoots")
    /\ rootHashes' = cl[c].roots
    /\ latestVer' = cl[c].latest
    /\ Goto(c, "finish")
    /\ UNCHANGED <<vmVars, writeMu, dbVars, owner>>

\* "critical - must succeed": if the version is not pending any more, panic.
FinishCommit(c) ==
    LET v == cl[c].version
    IN  /\ At(c, "finish")
        /\ IF v \in DOMAIN pendingWrites
           THEN /\ Commit(v, cl[c].root)
                /\ Return(c)
                /\ writeMu' = NoClient
           ELSE /\ panicked' = TRUE
                /\ UNCHANGED <<versions, latestVersion, committedVersion,
                               pendingWrites, retention, clock, cl, writeMu>>
        /\ UNCHANGED <<memVars, dbVars, owner>>

-----------------------------------------------------------------------------
(* AbortVersion: the version manager alone, without writeMu.               *)

CallAbort(c) ==
    /\ At(c, "idle")
    /\ \E v \in DOMAIN pendingWrites :
        /\ MayUse(c, v)
        /\ cl' = [cl EXCEPT ![c] = [IdleClient EXCEPT
                    !.pc = "abort", !.version = v]]
    /\ UNCHANGED <<vmVars, memVars, writeMu, dbVars, owner>>

AbortVersion(c) ==
    LET v == cl[c].version
    IN  /\ At(c, "abort")
        /\ IF v \in DOMAIN pendingWrites THEN Abort(v) ELSE UNCHANGED vmVars
        /\ Return(c)
        /\ UNCHANGED <<memVars, writeMu, dbVars, owner>>

-----------------------------------------------------------------------------
(* CollectVersionGarbage: the version manager first, then rootHashes.      *)
(* Time-based retention is left to VersionManager.                         *)

StartGC(c) ==
    /\ At(c, "idle")
    /\ CollectGarbage
    /\ cl' = [cl EXCEPT ![c] = [IdleClient EXCEPT
                !.pc = "gcRoots", !.removed = Removed]]
    /\ UNCHANGED <<memVars, writeMu, dbVars, owner>>

GCRoots(c) ==
    /\ At(c, "gcRoots")
    /\ rootHashes' = MapDelete(rootHashes, cl[c].removed)
    /\ Return(c)
    /\ UNCHANGED <<vmVars, latestVer, writeMu, dbVars, owner>>

SetVersionRetentionPolicy ==
    /\ ~ panicked
    /\ \E p \in Policies \ {"Time"}, n \in MinVersions : SetRetentionPolicy(p, n, 0)
    /\ UNCHANGED <<memVars, writeMu, dbVars, cl, owner>>

-----------------------------------------------------------------------------
(* Get and Reader: look the root hash up, then read a storage snapshot.    *)
(* An unknown version or an empty root hash answers at once.               *)

StartGet(c) ==
    /\ At(c, "idle")
    /\ \E v \in DOMAIN rootHashes :
        /\ rootHashes[v] # EmptyTree
        /\ cl' = [cl EXCEPT ![c] = [IdleClient EXCEPT
                    !.pc = "read", !.version = v, !.root = rootHashes[v]]]
    /\ UNCHANGED <<vmVars, memVars, writeMu, dbVars, owner>>

ReadSnapshot(c) ==
    /\ At(c, "read")
    /\ Return(c)
    /\ UNCHANGED <<vmVars, memVars, writeMu, dbVars, owner>>

-----------------------------------------------------------------------------
(* The process dies (a crash, or a panic nobody recovers) and NewTree      *)
(* opens the storage again: loadRootHashes rebuilds versions from the root *)
(* keys, guessing that a version's parent is its predecessor.              *)

\* Mutant: the first version found counts as the latest.
RecoveredLatestLowest ==
    IF DOMAIN dbRoots = {} THEN 0
    ELSE CHOOSE v \in DOMAIN dbRoots : \A w \in DOMAIN dbRoots : v <= w

RecoveredLatest == Largest(DOMAIN dbRoots \cup {InitialVersion})

RecoveredVersions ==
    [v \in DOMAIN dbRoots \cup {InitialVersion} |->
        IF v = InitialVersion THEN InitialVersionInfo(clock)
        ELSE [rootHash |-> dbRoots[v], parent |-> v - 1,
              createdAt |-> clock, status |-> "Committed"]]

Restart ==
    /\ versions' = RecoveredVersions
    /\ latestVersion' = RecoveredLatest
    /\ committedVersion' = RecoveredLatest
    /\ pendingWrites' = [v \in {} |-> NoUpdater]
    /\ retention' = DefaultRetention
    /\ panicked' = FALSE
    /\ rootHashes' = IF DOMAIN dbRoots = {}
                     THEN [v \in {InitialVersion} |-> EmptyTree] ELSE dbRoots
    /\ latestVer' = RecoveredLatest
    /\ writeMu' = NoClient
    /\ cl' = [c \in Clients |-> IdleClient]
    /\ owner' = [v \in Version |-> NoClient]
    /\ UNCHANGED <<clock, dbVars>>

-----------------------------------------------------------------------------

Call(c) ==
    \/ CallBegin(c) \/ CallPut(c) \/ CallDelete(c)
    \/ CallUpdate(c) \/ CallCommit(c) \/ CallAbort(c)
    \/ StartGC(c) \/ StartGet(c)

\* The steps of a call that wait for writeMu.
Lock(c) == LockUpdate(c) \/ LockCommit(c)

\* The steps that wait for nobody.
Step(c) ==
    \/ BeginVersion(c) \/ BeginFails(c)
    \/ InitUpdater(c) \/ GetPendingAgain(c) \/ ApplyUpdate(c)
    \/ EmptyCommitRoot(c) \/ EmptyCommitPublish(c) \/ EmptyCommitFinish(c)
    \/ CopyRoots(c) \/ StoreBatch(c) \/ StoreFails(c) \/ SwapRoots(c)
    \/ FinishCommit(c)
    \/ AbortVersion(c) \/ GCRoots(c) \/ ReadSnapshot(c)

TreeNext ==
    \/ \E c \in Clients : Call(c) \/ Lock(c) \/ Step(c)
    \/ SetVersionRetentionPolicy
    \/ Restart

TreeSpec == TreeInit /\ [][TreeNext]_treeVars

\* A running goroutine is scheduled; Go's mutex hands itself to a goroutine
\* that has waited too long, so no waiter starves.
TreeFairness ==
    \A c \in Clients :
        /\ WF_treeVars(Step(c))
        /\ SF_treeVars(Lock(c))

TreeFairSpec == TreeSpec /\ TreeFairness
-----------------------------------------------------------------------------
(* Properties.                                                             *)

Locals ==
    [pc : PCs, auto : BOOLEAN, parent : Version, version : Version,
     key : Keys \cup {NoKey}, value : Values \cup {NoValue},
     root : Contents, nodes : BOOLEAN,
     roots : UNION {[S -> Contents] : S \in SUBSET Version},
     latest : Version, removed : SUBSET Version]

\* Every variable has its type, and a client in the middle of a writer's
\* critical section holds writeMu.
TreeTypeOK ==
    /\ VMTypeOK
    /\ DOMAIN rootHashes \subseteq Version
    /\ rootHashes \in [DOMAIN rootHashes -> Contents]
    /\ latestVer \in Version
    /\ writeMu \in Clients \cup {NoClient}
    /\ DOMAIN dbRoots \subseteq Version
    /\ dbRoots \in [DOMAIN dbRoots -> Contents]
    /\ DOMAIN dbNodes \subseteq Version
    /\ dbNodes \in [DOMAIN dbNodes -> Contents]
    /\ cl \in [Clients -> Locals]
    /\ owner \in [Version -> Clients \cup {NoClient}]

\* A version the version manager calls committed can be opened by a reader,
\* under the same root hash, at every step of concurrent commits, aborts,
\* garbage collections and restarts.  (Version 0 is the exception after a
\* restart: see InitialVersionIsReadable.)
CommittedIsReadable ==
    \A v \in CommittedVersions :
        /\ v \in DOMAIN rootHashes
        /\ rootHashes[v] = versions[v].rootHash

\* A committed version is in storage under its root hash, so a crash at any
\* moment keeps it.
CommittedIsDurable ==
    \A v \in CommittedVersions :
        /\ v \in DOMAIN dbRoots
        /\ dbRoots[v] = versions[v].rootHash

\* Whatever version a reader can open, and whatever root hash a reader in
\* progress has picked up, the nodes in storage are the ones that root hash
\* authenticates.
ReadsMatchRootHash ==
    /\ \A v \in DOMAIN rootHashes : NodeContents(v) = rootHashes[v]
    /\ \A c \in Clients :
         cl[c].pc = "read" => NodeContents(cl[c].version) = cl[c].root

\* What is in storage under a version's number never changes, across commits,
\* failures, panics and restarts: no number is written twice.
DurableIsImmutable ==
    [][/\ \A v \in DOMAIN dbRoots :
            v \in DOMAIN dbRoots' /\ dbRoots'[v] = dbRoots[v]
       /\ \A v \in DOMAIN dbRoots : NodeContents(v)' = NodeContents(v)]_treeVars

\* Version 0, the empty tree, can be opened like every committed version.
InitialVersionIsReadable ==
    IsCommitted(InitialVersion) => InitialVersion \in DOMAIN rootHashes

\* A version whose removal CollectVersionGarbage has reported is gone: what
\* readers can open is known to the version manager, except while a commit
\* or a garbage collection is between its two steps.
CollectedStaysGone ==
    \A v \in DOMAIN rootHashes :
        \/ v = InitialVersion
        \/ v \in DOMAIN versions
        \/ \E c \in Clients : v \in cl[c].removed \/ v = cl[c].version

\* Writers are serialised: a committed version is built on the newest version
\* committed before it, so no committed write is missing from the latest one.
WritersAreSerialised ==
    \A v, w \in CommittedVersions : w < v => w <= versions[v].parent

\* Every call returns: no goroutine waits for ever, whatever the others do.
CallsReturn ==
    \A c \in Clients : cl[c].pc # "idle" ~> cl[c].pc = "idle"

\* The tree implements the versioned store: a durable version is the parent's
\* contents plus the updates made in it, becomes durable whole, and never
\* changes; a restart loses only what was pending.
VS == INSTANCE VersionedStore WITH
        store <- [v \in DOMAIN dbRoots \cup {InitialVersion} |->
                    IF v = InitialVersion THEN EmptyTree ELSE dbRoots[v]],
        visible <- DOMAIN rootHashes,
        building <- [v \in DOMAIN pendingWrites \ DOMAIN dbRoots |->
                        IF pendingWrites[v].updater = NoUpdater
                        THEN NodeContents(pendingWrites[v].parent)
                        ELSE pendingWrites[v].updater.contents]

ImplementsVersionedStore == VS!Spec
=============================================================================
