----------------------------- MODULE TreeProofs -----------------------------
(***************************************************************************)
(* Safety of the tree's versioned operations for any number of goroutines, *)
(* keys, values and versions, across crashes.                              *)
(*                                                                         *)
(* TreeInv holds under every discipline of the clients.  It says who may   *)
(* be inside a writer's critical section and what such a writer's private  *)
(* copies still have to do with the shared maps: CommitVersion copies      *)
(* rootHashes, writes its batch, swaps the copy in and tells the version   *)
(* manager, in four steps that garbage collection and aborts run between.  *)
(* DurableInv adds what holds while nobody commits a version that no       *)
(* update succeeded in, OwnedInv what holds while every client uses only   *)
(* the versions it began.                                                  *)
(***************************************************************************)
EXTENDS Tree, VersionManagerProofs

\* The steps a client takes while it holds writeMu.
WriterPCs == {"setUpdater", "getPending", "apply", "emptyRoot", "emptyPublish",
              "emptyFinish", "copyRoots", "store", "swapRoots", "finish"}

\* The steps a client takes on behalf of a pending version.
VersionPCs == WriterPCs \cup {"update", "commit", "abort"}

\* Only the holder of writeMu is inside a writer's critical section.
MutualExclusion == \A c \in Clients : cl[c].pc \in WriterPCs <=> writeMu = c

\* Storage holds numbers that were handed out, and a root node only together
\* with a root hash.
DurableNumbers ==
    /\ DOMAIN dbRoots \subseteq 1 .. latestVersion
    /\ DOMAIN dbNodes \subseteq DOMAIN dbRoots

\* A pending version is in storage only between its batch and its commit.
PendingNotDurable ==
    \A v \in DOMAIN pendingWrites \cap DOMAIN dbRoots :
        \E c \in Clients : cl[c].pc \in {"swapRoots", "finish"} /\ cl[c].version = v

\* A writer works on a number that was handed out and is not committed.
WriterVersion(c) ==
    cl[c].pc \in WriterPCs =>
        /\ cl[c].version \in 1 .. latestVersion
        /\ cl[c].version \notin CommittedVersions

\* What a garbage collection is about to drop from rootHashes is older than
\* the committed version, and gone from the version manager.
RemovedGone(c) ==
    \A v \in cl[c].removed :
        /\ v < committedVersion
        /\ v \notin DOMAIN versions \cup DOMAIN pendingWrites

\* A batch is written under a number storage does not hold yet.
BatchIsNew(c) ==
    cl[c].pc \in {"copyRoots", "store"} => cl[c].version \notin DOMAIN dbRoots

\* The copy of rootHashes stays complete until it is swapped in.
CopyComplete(c) ==
    cl[c].pc \in {"store", "swapRoots"} =>
        /\ DOMAIN rootHashes \subseteq DOMAIN cl[c].roots
        /\ cl[c].version \in DOMAIN cl[c].roots
        /\ cl[c].roots[cl[c].version] = cl[c].root
        /\ \A v \in CommittedVersions :
             v \in DOMAIN cl[c].roots /\ cl[c].roots[v] = versions[v].rootHash

\* What the version manager is about to be told is already published.
Published(c) ==
    cl[c].pc \in {"finish", "emptyFinish"} /\ cl[c].version \in DOMAIN pendingWrites =>
        /\ cl[c].version \in DOMAIN rootHashes
        /\ rootHashes[cl[c].version] = cl[c].root

\* A writer's view of the updater is current: no other client changes it.
UpdaterCurrent(c) ==
    cl[c].version \in DOMAIN pendingWrites =>
        /\ cl[c].pc = "setUpdater" =>
             pendingWrites[cl[c].version].updater = NoUpdater
        /\ cl[c].pc = "getPending" =>
             pendingWrites[cl[c].version].updater # NoUpdater
        /\ cl[c].pc \in {"apply", "copyRoots", "store"} =>
             /\ pendingWrites[cl[c].version].updater # NoUpdater
             /\ pendingWrites[cl[c].version].updater.contents = cl[c].root

\* An update has a key.
HasKey(c) ==
    (\/ cl[c].pc \in {"update", "setUpdater", "getPending", "apply"}
     \/ cl[c].pc = "begin" /\ cl[c].auto)
    => cl[c].key \in Keys

\* What holds of one client under every discipline.
ClientInv(c) ==
    /\ WriterVersion(c)
    /\ RemovedGone(c)
    /\ BatchIsNew(c)
    /\ CopyComplete(c)
    /\ Published(c)
    /\ UpdaterCurrent(c)
    /\ HasKey(c)

\* The inductive invariant that needs no discipline of the clients.
TreeInv ==
    /\ TreeTypeOK
    /\ VMInv
    /\ MutualExclusion
    /\ DurableNumbers
    /\ PendingNotDurable
    /\ CommittedIsReadable
    /\ \A c \in Clients : ClientInv(c)

\* h is what storage holds for version v.
InStore(v, h) ==
    \/ v = InitialVersion /\ h = EmptyTree
    \/ v \in DOMAIN dbRoots /\ h = dbRoots[v]

\* Nobody is in the empty commit; a version about to be committed was updated,
\* its batch has a root node unless the tree is empty, and what a committing
\* client is to publish, or a reader has picked up, is in storage.
ClientDurable(c) ==
    /\ cl[c].pc \notin {"emptyRoot", "emptyPublish", "emptyFinish"}
    /\ cl[c].pc = "commit" =>
            /\ cl[c].version \in 1 .. latestVersion
            /\ cl[c].version \in DOMAIN pendingWrites => Touched(cl[c].version)
    /\ cl[c].pc \in {"copyRoots", "store"} =>
            cl[c].nodes = (cl[c].root # EmptyTree)
    /\ cl[c].pc \in {"store", "swapRoots"} =>
            \A v \in DOMAIN cl[c].roots :
                v = cl[c].version \/ InStore(v, cl[c].roots[v])
    /\ cl[c].pc \in {"swapRoots", "finish", "read"} =>
            /\ cl[c].version \in DOMAIN dbRoots
            /\ dbRoots[cl[c].version] = cl[c].root

\* The nodes stored for a version are the ones its stored root hash is of.
NodesMatch == \A v \in DOMAIN dbRoots : NodeContents(v) = dbRoots[v]

\* Readers are shown only what is in storage.
RootsInStore == \A v \in DOMAIN rootHashes : InStore(v, rootHashes[v])

\* Inductive, with TreeInv, while only updated versions are committed.
DurableInv ==
    /\ NodesMatch
    /\ RootsInStore
    /\ \A c \in Clients : ClientDurable(c)

\* Inductive, with TreeInv, while clients use only their own versions.
OwnedInv ==
    /\ ~ panicked
    /\ \A c \in Clients : cl[c].pc \in VersionPCs =>
            cl[c].version \in DOMAIN pendingWrites /\ owner[cl[c].version] = c

-----------------------------------------------------------------------------
(* How a step changes the clients and the version manager.                 *)

\* Client c's locals become L and nobody else's change.
MovesTo(c, L) ==
    /\ L \in Locals
    /\ cl' \in [Clients -> Locals]
    /\ cl'[c] = L
    /\ \A d \in Clients \ {c} : cl'[d] = cl[d]

\* A client that is in no call has locals of the right types.
LEMMA IdleType == IdleClient \in Locals
    <1>1. [v \in {} |-> EmptyTree] \in UNION {[S -> Contents] : S \in SUBSET Version}
        <2>1. [v \in {} |-> EmptyTree] \in [{} -> Contents]
            OBVIOUS
        <2>2. {} \in SUBSET Version
            OBVIOUS
        <2> QED
            BY <2>1, <2>2
    <1>2. EmptyTree \in Contents
        BY DEF EmptyTree, Contents
    <1>3. 0 \in Version
        BY MaxVersionAssumption DEF Version
    <1> QED
        BY <1>1, <1>2, <1>3 DEF IdleClient, Locals, PCs

\* A new value for a client's locals, a new program counter, a return and an
\* error path all move one client.
LEMMA Moves ==
    ASSUME TreeTypeOK, NEW c \in Clients, NEW L \in Locals, NEW pc \in PCs
    PROVE  /\ cl' = [cl EXCEPT ![c] = L] => MovesTo(c, L)
           /\ Goto(c, pc) => MovesTo(c, [cl[c] EXCEPT !.pc = pc])
           /\ Return(c) => MovesTo(c, IdleClient)
    <1>1. cl \in [Clients -> Locals]
        BY DEF TreeTypeOK
    <1>2. [cl[c] EXCEPT !.pc = pc] \in Locals
        BY <1>1 DEF Locals
    <1>3. ASSUME NEW M \in Locals, cl' = [cl EXCEPT ![c] = M] PROVE MovesTo(c, M)
        BY <1>1, <1>3 DEF MovesTo
    <1>4. ASSUME Goto(c, pc) PROVE cl' = [cl EXCEPT ![c] = [cl[c] EXCEPT !.pc = pc]]
        BY <1>1, <1>4 DEF Goto
    <1> QED
        BY <1>2, <1>3, <1>4, IdleType DEF Return

\* What every step of the version manager but a restart does to the numbers:
\* only numbers above the last one handed out appear.
VMFrame ==
    /\ latestVersion <= latestVersion'
    /\ committedVersion <= committedVersion'
    /\ \A v \in DOMAIN versions' \cup DOMAIN pendingWrites' :
         v \in DOMAIN versions \cup DOMAIN pendingWrites \/ v > latestVersion
    /\ \A v \in DOMAIN pendingWrites' :
         v \in DOMAIN pendingWrites \/ v > latestVersion

\* A step of the version manager that commits nothing and changes no pending
\* version: what clients without writeMu may do.
VMQuiet ==
    /\ VMFrame
    /\ \A v \in CommittedVersions' :
         v \in CommittedVersions /\ versions'[v].rootHash = versions[v].rootHash
    /\ \A v \in DOMAIN pendingWrites \cap DOMAIN pendingWrites' :
         pendingWrites'[v] = pendingWrites[v]

\* Nothing is added to rootHashes and nothing that is committed or pending is
\* dropped from it.
RootsQuiet ==
    /\ \A v \in DOMAIN rootHashes' :
         v \in DOMAIN rootHashes /\ rootHashes'[v] = rootHashes[v]
    /\ \A v \in DOMAIN rootHashes :
         v \in CommittedVersions \cup DOMAIN pendingWrites => v \in DOMAIN rootHashes'

\* The numbers of a state of the invariant are integers; none that is in use
\* or about to be dropped is above the last one handed out.
LEMMA Numbers ==
    ASSUME TreeInv
    PROVE  /\ latestVersion \in Nat /\ committedVersion \in Nat
           /\ committedVersion <= latestVersion
           /\ \A v \in DOMAIN versions \cup DOMAIN pendingWrites :
                v \in Nat /\ v <= latestVersion
           /\ \A v \in DOMAIN pendingWrites : v \in 1 .. latestVersion
           /\ \A v \in DOMAIN pendingWrites : v \notin CommittedVersions
    <1>1. latestVersion \in Nat /\ committedVersion \in Nat
        BY MaxVersionAssumption DEF TreeInv, VMInv, VMTypeOK, Version
    <1>2. \A v \in DOMAIN versions \cup DOMAIN pendingWrites :
            v \in Nat /\ v <= latestVersion
        BY <1>1 DEF TreeInv, VMInv, VersionNumbersDisjoint
    <1>3. committedVersion \in DOMAIN versions
        BY DEF TreeInv, VMInv, CommittedVersionIsNewest, IsCommitted
    <1>4. \A v \in DOMAIN pendingWrites :
            pendingWrites[v].parent < v /\ pendingWrites[v].parent \in Nat
        BY MaxVersionAssumption
        DEF TreeInv, VMInv, VMTypeOK, HistoryIsAcyclic, PendingVersion, Version
    <1>5. \A v \in DOMAIN pendingWrites : v \notin CommittedVersions
        BY DEF TreeInv, VMInv, VersionNumbersDisjoint, CommittedVersions
    <1> QED
        BY <1>1, <1>2, <1>3, <1>4, <1>5

\* What a garbage collection has removed stays removed.
LEMMA RemovedStaysGone ==
    ASSUME TreeInv, VMFrame, committedVersion' \in Int,
           NEW c \in Clients, NEW v \in cl[c].removed
    PROVE  /\ v < committedVersion'
           /\ v \notin DOMAIN versions' \cup DOMAIN pendingWrites'
    <1>1. /\ v < committedVersion
          /\ v \notin DOMAIN versions \cup DOMAIN pendingWrites
        BY DEF TreeInv, ClientInv, RemovedGone
    <1>2. v \in Nat
        BY MaxVersionAssumption DEF TreeInv, TreeTypeOK, Locals, Version
    <1> QED
        BY <1>1, <1>2, Numbers DEF VMFrame

\* While client c holds writeMu, no step of c disturbs another client.
LEMMA OthersOfWriter ==
    ASSUME TreeInv, NEW c \in Clients, writeMu = c, VMFrame,
           committedVersion' \in Int,
           NEW d \in Clients \ {c}, cl'[d] = cl[d]
    PROVE  ClientInv(d)'
    <1>1. cl[d].pc \notin WriterPCs
        BY DEF TreeInv, MutualExclusion
    <1>2. RemovedGone(d)'
        BY RemovedStaysGone DEF RemovedGone
    <1>3. HasKey(d)'
        BY DEF TreeInv, ClientInv, HasKey
    <1> QED
        BY <1>1, <1>2, <1>3
        DEF ClientInv, WriterPCs, WriterVersion, BatchIsNew, CopyComplete,
            Published, UpdaterCurrent

\* A quiet step disturbs no client whose locals it leaves alone, not even a
\* writer between two of its steps.
LEMMA OthersOfQuiet ==
    ASSUME TreeInv, VMQuiet, RootsQuiet, UNCHANGED dbRoots,
           latestVersion' \in Int, committedVersion' \in Int,
           NEW d \in Clients, cl'[d] = cl[d]
    PROVE  ClientInv(d)'
    <1>1. ClientInv(d)
        BY DEF TreeInv
    <1>2. VMFrame
        BY DEF VMQuiet
    <1>3. cl[d].pc \in WriterPCs /\ cl[d].version \in DOMAIN pendingWrites' =>
            /\ cl[d].version \in DOMAIN pendingWrites
            /\ pendingWrites'[cl[d].version] = pendingWrites[cl[d].version]
        <2>1. cl[d].pc \in WriterPCs => cl[d].version \in 1 .. latestVersion
            BY <1>1 DEF ClientInv, WriterVersion
        <2> QED
            BY <1>2, <2>1, Numbers DEF VMFrame, VMQuiet
    <1>4. WriterVersion(d)'
        BY <1>1, <1>2, Numbers DEF ClientInv, WriterVersion, VMFrame, VMQuiet
    <1>5. RemovedGone(d)'
        BY <1>2, RemovedStaysGone DEF RemovedGone
    <1>6. BatchIsNew(d)'
        BY <1>1 DEF ClientInv, BatchIsNew
    <1>7. CopyComplete(d)'
        BY <1>1 DEF ClientInv, CopyComplete, VMQuiet, RootsQuiet
    <1>8. Published(d)'
        BY <1>1, <1>3 DEF ClientInv, Published, RootsQuiet, WriterPCs
    <1>9. UpdaterCurrent(d)'
        BY <1>1, <1>3 DEF ClientInv, UpdaterCurrent, WriterPCs
    <1>10. HasKey(d)'
        BY <1>1 DEF ClientInv, HasKey
    <1> QED
        BY <1>4, <1>5, <1>6, <1>7, <1>8, <1>9, <1>10 DEF ClientInv

\* A client that is outside every writer's critical section satisfies its part
\* of the invariant as soon as what it is to remove is gone and its key is one.
LEMMA OutsideInv ==
    ASSUME NEW c, cl'[c].pc \notin WriterPCs, RemovedGone(c)', HasKey(c)'
    PROVE  ClientInv(c)'
    BY DEF ClientInv, WriterPCs, WriterVersion, BatchIsNew, CopyComplete,
        Published, UpdaterCurrent

-----------------------------------------------------------------------------
(* Steps without writeMu, and steps with it.                               *)

\* The shared types after a step that leaves storage alone.
MemTypes ==
    /\ DOMAIN rootHashes \subseteq Version
    /\ rootHashes \in [DOMAIN rootHashes -> Contents]
    /\ latestVer \in Version
    /\ owner \in [Version -> Clients \cup {NoClient}]

\* A quiet step of client c, outside every writer's critical section before
\* and after it, preserves the invariant.
LEMMA QuietStep ==
    ASSUME TreeInv, NEW c \in Clients, NEW L, MovesTo(c, L),
           cl[c].pc \notin WriterPCs, L.pc \notin WriterPCs,
           VMInv', MemTypes', VMQuiet, RootsQuiet,
           UNCHANGED <<writeMu, dbVars>>,
           RemovedGone(c)', HasKey(c)'
    PROVE  TreeInv'
    <1> USE DEF dbVars
    <1>1. latestVersion' \in Int /\ committedVersion' \in Int
        BY MaxVersionAssumption DEF VMInv, VMTypeOK, Version
    <1>2. \A d \in Clients \ {c} : cl'[d] = cl[d]
        BY DEF MovesTo
    <1>3. cl'[c] = L
        BY DEF MovesTo
    <1>4. TreeTypeOK'
        BY DEF TreeInv, TreeTypeOK, MemTypes, VMInv, MovesTo
    <1>5. MutualExclusion'
        BY <1>2, <1>3 DEF TreeInv, MutualExclusion
    <1>6. DurableNumbers'
        BY <1>1, Numbers DEF TreeInv, DurableNumbers, VMQuiet, VMFrame
    <1>7. PendingNotDurable'
        <2> SUFFICES ASSUME NEW v \in DOMAIN pendingWrites' \cap DOMAIN dbRoots
                     PROVE  \E d \in Clients : /\ cl'[d].pc \in {"swapRoots", "finish"}
                                               /\ cl'[d].version = v
            BY DEF PendingNotDurable
        <2>1. v \in DOMAIN pendingWrites
            BY Numbers DEF TreeInv, DurableNumbers, VMQuiet, VMFrame
        <2>2. PICK d \in Clients : /\ cl[d].pc \in {"swapRoots", "finish"}
                                   /\ cl[d].version = v
            BY <2>1 DEF TreeInv, PendingNotDurable
        <2>3. d # c
            BY <2>2 DEF WriterPCs
        <2> QED
            BY <1>2, <2>2, <2>3
    <1>8. CommittedIsReadable'
        BY DEF TreeInv, CommittedIsReadable, VMQuiet, RootsQuiet
    <1>9. \A d \in Clients \ {c} : ClientInv(d)'
        BY <1>1, <1>2, OthersOfQuiet
    <1>10. ClientInv(c)'
        BY <1>3, OutsideInv
    <1> QED
        BY <1>4, <1>5, <1>6, <1>7, <1>8, <1>9, <1>10 DEF TreeInv

\* Nobody but the holder of writeMu has a batch in storage that is not yet
\* committed.
LEMMA WriterAlone ==
    ASSUME TreeInv, NEW c \in Clients, writeMu = c,
           NEW v \in DOMAIN pendingWrites \cap DOMAIN dbRoots
    PROVE  cl[c].pc \in {"swapRoots", "finish"} /\ v = cl[c].version
    <1>1. PICK d \in Clients : /\ cl[d].pc \in {"swapRoots", "finish"}
                               /\ cl[d].version = v
        BY DEF TreeInv, PendingNotDurable
    <1>2. d = c
        BY <1>1 DEF TreeInv, MutualExclusion, WriterPCs
    <1> QED
        BY <1>1, <1>2

\* A step of the client that holds writeMu preserves the invariant if it does
\* so for that client and for the shared maps.
LEMMA WriterStep ==
    ASSUME TreeInv, NEW c \in Clients, NEW L, MovesTo(c, L), writeMu = c,
           \/ L.pc \in WriterPCs /\ writeMu' = c
           \/ L.pc \notin WriterPCs /\ writeMu' = NoClient,
           VMInv', TreeTypeOK', VMFrame,
           DurableNumbers', PendingNotDurable', CommittedIsReadable', ClientInv(c)'
    PROVE  TreeInv'
    <1>1. committedVersion' \in Int
        BY MaxVersionAssumption DEF VMInv, VMTypeOK, Version
    <1>2. cl'[c] = L /\ \A d \in Clients \ {c} : cl'[d] = cl[d]
        BY DEF MovesTo
    <1>3. \A d \in Clients \ {c} : ClientInv(d)'
        BY <1>1, <1>2, OthersOfWriter
    <1>4. MutualExclusion'
        BY <1>2, TreeClients DEF TreeInv, MutualExclusion
    <1> QED
        BY <1>3, <1>4 DEF TreeInv

\* The frame of a step that leaves the version manager alone.
LEMMA VMUnchanged ==
    ASSUME TreeInv, UNCHANGED vmVars
    PROVE  /\ VMInv' /\ VMQuiet
           /\ CommittedVersions' = CommittedVersions
           /\ UNCHANGED <<versions, latestVersion, committedVersion, pendingWrites,
                          panicked>>
    <1>1. UNCHANGED <<versions, latestVersion, committedVersion, pendingWrites,
                      panicked>>
        BY DEF vmVars
    <1>2. CommittedVersions' = CommittedVersions
        BY <1>1 DEF CommittedVersions, IsCommitted
    <1>3. VMInv'
        BY VMStepInv DEF TreeInv
    <1> QED
        BY <1>1, <1>2, <1>3, Numbers DEF VMQuiet, VMFrame

\* The frame of a step that leaves rootHashes alone.
LEMMA MemUnchanged ==
    ASSUME TreeInv, UNCHANGED <<memVars, owner>>
    PROVE  RootsQuiet /\ MemTypes'
    BY DEF memVars, RootsQuiet, MemTypes, TreeInv, TreeTypeOK

\* A step outside writeMu that changes only the client's locals.
LEMMA LocalStep ==
    ASSUME TreeInv, NEW c \in Clients, NEW L, MovesTo(c, L),
           cl[c].pc \notin WriterPCs, L.pc \notin WriterPCs,
           L.removed \subseteq cl[c].removed,
           UNCHANGED <<vmVars, memVars, writeMu, dbVars, owner>>,
           HasKey(c)'
    PROVE  TreeInv'
    <1>1. VMInv' /\ VMQuiet
        BY VMUnchanged
    <1>2. RootsQuiet /\ MemTypes'
        BY MemUnchanged
    <1>3. committedVersion' \in Int
        BY <1>1, MaxVersionAssumption DEF VMInv, VMTypeOK, Version
    <1>4. RemovedGone(c)'
        BY <1>1, <1>3, RemovedStaysGone DEF RemovedGone, MovesTo, VMQuiet
    <1> QED
        BY <1>1, <1>2, <1>4, QuietStep

\* A client that becomes idle has nothing left to do.
LEMMA IdleInv ==
    ASSUME NEW c, MovesTo(c, IdleClient)
    PROVE  RemovedGone(c)' /\ HasKey(c)' /\ IdleClient.pc \notin WriterPCs
    BY DEF MovesTo, IdleClient, RemovedGone, HasKey, WriterPCs

\* An error outside writeMu.
LEMMA FailStep ==
    ASSUME TreeInv, NEW c \in Clients, cl[c].pc \notin WriterPCs, Fail(c),
           UNCHANGED <<vmVars, memVars, writeMu, dbVars, owner>>
    PROVE  TreeInv'
    <1>1. TreeTypeOK
        BY DEF TreeInv
    <1>2. CASE Goto(c, "abort")
        <2> DEFINE L == [cl[c] EXCEPT !.pc = "abort"]
        <2>1. MovesTo(c, L)
            BY <1>1, <1>2, IdleType, Moves DEF PCs
        <2>2. L.pc = "abort" /\ L.removed = cl[c].removed
            BY <1>1 DEF TreeTypeOK, Locals
        <2> HIDE DEF L
        <2>3. HasKey(c)'
            BY <2>1, <2>2 DEF HasKey, MovesTo
        <2> QED
            BY <2>1, <2>2, <2>3, LocalStep DEF WriterPCs
    <1>3. CASE Return(c)
        <2>1. MovesTo(c, IdleClient)
            BY <1>1, <1>3, IdleType, Moves DEF PCs
        <2>2. IdleClient.removed = {}
            BY DEF IdleClient
        <2> QED
            BY <2>1, <2>2, IdleInv, LocalStep
    <1> QED
        BY <1>2, <1>3 DEF Fail

\* A client starts a call (BeginVersion, Put, Delete, PutVersioned,
\* DeleteVersioned, CommitVersion, AbortVersion, Get) with locals L.
LEMMA CallStep ==
    ASSUME TreeInv, NEW c \in Clients, cl[c].pc = "idle", NEW L \in Locals,
           cl' = [cl EXCEPT ![c] = L], L.pc \notin WriterPCs, L.removed = {},
           L.pc = "update" \/ L.auto => L.key \in Keys,
           UNCHANGED <<vmVars, memVars, writeMu, dbVars, owner>>
    PROVE  TreeInv'
    <1>1. MovesTo(c, L)
        BY Moves DEF TreeInv, PCs
    <1>2. HasKey(c)'
        BY <1>1 DEF HasKey, MovesTo, WriterPCs
    <1> QED
        BY <1>1, <1>2, LocalStep DEF WriterPCs

\* Every call starts with locals of the right types.
LEMMA CallInv ==
    ASSUME TreeInv, NEW c \in Clients,
           \/ CallBegin(c) \/ CallPut(c) \/ CallDelete(c)
           \/ CallUpdate(c) \/ CallCommit(c) \/ CallAbort(c) \/ StartGet(c)
    PROVE  TreeInv'
    <1>1. committedVersion \in Version
        BY DEF TreeInv, VMInv, VMTypeOK
    <1>2. /\ DOMAIN pendingWrites \subseteq Version
          /\ DOMAIN rootHashes \subseteq Version
          /\ \A v \in DOMAIN rootHashes : rootHashes[v] \in Contents
        BY DEF TreeInv, TreeTypeOK, VMTypeOK
    <1>3. ASSUME NEW auto \in BOOLEAN, NEW k \in Keys \cup {NoKey},
                 NEW x \in Values \cup {NoValue}, auto => k \in Keys,
                 StartBegin(c, auto, k, x)
          PROVE  TreeInv'
        <2> DEFINE L == [IdleClient EXCEPT
                !.pc = "begin", !.auto = auto, !.key = k, !.value = x,
                !.parent = committedVersion]
        <2>1. L \in Locals
            BY <1>1, IdleType DEF Locals, PCs
        <2>2. L.pc = "begin" /\ L.auto = auto /\ L.key = k /\ L.removed = {}
            BY DEF IdleClient
        <2>3. /\ cl[c].pc = "idle" /\ cl' = [cl EXCEPT ![c] = L]
              /\ UNCHANGED <<vmVars, memVars, writeMu, dbVars, owner>>
            BY <1>3 DEF StartBegin, At
        <2> HIDE DEF L
        <2> QED
            BY <1>3, <2>1, <2>2, <2>3, CallStep DEF WriterPCs
    <1>4. CASE CallBegin(c)
        BY <1>3, <1>4 DEF CallBegin
    <1>5. CASE CallPut(c)
        BY <1>3, <1>5 DEF CallPut
    <1>6. CASE CallDelete(c)
        BY <1>3, <1>6 DEF CallDelete
    <1>7. CASE CallUpdate(c)
        <2>1. PICK v \in DOMAIN pendingWrites, k \in Keys, x \in Values \cup {NoValue} :
                cl' = [cl EXCEPT ![c] = [IdleClient EXCEPT
                    !.pc = "update", !.version = v, !.key = k, !.value = x]]
            BY <1>7 DEF CallUpdate
        <2> DEFINE L == [IdleClient EXCEPT
                    !.pc = "update", !.version = v, !.key = k, !.value = x]
        <2>2. L \in Locals
            BY <1>2, IdleType DEF Locals, PCs
        <2>3. L.pc = "update" /\ L.key = k /\ L.removed = {}
            BY DEF IdleClient
        <2>4. /\ cl[c].pc = "idle" /\ cl' = [cl EXCEPT ![c] = L]
              /\ UNCHANGED <<vmVars, memVars, writeMu, dbVars, owner>>
            BY <1>7, <2>1 DEF CallUpdate, At
        <2> HIDE DEF L
        <2> QED
            BY <2>2, <2>3, <2>4, CallStep DEF WriterPCs
    <1>8. ASSUME NEW v \in DOMAIN pendingWrites, NEW pc \in {"commit", "abort"},
                 At(c, "idle"),
                 cl' = [cl EXCEPT ![c] = [IdleClient EXCEPT !.pc = pc, !.version = v]],
                 UNCHANGED <<vmVars, memVars, writeMu, dbVars, owner>>
          PROVE  TreeInv'
        <2> DEFINE L == [IdleClient EXCEPT !.pc = pc, !.version = v]
        <2>1. L \in Locals
            BY <1>2, IdleType DEF Locals, PCs
        <2>2. L.pc = pc /\ ~ L.auto /\ L.removed = {}
            BY DEF IdleClient
        <2>3. cl[c].pc = "idle" /\ cl' = [cl EXCEPT ![c] = L]
            BY <1>8 DEF At
        <2> HIDE DEF L
        <2> QED
            BY <1>8, <2>1, <2>2, <2>3, CallStep DEF WriterPCs
    <1>9. CASE CallCommit(c)
        BY <1>8, <1>9 DEF CallCommit
    <1>10. CASE CallAbort(c)
        BY <1>8, <1>10 DEF CallAbort
    <1>11. CASE StartGet(c)
        <2>1. PICK v \in DOMAIN rootHashes :
                cl' = [cl EXCEPT ![c] = [IdleClient EXCEPT
                    !.pc = "read", !.version = v, !.root = rootHashes[v]]]
            BY <1>11 DEF StartGet
        <2> DEFINE L == [IdleClient EXCEPT
                    !.pc = "read", !.version = v, !.root = rootHashes[v]]
        <2>2. L \in Locals
            BY <1>2, IdleType DEF Locals, PCs
        <2>3. L.pc = "read" /\ ~ L.auto /\ L.removed = {}
            BY DEF IdleClient
        <2>4. /\ cl[c].pc = "idle" /\ cl' = [cl EXCEPT ![c] = L]
              /\ UNCHANGED <<vmVars, memVars, writeMu, dbVars, owner>>
            BY <1>11, <2>1 DEF StartGet, At
        <2> HIDE DEF L
        <2> QED
            BY <2>2, <2>3, <2>4, CallStep DEF WriterPCs
    <1> QED
        BY <1>4, <1>5, <1>6, <1>7, <1>9, <1>10, <1>11

-----------------------------------------------------------------------------
(* The version manager's operations that need no writeMu are quiet.        *)

\* Begin adds a number above all others.
LEMMA BeginQuiet ==
    ASSUME TreeInv, NEW p, Begin(p)
    PROVE  /\ VMQuiet
           /\ latestVersion' = latestVersion + 1
           /\ DOMAIN pendingWrites' = DOMAIN pendingWrites \cup {latestVersion + 1}
           /\ pendingWrites'[latestVersion + 1] =
                [parent |-> p, updater |-> NoUpdater, startTime |-> clock]
           /\ UNCHANGED <<versions, panicked>>
    <1>1. /\ latestVersion' = latestVersion + 1
          /\ DOMAIN pendingWrites' = DOMAIN pendingWrites \cup {latestVersion + 1}
          /\ pendingWrites'[latestVersion + 1] =
                [parent |-> p, updater |-> NoUpdater, startTime |-> clock]
          /\ \A v \in DOMAIN pendingWrites \ {latestVersion + 1} :
                pendingWrites'[v] = pendingWrites[v]
          /\ UNCHANGED <<versions, committedVersion, panicked>>
        BY DEF Begin, NewVersion, MapPut
    <1>2. latestVersion + 1 \notin DOMAIN pendingWrites
        BY Numbers
    <1>3. CommittedVersions' = CommittedVersions
        BY <1>1 DEF CommittedVersions, IsCommitted
    <1>4. VMFrame
        BY <1>1, Numbers DEF VMFrame
    <1> QED
        BY <1>1, <1>2, <1>3, <1>4 DEF VMQuiet

\* Abort moves a number from one map to the other without committing it.
LEMMA AbortQuiet ==
    ASSUME TreeInv, NEW v, Abort(v)
    PROVE  /\ VMQuiet
           /\ DOMAIN pendingWrites' = DOMAIN pendingWrites \ {v}
           /\ UNCHANGED panicked
    <1>1. /\ v \in DOMAIN pendingWrites
          /\ DOMAIN pendingWrites' = DOMAIN pendingWrites \ {v}
          /\ \A x \in DOMAIN pendingWrites \ {v} : pendingWrites'[x] = pendingWrites[x]
          /\ DOMAIN versions' = DOMAIN versions \cup {v}
          /\ \A x \in DOMAIN versions \ {v} : versions'[x] = versions[x]
          /\ versions'[v].status = "Aborted"
          /\ UNCHANGED <<latestVersion, committedVersion, panicked>>
        BY DEF Abort, MapPut, MapDelete
    <1>2. \A x \in CommittedVersions' :
            x \in CommittedVersions /\ versions'[x].rootHash = versions[x].rootHash
        BY <1>1 DEF CommittedVersions, IsCommitted
    <1>3. VMFrame
        BY <1>1, Numbers DEF VMFrame
    <1> QED
        BY <1>1, <1>2, <1>3 DEF VMQuiet

\* CollectGarbage drops committed versions older than committedVersion.
LEMMA CollectQuiet ==
    ASSUME TreeInv, CollectGarbage
    PROVE  /\ VMInv' /\ VMQuiet
           /\ \A v \in Removed : /\ v < committedVersion'
                                 /\ v \notin DOMAIN versions' \cup DOMAIN pendingWrites'
           /\ UNCHANGED <<latestVersion, pendingWrites, panicked>>
    <1>1. /\ Removed \subseteq CommittedVersions
          /\ committedVersion \notin Removed
        BY RemovedLemma DEF TreeInv, VMInv
    <1>2. /\ DOMAIN versions' = DOMAIN versions \ Removed
          /\ \A x \in DOMAIN versions' : versions'[x] = versions[x]
          /\ UNCHANGED <<latestVersion, committedVersion, pendingWrites, panicked>>
        BY DEF CollectGarbage, MapDelete
    <1>3. VMInv'
        BY VMStepInv DEF TreeInv, VMNext
    <1>4. \A x \in CommittedVersions' :
            x \in CommittedVersions /\ versions'[x].rootHash = versions[x].rootHash
        BY <1>2 DEF CommittedVersions, IsCommitted
    <1>5. VMFrame
        BY <1>2, Numbers DEF VMFrame
    <1>6. \A v \in CommittedVersions : v <= committedVersion /\ v \in Int
        BY Numbers DEF TreeInv, VMInv, CommittedVersionIsNewest, CommittedVersions
    <1>7. \A v \in CommittedVersions : v \notin DOMAIN pendingWrites
        BY Numbers
    <1>8. \A v \in Removed : v < committedVersion
        BY <1>1, <1>6, Numbers
    <1> QED
        BY <1>1, <1>2, <1>3, <1>4, <1>5, <1>7, <1>8 DEF VMQuiet

-----------------------------------------------------------------------------
(* The steps without writeMu.                                              *)

\* BeginVersion, and the first step of Put and Delete.
LEMMA BeginVersionInv ==
    ASSUME TreeInv, NEW c \in Clients, BeginVersion(c)
    PROVE  TreeInv'
    <1>1. /\ TreeTypeOK /\ cl[c] \in Locals
          /\ cl[c].pc = "begin" /\ Begin(cl[c].parent)
          /\ UNCHANGED <<memVars, writeMu, dbVars>>
        BY DEF TreeInv, TreeTypeOK, BeginVersion, At
    <1>2. VMInv'
        BY <1>1, BeginInv DEF TreeInv, Locals
    <1>3. VMQuiet
        BY <1>1, BeginQuiet
    <1>4. NewVersion \in Version
        BY <1>2, <1>1, BeginQuiet DEF VMInv, VMTypeOK, NewVersion
    <1>5. owner' \in [Version -> Clients \cup {NoClient}]
        BY <1>1, <1>4 DEF BeginVersion, TreeTypeOK
    <1>6. RootsQuiet /\ MemTypes'
        BY <1>1, <1>5 DEF RootsQuiet, MemTypes, TreeTypeOK, memVars
    <1>7. CASE cl[c].auto
        <2> DEFINE L == [cl[c] EXCEPT !.pc = "update", !.parent = 0,
                                      !.version = NewVersion]
        <2>0. 0 \in Version
            BY MaxVersionAssumption DEF Version
        <2>1. L \in Locals
            BY <1>1, <1>4, <2>0 DEF Locals, PCs
        <2>2. L.pc = "update" /\ L.key = cl[c].key /\ L.removed = cl[c].removed
            BY <1>1 DEF Locals
        <2>3. cl' = [cl EXCEPT ![c] = L]
            BY <1>1, <1>7 DEF BeginVersion, TreeTypeOK
        <2> HIDE DEF L
        <2>4. MovesTo(c, L)
            BY <1>1, <2>1, <2>3, Moves DEF PCs
        <2>5. committedVersion' \in Int
            BY <1>2, MaxVersionAssumption DEF VMInv, VMTypeOK, Version
        <2>6. RemovedGone(c)'
            BY <1>3, <2>2, <2>4, <2>5, RemovedStaysGone
            DEF RemovedGone, MovesTo, VMQuiet
        <2>7. cl[c].key \in Keys
            BY <1>1, <1>7 DEF TreeInv, ClientInv, HasKey
        <2>8. HasKey(c)'
            BY <2>2, <2>4, <2>7 DEF HasKey, MovesTo
        <2> QED
            BY <1>1, <1>2, <1>3, <1>6, <2>2, <2>4, <2>6, <2>8, QuietStep DEF WriterPCs
    <1>8. CASE ~ cl[c].auto
        <2>1. MovesTo(c, IdleClient)
            BY <1>1, <1>8, IdleType, Moves DEF BeginVersion, PCs
        <2> QED
            BY <1>1, <1>2, <1>3, <1>6, <2>1, IdleInv, QuietStep DEF WriterPCs
    <1> QED
        BY <1>7, <1>8

\* BeginVersion that fails, and a read: the client returns.
LEMMA ReturnInv ==
    ASSUME TreeInv, NEW c \in Clients, BeginFails(c) \/ ReadSnapshot(c)
    PROVE  TreeInv'
    <1>1. /\ cl[c].pc \in {"begin", "read"} /\ Return(c)
          /\ UNCHANGED <<vmVars, memVars, writeMu, dbVars, owner>>
        BY DEF BeginFails, ReadSnapshot, At
    <1>2. MovesTo(c, IdleClient)
        BY <1>1, IdleType, Moves DEF TreeInv, PCs
    <1>3. IdleClient.removed = {}
        BY DEF IdleClient
    <1> QED
        BY <1>1, <1>2, <1>3, IdleInv, LocalStep DEF WriterPCs

\* AbortVersion runs beside every writer.
LEMMA AbortVersionInv ==
    ASSUME TreeInv, NEW c \in Clients, AbortVersion(c)
    PROVE  TreeInv'
    <1>1. /\ TreeTypeOK /\ cl[c] \in Locals
          /\ cl[c].pc = "abort" /\ Return(c)
          /\ Abort(cl[c].version) \/ UNCHANGED vmVars
          /\ UNCHANGED <<memVars, writeMu, dbVars, owner>>
        BY DEF TreeInv, TreeTypeOK, AbortVersion, At
    <1>2. MovesTo(c, IdleClient)
        BY <1>1, IdleType, Moves DEF PCs
    <1>3. VMInv' /\ VMQuiet
        <2>1. CASE Abort(cl[c].version)
            BY <1>1, <2>1, AbortInv, AbortQuiet DEF TreeInv, Locals
        <2>2. CASE UNCHANGED vmVars
            BY <2>2, VMUnchanged
        <2> QED
            BY <1>1, <2>1, <2>2
    <1>4. RootsQuiet /\ MemTypes'
        BY <1>1, MemUnchanged
    <1> QED
        BY <1>1, <1>2, <1>3, <1>4, IdleInv, QuietStep DEF WriterPCs

\* The first half of CollectVersionGarbage.
LEMMA StartGCInv ==
    ASSUME TreeInv, NEW c \in Clients, StartGC(c)
    PROVE  TreeInv'
    <1> DEFINE L == [IdleClient EXCEPT !.pc = "gcRoots", !.removed = Removed]
    <1>1. /\ TreeTypeOK /\ cl[c].pc = "idle" /\ CollectGarbage
          /\ cl' = [cl EXCEPT ![c] = L]
          /\ UNCHANGED <<memVars, writeMu, dbVars, owner>>
        BY DEF TreeInv, StartGC, At
    <1>2. Removed \subseteq Version
        BY <1>1, RemovedLemma DEF TreeTypeOK, VMTypeOK, CommittedVersions
    <1>3. L \in Locals
        BY <1>2, IdleType DEF Locals, PCs
    <1>4. L.pc = "gcRoots" /\ ~ L.auto /\ L.removed = Removed
        BY DEF IdleClient
    <1> HIDE DEF L
    <1>5. MovesTo(c, L)
        BY <1>1, <1>3, Moves DEF PCs
    <1>6. RemovedGone(c)' /\ HasKey(c)'
        BY <1>1, <1>4, <1>5, CollectQuiet DEF RemovedGone, HasKey, MovesTo
    <1>7. VMInv' /\ VMQuiet
        BY <1>1, CollectQuiet
    <1>8. RootsQuiet /\ MemTypes'
        BY <1>1, MemUnchanged
    <1> QED
        BY <1>1, <1>4, <1>5, <1>6, <1>7, <1>8, QuietStep DEF WriterPCs

\* The second half: whatever was committed or began in between keeps its
\* entry in rootHashes.
LEMMA GCRootsInv ==
    ASSUME TreeInv, NEW c \in Clients, GCRoots(c)
    PROVE  TreeInv'
    <1>1. /\ TreeTypeOK /\ cl[c].pc = "gcRoots" /\ Return(c)
          /\ rootHashes' = MapDelete(rootHashes, cl[c].removed)
          /\ UNCHANGED <<vmVars, latestVer, writeMu, dbVars, owner>>
        BY DEF TreeInv, GCRoots, At
    <1>2. MovesTo(c, IdleClient)
        BY <1>1, IdleType, Moves DEF PCs
    <1>3. /\ DOMAIN rootHashes' = DOMAIN rootHashes \ cl[c].removed
          /\ \A v \in DOMAIN rootHashes' : rootHashes'[v] = rootHashes[v]
        BY <1>1 DEF MapDelete
    <1>4. \A v \in cl[c].removed : v \notin CommittedVersions \cup DOMAIN pendingWrites
        BY DEF TreeInv, ClientInv, RemovedGone, CommittedVersions
    <1>5. RootsQuiet
        BY <1>3, <1>4 DEF RootsQuiet
    <1>6. rootHashes' \in [DOMAIN rootHashes \ cl[c].removed -> Contents]
        BY <1>1 DEF MapDelete, TreeTypeOK
    <1>7. MemTypes'
        BY <1>1, <1>3, <1>6 DEF MemTypes, TreeTypeOK
    <1> QED
        BY <1>1, <1>2, <1>5, <1>7, IdleInv, VMUnchanged, QuietStep DEF WriterPCs

-----------------------------------------------------------------------------
(* The steps that take writeMu.                                            *)

\* A client that takes writeMu to work on a pending version.
LEMMA LockStep ==
    ASSUME TreeInv, NEW c \in Clients, NEW L, MovesTo(c, L),
           cl[c].pc \notin WriterPCs, writeMu = NoClient, writeMu' = c,
           L.pc \in {"setUpdater", "apply", "emptyRoot", "copyRoots"},
           L.version \in DOMAIN pendingWrites,
           L.removed = cl[c].removed,
           L.pc \in {"setUpdater", "apply"} => L.key \in Keys,
           UpdaterCurrent(c)',
           UNCHANGED <<vmVars, memVars, dbVars, owner>>
    PROVE  TreeInv'
    <1> USE DEF memVars, dbVars
    <1>1. /\ VMInv' /\ VMQuiet
          /\ CommittedVersions' = CommittedVersions
          /\ UNCHANGED <<versions, latestVersion, committedVersion, pendingWrites>>
        BY VMUnchanged
    <1>2. RootsQuiet /\ MemTypes'
        BY MemUnchanged
    <1>3. cl'[c] = L /\ \A d \in Clients \ {c} : cl'[d] = cl[d]
        BY DEF MovesTo
    <1>4. latestVersion' \in Int /\ committedVersion' \in Int
        BY <1>1, Numbers
    <1>5. TreeTypeOK'
        BY <1>1, <1>2 DEF TreeInv, TreeTypeOK, MemTypes, VMInv, MovesTo
    <1>6. \A d \in Clients : cl[d].pc \notin WriterPCs
        BY TreeClients DEF TreeInv, MutualExclusion
    <1>7. MutualExclusion'
        BY <1>3, <1>6 DEF MutualExclusion, WriterPCs
    <1>8. DurableNumbers'
        BY <1>1 DEF TreeInv, DurableNumbers
    <1>9. \A v \in DOMAIN pendingWrites : v \notin DOMAIN dbRoots
        BY <1>6 DEF TreeInv, PendingNotDurable, WriterPCs
    <1>10. PendingNotDurable'
        BY <1>1, <1>9 DEF PendingNotDurable
    <1>11. CommittedIsReadable'
        BY <1>1 DEF TreeInv, CommittedIsReadable
    <1>12. \A d \in Clients \ {c} : ClientInv(d)'
        BY <1>1, <1>2, <1>3, <1>4, OthersOfQuiet
    <1>13. ClientInv(c)'
        <2>1. WriterVersion(c)'
            BY <1>1, <1>3, Numbers DEF WriterVersion
        <2>2. RemovedGone(c)'
            BY <1>1, <1>3, <1>4, RemovedStaysGone DEF RemovedGone, VMQuiet
        <2>3. BatchIsNew(c)'
            BY <1>3, <1>9 DEF BatchIsNew
        <2>4. CopyComplete(c)' /\ Published(c)' /\ HasKey(c)'
            BY <1>3 DEF CopyComplete, Published, HasKey
        <2> QED
            BY <2>1, <2>2, <2>3, <2>4 DEF ClientInv
    <1> QED
        BY <1>1, <1>5, <1>7, <1>8, <1>10, <1>11, <1>12, <1>13 DEF TreeInv

\* PutVersioned and DeleteVersioned: lock, and look the pending version up.
LEMMA LockUpdateInv ==
    ASSUME TreeInv, NEW c \in Clients, LockUpdate(c)
    PROVE  TreeInv'
    <1> DEFINE v == cl[c].version
               u == pendingWrites[v].updater
    <1>1. /\ TreeTypeOK /\ cl[c] \in Locals /\ cl \in [Clients -> Locals]
          /\ cl[c].pc = "update" /\ writeMu = NoClient
          /\ UNCHANGED <<vmVars, memVars, dbVars, owner>>
        BY DEF TreeInv, TreeTypeOK, LockUpdate, At
    <1>2. CASE v \notin DOMAIN pendingWrites
        BY <1>1, <1>2, FailStep DEF LockUpdate, WriterPCs
    <1>3. cl[c].key \in Keys
        BY <1>1 DEF TreeInv, ClientInv, HasKey
    <1>4. UNCHANGED pendingWrites
        BY <1>1 DEF vmVars
    <1>5. CASE v \in DOMAIN pendingWrites /\ u = NoUpdater
        <2> DEFINE L == [cl[c] EXCEPT !.pc = "setUpdater"]
        <2>1. writeMu' = c /\ Goto(c, "setUpdater")
            BY <1>5 DEF LockUpdate
        <2>2. MovesTo(c, L)
            BY <1>1, <2>1, Moves DEF PCs
        <2>3. /\ L.pc = "setUpdater" /\ L.version = v
              /\ L.removed = cl[c].removed /\ L.key = cl[c].key
            BY <1>1 DEF Locals
        <2> HIDE DEF L
        <2>4. UpdaterCurrent(c)'
            BY <1>4, <1>5, <2>2, <2>3 DEF UpdaterCurrent, MovesTo
        <2> QED
            BY <1>1, <1>3, <1>5, <2>1, <2>2, <2>3, <2>4, LockStep DEF WriterPCs
    <1>6. CASE v \in DOMAIN pendingWrites /\ u # NoUpdater
        <2> DEFINE L == [cl[c] EXCEPT !.pc = "apply", !.root = u.contents]
        <2>1. writeMu' = c /\ cl' = [cl EXCEPT ![c] = L]
            BY <1>1, <1>6 DEF LockUpdate
        <2>2. u.contents \in Contents
            BY <1>6, TreeUpdaters
            DEF TreeInv, VMInv, VMTypeOK, PendingVersion, Updater
        <2>3. L \in Locals
            BY <1>1, <2>2 DEF Locals, PCs
        <2>4. /\ L.pc = "apply" /\ L.version = v /\ L.root = u.contents
              /\ L.removed = cl[c].removed /\ L.key = cl[c].key
            BY <1>1 DEF Locals
        <2> HIDE DEF L
        <2>5. MovesTo(c, L)
            BY <1>1, <2>1, <2>3, Moves DEF PCs
        <2>6. UpdaterCurrent(c)'
            BY <1>4, <1>6, <2>4, <2>5 DEF UpdaterCurrent, MovesTo
        <2> QED
            BY <1>1, <1>3, <1>6, <2>1, <2>4, <2>5, <2>6, LockStep DEF WriterPCs
    <1> QED
        BY <1>2, <1>5, <1>6

\* CommitVersion: lock, look the pending version up and build the batch.
LEMMA LockCommitInv ==
    ASSUME TreeInv, NEW c \in Clients, LockCommit(c)
    PROVE  TreeInv'
    <1> DEFINE v == cl[c].version
               u == pendingWrites[v].updater
    <1>1. /\ TreeTypeOK /\ cl[c] \in Locals /\ cl \in [Clients -> Locals]
          /\ cl[c].pc = "commit" /\ writeMu = NoClient
          /\ UNCHANGED <<vmVars, memVars, dbVars, owner>>
        BY DEF TreeInv, TreeTypeOK, LockCommit, At
    <1>2. UNCHANGED pendingWrites
        BY <1>1 DEF vmVars
    <1>3. CASE Fail(c) /\ UNCHANGED writeMu
        BY <1>1, <1>3, FailStep DEF WriterPCs
    <1>4. CASE /\ v \in DOMAIN pendingWrites
               /\ writeMu' = c
               /\ cl' = [cl EXCEPT ![c].pc = "emptyRoot",
                            ![c].parent = pendingWrites[v].parent]
        <2> DEFINE L == [cl[c] EXCEPT !.pc = "emptyRoot",
                            !.parent = pendingWrites[v].parent]
        <2>1. cl' = [cl EXCEPT ![c] = L]
            BY <1>1, <1>4
        <2>2. pendingWrites[v].parent \in Version
            BY <1>4 DEF TreeInv, VMInv, VMTypeOK, PendingVersion
        <2>3. L \in Locals
            BY <1>1, <2>2 DEF Locals, PCs
        <2>4. L.pc = "emptyRoot" /\ L.version = v /\ L.removed = cl[c].removed
            BY <1>1 DEF Locals
        <2> HIDE DEF L
        <2>5. MovesTo(c, L)
            BY <1>1, <2>1, <2>3, Moves DEF PCs
        <2>6. UpdaterCurrent(c)'
            BY <2>4, <2>5 DEF UpdaterCurrent, MovesTo
        <2> QED
            BY <1>1, <1>4, <2>4, <2>5, <2>6, LockStep DEF WriterPCs
    <1>5. CASE /\ v \in DOMAIN pendingWrites
               /\ u # NoUpdater
               /\ writeMu' = c
               /\ cl' = [cl EXCEPT ![c].pc = "copyRoots", ![c].root = u.contents,
                            ![c].nodes = u.touched /\ u.contents # EmptyTree]
        <2> DEFINE L == [cl[c] EXCEPT !.pc = "copyRoots", !.root = u.contents,
                            !.nodes = u.touched /\ u.contents # EmptyTree]
        <2>1. cl' = [cl EXCEPT ![c] = L]
            BY <1>1, <1>5
        <2>2. u.contents \in Contents
            BY <1>5, TreeUpdaters
            DEF TreeInv, VMInv, VMTypeOK, PendingVersion, Updater
        <2>3. (u.touched /\ u.contents # EmptyTree) \in BOOLEAN
            OBVIOUS
        <2>4. L \in Locals
            BY <1>1, <2>2, <2>3 DEF Locals, PCs
        <2>5. /\ L.pc = "copyRoots" /\ L.version = v /\ L.root = u.contents
              /\ L.removed = cl[c].removed
            BY <1>1 DEF Locals
        <2> HIDE DEF L
        <2>6. MovesTo(c, L)
            BY <1>1, <2>1, <2>4, Moves DEF PCs
        <2>7. UpdaterCurrent(c)'
            BY <1>2, <1>5, <2>5, <2>6 DEF UpdaterCurrent, MovesTo
        <2> QED
            BY <1>1, <1>5, <2>5, <2>6, <2>7, LockStep DEF WriterPCs
    <1> QED
        BY <1>3, <1>4, <1>5 DEF LockCommit

-----------------------------------------------------------------------------
(* The steps of the client that holds writeMu.                             *)

\* An error path returns to the caller or goes on to AbortVersion.
LEMMA FailMoves ==
    ASSUME TreeTypeOK, NEW c \in Clients, Fail(c)
    PROVE  \E L : /\ MovesTo(c, L)
                  /\ L.pc = "idle" \/ (L.pc = "abort" /\ L.version = cl[c].version)
                  /\ L.removed \subseteq cl[c].removed
    <1>1. cl[c] \in Locals
        BY DEF TreeTypeOK
    <1>2. CASE Goto(c, "abort")
        <2> DEFINE L == [cl[c] EXCEPT !.pc = "abort"]
        <2>1. MovesTo(c, L)
            BY <1>2, IdleType, Moves DEF PCs
        <2>2. L.pc = "abort" /\ L.version = cl[c].version /\ L.removed = cl[c].removed
            BY <1>1 DEF Locals
        <2> HIDE DEF L
        <2> QED
            BY <2>1, <2>2
    <1>3. CASE Return(c)
        <2>1. MovesTo(c, IdleClient)
            BY <1>3, IdleType, Moves DEF PCs
        <2>2. IdleClient.pc = "idle" /\ IdleClient.removed = {}
            BY DEF IdleClient
        <2>3. IdleClient.removed \subseteq cl[c].removed
            BY <2>2
        <2> QED
            BY <2>1, <2>2, <2>3
    <1> QED
        BY <1>2, <1>3 DEF Fail

\* A client that leaves the critical section.
LEMMA LeaveInv ==
    ASSUME TreeInv, VMFrame, VMInv', NEW c \in Clients, NEW L, MovesTo(c, L),
           L.pc \in {"idle", "abort", "commit"}, L.removed \subseteq cl[c].removed
    PROVE  ClientInv(c)' /\ L.pc \notin WriterPCs
    <1>1. committedVersion' \in Int
        BY MaxVersionAssumption DEF VMInv, VMTypeOK, Version
    <1>2. RemovedGone(c)'
        BY <1>1, RemovedStaysGone DEF RemovedGone, MovesTo
    <1>3. HasKey(c)' /\ cl'[c].pc \notin WriterPCs
        BY DEF HasKey, MovesTo, WriterPCs
    <1> QED
        BY <1>2, <1>3, OutsideInv DEF MovesTo

\* A step of the holder of writeMu that leaves rootHashes, storage and the
\* recorded versions alone.
LEMMA WriterLocalStep ==
    ASSUME TreeInv, NEW c \in Clients, NEW L, MovesTo(c, L), writeMu = c,
           cl[c].pc \notin {"swapRoots", "finish"},
           \/ L.pc \in WriterPCs /\ writeMu' = c
           \/ L.pc \notin WriterPCs /\ writeMu' = NoClient,
           VMInv', ClientInv(c)',
           DOMAIN pendingWrites' = DOMAIN pendingWrites,
           UNCHANGED <<versions, latestVersion, committedVersion,
                       memVars, dbVars, owner>>
    PROVE  TreeInv'
    <1> USE DEF memVars, dbVars
    <1>1. CommittedVersions' = CommittedVersions
        BY DEF CommittedVersions, IsCommitted
    <1>2. VMFrame
        BY Numbers DEF VMFrame
    <1>3. writeMu' \in Clients \cup {NoClient}
        OBVIOUS
    <1>4. TreeTypeOK'
        BY <1>3 DEF TreeInv, TreeTypeOK, VMInv, MovesTo
    <1>5. DurableNumbers'
        BY DEF TreeInv, DurableNumbers
    <1>6. PendingNotDurable'
        BY WriterAlone DEF PendingNotDurable
    <1>7. CommittedIsReadable'
        BY <1>1 DEF TreeInv, CommittedIsReadable
    <1> QED
        BY <1>2, <1>4, <1>5, <1>6, <1>7, WriterStep

\* An error while writeMu is held, before the batch is written.
LEMMA WriterFails ==
    ASSUME TreeInv, NEW c \in Clients, writeMu = c,
           cl[c].pc \notin {"swapRoots", "finish"}, Fail(c), writeMu' = NoClient,
           UNCHANGED <<vmVars, memVars, dbVars, owner>>
    PROVE  TreeInv'
    <1>1. /\ VMInv' /\ VMFrame
          /\ UNCHANGED <<versions, latestVersion, committedVersion, pendingWrites>>
        BY VMUnchanged DEF VMQuiet
    <1>2. PICK L : /\ MovesTo(c, L)
                   /\ L.pc = "idle" \/ L.pc = "abort"
                   /\ L.removed \subseteq cl[c].removed
        BY FailMoves DEF TreeInv
    <1>3. ClientInv(c)' /\ L.pc \notin WriterPCs
        BY <1>1, <1>2, LeaveInv
    <1> QED
        BY <1>1, <1>2, <1>3, WriterLocalStep

\* A panic stops the program where it is.
LEMMA PanicInv ==
    ASSUME TreeInv, panicked' = TRUE,
           UNCHANGED <<versions, latestVersion, committedVersion, pendingWrites,
                       retention, clock, memVars, writeMu, dbVars, cl, owner>>
    PROVE  TreeInv'
    <1> USE DEF memVars, dbVars
    <1>1. VMInv'
        BY DEF TreeInv, VMInv, VMTypeOK, VersionNumbersDisjoint,
            CommittedVersionIsNewest, IsCommitted, HistoryIsAcyclic,
            LineageIsCommitted, ParentsNotPending
    <1>2. CommittedVersions' = CommittedVersions
        BY DEF CommittedVersions, IsCommitted
    <1>3. TreeTypeOK'
        BY <1>1 DEF TreeInv, TreeTypeOK, VMInv
    <1>4. \A c \in Clients : ClientInv(c)'
        BY <1>2 DEF TreeInv, ClientInv, WriterVersion, RemovedGone, BatchIsNew,
            CopyComplete, Published, UpdaterCurrent, HasKey
    <1> QED
        BY <1>1, <1>2, <1>3, <1>4 DEF TreeInv, MutualExclusion, DurableNumbers,
            PendingNotDurable, CommittedIsReadable

\* SetPendingUpdater changes one updater.
LEMMA UpdaterFrame ==
    ASSUME TreeInv, NEW v \in Version, NEW u \in Updater, SetPendingUpdater(v, u)
    PROVE  /\ VMInv' /\ VMFrame
           /\ v \in DOMAIN pendingWrites
           /\ DOMAIN pendingWrites' = DOMAIN pendingWrites
           /\ pendingWrites'[v].updater = u
           /\ pendingWrites'[v].parent = pendingWrites[v].parent
           /\ \A w \in DOMAIN pendingWrites \ {v} : pendingWrites'[w] = pendingWrites[w]
           /\ UNCHANGED <<versions, latestVersion, committedVersion, panicked>>
    <1>1. VMInv'
        BY SetPendingUpdaterInv, TreeUpdaters DEF TreeInv
    <1>2. /\ v \in DOMAIN pendingWrites
          /\ DOMAIN pendingWrites' = DOMAIN pendingWrites
          /\ \A w \in DOMAIN pendingWrites \ {v} : pendingWrites'[w] = pendingWrites[w]
          /\ pendingWrites'[v].updater = u
          /\ pendingWrites'[v].parent = pendingWrites[v].parent
          /\ UNCHANGED <<versions, latestVersion, committedVersion, panicked>>
        BY DEF SetPendingUpdater, TreeInv, VMInv, VMTypeOK, PendingVersion
    <1> QED
        BY <1>1, <1>2, Numbers DEF VMFrame

\* NewTreeUpdater, set on the pending version.
LEMMA InitUpdaterInv ==
    ASSUME TreeInv, NEW c \in Clients, InitUpdater(c)
    PROVE  TreeInv'
    <1> DEFINE v == cl[c].version
    <1>1. /\ TreeTypeOK /\ cl[c] \in Locals
          /\ cl[c].pc = "setUpdater" /\ writeMu = c /\ v \in Version
          /\ UNCHANGED <<memVars, dbVars, owner>>
        BY DEF TreeInv, TreeTypeOK, InitUpdater, At, MutualExclusion, WriterPCs, Locals
    <1>2. CASE v \notin DOMAIN pendingWrites
        BY <1>1, <1>2, WriterFails DEF InitUpdater
    <1>3. CASE v \in DOMAIN pendingWrites
        <2> DEFINE u == NewTreeUpdater(v)
                   L == [cl[c] EXCEPT !.pc = "getPending"]
        <2>1. SetPendingUpdater(v, u) /\ Goto(c, "getPending") /\ UNCHANGED writeMu
            BY <1>3 DEF InitUpdater
        <2>2. u \in Updater /\ u # NoUpdater
            <3>1. EmptyTree \in Contents
                BY DEF EmptyTree, Contents
            <3>2. NodeContents(pendingWrites[v].parent) \in Contents
                BY <1>1, <3>1 DEF NodeContents, TreeTypeOK
            <3>3. u \in Updater
                BY <3>2 DEF NewTreeUpdater, Updater
            <3> QED
                BY <3>3, NoUpdaterAssumption, TreeUpdaters
        <2>3. MovesTo(c, L)
            BY <1>1, <2>1, Moves DEF PCs
        <2>4. /\ L.pc = "getPending" /\ L.version = v
              /\ L.key = cl[c].key /\ L.removed = cl[c].removed
            BY <1>1 DEF Locals
        <2> HIDE DEF L, u
        <2>5. /\ VMInv' /\ VMFrame /\ pendingWrites'[v].updater = u
              /\ DOMAIN pendingWrites' = DOMAIN pendingWrites
              /\ UNCHANGED <<versions, latestVersion, committedVersion>>
            BY <1>1, <2>1, <2>2, UpdaterFrame
        <2>6. CommittedVersions' = CommittedVersions
            BY <2>5 DEF CommittedVersions, IsCommitted
        <2>7. cl'[c] = L
            BY <2>3 DEF MovesTo
        <2>8. ClientInv(c)'
            <3>1. WriterVersion(c)'
                BY <1>1, <2>4, <2>5, <2>6, <2>7
                DEF TreeInv, ClientInv, WriterVersion, WriterPCs
            <3>2. RemovedGone(c)'
                BY <2>4, <2>5, <2>7, Numbers, RemovedStaysGone DEF RemovedGone
            <3>3. HasKey(c)'
                BY <1>1, <2>4, <2>7 DEF TreeInv, ClientInv, HasKey
            <3>4. UpdaterCurrent(c)'
                BY <2>2, <2>4, <2>5, <2>7 DEF UpdaterCurrent
            <3> QED
                BY <2>4, <2>7, <3>1, <3>2, <3>3, <3>4
                DEF ClientInv, BatchIsNew, CopyComplete, Published
        <2> QED
            BY <1>1, <2>1, <2>3, <2>4, <2>5, <2>8, WriterLocalStep DEF WriterPCs
    <1> QED
        BY <1>2, <1>3

\* The pending version is looked up again; without it the program panics.
LEMMA GetPendingAgainInv ==
    ASSUME TreeInv, NEW c \in Clients, GetPendingAgain(c)
    PROVE  TreeInv'
    <1> DEFINE v == cl[c].version
               u == pendingWrites[v].updater
    <1>1. /\ TreeTypeOK /\ cl[c] \in Locals /\ cl \in [Clients -> Locals]
          /\ cl[c].pc = "getPending" /\ writeMu = c
          /\ UNCHANGED <<memVars, writeMu, dbVars, owner>>
        BY DEF TreeInv, TreeTypeOK, GetPendingAgain, At, MutualExclusion, WriterPCs
    <1>2. CASE ~ (v \in DOMAIN pendingWrites /\ u # NoUpdater)
        BY <1>1, <1>2, PanicInv DEF GetPendingAgain
    <1>3. CASE v \in DOMAIN pendingWrites /\ u # NoUpdater
        <2> DEFINE L == [cl[c] EXCEPT !.pc = "apply", !.root = u.contents]
        <2>1. cl' = [cl EXCEPT ![c] = L] /\ UNCHANGED vmVars
            BY <1>1, <1>3 DEF GetPendingAgain
        <2>2. u.contents \in Contents
            BY <1>3, TreeUpdaters
            DEF TreeInv, VMInv, VMTypeOK, PendingVersion, Updater
        <2>3. L \in Locals
            BY <1>1, <2>2 DEF Locals, PCs
        <2>4. /\ L.pc = "apply" /\ L.version = v /\ L.root = u.contents
              /\ L.removed = cl[c].removed /\ L.key = cl[c].key
            BY <1>1 DEF Locals
        <2> HIDE DEF L
        <2>5. MovesTo(c, L)
            BY <1>1, <2>1, <2>3, Moves DEF PCs
        <2>6. /\ VMInv' /\ VMFrame /\ CommittedVersions' = CommittedVersions
              /\ UNCHANGED <<versions, latestVersion, committedVersion, pendingWrites>>
            BY <2>1, VMUnchanged DEF VMQuiet
        <2>7. cl'[c] = L
            BY <2>5 DEF MovesTo
        <2>8. ClientInv(c)'
            <3>1. WriterVersion(c)'
                BY <1>1, <2>4, <2>6, <2>7
                DEF TreeInv, ClientInv, WriterVersion, WriterPCs
            <3>2. RemovedGone(c)'
                BY <2>4, <2>6, <2>7, Numbers, RemovedStaysGone DEF RemovedGone
            <3>3. HasKey(c)'
                BY <1>1, <2>4, <2>7 DEF TreeInv, ClientInv, HasKey
            <3>4. UpdaterCurrent(c)'
                BY <1>3, <2>4, <2>6, <2>7 DEF UpdaterCurrent
            <3> QED
                BY <2>4, <2>7, <3>1, <3>2, <3>3, <3>4
                DEF ClientInv, BatchIsNew, CopyComplete, Published
        <2> QED
            BY <1>1, <2>4, <2>5, <2>6, <2>8, WriterLocalStep DEF WriterPCs
    <1> QED
        BY <1>2, <1>3

\* An update changes the updater of its pending version and nothing else.
LEMMA ApplyUpdateInv ==
    ASSUME TreeInv, NEW c \in Clients, ApplyUpdate(c)
    PROVE  TreeInv'
    <1> DEFINE v == cl[c].version
               contents == [cl[c].root EXCEPT ![cl[c].key] = cl[c].value]
               u == [contents |-> contents, touched |-> TRUE]
               noop == cl[c].value = NoValue /\ cl[c].root[cl[c].key] = NoValue
    <1>1. /\ TreeTypeOK /\ cl[c] \in Locals /\ v \in Version
          /\ cl[c].pc = "apply" /\ writeMu = c
          /\ writeMu' = NoClient
          /\ UNCHANGED <<memVars, dbVars, owner>>
        BY DEF TreeInv, TreeTypeOK, ApplyUpdate, At, MutualExclusion, WriterPCs, Locals
    <1>2. CASE noop
        BY <1>1, <1>2, WriterFails DEF ApplyUpdate
    <1>3. CASE ~ noop
        <2>1. /\ \/ v \in DOMAIN pendingWrites /\ SetPendingUpdater(v, u)
                 \/ UNCHANGED vmVars
              /\ IF cl[c].auto THEN Goto(c, "commit") ELSE Return(c)
            BY <1>3 DEF ApplyUpdate
        <2>2. u \in Updater
            <3>1. cl[c].root \in Contents /\ cl[c].value \in Values \cup {NoValue}
                BY <1>1 DEF Locals
            <3>2. contents \in Contents
                BY <3>1 DEF Contents
            <3> QED
                BY <3>2 DEF Updater
        <2> HIDE DEF u
        <2>3. /\ VMInv' /\ VMFrame
              /\ DOMAIN pendingWrites' = DOMAIN pendingWrites
              /\ UNCHANGED <<versions, latestVersion, committedVersion>>
            BY <1>1, <2>1, <2>2, UpdaterFrame, VMUnchanged DEF VMQuiet
        <2>4. PICK L : /\ MovesTo(c, L)
                       /\ L.pc = "idle" \/ L.pc = "commit"
                       /\ L.removed \subseteq cl[c].removed
            <3>1. CASE Goto(c, "commit")
                <4> DEFINE M == [cl[c] EXCEPT !.pc = "commit"]
                <4>1. MovesTo(c, M)
                    BY <1>1, <3>1, Moves DEF PCs
                <4>2. M.pc = "commit" /\ M.removed = cl[c].removed
                    BY <1>1 DEF Locals
                <4> HIDE DEF M
                <4> QED
                    BY <4>1, <4>2
            <3>2. CASE Return(c)
                <4>1. MovesTo(c, IdleClient)
                    BY <1>1, <3>2, Moves DEF PCs
                <4>2. IdleClient.pc = "idle" /\ IdleClient.removed = {}
                    BY DEF IdleClient
                <4> QED
                    BY <4>1, <4>2
            <3> QED
                BY <2>1, <3>1, <3>2
        <2>5. ClientInv(c)' /\ L.pc \notin WriterPCs
            BY <2>3, <2>4, LeaveInv
        <2> QED
            BY <1>1, <2>3, <2>4, <2>5, WriterLocalStep
    <1> QED
        BY <1>2, <1>3

\* Encoding or committing the batch fails.
LEMMA StoreFailsInv ==
    ASSUME TreeInv, NEW c \in Clients, StoreFails(c)
    PROVE  TreeInv'
    <1>1. cl[c].pc = "store" /\ writeMu = c
        BY DEF StoreFails, At, TreeInv, MutualExclusion, WriterPCs
    <1> QED
        BY <1>1, WriterFails DEF StoreFails

\* The empty version's root hash is looked up.
LEMMA EmptyCommitRootInv ==
    ASSUME TreeInv, NEW c \in Clients, EmptyCommitRoot(c)
    PROVE  TreeInv'
    <1> DEFINE p == cl[c].parent
               root == IF p > 0 /\ p \in DOMAIN rootHashes
                       THEN rootHashes[p] ELSE EmptyTree
               L == [cl[c] EXCEPT !.pc = "emptyPublish", !.root = root]
    <1>1. /\ TreeTypeOK /\ cl[c] \in Locals /\ cl \in [Clients -> Locals]
          /\ cl[c].pc = "emptyRoot" /\ writeMu = c
          /\ UNCHANGED <<vmVars, memVars, writeMu, dbVars, owner>>
        BY DEF TreeInv, TreeTypeOK, EmptyCommitRoot, At, MutualExclusion, WriterPCs
    <1>2. cl' = [cl EXCEPT ![c] = L]
        BY <1>1 DEF EmptyCommitRoot
    <1>3. EmptyTree \in Contents
        BY DEF EmptyTree, Contents
    <1>4. root \in Contents
        BY <1>1, <1>3 DEF TreeTypeOK
    <1> HIDE DEF root
    <1>5. L \in Locals
        BY <1>1, <1>4 DEF Locals, PCs
    <1>6. /\ L.pc = "emptyPublish" /\ L.version = cl[c].version
          /\ L.removed = cl[c].removed
        BY <1>1 DEF Locals
    <1> HIDE DEF L
    <1>7. MovesTo(c, L)
        BY <1>1, <1>2, <1>5, Moves DEF PCs
    <1>8. /\ VMInv' /\ VMFrame /\ CommittedVersions' = CommittedVersions
          /\ UNCHANGED <<versions, latestVersion, committedVersion, pendingWrites>>
        BY <1>1, VMUnchanged DEF VMQuiet
    <1>9. cl'[c] = L
        BY <1>7 DEF MovesTo
    <1>10. ClientInv(c)'
        <2>1. WriterVersion(c)'
            BY <1>1, <1>6, <1>8, <1>9 DEF TreeInv, ClientInv, WriterVersion, WriterPCs
        <2>2. RemovedGone(c)'
            BY <1>6, <1>8, <1>9, Numbers, RemovedStaysGone DEF RemovedGone
        <2> QED
            BY <1>6, <1>9, <2>1, <2>2
            DEF ClientInv, BatchIsNew, CopyComplete, Published, UpdaterCurrent, HasKey
    <1> QED
        BY <1>1, <1>6, <1>7, <1>8, <1>10, WriterLocalStep DEF WriterPCs

\* newRootHashes is complete when it is made.
LEMMA CopyRootsInv ==
    ASSUME TreeInv, NEW c \in Clients, CopyRoots(c)
    PROVE  TreeInv'
    <1> DEFINE v == cl[c].version
               roots == MapPut(rootHashes, v, cl[c].root)
               latest == IF v > latestVer THEN v ELSE latestVer
               L == [cl[c] EXCEPT !.pc = "store", !.roots = roots, !.latest = latest]
    <1>1. /\ TreeTypeOK /\ cl[c] \in Locals /\ cl \in [Clients -> Locals]
          /\ cl[c].pc = "copyRoots" /\ writeMu = c
          /\ UNCHANGED <<vmVars, memVars, writeMu, dbVars, owner>>
        BY DEF TreeInv, TreeTypeOK, CopyRoots, At, MutualExclusion, WriterPCs
    <1>2. cl' = [cl EXCEPT ![c] = L]
        BY <1>1 DEF CopyRoots, CopyWithVersion
    <1>3. v \in Version /\ cl[c].root \in Contents
        BY <1>1 DEF Locals
    <1>4. /\ roots \in [DOMAIN rootHashes \cup {v} -> Contents]
          /\ DOMAIN roots = DOMAIN rootHashes \cup {v}
          /\ roots[v] = cl[c].root
          /\ \A w \in DOMAIN rootHashes \ {v} : roots[w] = rootHashes[w]
        BY <1>1, <1>3, MapType DEF MapPut, TreeTypeOK
    <1>5. roots \in UNION {[S -> Contents] : S \in SUBSET Version}
        <2>1. DOMAIN rootHashes \cup {v} \in SUBSET Version
            BY <1>1, <1>3 DEF TreeTypeOK
        <2> HIDE DEF roots
        <2> QED
            BY <1>4, <2>1
    <1>6. latest \in Version
        BY <1>1, <1>3 DEF TreeTypeOK
    <1> HIDE DEF roots, latest
    <1>7. L \in Locals
        BY <1>1, <1>5, <1>6 DEF Locals, PCs
    <1>8. /\ L.pc = "store" /\ L.version = v /\ L.root = cl[c].root
          /\ L.roots = roots /\ L.removed = cl[c].removed
        BY <1>1 DEF Locals
    <1> HIDE DEF L
    <1>9. MovesTo(c, L)
        BY <1>1, <1>2, <1>7, Moves DEF PCs
    <1>10. /\ VMInv' /\ VMFrame /\ CommittedVersions' = CommittedVersions
           /\ UNCHANGED <<versions, latestVersion, committedVersion, pendingWrites>>
        BY <1>1, VMUnchanged DEF VMQuiet
    <1>11. cl'[c] = L
        BY <1>9 DEF MovesTo
    <1>12. ClientInv(c)'
        <2>1. WriterVersion(c)'
            BY <1>1, <1>8, <1>10, <1>11
            DEF TreeInv, ClientInv, WriterVersion, WriterPCs
        <2>2. RemovedGone(c)'
            BY <1>8, <1>10, <1>11, Numbers, RemovedStaysGone DEF RemovedGone
        <2>3. BatchIsNew(c)'
            BY <1>1, <1>8, <1>11 DEF TreeInv, ClientInv, BatchIsNew, dbVars
        <2>4. v \notin CommittedVersions
            BY <1>1 DEF TreeInv, ClientInv, WriterVersion, WriterPCs
        <2>5. \A w \in CommittedVersions :
                w \in DOMAIN roots /\ roots[w] = versions[w].rootHash
            BY <1>4, <2>4 DEF TreeInv, CommittedIsReadable
        <2>6. CopyComplete(c)'
            BY <1>1, <1>4, <1>8, <1>10, <1>11, <2>5 DEF CopyComplete, memVars
        <2>7. UpdaterCurrent(c)'
            BY <1>1, <1>8, <1>10, <1>11 DEF TreeInv, ClientInv, UpdaterCurrent
        <2> QED
            BY <1>8, <1>11, <2>1, <2>2, <2>3, <2>6, <2>7
            DEF ClientInv, Published, HasKey
    <1> QED
        BY <1>1, <1>8, <1>9, <1>10, <1>12, WriterLocalStep DEF WriterPCs

\* The batch is written: nodes and root hash under a new number.
LEMMA StoreBatchInv ==
    ASSUME TreeInv, NEW c \in Clients, StoreBatch(c)
    PROVE  TreeInv'
    <1> DEFINE v == cl[c].version
               L == [cl[c] EXCEPT !.pc = "swapRoots"]
    <1>1. /\ TreeTypeOK /\ cl[c] \in Locals /\ cl \in [Clients -> Locals]
          /\ cl[c].pc = "store" /\ writeMu = c /\ Goto(c, "swapRoots")
          /\ UNCHANGED <<vmVars, memVars, writeMu, owner>>
        BY DEF TreeInv, TreeTypeOK, StoreBatch, At, MutualExclusion, WriterPCs
    <1>2. v \in Version /\ cl[c].root \in Contents
        BY <1>1 DEF Locals
    <1>3. /\ DOMAIN dbRoots' = DOMAIN dbRoots \cup {v}
          /\ dbRoots' \in [DOMAIN dbRoots \cup {v} -> Contents]
        BY <1>1, <1>2, MapType DEF StoreBatch, WriteBatch, MapPut, TreeTypeOK
    <1>4. /\ DOMAIN dbNodes' \subseteq DOMAIN dbNodes \cup {v}
          /\ dbNodes' \in [DOMAIN dbNodes' -> Contents]
        <2>1. CASE dbNodes' = dbNodes
            BY <1>1, <2>1 DEF TreeTypeOK
        <2>2. CASE dbNodes' = MapPut(dbNodes, v, cl[c].root)
            <3>1. DOMAIN dbNodes' = DOMAIN dbNodes \cup {v}
                BY <2>2 DEF MapPut
            <3>2. dbNodes' \in [DOMAIN dbNodes \cup {v} -> Contents]
                BY <1>1, <1>2, <2>2, MapType DEF TreeTypeOK
            <3> QED
                BY <3>1, <3>2
        <2> QED
            BY <2>1, <2>2 DEF StoreBatch, WriteBatch
    <1>5. MovesTo(c, L)
        BY <1>1, Moves DEF PCs
    <1>6. /\ L.pc = "swapRoots" /\ L.version = v /\ L.root = cl[c].root
          /\ L.roots = cl[c].roots /\ L.removed = cl[c].removed
        BY <1>1 DEF Locals
    <1> HIDE DEF L
    <1>7. /\ VMInv' /\ VMFrame /\ CommittedVersions' = CommittedVersions
          /\ UNCHANGED <<versions, latestVersion, committedVersion, pendingWrites>>
        BY <1>1, VMUnchanged DEF VMQuiet
    <1>8. cl'[c] = L
        BY <1>5 DEF MovesTo
    <1>9. TreeTypeOK'
        BY <1>1, <1>2, <1>3, <1>4, <1>5, <1>7
        DEF TreeTypeOK, VMInv, MovesTo, memVars
    <1>10. WriterVersion(c) /\ CopyComplete(c)
        BY DEF TreeInv, ClientInv
    <1>11. DurableNumbers'
        BY <1>1, <1>3, <1>4, <1>7, <1>10
        DEF TreeInv, DurableNumbers, WriterVersion, WriterPCs
    <1>12. PendingNotDurable'
        BY <1>1, <1>3, <1>6, <1>7, <1>8, WriterAlone DEF PendingNotDurable
    <1>13. CommittedIsReadable'
        BY <1>1, <1>7 DEF TreeInv, CommittedIsReadable, memVars
    <1>14. ClientInv(c)'
        <2>1. WriterVersion(c)'
            BY <1>1, <1>6, <1>7, <1>8, <1>10 DEF WriterVersion, WriterPCs
        <2>2. RemovedGone(c)'
            BY <1>6, <1>7, <1>8, Numbers, RemovedStaysGone DEF RemovedGone
        <2>3. CopyComplete(c)'
            BY <1>1, <1>6, <1>7, <1>8, <1>10 DEF CopyComplete, memVars
        <2> QED
            BY <1>6, <1>8, <2>1, <2>2, <2>3
            DEF ClientInv, BatchIsNew, Published, UpdaterCurrent, HasKey
    <1> QED
        BY <1>1, <1>5, <1>6, <1>7, <1>9, <1>11, <1>12, <1>13, <1>14, WriterStep
        DEF WriterPCs

\* newRootHashes is swapped in: it still holds every committed version, with
\* its root hash, and the new one.
LEMMA SwapRootsInv ==
    ASSUME TreeInv, NEW c \in Clients, SwapRoots(c)
    PROVE  TreeInv'
    <1> DEFINE v == cl[c].version
               L == [cl[c] EXCEPT !.pc = "finish"]
    <1>1. /\ TreeTypeOK /\ cl[c] \in Locals
          /\ cl[c].pc = "swapRoots" /\ writeMu = c /\ Goto(c, "finish")
          /\ rootHashes' = cl[c].roots /\ latestVer' = cl[c].latest
          /\ UNCHANGED <<vmVars, writeMu, dbVars, owner>>
        BY DEF TreeInv, TreeTypeOK, SwapRoots, At, MutualExclusion, WriterPCs
    <1>2. MovesTo(c, L)
        BY <1>1, Moves DEF PCs
    <1>3. /\ L.pc = "finish" /\ L.version = v /\ L.root = cl[c].root
          /\ L.removed = cl[c].removed
        BY <1>1 DEF Locals
    <1> HIDE DEF L
    <1>4. /\ VMInv' /\ VMFrame /\ CommittedVersions' = CommittedVersions
          /\ UNCHANGED <<versions, latestVersion, committedVersion, pendingWrites>>
        BY <1>1, VMUnchanged DEF VMQuiet
    <1>5. cl'[c] = L
        BY <1>2 DEF MovesTo
    <1>6. /\ DOMAIN rootHashes' \subseteq Version
          /\ rootHashes' \in [DOMAIN rootHashes' -> Contents]
          /\ latestVer' \in Version
        <2>1. cl[c].roots \in UNION {[S -> Contents] : S \in SUBSET Version}
            BY <1>1 DEF Locals
        <2>2. PICK S \in SUBSET Version : cl[c].roots \in [S -> Contents]
            BY <2>1
        <2> QED
            BY <1>1, <2>2 DEF Locals
    <1>7. TreeTypeOK'
        BY <1>1, <1>2, <1>4, <1>6 DEF TreeTypeOK, VMInv, MovesTo, dbVars
    <1>8. WriterVersion(c) /\ CopyComplete(c)
        BY DEF TreeInv, ClientInv
    <1>9. DurableNumbers'
        BY <1>1, <1>4 DEF TreeInv, DurableNumbers, dbVars
    <1>10. PendingNotDurable'
        BY <1>1, <1>3, <1>4, <1>5, WriterAlone DEF PendingNotDurable, dbVars
    <1>11. CommittedIsReadable'
        BY <1>1, <1>4, <1>8 DEF CommittedIsReadable, CopyComplete
    <1>12. ClientInv(c)'
        <2>1. WriterVersion(c)'
            BY <1>1, <1>3, <1>4, <1>5, <1>8 DEF WriterVersion, WriterPCs
        <2>2. RemovedGone(c)'
            BY <1>3, <1>4, <1>5, Numbers, RemovedStaysGone DEF RemovedGone
        <2>3. Published(c)'
            BY <1>1, <1>3, <1>5, <1>8 DEF Published, CopyComplete
        <2> QED
            BY <1>3, <1>5, <2>1, <2>2, <2>3
            DEF ClientInv, BatchIsNew, CopyComplete, UpdaterCurrent, HasKey
    <1> QED
        BY <1>1, <1>2, <1>3, <1>4, <1>7, <1>9, <1>10, <1>11, <1>12, WriterStep
        DEF WriterPCs

\* The empty version is published without a batch.
LEMMA EmptyCommitPublishInv ==
    ASSUME TreeInv, NEW c \in Clients, EmptyCommitPublish(c)
    PROVE  TreeInv'
    <1> DEFINE v == cl[c].version
               L == [cl[c] EXCEPT !.pc = "emptyFinish"]
    <1>1. /\ TreeTypeOK /\ cl[c] \in Locals
          /\ cl[c].pc = "emptyPublish" /\ writeMu = c /\ Goto(c, "emptyFinish")
          /\ rootHashes' = MapPut(rootHashes, v, cl[c].root)
          /\ latestVer' = IF v > latestVer THEN v ELSE latestVer
          /\ UNCHANGED <<vmVars, writeMu, dbVars, owner>>
        BY DEF TreeInv, TreeTypeOK, EmptyCommitPublish, At, MutualExclusion, WriterPCs
    <1>2. MovesTo(c, L)
        BY <1>1, Moves DEF PCs
    <1>3. /\ L.pc = "emptyFinish" /\ L.version = v /\ L.root = cl[c].root
          /\ L.removed = cl[c].removed
        BY <1>1 DEF Locals
    <1> HIDE DEF L
    <1>4. /\ VMInv' /\ VMFrame /\ CommittedVersions' = CommittedVersions
          /\ UNCHANGED <<versions, latestVersion, committedVersion, pendingWrites>>
        BY <1>1, VMUnchanged DEF VMQuiet
    <1>5. cl'[c] = L
        BY <1>2 DEF MovesTo
    <1>6. v \in Version /\ cl[c].root \in Contents
        BY <1>1 DEF Locals
    <1>7. /\ DOMAIN rootHashes' = DOMAIN rootHashes \cup {v}
          /\ rootHashes' \in [DOMAIN rootHashes \cup {v} -> Contents]
          /\ rootHashes'[v] = cl[c].root
          /\ \A w \in DOMAIN rootHashes \ {v} : rootHashes'[w] = rootHashes[w]
        BY <1>1, <1>6, MapType DEF MapPut, TreeTypeOK
    <1>8. TreeTypeOK'
        BY <1>1, <1>2, <1>4, <1>6, <1>7 DEF TreeTypeOK, VMInv, MovesTo, dbVars
    <1>9. WriterVersion(c)
        BY DEF TreeInv, ClientInv
    <1>10. DurableNumbers'
        BY <1>1, <1>4 DEF TreeInv, DurableNumbers, dbVars
    <1>11. PendingNotDurable'
        BY <1>1, <1>4, WriterAlone DEF PendingNotDurable, dbVars
    <1>12. CommittedIsReadable'
        BY <1>1, <1>4, <1>7, <1>9
        DEF TreeInv, CommittedIsReadable, WriterVersion, WriterPCs
    <1>13. ClientInv(c)'
        <2>1. WriterVersion(c)'
            BY <1>1, <1>3, <1>4, <1>5, <1>9 DEF WriterVersion, WriterPCs
        <2>2. RemovedGone(c)'
            BY <1>3, <1>4, <1>5, Numbers, RemovedStaysGone DEF RemovedGone
        <2>3. Published(c)'
            BY <1>3, <1>5, <1>7 DEF Published
        <2> QED
            BY <1>3, <1>5, <2>1, <2>2, <2>3
            DEF ClientInv, BatchIsNew, CopyComplete, UpdaterCurrent, HasKey
    <1> QED
        BY <1>1, <1>2, <1>3, <1>4, <1>8, <1>10, <1>11, <1>12, <1>13, WriterStep
        DEF WriterPCs

\* Commit records the pending version under its root hash.
LEMMA CommitFrame ==
    ASSUME TreeInv, NEW v \in Version, NEW h \in Contents, Commit(v, h)
    PROVE  /\ VMInv' /\ VMFrame
           /\ v \in DOMAIN pendingWrites
           /\ DOMAIN pendingWrites' = DOMAIN pendingWrites \ {v}
           /\ \A w \in DOMAIN pendingWrites \ {v} : pendingWrites'[w] = pendingWrites[w]
           /\ \A w \in CommittedVersions' :
                \/ w = v /\ versions'[w].rootHash = h
                \/ w \in CommittedVersions /\ versions'[w] = versions[w]
           /\ UNCHANGED <<latestVersion, panicked>>
    <1>1. VMInv'
        BY CommitInv, TreeHashes DEF TreeInv
    <1>2. /\ v \in DOMAIN pendingWrites
          /\ DOMAIN pendingWrites' = DOMAIN pendingWrites \ {v}
          /\ \A w \in DOMAIN pendingWrites \ {v} : pendingWrites'[w] = pendingWrites[w]
          /\ DOMAIN versions' = DOMAIN versions \cup {v}
          /\ versions'[v].rootHash = h
          /\ \A w \in DOMAIN versions \ {v} : versions'[w] = versions[w]
          /\ committedVersion' =
                IF v > committedVersion THEN v ELSE committedVersion
          /\ UNCHANGED <<latestVersion, panicked>>
        BY DEF Commit, MapPut, MapDelete, CommittedInfo, NewestCommitted
    <1>3. \A w \in CommittedVersions' :
                \/ w = v /\ versions'[w].rootHash = h
                \/ w \in CommittedVersions /\ versions'[w] = versions[w]
        BY <1>2 DEF CommittedVersions, IsCommitted
    <1>4. VMFrame
        BY <1>2, Numbers DEF VMFrame
    <1> QED
        BY <1>1, <1>2, <1>3, <1>4

\* The version manager is told of a version that is already published.
LEMMA TellManager ==
    ASSUME TreeInv, NEW c \in Clients, cl[c].pc \in {"finish", "emptyFinish"},
           Commit(cl[c].version, cl[c].root), Return(c), writeMu' = NoClient,
           UNCHANGED <<memVars, dbVars, owner>>
    PROVE  TreeInv'
    <1> DEFINE v == cl[c].version
    <1> USE DEF memVars, dbVars
    <1>1. TreeTypeOK /\ writeMu = c /\ v \in Version /\ cl[c].root \in Contents
        BY DEF TreeInv, TreeTypeOK, MutualExclusion, WriterPCs, Locals
    <1>2. /\ VMInv' /\ VMFrame
          /\ v \in DOMAIN pendingWrites
          /\ DOMAIN pendingWrites' = DOMAIN pendingWrites \ {v}
          /\ \A w \in CommittedVersions' :
                \/ w = v /\ versions'[w].rootHash = cl[c].root
                \/ w \in CommittedVersions /\ versions'[w] = versions[w]
          /\ UNCHANGED latestVersion
        BY <1>1, CommitFrame
    <1>3. MovesTo(c, IdleClient)
        BY <1>1, IdleType, Moves DEF PCs
    <1>4. IdleClient.pc = "idle" /\ IdleClient.removed = {}
        BY DEF IdleClient
    <1>5. ClientInv(c)' /\ IdleClient.pc \notin WriterPCs
        BY <1>2, <1>3, <1>4, LeaveInv
    <1>6. TreeTypeOK'
        BY <1>1, <1>2, <1>3 DEF TreeTypeOK, VMInv, MovesTo
    <1>7. DurableNumbers'
        BY <1>2 DEF TreeInv, DurableNumbers
    <1>8. PendingNotDurable'
        BY <1>1, <1>2, WriterAlone DEF PendingNotDurable
    <1>9. Published(c)
        BY DEF TreeInv, ClientInv
    <1>10. CommittedIsReadable'
        BY <1>2, <1>9 DEF TreeInv, CommittedIsReadable, Published
    <1> QED
        BY <1>1, <1>2, <1>3, <1>5, <1>6, <1>7, <1>8, <1>10, WriterStep

\* The last step of CommitVersion.
LEMMA FinishInv ==
    ASSUME TreeInv, NEW c \in Clients, FinishCommit(c) \/ EmptyCommitFinish(c)
    PROVE  TreeInv'
    <1>1. CASE FinishCommit(c)
        <2>1. cl[c].pc = "finish" /\ UNCHANGED <<memVars, dbVars, owner>>
            BY <1>1 DEF FinishCommit, At
        <2>2. CASE cl[c].version \in DOMAIN pendingWrites
            BY <1>1, <2>1, <2>2, TellManager DEF FinishCommit
        <2>3. CASE cl[c].version \notin DOMAIN pendingWrites
            BY <1>1, <2>1, <2>3, PanicInv DEF FinishCommit
        <2> QED
            BY <2>2, <2>3
    <1>2. CASE EmptyCommitFinish(c)
        <2>1. /\ cl[c].pc = "emptyFinish" /\ writeMu = c
              /\ writeMu' = NoClient /\ UNCHANGED <<memVars, dbVars, owner>>
            BY <1>2 DEF EmptyCommitFinish, At, TreeInv, MutualExclusion, WriterPCs
        <2>2. CASE cl[c].version \in DOMAIN pendingWrites
            BY <1>2, <2>1, <2>2, TellManager DEF EmptyCommitFinish
        <2>3. CASE cl[c].version \notin DOMAIN pendingWrites
            BY <1>2, <2>1, <2>3, WriterFails DEF EmptyCommitFinish
        <2> QED
            BY <2>2, <2>3
    <1> QED
        BY <1>1, <1>2

-----------------------------------------------------------------------------
(* The initial state, a restart, and every step together.                  *)

\* What loadRootHashes finds: the latest version is the newest one in storage.
LEMMA RecoveredIsNewest ==
    ASSUME TreeTypeOK
    PROVE  /\ RecoveredLatest \in DOMAIN dbRoots \cup {0}
           /\ RecoveredLatest \in Version
           /\ \A v \in DOMAIN dbRoots \cup {0} : v <= RecoveredLatest
    <1> DEFINE S == DOMAIN dbRoots \cup {0}
    <1>1. S \subseteq 0 .. MaxVersion
        BY MaxVersionAssumption DEF TreeTypeOK, Version
    <1>2. S \in SUBSET Nat
        BY <1>1
    <1>3. IsFiniteSet(S)
        <2>1. IsFiniteSet(0 .. MaxVersion)
            BY MaxVersionAssumption, FS_Interval
        <2> HIDE DEF S
        <2> QED
            BY <1>1, <2>1, FS_Subset
    <1>4. 0 \in S
        OBVIOUS
    <1>5. RecoveredLatest = CHOOSE v \in S : \A w \in S : w <= v
        BY DEF RecoveredLatest, Largest, InitialVersion
    <1> HIDE DEF S
    <1>6. \E v \in S : \A w \in S : w <= v
        BY <1>2, <1>3, <1>4, LargestExists
    <1>7. RecoveredLatest \in S /\ \A w \in S : w <= RecoveredLatest
        BY <1>5, <1>6
    <1> QED
        BY <1>1, <1>7 DEF S, Version

\* A restart finds a version manager and a tree that satisfy the invariant.
LEMMA RestartInv ==
    ASSUME TreeInv, Restart
    PROVE  TreeInv'
    <1> DEFINE S == DOMAIN dbRoots \cup {0}
    <1>1. /\ TreeTypeOK /\ DurableNumbers
          /\ latestVersion \in Nat
        BY Numbers DEF TreeInv
    <1>2. /\ latestVersion' = RecoveredLatest
          /\ committedVersion' = RecoveredLatest
          /\ latestVer' = RecoveredLatest
          /\ DOMAIN pendingWrites' = {}
          /\ pendingWrites' \in [{} -> PendingVersion]
          /\ retention' = DefaultRetention
          /\ panicked' = FALSE
          /\ writeMu' = NoClient
          /\ cl' = [c \in Clients |-> IdleClient]
          /\ owner' = [v \in Version |-> NoClient]
          /\ clock' = clock /\ dbRoots' = dbRoots /\ dbNodes' = dbNodes
        BY DEF Restart, dbVars
    <1>3. /\ RecoveredLatest \in S /\ RecoveredLatest \in Version
          /\ \A v \in S : v <= RecoveredLatest
        BY <1>1, RecoveredIsNewest
    <1>4. \A v \in DOMAIN dbRoots : v \in Version /\ v >= 1 /\ dbRoots[v] \in Contents
        BY <1>1 DEF DurableNumbers, TreeTypeOK
    <1>5. /\ DOMAIN versions' = S
          /\ versions'[0] = InitialVersionInfo(clock)
          /\ \A v \in DOMAIN dbRoots :
                versions'[v] = [rootHash |-> dbRoots[v], parent |-> v - 1,
                                createdAt |-> clock, status |-> "Committed"]
        BY <1>4 DEF Restart, RecoveredVersions, InitialVersion
    <1>6. clock \in Nat /\ 0 \in Version
        BY MaxClockAssumption, MaxVersionAssumption DEF TreeInv, VMInv, VMTypeOK, Version
    <1>7. \A v \in DOMAIN dbRoots : v - 1 \in Version /\ v - 1 < v /\ v \in Nat
        BY <1>4, MaxVersionAssumption DEF Version
    <1>8. InitialVersionInfo(clock) \in VersionInfo
        BY <1>6, EmptyHashAssumption
        DEF InitialVersionInfo, VersionInfo, VersionStatus, InitialVersion
    <1>9. \A v \in S : versions'[v] \in VersionInfo
        BY <1>4, <1>5, <1>6, <1>7, <1>8, TreeHashes DEF VersionInfo, VersionStatus
    <1>10. /\ \A v \in S : versions'[v].status = "Committed"
           /\ \A v \in DOMAIN dbRoots : /\ versions'[v].parent = v - 1
                                        /\ versions'[v].rootHash = dbRoots[v]
           /\ versions'[0].parent = 0
        BY <1>5 DEF InitialVersionInfo, InitialVersion
    <1>11. versions' \in [S -> VersionInfo]
        <2>1. versions' = [v \in S |-> versions'[v]]
            BY DEF Restart, RecoveredVersions, InitialVersion
        <2> QED
            BY <1>9, <2>1
    <1>12. VMInv'
        <2>1. retention' \in Retention
            BY <1>2 DEF Retention, DefaultRetention, Policies
        <2>2. S \subseteq Version
            BY <1>4, <1>6
        <2>3. VMTypeOK'
            BY <1>2, <1>3, <1>5, <1>11, <2>1, <2>2 DEF TreeInv, VMInv, VMTypeOK
        <2>4. VersionNumbersDisjoint'
            <3>1. \A v \in S : v \in Nat
                BY <1>7
            <3>2. \A v \in S : v \in 0 .. latestVersion'
                BY <1>2, <1>3, <3>1
            <3> QED
                BY <1>2, <1>5, <3>2 DEF VersionNumbersDisjoint
        <2>5. CommittedVersionIsNewest'
            BY <1>2, <1>3, <1>5, <1>10 DEF CommittedVersionIsNewest, IsCommitted
        <2>6. HistoryIsAcyclic'
            BY <1>2, <1>5, <1>7, <1>10 DEF HistoryIsAcyclic, InitialVersion
        <2>7. LineageIsCommitted' /\ ParentsNotPending'
            BY <1>2, <1>5, <1>10 DEF LineageIsCommitted, ParentsNotPending, IsCommitted
        <2> QED
            BY <2>3, <2>4, <2>5, <2>6, <2>7 DEF VMInv
    <1>13. /\ DOMAIN rootHashes' \subseteq Version
           /\ rootHashes' \in [DOMAIN rootHashes' -> Contents]
           /\ DOMAIN dbRoots # {} => rootHashes' = dbRoots
        <2>1. EmptyTree \in Contents
            BY DEF EmptyTree, Contents
        <2>2. CASE DOMAIN dbRoots = {}
            BY <1>6, <2>1, <2>2 DEF Restart, InitialVersion
        <2>3. CASE DOMAIN dbRoots # {}
            BY <1>1, <2>3 DEF Restart, TreeTypeOK
        <2> QED
            BY <2>2, <2>3
    <1>14. cl' \in [Clients -> Locals] /\ \A c \in Clients : cl'[c] = IdleClient
        BY <1>2, IdleType
    <1>15. TreeTypeOK'
        BY <1>1, <1>2, <1>3, <1>12, <1>13, <1>14 DEF TreeTypeOK, VMInv
    <1>16. IdleClient.pc = "idle" /\ IdleClient.removed = {}
        BY DEF IdleClient
    <1>17. MutualExclusion'
        BY <1>2, <1>14, <1>16, TreeClients DEF MutualExclusion, WriterPCs
    <1>18. DurableNumbers'
        <2>1. \A v \in DOMAIN dbRoots : v \in 1 .. latestVersion'
            BY <1>2, <1>3, <1>4, <1>7
        <2> QED
            BY <1>1, <1>2, <2>1 DEF DurableNumbers
    <1>19. PendingNotDurable'
        BY <1>2 DEF PendingNotDurable
    <1>20. CommittedVersions' \subseteq DOMAIN dbRoots
        BY <1>5 DEF CommittedVersions, InitialVersion
    <1>21. CommittedIsReadable'
        BY <1>10, <1>13, <1>20 DEF CommittedIsReadable
    <1>22. \A c \in Clients : ClientInv(c)'
        BY <1>14, <1>16, OutsideInv DEF RemovedGone, HasKey, WriterPCs
    <1> QED
        BY <1>12, <1>15, <1>17, <1>18, <1>19, <1>21, <1>22 DEF TreeInv

\* A new tree over an empty storage.
LEMMA TreeInitInv == TreeInit => TreeInv
    <1> SUFFICES ASSUME TreeInit PROVE TreeInv
        OBVIOUS
    <1>1. VMInv
        BY VMInitInv DEF TreeInit
    <1>2. /\ DOMAIN versions = {0} /\ DOMAIN pendingWrites = {}
          /\ DOMAIN dbRoots = {} /\ DOMAIN dbNodes = {}
          /\ \A c \in Clients : cl[c] = IdleClient
          /\ writeMu = NoClient
        BY DEF TreeInit, VMInit, InitialVersion
    <1>3. EmptyTree \in Contents
        BY DEF EmptyTree, Contents
    <1>4. 0 \in Version
        BY MaxVersionAssumption DEF Version
    <1>5. TreeTypeOK
        BY <1>1, <1>3, <1>4, IdleType DEF TreeInit, TreeTypeOK, VMInv, InitialVersion
    <1>6. IdleClient.pc = "idle" /\ IdleClient.removed = {}
        BY DEF IdleClient
    <1>7. CommittedVersions = {}
        BY <1>2 DEF CommittedVersions, InitialVersion
    <1>8. \A c \in Clients : ClientInv(c)
        BY <1>2, <1>6 DEF ClientInv, WriterPCs, WriterVersion, RemovedGone, BatchIsNew,
            CopyComplete, Published, UpdaterCurrent, HasKey
    <1>9. MutualExclusion
        BY <1>2, <1>6, TreeClients DEF MutualExclusion, WriterPCs
    <1> QED
        BY <1>1, <1>2, <1>5, <1>7, <1>8, <1>9
        DEF TreeInv, DurableNumbers, PendingNotDurable, CommittedIsReadable

\* The retention policy is chosen by anyone at any time.
LEMMA RetentionInv ==
    ASSUME TreeInv, SetVersionRetentionPolicy
    PROVE  TreeInv'
    <1> USE DEF memVars, dbVars
    <1>1. PICK p \in Policies, n \in MinVersions : SetRetentionPolicy(p, n, 0)
        BY DEF SetVersionRetentionPolicy
    <1>2. /\ retention' = [policy |-> p, minVersions |-> n, maxAge |-> 0]
          /\ UNCHANGED <<versions, latestVersion, committedVersion, pendingWrites,
                         clock, panicked, memVars, writeMu, dbVars, cl, owner>>
        BY <1>1 DEF SetRetentionPolicy, SetVersionRetentionPolicy
    <1>3. VMTypeOK'
        BY <1>2, RetentionAssumption DEF TreeInv, VMInv, VMTypeOK, Retention
    <1>4. VMInv'
        BY <1>2, <1>3 DEF TreeInv, VMInv, VersionNumbersDisjoint,
            CommittedVersionIsNewest, IsCommitted, HistoryIsAcyclic,
            LineageIsCommitted, ParentsNotPending
    <1>5. CommittedVersions' = CommittedVersions
        BY <1>2 DEF CommittedVersions, IsCommitted
    <1>6. TreeTypeOK'
        BY <1>2, <1>3 DEF TreeInv, TreeTypeOK
    <1>7. \A c \in Clients : ClientInv(c)'
        BY <1>2, <1>5 DEF TreeInv, ClientInv, WriterVersion, RemovedGone, BatchIsNew,
            CopyComplete, Published, UpdaterCurrent, HasKey
    <1> QED
        BY <1>2, <1>4, <1>5, <1>6, <1>7 DEF TreeInv, MutualExclusion, DurableNumbers,
            PendingNotDurable, CommittedIsReadable

\* Every step of the tree preserves the invariant.
LEMMA TreeStepInv == TreeInv /\ [TreeNext]_treeVars => TreeInv'
    <1> SUFFICES ASSUME TreeInv, [TreeNext]_treeVars PROVE TreeInv'
        OBVIOUS
    <1>1. ASSUME NEW c \in Clients, Call(c) PROVE TreeInv'
        BY <1>1, CallInv, StartGCInv DEF Call
    <1>2. ASSUME NEW c \in Clients, Lock(c) PROVE TreeInv'
        BY <1>2, LockUpdateInv, LockCommitInv DEF Lock
    <1>3. ASSUME NEW c \in Clients, Step(c) PROVE TreeInv'
        BY <1>3, BeginVersionInv, ReturnInv, InitUpdaterInv, GetPendingAgainInv,
            ApplyUpdateInv, EmptyCommitRootInv, EmptyCommitPublishInv, FinishInv,
            CopyRootsInv, StoreBatchInv, StoreFailsInv, SwapRootsInv,
            AbortVersionInv, GCRootsInv
        DEF Step
    <1>4. CASE SetVersionRetentionPolicy
        BY <1>4, RetentionInv
    <1>5. CASE Restart
        BY <1>5, RestartInv
    <1>6. CASE UNCHANGED treeVars
        <2>1. UNCHANGED <<vmVars, memVars, writeMu, dbVars, cl, owner>>
            BY <1>6 DEF treeVars
        <2> USE DEF memVars, dbVars
        <2>2. /\ VMInv' /\ CommittedVersions' = CommittedVersions
              /\ UNCHANGED <<versions, latestVersion, committedVersion, pendingWrites>>
            BY <2>1, VMUnchanged
        <2>3. TreeTypeOK'
            BY <2>1, <2>2 DEF TreeInv, TreeTypeOK, VMInv
        <2>4. \A c \in Clients : ClientInv(c)'
            BY <2>1, <2>2 DEF TreeInv, ClientInv, WriterVersion, RemovedGone,
                BatchIsNew, CopyComplete, Published, UpdaterCurrent, HasKey
        <2> QED
            BY <2>1, <2>2, <2>3, <2>4 DEF TreeInv, MutualExclusion, DurableNumbers,
                PendingNotDurable, CommittedIsReadable
    <1> QED
        BY <1>1, <1>2, <1>3, <1>4, <1>5, <1>6 DEF TreeNext

-----------------------------------------------------------------------------
(* What holds under every discipline of the clients.                       *)

\* The inductive invariant, for every number of clients, keys, values and
\* versions, whether or not clients share versions or commit untouched ones.
THEOREM TreeInvariance == TreeSpec => []TreeInv
    BY TreeInitInv, TreeStepInv, PTL DEF TreeSpec

\* A committed version can be opened by a reader under its root hash at every
\* step of concurrent commits, aborts, garbage collections and restarts.
THEOREM TreeCommittedIsReadable == TreeSpec => []CommittedIsReadable
    <1>1. TreeInv => CommittedIsReadable
        BY DEF TreeInv
    <1> QED
        BY TreeInvariance, <1>1, PTL

\* Only StoreBatch writes to storage, and under a number that is not there.
LEMMA StepKeepsDurable ==
    ASSUME TreeInv, [TreeNext]_treeVars
    PROVE  /\ \A v \in DOMAIN dbRoots :
                v \in DOMAIN dbRoots' /\ dbRoots'[v] = dbRoots[v]
           /\ \A v \in DOMAIN dbRoots : NodeContents(v)' = NodeContents(v)
    <1>1. CASE UNCHANGED dbVars
        BY <1>1 DEF dbVars, NodeContents
    <1>2. ASSUME NEW c \in Clients, StoreBatch(c)
          PROVE  /\ \A v \in DOMAIN dbRoots :
                      v \in DOMAIN dbRoots' /\ dbRoots'[v] = dbRoots[v]
                 /\ \A v \in DOMAIN dbRoots : NodeContents(v)' = NodeContents(v)
        <2>1. cl[c].version \notin DOMAIN dbRoots
            BY <1>2 DEF TreeInv, ClientInv, BatchIsNew, StoreBatch, At
        <2> QED
            BY <1>2, <2>1 DEF StoreBatch, WriteBatch, MapPut, NodeContents
    <1>3. ASSUME NEW c \in Clients, Call(c) PROVE UNCHANGED dbVars
        BY <1>3 DEF Call, CallBegin, CallPut, CallDelete, StartBegin, CallUpdate,
            CallCommit, CallAbort, StartGC, StartGet
    <1>4. ASSUME NEW c \in Clients, Lock(c) PROVE UNCHANGED dbVars
        BY <1>4 DEF Lock, LockUpdate, LockCommit
    <1>5. ASSUME NEW c \in Clients, Step(c), ~ StoreBatch(c) PROVE UNCHANGED dbVars
        BY <1>5 DEF Step, BeginVersion, BeginFails, InitUpdater, GetPendingAgain,
            ApplyUpdate, EmptyCommitRoot, EmptyCommitPublish, EmptyCommitFinish,
            CopyRoots, StoreFails, SwapRoots, FinishCommit, AbortVersion, GCRoots,
            ReadSnapshot
    <1>6. SetVersionRetentionPolicy \/ Restart => UNCHANGED dbVars
        BY DEF SetVersionRetentionPolicy, Restart
    <1>7. UNCHANGED treeVars => UNCHANGED dbVars
        BY DEF treeVars
    <1> QED
        BY <1>1, <1>2, <1>3, <1>4, <1>5, <1>6, <1>7 DEF TreeNext

\* What storage holds under a version's number never changes: no two commits,
\* not even one before and one after a crash, write the same number.
THEOREM TreeDurableIsImmutable == TreeSpec => DurableIsImmutable
    <1>1. TreeInv /\ [TreeNext]_treeVars =>
            [/\ \A v \in DOMAIN dbRoots :
                  v \in DOMAIN dbRoots' /\ dbRoots'[v] = dbRoots[v]
             /\ \A v \in DOMAIN dbRoots : NodeContents(v)' = NodeContents(v)]_treeVars
        BY StepKeepsDurable
    <1> QED
        BY TreeInvariance, <1>1, PTL DEF TreeSpec, DurableIsImmutable

-----------------------------------------------------------------------------
(* Nobody commits a version that no update succeeded in.                   *)

\* The steps at which DurableInv asks nothing of a client.
FreePCs == {"idle", "begin", "update", "setUpdater", "getPending", "apply",
            "abort", "gcRoots"}

\* A version that an update succeeded in stays so as long as it is pending.
TouchedStays ==
    /\ latestVersion <= latestVersion'
    /\ \A v \in DOMAIN pendingWrites' :
         \/ v > latestVersion
         \/ v \in DOMAIN pendingWrites /\ (Touched(v) => Touched(v)')

\* Only the updater of a version is ever replaced, and by a touched one unless
\* there was none.
LEMMA ClientKeepsTouched ==
    ASSUME TreeInv, NEW c \in Clients, Call(c) \/ Lock(c) \/ Step(c)
    PROVE  TouchedStays
    <1>1. ASSUME UNCHANGED vmVars PROVE TouchedStays
        <2>1. UNCHANGED <<latestVersion, pendingWrites>>
            BY <1>1 DEF vmVars
        <2> QED
            BY <2>1, Numbers DEF TouchedStays, Touched
    <1>2. ASSUME VMQuiet PROVE TouchedStays
        BY <1>2, Numbers DEF VMQuiet, VMFrame, TouchedStays, Touched
    <1>3. cl[c].version \in Version /\ cl[c].root \in Contents
        BY DEF TreeInv, TreeTypeOK, Locals
    <1>4. ASSUME Commit(cl[c].version, cl[c].root) PROVE TouchedStays
        <2>1. /\ UNCHANGED latestVersion
              /\ \A w \in DOMAIN pendingWrites' :
                    w \in DOMAIN pendingWrites /\ pendingWrites'[w] = pendingWrites[w]
            BY <1>3, <1>4, CommitFrame
        <2> QED
            BY <2>1, Numbers DEF TouchedStays, Touched
    <1>5. ASSUME UNCHANGED <<latestVersion, pendingWrites>> PROVE TouchedStays
        BY <1>5, Numbers DEF TouchedStays, Touched
    <1>6. CASE Call(c)
        <2>1. StartGC(c) \/ UNCHANGED vmVars
            BY <1>6 DEF Call, CallBegin, CallPut, CallDelete, StartBegin, CallUpdate,
                CallCommit, CallAbort, StartGet
        <2>2. StartGC(c) => VMQuiet
            BY CollectQuiet DEF StartGC
        <2> QED
            BY <1>1, <1>2, <2>1, <2>2
    <1>7. CASE Lock(c)
        BY <1>1, <1>7 DEF Lock, LockUpdate, LockCommit
    <1>8. CASE BeginVersion(c)
        BY <1>2, <1>8, BeginQuiet DEF BeginVersion
    <1>9. CASE AbortVersion(c)
        BY <1>1, <1>2, <1>9, AbortQuiet DEF AbortVersion
    <1>10. CASE GetPendingAgain(c)
        BY <1>5, <1>10 DEF GetPendingAgain, vmVars
    <1>11. CASE FinishCommit(c) \/ EmptyCommitFinish(c)
        BY <1>1, <1>4, <1>5, <1>11 DEF FinishCommit, EmptyCommitFinish
    <1>12. CASE InitUpdater(c)
        <2> DEFINE v == cl[c].version
                   u == NewTreeUpdater(v)
        <2>1. CASE v \in DOMAIN pendingWrites
            <3>1. SetPendingUpdater(v, u)
                BY <1>12, <2>1 DEF InitUpdater
            <3>2. DOMAIN pendingWrites' = DOMAIN pendingWrites /\ UNCHANGED latestVersion
                BY <3>1 DEF SetPendingUpdater
            <3>3. \A w \in DOMAIN pendingWrites \ {v} : pendingWrites'[w] = pendingWrites[w]
                BY <3>1 DEF SetPendingUpdater
            <3>4. ~ Touched(v)
                BY <1>12, <2>1
                DEF InitUpdater, At, TreeInv, ClientInv, UpdaterCurrent, Touched
            <3> QED
                BY <3>2, <3>3, <3>4, Numbers DEF TouchedStays, Touched
        <2>2. CASE v \notin DOMAIN pendingWrites
            BY <1>1, <1>12, <2>2 DEF InitUpdater
        <2> QED
            BY <2>1, <2>2
    <1>13. CASE ApplyUpdate(c)
        <2> DEFINE v == cl[c].version
                   u == [contents |-> [cl[c].root EXCEPT ![cl[c].key] = cl[c].value],
                         touched |-> TRUE]
        <2>1. UNCHANGED vmVars \/ SetPendingUpdater(v, u)
            BY <1>13 DEF ApplyUpdate
        <2>2. CASE SetPendingUpdater(v, u)
            <3>1. u \in Updater
                <4>1. cl[c].value \in Values \cup {NoValue}
                    BY DEF TreeInv, TreeTypeOK, Locals
                <4> QED
                    BY <1>3, <4>1 DEF Updater, Contents
            <3>2. u.touched /\ u # NoUpdater
                BY <3>1, NoUpdaterAssumption, TreeUpdaters
            <3> HIDE DEF u
            <3>3. /\ DOMAIN pendingWrites' = DOMAIN pendingWrites
                  /\ pendingWrites'[v].updater = u
                  /\ \A w \in DOMAIN pendingWrites \ {v} :
                        pendingWrites'[w] = pendingWrites[w]
                  /\ UNCHANGED latestVersion
                BY <1>3, <2>2, <3>1, UpdaterFrame
            <3> QED
                BY <3>2, <3>3, Numbers DEF TouchedStays, Touched
        <2> QED
            BY <1>1, <2>1, <2>2
    <1>14. CASE \/ BeginFails(c) \/ EmptyCommitRoot(c) \/ EmptyCommitPublish(c)
                \/ CopyRoots(c) \/ StoreBatch(c) \/ StoreFails(c) \/ SwapRoots(c)
                \/ GCRoots(c) \/ ReadSnapshot(c)
        BY <1>1, <1>14 DEF BeginFails, EmptyCommitRoot, EmptyCommitPublish, CopyRoots,
            StoreBatch, StoreFails, SwapRoots, GCRoots, ReadSnapshot
    <1> QED
        BY <1>6, <1>7, <1>8, <1>9, <1>10, <1>11, <1>12, <1>13, <1>14 DEF Step

\* What is in storage stays there.
LEMMA StoreGrows ==
    ASSUME TreeInv, [TreeNext]_treeVars, NEW v, NEW h, InStore(v, h)
    PROVE  InStore(v, h)'
    BY StepKeepsDurable DEF InStore

\* A step disturbs no client whose locals it leaves alone.
LEMMA OthersDurable ==
    ASSUME TreeInv, DurableInv, [TreeNext]_treeVars, TouchedStays,
           latestVersion' \in Int,
           NEW d \in Clients, cl'[d] = cl[d]
    PROVE  ClientDurable(d)'
    <1>1. ClientDurable(d)
        BY DEF DurableInv
    <1>2. PICK pc, v, r, root, nodes : /\ pc = cl[d].pc /\ v = cl[d].version
                                       /\ r = cl[d].roots /\ root = cl[d].root
                                       /\ nodes = cl[d].nodes
        OBVIOUS
    <1>3. ASSUME pc = "commit"
          PROVE  /\ v \in 1 .. latestVersion'
                 /\ v \in DOMAIN pendingWrites' => Touched(v)'
        <2>1. /\ v \in 1 .. latestVersion
              /\ v \in DOMAIN pendingWrites => Touched(v)
            BY <1>1, <1>2, <1>3 DEF ClientDurable
        <2>2. latestVersion \in Nat
            BY Numbers
        <2>3. v \in 1 .. latestVersion'
            BY <2>1, <2>2 DEF TouchedStays
        <2>4. v \in DOMAIN pendingWrites' =>
                v \in DOMAIN pendingWrites /\ (Touched(v) => Touched(v)')
            BY <2>1, <2>2 DEF TouchedStays
        <2> QED
            BY <2>1, <2>3, <2>4
    <1>4. ASSUME pc \in {"store", "swapRoots"}, NEW w \in DOMAIN r
          PROVE  w = v \/ InStore(w, r[w])'
        <2>1. w = v \/ InStore(w, r[w])
            BY <1>1, <1>2, <1>4 DEF ClientDurable
        <2> QED
            BY <2>1, StoreGrows
    <1>5. ASSUME pc \in {"swapRoots", "finish", "read"}
          PROVE  v \in DOMAIN dbRoots' /\ dbRoots'[v] = root
        BY <1>1, <1>2, <1>5, StepKeepsDurable DEF ClientDurable
    <1>6. /\ pc \notin {"emptyRoot", "emptyPublish", "emptyFinish"}
          /\ pc \in {"copyRoots", "store"} => nodes = (root # EmptyTree)
        BY <1>1, <1>2 DEF ClientDurable
    <1>7. /\ pc = cl'[d].pc /\ v = cl'[d].version
          /\ r = cl'[d].roots /\ root = cl'[d].root
          /\ nodes = cl'[d].nodes
        BY <1>2
    <1> QED
        BY <1>3, <1>4, <1>5, <1>6, <1>7 DEF ClientDurable, Touched, InStore

\* Client c goes to a step at which DurableInv asks nothing, or stays where it
\* is (a panic).
MovedFree(c) ==
    /\ cl'[c] = cl[c] \/ cl'[c].pc \in FreePCs
    /\ \A d \in Clients \ {c} : cl'[d] = cl[d]

\* Most steps are of that kind.
LEMMA FreeMoves ==
    ASSUME TreeInv, NEW c \in Clients,
           \/ CallBegin(c) \/ CallPut(c) \/ CallDelete(c) \/ CallUpdate(c)
           \/ CallAbort(c) \/ StartGC(c) \/ LockUpdate(c) \/ BeginVersion(c)
           \/ BeginFails(c) \/ InitUpdater(c) \/ GetPendingAgain(c)
           \/ EmptyCommitFinish(c) \/ StoreFails(c) \/ FinishCommit(c)
           \/ AbortVersion(c) \/ GCRoots(c) \/ ReadSnapshot(c)
    PROVE  MovedFree(c)
    <1>1. /\ TreeTypeOK /\ cl \in [Clients -> Locals] /\ cl[c] \in Locals
        BY DEF TreeInv, TreeTypeOK
    <1>2. ASSUME NEW L, cl' = [cl EXCEPT ![c] = L], L.pc \in FreePCs
          PROVE  MovedFree(c)
        BY <1>1, <1>2 DEF MovedFree
    <1>3. Return(c) => MovedFree(c)
        <2>1. IdleClient.pc \in FreePCs
            BY DEF IdleClient, FreePCs
        <2> QED
            BY <1>2, <2>1 DEF Return
    <1>4. ASSUME NEW pc \in FreePCs, Goto(c, pc) PROVE MovedFree(c)
        BY <1>1, <1>4 DEF Goto, MovedFree, Locals
    <1>5. Fail(c) => MovedFree(c)
        BY <1>3, <1>4 DEF Fail, FreePCs
    <1>6. ASSUME NEW a, NEW k, NEW x, StartBegin(c, a, k, x) PROVE MovedFree(c)
        <2> DEFINE L == [IdleClient EXCEPT
                !.pc = "begin", !.auto = a, !.key = k, !.value = x,
                !.parent = committedVersion]
        <2>1. L.pc \in FreePCs
            BY DEF IdleClient, FreePCs
        <2>2. cl' = [cl EXCEPT ![c] = L]
            BY <1>6 DEF StartBegin
        <2> HIDE DEF L
        <2> QED
            BY <1>2, <2>1, <2>2
    <1>7. CASE CallBegin(c) \/ CallPut(c) \/ CallDelete(c)
        BY <1>6, <1>7 DEF CallBegin, CallPut, CallDelete
    <1>8. CASE CallUpdate(c)
        <2>1. PICK v, k, x : cl' = [cl EXCEPT ![c] = [IdleClient EXCEPT
                    !.pc = "update", !.version = v, !.key = k, !.value = x]]
            BY <1>8 DEF CallUpdate
        <2>2. [IdleClient EXCEPT !.pc = "update", !.version = v, !.key = k,
                                 !.value = x].pc \in FreePCs
            BY DEF IdleClient, FreePCs
        <2> QED
            BY <1>2, <2>1, <2>2
    <1>9. CASE CallAbort(c)
        <2>1. PICK v : cl' = [cl EXCEPT ![c] = [IdleClient EXCEPT
                                !.pc = "abort", !.version = v]]
            BY <1>9 DEF CallAbort
        <2>2. [IdleClient EXCEPT !.pc = "abort", !.version = v].pc \in FreePCs
            BY DEF IdleClient, FreePCs
        <2> QED
            BY <1>2, <2>1, <2>2
    <1>10. CASE StartGC(c)
        <2> DEFINE L == [IdleClient EXCEPT !.pc = "gcRoots", !.removed = Removed]
        <2>1. L.pc \in FreePCs
            BY DEF IdleClient, FreePCs
        <2>2. cl' = [cl EXCEPT ![c] = L]
            BY <1>10 DEF StartGC
        <2> HIDE DEF L
        <2> QED
            BY <1>2, <2>1, <2>2
    <1>11. ASSUME NEW r, cl' = [cl EXCEPT ![c].pc = "apply", ![c].root = r]
           PROVE  MovedFree(c)
        BY <1>1, <1>11 DEF MovedFree, FreePCs, Locals
    <1>12. CASE LockUpdate(c)
        <2>1. \/ Fail(c) \/ Goto(c, "setUpdater")
              \/ \E r : cl' = [cl EXCEPT ![c].pc = "apply", ![c].root = r]
            BY <1>12 DEF LockUpdate
        <2> QED
            BY <1>4, <1>5, <1>11, <2>1 DEF FreePCs
    <1>13. CASE BeginVersion(c)
        <2>1. \/ Return(c)
              \/ cl' = [cl EXCEPT ![c].pc = "update", ![c].parent = 0,
                                  ![c].version = NewVersion]
            BY <1>13 DEF BeginVersion
        <2>2. CASE cl' = [cl EXCEPT ![c].pc = "update", ![c].parent = 0,
                                    ![c].version = NewVersion]
            BY <1>1, <2>2 DEF MovedFree, FreePCs, Locals
        <2> QED
            BY <1>3, <2>1, <2>2
    <1>14. CASE InitUpdater(c)
        BY <1>4, <1>5, <1>14 DEF InitUpdater, FreePCs
    <1>15. CASE cl' = cl
        BY <1>15 DEF MovedFree
    <1>16. CASE GetPendingAgain(c)
        <2>1. \/ cl' = cl
              \/ \E r : cl' = [cl EXCEPT ![c].pc = "apply", ![c].root = r]
            BY <1>16 DEF GetPendingAgain
        <2> QED
            BY <1>11, <1>15, <2>1
    <1>17. CASE FinishCommit(c)
        BY <1>3, <1>15, <1>17 DEF FinishCommit
    <1>18. CASE \/ BeginFails(c) \/ EmptyCommitFinish(c) \/ StoreFails(c)
                \/ AbortVersion(c) \/ GCRoots(c) \/ ReadSnapshot(c)
        BY <1>3, <1>5, <1>18 DEF BeginFails, EmptyCommitFinish, StoreFails,
            AbortVersion, GCRoots, ReadSnapshot
    <1> QED
        BY <1>7, <1>8, <1>9, <1>10, <1>12, <1>13, <1>14, <1>16, <1>17, <1>18

\* A step of client c preserves DurableInv if it does so for that client, for
\* what readers are shown and for what is in storage.
LEMMA DurableMove ==
    ASSUME TreeInv, TreeInv', DurableInv, NEW c \in Clients,
           Call(c) \/ Lock(c) \/ Step(c),
           \A d \in Clients \ {c} : cl'[d] = cl[d],
           cl'[c] = cl[c] \/ ClientDurable(c)',
           UNCHANGED dbVars \/ NodesMatch',
           \/ \A v \in DOMAIN rootHashes' :
                v \in DOMAIN rootHashes /\ rootHashes'[v] = rootHashes[v]
           \/ RootsInStore'
    PROVE  DurableInv'
    <1>1. [TreeNext]_treeVars
        BY DEF TreeNext
    <1>2. TouchedStays
        BY ClientKeepsTouched
    <1>3. latestVersion' \in Int
        BY MaxVersionAssumption DEF TreeInv, VMInv, VMTypeOK, Version
    <1>4. \A d \in Clients : ClientDurable(d)'
        BY <1>1, <1>2, <1>3, OthersDurable
    <1>5. NodesMatch'
        BY DEF DurableInv, NodesMatch, NodeContents, dbVars
    <1>6. ASSUME \A v \in DOMAIN rootHashes' :
                v \in DOMAIN rootHashes /\ rootHashes'[v] = rootHashes[v]
          PROVE  RootsInStore'
        <2>1. \A v \in DOMAIN rootHashes : InStore(v, rootHashes[v])
            BY DEF DurableInv, RootsInStore
        <2>2. \A v \in DOMAIN rootHashes' :
                \/ v = InitialVersion /\ rootHashes'[v] = EmptyTree
                \/ v \in DOMAIN dbRoots' /\ rootHashes'[v] = dbRoots'[v]
            BY <1>1, <1>6, <2>1, StepKeepsDurable DEF InStore
        <2> QED
            BY <2>2 DEF RootsInStore, InStore
    <1> QED
        BY <1>4, <1>5, <1>6 DEF DurableInv

\* Steps that ask nothing of their client.
LEMMA DurableFree ==
    ASSUME TreeInv, TreeInv', DurableInv, NEW c \in Clients,
           Call(c) \/ Lock(c) \/ Step(c), MovedFree(c), UNCHANGED dbVars,
           UNCHANGED rootHashes \/ GCRoots(c)
    PROVE  DurableInv'
    <1>1. cl'[c] = cl[c] \/ ClientDurable(c)'
        BY DEF MovedFree, FreePCs, ClientDurable
    <1>2. \A v \in DOMAIN rootHashes' :
            v \in DOMAIN rootHashes /\ rootHashes'[v] = rootHashes[v]
        BY DEF GCRoots, MapDelete
    <1>3. \A d \in Clients \ {c} : cl'[d] = cl[d]
        BY DEF MovedFree
    <1> QED
        BY <1>1, <1>2, <1>3, DurableMove

\* CommitVersion called on a version an update succeeded in.
LEMMA CallCommitDurable ==
    ASSUME TreeInv, TreeInv', DurableInv, NEW c \in Clients, CallCommit(c),
           ~ CommitUntouched
    PROVE  DurableInv'
    <1>1. PICK v \in DOMAIN pendingWrites :
            /\ Touched(v)
            /\ cl' = [cl EXCEPT ![c] = [IdleClient EXCEPT !.pc = "commit", !.version = v]]
        BY DEF CallCommit
    <1> DEFINE L == [IdleClient EXCEPT !.pc = "commit", !.version = v]
    <1>2. L.pc = "commit" /\ L.version = v
        BY DEF IdleClient
    <1>3. cl' = [cl EXCEPT ![c] = L]
        BY <1>1
    <1> HIDE DEF L
    <1>4. cl'[c] = L /\ \A d \in Clients \ {c} : cl'[d] = cl[d]
        BY <1>3 DEF TreeInv, TreeTypeOK
    <1>5. UNCHANGED <<vmVars, memVars, dbVars>>
        BY DEF CallCommit
    <1>6. v \in 1 .. latestVersion
        BY Numbers
    <1>7. ClientDurable(c)'
        BY <1>1, <1>2, <1>4, <1>5, <1>6 DEF ClientDurable, Touched, vmVars
    <1> QED
        BY <1>4, <1>5, <1>7, DurableMove DEF Call, memVars

\* An update that succeeds marks its version; Put and Delete then commit it.
LEMMA ApplyUpdateDurable ==
    ASSUME TreeInv, TreeInv', DurableInv, NEW c \in Clients, ApplyUpdate(c)
    PROVE  DurableInv'
    <1> DEFINE v == cl[c].version
               u == [contents |-> [cl[c].root EXCEPT ![cl[c].key] = cl[c].value],
                     touched |-> TRUE]
    <1>1. /\ cl \in [Clients -> Locals] /\ cl[c] \in Locals /\ v \in Version
          /\ TreeTypeOK
        BY DEF TreeInv, TreeTypeOK, Locals
    <1>2. UNCHANGED <<rootHashes, dbVars>>
        BY DEF ApplyUpdate, memVars
    <1>3. CASE Fail(c) \/ Return(c)
        <2>1. MovedFree(c)
            <3>1. CASE Fail(c)
                <4>1. PICK L : MovesTo(c, L) /\ L.pc \in FreePCs
                    BY <1>1, <3>1, FailMoves DEF FreePCs
                <4> QED
                    BY <4>1 DEF MovesTo, MovedFree
            <3>2. CASE Return(c)
                <4>1. MovesTo(c, IdleClient)
                    BY <1>1, <3>2, IdleType, Moves DEF PCs
                <4>2. IdleClient.pc \in FreePCs
                    BY DEF IdleClient, FreePCs
                <4> QED
                    BY <4>1, <4>2 DEF MovesTo, MovedFree
            <3> QED
                BY <1>3, <3>1, <3>2
        <2> QED
            BY <1>2, <2>1, DurableFree DEF Step
    <1>4. CASE Goto(c, "commit") /\ ~ Fail(c)
        <2>1. /\ \/ v \in DOMAIN pendingWrites /\ SetPendingUpdater(v, u)
                 \/ v \notin DOMAIN pendingWrites /\ UNCHANGED vmVars
            BY <1>4 DEF ApplyUpdate
        <2>2. u \in Updater
            <3>1. cl[c].value \in Values \cup {NoValue} /\ cl[c].root \in Contents
                BY <1>1 DEF Locals
            <3> QED
                BY <3>1 DEF Updater, Contents
        <2>3. u.touched /\ u # NoUpdater
            BY <2>2, NoUpdaterAssumption, TreeUpdaters
        <2> HIDE DEF u
        <2>4. v \in DOMAIN pendingWrites' =>
                /\ pendingWrites'[v].updater # NoUpdater
                /\ pendingWrites'[v].updater.touched
            <3>1. CASE v \in DOMAIN pendingWrites /\ SetPendingUpdater(v, u)
                <4>1. pendingWrites'[v].updater = u
                    BY <1>1, <2>2, <3>1, UpdaterFrame
                <4> QED
                    BY <2>3, <4>1
            <3>2. CASE v \notin DOMAIN pendingWrites /\ UNCHANGED vmVars
                BY <3>2 DEF vmVars
            <3> QED
                BY <2>1, <3>1, <3>2
        <2>5. v \in 1 .. latestVersion /\ UNCHANGED latestVersion
            BY <2>1 DEF ApplyUpdate, At, TreeInv, ClientInv, WriterVersion, WriterPCs,
                SetPendingUpdater, vmVars
        <2>6. /\ cl'[c].pc = "commit" /\ cl'[c].version = v
              /\ \A d \in Clients \ {c} : cl'[d] = cl[d]
            BY <1>1, <1>4 DEF Goto, Locals
        <2>7. ClientDurable(c)'
            BY <2>4, <2>5, <2>6 DEF ClientDurable, Touched
        <2> QED
            BY <1>2, <2>6, <2>7, DurableMove DEF Step
    <1> QED
        BY <1>3, <1>4 DEF ApplyUpdate

\* The batch of a version an update succeeded in has a root node exactly if
\* the tree is not empty.
LEMMA LockCommitDurable ==
    ASSUME TreeInv, TreeInv', DurableInv, NEW c \in Clients, LockCommit(c)
    PROVE  DurableInv'
    <1> DEFINE v == cl[c].version
               u == pendingWrites[v].updater
    <1>1. /\ cl \in [Clients -> Locals] /\ cl[c] \in Locals /\ TreeTypeOK
        BY DEF TreeInv, TreeTypeOK
    <1>2. UNCHANGED <<rootHashes, dbVars>>
        BY DEF LockCommit, memVars
    <1>3. v \in DOMAIN pendingWrites => u # NoUpdater /\ u.touched
        BY DEF LockCommit, At, DurableInv, ClientDurable, Touched
    <1>4. CASE Fail(c)
        <2>1. PICK L : MovesTo(c, L) /\ L.pc \in FreePCs
            BY <1>1, <1>4, FailMoves DEF FreePCs
        <2>2. MovedFree(c)
            BY <2>1 DEF MovesTo, MovedFree
        <2> QED
            BY <1>2, <2>2, DurableFree DEF Lock
    <1>5. CASE /\ v \in DOMAIN pendingWrites
               /\ cl' = [cl EXCEPT ![c].pc = "copyRoots", ![c].root = u.contents,
                            ![c].nodes = u.touched /\ u.contents # EmptyTree]
        <2>1. /\ cl'[c].pc = "copyRoots" /\ cl'[c].root = u.contents
              /\ cl'[c].nodes = (u.touched /\ u.contents # EmptyTree)
              /\ \A d \in Clients \ {c} : cl'[d] = cl[d]
            <3>1. PICK root, nodes :
                    root = u.contents /\ nodes = (u.touched /\ u.contents # EmptyTree)
                OBVIOUS
            <3>2. cl' = [cl EXCEPT ![c].pc = "copyRoots", ![c].root = root,
                            ![c].nodes = nodes]
                BY <1>5, <3>1
            <3>3. /\ cl'[c] = [cl[c] EXCEPT !.pc = "copyRoots", !.root = root,
                                !.nodes = nodes]
                  /\ \A d \in Clients \ {c} : cl'[d] = cl[d]
                BY <1>1, <3>2
            <3>4. /\ cl'[c].pc = "copyRoots" /\ cl'[c].root = root
                  /\ cl'[c].nodes = nodes
                BY <1>1, <3>3 DEF Locals
            <3> QED
                BY <3>1, <3>3, <3>4
        <2>2. ClientDurable(c)'
            <3>1. cl'[c].nodes = (cl'[c].root # EmptyTree)
                BY <1>3, <1>5, <2>1
            <3>2. cl'[c].pc = "copyRoots"
                BY <2>1
            <3> QED
                BY <3>1, <3>2 DEF ClientDurable
        <2> QED
            BY <1>2, <2>1, <2>2, DurableMove DEF Lock
    <1> QED
        BY <1>3, <1>4, <1>5 DEF LockCommit

\* The copy of rootHashes holds what is in storage, and the new version.
LEMMA CopyRootsDurable ==
    ASSUME TreeInv, TreeInv', DurableInv, NEW c \in Clients, CopyRoots(c)
    PROVE  DurableInv'
    <1>1. cl \in [Clients -> Locals] /\ cl[c] \in Locals
        BY DEF TreeInv, TreeTypeOK
    <1>2. UNCHANGED <<rootHashes, dbVars>>
        BY DEF CopyRoots, memVars
    <1>3. /\ cl'[c].pc = "store" /\ cl'[c].version = cl[c].version
          /\ cl'[c].root = cl[c].root /\ cl'[c].nodes = cl[c].nodes
          /\ cl'[c].roots = MapPut(rootHashes, cl[c].version, cl[c].root)
          /\ \A d \in Clients \ {c} : cl'[d] = cl[d]
        BY <1>1 DEF CopyRoots, CopyWithVersion, Locals
    <1>4. cl[c].nodes = (cl[c].root # EmptyTree)
        BY DEF CopyRoots, At, DurableInv, ClientDurable
    <1>5. \A v \in DOMAIN cl'[c].roots :
            \/ v = cl[c].version
            \/ v = InitialVersion /\ cl'[c].roots[v] = EmptyTree
            \/ v \in DOMAIN dbRoots /\ cl'[c].roots[v] = dbRoots[v]
        BY <1>3 DEF MapPut, DurableInv, RootsInStore, InStore
    <1>6. ClientDurable(c)'
        BY <1>2, <1>3, <1>4, <1>5 DEF ClientDurable, InStore, dbVars
    <1> QED
        BY <1>2, <1>3, <1>6, DurableMove DEF Step

\* Nodes and root hash are written together and agree.
LEMMA StoreBatchDurable ==
    ASSUME TreeInv, TreeInv', DurableInv, NEW c \in Clients, StoreBatch(c)
    PROVE  DurableInv'
    <1> DEFINE v == cl[c].version
    <1>1. cl \in [Clients -> Locals] /\ cl[c] \in Locals
        BY DEF TreeInv, TreeTypeOK
    <1>2. /\ cl[c].pc = "store" /\ UNCHANGED rootHashes
          /\ dbRoots' = MapPut(dbRoots, v, cl[c].root)
          /\ dbNodes' = IF cl[c].nodes THEN MapPut(dbNodes, v, cl[c].root) ELSE dbNodes
        BY DEF StoreBatch, WriteBatch, At, memVars
    <1>3. /\ cl'[c].pc = "swapRoots" /\ cl'[c].version = v
          /\ cl'[c].root = cl[c].root /\ cl'[c].roots = cl[c].roots
          /\ \A d \in Clients \ {c} : cl'[d] = cl[d]
        BY <1>1 DEF StoreBatch, Goto, Locals
    <1>4. /\ cl[c].nodes = (cl[c].root # EmptyTree)
          /\ \A w \in DOMAIN cl[c].roots : w = v \/ InStore(w, cl[c].roots[w])
        BY <1>2 DEF DurableInv, ClientDurable
    <1>5. v \notin DOMAIN dbRoots /\ v \notin DOMAIN dbNodes
        BY <1>2 DEF TreeInv, ClientInv, BatchIsNew, DurableNumbers
    <1>6. /\ DOMAIN dbRoots' = DOMAIN dbRoots \cup {v}
          /\ dbRoots'[v] = cl[c].root
          /\ \A w \in DOMAIN dbRoots : dbRoots'[w] = dbRoots[w]
        BY <1>2, <1>5 DEF MapPut
    <1>7. NodesMatch'
        <2>1. \A w \in DOMAIN dbRoots : NodeContents(w)' = dbRoots[w]
            BY StepKeepsDurable DEF DurableInv, NodesMatch, TreeNext, Step
        <2>2. (IF v \in DOMAIN dbNodes' THEN dbNodes'[v] ELSE EmptyTree) = cl[c].root
            BY <1>2, <1>4, <1>5 DEF MapPut
        <2> QED
            BY <1>6, <2>1, <2>2 DEF NodesMatch, NodeContents
    <1>8. \A w \in DOMAIN cl[c].roots :
            \/ w = v
            \/ w = InitialVersion /\ cl[c].roots[w] = EmptyTree
            \/ w \in DOMAIN dbRoots' /\ cl[c].roots[w] = dbRoots'[w]
        BY <1>4, <1>6 DEF InStore
    <1>9. ClientDurable(c)'
        BY <1>3, <1>6, <1>8 DEF ClientDurable, InStore
    <1> QED
        BY <1>2, <1>3, <1>7, <1>9, DurableMove DEF Step

\* What is swapped in is in storage.
LEMMA SwapRootsDurable ==
    ASSUME TreeInv, TreeInv', DurableInv, NEW c \in Clients, SwapRoots(c)
    PROVE  DurableInv'
    <1>1. cl \in [Clients -> Locals] /\ cl[c] \in Locals
        BY DEF TreeInv, TreeTypeOK
    <1>2. cl[c].pc = "swapRoots" /\ rootHashes' = cl[c].roots /\ UNCHANGED dbVars
        BY DEF SwapRoots, At
    <1>3. /\ cl'[c].pc = "finish" /\ cl'[c].version = cl[c].version
          /\ cl'[c].root = cl[c].root
          /\ \A d \in Clients \ {c} : cl'[d] = cl[d]
        BY <1>1 DEF SwapRoots, Goto, Locals
    <1>4. /\ cl[c].version \in DOMAIN dbRoots /\ dbRoots[cl[c].version] = cl[c].root
          /\ \A w \in DOMAIN cl[c].roots :
                w = cl[c].version \/ InStore(w, cl[c].roots[w])
        BY <1>2 DEF DurableInv, ClientDurable
    <1>5. cl[c].roots[cl[c].version] = cl[c].root
        BY <1>2 DEF TreeInv, ClientInv, CopyComplete
    <1>6. RootsInStore'
        BY <1>2, <1>4, <1>5 DEF RootsInStore, InStore, dbVars
    <1>7. ClientDurable(c)'
        BY <1>2, <1>3, <1>4 DEF ClientDurable, dbVars
    <1> QED
        BY <1>2, <1>3, <1>6, <1>7, DurableMove DEF Step

\* A reader picks up a root hash that is in storage.
LEMMA StartGetDurable ==
    ASSUME TreeInv, TreeInv', DurableInv, NEW c \in Clients, StartGet(c)
    PROVE  DurableInv'
    <1>1. PICK v \in DOMAIN rootHashes :
            /\ rootHashes[v] # EmptyTree
            /\ cl' = [cl EXCEPT ![c] = [IdleClient EXCEPT
                    !.pc = "read", !.version = v, !.root = rootHashes[v]]]
        BY DEF StartGet
    <1> DEFINE L == [IdleClient EXCEPT
                    !.pc = "read", !.version = v, !.root = rootHashes[v]]
    <1>2. L.pc = "read" /\ L.version = v /\ L.root = rootHashes[v]
        BY DEF IdleClient
    <1>3. cl' = [cl EXCEPT ![c] = L]
        BY <1>1
    <1> HIDE DEF L
    <1>4. cl'[c] = L /\ \A d \in Clients \ {c} : cl'[d] = cl[d]
        BY <1>3 DEF TreeInv, TreeTypeOK
    <1>5. UNCHANGED <<rootHashes, dbVars>>
        BY DEF StartGet, memVars
    <1>6. v \in DOMAIN dbRoots /\ dbRoots[v] = rootHashes[v]
        BY <1>1 DEF DurableInv, RootsInStore, InStore
    <1>7. ClientDurable(c)'
        BY <1>2, <1>4, <1>5, <1>6 DEF ClientDurable, dbVars
    <1> QED
        BY <1>4, <1>5, <1>7, DurableMove DEF Call

\* Every step preserves DurableInv.
LEMMA DurableStepInv ==
    ASSUME ~ CommitUntouched, TreeInv, TreeInv', DurableInv, [TreeNext]_treeVars
    PROVE  DurableInv'
    <1>1. ASSUME NEW c \in Clients, Call(c) PROVE DurableInv'
        <2>1. CASE \/ CallBegin(c) \/ CallPut(c) \/ CallDelete(c) \/ CallUpdate(c)
                   \/ CallAbort(c) \/ StartGC(c)
            <3>1. MovedFree(c)
                BY <2>1, FreeMoves
            <3>2. UNCHANGED <<rootHashes, dbVars>>
                BY <2>1 DEF CallBegin, CallPut, CallDelete, StartBegin, CallUpdate,
                    CallAbort, StartGC, memVars
            <3> QED
                BY <1>1, <3>1, <3>2, DurableFree
        <2> QED
            BY <1>1, <2>1, CallCommitDurable, StartGetDurable DEF Call
    <1>2. ASSUME NEW c \in Clients, Lock(c) PROVE DurableInv'
        <2>1. CASE LockUpdate(c)
            <3>1. MovedFree(c)
                BY <2>1, FreeMoves
            <3>2. UNCHANGED <<rootHashes, dbVars>>
                BY <2>1 DEF LockUpdate, memVars
            <3> QED
                BY <1>2, <3>1, <3>2, DurableFree
        <2> QED
            BY <1>2, <2>1, LockCommitDurable DEF Lock
    <1>3. ASSUME NEW c \in Clients, Step(c) PROVE DurableInv'
        <2>1. CASE \/ BeginVersion(c) \/ BeginFails(c) \/ InitUpdater(c)
                   \/ GetPendingAgain(c) \/ EmptyCommitFinish(c) \/ StoreFails(c)
                   \/ FinishCommit(c) \/ AbortVersion(c) \/ GCRoots(c)
                   \/ ReadSnapshot(c)
            <3>1. MovedFree(c)
                BY <2>1, FreeMoves
            <3>2. UNCHANGED dbVars /\ (UNCHANGED rootHashes \/ GCRoots(c))
                BY <2>1 DEF BeginVersion, BeginFails, InitUpdater, GetPendingAgain,
                    EmptyCommitFinish, StoreFails, FinishCommit, AbortVersion,
                    GCRoots, ReadSnapshot, memVars
            <3> QED
                BY <1>3, <3>1, <3>2, DurableFree
        <2>2. ~ EmptyCommitRoot(c) /\ ~ EmptyCommitPublish(c)
            BY DEF EmptyCommitRoot, EmptyCommitPublish, At, DurableInv, ClientDurable
        <2> QED
            BY <1>3, <2>1, <2>2, ApplyUpdateDurable, CopyRootsDurable,
                StoreBatchDurable, SwapRootsDurable
            DEF Step
    <1>4. CASE SetVersionRetentionPolicy \/ UNCHANGED treeVars
        <2>1. UNCHANGED <<latestVersion, pendingWrites, rootHashes, dbRoots, dbNodes, cl>>
            BY <1>4 DEF SetVersionRetentionPolicy, SetRetentionPolicy, treeVars, vmVars,
                memVars, dbVars
        <2> QED
            BY <2>1 DEF DurableInv, NodesMatch, NodeContents, RootsInStore, InStore,
                ClientDurable, Touched
    <1>5. CASE Restart
        <2>1. /\ UNCHANGED <<dbRoots, dbNodes>>
              /\ cl' = [c \in Clients |-> IdleClient]
              /\ \/ rootHashes' = dbRoots
                 \/ rootHashes' = [v \in {InitialVersion} |-> EmptyTree]
            BY <1>5 DEF Restart, dbVars
        <2>2. RootsInStore'
            BY <2>1 DEF RootsInStore, InStore
        <2>3. \A c \in Clients : ClientDurable(c)'
            BY <2>1 DEF ClientDurable, IdleClient
        <2>4. NodesMatch'
            BY <2>1 DEF DurableInv, NodesMatch, NodeContents
        <2> QED
            BY <2>2, <2>3, <2>4 DEF DurableInv
    <1> QED
        BY <1>1, <1>2, <1>3, <1>4, <1>5 DEF TreeNext

\* A new tree.
LEMMA DurableInitInv == TreeInit => DurableInv
    BY DEF TreeInit, DurableInv, NodesMatch, RootsInStore, InStore, ClientDurable,
        IdleClient, InitialVersion

\* The strengthened invariant, while nobody commits an untouched version.
THEOREM TreeDurableInvariance ==
    ASSUME ~ CommitUntouched
    PROVE  TreeSpec => []DurableInv
    <1>1. TreeInv /\ TreeInv' /\ DurableInv /\ [TreeNext]_treeVars => DurableInv'
        BY DurableStepInv
    <1> QED
        BY TreeInvariance, DurableInitInv, <1>1, PTL DEF TreeSpec

\* CommitVersion has its batch in storage before anybody can learn that the
\* version is committed: a crash at any moment keeps every committed version.
THEOREM TreeCommittedIsDurable ==
    ASSUME ~ CommitUntouched
    PROVE  TreeSpec => []CommittedIsDurable
    <1>1. TreeInv /\ DurableInv => CommittedIsDurable
        BY DEF TreeInv, DurableInv, CommittedIsReadable, RootsInStore, InStore,
            CommittedIsDurable, CommittedVersions
    <1> QED
        BY TreeInvariance, TreeDurableInvariance, <1>1, PTL

\* Whatever a reader can open, and whatever a reader in progress has picked
\* up, the nodes it finds are the ones the root hash authenticates.
THEOREM TreeReadsMatchRootHash ==
    ASSUME ~ CommitUntouched
    PROVE  TreeSpec => []ReadsMatchRootHash
    <1>1. TreeInv /\ DurableInv => ReadsMatchRootHash
        <2> SUFFICES ASSUME TreeInv, DurableInv PROVE ReadsMatchRootHash
            OBVIOUS
        <2>1. NodeContents(InitialVersion) = EmptyTree
            BY Numbers DEF TreeInv, DurableNumbers, NodeContents, InitialVersion
        <2> QED
            BY <2>1 DEF DurableInv, NodesMatch, RootsInStore, InStore, ClientDurable,
                ReadsMatchRootHash
    <1> QED
        BY TreeInvariance, TreeDurableInvariance, <1>1, PTL

-----------------------------------------------------------------------------
(* Every client uses only the versions it began.                           *)

\* A step of client c preserves OwnedInv if c still owns what it works on and
\* takes nothing but its own version out of the pending ones.
LEMMA OwnedMove ==
    ASSUME OwnedInv, ~ panicked', NEW c \in Clients,
           \A d \in Clients \ {c} : cl'[d] = cl[d],
           \A v \in DOMAIN pendingWrites :
                \/ v \in DOMAIN pendingWrites'
                \/ cl[c].pc \in VersionPCs /\ v = cl[c].version,
           \A v \in DOMAIN pendingWrites : owner'[v] = owner[v],
           cl'[c].pc \in VersionPCs =>
                cl'[c].version \in DOMAIN pendingWrites' /\ owner'[cl'[c].version] = c
    PROVE  OwnedInv'
    BY DEF OwnedInv

\* Client c goes on with its version or turns to something else.
SameVersion(c) ==
    /\ \A d \in Clients \ {c} : cl'[d] = cl[d]
    /\ \/ cl'[c].pc \notin VersionPCs
       \/ cl[c].pc \in VersionPCs /\ cl'[c].version = cl[c].version

\* The steps of that kind.
LEMMA SameVersionMoves ==
    ASSUME TreeInv, NEW c \in Clients
    PROVE  /\ CallBegin(c) \/ CallPut(c) \/ CallDelete(c) => SameVersion(c)
           /\ StartGC(c) \/ StartGet(c) \/ Lock(c) => SameVersion(c)
           /\ Step(c) => SameVersion(c) \/ BeginVersion(c)
    <1>1. /\ TreeTypeOK /\ cl \in [Clients -> Locals] /\ cl[c] \in Locals
        BY DEF TreeInv, TreeTypeOK
    <1>2. ASSUME NEW L, cl' = [cl EXCEPT ![c] = L], L.pc \notin VersionPCs
          PROVE  SameVersion(c)
        BY <1>1, <1>2 DEF SameVersion
    <1>3. Return(c) => SameVersion(c)
        <2>1. IdleClient.pc \notin VersionPCs
            BY DEF IdleClient, VersionPCs, WriterPCs
        <2> QED
            BY <1>2, <2>1 DEF Return
    <1>4. ASSUME NEW pc, Goto(c, pc), cl[c].pc \in VersionPCs PROVE SameVersion(c)
        BY <1>1, <1>4 DEF Goto, SameVersion, Locals
    <1>5. Fail(c) /\ cl[c].pc \in VersionPCs => SameVersion(c)
        BY <1>3, <1>4 DEF Fail
    <1>6. ASSUME NEW a, NEW k, NEW x, StartBegin(c, a, k, x) PROVE SameVersion(c)
        <2> DEFINE L == [IdleClient EXCEPT
                !.pc = "begin", !.auto = a, !.key = k, !.value = x,
                !.parent = committedVersion]
        <2>1. L.pc \notin VersionPCs
            BY DEF IdleClient, VersionPCs, WriterPCs
        <2>2. cl' = [cl EXCEPT ![c] = L]
            BY <1>6 DEF StartBegin
        <2> HIDE DEF L
        <2> QED
            BY <1>2, <2>1, <2>2
    <1>7. CallBegin(c) \/ CallPut(c) \/ CallDelete(c) => SameVersion(c)
        BY <1>6 DEF CallBegin, CallPut, CallDelete
    <1>8. StartGC(c) => SameVersion(c)
        <2> DEFINE L == [IdleClient EXCEPT !.pc = "gcRoots", !.removed = Removed]
        <2>1. L.pc \notin VersionPCs
            BY DEF IdleClient, VersionPCs, WriterPCs
        <2>2. StartGC(c) => cl' = [cl EXCEPT ![c] = L]
            BY DEF StartGC
        <2> HIDE DEF L
        <2> QED
            BY <1>2, <2>1, <2>2
    <1>9. ASSUME StartGet(c) PROVE SameVersion(c)
        <2>1. PICK v : cl' = [cl EXCEPT ![c] = [IdleClient EXCEPT
                    !.pc = "read", !.version = v, !.root = rootHashes[v]]]
            BY <1>9 DEF StartGet
        <2>2. [IdleClient EXCEPT !.pc = "read", !.version = v,
                                 !.root = rootHashes[v]].pc \notin VersionPCs
            BY DEF IdleClient, VersionPCs, WriterPCs
        <2> QED
            BY <1>2, <2>1, <2>2
    <1>10. ASSUME NEW p, NEW r, NEW n, cl[c].pc \in VersionPCs,
                  \/ cl' = cl
                  \/ cl' = [cl EXCEPT ![c].pc = p, ![c].root = r]
                  \/ cl' = [cl EXCEPT ![c].pc = p, ![c].parent = r]
                  \/ cl' = [cl EXCEPT ![c].pc = p, ![c].root = r, ![c].nodes = n]
                  \/ cl' = [cl EXCEPT ![c].pc = p, ![c].roots = r, ![c].latest = n]
           PROVE  SameVersion(c)
        BY <1>1, <1>10 DEF SameVersion, Locals
    <1>11. Lock(c) => SameVersion(c)
        <2>1. CASE LockUpdate(c)
            <3>1. /\ cl[c].pc \in VersionPCs
                  /\ \/ Fail(c) \/ Goto(c, "setUpdater")
                     \/ \E p, r : cl' = [cl EXCEPT ![c].pc = p, ![c].root = r]
                BY <2>1 DEF LockUpdate, At, VersionPCs
            <3> QED
                BY <1>4, <1>5, <1>10, <3>1
        <2>2. CASE LockCommit(c)
            <3> DEFINE v == cl[c].version
                       u == pendingWrites[v].updater
                       nodes == u.touched /\ u.contents # EmptyTree
            <3>1. cl[c].pc \in VersionPCs
                BY <2>2 DEF LockCommit, At, VersionPCs
            <3>2. \/ Fail(c)
                  \/ cl' = [cl EXCEPT ![c].pc = "emptyRoot",
                                      ![c].parent = pendingWrites[v].parent]
                  \/ cl' = [cl EXCEPT ![c].pc = "copyRoots", ![c].root = u.contents,
                                      ![c].nodes = nodes]
                BY <2>2 DEF LockCommit
            <3> HIDE DEF nodes, u
            <3>3. CASE cl' = [cl EXCEPT ![c].pc = "emptyRoot",
                                        ![c].parent = pendingWrites[v].parent]
                BY <1>10, <3>1, <3>3
            <3>4. CASE cl' = [cl EXCEPT ![c].pc = "copyRoots", ![c].root = u.contents,
                                        ![c].nodes = nodes]
                BY <1>10, <3>1, <3>4
            <3> QED
                BY <1>5, <3>1, <3>2, <3>3, <3>4
        <2> QED
            BY <2>1, <2>2 DEF Lock
    <1>12. ASSUME Step(c), ~ BeginVersion(c) PROVE SameVersion(c)
        <2>1. CASE BeginFails(c) \/ GCRoots(c) \/ ReadSnapshot(c) \/ AbortVersion(c)
            BY <1>3, <2>1 DEF BeginFails, GCRoots, ReadSnapshot, AbortVersion
        <2>2. CASE InitUpdater(c) \/ EmptyCommitPublish(c) \/ EmptyCommitFinish(c)
                   \/ StoreBatch(c) \/ StoreFails(c) \/ SwapRoots(c)
            <3>1. /\ cl[c].pc \in VersionPCs
                  /\ Fail(c) \/ Return(c) \/ \E pc : Goto(c, pc)
                BY <2>2 DEF InitUpdater, EmptyCommitPublish, EmptyCommitFinish,
                    StoreBatch, StoreFails, SwapRoots, At, VersionPCs, WriterPCs
            <3> QED
                BY <1>3, <1>4, <1>5, <3>1
        <2>3. CASE ApplyUpdate(c)
            <3>1. cl[c].pc \in VersionPCs /\ (Fail(c) \/ Return(c) \/ Goto(c, "commit"))
                BY <2>3 DEF ApplyUpdate, At, VersionPCs, WriterPCs
            <3> QED
                BY <1>3, <1>4, <1>5, <3>1
        <2>4. CASE FinishCommit(c)
            <3>1. cl[c].pc \in VersionPCs /\ (Return(c) \/ cl' = cl)
                BY <2>4 DEF FinishCommit, At, VersionPCs, WriterPCs
            <3> QED
                BY <1>3, <1>10, <3>1
        <2>5. CASE GetPendingAgain(c)
            <3>1. /\ cl[c].pc \in VersionPCs
                  /\ \/ cl' = cl
                     \/ cl' = [cl EXCEPT ![c].pc = "apply",
                            ![c].root = pendingWrites[cl[c].version].updater.contents]
                BY <2>5 DEF GetPendingAgain, At, VersionPCs, WriterPCs
            <3> QED
                BY <1>10, <3>1
        <2>6. CASE EmptyCommitRoot(c)
            <3> DEFINE root == IF cl[c].parent > 0 /\ cl[c].parent \in DOMAIN rootHashes
                               THEN rootHashes[cl[c].parent] ELSE EmptyTree
            <3>1. /\ cl[c].pc \in VersionPCs
                  /\ cl' = [cl EXCEPT ![c].pc = "emptyPublish", ![c].root = root]
                BY <2>6 DEF EmptyCommitRoot, At, VersionPCs, WriterPCs
            <3> HIDE DEF root
            <3> QED
                BY <1>10, <3>1
        <2>7. CASE CopyRoots(c)
            <3> DEFINE roots == CopyWithVersion(c)
                       latest == IF cl[c].version > latestVer
                                 THEN cl[c].version ELSE latestVer
            <3>1. /\ cl[c].pc \in VersionPCs
                  /\ cl' = [cl EXCEPT ![c].pc = "store", ![c].roots = roots,
                                      ![c].latest = latest]
                BY <2>7 DEF CopyRoots, At, VersionPCs, WriterPCs
            <3> HIDE DEF roots, latest
            <3> QED
                BY <1>10, <3>1
        <2> QED
            BY <1>12, <2>1, <2>2, <2>3, <2>4, <2>5, <2>6, <2>7 DEF Step
    <1> QED
        BY <1>7, <1>8, <1>9, <1>11, <1>12

\* A step that neither begins nor resolves a version.
LEMMA OwnedSame ==
    ASSUME OwnedInv, ~ panicked', NEW c \in Clients, SameVersion(c),
           DOMAIN pendingWrites' = DOMAIN pendingWrites, UNCHANGED owner
    PROVE  OwnedInv'
    BY OwnedMove DEF OwnedInv, SameVersion

\* A client that owns its version never finds it gone, and keeps it from
\* everybody else.
LEMMA OwnedClientInv ==
    ASSUME ~ SharePending, TreeInv, OwnedInv, NEW c \in Clients,
           Call(c) \/ Lock(c) \/ Step(c)
    PROVE  OwnedInv'
    <1>1. /\ cl \in [Clients -> Locals] /\ cl[c].version \in Version
          /\ cl[c].root \in Contents /\ TreeTypeOK /\ ~ panicked
        BY DEF TreeInv, TreeTypeOK, Locals, OwnedInv
    <1>2. ASSUME UNCHANGED vmVars, UNCHANGED owner, SameVersion(c) PROVE OwnedInv'
        BY <1>1, <1>2, OwnedSame DEF vmVars
    <1>3. ASSUME NEW v \in DOMAIN pendingWrites, MayUse(c, v), NEW L, L.version = v,
                 cl' = [cl EXCEPT ![c] = L], UNCHANGED vmVars, UNCHANGED owner
          PROVE  OwnedInv'
        BY <1>1, <1>3, OwnedMove DEF MayUse, vmVars
    <1>4. CASE CallBegin(c) \/ CallPut(c) \/ CallDelete(c) \/ StartGet(c) \/ Lock(c)
        <2>1. UNCHANGED vmVars /\ UNCHANGED owner
            BY <1>4 DEF CallBegin, CallPut, CallDelete, StartBegin, StartGet, Lock,
                LockUpdate, LockCommit
        <2> QED
            BY <1>2, <1>4, <2>1, SameVersionMoves
    <1>5. CASE StartGC(c)
        <2>1. UNCHANGED <<pendingWrites, panicked, owner>>
            BY <1>5, CollectQuiet DEF StartGC
        <2> QED
            BY <1>1, <1>5, <2>1, SameVersionMoves, OwnedSame
    <1>6. CASE CallUpdate(c)
        <2>1. PICK v \in DOMAIN pendingWrites, k \in Keys, x \in Values \cup {NoValue} :
                /\ MayUse(c, v)
                /\ cl' = [cl EXCEPT ![c] = [IdleClient EXCEPT
                    !.pc = "update", !.version = v, !.key = k, !.value = x]]
            BY <1>6 DEF CallUpdate
        <2>2. [IdleClient EXCEPT !.pc = "update", !.version = v, !.key = k,
                                 !.value = x].version = v
            BY DEF IdleClient
        <2>3. UNCHANGED vmVars /\ UNCHANGED owner
            BY <1>6 DEF CallUpdate
        <2> QED
            BY <1>3, <2>1, <2>2, <2>3
    <1>7. CASE CallCommit(c)
        <2>1. PICK v \in DOMAIN pendingWrites : /\ MayUse(c, v)
                /\ cl' = [cl EXCEPT ![c] = [IdleClient EXCEPT
                                !.pc = "commit", !.version = v]]
            BY <1>7 DEF CallCommit
        <2>2. [IdleClient EXCEPT !.pc = "commit", !.version = v].version = v
            BY DEF IdleClient
        <2>3. UNCHANGED vmVars /\ UNCHANGED owner
            BY <1>7 DEF CallCommit
        <2> QED
            BY <1>3, <2>1, <2>2, <2>3
    <1>8. CASE CallAbort(c)
        <2>1. PICK v \in DOMAIN pendingWrites : /\ MayUse(c, v)
                /\ cl' = [cl EXCEPT ![c] = [IdleClient EXCEPT
                                !.pc = "abort", !.version = v]]
            BY <1>8 DEF CallAbort
        <2>2. [IdleClient EXCEPT !.pc = "abort", !.version = v].version = v
            BY DEF IdleClient
        <2>3. UNCHANGED vmVars /\ UNCHANGED owner
            BY <1>8 DEF CallAbort
        <2> QED
            BY <1>3, <2>1, <2>2, <2>3
    <1>9. CASE BeginVersion(c)
        <2> DEFINE new == latestVersion + 1
        <2>1. /\ Begin(cl[c].parent)
              /\ owner' = [owner EXCEPT ![new] = c]
              /\ \/ Return(c)
                 \/ cl' = [cl EXCEPT ![c].pc = "update", ![c].parent = 0,
                                     ![c].version = new]
            BY <1>9 DEF BeginVersion, NewVersion
        <2>2. /\ DOMAIN pendingWrites' = DOMAIN pendingWrites \cup {new}
              /\ latestVersion' = new
              /\ UNCHANGED panicked
            BY <2>1, BeginQuiet
        <2>3. new \notin DOMAIN pendingWrites
            BY Numbers
        <2>4. new \in Version
            BY <1>9, <2>2, BeginVersionInv DEF TreeInv, VMInv, VMTypeOK
        <2>5. owner'[new] = c /\ \A v \in DOMAIN pendingWrites : owner'[v] = owner[v]
            BY <2>1, <2>3, <2>4 DEF TreeInv, TreeTypeOK, VMTypeOK
        <2> HIDE DEF new
        <2>6. CASE Return(c)
            <3>1. IdleClient.pc \notin VersionPCs
                BY DEF IdleClient, VersionPCs, WriterPCs
            <3> QED
                BY <1>1, <2>2, <2>5, <2>6, <3>1, OwnedMove DEF Return
        <2>7. CASE cl' = [cl EXCEPT ![c].pc = "update", ![c].parent = 0,
                                    ![c].version = new]
            <3>1. /\ cl'[c].version = new
                  /\ \A d \in Clients \ {c} : cl'[d] = cl[d]
                BY <1>1, <2>7 DEF Locals
            <3> QED
                BY <1>1, <2>2, <2>5, <3>1, OwnedMove
        <2> QED
            BY <2>1, <2>6, <2>7
    <1>10. cl[c].pc \in VersionPCs => cl[c].version \in DOMAIN pendingWrites
        BY DEF OwnedInv
    <1>11. ASSUME SameVersion(c), UNCHANGED owner, ~ panicked',
                  cl[c].pc \in VersionPCs, cl'[c].pc \notin VersionPCs,
                  DOMAIN pendingWrites' = DOMAIN pendingWrites \ {cl[c].version}
           PROVE  OwnedInv'
        BY <1>11, OwnedMove DEF SameVersion
    <1>12. Return(c) => cl'[c].pc \notin VersionPCs
        BY <1>1 DEF Return, IdleClient, VersionPCs, WriterPCs
    <1>13. Step(c) /\ ~ BeginVersion(c) => SameVersion(c)
        BY SameVersionMoves
    <1>14. CASE AbortVersion(c)
        <2>1. Abort(cl[c].version) /\ Return(c) /\ UNCHANGED owner
              /\ cl[c].pc \in VersionPCs
            BY <1>10, <1>14 DEF AbortVersion, At, VersionPCs
        <2>2. DOMAIN pendingWrites' = DOMAIN pendingWrites \ {cl[c].version}
              /\ UNCHANGED panicked
            BY <2>1, AbortQuiet
        <2>3. SameVersion(c)
            BY <1>12, <1>13, <1>14, <2>1 DEF Step, AbortVersion, At, BeginVersion
        <2> QED
            BY <1>1, <1>11, <1>12, <2>1, <2>2, <2>3
    <1>15. CASE FinishCommit(c) \/ EmptyCommitFinish(c)
        <2>1. /\ cl[c].pc \in VersionPCs /\ ~ BeginVersion(c)
              /\ UNCHANGED owner
            BY <1>15 DEF FinishCommit, EmptyCommitFinish, At, VersionPCs, WriterPCs,
                BeginVersion
        <2>2. Commit(cl[c].version, cl[c].root) /\ Return(c)
            BY <1>10, <1>15, <2>1 DEF FinishCommit, EmptyCommitFinish
        <2>3. DOMAIN pendingWrites' = DOMAIN pendingWrites \ {cl[c].version}
              /\ UNCHANGED panicked
            BY <1>1, <2>2, CommitFrame
        <2> QED
            BY <1>1, <1>11, <1>12, <1>13, <1>15, <2>1, <2>2, <2>3 DEF Step
    <1>16. CASE GetPendingAgain(c)
        <2>1. cl[c].pc = "getPending" /\ UNCHANGED owner
            BY <1>16 DEF GetPendingAgain, At
        <2>2. /\ cl[c].version \in DOMAIN pendingWrites
              /\ pendingWrites[cl[c].version].updater # NoUpdater
            BY <1>10, <2>1
            DEF TreeInv, ClientInv, UpdaterCurrent, VersionPCs, WriterPCs
        <2>3. UNCHANGED vmVars
            BY <1>16, <2>2 DEF GetPendingAgain
        <2> QED
            BY <1>2, <1>13, <1>16, <2>1, <2>3 DEF Step, BeginVersion, At
    <1>17. ASSUME NEW u, SetPendingUpdater(cl[c].version, u)
           PROVE  DOMAIN pendingWrites' = DOMAIN pendingWrites /\ UNCHANGED panicked
        BY <1>17 DEF SetPendingUpdater
    <1>18. CASE InitUpdater(c) \/ ApplyUpdate(c)
        <2>1. /\ UNCHANGED owner /\ ~ BeginVersion(c)
              /\ UNCHANGED vmVars \/ \E u : SetPendingUpdater(cl[c].version, u)
            BY <1>18 DEF InitUpdater, ApplyUpdate, At, BeginVersion
        <2>2. DOMAIN pendingWrites' = DOMAIN pendingWrites /\ UNCHANGED panicked
            BY <1>17, <2>1 DEF vmVars
        <2> QED
            BY <1>1, <1>13, <1>18, <2>1, <2>2, OwnedSame DEF Step
    <1>19. CASE \/ BeginFails(c) \/ EmptyCommitRoot(c) \/ EmptyCommitPublish(c)
                \/ CopyRoots(c) \/ StoreBatch(c) \/ StoreFails(c) \/ SwapRoots(c)
                \/ GCRoots(c) \/ ReadSnapshot(c)
        <2>1. UNCHANGED vmVars /\ UNCHANGED owner
            BY <1>19 DEF BeginFails, EmptyCommitRoot, EmptyCommitPublish, CopyRoots,
                StoreBatch, StoreFails, SwapRoots, GCRoots, ReadSnapshot
        <2>2. Step(c)
            BY <1>19 DEF Step
        <2> QED
            BY <1>2, <1>9, <1>13, <2>1, <2>2
    <1> QED
        BY <1>4, <1>5, <1>6, <1>7, <1>8, <1>9, <1>14, <1>15, <1>16, <1>18, <1>19
        DEF Call, Step

\* Every step preserves OwnedInv.
LEMMA OwnedStepInv ==
    ASSUME ~ SharePending, TreeInv, OwnedInv, [TreeNext]_treeVars
    PROVE  OwnedInv'
    <1>1. ASSUME NEW c \in Clients, Call(c) \/ Lock(c) \/ Step(c) PROVE OwnedInv'
        BY <1>1, OwnedClientInv
    <1>2. CASE SetVersionRetentionPolicy \/ UNCHANGED treeVars
        <2>1. UNCHANGED <<panicked, pendingWrites, cl, owner>>
            BY <1>2 DEF SetVersionRetentionPolicy, SetRetentionPolicy, treeVars, vmVars
        <2> QED
            BY <2>1 DEF OwnedInv
    <1>3. CASE Restart
        BY <1>3 DEF Restart, OwnedInv, IdleClient, VersionPCs, WriterPCs
    <1> QED
        BY <1>1, <1>2, <1>3 DEF TreeNext

\* A new tree.
LEMMA OwnedInitInv == TreeInit => OwnedInv
    BY DEF TreeInit, VMInit, OwnedInv, IdleClient, VersionPCs, WriterPCs

\* While every client uses only the versions it began, a version in use stays
\* pending until its user commits or aborts it.
THEOREM TreeOwnedInvariance ==
    ASSUME ~ SharePending
    PROVE  TreeSpec => []OwnedInv
    <1>1. TreeInv /\ OwnedInv /\ [TreeNext]_treeVars => OwnedInv'
        BY OwnedStepInv
    <1> QED
        BY TreeInvariance, OwnedInitInv, <1>1, PTL DEF TreeSpec

\* So the second lookup of PutVersioned and the last step of CommitVersion,
\* which panics if the version is not pending any more, always find it.
THEOREM TreeNeverPanics ==
    ASSUME ~ SharePending
    PROVE  TreeSpec => []NeverPanics
    <1>1. OwnedInv => NeverPanics
        BY DEF OwnedInv, NeverPanics
    <1> QED
        BY TreeOwnedInvariance, <1>1, PTL
=============================================================================
