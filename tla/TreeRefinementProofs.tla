------------------------ MODULE TreeRefinementProofs ------------------------
(***************************************************************************)
(* The tree implements the versioned store (VersionedStore), for any       *)
(* number of clients, keys, values and versions, while every client uses   *)
(* only the versions it began and commits only versions that an update     *)
(* succeeded in.  The proof is a step simulation: each step of the tree is *)
(* one step of the store or changes nothing the store can see.             *)
(***************************************************************************)
EXTENDS TreeProofs

\* The store's state in terms of the tree's.
AStore == [v \in DOMAIN dbRoots \cup {InitialVersion} |->
              IF v = InitialVersion THEN EmptyTree ELSE dbRoots[v]]

\* The contents of a version under construction: a version without an updater
\* stands for its parent's.
Built(v) ==
    IF pendingWrites[v].updater = NoUpdater
    THEN NodeContents(pendingWrites[v].parent)
    ELSE pendingWrites[v].updater.contents

\* The pending versions whose batch is not in storage yet.
ABuilding == [v \in DOMAIN pendingWrites \ DOMAIN dbRoots |-> Built(v)]

\* The invariants of the disciplined tree.
RefInv == TreeInv /\ DurableInv /\ OwnedInv

\* The store's variables are these.
LEMMA StoreVars ==
    VS!storeVars = <<AStore, DOMAIN rootHashes, ABuilding>>
    BY DEF VS!storeVars, AStore, ABuilding, Built

\* The initial states correspond.
LEMMA RefInit == TreeInit => VS!Init
    <1> SUFFICES ASSUME TreeInit PROVE VS!Init
        OBVIOUS
    <1>1. AStore = [v \in {0} |-> EmptyTree]
        BY DEF TreeInit, AStore, InitialVersion
    <1>2. DOMAIN rootHashes = {0}
        BY DEF TreeInit, InitialVersion
    <1>3. ABuilding = [v \in {} |-> EmptyTree]
        BY DEF TreeInit, VMInit, ABuilding
    <1> QED
        BY <1>1, <1>2, <1>3
        DEF VS!Init, VS!EmptyTree, EmptyTree, AStore, ABuilding, Built

\* A step that changes nothing the store can see.
LEMMA RefStutter ==
    ASSUME AStore' = AStore, DOMAIN rootHashes' = DOMAIN rootHashes,
           ABuilding' = ABuilding
    PROVE  UNCHANGED VS!storeVars
    BY StoreVars DEF VS!storeVars, AStore, ABuilding, Built

\* The store's view of the maps, pointwise.
LEMMA Views ==
    /\ DOMAIN AStore = DOMAIN dbRoots \cup {0}
    /\ AStore[0] = EmptyTree
    /\ \A v \in DOMAIN dbRoots \ {0} : AStore[v] = dbRoots[v]
    /\ DOMAIN ABuilding = DOMAIN pendingWrites \ DOMAIN dbRoots
    /\ \A v \in DOMAIN pendingWrites \ DOMAIN dbRoots : ABuilding[v] = Built(v)
    BY DEF AStore, ABuilding, InitialVersion

\* Steps that touch neither the pending versions nor storage.
LEMMA SameViews ==
    ASSUME UNCHANGED <<pendingWrites, dbVars>>
    PROVE  AStore' = AStore /\ ABuilding' = ABuilding
    BY DEF AStore, ABuilding, Built, NodeContents, dbVars

\* A committed parent is durable, and its nodes are its contents.
LEMMA ParentContents ==
    ASSUME RefInv, NEW p, IsCommitted(p)
    PROVE  p \in DOMAIN AStore /\ AStore[p] = NodeContents(p)
    <1>1. CASE p = 0
        <2>1. 0 \notin DOMAIN dbNodes
            BY DEF RefInv, TreeInv, DurableNumbers
        <2> QED
            BY <1>1, <2>1, Views DEF NodeContents
    <1>2. CASE p # 0
        <2>1. p \in CommittedVersions
            BY <1>2 DEF IsCommitted, CommittedVersions, InitialVersion
        <2>2. p \in DOMAIN rootHashes
            BY <2>1 DEF RefInv, TreeInv, CommittedIsReadable
        <2>3. p \in DOMAIN dbRoots
            BY <1>2, <2>2 DEF RefInv, DurableInv, RootsInStore, InStore, InitialVersion
        <2>4. NodeContents(p) = dbRoots[p]
            BY <2>3 DEF RefInv, DurableInv, NodesMatch
        <2> QED
            BY <1>2, <2>3, <2>4, Views
    <1> QED
        BY <1>1, <1>2

\* Two ways to say what the versions under construction are after a step.
LEMMA NextBuilding ==
    ASSUME NEW f, f = [v \in DOMAIN f |-> f[v]],
           DOMAIN pendingWrites' \ DOMAIN dbRoots' = DOMAIN f,
           \A v \in DOMAIN f : Built(v)' = f[v]
    PROVE  ABuilding' = f
    BY DEF ABuilding

\* A version whose pending record and whose parent's nodes a step leaves alone
\* stands for the same contents after it.
LEMMA BuiltKept ==
    ASSUME NEW v, pendingWrites'[v] = pendingWrites[v], UNCHANGED dbNodes
    PROVE  Built(v)' = Built(v)
    BY DEF Built, NodeContents

\* BeginVersion: a copy of the durable parent.
LEMMA RefBegin ==
    ASSUME RefInv, TreeInv', NEW c \in Clients, BeginVersion(c)
    PROVE  VS!Next
    <1>1. PICK new, p : new = latestVersion + 1 /\ p = cl[c].parent
        OBVIOUS
    <1>2. /\ Begin(p) /\ UNCHANGED <<rootHashes, dbRoots, dbNodes>>
        BY <1>1 DEF BeginVersion, memVars, dbVars
    <1>3. new \notin DOMAIN pendingWrites /\ new \notin DOMAIN dbRoots /\ new # 0
        BY <1>1, Numbers DEF RefInv, TreeInv, DurableNumbers
    <1>4. /\ DOMAIN pendingWrites' = DOMAIN pendingWrites \cup {new}
          /\ pendingWrites'[new] = [parent |-> p, updater |-> NoUpdater,
                                    startTime |-> clock]
          /\ \A v \in DOMAIN pendingWrites : pendingWrites'[v] = pendingWrites[v]
          /\ new = latestVersion'
        BY <1>1, <1>2, BeginQuiet DEF RefInv, VMQuiet
    <1>5. p \in DOMAIN AStore /\ AStore[p] = NodeContents(p)
        BY <1>2, ParentContents DEF Begin, CanBegin
    <1>6. p \in Version /\ new \in Version
        BY <1>1, <1>4 DEF RefInv, TreeInv, TreeTypeOK, Locals, VMTypeOK
    <1>7. AStore' = AStore
        BY <1>2 DEF AStore
    <1>8. ABuilding' = VS!Extend(ABuilding, new, AStore[p])
        <2> DEFINE f == VS!Extend(ABuilding, new, AStore[p])
        <2>1. /\ f = [v \in DOMAIN f |-> f[v]]
              /\ DOMAIN f = (DOMAIN pendingWrites \ DOMAIN dbRoots) \cup {new}
              /\ f[new] = AStore[p]
              /\ \A v \in DOMAIN f \ {new} : f[v] = Built(v)
            BY Views DEF VS!Extend
        <2>2. PICK g : g = f
            OBVIOUS
        <2>3. ASSUME NEW v \in DOMAIN g PROVE Built(v)' = g[v]
            <3>1. CASE v = new
                BY <1>2, <1>4, <1>5, <2>1, <2>2, <3>1 DEF Built, NodeContents
            <3>2. CASE v # new
                BY <1>2, <1>4, <2>1, <2>2, <3>2, BuiltKept
            <3> QED
                BY <3>1, <3>2
        <2>4. ABuilding' = g
            BY <1>2, <1>3, <1>4, <2>1, <2>2, <2>3, NextBuilding
        <2> QED
            BY <2>2, <2>4
    <1>9. VS!BeginVersion(new, p)
        BY <1>2, <1>3, <1>5, <1>7, <1>8, Views
        DEF VS!BeginVersion, AStore, ABuilding, Built
    <1> QED
        BY <1>6, <1>9 DEF VS!Next

\* Anything that leaves the pending versions, storage and rootHashes alone.
LEMMA RefQuiet ==
    ASSUME UNCHANGED <<pendingWrites, rootHashes, dbVars>>
    PROVE  UNCHANGED VS!storeVars
    BY SameViews, RefStutter

\* A writer that has not written its batch works on a version the store is
\* building.
LEMMA WriterBuilds ==
    ASSUME RefInv, NEW c \in Clients,
           cl[c].pc \in {"setUpdater", "apply", "store"}
    PROVE  /\ cl[c].version \in DOMAIN ABuilding
           /\ cl[c].version \in Version
           /\ writeMu = c
    <1>1. writeMu = c
        BY DEF RefInv, TreeInv, MutualExclusion, WriterPCs
    <1>2. cl[c].version \in DOMAIN pendingWrites
        BY DEF RefInv, OwnedInv, VersionPCs, WriterPCs
    <1>3. cl[c].version \notin DOMAIN dbRoots
        BY <1>1, <1>2, WriterAlone DEF RefInv
    <1>4. cl[c].version \in Version
        BY DEF RefInv, TreeInv, TreeTypeOK, Locals
    <1> QED
        BY <1>1, <1>2, <1>3, <1>4, Views

\* A new updater starts from the contents its version already stands for.
LEMMA RefInitUpdater ==
    ASSUME RefInv, NEW c \in Clients, InitUpdater(c)
    PROVE  UNCHANGED VS!storeVars
    <1>1. PICK v : v = cl[c].version
        OBVIOUS
    <1>2. cl[c].pc = "setUpdater" /\ UNCHANGED <<rootHashes, dbRoots, dbNodes>>
        BY DEF InitUpdater, At, memVars, dbVars
    <1>3. v \in DOMAIN ABuilding /\ v \in Version
        BY <1>1, <1>2, WriterBuilds
    <1>4. v \in DOMAIN pendingWrites /\ pendingWrites[v].updater = NoUpdater
        BY <1>1, <1>2, <1>3, Views DEF RefInv, TreeInv, ClientInv, UpdaterCurrent
    <1>5. SetPendingUpdater(v, NewTreeUpdater(v))
        BY <1>1, <1>4 DEF InitUpdater
    <1>6. PICK u : u = NewTreeUpdater(v)
        OBVIOUS
    <1>7. u \in Updater /\ u.contents = NodeContents(pendingWrites[v].parent)
        <2>1. NodeContents(pendingWrites[v].parent) \in Contents
            BY DEF RefInv, TreeInv, TreeTypeOK, NodeContents, EmptyTree, Contents
        <2> QED
            BY <1>6, <2>1 DEF NewTreeUpdater, Updater
    <1>8. /\ DOMAIN pendingWrites' = DOMAIN pendingWrites
          /\ pendingWrites'[v].updater = u
          /\ \A w \in DOMAIN pendingWrites \ {v} : pendingWrites'[w] = pendingWrites[w]
        BY <1>3, <1>5, <1>6, <1>7, UpdaterFrame DEF RefInv
    <1>9. u # NoUpdater
        BY <1>7, TreeUpdaters, NoUpdaterAssumption
    <1>10. PICK g : g = ABuilding
        OBVIOUS
    <1>11. ASSUME NEW w \in DOMAIN g PROVE Built(w)' = g[w]
        <2>1. CASE w = v
            BY <1>4, <1>7, <1>8, <1>9, <1>10, <2>1, Views DEF Built
        <2>2. CASE w # v
            BY <1>2, <1>8, <1>10, <2>2, BuiltKept, Views
        <2> QED
            BY <2>1, <2>2
    <1>12. g = [w \in DOMAIN g |-> g[w]]
        BY <1>10 DEF ABuilding
    <1>13. ABuilding' = g
        BY <1>2, <1>8, <1>10, <1>11, <1>12, NextBuilding, Views
    <1>14. AStore' = AStore
        BY <1>2 DEF AStore
    <1> QED
        BY <1>2, <1>10, <1>13, <1>14, RefStutter

\* An update that succeeds writes one key; one that fails changes nothing.
LEMMA RefApply ==
    ASSUME RefInv, NEW c \in Clients, ApplyUpdate(c)
    PROVE  VS!Next \/ UNCHANGED VS!storeVars
    <1>1. PICK v, k, x : v = cl[c].version /\ k = cl[c].key /\ x = cl[c].value
        OBVIOUS
    <1>2. cl[c].pc = "apply" /\ UNCHANGED <<rootHashes, dbRoots, dbNodes>>
        BY DEF ApplyUpdate, At, memVars, dbVars
    <1>3. v \in DOMAIN ABuilding /\ v \in Version
        BY <1>1, <1>2, WriterBuilds
    <1>4. /\ v \in DOMAIN pendingWrites
          /\ pendingWrites[v].updater # NoUpdater
          /\ pendingWrites[v].updater.contents = cl[c].root
        BY <1>1, <1>2, <1>3, Views DEF RefInv, TreeInv, ClientInv, UpdaterCurrent
    <1>5. /\ cl[c].root \in Contents
          /\ x \in Values \cup {NoValue}
          /\ k \in Keys
        BY <1>1, <1>2 DEF RefInv, TreeInv, TreeTypeOK, Locals, ClientInv, HasKey
    <1>6. CASE UNCHANGED vmVars
        BY <1>2, <1>6, RefQuiet DEF vmVars, dbVars
    <1>7. PICK u : u = [contents |-> [cl[c].root EXCEPT ![k] = x], touched |-> TRUE]
        OBVIOUS
    <1>8. CASE SetPendingUpdater(v, u)
        <2>1. u \in Updater /\ u.contents = [cl[c].root EXCEPT ![k] = x]
            BY <1>5, <1>7 DEF Updater, Contents
        <2>2. /\ DOMAIN pendingWrites' = DOMAIN pendingWrites
              /\ pendingWrites'[v].updater = u
              /\ \A w \in DOMAIN pendingWrites \ {v} :
                    pendingWrites'[w] = pendingWrites[w]
            BY <1>3, <1>8, <2>1, UpdaterFrame DEF RefInv
        <2>3. u # NoUpdater
            BY <2>1, TreeUpdaters, NoUpdaterAssumption
        <2>4. ABuilding[v] = cl[c].root
            BY <1>3, <1>4, Views DEF Built
        <2>5. PICK g : g = [ABuilding EXCEPT ![v][k] = x]
            OBVIOUS
        <2>6. /\ g = [w \in DOMAIN g |-> g[w]]
              /\ DOMAIN g = DOMAIN ABuilding
              /\ g[v] = [cl[c].root EXCEPT ![k] = x]
              /\ \A w \in DOMAIN g \ {v} : g[w] = ABuilding[w]
            <3>1. g = [w \in DOMAIN ABuilding |->
                        IF w = v THEN [ABuilding[v] EXCEPT ![k] = x] ELSE ABuilding[w]]
                BY <2>5
            <3> QED
                BY <1>3, <2>4, <3>1
        <2>7. ASSUME NEW w \in DOMAIN g PROVE Built(w)' = g[w]
            <3>1. CASE w = v
                BY <2>1, <2>2, <2>3, <2>6, <3>1 DEF Built
            <3>2. CASE w # v
                BY <1>2, <2>2, <2>6, <3>2, BuiltKept, Views
            <3> QED
                BY <3>1, <3>2
        <2>8. ABuilding' = g
            BY <1>2, <2>2, <2>6, <2>7, NextBuilding, Views
        <2>9. AStore' = AStore
            BY <1>2 DEF AStore
        <2>10. VS!Write(v, k, x)
            BY <1>2, <1>3, <2>5, <2>8, <2>9 DEF VS!Write, AStore, ABuilding, Built
        <2> QED
            BY <1>3, <1>5, <2>10 DEF VS!Next
    <1> QED
        BY <1>1, <1>4, <1>6, <1>7, <1>8 DEF ApplyUpdate

\* The batch makes the version durable, whole, with the contents built so far.
LEMMA RefStore ==
    ASSUME RefInv, NEW c \in Clients, StoreBatch(c)
    PROVE  VS!Next
    <1>1. PICK v, h : v = cl[c].version /\ h = cl[c].root
        OBVIOUS
    <1>2. /\ cl[c].pc = "store"
          /\ UNCHANGED <<rootHashes, pendingWrites>>
          /\ dbRoots' = MapPut(dbRoots, v, h)
          /\ dbNodes' = dbNodes \/ dbNodes' = MapPut(dbNodes, v, h)
        BY <1>1 DEF StoreBatch, WriteBatch, At, memVars, vmVars
    <1>3. v \in DOMAIN ABuilding /\ v \in Version
        BY <1>1, <1>2, WriterBuilds
    <1>4. /\ v \in DOMAIN pendingWrites /\ v \notin DOMAIN dbRoots /\ v # 0
          /\ v \notin DOMAIN versions
        BY <1>3, Views, Numbers DEF RefInv, TreeInv, VMInv, VersionNumbersDisjoint
    <1>5. ABuilding[v] = h
        BY <1>1, <1>2, <1>3, <1>4, Views
        DEF RefInv, TreeInv, ClientInv, UpdaterCurrent, Built
    <1>6. AStore' = VS!Extend(AStore, v, ABuilding[v])
        <2>1. /\ DOMAIN dbRoots' = DOMAIN dbRoots \cup {v}
              /\ dbRoots'[v] = h
              /\ \A w \in DOMAIN dbRoots \ {v} : dbRoots'[w] = dbRoots[w]
            BY <1>2 DEF MapPut
        <2> QED
            BY <1>4, <1>5, <2>1 DEF AStore, VS!Extend, InitialVersion
    <1>7. ABuilding' = VS!Without(ABuilding, {v})
        <2>1. PICK g : g = VS!Without(ABuilding, {v})
            OBVIOUS
        <2>2. /\ g = [w \in DOMAIN g |-> g[w]]
              /\ DOMAIN g = DOMAIN ABuilding \ {v}
              /\ \A w \in DOMAIN g : g[w] = ABuilding[w]
            BY <2>1 DEF VS!Without
        <2>3. DOMAIN dbRoots' = DOMAIN dbRoots \cup {v}
            BY <1>2 DEF MapPut
        <2>4. ASSUME NEW w \in DOMAIN g PROVE Built(w)' = g[w]
            <3>1. w \in DOMAIN pendingWrites /\ g[w] = Built(w)
                BY <2>2, Views
            <3>2. PICK p : p = pendingWrites[w].parent
                OBVIOUS
            <3>3. p # v
                BY <1>4, <3>1, <3>2 DEF RefInv, TreeInv, VMInv, ParentsNotPending
            <3>4. NodeContents(p)' = NodeContents(p)
                BY <1>2, <3>3 DEF NodeContents, MapPut
            <3> QED
                BY <1>2, <3>1, <3>2, <3>4 DEF Built
        <2>5. ABuilding' = g
            BY <1>2, <2>2, <2>3, <2>4, NextBuilding, Views
        <2> QED
            BY <2>1, <2>5
    <1>8. VS!CommitVersion(v)
        <2>1. v \notin DOMAIN AStore
            BY <1>4, Views
        <2> QED
            BY <1>2, <1>3, <1>6, <1>7, <2>1
            DEF VS!CommitVersion, AStore, ABuilding, Built
    <1> QED
        BY <1>3, <1>8 DEF VS!Next

\* The swapped-in copy shows readers durable versions, and hides none.
LEMMA RefSwap ==
    ASSUME RefInv, NEW c \in Clients, SwapRoots(c)
    PROVE  VS!Next
    <1>1. PICK S : S = DOMAIN cl[c].roots
        OBVIOUS
    <1>2. /\ cl[c].pc = "swapRoots"
          /\ UNCHANGED <<pendingWrites, dbVars>>
          /\ DOMAIN rootHashes' = S
        BY <1>1 DEF SwapRoots, At, vmVars
    <1>3. DOMAIN rootHashes \subseteq S
        BY <1>1, <1>2 DEF RefInv, TreeInv, ClientInv, CopyComplete
    <1>4. S \subseteq DOMAIN AStore
        BY <1>1, <1>2, Views
        DEF RefInv, DurableInv, ClientDurable, InStore, InitialVersion
    <1>5. S \in SUBSET Version
        BY <1>1 DEF RefInv, TreeInv, TreeTypeOK, Locals
    <1>6. VS!Publish(S)
        BY <1>2, <1>3, <1>4, SameViews DEF VS!Publish, AStore, ABuilding, Built
    <1> QED
        BY <1>5, <1>6 DEF VS!Next

\* Garbage collection hides versions older than the committed one, which
\* readers can open.
LEMMA RefGC ==
    ASSUME RefInv, NEW c \in Clients, GCRoots(c)
    PROVE  VS!Next
    <1>1. PICK S : S = cl[c].removed
        OBVIOUS
    <1>2. /\ UNCHANGED <<pendingWrites, dbVars>>
          /\ DOMAIN rootHashes' = DOMAIN rootHashes \ S
        BY <1>1 DEF GCRoots, MapDelete, vmVars
    <1>3. S \in SUBSET Version
        BY <1>1 DEF RefInv, TreeInv, TreeTypeOK, Locals
    <1>4. VS!Newest(DOMAIN rootHashes) \notin S
        <2>1. SUFFICES ASSUME S # {} PROVE VS!Newest(DOMAIN rootHashes) \notin S
            OBVIOUS
        <2>2. \A v \in S : v < committedVersion /\ v \in Nat
            BY <1>1, <1>3, MaxVersionAssumption
            DEF RefInv, TreeInv, ClientInv, RemovedGone, Version
        <2>3. committedVersion \in Nat /\ committedVersion # 0
            BY <2>1, <2>2, Numbers DEF RefInv
        <2>4. committedVersion \in DOMAIN rootHashes
            BY <2>3 DEF RefInv, TreeInv, VMInv, CommittedVersionIsNewest,
                IsCommitted, CommittedVersions, CommittedIsReadable, InitialVersion
        <2>5. DOMAIN rootHashes \subseteq 0 .. MaxVersion
            BY DEF RefInv, TreeInv, TreeTypeOK, Version
        <2>6. IsFiniteSet(DOMAIN rootHashes) /\ DOMAIN rootHashes \in SUBSET Nat
            <3>1. IsFiniteSet(0 .. MaxVersion)
                BY MaxVersionAssumption, FS_Interval
            <3>2. IsFiniteSet(DOMAIN rootHashes)
                BY <2>5, <3>1, FS_Subset
            <3>3. DOMAIN rootHashes \in SUBSET Nat
                BY <2>5, MaxVersionAssumption
            <3> QED
                BY <3>2, <3>3
        <2>7. \E v \in DOMAIN rootHashes : \A w \in DOMAIN rootHashes : w <= v
            BY <2>4, <2>6, LargestExists
        <2>8. committedVersion <= VS!Newest(DOMAIN rootHashes)
              /\ VS!Newest(DOMAIN rootHashes) \in Nat
            BY <2>4, <2>6, <2>7 DEF VS!Newest
        <2> QED
            BY <2>2, <2>3, <2>8
    <1>5. VS!Hide(S)
        BY <1>2, <1>4, SameViews DEF VS!Hide, AStore, ABuilding, Built
    <1> QED
        BY <1>3, <1>5 DEF VS!Next

\* A step that drops one version from the pending ones.
LEMMA RefDrop ==
    ASSUME NEW v, UNCHANGED dbVars,
           DOMAIN pendingWrites' = DOMAIN pendingWrites \ {v},
           \A w \in DOMAIN pendingWrites \ {v} : pendingWrites'[w] = pendingWrites[w]
    PROVE  ABuilding' = VS!Without(ABuilding, {v}) /\ AStore' = AStore
    <1>1. PICK g : g = VS!Without(ABuilding, {v})
        OBVIOUS
    <1>2. /\ g = [w \in DOMAIN g |-> g[w]]
          /\ DOMAIN g = DOMAIN ABuilding \ {v}
          /\ \A w \in DOMAIN g : g[w] = ABuilding[w]
        BY <1>1 DEF VS!Without
    <1>3. ASSUME NEW w \in DOMAIN g PROVE Built(w)' = g[w]
        BY <1>2, BuiltKept, Views DEF dbVars
    <1>4. ABuilding' = g
        BY <1>2, <1>3, NextBuilding, Views DEF dbVars
    <1>5. AStore' = AStore
        BY DEF AStore, dbVars
    <1> QED
        BY <1>1, <1>4, <1>5

\* An abort drops the version being built.
LEMMA RefAbort ==
    ASSUME RefInv, NEW c \in Clients, AbortVersion(c)
    PROVE  VS!Next
    <1>1. PICK v : v = cl[c].version
        OBVIOUS
    <1>2. /\ cl[c].pc = "abort" /\ UNCHANGED <<rootHashes, dbVars>>
        BY DEF AbortVersion, At, memVars
    <1>3. v \in DOMAIN pendingWrites /\ v \in Version
        BY <1>1, <1>2 DEF RefInv, TreeInv, TreeTypeOK, Locals, OwnedInv, VersionPCs
    <1>4. Abort(v)
        BY <1>1, <1>3 DEF AbortVersion
    <1>5. /\ DOMAIN pendingWrites' = DOMAIN pendingWrites \ {v}
          /\ \A w \in DOMAIN pendingWrites \ {v} : pendingWrites'[w] = pendingWrites[w]
        BY <1>4 DEF Abort, MapDelete
    <1>6. VS!AbortVersion(v)
        BY <1>2, <1>5, RefDrop DEF VS!AbortVersion, AStore, ABuilding, Built
    <1> QED
        BY <1>3, <1>6 DEF VS!Next

\* The version manager is told of a version that is durable already.
LEMMA RefFinish ==
    ASSUME RefInv, NEW c \in Clients, FinishCommit(c)
    PROVE  UNCHANGED VS!storeVars
    <1>1. PICK v : v = cl[c].version
        OBVIOUS
    <1>2. /\ cl[c].pc = "finish" /\ UNCHANGED <<rootHashes, dbVars>>
        BY DEF FinishCommit, At, memVars
    <1>3. v \in DOMAIN pendingWrites /\ v \in DOMAIN dbRoots
        BY <1>1, <1>2 DEF RefInv, OwnedInv, VersionPCs, WriterPCs, DurableInv,
            ClientDurable
    <1>4. Commit(v, cl[c].root)
        BY <1>1, <1>3 DEF FinishCommit
    <1>5. /\ DOMAIN pendingWrites' = DOMAIN pendingWrites \ {v}
          /\ \A w \in DOMAIN pendingWrites \ {v} : pendingWrites'[w] = pendingWrites[w]
        BY <1>4 DEF Commit, MapDelete
    <1>6. ABuilding' = VS!Without(ABuilding, {v}) /\ AStore' = AStore
        BY <1>2, <1>5, RefDrop
    <1>7. VS!Without(ABuilding, {v}) = ABuilding
        BY <1>3 DEF VS!Without, ABuilding
    <1> QED
        BY <1>2, <1>6, <1>7, RefStutter

\* A restart loses what was pending and shows the newest durable version.
LEMMA RefRestart ==
    ASSUME RefInv, Restart
    PROVE  VS!Next
    <1>1. UNCHANGED dbVars /\ AStore' = AStore
        BY DEF Restart, dbVars, AStore
    <1>2. ABuilding' = [v \in {} |-> VS!EmptyTree]
        BY DEF Restart, ABuilding
    <1>3. /\ DOMAIN dbRoots = {} => DOMAIN rootHashes' = {0}
          /\ DOMAIN dbRoots # {} => DOMAIN rootHashes' = DOMAIN dbRoots
        BY DEF Restart, InitialVersion
    <1>4. DOMAIN rootHashes' \in SUBSET DOMAIN AStore
        BY <1>3, Views
    <1>5. VS!Newest(DOMAIN AStore) = RecoveredLatest
        BY Views DEF VS!Newest, RecoveredLatest, Largest, InitialVersion
    <1>6. RecoveredLatest \in DOMAIN rootHashes'
        <2>1. /\ RecoveredLatest \in DOMAIN dbRoots \cup {0}
              /\ \A v \in DOMAIN dbRoots \cup {0} : v <= RecoveredLatest
            BY RecoveredIsNewest DEF RefInv, TreeInv
        <2>2. \A v \in DOMAIN dbRoots : v \in Nat /\ v # 0
            BY Numbers DEF RefInv, TreeInv, DurableNumbers
        <2> QED
            BY <1>3, <2>1, <2>2
    <1>7. VS!Recover
        BY <1>1, <1>2, <1>4, <1>5, <1>6
        DEF VS!Recover, AStore, ABuilding, Built
    <1> QED
        BY <1>7 DEF VS!Next

-----------------------------------------------------------------------------
(* Every step together.                                                    *)

\* The calls, the lock steps and the other steps of a client that change
\* neither storage, nor a pending version, nor what readers can open.
LEMMA RefOther ==
    ASSUME RefInv, NEW c \in Clients,
           \/ Call(c) \/ Lock(c)
           \/ BeginFails(c) \/ GetPendingAgain(c) \/ CopyRoots(c) \/ StoreFails(c)
           \/ ReadSnapshot(c)
    PROVE  UNCHANGED VS!storeVars
    <1>1. CASE Call(c)
        <2>1. CASE CallBegin(c) \/ CallPut(c) \/ CallDelete(c)
            <3>1. UNCHANGED <<vmVars, memVars, dbVars>>
                BY <2>1 DEF CallBegin, CallPut, CallDelete, StartBegin
            <3> QED
                BY <3>1, RefQuiet DEF vmVars, memVars
        <2>2. CASE CallUpdate(c) \/ CallCommit(c) \/ CallAbort(c) \/ StartGet(c)
            <3>1. UNCHANGED <<vmVars, memVars, dbVars>>
                BY <2>2 DEF CallUpdate, CallCommit, CallAbort, StartGet
            <3> QED
                BY <3>1, RefQuiet DEF vmVars, memVars
        <2>3. CASE StartGC(c)
            <3>1. UNCHANGED <<pendingWrites, memVars, dbVars>>
                BY <2>3 DEF StartGC, CollectGarbage
            <3> QED
                BY <3>1, RefQuiet DEF memVars
        <2> QED
            BY <1>1, <2>1, <2>2, <2>3 DEF Call
    <1>2. CASE Lock(c) \/ BeginFails(c) \/ CopyRoots(c) \/ StoreFails(c) \/ ReadSnapshot(c)
        <2>1. UNCHANGED <<vmVars, memVars, dbVars>>
            BY <1>2 DEF Lock, LockUpdate, LockCommit, BeginFails, CopyRoots,
                StoreFails, ReadSnapshot
        <2> QED
            BY <2>1, RefQuiet DEF vmVars, memVars
    <1>3. CASE GetPendingAgain(c)
        <2>1. UNCHANGED <<pendingWrites, memVars, dbVars>>
            BY <1>3 DEF GetPendingAgain, vmVars
        <2> QED
            BY <2>1, RefQuiet DEF memVars
    <1> QED
        BY <1>1, <1>2, <1>3

\* Every step of the tree is a step of the store, or changes nothing the
\* store can see.
LEMMA RefStep ==
    ASSUME RefInv, TreeInv', [TreeNext]_treeVars
    PROVE  [VS!Next]_VS!storeVars
    <1>1. ASSUME NEW c \in Clients, Call(c) \/ Lock(c)
          PROVE  [VS!Next]_VS!storeVars
        BY <1>1, RefOther
    <1>2. ASSUME NEW c \in Clients, Step(c)
          PROVE  [VS!Next]_VS!storeVars
        <2>1. ~ (EmptyCommitRoot(c) \/ EmptyCommitPublish(c) \/ EmptyCommitFinish(c))
            <3>1. cl[c].pc \notin {"emptyRoot", "emptyPublish", "emptyFinish"}
                BY DEF RefInv, DurableInv, ClientDurable
            <3> QED
                BY <3>1 DEF EmptyCommitRoot, EmptyCommitPublish, EmptyCommitFinish, At
        <2>2. \/ VS!Next \/ UNCHANGED VS!storeVars
            BY <1>2, <2>1, RefBegin, RefInitUpdater, RefApply, RefStore, RefSwap,
                RefFinish, RefAbort, RefGC, RefOther
            DEF Step
        <2> QED
            BY <2>2
    <1>3. CASE SetVersionRetentionPolicy \/ UNCHANGED treeVars
        <2>1. UNCHANGED <<pendingWrites, rootHashes, dbVars>>
            BY <1>3 DEF SetVersionRetentionPolicy, SetRetentionPolicy, treeVars,
                vmVars, memVars
        <2> QED
            BY <2>1, RefQuiet
    <1>4. CASE Restart
        BY <1>4, RefRestart
    <1> QED
        BY <1>1, <1>2, <1>3, <1>4 DEF TreeNext

\* The tree implements the versioned store, whatever the interleaving of its
\* goroutines and wherever the process crashes: a durable version is its
\* parent's contents plus the updates made in it, becomes durable whole and
\* never changes; readers are shown durable versions only, garbage collection
\* never hides the newest, and a restart loses only what was pending.
THEOREM TreeImplementsStore ==
    ASSUME ~ SharePending, ~ CommitUntouched
    PROVE  TreeSpec => ImplementsVersionedStore
    <1>1. RefInv /\ TreeInv' /\ [TreeNext]_treeVars => [VS!Next]_VS!storeVars
        BY RefStep
    <1>2. TreeInv /\ DurableInv /\ OwnedInv => RefInv
        BY DEF RefInv
    <1> QED
        BY TreeInvariance, TreeDurableInvariance, TreeOwnedInvariance, RefInit,
            <1>1, <1>2, PTL
        DEF TreeSpec, ImplementsVersionedStore, VS!Spec
=============================================================================
