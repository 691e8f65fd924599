---------------------------- MODULE StorageProofs ----------------------------
(***************************************************************************)
(* Safety of the storage engines' resource protocol for any number of      *)
(* goroutines and any limits.                                              *)
(*                                                                         *)
(* The properties are about counts, and a step moves one client.  Each     *)
(* count is the size of the set of clients that hold the thing counted     *)
(* (RefHolders and so on); a step of client c can only put c into such a   *)
(* set or take it out, which changes the size by one (Recount).  What is   *)
(* left for an action is where c itself was and is, and that follows from  *)
(* ClientOK: what a client's program counter says about its handle.        *)
(***************************************************************************)
EXTENDS Storage, FiniteSetTheorems, TLAPS

\* Every variable but the counters has its type.
ShapeOK ==
    /\ engine \in {"memory", "pebble"}
    /\ live \in BOOLEAN /\ closing \in BOOLEAN
    /\ pc \in [Clients -> {"idle", "check", "load", "cas", "add", "limit", "create", "uncount",
                           "unref", "done", "commit", "uncountSub", "op"}]
    /\ want \in [Clients -> Kinds \cup Ops \cup {"none"}]
    /\ seen \in [Clients -> Nat]
    /\ handle \in [Clients -> Handles]
    /\ panicked \subseteq Clients
    /\ closer \in {"idle", "metrics", "wait", "sleeping", "woken", "clear", "closed", "panicked"}
    /\ collector \in {"off", "waiting", "reading", "stopped"}

\* Where a client is in a call tells what its handle looks like.
ClientOK(c) ==
    /\ pc[c] \in {"check", "load", "cas", "add", "op"} => handle[c] = NoHandle
    /\ pc[c] \in {"check", "load", "cas", "add", "create", "unref", "done"} => want[c] \in Kinds
    /\ pc[c] \in {"limit", "uncount"} => want[c] \in {"iterator", "snapshot"}
    /\ pc[c] \in {"limit", "create"} => handle[c].kind = "none"
    /\ pc[c] \in {"uncount", "unref", "done"} => ~handle[c].open
    /\ pc[c] = "idle" /\ handle[c].kind = "none" => handle[c] = NoHandle
    /\ pc[c] = "commit" => handle[c].kind = "batch" /\ handle[c].open
    /\ pc[c] = "uncountSub" => handle[c].kind = "snapshot" /\ ~handle[c].sub
    /\ handle[c].kind # "none" => want[c] = handle[c].kind
    /\ handle[c].kind = "none" => ~handle[c].open /\ ~handle[c].sub /\ ~handle[c].puts
    /\ handle[c].sub => handle[c].kind = "snapshot"

\* The clients that hold a reference, a count of the wait group, and a count
\* of the open snapshots, of the open iterators, of an iterator of a snapshot.
RefHolders == {c \in Clients : Counted(c) \/ pc[c] \in {"add", "unref"}}
WgHolders == {c \in Clients : Counted(c) \/ pc[c] \in {"unref", "done"}}
SnapshotHolders == {c \in Clients : want[c] = "snapshot" /\ Counted(c) /\ pc[c] # "limit"}
IteratorHolders == {c \in Clients : want[c] = "iterator" /\ Counted(c) /\ pc[c] # "limit"}
SubHolders == {c \in Clients : handle[c].sub \/ pc[c] = "uncountSub"}

\* The clients that were granted a resource: they passed the limit and have
\* it or are about to get it.
GrantedSnapshots ==
    {c \in Clients : want[c] = "snapshot" /\ (handle[c].open \/ pc[c] = "create")}
GrantedIterators ==
    {c \in Clients : want[c] = "iterator" /\ (handle[c].open \/ pc[c] = "create")}
GrantedSubs == {c \in Clients : handle[c].sub}

\* A resource is granted only within the limits.
GrantsInLimits ==
    /\ MaxIterators > 0 =>
         Cardinality(GrantedIterators) + Cardinality(GrantedSubs) <= MaxIterators
    /\ MaxSnapshots > 0 => Cardinality(GrantedSnapshots) <= MaxSnapshots

\* Where Close is, and who may still be counted.  A resource counted before
\* Close began is early; once the wait group has reached zero none is left,
\* and every one counted since is late.
CloseOK ==
    /\ closing <=> closer # "idle"
    /\ ~live => closer = "closed"
    /\ closer \notin {"idle", "metrics"} => collector \in {"off", "stopped"}
    /\ closer \in {"clear", "closed"} =>
         \A c \in Clients : Counted(c) => ~handle[c].early
    /\ ~closing => \A c \in Clients : Counted(c) => handle[c].early
    /\ engine = "memory" => \A c \in Clients : pc[c] = "commit" => handle[c].early

\* The inductive invariant.
StorageInv ==
    /\ ResourcesAccounted
    /\ \A c \in Clients : ClientOK(c)
    /\ GrantsInLimits
    /\ CloseOK
    /\ MemoryBatchesNeverPanic

-----------------------------------------------------------------------------
(* Counting.                                                               *)

\* How the size of a set of clients changes when only c moves.
Recounted(S, T, c) ==
    /\ Cardinality(S) \in Nat
    /\ Cardinality(T) \in Nat
    /\ (c \in S <=> c \in T) => Cardinality(T) = Cardinality(S)
    /\ c \in T /\ c \notin S => Cardinality(T) = Cardinality(S) + 1
    /\ c \in S /\ c \notin T => Cardinality(T) = Cardinality(S) - 1

\* A set of clients that only c joins or leaves grows or shrinks by one.
LEMMA CountMove ==
    ASSUME NEW S \in SUBSET Clients, NEW T \in SUBSET Clients, NEW c,
           \A d \in Clients : d # c => (d \in S <=> d \in T)
    PROVE  Recounted(S, T, c)
    <1>1. IsFiniteSet(S) /\ IsFiniteSet(T)
        BY StorageClients, FS_Subset
    <1>2. Cardinality(S) \in Nat /\ Cardinality(T) \in Nat
        BY <1>1, FS_CardinalityType
    <1>3. CASE c \in S <=> c \in T
        <2>1. S = T
            BY <1>3
        <2> QED
            BY <1>2, <1>3, <2>1 DEF Recounted
    <1>4. CASE c \in T /\ c \notin S
        <2>1. T = S \cup {c}
            BY <1>4
        <2>2. Cardinality(S \cup {c}) = Cardinality(S) + 1
            BY <1>1, <1>4, FS_AddElement
        <2> QED
            BY <1>2, <1>4, <2>1, <2>2 DEF Recounted
    <1>5. CASE c \in S /\ c \notin T
        <2>1. T = S \ {c}
            BY <1>5
        <2>2. Cardinality(S \ {c}) = Cardinality(S) - 1
            BY <1>1, <1>5, FS_RemoveElement
        <2> QED
            BY <1>2, <1>5, <2>1, <2>2 DEF Recounted
    <1> QED
        BY <1>3, <1>4, <1>5

\* Only c moves.
OthersKeep(c) ==
    \A d \in Clients : d # c =>
        pc'[d] = pc[d] /\ want'[d] = want[d] /\ handle'[d] = handle[d]

\* A step of client c recounts every set by c alone.
LEMMA Recount ==
    ASSUME NEW c, OthersKeep(c)
    PROVE  /\ Recounted(RefHolders, RefHolders', c)
           /\ Recounted(WgHolders, WgHolders', c)
           /\ Recounted(SnapshotHolders, SnapshotHolders', c)
           /\ Recounted(IteratorHolders, IteratorHolders', c)
           /\ Recounted(SubHolders, SubHolders', c)
           /\ Recounted(GrantedSnapshots, GrantedSnapshots', c)
           /\ Recounted(GrantedIterators, GrantedIterators', c)
           /\ Recounted(GrantedSubs, GrantedSubs', c)
    <1> USE DEF OthersKeep, Counted
    <1>1. Recounted(RefHolders, RefHolders', c)
        BY CountMove DEF RefHolders
    <1>2. Recounted(WgHolders, WgHolders', c)
        BY CountMove DEF WgHolders
    <1>3. Recounted(SnapshotHolders, SnapshotHolders', c)
        BY CountMove DEF SnapshotHolders
    <1>4. Recounted(IteratorHolders, IteratorHolders', c)
        BY CountMove DEF IteratorHolders
    <1>5. Recounted(SubHolders, SubHolders', c)
        BY CountMove DEF SubHolders
    <1>6. Recounted(GrantedSnapshots, GrantedSnapshots', c)
        BY CountMove DEF GrantedSnapshots
    <1>7. Recounted(GrantedIterators, GrantedIterators', c)
        BY CountMove DEF GrantedIterators
    <1>8. Recounted(GrantedSubs, GrantedSubs', c)
        BY CountMove DEF GrantedSubs
    <1> QED
        BY <1>1, <1>2, <1>3, <1>4, <1>5, <1>6, <1>7, <1>8

-----------------------------------------------------------------------------
(* What a step of a client does, in terms of that client alone.            *)

\* A counter follows a client that was, and is, counted or not.
Follows(before, after, was, is) ==
    after = before + (IF is THEN 1 ELSE 0) - (IF was THEN 1 ELSE 0)

\* The counters follow client c.
CountersFollow(c) ==
    /\ Follows(refCount, refCount', c \in RefHolders, c \in RefHolders')
    /\ Follows(wg, wg', c \in WgHolders, c \in WgHolders')
    /\ Follows(openSnapshots, openSnapshots', c \in SnapshotHolders, c \in SnapshotHolders')
    /\ \/ /\ Follows(openIterators, openIterators', c \in IteratorHolders, c \in IteratorHolders')
          /\ c \in SubHolders <=> c \in SubHolders'
       \/ /\ Follows(openIterators, openIterators', c \in SubHolders, c \in SubHolders')
          /\ c \in IteratorHolders <=> c \in IteratorHolders'

\* A resource is granted when the counter, this one included, is in the limit.
GrantsChecked(c) ==
    /\ (\/ c \in GrantedIterators' \ GrantedIterators
        \/ c \in GrantedSubs' \ GrantedSubs)
       /\ MaxIterators > 0 => openIterators' <= MaxIterators
    /\ c \in GrantedSnapshots' \ GrantedSnapshots /\ MaxSnapshots > 0 =>
         openSnapshots' <= MaxSnapshots

\* A resource is early if it was counted before Close began, and stays so;
\* memory begins to commit before Close only.
EarlyKept(c) ==
    /\ Counted(c)' =>
         \/ Counted(c) /\ handle'[c].early = handle[c].early
         \/ handle'[c].early = ~closing
    /\ pc'[c] = "commit" /\ engine = "memory" => ~closing /\ Counted(c)'

\* What a step of client c has to show: it then preserves the invariant.
Moves(c) ==
    /\ ShapeOK'
    /\ OthersKeep(c)
    /\ ClientOK(c)'
    /\ CountersFollow(c)
    /\ GrantsChecked(c)
    /\ EarlyKept(c)
    /\ UNCHANGED <<engine, live, closing, collector>>
    /\ \/ closer' = closer
       \/ closer = "sleeping" /\ closer' = "woken"
    /\ panicked' \subseteq panicked \cup {c}
    /\ c \notin panicked
    /\ c \in panicked' /\ engine = "memory" => want'[c] = "put"

\* Such a step preserves the invariant.
LEMMA MovesInv ==
    ASSUME StorageInv, NEW c \in Clients, Moves(c)
    PROVE  StorageInv'
    <1>1. /\ Recounted(RefHolders, RefHolders', c)
          /\ Recounted(WgHolders, WgHolders', c)
          /\ Recounted(SnapshotHolders, SnapshotHolders', c)
          /\ Recounted(IteratorHolders, IteratorHolders', c)
          /\ Recounted(SubHolders, SubHolders', c)
          /\ Recounted(GrantedSnapshots, GrantedSnapshots', c)
          /\ Recounted(GrantedIterators, GrantedIterators', c)
          /\ Recounted(GrantedSubs, GrantedSubs', c)
        BY Recount DEF Moves
    <1>2. /\ refCount = Cardinality(RefHolders)
          /\ wg = Cardinality(WgHolders)
          /\ openSnapshots = Cardinality(SnapshotHolders)
          /\ openIterators = Cardinality(IteratorHolders) + Cardinality(SubHolders)
        BY DEF StorageInv, ResourcesAccounted, RefHolders, WgHolders, SnapshotHolders,
            IteratorHolders, SubHolders
    <1>3. /\ refCount' = Cardinality(RefHolders')
          /\ wg' = Cardinality(WgHolders')
          /\ openSnapshots' = Cardinality(SnapshotHolders')
          /\ openIterators' = Cardinality(IteratorHolders') + Cardinality(SubHolders')
        BY <1>1, <1>2 DEF Moves, CountersFollow, Follows, Recounted
    <1>4. ResourcesAccounted'
        <2>1. StorageTypeOK'
            BY <1>1, <1>3 DEF Moves, ShapeOK, StorageTypeOK, Recounted
        <2> QED
            BY <1>3, <2>1 DEF ResourcesAccounted, RefHolders, WgHolders, SnapshotHolders,
                IteratorHolders, SubHolders
    <1>5. \A d \in Clients : ClientOK(d)'
        BY DEF StorageInv, Moves, OthersKeep, ClientOK
    <1>6. GrantsInLimits'
        <2>1. /\ GrantedSnapshots' \subseteq SnapshotHolders'
              /\ GrantedIterators' \subseteq IteratorHolders'
              /\ GrantedSubs' \subseteq SubHolders'
            BY <1>5 DEF GrantedSnapshots, GrantedIterators, GrantedSubs, SnapshotHolders,
                IteratorHolders, SubHolders, Counted, ClientOK
        <2>2. \A S, T : S \subseteq T /\ T \subseteq Clients => Cardinality(S) <= Cardinality(T)
            BY StorageClients, FS_Subset
        <2>3. /\ Cardinality(GrantedSnapshots') <= Cardinality(SnapshotHolders')
              /\ Cardinality(GrantedIterators') <= Cardinality(IteratorHolders')
              /\ Cardinality(GrantedSubs') <= Cardinality(SubHolders')
            BY <2>1, <2>2 DEF SnapshotHolders, IteratorHolders, SubHolders
        <2> HIDE DEF GrantsInLimits
        <2>4. MaxSnapshots > 0 => Cardinality(GrantedSnapshots') <= MaxSnapshots
            BY <1>1, <1>3, <2>3, StorageLimits
            DEF StorageInv, GrantsInLimits, Moves, GrantsChecked, Recounted
        <2>5. MaxIterators > 0 =>
                Cardinality(GrantedIterators') + Cardinality(GrantedSubs') <= MaxIterators
            BY <1>1, <1>3, <2>3, StorageLimits
            DEF StorageInv, GrantsInLimits, Moves, GrantsChecked, Recounted
        <2> QED
            BY <2>4, <2>5 DEF GrantsInLimits
    <1>7. CloseOK'
        BY DEF StorageInv, CloseOK, Moves, OthersKeep, EarlyKept, Counted
    <1>8. MemoryBatchesNeverPanic'
        BY DEF StorageInv, ResourcesAccounted, StorageTypeOK, MemoryBatchesNeverPanic, Moves,
            OthersKeep
    <1> QED
        BY <1>4, <1>5, <1>6, <1>7, <1>8 DEF StorageInv

-----------------------------------------------------------------------------
(* The actions of a client.                                                *)

\* The steps of one client.
ClientNext(c) ==
    Call(c) \/ Step(c) \/ CloseHandle(c) \/ SnapshotIteratorClose(c) \/ DropHandle(c)

\* A resource that is closed, filled or loses its iterator is still a handle.
LEMMA HandleKept ==
    ASSUME handle \in [Clients -> Handles], NEW c \in Clients
    PROVE  /\ [handle EXCEPT ![c].open = FALSE, ![c].puts = FALSE] \in [Clients -> Handles]
           /\ [handle EXCEPT ![c].puts = TRUE] \in [Clients -> Handles]
           /\ [handle EXCEPT ![c].sub = FALSE] \in [Clients -> Handles]
    <1>1. [handle EXCEPT ![c].open = FALSE, ![c].puts = FALSE] \in [Clients -> Handles]
        BY DEF Handles
    <1>2. [handle EXCEPT ![c].puts = TRUE] \in [Clients -> Handles]
        BY DEF Handles
    <1>3. [handle EXCEPT ![c].sub = FALSE] \in [Clients -> Handles]
        BY DEF Handles
    <1> QED
        BY <1>1, <1>2, <1>3

\* Every step of a client moves that client alone, as Moves says.
LEMMA ClientMoves ==
    ASSUME StorageInv, NEW c \in Clients, ClientNext(c)
    PROVE  Moves(c)
    <1>a. ShapeOK
        BY DEF StorageInv, ResourcesAccounted, StorageTypeOK, ShapeOK
    <1>b. refCount \in Nat /\ wg \in Nat /\ openIterators \in Nat /\ openSnapshots \in Nat
        BY DEF StorageInv, ResourcesAccounted, StorageTypeOK
    <1>c. ClientOK(c)
        BY DEF StorageInv
    <1> USE <1>a, <1>c
        DEF ShapeOK, ClientOK, Kinds, Ops, Handles, NoHandle, Counted, At, Goto, Panic, store,
            counters
    <1>1. ASSUME NEW k \in Kinds, NewResource(c, k) PROVE Moves(c)
        <2> USE <1>1 DEF NewResource
        <2>1. OthersKeep(c)
            BY DEF OthersKeep
        <2>2. ShapeOK'
            OBVIOUS
        <2>3. ClientOK(c)'
            OBVIOUS
        <2>4. CountersFollow(c)
            BY <1>b
            DEF CountersFollow, Follows, RefHolders, WgHolders, SnapshotHolders, IteratorHolders,
                SubHolders
        <2>5. GrantsChecked(c)
            BY <1>b, StorageLimits
            DEF GrantsChecked, GrantedSnapshots, GrantedIterators, GrantedSubs
        <2>6. EarlyKept(c)
            BY DEF EarlyKept
        <2> HIDE DEF ShapeOK, ClientOK
        <2> QED
            BY <2>1, <2>2, <2>3, <2>4, <2>5, <2>6 DEF Moves
    <1>2. ASSUME NEW op \in Ops, OpCheck(c, op) PROVE Moves(c)
        <2> USE <1>2 DEF OpCheck
        <2>1. OthersKeep(c)
            BY DEF OthersKeep
        <2>2. ShapeOK'
            OBVIOUS
        <2>3. ClientOK(c)'
            OBVIOUS
        <2>4. CountersFollow(c)
            BY <1>b
            DEF CountersFollow, Follows, RefHolders, WgHolders, SnapshotHolders, IteratorHolders,
                SubHolders
        <2>5. GrantsChecked(c)
            BY <1>b, StorageLimits
            DEF GrantsChecked, GrantedSnapshots, GrantedIterators, GrantedSubs
        <2>6. EarlyKept(c)
            BY DEF EarlyKept
        <2> HIDE DEF ShapeOK, ClientOK
        <2> QED
            BY <2>1, <2>2, <2>3, <2>4, <2>5, <2>6 DEF Moves
    <1>3. ASSUME BatchPut(c) PROVE Moves(c)
        <2> USE <1>3 DEF BatchPut
        <2>1. OthersKeep(c)
            BY DEF OthersKeep
        <2>2. ShapeOK'
            <3>1. handle' \in [Clients -> Handles]
                BY HandleKept
            <3> QED
                BY <3>1
        <2>3. ClientOK(c)'
            OBVIOUS
        <2>4. CountersFollow(c)
            BY <1>b
            DEF CountersFollow, Follows, RefHolders, WgHolders, SnapshotHolders, IteratorHolders,
                SubHolders
        <2>5. GrantsChecked(c)
            BY <1>b, StorageLimits
            DEF GrantsChecked, GrantedSnapshots, GrantedIterators, GrantedSubs
        <2>6. EarlyKept(c)
            BY DEF EarlyKept
        <2> HIDE DEF ShapeOK, ClientOK
        <2> QED
            BY <2>1, <2>2, <2>3, <2>4, <2>5, <2>6 DEF Moves
    <1>4. ASSUME CommitCheck(c) PROVE Moves(c)
        <2> USE <1>4 DEF CommitCheck
        <2>1. OthersKeep(c)
            BY DEF OthersKeep
        <2>2. ShapeOK'
            OBVIOUS
        <2>3. ClientOK(c)'
            OBVIOUS
        <2>4. CountersFollow(c)
            BY <1>b
            DEF CountersFollow, Follows, RefHolders, WgHolders, SnapshotHolders, IteratorHolders,
                SubHolders
        <2>5. GrantsChecked(c)
            BY <1>b, StorageLimits
            DEF GrantsChecked, GrantedSnapshots, GrantedIterators, GrantedSubs
        <2>6. EarlyKept(c)
            BY DEF EarlyKept
        <2> HIDE DEF ShapeOK, ClientOK
        <2> QED
            BY <2>1, <2>2, <2>3, <2>4, <2>5, <2>6 DEF Moves
    <1>5. ASSUME SubIterator(c) PROVE Moves(c)
        <2> USE <1>5 DEF SubIterator
        <2>1. OthersKeep(c)
            BY DEF OthersKeep
        <2>2. ShapeOK'
            <3>1. handle' \in [Clients -> Handles]
                <4>1. handle' \in {handle, [handle EXCEPT ![c].sub = TRUE]}
                    OBVIOUS
                <4>2. [handle EXCEPT ![c].sub = TRUE] \in [Clients -> Handles]
                    OBVIOUS
                <4> QED
                    BY <4>1, <4>2
            <3> QED
                BY <3>1
        <2>3. ClientOK(c)'
            OBVIOUS
        <2>4. CountersFollow(c)
            BY <1>b
            DEF CountersFollow, Follows, RefHolders, WgHolders, SnapshotHolders, IteratorHolders,
                SubHolders
        <2>5. GrantsChecked(c)
            BY <1>b, StorageLimits
            DEF GrantsChecked, GrantedSnapshots, GrantedIterators, GrantedSubs
        <2>6. EarlyKept(c)
            BY DEF EarlyKept
        <2> HIDE DEF ShapeOK, ClientOK
        <2> QED
            BY <2>1, <2>2, <2>3, <2>4, <2>5, <2>6 DEF Moves
    <1>6. ASSUME LoadClosing(c) PROVE Moves(c)
        <2> USE <1>6 DEF LoadClosing
        <2>1. OthersKeep(c)
            BY DEF OthersKeep
        <2>2. ShapeOK'
            OBVIOUS
        <2>3. ClientOK(c)'
            OBVIOUS
        <2>4. CountersFollow(c)
            BY <1>b
            DEF CountersFollow, Follows, RefHolders, WgHolders, SnapshotHolders, IteratorHolders,
                SubHolders
        <2>5. GrantsChecked(c)
            BY <1>b, StorageLimits
            DEF GrantsChecked, GrantedSnapshots, GrantedIterators, GrantedSubs
        <2>6. EarlyKept(c)
            BY DEF EarlyKept
        <2> HIDE DEF ShapeOK, ClientOK
        <2> QED
            BY <2>1, <2>2, <2>3, <2>4, <2>5, <2>6 DEF Moves
    <1>7. ASSUME LoadRefs(c) PROVE Moves(c)
        <2> USE <1>7 DEF LoadRefs
        <2>1. OthersKeep(c)
            BY DEF OthersKeep
        <2>2. ShapeOK'
            BY <1>b
        <2>3. ClientOK(c)'
            OBVIOUS
        <2>4. CountersFollow(c)
            BY <1>b
            DEF CountersFollow, Follows, RefHolders, WgHolders, SnapshotHolders, IteratorHolders,
                SubHolders
        <2>5. GrantsChecked(c)
            BY <1>b, StorageLimits
            DEF GrantsChecked, GrantedSnapshots, GrantedIterators, GrantedSubs
        <2>6. EarlyKept(c)
            BY DEF EarlyKept
        <2> HIDE DEF ShapeOK, ClientOK
        <2> QED
            BY <2>1, <2>2, <2>3, <2>4, <2>5, <2>6 DEF Moves
    <1>8. ASSUME CompareAndSwapRefs(c) PROVE Moves(c)
        <2> USE <1>8 DEF CompareAndSwapRefs
        <2>1. OthersKeep(c)
            BY DEF OthersKeep
        <2>2. ShapeOK'
            OBVIOUS
        <2>3. ClientOK(c)'
            OBVIOUS
        <2>4. CountersFollow(c)
            BY <1>b
            DEF CountersFollow, Follows, RefHolders, WgHolders, SnapshotHolders, IteratorHolders,
                SubHolders
        <2>5. GrantsChecked(c)
            BY <1>b, StorageLimits
            DEF GrantsChecked, GrantedSnapshots, GrantedIterators, GrantedSubs
        <2>6. EarlyKept(c)
            BY DEF EarlyKept
        <2> HIDE DEF ShapeOK, ClientOK
        <2> QED
            BY <2>1, <2>2, <2>3, <2>4, <2>5, <2>6 DEF Moves
    <1>9. ASSUME WaitGroupAdd(c) PROVE Moves(c)
        <2> USE <1>9 DEF WaitGroupAdd
        <2>1. OthersKeep(c)
            BY DEF OthersKeep
        <2>2. ShapeOK'
            <3>1. handle' \in [Clients -> Handles]
                OBVIOUS
            <3> QED
                BY <3>1
        <2>3. ClientOK(c)'
            OBVIOUS
        <2>4. CountersFollow(c)
            BY <1>b
            DEF CountersFollow, Follows, RefHolders, WgHolders, SnapshotHolders, IteratorHolders,
                SubHolders
        <2>5. GrantsChecked(c)
            BY <1>b, StorageLimits
            DEF GrantsChecked, GrantedSnapshots, GrantedIterators, GrantedSubs
        <2>6. EarlyKept(c)
            BY DEF EarlyKept
        <2> HIDE DEF ShapeOK, ClientOK
        <2> QED
            BY <2>1, <2>2, <2>3, <2>4, <2>5, <2>6 DEF Moves
    <1>10. ASSUME CountOpen(c) PROVE Moves(c)
        <2> USE <1>10 DEF CountOpen, AddOpen, Limit, OpenOf
        <2>1. OthersKeep(c)
            BY DEF OthersKeep
        <2>2. ShapeOK'
            OBVIOUS
        <2>3. ClientOK(c)'
            OBVIOUS
        <2>4. CountersFollow(c)
            BY <1>b
            DEF CountersFollow, Follows, RefHolders, WgHolders, SnapshotHolders, IteratorHolders,
                SubHolders
        <2>5. GrantsChecked(c)
            BY <1>b, StorageLimits
            DEF GrantsChecked, GrantedSnapshots, GrantedIterators, GrantedSubs
        <2>6. EarlyKept(c)
            BY DEF EarlyKept
        <2> HIDE DEF ShapeOK, ClientOK
        <2> QED
            BY <2>1, <2>2, <2>3, <2>4, <2>5, <2>6 DEF Moves
    <1>11. ASSUME UncountOpen(c) PROVE Moves(c)
        <2> USE <1>11 DEF UncountOpen, AddOpen
        <2>1. OthersKeep(c)
            BY DEF OthersKeep
        <2>2. ShapeOK'
            OBVIOUS
        <2>3. ClientOK(c)'
            OBVIOUS
        <2>4. CountersFollow(c)
            BY <1>b
            DEF CountersFollow, Follows, RefHolders, WgHolders, SnapshotHolders, IteratorHolders,
                SubHolders
        <2>5. GrantsChecked(c)
            BY <1>b, StorageLimits
            DEF GrantsChecked, GrantedSnapshots, GrantedIterators, GrantedSubs
        <2>6. EarlyKept(c)
            BY DEF EarlyKept
        <2> HIDE DEF ShapeOK, ClientOK
        <2> QED
            BY <2>1, <2>2, <2>3, <2>4, <2>5, <2>6 DEF Moves
    <1>12. ASSUME Unref(c) PROVE Moves(c)
        <2> USE <1>12 DEF Unref
        <2>1. OthersKeep(c)
            BY DEF OthersKeep
        <2>2. ShapeOK'
            OBVIOUS
        <2>3. ClientOK(c)'
            OBVIOUS
        <2>4. CountersFollow(c)
            BY <1>b
            DEF CountersFollow, Follows, RefHolders, WgHolders, SnapshotHolders, IteratorHolders,
                SubHolders
        <2>5. GrantsChecked(c)
            BY <1>b, StorageLimits
            DEF GrantsChecked, GrantedSnapshots, GrantedIterators, GrantedSubs
        <2>6. EarlyKept(c)
            BY DEF EarlyKept
        <2> HIDE DEF ShapeOK, ClientOK
        <2> QED
            BY <2>1, <2>2, <2>3, <2>4, <2>5, <2>6 DEF Moves
    <1>13. ASSUME WaitGroupDone(c) PROVE Moves(c)
        <2> USE <1>13 DEF WaitGroupDone
        <2>1. OthersKeep(c)
            BY DEF OthersKeep
        <2>2. ShapeOK'
            <3>1. handle' \in [Clients -> Handles]
                OBVIOUS
            <3> QED
                BY <3>1
        <2>3. ClientOK(c)'
            OBVIOUS
        <2>4. CountersFollow(c)
            BY <1>b
            DEF CountersFollow, Follows, RefHolders, WgHolders, SnapshotHolders, IteratorHolders,
                SubHolders
        <2>5. GrantsChecked(c)
            BY <1>b, StorageLimits
            DEF GrantsChecked, GrantedSnapshots, GrantedIterators, GrantedSubs
        <2>6. EarlyKept(c)
            BY DEF EarlyKept
        <2> HIDE DEF ShapeOK, ClientOK
        <2> QED
            BY <2>1, <2>2, <2>3, <2>4, <2>5, <2>6 DEF Moves
    <1>14. ASSUME MemoryCreate(c) PROVE Moves(c)
        <2> USE <1>14 DEF MemoryCreate, Give
        <2>1. OthersKeep(c)
            BY DEF OthersKeep
        <2>2. ShapeOK'
            <3>1. handle' \in [Clients -> Handles]
                OBVIOUS
            <3> QED
                BY <3>1
        <2>3. ClientOK(c)'
            OBVIOUS
        <2>4. CountersFollow(c)
            BY <1>b
            DEF CountersFollow, Follows, RefHolders, WgHolders, SnapshotHolders, IteratorHolders,
                SubHolders
        <2>5. GrantsChecked(c)
            BY <1>b, StorageLimits
            DEF GrantsChecked, GrantedSnapshots, GrantedIterators, GrantedSubs
        <2>6. EarlyKept(c)
            BY DEF EarlyKept
        <2> HIDE DEF ShapeOK, ClientOK
        <2> QED
            BY <2>1, <2>2, <2>3, <2>4, <2>5, <2>6 DEF Moves
    <1>15. ASSUME PebbleCreate(c) PROVE Moves(c)
        <2> USE <1>15 DEF PebbleCreate, Give
        <2>1. OthersKeep(c)
            BY DEF OthersKeep
        <2>2. ShapeOK'
            <3>1. handle' \in [Clients -> Handles]
                OBVIOUS
            <3> QED
                BY <3>1
        <2>3. ClientOK(c)'
            OBVIOUS
        <2>4. CountersFollow(c)
            BY <1>b
            DEF CountersFollow, Follows, RefHolders, WgHolders, SnapshotHolders, IteratorHolders,
                SubHolders
        <2>5. GrantsChecked(c)
            BY <1>b, StorageLimits
            DEF GrantsChecked, GrantedSnapshots, GrantedIterators, GrantedSubs
        <2>6. EarlyKept(c)
            BY DEF EarlyKept
        <2> HIDE DEF ShapeOK, ClientOK
        <2> QED
            BY <2>1, <2>2, <2>3, <2>4, <2>5, <2>6 DEF Moves
    <1>16. ASSUME MemoryCommit(c) PROVE Moves(c)
        <2> USE <1>16 DEF MemoryCommit, Close
        <2>live. live
            BY DEF StorageInv, CloseOK
        <2> USE <2>live
        <2>1. OthersKeep(c)
            BY DEF OthersKeep
        <2>2. ShapeOK'
            <3>1. handle' \in [Clients -> Handles]
                <4>1. handle' \in {handle, [handle EXCEPT ![c].open = FALSE, ![c].puts = FALSE]}
                    OBVIOUS
                <4>2. [handle EXCEPT ![c].open = FALSE, ![c].puts = FALSE] \in [Clients -> Handles]
                    BY HandleKept
                <4> QED
                    BY <4>1, <4>2
            <3> QED
                BY <3>1
        <2>3. ClientOK(c)'
            OBVIOUS
        <2>4. CountersFollow(c)
            BY <1>b
            DEF CountersFollow, Follows, RefHolders, WgHolders, SnapshotHolders, IteratorHolders,
                SubHolders
        <2>5. GrantsChecked(c)
            BY <1>b, StorageLimits
            DEF GrantsChecked, GrantedSnapshots, GrantedIterators, GrantedSubs
        <2>6. EarlyKept(c)
            BY DEF EarlyKept
        <2> HIDE DEF ShapeOK, ClientOK
        <2> QED
            BY <2>1, <2>2, <2>3, <2>4, <2>5, <2>6 DEF Moves
    <1>17. ASSUME PebbleCommit(c) PROVE Moves(c)
        <2> USE <1>17 DEF PebbleCommit, Close
        <2>1. OthersKeep(c)
            BY DEF OthersKeep
        <2>2. ShapeOK'
            <3>1. handle' \in [Clients -> Handles]
                <4>1. handle' \in {handle, [handle EXCEPT ![c].open = FALSE, ![c].puts = FALSE]}
                    OBVIOUS
                <4>2. [handle EXCEPT ![c].open = FALSE, ![c].puts = FALSE] \in [Clients -> Handles]
                    BY HandleKept
                <4> QED
                    BY <4>1, <4>2
            <3> QED
                BY <3>1
        <2>3. ClientOK(c)'
            OBVIOUS
        <2>4. CountersFollow(c)
            BY <1>b
            DEF CountersFollow, Follows, RefHolders, WgHolders, SnapshotHolders, IteratorHolders,
                SubHolders
        <2>5. GrantsChecked(c)
            BY <1>b, StorageLimits
            DEF GrantsChecked, GrantedSnapshots, GrantedIterators, GrantedSubs
        <2>6. EarlyKept(c)
            BY DEF EarlyKept
        <2> HIDE DEF ShapeOK, ClientOK
        <2> QED
            BY <2>1, <2>2, <2>3, <2>4, <2>5, <2>6 DEF Moves
    <1>18. ASSUME UncountSub(c) PROVE Moves(c)
        <2> USE <1>18 DEF UncountSub
        <2>1. OthersKeep(c)
            BY DEF OthersKeep
        <2>2. ShapeOK'
            OBVIOUS
        <2>3. ClientOK(c)'
            OBVIOUS
        <2>4. CountersFollow(c)
            BY <1>b
            DEF CountersFollow, Follows, RefHolders, WgHolders, SnapshotHolders, IteratorHolders,
                SubHolders
        <2>5. GrantsChecked(c)
            BY <1>b, StorageLimits
            DEF GrantsChecked, GrantedSnapshots, GrantedIterators, GrantedSubs
        <2>6. EarlyKept(c)
            BY DEF EarlyKept
        <2> HIDE DEF ShapeOK, ClientOK
        <2> QED
            BY <2>1, <2>2, <2>3, <2>4, <2>5, <2>6 DEF Moves
    <1>19. ASSUME MemoryOp(c) PROVE Moves(c)
        <2> USE <1>19 DEF MemoryOp
        <2>1. OthersKeep(c)
            BY DEF OthersKeep
        <2>2. ShapeOK'
            OBVIOUS
        <2>3. ClientOK(c)'
            OBVIOUS
        <2>4. CountersFollow(c)
            BY <1>b
            DEF CountersFollow, Follows, RefHolders, WgHolders, SnapshotHolders, IteratorHolders,
                SubHolders
        <2>5. GrantsChecked(c)
            BY <1>b, StorageLimits
            DEF GrantsChecked, GrantedSnapshots, GrantedIterators, GrantedSubs
        <2>6. EarlyKept(c)
            BY DEF EarlyKept
        <2> HIDE DEF ShapeOK, ClientOK
        <2> QED
            BY <2>1, <2>2, <2>3, <2>4, <2>5, <2>6 DEF Moves
    <1>20. ASSUME PebbleOp(c) PROVE Moves(c)
        <2> USE <1>20 DEF PebbleOp
        <2>1. OthersKeep(c)
            BY DEF OthersKeep
        <2>2. ShapeOK'
            OBVIOUS
        <2>3. ClientOK(c)'
            OBVIOUS
        <2>4. CountersFollow(c)
            BY <1>b
            DEF CountersFollow, Follows, RefHolders, WgHolders, SnapshotHolders, IteratorHolders,
                SubHolders
        <2>5. GrantsChecked(c)
            BY <1>b, StorageLimits
            DEF GrantsChecked, GrantedSnapshots, GrantedIterators, GrantedSubs
        <2>6. EarlyKept(c)
            BY DEF EarlyKept
        <2> HIDE DEF ShapeOK, ClientOK
        <2> QED
            BY <2>1, <2>2, <2>3, <2>4, <2>5, <2>6 DEF Moves
    <1>21. ASSUME CloseHandle(c) PROVE Moves(c)
        <2> USE <1>21 DEF CloseHandle
        <2>1. OthersKeep(c)
            BY DEF OthersKeep
        <2>2. ShapeOK'
            <3>1. handle' \in [Clients -> Handles]
                BY HandleKept
            <3> QED
                BY <3>1
        <2>3. ClientOK(c)'
            OBVIOUS
        <2>4. CountersFollow(c)
            BY <1>b
            DEF CountersFollow, Follows, RefHolders, WgHolders, SnapshotHolders, IteratorHolders,
                SubHolders
        <2>5. GrantsChecked(c)
            BY <1>b, StorageLimits
            DEF GrantsChecked, GrantedSnapshots, GrantedIterators, GrantedSubs
        <2>6. EarlyKept(c)
            BY DEF EarlyKept
        <2> HIDE DEF ShapeOK, ClientOK
        <2> QED
            BY <2>1, <2>2, <2>3, <2>4, <2>5, <2>6 DEF Moves
    <1>22. ASSUME SnapshotIteratorClose(c) PROVE Moves(c)
        <2> USE <1>22 DEF SnapshotIteratorClose
        <2>1. OthersKeep(c)
            BY DEF OthersKeep
        <2>2. ShapeOK'
            <3>1. handle' \in [Clients -> Handles]
                BY HandleKept
            <3> QED
                BY <3>1
        <2>3. ClientOK(c)'
            OBVIOUS
        <2>4. CountersFollow(c)
            BY <1>b
            DEF CountersFollow, Follows, RefHolders, WgHolders, SnapshotHolders, IteratorHolders,
                SubHolders
        <2>5. GrantsChecked(c)
            BY <1>b, StorageLimits
            DEF GrantsChecked, GrantedSnapshots, GrantedIterators, GrantedSubs
        <2>6. EarlyKept(c)
            BY DEF EarlyKept
        <2> HIDE DEF ShapeOK, ClientOK
        <2> QED
            BY <2>1, <2>2, <2>3, <2>4, <2>5, <2>6 DEF Moves
    <1>23. ASSUME DropHandle(c) PROVE Moves(c)
        <2> USE <1>23 DEF DropHandle
        <2>1. OthersKeep(c)
            BY DEF OthersKeep
        <2>2. ShapeOK'
            OBVIOUS
        <2>3. ClientOK(c)'
            OBVIOUS
        <2>4. CountersFollow(c)
            BY <1>b
            DEF CountersFollow, Follows, RefHolders, WgHolders, SnapshotHolders, IteratorHolders,
                SubHolders
        <2>5. GrantsChecked(c)
            BY <1>b, StorageLimits
            DEF GrantsChecked, GrantedSnapshots, GrantedIterators, GrantedSubs
        <2>6. EarlyKept(c)
            BY DEF EarlyKept
        <2> HIDE DEF ShapeOK, ClientOK
        <2> QED
            BY <2>1, <2>2, <2>3, <2>4, <2>5, <2>6 DEF Moves
    <1>24. ASSUME PebbleSnapshotIteratorFails(c) PROVE Moves(c)
        <2> USE <1>24 DEF PebbleSnapshotIteratorFails
        <2>1. OthersKeep(c)
            BY DEF OthersKeep
        <2>2. ShapeOK'
            OBVIOUS
        <2>3. ClientOK(c)'
            OBVIOUS
        <2>4. CountersFollow(c)
            BY <1>b
            DEF CountersFollow, Follows, RefHolders, WgHolders, SnapshotHolders, IteratorHolders,
                SubHolders
        <2>5. GrantsChecked(c)
            BY <1>b, StorageLimits
            DEF GrantsChecked, GrantedSnapshots, GrantedIterators, GrantedSubs
        <2>6. EarlyKept(c)
            BY DEF EarlyKept
        <2> HIDE DEF ShapeOK, ClientOK
        <2> QED
            BY <2>1, <2>2, <2>3, <2>4, <2>5, <2>6 DEF Moves
    <1> HIDE <1>a, <1>c DEF ShapeOK, ClientOK, Counted, At, Goto, Panic
    <1> QED
        BY <1>1, <1>2, <1>3, <1>4, <1>5, <1>6, <1>7, <1>8, <1>9, <1>10, <1>11, <1>12,
            <1>13, <1>14, <1>15, <1>16, <1>17, <1>18, <1>19, <1>20, <1>21, <1>22, <1>23,
            <1>24
        DEF ClientNext, Call, Step, MemorySnapshotIterator, PebbleSnapshotIterator

-----------------------------------------------------------------------------
(* Close and the metrics goroutine.                                        *)

\* The steps of Close and of the metrics goroutine preserve the invariant.
LEMMA CloserInv ==
    ASSUME StorageInv, UNCHANGED clientVars, UNCHANGED engine,
           BeginClose \/ Wait \/ MetricsTick \/ MetricsRead \/ MetricsStop
    PROVE  StorageInv'
    <1>1. \A c \in Clients : Counted(c)' <=> Counted(c)
        BY DEF clientVars, Counted
    <1>2. ResourcesAccounted'
        <2>1. StorageTypeOK'
            BY DEF StorageInv, ResourcesAccounted, StorageTypeOK, clientVars, counters, BeginClose,
                Wait, WaitMetrics, WaitResources, Wake, ClearData, MetricsTick, MetricsRead,
                MetricsStop
        <2> QED
            BY <2>1 DEF StorageInv, ResourcesAccounted, clientVars, counters, Counted
    <1>3. \A c \in Clients : ClientOK(c)'
        BY DEF StorageInv, ClientOK, clientVars
    <1>4. GrantsInLimits'
        BY DEF StorageInv, GrantsInLimits, GrantedIterators, GrantedSubs, GrantedSnapshots,
            clientVars
    <1>5. wg = 0 => \A c \in Clients : ~Counted(c)
        <2>1. wg = Cardinality(WgHolders)
            BY DEF StorageInv, ResourcesAccounted, WgHolders
        <2>2. IsFiniteSet(WgHolders)
            BY StorageClients, FS_Subset DEF WgHolders
        <2>3. wg = 0 => WgHolders = {}
            BY <2>1, <2>2, FS_EmptySet
        <2> QED
            BY <2>3 DEF WgHolders
    <1>6. CloseOK'
        <2> USE <1>1 DEF StorageInv, CloseOK, clientVars
        <2>1. CASE BeginClose
            BY <2>1 DEF BeginClose
        <2>2. CASE WaitMetrics
            BY <2>2 DEF WaitMetrics
        <2>3. CASE WaitResources
            BY <1>5, <2>3 DEF WaitResources
        <2>4. CASE Wake
            BY <1>5, <2>4 DEF Wake
        <2>5. CASE ClearData
            BY <2>5 DEF ClearData
        <2>6. CASE MetricsTick \/ MetricsRead \/ MetricsStop
            BY <2>6 DEF MetricsTick, MetricsRead, MetricsStop
        <2> QED
            BY <2>1, <2>2, <2>3, <2>4, <2>5, <2>6 DEF Wait
    <1>7. MemoryBatchesNeverPanic'
        BY DEF StorageInv, MemoryBatchesNeverPanic, clientVars
    <1> QED
        BY <1>2, <1>3, <1>4, <1>6, <1>7 DEF StorageInv

-----------------------------------------------------------------------------
(* The theorems.                                                           *)

\* A new store satisfies the invariant.
LEMMA StorageInitInv == StorageInit => StorageInv
    <1> SUFFICES ASSUME StorageInit PROVE StorageInv
        OBVIOUS
    <1>1. \A c \in Clients : pc[c] = "idle" /\ want[c] = "none" /\ handle[c] = NoHandle
        BY DEF StorageInit
    <1>2. \A c \in Clients : ~Counted(c)
        BY <1>1 DEF Counted, NoHandle
    <1>3. /\ RefHolders = {} /\ WgHolders = {} /\ SnapshotHolders = {}
          /\ IteratorHolders = {} /\ SubHolders = {}
          /\ GrantedSnapshots = {} /\ GrantedIterators = {} /\ GrantedSubs = {}
        BY <1>1, <1>2 DEF RefHolders, WgHolders, SnapshotHolders, IteratorHolders, SubHolders,
            GrantedSnapshots, GrantedIterators, GrantedSubs, NoHandle
    <1>4. StorageTypeOK
        BY DEF StorageInit, StorageTypeOK, Handles, NoHandle, Kinds, Ops
    <1>5. ResourcesAccounted
        BY <1>3, <1>4, FS_EmptySet DEF StorageInit, ResourcesAccounted, RefHolders, WgHolders,
            SnapshotHolders, IteratorHolders, SubHolders
    <1>6. \A c \in Clients : ClientOK(c)
        BY <1>1 DEF ClientOK, NoHandle
    <1>7. GrantsInLimits
        BY <1>3, FS_EmptySet, StorageLimits DEF GrantsInLimits
    <1>8. CloseOK /\ MemoryBatchesNeverPanic
        BY <1>1, <1>2 DEF StorageInit, CloseOK, MemoryBatchesNeverPanic
    <1> QED
        BY <1>5, <1>6, <1>7, <1>8 DEF StorageInv

\* Every step of the store preserves the invariant.
LEMMA StorageStepInv == StorageInv /\ [StorageNext]_storageVars => StorageInv'
    <1> SUFFICES ASSUME StorageInv, [StorageNext]_storageVars PROVE StorageInv'
        OBVIOUS
    <1>1. ASSUME NEW c \in Clients, ClientNext(c) PROVE StorageInv'
        BY <1>1, ClientMoves, MovesInv
    <1>2. CASE BeginClose \/ Wait \/ MetricsTick \/ MetricsRead \/ MetricsStop
        BY <1>2, CloserInv DEF BeginClose, Wait, WaitMetrics, WaitResources, Wake, ClearData,
            MetricsTick, MetricsRead, MetricsStop
    <1>3. CASE UNCHANGED storageVars
        <2> USE <1>3 DEF storageVars, store, counters, StorageInv
        <2>1. ResourcesAccounted'
            BY DEF ResourcesAccounted, StorageTypeOK, Counted
        <2>2. \A c \in Clients : ClientOK(c)'
            BY DEF ClientOK
        <2>3. GrantsInLimits'
            BY DEF GrantsInLimits, GrantedIterators, GrantedSubs, GrantedSnapshots
        <2>4. CloseOK' /\ MemoryBatchesNeverPanic'
            BY DEF CloseOK, Counted, MemoryBatchesNeverPanic
        <2> QED
            BY <2>1, <2>2, <2>3, <2>4
    <1> QED
        BY <1>1, <1>2, <1>3 DEF StorageNext, ClientNext

\* The inductive invariant holds in every reachable state.
THEOREM StorageInvariance == StorageSpec => []StorageInv
    BY StorageInitInv, StorageStepInv, PTL DEF StorageSpec

\* Every reference and every count belongs to a client that must give it back,
\* for any number of goroutines: addRef, releaseRef and the closed flags of
\* both engines neither leak a reference nor release one twice.
THEOREM StorageResourcesAccounted == StorageSpec => []ResourcesAccounted
    <1>1. StorageInv => ResourcesAccounted
        BY DEF StorageInv
    <1> QED
        BY StorageInvariance, <1>1, PTL

\* NewIterator and NewSnapshot never hand out more than MaxIterators iterators
\* and MaxSnapshots snapshots, for any number of goroutines racing.
THEOREM StorageLimitsHold == StorageSpec => []LimitsHold
    <1>1. StorageInv => LimitsHold
        <2> SUFFICES ASSUME StorageInv PROVE LimitsHold
            OBVIOUS
        <2> DEFINE iterators == {c \in Clients : handle[c].kind = "iterator" /\ handle[c].open}
                   snapshots == {c \in Clients : handle[c].kind = "snapshot" /\ handle[c].open}
        <2>1. iterators \subseteq GrantedIterators /\ snapshots \subseteq GrantedSnapshots
            BY DEF StorageInv, ClientOK, GrantedIterators, GrantedSnapshots
        <2>2. /\ IsFiniteSet(GrantedIterators)
              /\ IsFiniteSet(GrantedSnapshots)
              /\ IsFiniteSet(GrantedSubs)
            BY StorageClients, FS_Subset DEF GrantedIterators, GrantedSnapshots, GrantedSubs
        <2>3. /\ Cardinality(iterators) <= Cardinality(GrantedIterators)
              /\ Cardinality(snapshots) <= Cardinality(GrantedSnapshots)
              /\ IsFiniteSet(iterators) /\ IsFiniteSet(snapshots)
            BY <2>1, <2>2, FS_Subset
        <2>4. /\ Cardinality(iterators) \in Nat
              /\ Cardinality(snapshots) \in Nat
              /\ Cardinality(GrantedIterators) \in Nat
              /\ Cardinality(GrantedSnapshots) \in Nat
              /\ Cardinality(GrantedSubs) \in Nat
            BY <2>2, <2>3, FS_CardinalityType
        <2>5. GrantedSubs = {c \in Clients : handle[c].sub}
            BY DEF GrantedSubs
        <2> HIDE DEF iterators, snapshots
        <2>6. /\ MaxIterators > 0 => Cardinality(iterators) + Cardinality(GrantedSubs) <= MaxIterators
              /\ MaxSnapshots > 0 => Cardinality(snapshots) <= MaxSnapshots
            BY <2>3, <2>4, StorageLimits DEF StorageInv, GrantsInLimits
        <2> QED
            BY <2>5, <2>6 DEF LimitsHold, iterators, snapshots
    <1> QED
        BY StorageInvariance, <1>1, PTL

\* Close never takes the data from a resource counted before it began.
THEOREM StorageKeepsData == StorageSpec => []CountedResourcesKeepData
    <1>1. StorageInv => CountedResourcesKeepData
        BY DEF StorageInv, CloseOK, CountedResourcesKeepData, Counted
    <1> QED
        BY StorageInvariance, <1>1, PTL

\* The metrics goroutine reads only an open database.
THEOREM StorageMetricsSafe == StorageSpec => []MetricsReadOpenDatabase
    <1>1. StorageInv => MetricsReadOpenDatabase
        BY DEF StorageInv, CloseOK, MetricsReadOpenDatabase
    <1> QED
        BY StorageInvariance, <1>1, PTL

\* Committing a memory batch never meets the nil map, whatever Close does.
THEOREM StorageBatchesSafe == StorageSpec => []MemoryBatchesNeverPanic
    <1>1. StorageInv => MemoryBatchesNeverPanic
        BY DEF StorageInv
    <1> QED
        BY StorageInvariance, <1>1, PTL
=============================================================================
