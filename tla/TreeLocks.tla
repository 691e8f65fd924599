------------------------------ MODULE TreeLocks ------------------------------
(***************************************************************************)
(* The locks of the tree package and the order its methods take them in.   *)
(*                                                                         *)
(* Four locks protect a tree: Tree.writeMu, Tree.mu, VersionManager.mu and *)
(* NodeCache.mu (pkg/_blueprint/_decisions/locking-hierarchy.md).  A       *)
(* method is the sequence of lock operations its body performs; clients    *)
(* call methods in any order and at the same time.                         *)
(*                                                                         *)
(* sync.RWMutex prefers writers: Lock first announces itself, from then on *)
(* RLock blocks, and Lock proceeds when the readers inside have left.  A   *)
(* reader that calls RLock again while a writer is announced waits for the *)
(* writer, which waits for the reader.                                     *)
(***************************************************************************)
EXTENDS Naturals, Sequences

CONSTANTS
    Clients,    \* goroutines
    Nobody,     \* no goroutine
    Methods     \* the methods the clients call, a subset of AllMethods

AllMethods == {"BeginVersion", "PutVersioned", "CommitVersion", "AbortVersion",
               "CollectVersionGarbage", "Get", "GetAtVersion"}

ASSUME LockClients == Nobody \notin Clients
ASSUME LockMethods == Methods \subseteq AllMethods

Locks == {"writeMu", "mu", "vm", "cache"}

\* The level of each lock in the hierarchy.
Level == [l \in Locks |->
            CASE l = "writeMu" -> 1 [] l = "mu" -> 2 [] l = "vm" -> 3 [] l = "cache" -> 4]

R(l) == [op |-> "RLock", lock |-> l]
L(l) == [op |-> "Lock", lock |-> l]
U(l) == [op |-> "Unlock", lock |-> l]

\* Lock and unlock around a short critical section.
Read(l) == <<R(l), U(l)>>
Write(l) == <<L(l), U(l)>>

-----------------------------------------------------------------------------
(* The lock operations of each method: one sequence for every path through *)
(* its body.                                                               *)

\* GetLatestCommitted, then Begin.
BeginVersion == {Read("vm") \o Write("vm")}

UnderWriteMu(s) == <<L("writeMu")>> \o s \o <<U("writeMu")>>

\* The nodes an update reads: found in the cache, or loaded and added to it.
CachedReads == {<<>>, Read("cache"), Read("cache") \o Write("cache")}

\* GetPending; SetPendingUpdater and GetPending again for a new updater; the
\* updater's reads; IncrementOperations.  DeleteVersioned is the same.
PutVersioned ==
    {UnderWriteMu(Read("vm")),
     UnderWriteMu(Read("vm") \o Write("vm"))}
    \cup {UnderWriteMu(Read("vm") \o init \o reads \o incr) :
            init \in {<<>>, Write("vm") \o Read("vm")},
            reads \in CachedReads, incr \in {<<>>, Write("vm")}}

\* Mutant: a failing storage commit returns without unlocking.
CommitVersionNoUnlock ==
    {UnderWriteMu(Read("vm")),
     UnderWriteMu(Read("vm") \o Read("mu") \o Write("mu") \o Write("vm"))}
    \cup {<<L("writeMu")>> \o Read("vm") \o reads \o Read("mu") : reads \in CachedReads}

\* GetPending; an empty version: GetRootHash, rootHashes, Commit; otherwise
\* the batch's reads, the copy of rootHashes, the swap and Commit.  Building
\* the batch or committing it to storage may fail.
CommitVersion ==
    {UnderWriteMu(Read("vm")),
     UnderWriteMu(Read("vm") \o Write("mu") \o Write("vm")),
     UnderWriteMu(Read("vm") \o Read("mu") \o Write("mu") \o Write("vm"))}
    \cup {UnderWriteMu(Read("vm") \o reads \o rest) :
            reads \in CachedReads,
            rest \in {<<>>, Read("mu"), Read("mu") \o Write("mu") \o Write("vm")}}

AbortVersion == {Write("vm")}

\* Mutant: rootHashes is cleaned inside the version manager's lock.
CollectInsideVM == {<<L("vm"), L("mu"), U("mu"), U("vm")>>}

\* versionManager.CollectGarbage, then the deletions from rootHashes.
CollectVersionGarbage == {Write("vm") \o Write("mu")}

\* The root hash, then cached reads; no lock is held while nodes are read.
Get == {Read("mu") \o reads : reads \in CachedReads}

\* GetAtVersion keeps mu read-locked (a deferred RUnlock) around GetVersion
\* and around Get, which read-locks mu itself.
GetAtVersion ==
    {<<R("mu")>> \o Read("vm") \o rest \o <<U("mu")>> : rest \in Get \cup {<<>>}}

Paths(m) ==
    CASE m = "BeginVersion" -> BeginVersion
      [] m = "PutVersioned" -> PutVersioned
      [] m = "CommitVersion" -> CommitVersion
      [] m = "AbortVersion" -> AbortVersion
      [] m = "CollectVersionGarbage" -> CollectVersionGarbage
      [] m = "Get" -> Get
      [] m = "GetAtVersion" -> GetAtVersion

-----------------------------------------------------------------------------

VARIABLES
    todo,       \* the lock operations each client has still to do
    readers,    \* how many times each client read-locks each lock
    writer,     \* who write-locks each lock
    announced   \* who has announced a write lock and waits for readers

vars == <<todo, readers, writer, announced>>

LocksInit ==
    /\ todo = [c \in Clients |-> <<>>]
    /\ readers = [l \in Locks |-> [c \in Clients |-> 0]]
    /\ writer = [l \in Locks |-> Nobody]
    /\ announced = [l \in Locks |-> Nobody]

Call(c, m) ==
    /\ todo[c] = <<>>
    /\ \E path \in Paths(m) : todo' = [todo EXCEPT ![c] = path]
    /\ UNCHANGED <<readers, writer, announced>>

\* The next operation of client c is op on lock l.
Wants(c, op, l) ==
    /\ todo[c] # <<>>
    /\ Head(todo[c]) = [op |-> op, lock |-> l]

Done(c) == todo' = [todo EXCEPT ![c] = Tail(@)]

RLock(c, l) ==
    /\ Wants(c, "RLock", l)
    /\ writer[l] = Nobody
    /\ announced[l] = Nobody
    /\ readers' = [readers EXCEPT ![l][c] = @ + 1]
    /\ Done(c)
    /\ UNCHANGED <<writer, announced>>

Announce(c, l) ==
    /\ Wants(c, "Lock", l)
    /\ writer[l] = Nobody
    /\ announced[l] = Nobody
    /\ announced' = [announced EXCEPT ![l] = c]
    /\ UNCHANGED <<todo, readers, writer>>

Lock(c, l) ==
    /\ Wants(c, "Lock", l)
    /\ announced[l] = c
    /\ \A d \in Clients : readers[l][d] = 0
    /\ announced' = [announced EXCEPT ![l] = Nobody]
    /\ writer' = [writer EXCEPT ![l] = c]
    /\ Done(c)
    /\ UNCHANGED readers

Unlock(c, l) ==
    /\ Wants(c, "Unlock", l)
    /\ IF writer[l] = c
       THEN writer' = [writer EXCEPT ![l] = Nobody] /\ UNCHANGED readers
       ELSE readers' = [readers EXCEPT ![l][c] = @ - 1] /\ UNCHANGED writer
    /\ Done(c)
    /\ UNCHANGED announced

Step(c) ==
    \E l \in Locks : RLock(c, l) \/ Announce(c, l) \/ Lock(c, l) \/ Unlock(c, l)

LocksNext ==
    \E c \in Clients : Step(c) \/ \E m \in Methods : Call(c, m)

\* Goroutines inside a method keep running; the runtime wakes every waiter of
\* a mutex eventually.
LocksSpec ==
    LocksInit /\ [][LocksNext]_vars /\ \A c \in Clients : SF_vars(Step(c))

-----------------------------------------------------------------------------
(* Properties.                                                             *)

Holds(c, l) == writer[l] = c \/ readers[l][c] > 0

\* The clients that client c is waiting for.
WaitsFor(c) ==
    UNION {
        IF Wants(c, "RLock", l)
            THEN {writer[l], announced[l]} \cap Clients
        ELSE IF Wants(c, "Lock", l) /\ announced[l] = c
            THEN {d \in Clients : readers[l][d] > 0}
        ELSE IF Wants(c, "Lock", l)
            THEN {writer[l], announced[l]} \cap Clients
        ELSE {} : l \in Locks}

\* Every variable has its type, and a client outside every method holds and
\* waits for no lock: each path of a method releases what it took.
LocksTypeOK ==
    /\ \A c \in Clients : todo[c] = <<>> =>
         \A l \in Locks : ~ Holds(c, l) /\ announced[l] # c
    /\ readers \in [Locks -> [Clients -> 0 .. 2]]
    /\ writer \in [Locks -> Clients \cup {Nobody}]
    /\ announced \in [Locks -> Clients \cup {Nobody}]

\* The hierarchy of the ADR: a client only asks for a lock above every lock
\* it holds, and never for one it holds already.
LockOrder ==
    \A c \in Clients, l \in Locks :
        Wants(c, "RLock", l) \/ Wants(c, "Lock", l) =>
            \A h \in Locks : Holds(c, h) => Level[h] < Level[l]

\* No set of clients waits for one another: the deadlock the hierarchy
\* "prevents by construction".
NoCircularWait ==
    \A S \in SUBSET Clients :
        S # {} => \E c \in S : WaitsFor(c) \cap S = {}

\* A client that entered a method leaves it.
MethodsReturn == \A c \in Clients : todo[c] # <<>> ~> todo[c] = <<>>
=============================================================================
