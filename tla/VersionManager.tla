--------------------------- MODULE VersionManager ---------------------------
(***************************************************************************)
(* The version manager of a Jellyfish Merkle tree                          *)
(* (pkg/tree/version_manager.go): which versions exist, which are being    *)
(* built, which one is the latest committed, and which ones garbage        *)
(* collection drops.                                                       *)
(*                                                                         *)
(* Every exported method takes vm.mu for its whole body, so each is one    *)
(* atomic action here.  A call that returns an error changes nothing and   *)
(* is a stuttering step: an action's guard is the condition under which    *)
(* the method gets past its early returns.                                 *)
(*                                                                         *)
(* NodeCount and PendingVersion.operations are written and never read by   *)
(* the package; they are not part of the state.                            *)
(***************************************************************************)
EXTENDS Integers, FiniteSets

CONSTANTS
    MaxVersion,     \* types.MaxVersion: Begin refuses to go past it
    Hashes,         \* root hashes a commit may record
    EmptyHash,      \* types.EmptyHash(), the hash of the empty tree
    Updaters,       \* the *TreeUpdater values a pending version may carry
    NoUpdater,      \* the nil updater of a freshly begun version
    MinVersions,    \* the minVersions arguments clients pass
    MaxAges,        \* the maxAge arguments clients pass
    MaxClock        \* bound on the clock, in ticks

ASSUME MaxVersionAssumption == MaxVersion \in Nat
ASSUME EmptyHashAssumption == EmptyHash \in Hashes
ASSUME NoUpdaterAssumption == NoUpdater \notin Updaters
ASSUME RetentionAssumption == MinVersions \subseteq Nat /\ MaxAges \subseteq Nat
ASSUME MaxClockAssumption == MaxClock \in Nat

InitialVersion == 0

Version == 0 .. MaxVersion

\* VersionStatus.  Pending versions live in pendingWrites, never in
\* versions, so only the two final statuses occur in a VersionInfo.
VersionStatus == {"Committed", "Aborted"}

Policies == {"Count", "Time", "None"}

VersionInfo ==
    [rootHash : Hashes, parent : Version, createdAt : Nat, status : VersionStatus]

PendingVersion ==
    [parent : Version, updater : Updaters \cup {NoUpdater}, startTime : Nat]

Retention == [policy : Policies, minVersions : Nat, maxAge : Nat]

VARIABLES
    versions,           \* vm.versions: a function on the versions it holds
    latestVersion,      \* vm.latestVersion: the last number handed out
    committedVersion,   \* vm.committedVersion
    pendingWrites,      \* vm.pendingWrites
    retention,          \* retentionPolicy, minVersionsToKeep, maxAge
    clock,              \* time.Now()
    panicked            \* a Go panic unwound out of the manager

vmVars == <<versions, latestVersion, committedVersion, pendingWrites,
            retention, clock, panicked>>

-----------------------------------------------------------------------------
(* Maps: the Go map operations m[k] = v and delete(m, k).                  *)

MapPut(m, k, v) ==
    [x \in DOMAIN m \cup {k} |-> IF x = k THEN v ELSE m[x]]

MapDelete(m, S) ==
    [x \in DOMAIN m \ S |-> m[x]]

-----------------------------------------------------------------------------
(* Queries.                                                                *)

IsCommitted(v) ==
    v \in DOMAIN versions /\ versions[v].status = "Committed"

\* CollectGarbage's committedVersions: version 0 is never a candidate.
CommittedVersions ==
    {v \in DOMAIN versions : IsCommitted(v) /\ v # InitialVersion}

-----------------------------------------------------------------------------
(* Initial state: a new manager holds the empty version 0 and the default  *)
(* policy, which keeps the last 100 versions; callers may then choose      *)
(* another.                                                                *)

InitialVersionInfo(now) ==
    [rootHash |-> EmptyHash, parent |-> InitialVersion,
     createdAt |-> now, status |-> "Committed"]

DefaultRetention == [policy |-> "Count", minVersions |-> 100, maxAge |-> 0]

VMInit ==
    /\ versions = [v \in {InitialVersion} |-> InitialVersionInfo(0)]
    /\ latestVersion = 0
    /\ committedVersion = InitialVersion
    /\ pendingWrites = [v \in {} |-> NoUpdater]
    /\ retention = DefaultRetention
    /\ clock = 0
    /\ panicked = FALSE

-----------------------------------------------------------------------------
(* Begin: a pending version on top of a committed parent.  The number is   *)
(* latestVersion + 1 whatever the parent is.                               *)

\* Mutant: the status of the parent is not checked.
CanBeginAnywhere(parentVersion) ==
    /\ parentVersion \in DOMAIN versions
    /\ latestVersion # MaxVersion

\* Mutant: MaxVersion is not checked.
CanBeginUnbounded(parentVersion) == IsCommitted(parentVersion)

CanBegin(parentVersion) ==
    /\ IsCommitted(parentVersion)
    /\ latestVersion # MaxVersion

\* Mutant: numbers follow the committed version.
NewVersionAfterCommitted == committedVersion + 1

NewVersion == latestVersion + 1

Begin(parentVersion) ==
    /\ ~ panicked
    /\ CanBegin(parentVersion)
    /\ latestVersion' = NewVersion
    /\ pendingWrites' = MapPut(pendingWrites, NewVersion,
            [parent |-> parentVersion, updater |-> NoUpdater, startTime |-> clock])
    /\ UNCHANGED <<versions, committedVersion, retention, clock, panicked>>

(* Commit: the pending version becomes committed with its root hash;       *)
(* committedVersion only ever grows.                                       *)

CommittedInfo(version, rootHash) ==
    [rootHash |-> rootHash, parent |-> pendingWrites[version].parent,
     createdAt |-> clock, status |-> "Committed"]

\* Mutant: the last commit wins.
LastCommitted(version) == version

NewestCommitted(version) ==
    IF version > committedVersion THEN version ELSE committedVersion

Commit(version, rootHash) ==
    /\ ~ panicked
    /\ version \in DOMAIN pendingWrites
    /\ versions' = MapPut(versions, version, CommittedInfo(version, rootHash))
    /\ pendingWrites' = MapDelete(pendingWrites, {version})
    /\ committedVersion' = NewestCommitted(version)
    /\ UNCHANGED <<latestVersion, retention, clock, panicked>>

(* Abort: the pending version is forgotten; its number stays taken.        *)

Abort(version) ==
    /\ ~ panicked
    /\ version \in DOMAIN pendingWrites
    /\ pendingWrites' = MapDelete(pendingWrites, {version})
    /\ versions' = MapPut(versions, version,
            [rootHash |-> EmptyHash, parent |-> pendingWrites[version].parent,
             createdAt |-> pendingWrites[version].startTime, status |-> "Aborted"])
    /\ UNCHANGED <<latestVersion, committedVersion, retention, clock, panicked>>

SetPendingUpdater(version, updater) ==
    /\ ~ panicked
    /\ version \in DOMAIN pendingWrites
    /\ pendingWrites' = [pendingWrites EXCEPT ![version].updater = updater]
    /\ UNCHANGED <<versions, latestVersion, committedVersion, retention, clock,
                   panicked>>

-----------------------------------------------------------------------------
(* Garbage collection.                                                     *)

\* The first n elements of S in increasing order (sort.Slice, then s[:n]).
Oldest(S, n) == {v \in S : Cardinality({w \in S : w < v}) < n}

\* Versions older than maxAge.
ExpiredVersions ==
    {v \in CommittedVersions : clock - versions[v].createdAt > retention.maxAge}

\* RetentionPolicyTime: would the expired versions leave fewer than the minimum?
KeepsTooFew ==
    Cardinality(CommittedVersions) - Cardinality(ExpiredVersions)
        < retention.minVersions

\* toRemove[:len(committedVersions)-minVersionsToKeep] with a negative bound
\* is a slice-bounds panic.
CollectGarbagePanics ==
    /\ retention.policy = "Time"
    /\ KeepsTooFew
    /\ Cardinality(CommittedVersions) < retention.minVersions

\* Mutant: the sort is the wrong way round.
ToRemoveNewest ==
    CASE retention.policy = "None" -> {}
      [] retention.policy = "Count" ->
            CommittedVersions \ Oldest(CommittedVersions, retention.minVersions)
      [] retention.policy = "Time" ->
            IF KeepsTooFew
            THEN ExpiredVersions \ Oldest(ExpiredVersions, retention.minVersions)
            ELSE ExpiredVersions

ToRemove ==
    CASE retention.policy = "None" -> {}
      [] retention.policy = "Count" ->
            Oldest(CommittedVersions,
                   Cardinality(CommittedVersions) - retention.minVersions)
      [] retention.policy = "Time" ->
            IF KeepsTooFew
            THEN Oldest(ExpiredVersions,
                        Cardinality(CommittedVersions) - retention.minVersions)
            ELSE ExpiredVersions

\* The version numbers CollectGarbage returns: never the committed version.
Removed == ToRemove \ {committedVersion}

CollectGarbage ==
    /\ ~ panicked
    /\ ~ CollectGarbagePanics
    /\ versions' = MapDelete(versions, Removed)
    /\ UNCHANGED <<latestVersion, committedVersion, pendingWrites, retention,
                   clock, panicked>>

CollectGarbageCrash ==
    /\ ~ panicked
    /\ CollectGarbagePanics
    /\ panicked' = TRUE
    /\ UNCHANGED <<versions, latestVersion, committedVersion, pendingWrites,
                   retention, clock>>

SetRetentionPolicy(policy, minVersions, maxAge) ==
    /\ ~ panicked
    /\ retention' = [policy |-> policy, minVersions |-> minVersions,
                     maxAge |-> maxAge]
    /\ UNCHANGED <<versions, latestVersion, committedVersion, pendingWrites,
                   clock, panicked>>

(* RemoveVersion: any recorded version but the committed one and the       *)
(* parents of recorded versions.                                           *)

RemoveVersion(version) ==
    /\ ~ panicked
    /\ version \in DOMAIN versions
    /\ version # committedVersion
    /\ \A v \in DOMAIN versions : versions[v].parent = version => v = version
    /\ versions' = MapDelete(versions, {version})
    /\ UNCHANGED <<latestVersion, committedVersion, pendingWrites, retention,
                   clock, panicked>>

\* Time passes.
Tick ==
    /\ ~ panicked
    /\ clock < MaxClock
    /\ clock' = clock + 1
    /\ UNCHANGED <<versions, latestVersion, committedVersion, pendingWrites,
                   retention, panicked>>

-----------------------------------------------------------------------------

VMNext ==
    \/ \E v \in Version :
        \/ Begin(v)
        \/ \E h \in Hashes : Commit(v, h)
        \/ Abort(v)
        \/ \E u \in Updaters : SetPendingUpdater(v, u)
        \/ RemoveVersion(v)
    \/ CollectGarbage
    \/ CollectGarbageCrash
    \/ \E p \in Policies, n \in MinVersions, a \in MaxAges :
        SetRetentionPolicy(p, n, a)
    \/ Tick

VMSpec == VMInit /\ [][VMNext]_vmVars

-----------------------------------------------------------------------------
(* Properties.  The definitions above marked as mutants are mistakes the   *)
(* properties are tested against; nothing uses them.                       *)

\* Every variable has its type; versions and pendingWrites are functions on
\* finite sets of version numbers (the Go maps).
VMTypeOK ==
    /\ DOMAIN versions \subseteq Version
    /\ versions \in [DOMAIN versions -> VersionInfo]
    /\ latestVersion \in Version
    /\ committedVersion \in Version
    /\ DOMAIN pendingWrites \subseteq Version
    /\ pendingWrites \in [DOMAIN pendingWrites -> PendingVersion]
    /\ retention \in Retention
    /\ clock \in 0 .. MaxClock
    /\ panicked \in BOOLEAN

\* The committed version is always recorded, always committed, and is the
\* newest of the committed versions, whatever order pending versions are
\* committed in and whatever garbage collection and RemoveVersion drop.
\* BeginVersion depends on it: it uses committedVersion as the parent.
CommittedVersionIsNewest ==
    /\ IsCommitted(committedVersion)
    /\ \A v \in DOMAIN versions : IsCommitted(v) => v <= committedVersion

\* A version number is pending or recorded, never both, and never above the
\* last number handed out: Begin cannot collide with a version in flight,
\* one already committed, or one aborted.
VersionNumbersDisjoint ==
    /\ DOMAIN versions \cap DOMAIN pendingWrites = {}
    /\ DOMAIN versions \cup DOMAIN pendingWrites \subseteq 0 .. latestVersion

\* Every version is newer than the one it was built on, so following parents
\* ends at the initial version: the version history has no cycle.
HistoryIsAcyclic ==
    /\ \A v \in DOMAIN versions :
         \/ versions[v].parent < v
         \/ v = InitialVersion /\ versions[v].parent = v
    /\ \A v \in DOMAIN pendingWrites : pendingWrites[v].parent < v

\* No version, committed or pending, is built on an aborted one: every parent
\* still on record is committed.  Begin checks the parent once; aborts,
\* commits and removals that come later must not invalidate it.
LineageIsCommitted ==
    /\ \A v \in DOMAIN versions :
         versions[v].parent \in DOMAIN versions => IsCommitted(versions[v].parent)
    /\ \A v \in DOMAIN pendingWrites :
         pendingWrites[v].parent \in DOMAIN versions =>
            IsCommitted(pendingWrites[v].parent)

\* What a step may never do to a version number that was handed out: a
\* committed version keeps its root hash, parent and time until it is
\* removed; an aborted or removed one never comes back; a pending one keeps
\* its parent.
VersionKept(v) ==
    /\ v \in DOMAIN versions \cap DOMAIN versions' => versions'[v] = versions[v]
    /\ v \notin DOMAIN pendingWrites =>
            /\ v \notin DOMAIN pendingWrites'
            /\ v \in DOMAIN versions' => v \in DOMAIN versions
    /\ v \in DOMAIN pendingWrites \cap DOMAIN pendingWrites' =>
            pendingWrites'[v].parent = pendingWrites[v].parent

VersionsAreImmutable == [][\A v \in 0 .. latestVersion : VersionKept(v)]_vmVars

\* Whenever CollectGarbage is called, unless it panics, what it removes leaves
\* at least minVersionsToKeep committed versions, or all of them when there are
\* fewer (gc_test.go: "we should keep minimum").
\* Under the count policy it leaves exactly the newest ones: nothing it removes
\* is newer than anything it keeps, and it keeps no more than the minimum (one,
\* if the minimum is zero).
GCKeepsNewest ==
    ~ CollectGarbagePanics =>
        LET kept == CommittedVersions \ Removed
            limit == IF retention.minVersions = 0 THEN 1 ELSE retention.minVersions
        IN  /\ Removed # {} => Cardinality(kept) >= retention.minVersions
            /\ retention.policy = "Count" =>
                 /\ \A v \in Removed, w \in kept : v < w
                 /\ Cardinality(kept) <= limit

\* No call of the manager panics.  (Time-based collection below the minimum
\* does: MCVersionManagerPanic.cfg.)
NeverPanics == ~ panicked
=============================================================================
