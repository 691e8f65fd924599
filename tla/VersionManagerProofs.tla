------------------------ MODULE VersionManagerProofs ------------------------
(***************************************************************************)
(* Safety of the version manager for every value of its constants.         *)
(*                                                                         *)
(* The invariants of VersionManager are not inductive one by one: that     *)
(* committedVersion is the newest committed version needs the numbers in   *)
(* flight to be disjoint from the recorded ones, and that no version is    *)
(* built on an aborted one needs parents never to be pending (a pending    *)
(* parent could be aborted later).  VMInv adds that last fact and is       *)
(* inductive.                                                              *)
(***************************************************************************)
EXTENDS VersionManager, FiniteSetTheorems, TLAPS

\* The parent of a recorded or pending version has left the pending state.
ParentsNotPending ==
    /\ \A v \in DOMAIN versions : versions[v].parent \notin DOMAIN pendingWrites
    /\ \A v \in DOMAIN pendingWrites :
            pendingWrites[v].parent \notin DOMAIN pendingWrites

\* The inductive invariant.
VMInv ==
    /\ VMTypeOK
    /\ VersionNumbersDisjoint
    /\ CommittedVersionIsNewest
    /\ HistoryIsAcyclic
    /\ LineageIsCommitted
    /\ ParentsNotPending

-----------------------------------------------------------------------------
(* The map operations.                                                     *)

\* A map keeps its value type under a write of that type and under a delete.
LEMMA MapType ==
    ASSUME NEW m, NEW k, NEW T, NEW v \in T, NEW S, m \in [DOMAIN m -> T]
    PROVE  /\ MapPut(m, k, v) \in [DOMAIN m \cup {k} -> T]
           /\ MapDelete(m, S) \in [DOMAIN m \ S -> T]
    BY DEF MapPut, MapDelete

\* CollectGarbage only ever returns committed versions, and never the
\* committed version itself.
LEMMA RemovedLemma ==
    ASSUME VMTypeOK
    PROVE  Removed \subseteq CommittedVersions \ {committedVersion}
    <1>1. ExpiredVersions \subseteq CommittedVersions
        BY DEF ExpiredVersions
    <1>2. \A S, n : Oldest(S, n) \subseteq S
        BY DEF Oldest
    <1>3. retention.policy \in Policies
        BY DEF VMTypeOK, Retention
    <1>4. ToRemove \subseteq CommittedVersions
        BY <1>1, <1>2, <1>3 DEF ToRemove, Policies
    <1> QED
        BY <1>4 DEF Removed
-----------------------------------------------------------------------------
(* The inductive invariant.                                                *)

\* A new version manager (NewVersionManager) satisfies the invariant.
LEMMA VMInitInv == VMInit => VMInv
    <1> SUFFICES ASSUME VMInit PROVE VMInv
        OBVIOUS
    <1> USE MaxVersionAssumption, EmptyHashAssumption, MaxClockAssumption
    <1>1. InitialVersionInfo(0) \in VersionInfo
        BY DEF InitialVersionInfo, VersionInfo, Version, VersionStatus, InitialVersion
    <1>2. retention \in Retention
        BY DEF VMInit, Retention, DefaultRetention, Policies
    <1>3. DOMAIN versions = {0} /\ versions[0] = InitialVersionInfo(0)
        BY DEF VMInit, InitialVersion
    <1>4. DOMAIN pendingWrites = {}
        BY DEF VMInit
    <1>5. VMTypeOK
        BY <1>1, <1>2, <1>3, <1>4
        DEF VMInit, VMTypeOK, InitialVersion, Version
    <1>6. versions[0].parent = 0 /\ versions[0].status = "Committed"
        BY <1>3 DEF InitialVersionInfo, InitialVersion
    <1> QED
        BY <1>3, <1>4, <1>5, <1>6
        DEF VMInv, VMInit, VersionNumbersDisjoint, CommittedVersionIsNewest,
            IsCommitted, HistoryIsAcyclic, LineageIsCommitted,
            ParentsNotPending, InitialVersion

\* Begin preserves the invariant: the new number is above every number in use.
LEMMA BeginInv ==
    ASSUME VMInv, NEW p \in Version, Begin(p)
    PROVE  VMInv'
    <1> DEFINE new == latestVersion + 1
               info == [parent |-> p, updater |-> NoUpdater, startTime |-> clock]
    <1> USE MaxVersionAssumption, MaxClockAssumption
    <1>1. /\ p \in DOMAIN versions
          /\ versions[p].status = "Committed"
          /\ new \in Version
          /\ latestVersion' = new
          /\ pendingWrites' = MapPut(pendingWrites, new, info)
          /\ UNCHANGED <<versions, committedVersion, retention, clock, panicked>>
        BY DEF VMInv, VMTypeOK, Begin, CanBegin, NewVersion, IsCommitted, Version
    <1>2. info \in PendingVersion
        BY DEF VMInv, VMTypeOK, PendingVersion
    <1>3. VMTypeOK'
        <2>1. pendingWrites' \in [DOMAIN pendingWrites \cup {new} -> PendingVersion]
            BY <1>1, <1>2, MapType DEF VMInv, VMTypeOK
        <2> QED
            BY <1>1, <2>1 DEF VMInv, VMTypeOK
    <1>4. /\ DOMAIN pendingWrites' = DOMAIN pendingWrites \cup {new}
          /\ pendingWrites'[new] = info
          /\ \A x \in DOMAIN pendingWrites :
                x # new => pendingWrites'[x] = pendingWrites[x]
        BY <1>1 DEF MapPut
    <1>5. /\ new \notin DOMAIN versions
          /\ new \notin DOMAIN pendingWrites
          /\ p < new
        BY <1>1 DEF VMInv, VMTypeOK, VersionNumbersDisjoint, Version
    <1>6. VersionNumbersDisjoint'
        BY <1>1, <1>4, <1>5 DEF VMInv, VMTypeOK, VersionNumbersDisjoint, Version
    <1>7. CommittedVersionIsNewest'
        BY <1>1 DEF VMInv, CommittedVersionIsNewest, IsCommitted
    <1>8. HistoryIsAcyclic'
        BY <1>1, <1>4, <1>5 DEF VMInv, HistoryIsAcyclic
    <1>9. LineageIsCommitted'
        BY <1>1, <1>4, <1>5 DEF VMInv, LineageIsCommitted, IsCommitted
    <1>10. ParentsNotPending'
        <2>1. \A v \in DOMAIN versions : versions[v].parent # new
            BY <1>1, <1>5 DEF VMInv, VMTypeOK, VersionNumbersDisjoint,
                HistoryIsAcyclic, Version, VersionInfo, InitialVersion
        <2>2. \A v \in DOMAIN pendingWrites : pendingWrites[v].parent # new
            BY <1>1, <1>5 DEF VMInv, VMTypeOK, VersionNumbersDisjoint,
                HistoryIsAcyclic, Version, PendingVersion
        <2>3. p \notin DOMAIN pendingWrites /\ p # new
            BY <1>1, <1>5 DEF VMInv, VersionNumbersDisjoint
        <2> QED
            BY <1>1, <1>4, <1>5, <2>1, <2>2, <2>3 DEF VMInv, ParentsNotPending
    <1> QED
        BY <1>3, <1>6, <1>7, <1>8, <1>9, <1>10 DEF VMInv

\* Commit and Abort both move a pending version, with its parent, into
\* versions.  That preserves the invariant: nothing is built on the moved
\* version, because a parent is never pending.
LEMMA ResolveInv ==
    ASSUME VMInv, NEW v \in DOMAIN pendingWrites, NEW info \in VersionInfo,
           info.parent = pendingWrites[v].parent,
           versions' = MapPut(versions, v, info),
           pendingWrites' = MapDelete(pendingWrites, {v}),
           committedVersion' \in Version,
           UNCHANGED <<latestVersion, retention, clock, panicked>>,
           CommittedVersionIsNewest'
    PROVE  VMInv'
    <1>1. VMTypeOK'
        <2>1. versions' \in [DOMAIN versions \cup {v} -> VersionInfo]
            BY MapType DEF VMInv, VMTypeOK
        <2>2. pendingWrites' \in [DOMAIN pendingWrites \ {v} -> PendingVersion]
            BY MapType DEF VMInv, VMTypeOK, MapDelete
        <2> QED
            BY <2>1, <2>2 DEF VMInv, VMTypeOK
    <1>2. /\ DOMAIN pendingWrites' = DOMAIN pendingWrites \ {v}
          /\ \A x \in DOMAIN pendingWrites' : pendingWrites'[x] = pendingWrites[x]
        BY DEF MapDelete
    <1>3. /\ DOMAIN versions' = DOMAIN versions \cup {v}
          /\ versions'[v] = info
          /\ \A x \in DOMAIN versions : versions'[x] = versions[x]
          /\ v \notin DOMAIN versions
        BY DEF MapPut, VMInv, VersionNumbersDisjoint
    <1>4. VersionNumbersDisjoint'
        BY <1>2, <1>3 DEF VMInv, VersionNumbersDisjoint
    <1>5. HistoryIsAcyclic'
        BY <1>2, <1>3 DEF VMInv, HistoryIsAcyclic
    <1>6. \A x \in DOMAIN versions' : versions'[x].parent \notin DOMAIN pendingWrites
        BY <1>3 DEF VMInv, ParentsNotPending
    <1>7. \A x \in DOMAIN pendingWrites' :
            pendingWrites'[x].parent \notin DOMAIN pendingWrites
        BY <1>2 DEF VMInv, ParentsNotPending
    <1>8. ParentsNotPending'
        BY <1>2, <1>6, <1>7 DEF ParentsNotPending
    <1>9. LineageIsCommitted'
        <2>1. ASSUME NEW x \in DOMAIN versions', versions'[x].parent \in DOMAIN versions'
              PROVE  versions'[versions'[x].parent].status = "Committed"
            BY <1>3, <1>6, <2>1 DEF VMInv, LineageIsCommitted, IsCommitted
        <2>2. ASSUME NEW x \in DOMAIN pendingWrites',
                     pendingWrites'[x].parent \in DOMAIN versions'
              PROVE  versions'[pendingWrites'[x].parent].status = "Committed"
            <3>1. /\ x \in DOMAIN pendingWrites
                  /\ pendingWrites'[x].parent = pendingWrites[x].parent
                  /\ pendingWrites[x].parent \in DOMAIN versions
                BY <1>2, <1>3, <1>7, <2>2
            <3>2. versions[pendingWrites[x].parent].status = "Committed"
                BY <3>1 DEF VMInv, LineageIsCommitted, IsCommitted
            <3> QED
                BY <1>3, <3>1, <3>2
        <2> QED
            BY <2>1, <2>2 DEF LineageIsCommitted, IsCommitted
    <1> QED
        BY <1>1, <1>4, <1>5, <1>8, <1>9 DEF VMInv

\* Commit preserves the invariant: committedVersion stays the newest
\* committed version whatever the order of commits.
LEMMA CommitInv ==
    ASSUME VMInv, NEW v \in Version, NEW h \in Hashes, Commit(v, h)
    PROVE  VMInv'
    <1> DEFINE info == [rootHash |-> h, parent |-> pendingWrites[v].parent,
                        createdAt |-> clock, status |-> "Committed"]
    <1>1. /\ v \in DOMAIN pendingWrites
          /\ versions' = MapPut(versions, v, info)
          /\ pendingWrites' = MapDelete(pendingWrites, {v})
          /\ committedVersion' =
                IF v > committedVersion THEN v ELSE committedVersion
          /\ UNCHANGED <<latestVersion, retention, clock, panicked>>
        BY DEF Commit, CommittedInfo, NewestCommitted
    <1>2. info \in VersionInfo
        BY <1>1, MaxClockAssumption
        DEF VMInv, VMTypeOK, VersionInfo, VersionStatus, PendingVersion
    <1>3. committedVersion' \in Version
        BY <1>1 DEF VMInv, VMTypeOK
    <1>4. /\ DOMAIN versions' = DOMAIN versions \cup {v}
          /\ versions'[v].status = "Committed"
          /\ \A x \in DOMAIN versions : versions'[x] = versions[x]
        BY <1>1 DEF MapPut, VMInv, VersionNumbersDisjoint
    <1>5. CommittedVersionIsNewest'
        BY <1>1, <1>4, MaxVersionAssumption
        DEF VMInv, VMTypeOK, CommittedVersionIsNewest, IsCommitted, Version
    <1> HIDE DEF info
    <1>6. info.parent = pendingWrites[v].parent
        BY DEF info
    <1> QED
        BY <1>1, <1>2, <1>3, <1>5, <1>6, ResolveInv

\* Abort preserves the invariant.
LEMMA AbortInv ==
    ASSUME VMInv, NEW v \in Version, Abort(v)
    PROVE  VMInv'
    <1> DEFINE info == [rootHash |-> EmptyHash, parent |-> pendingWrites[v].parent,
                        createdAt |-> pendingWrites[v].startTime,
                        status |-> "Aborted"]
    <1>1. /\ v \in DOMAIN pendingWrites
          /\ versions' = MapPut(versions, v, info)
          /\ pendingWrites' = MapDelete(pendingWrites, {v})
          /\ UNCHANGED <<latestVersion, committedVersion, retention, clock, panicked>>
        BY DEF Abort
    <1>2. info \in VersionInfo
        BY <1>1, EmptyHashAssumption
        DEF VMInv, VMTypeOK, VersionInfo, VersionStatus, PendingVersion
    <1>3. committedVersion' \in Version
        BY <1>1 DEF VMInv, VMTypeOK
    <1>4. /\ DOMAIN versions' = DOMAIN versions \cup {v}
          /\ versions'[v].status = "Aborted"
          /\ \A x \in DOMAIN versions : versions'[x] = versions[x]
          /\ v \notin DOMAIN versions
        BY <1>1 DEF MapPut, VMInv, VersionNumbersDisjoint
    <1>5. CommittedVersionIsNewest'
        BY <1>1, <1>4 DEF VMInv, CommittedVersionIsNewest, IsCommitted
    <1> HIDE DEF info
    <1>6. info.parent = pendingWrites[v].parent
        BY DEF info
    <1> QED
        BY <1>1, <1>2, <1>3, <1>5, <1>6, ResolveInv

\* SetPendingUpdater replaces one updater and preserves the invariant.
LEMMA SetPendingUpdaterInv ==
    ASSUME VMInv, NEW v \in Version, NEW u \in Updaters, SetPendingUpdater(v, u)
    PROVE  VMInv'
    <1>1. /\ v \in DOMAIN pendingWrites
          /\ DOMAIN pendingWrites' = DOMAIN pendingWrites
          /\ \A x \in DOMAIN pendingWrites :
                pendingWrites'[x].parent = pendingWrites[x].parent
          /\ pendingWrites' \in [DOMAIN pendingWrites -> PendingVersion]
          /\ UNCHANGED <<versions, latestVersion, committedVersion, retention,
                         clock, panicked>>
        BY DEF VMInv, VMTypeOK, SetPendingUpdater, PendingVersion
    <1>2. VMTypeOK'
        BY <1>1 DEF VMInv, VMTypeOK
    <1> QED
        BY <1>1, <1>2
        DEF VMInv, VersionNumbersDisjoint, CommittedVersionIsNewest, IsCommitted,
            HistoryIsAcyclic, LineageIsCommitted, ParentsNotPending

\* Removing recorded versions, as CollectGarbage and RemoveVersion do,
\* preserves the invariant as long as committedVersion stays.
LEMMA RemovalInv ==
    ASSUME VMInv, NEW S,
           committedVersion \notin S,
           versions' = MapDelete(versions, S),
           UNCHANGED <<latestVersion, committedVersion, pendingWrites, retention,
                       clock, panicked>>
    PROVE  VMInv'
    <1>1. /\ DOMAIN versions' = DOMAIN versions \ S
          /\ \A x \in DOMAIN versions' : versions'[x] = versions[x]
        BY DEF MapDelete
    <1>2. VMTypeOK'
        <2>1. versions' \in [DOMAIN versions \ S -> VersionInfo]
            BY MapType DEF VMInv, VMTypeOK, MapDelete
        <2> QED
            BY <1>1, <2>1 DEF VMInv, VMTypeOK
    <1>3. CommittedVersionIsNewest'
        BY <1>1 DEF VMInv, CommittedVersionIsNewest, IsCommitted
    <1> QED
        BY <1>1, <1>2, <1>3
        DEF VMInv, VersionNumbersDisjoint, IsCommitted, HistoryIsAcyclic,
            LineageIsCommitted, ParentsNotPending

\* Every step of the manager preserves the invariant.
LEMMA VMStepInv == VMInv /\ [VMNext]_vmVars => VMInv'
    <1> SUFFICES ASSUME VMInv, [VMNext]_vmVars PROVE VMInv'
        OBVIOUS
    <1>1. ASSUME NEW v \in Version, Begin(v) PROVE VMInv'
        BY <1>1, BeginInv
    <1>2. ASSUME NEW v \in Version, NEW h \in Hashes, Commit(v, h) PROVE VMInv'
        BY <1>2, CommitInv
    <1>3. ASSUME NEW v \in Version, Abort(v) PROVE VMInv'
        BY <1>3, AbortInv
    <1>4. ASSUME NEW v \in Version, NEW u \in Updaters, SetPendingUpdater(v, u)
          PROVE VMInv'
        BY <1>4, SetPendingUpdaterInv
    <1>5. ASSUME NEW v \in Version, RemoveVersion(v) PROVE VMInv'
        BY <1>5, RemovalInv DEF RemoveVersion
    <1>6. CASE CollectGarbage
        <2>1. committedVersion \notin Removed
            BY RemovedLemma DEF VMInv
        <2> QED
            BY <1>6, <2>1, RemovalInv DEF CollectGarbage
    <1> DEFINE Kept == UNCHANGED <<versions, latestVersion, committedVersion,
                                   pendingWrites>>
    <1>7. ASSUME Kept, VMTypeOK' PROVE VMInv'
        BY <1>7 DEF VMInv, VersionNumbersDisjoint, CommittedVersionIsNewest,
            IsCommitted, HistoryIsAcyclic, LineageIsCommitted, ParentsNotPending
    <1>8. CASE CollectGarbageCrash
        BY <1>7, <1>8 DEF CollectGarbageCrash, VMInv, VMTypeOK
    <1>9. ASSUME NEW p \in Policies, NEW n \in MinVersions, NEW a \in MaxAges,
                 SetRetentionPolicy(p, n, a)
          PROVE VMInv'
        BY <1>7, <1>9, RetentionAssumption
        DEF SetRetentionPolicy, VMInv, VMTypeOK, Retention
    <1>10. CASE Tick
        BY <1>7, <1>10, MaxClockAssumption DEF Tick, VMInv, VMTypeOK
    <1>11. CASE UNCHANGED vmVars
        BY <1>7, <1>11 DEF vmVars, VMInv, VMTypeOK
    <1> QED
        BY <1>1, <1>2, <1>3, <1>4, <1>5, <1>6, <1>8, <1>9, <1>10, <1>11 DEF VMNext

-----------------------------------------------------------------------------
(* The theorems.                                                           *)

\* The strengthened invariant holds in every reachable state of the manager.
THEOREM VMInvariance == VMSpec => []VMInv
    BY VMInitInv, VMStepInv, PTL DEF VMSpec

\* Type correctness of the manager's maps and counters.
THEOREM VMTypeCorrect == VMSpec => []VMTypeOK
    <1>1. VMInv => VMTypeOK
        BY DEF VMInv
    <1> QED
        BY VMInvariance, <1>1, PTL

\* committedVersion (version_manager.go Commit, CollectGarbage, RemoveVersion)
\* is always on record, committed, and the newest committed version.
THEOREM VMCommittedIsNewest == VMSpec => []CommittedVersionIsNewest
    <1>1. VMInv => CommittedVersionIsNewest
        BY DEF VMInv
    <1> QED
        BY VMInvariance, <1>1, PTL

\* No committed or pending version is built on an aborted one, although Begin
\* checks the parent's status only once.
THEOREM VMLineage == VMSpec => [](LineageIsCommitted /\ HistoryIsAcyclic)
    <1>1. VMInv => LineageIsCommitted /\ HistoryIsAcyclic
        BY DEF VMInv
    <1> QED
        BY VMInvariance, <1>1, PTL

\* Every step keeps every version number handed out so far as it was.
LEMMA VMStepKeeps ==
    VMInv /\ [VMNext]_vmVars => [\A v \in 0 .. latestVersion : VersionKept(v)]_vmVars
    <1> SUFFICES ASSUME VMInv, VMNext, NEW x \in 0 .. latestVersion
                 PROVE  VersionKept(x)
        BY DEF vmVars
    <1>1. ASSUME NEW v \in Version, Begin(v) PROVE VersionKept(x)
        <2>1. latestVersion \in Int
            BY DEF VMInv, VMTypeOK, Version
        <2> QED
            BY <1>1, <2>1 DEF Begin, NewVersion, MapPut, VersionKept
    <1>2. ASSUME NEW v \in Version, NEW h \in Hashes, Commit(v, h)
          PROVE VersionKept(x)
        BY <1>2 DEF Commit, MapPut, MapDelete, VersionKept, VMInv,
            VersionNumbersDisjoint
    <1>3. ASSUME NEW v \in Version, Abort(v) PROVE VersionKept(x)
        BY <1>3 DEF Abort, MapPut, MapDelete, VersionKept, VMInv,
            VersionNumbersDisjoint
    <1>4. ASSUME NEW v \in Version, NEW u \in Updaters, SetPendingUpdater(v, u)
          PROVE VersionKept(x)
        BY <1>4 DEF SetPendingUpdater, VersionKept, VMInv, VMTypeOK, PendingVersion
    <1>5. ASSUME NEW S, versions' = MapDelete(versions, S), UNCHANGED pendingWrites
          PROVE VersionKept(x)
        BY <1>5 DEF MapDelete, VersionKept
    <1>6. ASSUME NEW v \in Version, RemoveVersion(v) PROVE VersionKept(x)
        BY <1>5, <1>6 DEF RemoveVersion
    <1>7. CASE CollectGarbage
        BY <1>5, <1>7 DEF CollectGarbage
    <1>8. ASSUME UNCHANGED <<versions, pendingWrites>> PROVE VersionKept(x)
        BY <1>8 DEF VersionKept
    <1>9. CASE CollectGarbageCrash
        BY <1>8, <1>9 DEF CollectGarbageCrash
    <1>10. ASSUME NEW p \in Policies, NEW n \in MinVersions, NEW a \in MaxAges,
                  SetRetentionPolicy(p, n, a)
           PROVE VersionKept(x)
        BY <1>8, <1>10 DEF SetRetentionPolicy
    <1>11. CASE Tick
        BY <1>8, <1>11 DEF Tick
    <1> QED
        BY <1>1, <1>2, <1>3, <1>4, <1>6, <1>7, <1>9, <1>10, <1>11 DEF VMNext

\* A version number is used once: a committed version never changes, an
\* aborted or removed one never comes back, a pending one keeps its parent.
THEOREM VMImmutable == VMSpec => VersionsAreImmutable
    BY VMInvariance, VMStepKeeps, PTL DEF VMSpec, VersionsAreImmutable

-----------------------------------------------------------------------------
(* Garbage collection.  An element's rank in a finite set of numbers, how  *)
(* many are smaller, is what Oldest compares: the ranks of n elements are  *)
(* 0 .. n-1, each once.                                                    *)

\* How many elements of S are smaller than v.
Rank(S, v) == Cardinality({w \in S : w < v})

\* Ranks are strictly increasing and smaller than the size of the set.
LEMMA RankOrder ==
    ASSUME NEW S \in SUBSET Nat, IsFiniteSet(S)
    PROVE  /\ Cardinality(S) \in Nat
           /\ \A v \in S : Rank(S, v) \in 0 .. Cardinality(S) - 1
           /\ \A u, v \in S : u < v => Rank(S, u) < Rank(S, v)
    <1> DEFINE below(v) == {w \in S : w < v}
    <1>1. Cardinality(S) \in Nat
        BY FS_CardinalityType
    <1>2. \A v \in S : \A w : w \in below(v) <=> w \in S /\ w < v
        OBVIOUS
    <1>3. \A v \in S : Rank(S, v) = Cardinality(below(v))
        BY DEF Rank
    <1> HIDE DEF below
    <1>4. \A v \in S : below(v) \subseteq S \ {v}
        BY <1>2
    <1>5. \A v \in S : IsFiniteSet(below(v)) /\ Cardinality(below(v)) \in Nat
        BY <1>4, FS_Subset, FS_CardinalityType
    <1>6. ASSUME NEW v \in S PROVE Rank(S, v) \in 0 .. Cardinality(S) - 1
        <2>1. IsFiniteSet(S \ {v}) /\ Cardinality(S \ {v}) = Cardinality(S) - 1
            BY FS_RemoveElement
        <2>2. Cardinality(below(v)) <= Cardinality(S \ {v})
            BY <1>4, <2>1, FS_Subset
        <2>3. Cardinality(below(v)) \in Nat
            BY <1>5
        <2> QED
            BY <1>1, <1>3, <2>1, <2>2, <2>3
    <1>7. ASSUME NEW u \in S, NEW v \in S, u < v PROVE Rank(S, u) < Rank(S, v)
        <2>1. u \notin below(u)
            BY <1>2
        <2>2. Cardinality(below(u) \cup {u}) = Cardinality(below(u)) + 1
            BY <1>5, <2>1, FS_AddElement
        <2>3. ASSUME NEW w \in below(u) \cup {u} PROVE w \in below(v)
            <3>1. w \in S /\ (w < u \/ w = u)
                BY <1>2, <2>3
            <3>2. w < v
                BY <1>7, <3>1
            <3> QED
                BY <1>2, <3>1, <3>2
        <2>4. below(u) \cup {u} \subseteq below(v)
            BY <2>3
        <2>5. Cardinality(below(u) \cup {u}) <= Cardinality(below(v))
            BY <1>5, <2>4, FS_Subset
        <2>6. Cardinality(below(u)) \in Nat /\ Cardinality(below(v)) \in Nat
            BY <1>5
        <2>7. Cardinality(below(u)) < Cardinality(below(v))
            BY <2>2, <2>5, <2>6
        <2> QED
            BY <1>3, <2>7
    <1> QED
        BY <1>1, <1>6, <1>7

\* Every rank is taken.
LEMMA RankTaken ==
    ASSUME NEW S \in SUBSET Nat, IsFiniteSet(S), NEW r \in 0 .. Cardinality(S) - 1
    PROVE  \E v \in S : Rank(S, v) = r
    <1> DEFINE N == Cardinality(S)
               f == [v \in S |-> Rank(S, v)]
    <1>1. N \in Nat
        BY RankOrder
    <1>2. f \in Injection(S, 0 .. N - 1)
        <2>1. f \in [S -> 0 .. N - 1]
            BY RankOrder
        <2>2. \A u, v \in S : f[u] = f[v] => u = v
            BY RankOrder
        <2> QED
            BY <2>1, <2>2 DEF Injection, IsInjective
    <1>3. IsFiniteSet(0 .. N - 1) /\ Cardinality(0 .. N - 1) = N
        BY <1>1, FS_Interval
    <1> HIDE DEF f, N
    <1>4. f \in Surjection(S, 0 .. N - 1)
        BY <1>2, <1>3, FS_Injection DEF N
    <1> QED
        BY <1>4 DEF Surjection, f, N

\* A non-empty finite set of numbers has a largest element.
LEMMA LargestExists ==
    ASSUME NEW S \in SUBSET Nat, IsFiniteSet(S), S # {}
    PROVE  \E v \in S : \A w \in S : w <= v
    <1>1. Cardinality(S) \in Nat /\ Cardinality(S) # 0
        BY FS_CardinalityType, FS_EmptySet
    <1>2. PICK v \in S : Rank(S, v) = Cardinality(S) - 1
        BY <1>1, RankTaken
    <1>3. \A w \in S : ~ (v < w)
        BY <1>1, <1>2, RankOrder
    <1> QED
        BY <1>3

\* Oldest(S, n) has n elements, or all if there are fewer.
LEMMA OldestCount ==
    ASSUME NEW S \in SUBSET Nat, IsFiniteSet(S), NEW n \in Int
    PROVE  /\ IsFiniteSet(Oldest(S, n))
           /\ n <= 0 => Oldest(S, n) = {}
           /\ n >= Cardinality(S) => Oldest(S, n) = S
           /\ n \in 0 .. Cardinality(S) => Cardinality(Oldest(S, n)) = n
    <1> DEFINE old == Oldest(S, n)
               f == [v \in old |-> Rank(S, v)]
    <1>1. \A v : v \in old <=> v \in S /\ Rank(S, v) < n
        BY DEF Oldest, Rank
    <1>2. /\ Cardinality(S) \in Nat
          /\ \A v \in S : Rank(S, v) \in 0 .. Cardinality(S) - 1
          /\ \A u, v \in S : Rank(S, u) = Rank(S, v) => u = v
        <2>1. \A u, v \in S : u = v \/ u < v \/ v < u
            OBVIOUS
        <2> QED
            BY <2>1, RankOrder
    <1>2a. \A v \in S : Rank(S, v) \in Int /\ 0 <= Rank(S, v)
        BY <1>2
    <1>3. \A v \in old : f[v] = Rank(S, v)
        OBVIOUS
    <1>4. f \in [old -> {Rank(S, v) : v \in old}]
        OBVIOUS
    <1> HIDE DEF f, old
    <1>5. old \subseteq S
        BY <1>1
    <1>6. IsFiniteSet(old)
        BY <1>5, FS_Subset
    <1>7. ASSUME n <= 0, NEW v \in old PROVE FALSE
        <2>1. v \in S /\ Rank(S, v) < n
            BY <1>1
        <2>2. Rank(S, v) \in Int /\ 0 <= Rank(S, v)
            BY <1>2a, <2>1
        <2> QED
            BY <1>7, <2>1, <2>2
    <1>8. ASSUME n >= Cardinality(S), NEW v \in S PROVE v \in old
        <2>1. Rank(S, v) < n
            BY <1>2, <1>8
        <2> QED
            BY <1>1, <2>1
    <1>9. ASSUME n \in 0 .. Cardinality(S) PROVE Cardinality(old) = n
        <2>1. \A v \in old : Rank(S, v) \in 0 .. n - 1
            <3>1. \A v \in old : Rank(S, v) \in Int /\ 0 <= Rank(S, v) /\ Rank(S, v) < n
                BY <1>1, <1>2a
            <3> QED
                BY <3>1
        <2>2. f \in [old -> 0 .. n - 1]
            BY <1>4, <2>1
        <2>3. \A u, v \in old : f[u] = f[v] => u = v
            BY <1>1, <1>2, <1>3
        <2>4. ASSUME NEW r \in 0 .. n - 1 PROVE \E v \in old : f[v] = r
            <3>1. r \in 0 .. Cardinality(S) - 1 /\ r < n
                BY <1>2, <1>9
            <3>2. PICK v \in S : Rank(S, v) = r
                BY <3>1, RankTaken
            <3> QED
                BY <1>1, <1>3, <3>1, <3>2
        <2>5. f \in Bijection(old, 0 .. n - 1)
            BY <2>2, <2>3, <2>4 DEF Bijection, Injection, Surjection, IsInjective
        <2>6. Cardinality(0 .. n - 1) = Cardinality(old)
            BY <1>6, <2>5, FS_Bijection DEF ExistsBijection
        <2>7. Cardinality(0 .. n - 1) = n
            BY <1>9, FS_Interval
        <2> QED
            BY <2>6, <2>7
    <1> QED
        BY <1>5, <1>6, <1>7, <1>8, <1>9 DEF old

\* Whatever CollectGarbage would remove in a state of the invariant leaves the
\* minimum, and under the count policy it is what is oldest.
LEMMA GCKeepsNewestInv == VMInv => GCKeepsNewest
    <1> DEFINE S == CommittedVersions
               E == ExpiredVersions
               N == Cardinality(S)
               m == retention.minVersions
               kept == S \ Removed
               limit == IF m = 0 THEN 1 ELSE m
    <1> SUFFICES ASSUME VMInv, ~ CollectGarbagePanics
                 PROVE  /\ Removed # {} => Cardinality(kept) >= m
                        /\ retention.policy = "Count" =>
                             /\ \A v \in Removed, w \in kept : v < w
                             /\ Cardinality(kept) <= limit
        BY DEF GCKeepsNewest
    <1>1. S \in SUBSET Nat /\ IsFiniteSet(S)
        <2>1. S \subseteq 0 .. MaxVersion
            BY DEF CommittedVersions, VMInv, VMTypeOK, Version
        <2>2. IsFiniteSet(0 .. MaxVersion)
            BY MaxVersionAssumption, FS_Interval
        <2>3. IsFiniteSet(S)
            BY <2>1, <2>2, FS_Subset
        <2>4. S \subseteq Nat
            BY <2>1
        <2> QED
            BY <2>3, <2>4
    <1>2. /\ m \in Nat
          /\ retention.policy \in {"Count", "Time", "None"}
          /\ committedVersion \in Nat
        BY MaxVersionAssumption DEF VMInv, VMTypeOK, Retention, Policies, Version
    <1>3. \A v \in S : v <= committedVersion
        BY DEF VMInv, CommittedVersionIsNewest, CommittedVersions
    <1>4. Removed \subseteq S /\ committedVersion \notin Removed
        BY RemovedLemma DEF VMInv
    <1>5. /\ E \in SUBSET Nat /\ IsFiniteSet(E)
          /\ Cardinality(E) \in Nat
        <2>1. E \subseteq S
            BY DEF ExpiredVersions
        <2> QED
            BY <1>1, <2>1, FS_Subset, FS_CardinalityType
    <1>6. N \in Nat
        BY <1>1, FS_CardinalityType
    <1>7. /\ IsFiniteSet(Removed) /\ Cardinality(Removed) \in Nat
          /\ Cardinality(kept) = N - Cardinality(Removed)
        <2>1. IsFiniteSet(Removed) /\ Cardinality(Removed) \in Nat
            BY <1>1, <1>4, FS_Subset, FS_CardinalityType
        <2>2. S \cap Removed = Removed
            BY <1>4
        <2> QED
            BY <1>1, <2>1, <2>2, FS_Difference
    <1>8. /\ retention.policy = "Count" => ToRemove = Oldest(S, N - m)
          /\ retention.policy = "None" => ToRemove = {}
          /\ retention.policy = "Time" /\ KeepsTooFew => ToRemove = Oldest(E, N - m)
          /\ retention.policy = "Time" /\ ~ KeepsTooFew => ToRemove = E
        BY DEF ToRemove
    <1>9. Removed = ToRemove \ {committedVersion}
        BY DEF Removed
    <1>10. KeepsTooFew <=> N - Cardinality(E) < m
        BY DEF KeepsTooFew
    <1>11. retention.policy = "Time" /\ KeepsTooFew => N >= m
        BY <1>2, <1>6 DEF CollectGarbagePanics
    <1> HIDE DEF S, E, N, m
    <1>12. CASE retention.policy = "None"
        BY <1>8, <1>9, <1>12
    <1>13. CASE retention.policy = "Count" /\ N <= m
        <2>1. Removed = {}
            <3>1. ToRemove = {}
                BY <1>1, <1>2, <1>6, <1>8, <1>13, OldestCount
            <3> QED
                BY <1>9, <3>1
        <2>2. Cardinality(kept) <= limit
            <3>1. Cardinality(kept) \in Int /\ Cardinality(kept) <= N
                BY <1>6, <1>7
            <3> HIDE DEF kept
            <3> QED
                BY <1>2, <1>6, <1>13, <3>1
        <2> QED
            BY <2>1, <2>2
    <1>14. CASE retention.policy = "Count" /\ N > m
        <2> DEFINE old == Oldest(S, N - m)
        <2>1. ToRemove = old
            BY <1>8, <1>14
        <2>2. \A v : v \in old <=> v \in S /\ Rank(S, v) < N - m
            BY DEF Oldest, Rank
        <2>3. N - m \in Int /\ N - m \in 0 .. Cardinality(S)
            BY <1>2, <1>6, <1>14 DEF N
        <2>4. Cardinality(old) = N - m
            BY <1>1, <2>3, OldestCount
        <2>5. /\ \A v \in S : v \in Int /\ Rank(S, v) \in Int
              /\ \A u, v \in S : u < v => Rank(S, u) < Rank(S, v)
            BY <1>1, RankOrder
        <2> HIDE DEF old
        <2>6. ASSUME NEW u \in S, NEW v \in old, u <= v PROVE u \in old
            <3>1. v \in S /\ Rank(S, v) < N - m
                BY <2>2
            <3>2. u = v \/ Rank(S, u) < Rank(S, v)
                BY <2>5, <2>6, <3>1
            <3>3. Rank(S, u) < N - m
                BY <2>3, <2>5, <3>1, <3>2
            <3> QED
                BY <2>2, <3>3
        <2>7. CASE committedVersion \notin old
            <3>1. Removed = old
                BY <1>9, <2>1, <2>7
            <3>2. Cardinality(kept) = m
                BY <1>2, <1>6, <1>7, <2>4, <3>1
            <3>3. ASSUME NEW v \in Removed, NEW w \in kept PROVE v < w
                <4>1. v \in S /\ w \in S /\ v \in old /\ w \notin old
                    BY <2>2, <3>1
                <4>2. ~ (w <= v)
                    BY <2>6, <4>1
                <4> QED
                    BY <2>5, <4>1, <4>2
            <3> QED
                BY <1>2, <3>2, <3>3
        <2>8. CASE committedVersion \in old
            <3>1. old = S
                BY <1>3, <2>2, <2>6, <2>8
            <3>2. m = 0
                BY <1>2, <1>6, <2>4, <3>1 DEF N
            <3>3. kept = {committedVersion}
                BY <1>9, <2>1, <2>8, <3>1
            <3>4. Cardinality(kept) = 1
                BY <3>3, FS_Singleton
            <3>5. ASSUME NEW v \in Removed, NEW w \in kept PROVE v < w
                <4>1. v \in S /\ v # committedVersion /\ w = committedVersion
                    BY <1>4, <3>3
                <4> QED
                    BY <1>2, <1>3, <2>5, <4>1
            <3> QED
                BY <3>2, <3>4, <3>5
        <2> QED
            BY <2>7, <2>8
    <1>15. CASE retention.policy = "Time"
        <2>1. Cardinality(ToRemove) <= N - m /\ IsFiniteSet(ToRemove)
            <3>1. CASE ~ KeepsTooFew
                BY <1>2, <1>5, <1>6, <1>8, <1>10, <1>15, <3>1
            <3>2. CASE KeepsTooFew
                <4> DEFINE old == Oldest(E, N - m)
                <4>1. ToRemove = old /\ N - m \in Int /\ 0 <= N - m
                    BY <1>2, <1>6, <1>8, <1>11, <1>15, <3>2
                <4>2. /\ IsFiniteSet(old)
                      /\ N - m >= Cardinality(E) => old = E
                      /\ N - m \in 0 .. Cardinality(E) => Cardinality(old) = N - m
                    BY <1>5, <4>1, OldestCount
                <4> QED
                    BY <1>5, <4>1, <4>2
            <3> QED
                BY <3>1, <3>2
        <2>2. Cardinality(Removed) <= Cardinality(ToRemove)
            BY <1>9, <2>1, FS_Subset
        <2>3. Cardinality(ToRemove) \in Nat
            BY <2>1, FS_CardinalityType
        <2> QED
            BY <1>2, <1>6, <1>7, <1>15, <2>1, <2>2, <2>3
    <1> QED
        BY <1>2, <1>6, <1>12, <1>13, <1>14, <1>15

\* Garbage collection (CollectGarbage) leaves at least minVersionsToKeep
\* committed versions, and under the count policy exactly the newest ones, for
\* every number of versions and every minimum.
THEOREM VMGCKeepsNewest == VMSpec => []GCKeepsNewest
    BY VMInvariance, GCKeepsNewestInv, PTL
=============================================================================
