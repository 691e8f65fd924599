------------------------------ MODULE Pruning ------------------------------
(***************************************************************************)
(* The pruning policies (pkg/storage/pruning.go), asked about the versions *)
(* a store holds.  Versions are unsigned and wrap.                         *)
(***************************************************************************)
EXTENDS Iteration

CONSTANTS
    MaxKeep,        \* bound on N and on the interval of milestones
    Timestamp(_)    \* when a version was created

\* types.Version(x): arithmetic on versions is modulo 2^64.
ToVersion(x) == x % Power(VersionSize)

\* KeepLastNVersions.ShouldPrune.
KeepLastNVersions(n, current, v) ==
    v # current /\ ToVersion(current - v) > ToVersion(n)

\* KeepVersionsNewerThan.ShouldPrune.
KeepVersionsNewerThan(age, now, v) == now - Timestamp(v) > age

\* Mutant: the current version is nothing special.
KeepMilestonesOnly(interval, current, v) == v % interval # 0

\* KeepMilestoneVersions.ShouldPrune; an interval of zero panics.
KeepMilestoneVersions(interval, current, v) == v # current /\ v % interval # 0

\* CompositePruningPolicy.ShouldPrune, of what its policies answer.
Composite(all, answers) ==
    /\ answers # <<>>
    /\ IF all THEN \A i \in DOMAIN answers : answers[i]
       ELSE \E i \in DOMAIN answers : answers[i]

-----------------------------------------------------------------------------
(* Properties.                                                             *)

Recovered == LoadRootHashes(engine, Store)

\* With policies made for the latest version a store holds: no version that
\* KeepLastNVersions keeps is older than one it prunes, and the latest version
\* survives every combination of the count and milestone policies, and the
\* conjunction of either with an age limit it exceeds (ShouldPrune of the
\* policies and of CompositePruningPolicy).
PruningKeepsNewest ==
    LET held == Recovered.versions
        current == Recovered.latest
    IN  \A n, interval \in 1 .. MaxKeep, now \in current .. current + MaxKeep :
            LET old(v) == KeepLastNVersions(n, current, v)
                other(v) == KeepMilestoneVersions(interval, current, v)
                aged(v) == KeepVersionsNewerThan(0, now, v)
                pruned(v) == \/ Composite(FALSE, <<old(v), other(v)>>)
                             \/ Composite(TRUE, <<aged(v), old(v)>>)
                             \/ Composite(TRUE, <<other(v), aged(v)>>)
            IN  /\ \A v, w \in held : old(v) /\ ~ old(w) => v < w
                /\ ~ pruned(current)

\* A policy made for an earlier version keeps the versions written since
\* (KeepLastNVersions.ShouldPrune).
StalePolicyKeepsNewer ==
    \A n \in 1 .. MaxKeep, v, made \in Recovered.versions :
        made < v => ~ KeepLastNVersions(n, made, v)

\* No more than N versions are kept (KeepLastNVersions.ShouldPrune).
KeepsAtMostN ==
    \A n \in 1 .. MaxKeep :
        Cardinality({v \in Recovered.versions :
                        ~ KeepLastNVersions(n, Recovered.latest, v)}) <= n
=============================================================================
