--------------------------- MODULE VersionedStore ---------------------------
(***************************************************************************)
(* What the tree promises its clients, without locks, caches, updaters or  *)
(* root hashes: a durable map from version numbers to key-value contents.  *)
(*                                                                         *)
(*   - a version is built privately from the contents of a durable parent, *)
(*     one key at a time;                                                  *)
(*   - it becomes durable in one step, whole, and never changes again;     *)
(*   - readers see only durable versions; garbage collection may hide old  *)
(*     ones, never the newest one visible;                                 *)
(*   - a crash loses what was being built and nothing else.                *)
(***************************************************************************)
EXTENDS Integers

CONSTANTS
    Keys,       \* the keys clients use
    Values,     \* the values clients store
    NoValue,    \* a key with no value
    Version     \* version numbers

Contents == [Keys -> Values \cup {NoValue}]

EmptyTree == [k \in Keys |-> NoValue]

VARIABLES
    store,      \* durable versions: a function from version numbers to contents
    visible,    \* the versions a reader can open
    building    \* versions under construction and their contents so far

storeVars == <<store, visible, building>>

Init ==
    /\ store = [v \in {0} |-> EmptyTree]
    /\ visible = {0}
    /\ building = [v \in {} |-> EmptyTree]

Extend(f, k, x) == [y \in DOMAIN f \cup {k} |-> IF y = k THEN x ELSE f[y]]

Without(f, S) == [y \in DOMAIN f \ S |-> f[y]]

Newest(S) == CHOOSE v \in S : \A w \in S : w <= v

\* A new version starts as a copy of a durable one.
BeginVersion(v, p) ==
    /\ v \notin DOMAIN store \cup DOMAIN building
    /\ p \in DOMAIN store
    /\ building' = Extend(building, v, store[p])
    /\ UNCHANGED <<store, visible>>

\* One key of a version under construction changes.
Write(v, k, x) ==
    /\ v \in DOMAIN building
    /\ building' = [building EXCEPT ![v][k] = x]
    /\ UNCHANGED <<store, visible>>

\* The version becomes durable, whole, under a number never used before.
CommitVersion(v) ==
    /\ v \in DOMAIN building
    /\ v \notin DOMAIN store
    /\ store' = Extend(store, v, building[v])
    /\ building' = Without(building, {v})
    /\ UNCHANGED visible

\* Durable versions become visible to readers.
Publish(S) ==
    /\ S \subseteq DOMAIN store
    /\ visible' = visible \cup S
    /\ UNCHANGED <<store, building>>

AbortVersion(v) ==
    /\ building' = Without(building, {v})
    /\ UNCHANGED <<store, visible>>

\* Garbage collection hides versions, never the newest visible one.
Hide(S) ==
    /\ Newest(visible) \notin S
    /\ visible' = visible \ S
    /\ UNCHANGED <<store, building>>

\* After a crash the newest durable version is visible again.
Recover ==
    /\ building' = [v \in {} |-> EmptyTree]
    /\ visible' \in SUBSET DOMAIN store
    /\ Newest(DOMAIN store) \in visible'
    /\ UNCHANGED store

Next ==
    \/ \E v \in Version :
        \/ \E p \in Version : BeginVersion(v, p)
        \/ \E k \in Keys, x \in Values \cup {NoValue} : Write(v, k, x)
        \/ CommitVersion(v)
        \/ AbortVersion(v)
    \/ \E S \in SUBSET Version : Publish(S) \/ Hide(S)
    \/ Recover

Spec == Init /\ [][Next]_storeVars
=============================================================================
