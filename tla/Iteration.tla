----------------------------- MODULE Iteration -----------------------------
(***************************************************************************)
(* Iterators of the two storage engines over the keys Encoding makes       *)
(* (pkg/storage/memory/memory.go, pkg/storage/pebble/pebble.go), and the   *)
(* scan that finds the versions again when a tree is opened                *)
(* (Tree.loadRootHashes).                                                  *)
(*                                                                         *)
(* An iterator works on a copy of the data, so the store does not change.  *)
(* Opening and closing are Storage's; here an iterator is open.            *)
(***************************************************************************)
EXTENDS Encoding

CONSTANTS
    Entries,    \* what a store may hold: roots, nodes, values, keyed values
    MaxEntries, \* bound on the entries of one store
    Options,    \* the IteratorOptions clients pass
    Targets     \* the keys they seek

\* A nil prefix or bound.
Nil == NoBytes

\* A store's key for an entry.
StorageKey(e) ==
    CASE e.kind = "root" -> RootKey(e.version)
      [] e.kind = "node" -> NodeStorageKey(e.key)
      [] e.kind = "value" -> ValueKey(e.hash)
      [] e.kind = "keyed" -> ValueKeyByKey(e.key)

\* What a tree writes fits the fields of its keys.
Versions == 0 .. Power(VersionSize) - 1
Stored(e) ==
    CASE e.kind = "root" -> e.version \in Versions
      [] e.kind = "node" -> /\ e.key \in [version : Versions, path : Seq(0 .. NibbleBase - 1)]
                            /\ Len(e.key.path) <= MaxTreeDepth
      [] e.kind = "value" -> e.hash \in [1 .. HashSize -> Bytes]
      [] e.kind = "keyed" -> e.key \in [1 .. KeySize -> Bytes]

\* What an entry is called.
NameOf(e) ==
    CASE e.kind = "root" -> e.version
      [] e.kind = "value" -> e.hash
      [] e.kind \in {"node", "keyed"} -> e.key

\* There is one entry of a kind and name: nodes never change.
ASSUME StoreIsWritten ==
    /\ IsFiniteSet(Entries) /\ MaxEntries \in Nat
    /\ \A e \in Entries : e.kind \in {"root", "node", "value", "keyed"} /\ Stored(e)
    /\ \A e, f \in Entries : e.kind = f.kind /\ NameOf(e) = NameOf(f) => e = f
    /\ \A o \in Options : \A b \in {o.prefix, o.lower, o.upper} : b = Nil \/ b \in Seq(Bytes)
    /\ Targets \subseteq Seq(Bytes)

VARIABLES
    entries,    \* what was written
    engine,     \* "memory" or "pebble"
    options,    \* the iterator's options
    keys,       \* the keys it runs over, in order
    index,      \* its position: -1 before the first key, Len(keys) after the last
    walk,       \* history: how it was positioned, and the way it was moved since
    seen        \* history: the keys this walk has returned

vars == <<entries, engine, options, keys, index, walk, seen>>

Store == {StorageKey(e) : e \in entries}

-----------------------------------------------------------------------------
(* Which keys an iterator runs over.                                       *)

\* sort.Strings, of keys that all differ.
Sorted(store) ==
    CHOOSE s \in [1 .. Cardinality(store) -> store] :
        \A i, j \in DOMAIN s : i < j => BytesLess(s[i], s[j])

\* sort.SearchStrings: the first position whose key is not less.
SearchStrings(ks, x) == Cardinality({i \in DOMAIN ks : BytesLess(ks[i], x)})

\* The loop that filters by prefix.
WithPrefix(ks, prefix) ==
    LET filtered[i \in 0 .. Len(ks)] ==
            IF i = 0 THEN <<>>
            ELSE IF IsPrefix(prefix, ks[i]) THEN Append(filtered[i - 1], ks[i])
            ELSE filtered[i - 1]
    IN  filtered[Len(ks)]

\* NewIterator of the memory engine and of its snapshots.
MemoryKeys(store, o) ==
    LET sorted == Sorted(store)
        above == IF o.lower = Nil THEN sorted
                 ELSE SubSeq(sorted, SearchStrings(sorted, o.lower) + 1, Len(sorted))
    IN  IF o.prefix # Nil THEN WithPrefix(sorted, o.prefix)
        ELSE IF o.upper = Nil THEN above
        ELSE SubSeq(above, 1, SearchStrings(above, o.upper))

\* prefixUpperBound: the last byte that is not the largest is increased, and
\* the bytes after it stay.
PrefixUpperBound(prefix) ==
    LET low == {i \in DOMAIN prefix : prefix[i] < Byte - 1}
    IN  IF low = {} THEN Nil ELSE [prefix EXCEPT ![Max(low)] = @ + 1]

\* External: Pebble keeps to the bounds it is given.
InBounds(k, lower, upper) ==
    /\ lower = Nil \/ ~ BytesLess(k, lower)
    /\ upper = Nil \/ BytesLess(k, upper)

\* NewIterator of the Pebble engine and of its snapshots.
PebbleKeys(store, o) ==
    LET lower == IF o.prefix # Nil THEN o.prefix ELSE o.lower
        upper == IF o.prefix # Nil THEN PrefixUpperBound(o.prefix) ELSE o.upper
    IN  Sorted({k \in store : InBounds(k, lower, upper)})

KeysOf(e, store, o) == IF e = "memory" THEN MemoryKeys(store, o) ELSE PebbleKeys(store, o)

-----------------------------------------------------------------------------

\* A walk starts with First or Last (no target) or with a seek, and lasts as
\* long as Next, or Prev, follows.
Walk(way, target) == [way |-> way, target |-> target]
NoWalk == Walk("none", Nil)
Fresh == Walk("fresh", Nil)

Init ==
    /\ entries \in UNION {kSubset(n, Entries) : n \in 0 .. MaxEntries}
    /\ engine \in {"memory", "pebble"}
    /\ options \in Options
    /\ keys = KeysOf(engine, Store, options)
    /\ index = -1
    /\ walk = Fresh
    /\ seen = <<>>

Valid(i) == i >= 0 /\ i < Len(keys)

\* Moves to a position as part of a walk that has returned some keys before.
MoveTo(i, w, before) ==
    /\ index' = i
    /\ walk' = w
    /\ seen' = IF w = NoWalk THEN <<>>
               ELSE IF Valid(i) THEN Append(before, keys[i + 1]) ELSE before
    /\ UNCHANGED <<entries, engine, options, keys>>

SeekGE(target) == MoveTo(SearchStrings(keys, target), Walk("forward", target), <<>>)

SeekLT(target) == MoveTo(SearchStrings(keys, target) - 1, Walk("backward", target), <<>>)

\* On an iterator without keys the memory engine stays where it is, which is
\* never a valid position.
FirstKey == MoveTo(IF keys # <<>> THEN 0 ELSE index, Walk("forward", Nil), <<>>)

LastKey == MoveTo(IF keys # <<>> THEN Len(keys) - 1 ELSE index, Walk("backward", Nil), <<>>)

\* The walk goes on if the iterator moves the same way again.
Onward(way) == IF walk.way = way THEN walk ELSE NoWalk

\* Mutant: the last key is left out.
NextIndexShort(i) ==
    IF i >= 0 /\ i < Len(keys) - 2 THEN i + 1 ELSE Len(keys)

\* The memory engine's Next: from before the first key it goes to the end.
NextIndex(i) ==
    IF i >= 0 /\ i < Len(keys) - 1 THEN i + 1 ELSE Len(keys)

PrevIndex(i) ==
    IF i > 0 /\ i <= Len(keys) THEN i - 1 ELSE -1

\* External: Pebble's Next and Prev, one key on from wherever it is.
PebbleNextIndex(i) == Min({i + 1, Len(keys)})
PebblePrevIndex(i) == Max({i - 1, -1})

\* Pebble's iterators are positioned before they are moved.
NextKey ==
    /\ engine = "pebble" => walk # Fresh
    /\ MoveTo(IF engine = "memory" THEN NextIndex(index) ELSE PebbleNextIndex(index),
              Onward("forward"), seen)

PrevKey ==
    /\ engine = "pebble" => walk # Fresh
    /\ MoveTo(IF engine = "memory" THEN PrevIndex(index) ELSE PebblePrevIndex(index),
              Onward("backward"), seen)

Next ==
    \/ \E t \in Targets : SeekGE(t)
    \/ \E t \in Targets : SeekLT(t)
    \/ FirstKey
    \/ LastKey
    \/ NextKey
    \/ PrevKey

Spec == Init /\ [][Next]_vars

-----------------------------------------------------------------------------
(* Opening a tree.                                                         *)

\* loadRootHashes: every key of the prefix scan must parse as a root key.
LoadRootHashes(e, store) ==
    LET found == KeysOf(e, store, [prefix |-> RootKeyPrefix, lower |-> Nil, upper |-> Nil])
        versions == {ParseRootKey(found[i]) : i \in DOMAIN found}
    IN  IF NoVersion \in versions THEN [ok |-> FALSE, versions |-> {}, latest |-> 0]
        ELSE [ok |-> TRUE, versions |-> versions, latest |-> Max(versions \cup {0})]

-----------------------------------------------------------------------------
(* Properties.                                                             *)

\* What the options of an iterator ask for.
Asked(k, o) ==
    IF o.prefix # Nil THEN IsPrefix(o.prefix, k) ELSE InBounds(k, o.lower, o.upper)

\* A prefix that does not end in the largest byte.
Plain(o) == o.prefix \in {Nil, <<>>} \/ (o.prefix # Nil /\ Last(o.prefix) < Byte - 1)

\* A walk by Next returns, once and in order, every key asked for from where
\* it started, the first key or the target of SeekGE, before it ends; a walk
\* by Prev the keys from the last one, or from below the target of SeekLT
\* (the iterators' First, Last, SeekGE, SeekLT, Next and Prev).
WalksAreComplete ==
    walk.way \in {"forward", "backward"} =>
        LET forward == walk.way = "forward"
            onSide(k) == \/ walk.target = Nil
                         \/ forward <=> ~ BytesLess(k, walk.target)
            asked == Sorted({k \in Store : Asked(k, options) /\ onSide(k)})
            all == IF forward THEN asked ELSE Reverse(asked)
        IN  Plain(options) \/ engine = "memory" =>
              IsPrefix(seen, all) /\ (~ Valid(index) => seen = all)

\* Next goes to the next key, also from before the first one (the memory
\* iterator's Next).
NextLeavesFront ==
    [][NextKey /\ index = -1 /\ walk # Fresh => Valid(index') \/ keys = <<>>]_vars

\* Both engines run over the same keys for the same options (both NewIterator).
\* prefixUpperBound keeps the bytes after the one it increases, so Pebble's
\* scan goes on past a prefix that ends in the largest byte.
EnginesAlwaysAgree == MemoryKeys(Store, options) = PebbleKeys(Store, options)

\* Opening a tree on either engine finds the versions written before, all of
\* them and nothing else, whatever else the store holds (loadRootHashes).
RecoveryFindsVersions ==
    LET written == {e.version : e \in {r \in entries : r.kind = "root"}}
        r == LoadRootHashes(engine, Store)
    IN  r.ok /\ r.versions = written /\ r.latest = Max(written \cup {0})

\* Storage keys can be told apart and read back: no two entries share a key,
\* root and node keys parse to what they were made from and to nothing else,
\* and the two encodings of a node key are the same bytes (RootKey, NodeKey,
\* ParseRootKey, ParseNodeKey, EncodeNodeKey, DecodeNodeKey).
StorageKeysAreFaithful ==
    /\ \A e, f \in entries : e # f => StorageKey(e) # StorageKey(f)
    /\ \A e \in entries :
         LET k == StorageKey(e)
         IN  /\ ParseRootKey(k) = IF e.kind = "root" THEN e.version ELSE NoVersion
             /\ ParseNodeKey(k) = IF e.kind = "node" THEN e.key ELSE NoNodeKey
             /\ e.kind = "node" =>
                  /\ k = <<Tags["n"]>> \o EncodeNodeKey(e.key)
                  /\ DecodeNodeKey(EncodeNodeKey(e.key)) = e.key

\* The order of storage keys: roots in the order of their versions, nodes in
\* the order of NodeKey.Compare among those of one version and depth (RootKey,
\* makeNodeKey).
StorageOrderIsVersionOrder ==
    \A e, f \in entries :
        LET less == BytesLess(StorageKey(e), StorageKey(f))
        IN  /\ e.kind = "root" /\ f.kind = "root" => (less <=> e.version < f.version)
            /\ e.kind = "node" /\ f.kind = "node" =>
                 /\ e.key.version < f.key.version => less
                 /\ Len(e.key.path) = Len(f.key.path) =>
                      (less <=> CompareNodeKeys(e.key, f.key) = -1)

\* Nibble paths are the keys they come from: same bytes, same order, and the
\* operations on them agree with the prefixes of sequences (ToNibblePath,
\* ToBytes, Compare, CommonPrefixLength, Prefix, Skip, IsPrefix).
PathsAreFaithful ==
    LET ks == {e.key : e \in {x \in entries : x.kind = "keyed"}}
        paths == {ToNibblePath(k) : k \in ks}
                   \cup {e.key.path : e \in {x \in entries : x.kind = "node"}}
    IN  /\ \A k \in ks : ToBytes(ToNibblePath(k)) = k /\ NewNibblePath(k) = ToNibblePath(k)
        /\ \A k, l \in ks :
             BytesLess(k, l) <=> ComparePaths(ToNibblePath(k), ToNibblePath(l)) = -1
        /\ \A p, q \in paths :
             LET n == CommonPrefixLength(p, q)
             IN  /\ PathPrefix(p, n) = LongestCommonPrefix({p, q})
                 /\ IsPathPrefix(p, q) <=> n = Len(p)
                 /\ PathPrefix(p, n) \o Skip(p, n) = p
                 /\ ComparePaths(p, q) = 0 <=> p = q
                 /\ ComparePaths(p, q) = - ComparePaths(q, p)
        /\ \A e \in {x \in entries : x.kind = "node"} :
             e.key.path # <<>> =>
                 Child(ParentKey(e.key), Last(e.key.path), e.key.version) = e.key

\* Keys keep what they stand for in bytes and nibbles: storage keys are read
\* back and stay apart, their order is that of versions and paths, and paths are
\* the keys they come from (pkg/storage/keys.go, pkg/types/nodekey.go, key.go).
KeysAreFaithful ==
    /\ StorageKeysAreFaithful
    /\ StorageOrderIsVersionOrder
    /\ PathsAreFaithful

\* Nodes come back from storage and from a batch as they were written, the
\* versions of their children included, and take the space estimated
\* (EncodeNode, DecodeNode, BatchEncoder.Add, BatchDecoder.Next).
NodesSurviveEncoding ==
    LET items == [i \in 1 .. Cardinality({e \in entries : e.kind = "node"}) |->
                    LET e == SetToSeq({x \in entries : x.kind = "node"})[i]
                    IN  [key |-> e.key, node |-> e.node]]
    IN  /\ DecodeBatch(EncodeBatch(items)) = items
        /\ \A i \in DOMAIN items :
             LET data == EncodeNode(items[i].node)
             IN  /\ DecodeNode(data, items[i].key.version) = items[i].node
                 /\ Len(data) = NodeSize(items[i].node)
=============================================================================
