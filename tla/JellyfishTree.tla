--------------------------- MODULE JellyfishTree ---------------------------
(***************************************************************************)
(* The structure of the tree (pkg/tree/tree_updater.go, reader.go,         *)
(* internal_node.go, leaf_node.go): copy-on-write insertion and deletion   *)
(* of leaves in a radix tree whose nodes are stored under the version that *)
(* wrote them and their nibble path, and reads at any version.             *)
(*                                                                         *)
(* One writer at a time: Tree models how the versions of several clients   *)
(* interleave.  A key is its nibble path.  Hashes are the terms they hash, *)
(* so two hashes are equal exactly when what they cover is.                *)
(***************************************************************************)
EXTENDS Integers, Sequences, FiniteSets

CONSTANTS
    Radix,          \* children per internal node (16 in the code)
    MaxTreeDepth,   \* nibbles per key (64 in the code)
    Keys,           \* the keys clients use: sequences of MaxTreeDepth nibbles
    Values,         \* the values clients store
    NoValue,        \* nil
    MaxVersion,     \* bound on the versions created
    MaxOps,         \* bound on the updates of one version
    CommitUntouched,\* may clients commit when no update succeeded?
    ReadFaults      \* may storage fail to read a node during an update?

Nibbles == 0 .. Radix - 1

ASSUME JMTParameters ==
    /\ Radix \in Nat \ {0} /\ MaxTreeDepth \in Nat \ {0}
    /\ MaxVersion \in Nat /\ MaxOps \in Nat
    /\ \A k \in Keys : k \in Seq(Nibbles) /\ Len(k) = MaxTreeDepth
    /\ [i \in 1 .. MaxTreeDepth |-> 0] \notin Keys   \* ValidateKey
    /\ NoValue \notin Values
    /\ CommitUntouched \in BOOLEAN /\ ReadFaults \in BOOLEAN

-----------------------------------------------------------------------------
(* Nodes.                                                                  *)

\* A NodeKey: the version that wrote the node and its nibble path.
NodeKey(v, path) == [version |-> v, path |-> path]

\* types.NodeKey{}: no node.  It is also RootNodeKey(0).
NoNodeKey == NodeKey(0, <<>>)

RootNodeKey(v) == NodeKey(v, <<>>)

Prefix(path, n) == SubSeq(path, 1, n)

\* NodeKey.Child.
ChildKey(nk, nibble, v) == NodeKey(v, Append(nk.path, nibble))

\* A node's children: a function from the nibbles that have one to Child
\* records.  A leaf has a key and a value instead.
LeafNode(key, value, v) ==
    [leaf |-> TRUE, key |-> key, value |-> value, version |-> v,
     children |-> [n \in {} |-> NoNodeKey]]

InternalNode(children, v) ==
    [leaf |-> FALSE, key |-> <<>>, value |-> NoValue, version |-> v,
     children |-> children]

\* types.EmptyHash: the zero hash, the root hash of an empty tree.
EmptyHash == <<"zero">>

\* crypto.EmptyTreeHash: what stands for a missing child in a hash.
EmptyTreeHash == <<"emptyTree">>

\* Mutant: the version goes into a leaf's hash.
HashWithVersion(node) ==
    IF node.leaf THEN <<"leaf", node.key, node.value, node.version>>
    ELSE <<"internal",
           [n \in Nibbles |-> IF n \in DOMAIN node.children
                              THEN node.children[n].hash ELSE EmptyTreeHash]>>

\* Mutant: a leaf's hash leaves out its value.
HashWithoutValue(node) ==
    IF node.leaf THEN <<"leaf", node.key>>
    ELSE <<"internal",
           [n \in Nibbles |-> IF n \in DOMAIN node.children
                              THEN node.children[n].hash ELSE EmptyTreeHash]>>

\* LeafNode.Hash and InternalNode.Hash: the type, then key and value, or the
\* hash of the child at every nibble.
Hash(node) ==
    IF node.leaf THEN <<"leaf", node.key, node.value>>
    ELSE <<"internal",
           [n \in Nibbles |-> IF n \in DOMAIN node.children
                              THEN node.children[n].hash ELSE EmptyTreeHash]>>

\* The Child record for a node stored under nk.
ChildOf(nk, node) == [hash |-> Hash(node), version |-> nk.version, leaf |-> node.leaf]

\* Mutant: a clone stamps its version on all its child references.
SetChildRestamped(children, nibble, child) ==
    [n \in DOMAIN children \cup {nibble} |->
        IF n = nibble THEN child
        ELSE [children[n] EXCEPT !.version = child.version]]

SetChild(children, nibble, child) ==
    [n \in DOMAIN children \cup {nibble} |->
        IF n = nibble THEN child ELSE children[n]]

RemoveChild(children, nibble) ==
    [n \in DOMAIN children \ {nibble} |-> children[n]]

-----------------------------------------------------------------------------

NoUpdater == [version |-> 0]

VARIABLES
    nodes,      \* storage: the nodes, by NodeKey
    roots,      \* storage: the root hash of every committed version
    contents,   \* history: what the updates committed up to each version say
    written,    \* history: the keys each version updated
    latest,     \* the last version begun
    updater     \* the TreeUpdater of the version being built, or NoUpdater

vars == <<nodes, roots, contents, written, latest, updater>>

EmptyMap == [k \in Keys |-> NoValue]

Init ==
    /\ nodes = [nk \in {} |-> NoValue]
    /\ roots = [v \in {0} |-> EmptyHash]
    /\ contents = [v \in {0} |-> EmptyMap]
    /\ written = [v \in {0} |-> {}]
    /\ latest = 0
    /\ updater = NoUpdater

Put1(f, k, x) == [y \in DOMAIN f \cup {k} |-> IF y = k THEN x ELSE f[y]]

\* getNode: pending writes first, then storage; version 0 is no node, and a
\* node storage fails to read is an error like one that is not there.
HasNode(writes, nk, failing) ==
    \/ nk \in DOMAIN writes
    \/ nk.version # 0 /\ nk \in DOMAIN nodes \ failing

GetNode(writes, nk) == IF nk \in DOMAIN writes THEN writes[nk] ELSE nodes[nk]

-----------------------------------------------------------------------------
(* Insertion.                                                              *)

\* The first depth, from d on, where two keys differ.
Divergence(p, q, d) ==
    CHOOSE i \in d .. MaxTreeDepth - 1 :
        /\ p[i + 1] # q[i + 1]
        /\ \A j \in d .. i - 1 : p[j + 1] = q[j + 1]

\* splitLeafNodes: the two leaves below a new internal node where they
\* diverge.  Nothing is created between the old leaf's depth and that node.
SplitLeafNodes(writes, oldLeaf, newLeaf, depth, v) ==
    LET d == Divergence(oldLeaf.key, newLeaf.key, depth)
        oldKey == NodeKey(v, Prefix(oldLeaf.key, d + 1))
        newKey == NodeKey(v, Prefix(newLeaf.key, d + 1))
        nk == NodeKey(v, Prefix(oldLeaf.key, d))
        children == SetChild(SetChild([n \in {} |-> 0],
                        oldLeaf.key[d + 1], ChildOf(oldKey, oldLeaf)),
                        newLeaf.key[d + 1], ChildOf(newKey, newLeaf))
    IN  [key |-> nk,
         writes |-> Put1(Put1(Put1(writes, oldKey, oldLeaf), newKey, newLeaf),
                         nk, InternalNode(children, v))]

\* insertAt: the node key of the new subtree at this depth, and the writes.
RECURSIVE InsertAt(_, _, _, _, _, _)
InsertAt(writes, nk, newLeaf, depth, v, failing) ==
    LET path == newLeaf.key
        node == GetNode(writes, nk)
        new == NodeKey(v, Prefix(path, depth))
        clone == NodeKey(v, nk.path)
        \* set the child for the next nibble of an internal node and save it
        descend(at, children, childKey) ==
            LET r == InsertAt(writes, childKey, newLeaf, depth + 1, v, failing)
                child == ChildOf(r.key, r.writes[r.key])
            IN  [key |-> at,
                 writes |-> Put1(r.writes, at,
                    InternalNode(SetChild(children, path[depth + 1], child), v))]
    IN  IF ~ HasNode(writes, nk, failing) THEN
            IF depth = MaxTreeDepth
            THEN [key |-> new, writes |-> Put1(writes, new, newLeaf)]
            ELSE descend(new, [n \in {} |-> 0], NoNodeKey)
        ELSE IF node.leaf /\ node.key = path THEN
            [key |-> clone, writes |-> Put1(writes, clone, newLeaf)]
        ELSE IF node.leaf THEN
            SplitLeafNodes(writes, node, newLeaf, depth, v)
        ELSE
            LET nibble == path[depth + 1]
            IN  descend(clone, node.children,
                        IF nibble \in DOMAIN node.children
                        THEN ChildKey(nk, nibble, node.children[nibble].version)
                        ELSE NoNodeKey)

-----------------------------------------------------------------------------
(* Deletion.                                                               *)

\* deleteAt: whether the key was found, the node key of what is left of the
\* subtree (NoNodeKey if nothing is), and the writes.
RECURSIVE DeleteAt(_, _, _, _, _, _)
DeleteAt(writes, nk, path, depth, v, failing) ==
    LET node == GetNode(writes, nk)
        nibble == path[depth + 1]
        missing(key) == [key |-> key, found |-> FALSE, writes |-> writes]
        r == DeleteAt(writes, ChildKey(nk, nibble, node.children[nibble].version),
                      path, depth + 1, v, failing)
        children == IF r.key.version = 0
                    THEN RemoveChild(node.children, nibble)
                    ELSE SetChild(node.children, nibble,
                                  ChildOf(r.key, r.writes[r.key]))
        new == NodeKey(v, nk.path)
        only == CHOOSE n \in DOMAIN children : TRUE
        leafKey == ChildKey(new, only, children[only].version)
        save(n) == [key |-> new, found |-> TRUE, writes |-> Put1(r.writes, new, n)]
    IN  IF ~ HasNode(writes, nk, failing) THEN missing(NoNodeKey)
        ELSE IF node.leaf THEN
            IF node.key = path
            THEN [key |-> NoNodeKey, found |-> TRUE, writes |-> writes]
            ELSE missing(nk)
        ELSE IF nibble \notin DOMAIN node.children \/ ~ r.found THEN missing(nk)
        ELSE IF children = [n \in {} |-> 0] THEN
            [key |-> NoNodeKey, found |-> TRUE, writes |-> r.writes]
        ELSE IF Cardinality(DOMAIN children) = 1 /\ children[only].leaf
            \* a lone leaf takes its parent's place; not to find it is an error
            THEN IF HasNode(r.writes, leafKey, failing)
                 THEN save(GetNode(r.writes, leafKey)) ELSE missing(nk)
        ELSE save(InternalNode(children, v))

-----------------------------------------------------------------------------
(* The batch.                                                              *)

\* Mutant: a child of the batch's own version counts as a future one.
ValidBatchOlderChildren(writes, v) ==
    \A nk \in DOMAIN writes :
        \A n \in DOMAIN writes[nk].children :
            writes[nk].children[n].version < v

\* ValidateBatch and validateNode: no two nodes of the batch have the same
\* hash ("circular reference"), every node was written by this version, and
\* no child comes from a later one.
ValidBatch(writes, v) ==
    /\ \A nk1, nk2 \in DOMAIN writes :
         nk1 # nk2 => Hash(writes[nk1]) # Hash(writes[nk2])
    /\ \A nk \in DOMAIN writes :
         /\ writes[nk].version = v
         /\ \A n \in DOMAIN writes[nk].children :
                writes[nk].children[n].version <= v

\* BuildUpdateBatch: an empty tree writes nothing.  An updater none of whose
\* updates succeeded still has its parent's root, which must be in storage.
BatchIsEmpty(u) == u.root = NoNodeKey

BatchNodes(u) == IF BatchIsEmpty(u) THEN [nk \in {} |-> NoValue] ELSE u.writes

BatchRootHash(u) ==
    IF BatchIsEmpty(u) THEN EmptyHash ELSE Hash(GetNode(u.writes, u.root))

\* What ValidateBatch and the root lookup accept.
BatchAccepted(u) ==
    \/ BatchIsEmpty(u)
    \/ HasNode(u.writes, u.root, {}) /\ ValidBatch(u.writes, u.version)

-----------------------------------------------------------------------------
(* Operations.                                                             *)

\* VersionManager.Begin: the number of a new version.
NextVersion(parent) == latest + 1

\* BeginVersion and NewTreeUpdater, on any committed version: which one
\* depends on the versions other clients are building (see Tree).
Begin(parent) ==
    LET v == NextVersion(parent)
    IN  /\ updater = NoUpdater
        /\ v <= MaxVersion
        /\ latest' = v
        /\ updater' = [version |-> v, root |-> RootNodeKey(parent),
                       writes |-> [nk \in {} |-> NoValue], ops |-> 0,
                       contents |-> contents[parent], keys |-> {}]
        /\ UNCHANGED <<nodes, roots, contents, written>>

\* The nodes that cannot be read while an update runs.
Failures == {{}} \cup (IF ReadFaults THEN {{nk} : nk \in DOMAIN nodes} ELSE {})

\* TreeUpdater.Put.
Put(key, value, failing) ==
    LET r == InsertAt(updater.writes, updater.root,
                      LeafNode(key, value, updater.version), 0, updater.version, failing)
    IN  /\ updater # NoUpdater
        /\ updater.ops < MaxOps
        /\ updater' = [updater EXCEPT !.root = r.key, !.writes = r.writes,
                            !.ops = @ + 1, !.contents[key] = value,
                            !.keys = @ \cup {key}]
        /\ UNCHANGED <<nodes, roots, contents, written, latest>>

\* TreeUpdater.Delete; ErrKeyNotFound leaves the updater alone.
Delete(key, failing) ==
    LET r == DeleteAt(updater.writes, updater.root, key, 0, updater.version, failing)
    IN  /\ updater # NoUpdater
        /\ updater.ops < MaxOps
        /\ r.found
        /\ updater' = [updater EXCEPT !.root = r.key, !.writes = r.writes,
                            !.ops = @ + 1, !.contents[key] = NoValue,
                            !.keys = @ \cup {key}]
        /\ UNCHANGED <<nodes, roots, contents, written, latest>>

MergeNodes(old, new) ==
    [nk \in DOMAIN old \cup DOMAIN new |->
        IF nk \in DOMAIN new THEN new[nk] ELSE old[nk]]

\* CommitVersion: the batch's nodes and root hash, written together.  The
\* batch optimizer keeps every node: NewNodes is a map, and its only
\* effective stage drops repeated keys.
Commit ==
    /\ updater # NoUpdater
    /\ updater.ops > 0 \/ CommitUntouched
    /\ BatchAccepted(updater)
    /\ nodes' = MergeNodes(nodes, BatchNodes(updater))
    /\ roots' = Put1(roots, updater.version, BatchRootHash(updater))
    /\ contents' = Put1(contents, updater.version, updater.contents)
    /\ written' = Put1(written, updater.version, updater.keys)
    /\ updater' = NoUpdater
    /\ UNCHANGED latest

\* The client gives up, or CommitVersion rejected the batch.
Abort ==
    /\ updater # NoUpdater
    /\ updater' = NoUpdater
    /\ UNCHANGED <<nodes, roots, contents, written, latest>>

Next ==
    \/ \E p \in DOMAIN roots : Begin(p)
    \/ \E k \in Keys, x \in Values, f \in Failures : Put(k, x, f)
    \/ \E k \in Keys, f \in Failures : Delete(k, f)
    \/ Commit
    \/ Abort

Spec == Init /\ [][Next]_vars

-----------------------------------------------------------------------------
(* Reading: Tree.Get and TreeReader.Get.                                   *)

\* The walk from a node at some depth; MaxTreeDepth levels of internal nodes
\* at most, then a leaf.
RECURSIVE ReadFrom(_, _, _, _)
ReadFrom(nk, key, depth, v) ==
    LET node == nodes[nk]
        nibble == key[depth + 1]
    IN  IF nk \notin DOMAIN nodes THEN NoValue
        ELSE IF node.leaf THEN IF node.key = key THEN node.value ELSE NoValue
        ELSE IF \/ nibble \notin DOMAIN node.children
                \/ node.children[nibble].version > v
             THEN NoValue
        ELSE ReadFrom(NodeKey(node.children[nibble].version, Prefix(key, depth + 1)),
                      key, depth + 1, v)

Get(v, key) ==
    IF roots[v] = EmptyHash THEN NoValue
    ELSE ReadFrom(RootNodeKey(v), key, 0, v)

\* The node keys reachable from the root of version v (TreeHealthChecker's
\* verifyNode walks the same way).
RECURSIVE Reach(_)
Reach(nk) ==
    {nk} \cup
    IF nk \notin DOMAIN nodes THEN {}
    ELSE UNION {Reach(ChildKey(nk, n, nodes[nk].children[n].version)) :
                n \in DOMAIN nodes[nk].children}

Reachable(v) == IF roots[v] = EmptyHash THEN {} ELSE Reach(RootNodeKey(v))

-----------------------------------------------------------------------------
(* Properties.                                                             *)

\* Reading any key at any committed version returns what the updates
\* committed up to that version left there, however many versions were
\* written since and whatever they shared with it.
ReadsMatchUpdates ==
    \A v \in DOMAIN roots, k \in Keys : Get(v, k) = contents[v][k]

\* Two versions with the same root hash hold the same keys and values: a
\* root hash commits to the contents.
RootHashIsBinding ==
    \A v, w \in DOMAIN roots :
        roots[v] = roots[w] => contents[v] = contents[w]

\* Two versions that hold the same keys and values have the same root hash:
\* the hash does not depend on the order of the updates, on deletions in
\* between or on the versions of the nodes.
RootHashIsCanonical ==
    \A v, w \in DOMAIN roots :
        contents[v] = contents[w] => roots[v] = roots[w]

\* Structural sharing: of the nodes version v reaches, the ones it wrote
\* itself lie on the paths of the keys it updated, or are a leaf that hangs
\* beside such a path (splitLeafNodes moved it down); all others are shared.
UnchangedSubtreesAreShared ==
    \A v \in DOMAIN roots :
        \A nk \in Reachable(v) :
            LET above == Len(nk.path) - 1
            IN  nk.version = v =>
                  \E k \in written[v] :
                    \/ nk.path = Prefix(k, Len(nk.path))
                    \/ /\ nk \in DOMAIN nodes /\ nodes[nk].leaf
                       /\ Prefix(nk.path, above) = Prefix(k, above)

\* FR-DEL-2: after an update that succeeded, Commit goes through.
CommitAccepts ==
    updater # NoUpdater => (updater.ops > 0 => BatchAccepted(updater))

\* A leaf hangs from its highest branching ancestor: no committed internal
\* node has a single child.
LeavesAreCompressed ==
    \A v \in DOMAIN roots : \A nk \in Reachable(v) :
        Cardinality(DOMAIN nodes[nk].children) # 1
=============================================================================
