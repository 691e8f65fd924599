------------------------------- MODULE Proof -------------------------------
(***************************************************************************)
(* Merkle proofs (pkg/proof) over the versions JellyfishTree commits, the  *)
(* commands that hand them over (cmd/pb/commands/prove.go, verify.go), and *)
(* the tree's own checks of a version (pkg/tree/health.go, validation.go). *)
(* Everything here reads; the state and the steps are JellyfishTree's.     *)
(***************************************************************************)
EXTENDS JellyfishTree

S == INSTANCE SequencesExt

CONSTANTS
    ValueSize,      \* the length of each value in bytes
    MaxProofSize    \* bound on an encoded proof (10 KB in the code)

ASSUME ProofParameters ==
    /\ ValueSize \in [Values -> Nat]
    /\ MaxProofSize \in Nat

-----------------------------------------------------------------------------
(* Proofs.  A nil value is NoValue, a nil neighbor NoNeighbor.             *)

\* crypto.Hasher on a value.
ValueHash(value) == <<"hash", value>>

\* The hash of a leaf, from its key and the hash of its value.
LeafHash(key, valueHash) == <<"leaf", key, valueHash[2]>>

NoNeighbor == [key |-> <<>>, valueHash |-> <<>>, path |-> <<>>, divergeDepth |-> 0]

NewProof(v, key) ==
    [type |-> "empty", key |-> key, value |-> NoValue, neighbor |-> NoNeighbor,
     siblings |-> <<>>, rootHash |-> roots[v], version |-> v]

\* What Generate, Encode and Decode return with an error.
NoProof == [type |-> "error"]

ValidKey(key) == key # [i \in 1 .. MaxTreeDepth |-> 0]

\* Proof.IsValid.
IsValid(p) ==
    /\ ValidKey(p.key)
    /\ CASE p.type = "inclusion" -> p.value # NoValue /\ p.neighbor = NoNeighbor
         [] p.type = "empty" -> p.value = NoValue /\ p.neighbor = NoNeighbor
         [] p.type = "neighbor" ->
                /\ p.neighbor # NoNeighbor /\ p.value = NoValue
                /\ ValidKey(p.neighbor.key)
                /\ p.neighbor.divergeDepth \in 0 .. MaxTreeDepth
    /\ \A i \in DOMAIN p.siblings :
         /\ p.siblings[i].depth \in 0 .. MaxTreeDepth
         /\ p.siblings[i].nibble \in Nibbles
         /\ i > 1 => p.siblings[i].depth > p.siblings[i - 1].depth

-----------------------------------------------------------------------------
(* Generation.                                                             *)

\* What one internal node on the path adds to a proof.
Sibling(node, depth, nibble) ==
    <<[depth |-> depth, nibble |-> nibble,
       children |-> [n \in DOMAIN node.children |-> node.children[n].hash]]>>

\* The proof when the walk ends in a leaf.  pathTaken has one nibble for each
\* internal node passed.
LeafProof(p, leaf, depth) ==
    IF leaf.key = p.key
    THEN [p EXCEPT !.type = "inclusion", !.value = leaf.value]
    ELSE [p EXCEPT !.type = "neighbor",
                   !.neighbor = [key |-> leaf.key, valueHash |-> ValueHash(leaf.value),
                                 path |-> Prefix(p.key, depth), divergeDepth |-> depth]]

\* The loop of Generate: MaxTreeDepth internal nodes at most, then a leaf.
RECURSIVE GenerateFrom(_, _, _)
GenerateFrom(p, nk, depth) ==
    LET node == nodes[nk]
        nibble == p.key[depth + 1]
        next == [p EXCEPT !.siblings = @ \o Sibling(node, depth, nibble)]
    IN  IF nk \notin DOMAIN nodes THEN NoProof
        ELSE IF node.leaf THEN LeafProof(p, node, depth)
        ELSE IF depth = MaxTreeDepth THEN NoProof
        ELSE IF nibble \notin DOMAIN node.children
             THEN [next EXCEPT !.type = "empty"]
        ELSE GenerateFrom(next,
                 NodeKey(node.children[nibble].version, Prefix(p.key, depth + 1)),
                 depth + 1)

\* Generator.Generate through a reader of version v.
Generate(v, key) ==
    IF ~ ValidKey(key) THEN NoProof
    ELSE IF roots[v] = EmptyHash THEN [NewProof(v, key) EXCEPT !.type = "empty"]
    ELSE GenerateFrom(NewProof(v, key), RootNodeKey(v), 0)

-----------------------------------------------------------------------------
(* Verification.                                                           *)

\* Mutant: an empty exclusion treats its last child like any other.
NodeHashPresent(sibling, target, below, missing) ==
    <<"internal", [n \in Nibbles |->
        IF n = target THEN below
        ELSE IF n \in DOMAIN sibling.children THEN sibling.children[n]
        ELSE EmptyTreeHash]>>

\* The hash of the node a sibling entry stands for, with the child on the
\* path replaced by what was computed below, or missing.
NodeHash(sibling, target, below, missing) ==
    <<"internal", [n \in Nibbles |->
        IF n = target THEN IF missing THEN EmptyTreeHash ELSE below
        ELSE IF n \in DOMAIN sibling.children THEN sibling.children[n]
        ELSE EmptyTreeHash]>>

\* reconstructRoot: from the deepest sibling up.
RECURSIVE ReconstructRoot(_, _, _, _)
ReconstructRoot(key, current, siblings, emptyExclusion) ==
    IF siblings = <<>> THEN current
    ELSE LET sibling == siblings[Len(siblings)]
         IN  ReconstructRoot(key,
                 NodeHash(sibling, key[sibling.depth + 1], current, emptyExclusion),
                 SubSeq(siblings, 1, Len(siblings) - 1), FALSE)

\* The checks of verifyExclusionNeighbor before it hashes.
NeighborDiverges(p) ==
    LET q == p.neighbor
    IN  /\ \A i \in 1 .. q.divergeDepth :
             i <= Len(q.path) =>
                /\ p.key[i] = q.key[i]
                /\ p.key[i] = q.path[i]
        /\ q.divergeDepth < MaxTreeDepth =>
             p.key[q.divergeDepth + 1] # q.key[q.divergeDepth + 1]

\* verifyInclusion, verifyExclusionEmpty, verifyExclusionNeighbor.
ComputedRoot(p) ==
    CASE p.type = "inclusion" ->
            ReconstructRoot(p.key, LeafHash(p.key, ValueHash(p.value)), p.siblings, FALSE)
      [] p.type = "empty" ->
            ReconstructRoot(p.key, EmptyHash, p.siblings, TRUE)
      [] p.type = "neighbor" ->
            ReconstructRoot(p.neighbor.key,
                LeafHash(p.neighbor.key, p.neighbor.valueHash), p.siblings, FALSE)

\* Mutant: the computed root is not compared.
VerifyUncompared(p) ==
    /\ IsValid(p)
    /\ p.type = "neighbor" => NeighborDiverges(p)

\* Verifier.Verify.
Verify(p) ==
    /\ IsValid(p)
    /\ p.type = "neighbor" => NeighborDiverges(p)
    /\ ComputedRoot(p) = p.rootHash

\* GenerateBatch and VerifyBatch: the first error ends both.
GenerateBatch(v, keys) ==
    LET proofs == [i \in DOMAIN keys |-> Generate(v, keys[i])]
    IN  IF \E i \in DOMAIN keys : proofs[i] = NoProof THEN <<>> ELSE proofs

VerifyBatch(proofs) == \A i \in DOMAIN proofs : Verify(proofs[i])

-----------------------------------------------------------------------------
(* Encoding.  Encoded data is the sequence of its fields; a value is its   *)
(* length and its bytes.                                                   *)

TypeData(p) ==
    CASE p.type = "inclusion" -> <<ValueSize[p.value], p.value>>
      [] p.type = "neighbor" ->
            <<p.neighbor.key, p.neighbor.valueHash, p.neighbor.divergeDepth,
              Len(p.neighbor.path)>> \o p.neighbor.path
      [] p.type = "empty" -> <<>>

\* A sibling's children, in the order of their nibbles.
ChildData(children) ==
    S!FoldLeft(LAMBDA data, n : data \o <<n, children[n]>>, <<>>,
               S!SetToSortSeq(DOMAIN children, LAMBDA a, b : a < b))

SiblingData(siblings) ==
    S!FoldLeft(LAMBDA data, s :
                   data \o <<s.depth, s.nibble, Cardinality(DOMAIN s.children)>>
                        \o ChildData(s.children),
               <<Len(siblings)>>, siblings)

\* The bytes Encode writes.
EncodedSize(p) ==
    S!FoldLeft(LAMBDA size, s : size + 2 + 1 + 2 + 33 * Cardinality(DOMAIN s.children),
               1 + 32 + 8 + 32 + 2
               + (CASE p.type = "inclusion" -> 4 + ValueSize[p.value]
                    [] p.type = "neighbor" -> 32 + 32 + 2 + 2 + Len(p.neighbor.path)
                    [] p.type = "empty" -> 0),
               p.siblings)

\* Mutant: the children of the siblings are not counted.
EstimateSizeBare(p) ==
    1 + 32 + 32 + 8 + 4 + Len(p.siblings) * (4 + 1 + 32 + 4)
    + (IF p.value # NoValue THEN 4 + ValueSize[p.value] ELSE 0)
    + (IF p.neighbor # NoNeighbor THEN 32 + 32 + 4 + 4 + Len(p.neighbor.path) ELSE 0)

\* Proof.EstimateSize.
EstimateSize(p) ==
    S!FoldLeft(LAMBDA size, s : size + 4 + 1 + 32 + 4 + 33 * Cardinality(DOMAIN s.children),
               1 + 32 + 32 + 8 + 4
               + (IF p.value # NoValue THEN 4 + ValueSize[p.value] ELSE 0)
               + (IF p.neighbor # NoNeighbor
                  THEN 32 + 32 + 4 + 4 + Len(p.neighbor.path) ELSE 0),
               p.siblings)

\* ProofCodec.Encode; <<>> is an error.
Encode(p) ==
    IF ~ IsValid(p) \/ EncodedSize(p) > MaxProofSize THEN <<>>
    ELSE <<p.type, p.key, p.version, p.rootHash>> \o TypeData(p) \o SiblingData(p.siblings)

Drop(data, n) == SubSeq(data, n + 1, Len(data))

\* Reads n (nibble, hash) pairs.
RECURSIVE ReadChildren(_, _, _)
ReadChildren(data, n, children) ==
    IF n = 0 THEN [children |-> children, rest |-> data]
    ELSE ReadChildren(Drop(data, 2), n - 1, Put1(children, data[1], data[2]))

\* Reads n siblings.
RECURSIVE ReadSiblings(_, _, _)
ReadSiblings(data, n, siblings) ==
    IF n = 0 THEN [siblings |-> siblings, rest |-> data]
    ELSE LET r == ReadChildren(Drop(data, 3), data[3], [c \in {} |-> EmptyHash])
         IN  ReadSiblings(r.rest, n - 1,
                 Append(siblings, [depth |-> data[1], nibble |-> data[2],
                                   children |-> r.children]))

\* The type-specific fields and the siblings at the head of data, put into p.
ReadBody(p, data) ==
    LET used == CASE p.type = "inclusion" -> 2
                  [] p.type = "neighbor" -> 4 + data[4]
                  [] p.type = "empty" -> 0
        r == ReadSiblings(Drop(data, used + 1), data[used + 1], <<>>)
    IN  [proof |-> [p EXCEPT
            !.siblings = r.siblings,
            !.value = IF p.type = "inclusion" THEN data[2] ELSE NoValue,
            !.neighbor = IF p.type = "neighbor"
                         THEN [key |-> data[1], valueHash |-> data[2],
                               divergeDepth |-> data[3],
                               path |-> SubSeq(data, 5, 4 + data[4])]
                         ELSE NoNeighbor],
         rest |-> r.rest]

BlankProof(type, key) ==
    [type |-> type, key |-> key, value |-> NoValue, neighbor |-> NoNeighbor,
     siblings |-> <<>>, rootHash |-> EmptyHash, version |-> 0]

ValidOrError(p) == IF IsValid(p) THEN p ELSE NoProof

\* ProofCodec.Decode of what Encode wrote.
Decode(data) ==
    IF data = <<>> THEN NoProof
    ELSE ValidOrError([ReadBody(BlankProof(data[1], data[2]), Drop(data, 4)).proof EXCEPT
                          !.version = data[3], !.rootHash = data[4]])

\* CompressProof: version and root hash come last and the type goes outside.
\* gzip keeps the data; the limit on its compressed size is left out.
CompressProof(p) ==
    [type |-> p.type, keyHash |-> <<"hash", p.key>>,
     data |-> <<p.key>> \o TypeData(p) \o SiblingData(p.siblings)
                        \o <<p.version, p.rootHash>>]

\* Mutant: the version and the root hash are read where Decode finds them.
DecompressProofHeader(c) ==
    LET r == ReadBody(BlankProof(c.type, c.data[1]), Drop(c.data, 1))
    IN  IF <<"hash", c.data[1]>> # c.keyHash THEN NoProof
        ELSE ValidOrError(r.proof)

DecompressProof(c) ==
    LET r == ReadBody(BlankProof(c.type, c.data[1]), Drop(c.data, 1))
    IN  IF <<"hash", c.data[1]>> # c.keyHash THEN NoProof
        ELSE ValidOrError([r.proof EXCEPT !.version = r.rest[1], !.rootHash = r.rest[2]])

-----------------------------------------------------------------------------
(* The commands.                                                           *)

\* runProve: the proof file, of which runVerify reads the encoded field.
RunProve(v, key) ==
    LET p == Generate(v, key)
    IN  IF p = NoProof THEN <<>> ELSE Encode(p)

\* runVerify: what it reports.
RunVerify(file) ==
    LET p == Decode(file)
    IN  IF p = NoProof THEN [status |-> "error", value |-> NoValue]
        ELSE [status |-> IF Verify(p) THEN "valid" ELSE "invalid",
              value |-> IF Verify(p) /\ p.type = "inclusion" THEN p.value ELSE NoValue]

-----------------------------------------------------------------------------
(* Checks of a version.                                                    *)

\* The node keys a walk from nk visits when these nodes can be loaded.
RECURSIVE Visited(_, _)
Visited(loaded, nk) ==
    {nk} \cup
    IF nk \notin DOMAIN loaded THEN {}
    ELSE UNION {Visited(loaded, ChildKey(nk, n, loaded[nk].children[n].version)) :
                n \in DOMAIN loaded[nk].children}

\* TreeReader.loadNode, for every key: a node of the cache is not looked for in
\* storage.  The cache holds nodes that readers loaded, less the evicted ones.
LoadNode(store, cache) ==
    [nk \in DOMAIN store \cup DOMAIN cache |-> IF nk \in DOMAIN cache THEN cache[nk] ELSE store[nk]]

\* Mutant: a node that cannot be found is passed over.
VerifyIntegrityLenient(store, cache, v) ==
    LET loaded == LoadNode(store, cache) IN
    /\ v \in DOMAIN roots
    /\ \A nk \in Visited(loaded, RootNodeKey(v)) :
         nk \in DOMAIN loaded => Hash(loaded[nk]) # EmptyHash

\* TreeHealthChecker.VerifyIntegrity and verifyNode.
VerifyIntegrity(store, cache, v) ==
    LET loaded == LoadNode(store, cache) IN
    /\ v \in DOMAIN roots
    /\ \A nk \in Visited(loaded, RootNodeKey(v)) :
         nk \in DOMAIN loaded /\ Hash(loaded[nk]) # EmptyHash

\* TreeHealthChecker.CheckVersion.
CheckVersion(v) ==
    /\ v \in DOMAIN roots
    /\ LET isEmpty == roots[v] = EmptyHash
       IN  isEmpty => roots[v] = EmptyHash

\* validateNode, for one node at its path.  A node that is neither cached nor
\* in storage is loaded as nil, and nil is accepted.
ValidNode(loaded, nk) ==
    nk \in DOMAIN loaded =>
        IF loaded[nk].leaf THEN nk.path = Prefix(loaded[nk].key, Len(nk.path))
        ELSE Len(nk.path) < MaxTreeDepth /\ loaded[nk].children # [n \in {} |-> 0]

\* ValidateTreeStructure.
ValidateTreeStructure(store, cache, v) ==
    LET loaded == LoadNode(store, cache) IN
    \/ roots[v] = EmptyHash
    \/ \A nk \in Visited(loaded, RootNodeKey(v)) : ValidNode(loaded, nk)

-----------------------------------------------------------------------------
(* Properties.  Versions change at commits only, so they are looked at     *)
(* when no version is being built.                                         *)

Settled == updater = NoUpdater

\* What a proof says its key holds.
Claim(p) == IF p.type = "inclusion" THEN p.value ELSE NoValue

\* Every key, present or absent, has a proof at every committed version, the
\* proof verifies, alone and in a batch, and says what the version holds
\* (Generator.Generate, GenerateBatch, Verifier.Verify, VerifyBatch).
GeneratedProofsVerify ==
    Settled => \A v \in DOMAIN roots :
        /\ \A k \in Keys :
             LET p == Generate(v, k)
             IN  p # NoProof /\ Verify(p) /\ Claim(p) = contents[v][k]
        /\ LET keys == S!SetToSeq(Keys)
               proofs == GenerateBatch(v, keys)
           IN  Len(proofs) = Len(keys) /\ VerifyBatch(proofs)

\* A proof that verifies against a version's root hash, the one it was made
\* for or any other, says what that version holds: a proof kept across later
\* versions is accepted only while it is still true (Verifier.Verify).
VerifiedProofsAreTrue ==
    Settled => \A v, w \in DOMAIN roots, k \in Keys :
        LET p == Generate(v, k)
        IN  p # NoProof =>
              (Verify([p EXCEPT !.rootHash = roots[w]]) => Claim(p) = contents[w][k])

\* Both encodings give back the proof they were given, of every type
\* (ProofCodec.Encode and Decode, CompressProof and DecompressProof).
ProofsSurviveEncoding ==
    Settled => \A v \in DOMAIN roots, k \in Keys :
        LET p == Generate(v, k)
        IN  p # NoProof =>
              /\ DecompressProof(CompressProof(p)) = p
              /\ Encode(p) # <<>> => Decode(Encode(p)) = p

\* A proof whose estimated size is within the limit goes through pb prove and
\* pb verify, which reports what the version holds (runProve, runVerify,
\* Proof.EstimateSize).
ProveThenVerify ==
    Settled => \A v \in DOMAIN roots, k \in Keys :
        EstimateSize(Generate(v, k)) <= MaxProofSize =>
            RunVerify(RunProve(v, k)) = [status |-> "valid", value |-> contents[v][k]]

\* Every proof goes through: values may have 1 MB (types.MaxValueSize), an
\* encoded proof 10 KB.
EveryProofEncodes ==
    Settled => \A v \in DOMAIN roots, k \in Keys : RunProve(v, k) # <<>>

\* The nodes of a set.
Only(nks) == [nk \in nks |-> nodes[nk]]

\* What the node cache may hold of the nodes a version needs: nothing, what a
\* read of one key loads, or everything, which is what a check leaves.
CacheStates(needed) ==
    {{}, needed} \cup {{nk \in needed : nk.path = Prefix(k, Len(nk.path))} : k \in Keys}

\* In a tree just opened the checks pass every committed version that is not
\* empty.  When storage then loses one node the version needs, its own or
\* shared with an earlier version, VerifyIntegrity fails exactly when the node
\* is not cached: always in a tree opened since, never for a node still cached
\* from a read or from the last check (TreeHealthChecker.CheckVersion and
\* VerifyIntegrity, ValidateTreeStructure, TreeReader.loadNode).
HealthCheckFindsLoss ==
    Settled => \A v \in DOMAIN roots :
        LET needed == Reachable(v) IN
        /\ CheckVersion(v) /\ ValidateTreeStructure(nodes, Only({}), v)
        /\ roots[v] # EmptyHash => VerifyIntegrity(nodes, Only({}), v)
        /\ \A lost \in needed, cached \in CacheStates(needed) :
             VerifyIntegrity(Only(DOMAIN nodes \ {lost}), Only(cached), v) <=> lost \in cached
=============================================================================
