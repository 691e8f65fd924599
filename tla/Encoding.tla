------------------------------ MODULE Encoding ------------------------------
(***************************************************************************)
(* How keys and nodes become bytes: nibble paths (pkg/types/key.go), node  *)
(* keys (pkg/types/nodekey.go), storage keys (pkg/storage/keys.go,         *)
(* pkg/tree/storage_keys.go), and the node and batch codecs (pkg/codec,    *)
(* pkg/tree/codec_factory.go).                                             *)
(*                                                                         *)
(* Data is a sequence of bytes.  A byte holds two nibbles; how many values *)
(* a nibble has, and how many bytes a field takes, are parameters.         *)
(***************************************************************************)
EXTENDS Integers, Sequences, FiniteSets, SequencesExt

CONSTANTS
    NibbleBase,     \* values of a nibble (16 in the code)
    KeySize,        \* bytes of a key (32)
    HashSize,       \* bytes of a hash (32)
    VersionSize,    \* bytes of a version (8)
    CountSize,      \* bytes of a nibble count (2)
    LengthSize,     \* bytes of a length in an encoded batch (4)
    Tags            \* the bytes 'k', 'n', 'r' and 'v'

Byte == NibbleBase * NibbleBase
Bytes == 0 .. Byte - 1
MaxTreeDepth == 2 * KeySize

\* How many numbers fit into n bytes.
Power(n) == LET p[k \in 0 .. n] == IF k = 0 THEN 1 ELSE p[k - 1] * Byte IN p[n]

ASSUME EncodingParameters ==
    /\ NibbleBase \in Nat \ {0, 1}
    /\ {KeySize, HashSize, VersionSize, CountSize, LengthSize} \subseteq Nat \ {0}
    /\ MaxTreeDepth < Power(CountSize)
    /\ Tags \in [{"k", "n", "r", "v"} -> Bytes]
    /\ \A s, t \in DOMAIN Tags : s # t => Tags[s] # Tags[t]

\* What a function returns with an error: no bytes, version, node key or node.
NoBytes == <<-1>>
NoVersion == -1
NoNodeKey == [version |-> NoVersion, path |-> <<>>]
NoNode == [leaf |-> TRUE, key |-> NoBytes, valueHash |-> NoBytes,
           children |-> <<>>, version |-> NoVersion]

\* binary.BigEndian.PutUint16, PutUint32, PutUint64, and back.
BigEndian(x, size) == [i \in 1 .. size |-> (x \div Power(size - i)) % Byte]
FromBigEndian(data) == FoldLeft(LAMBDA x, b : x * Byte + b, 0, data)

\* bytes.Compare and the order of Go strings.
BytesLess(a, b) ==
    \/ IsStrictPrefix(a, b)
    \/ \E i \in DOMAIN a \cap DOMAIN b :
         a[i] < b[i] /\ SubSeq(a, 1, i - 1) = SubSeq(b, 1, i - 1)

Slice(data, from, size) == SubSeq(data, from + 1, from + size)

-----------------------------------------------------------------------------
(* Nibble paths.                                                           *)

High(b) == b \div NibbleBase
Low(b) == b % NibbleBase

\* Key.ExtractNibble, of a depth in range.
ExtractNibble(key, depth) ==
    LET b == key[depth \div 2 + 1]
    IN  IF depth % 2 = 0 THEN High(b) ELSE Low(b)

\* Key.ToNibblePath.
ToNibblePath(key) == [i \in 1 .. MaxTreeDepth |-> ExtractNibble(key, i - 1)]

\* NewNibblePath, of data of any length.
NewNibblePath(data) == FoldLeft(LAMBDA p, b : p \o <<High(b), Low(b)>>, <<>>, data)

\* NibblePath.ToBytes.
ToBytes(p) ==
    IF Len(p) % 2 # 0 THEN NoBytes
    ELSE [i \in 1 .. Len(p) \div 2 |-> p[2 * i - 1] * NibbleBase + p[2 * i]]

Sign(x) == IF x < 0 THEN -1 ELSE IF x > 0 THEN 1 ELSE 0

\* NibblePath.Compare.
ComparePaths(p, q) ==
    LET differ == {i \in DOMAIN p \cap DOMAIN q : p[i] # q[i]}
    IN  IF differ # {} THEN Sign(p[Min(differ)] - q[Min(differ)])
        ELSE Sign(Len(p) - Len(q))

\* NibblePath.CommonPrefixLength.
CommonPrefixLength(p, q) ==
    LET differ == {i \in DOMAIN p \cap DOMAIN q : p[i] # q[i]}
    IN  IF differ # {} THEN Min(differ) - 1 ELSE Min({Len(p), Len(q)})

\* NibblePath.Prefix and Skip: a length out of range is cut.
PathPrefix(p, n) == SubSeq(p, 1, Min({n, Len(p)}))
Skip(p, n) == IF n >= Len(p) THEN <<>> ELSE IF n <= 0 THEN p ELSE SubSeq(p, n + 1, Len(p))

\* NibblePath.IsPrefix.
IsPathPrefix(p, q) == Len(p) <= Len(q) /\ \A i \in DOMAIN p : p[i] = q[i]

-----------------------------------------------------------------------------
(* Node keys.                                                              *)

NodeKey(v, path) == [version |-> v, path |-> path]

\* NodeKey.Child, ExtendPath and WithPath.
Child(nk, nibble, v) == NodeKey(v, Append(nk.path, nibble))

\* NodeKey.ParentKey; the root has none.
ParentKey(nk) == NodeKey(nk.version, PathPrefix(nk.path, Len(nk.path) - 1))

\* NodeKey.Compare.
CompareNodeKeys(a, b) ==
    IF a.version # b.version THEN Sign(a.version - b.version)
    ELSE ComparePaths(a.path, b.path)

\* Mutant: the last nibble of an odd path goes into the low half.
PackOddLow(path) ==
    [i \in 1 .. (Len(path) + 1) \div 2 |->
        IF 2 * i <= Len(path) THEN path[2 * i - 1] * NibbleBase + path[2 * i]
        ELSE path[2 * i - 1]]

\* EncodeNodeKey's loop: two nibbles at a time, a missing one is zero.
Pack(path) ==
    [i \in 1 .. (Len(path) + 1) \div 2 |->
        path[2 * i - 1] * NibbleBase + (IF 2 * i <= Len(path) THEN path[2 * i] ELSE 0)]

Unpack(data, count) ==
    [i \in 1 .. count |-> LET b == data[(i + 1) \div 2]
                          IN  IF i % 2 = 1 THEN High(b) ELSE Low(b)]

EncodeNodeKey(nk) ==
    BigEndian(nk.version, VersionSize) \o BigEndian(Len(nk.path), CountSize)
        \o Pack(nk.path)

\* DecodeNodeKey: data after the nibbles is not looked at.
DecodeNodeKey(data) ==
    LET head == VersionSize + CountSize
        count == FromBigEndian(Slice(data, VersionSize, CountSize))
    IN  IF \/ Len(data) < head
           \/ count > MaxTreeDepth
           \/ Len(data) < head + (count + 1) \div 2
        THEN NoNodeKey
        ELSE NodeKey(FromBigEndian(Slice(data, 0, VersionSize)),
                     Unpack(Slice(data, head, Len(data) - head), count))

-----------------------------------------------------------------------------
(* Storage keys (DefaultKeyEncoder and the functions of storage_keys.go).  *)

\* NodeKey and makeNodeKey: nibble by nibble into a zeroed buffer.
NodeStorageKey(nk) ==
    LET size == (Len(nk.path) + 1) \div 2
        put(buf, i) ==
            [b \in 1 .. size |-> IF b # (i + 1) \div 2 THEN buf[b]
                                 ELSE IF i % 2 = 1 THEN nk.path[i] * NibbleBase
                                 ELSE buf[b] + nk.path[i]]
    IN  <<Tags["n"]>> \o BigEndian(nk.version, VersionSize)
            \o BigEndian(Len(nk.path), CountSize)
            \o FoldLeft(put, [i \in 1 .. size |-> 0], [i \in DOMAIN nk.path |-> i])

\* ParseNodeKey and parseNodeKey: the length must be exact.
ParseNodeKey(data) ==
    LET head == 1 + VersionSize + CountSize
        count == FromBigEndian(Slice(data, 1 + VersionSize, CountSize))
    IN  IF \/ Len(data) < head
           \/ data[1] # Tags["n"]
           \/ count > MaxTreeDepth
           \/ Len(data) # head + (count + 1) \div 2
        THEN NoNodeKey
        ELSE NodeKey(FromBigEndian(Slice(data, 1, VersionSize)),
                     Unpack(Slice(data, head, Len(data) - head), count))

\* ValueKey, ValueKeyByKey.
ValueKey(hash) == <<Tags["v"]>> \o hash
ValueKeyByKey(key) == <<Tags["k"]>> \o key

\* RootKeyPrefix, RootKey and makeRootKey, ParseRootKey and parseRootKey.
RootKeyPrefix == <<Tags["r"]>>
RootKey(v) == RootKeyPrefix \o BigEndian(v, VersionSize)

\* Mutant: only the last byte of the version is read.
ParseRootKeyLow(data) ==
    IF ~ IsPrefix(RootKeyPrefix, data) \/ Len(data) # 1 + VersionSize THEN NoVersion
    ELSE data[Len(data)]

ParseRootKey(data) ==
    IF ~ IsPrefix(RootKeyPrefix, data) \/ Len(data) # 1 + VersionSize THEN NoVersion
    ELSE FromBigEndian(Slice(data, 1, VersionSize))

-----------------------------------------------------------------------------
(* Nodes: a leaf has a key and a value hash, an internal node children.    *)

LeafType == 1
InternalType == 0

EncodeLeafNode(node) == node.key \o node.valueHash

DecodeLeafNode(data, v) ==
    IF Len(data) # KeySize + HashSize THEN NoNode
    ELSE [leaf |-> TRUE, key |-> Slice(data, 0, KeySize),
          valueHash |-> Slice(data, KeySize, HashSize),
          children |-> <<>>, version |-> v]

ChildSize == 1 + HashSize + VersionSize + 1

EncodeChild(nibble, c) ==
    <<nibble>> \o c.hash \o BigEndian(c.version, VersionSize) \o <<IF c.leaf THEN 1 ELSE 0>>

\* EncodeInternalNode: the children in the order of their nibbles.
EncodeInternalNode(node) ==
    FoldLeft(LAMBDA data, n : data \o EncodeChild(n, node.children[n]),
             <<Cardinality(DOMAIN node.children)>>,
             SetToSortSeq(DOMAIN node.children, <))

\* Mutant: a child's version is the node's.
DecodeChildOwnVersion(data, v) ==
    [hash |-> Slice(data, 1, HashSize), version |-> v,
     leaf |-> data[ChildSize] = 1]

DecodeChild(data, v) ==
    [hash |-> Slice(data, 1, HashSize),
     version |-> FromBigEndian(Slice(data, 1 + HashSize, VersionSize)),
     leaf |-> data[ChildSize] = 1]

DecodeInternalNode(data, v) ==
    LET child(i) == Slice(data, 1 + (i - 1) * ChildSize, ChildSize)
        nibbles == {child(i)[1] : i \in 1 .. data[1]}
    IN  IF \/ data = <<>> \/ data[1] > NibbleBase
           \/ Len(data) # 1 + data[1] * ChildSize
           \/ \E n \in nibbles : n >= NibbleBase
        THEN NoNode
        ELSE [leaf |-> FALSE, key |-> <<>>, valueHash |-> <<>>, version |-> v,
              children |-> [n \in nibbles |->
                  LET i == Max({j \in 1 .. data[1] : child(j)[1] = n})
                  IN  DecodeChild(child(i), v)]]

\* NodeCodec.EncodeNode, and DecodeNode through the registered factory: the
\* version is not in the data but in the key the node is stored under.
EncodeNode(node) ==
    IF node.leaf THEN <<LeafType>> \o EncodeLeafNode(node)
    ELSE <<InternalType>> \o EncodeInternalNode(node)

DecodeNode(data, v) ==
    IF data = <<>> THEN NoNode
    ELSE IF data[1] = LeafType THEN DecodeLeafNode(Tail(data), v)
    ELSE IF data[1] = InternalType THEN DecodeInternalNode(Tail(data), v)
    ELSE NoNode

\* NodeCodec.EstimateSize.
NodeSize(node) ==
    IF node.leaf THEN 1 + KeySize + HashSize
    ELSE 1 + 1 + Cardinality(DOMAIN node.children) * ChildSize

\* BatchEncoder.Add, for each of a sequence of keys and nodes.
EncodeBatch(items) ==
    FoldLeft(LAMBDA data, it :
                 LET k == EncodeNodeKey(it.key) n == EncodeNode(it.node)
                 IN  data \o BigEndian(Len(k), LengthSize) \o k
                          \o BigEndian(Len(n), LengthSize) \o n,
             <<>>, items)

\* BatchDecoder.Next at a position: the item and the position after it.
NextItem(data, pos) ==
    LET keyLen == FromBigEndian(Slice(data, pos, LengthSize))
        keyAt == pos + LengthSize
        nodeLen == FromBigEndian(Slice(data, keyAt + keyLen, LengthSize))
        nodeAt == keyAt + keyLen + LengthSize
        key == DecodeNodeKey(Slice(data, keyAt, keyLen))
    IN  [item |-> [key |-> key, node |-> DecodeNode(Slice(data, nodeAt, nodeLen), key.version)],
         pos |-> nodeAt + nodeLen]

\* Next until HasMore is false.
DecodeBatch(data) ==
    LET step(acc, i) ==
            IF acc.pos >= Len(data) THEN acc
            ELSE LET r == NextItem(data, acc.pos)
                 IN  [items |-> Append(acc.items, r.item), pos |-> r.pos]
    IN  FoldLeft(step, [items |-> <<>>, pos |-> 0], [i \in DOMAIN data |-> i]).items
=============================================================================
