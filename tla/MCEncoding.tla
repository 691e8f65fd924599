----------------------------- MODULE MCEncoding -----------------------------
(* A bounded instance of Encoding, Iteration and Pruning: a byte has nine  *)
(* values, two of them make a version, and a path has four nibbles.        *)
EXTENDS Pruning

MCTags == [k |-> 1, n |-> 3, r |-> 4, v |-> 6]

\* The first version, two that differ in every byte, and types.MaxVersion.
MCVersions == {1, 8, 9, 79}

LeafOf(key, hash, v) ==
    [leaf |-> TRUE, key |-> key, valueHash |-> hash, children |-> <<>>, version |-> v]

InternalOf(children, v) ==
    [leaf |-> FALSE, key |-> <<>>, valueHash |-> <<>>, children |-> children, version |-> v]

Ref(h, v, leaf) == [hash |-> <<h, h>>, version |-> v, leaf |-> leaf]

\* Odd, even, empty and full paths; children of another version.
MCNodes == {
    [key |-> NodeKey(1, <<>>), node |-> InternalOf((0 :> Ref(8, 1, FALSE)), 1)],
    [key |-> NodeKey(9, <<2>>),
     node |-> InternalOf((0 :> Ref(0, 8, TRUE)) @@ (2 :> Ref(3, 9, FALSE)), 9)],
    [key |-> NodeKey(9, <<0>>), node |-> LeafOf(<<0, 3>>, <<8, 0>>, 9)],
    [key |-> NodeKey(9, <<0, 2>>), node |-> LeafOf(<<2, 8>>, <<8, 8>>, 9)],
    [key |-> NodeKey(79, <<0, 2, 1, 0>>), node |-> LeafOf(<<2, 3>>, <<0, 0>>, 79)]}

MCEntries ==
    {[kind |-> "root", version |-> v] : v \in MCVersions}
    \cup {[kind |-> "node", key |-> n.key, node |-> n.node] : n \in MCNodes}
    \cup {[kind |-> "value", hash |-> h] : h \in {<<0, 3>>, <<8, 8>>}}
    \cup {[kind |-> "keyed", key |-> k] : k \in {<<0, 3>>, <<0, 8>>, <<2, 0>>}}

Option(p, l, u) == [prefix |-> p, lower |-> l, upper |-> u]

\* Prefixes: empty, one byte, ending in the largest byte, only that byte;
\* bounds: none, either, both, crossed.
MCOptions ==
    {Option(p, Nil, Nil) : p \in {<<>>, RootKeyPrefix, <<3, 1>>, <<1, 0>>, <<3, 0, 8>>, <<8>>}}
    \cup {Option(Nil, Nil, Nil), Option(Nil, <<3>>, Nil), Option(Nil, Nil, <<4, 1, 0>>),
          Option(Nil, <<1, 0, 8>>, <<4, 1, 0>>), Option(Nil, <<6>>, <<3>>)}

MCTargets == {<<>>, RootKey(8), <<6, 1>>}

\* Versions are created in order, one a tick.
MCTimestamp(v) == v
=============================================================================
