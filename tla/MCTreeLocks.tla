----------------------------- MODULE MCTreeLocks -----------------------------
(* Bounded instances of TreeLocks for TLC.                                 *)
EXTENDS TreeLocks

CONSTANTS a, b

TwoClients == {a, b}
OrderedMethods == AllMethods \ {"GetAtVersion"}
ReadAndCollect == {"GetAtVersion", "CollectVersionGarbage"}
=============================================================================
