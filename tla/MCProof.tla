------------------------------ MODULE MCProof ------------------------------
(* Bounded instances of Proof for TLC, on the keys of MCJellyfishTree.     *)
EXTENDS Proof, MCJellyfishTree

\* x2 is so long that whether its proof fits depends on the proof's siblings.
Sizes == [x \in Values |-> IF x = x1 THEN 1 ELSE 1000]
=============================================================================
