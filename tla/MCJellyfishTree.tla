--------------------------- MODULE MCJellyfishTree ---------------------------
(* Bounded instances of JellyfishTree for TLC.                             *)
EXTENDS JellyfishTree

CONSTANTS x1, x2

\* Three levels.  No two keys differ in their last nibble only, so no leaf
\* has a sibling: a deletion prunes the leaf's branch and never collapses one.
SpreadKeys == {<<1, 0, 0>>, <<1, 1, 0>>, <<0, 1, 0>>}

\* Two keys that differ only in their last nibble, and one that branches off
\* a level above them: deleting one of the two collapses their branch.
AdjacentKeys == {<<1, 0, 0>>, <<1, 0, 1>>, <<1, 1, 0>>}

OneValue == {x1}
TwoValues == {x1, x2}
=============================================================================
