------------------------------- MODULE MCTree -------------------------------
(* Bounded instances of Tree for TLC.                                      *)
EXTENDS Tree, TLC

CONSTANTS a, b, k1, k2, x1, x2

MCMinVersions == {1}
MCMaxAges == {0}
OneKey == {k1}
TwoKeys == {k1, k2}
OneClient == {a}
TwoClients == {a, b}
OneValue == {x1}
TwoValues == {x1, x2}
ClientSymmetry == Permutations({a, b})
=============================================================================
