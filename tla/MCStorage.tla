------------------------------ MODULE MCStorage ------------------------------
(* Bounded instances of Storage for TLC.                                   *)
EXTENDS Storage

CONSTANTS a, b

TwoClients == {a, b}
=============================================================================
