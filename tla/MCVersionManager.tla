-------------------------- MODULE MCVersionManager --------------------------
(* Bounded instance of VersionManager for TLC.                             *)
EXTENDS VersionManager

CONSTANTS h0, h1, u1, noUpdater

MCHashes == {h0, h1}
MCUpdaters == {u1}
MCMinVersions == {0, 2}
MCMaxAges == {0, 1}
=============================================================================
