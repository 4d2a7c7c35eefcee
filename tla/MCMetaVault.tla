----------------------------- MODULE MCMetaVault -----------------------------
(* Small instances of MetaVault for TLC.                                   *)
EXTENDS MetaVault, TLC

CONSTANTS d1, d2, f1, w1, w2

Interchangeable == Permutations(Writers) \cup Permutations(Devices)
=============================================================================
