---------------------------- MODULE MCNonceCache ----------------------------
(***************************************************************************)
(* Instances of NonceCache for TLC.                                        *)
(***************************************************************************)
EXTENDS NonceCache, TLC

\* Callers and entries are interchangeable in the safety runs.
Interchangeable == Permutations(Callers) \union Permutations(Entries)
=============================================================================
