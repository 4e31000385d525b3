---------------------------- MODULE MCCollections ----------------------------
(***************************************************************************)
(* Small instances of Collections for TLC, with interchangeable requests   *)
(* and documents.                                                          *)
(***************************************************************************)
EXTENDS Collections, TLC

Symmetry == Permutations(Requests) \cup Permutations(Documents)
=============================================================================
