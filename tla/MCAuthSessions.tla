---------------------------- MODULE MCAuthSessions ----------------------------
(***************************************************************************)
(* Small instances of AuthSessions for TLC, with interchangeable requests  *)
(* and names.                                                              *)
(***************************************************************************)
EXTENDS AuthSessions, TLC

Symmetry == Permutations(Requests)
=============================================================================
