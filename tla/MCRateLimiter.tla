---------------------------- MODULE MCRateLimiter ----------------------------
(***************************************************************************)
(* Small instances of RateLimiter for TLC, with interchangeable requests   *)
(* and clients.                                                            *)
(***************************************************************************)
EXTENDS RateLimiter

Symmetry == Permutations(Requests) \cup Permutations(Clients)
=============================================================================
