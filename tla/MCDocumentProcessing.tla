------------------------- MODULE MCDocumentProcessing -------------------------
(***************************************************************************)
(* Small instances of DocumentProcessing for TLC.  Handlers are            *)
(* interchangeable, and so are workers and command lines among themselves; *)
(* the liveness runs do not use the symmetry.                              *)
(***************************************************************************)
EXTENDS DocumentProcessing, TLC

Symmetry == Permutations(Workers) \cup Permutations(Clis) \cup Permutations(Handlers)

\* Bound of the shared deployment: at most two sessions work on a document at
\* the same time.
TwoSessions == Cardinality({p \in Procs : job[p] # NoDoc}) <= 2
=============================================================================
