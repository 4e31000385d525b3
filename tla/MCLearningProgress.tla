-------------------------- MODULE MCLearningProgress --------------------------
(***************************************************************************)
(* Small instances of LearningProgress for TLC, with interchangeable       *)
(* requests.                                                               *)
(***************************************************************************)
EXTENDS LearningProgress, TLC

Symmetry == Permutations(Requests)
=============================================================================
