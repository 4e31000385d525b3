---------------------------- MODULE MCUploadStorage ----------------------------
(***************************************************************************)
(* Small instances of UploadStorage for TLC.  Uploads, PDFs and other      *)
(* contents are each interchangeable.                                      *)
(***************************************************************************)
EXTENDS UploadStorage, TLC

Symmetry == Permutations(Uploads) \cup Permutations(Pdfs)
=============================================================================
