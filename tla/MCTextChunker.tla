---------------------------- MODULE MCTextChunker ----------------------------
(***************************************************************************)
(* Small instances of TextChunker for TLC: texts of up to MaxLength        *)
(* characters with chunks of a few.                                        *)
(***************************************************************************)
EXTENDS TextChunker
=============================================================================
