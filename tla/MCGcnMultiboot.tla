--------------------------- MODULE MCGcnMultiboot ---------------------------
(***************************************************************************)
(* Headers of three words, images of two and of four words.                *)
(***************************************************************************)
EXTENDS GcnMultiboot
=============================================================================
