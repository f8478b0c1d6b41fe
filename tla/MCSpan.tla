-------------------------------- MODULE MCSpan --------------------------------
(* A span of two elements per chunk and up to three chunks.                *)
EXTENDS Span, TLC

MCSymmetry == Permutations(Blocks)
=============================================================================
