------------------------------ MODULE MCToolchain ------------------------------
(* Any programs on PATH.                                                   *)
EXTENDS Toolchain

MCPathSets == SUBSET Programs
=============================================================================
