------------------------------ MODULE MCSPSCQ ------------------------------
(* A ring of four slots and two elements for TLC. *)
EXTENDS SPSCQ
MCValues == {1, 2}
=============================================================================
