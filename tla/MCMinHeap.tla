----------------------------- MODULE MCMinHeap -----------------------------
(* WaitCap = 6 gives two full levels and half of a third. *)
EXTENDS MinHeap
MCElements == {0, 1, 2}
=============================================================================
