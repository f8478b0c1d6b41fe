------------------------------ MODULE MCLifecycle ------------------------------
(* Only the depth of Lifecycle is a parameter; see lifecycle.cfg.          *)
EXTENDS Lifecycle
=============================================================================
