------------------------------ MODULE MCLifecycle ------------------------------
(* Start-up on small instances: the bounds are in the configurations.        *)
EXTENDS Lifecycle, TLC
===============================================================================
