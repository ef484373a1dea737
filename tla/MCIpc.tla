--------------------------------- MODULE MCIpc ---------------------------------
(* Connections on small instances: the bounds are in the configurations.     *)
EXTENDS Ipc, TLC
===============================================================================
