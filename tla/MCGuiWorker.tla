------------------------------ MODULE MCGuiWorker ------------------------------
(* The GUI's worker on small instances: the bounds are in the configurations. *)
EXTENDS GuiWorker, TLC
===============================================================================
