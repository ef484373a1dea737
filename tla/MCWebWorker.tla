------------------------------ MODULE MCWebWorker ------------------------------
(* The browser's worker on small instances.                                  *)
EXTENDS WebWorker

Connecting == {"Reconnect", "Write"}
Viewing    == {"LiveOn", "LiveOff", "Refresh"}
Everything == Command
===============================================================================
