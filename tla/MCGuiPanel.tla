------------------------------ MODULE MCGuiPanel -------------------------------
(* The panel on a small instance: a key, and two slots without one.          *)
EXTENDS GuiPanel, TLC

CONSTANTS off, on

\* A name that is no key may come beside an override.
MCFiles == [act : {120}, keys : {<< >>, 0 :> 200}, toggles : {on}, unknown : BOOLEAN]
===============================================================================
