------------------------------- MODULE MCHidLink -------------------------------
(* The HID link on small instances: the bounds are in the configurations.    *)
EXTENDS HidLink, TLC
===============================================================================
