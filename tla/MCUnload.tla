------------------------------ MODULE MCUnload ------------------------------
(* Unload on a small instance: two features, so that a click of one and    *)
(* the switching off of the other cross.                                   *)
EXTENDS Unload
=============================================================================
