--------------------------- MODULE MCMenuSettings ---------------------------
(* MenuSettings on a small instance: two settings of two values.           *)
EXTENDS MenuSettings

AllOnes == [k \in Keys |-> 1]
=============================================================================
