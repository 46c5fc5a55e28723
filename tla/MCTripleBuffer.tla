--------------------------- MODULE MCTripleBuffer ---------------------------
(* TripleBuffer with enough frames for the rotation to come round: the     *)
(* fourth frame is built in the buffer the first was shown from.           *)
EXTENDS TripleBuffer
=============================================================================
