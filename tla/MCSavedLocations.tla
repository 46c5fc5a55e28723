-------------------------- MODULE MCSavedLocations --------------------------
(* SavedLocations with two maps and a name, over one end of the game.      *)
EXTENDS SavedLocations
=============================================================================
