--------------------------- MODULE SavedLocations ---------------------------
(***************************************************************************)
(* The saved locations and teleport_location.json:                         *)
(* services/custom_teleport and menu/submenu/teleport_submenu.cpp.         *)
(*                                                                         *)
(* All of it runs on the render thread.  The file is written whole, in two *)
(* steps of which the first empties it, after each save and each deletion; *)
(* it is read once per start, when the window of saved locations is first  *)
(* drawn.  A location is deleted by its name: all of that name go.         *)
(***************************************************************************)
EXTENDS FiniteSets, Naturals

CONSTANTS
  Maps,      \* categories
  Names,     \* what a location may be called
  MaxSaved,  \* bound: locations saved
  MaxEnds    \* bound: ends of the game

VARIABLES
  up,       \* the mod runs
  loaded,   \* the window has been drawn since the start
  saved,    \* all_saved_locations
  disk,     \* what the file holds, empty when it is not there
  readable, \* the file can be parsed
  writing,  \* between the two steps of a write
  count,    \* bound: locations saved so far, which tells them apart
  ends,     \* bound: ends so far
  kept,     \* history: the locations saved and not deleted
  torn      \* history: the game ended in a write, or the file could not be opened

vars == <<up, loaded, saved, disk, readable, writing, count, ends, kept, torn>>

Locations == [map : Maps, name : Names, place : 1..MaxSaved]

Init ==
  /\ up = FALSE /\ loaded = FALSE /\ saved = {}
  /\ disk = {} /\ readable \in BOOLEAN
  /\ writing = FALSE
  /\ count = 0 /\ ends = 0
  /\ kept = {}
  /\ torn = FALSE

Start ==
  /\ ~up
  /\ up' = TRUE
  /\ loaded' = FALSE
  /\ saved' = {}
  /\ UNCHANGED <<disk, readable, writing, count, ends, kept, torn>>

(* The window is drawn for the first time: fetch_saved_locations, which    *)
(* clears the list and finds no more where the file is not there or not    *)
(* readable.                                                               *)
OpenWindow ==
  /\ up /\ ~writing
  /\ ~loaded
  /\ loaded' = TRUE
  /\ saved' = IF readable THEN disk ELSE {}
  /\ UNCHANGED <<up, disk, readable, writing, count, ends, kept, torn>>

(* std::ofstream with trunc.  It may fail, and then nothing is written.    *)
Truncate ==
  \/ /\ writing' = TRUE /\ disk' = {} /\ readable' = FALSE
     /\ UNCHANGED torn
  \/ /\ torn' = TRUE
     /\ UNCHANGED <<writing, disk, readable>>

(* save_new_location, whether the list has been fetched or not.            *)
Save(m, n) ==
  /\ up /\ ~writing
  /\ count < MaxSaved
  /\ count' = count + 1
  /\ LET location == [map |-> m, name |-> n, place |-> count + 1] IN
     /\ saved' = saved \cup {location}
     /\ kept' = kept \cup {location}
  /\ Truncate
  /\ UNCHANGED <<up, loaded, ends>>

(* Delete, in the window: delete_saved_location of a row's map and name.   *)
Delete(location) ==
  /\ up /\ ~writing /\ loaded
  /\ location \in saved
  /\ LET gone == {l \in Locations : l.map = location.map /\ l.name = location.name} IN
     /\ saved' = saved \ gone
     /\ kept' = kept \ gone
  /\ Truncate
  /\ UNCHANGED <<up, loaded, count, ends>>

Write ==
  /\ writing
  /\ writing' = FALSE
  /\ disk' = saved
  /\ readable' = TRUE
  /\ UNCHANGED <<up, loaded, saved, count, ends, kept, torn>>

(* The game ends or the mod is unloaded.                                   *)
End ==
  /\ up
  /\ ends < MaxEnds
  /\ ends' = ends + 1
  /\ up' = FALSE
  /\ writing' = FALSE
  /\ torn' = (torn \/ writing)
  /\ UNCHANGED <<loaded, saved, disk, readable, count, kept>>

Next ==
  \/ Start \/ OpenWindow \/ Write \/ End
  \/ \E m \in Maps, n \in Names : Save(m, n)
  \/ \E location \in saved : Delete(location)

Spec == Init /\ [][Next]_vars

-----------------------------------------------------------------------------
(* Each variable has its type.                                             *)
TypeOK ==
  /\ up \in BOOLEAN /\ loaded \in BOOLEAN /\ readable \in BOOLEAN
  /\ writing \in BOOLEAN /\ torn \in BOOLEAN
  /\ saved \subseteq Locations /\ disk \subseteq Locations /\ kept \subseteq Locations
  /\ count \in 0..MaxSaved /\ ends \in 0..MaxEnds

(* "Saves where you stand on this map under a name"                        *)
(* (teleport_submenu.cpp): what was saved and not deleted is in the file,  *)
(* unless the game ended in a write or the file could not be opened.       *)
SavedStay == ~writing /\ ~torn => kept \subseteq disk

=============================================================================
