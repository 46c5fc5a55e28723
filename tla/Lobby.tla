-------------------------------- MODULE Lobby --------------------------------
(***************************************************************************)
(* Player Alerts and Spectate of events/player_event.cpp: the other players*)
(* as the game has them, what the worker has made of them so far, and the  *)
(* camera.  All of it is on the game thread but the menu, which queues     *)
(* tasks.  What tick does besides is in module OwnName; PlayerWorker puts  *)
(* the two together.                                                       *)
(*                                                                         *)
(* A player state is a new one for each stay in each map.  The game state  *)
(* is known by its address only; MayReusePlace lets the next one be made   *)
(* where the last one was.  The fifteen seconds of quiet pass at any time. *)
(***************************************************************************)
EXTENDS Naturals, Sequences

CONSTANTS
  States,         \* the player states of others
  MayReusePlace,  \* whether a game state may have the address of the one before
  MaxMaps,        \* bound: maps loaded
  MaxClicks       \* bound: clicks on Spectate and Stop Spectating

ASSUME LobbyAssumption ==
  MayReusePlace \in BOOLEAN /\ MaxMaps \in Nat \ {0} /\ MaxClicks \in Nat

VARIABLES
  loaded,      \* there is a game state and a controller
  map,         \* which map it is, counted
  place,       \* where the game state is
  present,     \* the states in the game's PlayerArray
  left,        \* those that were, and have left, some before the mod came
  carried,     \* history: of these, those the change of the map took
  named,       \* those whose name has arrived
  bodies,      \* those with a character
  self,        \* you have a character
  view,        \* whom the camera follows: {} for you
  alerts,      \* Player Alerts is on
  lobby,       \* g_lobby
  lobbyPlace,  \* g_lobby_game_state, 0 for none
  settled,     \* fifteen seconds have passed since g_lobby_since
  spectating,  \* g_spectating
  spectated,   \* g_spectated.get(): whose character, {} once that is gone
  worker,      \* run() has not ended
  tasks,       \* the tasks queued
  clicks,      \* bound: clicks so far, any number of which may be spent at first
  here,        \* history: players who were there when the map came up
  late,        \* history: those of them not on the list when the quiet ended
  toldJoined, toldLeft,  \* history: players alerted about
  stranded,    \* history: the camera was to go back, and you had no character
  after        \* history: Spectate was run after the worker's end

gameVars   == <<loaded, map, place, present, left, carried, named, bodies>>
cameraVars == <<self, view, spectating, spectated, stranded, after>>
trackVars  == <<lobby, lobbyPlace, settled>>
toldVars   == <<toldJoined, toldLeft>>
queueVars  == <<worker, tasks, clicks>>
lobbyVars  == <<gameVars, cameraVars, trackVars, alerts, queueVars, here, late, toldVars>>

LobbyInit ==
  /\ loaded = TRUE /\ map = 1 /\ place = 1
  /\ left \in SUBSET States
  /\ present \in SUBSET (States \ left) /\ here = present
  /\ carried = {} /\ named = {} /\ bodies = {}
  /\ self = TRUE /\ view = {} /\ alerts = TRUE
  /\ lobby = {} /\ lobbyPlace = 0 /\ settled = FALSE
  /\ spectating = FALSE /\ spectated = {}
  /\ worker = TRUE /\ tasks = <<>> /\ clicks \in 0..MaxClicks
  /\ late = {} /\ toldJoined = {} /\ toldLeft = {}
  /\ stranded = FALSE /\ after = FALSE

-----------------------------------------------------------------------------
(* The game.                                                               *)

New == States \ (present \cup left)

Join(s) ==
  /\ loaded
  /\ s \in New
  /\ present' = present \cup {s}
  /\ UNCHANGED <<loaded, map, place, left, carried, named, bodies, cameraVars, trackVars, alerts,
                 queueVars, here, late, toldVars>>

(* "The name arrives a moment after the player does."                      *)
NameArrives(s) ==
  /\ s \in present \ named
  /\ named' = named \cup {s}
  /\ UNCHANGED <<loaded, map, place, present, left, carried, bodies, cameraVars, trackVars, alerts,
                 queueVars, here, late, toldVars>>

(* A character of another player comes up, or is gone; the next is another *)
(* one than that spectated.                                                *)
Body(s) ==
  /\ s \in present
  /\ bodies' = IF s \in bodies THEN bodies \ {s} ELSE bodies \cup {s}
  /\ spectated' = spectated \ {s}
  /\ UNCHANGED <<loaded, map, place, present, left, carried, named, self, view, spectating, stranded,
                 after, trackVars, alerts, queueVars, here, late, toldVars>>

Leave(s) ==
  /\ s \in present
  /\ present' = present \ {s}
  /\ left' = left \cup {s}
  /\ bodies' = bodies \ {s} /\ spectated' = spectated \ {s}
  /\ UNCHANGED <<loaded, map, place, carried, named, self, view, spectating, stranded, after, trackVars,
                 alerts, queueVars, here, late, toldVars>>

(* Your character dies, or comes up, when the game puts the camera on it.  *)
Self ==
  /\ self' = ~self
  /\ view' = IF self THEN view ELSE {}
  /\ stranded' = (stranded /\ self)
  /\ UNCHANGED <<gameVars, spectating, spectated, after, trackVars, alerts, queueVars, here, late, toldVars>>

(* The map goes, with its game state, players and characters.              *)
Travel ==
  /\ loaded
  /\ map < MaxMaps
  /\ loaded' = FALSE
  /\ present' = {} /\ bodies' = {} /\ spectated' = {}
  /\ left' = left \cup present
  /\ carried' = carried \cup present
  /\ self' = FALSE
  /\ UNCHANGED <<map, place, named, view, spectating, stranded, after, trackVars, alerts, queueVars,
                 here, late, toldVars>>

(* The next one is there, and players with it.                             *)
Arrive ==
  /\ ~loaded
  /\ loaded' = TRUE
  /\ map' = map + 1
  /\ \/ place' = map + 1
     \/ MayReusePlace /\ UNCHANGED place
  /\ present' \in SUBSET New
  /\ here' = here \cup present'
  /\ self' = TRUE /\ view' = {} /\ stranded' = FALSE
  /\ UNCHANGED <<left, carried, named, bodies, spectating, spectated, after, trackVars, alerts,
                 queueVars, late, toldVars>>

(* Fifteen seconds since the game state was first seen.                    *)
Settle ==
  /\ lobbyPlace # 0 /\ ~settled
  /\ settled' = TRUE
  /\ late' = late \cup (here \ lobby)
  /\ UNCHANGED <<gameVars, cameraVars, lobby, lobbyPlace, alerts, queueVars, here, toldVars>>

Toggle ==
  /\ alerts' = ~alerts
  /\ UNCHANGED <<gameVars, cameraVars, trackVars, queueVars, here, late, toldVars>>

-----------------------------------------------------------------------------
(* The worker.                                                             *)

(* view_own_character.                                                     *)
ViewOwn ==
  /\ spectating' = FALSE
  /\ spectated' = {}
  /\ view' = IF loaded /\ self THEN {} ELSE view
  /\ stranded' = (stranded \/ (view # {} /\ ~(loaded /\ self)))

(* tick, before it reads the players: a camera whose character is gone     *)
(* comes back.                                                             *)
KeepCamera ==
  IF spectating /\ spectated = {}
  THEN ViewOwn
  ELSE UNCHANGED <<spectating, spectated, view, stranded>>

(* Mutant of NewMap: the list goes on over the maps.                       *)
NewMap_Never == lobbyPlace = 0

(* g_lobby_game_state is compared with the game state's address.           *)
NewMap == lobbyPlace # place

Tracked == IF NewMap THEN {} ELSE lobby
Quiet   == NewMap \/ ~settled \/ ~alerts

(* check_lobby.                                                            *)
CheckLobby ==
  LET joined == (present \cap named) \ Tracked
      gone   == Tracked \ present IN
  /\ lobbyPlace' = place
  /\ settled' = (settled /\ ~NewMap)
  /\ lobby' = (Tracked \cup joined) \ gone
  /\ toldJoined' = IF Quiet THEN toldJoined ELSE toldJoined \cup joined
  /\ toldLeft' = IF Quiet THEN toldLeft ELSE toldLeft \cup gone

(* tick, as far as it is about the others; check_downed is left out.       *)
LobbyTick ==
  /\ worker
  /\ KeepCamera
  /\ IF loaded THEN CheckLobby ELSE UNCHANGED <<trackVars, toldVars>>
  /\ UNCHANGED <<gameVars, self, after, alerts, queueVars, here, late>>

(* Mutant of WorkerEnds: the camera is left where it is.                   *)
WorkerEnds_AsIs ==
  /\ worker
  /\ worker' = FALSE
  /\ UNCHANGED <<gameVars, cameraVars, trackVars, alerts, tasks, clicks, here, late, toldVars>>

(* The unload: run() sees g_running.                                       *)
WorkerEnds ==
  /\ worker
  /\ worker' = FALSE
  /\ IF spectating THEN ViewOwn ELSE UNCHANGED <<spectating, spectated, view, stranded>>
  /\ UNCHANGED <<gameVars, self, after, trackVars, alerts, tasks, clicks, here, late, toldVars>>

-----------------------------------------------------------------------------
(* The menu, and the tasks it queues.                                      *)

Stop == {}

(* act(spectate) of the selected player, or stop_spectating.               *)
Click(target) ==
  /\ worker
  /\ clicks < MaxClicks
  /\ clicks' = clicks + 1
  /\ tasks' = Append(tasks, target)
  /\ UNCHANGED <<gameVars, cameraVars, trackVars, alerts, worker, here, late, toldVars>>

(* spectate: a second click on the same player is the way back.  A state   *)
(* that is gone, or has no character, is only warned about.                *)
RunTask ==
  /\ tasks # <<>>
  /\ tasks' = Tail(tasks)
  /\ LET target == Head(tasks) IN
     \/ /\ target # Stop /\ target \subseteq bodies
        /\ spectating /\ spectated = target
        /\ ViewOwn
        /\ UNCHANGED after
     \/ /\ target # Stop /\ target \subseteq bodies
        /\ ~(spectating /\ spectated = target)
        /\ loaded
        /\ spectating' = TRUE /\ spectated' = target /\ view' = target
        /\ after' = (after \/ ~worker)
        /\ UNCHANGED stranded
     \/ /\ target = Stop
        /\ spectating
        /\ ViewOwn
        /\ UNCHANGED after
     \/ /\ \/ target # Stop /\ ~(target \subseteq bodies)
           \/ target = Stop /\ ~spectating
        /\ UNCHANGED <<spectating, spectated, view, stranded, after>>
  /\ UNCHANGED <<gameVars, self, trackVars, alerts, worker, clicks, here, late, toldVars>>

(* Steps of the game and the menu in which module OwnName has no part.     *)
LobbyStep ==
  \/ \E s \in States : Join(s) \/ NameArrives(s) \/ Body(s) \/ Leave(s)
  \/ Self \/ Settle \/ Toggle \/ WorkerEnds
  \/ \E target \in {Stop} \cup {{s} : s \in States} : Click(target)
  \/ RunTask

-----------------------------------------------------------------------------
(* Each variable has its type.                                             *)
LobbyTypeOK ==
  /\ loaded \in BOOLEAN /\ map \in 1..MaxMaps /\ place \in 1..MaxMaps
  /\ present \subseteq States /\ left \subseteq States /\ carried \subseteq left
  /\ named \subseteq States /\ bodies \subseteq present
  /\ self \in BOOLEAN /\ view \subseteq States /\ alerts \in BOOLEAN
  /\ lobby \subseteq States /\ lobbyPlace \in 0..MaxMaps /\ settled \in BOOLEAN
  /\ spectating \in BOOLEAN /\ spectated \subseteq States
  /\ worker \in BOOLEAN /\ tasks \in Seq(SUBSET States) /\ clicks \in 0..MaxClicks
  /\ here \subseteq States /\ late \subseteq States
  /\ toldJoined \subseteq States /\ toldLeft \subseteq States
  /\ stranded \in BOOLEAN /\ after \in BOOLEAN

(* "Players already here when a map loads, or still loading into it, are   *)
(* not announced as joining": but for one whose name takes longer than the *)
(* quiet to come.  Who is said to have left has left, and was not carried  *)
(* off by the change of the map.                                           *)
AlertsAreTrue ==
  /\ toldJoined \cap here \subseteq late
  /\ toldLeft \subseteq left \ carried

(* The camera is on you whenever Spectate is off or the mod has left,      *)
(* unless you had no character to go back to, or a Spectate clicked before *)
(* the unload was run after the worker's end.                              *)
CameraIsYours == ~spectating \/ ~worker => view = {} \/ stranded \/ after

=============================================================================
