---------------------------- MODULE PlayerWorker ----------------------------
(***************************************************************************)
(* events/player_event.cpp as a whole: one tick looks after the others     *)
(* (module Lobby) and then after your own name (module OwnName), and a     *)
(* change of the map takes both.                                           *)
(***************************************************************************)
EXTENDS OwnName

vars == <<lobbyVars, ownVars>>

Init == LobbyInit /\ OwnInit

(* tick.                                                                   *)
Tick == LobbyTick /\ NameTick

TravelOn   == Travel /\ OwnTravel
ArriveNext == Arrive /\ OwnArrive

Next ==
  \/ Tick \/ TravelOn \/ ArriveNext
  \/ LobbyStep /\ UNCHANGED ownVars
  \/ OwnStep /\ UNCHANGED lobbyVars

(* The worker's loop goes on, calls are answered, and time passes.         *)
Fairness ==
  /\ WF_vars(Tick)
  /\ WF_vars(ServerAnswers /\ UNCHANGED lobbyVars)
  /\ \A delay \in Delays : WF_vars(TimePasses(delay) /\ UNCHANGED lobbyVars)

Spec == Init /\ [][Next]_vars

FairSpec == Spec /\ Fairness

TypeOK == LobbyTypeOK /\ OwnTypeOK

=============================================================================
