------------------------- MODULE PlayerWorkerProofs -------------------------
(***************************************************************************)
(* PlayerWorker for any players, maps, tries and clicks: what it says of   *)
(* the others is true, and it leaves the camera with you.                  *)
(***************************************************************************)
EXTENDS PlayerWorker, TLAPS

(* The map that is left is not the last, and the list is of the map that *)
(* is on or of an earlier one.                                           *)
Maps ==
  /\ ~loaded => map < MaxMaps /\ present = {}
  /\ lobbyPlace <= map /\ place <= map
  /\ ~MayReusePlace => place = map

(* A player state is used for one stay, and those on the list, or told of,*)
(* are there or were.                                                    *)
Stays ==
  /\ present \cap left = {}
  /\ lobby \subseteq present \cup left
  /\ toldJoined \subseteq present \cup left

(* What the list is while it is of the map that is on: nobody on it was  *)
(* carried off, and after the quiet who was there when the map came up is*)
(* on it, was too late for it, or has left.                              *)
Current ==
  lobbyPlace = place =>
    /\ loaded => lobby \cap carried = {}
    /\ settled => here \subseteq lobby \cup late \cup left

(* The types of Lobby, those of its flags and those of the rest.         *)
Flags ==
  /\ loaded \in BOOLEAN /\ self \in BOOLEAN /\ alerts \in BOOLEAN /\ settled \in BOOLEAN
  /\ spectating \in BOOLEAN /\ worker \in BOOLEAN /\ stranded \in BOOLEAN /\ after \in BOOLEAN

Data ==
  /\ map \in 1..MaxMaps /\ place \in 1..MaxMaps /\ lobbyPlace \in 0..MaxMaps
  /\ present \subseteq States /\ left \subseteq States /\ carried \subseteq left
  /\ named \subseteq States /\ bodies \subseteq present
  /\ view \subseteq States /\ spectated \subseteq States
  /\ lobby \subseteq States
  /\ tasks \in Seq(SUBSET States) /\ clicks \in 0..MaxClicks
  /\ here \subseteq States /\ late \subseteq States
  /\ toldJoined \subseteq States /\ toldLeft \subseteq States

(* What a step is to Lobby.                                              *)
LEMMA LobbySteps ==
  [Next]_vars => LobbyTick \/ Travel \/ Arrive \/ LobbyStep \/ UNCHANGED lobbyVars
BY DEF Next, Tick, TravelOn, ArriveNext, vars

(* At first there is a map, and nothing has been said.                   *)
LEMMA BeginsSafe == LobbyInit => LobbyTypeOK /\ Maps /\ Stays /\ Current /\ AlertsAreTrue /\ CameraIsYours
<1> SUFFICES ASSUME LobbyInit
             PROVE  LobbyTypeOK /\ Maps /\ Stays /\ Current /\ AlertsAreTrue /\ CameraIsYours
  OBVIOUS
<1>1. Flags
  BY DEF LobbyInit, Flags
<1>2. Data
  BY LobbyAssumption DEF LobbyInit, Data
<1>3. Maps /\ Stays /\ Current /\ AlertsAreTrue /\ CameraIsYours
  BY DEF LobbyInit, Maps, Stays, Current, AlertsAreTrue, CameraIsYours
<1> QED
  BY <1>1, <1>2, <1>3 DEF LobbyTypeOK, Flags, Data

(* Each flag keeps its type.                                             *)
LEMMA FlagsStep == Flags /\ [Next]_vars => Flags'
<1> SUFFICES ASSUME Flags, [Next]_vars PROVE Flags'
  OBVIOUS
<1> USE DEF Flags, gameVars, cameraVars, trackVars, toldVars, queueVars
<1>1. ASSUME NEW s \in States, Join(s) \/ NameArrives(s) \/ Body(s) \/ Leave(s)
      PROVE  Flags'
  BY <1>1 DEF Join, NameArrives, Body, Leave, New
<1>2. CASE Self
  BY <1>2 DEF Self
<1>3. CASE Settle
  BY <1>3 DEF Settle
<1>4. CASE Toggle
  BY <1>4 DEF Toggle
<1>5. CASE WorkerEnds
  BY <1>5 DEF WorkerEnds, ViewOwn
<1>6. CASE RunTask
  BY <1>6 DEF RunTask, ViewOwn, Stop
<1>7. CASE LobbyTick
  BY <1>7 DEF LobbyTick, KeepCamera, ViewOwn, CheckLobby, Tracked, Quiet, NewMap
<1>8. CASE Travel
  BY <1>8 DEF Travel
<1>9. CASE Arrive
  BY <1>9 DEF Arrive, New
<1>10. ASSUME NEW target \in {Stop} \cup {{s} : s \in States}, Click(target) PROVE Flags'
  BY <1>10 DEF Click, Stop
<1>11. CASE UNCHANGED lobbyVars
  BY <1>11 DEF lobbyVars
<1> QED
  BY <1>1, <1>2, <1>3, <1>4, <1>5, <1>6, <1>7, <1>8, <1>9, <1>10, <1>11, LobbySteps DEF LobbyStep

(* So does the rest.                                                     *)
LEMMA DataStep == Data /\ Maps /\ [Next]_vars => Data'
<1> SUFFICES ASSUME Data, Maps, [Next]_vars PROVE Data'
  OBVIOUS
<1> USE LobbyAssumption DEF Data, Maps, gameVars, cameraVars, trackVars, toldVars, queueVars
<1>1. ASSUME NEW s \in States, Join(s) \/ NameArrives(s) \/ Body(s) \/ Leave(s)
      PROVE  Data'
  BY <1>1 DEF Join, NameArrives, Body, Leave, New
<1>2. CASE Self
  BY <1>2 DEF Self
<1>3. CASE Settle
  BY <1>3 DEF Settle
<1>4. CASE Toggle
  BY <1>4 DEF Toggle
<1>5. CASE WorkerEnds
  BY <1>5 DEF WorkerEnds, ViewOwn
<1>6. CASE RunTask
  BY <1>6 DEF RunTask, ViewOwn, Stop
<1>7. CASE LobbyTick
  BY <1>7 DEF LobbyTick, KeepCamera, ViewOwn, CheckLobby, Tracked, Quiet, NewMap
<1>8. CASE Travel
  BY <1>8 DEF Travel
<1>9. CASE Arrive
  <2>1. present' \subseteq New /\ New \subseteq States /\ New \cap (present \cup left) = {}
    BY <1>9 DEF Arrive, New
  <2>2. map' \in 1..MaxMaps /\ place' \in 1..MaxMaps
    BY <1>9 DEF Arrive
  <2> QED
    BY <1>9, <2>1, <2>2 DEF Arrive
<1>10. ASSUME NEW target \in {Stop} \cup {{s} : s \in States}, Click(target) PROVE Data'
  BY <1>10 DEF Click, Stop
<1>11. CASE UNCHANGED lobbyVars
  BY <1>11 DEF lobbyVars
<1> QED
  BY <1>1, <1>2, <1>3, <1>4, <1>5, <1>6, <1>7, <1>8, <1>9, <1>10, <1>11, LobbySteps DEF LobbyStep

(* Maps go on.                                                           *)
LEMMA MapsStep == Data /\ Maps /\ [Next]_vars => Maps'
<1> SUFFICES ASSUME Data, Maps, [Next]_vars PROVE Maps'
  OBVIOUS
<1> USE LobbyAssumption DEF Data, Maps, gameVars, cameraVars, trackVars, toldVars, queueVars
<1>1. ASSUME NEW s \in States, Join(s) \/ NameArrives(s) \/ Body(s) \/ Leave(s)
      PROVE  Maps'
  BY <1>1 DEF Join, NameArrives, Body, Leave, New
<1>2. CASE Self
  BY <1>2 DEF Self
<1>3. CASE Settle
  BY <1>3 DEF Settle
<1>4. CASE Toggle
  BY <1>4 DEF Toggle
<1>5. CASE WorkerEnds
  BY <1>5 DEF WorkerEnds, ViewOwn
<1>6. CASE RunTask
  BY <1>6 DEF RunTask, ViewOwn, Stop
<1>7. CASE LobbyTick
  <2>1. place <= map /\ lobbyPlace' \in {lobbyPlace, place}
    BY <1>7 DEF LobbyTick, CheckLobby
  <2> QED
    BY <1>7, <2>1 DEF LobbyTick
<1>8. CASE Travel
  BY <1>8 DEF Travel
<1>9. CASE Arrive
  BY <1>9 DEF Arrive, New
<1>10. ASSUME NEW target \in {Stop} \cup {{s} : s \in States}, Click(target) PROVE Maps'
  BY <1>10 DEF Click, Stop
<1>11. CASE UNCHANGED lobbyVars
  BY <1>11 DEF lobbyVars
<1> QED
  BY <1>1, <1>2, <1>3, <1>4, <1>5, <1>6, <1>7, <1>8, <1>9, <1>10, <1>11, LobbySteps DEF LobbyStep

(* Nobody comes back in the state he left in.                            *)
LEMMA StaysStep == Data /\ Maps /\ Stays /\ [Next]_vars => Stays'
<1> SUFFICES ASSUME Data, Maps, Stays, [Next]_vars PROVE Stays'
  OBVIOUS
<1> USE DEF Data, Maps, Stays, gameVars, cameraVars, trackVars, toldVars, queueVars
<1>1. ASSUME NEW s \in States, Join(s) \/ NameArrives(s) \/ Body(s) \/ Leave(s)
      PROVE  Stays'
  BY <1>1 DEF Join, NameArrives, Body, Leave, New
<1>2. CASE Self
  BY <1>2 DEF Self
<1>3. CASE Settle
  BY <1>3 DEF Settle
<1>4. CASE Toggle
  BY <1>4 DEF Toggle
<1>5. CASE WorkerEnds
  BY <1>5 DEF WorkerEnds, ViewOwn
<1>6. CASE RunTask
  BY <1>6 DEF RunTask, ViewOwn, Stop
<1>7. CASE LobbyTick
  BY <1>7 DEF LobbyTick, KeepCamera, ViewOwn, CheckLobby, Tracked, Quiet, NewMap
<1>8. CASE Travel
  BY <1>8 DEF Travel
<1>9. CASE Arrive
  BY <1>9 DEF Arrive, New
<1>10. ASSUME NEW target \in {Stop} \cup {{s} : s \in States}, Click(target) PROVE Stays'
  BY <1>10 DEF Click, Stop
<1>11. CASE UNCHANGED lobbyVars
  BY <1>11 DEF lobbyVars
<1> QED
  BY <1>1, <1>2, <1>3, <1>4, <1>5, <1>6, <1>7, <1>8, <1>9, <1>10, <1>11, LobbySteps DEF LobbyStep

(* The list keeps whom it has until he leaves.                           *)
LEMMA CurrentStep ==
  ~MayReusePlace /\ Data /\ Maps /\ Stays /\ Current /\ [Next]_vars => Current'
<1> SUFFICES ASSUME ~MayReusePlace, Data, Maps, Stays, Current, [Next]_vars PROVE Current'
  OBVIOUS
<1> USE DEF Data, Maps, Stays, Current, gameVars, cameraVars, trackVars, toldVars, queueVars
<1>1. ASSUME NEW s \in States, Join(s) \/ NameArrives(s) \/ Body(s) \/ Leave(s)
      PROVE  Current'
  BY <1>1 DEF Join, NameArrives, Body, Leave, New
<1>2. CASE Self
  BY <1>2 DEF Self
<1>3. CASE Settle
  BY <1>3 DEF Settle
<1>4. CASE Toggle
  BY <1>4 DEF Toggle
<1>5. CASE WorkerEnds
  BY <1>5 DEF WorkerEnds, ViewOwn
<1>6. CASE RunTask
  BY <1>6 DEF RunTask, ViewOwn, Stop
<1>7. CASE LobbyTick
  BY <1>7 DEF LobbyTick, KeepCamera, ViewOwn, CheckLobby, Tracked, Quiet, NewMap
<1>8. CASE Travel
  BY <1>8 DEF Travel
<1>9. CASE Arrive
  <2>1. present' \subseteq New /\ New \subseteq States /\ New \cap (present \cup left) = {}
    BY <1>9 DEF Arrive, New
  <2>2. lobbyPlace # place' /\ UNCHANGED <<lobby, lobbyPlace, settled, left, carried, late, toldJoined, toldLeft>>
    BY <1>9 DEF Arrive
  <2> QED
    BY <1>9, <2>1, <2>2 DEF Arrive
<1>10. ASSUME NEW target \in {Stop} \cup {{s} : s \in States}, Click(target) PROVE Current'
  BY <1>10 DEF Click, Stop
<1>11. CASE UNCHANGED lobbyVars
  BY <1>11 DEF lobbyVars
<1> QED
  BY <1>1, <1>2, <1>3, <1>4, <1>5, <1>6, <1>7, <1>8, <1>9, <1>10, <1>11, LobbySteps DEF LobbyStep

(* An alert is given of a map whose quiet has passed only.               *)
LEMMA AlertsStep ==
  ~MayReusePlace /\ Data /\ Maps /\ Stays /\ Current /\ AlertsAreTrue /\ [Next]_vars => AlertsAreTrue'
<1> SUFFICES ASSUME ~MayReusePlace, Data, Maps, Stays, Current, AlertsAreTrue, [Next]_vars PROVE AlertsAreTrue'
  OBVIOUS
<1> USE DEF Data, Maps, Stays, Current, AlertsAreTrue, gameVars, cameraVars, trackVars, toldVars, queueVars
<1>1. ASSUME NEW s \in States, Join(s) \/ NameArrives(s) \/ Body(s) \/ Leave(s)
      PROVE  AlertsAreTrue'
  BY <1>1 DEF Join, NameArrives, Body, Leave, New
<1>2. CASE Self
  BY <1>2 DEF Self
<1>3. CASE Settle
  BY <1>3 DEF Settle
<1>4. CASE Toggle
  BY <1>4 DEF Toggle
<1>5. CASE WorkerEnds
  BY <1>5 DEF WorkerEnds, ViewOwn
<1>6. CASE RunTask
  BY <1>6 DEF RunTask, ViewOwn, Stop
<1>7. CASE LobbyTick
  BY <1>7 DEF LobbyTick, KeepCamera, ViewOwn, CheckLobby, Tracked, Quiet, NewMap
<1>8. CASE Travel
  BY <1>8 DEF Travel
<1>9. CASE Arrive
  BY <1>9 DEF Arrive, New
<1>10. ASSUME NEW target \in {Stop} \cup {{s} : s \in States}, Click(target) PROVE AlertsAreTrue'
  BY <1>10 DEF Click, Stop
<1>11. CASE UNCHANGED lobbyVars
  BY <1>11 DEF lobbyVars
<1> QED
  BY <1>1, <1>2, <1>3, <1>4, <1>5, <1>6, <1>7, <1>8, <1>9, <1>10, <1>11, LobbySteps DEF LobbyStep

(* Whoever takes Spectate off puts the camera back.                      *)
LEMMA CameraStep == LobbyTypeOK /\ CameraIsYours /\ [Next]_vars => CameraIsYours'
<1> SUFFICES ASSUME LobbyTypeOK, CameraIsYours, [Next]_vars PROVE CameraIsYours'
  OBVIOUS
<1> USE DEF LobbyTypeOK, CameraIsYours, gameVars, cameraVars, trackVars, toldVars, queueVars
<1>1. ASSUME NEW s \in States, Join(s) \/ NameArrives(s) \/ Body(s) \/ Leave(s)
      PROVE  CameraIsYours'
  BY <1>1 DEF Join, NameArrives, Body, Leave, New
<1>2. CASE Self
  BY <1>2 DEF Self
<1>3. CASE Settle
  BY <1>3 DEF Settle
<1>4. CASE Toggle
  BY <1>4 DEF Toggle
<1>5. CASE WorkerEnds
  BY <1>5 DEF WorkerEnds, ViewOwn
<1>6. CASE RunTask
  <2>1. CASE ViewOwn /\ after' = after /\ worker' = worker
    BY <2>1 DEF ViewOwn
  <2>2. CASE spectating' = TRUE /\ worker' = worker /\ after' = (after \/ ~worker)
    <3>1. ~worker' => after'
      BY <2>2, Zenon
    <3> QED
      BY <2>2, <3>1
  <2>3. CASE UNCHANGED <<spectating, worker, view, stranded, after>>
    BY <2>3
  <2> QED
    BY <1>6, <2>1, <2>2, <2>3 DEF RunTask
<1>7. CASE LobbyTick
  BY <1>7 DEF LobbyTick, KeepCamera, ViewOwn, CheckLobby, Tracked, Quiet, NewMap
<1>8. CASE Travel
  BY <1>8 DEF Travel
<1>9. CASE Arrive
  BY <1>9 DEF Arrive, New
<1>10. ASSUME NEW target \in {Stop} \cup {{s} : s \in States}, Click(target) PROVE CameraIsYours'
  BY <1>10 DEF Click, Stop
<1>11. CASE UNCHANGED lobbyVars
  BY <1>11 DEF lobbyVars
<1> QED
  BY <1>1, <1>2, <1>3, <1>4, <1>5, <1>6, <1>7, <1>8, <1>9, <1>10, <1>11, LobbySteps DEF LobbyStep

(* The types of OwnName, those of its flags and those of the rest.       *)
OwnFlags == host \in BOOLEAN /\ otherTags \in BOOLEAN /\ dressedLate \in BOOLEAN

OwnData ==
  /\ ownName \in Names /\ platform \in {"steam", "unknown"}
  /\ tag \in Names \cup {"none"}
  /\ flight \in Seq(Names) /\ wanted \in Names \cup {"none"}
  /\ nameTries \in 0..Tries /\ nameMap \in 0..map
  /\ wantedPlatform \in {"steam", "unknown", "none"} /\ platformTries \in 0..Tries
  /\ tagName \in Names \cup {"none"} /\ tagMap \in 0..map
  /\ waits \subseteq Delays /\ renames \in 0..MaxRenames /\ resets \in 0..MaxResets
  /\ askedHere \in 0..Tries

(* Nothing but its change moves the map.                                 *)
LEMMA MapStays == LobbyStep => map' = map
BY DEF LobbyStep, Join, NameArrives, Body, Leave, Self, Settle, Toggle, WorkerEnds, Click, RunTask, gameVars

(* Your flags keep their types.                                          *)
LEMMA OwnFlagsStep ==
  OwnFlags /\ [Next]_vars => OwnFlags'
<1> SUFFICES ASSUME OwnFlags, [Next]_vars PROVE OwnFlags'
  OBVIOUS
<1> USE DEF OwnFlags, lobbyVars, gameVars, ownVars, serverVars, nameVars, platformVars, tagVars
<1>1. CASE Tick
  BY <1>1 DEF Tick, LobbyTick, NameTick, KeepName, TriesOn, RefreshNameTags, TagIsDue, KeepPlatform, ApplyPlatform, MayTryPlatform
<1>2. CASE TravelOn
  BY <1>2 DEF TravelOn, Travel, OwnTravel
<1>3. CASE ArriveNext
  BY <1>3 DEF ArriveNext, Arrive, OwnArrive
<1>4. CASE LobbyStep /\ UNCHANGED ownVars
  BY <1>4, MapStays
<1>5. CASE Dress /\ UNCHANGED lobbyVars
  BY <1>5 DEF Dress
<1>6. CASE ServerAnswers /\ UNCHANGED lobbyVars
  BY <1>6 DEF ServerAnswers
<1>7. CASE GameResets /\ UNCHANGED lobbyVars
  BY <1>7 DEF GameResets
<1>8. ASSUME NEW delay \in Delays, TimePasses(delay), UNCHANGED lobbyVars PROVE OwnFlags'
  BY <1>8 DEF TimePasses
<1>9. ASSUME NEW name \in Names, Rename(name), UNCHANGED lobbyVars PROVE OwnFlags'
  BY <1>9 DEF Rename, ApplyPlatform, PlatformOf
<1>10. CASE UNCHANGED vars
  BY <1>10 DEF vars
<1> QED
  BY <1>1, <1>2, <1>3, <1>4, <1>5, <1>6, <1>7, <1>8, <1>9, <1>10 DEF Next, OwnStep

(* So does the rest of what is yours.                                    *)
LEMMA OwnDataStep ==
  Data /\ OwnData /\ [Next]_vars => OwnData'
<1> SUFFICES ASSUME Data, OwnData, [Next]_vars PROVE OwnData'
  OBVIOUS
<1> USE LobbyAssumption, OwnNameAssumption DEF Data, OwnData, lobbyVars, gameVars, ownVars, serverVars, nameVars, platformVars, tagVars
<1>1. CASE Tick
  <2>1. map' = map
    BY <1>1 DEF Tick, LobbyTick
  <2>2. CASE ~loaded
    BY <1>1, <2>1, <2>2 DEF Tick, NameTick
  <2>3. CASE loaded
    <3>1. KeepName /\ RefreshNameTags /\ KeepPlatform
      BY <1>1, <2>3 DEF Tick, NameTick
    <3>2. /\ nameTries' \in 0..Tries /\ nameMap' \in 0..map
          /\ flight' \in Seq(Names) /\ askedHere' \in 0..Tries
      <4>1. CASE wanted = "none"
        BY <3>1, <4>1 DEF KeepName
      <4>2. CASE wanted # "none"
        <5>1. wanted \in Names /\ TriesOn(map) \in 0..Tries
          BY <4>2 DEF TriesOn
        <5>2. nameMap' = map /\ nameTries' \in 0..Tries
          BY <3>1, <4>2, <5>1 DEF KeepName
        <5>3. flight' \in {flight, Append(flight, wanted)} /\ askedHere' \in 0..Tries
          BY <3>1, <4>2 DEF KeepName
        <5> QED
          BY <5>1, <5>2, <5>3
      <4> QED
        BY <4>1, <4>2
    <3>3. /\ tag' \in Names \cup {"none"}
          /\ tagName' \in Names \cup {"none"} /\ tagMap' \in 0..map
      BY <3>1 DEF RefreshNameTags
    <3>4. platform' \in {"steam", "unknown"} /\ platformTries' \in 0..Tries
      BY <3>1 DEF KeepPlatform, ApplyPlatform
    <3>5. waits' \subseteq Delays
      BY <1>1, <2>3 DEF Tick, NameTick, Delays
    <3>6. UNCHANGED <<ownName, wanted, wantedPlatform, renames, resets>>
      BY <1>1, <2>3 DEF Tick, NameTick
    <3> QED
      BY <2>1, <3>2, <3>3, <3>4, <3>5, <3>6
  <2> QED
    BY <2>2, <2>3
<1>2. CASE TravelOn
  BY <1>2 DEF TravelOn, Travel, OwnTravel
<1>3. CASE ArriveNext
  BY <1>3 DEF ArriveNext, Arrive, OwnArrive, Names
<1>4. CASE LobbyStep /\ UNCHANGED ownVars
  BY <1>4, MapStays
<1>5. CASE Dress /\ UNCHANGED lobbyVars
  BY <1>5 DEF Dress
<1>6. CASE ServerAnswers /\ UNCHANGED lobbyVars
  BY <1>6 DEF ServerAnswers
<1>7. CASE GameResets /\ UNCHANGED lobbyVars
  BY <1>7 DEF GameResets, Names
<1>8. ASSUME NEW delay \in Delays, TimePasses(delay), UNCHANGED lobbyVars PROVE OwnData'
  BY <1>8 DEF TimePasses
<1>9. ASSUME NEW name \in Names, Rename(name), UNCHANGED lobbyVars PROVE OwnData'
  <2>1. PlatformOf(name) \in {"steam", "unknown"}
    BY DEF PlatformOf
  <2>2. /\ wanted' = name /\ nameMap' = map /\ wantedPlatform' = PlatformOf(name)
        /\ renames' = renames + 1 /\ renames < MaxRenames
        /\ UNCHANGED <<ownName, tag, tagName, tagMap, resets, map>>
    BY <1>9 DEF Rename
  <2>3. /\ nameTries' \in {0, 1} /\ platformTries' \in {0, 1} /\ askedHere' \in {0, 1}
        /\ flight' \in {flight, Append(flight, name)}
        /\ waits' \in {waits, waits \cup {"name", "platform"}}
        /\ platform' \in {platform, PlatformOf(name)}
    BY <1>9 DEF Rename, ApplyPlatform
  <2>4. flight' \in Seq(Names) /\ waits' \subseteq Delays
    BY <2>3 DEF Delays
  <2> QED
    BY <2>1, <2>2, <2>3, <2>4
<1>10. CASE UNCHANGED vars
  BY <1>10 DEF vars
<1> QED
  BY <1>1, <1>2, <1>3, <1>4, <1>5, <1>6, <1>7, <1>8, <1>9, <1>10 DEF Next, OwnStep

(* The two modules keep what the other relies on: types and maps hold of *)
(* every reachable state.                                                *)
LEMMA TypesHold == Spec => [](TypeOK /\ Maps)
<1>1. Init => TypeOK /\ Maps
  <2> SUFFICES ASSUME Init PROVE TypeOK /\ Maps
    OBVIOUS
  <2>1. LobbyTypeOK /\ Maps
    BY BeginsSafe DEF Init
  <2>2. OwnTypeOK
    <3>1. OwnFlags
      BY DEF Init, OwnInit, OwnFlags
    <3>2. OwnData
      <4>1. map = 1 /\ <<>> \in Seq(Names)
        BY DEF Init, LobbyInit
      <4> QED
        BY <4>1, OwnNameAssumption DEF Init, OwnInit, OwnData, Names, Delays
    <3> QED
      BY <3>1, <3>2 DEF OwnTypeOK, OwnFlags, OwnData
  <2> QED
    BY <2>1, <2>2 DEF TypeOK
<1>2. TypeOK /\ Maps /\ [Next]_vars => (TypeOK /\ Maps)'
  <2>1. TypeOK <=> Flags /\ Data /\ OwnFlags /\ OwnData
    BY DEF TypeOK, LobbyTypeOK, OwnTypeOK, Flags, Data, OwnFlags, OwnData
  <2>2. TypeOK' <=> Flags' /\ Data' /\ OwnFlags' /\ OwnData'
    BY DEF TypeOK, LobbyTypeOK, OwnTypeOK, Flags, Data, OwnFlags, OwnData
  <2> QED
    BY <2>1, <2>2, FlagsStep, DataStep, MapsStep, OwnFlagsStep, OwnDataStep
<1> QED
  BY <1>1, <1>2, PTL DEF Spec

(* Each variable has its type, in both modules.                          *)
THEOREM TypeCorrect == Spec => []TypeOK
BY TypesHold, PTL

(* As long as no game state is made where the last one was, who is said to*)
(* have joined was not there when the map came up, or came too late for  *)
(* the list, and who is said to have left has left by himself.           *)
THEOREM AlertsTellTheTruth ==
  ASSUME ~MayReusePlace
  PROVE  Spec => []AlertsAreTrue
<1> DEFINE Inv == Stays /\ Current /\ AlertsAreTrue
<1>1. Init => Inv
  BY BeginsSafe DEF Init
<1>2. TypeOK /\ Maps /\ Inv /\ [Next]_vars => Inv'
  <2>1. TypeOK => Data
    BY DEF TypeOK, LobbyTypeOK, Data
  <2> QED
    BY <2>1, StaysStep, CurrentStep, AlertsStep
<1>3. Inv => AlertsAreTrue
  OBVIOUS
<1> QED
  BY <1>1, <1>2, <1>3, TypesHold, PTL DEF Spec

(* With Spectate off, or the mod gone, the camera is on you, unless you  *)
(* had no character or a late Spectate was run.                          *)
THEOREM CameraComesBack == Spec => []CameraIsYours
<1>1. Init => CameraIsYours
  BY BeginsSafe DEF Init
<1>2. TypeOK /\ CameraIsYours /\ [Next]_vars => CameraIsYours'
  BY CameraStep DEF TypeOK
<1> QED
  BY <1>1, <1>2, TypeCorrect, PTL DEF Spec

=============================================================================
