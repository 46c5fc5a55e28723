------------------------------ MODULE OwnName ------------------------------
(***************************************************************************)
(* Change Name of events/player_event.cpp: the name asked for, the platform*)
(* that follows it, and the tag on your character's back.  Each map brings *)
(* a player state of your own that is new, with your account's name and    *)
(* platform, so that the weak_object's of the code are maps here.  The     *)
(* names are the account's and one other; the server may refuse either.    *)
(* The row of the lobby list that is painted over is left out.             *)
(***************************************************************************)
EXTENDS Lobby

CONSTANTS
  Tries,       \* times a name or a platform is asked for: 3 in the code
  MaxRenames,  \* bound: clicks on Change Name
  MaxResets,   \* bound: times the game resets your name
  MaxLate      \* bound: requests not answered within the three seconds

ASSUME OwnNameAssumption ==
  Tries \in Nat \ {0} /\ MaxRenames \in Nat /\ MaxResets \in Nat /\ MaxLate \in Nat

VARIABLES
  host,           \* you are the host of this map
  ownName,        \* PlayerNamePrivate
  platform,       \* OnlinePlatformType
  tag,            \* the name on your character's back, "none" with no tag
  otherTags,      \* others wear tags
  flight,         \* Server_SetPlayerName's under way
  wanted,         \* g_spoof_name
  nameTries,      \* g_spoof_attempts
  nameMap,        \* g_spoof_state
  wantedPlatform, \* g_platform_type and g_platform_type_set
  platformTries,  \* g_platform_attempts
  tagName,        \* g_name_tag_name
  tagMap,         \* g_name_tag_state
  waits,          \* the delays of 3, 3 and 2 seconds that have not passed
  renames, resets,  \* bounds: so far, any number of which may be spent at first
  askedHere,      \* history: times asked, since the map or the click
  dressedLate     \* history: the tag was made anew, wrong, after it was seen to

serverVars   == <<ownName, flight>>
nameVars     == <<wanted, nameTries, nameMap, askedHere>>
platformVars == <<platform, wantedPlatform, platformTries>>
tagVars      == <<tag, otherTags, tagName, tagMap, dressedLate>>
ownVars      == <<host, serverVars, nameVars, platformVars, tagVars, waits, renames, resets>>

Names     == {"account", "other"}
Delays    == {"name", "platform", "tag"}

(* "Steam's is 4000, so any other number renders the row as another        *)
(* platform", which comes with another name.                               *)
PlatformOf(name) == IF name = "account" THEN "steam" ELSE "unknown"

OwnInit ==
  /\ host \in BOOLEAN /\ ownName = "account" /\ platform = "steam"
  /\ tag = "none" /\ otherTags \in BOOLEAN /\ flight = <<>>
  /\ wanted = "none" /\ nameTries = 0 /\ nameMap = 0
  /\ wantedPlatform = "none" /\ platformTries = 0
  /\ tagName = "none" /\ tagMap = 0
  /\ waits = {} /\ renames \in 0..MaxRenames /\ resets \in 0..MaxResets
  /\ askedHere = 0 /\ dressedLate = FALSE

-----------------------------------------------------------------------------
(* The game.                                                               *)

(* The map's going, and the next one's coming, for what is yours.          *)
OwnTravel ==
  /\ tag' = "none" /\ otherTags' = FALSE /\ flight' = <<>>
  /\ UNCHANGED <<host, ownName, nameVars, platformVars, tagName, tagMap,
                 dressedLate, waits, renames, resets>>

OwnArrive ==
  /\ host' \in BOOLEAN /\ otherTags' \in BOOLEAN
  /\ ownName' = "account" /\ platform' = "steam"
  /\ askedHere' = 0 /\ dressedLate' = FALSE
  /\ UNCHANGED <<tag, flight, wanted, nameTries, nameMap, wantedPlatform, platformTries,
                 tagName, tagMap, waits, renames, resets>>

(* Your character is dressed: the tag comes with the name already drawn.   *)
Dress ==
  /\ loaded
  /\ tag' = ownName
  /\ dressedLate' = (dressedLate \/ (tagMap = map /\ ownName # tagName))
  /\ UNCHANGED <<host, serverVars, nameVars, platformVars, otherTags, tagName, tagMap,
                 waits, renames, resets>>

ServerAnswers ==
  /\ flight # <<>>
  /\ flight' = Tail(flight)
  /\ ownName' \in {ownName, Head(flight)}
  /\ UNCHANGED <<host, nameVars, platformVars, tagVars, waits, renames, resets>>

(* "A name the game resets later."                                         *)
GameResets ==
  /\ loaded
  /\ resets < MaxResets
  /\ resets' = resets + 1
  /\ ownName' = "account"
  /\ UNCHANGED <<host, flight, nameVars, platformVars, tagVars, waits, renames>>

TimePasses(delay) ==
  /\ delay \in waits
  /\ delay = "name" => Len(flight) <= MaxLate
  /\ waits' = waits \ {delay}
  /\ UNCHANGED <<host, serverVars, nameVars, platformVars, tagVars, renames, resets>>

-----------------------------------------------------------------------------
(* The mod.                                                                *)

(* The host writes the field; the server takes from a client only the      *)
(* platform it is really on, which its field has anyway.                   *)
ApplyPlatform(type) == platform' = IF host THEN type ELSE platform

(* apply_name, of the name typed or, for an empty box, the account's.      *)
Rename(name) ==
  /\ worker /\ loaded
  /\ renames < MaxRenames
  /\ renames' = renames + 1
  /\ wanted' = name /\ nameMap' = map
  /\ wantedPlatform' = PlatformOf(name)
  /\ IF name = ownName
     THEN /\ nameTries' = 0 /\ platformTries' = 0 /\ askedHere' = 0
          /\ UNCHANGED <<platform, flight, waits>>
     ELSE /\ nameTries' = 1 /\ platformTries' = 1 /\ askedHere' = 1
          /\ flight' = Append(flight, name)
          /\ waits' = waits \cup {"name", "platform"}
          /\ ApplyPlatform(PlatformOf(name))
  /\ UNCHANGED <<host, ownName, tagVars, resets>>

(* Mutant of TriesOn: a new lobby goes on with the tries of the last one.  *)
TriesOn_All(state) == nameTries

(* "A new lobby brings a new player state, which starts the asking over."  *)
TriesOn(state) == IF nameMap = state THEN nameTries ELSE 0

(* keep_name.                                                              *)
KeepName ==
  LET asks == ownName # wanted /\ TriesOn(map) < Tries /\ "name" \notin waits IN
  IF wanted = "none"
  THEN UNCHANGED <<nameTries, nameMap, askedHere, flight>>
  ELSE /\ nameMap' = map
       /\ nameTries' = IF ownName = wanted THEN 0 ELSE IF asks THEN TriesOn(map) + 1 ELSE TriesOn(map)
       /\ IF asks
          THEN flight' = Append(flight, wanted) /\ askedHere' = IF askedHere < Tries THEN askedHere + 1 ELSE Tries
          ELSE UNCHANGED <<flight, askedHere>>

(* Mutant of MayTryPlatform: the host gives up as a client does.           *)
MayTryPlatform_All == platformTries < Tries

MayTryPlatform == host \/ platformTries < Tries

(* keep_platform.  The tries are not started over by a new lobby, and a    *)
(* host's are not counted past the last, which says no more.               *)
KeepPlatform ==
  IF wantedPlatform = "none" \/ (platform # wantedPlatform /\ ~(MayTryPlatform /\ "platform" \notin waits))
  THEN UNCHANGED <<platform, platformTries>>
  ELSE IF platform = wantedPlatform
  THEN platformTries' = 0 /\ UNCHANGED platform
  ELSE /\ platformTries' = IF platformTries < Tries THEN platformTries + 1 ELSE Tries
       /\ ApplyPlatform(wantedPlatform)

(* Mutant of TagIsDue: the tag is built before the name has been taken.    *)
TagIsDue_Early ==
  /\ wanted # "none"
  /\ ~(tagMap = map /\ tagName = wanted)
  /\ "tag" \notin waits

(* "The game has not taken the name yet, so a tag built now would read the *)
(* old one."                                                               *)
TagIsDue ==
  /\ wanted # "none" /\ ownName = wanted
  /\ ~(tagMap = map /\ tagName = wanted)
  /\ "tag" \notin waits

(* refresh_name_tags: your own tag is built again.  When nobody has one,   *)
(* the pass is counted, and the sixtieth gives up; the count is never set  *)
(* back by that, so that any pass of a later map may be the last.          *)
RefreshNameTags ==
  IF ~TagIsDue
  THEN UNCHANGED <<tag, tagName, tagMap, dressedLate>>
  ELSE \/ /\ tag # "none"
          /\ tag' = ownName
          /\ tagName' = wanted /\ tagMap' = map
          /\ dressedLate' = FALSE
       \/ /\ tag = "none" /\ ~otherTags
          /\ tagName' = wanted /\ tagMap' = map
          /\ UNCHANGED <<tag, dressedLate>>
       \/ /\ tag = "none"
          /\ UNCHANGED <<tag, tagName, tagMap, dressedLate>>

(* tick, as far as it is about you.                                        *)
NameTick ==
  IF ~loaded
  THEN UNCHANGED ownVars
  ELSE /\ KeepName /\ RefreshNameTags /\ KeepPlatform
       /\ waits' = waits \cup (IF flight' # flight THEN {"name"} ELSE {})
                         \cup (IF TagIsDue THEN {"tag"} ELSE {})
                         \cup (IF wantedPlatform # "none" /\ platform # wantedPlatform /\ MayTryPlatform
                               THEN {"platform"} ELSE {})
       /\ UNCHANGED <<host, ownName, wanted, wantedPlatform, otherTags, renames, resets>>

(* Steps in which module Lobby has no part.                                *)
OwnStep ==
  \/ Dress \/ ServerAnswers \/ GameResets
  \/ \E delay \in Delays : TimePasses(delay)
  \/ \E name \in Names : Rename(name)

-----------------------------------------------------------------------------
(* Each variable has its type.                                             *)
OwnTypeOK ==
  /\ host \in BOOLEAN /\ ownName \in Names /\ platform \in {"steam", "unknown"}
  /\ tag \in Names \cup {"none"} /\ otherTags \in BOOLEAN
  /\ flight \in Seq(Names) /\ wanted \in Names \cup {"none"}
  /\ nameTries \in 0..Tries /\ nameMap \in 0..map
  /\ wantedPlatform \in {"steam", "unknown", "none"} /\ platformTries \in 0..Tries
  /\ tagName \in Names \cup {"none"} /\ tagMap \in 0..map
  /\ waits \subseteq Delays /\ renames \in 0..MaxRenames /\ resets \in 0..MaxResets
  /\ askedHere \in 0..Tries /\ dressedLate \in BOOLEAN

Idle == ~loaded \/ ~worker

(* The name you want is yours in every lobby, or has been asked for as     *)
(* often as it may be: "the asking stops after a few tries" and "a new     *)
(* lobby brings a new player state, which starts the asking over".         *)
NameIsAskedFor == wanted # "none" ~> (ownName = wanted \/ askedHere >= Tries \/ Idle)

(* As the host you have the platform that goes with the name, however      *)
(* often it was refused where you were a client.                           *)
PlatformFollows == wantedPlatform # "none" /\ host ~> (platform = wantedPlatform \/ ~host \/ Idle)

(* A tag on your back comes to show the name you have, unless it was made  *)
(* anew with another name after it was seen to: that one is never built    *)
(* again.                                                                  *)
TagFollows ==
  wanted # "none" /\ tag # "none"
    ~> (ownName # wanted \/ tag \in {wanted, "none"} \/ dressedLate \/ Idle)

=============================================================================
